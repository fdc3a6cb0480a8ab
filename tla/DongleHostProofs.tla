-------------------------- MODULE DongleHostProofs ---------------------------
(* Proofs about DongleHost, for every set of slaves, every table size, every  *)
(* number of requests of a discovery and every length of the event queue.     *)
(*                                                                            *)
(* The inductive invariant says what the queue of events may hold while the   *)
(* host lags behind the radio, and ties a request of the discovery to the     *)
(* connection it was sent on.                                                 *)
EXTENDS DongleHost, SequenceTheorems, TLAPS

Kinds == {"establish", "disconnect", "answer", "unpairKey", "updateReq"}
EventRec == [kind : Kinds, dev : Device]

Linked == ctrl \in {"conn", "closing"}
Unlinked == ctrl \in {"scan", "init", "opening"}

(* The radio has a peer while it connects or is connected. *)
PeerKnown == ctrl \in {"init", "opening", "conn", "closing"} => peer \in Device

(* Everything in the queue belongs to one connection: the establish event is  *)
(* first, and the host is not connected before it is delivered; the           *)
(* disconnect event is last, and the radio stays off until it is delivered.   *)
QueueShape ==
    /\ Unlinked => evq = <<>> /\ ~connected
    /\ ctrl = "off" => evq # <<>> /\ evq[Len(evq)].kind = "disconnect"
    /\ ctrl = "closing" => connected
    /\ \A i \in 1 .. Len(evq) :
         /\ evq[i].kind = "establish" => i = 1 /\ ~connected
         /\ evq[i].kind = "disconnect" => i = Len(evq) /\ ctrl = "off"

(* ... and to one slave, the peer of the radio and cur_conn_device.           *)
QueueOneSlave ==
    /\ \A i, j \in 1 .. Len(evq) : evq[i].dev = evq[j].dev
    /\ \A i \in 1 .. Len(evq) :
         /\ Linked => evq[i].dev = peer
         /\ connected => evq[i].dev = curDev
    /\ Linked /\ connected => curDev = peer

(* A request of the discovery has an answer to come. *)
AnswerDue == asked \/ \E i \in 1 .. Len(evq) : evq[i].kind = "answer"

(* An answer can only come on the connection the request was sent on, and as  *)
(* long as SDP_PENDING would have it copied, the discovery waits for it.      *)
RequestOnLink ==
    /\ asked => Linked
    /\ AnswerDue => connected /\ (disc > 0 \/ ~sdpPending)
    /\ sdpPending => connected

(* Once an answer is copied no event is delivered before the discovery goes   *)
(* on, and so far all answers came from cur_conn_device.                      *)
AnswersFromCurrent ==
    /\ (disc > 0 /\ ~busy) => phase # "events" /\ sdpPending /\ answers = {curDev}
    /\ (disc > 0 /\ AnswerDue) => answers \subseteq {curDev}

(* The slave paired by hand is not in the table. *)
ManPairNew == manPair # None => ~Contains(bonded, manPair)

(* A parameter request is from the slave of the connection. *)
UpdateOfPeer ==
    /\ Unlinked => updReq = None
    /\ Linked => updReq \in {None, peer}

IndInv ==
    /\ NoDuplicateBond /\ ManPairNew
    /\ PeerKnown /\ QueueShape /\ QueueOneSlave
    /\ RequestOnLink /\ AnswersFromCurrent
    /\ PendingHasService /\ UnpairLeavesNoBond /\ UpdateOfPeer

-----------------------------------------------------------------------------
(* Facts about sequences. *)

LEMMA AppendFacts ==
    ASSUME NEW S, NEW s \in Seq(S), NEW e \in S
    PROVE  /\ Append(s, e) \in Seq(S) /\ Len(Append(s, e)) = Len(s) + 1 /\ Len(s) \in Nat
           /\ \A i \in 1 .. Len(s) : Append(s, e)[i] = s[i] /\ s[i] \in S
           /\ Append(s, e)[Len(s) + 1] = e
           /\ Append(s, e) # <<>>
  OBVIOUS

LEMMA TailFacts ==
    ASSUME NEW S, NEW s \in Seq(S), s # <<>>
    PROVE  /\ Tail(s) \in Seq(S) /\ Len(Tail(s)) = Len(s) - 1 /\ Len(s) \in Nat \ {0}
           /\ \A i \in 1 .. Len(s) - 1 : Tail(s)[i] = s[i + 1]
           /\ \A i \in 1 .. Len(s) : s[i] \in S
           /\ Head(s) = s[1] /\ Head(s) \in S
  OBVIOUS

(* Taking one entry out of a table of different slaves. *)
LEMMA RemoveAtFacts ==
    ASSUME NEW S, NEW s \in Seq(S), NEW i \in 1 .. Len(s)
    PROVE  /\ RemoveAt(s, i) \in Seq(S) /\ Len(RemoveAt(s, i)) = Len(s) - 1
           /\ Len(s) \in Nat
           /\ \A j \in 1 .. Len(s) - 1 :
                 RemoveAt(s, i)[j] = IF j < i THEN s[j] ELSE s[j + 1]
  <1> DEFINE a == SubSeq(s, 1, i - 1)
             b == SubSeq(s, i + 1, Len(s))
  <1>0. Len(s) \in Nat /\ i \in Nat
    OBVIOUS
  <1>1. /\ a \in Seq(S) /\ Len(a) = i - 1
        /\ \A j \in 1 .. i - 1 : a[j] = s[j]
    OBVIOUS
  <1>2. /\ b \in Seq(S) /\ Len(b) = Len(s) - i
        /\ \A j \in 1 .. Len(s) - i : b[j] = s[i + j]
    OBVIOUS
  <1>3. RemoveAt(s, i) = a \o b
    BY DEF RemoveAt
  <1> HIDE DEF a, b
  <1>4. /\ a \o b \in Seq(S) /\ Len(a \o b) = Len(a) + Len(b)
        /\ \A j \in 1 .. Len(a) + Len(b) :
              (a \o b)[j] = IF j <= Len(a) THEN a[j] ELSE b[j - Len(a)]
    BY <1>1, <1>2, ConcatProperties
  <1>5. ASSUME NEW j \in 1 .. Len(s) - 1
        PROVE  (a \o b)[j] = IF j < i THEN s[j] ELSE s[j + 1]
    <2>1. (a \o b)[j] = IF j < i THEN a[j] ELSE b[j - (i - 1)]
      BY <1>0, <1>1, <1>2, <1>4
    <2>2. CASE j < i
      BY <2>1, <2>2, <1>0, <1>1
    <2>3. CASE ~(j < i)
      <3>1. j - (i - 1) \in 1 .. Len(s) - i /\ i + (j - (i - 1)) = j + 1
        BY <2>3, <1>0
      <3> QED
        BY <2>1, <2>3, <3>1, <1>2
    <2> QED
      BY <2>2, <2>3
  <1> QED
    BY <1>0, <1>1, <1>2, <1>3, <1>4, <1>5

-----------------------------------------------------------------------------
(* What the host takes from the queue. *)
LEMMA DeliverFacts ==
    ASSUME IndInv, NEW k, Deliver(k)
    PROVE  /\ Len(evq) \in Nat \ {0} /\ Len(evq') = Len(evq) - 1
           /\ evq' \in Seq(EventRec)
           /\ \A i \in 1 .. Len(evq) : evq[i] \in EventRec
           /\ \A i \in 1 .. Len(evq') : evq'[i] = evq[i + 1] /\ i + 1 \in 1 .. Len(evq)
           /\ Head(evq) = evq[1] /\ Head(evq).dev \in Device /\ Head(evq).kind = k
           /\ phase = "events" /\ phase' = "button"
           /\ ~Unlinked
  <1>1. evq \in Seq(EventRec) /\ evq # <<>>
    BY DEF IndInv, NoDuplicateBond, TypeOK, Deliver, EventRec, Kinds
  <1>2. ~Unlinked
    BY <1>1 DEF IndInv, QueueShape
  <1>3. Head(evq) \in EventRec
    BY <1>1, TailFacts
  <1>4. Head(evq).dev \in Device
    BY <1>3 DEF EventRec
  <1>5. /\ Tail(evq) \in Seq(EventRec) /\ Len(Tail(evq)) = Len(evq) - 1
        /\ Len(evq) \in Nat \ {0}
        /\ \A i \in 1 .. Len(evq) - 1 : Tail(evq)[i] = evq[i + 1]
        /\ \A i \in 1 .. Len(evq) : evq[i] \in EventRec
        /\ Head(evq) = evq[1]
    BY <1>1, TailFacts
  <1>6. evq' = Tail(evq) /\ Head(evq).kind = k /\ phase = "events" /\ phase' = "button"
    BY DEF Deliver
  <1> QED
    BY <1>2, <1>4, <1>5, <1>6

(* The part of the invariant about the queue when an event other than the     *)
(* establish event leaves it and neither the connection nor the slave changes. *)
LEMMA QueueShrinks ==
    ASSUME IndInv, NEW k, Deliver(k),
           ctrl' = ctrl, peer' = peer, connected' = connected, curDev' = curDev,
           k # "disconnect"
    PROVE  QueueShape' /\ QueueOneSlave'
  <1>1. QueueShape'
    <2>1. ctrl = "off" => Len(evq) > 1
      BY DeliverFacts DEF IndInv, QueueShape
    <2>2. ctrl' = "off" => evq' # <<>> /\ evq'[Len(evq')].kind = "disconnect"
      BY <2>1, DeliverFacts DEF IndInv, QueueShape
    <2>3. ASSUME NEW i \in 1 .. Len(evq')
          PROVE  /\ evq'[i].kind = "establish" => i = 1 /\ ~connected'
                 /\ evq'[i].kind = "disconnect" => i = Len(evq') /\ ctrl' = "off"
      BY DeliverFacts DEF IndInv, QueueShape
    <2> QED
      BY <2>2, <2>3, DeliverFacts DEF IndInv, QueueShape, Unlinked
  <1>2. QueueOneSlave'
    <2>1. ASSUME NEW i \in 1 .. Len(evq')
          PROVE  /\ evq'[i].dev = evq[1].dev
                 /\ Linked => evq'[i].dev = peer
                 /\ connected => evq'[i].dev = curDev
      BY DeliverFacts DEF IndInv, QueueOneSlave
    <2> QED
      BY <2>1 DEF IndInv, QueueOneSlave, Linked
  <1> QED
    BY <1>1, <1>2

(* The radio. *)
LEMMA RadioConnectStep == ASSUME IndInv, RadioConnect PROVE IndInv'
  BY DongleAssumption
  DEF RadioConnect, host, sdp, pairing,
         IndInv, NoDuplicateBond, TypeOK, ManPairNew, PeerKnown, QueueShape, QueueOneSlave,
         RequestOnLink, AnswersFromCurrent, PendingHasService, UnpairLeavesNoBond, UpdateOfPeer,
         Linked, Unlinked, AnswerDue, Contains, IsInjective

LEMMA RadioEstablishStep == ASSUME IndInv, RadioEstablish PROVE IndInv'
  BY DongleAssumption
  DEF RadioEstablish, host, sdp, pairing,
         IndInv, NoDuplicateBond, TypeOK, ManPairNew, PeerKnown, QueueShape, QueueOneSlave,
         RequestOnLink, AnswersFromCurrent, PendingHasService, UnpairLeavesNoBond, UpdateOfPeer,
         Linked, Unlinked, AnswerDue, Contains, IsInjective

LEMMA RadioDropStep == ASSUME IndInv, RadioDrop PROVE IndInv'
  <1>1. TypeOK'
    <2>1. [kind |-> "disconnect", dev |-> peer] \in EventRec
      BY DEF RadioDrop, InConn, IndInv, PeerKnown, EventRec, Kinds
    <2>2. evq \in Seq(EventRec)
      BY DEF IndInv, NoDuplicateBond, TypeOK, EventRec, Kinds
    <2>3. evq' \in Seq(EventRec)
      BY <2>1, <2>2, AppendFacts DEF RadioDrop
    <2>4. ctrl' = "off" /\ peer' = None /\ asked' = FALSE /\ UNCHANGED host
      BY DEF RadioDrop
    <2>5. /\ ctrl' \in {"scan", "init", "opening", "conn", "closing", "off"}
          /\ peer' \in Device \cup {None} /\ asked' \in BOOLEAN /\ evq' \in Seq(EventRec)
          /\ phase' \in {"events", "button", "pair", "update", "service"}
          /\ connected' \in BOOLEAN /\ curDev' \in Device \cup {None}
      BY <2>1, <2>2, <2>3, <2>4 DEF IndInv, NoDuplicateBond, TypeOK, EventRec, Kinds, host, sdp, pairing
    <2>6. /\ sdpPending' \in BOOLEAN /\ mainService' \in BOOLEAN
          /\ disc' \in 0 .. Rounds /\ busy' \in BOOLEAN /\ answers' \subseteq Device
          /\ sdpAddr' \in Device \cup {None} /\ tried' \in BOOLEAN
      BY <2>1, <2>2, <2>3, <2>4 DEF IndInv, NoDuplicateBond, TypeOK, EventRec, Kinds, host, sdp, pairing
    <2>7. /\ manPair' \in Device \cup {None}
          /\ bonded' \in Seq(Device) /\ Len(bonded') <= MaxNum
          /\ pairEn' \in BOOLEAN /\ unpairEn' \in BOOLEAN /\ termFlag' \in BOOLEAN
          /\ updReq' \in Device \cup {None}
      BY <2>1, <2>2, <2>3, <2>4 DEF IndInv, NoDuplicateBond, TypeOK, EventRec, Kinds, host, sdp, pairing
    <2> QED
      BY <2>5, <2>6, <2>7 DEF TypeOK, EventRec, Kinds
  <1>2. IsInjective(bonded') /\ ManPairNew' /\ PeerKnown' /\ QueueShape' /\ QueueOneSlave'
        /\ RequestOnLink' /\ AnswersFromCurrent' /\ PendingHasService' /\
        UnpairLeavesNoBond' /\ UpdateOfPeer'
    BY DongleAssumption
    DEF RadioDrop, InConn, host, sdp, pairing,
         IndInv, NoDuplicateBond, TypeOK, ManPairNew, PeerKnown, QueueShape, QueueOneSlave,
         RequestOnLink, AnswersFromCurrent, PendingHasService, UnpairLeavesNoBond, UpdateOfPeer,
         Linked, Unlinked, AnswerDue, Contains, IsInjective
  <1> QED
    BY <1>1, <1>2 DEF IndInv, NoDuplicateBond

LEMMA RadioReceiveStep == ASSUME IndInv,
    NEW k \in {"answer", "unpairKey", "updateReq"}, RadioReceive(k) PROVE IndInv'
  BY DongleAssumption
  DEF RadioReceive, host, sdp, pairing,
         IndInv, NoDuplicateBond, TypeOK, ManPairNew, PeerKnown, QueueShape, QueueOneSlave,
         RequestOnLink, AnswersFromCurrent, PendingHasService, UnpairLeavesNoBond, UpdateOfPeer,
         Linked, Unlinked, AnswerDue, Contains, IsInjective

(* The callbacks. *)
LEMMA NoEventStep == ASSUME IndInv, NoEvent PROVE IndInv'
  BY DongleAssumption
  DEF NoEvent, radio, sdp, pairing,
         IndInv, NoDuplicateBond, TypeOK, ManPairNew, PeerKnown, QueueShape, QueueOneSlave,
         RequestOnLink, AnswersFromCurrent, PendingHasService, UnpairLeavesNoBond, UpdateOfPeer,
         Linked, Unlinked, AnswerDue, Contains, IsInjective

LEMMA ConnectionEstablishStep == ASSUME IndInv, ConnectionEstablish PROVE IndInv'
  <1>1. TypeOK'
    <2>1. evq' \in Seq(EventRec) /\ phase' = "button"
      BY DeliverFacts DEF ConnectionEstablish
    <2>2. Head(evq).dev \in Device
      BY DeliverFacts DEF ConnectionEstablish
    <2>3. bonded' \in Seq(Device) /\ Len(bonded') <= MaxNum
      BY DongleAssumption, <2>2 DEF ConnectionEstablish, MacAdd, IndInv, NoDuplicateBond, TypeOK
    <2>4. manPair' \in Device \cup {None} /\ mainService' \in BOOLEAN /\ sdpPending' \in BOOLEAN
      BY DEF ConnectionEstablish, KnownSlave, IndInv, NoDuplicateBond, TypeOK
    <2>5. /\ connected' = TRUE /\ curDev' = Head(evq).dev /\ tried' = FALSE
          /\ ctrl' = ctrl /\ peer' = peer /\ asked' = asked /\ disc' = disc /\ busy' = busy
          /\ answers' = answers /\ sdpAddr' = sdpAddr /\ pairEn' = pairEn
          /\ unpairEn' = unpairEn /\ termFlag' = termFlag /\ updReq' = updReq
      BY DEF ConnectionEstablish
    <2>6. TypeOK
      BY DEF IndInv, NoDuplicateBond
    <2>7. /\ ctrl' \in {"scan", "init", "opening", "conn", "closing", "off"}
          /\ peer' \in Device \cup {None} /\ asked' \in BOOLEAN
          /\ connected' \in BOOLEAN /\ curDev' \in Device \cup {None}
      BY <2>1, <2>2, <2>3, <2>4, <2>5, <2>6 DEF TypeOK
    <2>8. /\ sdpPending' \in BOOLEAN /\ mainService' \in BOOLEAN /\ disc' \in 0 .. Rounds
          /\ busy' \in BOOLEAN /\ answers' \subseteq Device
          /\ sdpAddr' \in Device \cup {None} /\ tried' \in BOOLEAN
      BY <2>1, <2>2, <2>3, <2>4, <2>5, <2>6 DEF TypeOK
    <2>9. /\ manPair' \in Device \cup {None} /\ bonded' \in Seq(Device) /\ Len(bonded') <= MaxNum
          /\ pairEn' \in BOOLEAN /\ unpairEn' \in BOOLEAN /\ termFlag' \in BOOLEAN
          /\ updReq' \in Device \cup {None}
      BY <2>1, <2>2, <2>3, <2>4, <2>5, <2>6 DEF TypeOK
    <2> QED
      BY <2>1, <2>7, <2>8, <2>9 DEF TypeOK, EventRec, Kinds
  <1>2. IsInjective(bonded') /\ ManPairNew'
    <2>1. bonded \in Seq(Device) /\ Head(evq).dev \in Device
      BY DeliverFacts DEF ConnectionEstablish, IndInv, NoDuplicateBond, TypeOK
    <2>2. CASE manPair # Head(evq).dev
      BY <2>2 DEF ConnectionEstablish, IndInv, NoDuplicateBond, ManPairNew
    <2>3. CASE manPair = Head(evq).dev
      <3>1. manPair' = None /\ bonded' = MacAdd(manPair) /\ manPair \in Device
        BY <2>1, <2>3 DEF ConnectionEstablish
      <3>2. manPair # None
        BY <3>1, DongleAssumption
      <3>3. \A i, j \in 1 .. Len(bonded) : bonded[i] = bonded[j] => i = j
        BY <2>1 DEF IndInv, NoDuplicateBond, IsInjective
      <3>4. \A i \in 1 .. Len(bonded) : bonded[i] # manPair
        BY <3>2 DEF IndInv, ManPairNew, Contains
      <3>5. PICK kept \in Seq(Device) :
              /\ bonded' = Append(kept, manPair)
              /\ \A i, j \in 1 .. Len(kept) : kept[i] = kept[j] => i = j
              /\ \A i \in 1 .. Len(kept) : kept[i] # manPair
        <4>1. CASE Len(bonded) >= MaxNum
          <5>1. bonded # <<>>
            BY <2>1, <4>1, DongleAssumption
          <5>2. Tail(bonded) \in Seq(Device) /\ bonded' = Append(Tail(bonded), manPair)
            BY <2>1, <3>1, <4>1, <5>1 DEF MacAdd
          <5>3. /\ Len(Tail(bonded)) = Len(bonded) - 1 /\ Len(bonded) \in Nat
                /\ \A i \in 1 .. Len(bonded) - 1 : Tail(bonded)[i] = bonded[i + 1]
            BY <2>1, <5>1, TailFacts
          <5>4. \A i, j \in 1 .. Len(Tail(bonded)) : Tail(bonded)[i] = Tail(bonded)[j] => i = j
            BY <3>3, <5>3
          <5>5. \A i \in 1 .. Len(Tail(bonded)) : Tail(bonded)[i] # manPair
            BY <3>4, <5>3
          <5> QED
            BY <5>2, <5>4, <5>5
        <4>2. CASE ~(Len(bonded) >= MaxNum)
          BY <2>1, <3>1, <3>3, <3>4, <4>2 DEF MacAdd
        <4> QED
          BY <4>1, <4>2
      <3>6. IsInjective(bonded')
        BY <3>1, <3>5, AppendFacts DEF IsInjective
      <3> QED
        BY <3>1, <3>6 DEF ManPairNew
    <2> QED
      BY <2>2, <2>3
  <1>3. RequestOnLink' /\ AnswersFromCurrent' /\ UnpairLeavesNoBond'
    <2>1. ~connected /\ ctrl' = ctrl /\ asked' = asked /\ connected' /\ disc' = disc /\ busy' = busy
      BY DeliverFacts DEF ConnectionEstablish, IndInv, QueueShape
    <2>2. ~AnswerDue /\ ctrl # "closing"
      BY <2>1 DEF IndInv, RequestOnLink, QueueShape
    <2>3. ~AnswerDue'
      BY <2>1, <2>2, DeliverFacts DEF ConnectionEstablish, AnswerDue
    <2>4. disc = 0 \/ busy
      BY DeliverFacts DEF ConnectionEstablish, IndInv, AnswersFromCurrent, NoDuplicateBond, TypeOK
    <2> QED
      BY <2>1, <2>2, <2>3, <2>4 DEF RequestOnLink, AnswersFromCurrent, UnpairLeavesNoBond, AnswerDue, Linked
  <1>4. QueueShape'
    <2>1. ctrl' = ctrl /\ connected' /\ ~Unlinked /\ Len(evq) \in Nat
      BY DeliverFacts DEF ConnectionEstablish
    <2>2. ASSUME NEW i \in 1 .. Len(evq')
          PROVE  /\ evq'[i].kind # "establish"
                 /\ evq'[i].kind = "disconnect" => i = Len(evq') /\ ctrl' = "off"
      BY <2>1, DeliverFacts DEF IndInv, QueueShape, ConnectionEstablish
    <2>3. ctrl = "off" => Len(evq) > 1
      BY DeliverFacts DEF IndInv, QueueShape, ConnectionEstablish
    <2>4. ctrl' = "off" => evq' # <<>> /\ evq'[Len(evq')].kind = "disconnect"
      BY <2>1, <2>3, DeliverFacts DEF IndInv, QueueShape, ConnectionEstablish
    <2> QED
      BY <2>1, <2>2, <2>4 DEF QueueShape, Unlinked
  <1>5. QueueOneSlave'
    <2>1. ASSUME NEW i \in 1 .. Len(evq')
          PROVE  evq'[i].dev = evq[1].dev /\ (Linked => evq'[i].dev = peer)
      BY DeliverFacts DEF IndInv, QueueOneSlave, ConnectionEstablish
    <2>2. curDev' = evq[1].dev /\ (Linked => evq[1].dev = peer) /\ (Linked <=> Linked') /\ peer' = peer
      BY DeliverFacts DEF IndInv, QueueOneSlave, ConnectionEstablish, Linked
    <2> QED
      BY <2>1, <2>2 DEF QueueOneSlave
  <1>6. PeerKnown' /\ PendingHasService' /\ UpdateOfPeer'
    BY DEF ConnectionEstablish, IndInv, PeerKnown, PendingHasService, UpdateOfPeer, Linked, Unlinked
  <1> QED
    BY <1>1, <1>2, <1>3, <1>4, <1>5, <1>6 DEF IndInv, NoDuplicateBond

LEMMA DisconnectStep == ASSUME IndInv, Disconnect PROVE IndInv'
  <1>1. TypeOK'
    <2>1. evq' \in Seq(EventRec) /\ phase' = "button"
      BY DeliverFacts DEF Disconnect
    <2>2. /\ connected' = FALSE /\ sdpPending' = FALSE /\ updReq' = None /\ ctrl' = "scan"
          /\ peer' = peer /\ asked' = asked /\ curDev' = curDev /\ mainService' = mainService
          /\ disc' = disc /\ busy' = busy /\ answers' = answers /\ sdpAddr' = sdpAddr
          /\ tried' = tried /\ manPair' = manPair /\ bonded' = bonded /\ pairEn' = pairEn
          /\ unpairEn' = unpairEn /\ termFlag' = termFlag
      BY DEF Disconnect, pairing
    <2>3. TypeOK
      BY DEF IndInv, NoDuplicateBond
    <2>4. /\ ctrl' \in {"scan", "init", "opening", "conn", "closing", "off"}
          /\ peer' \in Device \cup {None} /\ asked' \in BOOLEAN
          /\ connected' \in BOOLEAN /\ curDev' \in Device \cup {None}
      BY <2>1, <2>2, <2>3 DEF TypeOK
    <2>5. /\ sdpPending' \in BOOLEAN /\ mainService' \in BOOLEAN /\ disc' \in 0 .. Rounds
          /\ busy' \in BOOLEAN /\ answers' \subseteq Device
          /\ sdpAddr' \in Device \cup {None} /\ tried' \in BOOLEAN
      BY <2>1, <2>2, <2>3 DEF TypeOK
    <2>6. /\ manPair' \in Device \cup {None} /\ bonded' \in Seq(Device) /\ Len(bonded') <= MaxNum
          /\ pairEn' \in BOOLEAN /\ unpairEn' \in BOOLEAN /\ termFlag' \in BOOLEAN
          /\ updReq' \in Device \cup {None}
      BY <2>1, <2>2, <2>3 DEF TypeOK
    <2> QED
      BY <2>1, <2>4, <2>5, <2>6 DEF TypeOK, EventRec, Kinds
  <1>2. QueueShape' /\ QueueOneSlave'
    <2>1. evq[1].kind = "disconnect" /\ 1 \in 1 .. Len(evq)
      BY DeliverFacts DEF Disconnect
    <2>2. Len(evq) = 1
      BY <2>1 DEF IndInv, QueueShape
    <2>3. Len(evq') = 0 /\ evq' \in Seq(EventRec)
      BY <2>2, DeliverFacts DEF Disconnect
    <2>4. evq' = <<>>
      BY <2>3
    <2> QED
      BY <2>3, <2>4 DEF Disconnect, QueueShape, QueueOneSlave, Unlinked, Linked
  <1>3. IsInjective(bonded') /\ ManPairNew' /\ PeerKnown' /\ RequestOnLink' /\
        AnswersFromCurrent' /\ PendingHasService' /\ UnpairLeavesNoBond' /\ UpdateOfPeer'
    BY DongleAssumption, DeliverFacts
    DEF Disconnect, EventRec, Kinds, KnownSlave, MacAdd, sdp, pairing,
         IndInv, NoDuplicateBond, TypeOK, ManPairNew, PeerKnown, QueueShape, QueueOneSlave,
         RequestOnLink, AnswersFromCurrent, PendingHasService, UnpairLeavesNoBond, UpdateOfPeer,
         Linked, Unlinked, AnswerDue, Contains, IsInjective
  <1> QED
    BY <1>1, <1>2, <1>3 DEF IndInv, NoDuplicateBond

LEMMA AttAnswerStep == ASSUME IndInv, AttAnswer PROVE IndInv'
  <1>1. TypeOK'
    <2>1. evq' \in Seq(EventRec) /\ phase' = "button"
      BY DeliverFacts DEF AttAnswer
    <2>2. Head(evq).dev \in Device
      BY DeliverFacts DEF AttAnswer
    <2> QED
      BY <2>1, <2>2 DEF IndInv, NoDuplicateBond, TypeOK, AttAnswer, Deliver, sdp, pairing, EventRec, Kinds
  <1>2. QueueShape' /\ QueueOneSlave'
    BY QueueShrinks DEF AttAnswer
  <1>3. IsInjective(bonded') /\ ManPairNew' /\ PeerKnown' /\ RequestOnLink' /\
        AnswersFromCurrent' /\ PendingHasService' /\ UnpairLeavesNoBond' /\ UpdateOfPeer'
    BY DongleAssumption, DeliverFacts
    DEF AttAnswer, EventRec, Kinds, KnownSlave, MacAdd, sdp, pairing,
         IndInv, NoDuplicateBond, TypeOK, ManPairNew, PeerKnown, QueueShape, QueueOneSlave,
         RequestOnLink, AnswersFromCurrent, PendingHasService, UnpairLeavesNoBond, UpdateOfPeer,
         Linked, Unlinked, AnswerDue, Contains, IsInjective
  <1> QED
    BY <1>1, <1>2, <1>3 DEF IndInv, NoDuplicateBond

LEMMA UnpairKeyStep == ASSUME IndInv, UnpairKey PROVE IndInv'
  <1>1. TypeOK'
    <2>1. evq' \in Seq(EventRec) /\ phase' = "button"
      BY DeliverFacts DEF UnpairKey
    <2>2. unpairEn' \in BOOLEAN
      BY DEF UnpairKey, IndInv, NoDuplicateBond, TypeOK
    <2> QED
      BY <2>1, <2>2 DEF IndInv, NoDuplicateBond, TypeOK, UnpairKey, Deliver, sdp, pairing, EventRec, Kinds
  <1>2. QueueShape' /\ QueueOneSlave'
    BY QueueShrinks DEF UnpairKey
  <1>3. IsInjective(bonded') /\ ManPairNew' /\ PeerKnown' /\ RequestOnLink' /\
        AnswersFromCurrent' /\ PendingHasService' /\ UnpairLeavesNoBond' /\ UpdateOfPeer'
    <2>1. AnswerDue' => AnswerDue
      BY DeliverFacts DEF UnpairKey, AnswerDue
    <2>2. /\ phase' # "events"
          /\ UNCHANGED <<ctrl, peer, connected, curDev, manPair, bonded, termFlag, updReq>>
          /\ UNCHANGED <<asked, sdpPending, mainService, disc, busy, answers>>
      BY DEF UnpairKey, Deliver, sdp
    <2>3. IsInjective(bonded') /\ ManPairNew' /\ PeerKnown' /\ UpdateOfPeer'
      BY <2>2 DEF IndInv, NoDuplicateBond, ManPairNew, PeerKnown, UpdateOfPeer, Linked, Unlinked
    <2>4. PendingHasService' /\ UnpairLeavesNoBond'
      BY <2>2 DEF IndInv, PendingHasService, UnpairLeavesNoBond
    <2>5. RequestOnLink' /\ AnswersFromCurrent'
      BY <2>1, <2>2 DEF IndInv, RequestOnLink, AnswersFromCurrent, Linked
    <2> QED
      BY <2>3, <2>4, <2>5
  <1> QED
    BY <1>1, <1>2, <1>3 DEF IndInv, NoDuplicateBond

LEMMA UpdateRequestStep == ASSUME IndInv, UpdateRequest PROVE IndInv'
  <1>1. TypeOK'
    <2>1. evq' \in Seq(EventRec) /\ phase' = "button"
      BY DeliverFacts DEF UpdateRequest
    <2>2. Head(evq).dev \in Device
      BY DeliverFacts DEF UpdateRequest
    <2>3. /\ updReq' = Head(evq).dev
          /\ UNCHANGED <<ctrl, peer, asked, connected, curDev, manPair, bonded, pairEn, unpairEn, termFlag>>
          /\ UNCHANGED <<sdpPending, mainService, disc, busy, answers, sdpAddr, tried>>
      BY DEF UpdateRequest, sdp, pairing
    <2> QED
      BY <2>1, <2>2, <2>3 DEF IndInv, NoDuplicateBond, TypeOK, EventRec, Kinds
  <1>2. QueueShape' /\ QueueOneSlave'
    BY QueueShrinks DEF UpdateRequest
  <1>3. IsInjective(bonded') /\ ManPairNew' /\ PeerKnown' /\ RequestOnLink' /\
        AnswersFromCurrent' /\ PendingHasService' /\ UnpairLeavesNoBond' /\ UpdateOfPeer'
    <2>1. AnswerDue' => AnswerDue
      BY DeliverFacts DEF UpdateRequest, AnswerDue
    <2>2. /\ phase' # "events" /\ updReq' = Head(evq).dev
          /\ UNCHANGED <<ctrl, peer, connected, curDev, manPair, bonded, termFlag>>
          /\ UNCHANGED <<asked, sdpPending, mainService, disc, busy, answers>>
      BY DEF UpdateRequest, Deliver, sdp, pairing
    <2>3. IsInjective(bonded') /\ ManPairNew' /\ PeerKnown'
      BY <2>2 DEF IndInv, NoDuplicateBond, ManPairNew, PeerKnown
    <2>4. PendingHasService' /\ UnpairLeavesNoBond'
      BY <2>2 DEF IndInv, PendingHasService, UnpairLeavesNoBond
    <2>5. RequestOnLink' /\ AnswersFromCurrent'
      BY <2>1, <2>2 DEF IndInv, RequestOnLink, AnswersFromCurrent, Linked
    <2>6. UpdateOfPeer'
      <3>1. ~Unlinked /\ (Linked => Head(evq).dev = peer)
        BY DeliverFacts DEF UpdateRequest, IndInv, QueueOneSlave
      <3> QED
        BY <2>2, <3>1 DEF UpdateOfPeer, Linked, Unlinked
    <2> QED
      BY <2>3, <2>4, <2>5, <2>6
  <1> QED
    BY <1>1, <1>2, <1>3 DEF IndInv, NoDuplicateBond

LEMMA AdvReportStep == ASSUME IndInv, NEW d \in Device, NEW how, AdvReport(d, how) PROVE IndInv'
  <1>1. IsInjective(bonded') /\ ManPairNew'
    <2>1. bonded \in Seq(Device) /\ IsInjective(bonded) /\ ManPairNew
      BY DEF IndInv, NoDuplicateBond, TypeOK
    <2>2. manPair' = manPair \/ (manPair' = d /\ ~Contains(bonded, d))
      BY DEF AdvReport
    <2>3. CASE bonded' = bonded
      BY <2>1, <2>2, <2>3 DEF ManPairNew
    <2>4. ASSUME NEW i \in 1 .. Len(bonded), bonded' = RemoveAt(bonded, i)
          PROVE  IsInjective(bonded') /\ ManPairNew'
      <3>1. /\ bonded' \in Seq(Device) /\ Len(bonded') = Len(bonded) - 1 /\ Len(bonded) \in Nat
            /\ \A j \in 1 .. Len(bonded) - 1 :
                  bonded'[j] = IF j < i THEN bonded[j] ELSE bonded[j + 1]
        BY <2>1, <2>4, RemoveAtFacts
      <3>2. \A a, b \in 1 .. Len(bonded) : bonded[a] = bonded[b] => a = b
        BY <2>1 DEF IsInjective
      <3>3. \A a, b \in 1 .. Len(bonded') : bonded'[a] = bonded'[b] => a = b
        BY <3>1, <3>2
      <3>4. \A e : Contains(bonded', e) => Contains(bonded, e)
        BY <3>1 DEF Contains
      <3> QED
        BY <2>1, <2>2, <3>1, <3>3, <3>4 DEF IsInjective, ManPairNew
    <2> QED
      BY <2>3, <2>4 DEF AdvReport, MacDelete
  <1>2. TypeOK' /\ PeerKnown' /\ QueueShape' /\ QueueOneSlave' /\ RequestOnLink' /\
        AnswersFromCurrent' /\ PendingHasService' /\ UnpairLeavesNoBond' /\ UpdateOfPeer'
    BY DongleAssumption, RemoveAtFacts
    DEF AdvReport, MacDelete, sdp, pairing,
         IndInv, NoDuplicateBond, TypeOK, ManPairNew, PeerKnown, QueueShape, QueueOneSlave,
         RequestOnLink, AnswersFromCurrent, PendingHasService, UnpairLeavesNoBond, UpdateOfPeer,
         Linked, Unlinked, AnswerDue, Contains, IsInjective
  <1> QED
    BY <1>1, <1>2 DEF IndInv, NoDuplicateBond

(* The rest of the main loop. *)
LEMMA ProcButtonStep == ASSUME IndInv, ProcButton PROVE IndInv'
  <1>1. TypeOK'
    <2>1. pairEn' \in BOOLEAN /\ unpairEn' \in BOOLEAN
      BY DEF ProcButton, ButtonIdle, ButtonPair, ButtonUnpair, ButtonRelease, Button,
             IndInv, NoDuplicateBond, TypeOK
    <2>2. \E p, u : Button(p, u)
      BY DEF ProcButton, ButtonIdle, ButtonPair, ButtonUnpair, ButtonRelease
    <2> QED
      BY <2>1, <2>2 DEF IndInv, NoDuplicateBond, TypeOK, Button, radio, sdp
  <1>2. IsInjective(bonded') /\ ManPairNew' /\ PeerKnown' /\ QueueShape' /\ QueueOneSlave'
        /\ RequestOnLink' /\ AnswersFromCurrent' /\ PendingHasService' /\
        UnpairLeavesNoBond' /\ UpdateOfPeer'
    BY DongleAssumption
    DEF ProcButton, ButtonIdle, ButtonPair, ButtonUnpair, ButtonRelease, Button, radio, sdp, pairing,
         IndInv, NoDuplicateBond, TypeOK, ManPairNew, PeerKnown, QueueShape, QueueOneSlave,
         RequestOnLink, AnswersFromCurrent, PendingHasService, UnpairLeavesNoBond, UpdateOfPeer,
         Linked, Unlinked, AnswerDue, Contains, IsInjective
  <1> QED
    BY <1>1, <1>2 DEF IndInv, NoDuplicateBond

LEMMA PairUnpairProcStep == ASSUME IndInv, NEW b \in BOOLEAN, PairUnpairProc(b) PROVE IndInv'
  BY DongleAssumption
  DEF PairUnpairProc, InConn, sdp, pairing,
         IndInv, NoDuplicateBond, TypeOK, ManPairNew, PeerKnown, QueueShape, QueueOneSlave,
         RequestOnLink, AnswersFromCurrent, PendingHasService, UnpairLeavesNoBond, UpdateOfPeer,
         Linked, Unlinked, AnswerDue, Contains, IsInjective

LEMMA UpdateConnProcStep == ASSUME IndInv, NEW b \in BOOLEAN, UpdateConnProc(b) PROVE IndInv'
  BY DongleAssumption
  DEF UpdateConnProc, radio, sdp, pairing,
         IndInv, NoDuplicateBond, TypeOK, ManPairNew, PeerKnown, QueueShape, QueueOneSlave,
         RequestOnLink, AnswersFromCurrent, PendingHasService, UnpairLeavesNoBond, UpdateOfPeer,
         Linked, Unlinked, AnswerDue, Contains, IsInjective

LEMMA ServiceStep == ASSUME IndInv, Service PROVE IndInv'
  <1>1. TypeOK'
    <2>1. disc' \in 0 .. Rounds
      BY DongleAssumption DEF Service, SendRequest, sdp, IndInv, NoDuplicateBond, TypeOK
    <2>2. /\ asked' \in BOOLEAN /\ sdpPending' \in BOOLEAN /\ mainService' \in BOOLEAN
          /\ busy' \in BOOLEAN /\ answers' \subseteq Device /\ tried' \in BOOLEAN
          /\ sdpAddr' = sdpAddr /\ phase' = "events"
      BY DEF Service, SendRequest, sdp, IndInv, NoDuplicateBond, TypeOK
    <2> QED
      BY <2>1, <2>2 DEF IndInv, NoDuplicateBond, TypeOK, Service, pairing
  <1>2. IsInjective(bonded') /\ ManPairNew' /\ PeerKnown' /\ QueueShape' /\ QueueOneSlave'
        /\ RequestOnLink' /\ AnswersFromCurrent' /\ PendingHasService' /\
        UnpairLeavesNoBond' /\ UpdateOfPeer'
    BY DongleAssumption
    DEF Service, SendRequest, sdp, pairing,
         IndInv, NoDuplicateBond, TypeOK, ManPairNew, PeerKnown, QueueShape, QueueOneSlave,
         RequestOnLink, AnswersFromCurrent, PendingHasService, UnpairLeavesNoBond, UpdateOfPeer,
         Linked, Unlinked, AnswerDue, Contains, IsInjective
  <1> QED
    BY <1>1, <1>2 DEF IndInv, NoDuplicateBond

LEMMA WaitMoreStep == ASSUME IndInv, WaitMore PROVE IndInv'
  BY DongleAssumption
  DEF WaitMore, radio, sdp, pairing,
         IndInv, NoDuplicateBond, TypeOK, ManPairNew, PeerKnown, QueueShape, QueueOneSlave,
         RequestOnLink, AnswersFromCurrent, PendingHasService, UnpairLeavesNoBond, UpdateOfPeer,
         Linked, Unlinked, AnswerDue, Contains, IsInjective

LEMMA WaitNextStep == ASSUME IndInv, WaitNext PROVE IndInv'
  BY DongleAssumption
  DEF WaitNext, SendRequest, sdp, pairing,
         IndInv, NoDuplicateBond, TypeOK, ManPairNew, PeerKnown, QueueShape, QueueOneSlave,
         RequestOnLink, AnswersFromCurrent, PendingHasService, UnpairLeavesNoBond, UpdateOfPeer,
         Linked, Unlinked, AnswerDue, Contains, IsInjective

LEMMA WaitSuccessStep == ASSUME IndInv, WaitSuccess PROVE IndInv'
  <1>1. TypeOK'
    <2>1. disc' \in 0 .. Rounds
      BY DongleAssumption DEF WaitSuccess, ServiceReturn
    <2>2. sdpAddr' \in Device \cup {None}
      BY DEF WaitSuccess, IndInv, NoDuplicateBond, TypeOK
    <2>3. /\ sdpPending' = FALSE /\ mainService' = FALSE /\ phase' = "events"
          /\ UNCHANGED <<radio, connected, curDev, answers, busy, tried, pairing, updReq>>
      BY DEF WaitSuccess, ServiceReturn
    <2>4. /\ ctrl' \in {"scan", "init", "opening", "conn", "closing", "off"}
          /\ peer' \in Device \cup {None} /\ asked' \in BOOLEAN /\ evq' \in Seq(EventRec)
          /\ phase' \in {"events", "button", "pair", "update", "service"}
          /\ connected' \in BOOLEAN /\ curDev' \in Device \cup {None}
      BY <2>1, <2>2, <2>3 DEF IndInv, NoDuplicateBond, TypeOK, EventRec, Kinds, radio, pairing
    <2>5. /\ sdpPending' \in BOOLEAN /\ mainService' \in BOOLEAN
          /\ disc' \in 0 .. Rounds /\ busy' \in BOOLEAN /\ answers' \subseteq Device
          /\ sdpAddr' \in Device \cup {None} /\ tried' \in BOOLEAN
      BY <2>1, <2>2, <2>3 DEF IndInv, NoDuplicateBond, TypeOK, EventRec, Kinds, radio, pairing
    <2>6. /\ manPair' \in Device \cup {None}
          /\ bonded' \in Seq(Device) /\ Len(bonded') <= MaxNum
          /\ pairEn' \in BOOLEAN /\ unpairEn' \in BOOLEAN /\ termFlag' \in BOOLEAN
          /\ updReq' \in Device \cup {None}
      BY <2>1, <2>2, <2>3 DEF IndInv, NoDuplicateBond, TypeOK, EventRec, Kinds, radio, pairing
    <2> QED
      BY <2>4, <2>5, <2>6 DEF TypeOK, EventRec, Kinds
  <1>2. IsInjective(bonded') /\ ManPairNew' /\ PeerKnown' /\ QueueShape' /\ QueueOneSlave'
        /\ RequestOnLink' /\ AnswersFromCurrent' /\ PendingHasService' /\
        UnpairLeavesNoBond' /\ UpdateOfPeer'
    BY DongleAssumption
    DEF WaitSuccess, ServiceReturn, radio, sdp, pairing,
         IndInv, NoDuplicateBond, TypeOK, ManPairNew, PeerKnown, QueueShape, QueueOneSlave,
         RequestOnLink, AnswersFromCurrent, PendingHasService, UnpairLeavesNoBond, UpdateOfPeer,
         Linked, Unlinked, AnswerDue, Contains, IsInjective
  <1> QED
    BY <1>1, <1>2 DEF IndInv, NoDuplicateBond

LEMMA WaitTimeoutStep == ASSUME IndInv, WaitTimeout PROVE IndInv'
  <1>1. TypeOK'
    <2>1. disc' \in 0 .. Rounds
      BY DongleAssumption DEF WaitTimeout, ServiceReturn
    <2>2. sdpAddr' \in Device \cup {None}
      BY DEF WaitTimeout, IndInv, NoDuplicateBond, TypeOK
    <2>3. /\ sdpPending' = FALSE /\ mainService' = FALSE /\ phase' = "events"
          /\ UNCHANGED <<radio, connected, curDev, answers, busy, tried, pairing, updReq>>
      BY DEF WaitTimeout, ServiceReturn
    <2>4. /\ ctrl' \in {"scan", "init", "opening", "conn", "closing", "off"}
          /\ peer' \in Device \cup {None} /\ asked' \in BOOLEAN /\ evq' \in Seq(EventRec)
          /\ phase' \in {"events", "button", "pair", "update", "service"}
          /\ connected' \in BOOLEAN /\ curDev' \in Device \cup {None}
      BY <2>1, <2>2, <2>3 DEF IndInv, NoDuplicateBond, TypeOK, EventRec, Kinds, radio, pairing
    <2>5. /\ sdpPending' \in BOOLEAN /\ mainService' \in BOOLEAN
          /\ disc' \in 0 .. Rounds /\ busy' \in BOOLEAN /\ answers' \subseteq Device
          /\ sdpAddr' \in Device \cup {None} /\ tried' \in BOOLEAN
      BY <2>1, <2>2, <2>3 DEF IndInv, NoDuplicateBond, TypeOK, EventRec, Kinds, radio, pairing
    <2>6. /\ manPair' \in Device \cup {None}
          /\ bonded' \in Seq(Device) /\ Len(bonded') <= MaxNum
          /\ pairEn' \in BOOLEAN /\ unpairEn' \in BOOLEAN /\ termFlag' \in BOOLEAN
          /\ updReq' \in Device \cup {None}
      BY <2>1, <2>2, <2>3 DEF IndInv, NoDuplicateBond, TypeOK, EventRec, Kinds, radio, pairing
    <2> QED
      BY <2>4, <2>5, <2>6 DEF TypeOK, EventRec, Kinds
  <1>2. IsInjective(bonded') /\ ManPairNew' /\ PeerKnown' /\ QueueShape' /\ QueueOneSlave'
        /\ RequestOnLink' /\ AnswersFromCurrent' /\ PendingHasService' /\
        UnpairLeavesNoBond' /\ UpdateOfPeer'
    BY DongleAssumption
    DEF WaitTimeout, ServiceReturn, radio, sdp, pairing,
         IndInv, NoDuplicateBond, TypeOK, ManPairNew, PeerKnown, QueueShape, QueueOneSlave,
         RequestOnLink, AnswersFromCurrent, PendingHasService, UnpairLeavesNoBond, UpdateOfPeer,
         Linked, Unlinked, AnswerDue, Contains, IsInjective
  <1> QED
    BY <1>1, <1>2 DEF IndInv, NoDuplicateBond

(* The initial state. *)
LEMMA InitInv == ASSUME Init PROVE IndInv
  <1>1. TypeOK
    <2>1. disc \in 0 .. Rounds /\ Len(bonded) <= MaxNum
      BY DongleAssumption DEF Init
    <2>2. bonded \in Seq(Device) /\ evq \in Seq(EventRec)
      BY DEF Init
    <2> QED
      BY <2>1, <2>2 DEF Init, TypeOK, EventRec, Kinds
  <1>2. IsInjective(bonded) /\ ManPairNew
    BY DEF Init, IsInjective, ManPairNew, Contains
  <1>3. PeerKnown /\ QueueShape /\ QueueOneSlave /\ RequestOnLink /\ AnswersFromCurrent
    BY DEF Init, PeerKnown, QueueShape, QueueOneSlave, RequestOnLink, AnswersFromCurrent,
           AnswerDue, Linked, Unlinked
  <1>4. PendingHasService /\ UnpairLeavesNoBond /\ UpdateOfPeer
    BY DEF Init, PendingHasService, UnpairLeavesNoBond, UpdateOfPeer, Linked, Unlinked
  <1> QED
    BY <1>1, <1>2, <1>3, <1>4 DEF IndInv, NoDuplicateBond

-----------------------------------------------------------------------------
(* Every step of the dongle keeps the invariant. *)
LEMMA NextInv == ASSUME IndInv, [Next]_vars PROVE IndInv'
  <1>1. CASE Radio
    BY <1>1, RadioConnectStep, RadioEstablishStep, RadioDropStep, RadioReceiveStep DEF Radio
  <1>2. CASE Advertise
    BY <1>2, AdvReportStep DEF Advertise
  <1>3. CASE Callback
    BY <1>3, NoEventStep, ConnectionEstablishStep, DisconnectStep, AttAnswerStep, UnpairKeyStep,
       UpdateRequestStep DEF Callback
  <1>4. CASE MainLoop
    <2>1. CASE \E b \in BOOLEAN : PairUnpairProc(b) \/ UpdateConnProc(b)
      BY <2>1, PairUnpairProcStep, UpdateConnProcStep
    <2> QED
      BY <1>3, <1>4, <2>1, ProcButtonStep, ServiceStep, WaitMoreStep, WaitNextStep,
         WaitSuccessStep, WaitTimeoutStep DEF MainLoop
  <1>5. CASE UNCHANGED vars
    BY <1>5 DEF vars, radio, sdp, pairing,
         IndInv, NoDuplicateBond, TypeOK, ManPairNew, PeerKnown, QueueShape, QueueOneSlave,
         RequestOnLink, AnswersFromCurrent, PendingHasService, UnpairLeavesNoBond, UpdateOfPeer,
         Linked, Unlinked, AnswerDue, Contains, IsInjective
  <1> QED
    BY <1>1, <1>2, <1>4, <1>5 DEF Next

LEMMA SpecInv == Spec => []IndInv
  BY InitInv, NextInv, PTL DEF Spec

(* The queue of events, the pairing by hand and the table of bonds stay       *)
(* consistent: no slave is bonded twice, and every variable has its type.     *)
THEOREM NoDuplicateBondThm == Spec => []NoDuplicateBond
  <1>1. IndInv => NoDuplicateBond
    BY DEF IndInv
  <1> QED
    BY <1>1, SpecInv, PTL

(* While SDP_PENDING blocks pairing, a discovery is registered to clear it.   *)
THEOREM PendingHasServiceThm == Spec => []PendingHasService
  <1>1. IndInv => PendingHasService
    BY DEF IndInv
  <1> QED
    BY <1>1, SpecInv, PTL

(* After an unpair nobody is bonded until the link is down.                   *)
THEOREM UnpairLeavesNoBondThm == Spec => []UnpairLeavesNoBond
  <1>1. IndInv => UnpairLeavesNoBond
    BY DEF IndInv
  <1> QED
    BY <1>1, SpecInv, PTL

(* An answer is only ever copied into the buffer of a discovery on the stack: *)
(* without one, an answer in the queue finds SDP_PENDING down.                *)
THEOREM AnswerIntoLiveBufferThm == Spec => AnswerIntoLiveBuffer
  <1>1. ASSUME IndInv, [Next]_vars PROVE [(busy /\ ~busy') => disc > 0]_vars
    <2>1. CASE AttAnswer
      <3>1. AnswerDue
        BY <1>1, <2>1, DeliverFacts DEF AttAnswer, AnswerDue
      <3>2. CASE sdpPending /\ busy
        BY <1>1, <3>1, <3>2 DEF IndInv, RequestOnLink
      <3>3. CASE ~(sdpPending /\ busy)
        BY <2>1, <3>3 DEF AttAnswer
      <3> QED
        BY <3>2, <3>3
    <2>2. CASE Service \/ WaitNext
      BY <2>2 DEF Service, WaitNext, SendRequest, sdp
    <2>3. CASE UNCHANGED busy
      BY <2>3
    <2>4. CASE Radio \/ Advertise
      BY <2>3, <2>4 DEF Radio, RadioConnect, RadioEstablish, RadioDrop, RadioReceive, Advertise,
                        AdvReport, host, sdp
    <2>5. CASE Callback
      BY <2>1, <2>3, <2>5 DEF Callback, NoEvent, ConnectionEstablish, Disconnect, UnpairKey,
                              UpdateRequest, sdp
    <2>6. CASE MainLoop
      BY <2>2, <2>3, <2>5, <2>6 DEF MainLoop, ProcButton, ButtonIdle, ButtonPair, ButtonUnpair,
           ButtonRelease, Button, PairUnpairProc, UpdateConnProc, WaitMore, WaitSuccess,
           WaitTimeout, ServiceReturn, sdp
    <2> QED
      BY <1>1, <2>3, <2>4, <2>6 DEF Next, vars, sdp
  <1> QED
    BY <1>1, SpecInv, PTL DEF Spec, AnswerIntoLiveBuffer

(* What a successful discovery takes over came from cur_conn_device, every    *)
(* answer of it, whatever happened to the links while it ran.                 *)
THEOREM DiscoveryCoherentThm == Spec => DiscoveryCoherent
  <1>1. IndInv => (WaitSuccess => answers = {curDev})
    BY DEF IndInv, AnswersFromCurrent, WaitSuccess, ServiceReturn
  <1> QED
    BY <1>1, SpecInv, PTL DEF Spec, DiscoveryCoherent

(* Connection parameters reach only the connection of the slave that asked.   *)
THEOREM UpdateForRequesterThm == Spec => UpdateForRequester
  <1>1. IndInv => ((phase = "update" /\ updReq # None /\ updReq' = None /\ InConn) => updReq = peer)
    BY DEF IndInv, UpdateOfPeer, Linked, Unlinked, InConn
  <1> QED
    BY <1>1, SpecInv, PTL DEF Spec, UpdateForRequester

=============================================================================
