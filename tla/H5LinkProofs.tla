----------------------------- MODULE H5LinkProofs -----------------------------
(* Proofs about H5Link: both ends keep their types, the link timer of an end      *)
(* runs exactly when the end has something to repeat, and the numbers agree and   *)
(* the transport implements ReliableChannel in both directions, whatever is lost  *)
(* or repeated: over any number of restarts if the line keeps up with the timer,  *)
(* however slow it is if no end restarts.                                         *)
(*                                                                                *)
(* An end is a record that the C functions map from one to the next, so there is  *)
(* a lemma for each function.  What a function does to an end is put in three     *)
(* relations: on the numbers of its sender, on those of its receiver and on the   *)
(* frame it is writing.                                                           *)
EXTENDS H5Link, SequenceTheorems, TLAPS

-----------------------------------------------------------------------------
(* The state of one end.  TimerRuns alone is not inductive: an end that gets      *)
(* active stops its timer without a look at the queue.                            *)
NoPacketYet(l) == l.state # "ACTIVE" => l.packet = 0
Timed(l) == l.timer = (l.state # "ACTIVE" \/ l.packet # 0)
Good(l) == l \in Link /\ NoPacketYet(l) /\ Timed(l)

IndInv ==
    /\ \A s \in Side : Good(link[s])
    /\ link \in [Side -> Link]
    /\ wire \in [Side -> Seq(Frame)]
    /\ resets \in 0 .. MaxResets + 1
    /\ resets % 2 = 1 => resets <= MaxResets

\* The frames with an acknowledge number that the peer looks at.
Numbered(f) == Reliable(f) \/ f.kind = "ACK_PACKET"

\* A frame as the end would build it now.
Fresh(l, f) ==
    /\ f \in Frame
    /\ Reliable(f) => l.packet # 0 /\ f.seq = l.seq /\ f.payload = l.packet
    /\ Numbered(f) => f.ack = l.ack

\* A step goes on with the frame being written, which a new packet may tear, or
\* starts one.
TxKept(l, m) ==
    /\ l.tx # NoFrame =>
         /\ m.tx # NoFrame /\ m.tx.kind = l.tx.kind
         /\ m.tx.seq = l.tx.seq /\ m.tx.ack = l.tx.ack
         /\ m.tx.payload = l.tx.payload \/ m.accepted # l.accepted
    /\ l.tx = NoFrame => m.tx = NoFrame \/ Fresh(m, m.tx)

\* What hci_transport_link_run leaves alone.
SameSender(l, m) ==
    m.seq = l.seq /\ m.packet = l.packet /\ m.accepted = l.accepted /\ m.confirmed = l.confirmed
SameReceiver(l, m) == m.ack = l.ack /\ m.received = l.received /\ m.handed = l.handed
Same(l, m) ==
    /\ m.state = l.state /\ m.timer = l.timer
    /\ SameSender(l, m) /\ SameReceiver(l, m) /\ TxKept(l, m)

-----------------------------------------------------------------------------
\* The pending actions that hci_transport_link_run looks for are kinds of frames.
LEMMA OrderKind ==
    \A k \in 1 .. 9 : Order[k] \in Kind /\ Order[k] \in Action
BY DEF Kind, Action

\* Every kind of frame is in the order.
LEMMA Kinds ==
    /\ \A a \in {"SYNC", "SYNC_RESPONSE", "CONFIG", "CONFIG_RESPONSE", "WOKEN", "WAKEUP",
           "QUEUED_PACKET", "ACK_PACKET", "SLEEP"} : a \in Kind /\ a \in Action
    /\ "ENTER_SLEEP" \in Action
<1>1. /\ "SYNC" = Order[1] /\ "SYNC_RESPONSE" = Order[2] /\ "CONFIG" = Order[3]
      /\ "CONFIG_RESPONSE" = Order[4] /\ "WOKEN" = Order[5] /\ "WAKEUP" = Order[6]
      /\ "QUEUED_PACKET" = Order[7] /\ "ACK_PACKET" = Order[8] /\ "SLEEP" = Order[9]
  BY DEF Order
<1> QED BY <1>1, OrderKind DEF Action

\* A frame is not the mark for no frame.
LEMMA FrameNotNone == NoFrame \notin Frame
<1>1. "NONE" \notin Kind
  BY DEF Kind, Order
<1> QED BY <1>1 DEF NoFrame, Frame

\* The number after a sequence number is one, another one, and comes after no other.
LEMMA IncType ==
    \A n \in SeqNr : IncSeqNr(n) \in SeqNr /\ IncSeqNr(n) # n
BY H5Assumption DEF SeqNr, IncSeqNr

LEMMA ZeroSeq == 0 \in SeqNr
BY H5Assumption DEF SeqNr

\* A frame without a sequence number is a frame.
LEMMA ControlType == \A k \in Kind : Control(k) \in Frame /\ Control(k).kind = k
BY ZeroSeq DEF Control, Frame

LEMMA RequestGood ==
    ASSUME NEW l \in Link, NEW a \in Action
    PROVE  Request(l, a) \in Link /\ Same(l, Request(l, a))
BY DEF Request, Link, Same, SameSender, SameReceiver, TxKept

LEMMA SendFrameGood ==
    ASSUME NEW l \in Link, l.tx = NoFrame, NEW f, Fresh(l, f)
    PROVE  SendFrame(l, f) \in Link /\ Same(l, SendFrame(l, f))
BY DEF SendFrame, Link, Same, SameSender, SameReceiver, TxKept, Fresh

LEMMA InactivityGood ==
    ASSUME NEW l \in Link
    PROVE  InactivityTimerSet(l) \in Link /\ Same(l, InactivityTimerSet(l))
BY DEF InactivityTimerSet, Link, Same, SameSender, SameReceiver, TxKept

LEMMA TakeGood ==
    ASSUME NEW l \in Link, NEW A
    PROVE  /\ [l EXCEPT !.actions = @ \ A] \in Link
           /\ Same(l, [l EXCEPT !.actions = @ \ A])
           /\ [l EXCEPT !.actions = @ \ A].tx = l.tx
BY DEF Link, Same, SameSender, SameReceiver, TxKept

LEMMA SameTrans ==
    ASSUME NEW l \in Link, NEW m \in Link, NEW n \in Link, Same(l, m), Same(m, n)
    PROVE  Same(l, n)
<1>1. n.tx # NoFrame => n.tx \in Frame
  BY DEF Link
<1>2. SameSender(l, n) /\ SameReceiver(l, n) /\ n.state = l.state /\ n.timer = l.timer
  BY DEF Same, SameSender, SameReceiver
<1>3. CASE l.tx # NoFrame
  BY <1>2, <1>3 DEF Same, SameSender, TxKept
<1>4. CASE l.tx = NoFrame
  <2>1. n.tx # NoFrame => Fresh(n, n.tx)
    BY <1>1, <1>4 DEF Same, SameSender, SameReceiver, TxKept, Fresh, Numbered, Reliable
  <2> QED BY <1>2, <1>4, <2>1 DEF Same, TxKept
<1> QED BY <1>3, <1>4

\* hci_transport_link_send_queued_packet
LEMMA SendQueuedGood ==
    ASSUME NEW l \in Link, l.tx = NoFrame
    PROVE  SendQueuedPacket(l) \in Link /\ Same(l, SendQueuedPacket(l))
<1> DEFINE f == [kind |-> "QUEUED_PACKET", seq |-> l.seq, ack |-> l.ack,
                 payload |-> l.packet, more |-> TRUE]
<1>1. f \in Frame
  BY Kinds DEF Frame, Link
<1>2. CASE HaveOutgoingPacket(l)
  <2>1. SendQueuedPacket(l) = InactivityTimerSet(SendFrame(l, f))
    BY <1>2 DEF SendQueuedPacket
  <2>5. Fresh(l, f)
    BY <1>1, <1>2 DEF Fresh, HaveOutgoingPacket
  <2> HIDE DEF f
  <2>2. SendFrame(l, f) \in Link /\ Same(l, SendFrame(l, f))
    BY <2>5, SendFrameGood
  <2>3. PICK m : m = SendFrame(l, f)
    OBVIOUS
  <2>4. InactivityTimerSet(m) \in Link /\ Same(m, InactivityTimerSet(m))
    BY <2>2, <2>3, InactivityGood
  <2> QED BY <2>1, <2>2, <2>3, <2>4, SameTrans
<1>3. CASE ~HaveOutgoingPacket(l)
  BY <1>3 DEF SendQueuedPacket, Link, Same, SameSender, SameReceiver, TxKept
<1> QED BY <1>2, <1>3

\* hci_transport_link_send_ack_packet
LEMMA SendAckGood ==
    ASSUME NEW l \in Link, l.tx = NoFrame
    PROVE  SendAckPacket(l) \in Link /\ Same(l, SendAckPacket(l))
<1>1. PICK f : f = [Control("ACK_PACKET") EXCEPT !.ack = l.ack]
  OBVIOUS
<1>2. f \in Frame /\ f.kind = "ACK_PACKET" /\ f.ack = l.ack
  BY <1>1, Kinds, ZeroSeq DEF Control, Frame, Link
<1>3. Fresh(l, f)
  BY <1>2 DEF Fresh, Reliable
<1> QED BY <1>1, <1>3, SendFrameGood DEF SendAckPacket

\* A frame of another kind is as the end would build it.
LEMMA ControlFresh ==
    ASSUME NEW l, NEW k \in Kind, k \notin {"QUEUED_PACKET", "ACK_PACKET"}
    PROVE  Fresh(l, Control(k))
BY ControlType DEF Fresh, Reliable, Numbered

\* hci_transport_link_send_sleep
LEMMA SendSleepGood ==
    ASSUME NEW l \in Link, l.tx = NoFrame
    PROVE  SendSleep(l) \in Link /\ Same(l, SendSleep(l))
<1>1. PICK m : m = [l EXCEPT !.actions = @ \cup {"ENTER_SLEEP"}, !.asleep = TRUE]
  OBVIOUS
<1>2. m \in Link /\ Same(l, m) /\ m.tx = NoFrame
  BY <1>1, Kinds DEF Link, Same, SameSender, SameReceiver, TxKept
<1>3. SendSleep(l) = SendFrame(m, Control("SLEEP"))
  BY <1>1 DEF SendSleep
<1>4. SendFrame(m, Control("SLEEP")) \in Link /\ Same(m, SendFrame(m, Control("SLEEP")))
  BY <1>2, SendFrameGood, ControlFresh, Kinds
<1> QED BY <1>2, <1>3, <1>4, SameTrans

\* hci_transport_link_run starts a frame and leaves the queue and the timer alone.
LEMMA LinkRunGood ==
    ASSUME NEW l \in Link
    PROVE  LinkRun(l) \in Link /\ Same(l, LinkRun(l))
<1> DEFINE pending == {k \in 1 .. 9 : Order[k] \in l.actions}
           a == Order[Min(pending)]
           m == [l EXCEPT !.actions = @ \ {a}]
           n == [m EXCEPT !.actions = @ \ {"ACK_PACKET"}]
<1>1. CASE l.tx # NoFrame \/ pending = {}
  BY <1>1 DEF LinkRun, Same, SameSender, SameReceiver, TxKept
<1>2. CASE ~(l.tx # NoFrame \/ pending = {})
  <2>1. Min(pending) \in pending
    <3>1. \E x \in pending : \A y \in pending : x <= y
      <4>1. PICK z \in pending : TRUE
        BY <1>2
      <4>2. pending \subseteq 1 .. 9
        OBVIOUS
      <4> HIDE DEF pending
      <4> QED BY <4>1, <4>2
    <3> QED BY <3>1 DEF Min
  <2>2. a \in Kind
    BY <2>1, OrderKind
  <2>3. m \in Link /\ Same(l, m) /\ m.tx = NoFrame
    BY <1>2, TakeGood
  <2>4. LinkRun(l) = CASE a = "QUEUED_PACKET" -> SendQueuedPacket(n)
               [] a = "ACK_PACKET" -> SendAckPacket(m)
               [] a = "SLEEP" -> SendSleep(m)
               [] OTHER -> SendFrame(m, Control(a))
    BY <1>2 DEF LinkRun
  <2> HIDE DEF m, a, pending
  <2>5. n \in Link /\ Same(m, n) /\ n.tx = NoFrame
    BY <2>3, TakeGood
  <2> HIDE DEF n
  <2>6. CASE a = "QUEUED_PACKET"
    BY <2>3, <2>4, <2>5, <2>6, SendQueuedGood, SameTrans
  <2>7. CASE a = "ACK_PACKET"
    BY <2>3, <2>4, <2>7, SendAckGood, SameTrans
  <2>8. CASE a = "SLEEP"
    BY <2>3, <2>4, <2>8, SendSleepGood, SameTrans
  <2>9. CASE a \notin {"QUEUED_PACKET", "ACK_PACKET", "SLEEP"}
    <3>1. LinkRun(l) = SendFrame(m, Control(a))
      BY <2>4, <2>9
    <3>2. Fresh(m, Control(a))
      BY <2>2, <2>9, ControlFresh
    <3> QED BY <2>3, <3>1, <3>2, SendFrameGood, SameTrans
  <2> QED BY <2>6, <2>7, <2>8, <2>9
<1> QED BY <1>1, <1>2

-----------------------------------------------------------------------------
(* The pending actions.  For the handshake only these matter, and the request to  *)
(* acknowledge, which must not outlive a restart.                                 *)
Hand == {"SYNC", "SYNC_RESPONSE", "CONFIG", "CONFIG_RESPONSE", "ACK_PACKET"}

\* From l to m an end asks for frames of the kinds A and may start to write one: the
\* request for the handshake's first half goes before the one for its second half.
Asks(l, A, m) ==
    /\ m.actions \cap Hand \subseteq l.actions \cup A
    /\ l.tx # NoFrame => m.tx # NoFrame /\ m.tx.kind = l.tx.kind
    /\ l.tx = NoFrame /\ m.tx # NoFrame =>
         /\ m.tx.kind \in Hand => m.tx.kind \in l.actions \cup A
         /\ m.tx.kind = "CONFIG" => "SYNC" \notin m.actions
         /\ m.tx.kind = "CONFIG_RESPONSE" => "SYNC_RESPONSE" \notin m.actions

\* An end that writes nothing has nothing to write, but for the wakeup that the
\* timeout handler requests without sending it.
Idle(l) == l.tx = NoFrame /\ ~l.crashed => l.actions \cap Kind \subseteq {"WAKEUP"}

LEMMA AsksThen ==
    ASSUME NEW l, NEW A, NEW m, NEW n, Asks(l, A, m), Asks(m, {}, n)
    PROVE  Asks(l, A, n)
BY DEF Asks, Hand

LEMMA AsksMore ==
    ASSUME NEW l, NEW A, NEW B, NEW m, Asks(l, A, m), A \cap Hand \subseteq B
    PROVE  Asks(l, B, m)
<1>1. m.actions \cap Hand \subseteq l.actions \cup B
  BY DEF Asks
<1>2. \A k \in Hand : k \in l.actions \cup A => k \in l.actions \cup B
  OBVIOUS
<1> QED BY <1>1, <1>2 DEF Asks

\* The same frame is written, and only A is asked for.
LEMMA AsksOnly ==
    ASSUME NEW l, NEW A, NEW m, m.actions \cap Hand \subseteq l.actions \cup A, m.tx = l.tx
    PROVE  Asks(l, A, m)
BY DEF Asks

LEMMA RequestAsks ==
    ASSUME NEW l \in Link, NEW a \in Action
    PROVE  Asks(l, {a}, Request(l, a)) /\ Asks(l, {a}, SetTimer(Request(l, a)))
<1>1. /\ Request(l, a).actions = l.actions \cup {a} /\ Request(l, a).tx = l.tx
      /\ SetTimer(Request(l, a)).actions = l.actions \cup {a} /\ SetTimer(Request(l, a)).tx = l.tx
  BY DEF Request, SetTimer, Link
<1> QED BY <1>1, AsksOnly

\* hci_transport_link_run takes the first request in the order.
LEMMA LinkRunAsks ==
    ASSUME NEW l \in Link
    PROVE  Asks(l, {}, LinkRun(l)) /\ Idle(LinkRun(l))
<1> DEFINE pending == {k \in 1 .. 9 : Order[k] \in l.actions}
           a == Order[Min(pending)]
           m == [l EXCEPT !.actions = @ \ {a}]
           n == [m EXCEPT !.actions = @ \ {"ACK_PACKET"}]
<1>1. CASE l.tx # NoFrame
  BY <1>1 DEF LinkRun, Asks, Idle
<1>2. CASE l.tx = NoFrame /\ pending = {}
  <2>1. LinkRun(l) = l
    BY <1>2 DEF LinkRun
  <2>2. l.actions \cap Kind = {}
    BY <1>2 DEF Kind
  <2> QED BY <2>1, <2>2, <1>2 DEF Asks, Idle
<1>3. CASE l.tx = NoFrame /\ pending # {}
  <2>1. Min(pending) \in pending /\ \A k \in pending : Min(pending) <= k
    <3>1. \E x \in pending : \A y \in pending : x <= y
      <4>1. PICK z \in pending : TRUE
        BY <1>3
      <4>2. pending \subseteq 1 .. 9
        OBVIOUS
      <4> HIDE DEF pending
      <4> QED BY <4>1, <4>2
    <3> QED BY <3>1 DEF Min
  <2>2. a \in Kind /\ a \in l.actions
    BY <2>1, OrderKind
  <2>3. "SYNC" \in l.actions => a = "SYNC"
    <3>1. "SYNC" \in l.actions => 1 \in pending
      BY DEF Order
    <3>2. 1 \in pending => Min(pending) = 1
      BY <2>1
    <3>3. Order[1] = "SYNC"
      BY DEF Order
    <3> QED BY <3>1, <3>2, <3>3
  <2>4. "SYNC_RESPONSE" \in l.actions => a \in {"SYNC", "SYNC_RESPONSE"}
    <3>1. "SYNC_RESPONSE" \in l.actions => 2 \in pending
      BY DEF Order
    <3>2. 2 \in pending => Min(pending) \in {1, 2}
      BY <2>1
    <3>3. Order[1] = "SYNC" /\ Order[2] = "SYNC_RESPONSE"
      BY DEF Order
    <3> QED BY <3>1, <3>2, <3>3
  <2>5. LinkRun(l) = CASE a = "QUEUED_PACKET" -> SendQueuedPacket(n)
               [] a = "ACK_PACKET" -> SendAckPacket(m)
               [] a = "SLEEP" -> SendSleep(m)
               [] OTHER -> SendFrame(m, Control(a))
    BY <1>3 DEF LinkRun
  <2>6. /\ m \in Link /\ m.tx = NoFrame /\ m.actions \subseteq l.actions
        /\ n \in Link /\ n.tx = NoFrame /\ n.actions \subseteq l.actions
    BY <1>3 DEF Link
  <2> HIDE DEF m, n, a, pending
  <2>7. CASE a = "QUEUED_PACKET"
    <3>1. LinkRun(l) = SendQueuedPacket(n)
      BY <2>5, <2>7
    <3>2. CASE HaveOutgoingPacket(n)
      <4>1. PICK f : f = [kind |-> "QUEUED_PACKET", seq |-> n.seq, ack |-> n.ack,
                          payload |-> n.packet, more |-> TRUE]
        OBVIOUS
      <4>2. f.kind = "QUEUED_PACKET" /\ f # NoFrame
        BY <4>1 DEF NoFrame
      <4>3. LinkRun(l) = InactivityTimerSet(SendFrame(n, f))
        BY <3>1, <3>2, <4>1 DEF SendQueuedPacket
      <4>4. LinkRun(l).tx = f /\ LinkRun(l).actions = n.actions
        BY <2>6, <4>3 DEF InactivityTimerSet, SendFrame, Link
      <4> QED BY <1>3, <2>6, <4>2, <4>4 DEF Asks, Hand, Idle
    <3>3. CASE ~HaveOutgoingPacket(n)
      <4>1. LinkRun(l) = [n EXCEPT !.crashed = TRUE]
        BY <3>1, <3>3 DEF SendQueuedPacket
      <4>2. LinkRun(l).crashed = TRUE /\ LinkRun(l).tx = n.tx /\ LinkRun(l).actions = n.actions
        BY <2>6, <4>1 DEF Link
      <4> QED BY <1>3, <2>6, <4>2 DEF Asks, Idle
    <3> QED BY <3>2, <3>3
  <2>8. CASE a # "QUEUED_PACKET"
    <3>1. /\ LinkRun(l).tx # NoFrame /\ LinkRun(l).tx.kind = a
          /\ LinkRun(l).actions \subseteq m.actions \cup {"ENTER_SLEEP"}
      <4>1. CASE a = "ACK_PACKET"
        <5>1. PICK f : f = [Control("ACK_PACKET") EXCEPT !.ack = m.ack]
          OBVIOUS
        <5>2. f.kind = "ACK_PACKET" /\ f # NoFrame
          BY <5>1 DEF Control, NoFrame
        <5>3. LinkRun(l) = SendFrame(m, f)
          BY <2>5, <4>1, <5>1 DEF SendAckPacket
        <5> QED BY <2>6, <4>1, <5>2, <5>3 DEF SendFrame, Link
      <4>2. CASE a = "SLEEP"
        <5>1. LinkRun(l) = SendFrame([m EXCEPT !.actions = @ \cup {"ENTER_SLEEP"}, !.asleep = TRUE],
                                     Control("SLEEP"))
          BY <2>5, <4>2 DEF SendSleep
        <5>2. Control("SLEEP").kind = "SLEEP" /\ Control("SLEEP") # NoFrame
          BY DEF Control, NoFrame
        <5>3. LinkRun(l).tx = Control("SLEEP") /\ LinkRun(l).actions = m.actions \cup {"ENTER_SLEEP"}
          BY <2>6, <5>1 DEF SendFrame, Link
        <5> QED BY <4>2, <5>2, <5>3
      <4>3. CASE a \notin {"QUEUED_PACKET", "ACK_PACKET", "SLEEP"}
        <5>1. LinkRun(l) = SendFrame(m, Control(a))
          BY <2>5, <4>3
        <5>2. Control(a).kind = a /\ Control(a) # NoFrame
          BY <2>2, ControlType, FrameNotNone
        <5>3. LinkRun(l).tx = Control(a) /\ LinkRun(l).actions = m.actions
          BY <2>6, <5>1 DEF SendFrame, Link
        <5> QED BY <5>2, <5>3
      <4> QED BY <2>8, <4>1, <4>2, <4>3
    <3>2. LinkRun(l).actions \cap Hand \subseteq l.actions
      BY <2>6, <3>1 DEF Hand
    <3>3. /\ a = "CONFIG" => "SYNC" \notin LinkRun(l).actions
          /\ a = "CONFIG_RESPONSE" => "SYNC_RESPONSE" \notin LinkRun(l).actions
      BY <2>3, <2>4, <3>2 DEF Hand
    <3> QED BY <1>3, <2>2, <3>1, <3>2, <3>3 DEF Asks, Idle
  <2> QED BY <2>7, <2>8
<1> QED BY <1>1, <1>2, <1>3

-----------------------------------------------------------------------------
(* What a callback does to the numbers of an end.                               *)

\* The sender: nothing, or it takes the next packet of the upper layer.
SenderIdle(l, m) ==
    /\ m.seq = l.seq /\ m.confirmed = l.confirmed
    /\ \/ m.packet = l.packet /\ m.accepted = l.accepted
       \/ l.packet = 0 /\ m.accepted = l.accepted + 1 /\ m.packet = m.accepted

\* The sender: frame f confirms its packet.
Confirms(l, f, m) ==
    /\ Numbered(f) /\ l.packet # 0 /\ IncSeqNr(l.seq) = f.ack
    /\ m.seq = f.ack /\ m.confirmed = l.packet
    /\ \/ m.packet = 0 /\ m.accepted = l.accepted
       \/ m.accepted = l.accepted + 1 /\ m.packet = m.accepted

\* The receiver: it hands the payload of frame f to the upper layer.
Takes(l, f, m) ==
    /\ Reliable(f) /\ f.seq = l.ack
    /\ m.ack = IncSeqNr(l.ack) /\ m.received = f.payload /\ m.handed = l.handed + 1

\* The numbers from which an end that is not active will count, whatever it has
\* counted before a restart; it uses none of its own.
Zeroed(l) == IF l.state = "ACTIVE" THEN l ELSE [l EXCEPT !.seq = 0, !.ack = 0]
Calm(l) == l.state # "ACTIVE" => "ACK_PACKET" \notin l.actions

\* A callback other than the one for a received frame, or a call of the upper layer.
Quiet(l, m) == SenderIdle(l, m) /\ SameReceiver(l, m) /\ TxKept(l, m)

\* The callback for the received frame f.
Effect(l, f, m) ==
    /\ SenderIdle(l, m) \/ Confirms(l, f, m)
    /\ SameReceiver(l, m) \/ Takes(l, f, m)
    /\ TxKept(l, m)

\* Two steps in a row, of which the second takes no packet if the first left one.
LEMMA TxTrans ==
    ASSUME NEW l \in Link, NEW m \in Link, NEW n \in Link, TxKept(l, m), TxKept(m, n),
           n.ack = m.ack, m.packet # 0 => SameSender(m, n),
           m.accepted \in {l.accepted, l.accepted + 1}, n.accepted \in {m.accepted, m.accepted + 1}
    PROVE  TxKept(l, n)
<1>1. n.tx # NoFrame => n.tx \in Frame
  BY DEF Link
<1>2. l.accepted \in Nat
  BY DEF Link
<1>3. CASE l.tx # NoFrame
  <2>1. m.tx # NoFrame /\ n.tx # NoFrame
    BY <1>3 DEF TxKept
  <2>2. /\ m.tx.kind = l.tx.kind /\ m.tx.seq = l.tx.seq /\ m.tx.ack = l.tx.ack
        /\ m.tx.payload = l.tx.payload \/ m.accepted # l.accepted
    BY <1>3 DEF TxKept
  <2>3. /\ n.tx.kind = m.tx.kind /\ n.tx.seq = m.tx.seq /\ n.tx.ack = m.tx.ack
        /\ n.tx.payload = m.tx.payload \/ n.accepted # m.accepted
    BY <2>1 DEF TxKept
  <2>4. m.accepted # l.accepted \/ n.accepted # m.accepted => n.accepted # l.accepted
    BY <1>2
  <2> QED BY <1>3, <2>1, <2>2, <2>3, <2>4 DEF TxKept
<1>4. CASE l.tx = NoFrame /\ m.tx = NoFrame
  BY <1>4 DEF TxKept
<1>5. CASE l.tx = NoFrame /\ m.tx # NoFrame
  <2>1. Fresh(m, m.tx) /\ n.tx \in Frame
    BY <1>1, <1>5 DEF TxKept
  <2>2. /\ n.tx.kind = m.tx.kind /\ n.tx.seq = m.tx.seq /\ n.tx.ack = m.tx.ack
        /\ n.tx.payload = m.tx.payload \/ n.accepted # m.accepted
    BY <1>5 DEF TxKept
  <2>3. Numbered(n.tx) => n.tx.ack = n.ack
    BY <2>1, <2>2 DEF Fresh, Numbered, Reliable
  <2>4. Reliable(n.tx) => n.packet # 0 /\ n.tx.seq = n.seq /\ n.tx.payload = n.packet
    BY <2>1, <2>2 DEF Fresh, Reliable, SameSender
  <2> QED BY <1>5, <2>1, <2>3, <2>4 DEF TxKept, Fresh
<1> QED BY <1>3, <1>4, <1>5

\* A frame that is torn keeps its header.
LEMMA QueueGood ==
    ASSUME NEW l \in Link
    PROVE  /\ QueuePacket(l) \in Link /\ TxKept(l, QueuePacket(l))
           /\ SameReceiver(l, QueuePacket(l))
           /\ QueuePacket(l).state = l.state
           /\ QueuePacket(l).seq = l.seq /\ QueuePacket(l).confirmed = l.confirmed
           /\ QueuePacket(l).accepted = l.accepted + 1
           /\ QueuePacket(l).packet = l.accepted + 1
<1> DEFINE t == IF l.tx # NoFrame /\ l.tx.more THEN [l.tx EXCEPT !.payload = Torn] ELSE l.tx
<1>1. l.tx # NoFrame => l.tx \in Frame
  BY DEF Link
<1>2. l.tx # NoFrame => /\ t \in Frame /\ t.kind = l.tx.kind
                        /\ t.seq = l.tx.seq /\ t.ack = l.tx.ack
  BY <1>1 DEF Frame, Torn
<1>3. l.tx = NoFrame => t = NoFrame
  OBVIOUS
<1>4. QueuePacket(l) = [l EXCEPT !.packet = l.accepted + 1, !.accepted = l.accepted + 1, !.tx = t]
  BY DEF QueuePacket
<1>5. l.accepted \in Nat
  BY DEF Link
<1> HIDE DEF t
<1>6. QueuePacket(l) \in Link
  <2>1. t \in Frame \cup {NoFrame} /\ l.accepted + 1 \in Nat
    BY <1>2, <1>3, <1>5
  <2> QED BY <1>4, <2>1 DEF Link
<1>7. /\ QueuePacket(l).tx = t /\ QueuePacket(l).accepted = l.accepted + 1
      /\ QueuePacket(l).packet = l.accepted + 1 /\ QueuePacket(l).state = l.state
      /\ QueuePacket(l).seq = l.seq /\ QueuePacket(l).confirmed = l.confirmed
      /\ QueuePacket(l).ack = l.ack /\ QueuePacket(l).received = l.received
      /\ QueuePacket(l).handed = l.handed
  BY <1>4 DEF Link
<1>8. l.accepted + 1 # l.accepted
  BY <1>5
<1>9. TxKept(l, QueuePacket(l))
  BY <1>2, <1>3, <1>7, <1>8, FrameNotNone DEF TxKept
<1> QED BY <1>6, <1>7, <1>9 DEF SameReceiver

LEMMA SetTimerGood ==
    ASSUME NEW l \in Link
    PROVE  /\ SetTimer(l) \in Link /\ SetTimer(l).timer = TRUE /\ SetTimer(l).state = l.state
           /\ SameSender(l, SetTimer(l)) /\ SameReceiver(l, SetTimer(l)) /\ TxKept(l, SetTimer(l))
BY DEF SetTimer, Link, SameSender, SameReceiver, TxKept

\* A step that changes no number and then another one.
LEMMA SameThenTx ==
    ASSUME NEW l \in Link, NEW m \in Link, NEW n \in Link, TxKept(l, m), TxKept(m, n),
           SameSender(m, n), SameReceiver(m, n), m.accepted \in {l.accepted, l.accepted + 1}
    PROVE  TxKept(l, n)
<1>1. n.ack = m.ack /\ n.accepted \in {m.accepted, m.accepted + 1}
  BY DEF SameSender, SameReceiver
<1> QED BY <1>1, TxTrans

\* hci_transport_h5_send_packet: the packet is queued and the timer runs.
LEMMA SendPacketGood ==
    ASSUME NEW l \in Link, CanSendPacketNow(l)
    PROVE  LET m == SendPacket(l)
           IN  Good(m) /\ m.state = "ACTIVE" /\ Quiet(l, m) /\ m.packet # 0
<1>1. l.packet = 0 /\ l.state = "ACTIVE"
  BY DEF CanSendPacketNow, HaveOutgoingPacket
<1>2. PICK q : q = QueuePacket(l)
  OBVIOUS
<1>3. /\ q \in Link /\ TxKept(l, q) /\ SameReceiver(l, q) /\ q.state = l.state
      /\ q.seq = l.seq /\ q.confirmed = l.confirmed
      /\ q.accepted = l.accepted + 1 /\ q.packet = l.accepted + 1
  BY <1>2, QueueGood
<1>4. PICK a : a = IF q.asleep THEN "WAKEUP" ELSE "QUEUED_PACKET"
  OBVIOUS
<1>5. PICK r : r = Request(q, a)
  OBVIOUS
<1>6. r \in Link /\ Same(q, r)
  BY <1>3, <1>4, <1>5, RequestGood, Kinds
<1>7. PICK t : t = SetTimer(r)
  OBVIOUS
<1>8. t \in Link /\ t.timer = TRUE /\ t.state = r.state
      /\ SameSender(r, t) /\ SameReceiver(r, t) /\ TxKept(r, t)
  BY <1>6, <1>7, SetTimerGood
<1>9. PICK m : m = LinkRun(t)
  OBVIOUS
<1>10. m \in Link /\ Same(t, m)
  BY <1>8, <1>9, LinkRunGood
<1>11. SendPacket(l) = m
  BY <1>2, <1>4, <1>5, <1>7, <1>9 DEF SendPacket
<1>12. TxKept(l, r)
  BY <1>3, <1>6, SameThenTx DEF Same
<1>13. TxKept(l, t)
  <2>1. r.accepted = l.accepted + 1
    BY <1>3, <1>6 DEF Same, SameSender
  <2> QED BY <1>6, <1>8, <1>12, <2>1, SameThenTx
<1>14. TxKept(l, m)
  <2>1. t.accepted = l.accepted + 1
    BY <1>3, <1>6, <1>8 DEF Same, SameSender
  <2> QED BY <1>8, <1>10, <1>13, <2>1, SameThenTx DEF Same
<1>15. /\ m.state = "ACTIVE" /\ m.timer = TRUE /\ SameReceiver(l, m)
       /\ m.seq = l.seq /\ m.confirmed = l.confirmed
       /\ m.accepted = l.accepted + 1 /\ m.packet = l.accepted + 1
  BY <1>1, <1>3, <1>6, <1>8, <1>10 DEF Same, SameSender, SameReceiver
<1>16. l.accepted + 1 # 0
  BY DEF Link
<1>17. SenderIdle(l, m)
  BY <1>1, <1>15 DEF SenderIdle
<1>18. Good(m)
  BY <1>10, <1>15, <1>16 DEF Good, NoPacketYet, Timed
<1> QED BY <1>11, <1>14, <1>15, <1>16, <1>17, <1>18 DEF Quiet

\* It asks for no frame of the handshake.
LEMMA SendPacketAsks ==
    ASSUME NEW l \in Link
    PROVE  Asks(l, {}, SendPacket(l)) /\ Idle(SendPacket(l))
<1>1. PICK q : q = QueuePacket(l)
  OBVIOUS
<1>2. q \in Link /\ Asks(l, {}, q)
  <2>1. q \in Link /\ TxKept(l, q)
    BY <1>1, QueueGood
  <2>2. q.actions = l.actions /\ (l.tx = NoFrame => q.tx = NoFrame)
    BY <1>1 DEF QueuePacket, Link
  <2> QED BY <2>1, <2>2 DEF TxKept, Asks
<1>3. PICK a : a = IF q.asleep THEN "WAKEUP" ELSE "QUEUED_PACKET"
  OBVIOUS
<1>4. a \in Action /\ {a} \cap Hand \subseteq {}
  BY <1>3, Kinds DEF Hand
<1>5. PICK r : r = SetTimer(Request(q, a))
  OBVIOUS
<1>6. r \in Link /\ Asks(q, {}, r)
  BY <1>2, <1>4, <1>5, RequestGood, RequestAsks, SetTimerGood, AsksMore
<1>7. SendPacket(l) = LinkRun(r)
  BY <1>1, <1>3, <1>5 DEF SendPacket
<1>8. Asks(r, {}, LinkRun(r)) /\ Idle(LinkRun(r))
  BY <1>6, LinkRunAsks
<1> QED BY <1>2, <1>6, <1>7, <1>8, AsksThen

\* A callback of the upper layer, which may send its next packet.
LEMMA UpcallGood ==
    ASSUME NEW l \in Link, Good(l), NEW event, NEW sendsAt
    PROVE  LET m == Upcall(l, event, sendsAt)
           IN  /\ Good(m) /\ m.state = l.state /\ Quiet(l, m) /\ (l.packet # 0 => m = l)
               /\ Asks(l, {}, m)
<1>1. CASE event = sendsAt /\ CanSendPacketNow(l)
  <2>1. Upcall(l, event, sendsAt) = SendPacket(l)
    BY <1>1 DEF Upcall
  <2> QED BY <1>1, <2>1, SendPacketGood, SendPacketAsks DEF CanSendPacketNow, HaveOutgoingPacket
<1>2. CASE ~(event = sendsAt /\ CanSendPacketNow(l))
  <2>1. Upcall(l, event, sendsAt) = l
    BY <1>2 DEF Upcall
  <2> QED BY <2>1 DEF Quiet, SenderIdle, SameReceiver, TxKept, Asks
<1> QED BY <1>1, <1>2

-----------------------------------------------------------------------------
(* hci_transport_h5_process_frame and the handlers of the timers.               *)

\* The state of the link after frame f, and what the end asks for then.
NextState(l, f) ==
    CASE l.state = "UNINITIALIZED" /\ f.kind = "SYNC_RESPONSE" -> "INITIALIZED"
      [] l.state = "INITIALIZED" /\ f.kind = "CONFIG_RESPONSE" -> "ACTIVE"
      [] OTHER -> l.state
Answers(l, f) ==
    CASE l.state # "ACTIVE" /\ f.kind = "SYNC" -> {"SYNC_RESPONSE"}
      [] l.state = "UNINITIALIZED" /\ f.kind = "SYNC_RESPONSE" -> {"CONFIG"}
      [] l.state # "UNINITIALIZED" /\ f.kind = "CONFIG" -> {"CONFIG_RESPONSE"}
      [] l.state = "ACTIVE" /\ Reliable(f) -> {"ACK_PACKET"}
      [] OTHER -> {}

\* What a handler returns for the received frame f.
Handled(l, f, m) ==
    /\ Good(m) /\ m.state = NextState(l, f) /\ Asks(l, Answers(l, f), m)
    /\ Calm(l) => Calm(m) /\ Effect(Zeroed(l), f, Zeroed(m))

LEMMA ZeroedType ==
    ASSUME NEW l \in Link
    PROVE  LET z == Zeroed(l)
           IN  /\ z \in Link /\ z.state = l.state /\ z.tx = l.tx
               /\ z.packet = l.packet /\ z.accepted = l.accepted /\ z.confirmed = l.confirmed
               /\ z.received = l.received /\ z.handed = l.handed
               /\ l.state = "ACTIVE" => z = l
               /\ l.state # "ACTIVE" => z.seq = 0 /\ z.ack = 0
BY ZeroSeq DEF Zeroed, Link

\* An end that is not active starts no frame with a number.
LEMMA CalmTx ==
    ASSUME NEW l \in Link, NEW m \in Link, NEW A, Calm(l), l.state # "ACTIVE",
           NoPacketYet(m), m.state # "ACTIVE", "ACK_PACKET" \notin A, Asks(l, A, m), TxKept(l, m)
    PROVE  TxKept(Zeroed(l), Zeroed(m)) /\ Calm(m)
<1>1. "ACK_PACKET" \notin m.actions
  BY DEF Asks, Hand, Calm
<1>2. ASSUME l.tx = NoFrame, m.tx # NoFrame PROVE ~Numbered(m.tx) /\ ~Reliable(m.tx) /\ m.tx \in Frame
  <2>1. Fresh(m, m.tx) /\ m.packet = 0
    BY <1>2 DEF TxKept, NoPacketYet
  <2>2. ~Reliable(m.tx) /\ m.tx \in Frame
    BY <2>1 DEF Fresh
  <2>3. m.tx.kind # "ACK_PACKET"
    BY <1>2 DEF Asks, Hand, Calm
  <2> QED BY <2>2, <2>3 DEF Numbered
<1>3. PICK y, z : y = Zeroed(l) /\ z = Zeroed(m)
  OBVIOUS
<1>4. y.tx = l.tx /\ z.tx = m.tx /\ y.accepted = l.accepted /\ z.accepted = m.accepted
  BY <1>3, ZeroedType
<1>5. l.tx = NoFrame /\ m.tx # NoFrame => Fresh(z, m.tx)
  BY <1>2 DEF Fresh
<1>6. TxKept(y, z)
  BY <1>4, <1>5 DEF TxKept
<1> QED BY <1>1, <1>3, <1>6 DEF Calm

LEMMA ZeroedSame ==
    ASSUME NEW l \in Link, NEW m \in Link, NEW A, NoPacketYet(l), Calm(l), Same(l, m),
           l.state # "ACTIVE" => "ACK_PACKET" \notin A, Asks(l, A, m)
    PROVE  Same(Zeroed(l), Zeroed(m)) /\ Calm(m)
<1>1. m.state = l.state /\ m.packet = l.packet
  BY DEF Same, SameSender
<1>2. CASE l.state = "ACTIVE"
  BY <1>1, <1>2 DEF Zeroed, Calm
<1>3. CASE l.state # "ACTIVE"
  <2>1. TxKept(Zeroed(l), Zeroed(m)) /\ Calm(m)
    BY <1>1, <1>3, CalmTx DEF NoPacketYet, Same
  <2>2. PICK y, z : y = Zeroed(l) /\ z = Zeroed(m)
    OBVIOUS
  <2>3. /\ y.seq = 0 /\ y.ack = 0 /\ z.seq = 0 /\ z.ack = 0
        /\ y.packet = l.packet /\ y.accepted = l.accepted /\ y.confirmed = l.confirmed
        /\ z.packet = m.packet /\ z.accepted = m.accepted /\ z.confirmed = m.confirmed
        /\ y.received = l.received /\ y.handed = l.handed
        /\ z.received = m.received /\ z.handed = m.handed
        /\ y.state = l.state /\ z.state = m.state /\ y.timer = l.timer /\ z.timer = m.timer
    BY <1>1, <1>3, <2>2, ZeroedType DEF Zeroed, Link
  <2>4. SameSender(y, z) /\ SameReceiver(y, z) /\ z.state = y.state /\ z.timer = y.timer
    BY <2>3 DEF Same, SameSender, SameReceiver
  <2> QED BY <2>1, <2>2, <2>4 DEF Same
<1> QED BY <1>2, <1>3

\* hci_transport_link_run at the end of a handler changes nothing of this.
LEMMA ThenLinkRun ==
    ASSUME NEW l \in Link, NEW f, NEW m \in Link, Handled(l, f, m)
    PROVE  Handled(l, f, LinkRun(m)) /\ Idle(LinkRun(m))
<1>1. PICK n : n = LinkRun(m)
  OBVIOUS
<1>2. n \in Link /\ Same(m, n) /\ Asks(m, {}, n) /\ Idle(n)
  BY <1>1, LinkRunGood, LinkRunAsks
<1>3. Good(n) /\ n.state = NextState(l, f) /\ Asks(l, Answers(l, f), n)
  <2>1. Good(n) /\ n.state = NextState(l, f)
    BY <1>2 DEF Handled, Good, Same, SameSender, NoPacketYet, Timed
  <2>2. Asks(l, Answers(l, f), n)
    BY <1>2, AsksThen DEF Handled
  <2> QED BY <2>1, <2>2
<1>4. ASSUME Calm(l) PROVE Calm(n) /\ Effect(Zeroed(l), f, Zeroed(n))
  <2>1. Calm(m) /\ NoPacketYet(m)
    BY <1>4 DEF Handled, Good
  <2>2. Same(Zeroed(m), Zeroed(n)) /\ Calm(n)
    BY <1>2, <2>1, ZeroedSame
  <2>3. PICK y, z, u : y = Zeroed(l) /\ z = Zeroed(m) /\ u = Zeroed(n)
    OBVIOUS
  <2>4. y \in Link /\ z \in Link /\ u \in Link
    BY <1>2, <2>3, ZeroedType
  <2>5. Effect(y, f, z) /\ Same(z, u)
    BY <1>4, <2>2, <2>3 DEF Handled
  <2>6. z.accepted \in {y.accepted, y.accepted + 1}
    BY <2>5 DEF Effect, SenderIdle, Confirms
  <2>7. TxKept(y, u)
    BY <2>4, <2>5, <2>6, SameThenTx DEF Effect, Same
  <2>8. SenderIdle(y, u) \/ Confirms(y, f, u)
    BY <2>5 DEF Effect, Same, SameSender, SenderIdle, Confirms
  <2>9. SameReceiver(y, u) \/ Takes(y, f, u)
    BY <2>5 DEF Effect, Same, SameReceiver, Takes
  <2> QED BY <2>2, <2>3, <2>7, <2>8, <2>9 DEF Effect
<1> QED BY <1>1, <1>2, <1>3, <1>4 DEF Handled

LEMMA AnswersCalm ==
    ASSUME NEW l, NEW f, l.state # "ACTIVE" PROVE "ACK_PACKET" \notin Answers(l, f)
BY DEF Answers

\* A handler that only asks for a frame.
LEMMA SameHandled ==
    ASSUME NEW l \in Link, Good(l), NEW f, NEW m \in Link, Same(l, m),
           NextState(l, f) = l.state, Asks(l, Answers(l, f), m)
    PROVE  Handled(l, f, m)
<1>1. Good(m) /\ m.state = NextState(l, f)
  BY DEF Good, Same, SameSender, NoPacketYet, Timed
<1>2. ASSUME Calm(l) PROVE Calm(m) /\ Effect(Zeroed(l), f, Zeroed(m))
  <2>1. Same(Zeroed(l), Zeroed(m)) /\ Calm(m)
    BY <1>2, ZeroedSame, AnswersCalm DEF Good
  <2> QED BY <2>1 DEF Effect, Same, SameSender, SenderIdle
<1> QED BY <1>1, <1>2 DEF Handled

LEMMA SelfSame == ASSUME NEW l PROVE Same(l, l) /\ \A A : Asks(l, A, l)
BY DEF Same, SameSender, SameReceiver, TxKept, Asks

LEMMA UninitializedHandled ==
    ASSUME NEW l \in Link, Good(l), l.state = "UNINITIALIZED", NEW f
    PROVE  ProcessUninitialized(l, f) \in Link /\ Handled(l, f, ProcessUninitialized(l, f))
<1>1. CASE f.kind = "SYNC"
  <2>1. ProcessUninitialized(l, f) = Request(l, "SYNC_RESPONSE")
    BY <1>1 DEF ProcessUninitialized
  <2>2. NextState(l, f) = l.state /\ Answers(l, f) = {"SYNC_RESPONSE"}
    BY <1>1 DEF NextState, Answers
  <2> QED BY <2>1, <2>2, RequestGood, RequestAsks, Kinds, SameHandled
<1>2. CASE f.kind = "SYNC_RESPONSE"
  <2>1. PICK k : k = [l EXCEPT !.state = "INITIALIZED"]
    OBVIOUS
  <2>2. /\ k \in Link /\ k.state = "INITIALIZED" /\ SameSender(l, k) /\ SameReceiver(l, k)
        /\ k.tx = l.tx /\ k.actions = l.actions
    BY <2>1 DEF Link, LinkState, SameSender, SameReceiver
  <2>3. PICK r : r = Request(k, "CONFIG")
    OBVIOUS
  <2>4. r \in Link /\ Same(k, r)
    BY <2>2, <2>3, RequestGood, Kinds
  <2>5. PICK m : m = SetTimer(r)
    OBVIOUS
  <2>6. /\ m \in Link /\ m.timer = TRUE /\ m.state = r.state
        /\ SameSender(r, m) /\ SameReceiver(r, m) /\ TxKept(r, m)
    BY <2>4, <2>5, SetTimerGood
  <2>7. ProcessUninitialized(l, f) = m
    BY <1>2, <2>1, <2>3, <2>5 DEF ProcessUninitialized
  <2>8. SameSender(l, m) /\ SameReceiver(l, m) /\ m.state = "INITIALIZED"
    BY <2>2, <2>4, <2>6 DEF Same, SameSender, SameReceiver
  <2>9. TxKept(l, m)
    <3>1. TxKept(l, k)
      BY <2>2 DEF TxKept, SameSender
    <3>2. TxKept(l, r)
      BY <2>2, <2>4, <3>1, SameThenTx DEF Same, SameSender
    <3>3. r.accepted = l.accepted
      BY <2>2, <2>4 DEF Same, SameSender
    <3> QED BY <2>4, <2>6, <3>2, <3>3, SameThenTx
  <2>10. Good(m)
    BY <2>6, <2>8 DEF Good, NoPacketYet, Timed, SameSender
  <2>11. Asks(l, {"CONFIG"}, m)
    BY <2>2, <2>3, <2>5, RequestAsks, Kinds DEF Asks
  <2>12. NextState(l, f) = "INITIALIZED" /\ Answers(l, f) = {"CONFIG"}
    BY <1>2 DEF NextState, Answers
  <2>13. ASSUME Calm(l) PROVE Calm(m) /\ Effect(Zeroed(l), f, Zeroed(m))
    <3>1. TxKept(Zeroed(l), Zeroed(m)) /\ Calm(m)
      BY <2>6, <2>8, <2>9, <2>10, <2>11, <2>13, CalmTx DEF Good
    <3>2. PICK y, z : y = Zeroed(l) /\ z = Zeroed(m)
      OBVIOUS
    <3>3. /\ y.seq = 0 /\ y.ack = 0 /\ z.seq = 0 /\ z.ack = 0
          /\ y.packet = l.packet /\ y.accepted = l.accepted /\ y.confirmed = l.confirmed
          /\ z.packet = m.packet /\ z.accepted = m.accepted /\ z.confirmed = m.confirmed
          /\ y.received = l.received /\ y.handed = l.handed
          /\ z.received = m.received /\ z.handed = m.handed
      BY <2>6, <2>8, <3>2, ZeroedType
    <3>4. SenderIdle(y, z) /\ SameReceiver(y, z)
      BY <2>8, <3>3 DEF SenderIdle, SameSender, SameReceiver
    <3> QED BY <3>1, <3>2, <3>4 DEF Effect
  <2> QED BY <2>6, <2>7, <2>8, <2>10, <2>11, <2>12, <2>13 DEF Handled
<1>3. CASE f.kind \notin {"SYNC", "SYNC_RESPONSE"}
  <2>1. ProcessUninitialized(l, f) = l
    BY <1>3 DEF ProcessUninitialized
  <2>2. NextState(l, f) = l.state
    BY <1>3 DEF NextState
  <2> QED BY <2>1, <2>2, SelfSame, SameHandled
<1> QED BY <1>1, <1>2, <1>3

LEMMA InitializedHandled ==
    ASSUME NEW l \in Link, Good(l), l.state = "INITIALIZED", NEW f, NEW sendsAt
    PROVE  /\ ProcessInitialized(l, f, sendsAt) \in Link
           /\ Handled(l, f, ProcessInitialized(l, f, sendsAt))
<1>1. CASE f.kind = "SYNC"
  <2>1. ProcessInitialized(l, f, sendsAt) = Request(l, "SYNC_RESPONSE")
    BY <1>1 DEF ProcessInitialized
  <2>2. NextState(l, f) = l.state /\ Answers(l, f) = {"SYNC_RESPONSE"}
    BY <1>1 DEF NextState, Answers
  <2> QED BY <2>1, <2>2, RequestGood, RequestAsks, Kinds, SameHandled
<1>2. CASE f.kind = "CONFIG"
  <2>1. ProcessInitialized(l, f, sendsAt) = Request(l, "CONFIG_RESPONSE")
    BY <1>2 DEF ProcessInitialized
  <2>2. NextState(l, f) = l.state /\ Answers(l, f) = {"CONFIG_RESPONSE"}
    BY <1>2 DEF NextState, Answers
  <2> QED BY <2>1, <2>2, RequestGood, RequestAsks, Kinds, SameHandled
<1>3. CASE f.kind = "CONFIG_RESPONSE"
  <2>1. PICK k : k = [l EXCEPT !.state = "ACTIVE", !.timer = FALSE, !.seq = 0, !.ack = 0]
    OBVIOUS
  <2>2. /\ k \in Link /\ k.state = "ACTIVE" /\ k.timer = FALSE /\ k.seq = 0 /\ k.ack = 0
        /\ k.packet = l.packet /\ k.accepted = l.accepted /\ k.confirmed = l.confirmed
        /\ k.received = l.received /\ k.handed = l.handed /\ k.tx = l.tx /\ k.actions = l.actions
    BY <2>1, ZeroSeq DEF Link, LinkState
  <2>3. Good(k)
    BY <2>2 DEF Good, NoPacketYet, Timed
  <2>4. PICK m : m = Upcall(k, "packet_sent", sendsAt)
    OBVIOUS
  <2>5. Good(m) /\ m.state = k.state /\ Quiet(k, m) /\ Asks(k, {}, m)
    BY <2>2, <2>3, <2>4, UpcallGood
  <2>6. ProcessInitialized(l, f, sendsAt) = m
    BY <1>3, <2>1, <2>4 DEF ProcessInitialized
  <2>7. NextState(l, f) = "ACTIVE" /\ Answers(l, f) = {}
    BY <1>3 DEF NextState, Answers, Reliable
  <2>8. Asks(l, {}, m)
    BY <2>2, <2>5 DEF Asks
  <2>9. Effect(Zeroed(l), f, Zeroed(m))
    <3>1. PICK y : y = Zeroed(l)
      OBVIOUS
    <3>2. /\ y.seq = 0 /\ y.ack = 0 /\ y.packet = k.packet /\ y.accepted = k.accepted
          /\ y.confirmed = k.confirmed /\ y.received = k.received /\ y.handed = k.handed
          /\ y.tx = k.tx
      BY <2>2, <3>1, ZeroedType
    <3>3. Zeroed(m) = m
      BY <2>2, <2>5 DEF Zeroed
    <3>4. SenderIdle(y, m) /\ SameReceiver(y, m)
      BY <2>2, <2>5, <3>2 DEF Quiet, SenderIdle, SameReceiver
    <3>5. TxKept(y, m)
      BY <2>5, <3>2 DEF Quiet, TxKept
    <3> QED BY <3>1, <3>3, <3>4, <3>5 DEF Effect
  <2> QED BY <2>2, <2>5, <2>6, <2>7, <2>8, <2>9 DEF Handled, Good, Calm
<1>4. CASE f.kind \notin {"SYNC", "CONFIG", "CONFIG_RESPONSE"}
  <2>1. ProcessInitialized(l, f, sendsAt) = l
    BY <1>4 DEF ProcessInitialized
  <2>2. NextState(l, f) = l.state
    BY <1>4 DEF NextState
  <2> QED BY <2>1, <2>2, SelfSame, SameHandled
<1> QED BY <1>1, <1>2, <1>3, <1>4

\* The acknowledge number of a frame, looked at before its payload.
LEMMA AckStage ==
    ASSUME NEW l \in Link, Good(l), l.state = "ACTIVE", NEW f \in Frame, NEW sendsAt
    PROVE  LET m == ProcessAck(l, f, sendsAt)
           IN  /\ Good(m) /\ m.state = "ACTIVE" /\ Asks(l, {}, m)
               /\ SameSender(l, m) \/ Confirms(l, f, m)
               /\ SameReceiver(l, m) /\ TxKept(l, m)
<1> DEFINE acked == /\ Reliable(f) \/ f.kind = "ACK_PACKET"
                    /\ HaveOutgoingPacket(l) /\ IncSeqNr(l.seq) = f.ack
<1>1. CASE acked
  <2>1. PICK k : k = [ClearQueue(l) EXCEPT !.seq = f.ack, !.confirmed = l.packet]
    OBVIOUS
  <2>2. f.ack \in SeqNr
    BY DEF Frame
  <2>3. /\ k \in Link /\ k.state = "ACTIVE" /\ k.timer = FALSE /\ k.packet = 0
        /\ k.seq = f.ack /\ k.confirmed = l.packet /\ k.accepted = l.accepted
        /\ k.ack = l.ack /\ k.received = l.received /\ k.handed = l.handed /\ k.tx = l.tx
        /\ k.actions = l.actions
    BY <2>1, <2>2 DEF ClearQueue, Link
  <2>4. Good(k)
    BY <2>3 DEF Good, NoPacketYet, Timed
  <2>5. PICK m : m = Upcall(k, "packet_sent", sendsAt)
    OBVIOUS
  <2>6. Good(m) /\ m.state = k.state /\ Quiet(k, m) /\ Asks(k, {}, m)
    BY <2>3, <2>4, <2>5, UpcallGood
  <2>7. ProcessAck(l, f, sendsAt) = m
    BY <1>1, <2>1, <2>5 DEF ProcessAck
  <2>8. Confirms(l, f, m)
    BY <1>1, <2>3, <2>6 DEF Confirms, Numbered, HaveOutgoingPacket, Quiet, SenderIdle
  <2>9. SameReceiver(l, m) /\ TxKept(l, m)
    BY <2>3, <2>6 DEF Quiet, SameReceiver, TxKept
  <2>10. Asks(l, {}, m)
    BY <2>3, <2>6 DEF Asks
  <2> QED BY <2>3, <2>6, <2>7, <2>8, <2>9, <2>10
<1>2. CASE ~acked
  <2>1. ProcessAck(l, f, sendsAt) = l
    BY <1>2 DEF ProcessAck
  <2> QED BY <2>1, SelfSame DEF Same
<1> QED BY <1>1, <1>2

\* The payload of a frame.
LEMMA PayloadStage ==
    ASSUME NEW l \in Link, Good(l), l.state = "ACTIVE", NEW f \in Frame, NEW sendsAt
    PROVE  LET m == ProcessPayload(l, f, sendsAt)
           IN  /\ Good(m) /\ m.state = "ACTIVE"
               /\ Asks(l, IF f.kind = "CONFIG" THEN {"CONFIG_RESPONSE"} ELSE {}, m)
               /\ SenderIdle(l, m) /\ (l.packet # 0 => SameSender(l, m))
               /\ m.ack = l.ack
               /\ IF Reliable(f) THEN m.received = f.payload /\ m.handed = l.handed + 1
                                 ELSE SameReceiver(l, m)
               /\ TxKept(l, m)
<1>1. CASE Reliable(f)
  <2>1. PICK k : k = [l EXCEPT !.asleep = FALSE, !.received = f.payload, !.handed = @ + 1]
    OBVIOUS
  <2>2. f.payload \in Nat /\ l.handed + 1 \in Nat
    BY DEF Frame, Link
  <2>3. /\ k \in Link /\ k.state = l.state /\ k.timer = l.timer /\ k.packet = l.packet
        /\ k.seq = l.seq /\ k.confirmed = l.confirmed /\ k.accepted = l.accepted
        /\ k.ack = l.ack /\ k.received = f.payload /\ k.handed = l.handed + 1 /\ k.tx = l.tx
        /\ k.actions = l.actions
    BY <2>1, <2>2 DEF Link
  <2>4. Good(k)
    BY <2>3 DEF Good, NoPacketYet, Timed
  <2>5. PICK u : u = Upcall(k, "packet", sendsAt)
    OBVIOUS
  <2>6. Good(u) /\ u.state = k.state /\ Quiet(k, u) /\ (k.packet # 0 => u = k) /\ Asks(k, {}, u)
    BY <2>3, <2>4, <2>5, UpcallGood
  <2>7. PICK m : m = InactivityTimerSet(u)
    OBVIOUS
  <2>8. m \in Link /\ Same(u, m)
    BY <2>6, <2>7, InactivityGood DEF Good
  <2>9. ProcessPayload(l, f, sendsAt) = m
    BY <1>1, <2>1, <2>5, <2>7 DEF ProcessPayload, Reliable
  <2>10. Good(m) /\ m.state = "ACTIVE"
    BY <2>3, <2>6, <2>8 DEF Good, Same, SameSender, NoPacketYet, Timed
  <2>11. SenderIdle(l, m)
    BY <2>3, <2>6, <2>8 DEF Quiet, SenderIdle, Same, SameSender
  <2>12. l.packet # 0 => SameSender(l, m)
    BY <2>3, <2>6, <2>8 DEF Same, SameSender
  <2>13. m.ack = l.ack /\ m.received = f.payload /\ m.handed = l.handed + 1
    BY <2>3, <2>6, <2>8 DEF Quiet, Same, SameReceiver
  <2>14. TxKept(l, u)
    BY <2>3, <2>6 DEF Quiet, TxKept
  <2>15. u.accepted \in {l.accepted, l.accepted + 1}
    BY <2>3, <2>6 DEF Quiet, SenderIdle
  <2>16. TxKept(l, m)
    BY <2>6, <2>8, <2>14, <2>15, SameThenTx DEF Same, Good
  <2>17. m.actions = u.actions /\ m.tx = u.tx /\ f.kind # "CONFIG"
    BY <1>1, <2>6, <2>7 DEF InactivityTimerSet, Good, Link, Reliable
  <2>18. Asks(l, {}, m)
    BY <2>3, <2>6, <2>17 DEF Asks
  <2> QED BY <1>1, <2>9, <2>10, <2>11, <2>12, <2>13, <2>16, <2>17, <2>18
<1>2. CASE ~Reliable(f)
  <2>1. PICK m : m = ProcessPayload(l, f, sendsAt)
    OBVIOUS
  <2>2. m \in Link /\ Same(l, m) /\ Asks(l, IF f.kind = "CONFIG" THEN {"CONFIG_RESPONSE"} ELSE {}, m)
    <3>1. CASE f.kind = "CONFIG"
      BY <2>1, <3>1, RequestGood, RequestAsks, Kinds DEF ProcessPayload
    <3>2. CASE f.kind \in {"SLEEP", "WOKEN"}
      <4>1. PICK b \in BOOLEAN : m = [l EXCEPT !.asleep = b]
        BY <2>1, <3>2 DEF ProcessPayload
      <4> QED BY <3>2, <4>1 DEF Link, Same, SameSender, SameReceiver, TxKept, Asks
    <3>3. CASE f.kind = "WAKEUP"
      <4>1. PICK k : k = [l EXCEPT !.asleep = FALSE]
        OBVIOUS
      <4>2. k \in Link /\ Same(l, k) /\ Asks(l, {}, k)
        BY <4>1 DEF Link, Same, SameSender, SameReceiver, TxKept, Asks
      <4>3. m = Request(k, "WOKEN")
        BY <2>1, <3>3, <4>1 DEF ProcessPayload
      <4>4. Asks(k, {"WOKEN"}, m) /\ {"WOKEN"} \cap Hand \subseteq {}
        BY <4>2, <4>3, RequestAsks, Kinds DEF Hand
      <4>5. Asks(l, {}, m)
        BY <4>2, <4>4, AsksMore, AsksThen
      <4>6. m \in Link /\ Same(l, m)
        BY <4>2, <4>3, RequestGood, Kinds, SameTrans
      <4> QED BY <3>3, <4>5, <4>6
    <3>4. CASE f.kind \notin {"CONFIG", "SLEEP", "WAKEUP", "WOKEN"}
      <4>1. m = l
        BY <1>2, <2>1, <3>4 DEF ProcessPayload, Reliable
      <4> QED BY <4>1, SelfSame
    <3> QED BY <3>1, <3>2, <3>3, <3>4
  <2>3. Good(m)
    BY <2>2 DEF Good, Same, SameSender, NoPacketYet, Timed
  <2> QED BY <1>2, <2>1, <2>2, <2>3 DEF Same, SameSender, SameReceiver, SenderIdle
<1> QED BY <1>1, <1>2

LEMMA ActiveHandled ==
    ASSUME NEW l \in Link, Good(l), l.state = "ACTIVE", NEW f \in Frame, NEW sendsAt
    PROVE  /\ ProcessActive(l, f, sendsAt) \in Link
           /\ Handled(l, f, ProcessActive(l, f, sendsAt))
<1>1. CASE Reliable(f) /\ f.seq # l.ack
  <2>1. ProcessActive(l, f, sendsAt) = Request(l, "ACK_PACKET")
    BY <1>1 DEF ProcessActive
  <2>2. NextState(l, f) = l.state /\ Answers(l, f) = {"ACK_PACKET"}
    BY <1>1 DEF NextState, Answers, Reliable
  <2> QED BY <2>1, <2>2, RequestGood, RequestAsks, Kinds, SameHandled
<1>2. CASE ~(Reliable(f) /\ f.seq # l.ack)
  <2>1. PICK t : t = IF Reliable(f)
                     THEN Request([l EXCEPT !.ack = IncSeqNr(l.ack)], "ACK_PACKET")
                     ELSE l
    OBVIOUS
  <2>2. /\ t \in Link /\ t.state = l.state /\ t.timer = l.timer /\ t.tx = l.tx
        /\ SameSender(l, t) /\ t.received = l.received /\ t.handed = l.handed
        /\ t.ack = IF Reliable(f) THEN IncSeqNr(l.ack) ELSE l.ack
        /\ t.actions = IF Reliable(f) THEN l.actions \cup {"ACK_PACKET"} ELSE l.actions
    <3>1. IncSeqNr(l.ack) \in SeqNr
      BY IncType DEF Link
    <3>2. "ACK_PACKET" \in Action
      BY Kinds
    <3> QED BY <2>1, <3>1, <3>2 DEF Link, Request, SameSender
  <2>3. Good(t)
    BY <2>2 DEF Good, SameSender, NoPacketYet, Timed
  <2>4. PICK m : m = ProcessAck(t, f, sendsAt)
    OBVIOUS
  <2>5. /\ Good(m) /\ m.state = "ACTIVE" /\ (SameSender(t, m) \/ Confirms(t, f, m))
        /\ SameReceiver(t, m) /\ TxKept(t, m) /\ Asks(t, {}, m)
    BY <2>2, <2>3, <2>4, AckStage
  <2>6. PICK n : n = ProcessPayload(m, f, sendsAt)
    OBVIOUS
  <2>7. /\ Good(n) /\ n.state = "ACTIVE"
        /\ SenderIdle(m, n) /\ (m.packet # 0 => SameSender(m, n))
        /\ n.ack = m.ack
        /\ IF Reliable(f) THEN n.received = f.payload /\ n.handed = m.handed + 1
                          ELSE SameReceiver(m, n)
        /\ TxKept(m, n)
        /\ Asks(m, IF f.kind = "CONFIG" THEN {"CONFIG_RESPONSE"} ELSE {}, n)
    <3>1. m \in Link
      BY <2>5 DEF Good
    <3> QED BY <2>5, <2>6, <3>1, PayloadStage
  <2>8. ProcessActive(l, f, sendsAt) = n
    BY <1>2, <2>1, <2>4, <2>6 DEF ProcessActive
  <2>9. SenderIdle(l, n) \/ Confirms(l, f, n)
    <3>1. CASE SameSender(t, m)
      BY <2>2, <2>7, <3>1 DEF SameSender, SenderIdle
    <3>2. CASE Confirms(t, f, m)
      <4>1. CASE m.packet = 0
        <5>1. m.accepted = t.accepted
          <6>1. t.accepted + 1 # 0
            BY <2>2 DEF Link
          <6> QED BY <3>2, <4>1, <6>1 DEF Confirms
        <5> QED BY <2>2, <2>7, <3>2, <4>1, <5>1 DEF SameSender, SenderIdle, Confirms
      <4>2. CASE m.packet # 0
        BY <2>2, <2>7, <3>2, <4>2 DEF SameSender, Confirms
      <4> QED BY <4>1, <4>2
    <3> QED BY <2>5, <3>1, <3>2
  <2>10. SameReceiver(l, n) \/ Takes(l, f, n)
    BY <1>2, <2>2, <2>5, <2>7 DEF SameReceiver, Takes
  <2>11. TxKept(l, n)
    <3>1. TxKept(l, m)
      BY <2>2, <2>5 DEF TxKept, SameSender
    <3>2. m.accepted \in {l.accepted, l.accepted + 1}
      BY <2>2, <2>5 DEF SameSender, Confirms
    <3>3. n.accepted \in {m.accepted, m.accepted + 1}
      BY <2>7 DEF SenderIdle
    <3>4. m \in Link /\ n \in Link
      BY <2>5, <2>7 DEF Good
    <3> QED BY <2>7, <3>1, <3>2, <3>3, <3>4, TxTrans
  <2>12. NextState(l, f) = "ACTIVE"
    BY DEF NextState
  <2>13. Asks(l, Answers(l, f), n)
    <3>1. CASE Reliable(f)
      <4>1. Answers(l, f) = {"ACK_PACKET"} /\ f.kind # "CONFIG"
        BY <3>1 DEF Answers, Reliable
      <4>2. Asks(l, {"ACK_PACKET"}, t)
        BY <2>2, <3>1, AsksOnly
      <4> QED BY <2>5, <2>7, <4>1, <4>2, AsksThen
    <3>2. CASE ~Reliable(f)
      <4>1. Asks(l, {}, m)
        BY <2>2, <2>5, <3>2 DEF Asks
      <4>2. CASE f.kind = "CONFIG"
        <5>1. Answers(l, f) = {"CONFIG_RESPONSE"}
          BY <3>2, <4>2 DEF Answers
        <5>2. Asks(l, {"CONFIG_RESPONSE"}, n)
          BY <2>7, <4>1, <4>2 DEF Asks, Hand
        <5> QED BY <5>1, <5>2
      <4>3. CASE f.kind # "CONFIG"
        <5>1. Answers(l, f) = {}
          BY <3>2, <4>3 DEF Answers
        <5> QED BY <2>7, <4>1, <4>3, <5>1, AsksThen
      <4> QED BY <4>2, <4>3
    <3> QED BY <3>1, <3>2
  <2>14. Zeroed(l) = l /\ Zeroed(n) = n /\ Calm(n)
    BY <2>7 DEF Zeroed, Calm
  <2> QED BY <2>7, <2>8, <2>9, <2>10, <2>11, <2>12, <2>13, <2>14 DEF Handled, Effect, Good
<1> QED BY <1>1, <1>2

\* hci_transport_h5_process_frame
LEMMA FrameHandled ==
    ASSUME NEW l \in Link, Good(l), NEW f \in Frame, NEW sendsAt
    PROVE  Handled(l, f, ProcessFrame(l, f, sendsAt)) /\ Idle(ProcessFrame(l, f, sendsAt))
<1>1. CASE l.state = "UNINITIALIZED"
  <2>1. ProcessFrame(l, f, sendsAt) = LinkRun(ProcessUninitialized(l, f))
    BY <1>1 DEF ProcessFrame
  <2> QED BY <1>1, <2>1, UninitializedHandled, ThenLinkRun
<1>2. CASE l.state = "INITIALIZED"
  <2>1. ProcessFrame(l, f, sendsAt) = LinkRun(ProcessInitialized(l, f, sendsAt))
    BY <1>2 DEF ProcessFrame
  <2> QED BY <1>2, <2>1, InitializedHandled, ThenLinkRun
<1>3. CASE l.state = "ACTIVE"
  <2>1. ProcessFrame(l, f, sendsAt) = LinkRun(ProcessActive(l, f, sendsAt))
    BY <1>3 DEF ProcessFrame
  <2> QED BY <1>3, <2>1, ActiveHandled, ThenLinkRun
<1> QED BY <1>1, <1>2, <1>3 DEF Link, LinkState

\* An end asks for a frame, sets its timer, if it has something to repeat, and runs.
LEMMA RepeatGood ==
    ASSUME NEW l \in Link, NoPacketYet(l), l.state # "ACTIVE" \/ l.packet # 0, NEW a \in Action
    PROVE  LET r == SetTimer(Request(l, a))
           IN  /\ Good(r) /\ Quiet(l, r) /\ r.state = l.state
               /\ Good(LinkRun(r)) /\ Quiet(l, LinkRun(r)) /\ LinkRun(r).state = l.state
<1>1. PICK q : q = Request(l, a)
  OBVIOUS
<1>2. q \in Link /\ Same(l, q)
  BY <1>1, RequestGood
<1>3. PICK r : r = SetTimer(q)
  OBVIOUS
<1>4. /\ r \in Link /\ r.timer = TRUE /\ r.state = q.state
      /\ SameSender(q, r) /\ SameReceiver(q, r) /\ TxKept(q, r)
  BY <1>2, <1>3, SetTimerGood
<1>5. PICK m : m = LinkRun(r)
  OBVIOUS
<1>6. m \in Link /\ Same(r, m)
  BY <1>4, <1>5, LinkRunGood
<1>7. /\ r.state = l.state /\ SameSender(l, r) /\ SameReceiver(l, r)
      /\ m.state = l.state /\ SameSender(l, m) /\ SameReceiver(l, m) /\ m.timer = TRUE
  BY <1>2, <1>4, <1>6 DEF Same, SameSender, SameReceiver
<1>8. TxKept(l, r)
  BY <1>2, <1>4, SameThenTx DEF Same, SameSender
<1>9. TxKept(l, m)
  BY <1>4, <1>6, <1>7, <1>8, SameThenTx DEF Same, SameSender
<1>10. Quiet(l, r) /\ Quiet(l, m)
  BY <1>7, <1>8, <1>9 DEF Quiet, SenderIdle, SameSender
<1>11. Good(r) /\ Good(m)
  BY <1>4, <1>6, <1>7 DEF Good, NoPacketYet, Timed, SameSender
<1> QED BY <1>1, <1>3, <1>5, <1>7, <1>10, <1>11

\* hci_transport_link_timeout_handler; the run loop has taken the timer out.
LEMMA TimeoutGood ==
    ASSUME NEW l \in Link, Good(l), l.timer
    PROVE  LET m == TimeoutHandler([l EXCEPT !.timer = FALSE])
           IN  Good(m) /\ Quiet(l, m) /\ m.state = l.state
<1>1. PICK k : k = [l EXCEPT !.timer = FALSE]
  OBVIOUS
<1>2. /\ k \in Link /\ k.state = l.state /\ SameSender(l, k) /\ SameReceiver(l, k) /\ k.tx = l.tx
  BY <1>1 DEF Link, SameSender, SameReceiver
<1>3. l.state # "ACTIVE" \/ l.packet # 0
  BY DEF Good, Timed
<1>4. NoPacketYet(k) /\ (k.state # "ACTIVE" \/ k.packet # 0)
  BY <1>2, <1>3 DEF Good, NoPacketYet, SameSender
<1>5. PICK m : m = TimeoutHandler(k)
  OBVIOUS
<1>6. \E a \in Action : m = SetTimer(Request(k, a)) \/ m = LinkRun(SetTimer(Request(k, a)))
  <2>1. CASE k.state = "UNINITIALIZED"
    BY <1>5, <2>1, Kinds DEF TimeoutHandler
  <2>2. CASE k.state = "INITIALIZED"
    BY <1>5, <2>2, Kinds DEF TimeoutHandler
  <2>3. CASE k.state = "ACTIVE" /\ k.asleep
    BY <1>4, <1>5, <2>3, Kinds DEF TimeoutHandler, HaveOutgoingPacket
  <2>4. CASE k.state = "ACTIVE" /\ ~k.asleep
    BY <1>4, <1>5, <2>4, Kinds DEF TimeoutHandler, HaveOutgoingPacket
  <2> QED BY <1>2, <2>1, <2>2, <2>3, <2>4 DEF Link, LinkState
<1>7. Good(m) /\ Quiet(k, m) /\ m.state = k.state
  BY <1>2, <1>4, <1>6, RepeatGood
<1>8. Quiet(l, m)
  BY <1>2, <1>7 DEF Quiet, SenderIdle, SameSender, SameReceiver, TxKept
<1> QED BY <1>1, <1>2, <1>5, <1>7, <1>8

\* hci_transport_inactivity_timeout_handler
LEMMA InactivityHandlerGood ==
    ASSUME NEW l \in Link, Good(l)
    PROVE  LET m == InactivityHandler([l EXCEPT !.idle = FALSE])
           IN  m \in Link /\ Same(l, m)
<1>1. PICK k : k = [l EXCEPT !.idle = FALSE]
  OBVIOUS
<1>2. k \in Link /\ Same(l, k)
  BY <1>1 DEF Link, Same, SameSender, SameReceiver, TxKept
<1>3. PICK m : m = InactivityHandler(k)
  OBVIOUS
<1>4. PICK r : r = Request(k, "SLEEP")
  OBVIOUS
<1>5. r \in Link /\ Same(k, r) /\ LinkRun(r) \in Link /\ Same(r, LinkRun(r))
  BY <1>2, <1>4, RequestGood, Kinds, LinkRunGood
<1>6. m = k \/ m = LinkRun(r)
  BY <1>3, <1>4 DEF InactivityHandler
<1> QED BY <1>1, <1>2, <1>3, <1>5, <1>6, SameTrans

\* A good end stays good when nothing but frames changes.
LEMMA SameGood ==
    ASSUME NEW l \in Link, Good(l), NEW m \in Link, Same(l, m)
    PROVE  Good(m) /\ Quiet(l, m)
BY DEF Good, Quiet, SenderIdle, Same, SameSender, NoPacketYet, Timed

\* hci_transport_link_init
LEMMA LinkInitGood ==
    ASSUME NEW l \in Link, l.packet = 0
    PROVE  Good(LinkInit(l)) /\ LinkInit(l).state = "UNINITIALIZED"
<1>1. PICK k : k = [l EXCEPT !.state = "UNINITIALIZED", !.asleep = FALSE]
  OBVIOUS
<1>2. k \in Link /\ k.state = "UNINITIALIZED" /\ k.packet = 0
  BY <1>1 DEF Link, LinkState
<1>3. LinkInit(l) = LinkRun(SetTimer(Request(k, "SYNC")))
  BY <1>1 DEF LinkInit
<1> QED BY <1>2, <1>3, Kinds, RepeatGood DEF NoPacketYet

LEMMA PowerOnType ==
    ASSUME NEW s \in Side, NEW a \in Nat, NEW c \in Nat, NEW r \in Nat, NEW h \in Nat
    PROVE  PowerOn(s, a, c, r, h) \in Link /\ PowerOn(s, a, c, r, h).packet = 0
BY ZeroSeq DEF PowerOn, Link, LinkState

\* hci_transport_h5_block_sent: the first block of a frame is written.
LEMMA MoreGood ==
    ASSUME NEW l \in Link, Good(l), l.tx # NoFrame
    PROVE  [l EXCEPT !.tx.more = FALSE] \in Link /\ Same(l, [l EXCEPT !.tx.more = FALSE])
<1>1. PICK f : f = [l.tx EXCEPT !.more = FALSE]
  OBVIOUS
<1>2. l.tx \in Frame
  BY DEF Link
<1>3. /\ f \in Frame /\ f.kind = l.tx.kind /\ f.seq = l.tx.seq /\ f.ack = l.tx.ack
      /\ f.payload = l.tx.payload
  BY <1>1, <1>2 DEF Frame
<1>4. [l EXCEPT !.tx.more = FALSE] = [l EXCEPT !.tx = f]
  BY <1>1
<1>5. [l EXCEPT !.tx = f] \in Link /\ [l EXCEPT !.tx = f].tx = f
  BY <1>3 DEF Link
<1>6. Same(l, [l EXCEPT !.tx = f])
  BY <1>3, <1>5, FrameNotNone DEF Same, SameSender, SameReceiver, TxKept, Link
<1> QED BY <1>4, <1>5, <1>6

\* hci_transport_h5_block_sent: a frame is written.
FrameDone(l) == [l EXCEPT !.tx = NoFrame, !.actions = @ \ {"ENTER_SLEEP"}]

LEMMA WrittenGood ==
    ASSUME NEW l \in Link, Good(l)
    PROVE  LET k == FrameDone(l)
           IN  /\ k \in Link /\ Good(k) /\ k.state = l.state /\ k.tx = NoFrame
               /\ SameSender(l, k) /\ SameReceiver(l, k)
<1>1. PICK k : k = FrameDone(l)
  OBVIOUS
<1>2. /\ k \in Link /\ k.state = l.state /\ k.timer = l.timer /\ k.tx = NoFrame
      /\ SameSender(l, k) /\ SameReceiver(l, k)
  BY <1>1 DEF FrameDone, Link, SameSender, SameReceiver
<1>3. Good(k)
  BY <1>2 DEF Good, NoPacketYet, Timed, SameSender
<1> QED BY <1>1, <1>2, <1>3

-----------------------------------------------------------------------------
(* A step of an end other than the callback for a received frame.               *)

\* What the timer repeats while the link is coming up.
Own(l) ==
    CASE l.state = "UNINITIALIZED" -> {"SYNC"}
      [] l.state = "INITIALIZED" -> {"CONFIG"}
      [] OTHER -> {}

StepOf(l, m) ==
    /\ Good(m) /\ m.state = l.state /\ Quiet(l, m)
    /\ Asks(l, Own(l), m) /\ (Idle(l) => Idle(m))

LEMMA SendStep ==
    ASSUME NEW l \in Link, CanSendPacketNow(l) PROVE StepOf(l, SendPacket(l))
<1>1. PICK m : m = SendPacket(l)
  OBVIOUS
<1>2. Good(m) /\ m.state = l.state /\ Quiet(l, m)
  BY <1>1, SendPacketGood DEF CanSendPacketNow
<1>3. Asks(l, {}, m) /\ Idle(m)
  BY <1>1, SendPacketAsks
<1> QED BY <1>1, <1>2, <1>3, AsksMore DEF StepOf

LEMMA TimeoutStep ==
    ASSUME NEW l \in Link, Good(l), l.timer
    PROVE  StepOf(l, TimeoutHandler([l EXCEPT !.timer = FALSE]))
<1>1. PICK k : k = [l EXCEPT !.timer = FALSE]
  OBVIOUS
<1>2. /\ k \in Link /\ k.state = l.state /\ k.tx = l.tx /\ k.actions = l.actions
      /\ k.crashed = l.crashed /\ k.packet = l.packet
  BY <1>1 DEF Link
<1>3. PICK m : m = TimeoutHandler(k)
  OBVIOUS
<1>4. Good(m) /\ m.state = l.state /\ Quiet(l, m)
  BY <1>1, <1>3, TimeoutGood
<1>5. PICK a : a = CASE l.state = "UNINITIALIZED" -> "SYNC"
                     [] l.state = "INITIALIZED" -> "CONFIG"
                     [] l.state = "ACTIVE" /\ k.asleep -> "WAKEUP"
                     [] OTHER -> "QUEUED_PACKET"
  OBVIOUS
<1>6. a \in Action /\ {a} \cap Hand \subseteq Own(l)
  BY <1>5, Kinds DEF Own, Hand, Link, LinkState
<1>7. PICK r : r = SetTimer(Request(k, a))
  OBVIOUS
<1>8. r \in Link /\ Asks(k, {a}, r)
  BY <1>2, <1>6, <1>7, RequestGood, RequestAsks, SetTimerGood
<1>9. Asks(l, Own(l), r)
  <2>1. Asks(k, Own(l), r)
    BY <1>6, <1>8, AsksMore
  <2> QED BY <1>2, <2>1 DEF Asks
<1>10. Asks(l, Own(l), LinkRun(r)) /\ Idle(LinkRun(r))
  BY <1>8, <1>9, LinkRunAsks, AsksThen
<1>11. l.state = "ACTIVE" => l.packet # 0
  BY DEF Good, Timed
<1>12. m = LinkRun(r) \/ (a = "WAKEUP" /\ m = r)
  <2>1. CASE l.state = "UNINITIALIZED"
    BY <1>2, <1>3, <1>5, <1>7, <2>1 DEF TimeoutHandler
  <2>2. CASE l.state = "INITIALIZED"
    BY <1>2, <1>3, <1>5, <1>7, <2>2 DEF TimeoutHandler
  <2>3. CASE l.state = "ACTIVE" /\ k.asleep
    BY <1>2, <1>3, <1>5, <1>7, <1>11, <2>3 DEF TimeoutHandler, HaveOutgoingPacket
  <2>4. CASE l.state = "ACTIVE" /\ ~k.asleep
    BY <1>2, <1>3, <1>5, <1>7, <1>11, <2>4 DEF TimeoutHandler, HaveOutgoingPacket
  <2> QED BY <2>1, <2>2, <2>3, <2>4 DEF Link, LinkState
<1>13. a = "WAKEUP" => (Idle(l) => Idle(r))
  <2>1. r.actions = k.actions \cup {a} /\ r.tx = k.tx /\ r.crashed = k.crashed
    BY <1>2, <1>6, <1>7 DEF SetTimer, Request, Link
  <2> QED BY <1>2, <2>1 DEF Idle
<1> QED BY <1>1, <1>3, <1>4, <1>9, <1>10, <1>12, <1>13 DEF StepOf

LEMMA InactivityStep ==
    ASSUME NEW l \in Link, Good(l)
    PROVE  StepOf(l, InactivityHandler([l EXCEPT !.idle = FALSE]))
<1>1. PICK k : k = [l EXCEPT !.idle = FALSE]
  OBVIOUS
<1>2. k \in Link /\ k.tx = l.tx /\ k.actions = l.actions /\ k.crashed = l.crashed
  BY <1>1 DEF Link
<1>3. PICK m : m = InactivityHandler(k)
  OBVIOUS
<1>4. m \in Link /\ Same(l, m)
  BY <1>1, <1>3, InactivityHandlerGood
<1>5. PICK r : r = Request(k, "SLEEP")
  OBVIOUS
<1>6. "SLEEP" \in Action /\ {"SLEEP"} \cap Hand \subseteq Own(l)
  BY Kinds DEF Hand
<1>7. r \in Link /\ Asks(k, Own(l), r)
  BY <1>2, <1>5, <1>6, RequestGood, RequestAsks, AsksMore
<1>8. Asks(l, Own(l), LinkRun(r)) /\ Idle(LinkRun(r))
  <2>1. Asks(l, Own(l), r)
    BY <1>2, <1>7 DEF Asks
  <2> QED BY <1>7, <2>1, LinkRunAsks, AsksThen
<1>9. Asks(l, Own(l), k) /\ (Idle(l) => Idle(k))
  BY <1>2 DEF Asks, Idle
<1>10. m = k \/ m = LinkRun(r)
  BY <1>3, <1>5 DEF InactivityHandler
<1>11. Good(m) /\ Quiet(l, m) /\ m.state = l.state
  BY <1>4, SameGood DEF Same
<1> QED BY <1>1, <1>3, <1>8, <1>9, <1>10, <1>11 DEF StepOf

LEMMA MoreStep ==
    ASSUME NEW l \in Link, Good(l), l.tx # NoFrame
    PROVE  StepOf(l, [l EXCEPT !.tx.more = FALSE])
<1>1. PICK m : m = [l EXCEPT !.tx.more = FALSE]
  OBVIOUS
<1>2. m \in Link /\ Same(l, m)
  BY <1>1, MoreGood
<1>3. Good(m) /\ Quiet(l, m) /\ m.state = l.state
  BY <1>2, SameGood DEF Same
<1>4. m.tx # NoFrame /\ m.tx.kind = l.tx.kind
  BY <1>2 DEF Same, TxKept
<1>5. m.actions = l.actions
  BY <1>1 DEF Link
<1> QED BY <1>1, <1>3, <1>4, <1>5 DEF StepOf, Asks, Idle

\* An end that is not active uses none of its numbers in such a step.
LEMMA ZeroedStep ==
    ASSUME NEW l \in Link, NEW m, Calm(l), StepOf(l, m)
    PROVE  Quiet(Zeroed(l), Zeroed(m)) /\ Calm(m)
<1>1. m \in Link /\ NoPacketYet(m) /\ m.state = l.state /\ Quiet(l, m) /\ Asks(l, Own(l), m)
  BY DEF StepOf, Good
<1>2. CASE l.state = "ACTIVE"
  BY <1>1, <1>2 DEF Zeroed, Calm
<1>3. CASE l.state # "ACTIVE"
  <2>1. "ACK_PACKET" \notin Own(l)
    BY DEF Own
  <2>2. TxKept(Zeroed(l), Zeroed(m)) /\ Calm(m)
    BY <1>1, <1>3, <2>1, CalmTx DEF Quiet
  <2>3. PICK y, z : y = Zeroed(l) /\ z = Zeroed(m)
    OBVIOUS
  <2>4. /\ y.seq = 0 /\ y.ack = 0 /\ z.seq = 0 /\ z.ack = 0
        /\ y.packet = l.packet /\ y.accepted = l.accepted /\ y.confirmed = l.confirmed
        /\ z.packet = m.packet /\ z.accepted = m.accepted /\ z.confirmed = m.confirmed
        /\ y.received = l.received /\ y.handed = l.handed
        /\ z.received = m.received /\ z.handed = m.handed
    BY <1>1, <1>3, <2>3, ZeroedType
  <2>5. SenderIdle(y, z) /\ SameReceiver(y, z)
    BY <1>1, <2>4 DEF Quiet, SenderIdle, SameReceiver
  <2> QED BY <2>2, <2>3, <2>5 DEF Quiet
<1> QED BY <1>2, <1>3

\* An end has only its own first request under way.
OnlySync(l) ==
    /\ l.actions \cap Hand \subseteq {"SYNC"}
    /\ l.tx # NoFrame => ~Numbered(l.tx) /\ (l.tx.kind \in Hand => l.tx.kind = "SYNC")

LEMMA OnlySyncKept ==
    ASSUME NEW l, NEW m, OnlySync(l), NEW A, A \subseteq {"SYNC"}, Asks(l, A, m),
           TxKept(l, m), m.packet = 0
    PROVE  OnlySync(m)
<1>1. m.actions \cap Hand \subseteq {"SYNC"}
  BY DEF Asks, OnlySync
<1>2. ASSUME m.tx # NoFrame PROVE ~Numbered(m.tx) /\ (m.tx.kind \in Hand => m.tx.kind = "SYNC")
  <2>1. CASE l.tx # NoFrame
    BY <1>2, <2>1 DEF OnlySync, TxKept, Numbered, Reliable
  <2>2. CASE l.tx = NoFrame
    <3>1. m.tx.kind \in Hand => m.tx.kind = "SYNC"
      <4>1. PICK k : k = m.tx.kind
        OBVIOUS
      <4>2. k \in Hand => k \in l.actions \cup A
        BY <1>2, <2>2, <4>1 DEF Asks
      <4>3. l.actions \cap Hand \subseteq {"SYNC"}
        BY DEF OnlySync
      <4>4. k \in Hand /\ k \in l.actions => k = "SYNC"
        BY <4>3, Zenon
      <4>5. k \in A => k = "SYNC"
        OBVIOUS
      <4>6. k \in Hand => k = "SYNC"
        BY <4>2, <4>4, <4>5, Zenon
      <4> QED BY <4>1, <4>6
    <3>2. ~Reliable(m.tx)
      BY <1>2, <2>2 DEF TxKept, Fresh
    <3> QED BY <3>1, <3>2 DEF Numbered, Hand
  <2> QED BY <2>1, <2>2
<1> QED BY <1>1, <1>2 DEF OnlySync

\* hci_transport_link_init on an end with nothing of the old link to write.
LEMMA LinkInitFresh ==
    ASSUME NEW l \in Link, l.packet = 0, l.tx = NoFrame, l.actions \cap Hand = {}
    PROVE  LET m == LinkInit(l)
           IN  /\ Good(m) /\ m.state = "UNINITIALIZED" /\ OnlySync(m) /\ Calm(m) /\ Idle(m)
               /\ SameSender(l, m) /\ SameReceiver(l, m)
<1>1. PICK k : k = [l EXCEPT !.state = "UNINITIALIZED", !.asleep = FALSE]
  OBVIOUS
<1>2. /\ k \in Link /\ k.state = "UNINITIALIZED" /\ k.packet = 0
      /\ SameSender(l, k) /\ SameReceiver(l, k) /\ k.tx = NoFrame /\ k.actions = l.actions
  BY <1>1 DEF Link, LinkState, SameSender, SameReceiver
<1>3. PICK r : r = SetTimer(Request(k, "SYNC"))
  OBVIOUS
<1>4. PICK m : m = LinkRun(r)
  OBVIOUS
<1>5. LinkInit(l) = m
  BY <1>1, <1>3, <1>4 DEF LinkInit
<1>6. /\ Good(r) /\ Good(m) /\ Quiet(k, m) /\ m.state = "UNINITIALIZED" /\ Asks(k, {"SYNC"}, r)
  BY <1>2, <1>3, <1>4, Kinds, RepeatGood, RequestAsks DEF NoPacketYet
<1>7. Asks(k, {"SYNC"}, m) /\ Idle(m)
  BY <1>4, <1>6, LinkRunAsks, AsksThen DEF Good
<1>8. m.packet = 0 /\ m.seq = k.seq /\ m.confirmed = k.confirmed /\ SameReceiver(k, m)
  BY <1>6 DEF Good, NoPacketYet, Quiet, SenderIdle
<1>9. m.accepted = k.accepted
  <2>1. k.accepted + 1 # 0
    BY <1>2 DEF Link
  <2> QED BY <1>6, <1>8, <2>1 DEF Quiet, SenderIdle
<1>10. OnlySync(k)
  BY <1>2 DEF OnlySync
<1>11. OnlySync(m)
  BY <1>6, <1>7, <1>8, <1>10, OnlySyncKept DEF Quiet
<1>12. Calm(m)
  BY <1>11 DEF OnlySync, Calm, Hand
<1>13. SameSender(l, m) /\ SameReceiver(l, m)
  BY <1>2, <1>8, <1>9 DEF SameSender, SameReceiver
<1> QED BY <1>5, <1>6, <1>7, <1>11, <1>12, <1>13

-----------------------------------------------------------------------------
(* The invariant of both ends.                                                  *)
LEMMA PeerType == \A s \in Side : Peer(s) \in Side /\ Peer(s) # s /\ Peer(Peer(s)) = s
BY DEF Side, Host, Ctrl, Peer

\* A step of one end that leaves it good.
LEMMA SetGood ==
    ASSUME IndInv, NEW s \in Side, NEW m, Good(m), Set(s, m)
    PROVE  link' \in [Side -> Link] /\ \A t \in Side : Good(link'[t])
BY DEF IndInv, Set, Good

LEMMA InitInd == Init => IndInv
<1> SUFFICES ASSUME Init PROVE IndInv
  OBVIOUS
<1>1. \A s \in Side : Good(LinkInit(PowerOn(s, 0, 0, 0, 0)))
  BY PowerOnType, LinkInitGood
<1>2. \A s \in Side : Good(link[s])
  BY <1>1 DEF Init
<1>3. link \in [Side -> Link]
  BY <1>1 DEF Init, Good
<1>4. wire \in [Side -> Seq(Frame)]
  BY DEF Init
<1>5. resets = 0 /\ MaxResets \in Nat
  BY H5Assumption DEF Init
<1> QED BY <1>2, <1>3, <1>4, <1>5 DEF IndInv

LEMMA NextInd == IndInv /\ [Next]_vars => IndInv'
<1> SUFFICES ASSUME IndInv, [Next]_vars PROVE IndInv'
  OBVIOUS
<1>1. MaxResets \in Nat /\ resets \in Nat
  BY H5Assumption DEF IndInv
<1>2. \A s \in Side : link[s] \in Link /\ Good(link[s])
  BY DEF IndInv, Good
<1>3. ASSUME NEW s \in Side, Send(s) PROVE IndInv'
  <2>1. Good(SendPacket(link[s]))
    BY <1>2, <1>3, SendPacketGood DEF Send, MaySend
  <2> QED BY <1>3, <2>1, SetGood DEF Send, IndInv
<1>4. ASSUME NEW s \in Side, Receive(s) PROVE IndInv'
  <2>1. PICK f : f = Head(wire[Peer(s)])
    OBVIOUS
  <2>2. f \in Frame /\ Tail(wire[Peer(s)]) \in Seq(Frame)
    BY <1>4, <2>1, PeerType DEF IndInv, Receive
  <2>3. PICK sendsAt \in {"none", "packet_sent", "packet"} :
            Set(s, ProcessFrame(link[s], f, sendsAt))
    BY <1>4, <2>1 DEF Receive
  <2>4. Good(ProcessFrame(link[s], f, sendsAt))
    BY <1>2, <2>2, FrameHandled DEF Handled
  <2>5. wire' \in [Side -> Seq(Frame)]
    BY <1>4, <2>2 DEF IndInv, Receive
  <2> QED BY <1>4, <2>3, <2>4, <2>5, SetGood DEF Receive, IndInv
<1>5. ASSUME NEW s \in Side, Lose(s) PROVE IndInv'
  <2>1. Tail(wire[s]) \in Seq(Frame)
    BY <1>5 DEF IndInv, Lose
  <2> QED BY <1>5, <2>1 DEF Lose, IndInv
<1>6. ASSUME NEW s \in Side, BlockSent(s) PROVE IndInv'
  <2>1. CASE link[s].tx.more
    <3>1. Good([link[s] EXCEPT !.tx.more = FALSE])
      BY <1>2, <1>6, MoreGood, SameGood DEF BlockSent
    <3> QED BY <1>6, <2>1, <3>1, SetGood DEF BlockSent, IndInv
  <2>2. CASE ~link[s].tx.more
    <3>1. PICK k : k = FrameDone(link[s])
      OBVIOUS
    <3>2. k \in Link /\ Good(k)
      BY <1>2, <3>1, WrittenGood
    <3>3. Good(LinkRun(k))
      BY <3>2, LinkRunGood, SameGood
    <3>4. link[s].tx \in Frame
      BY <1>2, <1>6 DEF BlockSent, Link
    <3>5. Append(wire[s], link[s].tx) \in Seq(Frame)
      BY <3>4 DEF IndInv
    <3> QED BY <1>6, <2>2, <3>1, <3>3, <3>5, SetGood DEF BlockSent, IndInv, FrameDone
  <2> QED BY <2>1, <2>2
<1>7. ASSUME NEW s \in Side, Timeout(s) PROVE IndInv'
  <2>1. Good(TimeoutHandler([link[s] EXCEPT !.timer = FALSE]))
    BY <1>2, <1>7, TimeoutGood DEF Timeout
  <2>2. Set(s, TimeoutHandler([link[s] EXCEPT !.timer = FALSE])) /\ wire' = wire /\ resets' = resets
    BY <1>7 DEF Timeout
  <2> QED BY <2>1, <2>2, SetGood DEF IndInv
<1>8. ASSUME NEW s \in Side, InactivityTimeout(s) PROVE IndInv'
  <2>1. Good(InactivityHandler([link[s] EXCEPT !.idle = FALSE]))
    BY <1>2, InactivityHandlerGood, SameGood
  <2> QED BY <1>8, <2>1, SetGood DEF InactivityTimeout, IndInv
<1>9. CASE Reboot
  <2>1. PICK l : l = link[Ctrl]
    OBVIOUS
  <2>2. /\ l.accepted \in Nat /\ l.confirmed \in Nat /\ l.received \in Nat /\ l.handed \in Nat
        /\ Ctrl \in Side
    BY <1>2, <2>1 DEF Link, Side
  <2>3. PICK m : m = LinkInit(PowerOn(Ctrl, l.accepted, l.confirmed, l.received, l.handed))
    OBVIOUS
  <2>4. Good(m)
    <3>1. PICK o : o = PowerOn(Ctrl, l.accepted, l.confirmed, l.received, l.handed)
      OBVIOUS
    <3>2. o \in Link /\ o.packet = 0
      <4>1. PICK a \in Nat, c \in Nat, r \in Nat, h \in Nat :
              a = l.accepted /\ c = l.confirmed /\ r = l.received /\ h = l.handed
        BY <2>2
      <4>2. o = PowerOn(Ctrl, a, c, r, h)
        BY <3>1, <4>1
      <4>3. PowerOn(Ctrl, a, c, r, h) \in Link /\ PowerOn(Ctrl, a, c, r, h).packet = 0
        BY <2>2, PowerOnType, Zenon
      <4> QED BY <4>2, <4>3, Zenon
    <3>3. m = LinkInit(o)
      BY <2>3, <3>1
    <3> QED BY <3>2, <3>3, LinkInitGood
  <2>5. Set(Ctrl, m)
    BY <1>9, <2>1, <2>3 DEF Reboot
  <2>6. resets' \in 0 .. MaxResets + 1 /\ resets' <= MaxResets
    BY <1>1, <1>9 DEF Reboot
  <2> QED BY <1>9, <2>2, <2>4, <2>5, <2>6, SetGood DEF Reboot, IndInv
<1>10. CASE ResetLink
  <2>1. PICK l : l = ClearQueue(link[Host])
    OBVIOUS
  <2>2. l \in Link /\ l.packet = 0 /\ Host \in Side
    BY <1>2, <2>1 DEF ClearQueue, Link, Side
  <2>3. Good(LinkInit(l))
    BY <2>2, LinkInitGood
  <2>4. Set(Host, LinkInit(l))
    BY <1>10, <2>1 DEF ResetLink
  <2>5. resets' \in 0 .. MaxResets + 1 /\ resets' % 2 = 0
    <3>1. resets % 2 = 1 /\ resets' = resets + 1
      BY <1>10 DEF ResetLink
    <3>2. resets <= MaxResets
      BY <3>1 DEF IndInv
    <3>3. \A n \in Nat : n % 2 = 1 => (n + 1) % 2 = 0
      OBVIOUS
    <3> QED BY <1>1, <3>1, <3>2, <3>3
  <2> QED BY <1>10, <2>2, <2>3, <2>4, <2>5, SetGood DEF ResetLink, IndInv
<1>11. CASE UNCHANGED vars
  BY <1>11 DEF vars, IndInv
<1> QED BY <1>3, <1>4, <1>5, <1>6, <1>7, <1>8, <1>9, <1>10, <1>11 DEF Next

\* Whatever is lost, repeated or restarted, and however often, both ends stay good.
THEOREM SpecInv == Spec => []IndInv
BY InitInd, NextInd, PTL DEF Spec

\* The link timer of an end runs exactly when it has something to repeat, in every
\* state of its link, for any number of packets, losses and restarts.
THEOREM TimerRunsThm == Spec => []TimerRuns
<1>1. IndInv => TimerRuns
  BY DEF IndInv, TimerRuns, TypeOK, Good, Timed
<1> QED BY <1>1, SpecInv, PTL

-----------------------------------------------------------------------------
(* One direction of the link, from the end x, which writes to the line w, to the  *)
(* end y, which writes to v.  A reliable frame under way is the current packet    *)
(* or a repetition of the one before, and none of the latter comes after one of   *)
(* the former, since the line keeps the order: so the first frame that y takes    *)
(* shows that all the old ones are gone, and the first number that confirms it    *)
(* to x shows the same of the old numbers.                                        *)
Numbers(x, y) ==
    /\ \/ y.ack = x.seq
       \/ y.ack = IncSeqNr(x.seq) /\ x.packet # 0 /\ y.received = x.packet
    /\ x.packet # 0 => x.packet = x.accepted
    /\ y.received <= x.accepted
    /\ y.ack = x.seq /\ x.packet # 0 => y.received < x.packet

DataOk(x, y, f) ==
    Reliable(f) =>
      IF y.ack = x.seq
      THEN (x.packet # 0 /\ f.seq = x.seq /\ f.payload = x.packet) \/ IncSeqNr(f.seq) = x.seq
      ELSE f.seq = x.seq
DataOrder(x, f, g) == Reliable(f) /\ Reliable(g) /\ f.seq = x.seq => g.seq = x.seq

AckOk(x, y, g) == Numbered(g) => g.ack = y.ack \/ g.ack = x.seq
AckOrder(y, g, h) == Numbered(g) /\ Numbered(h) /\ g.ack = y.ack => h.ack = y.ack

DataSide(x, y, w) ==
    /\ \A i \in 1 .. Len(w) : DataOk(x, y, w[i])
    /\ x.tx # NoFrame => DataOk(x, y, x.tx)
    /\ \A i, j \in 1 .. Len(w) : i < j => DataOrder(x, w[i], w[j])
    /\ x.tx # NoFrame => \A i \in 1 .. Len(w) : DataOrder(x, w[i], x.tx)

AckSide(x, y, v) ==
    /\ \A i \in 1 .. Len(v) : AckOk(x, y, v[i])
    /\ y.tx # NoFrame => AckOk(x, y, y.tx)
    /\ \A i, j \in 1 .. Len(v) : i < j => AckOrder(y, v[i], v[j])
    /\ y.tx # NoFrame => \A i \in 1 .. Len(v) : AckOrder(y, v[i], y.tx)

Direction(x, y, w, v) == Numbers(x, y) /\ DataSide(x, y, w) /\ AckSide(x, y, v)

\* The sender takes a packet, starts or goes on with a frame.
LEMMA SenderIdleKeeps ==
    ASSUME NEW x \in Link, NEW y \in Link, NEW w \in Seq(Frame), NEW v \in Seq(Frame),
           Direction(x, y, w, v), NEW m \in Link, SenderIdle(x, m), TxKept(x, m)
    PROVE  Direction(m, y, w, v)
<1>1. /\ m.seq = x.seq /\ x.seq \in SeqNr /\ x.accepted \in Nat /\ y.received \in Nat
      /\ IncSeqNr(x.seq) # x.seq
  BY IncType DEF Link, SenderIdle
<1>2. AckSide(m, y, v)
  BY <1>1 DEF Direction, AckSide, AckOk, AckOrder
<1>3. CASE m.packet = x.packet /\ m.accepted = x.accepted
  <2>1. Numbers(m, y)
    BY <1>1, <1>3 DEF Direction, Numbers
  <2>2. \A f : DataOk(x, y, f) => DataOk(m, y, f)
    BY <1>1, <1>3 DEF DataOk
  <2>3. \A f, g : DataOrder(x, f, g) => DataOrder(m, f, g)
    BY <1>1 DEF DataOrder
  <2>4. ASSUME m.tx # NoFrame, x.tx # NoFrame
        PROVE  DataOk(m, y, m.tx) /\ \A i \in 1 .. Len(w) : DataOrder(m, w[i], m.tx)
    <3>1. /\ m.tx.kind = x.tx.kind /\ m.tx.seq = x.tx.seq /\ m.tx.payload = x.tx.payload
      BY <1>3, <2>4 DEF TxKept
    <3>2. DataOk(x, y, x.tx) /\ \A i \in 1 .. Len(w) : DataOrder(x, w[i], x.tx)
      BY <2>4 DEF Direction, DataSide
    <3> QED BY <1>1, <1>3, <3>1, <3>2 DEF DataOk, DataOrder, Reliable
  <2>5. ASSUME m.tx # NoFrame, x.tx = NoFrame
        PROVE  DataOk(m, y, m.tx) /\ \A i \in 1 .. Len(w) : DataOrder(m, w[i], m.tx)
    BY <2>5 DEF TxKept, Fresh, DataOk, DataOrder
  <2>6. DataSide(m, y, w)
    BY <2>2, <2>3, <2>4, <2>5 DEF Direction, DataSide
  <2> QED BY <1>2, <2>1, <2>6 DEF Direction
<1>4. CASE x.packet = 0 /\ m.accepted = x.accepted + 1 /\ m.packet = m.accepted
  <2>1. y.ack = x.seq
    BY <1>4 DEF Direction, Numbers
  <2>2. Numbers(m, y)
    BY <1>1, <1>4, <2>1 DEF Direction, Numbers
  <2>3. \A f : DataOk(x, y, f) /\ Reliable(f) => IncSeqNr(f.seq) = m.seq
    BY <1>1, <1>4, <2>1 DEF DataOk
  <2>4. \A f : DataOk(x, y, f) => DataOk(m, y, f)
    BY <1>1, <2>1, <2>3 DEF DataOk
  <2>5. \A f, g : DataOk(x, y, f) => DataOrder(m, f, g)
    BY <1>1, <2>3 DEF DataOrder
  <2>6. m.tx # NoFrame => DataOk(m, y, m.tx)
    <3>1. CASE x.tx # NoFrame
      <4>1. m.tx.kind = x.tx.kind /\ m.tx.seq = x.tx.seq
        BY <3>1 DEF TxKept
      <4>2. DataOk(x, y, x.tx)
        BY <3>1 DEF Direction, DataSide
      <4> QED BY <1>1, <2>1, <2>3, <4>1, <4>2 DEF DataOk, Reliable
    <3>2. CASE x.tx = NoFrame
      BY <1>1, <2>1, <3>2 DEF TxKept, Fresh, DataOk
    <3> QED BY <3>1, <3>2
  <2>7. DataSide(m, y, w)
    BY <2>4, <2>5, <2>6 DEF Direction, DataSide
  <2> QED BY <1>2, <2>2, <2>7 DEF Direction
<1> QED BY <1>3, <1>4 DEF SenderIdle

\* The frame that the receiver is writing.
LEMMA ReceiverIdleKeeps ==
    ASSUME NEW x \in Link, NEW y \in Link, NEW w \in Seq(Frame), NEW v \in Seq(Frame),
           Direction(x, y, w, v), NEW m \in Link, SameReceiver(y, m), TxKept(y, m)
    PROVE  Direction(x, m, w, v)
<1>1. m.ack = y.ack /\ m.received = y.received
  BY DEF SameReceiver
<1>2. Numbers(x, m)
  BY <1>1 DEF Direction, Numbers
<1>3. DataSide(x, m, w)
  BY <1>1 DEF Direction, DataSide, DataOk
<1>4. \A f : AckOk(x, y, f) => AckOk(x, m, f)
  BY <1>1 DEF AckOk
<1>5. \A f, g : AckOrder(y, f, g) => AckOrder(m, f, g)
  BY <1>1 DEF AckOrder
<1>6. ASSUME m.tx # NoFrame
      PROVE  AckOk(x, m, m.tx) /\ \A i \in 1 .. Len(v) : AckOrder(m, v[i], m.tx)
  <2>1. CASE y.tx # NoFrame
    <3>1. m.tx.kind = y.tx.kind /\ m.tx.ack = y.tx.ack
      BY <2>1 DEF TxKept
    <3>2. AckOk(x, y, y.tx) /\ \A i \in 1 .. Len(v) : AckOrder(y, v[i], y.tx)
      BY <2>1 DEF Direction, AckSide
    <3> QED BY <1>1, <3>1, <3>2 DEF AckOk, AckOrder, Numbered, Reliable
  <2>2. CASE y.tx = NoFrame
    BY <1>6, <2>2 DEF TxKept, Fresh, AckOk, AckOrder
  <2> QED BY <2>1, <2>2
<1>7. AckSide(x, m, v)
  BY <1>4, <1>5, <1>6 DEF Direction, AckSide
<1> QED BY <1>2, <1>3, <1>7 DEF Direction

\* A frame leaves the line.
LEMMA PopKeeps ==
    ASSUME NEW x \in Link, NEW y \in Link, NEW w \in Seq(Frame), NEW v \in Seq(Frame),
           Direction(x, y, w, v)
    PROVE  /\ w # <<>> => Direction(x, y, Tail(w), v)
           /\ v # <<>> => Direction(x, y, w, Tail(v))
<1>1. \A u \in Seq(Frame) : u # <<>> =>
         /\ Tail(u) \in Seq(Frame) /\ Len(Tail(u)) = Len(u) - 1 /\ Len(u) \in Nat
         /\ \A i \in 1 .. Len(u) - 1 : Tail(u)[i] = u[i + 1]
  OBVIOUS
<1>2. ASSUME w # <<>> PROVE Direction(x, y, Tail(w), v)
  <2>1. PICK u : u = Tail(w)
    OBVIOUS
  <2>2. Len(u) = Len(w) - 1 /\ Len(w) \in Nat /\ \A i \in 1 .. Len(u) : u[i] = w[i + 1]
    BY <1>1, <1>2, <2>1
  <2>3. \A i \in 1 .. Len(u) : i + 1 \in 1 .. Len(w) /\ DataOk(x, y, u[i])
    BY <2>2 DEF Direction, DataSide
  <2>4. ASSUME NEW i \in 1 .. Len(u), NEW j \in 1 .. Len(u), i < j PROVE DataOrder(x, u[i], u[j])
    <3>1. i + 1 \in 1 .. Len(w) /\ j + 1 \in 1 .. Len(w) /\ i + 1 < j + 1
      BY <2>3, <2>4
    <3>2. DataOrder(x, w[i + 1], w[j + 1])
      BY <3>1 DEF Direction, DataSide
    <3> QED BY <2>2, <3>2
  <2>5. x.tx # NoFrame => \A i \in 1 .. Len(u) : DataOrder(x, u[i], x.tx)
    BY <2>2, <2>3 DEF Direction, DataSide
  <2> QED BY <2>1, <2>3, <2>4, <2>5 DEF Direction, DataSide
<1>3. ASSUME v # <<>> PROVE Direction(x, y, w, Tail(v))
  <2>1. PICK u : u = Tail(v)
    OBVIOUS
  <2>2. Len(u) = Len(v) - 1 /\ Len(v) \in Nat /\ \A i \in 1 .. Len(u) : u[i] = v[i + 1]
    BY <1>1, <1>3, <2>1
  <2>3. \A i \in 1 .. Len(u) : i + 1 \in 1 .. Len(v) /\ AckOk(x, y, u[i])
    BY <2>2 DEF Direction, AckSide
  <2>4. \A i, j \in 1 .. Len(u) : i < j => AckOrder(y, u[i], u[j])
    BY <2>2, <2>3 DEF Direction, AckSide
  <2>5. y.tx # NoFrame => \A i \in 1 .. Len(u) : AckOrder(y, u[i], y.tx)
    BY <2>2, <2>3 DEF Direction, AckSide
  <2> QED BY <2>1, <2>3, <2>4, <2>5 DEF Direction, AckSide
<1> QED BY <1>2, <1>3

\* The sender's frame goes to the line.
LEMMA PushDataKeeps ==
    ASSUME NEW x \in Link, NEW y \in Link, NEW w \in Seq(Frame), NEW v \in Seq(Frame),
           Direction(x, y, w, v), x.tx # NoFrame,
           NEW k \in Link, SameSender(x, k), k.tx = NoFrame
    PROVE  Direction(k, y, Append(w, x.tx), v)
<1>1. x.tx \in Frame
  BY DEF Link
<1>2. PICK u : u = Append(w, x.tx)
  OBVIOUS
<1>3. /\ u \in Seq(Frame) /\ Len(u) = Len(w) + 1 /\ Len(w) \in Nat
      /\ u[Len(w) + 1] = x.tx /\ \A i \in 1 .. Len(w) : u[i] = w[i]
  BY <1>1, <1>2
<1>4. k.seq = x.seq /\ k.packet = x.packet /\ k.accepted = x.accepted
  BY DEF SameSender
<1>5. \A i \in 1 .. Len(u) : i \in 1 .. Len(w) \/ i = Len(w) + 1
  BY <1>3
<1>6. \A i \in 1 .. Len(u) : DataOk(x, y, u[i])
  BY <1>3, <1>5 DEF Direction, DataSide
<1>7. ASSUME NEW i \in 1 .. Len(u), NEW j \in 1 .. Len(u), i < j
      PROVE  DataOrder(x, u[i], u[j])
  <2>1. i \in 1 .. Len(w)
    BY <1>3, <1>7
  <2>2. CASE j = Len(w) + 1
    BY <1>3, <2>1, <2>2 DEF Direction, DataSide
  <2>3. CASE j \in 1 .. Len(w)
    BY <1>3, <1>7, <2>1, <2>3 DEF Direction, DataSide
  <2> QED BY <1>5, <2>2, <2>3
<1>8. DataSide(k, y, u)
  BY <1>4, <1>6, <1>7 DEF DataSide, DataOk, DataOrder
<1>9. Numbers(k, y) /\ AckSide(k, y, v)
  BY <1>4 DEF Direction, Numbers, AckSide, AckOk
<1> QED BY <1>2, <1>8, <1>9 DEF Direction

\* The receiver's frame goes to the line.
LEMMA PushAckKeeps ==
    ASSUME NEW x \in Link, NEW y \in Link, NEW w \in Seq(Frame), NEW v \in Seq(Frame),
           Direction(x, y, w, v), y.tx # NoFrame,
           NEW k \in Link, SameReceiver(y, k), k.tx = NoFrame
    PROVE  Direction(x, k, w, Append(v, y.tx))
<1>1. y.tx \in Frame
  BY DEF Link
<1>2. PICK u : u = Append(v, y.tx)
  OBVIOUS
<1>3. /\ u \in Seq(Frame) /\ Len(u) = Len(v) + 1 /\ Len(v) \in Nat
      /\ u[Len(v) + 1] = y.tx /\ \A i \in 1 .. Len(v) : u[i] = v[i]
  BY <1>1, <1>2
<1>4. k.ack = y.ack /\ k.received = y.received
  BY DEF SameReceiver
<1>5. \A i \in 1 .. Len(u) : i \in 1 .. Len(v) \/ i = Len(v) + 1
  BY <1>3
<1>6. \A i \in 1 .. Len(u) : AckOk(x, y, u[i])
  BY <1>3, <1>5 DEF Direction, AckSide
<1>7. ASSUME NEW i \in 1 .. Len(u), NEW j \in 1 .. Len(u), i < j
      PROVE  AckOrder(y, u[i], u[j])
  <2>1. i \in 1 .. Len(v)
    BY <1>3, <1>7
  <2>2. CASE j = Len(v) + 1
    BY <1>3, <2>1, <2>2 DEF Direction, AckSide
  <2>3. CASE j \in 1 .. Len(v)
    BY <1>3, <1>7, <2>1, <2>3 DEF Direction, AckSide
  <2> QED BY <1>5, <2>2, <2>3
<1>8. AckSide(x, k, u)
  BY <1>4, <1>6, <1>7 DEF AckSide, AckOk, AckOrder
<1>9. Numbers(x, k) /\ DataSide(x, k, w)
  BY <1>4 DEF Direction, Numbers, DataSide, DataOk
<1> QED BY <1>2, <1>8, <1>9 DEF Direction

\* A number that confirms the packet can only have come from a peer that has it.
LEMMA ConfirmedWasTaken ==
    ASSUME NEW x \in Link, NEW y \in Link, NEW w \in Seq(Frame), NEW v \in Seq(Frame),
           Direction(x, y, w, v), v # <<>>, NEW m, Confirms(x, Head(v), m)
    PROVE  /\ y.ack = IncSeqNr(x.seq) /\ y.ack = Head(v).ack /\ x.packet # 0
           /\ y.received = x.packet /\ x.packet = x.accepted
<1>1. Head(v) = v[1] /\ 1 \in 1 .. Len(v)
  OBVIOUS
<1>2. IncSeqNr(x.seq) # x.seq
  BY IncType DEF Link
<1>3. AckOk(x, y, Head(v))
  BY <1>1 DEF Direction, AckSide
<1>4. Head(v).ack = IncSeqNr(x.seq) /\ Numbered(Head(v)) /\ x.packet # 0
  BY DEF Confirms
<1>5. y.ack = Head(v).ack
  BY <1>2, <1>3, <1>4 DEF AckOk
<1> QED BY <1>2, <1>4, <1>5 DEF Direction, Numbers

LEMMA ConfirmKeeps ==
    ASSUME NEW x \in Link, NEW y \in Link, NEW w \in Seq(Frame), NEW v \in Seq(Frame),
           Direction(x, y, w, v), v # <<>>, NEW m \in Link, Confirms(x, Head(v), m), TxKept(x, m)
    PROVE  Direction(m, y, w, Tail(v))
<1>1. /\ y.ack = IncSeqNr(x.seq) /\ y.ack = Head(v).ack /\ x.packet # 0
      /\ y.received = x.packet /\ x.packet = x.accepted
  BY ConfirmedWasTaken
<1>2. /\ m.seq = y.ack /\ y.ack # x.seq /\ Numbered(Head(v))
      /\ x.accepted \in Nat /\ y.received \in Nat
  BY <1>1, IncType DEF Confirms, Link
<1>3. \/ m.packet = 0 /\ m.accepted = x.accepted
      \/ m.accepted = x.accepted + 1 /\ m.packet = m.accepted
  BY DEF Confirms
<1>4. Numbers(m, y)
  BY <1>1, <1>2, <1>3 DEF Numbers
<1>5. \A f : DataOk(x, y, f) /\ Reliable(f) => f.seq = x.seq /\ IncSeqNr(f.seq) = m.seq
  BY <1>1, <1>2 DEF DataOk
<1>6. \A f : DataOk(x, y, f) => DataOk(m, y, f)
  BY <1>2, <1>5 DEF DataOk
<1>7. \A f, g : DataOk(x, y, f) => DataOrder(m, f, g)
  BY <1>2, <1>5 DEF DataOrder
<1>8. m.tx # NoFrame => DataOk(m, y, m.tx)
  <2>1. CASE x.tx # NoFrame
    <3>1. m.tx.kind = x.tx.kind /\ m.tx.seq = x.tx.seq
      BY <2>1 DEF TxKept
    <3>2. DataOk(x, y, x.tx)
      BY <2>1 DEF Direction, DataSide
    <3> QED BY <1>2, <1>5, <3>1, <3>2 DEF DataOk, Reliable
  <2>2. CASE x.tx = NoFrame
    BY <1>2, <2>2 DEF TxKept, Fresh, DataOk
  <2> QED BY <2>1, <2>2
<1>9. DataSide(m, y, w)
  BY <1>6, <1>7, <1>8 DEF Direction, DataSide
<1>10. PICK u : u = Tail(v)
  OBVIOUS
<1>11. /\ Head(v) = v[1] /\ Len(u) = Len(v) - 1 /\ Len(v) \in Nat /\ 1 \in 1 .. Len(v)
       /\ \A i \in 1 .. Len(u) : u[i] = v[i + 1] /\ i + 1 \in 1 .. Len(v) /\ 1 < i + 1
  BY <1>10
<1>12. \A i \in 1 .. Len(u) : Numbered(u[i]) => u[i].ack = y.ack
  BY <1>1, <1>2, <1>11 DEF Direction, AckSide, AckOrder
<1>13. y.tx # NoFrame => (Numbered(y.tx) => y.tx.ack = y.ack)
  BY <1>1, <1>2, <1>11 DEF Direction, AckSide, AckOrder
<1>14. AckSide(m, y, u)
  BY <1>12, <1>13 DEF AckSide, AckOk, AckOrder
<1> QED BY <1>4, <1>9, <1>10, <1>14 DEF Direction

\* A frame that the receiver takes is the current packet, which it has not had.
LEMMA TakenIsNext ==
    ASSUME NEW x \in Link, NEW y \in Link, NEW w \in Seq(Frame), NEW v \in Seq(Frame),
           Direction(x, y, w, v), w # <<>>, NEW m, Takes(y, Head(w), m)
    PROVE  /\ y.ack = x.seq /\ Head(w).seq = x.seq /\ x.packet # 0 /\ x.packet = x.accepted
           /\ Head(w).payload = x.packet /\ y.received < x.packet
<1>1. Head(w) = w[1] /\ 1 \in 1 .. Len(w)
  OBVIOUS
<1>2. IncSeqNr(x.seq) # x.seq /\ IncSeqNr(y.ack) # y.ack
  BY IncType DEF Link
<1>3. DataOk(x, y, Head(w))
  BY <1>1 DEF Direction, DataSide
<1>4. Head(w).seq = y.ack /\ Reliable(Head(w))
  BY DEF Takes
<1>5. y.ack = x.seq
  BY <1>2, <1>3, <1>4 DEF DataOk
<1>6. x.packet # 0 /\ Head(w).payload = x.packet
  BY <1>2, <1>3, <1>4, <1>5 DEF DataOk
<1> QED BY <1>4, <1>5, <1>6 DEF Direction, Numbers

LEMMA TakeKeeps ==
    ASSUME NEW x \in Link, NEW y \in Link, NEW w \in Seq(Frame), NEW v \in Seq(Frame),
           Direction(x, y, w, v), w # <<>>, NEW m \in Link, Takes(y, Head(w), m), TxKept(y, m)
    PROVE  Direction(x, m, Tail(w), v)
<1>1. /\ y.ack = x.seq /\ Head(w).seq = x.seq /\ x.packet # 0 /\ x.packet = x.accepted
      /\ Head(w).payload = x.packet /\ y.received < x.packet
  BY TakenIsNext
<1>2. /\ m.ack = IncSeqNr(x.seq) /\ m.ack # x.seq /\ m.received = x.packet
      /\ Reliable(Head(w)) /\ x.accepted \in Nat
  BY <1>1, IncType DEF Takes, Link
<1>3. Numbers(x, m)
  BY <1>1, <1>2 DEF Numbers
<1>4. \A f : AckOk(x, y, f) /\ Numbered(f) => f.ack = x.seq
  BY <1>1 DEF AckOk
<1>5. \A f : AckOk(x, y, f) => AckOk(x, m, f)
  BY <1>4 DEF AckOk
<1>6. \A f, g : AckOk(x, y, f) => AckOrder(m, f, g)
  BY <1>2, <1>4 DEF AckOrder
<1>7. m.tx # NoFrame => AckOk(x, m, m.tx)
  <2>1. CASE y.tx # NoFrame
    <3>1. m.tx.kind = y.tx.kind /\ m.tx.ack = y.tx.ack
      BY <2>1 DEF TxKept
    <3>2. AckOk(x, y, y.tx)
      BY <2>1 DEF Direction, AckSide
    <3> QED BY <1>4, <3>1, <3>2 DEF AckOk, Numbered, Reliable
  <2>2. CASE y.tx = NoFrame
    BY <2>2 DEF TxKept, Fresh, AckOk
  <2> QED BY <2>1, <2>2
<1>8. AckSide(x, m, v)
  BY <1>5, <1>6, <1>7 DEF Direction, AckSide
<1>10. PICK u : u = Tail(w)
  OBVIOUS
<1>11. /\ Head(w) = w[1] /\ Len(u) = Len(w) - 1 /\ Len(w) \in Nat /\ 1 \in 1 .. Len(w)
       /\ \A i \in 1 .. Len(u) : u[i] = w[i + 1] /\ i + 1 \in 1 .. Len(w) /\ 1 < i + 1
  BY <1>10
<1>12. \A i \in 1 .. Len(u) : Reliable(u[i]) => u[i].seq = x.seq
  BY <1>1, <1>2, <1>11 DEF Direction, DataSide, DataOrder
<1>13. x.tx # NoFrame => (Reliable(x.tx) => x.tx.seq = x.seq)
  BY <1>1, <1>2, <1>11 DEF Direction, DataSide, DataOrder
<1>14. DataSide(x, m, u)
  BY <1>2, <1>12, <1>13 DEF DataSide, DataOk, DataOrder
<1> QED BY <1>3, <1>8, <1>10, <1>14 DEF Direction

-----------------------------------------------------------------------------
(* The abstract channel, from the end x to the end y, in a step to x2 and y2.     *)
ChannelStep(x, y, x2, y2) ==
    \/ /\ x.packet = 0
       /\ x2.accepted = x.accepted + 1 /\ x2.packet = x.accepted + 1
       /\ y2.received = y.received /\ y2.handed = y.handed /\ x2.confirmed = x.confirmed
    \/ /\ y.received < x.accepted
       /\ y2.received = x.accepted /\ y2.handed = y.handed + 1
       /\ x2.accepted = x.accepted /\ x2.packet = x.packet /\ x2.confirmed = x.confirmed
    \/ /\ x.packet # 0 /\ x.packet = y.received
       /\ x2.confirmed = x.packet
       /\ \/ x2.accepted = x.accepted + 1 /\ x2.packet = x.accepted + 1
          \/ x2.accepted = x.accepted /\ x2.packet = 0
       /\ y2.received = y.received /\ y2.handed = y.handed
    \/ /\ x2.accepted = x.accepted /\ x2.packet \in {x.packet, 0} /\ x2.confirmed = x.confirmed
       /\ y2.received = y.received /\ y2.handed = y.handed

\* A step of an end on a line it shares: both directions keep their order, and each
\* takes a step of the abstract channel or none.
LEMMA QuietStep ==
    ASSUME NEW x \in Link, NEW y \in Link, NEW w \in Seq(Frame), NEW v \in Seq(Frame),
           Direction(x, y, w, v), Direction(y, x, v, w), NEW m \in Link, Quiet(x, m)
    PROVE  /\ Direction(m, y, w, v) /\ Direction(y, m, v, w)
           /\ ChannelStep(x, y, m, y) /\ ChannelStep(y, x, y, m)
<1>1. Direction(m, y, w, v) /\ Direction(y, m, v, w)
  BY SenderIdleKeeps, ReceiverIdleKeeps DEF Quiet
<1>2. ChannelStep(x, y, m, y) /\ ChannelStep(y, x, y, m)
  BY DEF Quiet, SenderIdle, SameReceiver, ChannelStep
<1> QED BY <1>1, <1>2

LEMMA ReceiveStep ==
    ASSUME NEW x \in Link, NEW y \in Link, NEW w \in Seq(Frame), NEW v \in Seq(Frame),
           Direction(x, y, w, v), Direction(y, x, v, w), v # <<>>,
           NEW m \in Link, Effect(x, Head(v), m)
    PROVE  /\ Direction(m, y, w, Tail(v)) /\ Direction(y, m, Tail(v), w)
           /\ ChannelStep(x, y, m, y) /\ ChannelStep(y, x, y, m)
<1>1. TxKept(x, m) /\ Tail(v) \in Seq(Frame)
  BY DEF Effect
<1>2. Direction(m, y, w, Tail(v)) /\ ChannelStep(x, y, m, y)
  <2>1. CASE SenderIdle(x, m)
    <3>1. Direction(m, y, w, v)
      BY <1>1, <2>1, SenderIdleKeeps
    <3>2. ChannelStep(x, y, m, y)
      BY <2>1 DEF SenderIdle, ChannelStep
    <3> QED BY <3>1, <3>2, PopKeeps
  <2>2. CASE Confirms(x, Head(v), m)
    <3>1. Direction(m, y, w, Tail(v))
      BY <1>1, <2>2, ConfirmKeeps
    <3>2. x.packet # 0 /\ y.received = x.packet
      BY <2>2, ConfirmedWasTaken
    <3>3. ChannelStep(x, y, m, y)
      BY <2>2, <3>2 DEF Confirms, ChannelStep
    <3> QED BY <3>1, <3>3
  <2> QED BY <2>1, <2>2 DEF Effect
<1>3. Direction(y, m, Tail(v), w) /\ ChannelStep(y, x, y, m)
  <2>1. CASE SameReceiver(x, m)
    <3>1. Direction(y, m, v, w)
      BY <1>1, <2>1, ReceiverIdleKeeps
    <3>2. ChannelStep(y, x, y, m)
      BY <2>1 DEF SameReceiver, ChannelStep
    <3> QED BY <3>1, <3>2, PopKeeps
  <2>2. CASE Takes(x, Head(v), m)
    <3>1. Direction(y, m, Tail(v), w)
      BY <1>1, <2>2, TakeKeeps
    <3>2. /\ y.packet # 0 /\ y.packet = y.accepted
          /\ Head(v).payload = y.packet /\ x.received < y.packet
      BY <2>2, TakenIsNext
    <3>3. ChannelStep(y, x, y, m)
      BY <2>2, <3>2 DEF Takes, ChannelStep
    <3> QED BY <3>1, <3>3
  <2> QED BY <2>1, <2>2 DEF Effect
<1> QED BY <1>2, <1>3

-----------------------------------------------------------------------------
(* The handshake of the end x, which writes to the line n, with the end y, which   *)
(* answers on v; both lines without what is left from an earlier link.  A SYNC of  *)
(* x goes before its CONFIG and is answered before it.  So the answer to CONFIG,    *)
(* with which x gets active, is the last of the handshake, and no answer to SYNC    *)
(* is left that could bring x up again before the peer has restarted too.           *)
OnLine(n, k) == \E i \in 1 .. Len(n) : n[i].kind = k
Writes(l, k) == l.tx # NoFrame /\ l.tx.kind = k
Says(l, n, k) == OnLine(n, k) \/ Writes(l, k) \/ k \in l.actions

NoneBehind(l, n, a, b) ==
    /\ \A i, j \in 1 .. Len(n) : i < j /\ n[i].kind = a => n[j].kind # b
    /\ OnLine(n, a) => ~Writes(l, b)
    /\ OnLine(n, a) \/ Writes(l, a) => b \notin l.actions

Shake(x, y, n, v) ==
    /\ NoneBehind(x, n, "CONFIG", "SYNC")
    /\ NoneBehind(y, v, "CONFIG_RESPONSE", "SYNC_RESPONSE")
    /\ x.state = "UNINITIALIZED" => ~Says(x, n, "CONFIG") /\ ~Says(y, v, "CONFIG_RESPONSE")
    /\ Says(y, v, "CONFIG_RESPONSE") => ~Says(x, n, "SYNC") /\ y.state # "UNINITIALIZED"
    /\ x.state = "ACTIVE" =>
         ~Says(x, n, "SYNC") /\ ~Says(y, v, "SYNC_RESPONSE") /\ y.state # "UNINITIALIZED"

\* A frame leaves the line.
LEMMA PopLine ==
    ASSUME NEW n \in Seq(Frame), n # <<>>, NEW k
    PROVE  OnLine(Tail(n), k) => OnLine(n, k)
<1>1. /\ Len(Tail(n)) = Len(n) - 1 /\ Len(n) \in Nat
      /\ \A i \in 1 .. Len(n) - 1 : Tail(n)[i] = n[i + 1] /\ i + 1 \in 1 .. Len(n)
  OBVIOUS
<1> QED BY <1>1 DEF OnLine

LEMMA PopBehind ==
    ASSUME NEW n \in Seq(Frame), n # <<>>, NEW l, NEW a, NEW b, NoneBehind(l, n, a, b)
    PROVE  /\ NoneBehind(l, Tail(n), a, b)
           /\ Head(n).kind = a => ~Says(l, Tail(n), b)
<1>1. PICK t : t = Tail(n)
  OBVIOUS
<1>2. /\ Len(t) = Len(n) - 1 /\ Len(n) \in Nat /\ 1 \in 1 .. Len(n) /\ Head(n) = n[1]
      /\ \A i \in 1 .. Len(t) : t[i] = n[i + 1] /\ i + 1 \in 1 .. Len(n) /\ 1 < i + 1
  BY <1>1
<1>3. ASSUME NEW i \in 1 .. Len(t), NEW j \in 1 .. Len(t), i < j, t[i].kind = a
      PROVE  t[j].kind # b
  <2>1. i + 1 \in 1 .. Len(n) /\ j + 1 \in 1 .. Len(n) /\ i + 1 < j + 1
    BY <1>2, <1>3
  <2>2. n[i + 1].kind = a => n[j + 1].kind # b
    BY <2>1 DEF NoneBehind
  <2> QED BY <1>2, <1>3, <2>2
<1>4. OnLine(t, a) => OnLine(n, a)
  BY <1>1, PopLine
<1>5. NoneBehind(l, t, a, b)
  BY <1>3, <1>4 DEF NoneBehind
<1>6. ASSUME Head(n).kind = a PROVE ~Says(l, t, b)
  <2>1. n[1].kind = a /\ OnLine(n, a)
    BY <1>2, <1>6 DEF OnLine
  <2>2. ~Writes(l, b) /\ b \notin l.actions
    BY <2>1 DEF NoneBehind
  <2>3. \A i \in 1 .. Len(t) : t[i].kind # b
    BY <1>2, <2>1 DEF NoneBehind
  <2> QED BY <2>2, <2>3 DEF Says, OnLine
<1> QED BY <1>1, <1>5, <1>6

LEMMA PopShake ==
    ASSUME NEW x, NEW y, NEW n \in Seq(Frame), NEW v \in Seq(Frame), Shake(x, y, n, v)
    PROVE  /\ n # <<>> => Shake(x, y, Tail(n), v)
           /\ v # <<>> => Shake(x, y, n, Tail(v))
<1>1. ASSUME n # <<>> PROVE Shake(x, y, Tail(n), v)
  <2>1. \A k : Says(x, Tail(n), k) => Says(x, n, k)
    BY <1>1, PopLine DEF Says
  <2>2. NoneBehind(x, Tail(n), "CONFIG", "SYNC")
    BY <1>1, PopBehind DEF Shake
  <2> QED BY <2>1, <2>2 DEF Shake
<1>2. ASSUME v # <<>> PROVE Shake(x, y, n, Tail(v))
  <2>1. \A k : Says(y, Tail(v), k) => Says(y, v, k)
    BY <1>2, PopLine DEF Says
  <2>2. NoneBehind(y, Tail(v), "CONFIG_RESPONSE", "SYNC_RESPONSE")
    BY <1>2, PopBehind DEF Shake
  <2> QED BY <2>1, <2>2 DEF Shake
<1> QED BY <1>1, <1>2

\* A frame goes to the line.
LEMMA PushLine ==
    ASSUME NEW n \in Seq(Frame), NEW l \in Link, l.tx # NoFrame, NEW m, m.tx = NoFrame,
           m.actions \subseteq l.actions
    PROVE  /\ \A k : Says(m, Append(n, l.tx), k) => Says(l, n, k)
           /\ \A a, b : NoneBehind(l, n, a, b) => NoneBehind(m, Append(n, l.tx), a, b)
<1>1. PICK u : u = Append(n, l.tx)
  OBVIOUS
<1>2. l.tx \in Frame
  BY DEF Link
<1>3. /\ Len(u) = Len(n) + 1 /\ Len(n) \in Nat /\ u[Len(n) + 1] = l.tx
      /\ \A i \in 1 .. Len(n) : u[i] = n[i]
      /\ \A i \in 1 .. Len(u) : i \in 1 .. Len(n) \/ i = Len(n) + 1
  BY <1>1, <1>2
<1>4. \A k : OnLine(u, k) => OnLine(n, k) \/ Writes(l, k)
  BY <1>3 DEF OnLine, Writes
<1>5. \A k : ~Writes(m, k)
  BY DEF Writes
<1>6. \A k : Says(m, u, k) => Says(l, n, k)
  BY <1>4, <1>5 DEF Says
<1>7. ASSUME NEW a, NEW b, NoneBehind(l, n, a, b) PROVE NoneBehind(m, u, a, b)
  <2>1. ASSUME NEW i \in 1 .. Len(u), NEW j \in 1 .. Len(u), i < j, u[i].kind = a
        PROVE  u[j].kind # b
    <3>1. i \in 1 .. Len(n) /\ n[i].kind = a
      BY <1>3, <2>1
    <3>2. CASE j \in 1 .. Len(n)
      BY <1>3, <1>7, <2>1, <3>1, <3>2 DEF NoneBehind
    <3>3. CASE j = Len(n) + 1
      BY <1>3, <1>7, <3>1, <3>3 DEF NoneBehind, OnLine, Writes
    <3> QED BY <1>3, <3>2, <3>3
  <2>2. OnLine(u, a) \/ Writes(m, a) => b \notin m.actions
    BY <1>4, <1>5, <1>7 DEF NoneBehind
  <2> QED BY <1>5, <2>1, <2>2 DEF NoneBehind
<1> QED BY <1>1, <1>6, <1>7

\* What an end says after it has asked for the kinds A.
LEMMA AskedSays ==
    ASSUME NEW l, NEW A, NEW m, Asks(l, A, m), NEW n, NEW k \in Hand, Says(m, n, k)
    PROVE  Says(l, n, k) \/ k \in A
<1>1. CASE OnLine(n, k)
  BY <1>1 DEF Says
<1>2. CASE Writes(m, k)
  <2>1. CASE l.tx # NoFrame
    BY <1>2, <2>1 DEF Asks, Writes, Says
  <2>2. CASE l.tx = NoFrame
    <3>1. k \in l.actions \cup A
      BY <1>2, <2>2 DEF Asks, Writes
    <3> QED BY <3>1 DEF Says
  <2> QED BY <2>1, <2>2
<1>3. CASE k \in m.actions
  BY <1>3 DEF Asks, Says
<1> QED BY <1>1, <1>2, <1>3 DEF Says

\* The order is kept if b is not asked for while a is under way.
LEMMA AskedBehind ==
    ASSUME NEW l, NEW A, NEW m, Asks(l, A, m), NEW n, NEW a \in Hand, NEW b \in Hand,
           <<a, b>> \in {<<"CONFIG", "SYNC">>, <<"CONFIG_RESPONSE", "SYNC_RESPONSE">>},
           NoneBehind(l, n, a, b), b \in A => ~Says(l, n, a)
    PROVE  NoneBehind(m, n, a, b)
<1>1. OnLine(n, a) => ~Writes(m, b)
  <2> SUFFICES ASSUME OnLine(n, a), Writes(m, b) PROVE FALSE
    OBVIOUS
  <2>1. b \notin A /\ ~Writes(l, b) /\ b \notin l.actions
    BY DEF NoneBehind, Says
  <2>2. CASE l.tx # NoFrame
    BY <2>1, <2>2 DEF Asks, Writes
  <2>3. CASE l.tx = NoFrame
    BY <2>1, <2>3 DEF Asks, Writes
  <2> QED BY <2>2, <2>3
<1>2. OnLine(n, a) \/ Writes(l, a) => b \notin m.actions
  <2> SUFFICES ASSUME OnLine(n, a) \/ Writes(l, a) PROVE b \notin m.actions
    OBVIOUS
  <2>1. b \notin A /\ b \notin l.actions
    BY DEF NoneBehind, Says
  <2> QED BY <2>1 DEF Asks
<1>3. Writes(m, a) /\ ~Writes(l, a) => b \notin m.actions
  <2> SUFFICES ASSUME Writes(m, a), ~Writes(l, a) PROVE b \notin m.actions
    OBVIOUS
  <2>1. l.tx = NoFrame /\ m.tx # NoFrame /\ m.tx.kind = a
    BY DEF Asks, Writes
  <2>2. (a = "CONFIG" /\ b = "SYNC") \/ (a = "CONFIG_RESPONSE" /\ b = "SYNC_RESPONSE")
    OBVIOUS
  <2> QED BY <2>1, <2>2 DEF Asks
<1> QED BY <1>1, <1>2, <1>3 DEF NoneBehind

\* A step of the end x.
LEMMA AskerShake ==
    ASSUME NEW x, NEW y, NEW n, NEW v, Shake(x, y, n, v), NEW A, NEW m, Asks(x, A, m),
           "SYNC" \in A => x.state = "UNINITIALIZED" /\ m.state = "UNINITIALIZED",
           "CONFIG" \in A => m.state # "UNINITIALIZED",
           m.state = "UNINITIALIZED" => x.state = "UNINITIALIZED",
           m.state = "ACTIVE" =>
             ~Says(x, n, "SYNC") /\ ~Says(y, v, "SYNC_RESPONSE") /\ y.state # "UNINITIALIZED"
    PROVE  Shake(m, y, n, v)
<1>1. "SYNC" \in Hand /\ "CONFIG" \in Hand
  BY DEF Hand
<1>2. NoneBehind(m, n, "CONFIG", "SYNC")
  BY <1>1, AskedBehind DEF Shake
<1>3. Says(m, n, "SYNC") => Says(x, n, "SYNC") \/ "SYNC" \in A
  BY <1>1, AskedSays
<1>4. Says(m, n, "CONFIG") => Says(x, n, "CONFIG") \/ "CONFIG" \in A
  BY <1>1, AskedSays
<1>5. m.state = "UNINITIALIZED" => ~Says(m, n, "CONFIG") /\ ~Says(y, v, "CONFIG_RESPONSE")
  BY <1>4 DEF Shake
<1>6. Says(y, v, "CONFIG_RESPONSE") => ~Says(m, n, "SYNC")
  BY <1>3 DEF Shake
<1>7. m.state = "ACTIVE" => ~Says(m, n, "SYNC")
  BY <1>3
<1> QED BY <1>2, <1>5, <1>6, <1>7 DEF Shake

\* A step of the end y.
LEMMA AnswererShake ==
    ASSUME NEW x, NEW y, NEW n, NEW v, Shake(x, y, n, v), NEW A, NEW m, Asks(y, A, m),
           "SYNC_RESPONSE" \in A => ~Says(y, v, "CONFIG_RESPONSE") /\ x.state # "ACTIVE",
           "CONFIG_RESPONSE" \in A => x.state # "UNINITIALIZED" /\ ~Says(x, n, "SYNC")
                                      /\ m.state # "UNINITIALIZED",
           m.state = "UNINITIALIZED" => y.state = "UNINITIALIZED"
    PROVE  Shake(x, m, n, v)
<1>1. "SYNC_RESPONSE" \in Hand /\ "CONFIG_RESPONSE" \in Hand
  BY DEF Hand
<1>2. NoneBehind(m, v, "CONFIG_RESPONSE", "SYNC_RESPONSE")
  BY <1>1, AskedBehind DEF Shake
<1>3. Says(m, v, "SYNC_RESPONSE") => Says(y, v, "SYNC_RESPONSE") \/ "SYNC_RESPONSE" \in A
  BY <1>1, AskedSays
<1>4. Says(m, v, "CONFIG_RESPONSE") => Says(y, v, "CONFIG_RESPONSE") \/ "CONFIG_RESPONSE" \in A
  BY <1>1, AskedSays
<1>5. x.state = "UNINITIALIZED" => ~Says(m, v, "CONFIG_RESPONSE")
  BY <1>4 DEF Shake
<1>6. Says(m, v, "CONFIG_RESPONSE") => ~Says(x, n, "SYNC") /\ m.state # "UNINITIALIZED"
  BY <1>4 DEF Shake
<1>7. x.state = "ACTIVE" => ~Says(m, v, "SYNC_RESPONSE") /\ m.state # "UNINITIALIZED"
  BY <1>3 DEF Shake
<1> QED BY <1>2, <1>5, <1>6, <1>7 DEF Shake

\* A step of an end other than the callback for a received frame, in both handshakes.
LEMMA StepShake ==
    ASSUME NEW x \in Link, NEW y, NEW n, NEW v, Shake(x, y, n, v), Shake(y, x, v, n),
           NEW m, m.state = x.state, Asks(x, Own(x), m)
    PROVE  Shake(m, y, n, v) /\ Shake(y, m, v, n)
<1>1. /\ "SYNC" \in Own(x) => x.state = "UNINITIALIZED"
      /\ "CONFIG" \in Own(x) => x.state # "UNINITIALIZED"
      /\ "SYNC_RESPONSE" \notin Own(x) /\ "CONFIG_RESPONSE" \notin Own(x)
  BY DEF Own
<1>2. x.state = "ACTIVE" =>
         ~Says(x, n, "SYNC") /\ ~Says(y, v, "SYNC_RESPONSE") /\ y.state # "UNINITIALIZED"
  BY DEF Shake
<1>3. Shake(m, y, n, v)
  BY <1>1, <1>2, AskerShake
<1>4. Shake(y, m, v, n)
  BY <1>1, AnswererShake
<1> QED BY <1>3, <1>4

\* The callback for the frame f of the peer.
LEMMA ReceiveShake ==
    ASSUME NEW x \in Link, NEW y, NEW n \in Seq(Frame), NEW v \in Seq(Frame),
           Shake(x, y, n, v), Shake(y, x, v, n), v # <<>>,
           NEW m, m.state = NextState(x, Head(v)), Asks(x, Answers(x, Head(v)), m)
    PROVE  Shake(m, y, n, Tail(v)) /\ Shake(y, m, Tail(v), n)
<1>1. PICK f : f = Head(v)
  OBVIOUS
<1>2. Shake(x, y, n, Tail(v)) /\ Shake(y, x, Tail(v), n)
  BY PopShake
<1>3. OnLine(v, f.kind) /\ Says(y, v, f.kind)
  BY <1>1 DEF OnLine, Says
<1>4. x.state \in LinkState
  BY DEF Link
<1>5. PICK A : A = Answers(x, f)
  OBVIOUS
<1>6. Shake(m, y, n, Tail(v))
  <2>1. "SYNC" \notin A /\ ("CONFIG" \in A => m.state = "INITIALIZED")
    BY <1>1, <1>5 DEF Answers, NextState
  <2>2. m.state = "UNINITIALIZED" => x.state = "UNINITIALIZED"
    BY <1>1, <1>4 DEF NextState, LinkState
  <2>3. m.state = "ACTIVE" =>
          ~Says(x, n, "SYNC") /\ ~Says(y, Tail(v), "SYNC_RESPONSE") /\ y.state # "UNINITIALIZED"
    <3>1. CASE x.state = "ACTIVE"
      BY <1>2, <3>1 DEF Shake
    <3>2. CASE x.state = "INITIALIZED" /\ f.kind = "CONFIG_RESPONSE"
      <4>1. ~Says(x, n, "SYNC") /\ y.state # "UNINITIALIZED"
        BY <1>3, <3>2 DEF Shake
      <4>2. NoneBehind(y, v, "CONFIG_RESPONSE", "SYNC_RESPONSE")
        BY DEF Shake
      <4>3. ~Says(y, Tail(v), "SYNC_RESPONSE")
        BY <1>1, <3>2, <4>2, PopBehind
      <4> QED BY <4>1, <4>3
    <3>3. CASE x.state # "ACTIVE" /\ ~(x.state = "INITIALIZED" /\ f.kind = "CONFIG_RESPONSE")
      <4>1. m.state # "ACTIVE"
        BY <1>1, <3>3 DEF NextState
      <4> QED BY <4>1
    <3> QED BY <3>1, <3>2, <3>3
  <2> QED BY <1>1, <1>2, <1>5, <2>1, <2>2, <2>3, AskerShake
<1>7. Shake(y, m, Tail(v), n)
  <2>1. "SYNC_RESPONSE" \in A => ~Says(x, n, "CONFIG_RESPONSE") /\ y.state # "ACTIVE"
    <3>1. "SYNC_RESPONSE" \in A => f.kind = "SYNC"
      BY <1>5 DEF Answers
    <3> QED BY <1>3, <3>1 DEF Shake
  <2>2. "CONFIG_RESPONSE" \in A =>
          y.state # "UNINITIALIZED" /\ ~Says(y, Tail(v), "SYNC") /\ m.state # "UNINITIALIZED"
    <3> SUFFICES ASSUME "CONFIG_RESPONSE" \in A
                 PROVE  /\ y.state # "UNINITIALIZED" /\ ~Says(y, Tail(v), "SYNC")
                        /\ m.state # "UNINITIALIZED"
      OBVIOUS
    <3>1. f.kind = "CONFIG" /\ x.state # "UNINITIALIZED"
      BY <1>5 DEF Answers
    <3>2. y.state # "UNINITIALIZED"
      BY <1>3, <3>1 DEF Shake
    <3>3. NoneBehind(y, v, "CONFIG", "SYNC")
      BY DEF Shake
    <3>4. ~Says(y, Tail(v), "SYNC")
      BY <1>1, <3>1, <3>3, PopBehind
    <3>5. m.state # "UNINITIALIZED"
      BY <1>1, <3>1 DEF NextState
    <3> QED BY <3>2, <3>4, <3>5
  <2>3. m.state = "UNINITIALIZED" => x.state = "UNINITIALIZED"
    BY <1>1, <1>4 DEF NextState, LinkState
  <2> QED BY <1>1, <1>2, <1>5, <2>1, <2>2, <2>3, AnswererShake
<1> QED BY <1>6, <1>7

\* The callback for a frame that is left from an earlier link.
LEMMA OldShake ==
    ASSUME NEW x, NEW y, NEW n, NEW v, Shake(x, y, n, v), Shake(y, x, v, n),
           x.state = "UNINITIALIZED", NEW f, f.kind # "SYNC_RESPONSE",
           NEW m, m.state = NextState(x, f), Asks(x, Answers(x, f), m)
    PROVE  Shake(m, y, n, v) /\ Shake(y, m, v, n)
<1>1. m.state = "UNINITIALIZED"
  BY DEF NextState
<1>2. PICK A : A = Answers(x, f)
  OBVIOUS
<1>3. "SYNC" \notin A /\ "CONFIG" \notin A /\ "CONFIG_RESPONSE" \notin A
  BY <1>2 DEF Answers
<1>4. Shake(m, y, n, v)
  BY <1>1, <1>2, <1>3, AskerShake
<1>5. ~Says(x, n, "CONFIG_RESPONSE") /\ y.state # "ACTIVE"
  BY DEF Shake
<1>6. Shake(y, m, v, n)
  BY <1>2, <1>3, <1>5, AnswererShake
<1> QED BY <1>4, <1>6

\* The end of a frame, and the next one.
LEMMA WrittenShake ==
    ASSUME NEW x \in Link, Good(x), NEW y, NEW n \in Seq(Frame), NEW v \in Seq(Frame),
           Shake(x, y, n, v), Shake(y, x, v, n), x.tx # NoFrame
    PROVE  LET m == LinkRun(FrameDone(x))
           IN  Shake(m, y, Append(n, x.tx), v) /\ Shake(y, m, v, Append(n, x.tx))
<1>1. PICK k : k = FrameDone(x)
  OBVIOUS
<1>2. k \in Link /\ k.state = x.state /\ k.tx = NoFrame
  BY <1>1, WrittenGood
<1>3. k.actions \subseteq x.actions
  BY <1>1 DEF FrameDone, Link
<1>4. PICK u : u = Append(n, x.tx)
  OBVIOUS
<1>5. /\ \A c : Says(k, u, c) => Says(x, n, c)
      /\ \A a, b : NoneBehind(x, n, a, b) => NoneBehind(k, u, a, b)
  BY <1>2, <1>3, <1>4, PushLine
<1>6. Shake(k, y, u, v) /\ Shake(y, k, v, u)
  BY <1>2, <1>5 DEF Shake
<1>7. PICK m : m = LinkRun(k)
  OBVIOUS
<1>8. m.state = k.state /\ Asks(k, Own(k), m)
  BY <1>2, <1>7, LinkRunGood, LinkRunAsks, AsksMore DEF Same
<1>9. Shake(m, y, u, v) /\ Shake(y, m, v, u)
  BY <1>2, <1>6, <1>8, StepShake
<1> QED BY <1>1, <1>4, <1>7, <1>9

-----------------------------------------------------------------------------
(* The whole link, of the ends x and y that write to the lines u and v.  While the *)
(* number of resets is even both ends are at the same link or on the way to it.     *)
(* Frames of an earlier link may still be on a line, before all others; the end     *)
(* that is to read them has not begun and passes over them, for there is no answer  *)
(* to a SYNC among them.                                                            *)
Parts(x, y, u, v, xold, xnew, yold, ynew) ==
    /\ u = xold \o xnew /\ v = yold \o ynew
    /\ xold # <<>> => y.state = "UNINITIALIZED"
    /\ yold # <<>> => x.state = "UNINITIALIZED"
    /\ ~OnLine(xold, "SYNC_RESPONSE") /\ ~OnLine(yold, "SYNC_RESPONSE")
    /\ Shake(x, y, xnew, ynew) /\ Shake(y, x, ynew, xnew)
    /\ Direction(Zeroed(x), Zeroed(y), xnew, ynew) /\ Direction(Zeroed(y), Zeroed(x), ynew, xnew)

Joined(x, y, u, v) ==
    \E xold, xnew, yold, ynew \in Seq(Frame) : Parts(x, y, u, v, xold, xnew, yold, ynew)

(* After a restart of the controller y the host x goes on with the controller it    *)
(* knew, g, which writes nothing more.  The new one cannot begin, for the host       *)
(* answers no SYNC.                                                                 *)
Ghost(x, y, u, v, g) ==
    /\ g.tx = NoFrame /\ g.accepted = y.accepted /\ g.received = y.received
    /\ x.state = "ACTIVE" /\ y.state = "UNINITIALIZED" /\ OnlySync(y)
    /\ ~Says(x, u, "SYNC") /\ ~Says(x, u, "SYNC_RESPONSE") /\ ~OnLine(v, "SYNC_RESPONSE")
    /\ Direction(x, g, u, v) /\ Direction(g, x, v, u)

Parted(x, y, u, v) == \E g \in Link : Ghost(x, y, u, v, g)

Running == resets % 2 = 0 /\ Joined(link[Host], link[Ctrl], wire[Host], wire[Ctrl])
Restarting == resets % 2 = 1 /\ Parted(link[Host], link[Ctrl], wire[Host], wire[Ctrl])

RunInv ==
    /\ IndInv
    /\ \A s \in Side : Calm(link[s]) /\ Idle(link[s])
    /\ Running \/ Restarting

\* A step of the whole system is one of each abstract channel, or none.
ChannelsStep ==
    \A s \in Side : ChannelStep(link[s], link[Peer(s)], link'[s], link'[Peer(s)])

-----------------------------------------------------------------------------
\* The abstract channel looks at no sequence number.
LEMMA ZeroedChannel ==
    ASSUME NEW x \in Link, NEW y \in Link, NEW m \in Link, NEW z \in Link,
           ChannelStep(Zeroed(x), Zeroed(y), Zeroed(m), Zeroed(z))
    PROVE  ChannelStep(x, y, m, z)
<1>1. PICK a, b, c, d : a = Zeroed(x) /\ b = Zeroed(y) /\ c = Zeroed(m) /\ d = Zeroed(z)
  OBVIOUS
<1>2. /\ a.packet = x.packet /\ a.accepted = x.accepted /\ a.confirmed = x.confirmed
      /\ c.packet = m.packet /\ c.accepted = m.accepted /\ c.confirmed = m.confirmed
      /\ b.received = y.received /\ b.handed = y.handed
      /\ d.received = z.received /\ d.handed = z.handed
  BY <1>1, ZeroedType
<1>3. ChannelStep(a, b, c, d)
  BY <1>1
<1> QED BY <1>2, <1>3 DEF ChannelStep

\* The end of a frame, and the next one.
LEMMA WrittenStep ==
    ASSUME NEW x \in Link, NEW y \in Link, NEW w \in Seq(Frame), NEW v \in Seq(Frame),
           Direction(Zeroed(x), y, w, v), Direction(y, Zeroed(x), v, w),
           Good(x), Calm(x), x.tx # NoFrame, NEW m, m = LinkRun(FrameDone(x))
    PROVE  /\ Direction(Zeroed(m), y, Append(w, x.tx), v)
           /\ Direction(y, Zeroed(m), v, Append(w, x.tx))
           /\ m \in Link /\ m.state = x.state /\ Calm(m) /\ Idle(m)
           /\ SameSender(x, m) /\ SameReceiver(x, m)
<1>1. PICK k : k = FrameDone(x)
  OBVIOUS
<1>2. /\ k \in Link /\ Good(k) /\ k.state = x.state /\ k.tx = NoFrame
      /\ SameSender(x, k) /\ SameReceiver(x, k)
  BY <1>1, WrittenGood
<1>3. Calm(k)
  BY <1>1, <1>2 DEF FrameDone, Calm, Link
<1>4. m \in Link /\ Same(k, m) /\ Asks(k, {}, m) /\ Idle(m)
  BY <1>1, <1>2, LinkRunGood, LinkRunAsks
<1>5. Same(Zeroed(k), Zeroed(m)) /\ Calm(m)
  BY <1>2, <1>3, <1>4, ZeroedSame DEF Good
<1>6. PICK a, b, c : a = Zeroed(x) /\ b = Zeroed(k) /\ c = Zeroed(m)
  OBVIOUS
<1>7. a \in Link /\ b \in Link /\ c \in Link /\ a.tx = x.tx /\ b.tx = NoFrame
  BY <1>2, <1>4, <1>6, ZeroedType
<1>8. SameSender(a, b) /\ SameReceiver(a, b)
  <2>1. CASE x.state = "ACTIVE"
    BY <1>2, <1>6, <2>1 DEF Zeroed
  <2>2. CASE x.state # "ACTIVE"
    <3>1. /\ a.seq = 0 /\ a.ack = 0 /\ b.seq = 0 /\ b.ack = 0
          /\ a.packet = x.packet /\ a.accepted = x.accepted /\ a.confirmed = x.confirmed
          /\ b.packet = k.packet /\ b.accepted = k.accepted /\ b.confirmed = k.confirmed
          /\ a.received = x.received /\ a.handed = x.handed
          /\ b.received = k.received /\ b.handed = k.handed
      BY <1>2, <1>6, <2>2, ZeroedType
    <3> QED BY <1>2, <3>1 DEF SameSender, SameReceiver
  <2> QED BY <2>1, <2>2
<1>9. PICK u : u = Append(w, x.tx)
  OBVIOUS
<1>10. u \in Seq(Frame)
  BY <1>9 DEF Link
<1>11. Direction(b, y, u, v) /\ Direction(y, b, v, u)
  BY <1>6, <1>7, <1>8, <1>9, PushDataKeeps, PushAckKeeps
<1>12. Quiet(b, c)
  BY <1>5, <1>6 DEF Same, Quiet, SenderIdle, SameSender
<1>13. Direction(c, y, u, v) /\ Direction(y, c, v, u)
  BY <1>7, <1>10, <1>11, <1>12, QuietStep
<1>14. m.state = x.state /\ SameSender(x, m) /\ SameReceiver(x, m)
  BY <1>2, <1>4 DEF Same, SameSender, SameReceiver
<1> QED BY <1>4, <1>5, <1>6, <1>9, <1>13, <1>14

\* A frame without numbers goes to the line of a peer that writes nothing.
LEMMA OtherFrame ==
    ASSUME NEW x \in Link, NEW y \in Link, NEW w \in Seq(Frame), NEW v \in Seq(Frame),
           Direction(x, y, w, v), Direction(y, x, v, w), y.tx = NoFrame,
           NEW f \in Frame, ~Numbered(f)
    PROVE  Direction(x, y, w, Append(v, f)) /\ Direction(y, x, Append(v, f), w)
<1>1. PICK g : g = [y EXCEPT !.tx = f]
  OBVIOUS
<1>2. g \in Link /\ g.tx = f /\ g.tx # NoFrame /\ SameSender(y, g) /\ SameReceiver(y, g)
  BY <1>1, FrameNotNone DEF Link, SameSender, SameReceiver
<1>3. Fresh(g, f)
  BY DEF Fresh, Numbered
<1>4. Quiet(y, g)
  BY <1>2, <1>3 DEF Quiet, SenderIdle, SameSender, TxKept
<1>5. Direction(g, x, v, w) /\ Direction(x, g, w, v)
  BY <1>2, <1>4, QuietStep
<1>6. SameSender(g, y) /\ SameReceiver(g, y)
  BY <1>2 DEF SameSender, SameReceiver
<1> QED BY <1>2, <1>5, <1>6, PushDataKeeps, PushAckKeeps

\* The frame that an end is writing is lost.
LEMMA LostFrame ==
    ASSUME NEW x \in Link, NEW y \in Link, NEW w \in Seq(Frame), NEW v \in Seq(Frame),
           Direction(x, y, w, v), Direction(y, x, v, w)
    PROVE  LET g == [y EXCEPT !.tx = NoFrame]
           IN  /\ Direction(x, g, w, v) /\ Direction(g, x, v, w)
               /\ g \in Link /\ g.tx = NoFrame /\ g.accepted = y.accepted /\ g.received = y.received
<1>1. PICK g : g = [y EXCEPT !.tx = NoFrame]
  OBVIOUS
<1>2. /\ g \in Link /\ g.tx = NoFrame /\ g.seq = y.seq /\ g.ack = y.ack /\ g.packet = y.packet
      /\ g.accepted = y.accepted /\ g.received = y.received
  BY <1>1 DEF Link
<1>3. Numbers(x, g) /\ Numbers(g, x)
  BY <1>2 DEF Direction, Numbers
<1>4. DataSide(x, g, w) /\ AckSide(g, x, w)
  BY <1>2 DEF Direction, DataSide, DataOk, AckSide, AckOk
<1>5. DataSide(g, x, v)
  BY <1>2 DEF Direction, DataSide, DataOk, DataOrder
<1>6. AckSide(x, g, v)
  BY <1>2 DEF Direction, AckSide, AckOk, AckOrder
<1> QED BY <1>1, <1>2, <1>3, <1>4, <1>5, <1>6 DEF Direction

\* Two ends at the start of a link, which no frame of it has left yet.
LEMMA StartOfLink ==
    ASSUME NEW x \in Link, NEW y \in Link, OnlySync(x), OnlySync(y), x.packet = 0,
           x.state = "UNINITIALIZED", y.state = "UNINITIALIZED", y.received <= x.accepted
    PROVE  Shake(x, y, <<>>, <<>>) /\ Direction(Zeroed(x), Zeroed(y), <<>>, <<>>)
<1>1. \A k \in Hand \ {"SYNC"} : ~Says(x, <<>>, k) /\ ~Says(y, <<>>, k)
  BY DEF Says, OnLine, Writes, OnlySync
<1>2. {"SYNC_RESPONSE", "CONFIG", "CONFIG_RESPONSE"} \subseteq Hand \ {"SYNC"}
  BY DEF Hand
<1>3. /\ ~Says(x, <<>>, "CONFIG") /\ ~Says(y, <<>>, "CONFIG_RESPONSE")
      /\ ~Says(y, <<>>, "SYNC_RESPONSE")
  BY <1>1, <1>2
<1>4. /\ NoneBehind(x, <<>>, "CONFIG", "SYNC")
      /\ NoneBehind(y, <<>>, "CONFIG_RESPONSE", "SYNC_RESPONSE")
  BY <1>3 DEF NoneBehind, Says
<1>5. Shake(x, y, <<>>, <<>>)
  BY <1>3, <1>4 DEF Shake
<1>6. PICK a, b : a = Zeroed(x) /\ b = Zeroed(y)
  OBVIOUS
<1>7. /\ a.seq = 0 /\ b.ack = 0 /\ a.packet = 0 /\ b.received <= a.accepted
      /\ a.tx = x.tx /\ b.tx = y.tx
  BY <1>6, ZeroedType
<1>8. Numbers(a, b)
  BY <1>7 DEF Numbers
<1>9. DataSide(a, b, <<>>)
  BY <1>7 DEF DataSide, DataOk, DataOrder, OnlySync, Numbered
<1>10. AckSide(a, b, <<>>)
  BY <1>7 DEF AckSide, AckOk, AckOrder, OnlySync
<1> QED BY <1>5, <1>6, <1>8, <1>9, <1>10 DEF Direction

\* A line of which the first part is old.
LEMMA Lines ==
    ASSUME NEW o \in Seq(Frame), NEW n \in Seq(Frame)
    PROVE  /\ <<>> \o n = n /\ o \o <<>> = o
           /\ o # <<>> => Head(o \o n) = Head(o) /\ Tail(o \o n) = Tail(o) \o n /\ o \o n # <<>>
<1>1. <<>> \o n = n /\ o \o <<>> = o
  OBVIOUS
<1>2. ASSUME o # <<>> PROVE Head(o \o n) = Head(o) /\ Tail(o \o n) = Tail(o) \o n /\ o \o n # <<>>
  BY <1>2
<1> QED BY <1>1, <1>2

LEMMA AppendLine ==
    ASSUME NEW o \in Seq(Frame), NEW n \in Seq(Frame), NEW f \in Frame
    PROVE  Append(o \o n, f) = o \o Append(n, f)
OBVIOUS

-----------------------------------------------------------------------------
(* The steps of a link that is up or coming up, by the end x.                   *)
LEMMA JoinedTurn ==
    ASSUME NEW x, NEW y, NEW u, NEW v, Joined(x, y, u, v) PROVE Joined(y, x, v, u)
<1>1. PICK xold, xnew, yold, ynew \in Seq(Frame) : Parts(x, y, u, v, xold, xnew, yold, ynew)
  BY DEF Joined
<1>2. Parts(y, x, v, u, yold, ynew, xold, xnew)
  BY <1>1 DEF Parts
<1> QED BY <1>2 DEF Joined

\* The ends m and y after a step of x, and the two abstract channels.
After(x, y, m, u, v) ==
    /\ Joined(m, y, u, v) /\ Calm(m)
    /\ ChannelStep(x, y, m, y) /\ ChannelStep(y, x, y, m)

LEMMA JoinedStep ==
    ASSUME NEW x \in Link, NEW y \in Link, NEW u, NEW v, Joined(x, y, u, v), Calm(x),
           NEW m, StepOf(x, m)
    PROVE  After(x, y, m, u, v)
<1>1. PICK xold, xnew, yold, ynew \in Seq(Frame) : Parts(x, y, u, v, xold, xnew, yold, ynew)
  BY DEF Joined
<1>2. Quiet(Zeroed(x), Zeroed(m)) /\ Calm(m)
  BY ZeroedStep
<1>3. m \in Link /\ m.state = x.state /\ Asks(x, Own(x), m)
  BY DEF StepOf, Good
<1>4. Zeroed(x) \in Link /\ Zeroed(y) \in Link /\ Zeroed(m) \in Link
  BY <1>3, ZeroedType
<1>5. /\ Direction(Zeroed(m), Zeroed(y), xnew, ynew) /\ Direction(Zeroed(y), Zeroed(m), ynew, xnew)
      /\ ChannelStep(Zeroed(x), Zeroed(y), Zeroed(m), Zeroed(y))
      /\ ChannelStep(Zeroed(y), Zeroed(x), Zeroed(y), Zeroed(m))
  BY <1>1, <1>2, <1>4, QuietStep DEF Parts
<1>6. Shake(m, y, xnew, ynew) /\ Shake(y, m, ynew, xnew)
  BY <1>1, <1>3, StepShake DEF Parts
<1>7. Parts(m, y, u, v, xold, xnew, yold, ynew)
  BY <1>1, <1>3, <1>5, <1>6 DEF Parts
<1>8. ChannelStep(x, y, m, y) /\ ChannelStep(y, x, y, m)
  BY <1>3, <1>5, ZeroedChannel
<1> QED BY <1>2, <1>7, <1>8 DEF After, Joined

\* A frame of an earlier link does nothing to the numbers of an end that has not begun.
LEMMA OldFrame ==
    ASSUME NEW x \in Link, Good(x), Calm(x), x.state = "UNINITIALIZED",
           NEW f \in Frame, f.kind # "SYNC_RESPONSE", NEW m, Handled(x, f, m)
    PROVE  Quiet(Zeroed(x), Zeroed(m)) /\ m.state = "UNINITIALIZED"
<1>1. m.state = "UNINITIALIZED" /\ m \in Link
  BY DEF Handled, NextState, Good
<1>2. PICK a, b : a = Zeroed(x) /\ b = Zeroed(m)
  OBVIOUS
<1>3. a.packet = 0 /\ a.ack = 0 /\ b.ack = 0
  BY <1>1, <1>2, ZeroedType DEF Good, NoPacketYet
<1>4. Effect(a, f, b)
  BY <1>2 DEF Handled
<1>5. IncSeqNr(0) # 0
  BY ZeroSeq, IncType
<1>6. ~Confirms(a, f, b) /\ ~Takes(a, f, b)
  BY <1>3, <1>5 DEF Confirms, Takes
<1> QED BY <1>1, <1>2, <1>4, <1>6 DEF Effect, Quiet

LEMMA JoinedReceive ==
    ASSUME NEW x \in Link, Good(x), NEW y \in Link, NEW u, NEW v \in Seq(Frame),
           Joined(x, y, u, v), Calm(x), v # <<>>, NEW m, Handled(x, Head(v), m)
    PROVE  After(x, y, m, u, Tail(v))
<1>1. PICK xold, xnew, yold, ynew \in Seq(Frame) : Parts(x, y, u, v, xold, xnew, yold, ynew)
  BY DEF Joined
<1>2. PICK f : f = Head(v)
  OBVIOUS
<1>3. f \in Frame
  BY <1>2
<1>4. /\ m \in Link /\ m.state = NextState(x, f) /\ Asks(x, Answers(x, f), m)
      /\ Calm(m) /\ Effect(Zeroed(x), f, Zeroed(m))
  BY <1>2 DEF Handled, Good
<1>5. Zeroed(x) \in Link /\ Zeroed(y) \in Link /\ Zeroed(m) \in Link
  BY <1>4, ZeroedType
<1>6. CASE yold = <<>>
  <2>1. v = ynew
    BY <1>1, <1>6, Lines DEF Parts
  <2>2. /\ Direction(Zeroed(m), Zeroed(y), xnew, Tail(ynew))
        /\ Direction(Zeroed(y), Zeroed(m), Tail(ynew), xnew)
        /\ ChannelStep(Zeroed(x), Zeroed(y), Zeroed(m), Zeroed(y))
        /\ ChannelStep(Zeroed(y), Zeroed(x), Zeroed(y), Zeroed(m))
    BY <1>1, <1>2, <1>4, <1>5, <2>1, ReceiveStep DEF Parts
  <2>3. Shake(m, y, xnew, Tail(ynew)) /\ Shake(y, m, Tail(ynew), xnew)
    BY <1>1, <1>2, <1>4, <2>1, ReceiveShake DEF Parts
  <2>4. Tail(ynew) \in Seq(Frame) /\ Tail(v) = yold \o Tail(ynew)
    BY <1>6, <2>1, Lines
  <2>5. Parts(m, y, u, Tail(v), xold, xnew, yold, Tail(ynew))
    BY <1>1, <1>6, <2>2, <2>3, <2>4 DEF Parts
  <2>6. ChannelStep(x, y, m, y) /\ ChannelStep(y, x, y, m)
    BY <1>4, <2>2, ZeroedChannel
  <2>7. Joined(m, y, u, Tail(v))
    BY <2>4, <2>5 DEF Joined
  <2> QED BY <1>4, <2>6, <2>7 DEF After
<1>7. CASE yold # <<>>
  <2>1. /\ x.state = "UNINITIALIZED" /\ v = yold \o ynew
        /\ ~OnLine(yold, "SYNC_RESPONSE")
    BY <1>1, <1>7 DEF Parts
  <2>2. f = Head(yold) /\ Tail(v) = Tail(yold) \o ynew
    BY <1>2, <1>7, <2>1, Lines
  <2>3. f.kind # "SYNC_RESPONSE"
    <3>1. Head(yold) = yold[1] /\ 1 \in 1 .. Len(yold)
      BY <1>7
    <3> QED BY <2>1, <2>2, <3>1 DEF OnLine
  <2>4. Quiet(Zeroed(x), Zeroed(m)) /\ m.state = "UNINITIALIZED"
    BY <1>2, <1>3, <2>1, <2>3, OldFrame
  <2>5. /\ Direction(Zeroed(m), Zeroed(y), xnew, ynew) /\ Direction(Zeroed(y), Zeroed(m), ynew, xnew)
        /\ ChannelStep(Zeroed(x), Zeroed(y), Zeroed(m), Zeroed(y))
        /\ ChannelStep(Zeroed(y), Zeroed(x), Zeroed(y), Zeroed(m))
    BY <1>1, <1>5, <2>4, QuietStep DEF Parts
  <2>6. Shake(m, y, xnew, ynew) /\ Shake(y, m, ynew, xnew)
    BY <1>1, <1>4, <2>1, <2>3, OldShake DEF Parts
  <2>7. Tail(yold) \in Seq(Frame) /\ ~OnLine(Tail(yold), "SYNC_RESPONSE")
    BY <1>7, <2>1, PopLine
  <2>8. Parts(m, y, u, Tail(v), xold, xnew, Tail(yold), ynew)
    BY <1>1, <2>2, <2>4, <2>5, <2>6, <2>7 DEF Parts
  <2>9. ChannelStep(x, y, m, y) /\ ChannelStep(y, x, y, m)
    BY <1>4, <2>5, ZeroedChannel
  <2>10. Joined(m, y, u, Tail(v))
    BY <2>7, <2>8 DEF Joined
  <2> QED BY <1>4, <2>9, <2>10 DEF After
<1> QED BY <1>6, <1>7

LEMMA JoinedLose ==
    ASSUME NEW x \in Link, NEW y \in Link, NEW u \in Seq(Frame), NEW v,
           Joined(x, y, u, v), u # <<>>
    PROVE  Joined(x, y, Tail(u), v)
<1>1. PICK xold, xnew, yold, ynew \in Seq(Frame) : Parts(x, y, u, v, xold, xnew, yold, ynew)
  BY DEF Joined
<1>2. Zeroed(x) \in Link /\ Zeroed(y) \in Link
  BY ZeroedType
<1>3. CASE xold = <<>>
  <2>1. u = xnew
    BY <1>1, <1>3, Lines DEF Parts
  <2>2. Tail(xnew) \in Seq(Frame) /\ Tail(u) = xold \o Tail(xnew)
    BY <1>3, <2>1, Lines
  <2>3. /\ Direction(Zeroed(x), Zeroed(y), Tail(xnew), ynew)
        /\ Direction(Zeroed(y), Zeroed(x), ynew, Tail(xnew))
    BY <1>1, <1>2, <2>1, PopKeeps DEF Parts
  <2>4. Shake(x, y, Tail(xnew), ynew) /\ Shake(y, x, ynew, Tail(xnew))
    BY <1>1, <2>1, PopShake DEF Parts
  <2>5. Parts(x, y, Tail(u), v, xold, Tail(xnew), yold, ynew)
    BY <1>1, <2>2, <2>3, <2>4 DEF Parts
  <2> QED BY <2>2, <2>5 DEF Joined
<1>4. CASE xold # <<>>
  <2>1. Tail(xold) \in Seq(Frame) /\ Tail(u) = Tail(xold) \o xnew
    <3>1. u = xold \o xnew
      BY <1>1 DEF Parts
    <3> QED BY <1>4, <3>1, Lines
  <2>2. ~OnLine(Tail(xold), "SYNC_RESPONSE")
    BY <1>1, <1>4, PopLine DEF Parts
  <2>3. Parts(x, y, Tail(u), v, Tail(xold), xnew, yold, ynew)
    BY <1>1, <1>4, <2>1, <2>2 DEF Parts
  <2> QED BY <2>1, <2>3 DEF Joined
<1> QED BY <1>3, <1>4

LEMMA JoinedWritten ==
    ASSUME NEW x \in Link, Good(x), NEW y \in Link, NEW u, NEW v, Joined(x, y, u, v), Calm(x),
           x.tx # NoFrame, NEW m, m = LinkRun(FrameDone(x))
    PROVE  After(x, y, m, Append(u, x.tx), v) /\ Idle(m)
<1>1. PICK xold, xnew, yold, ynew \in Seq(Frame) : Parts(x, y, u, v, xold, xnew, yold, ynew)
  BY DEF Joined
<1>2. PICK w : w = Append(xnew, x.tx)
  OBVIOUS
<1>3. x.tx \in Frame /\ w \in Seq(Frame)
  BY <1>2 DEF Link
<1>4. Zeroed(y) \in Link
  BY ZeroedType
<1>5. /\ Direction(Zeroed(m), Zeroed(y), w, ynew) /\ Direction(Zeroed(y), Zeroed(m), ynew, w)
      /\ m \in Link /\ m.state = x.state /\ Calm(m) /\ Idle(m)
      /\ SameSender(x, m) /\ SameReceiver(x, m)
  BY <1>1, <1>2, <1>4, WrittenStep DEF Parts
<1>6. Shake(m, y, w, ynew) /\ Shake(y, m, ynew, w)
  BY <1>1, <1>2, WrittenShake DEF Parts
<1>7. Append(u, x.tx) = xold \o w
  <2>1. u = xold \o xnew
    BY <1>1 DEF Parts
  <2>2. Append(xold \o xnew, x.tx) = xold \o Append(xnew, x.tx)
    <3>1. PICK f \in Frame : f = x.tx
      BY <1>3
    <3>2. Append(xold \o xnew, f) = xold \o Append(xnew, f)
      BY AppendLine, Zenon
    <3> QED BY <3>1, <3>2, Zenon
  <2> QED BY <1>2, <2>1, <2>2
<1>8. Parts(m, y, Append(u, x.tx), v, xold, w, yold, ynew)
  BY <1>1, <1>5, <1>6, <1>7 DEF Parts
<1>9. ChannelStep(x, y, m, y) /\ ChannelStep(y, x, y, m)
  BY <1>5 DEF SameSender, SameReceiver, ChannelStep
<1>10. Joined(m, y, Append(u, x.tx), v)
  BY <1>3, <1>8 DEF Joined
<1> QED BY <1>5, <1>9, <1>10 DEF After

-----------------------------------------------------------------------------
(* The steps of a link of which the controller has restarted.                   *)
LEMMA GhostChannel ==
    ASSUME NEW x \in Link, NEW y \in Link, NEW g \in Link, NEW m \in Link,
           g.accepted = y.accepted, g.received = y.received,
           ChannelStep(x, g, m, g), ChannelStep(g, x, g, m)
    PROVE  ChannelStep(x, y, m, y) /\ ChannelStep(y, x, y, m)
<1>1. /\ g.accepted \in Nat /\ g.received \in Nat /\ g.handed \in Nat /\ x.accepted \in Nat
      /\ g.accepted # g.accepted + 1 /\ g.handed # g.handed + 1
  BY DEF Link
<1>2. ChannelStep(x, y, m, y)
  BY <1>1 DEF ChannelStep
<1>3. ChannelStep(y, x, y, m)
  BY <1>1 DEF ChannelStep
<1> QED BY <1>2, <1>3

\* After a step of the host, or of the controller.
AfterHost(x, y, m, u, v) ==
    /\ Parted(m, y, u, v) /\ Calm(m)
    /\ ChannelStep(x, y, m, y) /\ ChannelStep(y, x, y, m)
AfterCtrl(x, y, m, u, v) ==
    /\ Parted(x, m, u, v) /\ Calm(m)
    /\ ChannelStep(x, y, x, m) /\ ChannelStep(y, x, m, x)

\* The host asks for nothing of the first half of the handshake.
LEMMA HostSays ==
    ASSUME NEW x, NEW u, NEW A, NEW m, Asks(x, A, m), "SYNC" \notin A, "SYNC_RESPONSE" \notin A,
           ~Says(x, u, "SYNC"), ~Says(x, u, "SYNC_RESPONSE")
    PROVE  ~Says(m, u, "SYNC") /\ ~Says(m, u, "SYNC_RESPONSE")
<1>1. "SYNC" \in Hand /\ "SYNC_RESPONSE" \in Hand
  BY DEF Hand
<1> QED BY <1>1, AskedSays

LEMMA PartedHostStep ==
    ASSUME NEW x \in Link, NEW y \in Link, NEW u \in Seq(Frame), NEW v \in Seq(Frame),
           Parted(x, y, u, v), NEW m, StepOf(x, m)
    PROVE  AfterHost(x, y, m, u, v)
<1>1. PICK g \in Link : Ghost(x, y, u, v, g)
  BY DEF Parted
<1>2. m \in Link /\ m.state = "ACTIVE" /\ Quiet(x, m) /\ Asks(x, Own(x), m)
  BY <1>1 DEF StepOf, Good, Ghost
<1>3. "SYNC" \notin Own(x) /\ "SYNC_RESPONSE" \notin Own(x)
  BY <1>1 DEF Own, Ghost
<1>4. ~Says(m, u, "SYNC") /\ ~Says(m, u, "SYNC_RESPONSE")
  BY <1>1, <1>2, <1>3, HostSays DEF Ghost
<1>5. /\ Direction(m, g, u, v) /\ Direction(g, m, v, u)
      /\ ChannelStep(x, g, m, g) /\ ChannelStep(g, x, g, m)
  BY <1>1, <1>2, QuietStep DEF Ghost
<1>6. Ghost(m, y, u, v, g)
  BY <1>1, <1>2, <1>4, <1>5 DEF Ghost
<1>7. ChannelStep(x, y, m, y) /\ ChannelStep(y, x, y, m)
  BY <1>1, <1>2, <1>5, GhostChannel DEF Ghost
<1> QED BY <1>2, <1>6, <1>7 DEF AfterHost, Parted, Calm

LEMMA PartedHostReceive ==
    ASSUME NEW x \in Link, NEW y \in Link, NEW u \in Seq(Frame), NEW v \in Seq(Frame),
           Parted(x, y, u, v), Calm(x), v # <<>>, NEW m, Handled(x, Head(v), m)
    PROVE  AfterHost(x, y, m, u, Tail(v))
<1>1. PICK g \in Link : Ghost(x, y, u, v, g)
  BY DEF Parted
<1>2. PICK f : f = Head(v)
  OBVIOUS
<1>3. x.state = "ACTIVE"
  BY <1>1 DEF Ghost
<1>4. /\ m \in Link /\ m.state = "ACTIVE" /\ Asks(x, Answers(x, f), m)
      /\ Effect(Zeroed(x), f, Zeroed(m))
  BY <1>2, <1>3 DEF Handled, Good, NextState
<1>5. Effect(x, f, m)
  BY <1>3, <1>4 DEF Zeroed
<1>6. "SYNC" \notin Answers(x, f) /\ "SYNC_RESPONSE" \notin Answers(x, f)
  BY <1>3 DEF Answers
<1>7. ~Says(m, u, "SYNC") /\ ~Says(m, u, "SYNC_RESPONSE")
  BY <1>1, <1>4, <1>6, HostSays DEF Ghost
<1>8. /\ Direction(m, g, u, Tail(v)) /\ Direction(g, m, Tail(v), u)
      /\ ChannelStep(x, g, m, g) /\ ChannelStep(g, x, g, m)
  BY <1>1, <1>2, <1>4, <1>5, ReceiveStep DEF Ghost
<1>9. ~OnLine(Tail(v), "SYNC_RESPONSE")
  BY <1>1, PopLine DEF Ghost
<1>10. Ghost(m, y, u, Tail(v), g)
  BY <1>1, <1>4, <1>7, <1>8, <1>9 DEF Ghost
<1>11. ChannelStep(x, y, m, y) /\ ChannelStep(y, x, y, m)
  BY <1>1, <1>4, <1>8, GhostChannel DEF Ghost
<1> QED BY <1>4, <1>10, <1>11 DEF AfterHost, Parted, Calm

LEMMA PartedHostWritten ==
    ASSUME NEW x \in Link, Good(x), NEW y \in Link, NEW u \in Seq(Frame), NEW v \in Seq(Frame),
           Parted(x, y, u, v), Calm(x), x.tx # NoFrame, NEW m, m = LinkRun(FrameDone(x))
    PROVE  AfterHost(x, y, m, Append(u, x.tx), v) /\ Idle(m)
<1>1. PICK g \in Link : Ghost(x, y, u, v, g)
  BY DEF Parted
<1>2. PICK w : w = Append(u, x.tx)
  OBVIOUS
<1>3. x.state = "ACTIVE" /\ Zeroed(x) = x
  BY <1>1 DEF Ghost, Zeroed
<1>4. /\ Direction(Zeroed(m), g, w, v) /\ Direction(g, Zeroed(m), v, w)
      /\ m \in Link /\ m.state = x.state /\ Calm(m) /\ Idle(m)
      /\ SameSender(x, m) /\ SameReceiver(x, m)
  BY <1>1, <1>2, <1>3, WrittenStep DEF Ghost
<1>5. Direction(m, g, w, v) /\ Direction(g, m, v, w)
  BY <1>3, <1>4 DEF Zeroed
<1>6. PICK k : k = FrameDone(x)
  OBVIOUS
<1>7. k \in Link /\ k.tx = NoFrame /\ k.actions \subseteq x.actions
  BY <1>6, WrittenGood DEF FrameDone, Link
<1>8. \A c : Says(k, w, c) => Says(x, u, c)
  BY <1>2, <1>7, PushLine
<1>9. Asks(k, {}, m)
  BY <1>6, <1>7, LinkRunAsks
<1>10. ~Says(m, w, "SYNC") /\ ~Says(m, w, "SYNC_RESPONSE")
  BY <1>1, <1>8, <1>9, HostSays DEF Ghost
<1>11. Ghost(m, y, w, v, g)
  BY <1>1, <1>3, <1>4, <1>5, <1>10 DEF Ghost
<1>12. ChannelStep(x, y, m, y) /\ ChannelStep(y, x, y, m)
  BY <1>4 DEF SameSender, SameReceiver, ChannelStep
<1> QED BY <1>2, <1>4, <1>11, <1>12 DEF AfterHost, Parted

\* The controller keeps the counts of its upper layer.
LEMMA PartedCtrl ==
    ASSUME NEW x \in Link, NEW y \in Link, NEW u, NEW v, Parted(x, y, u, v),
           NEW m \in Link, m.state = "UNINITIALIZED", OnlySync(m),
           m.received = y.received, m.handed = y.handed,
           m.packet = y.packet, m.accepted = y.accepted, m.confirmed = y.confirmed
    PROVE  AfterCtrl(x, y, m, u, v)
<1>1. PICK g \in Link : Ghost(x, y, u, v, g)
  BY DEF Parted
<1>2. Ghost(x, m, u, v, g)
  BY <1>1 DEF Ghost
<1>3. Calm(m)
  BY DEF OnlySync, Calm, Hand
<1>4. ChannelStep(x, y, x, m) /\ ChannelStep(y, x, m, x)
  BY DEF ChannelStep
<1> QED BY <1>2, <1>3, <1>4 DEF AfterCtrl, Parted

\* An end that is not active takes no packet.
LEMMA NoneTaken ==
    ASSUME NEW l \in Link, NEW m, Good(l), Good(m), l.state # "ACTIVE", m.state # "ACTIVE",
           SenderIdle(l, m)
    PROVE  m.packet = l.packet /\ m.accepted = l.accepted /\ m.confirmed = l.confirmed
<1>1. l.packet = 0 /\ m.packet = 0 /\ l.accepted \in Nat /\ l.accepted + 1 # 0
  BY DEF Good, NoPacketYet, Link
<1> QED BY <1>1 DEF SenderIdle

LEMMA PartedCtrlStep ==
    ASSUME NEW x \in Link, NEW y \in Link, Good(y), NEW u, NEW v, Parted(x, y, u, v),
           NEW m, StepOf(y, m)
    PROVE  AfterCtrl(x, y, m, u, v)
<1>1. y.state = "UNINITIALIZED" /\ OnlySync(y)
  BY DEF Parted, Ghost
<1>2. m \in Link /\ m.state = "UNINITIALIZED" /\ Quiet(y, m) /\ Asks(y, {"SYNC"}, m) /\ m.packet = 0
  BY <1>1 DEF StepOf, Good, NoPacketYet, Own
<1>3. OnlySync(m)
  BY <1>1, <1>2, OnlySyncKept DEF Quiet
<1>4. m.packet = y.packet /\ m.accepted = y.accepted /\ m.confirmed = y.confirmed
  BY <1>1, <1>2, NoneTaken DEF StepOf, Quiet
<1> QED BY <1>2, <1>3, <1>4, PartedCtrl DEF Quiet, SameReceiver

\* The controller that has restarted passes over what the host sends.
LEMMA PartedCtrlReceive ==
    ASSUME NEW x \in Link, NEW y \in Link, Good(y), Calm(y), NEW u \in Seq(Frame),
           NEW v \in Seq(Frame), Parted(x, y, u, v), u # <<>>, NEW m, Handled(y, Head(u), m)
    PROVE  AfterCtrl(x, y, m, Tail(u), v)
<1>1. PICK g \in Link : Ghost(x, y, u, v, g)
  BY DEF Parted
<1>2. PICK f : f = Head(u)
  OBVIOUS
<1>3. f \in Frame /\ f = u[1] /\ 1 \in 1 .. Len(u)
  BY <1>2
<1>4. f.kind # "SYNC" /\ f.kind # "SYNC_RESPONSE"
  BY <1>1, <1>3 DEF Ghost, Says, OnLine
<1>5. y.state = "UNINITIALIZED" /\ OnlySync(y)
  BY <1>1 DEF Ghost
<1>6. Quiet(Zeroed(y), Zeroed(m)) /\ m.state = "UNINITIALIZED"
  BY <1>2, <1>3, <1>4, <1>5, OldFrame
<1>7. Answers(y, f) = {}
  BY <1>4, <1>5 DEF Answers
<1>8. m \in Link /\ m.packet = 0 /\ y.packet = 0 /\ Asks(y, {}, m)
  BY <1>2, <1>5, <1>6, <1>7 DEF Handled, Good, NoPacketYet
<1>9. PICK a, b : a = Zeroed(y) /\ b = Zeroed(m)
  OBVIOUS
<1>10. /\ a.tx = y.tx /\ b.tx = m.tx /\ a.packet = 0 /\ b.packet = 0
       /\ a.accepted = y.accepted /\ b.accepted = m.accepted
       /\ a.confirmed = y.confirmed /\ b.confirmed = m.confirmed
       /\ a.received = y.received /\ b.received = m.received
       /\ a.handed = y.handed /\ b.handed = m.handed
  BY <1>8, <1>9, ZeroedType
<1>11. a.actions = y.actions /\ b.actions = m.actions
  BY <1>8, <1>9 DEF Zeroed, Link
<1>12. OnlySync(a) /\ Asks(a, {}, b)
  BY <1>5, <1>8, <1>10, <1>11 DEF OnlySync, Asks
<1>13. OnlySync(b)
  BY <1>6, <1>9, <1>10, <1>12, OnlySyncKept DEF Quiet
<1>14. OnlySync(m)
  BY <1>10, <1>11, <1>13 DEF OnlySync
<1>15. m.received = y.received /\ m.handed = y.handed
  BY <1>6, <1>9, <1>10 DEF Quiet, SameReceiver
<1>16. m.accepted = y.accepted /\ m.confirmed = y.confirmed
  <2>1. y.accepted \in Nat
    BY DEF Link
  <2>2. a.accepted + 1 # 0
    BY <1>10, <2>1
  <2> QED BY <1>6, <1>9, <1>10, <2>2 DEF Quiet, SenderIdle
<1>17. Direction(x, g, Tail(u), v) /\ Direction(g, x, v, Tail(u))
  BY <1>1, PopKeeps DEF Ghost
<1>18. ~Says(x, Tail(u), "SYNC") /\ ~Says(x, Tail(u), "SYNC_RESPONSE")
  BY <1>1, PopLine DEF Ghost, Says
<1>19. Ghost(x, y, Tail(u), v, g)
  BY <1>1, <1>17, <1>18 DEF Ghost
<1>20. Parted(x, y, Tail(u), v)
  BY <1>19 DEF Parted
<1> QED BY <1>6, <1>8, <1>14, <1>15, <1>16, <1>20, PartedCtrl

LEMMA PartedCtrlWritten ==
    ASSUME NEW x \in Link, NEW y \in Link, Good(y), NEW u \in Seq(Frame), NEW v \in Seq(Frame),
           Parted(x, y, u, v), y.tx # NoFrame, NEW m, m = LinkRun(FrameDone(y))
    PROVE  AfterCtrl(x, y, m, u, Append(v, y.tx)) /\ Idle(m)
<1>1. PICK g \in Link : Ghost(x, y, u, v, g)
  BY DEF Parted
<1>2. PICK w : w = Append(v, y.tx)
  OBVIOUS
<1>3. y.tx \in Frame /\ y.state = "UNINITIALIZED" /\ OnlySync(y)
  BY <1>1 DEF Link, Ghost
<1>4. ~Numbered(y.tx) /\ y.tx.kind # "SYNC_RESPONSE"
  BY <1>3 DEF OnlySync, Hand
<1>5. Direction(x, g, u, w) /\ Direction(g, x, w, u)
  BY <1>1, <1>2, <1>3, <1>4, OtherFrame DEF Ghost
<1>6. ~OnLine(w, "SYNC_RESPONSE")
  <2>1. /\ Len(w) = Len(v) + 1 /\ w[Len(v) + 1] = y.tx /\ Len(v) \in Nat
        /\ \A i \in 1 .. Len(v) : w[i] = v[i]
        /\ \A i \in 1 .. Len(w) : i \in 1 .. Len(v) \/ i = Len(v) + 1
    BY <1>2, <1>3
  <2> QED BY <1>1, <1>4, <2>1 DEF Ghost, OnLine
<1>7. Ghost(x, y, u, w, g)
  BY <1>1, <1>5, <1>6 DEF Ghost
<1>8. Parted(x, y, u, w)
  BY <1>7 DEF Parted
<1>9. PICK k : k = FrameDone(y)
  OBVIOUS
<1>10. /\ k \in Link /\ Good(k) /\ k.state = y.state /\ k.tx = NoFrame
       /\ SameSender(y, k) /\ SameReceiver(y, k)
  BY <1>9, WrittenGood
<1>11. k.actions \subseteq y.actions
  BY <1>9 DEF FrameDone, Link
<1>12. OnlySync(k)
  BY <1>3, <1>10, <1>11 DEF OnlySync
<1>13. m \in Link /\ Same(k, m) /\ Asks(k, {}, m) /\ Idle(m)
  BY <1>9, <1>10, LinkRunGood, LinkRunAsks
<1>14. m.packet = 0
  BY <1>3, <1>10, <1>13 DEF Same, SameSender, Good, NoPacketYet
<1>15. OnlySync(m)
  BY <1>12, <1>13, <1>14, OnlySyncKept DEF Same
<1>16. /\ m.state = "UNINITIALIZED" /\ m.received = y.received /\ m.handed = y.handed
       /\ m.packet = y.packet /\ m.accepted = y.accepted /\ m.confirmed = y.confirmed
  BY <1>3, <1>10, <1>13 DEF Same, SameSender, SameReceiver
<1> QED BY <1>2, <1>8, <1>13, <1>15, <1>16, PartedCtrl

LEMMA PartedLose ==
    ASSUME NEW x \in Link, NEW y \in Link, NEW u \in Seq(Frame), NEW v \in Seq(Frame),
           Parted(x, y, u, v)
    PROVE  /\ u # <<>> => Parted(x, y, Tail(u), v)
           /\ v # <<>> => Parted(x, y, u, Tail(v))
<1>1. PICK g \in Link : Ghost(x, y, u, v, g)
  BY DEF Parted
<1>2. ASSUME u # <<>> PROVE Parted(x, y, Tail(u), v)
  <2>1. Direction(x, g, Tail(u), v) /\ Direction(g, x, v, Tail(u))
    BY <1>1, <1>2, PopKeeps DEF Ghost
  <2>2. ~Says(x, Tail(u), "SYNC") /\ ~Says(x, Tail(u), "SYNC_RESPONSE")
    BY <1>1, <1>2, PopLine DEF Ghost, Says
  <2>3. Ghost(x, y, Tail(u), v, g)
    BY <1>1, <2>1, <2>2 DEF Ghost
  <2> QED BY <2>3 DEF Parted
<1>3. ASSUME v # <<>> PROVE Parted(x, y, u, Tail(v))
  <2>1. Direction(x, g, u, Tail(v)) /\ Direction(g, x, Tail(v), u)
    BY <1>1, <1>3, PopKeeps DEF Ghost
  <2>2. ~OnLine(Tail(v), "SYNC_RESPONSE")
    BY <1>1, <1>3, PopLine DEF Ghost
  <2>3. Ghost(x, y, u, Tail(v), g)
    BY <1>1, <2>1, <2>2 DEF Ghost
  <2> QED BY <2>3 DEF Parted
<1> QED BY <1>2, <1>3

-----------------------------------------------------------------------------
(* The restarts.                                                                *)

\* The controller restarts: both ends were active, so nothing old is on the lines
\* and no frame of the first half of the handshake is under way.
LEMMA RebootParts ==
    ASSUME NEW x \in Link, NEW y \in Link, NEW u \in Seq(Frame), NEW v \in Seq(Frame),
           Joined(x, y, u, v), x.state = "ACTIVE", y.state = "ACTIVE",
           NEW o \in Link, o.packet = 0, o.tx = NoFrame, o.actions = {},
           o.accepted = y.accepted, o.confirmed = y.confirmed,
           o.received = y.received, o.handed = y.handed, NEW m, m = LinkInit(o)
    PROVE  /\ Parted(x, m, u, v) /\ Calm(m) /\ Idle(m)
           /\ ChannelStep(x, y, x, m) /\ ChannelStep(y, x, m, x)
<1>1. PICK xold, xnew, yold, ynew \in Seq(Frame) : Parts(x, y, u, v, xold, xnew, yold, ynew)
  BY DEF Joined
<1>2. xold = <<>> /\ yold = <<>>
  BY <1>1 DEF Parts
<1>3. u = xnew /\ v = ynew
  BY <1>1, <1>2, Lines DEF Parts
<1>4. Zeroed(x) = x /\ Zeroed(y) = y
  BY DEF Zeroed
<1>5. /\ Direction(x, y, u, v) /\ Direction(y, x, v, u)
      /\ Shake(x, y, u, v) /\ Shake(y, x, v, u)
  BY <1>1, <1>3, <1>4 DEF Parts
<1>6. PICK g : g = [y EXCEPT !.tx = NoFrame]
  OBVIOUS
<1>7. /\ Direction(x, g, u, v) /\ Direction(g, x, v, u)
      /\ g \in Link /\ g.tx = NoFrame /\ g.accepted = y.accepted /\ g.received = y.received
  BY <1>5, <1>6, LostFrame
<1>8. /\ Good(m) /\ m.state = "UNINITIALIZED" /\ OnlySync(m) /\ Calm(m) /\ Idle(m)
      /\ SameSender(o, m) /\ SameReceiver(o, m)
  BY LinkInitFresh
<1>9. /\ m.accepted = y.accepted /\ m.confirmed = y.confirmed /\ m.packet = 0
      /\ m.received = y.received /\ m.handed = y.handed
  BY <1>8 DEF SameSender, SameReceiver
<1>10. /\ ~Says(x, u, "SYNC") /\ ~Says(x, u, "SYNC_RESPONSE") /\ ~OnLine(v, "SYNC_RESPONSE")
  BY <1>5 DEF Shake, Says
<1>11. Ghost(x, m, u, v, g)
  BY <1>7, <1>8, <1>9, <1>10 DEF Ghost
<1>12. Parted(x, m, u, v)
  BY <1>7, <1>11 DEF Parted
<1>13. ChannelStep(x, y, x, m) /\ ChannelStep(y, x, m, x)
  BY <1>9 DEF ChannelStep
<1> QED BY <1>8, <1>12, <1>13

\* The host resets the link: all that is on the lines is old, and it holds no answer to
\* a SYNC.
LEMMA ResetJoins ==
    ASSUME NEW x \in Link, NEW y \in Link, Good(y), NEW u \in Seq(Frame), NEW v \in Seq(Frame),
           Parted(x, y, u, v), x.tx = NoFrame, ~x.crashed, Idle(x),
           NEW m, m = LinkInit(ClearQueue(x))
    PROVE  /\ Joined(m, y, u, v) /\ Calm(m) /\ Idle(m)
           /\ ChannelStep(x, y, m, y) /\ ChannelStep(y, x, y, m)
<1>1. PICK g \in Link : Ghost(x, y, u, v, g)
  BY DEF Parted
<1>2. PICK o : o = ClearQueue(x)
  OBVIOUS
<1>3. /\ o \in Link /\ o.packet = 0 /\ o.tx = NoFrame /\ o.actions = x.actions
      /\ o.accepted = x.accepted /\ o.confirmed = x.confirmed
      /\ o.received = x.received /\ o.handed = x.handed
  BY <1>2 DEF ClearQueue, Link
<1>4. o.actions \cap Hand = {}
  <2>1. Hand \subseteq Kind /\ "WAKEUP" \notin Hand
    BY Kinds DEF Hand
  <2>2. x.actions \cap Kind \subseteq {"WAKEUP"}
    BY DEF Idle
  <2> QED BY <1>3, <2>1, <2>2
<1>5. /\ Good(m) /\ m.state = "UNINITIALIZED" /\ OnlySync(m) /\ Calm(m) /\ Idle(m)
      /\ SameSender(o, m) /\ SameReceiver(o, m)
  BY <1>2, <1>3, <1>4, LinkInitFresh
<1>6. /\ m \in Link /\ m.accepted = x.accepted /\ m.confirmed = x.confirmed /\ m.packet = 0
      /\ m.received = x.received /\ m.handed = x.handed
  BY <1>3, <1>5 DEF SameSender, SameReceiver, Good
<1>7. y.state = "UNINITIALIZED" /\ OnlySync(y) /\ y.packet = 0
  BY <1>1 DEF Ghost, Good, NoPacketYet
<1>8. y.received <= m.accepted /\ m.received <= y.accepted
  BY <1>1, <1>6 DEF Ghost, Direction, Numbers
<1>9. /\ Shake(m, y, <<>>, <<>>) /\ Direction(Zeroed(m), Zeroed(y), <<>>, <<>>)
      /\ Shake(y, m, <<>>, <<>>) /\ Direction(Zeroed(y), Zeroed(m), <<>>, <<>>)
  BY <1>5, <1>6, <1>7, <1>8, StartOfLink
<1>10. <<>> \in Seq(Frame) /\ u = u \o <<>> /\ v = v \o <<>>
  BY Lines
<1>11. ~OnLine(u, "SYNC_RESPONSE") /\ ~OnLine(v, "SYNC_RESPONSE")
  BY <1>1 DEF Ghost, Says
<1>12. Parts(m, y, u, v, u, <<>>, v, <<>>)
  BY <1>5, <1>7, <1>9, <1>10, <1>11 DEF Parts
<1>13. Joined(m, y, u, v)
  BY <1>10, <1>12 DEF Joined
<1>14. ChannelStep(x, y, m, y) /\ ChannelStep(y, x, y, m)
  BY <1>6 DEF ChannelStep
<1> QED BY <1>5, <1>13, <1>14

-----------------------------------------------------------------------------
(* The steps of the whole system.                                               *)
LEMMA Ends ==
    /\ Host \in Side /\ Ctrl \in Side /\ Peer(Host) = Ctrl /\ Peer(Ctrl) = Host /\ Host # Ctrl
    /\ \A s \in Side : s = Host \/ s = Ctrl
BY DEF Side, Host, Ctrl, Peer

LEMMA RunFacts ==
    ASSUME RunInv, NEW s \in Side
    PROVE  /\ link[s] \in Link /\ Good(link[s]) /\ Calm(link[s]) /\ Idle(link[s])
           /\ wire[s] \in Seq(Frame) /\ Peer(s) \in Side /\ Peer(s) # s
           /\ Running => Joined(link[s], link[Peer(s)], wire[s], wire[Peer(s)])
<1>1. /\ link[s] \in Link /\ Good(link[s]) /\ Calm(link[s]) /\ Idle(link[s])
      /\ wire[s] \in Seq(Frame) /\ Peer(s) \in Side /\ Peer(s) # s
  BY PeerType DEF RunInv, IndInv
<1>2. Running => Joined(link[s], link[Peer(s)], wire[s], wire[Peer(s)])
  BY Ends, JoinedTurn DEF Running
<1> QED BY <1>1, <1>2

\* What a step of end s to m has to show.
LEMMA RunningStep ==
    ASSUME RunInv, Running, IndInv', resets' = resets, NEW s \in Side, NEW p, p = Peer(s),
           NEW m, link'[s] = m, link'[p] = link[p], Idle(m),
           After(link[s], link[p], m, wire'[s], wire'[p])
    PROVE  RunInv' /\ ChannelsStep
<1>1. (s = Host /\ p = Ctrl) \/ (s = Ctrl /\ p = Host)
  BY Ends
<1>2. Joined(link'[s], link'[p], wire'[s], wire'[p])
  BY DEF After
<1>3. Joined(link'[Host], link'[Ctrl], wire'[Host], wire'[Ctrl])
  BY <1>1, <1>2, JoinedTurn
<1>4. Running'
  BY <1>3 DEF Running
<1>5. \A t \in Side : Calm(link'[t]) /\ Idle(link'[t])
  BY <1>1, Ends DEF RunInv, After
<1>6. ChannelsStep
  BY <1>1, Ends DEF ChannelsStep, After
<1> QED BY <1>4, <1>5, <1>6 DEF RunInv

LEMMA HostStep ==
    ASSUME RunInv, Restarting, IndInv', resets' = resets,
           NEW m, link'[Host] = m, link'[Ctrl] = link[Ctrl], Idle(m),
           AfterHost(link[Host], link[Ctrl], m, wire'[Host], wire'[Ctrl])
    PROVE  RunInv' /\ ChannelsStep
<1>1. Restarting'
  BY DEF Restarting, AfterHost
<1>2. \A t \in Side : Calm(link'[t]) /\ Idle(link'[t])
  BY Ends DEF RunInv, AfterHost
<1>3. ChannelsStep
  BY Ends DEF ChannelsStep, AfterHost
<1> QED BY <1>1, <1>2, <1>3 DEF RunInv

LEMMA CtrlStep ==
    ASSUME RunInv, Restarting, IndInv', resets' = resets,
           NEW m, link'[Ctrl] = m, link'[Host] = link[Host], Idle(m),
           AfterCtrl(link[Host], link[Ctrl], m, wire'[Host], wire'[Ctrl])
    PROVE  RunInv' /\ ChannelsStep
<1>1. Restarting'
  BY DEF Restarting, AfterCtrl
<1>2. \A t \in Side : Calm(link'[t]) /\ Idle(link'[t])
  BY Ends DEF RunInv, AfterCtrl
<1>3. ChannelsStep
  BY Ends DEF ChannelsStep, AfterCtrl
<1> QED BY <1>1, <1>2, <1>3 DEF RunInv

\* A step other than the callback for a received frame.
LEMMA OwnRun ==
    ASSUME RunInv, IndInv', NEW s \in Side, NEW m, StepOf(link[s], m), Set(s, m),
           UNCHANGED <<wire, resets>>
    PROVE  RunInv' /\ ChannelsStep
<1>1. PICK p : p = Peer(s)
  OBVIOUS
<1>2. link'[s] = m /\ link'[p] = link[p] /\ wire' = wire /\ resets' = resets
  BY <1>1, RunFacts DEF Set, RunInv, IndInv
<1>3. Idle(m)
  BY RunFacts DEF StepOf
<1>4. CASE Running
  <2>1. After(link[s], link[p], m, wire'[s], wire'[p])
    BY <1>1, <1>2, <1>4, RunFacts, JoinedStep
  <2> QED BY <1>1, <1>2, <1>3, <1>4, <2>1, RunningStep
<1>5. CASE Restarting /\ s = Host
  <2>1. p = Ctrl
    BY <1>1, <1>5, Ends
  <2>2. Parted(link[Host], link[Ctrl], wire[Host], wire[Ctrl])
    BY <1>5 DEF Restarting
  <2>3. AfterHost(link[Host], link[Ctrl], m, wire'[Host], wire'[Ctrl])
    BY <1>2, <1>5, <2>2, Ends, RunFacts, PartedHostStep
  <2> QED BY <1>2, <1>3, <1>5, <2>1, <2>3, HostStep
<1>6. CASE Restarting /\ s = Ctrl
  <2>1. p = Host
    BY <1>1, <1>6, Ends
  <2>2. Parted(link[Host], link[Ctrl], wire[Host], wire[Ctrl])
    BY <1>6 DEF Restarting
  <2>3. AfterCtrl(link[Host], link[Ctrl], m, wire'[Host], wire'[Ctrl])
    BY <1>2, <1>6, <2>2, Ends, RunFacts, PartedCtrlStep
  <2> QED BY <1>2, <1>3, <1>6, <2>1, <2>3, CtrlStep
<1> QED BY <1>4, <1>5, <1>6, Ends DEF RunInv

LEMMA ReceiveRun ==
    ASSUME RunInv, IndInv', NEW s \in Side, Receive(s)
    PROVE  RunInv' /\ ChannelsStep
<1>1. PICK p : p = Peer(s)
  OBVIOUS
<1>2. wire[p] # <<>> /\ wire[p] \in Seq(Frame) /\ p \in Side /\ p # s
  BY <1>1, RunFacts DEF Receive
<1>3. PICK f : f = Head(wire[p])
  OBVIOUS
<1>4. f \in Frame
  BY <1>2, <1>3
<1>5. PICK sendsAt \in {"none", "packet_sent", "packet"} : Set(s, ProcessFrame(link[s], f, sendsAt))
  BY <1>1, <1>3 DEF Receive
<1>6. PICK m : m = ProcessFrame(link[s], f, sendsAt)
  OBVIOUS
<1>7. Handled(link[s], f, m) /\ Idle(m)
  BY <1>4, <1>6, RunFacts, FrameHandled
<1>8. link'[s] = m /\ link'[p] = link[p]
  BY <1>2, <1>5, <1>6 DEF Set, RunInv, IndInv
<1>9. wire'[p] = Tail(wire[p]) /\ wire'[s] = wire[s] /\ resets' = resets
  BY <1>1, <1>2 DEF Receive, RunInv, IndInv
<1>10. CASE Running
  <2>1. After(link[s], link[p], m, wire'[s], wire'[p])
    BY <1>1, <1>2, <1>3, <1>7, <1>9, <1>10, RunFacts, JoinedReceive
  <2> QED BY <1>1, <1>7, <1>8, <1>9, <1>10, <2>1, RunningStep
<1>11. CASE Restarting /\ s = Host
  <2>1. p = Ctrl
    BY <1>1, <1>11, Ends
  <2>2. Parted(link[Host], link[Ctrl], wire[Host], wire[Ctrl])
    BY <1>11 DEF Restarting
  <2>3. AfterHost(link[Host], link[Ctrl], m, wire'[Host], wire'[Ctrl])
    BY <1>2, <1>3, <1>7, <1>9, <1>11, <2>1, <2>2, Ends, RunFacts, PartedHostReceive
  <2> QED BY <1>7, <1>8, <1>9, <1>11, <2>1, <2>3, HostStep
<1>12. CASE Restarting /\ s = Ctrl
  <2>1. p = Host
    BY <1>1, <1>12, Ends
  <2>2. Parted(link[Host], link[Ctrl], wire[Host], wire[Ctrl])
    BY <1>12 DEF Restarting
  <2>3. AfterCtrl(link[Host], link[Ctrl], m, wire'[Host], wire'[Ctrl])
    BY <1>2, <1>3, <1>7, <1>9, <1>12, <2>1, <2>2, Ends, RunFacts, PartedCtrlReceive
  <2> QED BY <1>7, <1>8, <1>9, <1>12, <2>1, <2>3, CtrlStep
<1> QED BY <1>10, <1>11, <1>12, Ends DEF RunInv

LEMMA LoseRun ==
    ASSUME RunInv, IndInv', NEW s \in Side, Lose(s)
    PROVE  RunInv' /\ ChannelsStep
<1>1. PICK p : p = Peer(s)
  OBVIOUS
<1>2. wire[s] # <<>> /\ link' = link /\ resets' = resets
  BY DEF Lose
<1>3. wire'[s] = Tail(wire[s]) /\ wire'[p] = wire[p]
  BY <1>1, RunFacts DEF Lose, RunInv, IndInv
<1>4. ChannelsStep
  BY <1>2 DEF ChannelsStep, ChannelStep
<1>5. CASE Running
  <2>1. Joined(link[s], link[p], Tail(wire[s]), wire[p])
    BY <1>1, <1>2, <1>5, RunFacts, JoinedLose
  <2>2. Joined(link[Host], link[Ctrl], wire'[Host], wire'[Ctrl])
    <3>1. CASE s = Host
      BY <1>1, <1>3, <2>1, <3>1, Ends
    <3>2. CASE s = Ctrl
      BY <1>1, <1>3, <2>1, <3>2, Ends, JoinedTurn
    <3> QED BY <3>1, <3>2, Ends
  <2>3. Running'
    BY <1>2, <1>5, <2>2 DEF Running
  <2> QED BY <1>2, <1>4, <2>3 DEF RunInv
<1>6. CASE Restarting
  <2>1. Parted(link[Host], link[Ctrl], wire[Host], wire[Ctrl])
    BY <1>6 DEF Restarting
  <2>2. /\ wire[Host] # <<>> => Parted(link[Host], link[Ctrl], Tail(wire[Host]), wire[Ctrl])
        /\ wire[Ctrl] # <<>> => Parted(link[Host], link[Ctrl], wire[Host], Tail(wire[Ctrl]))
    BY <2>1, Ends, RunFacts, PartedLose
  <2>3. Parted(link[Host], link[Ctrl], wire'[Host], wire'[Ctrl])
    BY <1>1, <1>2, <1>3, <2>2, Ends
  <2>4. Restarting'
    BY <1>2, <1>6, <2>3 DEF Restarting
  <2> QED BY <1>2, <1>4, <2>4 DEF RunInv
<1> QED BY <1>5, <1>6 DEF RunInv

LEMMA WrittenRun ==
    ASSUME RunInv, IndInv', NEW s \in Side, BlockSent(s), ~link[s].tx.more
    PROVE  RunInv' /\ ChannelsStep
<1>1. PICK p : p = Peer(s)
  OBVIOUS
<1>2. PICK m : m = LinkRun(FrameDone(link[s]))
  OBVIOUS
<1>3. link[s].tx # NoFrame
  BY DEF BlockSent
<1>4. link'[s] = m /\ link'[p] = link[p]
  BY <1>1, <1>2, RunFacts DEF BlockSent, FrameDone, Set, RunInv, IndInv
<1>5. wire'[s] = Append(wire[s], link[s].tx) /\ wire'[p] = wire[p] /\ resets' = resets
  BY <1>1, RunFacts DEF BlockSent, RunInv, IndInv
<1>6. CASE Running
  <2>1. After(link[s], link[p], m, wire'[s], wire'[p]) /\ Idle(m)
    BY <1>1, <1>2, <1>3, <1>5, <1>6, RunFacts, JoinedWritten
  <2> QED BY <1>1, <1>4, <1>5, <1>6, <2>1, RunningStep
<1>7. CASE Restarting /\ s = Host
  <2>1. p = Ctrl
    BY <1>1, <1>7, Ends
  <2>2. Parted(link[Host], link[Ctrl], wire[Host], wire[Ctrl])
    BY <1>7 DEF Restarting
  <2>3. AfterHost(link[Host], link[Ctrl], m, wire'[Host], wire'[Ctrl]) /\ Idle(m)
    <3>1. PICK x, y : x = link[Host] /\ y = link[Ctrl]
      OBVIOUS
    <3>2. /\ x \in Link /\ y \in Link /\ Good(x) /\ Calm(x)
          /\ wire[Host] \in Seq(Frame) /\ wire[Ctrl] \in Seq(Frame)
      BY <3>1, Ends, RunFacts
    <3>3. x.tx # NoFrame /\ m = LinkRun(FrameDone(x)) /\ Parted(x, y, wire[Host], wire[Ctrl])
      BY <1>2, <1>3, <1>7, <2>2, <3>1
    <3>4. AfterHost(x, y, m, Append(wire[Host], x.tx), wire[Ctrl]) /\ Idle(m)
      BY <3>2, <3>3, PartedHostWritten
    <3> QED BY <1>5, <1>7, <2>1, <3>1, <3>4
  <2> QED BY <1>4, <1>5, <1>7, <2>1, <2>3, HostStep
<1>8. CASE Restarting /\ s = Ctrl
  <2>1. p = Host
    BY <1>1, <1>8, Ends
  <2>2. Parted(link[Host], link[Ctrl], wire[Host], wire[Ctrl])
    BY <1>8 DEF Restarting
  <2>3. AfterCtrl(link[Host], link[Ctrl], m, wire'[Host], wire'[Ctrl]) /\ Idle(m)
    <3>1. PICK x, y : x = link[Host] /\ y = link[Ctrl]
      OBVIOUS
    <3>2. /\ x \in Link /\ y \in Link /\ Good(y) /\ Calm(y)
          /\ wire[Host] \in Seq(Frame) /\ wire[Ctrl] \in Seq(Frame)
      BY <3>1, Ends, RunFacts
    <3>3. y.tx # NoFrame /\ m = LinkRun(FrameDone(y)) /\ Parted(x, y, wire[Host], wire[Ctrl])
      BY <1>2, <1>3, <1>8, <2>2, <3>1
    <3>4. AfterCtrl(x, y, m, wire[Host], Append(wire[Ctrl], y.tx)) /\ Idle(m)
      BY <3>2, <3>3, PartedCtrlWritten
    <3> QED BY <1>5, <1>8, <2>1, <3>1, <3>4
  <2> QED BY <1>4, <1>5, <1>8, <2>1, <2>3, CtrlStep
<1> QED BY <1>6, <1>7, <1>8, Ends DEF RunInv

LEMMA Parity == \A n \in Nat : /\ n % 2 = 0 => (n + 1) % 2 = 1
                               /\ n % 2 = 1 => (n + 1) % 2 = 0
OBVIOUS

LEMMA RebootRun == ASSUME RunInv, IndInv', Reboot PROVE RunInv' /\ ChannelsStep
<1>1. PICK l, o, m : /\ l = link[Ctrl] /\ m = LinkInit(o)
                     /\ o = PowerOn(Ctrl, l.accepted, l.confirmed, l.received, l.handed)
  OBVIOUS
<1>2. Running
  BY DEF Reboot, RunInv, Restarting
<1>3. link'[Ctrl] = m /\ link'[Host] = link[Host] /\ wire' = wire /\ resets' = resets + 1
  BY <1>1, Ends DEF Reboot, Set, RunInv, IndInv
<1>4. /\ l.accepted \in Nat /\ l.confirmed \in Nat /\ l.received \in Nat /\ l.handed \in Nat
  BY <1>1, Ends, RunFacts DEF Link
<1>5. o \in Link /\ o.packet = 0
  <2>1. PICK a \in Nat, c \in Nat, r \in Nat, h \in Nat :
          a = l.accepted /\ c = l.confirmed /\ r = l.received /\ h = l.handed
    BY <1>4
  <2>2. o = PowerOn(Ctrl, a, c, r, h)
    BY <1>1, <2>1
  <2>3. Ctrl \in Side
    BY Ends
  <2>4. PowerOn(Ctrl, a, c, r, h) \in Link /\ PowerOn(Ctrl, a, c, r, h).packet = 0
    BY <2>3, PowerOnType, Zenon
  <2> QED BY <2>2, <2>4, Zenon
<1>6. /\ o.tx = NoFrame /\ o.actions = {} /\ o.accepted = l.accepted /\ o.confirmed = l.confirmed
      /\ o.received = l.received /\ o.handed = l.handed
  BY <1>1 DEF PowerOn
<1>7. link[Host].state = "ACTIVE" /\ link[Ctrl].state = "ACTIVE"
  BY Ends DEF Reboot
<1>8. Joined(link[Host], link[Ctrl], wire[Host], wire[Ctrl])
  BY <1>2 DEF Running
<1>9. /\ Parted(link[Host], m, wire[Host], wire[Ctrl]) /\ Calm(m) /\ Idle(m)
      /\ ChannelStep(link[Host], link[Ctrl], link[Host], m)
      /\ ChannelStep(link[Ctrl], link[Host], m, link[Host])
  BY <1>1, <1>5, <1>6, <1>7, <1>8, Ends, RunFacts, RebootParts
<1>10. resets' % 2 = 1
  BY <1>2, <1>3, Parity DEF Running, RunInv, IndInv
<1>11. Restarting'
  BY <1>3, <1>9, <1>10 DEF Restarting
<1>12. \A t \in Side : Calm(link'[t]) /\ Idle(link'[t])
  BY <1>3, <1>9, Ends DEF RunInv
<1>13. ChannelsStep
  BY <1>3, <1>9, Ends DEF ChannelsStep
<1> QED BY <1>11, <1>12, <1>13 DEF RunInv

LEMMA ResetRun ==
    ASSUME OnTime \/ MaxResets = 0, RunInv, IndInv', ResetLink
    PROVE  RunInv' /\ ChannelsStep
<1>1. PICK m : m = LinkInit(ClearQueue(link[Host]))
  OBVIOUS
<1>2. Restarting
  BY DEF ResetLink, RunInv, Running
<1>3. link'[Host] = m /\ link'[Ctrl] = link[Ctrl] /\ wire' = wire /\ resets' = resets + 1
  BY <1>1, Ends DEF ResetLink, Set, RunInv, IndInv
<1>4. OnTime
  <2>1. resets % 2 = 1 /\ resets <= MaxResets /\ resets \in Nat
    BY <1>2 DEF Restarting, RunInv, IndInv
  <2> QED BY <2>1
<1>5. link[Host].tx = NoFrame /\ ~link[Host].crashed
  BY <1>4 DEF ResetLink, Up
<1>6. Parted(link[Host], link[Ctrl], wire[Host], wire[Ctrl])
  BY <1>2 DEF Restarting
<1>7. /\ Joined(m, link[Ctrl], wire[Host], wire[Ctrl]) /\ Calm(m) /\ Idle(m)
      /\ ChannelStep(link[Host], link[Ctrl], m, link[Ctrl])
      /\ ChannelStep(link[Ctrl], link[Host], link[Ctrl], m)
  BY <1>1, <1>5, <1>6, Ends, RunFacts, ResetJoins
<1>8. resets' % 2 = 0
  BY <1>2, <1>3, Parity DEF Restarting, RunInv, IndInv
<1>9. Running'
  BY <1>3, <1>7, <1>8 DEF Running
<1>10. \A t \in Side : Calm(link'[t]) /\ Idle(link'[t])
  BY <1>3, <1>7, Ends DEF RunInv
<1>11. ChannelsStep
  BY <1>3, <1>7, Ends DEF ChannelsStep
<1> QED BY <1>9, <1>10, <1>11 DEF RunInv

LEMMA NextRun ==
    ASSUME OnTime \/ MaxResets = 0, RunInv, [Next]_vars
    PROVE  RunInv' /\ ChannelsStep
<1>1. IndInv'
  BY NextInd DEF RunInv
<1>2. ASSUME NEW s \in Side, Send(s) PROVE RunInv' /\ ChannelsStep
  <2>1. StepOf(link[s], SendPacket(link[s]))
    BY <1>2, RunFacts, SendStep DEF Send, MaySend
  <2> QED BY <1>1, <1>2, <2>1, OwnRun DEF Send
<1>3. ASSUME NEW s \in Side, Receive(s) PROVE RunInv' /\ ChannelsStep
  BY <1>1, <1>3, ReceiveRun
<1>4. ASSUME NEW s \in Side, Lose(s) PROVE RunInv' /\ ChannelsStep
  BY <1>1, <1>4, LoseRun
<1>5. ASSUME NEW s \in Side, BlockSent(s) PROVE RunInv' /\ ChannelsStep
  <2>1. CASE link[s].tx.more
    <3>1. StepOf(link[s], [link[s] EXCEPT !.tx.more = FALSE])
      BY <1>5, RunFacts, MoreStep DEF BlockSent
    <3> QED BY <1>1, <1>5, <2>1, <3>1, OwnRun DEF BlockSent
  <2>2. CASE ~link[s].tx.more
    BY <1>1, <1>5, <2>2, WrittenRun
  <2> QED BY <2>1, <2>2
<1>6. ASSUME NEW s \in Side, Timeout(s) PROVE RunInv' /\ ChannelsStep
  <2>1. PICK m : m = TimeoutHandler([link[s] EXCEPT !.timer = FALSE])
    OBVIOUS
  <2>2. StepOf(link[s], m)
    BY <1>6, <2>1, RunFacts, TimeoutStep DEF Timeout
  <2> QED BY <1>1, <1>6, <2>1, <2>2, OwnRun DEF Timeout
<1>7. ASSUME NEW s \in Side, InactivityTimeout(s) PROVE RunInv' /\ ChannelsStep
  <2>1. PICK m : m = InactivityHandler([link[s] EXCEPT !.idle = FALSE])
    OBVIOUS
  <2>2. StepOf(link[s], m)
    BY <2>1, RunFacts, InactivityStep
  <2> QED BY <1>1, <1>7, <2>1, <2>2, OwnRun DEF InactivityTimeout
<1>8. CASE Reboot
  BY <1>1, <1>8, RebootRun
<1>9. CASE ResetLink
  BY <1>1, <1>9, ResetRun
<1>10. CASE UNCHANGED vars
  <2>1. link' = link /\ wire' = wire /\ resets' = resets
    BY <1>10 DEF vars
  <2>2. ChannelsStep
    BY <2>1 DEF ChannelsStep, ChannelStep
  <2>3. (Running \/ Restarting)'
    BY <2>1 DEF RunInv, Running, Restarting
  <2> QED BY <1>1, <2>1, <2>2, <2>3 DEF RunInv
<1> QED BY <1>2, <1>3, <1>4, <1>5, <1>6, <1>7, <1>8, <1>9, <1>10 DEF Next

\* An end at the start: it has counted nothing.
LEMMA InitialEnd ==
    ASSUME Init, NEW s \in Side
    PROVE  LET l == link[s]
           IN  /\ Good(l) /\ l.state = "UNINITIALIZED" /\ OnlySync(l) /\ Calm(l) /\ Idle(l)
               /\ l.packet = 0 /\ l.accepted = 0 /\ l.confirmed = 0
               /\ l.received = 0 /\ l.handed = 0
<1>1. PICK o, m : o = PowerOn(s, 0, 0, 0, 0) /\ m = LinkInit(o)
  OBVIOUS
<1>2. /\ o \in Link /\ o.packet = 0 /\ o.accepted = 0 /\ o.received = 0 /\ o.handed = 0
      /\ o.confirmed = 0 /\ o.tx = NoFrame /\ o.actions = {}
  BY <1>1, PowerOnType DEF PowerOn
<1>3. /\ Good(m) /\ m.state = "UNINITIALIZED" /\ OnlySync(m) /\ Calm(m) /\ Idle(m)
      /\ SameSender(o, m) /\ SameReceiver(o, m)
  BY <1>1, <1>2, LinkInitFresh
<1>4. link[s] = m
  BY <1>1 DEF Init
<1> QED BY <1>2, <1>3, <1>4 DEF SameSender, SameReceiver

LEMMA InitRun == Init => RunInv
<1> SUFFICES ASSUME Init PROVE RunInv
  OBVIOUS
<1>1. IndInv /\ resets = 0 /\ \A s \in Side : wire[s] = <<>>
  BY InitInd DEF Init
<1>2. \A s \in Side : Calm(link[s]) /\ Idle(link[s])
  BY InitialEnd
<1>3. PICK x, y : x = link[Host] /\ y = link[Ctrl]
  OBVIOUS
<1>4. /\ x \in Link /\ x.state = "UNINITIALIZED" /\ OnlySync(x)
      /\ x.packet = 0 /\ x.accepted = 0 /\ x.received = 0
      /\ y \in Link /\ y.state = "UNINITIALIZED" /\ OnlySync(y)
      /\ y.packet = 0 /\ y.accepted = 0 /\ y.received = 0
  BY <1>3, Ends, InitialEnd DEF Good
<1>5. /\ Shake(x, y, <<>>, <<>>) /\ Direction(Zeroed(x), Zeroed(y), <<>>, <<>>)
      /\ Shake(y, x, <<>>, <<>>) /\ Direction(Zeroed(y), Zeroed(x), <<>>, <<>>)
  BY <1>4, StartOfLink
<1>6. <<>> \in Seq(Frame) /\ <<>> = <<>> \o <<>> /\ ~OnLine(<<>>, "SYNC_RESPONSE")
  BY Lines DEF OnLine
<1>7. Parts(x, y, <<>>, <<>>, <<>>, <<>>, <<>>, <<>>)
  BY <1>5, <1>6 DEF Parts
<1>8. Joined(x, y, <<>>, <<>>)
  BY <1>6, <1>7 DEF Joined
<1>9. Running
  BY <1>1, <1>3, <1>8, Ends DEF Running
<1> QED BY <1>1, <1>2, <1>9 DEF RunInv

-----------------------------------------------------------------------------
\* If the line keeps up with the timer or no end restarts, what is under way keeps its
\* order in both directions, and what is left from an earlier link is passed over by the
\* end that reads it (hci_transport_h5_process_frame before the handshake is done).
THEOREM RunInvThm == ASSUME OnTime \/ MaxResets = 0 PROVE Spec => []RunInv
<1>1. RunInv /\ [Next]_vars => RunInv'
  BY NextRun
<1> QED BY <1>1, InitRun, PTL DEF Spec

\* The peer expects the next packet of an end or the one after it, for any size of the
\* sequence numbers, any number of lost and repeated frames and of restarts, if the line
\* keeps up with the timer; without restarts however slow the line is.
THEOREM InStepThm == ASSUME OnTime \/ MaxResets = 0 PROVE Spec => []InStep
<1>1. RunInv => InStep
  <2> SUFFICES ASSUME RunInv, resets % 2 = 0, \A s \in Side : link[s].state = "ACTIVE", NEW s \in Side
               PROVE  \/ link[Peer(s)].ack = link[s].seq
                      \/ /\ link[s].packet # 0 /\ link[s].packet = link[Peer(s)].received
                         /\ link[Peer(s)].ack = IncSeqNr(link[s].seq)
    BY DEF InStep
  <2>1. Running
    BY DEF RunInv, Restarting
  <2>2. PICK x, y : x = link[s] /\ y = link[Peer(s)]
    OBVIOUS
  <2>3. Joined(x, y, wire[s], wire[Peer(s)])
    BY <2>1, <2>2, RunFacts
  <2>4. Zeroed(x) = x /\ Zeroed(y) = y
    BY <2>2, PeerType DEF Zeroed
  <2>5. Numbers(x, y)
    BY <2>3, <2>4 DEF Joined, Parts, Direction
  <2> QED BY <2>2, <2>5 DEF Numbers
<1> QED BY <1>1, RunInvThm, PTL

\* The transport implements a reliable channel both ways, over any number of restarts if
\* the line keeps up: each packet of send_packet is handed over in order, once and
\* untorn, and confirmed only after that, though the line loses frames.
THEOREM ChannelThm == ASSUME OnTime \/ MaxResets = 0 PROVE Spec => ImplementsChannel
<1>1. Init => HostToCtrl!Init /\ CtrlToHost!Init
  <2> SUFFICES ASSUME Init PROVE HostToCtrl!Init /\ CtrlToHost!Init
    OBVIOUS
  <2>1. \A s \in Side : /\ link[s].accepted = 0 /\ link[s].packet = 0 /\ link[s].confirmed = 0
                        /\ link[s].received = 0 /\ link[s].handed = 0
    BY InitialEnd
  <2> QED BY <2>1 DEF HostToCtrl!Init, CtrlToHost!Init, Side
<1>2. RunInv /\ [Next]_vars => [HostToCtrl!Next]_(HostToCtrl!cvars) /\ [CtrlToHost!Next]_(CtrlToHost!cvars)
  <2> SUFFICES ASSUME RunInv, [Next]_vars
               PROVE  [HostToCtrl!Next]_(HostToCtrl!cvars) /\ [CtrlToHost!Next]_(CtrlToHost!cvars)
    OBVIOUS
  <2>1. ChannelsStep
    BY NextRun
  <2>2. /\ ChannelStep(link[Host], link[Ctrl], link'[Host], link'[Ctrl])
        /\ ChannelStep(link[Ctrl], link[Host], link'[Ctrl], link'[Host])
    BY <2>1 DEF ChannelsStep, Side, Peer, Host, Ctrl
  <2>3. [HostToCtrl!Next]_(HostToCtrl!cvars)
    BY <2>2 DEF ChannelStep, HostToCtrl!Next, HostToCtrl!Accept, HostToCtrl!Deliver,
                HostToCtrl!Confirm, HostToCtrl!GiveUp, HostToCtrl!cvars
  <2>4. [CtrlToHost!Next]_(CtrlToHost!cvars)
    BY <2>2 DEF ChannelStep, CtrlToHost!Next, CtrlToHost!Accept, CtrlToHost!Deliver,
                CtrlToHost!Confirm, CtrlToHost!GiveUp, CtrlToHost!cvars
  <2> QED BY <2>3, <2>4
<1> QED BY <1>1, <1>2, RunInvThm, PTL DEF Spec, ImplementsChannel, HostToCtrl!Spec, CtrlToHost!Spec
=============================================================================
