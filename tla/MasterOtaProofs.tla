--------------------------- MODULE MasterOtaProofs ---------------------------
(* Proofs about MasterOta, for every image size, every capacity of the FIFO   *)
(* and every number of answers under way.                                     *)
EXTENDS MasterOta, SequenceTheorems, TLAPS

Slave == [started : BOOLEAN, blocks : Seq(Nat), end : Seq(0 .. IndexMod - 1)]

(* TypeOK in three parts; that slave is a record of three fields is new.      *)
TypeNet ==
    /\ phase \in {"events", "update", "leds", "guard", "step"}
    /\ link \in {"conn", "off", "idle"}
    /\ txq \in Seq(Packet) /\ Len(txq) <= TxSize
    /\ owed \in Seq({"sdp", "ota"}) /\ slave \in Slave
TypeFlags ==
    /\ settled \in BOOLEAN /\ sdpPending \in BOOLEAN /\ paramReq \in BOOLEAN
    /\ mode \in 0 .. 2 /\ ledStep \in 0 .. BlinkSteps - 1 /\ indicating \in BOOLEAN
    /\ cmd \in BOOLEAN
TypeOta ==
    /\ start \in 0 .. 9 /\ pending \in 0 .. 2
    /\ size \in Sizes \cup {TooBig} \cup {0} /\ adr \in 0 .. TooBig
    /\ handle \in {"none", "sdp", "ota"} /\ oneLink \in BOOLEAN
    /\ result \in {"none", "ok", "fail"}

(* A command is taken up in the pass it came in, on the connection it came    *)
(* on; a transfer keeps it.                                                   *)
CommandTaken ==
    /\ start # 0 => cmd
    /\ (start = 0 /\ cmd) => phase # "events" /\ link # "idle"

(* Once the connection of the transfer is lost, proc_ota stops the transfer   *)
(* before it takes another step or the next connection is established.        *)
LostLinkStops ==
    /\ oneLink => link # "idle"
    /\ (start # 0 /\ ~oneLink) =>
         \/ link = "off" /\ phase # "step"
         \/ link = "idle" /\ phase \in {"update", "leds", "guard"}

(* ota_adr does not pass the end of the image. *)
AdrInImage ==
    /\ start # 0 => size \in Sizes
    /\ start \in 5 .. 9 => adr <= size
    /\ start \in 7 .. 9 => adr = size

Ctl == TypeNet /\ TypeFlags /\ TypeOta /\ CommandTaken /\ LostLinkStops /\ AdrInImage

(* A transfer has begun to send; the slave listens. *)
Moving == start \in 5 .. 9 /\ link # "idle" /\ handle = "ota"

(* BlocksInFlight without the types. *)
InFlight == Moving => \A p \in 0 .. Len(txq) : LastStart(p) => Behind(p)

(* The end command is the last packet, or it has arrived. *)
EndIndex == (adr + IndexMod - 1) % IndexMod
EndLast ==
    (start = 9 /\ Moving) =>
      IF txq = <<>> THEN slave.end = <<EndIndex>>
                    ELSE txq[Len(txq)] = [kind |-> "end", idx |-> EndIndex]

IndInv == Ctl /\ InFlight /\ EndLast

-----------------------------------------------------------------------------
LEMMA TypeParts == TypeNet /\ TypeFlags /\ TypeOta => TypeOK
  BY DEF TypeNet, TypeFlags, TypeOta, TypeOK, Slave

LEMMA IndexType == ASSUME Ctl PROVE EndIndex \in 0 .. IndexMod - 1
  <1>1. adr + IndexMod - 1 \in Int /\ IndexMod \in Nat \ {0}
    BY OtaAssumption DEF Ctl, TypeOta
  <1> QED
    BY <1>1 DEF EndIndex

(* What the slave makes of a packet. *)
LEMMA ReceiveStart ==
    ASSUME NEW pk, pk.kind = "start"
    PROVE  Receive(pk) = [started |-> TRUE, blocks |-> <<>>, end |-> <<>>]
  <1>1. Receive(pk) = [NoSlave EXCEPT !.started = TRUE]
    BY DEF Receive
  <1> QED
    BY <1>1 DEF NoSlave

LEMMA ReceiveData ==
    ASSUME slave \in Slave, NEW pk, pk.kind = "data"
    PROVE  Receive(pk) = [started |-> slave.started, blocks |-> Append(slave.blocks, pk.idx),
                          end |-> slave.end]
  <1>1. Receive(pk) = [slave EXCEPT !.blocks = Append(slave.blocks, pk.idx)]
    BY DEF Receive
  <1> QED
    BY <1>1 DEF Slave

LEMMA ReceiveEnd ==
    ASSUME slave \in Slave, NEW pk, pk.kind = "end"
    PROVE  Receive(pk) = [started |-> slave.started, blocks |-> slave.blocks, end |-> <<pk.idx>>]
  <1>1. Receive(pk) = [slave EXCEPT !.end = <<pk.idx>>]
    BY DEF Receive
  <1> QED
    BY <1>1 DEF Slave

LEMMA SlaveRecord ==
    ASSUME NEW st \in BOOLEAN, NEW b \in Seq(Nat), NEW e \in Seq(0 .. IndexMod - 1)
    PROVE  [started |-> st, blocks |-> b, end |-> e] \in Slave
  BY DEF Slave

LEMMA ReceiveType ==
    ASSUME slave \in Slave, NEW pk \in Packet, pk.kind # "read"
    PROVE  Receive(pk) \in Slave
  <1>1. pk.idx \in 0 .. IndexMod - 1 /\ pk.idx \in Nat
    BY OtaAssumption DEF Packet
  <1>2. /\ <<>> \in Seq(Nat) /\ <<>> \in Seq(0 .. IndexMod - 1)
        /\ <<pk.idx>> \in Seq(0 .. IndexMod - 1)
    BY <1>1
  <1>3. slave.started \in BOOLEAN /\ slave.blocks \in Seq(Nat)
        /\ slave.end \in Seq(0 .. IndexMod - 1)
    BY DEF Slave
  <1>4. Append(slave.blocks, pk.idx) \in Seq(Nat)
    BY <1>1, <1>3
  <1>5. CASE pk.kind = "start"
    BY <1>2, <1>5, ReceiveStart, SlaveRecord
  <1>6. CASE pk.kind = "data"
    BY <1>3, <1>4, <1>6, ReceiveData, SlaveRecord
  <1>7. CASE pk.kind = "end"
    BY <1>2, <1>3, <1>7, ReceiveEnd, SlaveRecord
  <1> QED
    BY <1>5, <1>6, <1>7 DEF Packet

(* Pushing one packet. *)
LEMMA PushType ==
    ASSUME Ctl, NEW pk \in Packet, CanPush, Push(pk)
    PROVE  /\ txq' \in Seq(Packet) /\ Len(txq') <= TxSize /\ settled' = FALSE
           /\ Len(txq') = Len(txq) + 1 /\ txq'[Len(txq) + 1] = pk /\ Len(txq) \in Nat
           /\ \A i \in 1 .. Len(txq) : txq'[i] = txq[i]
  <1>1. txq \in Seq(Packet) /\ TxSize \in Nat
    BY OtaAssumption DEF Ctl, TypeNet
  <1>2. txq' = Append(txq, pk) /\ settled' = FALSE /\ Len(txq) < TxSize
    BY DEF Push, CanPush
  <1> QED
    BY <1>1, <1>2

-----------------------------------------------------------------------------
(* The control of the transfer. *)
LEMMA RadioAckCtl == ASSUME Ctl, RadioAck PROVE Ctl'
  <1>1. TypeNet'
    <2> DEFINE pk == Head(txq)
    <2>1. txq \in Seq(Packet) /\ txq # <<>> /\ pk \in Packet /\ owed \in Seq({"sdp", "ota"})
      BY DEF RadioAck, Ctl, TypeNet
    <2>2. txq' \in Seq(Packet) /\ Len(txq') <= TxSize
      BY <2>1, OtaAssumption DEF RadioAck, Ctl, TypeNet
    <2>3. owed' \in Seq({"sdp", "ota"})
      BY <2>1 DEF RadioAck
    <2>4. slave' = slave \/ (slave' = Receive(pk) /\ pk.kind \in {"start", "data", "end"})
      BY <2>1 DEF RadioAck, Packet
    <2>5. pk.idx \in 0 .. IndexMod - 1 /\ pk.idx \in Nat /\ slave \in Slave
      BY <2>1, OtaAssumption DEF Packet, Ctl, TypeNet
    <2>9. slave' \in Slave
      BY <2>1, <2>4, <2>5, ReceiveType
    <2> QED
      BY <2>2, <2>3, <2>9 DEF RadioAck, Ctl, TypeNet
  <1>2. TypeFlags'
    BY OtaAssumption DEF RadioAck, leds, ota, Ctl, TypeFlags
  <1>3. TypeOta'
    BY OtaAssumption DEF RadioAck, leds, ota, Ctl, TypeOta
  <1>4. CommandTaken'
    BY OtaAssumption DEF RadioAck, leds, ota, Ctl, TypeOta, CommandTaken
  <1>5. LostLinkStops'
    BY OtaAssumption DEF RadioAck, leds, ota, Ctl, TypeNet, TypeOta, CommandTaken,
           LostLinkStops
  <1>6. AdrInImage'
    BY OtaAssumption DEF RadioAck, leds, ota, Ctl, TypeOta, AdrInImage
  <1> QED
    BY <1>1, <1>2, <1>3, <1>4, <1>5, <1>6 DEF Ctl

LEMMA RadioDropCtl == ASSUME Ctl, RadioDrop PROVE Ctl'
  BY OtaAssumption
  DEF RadioDrop, leds, ota,
      Ctl, TypeNet, TypeFlags, TypeOta, CommandTaken, LostLinkStops, AdrInImage

LEMMA PauseCtl == ASSUME Ctl, Pause PROVE Ctl'
  BY OtaAssumption
  DEF Pause, radio, leds, ota,
      Ctl, TypeNet, TypeFlags, TypeOta, CommandTaken, LostLinkStops, AdrInImage

LEMMA NoEventCtl == ASSUME Ctl, NoEvent PROVE Ctl'
  BY OtaAssumption
  DEF NoEvent, Event, radio, leds, ota,
      Ctl, TypeNet, TypeFlags, TypeOta, CommandTaken, LostLinkStops, AdrInImage

LEMMA EstablishCtl == ASSUME Ctl, Establish PROVE Ctl'
  <1>1. TypeNet'
    BY OtaAssumption DEF Establish, Event, NoSlave, Slave, leds, ota, Ctl, TypeNet
  <1>2. TypeFlags'
    BY OtaAssumption DEF Establish, Event, leds, ota, Ctl, TypeFlags
  <1>3. TypeOta'
    BY OtaAssumption DEF Establish, Event, leds, ota, Ctl, TypeOta
  <1>4. CommandTaken'
    BY OtaAssumption DEF Establish, Event, leds, ota, Ctl, TypeOta, CommandTaken
  <1>5. LostLinkStops'
    BY OtaAssumption DEF Establish, Event, leds, ota, Ctl, TypeNet, TypeOta,
           CommandTaken, LostLinkStops
  <1>6. AdrInImage'
    BY OtaAssumption DEF Establish, Event, leds, ota, Ctl, TypeOta, AdrInImage
  <1> QED
    BY <1>1, <1>2, <1>3, <1>4, <1>5, <1>6 DEF Ctl

LEMMA SdpEndCtl == ASSUME Ctl, SdpEnd PROVE Ctl'
  <1>1. TypeNet'
    <2>1. owed \in Seq({"sdp", "ota"}) /\ (owed' = owed \/ owed' = Append(owed, "sdp"))
      BY DEF SdpEnd, Ctl, TypeNet
    <2>2. owed' \in Seq({"sdp", "ota"})
      BY <2>1
    <2> QED
      BY <2>2 DEF SdpEnd, Event, Ctl, TypeNet
  <1>2. TypeFlags'
    BY OtaAssumption DEF SdpEnd, Event, leds, ota, Ctl, TypeFlags
  <1>3. TypeOta'
    BY OtaAssumption DEF SdpEnd, Event, leds, ota, Ctl, TypeOta
  <1>4. CommandTaken'
    BY OtaAssumption DEF SdpEnd, Event, leds, ota, Ctl, TypeOta, CommandTaken
  <1>5. LostLinkStops'
    BY OtaAssumption DEF SdpEnd, Event, leds, ota, Ctl, TypeNet, TypeOta,
           CommandTaken, LostLinkStops
  <1>6. AdrInImage'
    BY OtaAssumption DEF SdpEnd, Event, leds, ota, Ctl, TypeOta, AdrInImage
  <1> QED
    BY <1>1, <1>2, <1>3, <1>4, <1>5, <1>6 DEF Ctl

LEMMA DisconnectCtl == ASSUME Ctl, Disconnect PROVE Ctl'
  <1>1. TypeNet'
    BY OtaAssumption DEF Disconnect, Event, leds, Ctl, TypeNet
  <1>2. TypeFlags'
    BY OtaAssumption DEF Disconnect, Event, leds, Ctl, TypeFlags
  <1>3. TypeOta'
    BY OtaAssumption DEF Disconnect, Event, leds, Ctl, TypeOta
  <1>4. CommandTaken'
    BY OtaAssumption DEF Disconnect, Event, leds, Ctl, TypeOta, CommandTaken
  <1>5. LostLinkStops'
    BY OtaAssumption DEF Disconnect, Event, leds, Ctl, TypeNet, TypeOta,
           CommandTaken, LostLinkStops
  <1>6. AdrInImage'
    BY OtaAssumption DEF Disconnect, Event, leds, Ctl, TypeOta, AdrInImage
  <1> QED
    BY <1>1, <1>2, <1>3, <1>4, <1>5, <1>6 DEF Ctl

LEMMA ParamRequestCtl == ASSUME Ctl, ParamRequest PROVE Ctl'
  BY OtaAssumption
  DEF ParamRequest, Event, radio, leds, ota,
      Ctl, TypeNet, TypeFlags, TypeOta, CommandTaken, LostLinkStops, AdrInImage

LEMMA ParamTakenCtl == ASSUME Ctl, ParamTaken PROVE Ctl'
  <1>1. TypeNet'
    BY OtaAssumption DEF ParamTaken, Event, radio, leds, ota, Ctl, TypeNet
  <1>2. TypeFlags'
    BY OtaAssumption DEF ParamTaken, Event, radio, leds, ota, Ctl, TypeFlags
  <1>3. TypeOta'
    BY OtaAssumption DEF ParamTaken, Event, radio, leds, ota, Ctl, TypeOta
  <1>4. CommandTaken'
    BY OtaAssumption DEF ParamTaken, Event, radio, leds, ota, Ctl, TypeOta,
           CommandTaken
  <1>5. LostLinkStops'
    BY OtaAssumption DEF ParamTaken, Event, radio, leds, ota, Ctl, TypeNet, TypeOta,
           CommandTaken, LostLinkStops
  <1>6. AdrInImage'
    BY OtaAssumption DEF ParamTaken, Event, radio, leds, ota, Ctl, TypeOta, AdrInImage
  <1> QED
    BY <1>1, <1>2, <1>3, <1>4, <1>5, <1>6 DEF Ctl

LEMMA UpdateConnCompleteCtl == ASSUME Ctl, UpdateConnComplete PROVE Ctl'
  BY OtaAssumption
  DEF UpdateConnComplete, Event, radio, leds,
      Ctl, TypeNet, TypeFlags, TypeOta, CommandTaken, LostLinkStops, AdrInImage

LEMMA FindSlaveOtaHandleCtl == ASSUME Ctl, FindSlaveOtaHandle PROVE Ctl'
  <1>1. TypeNet'
    BY OtaAssumption DEF FindSlaveOtaHandle, Event, leds, Ctl, TypeNet
  <1>2. TypeFlags'
    BY OtaAssumption DEF FindSlaveOtaHandle, Event, leds, Ctl, TypeFlags
  <1>3. TypeOta'
    <2>1. Head(owed) \in {"none", "sdp", "ota"}
      BY DEF FindSlaveOtaHandle, Ctl, TypeNet
    <2> QED
      BY <2>1 DEF FindSlaveOtaHandle, Ctl, TypeOta
  <1>4. CommandTaken'
    BY OtaAssumption DEF FindSlaveOtaHandle, Event, leds, Ctl, TypeOta, CommandTaken
  <1>5. LostLinkStops'
    BY OtaAssumption DEF FindSlaveOtaHandle, Event, leds, Ctl, TypeNet, TypeOta,
           CommandTaken, LostLinkStops
  <1>6. AdrInImage'
    BY OtaAssumption DEF FindSlaveOtaHandle, Event, leds, Ctl, TypeOta, AdrInImage
  <1> QED
    BY <1>1, <1>2, <1>3, <1>4, <1>5, <1>6 DEF Ctl

LEMMA ButtonModeCtl == ASSUME Ctl, ButtonMode PROVE Ctl'
  BY OtaAssumption
  DEF ButtonMode, Event, radio, ota,
      Ctl, TypeNet, TypeFlags, TypeOta, CommandTaken, LostLinkStops, AdrInImage

LEMMA ButtonOtaCtl == ASSUME Ctl, ButtonOta PROVE Ctl'
  BY OtaAssumption
  DEF ButtonOta, Event, radio, leds,
      Ctl, TypeNet, TypeFlags, TypeOta, CommandTaken, LostLinkStops, AdrInImage

LEMMA OtaUpdateConnCtl == ASSUME Ctl, OtaUpdateConn PROVE Ctl'
  BY OtaAssumption
  DEF OtaUpdateConn, radio, leds,
      Ctl, TypeNet, TypeFlags, TypeOta, CommandTaken, LostLinkStops, AdrInImage

LEMMA OtaLedsCtl == ASSUME Ctl, NEW due \in BOOLEAN, OtaLeds(due) PROVE Ctl'
  <1>1. TypeNet'
    BY OtaAssumption DEF OtaLeds, radio, leds, ota, Ctl, TypeNet
  <1>2. TypeFlags'
    BY OtaAssumption DEF OtaLeds, radio, leds, ota, Ctl, TypeFlags
  <1>3. TypeOta'
    BY OtaAssumption DEF OtaLeds, radio, leds, ota, Ctl, TypeOta
  <1>4. CommandTaken'
    BY OtaAssumption DEF OtaLeds, radio, leds, ota, Ctl, TypeOta, CommandTaken
  <1>5. LostLinkStops'
    BY OtaAssumption DEF OtaLeds, radio, leds, ota, Ctl, TypeNet, TypeOta,
           CommandTaken, LostLinkStops
  <1>6. AdrInImage'
    BY OtaAssumption DEF OtaLeds, radio, leds, ota, Ctl, TypeOta, AdrInImage
  <1> QED
    BY <1>1, <1>2, <1>3, <1>4, <1>5, <1>6 DEF Ctl

LEMMA OtaGuardCtl == ASSUME Ctl, NEW timeout \in BOOLEAN, OtaGuard(timeout) PROVE Ctl'
  <1>1. TypeNet'
    BY OtaAssumption DEF OtaGuard, SetResult, radio, Ctl, TypeNet
  <1>2. TypeFlags'
    BY OtaAssumption DEF OtaGuard, SetResult, radio, Ctl, TypeFlags
  <1>3. TypeOta'
    BY OtaAssumption DEF OtaGuard, SetResult, radio, Ctl, TypeOta
  <1>4. CommandTaken'
    BY OtaAssumption DEF OtaGuard, SetResult, radio, Ctl, TypeOta, CommandTaken
  <1>5. LostLinkStops'
    BY OtaAssumption DEF OtaGuard, SetResult, radio, Ctl, TypeNet, TypeOta,
           CommandTaken, LostLinkStops
  <1>6. AdrInImage'
    BY OtaAssumption DEF OtaGuard, SetResult, radio, Ctl, TypeOta, AdrInImage
  <1> QED
    BY <1>1, <1>2, <1>3, <1>4, <1>5, <1>6 DEF Ctl

LEMMA OtaBeginCtl == ASSUME Ctl, phase = "step", phase' = "events",
    UNCHANGED <<link, owed, slave, sdpPending, paramReq, mode, ledStep>>, OtaBegin PROVE Ctl'
  <1>1. TypeNet'
    BY OtaAssumption DEF OtaBegin, SetResult, Ctl, TypeNet
  <1>2. TypeFlags'
    BY OtaAssumption DEF OtaBegin, SetResult, Ctl, TypeFlags
  <1>3. TypeOta'
    <2>1. CASE size' = TooBig
      BY <2>1, OtaAssumption DEF OtaBegin, SetResult, Ctl, TypeOta, CommandTaken, AdrInImage
    <2>2. CASE size' # TooBig
      <3>1. size' \in Sizes /\ start' = 1 /\ pending' = 1
        BY <2>2 DEF OtaBegin
      <3> QED
        BY <2>2, <3>1 DEF OtaBegin, Ctl, TypeOta, CommandTaken, AdrInImage
    <2> QED
      BY <2>1, <2>2
  <1>4. CommandTaken'
    <2>1. CASE size' = TooBig
      BY <2>1, OtaAssumption DEF OtaBegin, SetResult, Ctl, TypeOta, CommandTaken, AdrInImage
    <2>2. CASE size' # TooBig
      <3>1. size' \in Sizes /\ start' = 1 /\ pending' = 1
        BY <2>2 DEF OtaBegin
      <3> QED
        BY <2>2, <3>1 DEF OtaBegin, Ctl, TypeOta, CommandTaken, AdrInImage
    <2> QED
      BY <2>1, <2>2
  <1>5. LostLinkStops'
    BY OtaAssumption DEF OtaBegin, SetResult, Ctl, TypeNet, TypeOta, CommandTaken,
           LostLinkStops
  <1>6. AdrInImage'
    <2>1. CASE size' = TooBig
      BY <2>1, OtaAssumption DEF OtaBegin, SetResult, Ctl, TypeOta, CommandTaken, AdrInImage
    <2>2. CASE size' # TooBig
      <3>1. size' \in Sizes /\ start' = 1 /\ pending' = 1
        BY <2>2 DEF OtaBegin
      <3> QED
        BY <2>2, <3>1 DEF OtaBegin, Ctl, TypeOta, CommandTaken, AdrInImage
    <2> QED
      BY <2>1, <2>2
  <1> QED
    BY <1>1, <1>2, <1>3, <1>4, <1>5, <1>6 DEF Ctl

LEMMA OtaAskHandleCtl == ASSUME Ctl, phase = "step", phase' = "events",
    UNCHANGED <<link, owed, slave, sdpPending, paramReq, mode, ledStep>>, OtaAskHandle PROVE Ctl'
  <1>1. TypeNet'
    BY OtaAssumption DEF OtaAskHandle, CanPush, Push, Packet, Ctl, TypeNet
  <1>2. TypeFlags'
    BY OtaAssumption DEF OtaAskHandle, CanPush, Push, Ctl, TypeFlags
  <1>3. TypeOta'
    BY OtaAssumption DEF OtaAskHandle, CanPush, Ctl, TypeOta
  <1>4. CommandTaken'
    BY OtaAssumption DEF OtaAskHandle, CanPush, Ctl, TypeOta, CommandTaken
  <1>5. LostLinkStops'
    BY OtaAssumption DEF OtaAskHandle, CanPush, Ctl, TypeNet, TypeOta, CommandTaken,
           LostLinkStops
  <1>6. AdrInImage'
    BY OtaAssumption DEF OtaAskHandle, CanPush, Ctl, TypeOta, AdrInImage
  <1> QED
    BY <1>1, <1>2, <1>3, <1>4, <1>5, <1>6 DEF Ctl

LEMMA OtaSendStartCtl == ASSUME Ctl, phase = "step", phase' = "events",
    UNCHANGED <<link, owed, slave, sdpPending, paramReq, mode, ledStep>>, OtaSendStart PROVE Ctl'
  <1>1. TypeNet'
    <2>1. CASE txq' = txq
      BY <2>1 DEF OtaSendStart, Ctl, TypeNet
    <2>2. CASE txq' # txq
      <3>1. [kind |-> "start", idx |-> 0] \in Packet
        BY <2>2, OtaAssumption DEF OtaSendStart, Packet, Ctl, TypeOta, AdrInImage
      <3>2. CanPush /\ Push([kind |-> "start", idx |-> 0])
        BY <2>2 DEF OtaSendStart
      <3> QED
        BY <3>1, <3>2, PushType DEF OtaSendStart, Ctl, TypeNet
    <2> QED
      BY <2>1, <2>2
  <1>2. TypeFlags'
    BY OtaAssumption DEF OtaSendStart, CanPush, Push, Ctl, TypeFlags
  <1>3. TypeOta'
    BY OtaAssumption DEF OtaSendStart, CanPush, Ctl, TypeOta
  <1>4. CommandTaken'
    BY OtaAssumption DEF OtaSendStart, CanPush, Ctl, TypeOta, CommandTaken
  <1>5. LostLinkStops'
    BY OtaAssumption DEF OtaSendStart, CanPush, Ctl, TypeNet, TypeOta, CommandTaken,
           LostLinkStops
  <1>6. AdrInImage'
    BY OtaAssumption DEF OtaSendStart, CanPush, Ctl, TypeOta, AdrInImage
  <1> QED
    BY <1>1, <1>2, <1>3, <1>4, <1>5, <1>6 DEF Ctl

LEMMA OtaPauseCtl == ASSUME Ctl, phase = "step", phase' = "events",
    UNCHANGED <<link, owed, slave, sdpPending, paramReq, mode, ledStep>>, OtaPause PROVE Ctl'
  BY OtaAssumption
  DEF OtaPause,
      Ctl, TypeNet, TypeFlags, TypeOta, CommandTaken, LostLinkStops, AdrInImage

LEMMA OtaSendDataCtl == ASSUME Ctl, phase = "step", phase' = "events",
    UNCHANGED <<link, owed, slave, sdpPending, paramReq, mode, ledStep>>, OtaSendData PROVE Ctl'
  <1>1. TypeNet'
    <2>1. CASE txq' = txq
      BY <2>1 DEF OtaSendData, Ctl, TypeNet
    <2>2. CASE txq' # txq
      <3>1. [kind |-> "data", idx |-> adr] \in Packet
        BY <2>2, OtaAssumption DEF OtaSendData, Packet, Ctl, TypeOta, AdrInImage
      <3>2. CanPush /\ Push([kind |-> "data", idx |-> adr])
        BY <2>2 DEF OtaSendData
      <3> QED
        BY <3>1, <3>2, PushType DEF OtaSendData, Ctl, TypeNet
    <2> QED
      BY <2>1, <2>2
  <1>2. TypeFlags'
    BY OtaAssumption DEF OtaSendData, CanPush, Push, Ctl, TypeFlags
  <1>3. TypeOta'
    BY OtaAssumption DEF OtaSendData, CanPush, Ctl, TypeOta
  <1>4. CommandTaken'
    BY OtaAssumption DEF OtaSendData, CanPush, Ctl, TypeOta, CommandTaken
  <1>5. LostLinkStops'
    BY OtaAssumption DEF OtaSendData, CanPush, Ctl, TypeNet, TypeOta, CommandTaken,
           LostLinkStops
  <1>6. AdrInImage'
    BY OtaAssumption DEF OtaSendData, CanPush, Ctl, TypeOta, AdrInImage
  <1> QED
    BY <1>1, <1>2, <1>3, <1>4, <1>5, <1>6 DEF Ctl

LEMMA OtaLastPauseCtl == ASSUME Ctl, phase = "step", phase' = "events",
    UNCHANGED <<link, owed, slave, sdpPending, paramReq, mode, ledStep>>, OtaLastPause PROVE Ctl'
  BY OtaAssumption
  DEF OtaLastPause,
      Ctl, TypeNet, TypeFlags, TypeOta, CommandTaken, LostLinkStops, AdrInImage

LEMMA OtaSendEndCtl == ASSUME Ctl, phase = "step", phase' = "events",
    UNCHANGED <<link, owed, slave, sdpPending, paramReq, mode, ledStep>>, OtaSendEnd PROVE Ctl'
  <1>1. TypeNet'
    <2>1. [kind |-> "end", idx |-> EndIndex] \in Packet
      BY IndexType DEF Packet
    <2>2. CanPush /\ Push([kind |-> "end", idx |-> EndIndex])
      BY DEF OtaSendEnd, EndIndex
    <2> QED
      BY <2>1, <2>2, PushType DEF Ctl, TypeNet
  <1>2. TypeFlags'
    BY OtaAssumption DEF OtaSendEnd, CanPush, Push, Ctl, TypeFlags
  <1>3. TypeOta'
    BY OtaAssumption DEF OtaSendEnd, CanPush, Ctl, TypeOta
  <1>4. CommandTaken'
    BY OtaAssumption DEF OtaSendEnd, CanPush, Ctl, TypeOta, CommandTaken
  <1>5. LostLinkStops'
    BY OtaAssumption DEF OtaSendEnd, CanPush, Ctl, TypeNet, TypeOta, CommandTaken,
           LostLinkStops
  <1>6. AdrInImage'
    BY OtaAssumption DEF OtaSendEnd, CanPush, Ctl, TypeOta, AdrInImage
  <1> QED
    BY <1>1, <1>2, <1>3, <1>4, <1>5, <1>6 DEF Ctl

LEMMA OtaFinishCtl == ASSUME Ctl, phase = "step", phase' = "events",
    UNCHANGED <<link, owed, slave, sdpPending, paramReq, mode, ledStep>>, OtaFinish PROVE Ctl'
  <1>1. TypeNet'
    BY OtaAssumption DEF OtaFinish, SetResult, Ctl, TypeNet
  <1>2. TypeFlags'
    BY OtaAssumption DEF OtaFinish, SetResult, Ctl, TypeFlags
  <1>3. TypeOta'
    BY OtaAssumption DEF OtaFinish, SetResult, Ctl, TypeOta
  <1>4. CommandTaken'
    BY OtaAssumption DEF OtaFinish, SetResult, Ctl, TypeOta, CommandTaken
  <1>5. LostLinkStops'
    BY OtaAssumption DEF OtaFinish, SetResult, Ctl, TypeNet, TypeOta, CommandTaken,
           LostLinkStops
  <1>6. AdrInImage'
    BY OtaAssumption DEF OtaFinish, SetResult, Ctl, TypeOta, AdrInImage
  <1> QED
    BY <1>1, <1>2, <1>3, <1>4, <1>5, <1>6 DEF Ctl

LEMMA OtaWaitCtl == ASSUME Ctl, phase = "step", phase' = "events",
    UNCHANGED <<link, owed, slave, sdpPending, paramReq, mode, ledStep>>, OtaWait PROVE Ctl'
  BY OtaAssumption
  DEF OtaWait, CanPush, ota,
      Ctl, TypeNet, TypeFlags, TypeOta, CommandTaken, LostLinkStops, AdrInImage

-----------------------------------------------------------------------------
(* The blocks and the end command.  Outside a transfer there is nothing to    *)
(* show; steps that touch neither the FIFO, the slave nor ota_adr keep both.  *)
LEMMA NotMoving == ASSUME ~Moving' PROVE InFlight' /\ EndLast'
  BY DEF InFlight, EndLast

LEMMA Untouched ==
    ASSUME InFlight, EndLast, Moving' => Moving,
           UNCHANGED <<txq, slave, adr, start, handle>>
    PROVE  InFlight' /\ EndLast'
  <1>1. InFlight'
    BY DEF InFlight, LastStart, Behind
  <1>2. EndLast'
    BY DEF EndLast, EndIndex
  <1> QED
    BY <1>1, <1>2

(* proc_ota goes on to the next of its states without a packet. *)
LEMMA NextState ==
    ASSUME InFlight, Moving, start \in 5 .. 8, start' \in 5 .. 8,
           UNCHANGED <<txq, slave, adr, handle>>
    PROVE  InFlight' /\ EndLast'
  <1>1. start # 9 /\ start' # 9
    OBVIOUS
  <1>2. InFlight'
    BY <1>1 DEF InFlight, LastStart, Behind
  <1> QED
    BY <1>1, <1>2 DEF EndLast

(* The start command, pushed last, begins a new count. *)
LEMMA PushStart ==
    ASSUME Ctl, CanPush, Push([kind |-> "start", idx |-> 0]), adr' = 0, start' = 5
    PROVE  InFlight' /\ EndLast'
  <1> DEFINE n == Len(txq)
  <1>1. [kind |-> "start", idx |-> 0] \in Packet
    BY OtaAssumption DEF Packet
  <1>2. n \in Nat /\ Len(txq') = n + 1 /\ txq'[n + 1] = [kind |-> "start", idx |-> 0]
    BY <1>1, PushType
  <1> HIDE DEF n
  <1>3. ASSUME NEW p \in 0 .. n + 1, LastStart(p)'
        PROVE  Behind(p)'
    <2>1. p = n + 1
      BY <1>2, <1>3 DEF LastStart
    <2> QED
      BY <1>2, <2>1 DEF Behind
  <1>4. InFlight'
    BY <1>2, <1>3 DEF InFlight
  <1> QED
    BY <1>4 DEF EndLast

(* A packet of another kind behind it leaves the last start where it was. *)
LEMMA PushOther ==
    ASSUME Ctl, NEW pk \in Packet, pk.kind # "start", CanPush, Push(pk),
           NEW p \in 0 .. Len(txq'), LastStart(p)'
    PROVE  p \in 0 .. Len(txq) /\ LastStart(p)
  <1>1. Len(txq) \in Nat /\ Len(txq') = Len(txq) + 1 /\ txq'[Len(txq) + 1] = pk
    BY PushType
  <1>2. \A i \in 1 .. Len(txq) : txq'[i] = txq[i]
    BY PushType
  <1>3. p \in 0 .. Len(txq)
    BY <1>1 DEF LastStart
  <1> QED
    BY <1>1, <1>2, <1>3 DEF LastStart

LEMMA PushData ==
    ASSUME Ctl, InFlight, Moving, start = 6, start' = 6, CanPush,
           [kind |-> "data", idx |-> adr] \in Packet,
           Push([kind |-> "data", idx |-> adr]), adr' = adr + 1, slave' = slave
    PROVE  InFlight' /\ EndLast'
  <1> DEFINE n == Len(txq)
             pk == [kind |-> "data", idx |-> adr]
  <1>1. n \in Nat /\ Len(txq') = n + 1 /\ txq'[n + 1] = pk
    BY PushType
  <1>2. \A i \in 1 .. n : txq'[i] = txq[i]
    BY PushType
  <1>3. adr \in Nat
    BY OtaAssumption DEF Ctl, TypeOta
  <1>4. ASSUME NEW p \in 0 .. Len(txq'), LastStart(p)'
        PROVE  Behind(p)'
    <2>1. p \in 0 .. n /\ LastStart(p)
      BY <1>4, PushOther
    <2> HIDE DEF n
    <2>2. Behind(p)
      BY <2>1 DEF InFlight, n
    <2> DEFINE arrived == IF p = 0 THEN Len(slave.blocks) ELSE 0
    <2>3. arrived \in Nat
      BY DEF Ctl, TypeNet, Slave
    <2>4. /\ p = 0 => slave.started /\ slave.blocks = [i \in 1 .. arrived |-> i - 1]
          /\ arrived + (n - p) = adr
          /\ \A i \in p + 1 .. n : txq[i] = [kind |-> "data", idx |-> arrived + (i - p) - 1]
      BY <2>2 DEF Behind, n
    <2> HIDE DEF arrived
    <2>5. ASSUME NEW i \in p + 1 .. n + 1
          PROVE  txq'[i] = [kind |-> "data", idx |-> arrived + (i - p) - 1]
      <3>1. CASE i = n + 1
        BY <1>1, <1>3, <2>1, <2>3, <2>4, <3>1
      <3>2. CASE i # n + 1
        BY <1>1, <1>2, <2>1, <2>4, <3>2
      <3> QED
        BY <3>1, <3>2
    <2>6. arrived + (n + 1 - p) = adr'
      BY <1>1, <1>3, <2>1, <2>3, <2>4
    <2> QED
      <3>1. arrived = IF p = 0 THEN Len(slave'.blocks) ELSE 0
        BY DEF arrived
      <3>2. Len(txq') = n + 1 /\ ~(start' = 9)
        BY <1>1
      <3>3. CASE p = 0
        BY <2>4, <2>5, <2>6, <3>1, <3>2, <3>3 DEF Behind
      <3>4. CASE p # 0
        <4>1. arrived = 0
          BY <3>1, <3>4
        <4>2. 0 + (n + 1 - p) = adr'
          BY <2>6, <4>1
        <4>3. \A i \in p + 1 .. n + 1 : txq'[i] = [kind |-> "data", idx |-> 0 + (i - p) - 1]
          BY <2>5, <4>1
        <4>4. (IF start' = 9 /\ p < n + 1 THEN n + 1 - 1 ELSE n + 1) = n + 1
          BY <3>2
        <4> QED
          BY <1>1, <3>4, <4>2, <4>3, <4>4 DEF Behind
      <3> QED
        BY <3>3, <3>4
  <1>5. InFlight'
    BY <1>4 DEF InFlight
  <1> QED
    BY <1>5 DEF EndLast

LEMMA PushEnd ==
    ASSUME Ctl, InFlight, Moving, start = 8, start' = 9, CanPush,
           Push([kind |-> "end", idx |-> EndIndex]), adr' = adr, slave' = slave
    PROVE  InFlight' /\ EndLast'
  <1> DEFINE n == Len(txq)
             pk == [kind |-> "end", idx |-> EndIndex]
  <1>1. pk \in Packet /\ pk.kind # "start"
    BY IndexType DEF Packet
  <1>2. n \in Nat /\ Len(txq') = n + 1 /\ txq'[n + 1] = pk
    BY <1>1, PushType
  <1>3. \A i \in 1 .. n : txq'[i] = txq[i]
    BY <1>1, PushType
  <1>4. ASSUME NEW p \in 0 .. Len(txq'), LastStart(p)'
        PROVE  Behind(p)'
    <2>1. p \in 0 .. n /\ LastStart(p)
      BY <1>1, <1>4, PushOther
    <2>2. Behind(p)
      BY <2>1 DEF InFlight
    <2> HIDE DEF n, pk
    <2> QED
      <3>1. (start' = 9 /\ p < n + 1) /\ ~(start = 9) /\ n + 1 - 1 = n
        BY <1>2, <2>1
      <3>2. CASE p = 0
        BY <1>2, <1>3, <2>2, <3>1, <3>2 DEF Behind, n
      <3>3. CASE p # 0
        BY <1>2, <1>3, <2>1, <2>2, <3>1, <3>3 DEF Behind, n
      <3> QED
        BY <3>2, <3>3
  <1>5. InFlight'
    BY <1>4 DEF InFlight
  <1>6. txq' # <<>> /\ EndIndex' = EndIndex
    BY <1>2 DEF EndIndex
  <1> QED
    BY <1>2, <1>5, <1>6 DEF EndLast

(* An acknowledgement takes the first packet to the slave. *)
LEMMA AckType ==
    ASSUME Ctl, RadioAck
    PROVE  /\ Len(txq) \in Nat \ {0} /\ Len(txq') = Len(txq) - 1 /\ txq[1] \in Packet
           /\ \A i \in 1 .. Len(txq) - 1 : txq'[i] = txq[i + 1]
           /\ handle = "ota" /\ txq[1].kind # "read" => slave' = Receive(txq[1])
  <1>1. txq \in Seq(Packet) /\ txq # <<>>
    BY DEF Ctl, TypeNet, RadioAck
  <1>2. txq' = Tail(txq) /\ Head(txq) = txq[1]
    BY <1>1 DEF RadioAck
  <1>3. handle = "ota" /\ txq[1].kind # "read" => slave' = Receive(txq[1])
    BY <1>2 DEF RadioAck
  <1>4. /\ Len(txq) \in Nat \ {0} /\ Len(txq') = Len(txq) - 1 /\ txq[1] \in Packet
        /\ \A i \in 1 .. Len(txq) - 1 : txq'[i] = txq[i + 1]
    BY <1>1, <1>2
  <1> QED
    BY <1>3, <1>4

LEMMA AckInFlight ==
    ASSUME Ctl, InFlight, EndLast, Moving, RadioAck
    PROVE  InFlight'
  <1> DEFINE n == Len(txq)
             last == IF start = 9 THEN n - 1 ELSE n
  <1>1. n \in Nat \ {0} /\ Len(txq') = n - 1
    BY AckType
  <1>2. \A i \in 1 .. n - 1 : txq'[i] = txq[i + 1]
    BY AckType
  <1>3. start' = start /\ adr' = adr /\ adr \in Nat /\ slave \in Slave
    BY OtaAssumption DEF RadioAck, ota, Ctl, TypeOta, TypeNet
  <1>4. txq[1].kind # "read" => slave' = Receive(txq[1])
    BY AckType DEF Moving
  <1>5. ASSUME NEW p \in 0 .. n - 1, LastStart(p)'
        PROVE  Behind(p)'
    <2>1. \A i \in p + 2 .. n : txq[i].kind # "start"
      <3>1. ASSUME NEW i \in p + 2 .. n PROVE txq[i].kind # "start"
        <4>1. i - 1 \in p + 1 .. n - 1 /\ i - 1 \in 1 .. n - 1 /\ (i - 1) + 1 = i
          BY <1>1
        <4>2. txq'[i - 1].kind # "start"
          BY <1>1, <1>5, <4>1 DEF LastStart
        <4> QED
          BY <1>2, <4>1, <4>2
      <3> QED
        BY <3>1
    <2>2. CASE p > 0
      <3>1. LastStart(p + 1) /\ p + 1 \in 0 .. n
        BY <1>1, <1>2, <1>5, <2>1, <2>2 DEF LastStart
      <3>2. Behind(p + 1)
        BY <3>1 DEF InFlight
      <3> QED
        <4> DEFINE l == IF start = 9 /\ p + 1 < n THEN n - 1 ELSE n
        <4>1. l \in Nat /\ l <= n /\ p + 1 # 0 /\ p # 0
          BY <1>1, <2>2
        <4>2. /\ 0 + (l - (p + 1)) = adr
              /\ \A i \in (p + 1) + 1 .. l :
                    txq[i] = [kind |-> "data", idx |-> 0 + (i - (p + 1)) - 1]
          BY <3>2, <4>1 DEF Behind
        <4>3. (IF start' = 9 /\ p < n - 1 THEN n - 1 - 1 ELSE n - 1) = l - 1
          BY <1>1, <1>3
        <4> HIDE DEF l
        <4>4. 0 + (l - 1 - p) = adr'
          BY <1>3, <4>1, <4>2
        <4>5. ASSUME NEW i \in p + 1 .. l - 1
              PROVE  txq'[i] = [kind |-> "data", idx |-> 0 + (i - p) - 1]
          <5>1. i + 1 \in (p + 1) + 1 .. l /\ i \in 1 .. n - 1
            BY <1>1, <4>1
          <5>2. txq[i + 1] = [kind |-> "data", idx |-> 0 + ((i + 1) - (p + 1)) - 1]
            BY <4>2, <5>1
          <5> QED
            BY <1>2, <5>1, <5>2
        <4> QED
          BY <1>1, <4>1, <4>3, <4>4, <4>5 DEF Behind
    <2>3. CASE p = 0 /\ txq[1].kind = "start"
      <3>1. LastStart(1) /\ 1 \in 0 .. n
        BY <1>1, <2>1, <2>3 DEF LastStart
      <3>2. Behind(1)
        BY <3>1 DEF InFlight
      <3>3. slave'.started /\ slave'.blocks = <<>>
        BY <1>4, <2>3, ReceiveStart
      <3>4. Len(slave'.blocks) = 0 /\ slave'.blocks = [i \in 1 .. 0 |-> i - 1]
        BY <3>3
      <3> QED
        BY <1>1, <1>2, <1>3, <2>3, <3>2, <3>3, <3>4 DEF Behind
    <2>4. CASE p = 0 /\ txq[1].kind # "start"
      <3> DEFINE k == Len(slave.blocks)
      <3>1. LastStart(0) /\ 0 \in 0 .. n
        BY <1>1, <2>1, <2>4 DEF LastStart
      <3>2. Behind(0)
        BY <3>1 DEF InFlight
      <3>3. /\ slave.started /\ slave.blocks = [i \in 1 .. k |-> i - 1] /\ k \in Nat
            /\ k + last = adr
            /\ \A i \in 1 .. last : txq[i] = [kind |-> "data", idx |-> k + i - 1]
        BY <1>1, <1>3, <3>2 DEF Behind, Slave
      <3> HIDE DEF k
      <3>4. CASE last = 0
        <4>1. start = 9 /\ n = 1
          BY <1>1, <3>4
        <4>2. txq[1].kind = "end"
          BY <1>1, <4>1 DEF EndLast
        <4>3. slave'.started = slave.started /\ slave'.blocks = slave.blocks
          BY <1>3, <1>4, <4>2, ReceiveEnd
        <4> QED
          BY <1>1, <1>3, <2>4, <3>3, <3>4, <4>1, <4>3 DEF Behind, k
      <3>5. CASE last # 0
        <4>1. last \in Nat \ {0} /\ last \in {n - 1, n} /\ 1 \in 1 .. last
          BY <1>1, <3>5
        <4>2. txq[1] = [kind |-> "data", idx |-> k]
          BY <3>3, <4>1
        <4>3. slave'.started /\ slave'.blocks = Append(slave.blocks, k)
          BY <1>3, <1>4, <3>3, <4>2, ReceiveData
        <4>4. slave.blocks \in Seq(Nat)
          BY <1>3 DEF Slave
        <4>5. Len(slave'.blocks) = k + 1 /\ slave'.blocks = [i \in 1 .. k + 1 |-> i - 1]
          BY <3>3, <4>3, <4>4 DEF k
        <4>6. \A i \in 1 .. last - 1 : txq'[i] = [kind |-> "data", idx |-> (k + 1) + i - 1]
          BY <1>1, <1>2, <3>3, <4>1
        <4>7. (IF start' = 9 /\ 0 < n - 1 THEN n - 1 - 1 ELSE n - 1) = last - 1
          BY <1>1, <1>3, <3>5
        <4> HIDE DEF last
        <4>8. (k + 1) + (last - 1) = adr'
          BY <1>3, <3>3, <4>1
        <4> QED
          BY <1>1, <2>4, <4>3, <4>5, <4>6, <4>7, <4>8 DEF Behind
      <3> QED
        BY <3>4, <3>5
    <2> QED
      BY <2>2, <2>3, <2>4
  <1> QED
    BY <1>1, <1>5 DEF InFlight

LEMMA AckEndLast ==
    ASSUME Ctl, EndLast, Moving, RadioAck
    PROVE  EndLast'
  <1> DEFINE n == Len(txq)
  <1>1. n \in Nat \ {0} /\ Len(txq') = n - 1 /\ txq # <<>> /\ txq' \in Seq(Packet)
    BY AckType, RadioAckCtl DEF RadioAck, Ctl, TypeNet
  <1>2. n > 1 => txq'[n - 1] = txq[n]
    BY <1>1, AckType
  <1>3. start' = start /\ EndIndex' = EndIndex /\ slave \in Slave
    BY DEF RadioAck, ota, EndIndex, Ctl, TypeNet
  <1>4. CASE start = 9
    <2>1. txq[n] = [kind |-> "end", idx |-> EndIndex]
      BY <1>1, <1>4 DEF EndLast
    <2>2. CASE n = 1
      <3>1. slave' = Receive(txq[1])
        BY <2>1, <2>2, AckType DEF Moving
      <3>2. slave'.end = <<EndIndex>>
        BY <1>3, <2>1, <2>2, <3>1, ReceiveEnd
      <3> QED
        BY <1>1, <1>3, <2>2, <3>2 DEF EndLast
    <2>3. CASE n > 1
      BY <1>1, <1>2, <1>3, <2>1, <2>3 DEF EndLast
    <2> QED
      BY <1>1, <2>2, <2>3
  <1> QED
    BY <1>3, <1>4 DEF EndLast

-----------------------------------------------------------------------------
LEMMA InitInv == Init => IndInv
  <1> SUFFICES ASSUME Init PROVE IndInv
    OBVIOUS
  <1>1. TypeNet
    <2>1. <<>> \in Seq(Nat) /\ <<>> \in Seq(0 .. IndexMod - 1)
      OBVIOUS
    <2>2. NoSlave \in Slave
      BY <2>1, SlaveRecord DEF NoSlave
    <2> QED
      BY <2>2, OtaAssumption DEF Init, TypeNet
  <1>2. TypeFlags
    <2>1. 0 \in 0 .. BlinkSteps - 1
      BY OtaAssumption
    <2>2. 0 \in 0 .. 2
      OBVIOUS
    <2> QED
      BY <2>1, <2>2, Zenon DEF Init, TypeFlags
  <1>3. TypeOta
    <2>1. 0 \in 0 .. 9 /\ 0 \in 0 .. 2 /\ 0 \in 0 .. TooBig
      BY OtaAssumption
    <2> QED
      BY <2>1, Zenon DEF Init, TypeOta
  <1>4. CommandTaken /\ LostLinkStops /\ AdrInImage /\ ~Moving
    BY DEF Init, CommandTaken, LostLinkStops, AdrInImage, Moving
  <1> QED
    BY <1>1, <1>2, <1>3, <1>4 DEF IndInv, Ctl, InFlight, EndLast

LEMMA RadioInv == ASSUME IndInv, RadioAck \/ RadioDrop \/ Pause PROVE IndInv'
  <1>1. CASE RadioAck
    <2>1. Moving' => Moving
      BY <1>1 DEF RadioAck, ota, Moving
    <2>2. Moving => InFlight' /\ EndLast'
      BY <1>1, AckInFlight, AckEndLast DEF IndInv
    <2>3. InFlight' /\ EndLast'
      BY <2>1, <2>2, NotMoving
    <2> QED
      BY <1>1, <2>3, RadioAckCtl DEF IndInv
  <1>2. CASE RadioDrop
    <2>1. InFlight' /\ EndLast'
      BY <1>2, Untouched DEF IndInv, RadioDrop, ota, Moving
    <2> QED
      BY <1>2, <2>1, RadioDropCtl DEF IndInv
  <1>3. CASE Pause
    <2>1. InFlight' /\ EndLast'
      BY <1>3, Untouched DEF IndInv, Pause, radio, ota, Moving
    <2> QED
      BY <1>3, <2>1, PauseCtl DEF IndInv
  <1> QED
    BY <1>1, <1>2, <1>3

LEMMA CallbackInv == ASSUME IndInv, Callback PROVE IndInv'
  <1>1. CASE NoEvent
    <2>1. InFlight' /\ EndLast'
      BY <1>1, Untouched DEF IndInv, NoEvent, radio, ota, Moving
    <2> QED
      BY <1>1, <2>1, NoEventCtl DEF IndInv
  <1>2. CASE Establish
    <2>1. ~Moving'
      BY <1>2 DEF IndInv, Ctl, LostLinkStops, Establish, Event, ota, Moving
    <2> QED
      BY <1>2, <2>1, NotMoving, EstablishCtl DEF IndInv
  <1>3. CASE SdpEnd
    <2>1. InFlight' /\ EndLast'
      BY <1>3, Untouched DEF IndInv, SdpEnd, ota, Moving
    <2> QED
      BY <1>3, <2>1, SdpEndCtl DEF IndInv
  <1>4. CASE Disconnect
    <2>1. ~Moving'
      BY <1>4 DEF Disconnect, Moving
    <2> QED
      BY <1>4, <2>1, NotMoving, DisconnectCtl DEF IndInv
  <1>5. CASE ParamRequest
    <2>1. InFlight' /\ EndLast'
      BY <1>5, Untouched DEF IndInv, ParamRequest, radio, ota, Moving
    <2> QED
      BY <1>5, <2>1, ParamRequestCtl DEF IndInv
  <1>6. CASE ParamTaken
    <2>1. InFlight' /\ EndLast'
      BY <1>6, Untouched DEF IndInv, ParamTaken, radio, ota, Moving
    <2> QED
      BY <1>6, <2>1, ParamTakenCtl DEF IndInv
  <1>7. CASE UpdateConnComplete
    <2>1. CASE start = 1
      BY <1>7, <2>1, NotMoving, UpdateConnCompleteCtl DEF IndInv, UpdateConnComplete, Moving
    <2>2. CASE start # 1
      <3>1. InFlight' /\ EndLast'
        BY <1>7, <2>2, Untouched DEF IndInv, UpdateConnComplete, radio, Moving
      <3> QED
        BY <1>7, <3>1, UpdateConnCompleteCtl DEF IndInv
    <2> QED
      BY <2>1, <2>2
  <1>8. CASE FindSlaveOtaHandle
    <2>1. CASE start = 3
      BY <1>8, <2>1, NotMoving, FindSlaveOtaHandleCtl DEF IndInv, FindSlaveOtaHandle, Moving
    <2>2. CASE start # 3
      <3>1. InFlight' /\ EndLast'
        BY <1>8, <2>2, Untouched DEF IndInv, FindSlaveOtaHandle, Moving
      <3> QED
        BY <1>8, <3>1, FindSlaveOtaHandleCtl DEF IndInv
    <2> QED
      BY <2>1, <2>2
  <1>9. CASE ButtonMode
    <2>1. InFlight' /\ EndLast'
      BY <1>9, Untouched DEF IndInv, ButtonMode, radio, ota, Moving
    <2> QED
      BY <1>9, <2>1, ButtonModeCtl DEF IndInv
  <1>10. CASE ButtonOta
    <2>1. InFlight' /\ EndLast'
      BY <1>10, Untouched DEF IndInv, ButtonOta, radio, Moving
    <2> QED
      BY <1>10, <2>1, ButtonOtaCtl DEF IndInv
  <1> QED
    BY <1>1, <1>2, <1>3, <1>4, <1>5, <1>6, <1>7, <1>8, <1>9, <1>10 DEF Callback

LEMMA OtaStepInv == ASSUME IndInv, OtaStep PROVE IndInv'
  <1> DEFINE rest == UNCHANGED <<link, owed, slave, sdpPending, paramReq, mode, ledStep>>
  <1>0. phase = "step" /\ phase' = "events" /\ rest /\ Ctl /\ InFlight /\ EndLast
    BY DEF OtaStep, IndInv
  <1>1. CASE OtaBegin
    <2>1. start' \in {0, 1}
      BY <1>1 DEF OtaBegin, SetResult
    <2>2. ~Moving'
      BY <2>1 DEF Moving
    <2> QED
      BY <1>0, <1>1, <2>2, NotMoving, OtaBeginCtl DEF IndInv
  <1>2. CASE OtaAskHandle
    <2>1. ~Moving'
      BY <1>2 DEF OtaAskHandle, Moving
    <2> QED
      BY <1>0, <1>2, <2>1, NotMoving, OtaAskHandleCtl DEF IndInv
  <1>3. CASE OtaSendStart
    <2>1. CASE start' = 5
      <3>1. CanPush /\ Push([kind |-> "start", idx |-> 0]) /\ adr' = 0
        BY <1>3, <2>1 DEF OtaSendStart
      <3> QED
        BY <1>0, <1>3, <2>1, <3>1, PushStart, OtaSendStartCtl DEF IndInv
    <2>2. CASE start' # 5
      <3>1. ~Moving'
        BY <1>3, <2>2 DEF OtaSendStart, Moving
      <3> QED
        BY <1>0, <1>3, <3>1, NotMoving, OtaSendStartCtl DEF IndInv
    <2> QED
      BY <2>1, <2>2
  <1>4. CASE OtaPause
    <2>1. InFlight' /\ EndLast'
      <3>1. start \in 5 .. 8 /\ start' \in 5 .. 8 /\ UNCHANGED <<txq, slave, adr, handle>>
        BY <1>0, <1>4 DEF OtaPause
      <3>2. CASE Moving
        BY <1>0, <3>1, <3>2, NextState
      <3>3. CASE ~Moving
        BY <1>0, <3>1, <3>3, NotMoving DEF Moving
      <3> QED
        BY <3>2, <3>3
    <2> QED
      BY <1>0, <1>4, <2>1, OtaPauseCtl DEF IndInv
  <1>5. CASE OtaSendData
    <2>1. start = 6 /\ start' \in {6, 7} /\ UNCHANGED <<link, slave, handle>>
      BY <1>0, <1>5 DEF OtaSendData
    <2>2. CASE ~Moving
      <3>1. ~Moving'
        BY <2>1, <2>2 DEF Moving
      <3> QED
        BY <1>0, <1>5, <3>1, NotMoving, OtaSendDataCtl DEF IndInv
    <2>3. CASE Moving /\ start' = 7
      <3>1. start \in 5 .. 8 /\ start' \in 5 .. 8 /\ UNCHANGED <<txq, slave, adr, handle>>
        BY <1>5, <2>1, <2>3 DEF OtaSendData
      <3>2. InFlight' /\ EndLast'
        BY <1>0, <2>3, <3>1, NextState
      <3> QED
        BY <1>0, <1>5, <3>2, OtaSendDataCtl DEF IndInv
    <2>4. CASE Moving /\ start' = 6
      <3>1. CanPush /\ Push([kind |-> "data", idx |-> adr]) /\ adr' = adr + 1 /\ adr < size
        BY <1>5, <2>1, <2>4 DEF OtaSendData
      <3>2. [kind |-> "data", idx |-> adr] \in Packet
        BY <1>0, <2>1, <3>1, OtaAssumption DEF Ctl, TypeOta, AdrInImage, Packet
      <3>3. InFlight' /\ EndLast'
        BY <1>0, <2>1, <2>4, <3>1, <3>2, PushData
      <3> QED
        BY <1>0, <1>5, <3>3, OtaSendDataCtl DEF IndInv
    <2> QED
      BY <2>1, <2>2, <2>3, <2>4
  <1>6. CASE OtaLastPause
    <2>1. InFlight' /\ EndLast'
      <3>1. start \in 5 .. 8 /\ start' \in 5 .. 8 /\ UNCHANGED <<txq, slave, adr, handle>>
        BY <1>0, <1>6 DEF OtaLastPause
      <3>2. CASE Moving
        BY <1>0, <3>1, <3>2, NextState
      <3>3. CASE ~Moving
        BY <1>0, <3>1, <3>3, NotMoving DEF Moving
      <3> QED
        BY <3>2, <3>3
    <2> QED
      BY <1>0, <1>6, <2>1, OtaLastPauseCtl DEF IndInv
  <1>7. CASE OtaSendEnd
    <2>1. /\ start = 8 /\ start' = 9 /\ CanPush /\ Push([kind |-> "end", idx |-> EndIndex])
          /\ UNCHANGED <<link, slave, adr, handle>>
      BY <1>0, <1>7 DEF OtaSendEnd, EndIndex
    <2>2. InFlight' /\ EndLast'
      <3>1. CASE Moving
        BY <1>0, <2>1, <3>1, PushEnd
      <3>2. CASE ~Moving
        BY <2>1, <3>2, NotMoving DEF Moving
      <3> QED
        BY <3>1, <3>2
    <2> QED
      BY <1>0, <1>7, <2>2, OtaSendEndCtl DEF IndInv
  <1>8. CASE OtaFinish
    <2>1. ~Moving'
      BY <1>8 DEF OtaFinish, SetResult, Moving
    <2> QED
      BY <1>0, <1>8, <2>1, NotMoving, OtaFinishCtl DEF IndInv
  <1>9. CASE OtaWait
    <2>1. InFlight' /\ EndLast'
      BY <1>0, <1>9, Untouched DEF OtaWait, ota, Moving
    <2> QED
      BY <1>0, <1>9, <2>1, OtaWaitCtl DEF IndInv
  <1> QED
    BY <1>1, <1>2, <1>3, <1>4, <1>5, <1>6, <1>7, <1>8, <1>9 DEF OtaStep, OtaAdvance

LEMMA ProcOtaInv == ASSUME IndInv, ProcOta PROVE IndInv'
  <1>1. CASE OtaUpdateConn
    <2>1. InFlight' /\ EndLast'
      BY <1>1, Untouched DEF IndInv, OtaUpdateConn, radio, Moving
    <2> QED
      BY <1>1, <2>1, OtaUpdateConnCtl DEF IndInv
  <1>2. ASSUME NEW due \in BOOLEAN, OtaLeds(due) PROVE IndInv'
    <2>1. InFlight' /\ EndLast'
      BY <1>2, Untouched DEF IndInv, OtaLeds, radio, ota, Moving
    <2> QED
      BY <1>2, <2>1, OtaLedsCtl DEF IndInv
  <1>3. ASSUME NEW timeout \in BOOLEAN, OtaGuard(timeout) PROVE IndInv'
    <2>1. UNCHANGED <<txq, slave, adr, handle, link>> /\ start' \in {0, start}
      BY <1>3 DEF OtaGuard, SetResult, radio
    <2>2. CASE start' = start
      BY <1>3, <2>1, <2>2, Untouched, OtaGuardCtl DEF IndInv, Moving
    <2>3. CASE start' = 0
      BY <1>3, <2>3, NotMoving, OtaGuardCtl DEF IndInv, Moving
    <2> QED
      BY <2>1, <2>2, <2>3
  <1> QED
    BY <1>1, <1>2, <1>3, OtaStepInv DEF ProcOta, OtaTimeout

LEMMA StutterInv == ASSUME IndInv, UNCHANGED vars PROVE IndInv'
  <1>1. TypeNet' /\ TypeFlags' /\ TypeOta'
    BY DEF IndInv, Ctl, TypeNet, TypeFlags, TypeOta, vars, radio, leds, ota
  <1>2. CommandTaken' /\ LostLinkStops' /\ AdrInImage'
    BY DEF IndInv, Ctl, CommandTaken, LostLinkStops, AdrInImage, vars, radio, ota
  <1>3. InFlight' /\ EndLast'
    BY Untouched DEF IndInv, Moving, vars, radio, ota
  <1> QED
    BY <1>1, <1>2, <1>3 DEF IndInv, Ctl

(* The inductive invariant holds in every reachable state. *)
THEOREM SpecInv == Spec => []IndInv
  <1>1. IndInv /\ [Next]_vars => IndInv'
    BY RadioInv, CallbackInv, ProcOtaInv, StutterInv DEF Next
  <1> QED
    BY <1>1, InitInv, PTL DEF Spec

(* The blocks the slave has and the packets behind the last start command are *)
(* the blocks 0 .. ota_adr-1 and the end command, for every image and FIFO:   *)
(* proc_ota advances ota_adr exactly when blm_push_fifo took the block, and a *)
(* start command that an aborted transfer left in the FIFO is passed over.    *)
THEOREM BlocksInFlightThm == Spec => []BlocksInFlight
  <1>1. IndInv => BlocksInFlight
    BY TypeParts DEF IndInv, Ctl, InFlight, Moving, BlocksInFlight
  <1> QED
    BY <1>1, SpecInv, PTL

(* Every step of a transfer is taken on the connection it began on: the guard *)
(* of proc_ota sees the loss in the pass in which the host is told of it.     *)
THEOREM OneConnectionThm == Spec => []OneConnection
  <1>1. IndInv => OneConnection
    BY DEF IndInv, Ctl, LostLinkStops, OneConnection
  <1> QED
    BY <1>1, SpecInv, PTL

(* When proc_ota reports a success the slave has the whole image, in order.   *)
(* The index in the end command is that of the last block because ota_adr is  *)
(* within the 16 bits of an index.                                            *)
THEOREM SuccessMeansDeliveredThm == Spec => SuccessMeansDelivered
  <1> DEFINE Ends == start = 9 /\ result' = "ok" /\ start' = 0 /\ handle = "ota"
             Delivered == /\ slave.started
                          /\ slave.blocks = [i \in 1 .. size |-> i - 1]
                          /\ size > 0 => slave.end = <<size - 1>>
  <1>1. ASSUME IndInv, Next, Ends PROVE Delivered
    <2>1. phase = "step" /\ OtaFinish
      BY <1>1 DEF Next, RadioAck, RadioDrop, Pause, Callback, NoEvent, Establish, SdpEnd,
        Disconnect, ParamRequest, ParamTaken, UpdateConnComplete, FindSlaveOtaHandle,
        ButtonMode, ButtonOta, ProcOta, OtaUpdateConn, OtaTimeout, OtaGuard, SetResult,
        OtaLeds, OtaStep, OtaAdvance, OtaWait, OtaBegin, OtaAskHandle, OtaSendStart,
        OtaPause, OtaSendData, OtaLastPause, OtaSendEnd, ota
    <2>2. txq = <<>> /\ Len(txq) = 0
      BY <2>1 DEF OtaFinish
    <2>3. Moving
      BY <1>1, <2>1 DEF Moving, IndInv, Ctl, LostLinkStops
    <2>4. adr = size /\ size \in Nat /\ size <= IndexMod /\ IndexMod \in Nat \ {0}
      <3>1. adr = size /\ size \in Sizes
        BY <1>1 DEF IndInv, Ctl, AdrInImage
      <3> QED
        BY <3>1, OtaAssumption
    <2>5. LastStart(0) /\ 0 \in 0 .. Len(txq)
      BY <2>2 DEF LastStart
    <2>6. Behind(0)
      BY <1>1, <2>3, <2>5 DEF IndInv, InFlight
    <2>7. /\ slave.started /\ Len(slave.blocks) + (0 - 0) = adr
          /\ slave.blocks = [i \in 1 .. Len(slave.blocks) |-> i - 1]
      BY <2>2, <2>6 DEF Behind
    <2>8. slave.blocks = [i \in 1 .. size |-> i - 1]
      <3>1. Len(slave.blocks) \in Nat
        BY <1>1 DEF IndInv, Ctl, TypeNet, Slave
      <3> QED
        BY <2>4, <2>7, <3>1
    <2>9. slave.end = <<EndIndex>>
      BY <1>1, <2>2, <2>3 DEF IndInv, EndLast
    <2>10. size > 0 => EndIndex = size - 1
      <3>1. ASSUME NEW m \in Nat \ {0}, NEW a \in 1 .. m PROVE (a + m - 1) % m = a - 1
        OBVIOUS
      <3> QED
        BY <2>4, <3>1 DEF EndIndex
    <2> QED
      BY <2>7, <2>8, <2>9, <2>10
  <1>2. UNCHANGED vars => ~Ends
    BY DEF vars, ota
  <1>3. IndInv /\ [Next]_vars => [Ends => Delivered]_vars
    BY <1>1, <1>2
  <1> QED
    BY <1>3, SpecInv, PTL DEF Spec, SuccessMeansDelivered
=============================================================================
