------------------------------- MODULE H5Link --------------------------------
(* The three-wire UART transport of hci_transport_h5.cpp: two ends that run    *)
(* this code over a serial line which may lose frames (a damaged frame fails   *)
(* the header checksum or the length test and is dropped).  Everything runs on *)
(* one run loop per end: a step is one callback (frame received, block         *)
(* written, timer) or one call of the upper layer, with all it calls; the      *)
(* upper layer may send its next packet from inside the callback.  The         *)
(* controller is not part of the repository and is taken to run the same code. *)
(*                                                                            *)
(* The state of an end is a record, and each C function maps such a record to  *)
(* the next.  A reliable packet takes two blocks of the UART driver, other     *)
(* frames one.  The payload is not copied: the encoder reads the buffer of the *)
(* upper layer, which reuses it once the packet is confirmed.                  *)
EXTENDS Naturals, Sequences, FiniteSetsExt

CONSTANTS
    SeqSize,        \* sequence numbers count modulo SeqSize (8)
    AutoSleep,      \* ends with link_inactivity_timeout_ms # 0
    OnTime,         \* a frame is written within the period of the timer
    MaxPackets,     \* bound: packets of each end
    MaxWire,        \* bound: frames on the line in one direction
    MaxLosses,      \* bound: frames lost on the line
    MaxResets       \* bound: restarts of the controller

Host == 1
Ctrl == 2
Side == {Host, Ctrl}
Peer(s) == 3 - s

ASSUME H5Assumption ==
    /\ SeqSize \in Nat /\ SeqSize >= 2
    /\ AutoSleep \subseteq Side /\ OnTime \in BOOLEAN
    /\ MaxPackets \in [Side -> Nat] /\ MaxWire \in Nat \ {0} /\ MaxLosses \in Nat /\ MaxResets \in Nat

\* The order in which hci_transport_link_run looks at the pending actions.
Order == <<"SYNC", "SYNC_RESPONSE", "CONFIG", "CONFIG_RESPONSE", "WOKEN", "WAKEUP",
           "QUEUED_PACKET", "ACK_PACKET", "SLEEP">>
Action == {Order[k] : k \in 1 .. 9} \cup {"ENTER_SLEEP"}

LinkState == {"UNINITIALIZED", "INITIALIZED", "ACTIVE"}
SeqNr == 0 .. SeqSize - 1
IncSeqNr(n) == (n + 1) % SeqSize

Torn == 0       \* the payload of a frame whose buffer was reused half way
Kind == {Order[k] : k \in 1 .. 9}
Frame == [kind : Kind, seq : SeqNr, ack : SeqNr, payload : Nat, more : BOOLEAN]
NoFrame == [kind |-> "NONE"]

Control(kind) == [kind |-> kind, seq |-> 0, ack |-> 0, payload |-> 0, more |-> FALSE]

VARIABLES
    link,       \* the state of each end
    wire,       \* wire[s]: frames written by s that its peer has not read
    losses,     \* frames lost so far
    resets      \* restarts of the controller and of the link so far

vars == <<link, wire, losses, resets>>

\* The upper layer's view: accepted and confirmed number the packets it sent,
\* packet_handler got handed packets of the peer, received being the last one.
Link == [state : LinkState, actions : SUBSET Action, timer : BOOLEAN, idle : BOOLEAN, auto : BOOLEAN,
         seq : SeqNr, ack : SeqNr, asleep : BOOLEAN, packet : Nat,
         tx : Frame \cup {NoFrame}, crashed : BOOLEAN,
         accepted : Nat, confirmed : Nat, received : Nat, handed : Nat]

-----------------------------------------------------------------------------
Request(l, a) == [l EXCEPT !.actions = @ \cup {a}]
SetTimer(l) == [l EXCEPT !.timer = TRUE]
HaveOutgoingPacket(l) == l.packet # 0
ClearQueueTimer(l) == [l EXCEPT !.packet = 0]
ClearQueue(l) == [l EXCEPT !.timer = FALSE, !.packet = 0]

\* Starts the inactivity timer anew, if the end uses it.
InactivityTimerSet(l) == [l EXCEPT !.idle = l.auto]

SendFrame(l, f) == [l EXCEPT !.tx = f]

\* hci_packet is read without a test: no packet, a null pointer.
SendQueuedPacket(l) ==
    IF HaveOutgoingPacket(l)
      THEN InactivityTimerSet(SendFrame(l, [kind |-> "QUEUED_PACKET", seq |-> l.seq,
                              ack |-> l.ack, payload |-> l.packet, more |-> TRUE]))
      ELSE [l EXCEPT !.crashed = TRUE]

SendAckPacket(l) == SendFrame(l, [Control("ACK_PACKET") EXCEPT !.ack = l.ack])

SendSleep(l) ==
    SendFrame([l EXCEPT !.actions = @ \cup {"ENTER_SLEEP"}, !.asleep = TRUE], Control("SLEEP"))

\* hci_transport_link_run: the first pending action, unless a write is going on.
LinkRun(l) ==
    LET pending == {k \in 1 .. 9 : Order[k] \in l.actions}
        a == Order[Min(pending)]
        m == [l EXCEPT !.actions = @ \ {a}]
    IN  IF l.tx # NoFrame \/ pending = {} THEN l
        ELSE CASE a = "QUEUED_PACKET" -> SendQueuedPacket([m EXCEPT !.actions = @ \ {"ACK_PACKET"}])
               [] a = "ACK_PACKET" -> SendAckPacket(m)
               [] a = "SLEEP" -> SendSleep(m)
               [] OTHER -> SendFrame(m, Control(a))

LinkInit(l) ==
    LinkRun(SetTimer(Request([l EXCEPT !.state = "UNINITIALIZED", !.asleep = FALSE], "SYNC")))

\* An end after power-on, before hci_transport_h5_open.
PowerOn(s, accepted, confirmed, received, handed) ==
    [state |-> "UNINITIALIZED", actions |-> {}, timer |-> FALSE, idle |-> FALSE, auto |-> s \in AutoSleep,
     seq |-> 0, ack |-> 0, asleep |-> FALSE, packet |-> 0, tx |-> NoFrame, crashed |-> FALSE,
     accepted |-> accepted, confirmed |-> confirmed, received |-> received, handed |-> handed]

Init ==
    /\ link = [s \in Side |-> LinkInit(PowerOn(s, 0, 0, 0, 0))]
    /\ wire = [s \in Side |-> <<>>]
    /\ losses = 0 /\ resets = 0

-----------------------------------------------------------------------------
\* The upper layer.
CanSendPacketNow(l) == ~HaveOutgoingPacket(l) /\ l.state = "ACTIVE"

\* A frame still being encoded from the same buffer is torn by the new packet.
QueuePacket(l) ==
    [l EXCEPT !.packet = l.accepted + 1, !.accepted = @ + 1,
              !.tx = IF @ # NoFrame /\ @.more THEN [@ EXCEPT !.payload = Torn] ELSE @]

SendPacket(l) ==
    LET q == QueuePacket(l)
    IN  LinkRun(SetTimer(Request(q, IF q.asleep THEN "WAKEUP" ELSE "QUEUED_PACKET")))

MaySend(s) == CanSendPacketNow(link[s]) /\ link[s].accepted < MaxPackets[s]

\* What the upper layer does in a callback: nothing, or send the next packet.
Upcall(l, event, sendsAt) ==
    IF event = sendsAt /\ CanSendPacketNow(l) THEN SendPacket(l) ELSE l

-----------------------------------------------------------------------------
\* hci_transport_h5_process_frame, by link state.
ProcessUninitialized(l, f) ==
    CASE f.kind = "SYNC" -> Request(l, "SYNC_RESPONSE")
      [] f.kind = "SYNC_RESPONSE" ->
           SetTimer(Request([l EXCEPT !.state = "INITIALIZED"], "CONFIG"))
      [] OTHER -> l

ProcessInitializedKept(l, f, sendsAt) ==
    CASE f.kind = "SYNC" -> Request(l, "SYNC_RESPONSE")
      [] f.kind = "CONFIG" -> Request(l, "CONFIG_RESPONSE")
      [] f.kind = "CONFIG_RESPONSE" ->
           Upcall([l EXCEPT !.state = "ACTIVE", !.timer = FALSE], "packet_sent", sendsAt)
      [] OTHER -> l

ProcessInitialized(l, f, sendsAt) ==
    CASE f.kind = "SYNC" -> Request(l, "SYNC_RESPONSE")
      [] f.kind = "CONFIG" -> Request(l, "CONFIG_RESPONSE")
      [] f.kind = "CONFIG_RESPONSE" ->
           Upcall([l EXCEPT !.state = "ACTIVE", !.timer = FALSE, !.seq = 0, !.ack = 0],
                  "packet_sent", sendsAt)
      [] OTHER -> l

Reliable(f) == f.kind = "QUEUED_PACKET"

ProcessAck(l, f, sendsAt) ==
    IF /\ Reliable(f) \/ f.kind = "ACK_PACKET"
       /\ HaveOutgoingPacket(l) /\ IncSeqNr(l.seq) = f.ack
      THEN Upcall([ClearQueue(l) EXCEPT !.seq = f.ack, !.confirmed = l.packet],
                  "packet_sent", sendsAt)
      ELSE l

ProcessPayload(l, f, sendsAt) ==
    CASE f.kind = "CONFIG" -> Request(l, "CONFIG_RESPONSE")
      [] f.kind = "SLEEP" -> [l EXCEPT !.asleep = TRUE]
      [] f.kind = "WAKEUP" -> Request([l EXCEPT !.asleep = FALSE], "WOKEN")
      [] f.kind = "WOKEN" -> [l EXCEPT !.asleep = FALSE]
      [] f.kind = "QUEUED_PACKET" ->
           InactivityTimerSet(Upcall([l EXCEPT !.asleep = FALSE, !.received = f.payload, !.handed = @ + 1],
                                     "packet", sendsAt))
      [] OTHER -> l

ProcessActiveTwice(l, f, sendsAt) ==
    LET taken == IF Reliable(f)
                   THEN Request([l EXCEPT !.ack = IncSeqNr(f.seq)], "ACK_PACKET")
                   ELSE l
    IN  ProcessPayload(ProcessAck(taken, f, sendsAt), f, sendsAt)

ProcessActiveSilent(l, f, sendsAt) ==
    IF Reliable(f) /\ f.seq # l.ack THEN l
    ELSE ProcessActiveTwice(l, f, sendsAt)

ProcessActive(l, f, sendsAt) ==
    IF Reliable(f) /\ f.seq # l.ack THEN Request(l, "ACK_PACKET")
    ELSE LET taken == IF Reliable(f)
                        THEN Request([l EXCEPT !.ack = IncSeqNr(@)], "ACK_PACKET")
                        ELSE l
         IN  ProcessPayload(ProcessAck(taken, f, sendsAt), f, sendsAt)

ProcessFrame(l, f, sendsAt) ==
    LinkRun(CASE l.state = "UNINITIALIZED" -> ProcessUninitialized(l, f)
              [] l.state = "INITIALIZED" -> ProcessInitialized(l, f, sendsAt)
              [] l.state = "ACTIVE" -> ProcessActive(l, f, sendsAt))

TimeoutHandlerOnce(l) ==
    CASE l.state = "UNINITIALIZED" -> LinkRun(SetTimer(Request(l, "SYNC")))
      [] l.state = "INITIALIZED" -> LinkRun(Request(l, "CONFIG"))
      [] OTHER -> l

\* hci_transport_link_timeout_handler.  The wakeup is requested, not sent: this
\* branch returns without hci_transport_link_run.
TimeoutHandler(l) ==
    CASE l.state = "UNINITIALIZED" -> LinkRun(SetTimer(Request(l, "SYNC")))
      [] l.state = "INITIALIZED" -> LinkRun(SetTimer(Request(l, "CONFIG")))
      [] l.state = "ACTIVE" /\ ~HaveOutgoingPacket(l) -> l
      [] l.state = "ACTIVE" /\ HaveOutgoingPacket(l) /\ l.asleep -> SetTimer(Request(l, "WAKEUP"))
      [] OTHER -> LinkRun(SetTimer(Request(l, "QUEUED_PACKET")))

InactivityHandler(l) ==
    IF HaveOutgoingPacket(l) \/ l.state # "ACTIVE" \/ l.actions # {} \/ l.asleep
      THEN l
      ELSE LinkRun(Request(l, "SLEEP"))

-----------------------------------------------------------------------------
Set(s, l) == link' = [link EXCEPT ![s] = l]
Up(s) == ~link[s].crashed

Send(s) ==
    /\ Up(s) /\ MaySend(s)
    /\ Set(s, SendPacket(link[s]))
    /\ UNCHANGED <<wire, losses, resets>>

\* A frame of the peer arrives; sendsAt names the callback that sends, if any.
Receive(s) ==
    /\ Up(s) /\ wire[Peer(s)] # <<>>
    /\ \E sendsAt \in {"none", "packet_sent", "packet"} :
         /\ sendsAt # "none" => link[s].accepted < MaxPackets[s]
         /\ Set(s, ProcessFrame(link[s], Head(wire[Peer(s)]), sendsAt))
    /\ wire' = [wire EXCEPT ![Peer(s)] = Tail(@)]
    /\ UNCHANGED <<losses, resets>>

Lose(s) ==
    /\ wire[s] # <<>> /\ losses < MaxLosses
    /\ losses' = losses + 1
    /\ wire' = [wire EXCEPT ![s] = Tail(@)]
    /\ UNCHANGED <<link, resets>>

\* hci_transport_h5_block_sent: the next block of the frame, or the next frame.
BlockSent(s) ==
    /\ Up(s) /\ link[s].tx # NoFrame
    /\ IF link[s].tx.more
         THEN Set(s, [link[s] EXCEPT !.tx.more = FALSE]) /\ UNCHANGED wire
         ELSE /\ Len(wire[s]) < MaxWire
              /\ wire' = [wire EXCEPT ![s] = Append(@, link[s].tx)]
              /\ Set(s, LinkRun([link[s] EXCEPT !.tx = NoFrame, !.actions = @ \ {"ENTER_SLEEP"}]))
    /\ UNCHANGED <<losses, resets>>

\* What the timer repeats has been written since it was last asked for.
Written(l) ==
    LET repeated == CASE l.state = "UNINITIALIZED" -> "SYNC"
                      [] l.state = "INITIALIZED" -> "CONFIG"
                      [] l.state = "ACTIVE" /\ l.asleep -> "WAKEUP"
                      [] OTHER -> "QUEUED_PACKET"
    IN  l.tx = NoFrame \/ (l.tx.kind # repeated /\ repeated \notin l.actions)

\* The run loop removes a timer before it calls the handler.
Timeout(s) ==
    /\ Up(s) /\ link[s].timer /\ (OnTime => Written(link[s]))
    /\ Set(s, TimeoutHandler([link[s] EXCEPT !.timer = FALSE]))
    /\ UNCHANGED <<wire, losses, resets>>

InactivityTimeout(s) ==
    /\ Up(s) /\ link[s].idle
    /\ Set(s, InactivityHandler([link[s] EXCEPT !.idle = FALSE]))
    /\ UNCHANGED <<wire, losses, resets>>

\* A packet of the host told the controller to restart; what it was writing is lost.
Reboot ==
    /\ \A s \in Side : link[s].state = "ACTIVE"
    /\ link[Ctrl].received # 0 /\ resets < MaxResets /\ resets % 2 = 0
    /\ LET l == link[Ctrl]
       IN  Set(Ctrl, LinkInit(PowerOn(Ctrl, l.accepted, l.confirmed, l.received, l.handed)))
    /\ resets' = resets + 1
    /\ UNCHANGED <<wire, losses>>

\* The host's answer, once its command to restart the controller has timed out.
ResetLink ==
    /\ Up(Host) /\ resets % 2 = 1 /\ (OnTime => link[Host].tx = NoFrame)
    /\ Set(Host, LinkInit(ClearQueue(link[Host])))
    /\ resets' = resets + 1
    /\ UNCHANGED <<wire, losses>>

Next ==
    \/ \E s \in Side :
         \/ Send(s)
         \/ Receive(s)
         \/ Lose(s)
         \/ BlockSent(s)
         \/ Timeout(s)
         \/ InactivityTimeout(s)
    \/ Reboot
    \/ ResetLink

\* Timers expire, blocks get written, what is on the line arrives, and only
\* finitely many frames are lost.
Fairness ==
    /\ \A s \in Side : WF_vars(Timeout(s)) /\ WF_vars(BlockSent(s)) /\ WF_vars(Receive(s))
    /\ SF_vars(ResetLink)

Spec == Init /\ [][Next]_vars /\ Fairness

-----------------------------------------------------------------------------
\* The state of both ends has its type; sequence numbers stay below SeqSize.
TypeOK ==
    /\ link \in [Side -> Link]
    /\ \A s \in Side : wire[s] \in Seq(Frame)
    /\ resets \in 0 .. MaxResets + 1

\* The timer of an end runs exactly when it has something to repeat: a lost
\* timer would stop the link for good, a left-over one fires with nothing to do
\* or is added to the run loop twice.
TimerRuns ==
    /\ TypeOK
    /\ \A s \in Side : Up(s) =>
         (link[s].timer <=> link[s].state # "ACTIVE" \/ link[s].packet # 0)

\* The numbers agree: the peer expects the next packet of an end, or the one after
\* if it has the packet that is still to be confirmed.
InStep ==
    (resets % 2 = 0 /\ \A s \in Side : link[s].state = "ACTIVE") =>
      \A s \in Side :
        \/ link[Peer(s)].ack = link[s].seq
        \/ /\ link[s].packet # 0 /\ link[s].packet = link[Peer(s)].received
           /\ link[Peer(s)].ack = IncSeqNr(link[s].seq)

HostToCtrl == INSTANCE ReliableChannel WITH
    accepted <- link[Host].accepted, outstanding <- link[Host].packet, confirmed <- link[Host].confirmed,
    received <- link[Ctrl].received, handed <- link[Ctrl].handed

CtrlToHost == INSTANCE ReliableChannel WITH
    accepted <- link[Ctrl].accepted, outstanding <- link[Ctrl].packet, confirmed <- link[Ctrl].confirmed,
    received <- link[Host].received, handed <- link[Host].handed

\* The packets of send_packet reach the peer's packet_handler in order, none twice,
\* none torn, and TRANSPORT_PACKET_SENT comes only after the peer had the packet,
\* whatever frames are lost or repeated; over a restart too if the line keeps up.
\* (The pending actions outlive hci_transport_h5_reset_link: an acknowledgement that a
\* stalled line held up then confirms a packet of the new link that nobody has seen.)
ImplementsChannel == HostToCtrl!Spec /\ CtrlToHost!Spec

\* hci_transport_link_send_queued_packet read a null pointer (see SendQueuedPacket).
Crashed == \E s \in Side : link[s].crashed

\* However many frames of the handshake are lost or cross each other, both ends get to
\* LINK_ACTIVE and stay there; again after a restart of the controller, which the host
\* answers with hci_transport_h5_reset_link once its command has timed out.
LinkComesUp == <>[](Crashed \/ \A s \in Side : link[s].state = "ACTIVE")

\* A packet given to send_packet is confirmed in the end, however the frames that
\* carry it and its confirmation are lost, or given up by a restart or a reset of the
\* link, unless the peer is taken to be asleep.
PacketResolves ==
    \A s \in Side : link[s].packet # 0 ~> link[s].packet = 0 \/ link[s].asleep \/ Crashed
=============================================================================
