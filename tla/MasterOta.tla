------------------------------ MODULE MasterOta ------------------------------
(* The dongle as OTA master, blm_ota.c: proc_ota with its callbacks, pushing  *)
(* a firmware image to the slave through the transmit FIFO of the link layer. *)
(* The main loop alternates callbacks (phase "events") and proc_ota, which is *)
(* split where it looks at the radio, because the radio works in interrupts.  *)
(* The slave and the link layer are external: the link delivers what is in    *)
(* the FIFO in order, until it is lost.                                       *)
EXTENDS Naturals, Sequences

CONSTANTS
    Sizes,          \* image sizes in blocks of 16 bytes, all within FW_SIZE_MAX
    TooBig,         \* a size beyond FW_SIZE_MAX, as a blank header reads
    TxSize,         \* bound: capacity of the transmit FIFO
    TxHigh,         \* 5: data waits while the FIFO holds this many packets
    BlinkSteps,     \* 6: steps of a blink sequence
    MaxOwed,        \* bound: answers of the slave under way
    IndexMod        \* 65536: the index of a block is sent in 16 bits

ASSUME OtaAssumption ==
    /\ Sizes \subseteq Nat /\ TooBig \in Nat
    /\ \A s \in Sizes : s < TooBig /\ s <= IndexMod    \* FW_SIZE_MAX is 8192 blocks
    /\ TxSize \in Nat \ {0} /\ TxHigh \in 1 .. TxSize
    /\ BlinkSteps \in Nat \ {0} /\ MaxOwed \in Nat \ {0} /\ IndexMod \in Nat \ {0}

VARIABLES
    phase,          \* position in the main loop
    link,           \* "conn", "off" (lost, host not told yet), "idle" (told)
    txq,            \* the link layer's transmit FIFO
    owed,           \* answers of the slave under way: to "sdp" or "ota" requests
    slave,          \* what the slave received: start, blocks, index of the end
    settled,        \* 50 ms have passed since the last OTA packet was pushed
    sdpPending,     \* app_host_smp_sdp_pending
    paramReq,       \* host_update_conn_param_req
    mode,           \* master_ota_test_mode
    ledStep,        \* led_step, shared by the two blink sequences of proc_ota
    indicating,     \* led_indicate_begin_tick # 0
    cmd,            \* master_ota_cmd # 0 (which of the two images is left out)
    start,          \* host_ota_start
    pending,        \* host_ota_update_pending
    size,           \* n_firmware, in blocks
    adr,            \* ota_adr, in blocks
    handle,         \* whose answer slave_ota_handle was taken from
    oneLink,        \* history: no link was lost since the OTA began
    result          \* last ota_set_result

radio == <<link, txq, owed, slave>>
leds == <<mode, ledStep, indicating>>
ota == <<cmd, start, pending, size, adr, handle, oneLink, result>>
vars == <<phase, radio, settled, sdpPending, paramReq, leds, ota>>

NoSlave == [started |-> FALSE, blocks |-> <<>>, end |-> <<>>]

Init ==
    /\ phase = "events" /\ link = "idle" /\ txq = <<>> /\ owed = <<>>
    /\ slave = NoSlave /\ settled = TRUE
    /\ sdpPending = FALSE /\ paramReq = FALSE
    /\ mode = 0 /\ ledStep = 0 /\ indicating = FALSE
    /\ cmd = FALSE /\ start = 0 /\ pending = 0 /\ size = 0 /\ adr = 0
    /\ handle = "none" /\ oneLink = FALSE /\ result = "none"

-----------------------------------------------------------------------------
(* The radio and the slave.  A packet leaves the FIFO when it is acknowledged. *)
(* Only packets written to the right attribute reach the slave's OTA service. *)
Receive(p) ==
    CASE p.kind = "start" -> [NoSlave EXCEPT !.started = TRUE]
      [] p.kind = "data" -> [slave EXCEPT !.blocks = Append(@, p.idx)]
      [] p.kind = "end" -> [slave EXCEPT !.end = <<p.idx>>]

RadioAck ==
    /\ link = "conn" /\ txq # <<>> /\ Len(owed) < MaxOwed
    /\ LET p == Head(txq) IN
         /\ txq' = Tail(txq)
         /\ owed' = IF p.kind = "read" THEN Append(owed, "ota") ELSE owed
         /\ slave' = IF p.kind = "read" \/ handle # "ota" THEN slave ELSE Receive(p)
    /\ UNCHANGED <<phase, link, settled, sdpPending, paramReq, leds, ota>>

(* The FIFO is emptied with the disconnect event, not in the interrupt.       *)
RadioDrop ==
    /\ link = "conn" /\ link' = "off"
    /\ UNCHANGED <<phase, txq, owed, slave, settled, sdpPending, paramReq, leds, ota>>

Pause ==
    /\ ~settled /\ settled' = TRUE
    /\ UNCHANGED <<phase, radio, sdpPending, paramReq, leds, ota>>

-----------------------------------------------------------------------------
(* Callbacks and the other processes of main_idle_loop, one per pass.         *)
Event == phase = "events" /\ phase' = "update"

NoEvent ==
    /\ Event
    /\ UNCHANGED <<radio, settled, sdpPending, paramReq, leds, ota>>

(* blm_le_connection_establish_event_handle: discovery is pending at first.   *)
Establish ==
    /\ Event /\ link = "idle" /\ link' = "conn" /\ sdpPending' = TRUE
    /\ slave' = NoSlave
    /\ UNCHANGED <<txq, owed, settled, paramReq, leds, ota>>

(* app_service_discovery ends, by its timeout with an answer still to come.   *)
SdpEnd ==
    /\ Event /\ sdpPending /\ sdpPending' = FALSE
    /\ owed' \in {owed} \cup {Append(owed, "sdp")}
    /\ UNCHANGED <<link, txq, slave, settled, paramReq, leds, ota>>

(* blm_disconnect_event_handle *)
Disconnect ==
    /\ Event /\ link = "off" /\ link' = "idle"
    /\ txq' = <<>> /\ owed' = <<>> /\ oneLink' = FALSE
    /\ sdpPending' = FALSE /\ paramReq' = FALSE
    /\ UNCHANGED <<slave, settled, leds, cmd, start, pending, size, adr, handle, result>>

(* app_l2cap_handler: a request of the slave for other parameters; later      *)
(* host_update_conn_proc takes it.                                            *)
ParamRequest ==
    /\ Event /\ link = "conn" /\ ~paramReq /\ paramReq' = TRUE
    /\ UNCHANGED <<radio, settled, sdpPending, leds, ota>>

ParamTaken ==
    /\ Event /\ paramReq /\ ~sdpPending /\ paramReq' = FALSE
    /\ UNCHANGED <<radio, settled, sdpPending, leds, ota>>

(* host_ota_update_conn_complete, for the parameters 8/0/200 that proc_ota    *)
(* asked for; other values leave everything as it is.                         *)
UpdateConnComplete ==
    /\ Event /\ link = "conn" /\ pending = 2
    /\ pending' = 0
    /\ start' = IF start = 1 THEN 2 ELSE start
    /\ UNCHANGED <<radio, settled, sdpPending, paramReq, leds,
                   cmd, size, adr, handle, oneLink, result>>

(* app_l2cap_handler, ATT_OP_READ_BY_TYPE_RSP: host_find_slave_ota_attHandle  *)
(* takes whatever handle the response carries.                                *)
FindSlaveOtaHandle ==
    /\ Event /\ link = "conn" /\ owed # <<>>
    /\ owed' = Tail(owed)
    /\ IF start = 3
         THEN start' = 4 /\ handle' = Head(owed)
         ELSE UNCHANGED <<start, handle>>
    /\ UNCHANGED <<link, txq, slave, settled, sdpPending, paramReq, leds,
                   cmd, pending, size, adr, oneLink, result>>

(* proc_button: four quick presses enter the test mode; in mode 2 a release   *)
(* triggers host_button_trigger_ota_start with the button that was pressed.   *)
ButtonMode ==
    /\ Event /\ mode = 0 /\ mode' = 1
    /\ UNCHANGED <<radio, settled, sdpPending, paramReq, ledStep, indicating, ota>>

ButtonOta ==
    /\ Event /\ mode = 2 /\ link = "conn" /\ ~cmd /\ cmd' = TRUE
    /\ UNCHANGED <<radio, settled, sdpPending, paramReq, leds,
                   start, pending, size, adr, handle, oneLink, result>>

Callback ==
    \/ NoEvent \/ Establish \/ SdpEnd \/ Disconnect \/ ParamRequest \/ ParamTaken
    \/ UpdateConnComplete \/ FindSlaveOtaHandle \/ ButtonMode \/ ButtonOta

-----------------------------------------------------------------------------
(* proc_ota, first part: ask for the connection parameters of the transfer.   *)
OtaUpdateConn ==
    /\ phase = "update" /\ phase' = "leds"
    /\ pending' = IF pending = 1 /\ ~paramReq /\ ~sdpPending /\ link = "conn"
                    THEN 2 ELSE pending
    /\ UNCHANGED <<radio, settled, sdpPending, paramReq, leds,
                   cmd, start, size, adr, handle, oneLink, result>>

(* The blink sequences: `due` says that the next step's time has come.  The   *)
(* one that shows the test mode ends in mode 2, the other shows a success.    *)
OtaLeds(due) ==
    /\ phase = "leds" /\ phase' = "guard"
    /\ due => mode = 1 \/ indicating
    /\ ledStep' = IF due THEN (ledStep + 1) % BlinkSteps ELSE ledStep
    /\ mode' = IF due /\ mode = 1 /\ ledStep = BlinkSteps - 1 THEN 2 ELSE mode
    /\ indicating' = (indicating /\ ~(due /\ mode # 1 /\ ledStep = BlinkSteps - 1))
    /\ UNCHANGED <<radio, settled, sdpPending, paramReq, ota>>

(* ota_set_result *)
SetResult(ok) ==
    /\ indicating' = ok /\ pending' = 0 /\ start' = 0 /\ cmd' = FALSE
    /\ result' = IF ok THEN "ok" ELSE "fail"

(* Faulty variant: a lost link does not end the transfer. *)
OtaGuardNoLink(timeout) ==
    /\ phase = "guard"
    /\ timeout => start # 0
    /\ IF start # 0 /\ timeout
         THEN SetResult(FALSE) /\ phase' = "events"
         ELSE phase' = "step" /\ UNCHANGED <<indicating, pending, start, cmd, result>>
    /\ UNCHANGED <<radio, settled, sdpPending, paramReq, mode, ledStep,
                   size, adr, handle, oneLink>>

(* Faulty variant: the deadline does not end the transfer. *)
OtaGuardNoDeadline(timeout) ==
    /\ phase = "guard"
    /\ timeout => start # 0
    /\ IF start # 0 /\ link # "conn"
         THEN SetResult(FALSE) /\ phase' = "events"
         ELSE phase' = "step" /\ UNCHANGED <<indicating, pending, start, cmd, result>>
    /\ UNCHANGED <<radio, settled, sdpPending, paramReq, mode, ledStep,
                   size, adr, handle, oneLink>>

(* The test of the 20 s timeout and of the link, which ends the call.         *)
OtaGuard(timeout) ==
    /\ phase = "guard"
    /\ timeout => start # 0
    /\ IF start # 0 /\ (timeout \/ link # "conn")
         THEN SetResult(FALSE) /\ phase' = "events"
         ELSE phase' = "step" /\ UNCHANGED <<indicating, pending, start, cmd, result>>
    /\ UNCHANGED <<radio, settled, sdpPending, paramReq, mode, ledStep,
                   size, adr, handle, oneLink>>

(* host_ota_start = 0: a command begins the transfer of its image.            *)
OtaBegin ==
    /\ start = 0 /\ cmd
    /\ size' \in Sizes \cup {TooBig}        \* n_firmware from the image's header
    /\ IF size' = TooBig
         THEN SetResult(FALSE) /\ UNCHANGED oneLink
         ELSE /\ start' = 1 /\ pending' = 1 /\ oneLink' = (link = "conn")
              /\ UNCHANGED <<indicating, cmd, result>>
    /\ UNCHANGED <<txq, settled, adr, handle>>

(* blm_push_fifo *)
CanPush == link = "conn" /\ Len(txq) < TxSize
Push(p) == txq' = Append(txq, p) /\ settled' = FALSE

(* host_ota_start = 2: ask for the handle of the OTA attribute.               *)
OtaAskHandle ==
    /\ start = 2 /\ CanPush /\ Push([kind |-> "read", idx |-> 0])
    /\ start' = 3
    /\ UNCHANGED <<indicating, cmd, pending, size, adr, handle, oneLink, result>>

(* Faulty variant: ota_adr keeps the value of the transfer before. *)
OtaSendStartStale ==
    /\ start = 4
    /\ \/ CanPush /\ Push([kind |-> "start", idx |-> 0]) /\ start' = 5
       \/ ~CanPush /\ UNCHANGED <<txq, settled, start>>
    /\ UNCHANGED <<indicating, cmd, pending, size, adr, handle, oneLink, result>>

(* host_ota_start = 4: CMD_OTA_START. *)
OtaSendStart ==
    /\ start = 4 /\ adr' = 0
    /\ \/ CanPush /\ Push([kind |-> "start", idx |-> 0]) /\ start' = 5
       \/ ~CanPush /\ UNCHANGED <<txq, settled, start>>
    /\ UNCHANGED <<indicating, cmd, pending, size, handle, oneLink, result>>

(* host_ota_start = 5: 50 ms for the slave to get ready. *)
OtaPause ==
    /\ start = 5 /\ settled /\ start' = 6
    /\ UNCHANGED <<txq, settled, indicating, cmd, pending, size, adr, handle,
                   oneLink, result>>

(* host_ota_start = 6: a block of data while the FIFO has room, and the end.  *)
OtaSendData ==
    /\ start = 6 /\ Len(txq) < TxHigh
    /\ \/ /\ adr < size /\ CanPush /\ Push([kind |-> "data", idx |-> adr])
          /\ adr' = adr + 1 /\ start' = start
       \/ adr >= size /\ start' = 7 /\ UNCHANGED <<txq, settled, adr>>
    /\ UNCHANGED <<indicating, cmd, pending, size, handle, oneLink, result>>

(* host_ota_start = 7: the time of the last data is never recorded, so the    *)
(* test on ota_lastData_tick always succeeds.                                 *)
OtaLastPause ==
    /\ start = 7 /\ start' = 8
    /\ UNCHANGED <<txq, settled, indicating, cmd, pending, size, adr, handle,
                   oneLink, result>>

(* host_ota_start = 8: CMD_OTA_END with the last index, 16 bits of ota_adr-16. *)
OtaSendEnd ==
    /\ start = 8 /\ Len(txq) < TxHigh /\ CanPush
    /\ Push([kind |-> "end", idx |-> (adr + IndexMod - 1) % IndexMod])
    /\ start' = 9
    /\ UNCHANGED <<indicating, cmd, pending, size, adr, handle, oneLink, result>>

(* Faulty variant: success is reported while packets are still queued. *)
OtaFinishEarly ==
    /\ start = 9 /\ Len(txq) < TxHigh /\ SetResult(TRUE)
    /\ UNCHANGED <<txq, settled, size, adr, handle, oneLink>>

(* host_ota_start = 9: everything acknowledged. *)
OtaFinish ==
    /\ start = 9 /\ txq = <<>> /\ SetResult(TRUE)
    /\ UNCHANGED <<txq, settled, size, adr, handle, oneLink>>

(* Nothing to do in this pass: no command, a callback or an acknowledgement   *)
(* to wait for, no room in the FIFO, a busy radio (blm_ll_isRfStateMachineBusy). *)
OtaWait ==
    /\ \/ start = 0 /\ ~cmd
       \/ start \in {1, 3, 6, 8}
       \/ start = 2 /\ ~CanPush
       \/ start = 5 /\ ~settled
       \/ start = 9 /\ txq # <<>>
    /\ UNCHANGED <<txq, settled, indicating, ota>>

OtaAdvance ==
    \/ OtaBegin \/ OtaAskHandle \/ OtaSendStart \/ OtaPause
    \/ OtaSendData \/ OtaLastPause \/ OtaSendEnd \/ OtaFinish

OtaStep ==
    /\ phase = "step" /\ phase' = "events"
    /\ OtaAdvance \/ OtaWait
    /\ UNCHANGED <<link, owed, slave, sdpPending, paramReq, mode, ledStep>>

OtaTimeout == OtaGuard(TRUE)

ProcOta ==
    \/ OtaUpdateConn \/ OtaStep \/ OtaGuard(FALSE) \/ OtaTimeout
    \/ \E due \in BOOLEAN : OtaLeds(due)

Next == RadioAck \/ RadioDrop \/ Pause \/ Callback \/ ProcOta

(* The main loop runs forever, and every pass compares the clock with the 20 s *)
(* deadline, which passes if the transfer goes on for ever.                   *)
Fairness == WF_vars(Callback \/ ProcOta) /\ SF_vars(OtaTimeout)

Spec == Init /\ [][Next]_vars /\ Fairness

-----------------------------------------------------------------------------
Packet == [kind : {"read", "start", "data", "end"}, idx : 0 .. IndexMod - 1]

TypeOK ==
    /\ phase \in {"events", "update", "leds", "guard", "step"}
    /\ link \in {"conn", "off", "idle"}
    /\ txq \in Seq(Packet) /\ Len(txq) <= TxSize
    /\ owed \in Seq({"sdp", "ota"})
    /\ slave.started \in BOOLEAN /\ slave.blocks \in Seq(Nat)
    /\ slave.end \in Seq(0 .. IndexMod - 1)
    /\ settled \in BOOLEAN /\ sdpPending \in BOOLEAN /\ paramReq \in BOOLEAN
    /\ mode \in 0 .. 2 /\ ledStep \in 0 .. BlinkSteps - 1 /\ indicating \in BOOLEAN
    /\ cmd \in BOOLEAN /\ start \in 0 .. 9 /\ pending \in 0 .. 2
    /\ size \in Sizes \cup {TooBig} \cup {0} /\ adr \in 0 .. TooBig
    /\ handle \in {"none", "sdp", "ota"} /\ oneLink \in BOOLEAN
    /\ result \in {"none", "ok", "fail"}

(* "all data acked,OTA OK" (blm_ota.c:422): when success is reported the      *)
(* slave has the start, every block once and in order, and the end with the   *)
(* index of the last block (an image of no blocks aside).  The exception: the  *)
(* handle came from a late answer to the service discovery, which is taken for *)
(* the answer to the request for it; then the image goes astray unnoticed.     *)
SuccessMeansDelivered ==
    [][(start = 9 /\ result' = "ok" /\ start' = 0 /\ handle = "ota") =>
         /\ slave.started
         /\ slave.blocks = [i \in 1 .. size |-> i - 1]
         /\ size > 0 => slave.end = <<size - 1>>]_vars

(* During the transfer the blocks that the slave has and the packets in the   *)
(* FIFO (if the start command is still there, those behind it) are the blocks *)
(* 0 .. ota_adr-1 and, at the end, the end command: none is skipped by a      *)
(* failed push, none is sent twice, and what an earlier transfer left in the  *)
(* FIFO is not taken for a part of this.  p is the last start command in the  *)
(* FIFO, 0 if there is none.                                                  *)
LastStart(p) ==
    /\ p > 0 => txq[p].kind = "start"
    /\ \A i \in p + 1 .. Len(txq) : txq[i].kind # "start"

Behind(p) ==
    LET arrived == IF p = 0 THEN Len(slave.blocks) ELSE 0
        last == IF start = 9 /\ p < Len(txq) THEN Len(txq) - 1 ELSE Len(txq)
    IN  /\ p = 0 => slave.started /\ slave.blocks = [i \in 1 .. arrived |-> i - 1]
        /\ arrived + (last - p) = adr
        /\ \A i \in p + 1 .. last :
              txq[i] = [kind |-> "data", idx |-> arrived + (i - p) - 1]

BlocksInFlight ==
    /\ TypeOK
    /\ (start \in 5 .. 9 /\ link # "idle" /\ handle = "ota") =>
         \A p \in 0 .. Len(txq) : LastStart(p) => Behind(p)

(* A transfer stays on the connection it began on: whenever a step of it is   *)
(* about to be taken, the link it began on has not been lost in between.      *)
OneConnection == (phase = "step" /\ start # 0) => oneLink

(* A transfer ends, by success, by its timeout or with the connection, and    *)
(* the dongle accepts the next command.                                       *)
TransferEnds == start # 0 ~> start = 0
=============================================================================
