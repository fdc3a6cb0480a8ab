----------------------------- MODULE DongleHost ------------------------------
(* The host side of the KMA dongle: the event and L2CAP callbacks of           *)
(* blm_host.c, pairing and unpairing (blm_pair.c), service discovery           *)
(* (blm_att.c) and the main loop that drives them (app.c).                     *)
(*                                                                            *)
(* The main loop is one thread, `phase` is where it is.  Service discovery    *)
(* runs from main_loop, blocks for each answer of the slave and, while it     *)
(* waits, runs main_idle_loop again from inside: callbacks for a lost link    *)
(* and for the next connection run in the middle of a discovery.  The radio   *)
(* (external, only its interface is used in src/) works in interrupts, and    *)
(* the host sees what it did later, through a queue of events.                *)
EXTENDS Naturals, Sequences, SequencesExt

CONSTANTS
    Device,         \* slaves
    None,
    MaxNum,         \* USER_PAIR_SLAVE_MAX_NUM
    Rounds,         \* bound: requests of one service discovery
    MaxQueue,       \* bound: events waiting for the host
    TypeByteMatch   \* slaves whose address type happens to be the byte that
                    \* app_service_discovery stores as serviceDiscovery_adr_type

ASSUME DongleAssumption ==
    /\ None \notin Device /\ TypeByteMatch \subseteq Device
    /\ MaxNum \in Nat \ {0} /\ Rounds \in Nat \ {0} /\ MaxQueue \in Nat \ {0}

VARIABLES
    \* the radio
    ctrl,           \* blc_ll_getCurrentState, with the stages of a connection
    peer,           \* the slave it connects to
    evq,            \* events and packets on their way to the host
    asked,          \* the slave has a request of the host to answer
    \* the host
    phase,          \* position in main_loop / main_idle_loop
    connected,      \* cur_conn_device.conn_handle is valid
    curDev,         \* cur_conn_device: address
    sdpPending,     \* app_host_smp_sdp_pending = SDP_PENDING
    mainService,    \* main_service # 0
    disc,           \* requests sent by the discovery on the stack, 0: none
    busy,           \* host_att_req_busy # 0
    answers,        \* who answered the discovery on the stack
    sdpAddr,        \* serviceDiscovery_address: whose handles conn_char_handler has
    tried,          \* history: discovery was started since the last establish
    manPair,        \* blm_manPair: the slave paired by hand, None: manual_pair = 0
    bonded,         \* user_tbl_slaveMac
    pairEn,         \* dongle_pairing_enable
    unpairEn,       \* dongle_unpair_enable
    termFlag,       \* master_disconnect_flag
    updReq          \* host_update_conn_param_req: None, or who asked

radio == <<ctrl, peer, evq, asked>>
sdp == <<sdpPending, mainService, disc, busy, answers, sdpAddr, tried>>
pairing == <<manPair, bonded, pairEn, unpairEn, termFlag>>
vars == <<radio, phase, connected, curDev, sdp, pairing, updReq>>

InConn == ctrl \in {"opening", "conn", "closing"}   \* BLS_LINK_STATE_CONN

Init ==
    /\ ctrl = "scan" /\ peer = None /\ evq = <<>> /\ asked = FALSE
    /\ phase = "events" /\ connected = FALSE /\ curDev = None
    /\ sdpPending = FALSE /\ mainService = FALSE /\ disc = 0 /\ busy = FALSE
    /\ answers = {} /\ sdpAddr = None /\ tried = FALSE
    /\ manPair = None /\ bonded = <<>> /\ pairEn = FALSE /\ unpairEn = FALSE
    /\ termFlag = FALSE /\ updReq = None

-----------------------------------------------------------------------------
(* The radio, from how blm_host.c uses it.  A connection request is answered  *)
(* (establish event) or not (disconnect event); a link may be lost any time.  *)
host == <<phase, connected, curDev, sdp, pairing, updReq>>

RadioConnect ==
    /\ ctrl = "init" /\ ctrl' = "opening"
    /\ UNCHANGED <<peer, evq, asked, host>>

RadioEstablish ==
    /\ ctrl = "opening" /\ ctrl' = "conn"
    /\ evq' = Append(evq, [kind |-> "establish", dev |-> peer])
    /\ UNCHANGED <<peer, asked, host>>

RadioDrop ==
    /\ InConn /\ ctrl' = "off" /\ peer' = None /\ asked' = FALSE
    /\ evq' = Append(evq, [kind |-> "disconnect", dev |-> peer])
    /\ UNCHANGED host

(* A packet of the slave: the answer to a request, the unpair key, a request  *)
(* to change the connection parameters.                                       *)
RadioReceive(k) ==
    /\ ctrl \in {"conn", "closing"} /\ Len(evq) < MaxQueue
    /\ k = "answer" => asked
    /\ asked' = (asked /\ k # "answer")
    /\ evq' = Append(evq, [kind |-> k, dev |-> peer])
    /\ UNCHANGED <<ctrl, peer, host>>

Radio ==
    \/ RadioConnect \/ RadioEstablish \/ RadioDrop
    \/ \E k \in {"answer", "unpairKey", "updateReq"} : RadioReceive(k)

-----------------------------------------------------------------------------
(* blt_sdk_main_loop delivers at most one event per pass of main_idle_loop.   *)
NoEvent ==
    /\ phase = "events" /\ evq = <<>> /\ phase' = "button"
    /\ UNCHANGED <<radio, connected, curDev, sdp, pairing, updReq>>

(* user_tbl_slave_mac_delete_by_adr: the first entry of d is taken out.        *)
MacDelete(d) ==
    \E i \in 1 .. Len(bonded) :
        /\ bonded[i] = d /\ \A j \in 1 .. i - 1 : bonded[j] # d
        /\ bonded' = RemoveAt(bonded, i)

(* Faulty variant: a bonded slave is paired by hand again. *)
AdvReportAgain(d, how) ==
    LET auto == Contains(bonded, d)
        manual == (pairEn /\ how # "far") \/ how = "pair"
        create == (auto \/ manual) /\ ctrl = "scan"
    IN  /\ phase = "events" /\ ctrl \in {"scan", "init", "opening"}
        /\ ~sdpPending
        /\ ctrl' = IF create THEN "init" ELSE ctrl
        /\ peer' = IF create THEN d ELSE peer
        /\ manPair' = IF create /\ manual THEN d ELSE manPair
        /\ IF how = "unpair" /\ auto THEN MacDelete(d) ELSE UNCHANGED bonded
        /\ phase' = "button"
        /\ UNCHANGED <<evq, asked, connected, curDev, sdp,
                       pairEn, unpairEn, termFlag, updReq>>

(* blm_le_adv_report_event_handle.  how: a plain report from afar or nearby,  *)
(* or one with the pairing or the unpairing payload; reports received before  *)
(* the connection request may still be delivered after it.                    *)
AdvReport(d, how) ==
    LET auto == Contains(bonded, d)
        manual == (pairEn /\ how # "far") \/ how = "pair"
        create == (auto \/ manual) /\ ctrl = "scan"  \* createConnection succeeds
    IN  /\ phase = "events" /\ ctrl \in {"scan", "init", "opening"}
        /\ ~sdpPending
        /\ ctrl' = IF create THEN "init" ELSE ctrl
        /\ peer' = IF create THEN d ELSE peer
        /\ manPair' = IF create /\ manual /\ ~auto THEN d ELSE manPair
        /\ IF how = "unpair" /\ auto THEN MacDelete(d) ELSE UNCHANGED bonded
        /\ phase' = "button"
        /\ UNCHANGED <<evq, asked, connected, curDev, sdp,
                       pairEn, unpairEn, termFlag, updReq>>

Deliver(k) ==
    /\ phase = "events" /\ evq # <<>> /\ Head(evq).kind = k
    /\ evq' = Tail(evq) /\ phase' = "button"

(* user_tbl_slave_mac_add: a full table loses its oldest slave.               *)
MacAdd(d) ==
    Append(IF Len(bonded) >= MaxNum THEN Tail(bonded) ELSE bonded, d)

(* The test for a slave whose services were discovered last: the address, and *)
(* an address type that was overwritten with a byte of the address's pointer. *)
KnownSlave(d) == d = sdpAddr /\ d \in TypeByteMatch

(* blm_le_connection_establish_event_handle *)
ConnectionEstablish ==
    LET d == Head(evq).dev IN
    /\ Deliver("establish")
    /\ connected' = TRUE /\ curDev' = d
    /\ manPair' = IF manPair = d THEN None ELSE manPair
    /\ bonded' = IF manPair = d THEN MacAdd(d) ELSE bonded
    /\ mainService' = IF KnownSlave(d) THEN mainService ELSE TRUE
    /\ sdpPending' = ~KnownSlave(d) /\ tried' = FALSE
    /\ UNCHANGED <<ctrl, peer, asked, disc, busy, answers, sdpAddr,
                   pairEn, unpairEn, termFlag, updReq>>

(* Faulty variant: a pending parameter update outlives the connection. *)
DisconnectKeepsUpdate ==
    /\ Deliver("disconnect")
    /\ connected' = FALSE /\ sdpPending' = FALSE
    /\ ctrl' = "scan"
    /\ UNCHANGED <<peer, asked, curDev, mainService, disc, busy, answers,
                   sdpAddr, tried, pairing, updReq>>

(* blm_disconnect_event_handle: scanning is enabled again here.               *)
Disconnect ==
    /\ Deliver("disconnect")
    /\ connected' = FALSE /\ sdpPending' = FALSE /\ updReq' = None
    /\ ctrl' = "scan"
    /\ UNCHANGED <<peer, asked, curDev, mainService, disc, busy, answers,
                   sdpAddr, tried, pairing>>

(* app_l2cap_handler, an ATT response: only service discovery wants it.       *)
AttAnswer ==
    /\ Deliver("answer")
    /\ LET copied == sdpPending /\ busy       \* host_att_client_handler
       IN  /\ busy' = (busy /\ ~copied)
           /\ answers' = IF copied THEN answers \cup {Head(evq).dev} ELSE answers
    /\ UNCHANGED <<ctrl, peer, asked, connected, curDev, sdpPending, mainService,
                   disc, sdpAddr, tried, pairing, updReq>>

(* app_l2cap_handler and att_keyboard, key TELINK_UNPAIR_KEYVALUE: another    *)
(* slave's handles may or may not be the same numbers.                        *)
UnpairKey ==
    /\ Deliver("unpairKey")
    /\ \/ sdpAddr # None /\ unpairEn' = TRUE
       \/ sdpAddr # Head(evq).dev /\ unpairEn' = unpairEn
    /\ UNCHANGED <<ctrl, peer, asked, connected, curDev, sdp,
                   manPair, bonded, pairEn, termFlag, updReq>>

(* app_l2cap_handler, connection parameter update request, accepted.          *)
UpdateRequest ==
    /\ Deliver("updateReq")
    /\ updReq' = Head(evq).dev
    /\ UNCHANGED <<ctrl, peer, asked, connected, curDev, sdp, pairing>>

Callback ==
    \/ NoEvent \/ ConnectionEstablish \/ Disconnect
    \/ AttAnswer \/ UnpairKey \/ UpdateRequest

Advertise ==
    \E d \in Device : \E how \in {"far", "near", "pair", "unpair"} : AdvReport(d, how)

-----------------------------------------------------------------------------
(* proc_button, after debouncing and outside the OTA test mode.               *)
Button(pressed, unpairPressed) ==
    /\ phase = "button" /\ phase' = "pair"
    /\ pairEn' = pressed /\ unpairEn' = unpairPressed
    /\ UNCHANGED <<radio, connected, curDev, sdp, manPair, bonded, termFlag, updReq>>

ButtonIdle == Button(pairEn, unpairEn)
ButtonPair == ~pairEn /\ Button(TRUE, unpairEn)
ButtonUnpair == ~unpairEn /\ Button(pairEn, TRUE)
ButtonRelease == (pairEn \/ unpairEn) /\ Button(FALSE, FALSE)
ProcButton == ButtonIdle \/ ButtonPair \/ ButtonUnpair \/ ButtonRelease

(* Faulty variant: the link is terminated before it is established. *)
PairUnpairProcEarly(expired) ==
    LET terminate == unpairEn /\ ~termFlag /\ InConn IN
    /\ phase = "pair" /\ phase' = "update"
    /\ expired => manPair # None
    /\ manPair' = IF expired THEN None ELSE manPair
    /\ ctrl' = IF terminate THEN "closing" ELSE ctrl
    /\ unpairEn' = (unpairEn /\ ~terminate)
    /\ bonded' = IF terminate THEN <<>> ELSE bonded
    /\ termFlag' = (InConn /\ (termFlag \/ terminate))
    /\ UNCHANGED <<peer, evq, asked, connected, curDev, sdp, pairEn, updReq>>

(* Faulty variant: master_disconnect_flag is never cleared. *)
PairUnpairProcOnce(expired) ==
    LET terminate == unpairEn /\ ~termFlag /\ connected /\ ctrl = "conn" IN
    /\ phase = "pair" /\ phase' = "update"
    /\ expired => manPair # None
    /\ manPair' = IF expired THEN None ELSE manPair
    /\ ctrl' = IF terminate THEN "closing" ELSE ctrl
    /\ unpairEn' = (unpairEn /\ ~terminate)
    /\ bonded' = IF terminate THEN <<>> ELSE bonded
    /\ termFlag' = (termFlag \/ terminate)
    /\ UNCHANGED <<peer, evq, asked, connected, curDev, sdp, pairEn, updReq>>

(* host_pair_unpair_proc.  expired: two seconds have passed since pair_tick.  *)
(* blm_ll_disconnect accepts the handle of an established connection.         *)
PairUnpairProc(expired) ==
    LET terminate == unpairEn /\ ~termFlag /\ connected /\ ctrl = "conn" IN
    /\ phase = "pair" /\ phase' = "update"
    /\ expired => manPair # None
    /\ manPair' = IF expired THEN None ELSE manPair
    /\ ctrl' = IF terminate THEN "closing" ELSE ctrl
    /\ unpairEn' = (unpairEn /\ ~terminate)
    /\ bonded' = IF terminate THEN <<>> ELSE bonded    \* mac_delete_all
    /\ termFlag' = (InConn /\ (termFlag \/ terminate))
    /\ UNCHANGED <<peer, evq, asked, connected, curDev, sdp, pairEn, updReq>>

(* host_update_conn_proc.  due: 50 ms have passed since the request.          *)
UpdateConnProc(due) ==
    /\ phase = "update" /\ phase' = "service"
    /\ due => updReq # None /\ ~sdpPending
    /\ updReq' = IF due THEN None ELSE updReq
    /\ UNCHANGED <<radio, connected, curDev, sdp, pairing>>

-----------------------------------------------------------------------------
(* host_att_service_wait_event: send a request; it is lost without a link.    *)
SendRequest ==
    /\ disc' = disc + 1 /\ busy' = TRUE
    /\ asked' = (ctrl = "conn")
    /\ phase' = "events"

(* main_loop with nothing on the stack: main_service, if registered, starts   *)
(* app_service_discovery, which gives up at once without a connection.        *)
Service ==
    /\ phase = "service" /\ disc = 0
    /\ \/ ~mainService /\ phase' = "events"
          /\ UNCHANGED <<asked, sdp>>
       \/ /\ mainService /\ connected
          /\ SendRequest /\ answers' = {} /\ tried' = TRUE
          /\ UNCHANGED <<sdpPending, mainService, sdpAddr>>
       \/ /\ mainService /\ ~connected
          /\ sdpPending' = FALSE /\ mainService' = FALSE /\ phase' = "events"
          /\ UNCHANGED <<asked, disc, busy, answers, sdpAddr, tried>>
    /\ UNCHANGED <<ctrl, peer, evq, connected, curDev, pairing, updReq>>

(* Faulty variant: SDP_PENDING stays set after the discovery. *)
ServiceReturnPending ==
    /\ phase = "service" /\ disc > 0
    /\ disc' = 0 /\ mainService' = FALSE
    /\ phase' = "events"
    /\ UNCHANGED <<radio, connected, curDev, sdpPending, answers, busy, tried,
                   pairing, updReq>>

(* The end of app_service_discovery and of main_service in main_loop.         *)
ServiceReturn ==
    /\ phase = "service" /\ disc > 0
    /\ disc' = 0 /\ sdpPending' = FALSE /\ mainService' = FALSE
    /\ phase' = "events"
    /\ UNCHANGED <<radio, connected, curDev, answers, busy, tried, pairing, updReq>>

(* Inside host_att_service_wait_event and host_att_discoveryService:          *)
(* no answer yet, run main_idle_loop again;                                   *)
WaitMore ==
    /\ phase = "service" /\ disc > 0 /\ busy
    /\ phase' = "events"
    /\ UNCHANGED <<radio, connected, curDev, sdp, pairing, updReq>>

(* an answer, and more to ask;                                                *)
WaitNext ==
    /\ phase = "service" /\ disc \in 1 .. Rounds - 1 /\ ~busy
    /\ SendRequest
    /\ UNCHANGED <<ctrl, peer, evq, connected, curDev, sdpPending, mainService,
                   answers, sdpAddr, tried, pairing, updReq>>

(* the last answer: the handles are taken over for cur_conn_device;           *)
WaitSuccess ==
    /\ ~busy /\ ServiceReturn
    /\ sdpAddr' = curDev

(* Faulty variant: the request is repeated after the timeout. *)
WaitTimeoutRetry ==
    /\ phase = "service" /\ disc > 0
    /\ asked' = (ctrl = "conn") /\ busy' = TRUE /\ phase' = "events"
    /\ UNCHANGED <<ctrl, peer, evq, connected, curDev, sdpPending, mainService,
                   disc, answers, sdpAddr, tried, pairing, updReq>>

(* Faulty variant: only an answer ends the wait. *)
WaitTimeoutNever ==
    /\ ~busy /\ ServiceReturn
    /\ UNCHANGED sdpAddr

(* the timeout of one second, also when the answer came in the last pass.     *)
WaitTimeout ==
    /\ ServiceReturn
    /\ UNCHANGED sdpAddr

MainLoop ==
    \/ Callback \/ ProcButton \/ Service
    \/ WaitMore \/ WaitNext \/ WaitSuccess \/ WaitTimeout
    \/ \E b \in BOOLEAN : PairUnpairProc(b) \/ UpdateConnProc(b)

Next == Radio \/ Advertise \/ MainLoop

(* The main loop never stops, a terminated link goes down, and the one-second *)
(* timeout of a discovery that goes on waiting arrives (it is compared with   *)
(* the clock on every pass, so it is enabled again and again).                *)
Fairness ==
    /\ WF_vars(MainLoop) /\ SF_vars(WaitTimeout)
    /\ WF_vars(ctrl = "closing" /\ RadioDrop)

Spec == Init /\ [][Next]_vars /\ Fairness

-----------------------------------------------------------------------------
TypeOK ==
    /\ ctrl \in {"scan", "init", "opening", "conn", "closing", "off"}
    /\ peer \in Device \cup {None} /\ asked \in BOOLEAN
    /\ evq \in Seq([kind : {"establish", "disconnect", "answer", "unpairKey",
                            "updateReq"}, dev : Device])
    /\ phase \in {"events", "button", "pair", "update", "service"}
    /\ connected \in BOOLEAN /\ curDev \in Device \cup {None}
    /\ sdpPending \in BOOLEAN /\ mainService \in BOOLEAN
    /\ disc \in 0 .. Rounds /\ busy \in BOOLEAN /\ answers \subseteq Device
    /\ sdpAddr \in Device \cup {None} /\ tried \in BOOLEAN
    /\ manPair \in Device \cup {None}
    /\ bonded \in Seq(Device) /\ Len(bonded) <= MaxNum
    /\ pairEn \in BOOLEAN /\ unpairEn \in BOOLEAN /\ termFlag \in BOOLEAN
    /\ updReq \in Device \cup {None}

(* A slave is never bonded twice: the search at the advertising report and    *)
(* the add at the establish event stay consistent although both pairing and   *)
(* unpairing can happen in between.  BondTable relies on it.                  *)
NoDuplicateBond == TypeOK /\ IsInjective(bonded)

(* SDP_PENDING blocks every advertising report and every parameter update;    *)
(* while it is set, a discovery that will clear it is registered.             *)
PendingHasService == sdpPending => mainService

(* An answer is copied into the buffer p_att_response only while the          *)
(* discovery that owns the buffer (a local array) is on the stack.            *)
AnswerIntoLiveBuffer == [][(busy /\ ~busy') => disc > 0]_vars

(* The handles taken over by a successful discovery all come from the slave   *)
(* that they are recorded for, even if links were lost and others connected   *)
(* while the discovery ran.                                                   *)
DiscoveryCoherent == [][WaitSuccess => answers = {curDev}]_vars

(* From the unpair until the link is down the bond table stays empty: nobody  *)
(* is bonded again by an event that was already on its way.                   *)
UnpairLeavesNoBond == (termFlag /\ ctrl = "closing") => bonded = <<>>

(* Connection parameters are only ever applied to the connection of the slave *)
(* that asked for them, not to its successor (the request is kept for 50 ms   *)
(* and for the length of a discovery).                                        *)
UpdateForRequester ==
    [][(phase = "update" /\ updReq # None /\ updReq' = None /\ InConn) =>
          updReq = peer]_vars

(* Service discovery comes to an end whatever the slave does, so the dongle   *)
(* answers advertising reports again.                                         *)
PendingEnds == sdpPending ~> ~sdpPending

(* An unpair request made during a connection is served, or withdrawn by      *)
(* releasing the button, or the connection is lost first.                     *)
UnpairServed ==
    (unpairEn /\ connected /\ ctrl = "conn") ~> (~unpairEn \/ ctrl # "conn")

(* "new slave device, should do service discovery again" (blm_host.c:327):    *)
(* an established connection to a slave whose handles are not the ones in use *)
(* has a discovery registered, or one was at least started for it.            *)
NewSlaveDiscovered ==
    (connected /\ curDev # sdpAddr) => (mainService \/ tried)
=============================================================================
