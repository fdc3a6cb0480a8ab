----------------------------- MODULE UsbReports ------------------------------
(* How the dongle turns the key notifications of a slave into USB reports:    *)
(* att_keyboard and att_keyboard_media (blm_att.c), the report functions of   *)
(* usbkb.c and usbmouse.c with the FIFO they share, and usb_handle_irq, which *)
(* empties it.                                                                *)
(*                                                                            *)
(* A report is written to an endpoint if that is free, otherwise it goes to   *)
(* the FIFO; the PC takes what an endpoint holds when it polls it.  Normal    *)
(* keys have an endpoint of their own, system and media keys share the one of *)
(* the mouse.                                                                 *)
EXTENDS Naturals, Sequences

CONSTANTS
    NormalKey, SysKey, MediaKey,    \* key codes by their ranges
    None,                           \* no key: the report that releases
    FifoNum,                        \* USB_FIFO_NUM
    Wrap                            \* range of the u8 FIFO pointers

ASSUME UsbAssumption ==
    /\ FifoNum \in Nat \ {0, 1}
    /\ Wrap \in Nat \ {0} /\ Wrap % (2 * FifoNum) = 0
    /\ None \notin NormalKey \cup SysKey \cup MediaKey

Kind == {"normal", "sys", "media"}
Endpoint == {"keyboard", "mouse"}   \* USB_EDP_KEYBOARD_IN, USB_EDP_MOUSE

KeysOf == [normal |-> NormalKey, sys |-> SysKey, media |-> MediaKey]
EndpointOf == [normal |-> "keyboard", sys |-> "mouse", media |-> "mouse"]

Report == UNION {[kind : {t}, key : KeysOf[t] \cup {None}] : t \in Kind}
Idle == [kind |-> "none", key |-> None]

VARIABLES
    ep,             \* the report each endpoint holds for the PC, Idle: not busy
    fifo,           \* usb_fifo
    rptr, wptr,     \* usb_ff_rptr, usb_ff_wptr
    not_released,   \* usbkb_not_released: one bit for each kind
    last_data,      \* last_data of usbkb_check_repeat_and_save
    \* the surroundings
    link,           \* a slave is connected
    held,           \* what its notifications last said is pressed
    pc,             \* what the PC takes for pressed
    suspended,      \* USB suspend: FLD_IRQ_USB_PWDN_EN
    disturbed       \* history: not only keyboard notifications that found their
                    \* endpoint free

device == <<ep, fifo, rptr, wptr, not_released>>
world == <<link, held, pc, suspended>>
vars == <<device, last_data, world, disturbed>>

NoKeys == [t \in Kind |-> None]

Init ==
    /\ ep = [e \in Endpoint |-> Idle] /\ fifo = [i \in 0 .. FifoNum - 1 |-> Idle]
    /\ rptr = 0 /\ wptr = 0 /\ not_released = {}
    /\ last_data = None
    /\ link = FALSE /\ held = NoKeys /\ pc = NoKeys
    /\ suspended = FALSE /\ disturbed = FALSE

-----------------------------------------------------------------------------
(* The report functions, from one state of the device to the next.            *)
Device == [ep |-> ep, fifo |-> fifo, rptr |-> rptr, wptr |-> wptr, rel |-> not_released]

Becomes(d) ==
    /\ ep' = d.ep /\ fifo' = d.fifo /\ rptr' = d.rptr /\ wptr' = d.wptr
    /\ not_released' = d.rel

\* mutant: the overflow test is one too early
PushEarly(d, r) ==
    LET w == (d.wptr + 1) % Wrap
    IN  [d EXCEPT !.fifo[d.wptr % FifoNum] = r, !.wptr = w,
            !.rptr = IF (w + Wrap - @) % (2 * FifoNum) >= FifoNum THEN (@ + 1) % Wrap ELSE @]

Push(d, r) ==
    LET w == (d.wptr + 1) % Wrap
        fifo_use == (w + Wrap - d.rptr) % (2 * FifoNum)
    IN  [d EXCEPT !.fifo[d.wptr % FifoNum] = r,
                  !.wptr = w,
                  !.rptr = IF fifo_use > FifoNum THEN (@ + 1) % Wrap ELSE @]

Free(d, t) == d.ep[EndpointOf[t]] = Idle

\* usbkb_hid_report_normal and usbmouse_hid_report; they return Free
HidReport(d, t, k) ==
    LET r == [kind |-> t, key |-> k]
    IN  IF Free(d, t) THEN [d EXCEPT !.ep[EndpointOf[t]] = r] ELSE Push(d, r)

ReleaseKey(d, t) ==
    IF t \notin d.rel THEN d
    ELSE [HidReport(d, t, None) EXCEPT !.rel = IF Free(d, t) THEN @ \ {t} ELSE @]

PressKey(d, t, k) ==
    [HidReport(d, t, k) EXCEPT !.rel = IF Free(d, t) THEN @ \cup {t} ELSE @]

ReportKey(d, t, k) ==
    IF k \in KeysOf[t] THEN PressKey(d, t, k) ELSE ReleaseKey(d, t)

\* mutant: the repeat filter does not look at usbkb_not_released
UsbkbHidReportFilter(d, k) ==
    IF k # None /\ k = last_data THEN d
    ELSE ReportKey(ReportKey(ReportKey(d, "normal", k), "sys", k), "media", k)

\* usbkb_hid_report: nothing for a key that is already pressed, as far as
\* last_data and usbkb_not_released tell
UsbkbHidReport(d, k) ==
    IF k # None /\ k = last_data /\ d.rel # {} THEN d
    ELSE ReportKey(ReportKey(ReportKey(d, "normal", k), "sys", k), "media", k)

Queued(d) == d.wptr # wptr

-----------------------------------------------------------------------------
(* Notifications of the slave.  One that repeats a key is possible: slaves    *)
(* with KB_REPEAT_KEY_ENABLE send them.                                       *)
AttKeyboard(k) ==
    LET d == UsbkbHidReport(Device, k)
    IN  /\ link
        /\ Becomes(d)
        /\ last_data' = IF k # None THEN k ELSE last_data
        /\ held' = [t \in Kind |-> IF k \in KeysOf[t] THEN k ELSE None]
        /\ disturbed' = (disturbed \/ Queued(d))
        /\ UNCHANGED <<link, pc, suspended>>

\* att_keyboard_media: usbkb_report_consumer_key
AttKeyboardMedia(k) ==
    /\ link
    /\ Becomes(ReportKey(Device, "media", k))
    /\ held' = [held EXCEPT !["media"] = k]
    /\ disturbed' = TRUE
    /\ UNCHANGED <<last_data, link, pc, suspended>>

Connect ==
    /\ ~link /\ link' = TRUE
    /\ UNCHANGED <<device, last_data, held, pc, suspended, disturbed>>

\* blm_disconnect_event_handle: host_att_data_clear clears keyboard_not_release
\* and kb_dat_report.cnt, which are not read before they are set again
Disconnect ==
    /\ link /\ link' = FALSE
    /\ held' = NoKeys
    /\ disturbed' = TRUE
    /\ UNCHANGED <<device, last_data, pc, suspended>>

-----------------------------------------------------------------------------
(* usb_handle_irq                                                             *)
FifoHead == fifo[rptr % FifoNum]

\* mutant: the report sent stays in the FIFO
FifoProcKept ==
    /\ ~suspended
    /\ rptr # wptr
    /\ Free(Device, FifoHead.kind)
    /\ Becomes(HidReport(Device, FifoHead.kind, FifoHead.key))
    /\ UNCHANGED <<last_data, world, disturbed>>

\* usb_hid_report_fifo_proc
FifoProc ==
    /\ ~suspended
    /\ rptr # wptr
    /\ Free(Device, FifoHead.kind)
    /\ LET d == HidReport(Device, FifoHead.kind, FifoHead.key)
       IN  Becomes([d EXCEPT !.rptr = (@ + 1) % Wrap])
    /\ UNCHANGED <<last_data, world, disturbed>>

\* a USB reset stops what the endpoints hold, and the PC starts afresh
UsbReset ==
    /\ ep' = [e \in Endpoint |-> Idle]
    /\ pc' = NoKeys
    /\ disturbed' = TRUE
    /\ UNCHANGED <<fifo, rptr, wptr, not_released, last_data, link, held, suspended>>

-----------------------------------------------------------------------------
(* The PC                                                                     *)
Poll(e) ==
    /\ ~suspended /\ ep[e] # Idle
    /\ pc' = [pc EXCEPT ![ep[e].kind] = ep[e].key]
    /\ ep' = [ep EXCEPT ![e] = Idle]
    /\ UNCHANGED <<fifo, rptr, wptr, not_released, last_data, link, held,
                   suspended, disturbed>>

Suspend ==
    /\ suspended' = ~suspended
    /\ UNCHANGED <<device, last_data, link, held, pc, disturbed>>

Next ==
    \/ \E k \in NormalKey \cup SysKey \cup MediaKey \cup {None} : AttKeyboard(k)
    \/ \E k \in MediaKey \cup {None} : AttKeyboardMedia(k)
    \/ Connect \/ Disconnect
    \/ FifoProc \/ UsbReset
    \/ \E e \in Endpoint : Poll(e)
    \/ Suspend

(* The main loop passes many times between two notifications, so that it finds *)
(* a free endpoint before they do again and again, and a PC that is awake      *)
(* polls.                                                                      *)
Fairness == SF_vars(FifoProc) /\ \A e \in Endpoint : WF_vars(Poll(e))

Spec == Init /\ [][Next]_vars /\ Fairness

-----------------------------------------------------------------------------
Waiting == (wptr + Wrap - rptr) % Wrap

\* The reports in usb_fifo, oldest first
Contents == [i \in 1 .. Waiting |-> fifo[(rptr + i - 1) % FifoNum]]

\* The FIFO never holds more than USB_FIFO_NUM reports, although its pointers
\* run over the whole range of u8 (usbkb.c:183).
TypeOK ==
    /\ ep \in [Endpoint -> Report \cup {Idle}]
    /\ fifo \in [0 .. FifoNum - 1 -> Report \cup {Idle}]
    /\ rptr \in 0 .. Wrap - 1 /\ wptr \in 0 .. Wrap - 1 /\ Waiting <= FifoNum
    /\ not_released \subseteq Kind
    /\ last_data \in NormalKey \cup SysKey \cup MediaKey \cup {None}
    /\ link \in BOOLEAN /\ suspended \in BOOLEAN /\ disturbed \in BOOLEAN
    /\ held \in [Kind -> (UNION {KeysOf[t] : t \in Kind}) \cup {None}]
    /\ pc \in [Kind -> (UNION {KeysOf[t] : t \in Kind}) \cup {None}]

\* What the PC has or is about to take as the state of the keys of a kind
Shown(t) == IF ep[EndpointOf[t]].kind = t THEN ep[EndpointOf[t]].key ELSE pc[t]

\* As long as only keyboard notifications came and each found its endpoint free,
\* the PC sees exactly the keys that the slave reports: the repeat filter of
\* usbkb_hid_report never swallows a press or a release.
UndisturbedMirror ==
    /\ TypeOK
    /\ ~disturbed => \A t \in Kind : Shown(t) = held[t]

Queue == INSTANCE ReportQueue WITH queue <- Contents, Burst <- 3

\* usb_fifo keeps the newest reports in their order: the pointers, the mask and
\* the overflow rule implement the abstract queue (usbkb.c:178-187, 371-402).
ImplementsReportQueue == Queue!Spec

\* If from some time on reports wait in the FIFO and the PC is awake, the oldest
\* leaves again and again, also when it waits for the other endpoint than the ones
\* behind it (usbkb.c:369-402).
Drains == <>[](rptr # wptr /\ ~suspended) => []<><<rptr' # rptr>>_vars
=============================================================================
