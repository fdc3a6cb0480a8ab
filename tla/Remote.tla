------------------------------- MODULE Remote --------------------------------
(* The remote control (8258_ble_remote): the key matrix with its debouncing, the *)
(* key reports, the voice key and the microphone, the LED and the power          *)
(* management, one main loop over all of them.                                   *)
(*                                                                               *)
(* A pass of main_loop is three steps: the BLE entry (pc = "ble"), the keys      *)
(* ("ui"), the LED and the power management ("pm").  The keys move and the link  *)
(* comes and goes, by the interrupt, between any two of them; the callbacks for  *)
(* the link run in the next BLE entry.  Asleep for good the loop is at "deep":   *)
(* only a key wakes the chip, which boots.                                       *)
(*                                                                               *)
(* Each key is on a scan pin of its own.  Its contact is unsettled for           *)
(* BounceScans scans after it moved and reads as anything; keys move one at a    *)
(* time and rest for a scan.                                                     *)
EXTENDS Integers, FiniteSets

CONSTANTS
    ConsumerKeys,       \* keys with a code from 0xf0
    KeyboardKeys,       \* keys with a lower code
    VOICE,              \* the voice key
    ReleaseScans,       \* scans after the last contact, release_cnt (6)
    BounceScans,        \* scans for which a contact bounces (the filter takes two, 8 ms apart)
    OtaBlinks           \* blinks of the LED while the firmware is updated (200)

Keys == ConsumerKeys \cup KeyboardKeys \cup {VOICE}

ASSUME RemoteAssumption ==
    /\ ConsumerKeys \cap KeyboardKeys = {} /\ VOICE \notin ConsumerKeys \cup KeyboardKeys
    /\ BounceScans \in {0, 1} /\ ReleaseScans \in Nat /\ ReleaseScans >= BounceScans + 3
    /\ OtaBlinks \in Nat \ {0}

VARIABLES
    held, unsettled, scans,     \* the keys that are down; the one still bouncing, and its scans
    pre, last,                  \* mtrx_pre, mtrx_last of key_debounce_filter
    releaseCnt, retLast,        \* release_cnt, ret_last of kb_key_pressed
    scanPinNeed,                \* scan_pin_need
    keyNotReleased, keyType,    \* key_not_released, key_type
    voicePress, mic,            \* key_voice_press, ui_mic_enable
    led,                        \* device_led
    ota,                        \* ota_is_working
    link,                       \* the state of the link layer: "adv", "conn", "none"
    event,                      \* the link's event that waits for the next BLE entry
    advEnable,                  \* advertising comes back after a connection
    inConn,                     \* device_in_connection_state
    terminating,                \* a terminate packet is on its way
    sendTerminate,              \* sendTerminate_before_enterDeep
    mask,                       \* the suspend mask: "disable", "suspend", "retention"
    due,                        \* timers that are over
    shown,                      \* the reports in which the master sees a key down
    pc

user == <<held, unsettled, scans>>
matrix == <<pre, last, releaseCnt, retLast, scanPinNeed>>
keys == <<keyNotReleased, keyType, voicePress>>
radio == <<link, event, advEnable, terminating>>
conn == <<inConn, sendTerminate>>
vars == <<user, matrix, keys, mic, led, ota, radio, conn, mask, due, shown, pc>>

-----------------------------------------------------------------------------
\* device_led and led_cfg; blinks: the time off is not zero.  A repeat count of
\* 0xff, on or off for good, is stored as 0.
LedZero == [repeat |-> 0, on |-> FALSE, priority |-> 0, blinks |-> FALSE]

LedCfg ==
    [power    |-> [repeat |-> 1, on |-> TRUE, priority |-> 0, blinks |-> FALSE],
     audioOn  |-> [repeat |-> 0, on |-> TRUE, priority |-> 2, blinks |-> FALSE],
     audioOff |-> [repeat |-> 0, on |-> FALSE, priority |-> 2, blinks |-> TRUE],
     ota      |-> [repeat |-> OtaBlinks, on |-> TRUE, priority |-> 8, blinks |-> TRUE]]

LedBusy(l) == l.repeat # 0

DeviceLedSetup(l, cfg) ==
    IF LedBusy(l) /\ l.priority >= LedCfg[cfg].priority THEN l ELSE LedCfg[cfg]

\* led_proc, when the time on or off is over.
LedProc(l) ==
    IF l.on THEN [l EXCEPT !.on = FALSE, !.repeat = IF l.blinks THEN @ ELSE 0]
            ELSE [l EXCEPT !.repeat = @ - 1, !.on = l.repeat # 1]

-----------------------------------------------------------------------------
Init ==
    /\ held = {} /\ unsettled = {} /\ scans = 0
    /\ pre = {} /\ last = {} /\ releaseCnt = 0 /\ retLast = {} /\ scanPinNeed = {}
    /\ keyNotReleased = FALSE /\ keyType = "idle" /\ voicePress = FALSE /\ mic = FALSE
    /\ led = LedCfg.power /\ ota = FALSE
    /\ link = "adv" /\ event = "none" /\ advEnable = TRUE /\ terminating = FALSE
    /\ inConn = FALSE /\ sendTerminate = 0 /\ mask = "retention"
    /\ due = {} /\ shown = {} /\ pc = "ble"

\* user_init_normal, after a deep sleep (of the memory nothing is left) and after
\* an update; the deep sleep itself is pc = "deep".
Boot(at) ==
    /\ pre' = {} /\ last' = {} /\ releaseCnt' = 0 /\ retLast' = {} /\ scanPinNeed' = {}
    /\ keyNotReleased' = FALSE /\ keyType' = "idle" /\ voicePress' = FALSE /\ mic' = FALSE
    /\ led' = (IF at = "deep" THEN LedZero ELSE LedCfg.power) /\ ota' = FALSE
    /\ link' = (IF at = "deep" THEN "none" ELSE "adv")
    /\ event' = "none" /\ advEnable' = TRUE /\ terminating' = FALSE
    /\ inConn' = FALSE /\ sendTerminate' = 0 /\ mask' = "retention"
    /\ due' = {} /\ shown' = {} /\ pc' = at
    /\ unsettled' = {} /\ scans' = 0 /\ UNCHANGED held

-----------------------------------------------------------------------------
\* The user presses or releases a key.
Move(k) ==
    /\ unsettled = {} /\ scans' = 0
    /\ unsettled' = IF pc = "deep" THEN {} ELSE {k}
    /\ held' = IF k \in held THEN held \ {k} ELSE held \cup {k}
    /\ UNCHANGED <<matrix, keys, mic, led, ota, radio, conn, mask, due, shown, pc>>

\* What one reading of the pins may see.
Contacts == IF scans < BounceScans
            THEN {(held \ unsettled) \cup c : c \in SUBSET unsettled}
            ELSE {held}

Settle ==
    IF scans < BounceScans /\ unsettled # {}
    THEN scans' = scans + 1 /\ UNCHANGED unsettled
    ELSE scans' = 0 /\ unsettled' = {}

\* kb_key_pressed: the pins that were last in contact, until release_cnt is over.
KbKeyPressedNow(contact) ==
    /\ retLast' = contact
    /\ UNCHANGED releaseCnt
    /\ scanPinNeed' = contact

KbKeyPressed(contact) ==
    LET cnt == IF contact # {} THEN ReleaseScans ELSE releaseCnt
    IN  /\ retLast' = IF contact # {} THEN contact ELSE retLast
        /\ releaseCnt' = IF cnt # 0 THEN cnt - 1 ELSE 0
        /\ scanPinNeed' = IF cnt # 0 THEN retLast' ELSE {}

\* key_debounce_filter: down after two samples in a row, up after two without.
Debounced(sample) == ((pre \cap sample) \ last) \cup (last \cap (pre \cup sample))

\* ui_enable_mic
UiEnableMic(en, l) == DeviceLedSetup(l, IF en THEN "audioOn" ELSE "audioOff")

\* bls_att_pushNotifyData of a report with a key down, or with none.
Report(type, down) ==
    shown' = IF link # "conn" THEN shown
             ELSE IF down THEN shown \cup {type} ELSE shown \ {type}

TypeOf(k) == IF k \in ConsumerKeys THEN "consumer" ELSE "keyboard"

\* key_change_proc, for the keys in last'.  Two keys are ignored, and more than
\* two count as a release.
KeyChangeProc ==
    /\ keyNotReleased' = (Cardinality(last') \in {1, 2})
    /\ voicePress' = (last' = {VOICE} /\ ~mic)
    /\ mic' = (mic /\ last' # {VOICE})
    /\ led' = IF mic /\ ~mic' THEN UiEnableMic(FALSE, led) ELSE led
    /\ CASE Cardinality(last') = 2 \/ last' = {VOICE} -> UNCHANGED <<keyType, shown>>
         [] Cardinality(last') = 1 /\ last' # {VOICE} ->
              \E k \in last' : keyType' = TypeOf(k) /\ Report(TypeOf(k), TRUE)
         [] OTHER -> UNCHANGED keyType /\ Report(keyType, FALSE)
    /\ due' = (IF inConn THEN due \ {"idle"} ELSE due) \ (IF led' # led THEN {"led"} ELSE {})

VoicePressProcUnlinked ==
    /\ voicePress /\ ~mic
    /\ voicePress' = FALSE /\ mic' = TRUE
    /\ led' = UiEnableMic(TRUE, led)
    /\ due' = IF led' # led THEN due \ {"led"} ELSE due
    /\ UNCHANGED <<keyNotReleased, keyType, shown>>

\* voice_press_proc, a second after the voice key went down.
VoicePressProc ==
    /\ voicePress /\ ~mic /\ link = "conn"
    /\ voicePress' = FALSE /\ mic' = TRUE
    /\ led' = UiEnableMic(TRUE, led)
    /\ due' = IF led' # led THEN due \ {"led"} ELSE due
    /\ UNCHANGED <<keyNotReleased, keyType, shown>>

\* proc_keyboard with its scan of the matrix.
ProcKeyboard ==
    /\ \E contact \in Contacts : KbKeyPressed(contact)
    /\ IF scanPinNeed' = {} THEN UNCHANGED <<pre, last>>
       ELSE \E sample \in {c \cap scanPinNeed' : c \in Contacts} :
              pre' = sample /\ last' = Debounced(sample)
    /\ IF last' # last THEN KeyChangeProc
       ELSE \/ VoicePressProc
            \/ UNCHANGED <<keys, mic, led, due, shown>>
    /\ Settle
    /\ UNCHANGED <<held, ota, radio, conn, mask>>

ScanKeys == pc = "ui" /\ ProcKeyboard /\ pc' = "pm"

\* The scan before was less than 8 ms ago.
SkipScan == pc = "ui" /\ pc' = "pm" /\ UNCHANGED <<user, matrix, keys, mic, led, ota, radio, conn, mask, due, shown>>

\* app_battery_power_check, not while the microphone uses the converter.
LowBattery == pc = "ui" /\ ~mic /\ Boot("deep")

-----------------------------------------------------------------------------
\* blt_sdk_main_loop, the BLE entry, and the callbacks that it runs.
TaskConnect ==
    /\ pc = "ble" /\ event = "connect"
    /\ event' = "none" /\ inConn' = TRUE /\ due' = due \ {"idle"} /\ pc' = "ui"
    /\ UNCHANGED <<user, matrix, keys, mic, led, ota, link, advEnable, terminating, sendTerminate, mask, shown>>

BleRemoteTerminateUnsaid ==
    /\ pc = "ble" /\ event = "terminate"
    /\ event' = "none" /\ inConn' = FALSE
    /\ mic' = FALSE /\ led' = IF mic THEN UiEnableMic(FALSE, led) ELSE led
    /\ due' = (due \ {"idle"}) \ (IF led' # led THEN {"led"} ELSE {})
    /\ pc' = "ui"
    /\ UNCHANGED <<user, matrix, keys, ota, link, advEnable, terminating, sendTerminate, mask, shown>>

BleRemoteTerminate ==
    /\ pc = "ble" /\ event = "terminate"
    /\ event' = "none" /\ inConn' = FALSE
    /\ sendTerminate' = IF sendTerminate = 1 THEN 2 ELSE sendTerminate
    /\ mic' = FALSE /\ led' = IF mic THEN UiEnableMic(FALSE, led) ELSE led
    /\ due' = (due \ {"idle"}) \ (IF led' # led THEN {"led"} ELSE {})
    /\ pc' = "ui"
    /\ UNCHANGED <<user, matrix, keys, ota, link, advEnable, terminating, mask, shown>>

AppEnterOtaMode ==
    /\ pc = "ble" /\ event = "none" /\ link = "conn" /\ ~ota
    /\ ota' = TRUE /\ led' = DeviceLedSetup(led, "ota") /\ due' = due \ {"led"}
    /\ pc' = "ui"
    /\ UNCHANGED <<user, matrix, keys, mic, radio, conn, mask, shown>>

\* The sleep between two events of the link that keeps only the variables marked
\* for it; not the matrix and not the LED.
RetentionSleep ==
    /\ pc = "ble" /\ event = "none" /\ mask = "retention"
    /\ pre' = {} /\ last' = {} /\ releaseCnt' = 0 /\ retLast' = {} /\ scanPinNeed' = {}
    /\ led' = LedZero /\ due' = due \ {"led"}
    /\ pc' = "ui"
    /\ UNCHANGED <<user, keys, mic, ota, radio, conn, mask, shown>>

\* A key ends the sleep and is scanned at once (BLT_EV_FLAG_GPIO_EARLY_WAKEUP).
EarlyWakeup == pc = "ble" /\ event = "none" /\ mask # "disable" /\ ProcKeyboard /\ pc' = "ui"

BleQuiet ==
    /\ pc = "ble" /\ event = "none" /\ pc' = "ui"
    /\ UNCHANGED <<user, matrix, keys, mic, led, ota, radio, conn, mask, due, shown>>

-----------------------------------------------------------------------------
\* device_led_process and blt_pm_proc.
DeviceLedProcess ==
    IF LedBusy(led) /\ "led" \in due THEN LedProc(led) ELSE led

UserTask == ota \/ scanPinNeed # {} \/ keyNotReleased \/ LedBusy(DeviceLedProcess)

\* A key was found before the terminate packet was answered: no deep sleep.
CallOff == sendTerminate = 1 /\ UserTask

TerminatedOrIdle ==
    \/ sendTerminate = 2
    \/ /\ event = "none" /\ link = "adv" /\ "idle" \in due
       /\ sendTerminate = 0 \/ CallOff

BltPmProc ==
    /\ pc = "pm" /\ pc' = "ble"
    /\ led' = DeviceLedProcess
    /\ mask' = IF mic THEN "disable" ELSE IF UserTask THEN "suspend" ELSE "retention"
    /\ IF mic THEN UNCHANGED <<sendTerminate, advEnable, terminating, link>>
       ELSE /\ ~TerminatedOrIdle
            /\ IF CallOff
               THEN /\ sendTerminate' = 0 /\ advEnable' = TRUE
                    /\ link' = IF link = "none" THEN "adv" ELSE link
                    /\ UNCHANGED terminating
               ELSE IF event = "none" /\ inConn /\ ~UserTask /\ "idle" \in due
               THEN /\ sendTerminate' = 1 /\ advEnable' = FALSE /\ terminating' = TRUE
                    /\ UNCHANGED link
               ELSE UNCHANGED <<sendTerminate, advEnable, terminating, link>>
    /\ due' = due \ {"led"}
    /\ UNCHANGED <<user, matrix, keys, mic, ota, event, inConn, shown>>

DeepSleep == pc = "pm" /\ ~mic /\ TerminatedOrIdle /\ Boot("deep")

Wake == pc = "deep" /\ held # {} /\ Boot("ble")

-----------------------------------------------------------------------------
\* The link layer, in the interrupt; its next event waits for the callback.
Connected ==
    /\ link = "adv" /\ event = "none"
    /\ link' = "conn" /\ event' = "connect"
    /\ UNCHANGED <<user, matrix, keys, mic, led, ota, advEnable, terminating, conn, mask, due, shown, pc>>

\* The terminate packet was answered, the master left or the link was lost.
LinkEnds ==
    /\ link = "conn" /\ event = "none"
    /\ link' = (IF advEnable THEN "adv" ELSE "none") /\ event' = "terminate"
    /\ terminating' = FALSE /\ shown' = {}
    /\ UNCHANGED <<user, matrix, keys, mic, led, ota, advEnable, conn, mask, due, pc>>

\* The update succeeds, fails or times out: the library restarts the chip.
OtaEnds == ota /\ Boot("ble")

\* The minute without a key or a connection, or a period of the LED, is over.
Elapse(t) ==
    /\ pc # "deep" /\ t \notin due /\ (t = "led" => LedBusy(led))
    /\ due' = due \cup {t}
    /\ UNCHANGED <<user, matrix, keys, mic, led, ota, radio, conn, mask, shown, pc>>

Pass ==
    \/ TaskConnect
    \/ BleRemoteTerminate
    \/ AppEnterOtaMode
    \/ RetentionSleep
    \/ EarlyWakeup
    \/ BleQuiet
    \/ ScanKeys
    \/ SkipScan
    \/ LowBattery
    \/ BltPmProc
    \/ DeepSleep

Next ==
    \/ Pass
    \/ Wake
    \/ Connected
    \/ LinkEnds
    \/ OtaEnds
    \/ \E t \in {"idle", "led"} : Elapse(t)
    \/ \E k \in Keys : Move(k)

\* The loop runs and scans, time passes, a key wakes the chip, the link layer ends
\* a link that it was told to end and the library an update (after 15 s at most).
Fairness ==
    /\ WF_vars(Pass) /\ SF_vars(ScanKeys) /\ WF_vars(Wake)
    /\ WF_vars(terminating /\ LinkEnds) /\ WF_vars(OtaEnds)
    /\ \A t \in {"idle", "led"} : WF_vars(Elapse(t))

Spec == Init /\ [][Next]_vars /\ Fairness

-----------------------------------------------------------------------------
\* The values of the variables, repeatCount of the LED and the counters included.
TypeOK ==
    /\ held \subseteq Keys /\ unsettled \subseteq Keys /\ scans \in 0 .. BounceScans
    /\ pre \subseteq Keys /\ last \subseteq Keys /\ retLast \subseteq Keys /\ scanPinNeed \subseteq Keys
    /\ releaseCnt \in 0 .. ReleaseScans - 1
    /\ keyType \in {"idle", "consumer", "keyboard"}
    /\ {keyNotReleased, voicePress, mic, ota, advEnable, inConn, terminating} \subseteq BOOLEAN
    /\ led.repeat \in 0 .. OtaBlinks /\ led.on \in BOOLEAN
    /\ link \in {"adv", "conn", "none"} /\ event \in {"none", "connect", "terminate"}
    /\ sendTerminate \in 0 .. 2 /\ mask \in {"disable", "suspend", "retention"}
    /\ due \subseteq {"idle", "led"} /\ shown \subseteq {"consumer", "keyboard"}
    /\ pc \in {"ble", "ui", "pm", "deep"}

\* When the matrix is no longer scanned, the release of every key has gone through
\* the debouncing and was reported: what a retention sleep forgets is what was
\* forgotten already.  A bounce may not hide a release, and the master sees no key
\* of the last type down.  (It may see one of the other type: key_type holds only
\* one, and a key pressed over another one's release replaces it.)
AtRest ==
    /\ TypeOK
    /\ (scanPinNeed = {} \/ (pc = "ble" /\ mask = "retention")) =>
         /\ pre = {} /\ last = {} /\ releaseCnt = 0
         /\ ~keyNotReleased /\ ~voicePress
         /\ keyType \notin shown

\* The microphone, which keeps the chip awake, is never on without a connection,
\* but until the callback for the lost one; and an LED that is on for good says so.
MicShown ==
    /\ mic => (link = "conn" \/ event = "terminate")
    /\ (led.on /\ ~LedBusy(led)) => mic

\* Left alone, with the microphone off, and with no master that connects again and
\* again, the remote control goes to deep sleep for good.
LeftAloneSleeps ==
    (<>[](held = {} /\ ~mic) /\ ~[]<><<Connected>>_vars) => <>[](pc = "deep")
=============================================================================
