----------------------------- MODULE RemoteProofs -----------------------------
(* Proofs about Remote: the release of every key has gone through the debouncing  *)
(* and was reported when the matrix is no longer scanned (AtRest), and neither    *)
(* the microphone nor the LED is left on (MicShown).                              *)
(*                                                                                *)
(* AtRest speaks of the moment at which release_cnt runs out.  Counting says what *)
(* holds on the way: after a scan without a contact nothing is down but a key     *)
(* that has just moved, the last sample was empty, and after BounceScans + 2 such *)
(* scans the filter has let go; a key that moves meanwhile bounces for one scan   *)
(* and is in contact in the next, so that the count starts again.                 *)
EXTENDS Remote, FiniteSetTheorems, TLAPS

LedType == [repeat : 0 .. OtaBlinks, on : BOOLEAN, priority : Nat, blinks : BOOLEAN]

TypeMatrix ==
    /\ held \subseteq Keys /\ unsettled \subseteq Keys /\ scans \in 0 .. BounceScans
    /\ pre \subseteq Keys /\ last \subseteq Keys /\ retLast \subseteq Keys /\ scanPinNeed \subseteq Keys
    /\ releaseCnt \in 0 .. ReleaseScans - 1

TypeKeys ==
    /\ keyType \in {"idle", "consumer", "keyboard"}
    /\ keyNotReleased \in BOOLEAN /\ voicePress \in BOOLEAN /\ mic \in BOOLEAN
    /\ shown \subseteq {"consumer", "keyboard"} /\ due \subseteq {"idle", "led"}

TypeRadio ==
    /\ ota \in BOOLEAN /\ advEnable \in BOOLEAN /\ inConn \in BOOLEAN /\ terminating \in BOOLEAN
    /\ link \in {"adv", "conn", "none"} /\ event \in {"none", "connect", "terminate"}
    /\ sendTerminate \in {0, 1, 2} /\ mask \in {"disable", "suspend", "retention"}
    /\ pc \in {"ble", "ui", "pm", "deep"}

\* A scan in which a contact bounces leaves it unsettled.
Bouncing == scans # 0 => unsettled # {}

\* What is not scanned was let go, and what is scanned was in contact.
Forgotten == scanPinNeed = {} => pre = {} /\ last = {} /\ releaseCnt = 0
Pins == releaseCnt # 0 => retLast # {}

\* Since the last contact: ReleaseScans - 1 - releaseCnt scans without one.
Counting ==
    scanPinNeed # {} /\ releaseCnt # ReleaseScans - 1 =>
      IF scans # 0
      THEN releaseCnt < ReleaseScans - 2 => held # {}
      ELSE /\ pre = {} /\ held = unsettled
           /\ releaseCnt <= ReleaseScans - 3 - BounceScans => last = {}

\* What the filter has let go of was reported.
Released == last = {} => ~keyNotReleased /\ ~voicePress /\ keyType \notin shown
NoLink == link # "conn" => shown = {}

\* The masks that allow the memory to be lost.
Asleep == (pc = "ble" /\ mask = "retention") \/ pc = "deep" => scanPinNeed = {}

IndInv ==
    /\ TypeMatrix /\ TypeKeys /\ TypeRadio /\ led \in LedType
    /\ Bouncing /\ Forgotten /\ Pins /\ Counting
    /\ Released /\ NoLink /\ Asleep
    /\ MicShown

-----------------------------------------------------------------------------
\* The patterns of the LED are patterns; only the one for the microphone stays on.
LEMMA LedCfgType ==
    ASSUME NEW c \in {"power", "audioOn", "audioOff", "ota"}
    PROVE  /\ LedCfg[c] \in LedType
           /\ LedCfg[c].on /\ ~LedBusy(LedCfg[c]) => c = "audioOn"
<1>1. OtaBlinks \in Nat /\ OtaBlinks >= 1
  BY RemoteAssumption
<1>2. CASE c = "power"
  BY <1>1, <1>2 DEF LedCfg, LedType, LedBusy
<1>3. CASE c = "audioOn"
  BY <1>1, <1>3 DEF LedCfg, LedType, LedBusy
<1>4. CASE c = "audioOff"
  BY <1>1, <1>4 DEF LedCfg, LedType, LedBusy
<1>5. CASE c = "ota"
  BY <1>1, <1>5 DEF LedCfg, LedType, LedBusy
<1> QED BY <1>2, <1>3, <1>4, <1>5

\* device_led_setup takes the pattern, or keeps one that is running.
LEMMA SetupLed ==
    ASSUME NEW l \in LedType, NEW c \in {"power", "audioOn", "audioOff", "ota"}
    PROVE  /\ DeviceLedSetup(l, c) \in LedType
           /\ DeviceLedSetup(l, c).on /\ ~LedBusy(DeviceLedSetup(l, c)) => c = "audioOn"
<1>1. DeviceLedSetup(l, c) = LedCfg[c] \/ (DeviceLedSetup(l, c) = l /\ LedBusy(l))
  BY DEF DeviceLedSetup
<1> QED BY <1>1, LedCfgType

\* led_proc leaves no LED on that is no longer busy.
LEMMA ProcLed ==
    ASSUME NEW l \in LedType, LedBusy(l)
    PROVE  LedProc(l) \in LedType /\ ~(LedProc(l).on /\ ~LedBusy(LedProc(l)))
<1>1. l.repeat \in 1 .. OtaBlinks /\ OtaBlinks \in Nat
  BY RemoteAssumption DEF LedType, LedBusy
<1>2. CASE l.on
  <2>1. PICK r : r = IF l.blinks THEN l.repeat ELSE 0
    OBVIOUS
  <2>2. r \in 0 .. OtaBlinks
    BY <1>1, <2>1
  <2>3. LedProc(l) = [l EXCEPT !.on = FALSE, !.repeat = r]
    BY <1>2, <2>1 DEF LedProc
  <2> QED BY <2>2, <2>3 DEF LedType
<1>3. CASE ~l.on
  <2>1. PICK o : o = (l.repeat # 1)
    OBVIOUS
  <2>2. l.repeat - 1 \in 0 .. OtaBlinks /\ o \in BOOLEAN
    BY <1>1, <2>1
  <2>3. LedProc(l) = [l EXCEPT !.repeat = l.repeat - 1, !.on = o]
    BY <1>3, <2>1 DEF LedProc
  <2>4. LedProc(l) \in LedType /\ LedProc(l).on = o /\ LedProc(l).repeat = l.repeat - 1
    BY <2>2, <2>3 DEF LedType
  <2>5. o => l.repeat - 1 # 0
    <3>1. o => l.repeat # 1
      BY <2>1, Zenon
    <3>2. l.repeat # 1 => l.repeat - 1 # 0
      BY <1>1
    <3> QED BY <3>1, <3>2, Zenon
  <2>6. LedBusy(LedProc(l)) <=> l.repeat - 1 # 0
    BY <2>4 DEF LedBusy
  <2> QED BY <2>4, <2>5, <2>6
<1> QED BY <1>2, <1>3

-----------------------------------------------------------------------------
\* What the pins show is in contact or may be.
LEMMA ContactKeys ==
    ASSUME TypeMatrix, NEW c \in Contacts
    PROVE  c \subseteq Keys
BY DEF TypeMatrix, Contacts

\* A scan in which nothing bounces sees the keys that are down.
LEMMA SettledContact ==
    ASSUME NEW c \in Contacts, ~(scans < BounceScans /\ unsettled # {})
    PROVE  c = held
<1>1. CASE scans < BounceScans
  <2>1. unsettled = {}
    BY <1>1
  <2> QED BY <1>1, <2>1 DEF Contacts
<1>2. CASE ~(scans < BounceScans)
  BY <1>2 DEF Contacts
<1> QED BY <1>1, <1>2

\* proc_keyboard: the matrix and its filter.
LEMMA ScanMatrix ==
    ASSUME IndInv, ProcKeyboard
    PROVE  /\ TypeMatrix' /\ Bouncing' /\ Forgotten' /\ Pins' /\ Counting'
<1>1. PICK contact \in Contacts : KbKeyPressed(contact)
  BY DEF ProcKeyboard
<1>2. /\ held' = held
      /\ IF scanPinNeed' = {} THEN pre' = pre /\ last' = last
         ELSE \E sample \in {c \cap scanPinNeed' : c \in Contacts} :
                pre' = sample /\ last' = Debounced(sample)
      /\ Settle
  BY DEF ProcKeyboard
<1>3. /\ TypeMatrix /\ BounceScans \in {0, 1} /\ ReleaseScans \in Nat
      /\ ReleaseScans >= BounceScans + 3 /\ releaseCnt \in Nat /\ releaseCnt <= ReleaseScans - 1
      /\ scans \in Nat /\ scans <= BounceScans
  BY RemoteAssumption DEF IndInv, TypeMatrix
<1>4. contact \subseteq Keys
  BY <1>3, ContactKeys
<1>5. /\ scans' \in 0 .. BounceScans /\ unsettled' \subseteq Keys /\ (scans' # 0 => unsettled' # {})
  BY <1>2, <1>3 DEF Settle, TypeMatrix
<1>6. CASE contact # {}
  <2>1. retLast' = contact /\ releaseCnt' = ReleaseScans - 1 /\ scanPinNeed' = contact
    BY <1>1, <1>3, <1>6 DEF KbKeyPressed
  <2>2. PICK c \in Contacts : pre' = c \cap contact /\ last' = Debounced(c \cap contact)
    BY <1>2, <1>6, <2>1
  <2>3. pre' \subseteq Keys /\ last' \subseteq Keys
    BY <1>3, <1>4, <2>2, ContactKeys DEF Debounced, TypeMatrix
  <2>4. TypeMatrix'
    BY <1>2, <1>3, <1>4, <1>5, <2>1, <2>3 DEF TypeMatrix
  <2> QED BY <1>5, <1>6, <2>1, <2>4 DEF Bouncing, Forgotten, Pins, Counting
<1>7. CASE contact = {} /\ releaseCnt = 0
  <2>1. retLast' = retLast /\ releaseCnt' = 0 /\ scanPinNeed' = {}
    BY <1>1, <1>7 DEF KbKeyPressed
  <2>2. pre' = pre /\ last' = last
    BY <1>2, <2>1
  <2>3. pre = {} /\ last = {}
    <3>1. CASE scanPinNeed = {}
      BY <3>1 DEF IndInv, Forgotten
    <3>2. CASE scanPinNeed # {} /\ scans # 0
      <4>1. held # {}
        BY <1>3, <1>7, <3>2 DEF IndInv, Counting
      <4>2. ~(scans < BounceScans)
        BY <1>3, <3>2
      <4> QED BY <1>7, <4>1, <4>2, SettledContact
    <3>3. CASE scanPinNeed # {} /\ scans = 0
      BY <1>3, <1>7, <3>3 DEF IndInv, Counting
    <3> QED BY <3>1, <3>2, <3>3
  <2>4. TypeMatrix'
    BY <1>2, <1>3, <1>5, <2>1, <2>2 DEF TypeMatrix
  <2> QED BY <1>5, <2>1, <2>2, <2>3, <2>4 DEF Bouncing, Forgotten, Pins, Counting
<1>8. CASE contact = {} /\ releaseCnt # 0
  <2>1. /\ retLast' = retLast /\ releaseCnt' = releaseCnt - 1 /\ scanPinNeed' = retLast
        /\ retLast # {} /\ scanPinNeed # {}
    BY <1>1, <1>8 DEF KbKeyPressed, IndInv, Pins, Forgotten
  <2>2. PICK c \in Contacts : pre' = c \cap retLast /\ last' = Debounced(c \cap retLast)
    BY <1>2, <2>1
  <2>3. pre' \subseteq Keys /\ last' \subseteq Keys
    BY <1>3, <2>2, ContactKeys DEF Debounced, TypeMatrix
  <2>4. TypeMatrix'
    <3>1. releaseCnt' \in 0 .. ReleaseScans - 1
      BY <1>3, <1>8, <2>1
    <3>2. /\ held' \subseteq Keys /\ retLast' \subseteq Keys /\ scanPinNeed' \subseteq Keys
      BY <1>2, <1>3, <2>1 DEF TypeMatrix
    <3> QED BY <1>5, <2>3, <3>1, <3>2 DEF TypeMatrix
  <2>5. Counting'
    <3>1. CASE scans < BounceScans /\ unsettled # {}
      <4>1. scans = 0 /\ scans' = 1 /\ unsettled' = unsettled
        BY <1>2, <1>3, <3>1 DEF Settle
      <4>2. ASSUME releaseCnt' < ReleaseScans - 2 PROVE held # {}
        <5>1. releaseCnt # ReleaseScans - 1
          BY <1>3, <2>1, <4>2
        <5> QED BY <2>1, <3>1, <4>1, <5>1 DEF IndInv, Counting
      <4> QED BY <1>2, <4>1, <4>2 DEF Counting
    <3>2. CASE ~(scans < BounceScans /\ unsettled # {})
      <4>1. scans' = 0 /\ unsettled' = {}
        BY <1>2, <3>2 DEF Settle
      <4>2. held = {} /\ c = {}
        BY <1>8, <3>2, SettledContact
      <4>3. pre' = {} /\ last' = last \cap pre
        BY <2>2, <4>2 DEF Debounced
      <4>4. ASSUME releaseCnt' <= ReleaseScans - 3 - BounceScans PROVE last' = {}
        <5>1. releaseCnt # ReleaseScans - 1
          BY <1>3, <2>1, <4>4
        <5>2. CASE scans # 0
          <6>1. BounceScans = 1
            BY <1>3, <5>2
          <6>2. releaseCnt < ReleaseScans - 2
            BY <1>3, <2>1, <4>4, <6>1
          <6> QED BY <2>1, <4>2, <5>1, <5>2, <6>2 DEF IndInv, Counting
        <5>3. CASE scans = 0
          <6>1. pre = {}
            BY <2>1, <5>1, <5>3 DEF IndInv, Counting
          <6> QED BY <4>3, <6>1
        <5> QED BY <5>2, <5>3
      <4> QED BY <1>2, <4>1, <4>2, <4>3, <4>4 DEF Counting
    <3> QED BY <3>1, <3>2
  <2> QED BY <1>5, <2>1, <2>4, <2>5 DEF Bouncing, Forgotten, Pins
<1> QED BY <1>6, <1>7, <1>8

\* key_change_proc: when the filter holds no key, what it had reported is taken
\* back, and the microphone goes off with its LED.
LEMMA KeysChange ==
    ASSUME IndInv, KeyChangeProc, link' = link, event' = event
    PROVE  TypeKeys' /\ Released' /\ NoLink' /\ led' \in LedType /\ MicShown'
<1>1. /\ TypeKeys /\ led \in LedType /\ NoLink /\ MicShown
  BY DEF IndInv
<1>2. keyNotReleased' \in BOOLEAN /\ voicePress' \in BOOLEAN /\ mic' \in BOOLEAN /\ (mic' => mic)
  <2>1. /\ keyNotReleased' = (Cardinality(last') \in {1, 2})
        /\ voicePress' = (last' = {VOICE} /\ ~mic)
        /\ mic' = (mic /\ last' # {VOICE})
    BY DEF KeyChangeProc
  <2>2. mic \in BOOLEAN
    BY <1>1 DEF TypeKeys
  <2> QED BY <2>1, <2>2
<1>3. /\ keyType' \in {"idle", "consumer", "keyboard"} /\ shown' \subseteq {"consumer", "keyboard"}
      /\ link # "conn" => shown' = shown
  <2>1. CASE Cardinality(last') = 2 \/ last' = {VOICE}
    <3>1. ~(Cardinality(last') = 1 /\ last' # {VOICE})
      BY <2>1
    <3>2. keyType' = keyType /\ shown' = shown
      BY <2>1, <3>1 DEF KeyChangeProc
    <3> QED BY <1>1, <3>2 DEF TypeKeys
  <2>2. CASE ~(Cardinality(last') = 2 \/ last' = {VOICE}) /\ Cardinality(last') = 1 /\ last' # {VOICE}
    <3>1. PICK k \in last' : keyType' = TypeOf(k) /\ Report(TypeOf(k), TRUE)
      BY <2>2 DEF KeyChangeProc
    <3>2. TypeOf(k) \in {"consumer", "keyboard"}
      BY DEF TypeOf
    <3> QED BY <1>1, <3>1, <3>2 DEF Report, TypeKeys
  <2>3. CASE ~(Cardinality(last') = 2 \/ last' = {VOICE}) /\ ~(Cardinality(last') = 1 /\ last' # {VOICE})
    <3>1. keyType' = keyType /\ Report(keyType, FALSE)
      BY <2>3 DEF KeyChangeProc
    <3> QED BY <1>1, <3>1 DEF Report, TypeKeys
  <2> QED BY <2>1, <2>2, <2>3
<1>4. due' \subseteq {"idle", "led"}
  BY <1>1 DEF KeyChangeProc, TypeKeys
<1>5. Released'
  <2> SUFFICES ASSUME last' = {} PROVE ~keyNotReleased' /\ ~voicePress' /\ keyType' \notin shown'
    BY DEF Released
  <2>1. Cardinality(last') \notin {1, 2} /\ last' # {VOICE}
    BY FS_EmptySet
  <2>2. keyType' = keyType /\ Report(keyType, FALSE)
    <3>1. ~(Cardinality(last') = 2 \/ last' = {VOICE}) /\ ~(Cardinality(last') = 1 /\ last' # {VOICE})
      BY <2>1
    <3> QED BY <3>1 DEF KeyChangeProc
  <2>3. keyType' \notin shown'
    BY <1>1, <2>2 DEF Report, NoLink
  <2>4. ~keyNotReleased'
    BY <2>1 DEF KeyChangeProc
  <2>5. ~voicePress'
    BY <2>1 DEF KeyChangeProc
  <2> QED BY <2>3, <2>4, <2>5
<1>6. /\ led' \in LedType
      /\ led'.on /\ ~LedBusy(led') => mic'
  <2>1. CASE mic /\ ~mic'
    <3>1. led' = DeviceLedSetup(led, "audioOff")
      BY <2>1 DEF KeyChangeProc, UiEnableMic
    <3> QED BY <1>1, <3>1, SetupLed
  <2>2. CASE ~(mic /\ ~mic')
    <3>1. led' = led
      BY <2>2 DEF KeyChangeProc
    <3>2. mic => mic'
      BY <1>2, <2>2
    <3> QED BY <1>1, <3>1, <3>2 DEF MicShown, LedBusy
  <2> QED BY <2>1, <2>2
<1> QED BY <1>1, <1>2, <1>3, <1>4, <1>5, <1>6 DEF TypeKeys, NoLink, MicShown, LedBusy

\* proc_keyboard: the keys, the microphone and the LED.
LEMMA ScanKeyState ==
    ASSUME IndInv, ProcKeyboard
    PROVE  TypeKeys' /\ Released' /\ NoLink' /\ led' \in LedType /\ MicShown'
<1>1. link' = link /\ event' = event
  BY DEF ProcKeyboard, radio
<1>2. CASE last' # last
  BY <1>1, <1>2, KeysChange DEF ProcKeyboard
<1>3. CASE last' = last /\ VoicePressProc
  <2>1. TypeKeys' /\ Released' /\ NoLink' /\ mic' = TRUE /\ link = "conn"
    BY <1>1, <1>3 DEF IndInv, TypeKeys, Released, NoLink, VoicePressProc
  <2>2. led' = DeviceLedSetup(led, "audioOn")
    BY <1>3 DEF VoicePressProc, UiEnableMic
  <2>3. led' \in LedType
    BY <2>2, SetupLed DEF IndInv
  <2> QED BY <1>1, <2>1, <2>3 DEF MicShown
<1>4. CASE last' = last /\ UNCHANGED <<keys, mic, led, due, shown>>
  <2>1. /\ keyNotReleased' = keyNotReleased /\ keyType' = keyType /\ voicePress' = voicePress
        /\ mic' = mic /\ led' = led /\ due' = due /\ shown' = shown
    BY <1>4 DEF keys
  <2> QED BY <1>1, <1>4, <2>1 DEF IndInv, TypeKeys, Released, NoLink, MicShown, LedBusy
<1> QED BY <1>2, <1>3, <1>4 DEF ProcKeyboard

-----------------------------------------------------------------------------
\* A step that touches neither the keys that are down nor the matrix.
LEMMA MatrixKept ==
    ASSUME IndInv, UNCHANGED <<user, matrix>>
    PROVE  TypeMatrix' /\ Bouncing' /\ Forgotten' /\ Pins' /\ Counting'
<1>1. /\ held' = held /\ unsettled' = unsettled /\ scans' = scans
      /\ pre' = pre /\ last' = last /\ releaseCnt' = releaseCnt
      /\ retLast' = retLast /\ scanPinNeed' = scanPinNeed
  BY DEF user, matrix
<1> QED BY <1>1 DEF IndInv, TypeMatrix, Bouncing, Forgotten, Pins, Counting

\* user_init_normal, and the state of the memory in a deep sleep.
LEMMA BootInd ==
    ASSUME IndInv, NEW at \in {"deep", "ble"}, Boot(at)
    PROVE  IndInv'
<1>1. /\ pre' = {} /\ last' = {} /\ releaseCnt' = 0 /\ retLast' = {} /\ scanPinNeed' = {}
      /\ unsettled' = {} /\ scans' = 0 /\ held' = held
  BY DEF Boot
<1>2. ReleaseScans \in Nat /\ ReleaseScans >= 3 /\ BounceScans \in Nat /\ OtaBlinks \in Nat /\ OtaBlinks >= 1
  BY RemoteAssumption
<1>3. TypeMatrix' /\ Bouncing' /\ Forgotten' /\ Pins' /\ Counting'
  BY <1>1, <1>2 DEF IndInv, TypeMatrix, Bouncing, Forgotten, Pins, Counting
<1>4. TypeKeys' /\ Released' /\ NoLink'
  BY DEF Boot, TypeKeys, Released, NoLink
<1>5. TypeRadio' /\ Asleep'
  <2>1. /\ ota' = FALSE /\ advEnable' = TRUE /\ inConn' = FALSE /\ terminating' = FALSE
        /\ link' \in {"none", "adv"} /\ event' = "none" /\ sendTerminate' = 0
        /\ mask' = "retention" /\ pc' = at /\ scanPinNeed' = {}
    BY DEF Boot
  <2> QED BY <2>1 DEF TypeRadio, Asleep
<1>6. led' \in LedType /\ ~(led'.on /\ ~LedBusy(led'))
  <2>1. led' = LedZero \/ led' = LedCfg["power"]
    BY DEF Boot
  <2>2. LedZero \in LedType /\ ~LedZero.on
    BY <1>2 DEF LedZero, LedType
  <2> QED BY <2>1, <2>2, LedCfgType
<1>7. MicShown'
  BY <1>6 DEF Boot, MicShown, LedBusy
<1> QED BY <1>3, <1>4, <1>5, <1>6, <1>7 DEF IndInv

\* The remote control starts so.
LEMMA InitInd == Init => IndInv
<1> SUFFICES ASSUME Init PROVE IndInv
  OBVIOUS
<1>1. ReleaseScans \in Nat /\ ReleaseScans >= 3 /\ BounceScans \in Nat
  BY RemoteAssumption
<1>2. TypeMatrix /\ Bouncing /\ Forgotten /\ Pins /\ Counting
  BY <1>1 DEF Init, TypeMatrix, Bouncing, Forgotten, Pins, Counting
<1>3. TypeKeys /\ Released /\ NoLink /\ Asleep
  BY DEF Init, TypeKeys, Released, NoLink, Asleep
<1>7. TypeRadio
  BY DEF Init, TypeRadio
<1>4. led = LedCfg["power"]
  BY DEF Init
<1>5. led \in LedType /\ ~(led.on /\ ~LedBusy(led))
  BY <1>4, LedCfgType
<1>6. MicShown
  BY <1>5 DEF Init, MicShown
<1> QED BY <1>2, <1>3, <1>5, <1>6, <1>7 DEF IndInv

-----------------------------------------------------------------------------
\* A scan of the keys, in the loop or on a wakeup by a key.
LEMMA ScanInd ==
    ASSUME IndInv, ProcKeyboard, pc' \in {"ui", "pm"}
    PROVE  IndInv'
<1>1. /\ ota' = ota /\ link' = link /\ event' = event /\ advEnable' = advEnable
      /\ terminating' = terminating /\ inConn' = inConn /\ sendTerminate' = sendTerminate
      /\ mask' = mask
  BY DEF ProcKeyboard, radio, conn
<1>2. TypeRadio' /\ Asleep'
  BY <1>1 DEF IndInv, TypeRadio, Asleep
<1> QED BY <1>2, ScanMatrix, ScanKeyState DEF IndInv

\* The BLE entry and its callbacks.
LEMMA BleInd ==
    ASSUME IndInv, TaskConnect \/ BleRemoteTerminate \/ AppEnterOtaMode \/ RetentionSleep \/ BleQuiet
    PROVE  IndInv'
<1> USE DEF user, matrix, keys, radio, conn
<1>0. /\ TypeKeys /\ TypeRadio /\ led \in LedType /\ Released /\ NoLink /\ MicShown
  BY DEF IndInv
<1>1. CASE TaskConnect
  <2>1. TypeMatrix' /\ Bouncing' /\ Forgotten' /\ Pins' /\ Counting'
    BY <1>1, MatrixKept DEF TaskConnect
  <2>2. TypeKeys' /\ TypeRadio'
    BY <1>0, <1>1 DEF TaskConnect, TypeKeys, TypeRadio
  <2>3. Released' /\ NoLink' /\ Asleep' /\ MicShown' /\ led' \in LedType
    BY <1>0, <1>1 DEF TaskConnect, Released, NoLink, Asleep, MicShown, LedBusy
  <2> QED BY <2>1, <2>2, <2>3 DEF IndInv
<1>2. CASE BleRemoteTerminate
  <2>1. TypeMatrix' /\ Bouncing' /\ Forgotten' /\ Pins' /\ Counting'
    BY <1>2, MatrixKept DEF BleRemoteTerminate
  <2>2. TypeKeys' /\ TypeRadio'
    <3>1. /\ keyType' = keyType /\ keyNotReleased' = keyNotReleased /\ voicePress' = voicePress
          /\ mic' = FALSE /\ shown' = shown /\ due' \subseteq due
      BY <1>2 DEF BleRemoteTerminate
    <3>2. /\ ota' = ota /\ advEnable' = advEnable /\ inConn' = FALSE /\ terminating' = terminating
          /\ link' = link /\ event' = "none" /\ mask' = mask /\ pc' = "ui"
          /\ sendTerminate' \in {sendTerminate, 2}
      BY <1>2 DEF BleRemoteTerminate
    <3>3. TypeKeys'
      BY <1>0, <3>1 DEF TypeKeys
    <3>4. TypeRadio'
      BY <1>0, <3>2 DEF TypeRadio
    <3> QED BY <3>3, <3>4
  <2>3. Released' /\ NoLink' /\ Asleep'
    BY <1>0, <1>2 DEF BleRemoteTerminate, Released, NoLink, Asleep
  <2>4. led' \in LedType /\ ~(led'.on /\ ~LedBusy(led'))
    <3>1. CASE mic
      <4>1. led' = DeviceLedSetup(led, "audioOff")
        BY <1>2, <3>1 DEF BleRemoteTerminate, UiEnableMic
      <4> QED BY <1>0, <4>1, SetupLed
    <3>2. CASE ~mic
      BY <1>0, <1>2, <3>2 DEF BleRemoteTerminate, MicShown, LedBusy
    <3> QED BY <3>1, <3>2
  <2>5. MicShown'
    BY <1>2, <2>4 DEF BleRemoteTerminate, MicShown, LedBusy
  <2> QED BY <2>1, <2>2, <2>3, <2>4, <2>5 DEF IndInv
<1>3. CASE AppEnterOtaMode
  <2>1. TypeMatrix' /\ Bouncing' /\ Forgotten' /\ Pins' /\ Counting'
    BY <1>3, MatrixKept DEF AppEnterOtaMode
  <2>2. TypeKeys' /\ TypeRadio'
    BY <1>0, <1>3 DEF AppEnterOtaMode, TypeKeys, TypeRadio
  <2>3. Released' /\ NoLink' /\ Asleep'
    BY <1>0, <1>3 DEF AppEnterOtaMode, Released, NoLink, Asleep
  <2>4. led' \in LedType /\ ~(led'.on /\ ~LedBusy(led'))
    <3>1. led' = DeviceLedSetup(led, "ota")
      BY <1>3 DEF AppEnterOtaMode
    <3> QED BY <1>0, <3>1, SetupLed
  <2>5. MicShown'
    BY <1>0, <1>3, <2>4 DEF AppEnterOtaMode, MicShown, LedBusy
  <2> QED BY <2>1, <2>2, <2>3, <2>4, <2>5 DEF IndInv
<1>4. CASE RetentionSleep
  <2>1. scanPinNeed = {} /\ last = {}
    BY <1>4 DEF IndInv, RetentionSleep, Asleep, Forgotten
  <2>2. /\ pre' = {} /\ last' = {} /\ releaseCnt' = 0 /\ retLast' = {} /\ scanPinNeed' = {}
        /\ held' = held /\ unsettled' = unsettled /\ scans' = scans
    BY <1>4 DEF RetentionSleep
  <2>3. ReleaseScans \in Nat /\ ReleaseScans >= 3
    BY RemoteAssumption
  <2>4. TypeMatrix' /\ Bouncing' /\ Forgotten' /\ Pins' /\ Counting'
    BY <2>2, <2>3 DEF IndInv, TypeMatrix, Bouncing, Forgotten, Pins, Counting
  <2>5. TypeKeys' /\ TypeRadio'
    BY <1>0, <1>4 DEF RetentionSleep, TypeKeys, TypeRadio
  <2>6. Released' /\ NoLink' /\ Asleep'
    BY <1>0, <1>4, <2>1 DEF RetentionSleep, Released, NoLink, Asleep
  <2>7. led' \in LedType /\ ~led'.on
    BY <1>4, RemoteAssumption DEF RetentionSleep, LedZero, LedType
  <2>8. MicShown'
    BY <1>0, <1>4, <2>7 DEF RetentionSleep, MicShown
  <2> QED BY <2>4, <2>5, <2>6, <2>7, <2>8 DEF IndInv
<1>5. CASE BleQuiet
  <2>1. TypeMatrix' /\ Bouncing' /\ Forgotten' /\ Pins' /\ Counting'
    BY <1>5, MatrixKept DEF BleQuiet
  <2>2. TypeKeys' /\ TypeRadio'
    BY <1>0, <1>5 DEF BleQuiet, TypeKeys, TypeRadio
  <2>3. Released' /\ NoLink' /\ Asleep' /\ MicShown' /\ led' \in LedType
    BY <1>0, <1>5 DEF BleQuiet, Released, NoLink, Asleep, MicShown, LedBusy
  <2> QED BY <2>1, <2>2, <2>3 DEF IndInv
<1> QED BY <1>1, <1>2, <1>3, <1>4, <1>5

\* The power management: a mask that allows the memory to be lost is set only when
\* no key is scanned.
LEMMA PmInd == ASSUME IndInv, BltPmProc PROVE IndInv'
<1>1. /\ user' = user /\ matrix' = matrix /\ keys' = keys /\ mic' = mic /\ ota' = ota
      /\ event' = event /\ inConn' = inConn /\ shown' = shown /\ pc' = "ble"
      /\ due' = due \ {"led"} /\ led' = DeviceLedProcess
  BY DEF BltPmProc
<1>2. /\ TypeKeys /\ TypeRadio /\ led \in LedType /\ Released /\ NoLink /\ MicShown
  BY DEF IndInv
<1>3. TypeMatrix' /\ Bouncing' /\ Forgotten' /\ Pins' /\ Counting'
  BY <1>1, MatrixKept
<1>4. TypeKeys' /\ Released'
  BY <1>1, <1>2 DEF TypeKeys, Released, keys, matrix
<1>5. /\ sendTerminate' \in {sendTerminate, 0, 1} /\ advEnable' \in {advEnable, TRUE, FALSE}
      /\ terminating' \in {terminating, TRUE} /\ (link' = link \/ (link = "none" /\ link' = "adv"))
      /\ mic => link' = link
  <2>1. CASE mic
    BY <2>1 DEF BltPmProc
  <2>2. CASE ~mic /\ CallOff
    BY <2>2 DEF BltPmProc
  <2>3. CASE ~mic /\ ~CallOff
    BY <2>3 DEF BltPmProc
  <2> QED BY <2>1, <2>2, <2>3
<1>6. mask' \in {"disable", "suspend", "retention"} /\ (mask' = "retention" => ~UserTask)
  BY DEF BltPmProc
<1>7. TypeRadio'
  BY <1>1, <1>2, <1>5, <1>6 DEF TypeRadio
<1>8. NoLink' /\ Asleep'
  BY <1>1, <1>2, <1>5, <1>6 DEF NoLink, Asleep, UserTask, matrix
<1>9. led' \in LedType /\ (led'.on /\ ~LedBusy(led') => mic)
  <2>1. led' = led \/ (led' = LedProc(led) /\ LedBusy(led))
    BY <1>1 DEF DeviceLedProcess
  <2> QED BY <1>2, <2>1, ProcLed DEF MicShown, LedBusy
<1>10. MicShown'
  BY <1>1, <1>2, <1>5, <1>9 DEF MicShown, LedBusy
<1> QED BY <1>3, <1>4, <1>7, <1>8, <1>9, <1>10 DEF IndInv

\* The link layer's interrupt.
LEMMA RadioInd == ASSUME IndInv, Connected \/ LinkEnds PROVE IndInv'
<1>1. /\ user' = user /\ matrix' = matrix /\ keys' = keys /\ mic' = mic /\ ota' = ota
      /\ led' = led /\ conn' = conn /\ mask' = mask /\ due' = due /\ pc' = pc
      /\ advEnable' = advEnable
  BY DEF Connected, LinkEnds
<1>2. /\ link' \in {"adv", "conn", "none"} /\ event' \in {"connect", "terminate"}
      /\ terminating' \in {terminating, FALSE} /\ shown' \subseteq shown
      /\ link' = "conn" \/ (event' = "terminate" /\ shown' = {})
  BY DEF Connected, LinkEnds
<1>3. /\ TypeKeys /\ TypeRadio /\ led \in LedType /\ Released /\ Asleep /\ MicShown
  BY DEF IndInv
<1>4. TypeMatrix' /\ Bouncing' /\ Forgotten' /\ Pins' /\ Counting'
  BY <1>1, MatrixKept
<1>5. TypeKeys' /\ Released'
  BY <1>1, <1>2, <1>3 DEF TypeKeys, Released, keys, matrix
<1>6. TypeRadio'
  BY <1>1, <1>2, <1>3 DEF TypeRadio, conn
<1>7. NoLink' /\ Asleep' /\ MicShown' /\ led' \in LedType
  BY <1>1, <1>2, <1>3 DEF NoLink, Asleep, MicShown, LedBusy, matrix
<1> QED BY <1>4, <1>5, <1>6, <1>7 DEF IndInv

\* Time passes, or a scan is left out.
LEMMA QuietInd ==
    ASSUME IndInv, SkipScan \/ (\E t \in {"idle", "led"} : Elapse(t))
    PROVE  IndInv'
<1>1. /\ user' = user /\ matrix' = matrix /\ keys' = keys /\ mic' = mic /\ ota' = ota
      /\ led' = led /\ radio' = radio /\ conn' = conn /\ mask' = mask /\ shown' = shown
      /\ due' \subseteq due \cup {"idle", "led"} /\ (pc' = pc \/ pc' = "pm")
  BY DEF SkipScan, Elapse
<1>2. /\ TypeKeys /\ TypeRadio /\ led \in LedType /\ Released /\ NoLink /\ Asleep /\ MicShown
  BY DEF IndInv
<1>3. TypeMatrix' /\ Bouncing' /\ Forgotten' /\ Pins' /\ Counting'
  BY <1>1, MatrixKept
<1>4. TypeKeys' /\ Released'
  BY <1>1, <1>2 DEF TypeKeys, Released, keys, matrix
<1>5. TypeRadio'
  BY <1>1, <1>2 DEF TypeRadio, radio, conn
<1>6. NoLink' /\ Asleep' /\ MicShown' /\ led' \in LedType
  BY <1>1, <1>2 DEF NoLink, Asleep, MicShown, LedBusy, radio, matrix
<1> QED BY <1>3, <1>4, <1>5, <1>6 DEF IndInv

\* A key moves: it is the only one that is down, or none is, while release_cnt runs.
LEMMA MoveInd ==
    ASSUME IndInv, NEW k \in Keys, Move(k)
    PROVE  IndInv'
<1>1. /\ matrix' = matrix /\ keys' = keys /\ mic' = mic /\ ota' = ota /\ shown' = shown
      /\ led' = led /\ radio' = radio /\ conn' = conn /\ mask' = mask /\ due' = due /\ pc' = pc
  BY DEF Move
<1>2. /\ TypeKeys /\ TypeRadio /\ led \in LedType /\ Released /\ NoLink /\ Asleep /\ MicShown
      /\ TypeMatrix /\ Forgotten /\ Pins
  BY DEF IndInv
<1>3. /\ unsettled = {} /\ scans' = 0 /\ scans = 0
  BY DEF Move, IndInv, Bouncing
<1>4. TypeMatrix'
  <2>1. held' \subseteq Keys /\ unsettled' \subseteq Keys
    BY <1>2 DEF Move, TypeMatrix
  <2> QED BY <1>1, <1>2, <1>3, <2>1, RemoteAssumption DEF TypeMatrix, matrix
<1>5. Bouncing' /\ Forgotten' /\ Pins'
  BY <1>1, <1>2, <1>3 DEF Bouncing, Forgotten, Pins, matrix
<1>6. Counting'
  <2> SUFFICES ASSUME scanPinNeed # {}, releaseCnt # ReleaseScans - 1
               PROVE  /\ pre = {} /\ held' = unsettled'
                      /\ releaseCnt <= ReleaseScans - 3 - BounceScans => last = {}
    BY <1>1, <1>3 DEF Counting, matrix
  <2>1. /\ pre = {} /\ held = {}
        /\ releaseCnt <= ReleaseScans - 3 - BounceScans => last = {}
    BY <1>3 DEF IndInv, Counting
  <2>2. pc # "deep"
    BY <1>2 DEF Asleep
  <2> QED BY <2>1, <2>2 DEF Move
<1>7. TypeKeys' /\ Released'
  BY <1>1, <1>2 DEF TypeKeys, Released, keys, matrix
<1>8. TypeRadio'
  BY <1>1, <1>2 DEF TypeRadio, radio, conn
<1>9. NoLink' /\ Asleep' /\ MicShown' /\ led' \in LedType
  BY <1>1, <1>2 DEF NoLink, Asleep, MicShown, LedBusy, radio, matrix
<1> QED BY <1>4, <1>5, <1>6, <1>7, <1>8, <1>9 DEF IndInv

\* Every step preserves the invariant.
LEMMA NextInd == IndInv /\ [Next]_vars => IndInv'
<1> SUFFICES ASSUME IndInv, [Next]_vars PROVE IndInv'
  OBVIOUS
<1>1. CASE TaskConnect \/ BleRemoteTerminate \/ AppEnterOtaMode \/ RetentionSleep \/ BleQuiet
  BY <1>1, BleInd
<1>2. CASE EarlyWakeup
  BY <1>2, ScanInd DEF EarlyWakeup
<1>3. CASE ScanKeys
  BY <1>3, ScanInd DEF ScanKeys
<1>4. CASE SkipScan \/ (\E t \in {"idle", "led"} : Elapse(t))
  BY <1>4, QuietInd
<1>5. CASE LowBattery \/ DeepSleep
  BY <1>5, BootInd DEF LowBattery, DeepSleep
<1>6. CASE BltPmProc
  BY <1>6, PmInd
<1>7. CASE Wake \/ OtaEnds
  BY <1>7, BootInd DEF Wake, OtaEnds
<1>8. CASE Connected \/ LinkEnds
  BY <1>8, RadioInd
<1>9. CASE \E k \in Keys : Move(k)
  BY <1>9, MoveInd
<1>10. CASE UNCHANGED vars
  <2>1. /\ user' = user /\ matrix' = matrix /\ keys' = keys /\ mic' = mic /\ ota' = ota
        /\ led' = led /\ radio' = radio /\ conn' = conn /\ mask' = mask /\ shown' = shown
        /\ due' = due /\ pc' = pc
    BY <1>10 DEF vars
  <2>2. TypeMatrix' /\ Bouncing' /\ Forgotten' /\ Pins' /\ Counting'
    BY <2>1, MatrixKept
  <2>3. TypeKeys' /\ Released'
    BY <2>1 DEF IndInv, TypeKeys, Released, keys, matrix
  <2>4. TypeRadio'
    BY <2>1 DEF IndInv, TypeRadio, radio, conn
  <2>5. NoLink' /\ Asleep' /\ MicShown' /\ led' \in LedType
    BY <2>1 DEF IndInv, NoLink, Asleep, MicShown, LedBusy, radio, matrix
  <2> QED BY <2>2, <2>3, <2>4, <2>5 DEF IndInv
<1> QED BY <1>1, <1>2, <1>3, <1>4, <1>5, <1>6, <1>7, <1>8, <1>9, <1>10 DEF Next, Pass

\* The inductive invariant of the remote control's loop: what the matrix, its
\* filter and release_cnt say of the keys that are down, and what was reported.
THEOREM SpecInv == Spec => []IndInv
BY InitInd, NextInd, PTL DEF Spec

\* When kb_scan_key stops scanning (release_cnt is over), and whenever the memory of
\* the matrix may be lost in a retention sleep, every release was debounced and
\* reported, for every set of keys and every release_cnt of at least BounceScans + 3.
THEOREM AtRestThm == Spec => []AtRest
<1>1. IndInv => AtRest
  <2> SUFFICES ASSUME IndInv PROVE AtRest
    OBVIOUS
  <2>1. TypeOK
    <3>1. led.repeat \in 0 .. OtaBlinks /\ led.on \in BOOLEAN
      BY DEF IndInv, LedType
    <3>2. sendTerminate \in 0 .. 2
      BY DEF IndInv, TypeRadio
    <3> QED BY <3>1, <3>2 DEF IndInv, TypeOK, TypeMatrix, TypeKeys, TypeRadio
  <2> QED BY <2>1 DEF IndInv, AtRest, Asleep, Forgotten, Released
<1> QED BY <1>1, SpecInv, PTL

\* ui_enable_mic: the microphone does not outlive the connection and its callback,
\* and an LED that is on for good shows a microphone that is on.
THEOREM MicShownThm == Spec => []MicShown
<1>1. IndInv => MicShown
  BY DEF IndInv
<1> QED BY <1>1, SpecInv, PTL
=============================================================================
