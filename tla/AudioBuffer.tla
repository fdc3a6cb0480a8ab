---------------------------- MODULE AudioBuffer ------------------------------
(* The microphone path of the dongle (audio_buffer.c, blm_att.c): notifications *)
(* put packets into abuf_mic, the main loop decodes one packet per pass into    *)
(* abuf_dec, and the interrupt of the isochronous USB endpoint sends it on.     *)
(*                                                                             *)
(* The interrupt runs to its end and may come between any two steps of the main *)
(* loop.  Its period is 1 ms, so a pass meets few of them: far less than a reset *)
(* lasts, for what takes longer (writing the flash) disables interrupts.        *)
(* Samples are counted in units of eight: a packet decodes to Frame units, an   *)
(* odd number, and the PC is sent two units at a time.                          *)
EXTENDS Integers, FiniteSets

CONSTANTS
    Frame,          \* units of a decoded frame (31)
    Modulus,        \* the write pointers count modulo this (256)
    ResetCount,     \* interrupts that a reset lasts (16)
    AddPerPass,     \* bound: packets that one pass of the main loop receives
    IrqPerPass      \* bound: interrupts during one pass of the main loop

Slots == 4          \* frames of abuf_mic and of abuf_dec
Packet == 2         \* units of one USB packet

ASSUME AudioAssumption ==
    /\ Frame \in Nat \ {0, 1}
    /\ Modulus \in Nat \ {0} /\ Modulus % Slots = 0
    /\ AddPerPass \in 0 .. Slots + 1
    /\ ResetCount \in Nat /\ IrqPerPass \in Nat /\ ResetCount > 2 * IrqPerPass

VARIABLES
    micWptr,        \* abuf_mic_wptr, the next packet
    decWptr,        \* abuf_dec_wptr, the next packet to decode
    decRptr,        \* abuf_dec_rptr, in units, over Modulus frames
    reset,          \* abuf_reset, counts down
    start,          \* start of abuf_mic_dec: wait for two packets
    bufferEmpty,    \* buffer_empty of abuf_dec_usb: wait for three frames
    pc,             \* where the main loop is
    stores,         \* stores of abuf_init still to come
    adds, irqs,     \* packets and interrupts of this pass
    unheard,        \* units of abuf_dec that were decoded and not sent yet
    hollow          \* slots counted as decoded that hold no new frame, or half of one

avars == <<micWptr, decWptr, decRptr, reset, start, bufferEmpty>>
vars == <<avars, pc, stores, adds, irqs, unheard, hollow>>

Ring == 0 .. Slots * Frame - 1
Slot(ptr) == ptr % Slots
SlotOf(unit) == unit \div Frame
Units(slot) == {u \in Ring : SlotOf(u) = slot}
Ahead(a, b) == (a - b) % Modulus

NumMic == Ahead(micWptr, decWptr)
NumDec == Ahead(decWptr, decRptr \div Frame)

Init ==
    /\ micWptr = 0 /\ decWptr = 0 /\ decRptr = 0 /\ reset = 0
    /\ start = TRUE /\ bufferEmpty = TRUE
    /\ pc = "idle" /\ stores = {} /\ adds = 0 /\ irqs = 0
    /\ unheard = {} /\ hollow = {}

-----------------------------------------------------------------------------
\* att_mic and abuf_mic_add, from the notification callback of the main loop.
AbufMicAdd ==
    /\ pc = "idle" /\ adds < AddPerPass
    /\ micWptr' = (micWptr + 1) % Modulus
    /\ adds' = adds + 1
    /\ UNCHANGED <<decWptr, decRptr, reset, start, bufferEmpty, pc, stores, irqs, unheard, hollow>>

ProcAudioNoReset ==
    /\ pc = "idle"
    /\ \/ pc' = "dec" /\ UNCHANGED stores
       \/ adds = 0 /\ pc' = "init" /\ stores' = {"dec", "mic"}
    /\ adds' = 0 /\ irqs' = 0
    /\ UNCHANGED <<avars, unheard, hollow>>

\* proc_audio; 200 ms without a packet start all over.
ProcAudio ==
    /\ pc = "idle"
    /\ \/ pc' = "dec" /\ UNCHANGED stores
       \/ adds = 0 /\ pc' = "init" /\ stores' = {"dec", "mic", "reset"}
    /\ adds' = 0 /\ irqs' = 0
    /\ UNCHANGED <<avars, unheard, hollow>>

\* abuf_init: the compiler may order the three stores as it likes.
AbufInit ==
    /\ pc = "init"
    /\ \E v \in stores :
         /\ decWptr' = IF v = "dec" THEN 0 ELSE decWptr
         /\ micWptr' = IF v = "mic" THEN 0 ELSE micWptr
         /\ reset' = IF v = "reset" THEN ResetCount ELSE reset
         /\ stores' = stores \ {v}
         /\ pc' = IF stores' = {} THEN "dec" ELSE pc
    /\ UNCHANGED <<decRptr, start, bufferEmpty, adds, irqs, unheard, hollow>>

\* abuf_mic_dec tests abuf_reset ...
CheckReset ==
    /\ pc = "dec"
    /\ pc' = IF reset # 0 THEN "skip" ELSE "load"
    /\ UNCHANGED <<avars, stores, adds, irqs, unheard, hollow>>

\* ... and drops what is not decoded yet, even if the reset has just ended.
SkipMic ==
    /\ pc = "skip"
    /\ decWptr' = micWptr
    /\ LET skipped == {Slot(decWptr + k) : k \in 0 .. NumMic - 1}
       IN  /\ unheard' = {u \in unheard : SlotOf(u) \notin skipped}
           /\ hollow' = hollow \cup skipped
    /\ pc' = "idle"
    /\ UNCHANGED <<micWptr, decRptr, reset, start, bufferEmpty, stores, adds, irqs>>

\* ... or compares the pointers once, drops a packet if abuf_mic overflowed, and
\* then resets, decodes or does nothing by the numbers from before the drop.
EnoughMic == IF start THEN NumMic >= 2 ELSE NumMic >= 1
DecoderBehindFull == NumDec <= 4
DecoderBehind == NumDec <= 3

DecLoad ==
    LET overflow == NumMic > Slots
        first == IF overflow THEN (decWptr + 1) % Modulus ELSE decWptr
        dropped == IF overflow THEN {Slot(decWptr)} ELSE {}
        decode == NumDec <= Slots /\ EnoughMic /\ DecoderBehind
        written == IF decode THEN {Slot(first)} ELSE {}
        overwritten == IF overflow /\ NumDec = 3 THEN written ELSE {}
    IN  /\ pc = "load"
        /\ decWptr' = first
        /\ reset' = IF NumDec > Slots THEN ResetCount ELSE reset
        /\ start' = (start \/ NumDec > Slots)
        /\ pc' = IF decode THEN "decode" ELSE "idle"
        /\ unheard' = {u \in unheard : SlotOf(u) \notin dropped \cup written}
        /\ hollow' = hollow \cup dropped \cup overwritten
        /\ UNCHANGED <<micWptr, decRptr, bufferEmpty, stores, adds, irqs>>

\* adpcm_to_pcm has filled the slot, too early if the USB side still reads it.
DecDone ==
    /\ pc = "decode"
    /\ decWptr' = (decWptr + 1) % Modulus
    /\ start' = FALSE
    /\ unheard' = unheard \cup Units(Slot(decWptr))
    /\ hollow' = IF NumDec < Slots THEN hollow \ {Slot(decWptr)} ELSE hollow \cup {Slot(decWptr)}
    /\ pc' = "idle"
    /\ UNCHANGED <<micWptr, decRptr, reset, bufferEmpty, stores, adds, irqs>>

-----------------------------------------------------------------------------
\* abuf_dec_usb.  The packet that starts in the last unit of abuf_dec goes on at
\* its beginning.
Window(rptr) == {rptr % Cardinality(Ring), (rptr + 1) % Cardinality(Ring)}

Advance(rptr) ==
    IF rptr + Packet >= Frame * Modulus THEN 0 ELSE rptr + Packet

\* num is not 0, and three frames are there if the buffer ran empty.  (That makes
\* the count n_usb_iso of the code without effect.)
SendsSound(num) == num # 0 /\ (bufferEmpty => num >= 3)

\* late: more than 4 ms since the interrupt before.
AbufDecUsb ==
    \E late \in BOOLEAN :
      LET counter == IF late THEN ResetCount ELSE reset
          rptr == IF counter # 0 THEN decWptr * Frame ELSE decRptr
          num == Ahead(decWptr, rptr \div Frame)
      IN  /\ irqs < IrqPerPass /\ irqs' = irqs + 1
          /\ reset' = IF counter # 0 THEN counter - 1 ELSE 0
          /\ decRptr' = IF SendsSound(num) THEN Advance(rptr) ELSE rptr
          /\ bufferEmpty' = (num = 0 \/ (bufferEmpty /\ ~SendsSound(num)))
          /\ unheard' = IF counter # 0 THEN {}
                        ELSE IF SendsSound(num) THEN unheard \ Window(rptr) ELSE unheard
          /\ hollow' = IF counter # 0 THEN {} ELSE hollow
          /\ UNCHANGED <<micWptr, decWptr, start, pc, stores, adds>>

Next ==
    \/ AbufMicAdd
    \/ ProcAudio
    \/ AbufInit
    \/ CheckReset
    \/ SkipMic
    \/ DecLoad
    \/ DecDone
    \/ AbufDecUsb

Spec == Init /\ [][Next]_vars

-----------------------------------------------------------------------------
\* The pointers keep their widths, the read pointer its range of Modulus frames.
TypeOK ==
    /\ micWptr \in 0 .. Modulus - 1 /\ decWptr \in 0 .. Modulus - 1
    /\ decRptr \in 0 .. Frame * Modulus - 1
    /\ reset \in 0 .. ResetCount /\ start \in BOOLEAN /\ bufferEmpty \in BOOLEAN
    /\ pc \in {"idle", "init", "dec", "skip", "load", "decode"}
    /\ stores \subseteq {"dec", "mic", "reset"}
    /\ adds \in 0 .. AddPerPass /\ irqs \in 0 .. IrqPerPass
    /\ unheard \subseteq Ring /\ hollow \subseteq 0 .. Slots - 1

\* No reset is under way, by its counter or by abuf_init.
Settled == reset = 0 /\ pc # "init"

\* The reader is never ahead of the decoder, which is at most the four frames of
\* abuf_dec ahead of it, and one more only until the pass that finds it (the
\* packet dropped from a full abuf_mic): the difference of the pointers, taken
\* modulo 256 by both sides, never means anything else.  (With TypeOK, by which
\* the pointers stay in range.)
Lag == TypeOK /\ (Settled => NumDec <= Slots + 1)

\* What the interrupt would send next was decoded and never sent before, wherever
\* it comes in the work of the main loop.  The code has four exceptions: a slot
\* that was passed over without decoding or overwritten early (hollow), the first
\* unit again when the read pointer wraps, and the unit behind the last decoded
\* frame if a packet straddles its end.  There are no others.
PlaysFresh ==
    (Settled /\ SendsSound(NumDec)) =>
      \A u \in Window(decRptr) :
        \/ u \in unheard
        \/ SlotOf(u) \in hollow
        \/ decRptr = 0 /\ u = 0
        \/ (decRptr + 1) % Frame = 0 /\ NumDec = 1 /\ u = (decRptr + 1) % Cardinality(Ring)
=============================================================================
