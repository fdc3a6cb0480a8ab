-------------------------- MODULE AudioBufferProofs ---------------------------
(* Proofs about AudioBuffer: the decoder is never more than the four frames of  *)
(* abuf_dec and one more ahead of the USB side (Lag), and what is sent is fresh *)
(* but for named exceptions (PlaysFresh), for every size of a frame and of the  *)
(* pointers.                                                                    *)
(*                                                                              *)
(* In a reset, and while abuf_init stores its pointers in some order, they may  *)
(* be anything.  The interrupt that ends the reset makes them equal, but the    *)
(* main loop may by then have decided to skip to abuf_mic_wptr: what it skips   *)
(* is only what this pass received, because the pass before skipped too.  That  *)
(* takes a reset that lasts longer than the interrupts of two passes, and an    *)
(* account of how long ago it began: reset + irqs.                              *)
EXTENDS AudioBuffer, FiniteSetTheorems, TLAPS

\* The parts of TypeOK.
TypePtrs ==
    /\ micWptr \in 0 .. Modulus - 1 /\ decWptr \in 0 .. Modulus - 1
    /\ decRptr \in 0 .. Frame * Modulus - 1

TypeCounts ==
    /\ reset \in 0 .. ResetCount /\ adds \in 0 .. AddPerPass /\ irqs \in 0 .. IrqPerPass

TypeFlags ==
    /\ start \in BOOLEAN /\ bufferEmpty \in BOOLEAN
    /\ pc \in {"idle", "init", "dec", "skip", "load", "decode"}
    /\ stores \subseteq {"dec", "mic", "reset"}

TypeSlots == unheard \subseteq Ring /\ hollow \subseteq 0 .. Slots - 1

Recent(n) == reset + irqs >= n

Caught ==
    /\ pc = "idle" => reset = 0 \/ Recent(ResetCount) \/ NumMic <= adds
    /\ pc = "init" => "reset" \in stores \/ Recent(ResetCount)
    /\ pc = "dec" => reset = 0 \/ Recent(ResetCount - IrqPerPass) \/ NumMic <= AddPerPass
    /\ pc = "skip" => Recent(ResetCount - IrqPerPass) \/ (NumMic <= AddPerPass /\ (reset = 0 => NumDec = 0))
    /\ pc \in {"load", "decode"} => reset = 0 \/ Recent(ResetCount)

Depth ==
    /\ Settled => NumDec <= Slots + 1
    /\ pc = "decode" => NumDec <= Slots

Passes == (pc # "idle" => adds = 0) /\ (pc = "init" => stores # {})

IndInv == TypePtrs /\ TypeCounts /\ TypeFlags /\ TypeSlots /\ Caught /\ Depth /\ Passes

-----------------------------------------------------------------------------
LEMMA Consts ==
    /\ Frame \in Int /\ Frame >= 2 /\ Modulus \in Int /\ Modulus > 0 /\ Slots = 4 /\ Packet = 2
    /\ ResetCount \in Int /\ AddPerPass \in Int /\ AddPerPass >= 0 /\ AddPerPass <= 5
    /\ IrqPerPass \in Int /\ IrqPerPass >= 0 /\ ResetCount > 2 * IrqPerPass
BY AudioAssumption DEF Slots, Packet

\* The distance of two pointers.
LEMMA AheadIs ==
    ASSUME NEW a \in 0 .. Modulus - 1, NEW b \in 0 .. Modulus - 1
    PROVE  /\ Ahead(a, b) = IF a >= b THEN a - b ELSE a - b + Modulus
           /\ Ahead(a, b) \in Int /\ Ahead(a, b) >= 0 /\ Ahead(a, b) < Modulus
           /\ Ahead(a, b) = 0 <=> a = b
<1>1. Modulus \in Int /\ Modulus > 0
  BY Consts
<1>2. (a - b) % Modulus = IF a >= b THEN a - b ELSE a - b + Modulus
  BY <1>1
<1> QED BY <1>1, <1>2 DEF Ahead

LEMMA NextPtr ==
    ASSUME NEW a \in 0 .. Modulus - 1
    PROVE  /\ (a + 1) % Modulus = IF a = Modulus - 1 THEN 0 ELSE a + 1
           /\ (a + 1) % Modulus \in 0 .. Modulus - 1
<1>1. Modulus \in Int /\ Modulus > 0
  BY Consts
<1> QED BY <1>1

\* A writer one further on, and a reader.
LEMMA AheadNext ==
    ASSUME NEW a \in 0 .. Modulus - 1, NEW b \in 0 .. Modulus - 1
    PROVE  Ahead((a + 1) % Modulus, b) <= Ahead(a, b) + 1
<1>1. PICK c : c = (a + 1) % Modulus
  OBVIOUS
<1>2. c \in 0 .. Modulus - 1 /\ c = IF a = Modulus - 1 THEN 0 ELSE a + 1
  BY <1>1, NextPtr
<1>3. /\ Ahead(a, b) = IF a >= b THEN a - b ELSE a - b + Modulus
      /\ Ahead(c, b) = IF c >= b THEN c - b ELSE c - b + Modulus
  BY <1>2, AheadIs
<1>4. Modulus \in Int /\ Modulus > 0
  BY Consts
<1>5. Ahead(c, b) <= Ahead(a, b) + 1
  BY <1>2, <1>3, <1>4
<1> QED BY <1>1, <1>5

LEMMA AheadRead ==
    ASSUME NEW a \in 0 .. Modulus - 1, NEW b \in 0 .. Modulus - 1, a # b
    PROVE  Ahead(a, (b + 1) % Modulus) = Ahead(a, b) - 1
<1>1. PICK c : c = (b + 1) % Modulus
  OBVIOUS
<1>2. c \in 0 .. Modulus - 1 /\ c = IF b = Modulus - 1 THEN 0 ELSE b + 1
  BY <1>1, NextPtr
<1>3. /\ Ahead(a, b) = IF a >= b THEN a - b ELSE a - b + Modulus
      /\ Ahead(a, c) = IF a >= c THEN a - c ELSE a - c + Modulus
  BY <1>2, AheadIs
<1>4. Modulus \in Int /\ Modulus > 0
  BY Consts
<1>5. Ahead(a, c) = Ahead(a, b) - 1
  <2>1. CASE b = Modulus - 1
    BY <1>2, <1>3, <1>4, <2>1
  <2>2. CASE b # Modulus - 1
    <3>1. CASE a > b
      BY <1>2, <1>3, <1>4, <2>2, <3>1
    <3>2. CASE a < b
      BY <1>2, <1>3, <1>4, <2>2, <3>2
    <3> QED BY <1>4, <3>1, <3>2
  <2> QED BY <2>1, <2>2
<1> QED BY <1>1, <1>5

\* The frame of a unit.
LEMMA DivIs ==
    ASSUME NEW q \in Int, NEW s \in 0 .. Frame - 1
    PROVE  (q * Frame + s) \div Frame = q
<1>1. Frame \in Int /\ Frame > 0
  BY Consts
<1> QED BY <1>1

LEMMA Split ==
    ASSUME NEW r \in 0 .. Frame * Modulus - 1
    PROVE  \E q \in 0 .. Modulus - 1, s \in 0 .. Frame - 1 : r = q * Frame + s /\ r \div Frame = q
<1>1. Frame \in Int /\ Frame > 0 /\ Modulus \in Int /\ Modulus > 0
  BY Consts
<1>2. PICK q \in Int : q = r \div Frame
  BY <1>1
<1>3. PICK s \in 0 .. Frame - 1 : s = r % Frame
  BY <1>1
<1>4. r = q * Frame + s
  BY <1>1, <1>2, <1>3
<1>5. q >= 0
  <2>1. CASE q <= -1
    <3>1. q * Frame <= -Frame
      BY <1>1, <2>1
    <3> QED BY <1>1, <1>3, <1>4, <3>1
  <2> QED BY <2>1
<1>6. q <= Modulus - 1
  <2>1. CASE q >= Modulus
    <3>1. q * Frame >= Frame * Modulus
      BY <1>1, <2>1
    <3> QED BY <1>1, <1>3, <1>4, <3>1
  <2> QED BY <1>1, <2>1
<1> QED BY <1>1, <1>2, <1>3, <1>4, <1>5, <1>6

LEMMA FrameStart ==
    ASSUME NEW w \in 0 .. Modulus - 1
    PROVE  w * Frame \in 0 .. Frame * Modulus - 1 /\ (w * Frame) \div Frame = w
<1>1. Frame \in Int /\ Frame > 0 /\ Modulus \in Int /\ Modulus > 0
  BY Consts
<1>2. w * Frame >= 0 /\ w * Frame \in Int
  BY <1>1
<1>3. w * Frame <= Frame * Modulus - 1
  <2>1. w * Frame <= (Modulus - 1) * Frame
    BY <1>1
  <2>2. (Modulus - 1) * Frame = Frame * Modulus - Frame
    BY <1>1
  <2> QED BY <1>1, <1>2, <2>1, <2>2
<1>4. (w * Frame + 0) \div Frame = w
  BY <1>1, DivIs
<1> QED BY <1>1, <1>2, <1>3, <1>4

LEMMA AdvanceIs ==
    ASSUME NEW r \in 0 .. Frame * Modulus - 1
    PROVE  /\ Advance(r) \in 0 .. Frame * Modulus - 1
           /\ Advance(r) \div Frame \in {r \div Frame, ((r \div Frame) + 1) % Modulus}
<1>1. Frame \in Int /\ Frame >= 2 /\ Modulus \in Int /\ Modulus > 0 /\ Packet = 2
  BY Consts
<1>2. PICK q \in 0 .. Modulus - 1, s \in 0 .. Frame - 1 : r = q * Frame + s /\ r \div Frame = q
  BY Split
<1>3. PICK m \in Int : m = Frame * Modulus
  BY <1>1
<1>4. m >= Modulus * 2 /\ m = Modulus * Frame
  BY <1>1, <1>3
<1>5. (q + 1) % Modulus = IF q = Modulus - 1 THEN 0 ELSE q + 1
  BY NextPtr
<1>6. CASE s + 2 <= Frame - 1
  <2>1. r + 2 = q * Frame + (s + 2) /\ s + 2 \in 0 .. Frame - 1
    BY <1>1, <1>2, <1>6
  <2>2. (r + 2) \div Frame = q
    BY <1>2, <2>1, DivIs
  <2>3. r + 2 < m
    <3>1. q * Frame <= (Modulus - 1) * Frame /\ (Modulus - 1) * Frame = m - Frame
      BY <1>1, <1>2, <1>3
    <3> QED BY <1>1, <1>2, <1>3, <1>6, <3>1
  <2>4. Advance(r) = r + 2
    BY <1>1, <1>2, <1>3, <2>3 DEF Advance
  <2> QED BY <1>1, <1>2, <1>3, <2>2, <2>3, <2>4
<1>7. CASE s + 2 >= Frame /\ q # Modulus - 1
  <2>1. r + 2 = (q + 1) * Frame + (s + 2 - Frame) /\ s + 2 - Frame \in 0 .. Frame - 1 /\ q + 1 \in Int
    BY <1>1, <1>2, <1>7
  <2>2. (r + 2) \div Frame = q + 1
    BY <2>1, DivIs
  <2>3. r + 2 < m
    <3>1. (q + 1) * Frame <= (Modulus - 1) * Frame /\ (Modulus - 1) * Frame = m - Frame
      BY <1>1, <1>2, <1>3, <1>7
    <3> QED BY <1>1, <1>3, <2>1, <3>1
  <2>4. Advance(r) = r + 2
    BY <1>1, <1>2, <1>3, <2>3 DEF Advance
  <2> QED BY <1>1, <1>2, <1>3, <1>5, <1>7, <2>2, <2>3, <2>4
<1>8. CASE s + 2 >= Frame /\ q = Modulus - 1
  <2>1. r + 2 >= m
    <3>1. q * Frame = m - Frame
      BY <1>1, <1>3, <1>8
    <3> QED BY <1>1, <1>2, <1>3, <1>8, <3>1
  <2>2. Advance(r) = 0
    BY <1>1, <1>3, <2>1 DEF Advance
  <2>3. 0 \div Frame = 0
    BY <1>1
  <2> QED BY <1>1, <1>2, <1>3, <1>4, <1>5, <1>8, <2>2, <2>3
<1> QED BY <1>1, <1>6, <1>7, <1>8

-----------------------------------------------------------------------------
LEMMA TypeParts == TypeOK <=> TypePtrs /\ TypeCounts /\ TypeFlags /\ TypeSlots
BY DEF TypeOK, TypePtrs, TypeCounts, TypeFlags, TypeSlots

LEMMA Counts ==
    ASSUME TypeCounts
    PROVE  /\ reset \in Int /\ reset >= 0 /\ reset <= ResetCount
           /\ irqs \in Int /\ irqs >= 0 /\ irqs <= IrqPerPass
           /\ adds \in Int /\ adds >= 0 /\ adds <= AddPerPass
BY Consts DEF TypeCounts

\* A reset that began in this pass or in the one before is not over.
LEMMA Margins ==
    ASSUME NEW r \in Int, NEW i \in Int, i <= IrqPerPass
    PROVE  /\ r + i >= ResetCount => r + i >= ResetCount - IrqPerPass
           /\ r + i >= ResetCount - IrqPerPass => r # 0
<1>1. ResetCount \in Int /\ IrqPerPass \in Int /\ IrqPerPass >= 0 /\ ResetCount > 2 * IrqPerPass
  BY Consts
<1> QED BY <1>1

LEMMA Numbers ==
    ASSUME TypePtrs
    PROVE  /\ decRptr \div Frame \in 0 .. Modulus - 1
           /\ NumMic \in Int /\ NumMic >= 0 /\ NumDec \in Int /\ NumDec >= 0
           /\ NumDec = 0 <=> decWptr = decRptr \div Frame
           /\ NumMic = 0 <=> micWptr = decWptr
<1>1. decRptr \div Frame \in 0 .. Modulus - 1
  BY Split DEF TypePtrs
<1> QED BY <1>1, AheadIs DEF TypePtrs, NumMic, NumDec

LEMMA SlotType == \A p \in Int : Slot(p) \in 0 .. Slots - 1
BY DEF Slot, Slots

\* The main loop starts with empty buffers.
LEMMA InitInd == Init => IndInv
<1> SUFFICES ASSUME Init PROVE IndInv
  OBVIOUS
<1>1. 0 \in 0 .. Modulus - 1 /\ 0 \in 0 .. Frame * Modulus - 1
  <2>1. 0 * Frame \in 0 .. Frame * Modulus - 1 /\ 0 * Frame = 0
    BY FrameStart, Consts
  <2> QED BY <2>1, Consts
<1>2. TypePtrs
  BY <1>1 DEF Init, TypePtrs
<1>3. TypeCounts
  BY Consts DEF Init, TypeCounts
<1>4. TypeFlags /\ TypeSlots
  BY DEF Init, TypeFlags, TypeSlots
<1>5. NumDec = 0
  <2>1. 0 \div Frame = 0
    BY Consts
  <2> QED BY <1>2, <2>1, Numbers DEF Init
<1>6. Depth /\ Caught /\ Passes
  BY <1>5, Consts DEF Init, Depth, Caught, Passes
<1> QED BY <1>2, <1>3, <1>4, <1>6 DEF IndInv

\* att_mic: one more packet.
LEMMA AddInd == ASSUME IndInv, AbufMicAdd PROVE IndInv'
<1>1. /\ TypePtrs /\ TypeCounts /\ TypeFlags /\ TypeSlots /\ Caught /\ Depth
  BY DEF IndInv
<1>2. /\ pc = "idle" /\ adds < AddPerPass /\ micWptr' = (micWptr + 1) % Modulus /\ adds' = adds + 1
      /\ decWptr' = decWptr /\ decRptr' = decRptr /\ reset' = reset /\ start' = start
      /\ bufferEmpty' = bufferEmpty /\ pc' = pc /\ stores' = stores /\ irqs' = irqs
      /\ unheard' = unheard /\ hollow' = hollow
  BY DEF AbufMicAdd
<1>3. TypePtrs'
  BY <1>1, <1>2, NextPtr DEF TypePtrs
<1>4. TypeCounts'
  <2>1. adds' \in 0 .. AddPerPass
    BY <1>1, <1>2, Counts, Consts
  <2> QED BY <1>1, <1>2, <2>1 DEF TypeCounts
<1>5. TypeFlags' /\ TypeSlots'
  BY <1>1, <1>2 DEF TypeFlags, TypeSlots
<1>6. NumDec' = NumDec /\ NumMic' <= NumMic + 1
  BY <1>1, <1>2, AheadNext DEF NumDec, NumMic, TypePtrs
<1>7. Depth' /\ Passes'
  BY <1>1, <1>2, <1>6 DEF Depth, Settled, Passes, IndInv
<1>8. Caught'
  <2>1. reset = 0 \/ Recent(ResetCount) \/ NumMic <= adds
    BY <1>1, <1>2 DEF Caught
  <2>2. NumMic <= adds => NumMic' <= adds'
    <3>1. NumMic \in Int /\ NumMic' \in Int /\ adds \in Int
      BY <1>1, <1>3, AheadIs, Counts DEF NumMic, TypePtrs
    <3> QED BY <1>2, <1>6, <3>1
  <2> QED BY <1>2, <2>1, <2>2 DEF Caught, Recent
<1> QED BY <1>3, <1>4, <1>5, <1>7, <1>8 DEF IndInv

\* proc_audio: a pass begins.
LEMMA ProcInd == ASSUME IndInv, ProcAudio PROVE IndInv'
<1>1. /\ TypePtrs /\ TypeCounts /\ TypeFlags /\ TypeSlots /\ Caught /\ Depth
  BY DEF IndInv
<1>2. /\ pc = "idle" /\ adds' = 0 /\ irqs' = 0 /\ unheard' = unheard /\ hollow' = hollow
      /\ micWptr' = micWptr /\ decWptr' = decWptr /\ decRptr' = decRptr /\ reset' = reset
      /\ start' = start /\ bufferEmpty' = bufferEmpty
      /\ \/ pc' = "dec" /\ stores' = stores
         \/ pc' = "init" /\ stores' = {"dec", "mic", "reset"}
  BY DEF ProcAudio, avars
<1>3. TypePtrs' /\ TypeSlots' /\ NumDec' = NumDec /\ NumMic' = NumMic
  BY <1>1, <1>2 DEF TypePtrs, TypeSlots, NumDec, NumMic
<1>4. TypeCounts'
  BY <1>1, <1>2, Consts DEF TypeCounts
<1>5. TypeFlags'
  BY <1>1, <1>2 DEF TypeFlags
<1>6. Depth' /\ Passes'
  BY <1>1, <1>2, <1>3 DEF Depth, Settled, Passes
<1>7. Caught'
  <2>1. reset = 0 \/ reset + irqs >= ResetCount \/ NumMic <= adds
    BY <1>1, <1>2 DEF Caught, Recent
  <2>2. reset' = 0 \/ reset' + irqs' >= ResetCount - IrqPerPass \/ NumMic' <= AddPerPass
    <3>1. NumMic \in Int
      BY <1>1, Numbers
    <3> QED BY <1>1, <1>2, <1>3, <2>1, <3>1, Counts, Consts
  <2> QED BY <1>2, <2>2 DEF Caught, Recent
<1> QED BY <1>3, <1>4, <1>5, <1>6, <1>7 DEF IndInv

\* abuf_init: one of its stores.  The last one finds a reset that has just begun.
LEMMA InitStoreInd == ASSUME IndInv, AbufInit PROVE IndInv'
<1>1. /\ TypePtrs /\ TypeCounts /\ TypeFlags /\ TypeSlots /\ Caught /\ Passes
  BY DEF IndInv
<1>2. PICK v \in stores :
         /\ decWptr' = IF v = "dec" THEN 0 ELSE decWptr
         /\ micWptr' = IF v = "mic" THEN 0 ELSE micWptr
         /\ reset' = IF v = "reset" THEN ResetCount ELSE reset
         /\ stores' = stores \ {v}
         /\ pc' = IF stores' = {} THEN "dec" ELSE pc
  BY DEF AbufInit
<1>3. /\ pc = "init" /\ decRptr' = decRptr /\ start' = start /\ bufferEmpty' = bufferEmpty
      /\ adds' = adds /\ irqs' = irqs /\ unheard' = unheard /\ hollow' = hollow
  BY DEF AbufInit
<1>4. TypePtrs'
  BY <1>1, <1>2, <1>3, Consts DEF TypePtrs
<1>5. TypeCounts'
  BY <1>1, <1>2, <1>3, Consts DEF TypeCounts
<1>6. TypeFlags' /\ TypeSlots'
  BY <1>1, <1>2, <1>3 DEF TypeFlags, TypeSlots
<1>7. "reset" \in stores' \/ reset' + irqs' >= ResetCount
  <2>1. CASE v = "reset"
    BY <1>1, <1>2, <1>3, <2>1, Counts, Consts
  <2>2. CASE v # "reset"
    BY <1>1, <1>2, <1>3, <2>2 DEF Caught, Recent
  <2> QED BY <2>1, <2>2
<1>8. CASE stores' = {}
  <2>1. pc' = "dec" /\ reset' + irqs' >= ResetCount
    BY <1>2, <1>7, <1>8
  <2>2. reset' + irqs' >= ResetCount - IrqPerPass /\ reset' # 0
    <3>1. PICK r \in Int, i \in Int : r = reset' /\ i = irqs' /\ i <= IrqPerPass
      BY <1>5, Consts DEF TypeCounts
    <3>2. r + i >= ResetCount
      BY <2>1, <3>1
    <3>3. r + i >= ResetCount - IrqPerPass /\ r # 0
      BY <3>1, <3>2, Margins
    <3> QED BY <3>1, <3>3
  <2>3. Caught' /\ Depth' /\ Passes'
    BY <1>1, <1>3, <2>1, <2>2 DEF Caught, Recent, Depth, Settled, Passes
  <2> QED BY <1>4, <1>5, <1>6, <2>3 DEF IndInv
<1>9. CASE stores' # {}
  <2>1. pc' = "init"
    BY <1>2, <1>3, <1>9
  <2>2. Caught' /\ Depth' /\ Passes'
    BY <1>1, <1>3, <1>7, <1>9, <2>1 DEF Caught, Recent, Depth, Settled, Passes
  <2> QED BY <1>4, <1>5, <1>6, <2>2 DEF IndInv
<1> QED BY <1>8, <1>9

\* abuf_mic_dec looks at abuf_reset.
LEMMA CheckInd == ASSUME IndInv, CheckReset PROVE IndInv'
<1>1. /\ TypePtrs /\ TypeCounts /\ TypeFlags /\ TypeSlots /\ Caught /\ Depth /\ Passes
  BY DEF IndInv
<1>2. /\ pc = "dec" /\ pc' = (IF reset # 0 THEN "skip" ELSE "load") /\ stores' = stores /\ adds' = adds
      /\ micWptr' = micWptr /\ decWptr' = decWptr /\ decRptr' = decRptr /\ reset' = reset
      /\ start' = start /\ bufferEmpty' = bufferEmpty /\ irqs' = irqs /\ unheard' = unheard
      /\ hollow' = hollow
  BY DEF CheckReset, avars
<1>3. TypePtrs' /\ TypeCounts' /\ TypeFlags' /\ TypeSlots' /\ NumDec' = NumDec /\ NumMic' = NumMic
  BY <1>1, <1>2 DEF TypePtrs, TypeCounts, TypeFlags, TypeSlots, NumDec, NumMic
<1>4. Depth' /\ Passes'
  BY <1>1, <1>2, <1>3 DEF Depth, Settled, Passes
<1>5. Caught'
  BY <1>1, <1>2, <1>3 DEF Caught, Recent
<1> QED BY <1>3, <1>4, <1>5 DEF IndInv

\* ... and skips to abuf_mic_wptr, perhaps after the reset.
LEMMA SkipInd == ASSUME IndInv, SkipMic PROVE IndInv'
<1>1. /\ TypePtrs /\ TypeCounts /\ TypeFlags /\ TypeSlots /\ Caught /\ Passes
  BY DEF IndInv
<1>2. /\ pc = "skip" /\ decWptr' = micWptr /\ pc' = "idle" /\ micWptr' = micWptr /\ decRptr' = decRptr
      /\ reset' = reset /\ start' = start /\ bufferEmpty' = bufferEmpty /\ stores' = stores
      /\ adds' = adds /\ irqs' = irqs
  BY DEF SkipMic
<1>3. TypePtrs' /\ TypeCounts' /\ TypeFlags'
  BY <1>1, <1>2 DEF TypePtrs, TypeCounts, TypeFlags
<1>4. TypeSlots'
  <2>1. ASSUME NEW k \in 0 .. NumMic - 1 PROVE Slot(decWptr + k) \in 0 .. Slots - 1
    <3>1. decWptr + k \in Int
      BY <1>1, Numbers, Consts DEF TypePtrs
    <3> QED BY <3>1, SlotType
  <2> QED BY <1>1, <2>1 DEF SkipMic, TypeSlots
<1>5. NumMic' = 0
  BY <1>2, <1>3, AheadIs DEF NumMic, TypePtrs
<1>6. Caught' /\ Passes'
  BY <1>1, <1>2, <1>5, Counts DEF Caught, Passes
<1>7. Depth'
  <2> SUFFICES ASSUME reset = 0 PROVE NumDec' <= Slots + 1
    BY <1>2 DEF Depth, Settled
  <2>1. NumMic <= AddPerPass /\ NumDec = 0
    <3>1. ~Recent(ResetCount - IrqPerPass)
      BY <1>1, Counts, Consts DEF Recent
    <3> QED BY <1>1, <1>2, <3>1 DEF Caught
  <2>2. NumDec' = NumMic
    BY <1>1, <1>2, <2>1, Numbers DEF NumDec, NumMic
  <2> QED BY <1>1, <2>1, <2>2, Numbers, Consts
<1> QED BY <1>3, <1>4, <1>6, <1>7 DEF IndInv

\* ... or compares the pointers, drops a packet, and resets or decodes.
LEMMA LoadInd == ASSUME IndInv, DecLoad PROVE IndInv'
<1>1. /\ TypePtrs /\ TypeCounts /\ TypeFlags /\ TypeSlots /\ Caught /\ Depth /\ Passes
  BY DEF IndInv
<1> DEFINE overflow == NumMic > Slots
           first == IF overflow THEN (decWptr + 1) % Modulus ELSE decWptr
           dropped == IF overflow THEN {Slot(decWptr)} ELSE {}
           decode == NumDec <= Slots /\ EnoughMic /\ DecoderBehind
           written == IF decode THEN {Slot(first)} ELSE {}
           overwritten == IF overflow /\ NumDec = 3 THEN written ELSE {}
<1>2. /\ decWptr' = first
      /\ reset' = IF NumDec > Slots THEN ResetCount ELSE reset
      /\ pc' = IF decode THEN "decode" ELSE "idle"
      /\ unheard' = {u \in unheard : SlotOf(u) \notin dropped \cup written}
      /\ hollow' = hollow \cup dropped \cup overwritten
  BY DEF DecLoad
<1>3. /\ pc = "load" /\ start' = (start \/ NumDec > Slots) /\ micWptr' = micWptr /\ decRptr' = decRptr
      /\ bufferEmpty' = bufferEmpty /\ stores' = stores /\ adds' = adds /\ irqs' = irqs
  BY DEF DecLoad
<1>4. decWptr \in 0 .. Modulus - 1 /\ decWptr' \in 0 .. Modulus - 1
  BY <1>1, <1>2, NextPtr DEF TypePtrs
<1>5. TypePtrs'
  BY <1>1, <1>3, <1>4 DEF TypePtrs
<1>6. TypeCounts'
  BY <1>1, <1>2, <1>3, Consts DEF TypeCounts
<1>7. TypeFlags'
  <2>1. start' \in BOOLEAN
    BY <1>3
  <2>2. pc' \in {"decode", "idle"}
    BY <1>2
  <2> QED BY <1>1, <1>3, <2>1, <2>2 DEF TypeFlags
<1>8. TypeSlots'
  <2>1. Slot(decWptr) \in 0 .. Slots - 1 /\ Slot(decWptr') \in 0 .. Slots - 1
    BY <1>4, SlotType, Consts
  <2>2. written \subseteq {Slot(decWptr')} /\ dropped \subseteq {Slot(decWptr)}
    BY <1>2
  <2>3. overwritten \subseteq written
    BY <1>2
  <2> QED BY <1>1, <1>2, <2>1, <2>2, <2>3 DEF TypeSlots
<1>9. NumDec' <= NumDec + 1
  <2>1. decRptr \div Frame \in 0 .. Modulus - 1 /\ NumDec \in Int
    BY <1>1, Numbers
  <2>2. CASE decWptr' = decWptr
    <3>1. NumDec' = NumDec
      BY <1>3, <2>2 DEF NumDec
    <3> QED BY <2>1, <3>1
  <2>3. CASE decWptr' = (decWptr + 1) % Modulus
    BY <1>3, <1>4, <2>1, <2>3, AheadNext DEF NumDec
  <2> QED BY <1>2, <2>2, <2>3
<1>10. NumDec \in Int /\ NumDec' \in Int
  <2>1. decRptr \div Frame \in 0 .. Modulus - 1 /\ NumDec \in Int
    BY <1>1, Numbers
  <2> QED BY <1>3, <1>4, <2>1, AheadIs DEF NumDec
<1>11. decode => NumDec <= 3
  BY <1>2 DEF DecoderBehind
<1>12. Depth'
  <2>1. CASE NumDec > Slots
    <3>1. reset' # 0 /\ ~decode
      BY <1>2, <1>10, <1>11, <2>1, Consts
    <3>2. pc' = "idle"
      BY <1>2, <3>1
    <3> QED BY <3>1, <3>2 DEF Depth, Settled
  <2>2. CASE NumDec <= Slots
    <3>1. NumDec' <= Slots + 1
      BY <1>9, <1>10, <2>2, Consts
    <3>2. decode => NumDec' <= Slots
      BY <1>9, <1>10, <1>11, Consts
    <3>3. pc' = "decode" => decode
      BY <1>2
    <3> QED BY <3>1, <3>2, <3>3 DEF Depth
  <2> QED BY <1>10, <2>1, <2>2, Consts
<1>13. Caught'
  <2>1. reset = 0 \/ reset + irqs >= ResetCount
    BY <1>1, <1>3 DEF Caught, Recent
  <2>2. reset' = 0 \/ reset' + irqs' >= ResetCount
    BY <1>1, <1>2, <1>3, <2>1, Counts, Consts
  <2>3. pc' \in {"decode", "idle"}
    BY <1>2
  <2> QED BY <2>2, <2>3 DEF Caught, Recent
<1>14. Passes'
  <2>1. pc' \in {"decode", "idle"} /\ adds' = 0
    BY <1>1, <1>2, <1>3 DEF Passes
  <2> QED BY <2>1 DEF Passes
<1> QED BY <1>5, <1>6, <1>7, <1>8, <1>12, <1>13, <1>14 DEF IndInv

\* The frame is decoded.
LEMMA DoneInd == ASSUME IndInv, DecDone PROVE IndInv'
<1>1. /\ TypePtrs /\ TypeCounts /\ TypeFlags /\ TypeSlots /\ Caught /\ Depth /\ Passes
  BY DEF IndInv
<1>2. /\ pc = "decode" /\ decWptr' = (decWptr + 1) % Modulus /\ start' = FALSE /\ pc' = "idle"
      /\ unheard' = unheard \cup Units(Slot(decWptr))
      /\ hollow' \subseteq hollow \cup {Slot(decWptr)}
      /\ micWptr' = micWptr /\ decRptr' = decRptr /\ reset' = reset /\ bufferEmpty' = bufferEmpty
      /\ stores' = stores /\ adds' = adds /\ irqs' = irqs
  BY DEF DecDone
<1>3. TypePtrs'
  BY <1>1, <1>2, NextPtr DEF TypePtrs
<1>4. TypeCounts' /\ TypeFlags'
  BY <1>1, <1>2 DEF TypeCounts, TypeFlags
<1>5. TypeSlots'
  <2>1. Slot(decWptr) \in 0 .. Slots - 1
    BY <1>1, SlotType, Consts DEF TypePtrs
  <2> QED BY <1>1, <1>2, <2>1 DEF TypeSlots, Units
<1>6. NumDec' <= Slots + 1
  <2>1. decRptr \div Frame \in 0 .. Modulus - 1 /\ NumDec \in Int
    BY <1>1, Numbers
  <2>2. NumDec' <= NumDec + 1
    BY <1>1, <1>2, <2>1, AheadNext DEF NumDec, TypePtrs
  <2>3. NumDec' \in Int
    BY <1>2, <1>3, <2>1, AheadIs DEF NumDec, TypePtrs
  <2>4. NumDec <= Slots
    BY <1>1, <1>2 DEF Depth
  <2> QED BY <2>1, <2>2, <2>3, <2>4, Consts
<1>7. Caught' /\ Depth' /\ Passes'
  BY <1>1, <1>2, <1>6 DEF Caught, Recent, Depth, Passes
<1> QED BY <1>3, <1>4, <1>5, <1>7 DEF IndInv

-----------------------------------------------------------------------------
\* abuf_dec_usb: in a reset the reader is where the decoder is; otherwise it reads
\* on if there is something.
LEMMA UsbReads ==
    ASSUME IndInv, AbufDecUsb
    PROVE  /\ TypePtrs' /\ NumMic' = NumMic
           /\ NumDec' \in Int /\ NumDec' <= NumDec
           /\ reset' \in 0 .. ResetCount /\ irqs' \in 0 .. IrqPerPass /\ irqs' = irqs + 1
           /\ \/ reset = 0 /\ reset' = 0
              \/ reset # 0 /\ reset' = reset - 1 /\ NumDec' = 0
              \/ reset' = ResetCount - 1 /\ NumDec' = 0
<1>1. TypePtrs /\ TypeCounts
  BY DEF IndInv
<1>2. PICK late, counter, rptr, num :
          /\ counter = IF late THEN ResetCount ELSE reset
          /\ rptr = IF counter # 0 THEN decWptr * Frame ELSE decRptr
          /\ num = Ahead(decWptr, rptr \div Frame)
          /\ irqs < IrqPerPass /\ irqs' = irqs + 1
          /\ reset' = IF counter # 0 THEN counter - 1 ELSE 0
          /\ decRptr' = IF SendsSound(num) THEN Advance(rptr) ELSE rptr
          /\ micWptr' = micWptr /\ decWptr' = decWptr
  BY DEF AbufDecUsb
<1>3. rptr \in 0 .. Frame * Modulus - 1
  BY <1>1, <1>2, FrameStart DEF TypePtrs
<1>4. decRptr' \in 0 .. Frame * Modulus - 1
  BY <1>2, <1>3, AdvanceIs
<1>5. TypePtrs' /\ NumMic' = NumMic
  BY <1>1, <1>2, <1>4 DEF TypePtrs, NumMic
<1>6. irqs' \in 0 .. IrqPerPass /\ reset' \in 0 .. ResetCount
  BY <1>1, <1>2, Counts, Consts
<1>7. /\ decWptr \in 0 .. Modulus - 1 /\ rptr \div Frame \in 0 .. Modulus - 1
      /\ decRptr \div Frame \in 0 .. Modulus - 1 /\ NumDec \in Int /\ NumDec >= 0
  BY <1>1, <1>3, Split, Numbers DEF TypePtrs
<1>8. num \in Int /\ num >= 0 /\ (num = 0 <=> decWptr = rptr \div Frame)
  BY <1>2, <1>7, AheadIs
<1>9. NumDec' \in Int /\ NumDec' <= num /\ (num = 0 => NumDec' = 0)
  <2>1. NumDec' = Ahead(decWptr, decRptr' \div Frame)
    BY <1>2 DEF NumDec
  <2>2. CASE ~SendsSound(num)
    <3>1. NumDec' = num
      BY <1>2, <2>1, <2>2
    <3> QED BY <1>8, <3>1
  <2>3. CASE SendsSound(num)
    <3>1. num # 0
      BY <2>3 DEF SendsSound
    <3>2. decRptr' \div Frame \in {rptr \div Frame, ((rptr \div Frame) + 1) % Modulus}
      BY <1>2, <1>3, <2>3, AdvanceIs
    <3>3. Ahead(decWptr, ((rptr \div Frame) + 1) % Modulus) = num - 1
      BY <1>2, <1>7, <1>8, <3>1, AheadRead
    <3>4. NumDec' = num \/ NumDec' = num - 1
      BY <1>2, <2>1, <3>2, <3>3
    <3> QED BY <1>8, <3>1, <3>4
  <2> QED BY <2>2, <2>3
<1>10. CASE counter # 0
  <2>1. rptr \div Frame = decWptr
    BY <1>2, <1>7, <1>10, FrameStart
  <2>2. NumDec' = 0
    BY <1>8, <1>9, <2>1
  <2>3. reset' = counter - 1 /\ (counter = ResetCount \/ counter = reset)
    BY <1>2, <1>10
  <2> QED BY <1>2, <1>5, <1>6, <1>7, <1>10, <2>2, <2>3
<1>11. CASE counter = 0
  <2>1. reset = 0 /\ reset' = 0
    <3>1. ResetCount # 0
      BY Consts
    <3> QED BY <1>2, <1>11, <3>1
  <2>2. num = NumDec
    BY <1>2, <1>11 DEF NumDec
  <2> QED BY <1>2, <1>5, <1>6, <1>9, <2>1, <2>2
<1> QED BY <1>10, <1>11

LEMMA UsbInd == ASSUME IndInv, AbufDecUsb PROVE IndInv'
<1>1. /\ TypePtrs /\ TypeCounts /\ TypeFlags /\ TypeSlots /\ Caught /\ Depth /\ Passes
  BY DEF IndInv
<1>2. /\ TypePtrs' /\ NumMic' = NumMic /\ NumDec' \in Int /\ NumDec' <= NumDec
      /\ reset' \in 0 .. ResetCount /\ irqs' \in 0 .. IrqPerPass /\ irqs' = irqs + 1
      /\ \/ reset = 0 /\ reset' = 0
         \/ reset # 0 /\ reset' = reset - 1 /\ NumDec' = 0
         \/ reset' = ResetCount - 1 /\ NumDec' = 0
  BY UsbReads
<1>3. start' = start /\ pc' = pc /\ stores' = stores /\ adds' = adds
  BY DEF AbufDecUsb
<1>4. TypeCounts'
  BY <1>1, <1>2, <1>3 DEF TypeCounts
<1>5. TypeFlags'
  <2>1. PICK num : bufferEmpty' = (num = 0 \/ (bufferEmpty /\ ~SendsSound(num)))
    BY DEF AbufDecUsb
  <2>2. bufferEmpty' \in BOOLEAN
    BY <2>1
  <2> QED BY <1>1, <1>3, <2>2 DEF TypeFlags
<1>6. TypeSlots'
  <2>1. unheard' \subseteq unheard /\ hollow' \subseteq hollow
    BY DEF AbufDecUsb
  <2> QED BY <1>1, <2>1 DEF TypeSlots
<1>7. NumDec \in Int /\ NumMic \in Int /\ NumDec >= 0
  BY <1>1, Numbers
<1>8. Passes'
  BY <1>1, <1>3 DEF Passes
<1>9. Depth'
  <2>1. (reset' = 0 /\ pc # "init") => NumDec' <= Slots + 1
    BY <1>1, <1>2, <1>7, Consts DEF Depth, Settled
  <2>2. pc = "decode" => NumDec' <= Slots
    BY <1>1, <1>2, <1>7, Consts DEF Depth
  <2> QED BY <1>3, <2>1, <2>2 DEF Depth, Settled
<1>10. /\ reset \in Int /\ irqs \in Int /\ reset >= 0 /\ reset' \in Int /\ irqs' \in Int /\ adds \in Int
       /\ irqs >= 0 /\ irqs' <= IrqPerPass
  BY <1>1, <1>2, Counts, Consts
<1>11. /\ reset # 0 /\ reset + irqs >= ResetCount => reset' + irqs' >= ResetCount
       /\ reset # 0 /\ reset + irqs >= ResetCount - IrqPerPass => reset' + irqs' >= ResetCount - IrqPerPass
       /\ reset = 0 => reset' = 0 \/ reset' + irqs' >= ResetCount
  <2>1. \/ reset = 0 /\ reset' = 0
        \/ reset # 0 /\ reset' + irqs' = reset + irqs
        \/ reset' + irqs' = ResetCount + irqs
    <3>1. irqs' = irqs + 1 /\ ResetCount \in Int
      BY <1>2, Consts
    <3>2. \/ reset = 0 /\ reset' = 0
          \/ reset # 0 /\ reset' = reset - 1
          \/ reset' = ResetCount - 1
      BY <1>2
    <3>3. reset' = reset - 1 => reset' + irqs' = reset + irqs
      BY <1>10, <3>1
    <3>4. reset' = ResetCount - 1 => reset' + irqs' = ResetCount + irqs
      BY <1>10, <3>1
    <3> QED BY <3>2, <3>3, <3>4, Zenon
  <2>2. ResetCount + irqs >= ResetCount /\ ResetCount + irqs >= ResetCount - IrqPerPass
    BY <1>10, Consts
  <2> QED BY <2>1, <2>2
<1>12. /\ reset + irqs >= ResetCount => reset # 0
       /\ reset + irqs >= ResetCount - IrqPerPass => reset # 0
  <2>1. irqs <= IrqPerPass
    BY <1>1, Counts
  <2> QED BY <1>10, <2>1, Margins
<1>13. reset' + irqs' >= ResetCount => reset' + irqs' >= ResetCount - IrqPerPass
  BY <1>10, Margins
<1>14. Caught'
  <2>1. CASE pc = "idle"
    <3>1. reset = 0 \/ reset + irqs >= ResetCount \/ NumMic <= adds
      BY <1>1, <2>1 DEF Caught, Recent
    <3>2. reset' = 0 \/ reset' + irqs' >= ResetCount \/ NumMic' <= adds'
      BY <1>2, <1>3, <1>11, <1>12, <3>1
    <3> QED BY <1>3, <2>1, <3>2 DEF Caught, Recent
  <2>2. CASE pc = "init"
    <3>1. "reset" \in stores \/ reset' + irqs' >= ResetCount
      BY <1>1, <1>11, <1>12, <2>2 DEF Caught, Recent
    <3> QED BY <1>3, <2>2, <3>1 DEF Caught, Recent
  <2>3. CASE pc = "dec"
    <3>1. reset = 0 \/ reset + irqs >= ResetCount - IrqPerPass \/ NumMic <= AddPerPass
      BY <1>1, <2>3 DEF Caught, Recent
    <3>2. reset' = 0 \/ reset' + irqs' >= ResetCount - IrqPerPass \/ NumMic' <= AddPerPass
      BY <1>2, <1>11, <1>12, <1>13, <3>1
    <3> QED BY <1>3, <2>3, <3>2 DEF Caught, Recent
  <2>4. CASE pc = "skip"
    <3>1. \/ reset + irqs >= ResetCount - IrqPerPass
          \/ NumMic <= AddPerPass /\ (reset = 0 => NumDec = 0)
      BY <1>1, <2>4 DEF Caught, Recent
    <3>2. CASE reset + irqs >= ResetCount - IrqPerPass
      <4>1. reset' + irqs' >= ResetCount - IrqPerPass
        BY <1>11, <1>12, <3>2
      <4> QED BY <1>3, <2>4, <4>1 DEF Caught, Recent
    <3>3. CASE NumMic <= AddPerPass /\ (reset = 0 => NumDec = 0)
      <4>1. NumDec' >= 0
        BY <1>2, AheadIs, Split DEF NumDec, TypePtrs
      <4>2. reset' = 0 => NumDec' = 0
        BY <1>2, <1>7, <3>3, <4>1
      <4> QED BY <1>2, <1>3, <2>4, <3>3, <4>2 DEF Caught
    <3> QED BY <3>1, <3>2, <3>3
  <2>5. CASE pc \in {"load", "decode"}
    <3>1. reset = 0 \/ reset + irqs >= ResetCount
      BY <1>1, <2>5 DEF Caught, Recent
    <3>2. reset' = 0 \/ reset' + irqs' >= ResetCount
      BY <1>11, <1>12, <3>1
    <3> QED BY <1>3, <2>5, <3>2 DEF Caught, Recent
  <2> QED BY <1>1, <2>1, <2>2, <2>3, <2>4, <2>5 DEF TypeFlags
<1> QED BY <1>2, <1>4, <1>5, <1>6, <1>8, <1>9, <1>14 DEF IndInv

-----------------------------------------------------------------------------
LEMMA NextInd == IndInv /\ [Next]_vars => IndInv'
<1> SUFFICES ASSUME IndInv, [Next]_vars PROVE IndInv'
  OBVIOUS
<1>1. CASE UNCHANGED vars
  <2>1. NumDec' = NumDec /\ NumMic' = NumMic
    BY <1>1 DEF vars, avars, NumDec, NumMic
  <2>2. TypePtrs' /\ TypeCounts' /\ TypeFlags' /\ TypeSlots'
    BY <1>1 DEF IndInv, vars, avars, TypePtrs, TypeCounts, TypeFlags, TypeSlots
  <2>3. Caught' /\ Depth' /\ Passes'
    BY <1>1, <2>1 DEF IndInv, vars, avars, Caught, Recent, Depth, Settled, Passes
  <2> QED BY <2>2, <2>3 DEF IndInv
<1> QED BY <1>1, AddInd, ProcInd, InitStoreInd, CheckInd, SkipInd, LoadInd, DoneInd, UsbInd DEF Next

\* The inductive invariant of the microphone path: how long ago a reset began, what
\* a skip may still skip, and how far the decoder is ahead at each step.
THEOREM SpecInv == Spec => []IndInv
BY InitInd, NextInd, PTL DEF Spec

\* abuf_mic_dec and abuf_dec_usb: outside a reset the decoder is ahead of the reader
\* by at most the four frames of abuf_dec and one more, wherever the interrupt
\* comes, for any odd or even frame, any range of the pointers, and in whatever
\* order abuf_init stores them.
THEOREM LagThm == Spec => []Lag
<1>1. IndInv => Lag
  BY TypeParts DEF IndInv, Depth, Lag
<1> QED BY <1>1, SpecInv, PTL

-----------------------------------------------------------------------------
(* PlaysFresh.  The invariant says of each frame between the reader and the      *)
(* decoder, and not only of the packet to be sent next, that what is left of it  *)
(* was decoded and not sent, or that its slot is hollow.                         *)

\* The place of the reader in the ring, and the slot of the k-th frame from there.
Pos(r) == r % (Slots * Frame)
SlotAt(k) == ((decRptr \div Frame) + k) % Slots

\* What is left of the k-th frame.
Left(k) == {u \in Units(SlotAt(k)) : k = 0 => u >= Pos(decRptr)}

Kept(k, u) ==
    \/ u \in unheard
    \/ SlotAt(k) \in hollow
    \/ decRptr = 0 /\ u = 0

\* Five frames need five slots: the first and the last share one, which is hollow.
Fresh ==
    Settled =>
      /\ \A k \in 0 .. NumDec - 1 : \A u \in Left(k) : Kept(k, u)
      /\ NumDec = Slots + 1 => SlotAt(0) \in hollow

LEMMA ModIs ==
    ASSUME NEW m \in Int, m > 0, NEW q \in Int, NEW r \in 0 .. m - 1
    PROVE  (q * m + r) % m = r
<1>1. PICK a \in Int : a = q * m + r
  OBVIOUS
<1>2. PICK d \in Int, e \in 0 .. m - 1 : e = a % m /\ a = d * m + e
  <2>1. a % m \in 0 .. m - 1 /\ a \div m \in Int /\ a = (a \div m) * m + (a % m)
    OBVIOUS
  <2> QED BY <2>1
<1>3. (d - q) * m = r - e
  BY <1>1, <1>2
<1>4. d - q = 0
  <2>1. CASE d - q >= 1
    <3>1. (d - q) * m >= m
      BY <2>1
    <3> QED BY <1>3, <3>1
  <2>2. CASE d - q <= -1
    <3>1. (d - q) * m <= -m
      BY <2>2
    <3> QED BY <1>3, <3>1
  <2> QED BY <2>1, <2>2
<1>5. d = q
  BY <1>4
<1>6. r = e
  BY <1>1, <1>2, <1>5
<1> QED BY <1>1, <1>2, <1>6

\* A unit of frame q is one of the slot that the frame is in.
LEMMA PosIs ==
    ASSUME NEW q \in Int, NEW s \in 0 .. Frame - 1
    PROVE  /\ Pos(q * Frame + s) = (q % Slots) * Frame + s
           /\ Pos(q * Frame + s) \in Ring /\ SlotOf(Pos(q * Frame + s)) = q % Slots
<1>1. Frame \in Int /\ Frame > 0 /\ Slots = 4
  BY Consts
<1>2. PICK t \in 0 .. 3, j \in Int : t = q % 4 /\ q = j * 4 + t
  <2>1. q % 4 \in 0 .. 3 /\ q \div 4 \in Int /\ q = (q \div 4) * 4 + (q % 4)
    OBVIOUS
  <2> QED BY <2>1
<1>3. PICK m \in Int : m = 4 * Frame
  BY <1>1
<1>4. q * Frame + s = j * m + (t * Frame + s)
  <2>1. q * Frame = (j * 4) * Frame + t * Frame
    BY <1>1, <1>2
  <2>2. (j * 4) * Frame = j * m
    BY <1>1, <1>3
  <2>3. t * Frame \in Int /\ j * m \in Int
    BY <1>1, <1>3
  <2> QED BY <1>1, <2>1, <2>2, <2>3
<1>5. t * Frame + s \in 0 .. m - 1
  <2>1. t = 0 \/ t = 1 \/ t = 2 \/ t = 3
    OBVIOUS
  <2>2. 0 * Frame = 0 /\ 1 * Frame = Frame /\ 2 * Frame = Frame + Frame /\ 3 * Frame = Frame + Frame + Frame
    BY <1>1
  <2>3. m = Frame + Frame + Frame + Frame
    BY <1>1, <1>3
  <2> QED BY <1>1, <2>1, <2>2, <2>3
<1>6. (j * m + (t * Frame + s)) % m = t * Frame + s
  <2>1. m > 0
    BY <1>1, <1>3
  <2> QED BY <1>5, <2>1, ModIs
<1>7. Pos(q * Frame + s) = t * Frame + s
  BY <1>1, <1>3, <1>4, <1>6 DEF Pos
<1>8. (t * Frame + s) \div Frame = t
  BY DivIs
<1> QED BY <1>1, <1>2, <1>3, <1>5, <1>7, <1>8 DEF Ring, SlotOf

LEMMA RingSize == Cardinality(Ring) = Slots * Frame
<1>1. Slots * Frame \in Int /\ Slots * Frame > 0
  <2>1. Frame \in Int /\ Frame > 0 /\ Slots = 4
    BY Consts
  <2> QED BY <2>1
<1>2. Cardinality(0 .. Slots * Frame - 1) = (Slots * Frame - 1) - 0 + 1
  BY <1>1, FS_Interval
<1> QED BY <1>1, <1>2 DEF Ring

\* Pointers that count modulo Modulus tell the slot.
LEMMA SlotWraps ==
    ASSUME NEW a \in Int
    PROVE  (a + Modulus) % Slots = a % Slots /\ (a - Modulus) % Slots = a % Slots
<1>1. Modulus \in Int /\ Modulus % 4 = 0 /\ Slots = 4
  BY Consts, AudioAssumption DEF Slots
<1> QED BY <1>1

LEMMA NextSlot ==
    ASSUME NEW a \in 0 .. Modulus - 1
    PROVE  ((a + 1) % Modulus) % Slots = (a + 1) % Slots
<1>1. Modulus \in Int /\ a \in Int
  BY Consts
<1>2. (a + 1) % Modulus = (a + 1) \/ (a + 1) % Modulus = (a + 1) - Modulus
  BY <1>1, NextPtr
<1>3. ((a + 1) - Modulus) % Slots = (a + 1) % Slots
  BY <1>1, SlotWraps
<1> QED BY <1>2, <1>3

LEMMA WriterSlot ==
    ASSUME TypePtrs
    PROVE  Slot(decWptr) = SlotAt(NumDec)
<1>1. PICK f \in 0 .. Modulus - 1 : f = decRptr \div Frame
  BY Numbers
<1>2. decWptr \in 0 .. Modulus - 1 /\ Modulus \in Int
  BY Consts DEF TypePtrs
<1>3. NumDec = decWptr - f \/ NumDec = decWptr - f + Modulus
  BY <1>1, <1>2, AheadIs DEF NumDec
<1>4. f + NumDec = decWptr \/ f + NumDec = decWptr + Modulus
  BY <1>1, <1>2, <1>3
<1>5. (decWptr + Modulus) % Slots = decWptr % Slots
  BY <1>2, SlotWraps
<1> QED BY <1>1, <1>4, <1>5 DEF Slot, SlotAt

\* Five slots in a row are the four, and the first again.
LEMMA SlotsInARow ==
    ASSUME TypePtrs
    PROVE  /\ \A j, k \in 0 .. Slots - 1 : j # k => SlotAt(j) # SlotAt(k)
           /\ \A k \in 0 .. Slots - 1 : SlotAt(k + Slots) = SlotAt(k)
           /\ \A k \in Int : SlotAt(k) \in 0 .. Slots - 1
<1>1. PICK f \in Int : f = decRptr \div Frame
  BY Numbers, Consts
<1>2. Slots = 4
  BY Consts
<1>3. \A j, k \in 0 .. 3 : j # k => (f + j) % 4 # (f + k) % 4
  OBVIOUS
<1>4. \A k \in 0 .. 3 : (f + (k + 4)) % 4 = (f + k) % 4
  OBVIOUS
<1>5. \A k \in Int : (f + k) % 4 \in 0 .. 3
  OBVIOUS
<1> QED BY <1>1, <1>2, <1>3, <1>4, <1>5 DEF SlotAt

\* Two units from r, in the ring: the packet, and where it leaves the reader.
LEMMA WindowIs ==
    ASSUME NEW r \in 0 .. Frame * Modulus - 1, NEW f, f = r \div Frame, NEW g, g = Advance(r) \div Frame
    PROVE  /\ Pos(r) \in Ring /\ SlotOf(Pos(r)) = f % Slots
           /\ Pos(r + 1) \in Ring
           /\ Pos(Advance(r)) \in Ring
           /\ \/ g = f /\ Advance(r) # 0 /\ Pos(r) < Pos(Advance(r)) /\ Pos(r + 1) < Pos(Advance(r))
                 /\ SlotOf(Pos(r + 1)) = f % Slots
              \/ g = (f + 1) % Modulus /\ SlotOf(Pos(r + 1)) = f % Slots
              \/ g = (f + 1) % Modulus /\ SlotOf(Pos(r + 1)) = (f + 1) % Slots
                 /\ (Pos(r + 1) < Pos(Advance(r)) \/ (Advance(r) = 0 /\ Pos(r + 1) = 0))
           /\ IF (r + 1) % Frame = 0 THEN SlotOf(Pos(r + 1)) = (f + 1) % Slots
                                     ELSE SlotOf(Pos(r + 1)) = f % Slots /\ Pos(r + 1) > Pos(r)
<1>1. Frame \in Int /\ Frame >= 2 /\ Modulus \in Int /\ Modulus > 0 /\ Packet = 2 /\ Slots = 4
  BY Consts
<1>2. PICK s \in 0 .. Frame - 1 : f \in 0 .. Modulus - 1 /\ r = f * Frame + s
  BY Split
<1>3. PICK a \in Int, b \in Int : a = (f % Slots) * Frame /\ b = ((f + 1) % Slots) * Frame
  <2>1. f % 4 \in Int /\ (f + 1) % 4 \in Int
    BY <1>2
  <2> QED BY <1>1, <2>1
<1>4. Pos(r) \in Ring /\ SlotOf(Pos(r)) = f % Slots /\ Pos(r) = a + s
  <2>1. f \in Int
    BY <1>1, <1>2
  <2> QED BY <1>2, <1>3, <2>1, PosIs
<1>5. CASE s + 2 <= Frame - 1
  <2>1. r + 1 = f * Frame + (s + 1) /\ r + 2 = f * Frame + (s + 2)
    BY <1>1, <1>2
  <2>2. Pos(r + 1) \in Ring /\ SlotOf(Pos(r + 1)) = f % Slots /\ Pos(r + 1) = a + (s + 1)
    <3>1. s + 1 \in 0 .. Frame - 1 /\ f \in Int
      BY <1>1, <1>2, <1>5
    <3> QED BY <1>3, <2>1, <3>1, PosIs
  <2>3. Pos(r + 2) \in Ring /\ Pos(r + 2) = a + (s + 2) /\ (r + 2) \div Frame = f
    <3>1. s + 2 \in 0 .. Frame - 1 /\ f \in Int
      BY <1>1, <1>2, <1>5
    <3> QED BY <1>3, <2>1, <3>1, PosIs, DivIs
  <2>4. Advance(r) = r + 2 /\ r + 2 # 0
    <3>1. f * Frame <= (Modulus - 1) * Frame /\ (Modulus - 1) * Frame = Frame * Modulus - Frame
      BY <1>1, <1>2
    <3>2. PICK m \in Int, c \in Int : m = Frame * Modulus /\ c = f * Frame
      BY <1>1, <1>2
    <3>3. r + 2 < m
      BY <1>1, <1>2, <1>5, <3>1, <3>2
    <3> QED BY <1>1, <3>2, <3>3 DEF Advance
  <2>5. (r + 1) % Frame # 0
    <3>1. s + 1 \in 0 .. Frame - 1 /\ f \in Int
      BY <1>1, <1>2, <1>5
    <3>2. (r + 1) % Frame = s + 1
      BY <1>1, <2>1, <3>1, ModIs
    <3> QED BY <1>2, <3>2
  <2> QED BY <1>2, <1>3, <1>4, <2>2, <2>3, <2>4, <2>5
<1>6. CASE s + 2 >= Frame
  <2>1. f # Modulus - 1 => Advance(r) = r + 2
    <3> SUFFICES ASSUME f # Modulus - 1 PROVE Advance(r) = r + 2
      OBVIOUS
    <3>1. PICK m \in Int, c \in Int : m = Frame * Modulus /\ c = f * Frame
      BY <1>1, <1>2
    <3>2. c <= m - Frame - Frame
      <4>1. PICK h \in Nat : f = Modulus - 2 - h
        <5>1. Modulus - 2 - f \in Nat /\ f = Modulus - 2 - (Modulus - 2 - f)
          BY <1>1, <1>2
        <5> QED BY <5>1
      <4>2. c = m - Frame - Frame - h * Frame /\ h * Frame >= 0 /\ h * Frame \in Int
        BY <1>1, <3>1, <4>1
      <4> QED BY <1>1, <3>1, <4>2
    <3>3. r + 2 < m
      BY <1>1, <1>2, <3>1, <3>2
    <3> QED BY <1>1, <3>1, <3>3 DEF Advance
  <2>2. f = Modulus - 1 => Advance(r) = 0
    <3> SUFFICES ASSUME f = Modulus - 1 PROVE Advance(r) = 0
      OBVIOUS
    <3>1. f * Frame = Frame * Modulus - Frame
      BY <1>1
    <3>2. PICK m \in Int : m = Frame * Modulus
      BY <1>1
    <3>3. r + 2 >= m
      BY <1>1, <1>2, <1>6, <3>1, <3>2
    <3> QED BY <1>1, <3>2, <3>3 DEF Advance
  <2>3. g = (f + 1) % Modulus
    <3>1. r + 2 = (f + 1) * Frame + (s + 2 - Frame) /\ s + 2 - Frame \in 0 .. Frame - 1 /\ f + 1 \in Int
      BY <1>1, <1>2, <1>6
    <3>2. (r + 2) \div Frame = f + 1 /\ 0 \div Frame = 0
      BY <1>1, <3>1, DivIs
    <3>3. (f + 1) % Modulus = IF f = Modulus - 1 THEN 0 ELSE f + 1
      BY <1>2, NextPtr
    <3> QED BY <2>1, <2>2, <3>2, <3>3
  <2>4. Pos(Advance(r)) \in Ring
    <3>1. Advance(r) \in 0 .. Frame * Modulus - 1
      BY AdvanceIs
    <3>2. PICK i \in 0 .. Modulus - 1, t \in 0 .. Frame - 1 : Advance(r) = i * Frame + t
      BY <3>1, Split
    <3>3. i \in Int
      BY <1>1
    <3> QED BY <3>2, <3>3, PosIs
  <2>5. CASE s = Frame - 2
    <3>1. r + 1 = f * Frame + (s + 1) /\ s + 1 \in 0 .. Frame - 1 /\ f \in Int /\ s + 1 # 0
      BY <1>1, <1>2, <2>5
    <3>2. Pos(r + 1) \in Ring /\ SlotOf(Pos(r + 1)) = f % Slots /\ Pos(r + 1) = a + (s + 1)
      BY <1>3, <3>1, PosIs
    <3>3. (r + 1) % Frame # 0
      <4>1. (r + 1) % Frame = s + 1
        BY <1>1, <3>1, ModIs
      <4> QED BY <3>1, <4>1
    <3>4. Pos(r + 1) > Pos(r)
      BY <1>1, <1>2, <1>3, <1>4, <3>2
    <3> QED BY <1>4, <2>3, <2>4, <3>2, <3>3, <3>4
  <2>6. CASE s = Frame - 1
    <3>1. r + 1 = (f + 1) * Frame + 0 /\ 0 \in 0 .. Frame - 1 /\ 1 \in 0 .. Frame - 1 /\ f + 1 \in Int
      BY <1>1, <1>2, <2>6
    <3>2. Pos(r + 1) \in Ring /\ SlotOf(Pos(r + 1)) = (f + 1) % Slots /\ Pos(r + 1) = b + 0
      BY <1>3, <3>1, PosIs
    <3>3. (r + 1) % Frame = 0
      BY <1>1, <3>1, ModIs
    <3>4. Pos(r + 1) < Pos(Advance(r)) \/ (Advance(r) = 0 /\ Pos(r + 1) = 0)
      <4>1. CASE f # Modulus - 1
        <5>1. Advance(r) = r + 2
          BY <2>1, <4>1
        <5>2. r + 2 = (f + 1) * Frame + 1
          BY <1>1, <1>2, <2>6
        <5>3. Pos(r + 2) = b + 1
          BY <1>3, <3>1, <5>2, PosIs
        <5> QED BY <1>3, <3>2, <5>1, <5>3
      <4>2. CASE f = Modulus - 1
        <5>1. Advance(r) = 0
          BY <2>2, <4>2
        <5>2. (f + 1) % Slots = 0
          BY <1>1, <4>2, AudioAssumption
        <5>3. b = 0
          BY <1>1, <1>3, <5>2
        <5> QED BY <3>2, <5>1, <5>3
      <4> QED BY <4>1, <4>2
    <3> QED BY <1>4, <2>3, <2>4, <3>2, <3>3, <3>4
  <2> QED BY <1>1, <1>2, <1>6, <2>5, <2>6
<1> QED BY <1>1, <1>5, <1>6

-----------------------------------------------------------------------------
LEMMA FreshUse ==
    ASSUME Fresh, Settled, NEW k \in 0 .. NumDec - 1, NEW u \in Units(SlotAt(k)), k = 0 => u >= Pos(decRptr)
    PROVE  u \in unheard \/ SlotAt(k) \in hollow \/ (decRptr = 0 /\ u = 0)
BY DEF Fresh, Left, Kept

LEMMA FreshIntro ==
    ASSUME ASSUME Settled', NEW k \in 0 .. NumDec' - 1, NEW u \in Units(SlotAt(k)'), k = 0 => u >= Pos(decRptr')
           PROVE  u \in unheard' \/ SlotAt(k)' \in hollow' \/ (decRptr' = 0 /\ u = 0),
           Settled' /\ NumDec' = Slots + 1 => SlotAt(0)' \in hollow'
    PROVE  Fresh'
BY DEF Fresh, Left, Kept

LEMMA InUnits == ASSUME NEW s, NEW u \in Units(s) PROVE SlotOf(u) = s
BY DEF Units

\* One more for the decoder.
LEMMA OneMore ==
    ASSUME TypePtrs, decWptr' = (decWptr + 1) % Modulus, decRptr' = decRptr
    PROVE  NumDec' = NumDec + 1 \/ NumDec' = 0
<1>1. PICK f \in 0 .. Modulus - 1 : f = decRptr \div Frame
  BY Numbers
<1>2. decWptr \in 0 .. Modulus - 1 /\ Modulus \in Int
  BY Consts DEF TypePtrs
<1>3. decWptr' \in 0 .. Modulus - 1 /\ decWptr' = IF decWptr = Modulus - 1 THEN 0 ELSE decWptr + 1
  BY <1>2, NextPtr
<1>4. /\ NumDec = IF decWptr >= f THEN decWptr - f ELSE decWptr - f + Modulus
      /\ NumDec' = IF decWptr' >= f THEN decWptr' - f ELSE decWptr' - f + Modulus
  BY <1>1, <1>2, <1>3, AheadIs DEF NumDec
<1> QED BY <1>1, <1>2, <1>3, <1>4

\* A step that moves no pointer of abuf_dec and takes nothing out of it.
LEMMA FreshSame ==
    ASSUME Fresh, decRptr' = decRptr, decWptr' = decWptr, unheard \subseteq unheard',
           hollow \subseteq hollow', Settled' => Settled
    PROVE  Fresh'
<1>1. NumDec' = NumDec /\ \A k : SlotAt(k)' = SlotAt(k)
  BY DEF NumDec, SlotAt
<1>2. ASSUME Settled', NEW k \in 0 .. NumDec' - 1, NEW u \in Units(SlotAt(k)'), k = 0 => u >= Pos(decRptr')
      PROVE  u \in unheard' \/ SlotAt(k)' \in hollow' \/ (decRptr' = 0 /\ u = 0)
  <2>1. k \in 0 .. NumDec - 1 /\ u \in Units(SlotAt(k)) /\ (k = 0 => u >= Pos(decRptr)) /\ Settled
    BY <1>1, <1>2
  <2>2. u \in unheard \/ SlotAt(k) \in hollow \/ (decRptr = 0 /\ u = 0)
    BY <2>1, FreshUse
  <2> QED BY <1>1, <2>2
<1>3. Settled' /\ NumDec' = Slots + 1 => SlotAt(0)' \in hollow'
  BY <1>1 DEF Fresh
<1> QED BY <1>2, <1>3, FreshIntro

\* abuf_mic_dec skips: the slots passed over are hollow.
LEMMA SkipFresh == ASSUME IndInv, Fresh, SkipMic PROVE Fresh'
<1>1. TypePtrs /\ TypeCounts /\ Caught
  BY DEF IndInv
<1> DEFINE skipped == {Slot(decWptr + k) : k \in 0 .. NumMic - 1}
<1>2. /\ pc = "skip" /\ decWptr' = micWptr /\ decRptr' = decRptr /\ reset' = reset
      /\ skipped \subseteq hollow'
  BY DEF SkipMic
<1>3. ASSUME Settled' PROVE NumDec = 0 /\ NumDec' = NumMic
  <2>1. reset = 0
    BY <1>2, <1>3 DEF Settled
  <2>2. NumDec = 0
    <3>1. ~Recent(ResetCount - IrqPerPass)
      BY <1>1, <2>1, Counts, Consts DEF Recent
    <3> QED BY <1>1, <1>2, <2>1, <3>1 DEF Caught
  <2>3. NumDec' = NumMic
    BY <1>1, <1>2, <2>2, Numbers DEF NumDec, NumMic
  <2> QED BY <2>2, <2>3
<1>4. ASSUME Settled', NEW k \in 0 .. NumDec' - 1 PROVE SlotAt(k)' \in hollow'
  <2>1. decWptr = decRptr \div Frame
    BY <1>1, <1>3, <1>4, Numbers
  <2>2. SlotAt(k)' = Slot(decWptr + k)
    BY <1>2, <2>1 DEF SlotAt, Slot
  <2> QED BY <1>2, <1>3, <1>4, <2>2
<1>5. Settled' /\ NumDec' = Slots + 1 => SlotAt(0)' \in hollow'
  <2>1. 0 \in 0 .. (Slots + 1) - 1
    BY Consts
  <2> QED BY <1>4, <2>1
<1> HIDE DEF skipped
<1> QED BY <1>4, <1>5, FreshIntro

\* ... or drops a packet and begins to decode.  What it takes from the reader is
\* hollow from then on.
LEMMA LoadFresh == ASSUME IndInv, Fresh, DecLoad PROVE Fresh'
<1>1. TypePtrs
  BY DEF IndInv
<1> DEFINE overflow == NumMic > Slots
           first == IF overflow THEN (decWptr + 1) % Modulus ELSE decWptr
           dropped == IF overflow THEN {Slot(decWptr)} ELSE {}
           decode == NumDec <= Slots /\ EnoughMic /\ DecoderBehind
           written == IF decode THEN {Slot(first)} ELSE {}
           overwritten == IF overflow /\ NumDec = 3 THEN written ELSE {}
<1>2. /\ decWptr' = first
      /\ reset' = IF NumDec > Slots THEN ResetCount ELSE reset
      /\ unheard' = {u \in unheard : SlotOf(u) \notin dropped \cup written}
      /\ hollow' = hollow \cup dropped \cup overwritten
  BY DEF DecLoad
<1>3. pc = "load" /\ decRptr' = decRptr
  BY DEF DecLoad
<1>4. /\ NumDec \in Int /\ NumDec >= 0 /\ Slots = 4
      /\ decWptr \in 0 .. Modulus - 1 /\ Slot(decWptr) = SlotAt(NumDec)
  BY <1>1, Numbers, Consts, WriterSlot DEF TypePtrs
<1>5. \A k : SlotAt(k)' = SlotAt(k)
  BY <1>3 DEF SlotAt
<1>6. \A j, k \in 0 .. 4 : SlotAt(j) = SlotAt(k) => j = k \/ {j, k} = {0, 4}
  <2>1. /\ \A j, k \in 0 .. 3 : j # k => SlotAt(j) # SlotAt(k)
        /\ SlotAt(0 + 4) = SlotAt(0)
    BY <1>1, <1>4, SlotsInARow
  <2> QED BY <2>1
<1>7. Settled' => Settled /\ NumDec <= 4
  BY <1>2, <1>3, <1>4, Consts DEF Settled
<1>8. decode => NumDec <= 3
  BY DEF DecoderBehind
<1>9. overflow => SlotAt(NumDec) \in hollow'
  BY <1>2, <1>4
<1>10. SlotAt(4) = SlotAt(0)
  <2>1. SlotAt(0 + 4) = SlotAt(0)
    BY <1>1, <1>4, SlotsInARow
  <2> QED BY <2>1
<1>11. decode => Slot(first) = IF overflow THEN SlotAt(NumDec + 1) ELSE SlotAt(NumDec)
  <2>1. CASE ~overflow
    BY <1>4, <2>1
  <2>2. CASE overflow
    <3>1. Slot(first) = (decWptr + 1) % Slots
      BY <1>4, <2>2, NextSlot DEF Slot
    <3>2. PICK f \in Int : f = decRptr \div Frame
      BY <1>1, Numbers, Consts
    <3>3. decWptr \in Int /\ decWptr % 4 = (f + NumDec) % 4
      BY <1>4, <3>2, Consts DEF Slot, SlotAt
    <3>4. (decWptr + 1) % 4 = (f + (NumDec + 1)) % 4
      BY <1>4, <3>3
    <3> QED BY <1>4, <2>2, <3>1, <3>2, <3>4 DEF SlotAt
  <2> QED BY <2>1, <2>2
<1>12. ASSUME Settled', NEW k \in 0 .. NumDec' - 1, NEW u \in Units(SlotAt(k)'), k = 0 => u >= Pos(decRptr')
      PROVE  u \in unheard' \/ SlotAt(k)' \in hollow' \/ (decRptr' = 0 /\ u = 0)
  <2>1. NumDec' = NumDec \/ (overflow /\ NumDec' = NumDec + 1)
    <3>1. CASE ~overflow
      BY <1>2, <1>3, <3>1 DEF NumDec
    <3>2. CASE overflow
      <4>1. NumDec' = NumDec + 1 \/ NumDec' = 0
        BY <1>1, <1>2, <1>3, <3>2, OneMore
      <4> QED BY <1>12, <3>2, <4>1
    <3> QED BY <3>1, <3>2
  <2>2. CASE k = NumDec
    <3>1. overflow
      BY <1>4, <2>1, <2>2
    <3> QED BY <1>5, <1>9, <2>2, <3>1
  <2>3. CASE k # NumDec
    <3>1. k \in 0 .. NumDec - 1 /\ k \in 0 .. 4 /\ NumDec \in 0 .. 4
      BY <1>4, <1>7, <1>12, <2>1, <2>3
    <3>2. u \in Units(SlotAt(k)) /\ SlotOf(u) = SlotAt(k)
      BY <1>5, InUnits
    <3>3. u \in unheard \/ SlotAt(k) \in hollow \/ (decRptr = 0 /\ u = 0)
      BY <1>3, <1>7, <1>12, <3>1, <3>2, FreshUse
    <3>4. SlotAt(k) \in dropped => SlotAt(k) \in hollow'
      BY <1>2
    <3>5. SlotAt(k) \in written => SlotAt(k) \in hollow'
      <4> SUFFICES ASSUME SlotAt(k) \in written PROVE SlotAt(k) \in hollow'
        OBVIOUS
      <4>1. decode /\ NumDec <= 3 /\ SlotAt(k) = Slot(first)
        BY <1>8
      <4>2. NumDec + 1 \in 0 .. 4
        BY <3>1, <4>1
      <4>3. overflow /\ SlotAt(k) = SlotAt(NumDec + 1)
        <5>1. CASE ~overflow
          <6>1. SlotAt(k) = SlotAt(NumDec)
            BY <1>11, <4>1, <5>1
          <6>2. k = NumDec \/ {k, NumDec} = {0, 4}
            BY <1>6, <3>1, <6>1
          <6> QED BY <3>1, <4>1, <6>2
        <5> QED BY <1>11, <4>1, <5>1
      <4>4. k = NumDec + 1 \/ {k, NumDec + 1} = {0, 4}
        BY <1>6, <3>1, <4>2, <4>3
      <4>5. NumDec = 3
        BY <3>1, <4>1, <4>4
      <4> QED BY <1>2, <4>3, <4>5
    <3> QED BY <1>2, <1>3, <1>5, <3>2, <3>3, <3>4, <3>5
  <2> QED BY <2>2, <2>3
<1>13. Settled' /\ NumDec' = Slots + 1 => SlotAt(0)' \in hollow'
  <2> SUFFICES ASSUME Settled', NumDec' = Slots + 1 PROVE SlotAt(0)' \in hollow'
    OBVIOUS
  <2>1. overflow
    <3>1. CASE ~overflow
      <4>1. NumDec' = NumDec
        BY <1>2, <1>3, <3>1 DEF NumDec
      <4> QED BY <1>4, <1>7, <4>1
    <3> QED BY <3>1
  <2>2. NumDec' = NumDec + 1 \/ NumDec' = 0
    BY <1>1, <1>2, <1>3, <2>1, OneMore
  <2>3. NumDec = 4
    BY <1>4, <2>2
  <2> QED BY <1>5, <1>9, <1>10, <2>1, <2>3
<1> HIDE DEF overflow, first, dropped, decode, written, overwritten
<1> QED BY <1>12, <1>13, FreshIntro

\* The frame is decoded: its slot is fresh, or overwrote what the reader still reads.
LEMMA DoneFresh == ASSUME IndInv, Fresh, DecDone PROVE Fresh'
<1>1. TypePtrs /\ Depth
  BY DEF IndInv
<1>2. /\ pc = "decode" /\ decWptr' = (decWptr + 1) % Modulus /\ decRptr' = decRptr /\ reset' = reset
      /\ unheard' = unheard \cup Units(Slot(decWptr))
      /\ hollow' = IF NumDec < Slots THEN hollow \ {Slot(decWptr)} ELSE hollow \cup {Slot(decWptr)}
  BY DEF DecDone
<1>3. /\ NumDec \in 0 .. 4 /\ Slots = 4 /\ Slot(decWptr) = SlotAt(NumDec)
  BY <1>1, <1>2, Numbers, Consts, WriterSlot DEF Depth
<1>4. \A k : SlotAt(k)' = SlotAt(k)
  BY <1>2 DEF SlotAt
<1>5. (NumDec' = NumDec + 1 \/ NumDec' = 0) /\ (Settled' => Settled)
  BY <1>1, <1>2, OneMore DEF Settled
<1>6. /\ \A j, k \in 0 .. 3 : j # k => SlotAt(j) # SlotAt(k)
      /\ SlotAt(0 + 4) = SlotAt(0)
  BY <1>1, <1>3, SlotsInARow
<1>7. ASSUME Settled', NEW k \in 0 .. NumDec' - 1, NEW u \in Units(SlotAt(k)'), k = 0 => u >= Pos(decRptr')
      PROVE  u \in unheard' \/ SlotAt(k)' \in hollow' \/ (decRptr' = 0 /\ u = 0)
  <2>1. NumDec' = NumDec + 1
    BY <1>5, <1>7
  <2>2. CASE k = NumDec
    BY <1>2, <1>3, <1>4, <2>2
  <2>3. CASE k # NumDec
    <3>1. k \in 0 .. NumDec - 1 /\ u \in Units(SlotAt(k))
      BY <1>3, <1>4, <1>7, <2>1, <2>3
    <3>2. u \in unheard \/ SlotAt(k) \in hollow \/ (decRptr = 0 /\ u = 0)
      BY <1>2, <1>5, <1>7, <3>1, FreshUse
    <3>3. NumDec < 4 => SlotAt(k) # SlotAt(NumDec)
      BY <1>3, <1>6, <3>1
    <3>4. SlotAt(k) \in hollow => SlotAt(k) \in hollow'
      BY <1>2, <1>3, <3>3
    <3> QED BY <1>2, <1>4, <3>2, <3>4
  <2> QED BY <2>2, <2>3
<1>8. Settled' /\ NumDec' = Slots + 1 => SlotAt(0)' \in hollow'
  <2> SUFFICES ASSUME NumDec' = Slots + 1 PROVE SlotAt(0)' \in hollow'
    OBVIOUS
  <2>1. NumDec = 4
    BY <1>3, <1>5
  <2>2. SlotAt(4) \in hollow' /\ SlotAt(4) = SlotAt(0)
    BY <1>2, <1>3, <1>6, <2>1
  <2> QED BY <1>4, <2>2
<1> QED BY <1>7, <1>8, FreshIntro

\* abuf_init: a reset is on its way until the last store, and under way then.
LEMMA InitStoreFresh == ASSUME IndInv, AbufInit PROVE Fresh'
<1>1. TypeCounts /\ Caught
  BY DEF IndInv
<1>2. PICK v \in stores :
         /\ reset' = IF v = "reset" THEN ResetCount ELSE reset
         /\ stores' = stores \ {v}
         /\ pc' = IF stores' = {} THEN "dec" ELSE pc
  BY DEF AbufInit
<1>3. pc = "init" /\ irqs' = irqs
  BY DEF AbufInit
<1>4. CASE stores' = {}
  <2>1. reset' # 0
    <3>1. CASE v = "reset"
      BY <1>2, <3>1, Consts
    <3>2. CASE v # "reset"
      <4>1. reset + irqs >= ResetCount
        BY <1>1, <1>2, <1>3, <1>4, <3>2 DEF Caught, Recent
      <4>2. reset # 0
        BY <1>1, <4>1, Counts, Consts
      <4> QED BY <1>2, <3>2, <4>2
    <3> QED BY <3>1, <3>2
  <2> QED BY <2>1 DEF Fresh, Settled
<1>5. CASE stores' # {}
  BY <1>2, <1>3, <1>5 DEF Fresh, Settled
<1> QED BY <1>4, <1>5

\* abuf_dec_usb sends a packet.
LEMMA SendFresh ==
    ASSUME IndInv, Fresh, Settled, NumDec # 0, decRptr' = Advance(decRptr), decWptr' = decWptr,
           unheard' = unheard \ {Pos(decRptr), Pos(decRptr + 1)}, hollow' = hollow
    PROVE  Fresh'
<1>1. TypePtrs /\ Depth
  BY DEF IndInv
<1>2. PICK r \in 0 .. Frame * Modulus - 1, n \in 1 .. 5 : r = decRptr /\ n = NumDec
  BY <1>1, Numbers, Consts DEF Depth, TypePtrs
<1>3. PICK f \in 0 .. Modulus - 1, g \in 0 .. Modulus - 1 : f = r \div Frame /\ g = Advance(r) \div Frame
  BY Split, AdvanceIs
<1>4. PICK p \in Int, q \in Int, t \in Int : p = Pos(r) /\ q = Pos(r + 1) /\ t = Pos(Advance(r)) /\ p >= 0
  <2>1. Pos(r) \in Ring /\ Pos(r + 1) \in Ring /\ Pos(Advance(r)) \in Ring
    BY <1>3, WindowIs
  <2>2. \A i \in Ring : i \in Int /\ i >= 0
    BY Consts DEF Ring
  <2> QED BY <2>1, <2>2
<1>5. f \in Int /\ Slots = 4 /\ \A k : SlotAt(k) = (f + k) % 4
  BY <1>2, <1>3, Consts DEF SlotAt
<1>6. SlotOf(p) = SlotAt(0) /\ SlotAt(1) = (f + 1) % 4
  BY <1>3, <1>4, <1>5, WindowIs
<1>7. \A k \in 1 .. 4 : SlotAt(k) = SlotAt(0) => k = 4
  BY <1>5
<1>8. \A k \in 1 .. 4 : SlotAt(k) = SlotAt(1) => k = 1
  BY <1>5
<1>9. n = 5 => SlotAt(0) \in hollow
  BY <1>2, <1>5 DEF Fresh
<1>10. decRptr = 0 => p = 0
  <2>1. 0 % (Slots * Frame) = 0
    BY <1>5, Consts
  <2> QED BY <1>2, <1>4, <2>1 DEF Pos
<1>11. unheard' = unheard \ {p, q}
  BY <1>2, <1>4
\* A unit of another frame in the slot of this one: then the slot is hollow.
<1>12. ASSUME NEW k \in 1 .. n - 1, NEW u \in Units(SlotAt(k))
       PROVE  \/ u \in unheard /\ u # p /\ SlotOf(u) # SlotAt(0)
              \/ SlotAt(k) \in hollow
  <2>1. SlotOf(u) = SlotAt(k) /\ k \in 0 .. NumDec - 1 /\ k \in 1 .. 4 /\ k # 0
    BY <1>2, InUnits
  <2>2. u \in unheard \/ SlotAt(k) \in hollow \/ (decRptr = 0 /\ u = 0)
    BY <2>1, FreshUse
  <2>3. SlotAt(k) = SlotAt(0) => SlotAt(k) \in hollow
    BY <1>2, <1>7, <1>9, <2>1
  <2> QED BY <1>6, <1>10, <2>1, <2>2, <2>3
<1>13. CASE g = f /\ Advance(r) # 0 /\ p < t /\ q < t /\ SlotOf(q) = SlotAt(0)
  <2>1. NumDec' = NumDec /\ \A k : SlotAt(k)' = SlotAt(k)
    BY <1>2, <1>3, <1>13 DEF NumDec, SlotAt
  <2>2. ASSUME NEW k \in 0 .. NumDec' - 1, NEW u \in Units(SlotAt(k)'), k = 0 => u >= Pos(decRptr')
        PROVE  u \in unheard' \/ SlotAt(k)' \in hollow'
    <3>1. k \in 0 .. n - 1 /\ u \in Units(SlotAt(k)) /\ u \in Int
      BY <1>2, <2>1, Consts DEF Units, Ring
    <3>2. CASE k = 0
      <4>1. u >= t /\ u # p /\ u # q /\ u >= Pos(decRptr) /\ u # 0
        BY <1>2, <1>4, <1>13, <2>2, <3>1, <3>2
      <4>2. u \in unheard \/ SlotAt(k) \in hollow
        <5>1. k \in 0 .. NumDec - 1
          BY <1>2, <3>1
        <5> QED BY <3>1, <4>1, <5>1, FreshUse
      <4> QED BY <1>11, <2>1, <4>1, <4>2
    <3>3. CASE k # 0
      <4>1. k \in 1 .. n - 1
        BY <3>1, <3>3
      <4>2. (u \in unheard /\ u # p /\ SlotOf(u) # SlotAt(0)) \/ SlotAt(k) \in hollow
        BY <1>12, <3>1, <4>1
      <4> QED BY <1>11, <1>13, <2>1, <4>2
    <3> QED BY <3>2, <3>3
  <2>3. NumDec' = Slots + 1 => SlotAt(0)' \in hollow'
    BY <1>2, <1>5, <1>9, <2>1
  <2> QED BY <2>2, <2>3, FreshIntro
<1>14. CASE /\ g = (f + 1) % Modulus
            /\ SlotOf(q) = SlotAt(0) \/ (SlotOf(q) = SlotAt(1) /\ (q < t \/ (Advance(r) = 0 /\ q = 0)))
  <2>1. NumDec' = n - 1
    <3>1. decWptr \in 0 .. Modulus - 1 /\ decWptr # f /\ n = Ahead(decWptr, f)
      BY <1>1, <1>2, <1>3, Numbers DEF TypePtrs, NumDec
    <3>2. NumDec' = Ahead(decWptr, g)
      BY <1>2, <1>3 DEF NumDec
    <3> QED BY <1>14, <3>1, <3>2, AheadRead
  <2>2. \A k \in Int : SlotAt(k)' = SlotAt(k + 1)
    <3>1. g % 4 = (f + 1) % 4 /\ g \in Int
      <4>1. g \in 0 .. Modulus - 1 /\ Modulus \in Int
        BY <1>14, NextPtr, Consts
      <4> QED BY <1>5, <1>14, <4>1, NextSlot
    <3>2. \A k \in Int : (g + k) % 4 = (f + (k + 1)) % 4
      BY <1>5, <3>1
    <3>3. \A k : SlotAt(k)' = (g + k) % 4
      BY <1>2, <1>3, <1>5 DEF SlotAt
    <3> QED BY <1>5, <3>2, <3>3
  <2>3. ASSUME NEW k \in 0 .. NumDec' - 1, NEW u \in Units(SlotAt(k)'), k = 0 => u >= Pos(decRptr')
        PROVE  u \in unheard' \/ SlotAt(k)' \in hollow' \/ (decRptr' = 0 /\ u = 0)
    <3>1. k + 1 \in 1 .. n - 1 /\ u \in Units(SlotAt(k + 1)) /\ k \in Int /\ SlotAt(k)' = SlotAt(k + 1)
      BY <1>2, <2>1, <2>2
    <3>2. SlotOf(u) = SlotAt(k + 1) /\ u \in Int
      BY <3>1, Consts DEF Units, Ring
    <3>3. (u \in unheard /\ u # p /\ SlotOf(u) # SlotAt(0)) \/ SlotAt(k + 1) \in hollow
      BY <1>12, <3>1
    <3>4. CASE SlotAt(k + 1) \in hollow
      BY <3>1, <3>4
    <3>5. CASE u \in unheard /\ u # p /\ u # q
      BY <1>11, <3>5
    <3>6. CASE u = q /\ SlotOf(u) # SlotAt(0)
      <4>1. SlotAt(k + 1) = SlotAt(1) /\ (q < t \/ (Advance(r) = 0 /\ q = 0))
        BY <1>14, <3>2, <3>6
      <4>2. k = 0
        <5>1. k + 1 \in 1 .. 4
          BY <1>2, <3>1
        <5>2. k + 1 = 1
          BY <1>8, <4>1, <5>1
        <5> QED BY <3>1, <5>2
      <4>3. u >= t
        BY <1>2, <1>4, <2>3, <4>2
      <4> QED BY <1>2, <1>4, <3>6, <4>1, <4>3
    <3> QED BY <3>3, <3>4, <3>5, <3>6
  <2>4. NumDec' # Slots + 1
    BY <1>2, <1>5, <2>1
  <2> QED BY <2>3, <2>4, FreshIntro
<1> QED
  <2>1. \/ g = f /\ Advance(r) # 0 /\ p < t /\ q < t /\ SlotOf(q) = f % Slots
        \/ g = (f + 1) % Modulus /\ SlotOf(q) = f % Slots
        \/ g = (f + 1) % Modulus /\ SlotOf(q) = (f + 1) % Slots
           /\ (q < t \/ (Advance(r) = 0 /\ q = 0))
    BY <1>3, <1>4, WindowIs
  <2>2. SlotAt(0) = f % Slots /\ SlotAt(1) = (f + 1) % Slots
    BY <1>5
  <2> QED BY <1>13, <1>14, <2>1, <2>2

LEMMA UsbFresh == ASSUME IndInv, Fresh, AbufDecUsb PROVE Fresh'
<1>1. TypePtrs /\ TypeCounts /\ TypePtrs'
  BY UsbReads DEF IndInv
<1>2. PICK counter, rptr, num :
          /\ counter = ResetCount \/ counter = reset
          /\ rptr = IF counter # 0 THEN decWptr * Frame ELSE decRptr
          /\ num = Ahead(decWptr, rptr \div Frame)
          /\ decRptr' = IF SendsSound(num) THEN Advance(rptr) ELSE rptr
          /\ unheard' = IF counter # 0 THEN {}
                        ELSE IF SendsSound(num) THEN unheard \ Window(rptr) ELSE unheard
          /\ hollow' = IF counter # 0 THEN {} ELSE hollow
          /\ decWptr' = decWptr /\ pc' = pc
  <2>1. PICK late \in BOOLEAN :
          LET counter == IF late THEN ResetCount ELSE reset
              rptr == IF counter # 0 THEN decWptr * Frame ELSE decRptr
              num == Ahead(decWptr, rptr \div Frame)
          IN  /\ decRptr' = IF SendsSound(num) THEN Advance(rptr) ELSE rptr
              /\ unheard' = IF counter # 0 THEN {}
                            ELSE IF SendsSound(num) THEN unheard \ Window(rptr) ELSE unheard
              /\ hollow' = IF counter # 0 THEN {} ELSE hollow
              /\ decWptr' = decWptr /\ pc' = pc
    BY Zenon DEF AbufDecUsb
  <2>2. PICK counter : counter = IF late THEN ResetCount ELSE reset
    OBVIOUS
  <2>3. PICK rptr : rptr = IF counter # 0 THEN decWptr * Frame ELSE decRptr
    OBVIOUS
  <2> QED BY <2>1, <2>2, <2>3
<1>3. CASE counter # 0
  <2>1. rptr \div Frame = decWptr
    BY <1>1, <1>2, <1>3, FrameStart DEF TypePtrs
  <2>2. num = 0
    BY <1>1, <1>2, <2>1, AheadIs DEF TypePtrs
  <2>3. NumDec' = 0
    BY <1>2, <2>2 DEF SendsSound, NumDec
  <2> QED BY <2>3, Consts DEF Fresh
<1>4. CASE counter = 0
  <2>1. reset = 0 /\ (Settled' => Settled)
    <3>1. ResetCount # 0
      BY Consts
    <3>2. reset = 0
      BY <1>2, <1>4, <3>1
    <3> QED BY <1>2, <3>2 DEF Settled
  <2>2. rptr = decRptr /\ num = NumDec /\ hollow' = hollow
    BY <1>2, <1>4 DEF NumDec
  <2>3. CASE ~SendsSound(num)
    <3>1. decRptr' = decRptr /\ unheard' = unheard
      BY <1>2, <1>4, <2>2, <2>3
    <3> QED BY <1>2, <2>1, <2>2, <3>1, FreshSame
  <2>4. CASE SendsSound(num)
    <3>1. NumDec # 0
      BY <2>2, <2>4 DEF SendsSound
    <3>2. unheard' = unheard \ {Pos(decRptr), Pos(decRptr + 1)}
      BY <1>2, <1>4, <2>2, <2>4, RingSize DEF Window, Pos
    <3>3. decRptr' = Advance(decRptr)
      BY <1>2, <2>2, <2>4
    <3>4. CASE Settled
      BY <1>2, <2>2, <3>1, <3>2, <3>3, <3>4, SendFresh
    <3>5. CASE ~Settled
      BY <2>1, <3>5 DEF Fresh
    <3> QED BY <3>4, <3>5
  <2> QED BY <2>3, <2>4
<1> QED BY <1>3, <1>4

LEMMA NextFresh == IndInv /\ Fresh /\ [Next]_vars => Fresh'
<1> SUFFICES ASSUME IndInv, Fresh, [Next]_vars PROVE Fresh'
  OBVIOUS
<1>1. CASE UNCHANGED vars
  BY <1>1, FreshSame DEF vars, avars, Settled
<1>2. CASE AbufMicAdd
  BY <1>2, FreshSame DEF AbufMicAdd, Settled
<1>3. CASE ProcAudio
  <2>1. /\ decRptr' = decRptr /\ decWptr' = decWptr /\ unheard' = unheard /\ hollow' = hollow
        /\ reset' = reset /\ pc = "idle"
    BY <1>3 DEF ProcAudio, avars
  <2>2. Settled' => Settled
    BY <2>1 DEF Settled
  <2> QED BY <2>1, <2>2, FreshSame
<1>4. CASE CheckReset
  <2>1. /\ decRptr' = decRptr /\ decWptr' = decWptr /\ unheard' = unheard /\ hollow' = hollow
        /\ reset' = reset /\ pc = "dec"
    BY <1>4 DEF CheckReset, avars
  <2>2. Settled' => Settled
    BY <2>1 DEF Settled
  <2> QED BY <2>1, <2>2, FreshSame
<1> QED BY <1>1, <1>2, <1>3, <1>4, InitStoreFresh, SkipFresh, LoadFresh, DoneFresh, UsbFresh DEF Next

\* abuf_dec_usb: the next packet to the PC is what was decoded and not sent, but for
\* the four exceptions that PlaysFresh names, at every step of the main loop that
\* the interrupt may come at, for every size of a frame and of the pointers.
THEOREM PlaysFreshThm == Spec => []PlaysFresh
<1>1. Init => Fresh
  <2> SUFFICES ASSUME Init PROVE Fresh
    OBVIOUS
  <2>1. NumDec = 0
    <3>1. TypePtrs
      BY InitInd DEF IndInv
    <3>2. 0 \div Frame = 0
      BY Consts
    <3> QED BY <3>1, <3>2, Numbers DEF Init
  <2> QED BY <2>1, Consts DEF Fresh
<1>2. IndInv /\ Fresh => PlaysFresh
  <2> SUFFICES ASSUME IndInv, Fresh, Settled, SendsSound(NumDec), NEW u \in Window(decRptr)
               PROVE  \/ u \in unheard
                      \/ SlotOf(u) \in hollow
                      \/ decRptr = 0 /\ u = 0
                      \/ (decRptr + 1) % Frame = 0 /\ NumDec = 1 /\ u = (decRptr + 1) % Cardinality(Ring)
    BY DEF PlaysFresh
  <2>1. decRptr \in 0 .. Frame * Modulus - 1 /\ NumDec \in Int /\ NumDec >= 1 /\ Slots = 4
    BY Numbers, Consts DEF IndInv, TypePtrs, SendsSound
  <2>2. PICK f \in 0 .. Modulus - 1 : f = decRptr \div Frame
    BY <2>1, Split
  <2>3. f \in Int /\ SlotAt(0) = f % Slots /\ SlotAt(1) = (f + 1) % Slots
    BY <2>1, <2>2, Consts DEF SlotAt
  <2>4. /\ Pos(decRptr) \in Ring /\ SlotOf(Pos(decRptr)) = f % Slots /\ Pos(decRptr + 1) \in Ring
        /\ IF (decRptr + 1) % Frame = 0
             THEN SlotOf(Pos(decRptr + 1)) = (f + 1) % Slots
             ELSE SlotOf(Pos(decRptr + 1)) = f % Slots /\ Pos(decRptr + 1) > Pos(decRptr)
    BY <2>1, <2>2, WindowIs
  <2>5. Pos(decRptr) \in Int /\ Pos(decRptr + 1) \in Int
    BY <2>4, Consts DEF Ring
  <2>6. u = Pos(decRptr) \/ (u = Pos(decRptr + 1) /\ u = (decRptr + 1) % Cardinality(Ring))
    BY RingSize DEF Window, Pos
  <2>7. CASE SlotOf(u) = SlotAt(0) /\ u \in Ring /\ u >= Pos(decRptr)
    <3>1. u \in Units(SlotAt(0)) /\ 0 \in 0 .. NumDec - 1
      BY <2>1, <2>7 DEF Units
    <3> QED BY <2>7, <3>1, FreshUse
  <2>8. CASE /\ u = Pos(decRptr + 1) /\ u = (decRptr + 1) % Cardinality(Ring) /\ (decRptr + 1) % Frame = 0
             /\ SlotOf(u) = SlotAt(1) /\ NumDec # 1
    <3>1. u \in Units(SlotAt(1)) /\ 1 \in 0 .. NumDec - 1
      BY <2>1, <2>4, <2>8 DEF Units
    <3> QED BY <2>8, <3>1, FreshUse
  <2> QED BY <2>3, <2>4, <2>5, <2>6, <2>7, <2>8
<1> QED BY <1>1, <1>2, SpecInv, NextFresh, PTL DEF Spec
=============================================================================
