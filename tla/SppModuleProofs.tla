--------------------------- MODULE SppModuleProofs ---------------------------
(* Proofs about SppModule, for every size of the two FIFOs whose pointers     *)
(* count modulo a common multiple of the sizes, and for every number of       *)
(* commands under way up to the slots of spp_rx_fifo.                         *)
EXTENDS SppModule, FiniteSetTheorems, SequenceTheorems, TLAPS

(* Integers modulo m, and the distance of two pointers that count modulo m.    *)
LEMMA ModDef ==
    ASSUME NEW m \in Int, m > 0, NEW q \in Int, NEW r \in 0 .. m - 1
    PROVE  (q * m + r) % m = r
  OBVIOUS

LEMMA DivMod ==
    ASSUME NEW m \in Int, m > 0, NEW a \in Int
    PROVE  \E q \in Int, r \in 0 .. m - 1 : a = q * m + r /\ a % m = r
  <1>1. a \div m \in Int
    OBVIOUS
  <1>2. a % m \in 0 .. m - 1
    OBVIOUS
  <1>3. a = (a \div m) * m + (a % m)
    OBVIOUS
  <1> QED
    BY <1>1, <1>2, <1>3

LEMMA ModShift ==
    ASSUME NEW m \in Int, m > 0, NEW a \in Int, NEW q \in Int
    PROVE  (q * m + a) % m = a % m
  <1>1. PICK k \in Int, r \in 0 .. m - 1 : a = k * m + r /\ a % m = r
    BY DivMod
  <1>2. q * m + a = (q + k) * m + r /\ q + k \in Int
    BY <1>1
  <1> QED
    BY <1>1, <1>2, ModDef

LEMMA ModRange ==
    ASSUME NEW m \in Int, m > 0, NEW a \in Int
    PROVE  a % m \in 0 .. m - 1
  OBVIOUS

(* Reducing modulo the larger of two numbers, a multiple of the smaller.       *)
LEMMA ModMul ==
    ASSUME NEW m \in Int, m > 0, NEW n \in Int, n > 0, m % n = 0, NEW a \in Int
    PROVE  \E c \in Int : a = c * n + (a % m)
  <1>1. PICK k \in Int : m = k * n
    BY DivMod
  <1>2. PICK j \in Int, r \in 0 .. m - 1 : a = j * m + r /\ a % m = r
    BY DivMod
  <1>3. j * m = (j * k) * n /\ j * k \in Int
    BY <1>1
  <1> QED
    BY <1>2, <1>3

LEMMA CountZero ==
    ASSUME NEW m \in Int, m > 0, NEW w \in 0 .. m - 1, NEW r \in 0 .. m - 1
    PROVE  (w - r) % m = (IF w >= r THEN w - r ELSE w - r + m)
  OBVIOUS

LEMMA CountNext ==
    ASSUME NEW m \in Int, m > 0, NEW w \in 0 .. m - 1, NEW r \in 0 .. m - 1,
           (w - r) % m < m - 1
    PROVE  (((w + 1) % m) - r) % m = ((w - r) % m) + 1
  <1>1. CASE w = m - 1
    <2>1. (w + 1) % m = 0
      BY <1>1
    <2> QED
      BY <1>1, <2>1, CountZero
  <1>2. CASE w # m - 1
    <2>1. (w + 1) % m = w + 1
      BY <1>2
    <2> QED
      BY <1>2, <2>1, CountZero
  <1> QED
    BY <1>1, <1>2

LEMMA CountPop ==
    ASSUME NEW m \in Int, m > 0, NEW w \in 0 .. m - 1, NEW r \in 0 .. m - 1, w # r
    PROVE  (w - ((r + 1) % m)) % m = ((w - r) % m) - 1
  <1>1. (r + 1) % m = IF r = m - 1 THEN 0 ELSE r + 1
    OBVIOUS
  <1> QED
    BY <1>1, CountZero

LEMMA Distinct ==
    ASSUME NEW n \in Int, n > 0, NEW a \in Int, NEW d \in 1 .. n - 1
    PROVE  (a + d) % n # a % n
  <1>1. PICK k \in Int, r \in 0 .. n - 1 : a = k * n + r /\ a % n = r
    BY DivMod
  <1>2. CASE r + d < n
    <2>1. a + d = k * n + (r + d) /\ r + d \in 0 .. n - 1
      BY <1>1, <1>2
    <2> QED
      BY <1>1, <2>1, ModDef
  <1>3. CASE r + d >= n
    <2>1. a + d = (k + 1) * n + (r + d - n) /\ r + d - n \in 0 .. n - 1
      BY <1>1, <1>3
    <2> QED
      BY <1>1, <2>1, ModDef
  <1> QED
    BY <1>1, <1>2, <1>3

-----------------------------------------------------------------------------
LEMMA Consts ==
    /\ RxNum \in Int /\ RxNum > 0 /\ TxNum \in Int /\ TxNum > 0
    /\ Modulus \in Int /\ Modulus > 0 /\ Modulus % RxNum = 0 /\ Modulus % TxNum = 0
    /\ Modulus > RxNum + 1 /\ Modulus > TxNum /\ Window \in Int /\ Window <= RxNum /\ Window > 0
  BY SppAssumption

LEMMA Wrap ==
    ASSUME NEW num \in {RxNum, TxNum}, NEW a \in Int, NEW b \in Int
    PROVE  ((a % Modulus) + b) % num = (a + b) % num
  <1>1. Modulus \in Int
    BY Consts
  <1>2. Modulus > 0
    BY Consts
  <1>3. num \in Int
    BY Consts
  <1>4. num > 0
    BY Consts
  <1>5. Modulus % num = 0
    BY Consts
  <1> QED
    <2>1. PICK c \in Int : a = c * num + (a % Modulus)
      BY <1>1, <1>2, <1>3, <1>4, <1>5, ModMul
    <2>2. PICK e \in Int : e = a % Modulus
      BY <1>1, <1>2, ModRange
    <2>3. PICK t \in Int : t = c * num
      BY <1>3
    <2>4. a = t + e
      BY <2>1, <2>2, <2>3, Zenon
    <2>5. a + b = t + (e + b) /\ e + b \in Int
      BY <2>4
    <2>6. (c * num + (e + b)) % num = (e + b) % num
      BY <1>3, <1>4, <2>5, ModShift
    <2> QED
      BY <2>2, <2>3, <2>5, <2>6, Zenon

LEMMA FifoFacts ==
    ASSUME NEW num \in Int, num > 0, NEW C, NEW f \in Fifo(num, C)
    PROVE  /\ f.w \in 0 .. Modulus - 1 /\ f.r \in 0 .. Modulus - 1
           /\ f.slot \in [0 .. num - 1 -> C]
           /\ FifoNum(f) = num /\ FifoWptr(f) = f.w % num /\ FifoRptr(f) = f.r % num
           /\ FifoWptr(f) \in 0 .. num - 1 /\ FifoRptr(f) \in 0 .. num - 1
           /\ FifoCount(f) \in 0 .. Modulus - 1 /\ (FifoCount(f) = 0 <=> f.w = f.r)
  <1>1. /\ f.w \in 0 .. Modulus - 1 /\ f.r \in 0 .. Modulus - 1
        /\ f.slot \in [0 .. num - 1 -> C]
    BY DEF Fifo
  <1>2. FifoNum(f) = num
    <2>1. DOMAIN f.slot = 0 .. num - 1
      BY <1>1
    <2>2. Cardinality(0 .. num - 1) = num
      BY FS_Interval
    <2> QED
      BY <2>1, <2>2 DEF FifoNum
  <1>3. f.w % num \in 0 .. num - 1 /\ f.r % num \in 0 .. num - 1
    BY <1>1, Consts
  <1>4. FifoCount(f) \in 0 .. Modulus - 1 /\ (FifoCount(f) = 0 <=> f.w = f.r)
    <2>1. Modulus \in Int /\ Modulus > 0
      BY Consts
    <2>2. FifoCount(f) = IF f.w >= f.r THEN f.w - f.r ELSE f.w - f.r + Modulus
      BY <1>1, <2>1, CountZero DEF FifoCount
    <2> QED
      BY <1>1, <2>1, <2>2
  <1> QED
    BY <1>1, <1>2, <1>3, <1>4 DEF FifoWptr, FifoRptr

(* Moving the pointers. *)
LEMMA NextFacts ==
    ASSUME NEW num \in Int, num > 0, NEW C, NEW f \in Fifo(num, C)
    PROVE  /\ FifoNext(f) \in Fifo(num, C)
           /\ FifoNext(f).w = (f.w + 1) % Modulus
           /\ FifoNext(f).r = f.r /\ FifoNext(f).slot = f.slot
  <1>1. f.w + 1 \in Int /\ Modulus \in Int /\ Modulus > 0
    BY Consts DEF Fifo
  <1>2. (f.w + 1) % Modulus \in 0 .. Modulus - 1
    BY <1>1, ModRange
  <1> QED
    BY <1>2 DEF FifoNext, Fifo

LEMMA PopFacts ==
    ASSUME NEW num \in Int, num > 0, NEW C, NEW f \in Fifo(num, C)
    PROVE  /\ FifoPop(f) \in Fifo(num, C)
           /\ FifoPop(f).r = (f.r + 1) % Modulus
           /\ FifoPop(f).w = f.w /\ FifoPop(f).slot = f.slot
  <1>1. f.r + 1 \in Int /\ Modulus \in Int /\ Modulus > 0
    BY Consts DEF Fifo
  <1>2. (f.r + 1) % Modulus \in 0 .. Modulus - 1
    BY <1>1, ModRange
  <1> QED
    BY <1>2 DEF FifoPop, Fifo

LEMMA InitFacts ==
    ASSUME NEW num \in Int, num > 0, NEW C, Empty \in C
    PROVE  /\ FifoInit(num) \in Fifo(num, C) /\ FifoInit(num).w = 0 /\ FifoInit(num).r = 0
           /\ FifoCount(FifoInit(num)) = 0
  BY Consts DEF FifoInit, Fifo, FifoCount

(* The slot behind the last message is the one that wptr points to. *)
LEMMA WptrAt ==
    ASSUME NEW num \in Int, num > 0, Modulus % num = 0, NEW C, NEW f \in Fifo(num, C)
    PROVE  (f.r + FifoCount(f)) % num = f.w % num
  <1>1. f.w \in 0 .. Modulus - 1 /\ f.r \in 0 .. Modulus - 1
    BY FifoFacts
  <1>2. FifoCount(f) = f.w - f.r \/ FifoCount(f) = f.w - f.r + Modulus
    BY <1>1, Consts, CountZero DEF FifoCount
  <1>3. CASE FifoCount(f) = f.w - f.r
    BY <1>1, <1>3
  <1>4. CASE FifoCount(f) = f.w - f.r + Modulus
    <2>1. PICK k \in Int : Modulus = k * num
      BY Consts, DivMod
    <2>2. f.r + FifoCount(f) = k * num + f.w
      BY <1>1, <1>4, <2>1, Consts
    <2>3. f.w \in Int
      BY <1>1
    <2>4. (k * num + f.w) % num = f.w % num
      BY <2>3, ModShift
    <2> QED
      BY <2>2, <2>4
  <1> QED
    BY <1>2, <1>3, <1>4

-----------------------------------------------------------------------------
(* The inductive invariant. *)
RxContent == Command \cup {Empty, Torn}
TxContent == Command \cup {Event, Empty}

TypeFifos ==
    /\ rx \in Fifo(RxNum, RxContent) /\ tx \in Fifo(TxNum, TxContent)
    /\ dma \in 0 .. RxNum - 1 /\ sending \in TxContent
TypeGhost == unhandled \in Seq(Command) /\ owed \in Seq(Command) /\ next \in Command
TypeFlags ==
    /\ pc \in {"stack", "pop", "mask", "restart"}
    /\ mask \in BOOLEAN /\ tick \in BOOLEAN /\ pull \in {"up", "down"}
    /\ flag \in BOOLEAN /\ wakeMcu \in BOOLEAN /\ restart \in BOOLEAN
    /\ sleep \in {"awake", "suspend", "retention"} /\ mcuPin \in {"high", "low", "float"}
    /\ writing \in BOOLEAN /\ stale \in BOOLEAN

(* Between the handling of a command and its pop, one slot is taken twice over. *)
Handled == IF pc = "pop" THEN 1 ELSE 0

(* DMA writes behind the last command, and is never more than the slots of    *)
(* spp_rx_fifo ahead: the MCU has at most Window commands under way.          *)
RxHeld ==
    /\ dma = rx.w % RxNum
    /\ FifoCount(rx) = Handled + Len(unhandled)
    /\ \A k \in 1 .. Len(unhandled) : rx.slot[(rx.r + Handled + k - 1) % RxNum] = unhandled[k]
    /\ Len(unhandled) <= Window /\ (writing => Len(unhandled) < Window)

(* The answers stand among the messages at the places pos. *)
Places(pos) ==
    /\ pos \in [1 .. Len(owed) -> 0 .. FifoCount(tx)]
    /\ \A i \in 1 .. Len(owed) : Message(pos[i]) = owed[i]
    /\ \A i, j \in 1 .. Len(owed) : i < j => pos[i] < pos[j]
    /\ \A k \in 0 .. FifoCount(tx) :
         Message(k) \in Command => \E i \in 1 .. Len(owed) : pos[i] = k
TxHeld == FifoCount(tx) <= TxNum /\ \E pos : Places(pos)

(* Asleep, the main loop stands in the stack; a writing MCU holds its pin.    *)
Quiet ==
    /\ SleepsClean
    /\ sleep # "awake" => pc = "stack"
    /\ writing => mcuPin = "high"

(* The flag is set together with the pin, or is left from before a sleep.     *)
Warned ==
    /\ McuWarned
    /\ flag => wakeMcu \/ stale
    /\ sleep = "retention" => (flag => stale)

Types == TypeFifos /\ TypeGhost /\ TypeFlags
IndInv == Types /\ RxHeld /\ TxHeld /\ Quiet /\ Warned

LEMMA Values ==
    /\ Empty \in RxContent /\ Torn \in RxContent /\ Empty \in TxContent /\ Event \in TxContent
    /\ Command \subseteq RxContent /\ Command \subseteq TxContent
    /\ Empty \notin Command /\ Event \notin Command /\ Torn \notin Command
    /\ Event # Empty
    /\ \A m \in Command : m \in Int /\ (m + 1) % Modulus \in Command
  <1>1. \A m \in Command : m \in Int /\ (m + 1) % Modulus \in Command
    BY Consts DEF Command
  <1>2. Empty \notin Command /\ Event \notin Command /\ Torn \notin Command /\ Event # Empty
    BY Consts DEF Command, Event, Empty, Torn
  <1> QED
    BY <1>1, <1>2 DEF RxContent, TxContent

LEMMA RxFacts ==
    ASSUME Types
    PROVE  /\ rx.w \in 0 .. Modulus - 1 /\ rx.r \in 0 .. Modulus - 1
           /\ rx.slot \in [0 .. RxNum - 1 -> RxContent] /\ FifoNum(rx) = RxNum
           /\ FifoWptr(rx) = rx.w % RxNum /\ FifoRptr(rx) = rx.r % RxNum
           /\ FifoWptr(rx) \in 0 .. RxNum - 1 /\ FifoRptr(rx) \in 0 .. RxNum - 1
           /\ FifoCount(rx) \in 0 .. Modulus - 1 /\ (FifoCount(rx) = 0 <=> rx.w = rx.r)
  <1>1. rx \in Fifo(RxNum, RxContent) /\ RxNum \in Int /\ RxNum > 0
    BY Consts DEF Types, TypeFifos
  <1> QED
    BY <1>1, FifoFacts

LEMMA TxFacts ==
    ASSUME Types
    PROVE  /\ tx.w \in 0 .. Modulus - 1 /\ tx.r \in 0 .. Modulus - 1
           /\ tx.slot \in [0 .. TxNum - 1 -> TxContent] /\ FifoNum(tx) = TxNum
           /\ FifoWptr(tx) = tx.w % TxNum /\ FifoRptr(tx) = tx.r % TxNum
           /\ FifoWptr(tx) \in 0 .. TxNum - 1 /\ FifoRptr(tx) \in 0 .. TxNum - 1
           /\ FifoCount(tx) \in 0 .. Modulus - 1 /\ (FifoCount(tx) = 0 <=> tx.w = tx.r)
  <1>1. tx \in Fifo(TxNum, TxContent) /\ TxNum \in Int /\ TxNum > 0
    BY Consts DEF Types, TypeFifos
  <1> QED
    BY <1>1, FifoFacts

-----------------------------------------------------------------------------
(* spp_rx_fifo *)
LEMMA RxSame ==
    ASSUME RxHeld, UNCHANGED <<rx, dma, unhandled, writing>>, Handled' = Handled
    PROVE  RxHeld'
  BY DEF RxHeld, FifoCount

(* The slots of the commands not handled yet are not the one DMA writes. *)
LEMMA RxOther ==
    ASSUME Types, RxHeld, Len(unhandled) < Window
    PROVE  /\ (rx.r + Handled + Len(unhandled)) % RxNum = dma
           /\ \A k \in 1 .. Len(unhandled) :
                /\ (rx.r + Handled + k - 1) % RxNum # dma
                /\ (rx.r + Handled + k - 1) % RxNum \in 0 .. RxNum - 1
  <1> DEFINE len == Len(unhandled)
  <1>1. /\ rx \in Fifo(RxNum, RxContent) /\ rx.r \in Int /\ Handled \in Int /\ len \in Nat
        /\ RxNum \in Int /\ RxNum > 0 /\ Modulus % RxNum = 0 /\ len < RxNum
    BY RxFacts, Consts DEF Types, TypeFifos, TypeGhost, Handled
  <1>2. (rx.r + Handled + len) % RxNum = dma
    <2>1. (rx.r + FifoCount(rx)) % RxNum = dma
      BY <1>1, WptrAt DEF RxHeld
    <2>2. rx.r + FifoCount(rx) = rx.r + Handled + len
      BY <1>1 DEF RxHeld
    <2> QED
      BY <2>1, <2>2
  <1>3. ASSUME NEW k \in 1 .. len
        PROVE  /\ (rx.r + Handled + k - 1) % RxNum # dma
               /\ (rx.r + Handled + k - 1) % RxNum \in 0 .. RxNum - 1
    <2> DEFINE a == rx.r + Handled + k - 1
               d == len - k + 1
    <2>1. a \in Int /\ d \in 1 .. RxNum - 1 /\ a + d = rx.r + Handled + len
      BY <1>1
    <2> HIDE DEF a, d
    <2>2. (a + d) % RxNum # a % RxNum /\ a % RxNum \in 0 .. RxNum - 1
      BY <1>1, <2>1, Distinct, ModRange
    <2> QED
      BY <1>2, <2>1, <2>2 DEF a
  <1> QED
    BY <1>2, <1>3

(* rx_from_uart_cb reads the oldest command. *)
LEMMA RxTake ==
    ASSUME Types, RxHeld, RxFromUartCb
    PROVE  /\ unhandled # <<>> /\ Head(unhandled) \in Command
           /\ rx.slot[FifoRptr(rx)] = Head(unhandled)
           /\ RxHeld'
  <1> DEFINE len == Len(unhandled)
  <1>1. /\ pc = "stack" /\ pc' = "pop" /\ rx.r # rx.w /\ unhandled' = Tail(unhandled)
        /\ UNCHANGED <<rx, dma, writing>>
    BY DEF RxFromUartCb, FifoIsEmpty, mcu
  <1>2. Handled = 0 /\ Handled' = 1
    BY <1>1 DEF Handled
  <1>3. unhandled \in Seq(Command) /\ len \in Nat \ {0} /\ FifoCount(rx) = len
    BY <1>1, <1>2, RxFacts DEF RxHeld, Types, TypeGhost
  <1>4. unhandled # <<>> /\ Head(unhandled) = unhandled[1] /\ Head(unhandled) \in Command
    BY <1>3
  <1>5. /\ Len(unhandled') = len - 1
        /\ \A k \in 1 .. len - 1 : unhandled'[k] = unhandled[k + 1]
    BY <1>1, <1>3
  <1>6. rx.slot[FifoRptr(rx)] = Head(unhandled)
    <2>1. rx.r + 0 + 1 - 1 = rx.r /\ 1 \in 1 .. len /\ FifoRptr(rx) = rx.r % RxNum
      BY <1>3, RxFacts
    <2> QED
      BY <1>2, <1>4, <2>1 DEF RxHeld
  <1>7. ASSUME NEW k \in 1 .. Len(unhandled')
        PROVE  rx.slot[(rx.r + 1 + k - 1) % RxNum] = unhandled'[k]
    <2>1. k + 1 \in 1 .. len /\ rx.r + 1 + k - 1 = rx.r + 0 + (k + 1) - 1 /\ k \in 1 .. len - 1
      BY <1>3, <1>5, RxFacts
    <2> QED
      BY <1>2, <1>5, <2>1 DEF RxHeld
  <1>8. FifoCount(rx') = FifoCount(rx)
    BY <1>1 DEF FifoCount
  <1>9. FifoCount(rx') = 1 + Len(unhandled') /\ Len(unhandled') < Len(unhandled)
    BY <1>3, <1>5, <1>8
  <1>10. Len(unhandled') <= Window /\ (writing' => Len(unhandled') < Window)
    BY <1>1, <1>3, <1>5, Consts DEF RxHeld
  <1>11. dma' = rx'.w % RxNum
    BY <1>1 DEF RxHeld
  <1> QED
    BY <1>1, <1>2, <1>4, <1>6, <1>7, <1>9, <1>10, <1>11 DEF RxHeld

LEMMA RxPopped ==
    ASSUME Types, RxHeld, RxPop
    PROVE  RxHeld' /\ rx' \in Fifo(RxNum, RxContent)
  <1>1. /\ pc = "pop" /\ pc' = "stack" /\ rx' = FifoPop(rx)
        /\ UNCHANGED <<dma, unhandled, writing>>
    BY DEF RxPop, mcu, ghost
  <1>2. Handled = 1 /\ Handled' = 0 /\ Len(unhandled) \in Nat
    BY <1>1 DEF Handled, Types, TypeGhost
  <1>3. /\ rx' \in Fifo(RxNum, RxContent) /\ rx'.r = (rx.r + 1) % Modulus
        /\ rx'.w = rx.w /\ rx'.slot = rx.slot
    BY <1>1, Consts, PopFacts DEF Types, TypeFifos
  <1>4. FifoCount(rx) = 1 + Len(unhandled) /\ rx.w # rx.r
    BY <1>2, RxFacts DEF RxHeld
  <1>5. FifoCount(rx') = 0 + Len(unhandled)
    <2>1. (rx.w - ((rx.r + 1) % Modulus)) % Modulus = ((rx.w - rx.r) % Modulus) - 1
      BY <1>4, Consts, RxFacts, CountPop
    <2> QED
      BY <1>2, <1>3, <1>4, <2>1 DEF FifoCount
  <1>6. ASSUME NEW k \in 1 .. Len(unhandled)
        PROVE  rx'.slot[(rx'.r + 0 + k - 1) % RxNum] = unhandled[k]
    <2>1. rx.r + 1 \in Int /\ k - 1 \in Int /\ rx.r \in Int
      BY <1>2, RxFacts
    <2>2. (((rx.r + 1) % Modulus) + (k - 1)) % RxNum = ((rx.r + 1) + (k - 1)) % RxNum
      BY <2>1, Wrap, Zenon
    <2>3. rx'.r \in Int /\ rx'.r + 0 + k - 1 = rx'.r + (k - 1)
      BY <1>3, <2>1, Consts, ModRange
    <2>4. (rx.r + 1) + (k - 1) = rx.r + 1 + k - 1
      BY <2>1
    <2>5. rx.slot[(rx.r + 1 + k - 1) % RxNum] = unhandled[k]
      BY <1>2 DEF RxHeld
    <2> QED
      BY <1>3, <2>2, <2>3, <2>4, <2>5
  <1> QED
    BY <1>1, <1>2, <1>3, <1>5, <1>6 DEF RxHeld

(* irq_handler: the command that DMA stored is the last one. *)
LEMMA RxStored ==
    ASSUME Types, RxHeld, IrqHandler
    PROVE  RxHeld' /\ rx' \in Fifo(RxNum, RxContent) /\ dma' \in 0 .. RxNum - 1
  <1> DEFINE len == Len(unhandled)
             stored == [rx EXCEPT !.slot[dma] = next]
  <1>1. /\ writing /\ ~writing' /\ unhandled' = Append(unhandled, next) /\ pc' = pc
    BY DEF IrqHandler
  <1>2. /\ unhandled \in Seq(Command) /\ len \in Nat /\ next \in Command
        /\ Handled \in {0, 1} /\ Handled' = Handled /\ len < Window
        /\ dma \in 0 .. RxNum - 1 /\ dma = rx.w % RxNum /\ rx \in Fifo(RxNum, RxContent)
    BY <1>1 DEF Types, TypeGhost, TypeFifos, RxHeld, Handled
  <1>3. next \in RxContent /\ next # Empty
    BY <1>2, Values
  <1>4. /\ stored \in Fifo(RxNum, RxContent) /\ stored.w = rx.w /\ stored.r = rx.r
        /\ stored.slot = [rx.slot EXCEPT ![dma] = next]
    <2>1. RxNum \in Int /\ RxNum > 0
      BY Consts
    <2> QED
      BY <1>2, <1>3, <2>1 DEF Fifo
  <1>5. stored.slot[FifoWptr(rx)] = next
    BY <1>2, <1>4, RxFacts
  <1>6. rx' = FifoNext(stored) /\ dma' = FifoWptr(rx')
    BY <1>3, <1>5 DEF IrqHandler
  <1> HIDE DEF stored
  <1>7. /\ rx' \in Fifo(RxNum, RxContent) /\ rx'.w = (rx.w + 1) % Modulus
        /\ rx'.r = rx.r /\ rx'.slot = [rx.slot EXCEPT ![dma] = next]
    BY <1>4, <1>6, Consts, NextFacts
  <1>8. dma' = rx'.w % RxNum /\ dma' \in 0 .. RxNum - 1
    BY <1>6, <1>7, Consts, FifoFacts
  <1>9. FifoCount(rx') = Handled + len + 1
    <2>1. FifoCount(rx) = Handled + len /\ Handled + len < Modulus - 1
      BY <1>2, Consts DEF RxHeld
    <2>2. (((rx.w + 1) % Modulus) - rx.r) % Modulus = ((rx.w - rx.r) % Modulus) + 1
      BY <2>1, Consts, RxFacts, CountNext DEF FifoCount
    <2> QED
      BY <1>7, <2>1, <2>2 DEF FifoCount
  <1>10. /\ Len(unhandled') = len + 1 /\ unhandled'[len + 1] = next
         /\ \A k \in 1 .. len : unhandled'[k] = unhandled[k]
    BY <1>1, <1>2
  <1>11. ASSUME NEW k \in 1 .. len + 1
         PROVE  rx'.slot[(rx'.r + Handled + k - 1) % RxNum] = unhandled'[k]
    <2>1. CASE k = len + 1
      <3>1. rx.r + Handled + k - 1 = rx.r + Handled + len
        BY <1>2, <2>1, RxFacts
      <3>2. (rx'.r + Handled + k - 1) % RxNum = dma
        BY <1>2, <1>7, <3>1, RxOther
      <3> QED
        BY <1>2, <1>7, <1>10, <2>1, <3>2, RxFacts
    <2>2. CASE k # len + 1
      <3>1. k \in 1 .. len
        BY <1>2, <2>2
      <3>2. /\ (rx'.r + Handled + k - 1) % RxNum # dma
            /\ (rx'.r + Handled + k - 1) % RxNum \in 0 .. RxNum - 1
            /\ rx.slot[(rx'.r + Handled + k - 1) % RxNum] = unhandled[k]
        BY <1>2, <1>7, <3>1, RxOther DEF RxHeld
      <3> QED
        BY <1>7, <1>10, <3>1, <3>2, RxFacts
    <2> QED
      BY <2>1, <2>2
  <1>12. FifoCount(rx') = Handled' + Len(unhandled')
    BY <1>2, <1>9, <1>10
  <1>13. Len(unhandled') <= Window
    BY <1>2, <1>10, Consts
  <1> QED
    BY <1>1, <1>2, <1>7, <1>8, <1>10, <1>11, <1>12, <1>13 DEF RxHeld

(* A new command of the MCU tears no slot that is still to be read. *)
LEMMA RxTorn ==
    ASSUME Types, RxHeld, McuSends
    PROVE  RxHeld' /\ rx' \in Fifo(RxNum, RxContent)
  <1>1. /\ rx' = [rx EXCEPT !.slot[dma] = Torn] /\ UNCHANGED <<dma, unhandled, pc>>
        /\ Len(unhandled) + Len(owed) < Window
    BY DEF McuSends, ghost
  <1>2. Len(unhandled) \in Nat /\ Len(owed) \in Nat /\ Len(unhandled) < Window
    BY <1>1, Consts DEF Types, TypeGhost
  <1>3. /\ rx' \in Fifo(RxNum, RxContent) /\ rx'.w = rx.w /\ rx'.r = rx.r
        /\ rx'.slot = [rx.slot EXCEPT ![dma] = Torn]
    <2>1. RxNum \in Int /\ RxNum > 0 /\ rx \in Fifo(RxNum, RxContent) /\ dma \in 0 .. RxNum - 1
      BY Consts DEF Types, TypeFifos
    <2>2. Torn \in RxContent
      BY Values
    <2> QED
      BY <1>1, <2>1, <2>2 DEF Fifo
  <1>4. ASSUME NEW k \in 1 .. Len(unhandled)
        PROVE  rx'.slot[(rx'.r + Handled + k - 1) % RxNum] = unhandled[k]
    <2>1. /\ (rx.r + Handled + k - 1) % RxNum # dma
          /\ (rx.r + Handled + k - 1) % RxNum \in 0 .. RxNum - 1
          /\ rx.slot[(rx.r + Handled + k - 1) % RxNum] = unhandled[k]
      BY <1>2, RxOther DEF RxHeld
    <2> QED
      BY <1>3, <2>1, RxFacts
  <1>5. Handled' = Handled /\ FifoCount(rx') = FifoCount(rx)
    BY <1>1, <1>3 DEF Handled, FifoCount
  <1> QED
    BY <1>1, <1>2, <1>3, <1>4, <1>5, Consts DEF RxHeld

LEMMA RxClean ==
    ASSUME rx' = FifoInit(RxNum), dma' = 0, unhandled' = <<>>, ~writing', pc' = "stack"
    PROVE  RxHeld' /\ rx' \in Fifo(RxNum, RxContent)
  <1>1. rx' \in Fifo(RxNum, RxContent) /\ rx'.w = 0 /\ FifoCount(rx') = 0
    BY Consts, Values, InitFacts
  <1>2. Handled' = 0 /\ Len(unhandled') = 0 /\ 0 % RxNum = 0 /\ 0 <= Window
    BY Consts DEF Handled
  <1> QED
    BY <1>1, <1>2 DEF RxHeld

-----------------------------------------------------------------------------
(* spp_tx_fifo and the UART *)
LEMMA TxSame == ASSUME TxHeld, UNCHANGED <<tx, sending, owed>> PROVE TxHeld'
  BY DEF TxHeld, Places, Message, FifoCount, FifoNum

(* spp_send_data, with room: one more message. *)
LEMMA PushMessage ==
    ASSUME Types, NEW m \in TxContent, FifoHasRoom(tx), sending' = sending,
           tx' = FifoNext([tx EXCEPT !.slot[FifoWptr(tx)] = m])
    PROVE  /\ tx' \in Fifo(TxNum, TxContent) /\ FifoCount(tx) \in Nat
           /\ FifoCount(tx') = FifoCount(tx) + 1 /\ FifoCount(tx') <= TxNum
           /\ \A k \in 0 .. FifoCount(tx) : Message(k)' = Message(k)
           /\ \A k \in Nat : k = FifoCount(tx) + 1 => Message(k)' = m
  <1> DEFINE c == FifoCount(tx)
             put == [tx EXCEPT !.slot[FifoWptr(tx)] = m]
  <1>1. /\ TxNum \in Int /\ TxNum > 0 /\ Modulus \in Int /\ Modulus > TxNum
        /\ Modulus % TxNum = 0 /\ tx \in Fifo(TxNum, TxContent)
    BY Consts DEF Types, TypeFifos
  <1>2. /\ c \in Nat /\ c < TxNum /\ FifoWptr(tx) \in 0 .. TxNum - 1
        /\ FifoWptr(tx) = tx.w % TxNum /\ tx.r \in Int /\ FifoNum(tx) = TxNum
    BY TxFacts DEF FifoHasRoom
  <1>3. /\ put \in Fifo(TxNum, TxContent) /\ put.w = tx.w /\ put.r = tx.r
        /\ put.slot = [tx.slot EXCEPT ![FifoWptr(tx)] = m]
    BY <1>1, <1>2 DEF Fifo
  <1>4. tx' = FifoNext(put)
    OBVIOUS
  <1> HIDE DEF put
  <1>5. /\ tx' \in Fifo(TxNum, TxContent) /\ tx'.w = (tx.w + 1) % Modulus
        /\ tx'.r = tx.r /\ tx'.slot = [tx.slot EXCEPT ![FifoWptr(tx)] = m]
    BY <1>1, <1>3, <1>4, NextFacts
  <1>6. FifoCount(tx') = c + 1
    <2>1. (tx.w - tx.r) % Modulus < Modulus - 1
      BY <1>1, <1>2 DEF FifoCount
    <2>2. (((tx.w + 1) % Modulus) - tx.r) % Modulus = ((tx.w - tx.r) % Modulus) + 1
      BY <2>1, Consts, TxFacts, CountNext
    <2> QED
      BY <1>5, <2>2 DEF FifoCount
  <1>7. FifoNum(tx') = TxNum
    BY <1>1, <1>5, FifoFacts
  <1>8. (tx.r + c) % TxNum = FifoWptr(tx)
    BY <1>1, <1>2, WptrAt
  <1>9. ASSUME NEW k \in 0 .. c PROVE Message(k)' = Message(k)
    <2>1. CASE k = 0
      BY <2>1 DEF Message
    <2>2. CASE k # 0
      <3> DEFINE a == tx.r + k - 1
                 d == c - k + 1
      <3>1. a \in Int /\ d \in 1 .. TxNum - 1 /\ a + d = tx.r + c
        BY <1>1, <1>2, <2>2
      <3> HIDE DEF a, d
      <3>2. (a + d) % TxNum # a % TxNum /\ a % TxNum \in 0 .. TxNum - 1
        BY <1>1, <3>1, Distinct, ModRange
      <3>3. a % TxNum # FifoWptr(tx)
        BY <1>8, <3>1, <3>2
      <3>4. tx'.slot[a % TxNum] = tx.slot[a % TxNum]
        BY <1>5, <3>2, <3>3, TxFacts
      <3> QED
        BY <1>2, <1>5, <1>7, <2>2, <3>4 DEF Message, a
    <2> QED
      BY <2>1, <2>2
  <1>10. ASSUME NEW k \in Nat, k = c + 1 PROVE Message(k)' = m
    <2>1. tx'.r + k - 1 = tx.r + c /\ k # 0
      BY <1>2, <1>5, <1>10
    <2>2. tx'.slot[FifoWptr(tx)] = m
      BY <1>2, <1>5, TxFacts
    <2> QED
      BY <1>7, <1>8, <2>1, <2>2 DEF Message
  <1> QED
    BY <1>1, <1>2, <1>5, <1>6, <1>9, <1>10

(* tx_to_uart_cb: all messages move up by one. *)
LEMMA PopMessage ==
    ASSUME Types, FifoCount(tx) <= TxNum, TxToUartCb
    PROVE  /\ tx' \in Fifo(TxNum, TxContent) /\ sending' \in TxContent
           /\ FifoCount(tx) \in Nat \ {0} /\ FifoCount(tx') = FifoCount(tx) - 1
           /\ \A k \in 0 .. FifoCount(tx) - 1 : Message(k)' = Message(k + 1)
  <1> DEFINE c == FifoCount(tx)
             put == [tx EXCEPT !.slot[FifoRptr(tx)] = Empty]
  <1>1. /\ TxNum \in Int /\ TxNum > 0 /\ Modulus \in Int /\ Modulus > 0
        /\ Modulus % TxNum = 0 /\ tx \in Fifo(TxNum, TxContent)
    BY Consts DEF Types, TypeFifos
  <1>2. /\ c \in Nat \ {0} /\ FifoRptr(tx) \in 0 .. TxNum - 1 /\ tx.w # tx.r
        /\ FifoRptr(tx) = tx.r % TxNum /\ tx.r \in Int /\ FifoNum(tx) = TxNum
    BY TxFacts DEF TxToUartCb, FifoIsEmpty
  <1>3. /\ put \in Fifo(TxNum, TxContent) /\ put.w = tx.w /\ put.r = tx.r
        /\ put.slot = [tx.slot EXCEPT ![FifoRptr(tx)] = Empty]
    <2>1. Empty \in TxContent
      BY Values
    <2> QED
      BY <1>1, <1>2, <2>1 DEF Fifo
  <1>4. tx' = FifoPop(put) /\ sending' = tx.slot[FifoRptr(tx)]
    BY DEF TxToUartCb
  <1> HIDE DEF put
  <1>5. /\ tx' \in Fifo(TxNum, TxContent) /\ tx'.r = (tx.r + 1) % Modulus
        /\ tx'.w = tx.w /\ tx'.slot = [tx.slot EXCEPT ![FifoRptr(tx)] = Empty]
    BY <1>1, <1>3, <1>4, PopFacts
  <1>6. FifoCount(tx') = c - 1
    <2>1. (tx.w - ((tx.r + 1) % Modulus)) % Modulus = ((tx.w - tx.r) % Modulus) - 1
      BY <1>2, Consts, TxFacts, CountPop
    <2> QED
      BY <1>5, <2>1 DEF FifoCount
  <1>7. FifoNum(tx') = TxNum
    BY <1>1, <1>5, FifoFacts
  <1>8. ASSUME NEW k \in 0 .. c - 1 PROVE Message(k)' = Message(k + 1)
    <2>1. CASE k = 0
      <3>1. tx.r + (k + 1) - 1 = tx.r /\ k + 1 # 0
        BY <1>2, <2>1
      <3> QED
        BY <1>2, <1>4, <2>1, <3>1 DEF Message
    <2>2. CASE k # 0
      <3> DEFINE a == tx.r
                 e == tx.r + 1
                 b == k - 1
                 q == e % Modulus
      <3>1. /\ a \in Int /\ k \in 1 .. TxNum - 1 /\ e \in Int /\ b \in Int
            /\ e + b = a + k
        BY <1>1, <1>2, <2>2
      <3>2. q = e % Modulus /\ q \in Int /\ tx'.r = q
        BY <1>1, <1>5, <3>1, ModRange
      <3>5. tx'.r + k - 1 = q + b
        BY <3>1, <3>2
      <3> HIDE DEF a, b, e, q
      <3>7. (q + b) % TxNum = (e + b) % TxNum
        BY <3>1, <3>2, Wrap, Zenon
      <3>3. (a + k) % TxNum # a % TxNum /\ (a + k) % TxNum \in 0 .. TxNum - 1
        <4>1. a + k \in Int
          BY <3>1
        <4> QED
          BY <1>1, <3>1, <4>1, Distinct, ModRange
      <3>4. tx'.slot[(a + k) % TxNum] = tx.slot[(a + k) % TxNum]
        BY <1>2, <1>5, <3>3, TxFacts DEF a
      <3>6. k + 1 # 0 /\ tx.r + (k + 1) - 1 = a + k
        BY <3>1 DEF a
      <3> QED
        BY <1>2, <1>7, <2>2, <3>1, <3>4, <3>5, <3>6, <3>7 DEF Message
    <2> QED
      BY <2>1, <2>2
  <1>9. sending' \in TxContent
    BY <1>2, <1>4, TxFacts
  <1> QED
    BY <1>1, <1>2, <1>5, <1>6, <1>8, <1>9

LEMMA TxPushed ==
    ASSUME Types, TxHeld, NEW m \in TxContent, FifoHasRoom(tx), sending' = sending,
           tx' = FifoNext([tx EXCEPT !.slot[FifoWptr(tx)] = m]),
           owed' = IF m \in Command THEN Append(owed, m) ELSE owed
    PROVE  TxHeld' /\ tx' \in Fifo(TxNum, TxContent)
  <1> DEFINE len == Len(owed)
             c == FifoCount(tx)
  <1>1. /\ tx' \in Fifo(TxNum, TxContent) /\ c \in Nat
        /\ FifoCount(tx') = c + 1 /\ FifoCount(tx') <= TxNum
    BY PushMessage
  <1>2. /\ \A k \in 0 .. c : Message(k)' = Message(k)
        /\ \A k \in Nat : k = c + 1 => Message(k)' = m
    BY PushMessage
  <1>3. owed \in Seq(Command) /\ len \in Nat
    BY DEF Types, TypeGhost
  <1>4. PICK pos : Places(pos)
    BY DEF TxHeld
  <1>5. /\ pos \in [1 .. len -> 0 .. c]
        /\ \A i \in 1 .. len : Message(pos[i]) = owed[i]
        /\ \A i, j \in 1 .. len : i < j => pos[i] < pos[j]
        /\ \A k \in 0 .. c : Message(k) \in Command => \E i \in 1 .. len : pos[i] = k
    BY <1>4 DEF Places
  <1> HIDE DEF c
  <1>6. CASE m \notin Command
    <2>1. owed' = owed
      BY <1>6
    <2>2. pos \in [1 .. len -> 0 .. c + 1]
      BY <1>1, <1>5
    <2>3. \A i \in 1 .. len : Message(pos[i])' = owed[i]
      BY <1>2, <1>5
    <2>4. ASSUME NEW k \in 0 .. c + 1, Message(k)' \in Command
          PROVE  \E i \in 1 .. len : pos[i] = k
      <3>1. k # c + 1
        BY <1>1, <1>2, <1>6, <2>4
      <3>2. k \in 0 .. c
        BY <1>1, <3>1
      <3> QED
        BY <1>2, <1>5, <2>4, <3>2
    <2>5. Places(pos)'
      BY <1>1, <1>5, <2>1, <2>2, <2>3, <2>4 DEF Places
    <2> QED
      BY <1>1, <2>5 DEF TxHeld
  <1>7. CASE m \in Command
    <2>1. /\ Len(owed') = len + 1 /\ owed'[len + 1] = m
          /\ \A i \in 1 .. len : owed'[i] = owed[i]
      BY <1>3, <1>7
    <2> HIDE DEF len
    <2>2. PICK q : q = [i \in 1 .. len + 1 |-> IF i = len + 1 THEN c + 1 ELSE pos[i]]
      OBVIOUS
    <2>3. /\ q[len + 1] = c + 1
          /\ \A i \in 1 .. len : q[i] = pos[i] /\ pos[i] \in 0 .. c /\ i # len + 1
          /\ \A i \in 1 .. len + 1 : i \in 1 .. len \/ i = len + 1
      BY <1>3, <1>5, <2>2 DEF len
    <2>4. q \in [1 .. len + 1 -> 0 .. c + 1]
      <3>1. ASSUME NEW i \in 1 .. len + 1 PROVE q[i] \in 0 .. c + 1
        BY <1>1, <2>3
      <3> QED
        BY <2>2, <3>1
    <2>5. ASSUME NEW i \in 1 .. len + 1 PROVE Message(q[i])' = owed'[i]
      <3>1. CASE i = len + 1
        BY <1>1, <1>2, <2>1, <2>3, <3>1
      <3>2. CASE i \in 1 .. len
        <4>1. Message(pos[i])' = Message(pos[i])
          BY <1>2, <2>3, <3>2
        <4> QED
          BY <1>5, <2>1, <2>3, <3>2, <4>1 DEF len
      <3> QED
        BY <2>3, <3>1, <3>2
    <2>6. ASSUME NEW i \in 1 .. len + 1, NEW j \in 1 .. len + 1, i < j
          PROVE  q[i] < q[j]
      <3>1. i \in 1 .. len
        BY <1>3, <2>6 DEF len
      <3>2. CASE j = len + 1
        BY <1>1, <2>3, <3>1, <3>2
      <3>3. CASE j \in 1 .. len
        BY <1>5, <2>3, <2>6, <3>1, <3>3 DEF len
      <3> QED
        BY <2>3, <3>2, <3>3
    <2>7. ASSUME NEW k \in 0 .. c + 1, Message(k)' \in Command
          PROVE  \E i \in 1 .. len + 1 : q[i] = k
      <3>1. CASE k = c + 1
        BY <1>3, <2>3, <3>1 DEF len
      <3>2. CASE k # c + 1
        <4>1. k \in 0 .. c
          BY <1>1, <3>2
        <4>2. PICK i \in 1 .. len : pos[i] = k
          BY <1>2, <1>5, <2>7, <4>1 DEF len
        <4>3. q[i] = k /\ i \in 1 .. len + 1
          BY <1>3, <2>3, <4>2 DEF len
        <4> QED
          BY <4>3
      <3> QED
        BY <3>1, <3>2
    <2>8. Places(q)'
      BY <1>1, <2>1, <2>4, <2>5, <2>6, <2>7 DEF Places
    <2> QED
      BY <1>1, <2>8 DEF TxHeld
  <1> QED
    BY <1>6, <1>7

LEMMA TxMoved ==
    ASSUME Types, TxHeld, TxToUartCb
    PROVE  TxHeld' /\ tx' \in Fifo(TxNum, TxContent) /\ sending' \in TxContent
  <1> DEFINE len == Len(owed)
             c == FifoCount(tx)
  <1>1. /\ tx' \in Fifo(TxNum, TxContent) /\ sending' \in TxContent
        /\ c \in Nat \ {0} /\ FifoCount(tx') = c - 1
        /\ \A k \in 0 .. c - 1 : Message(k)' = Message(k + 1)
    BY PopMessage DEF TxHeld
  <1>2. owed \in Seq(Command) /\ len \in Nat /\ owed' = owed
    BY DEF Types, TypeGhost, TxToUartCb, ghost
  <1>3. PICK pos : Places(pos)
    BY DEF TxHeld
  <1>4. /\ pos \in [1 .. len -> 0 .. c]
        /\ \A i \in 1 .. len : Message(pos[i]) = owed[i]
        /\ \A i, j \in 1 .. len : i < j => pos[i] < pos[j]
        /\ \A k \in 0 .. c : Message(k) \in Command => \E i \in 1 .. len : pos[i] = k
    BY <1>3 DEF Places
  <1>5. Message(0) \notin Command
    BY Values DEF Message, TxToUartCb
  <1> HIDE DEF c, len
  <1>6. \A i \in 1 .. len : owed[i] \in Command
    BY <1>2 DEF len
  <1>7. ASSUME NEW i \in 1 .. len
        PROVE  pos[i] \in 1 .. c /\ pos[i] - 1 \in 0 .. c - 1 /\ (pos[i] - 1) + 1 = pos[i]
    <2>1. pos[i] # 0
      BY <1>4, <1>5, <1>6
    <2> QED
      BY <1>1, <1>4, <2>1
  <1>8. PICK q : q = [i \in 1 .. len |-> pos[i] - 1]
    OBVIOUS
  <1>9. q \in [1 .. len -> 0 .. c - 1] /\ \A i \in 1 .. len : q[i] = pos[i] - 1
    BY <1>7, <1>8
  <1>10. ASSUME NEW i \in 1 .. len PROVE Message(q[i])' = owed[i]
    BY <1>1, <1>4, <1>7, <1>9
  <1>11. \A i, j \in 1 .. len : i < j => q[i] < q[j]
    BY <1>4, <1>7, <1>9
  <1>12. ASSUME NEW k \in 0 .. c - 1, Message(k)' \in Command
         PROVE  \E i \in 1 .. len : q[i] = k
    <2>1. k + 1 \in 0 .. c /\ Message(k + 1) \in Command
      BY <1>1, <1>12
    <2>2. PICK i \in 1 .. len : pos[i] = k + 1
      BY <1>4, <2>1
    <2> QED
      BY <1>9, <2>2
  <1>13. Places(q)'
    BY <1>1, <1>2, <1>9, <1>10, <1>11, <1>12 DEF Places, len
  <1>14. FifoCount(tx') <= TxNum
    BY <1>1, Consts DEF TxHeld, c
  <1> QED
    BY <1>1, <1>13, <1>14 DEF TxHeld

(* The UART has sent its message: if it is an answer, the first one. *)
LEMMA TxSent ==
    ASSUME Types, TxHeld, TxDone
    PROVE  TxHeld' /\ owed' \in Seq(Command)
  <1> DEFINE len == Len(owed)
             c == FifoCount(tx)
  <1>1. tx' = tx /\ sending' = Empty /\ c \in Nat
    BY TxFacts DEF TxDone
  <1>2. owed \in Seq(Command) /\ len \in Nat
    BY DEF Types, TypeGhost
  <1>3. PICK pos : Places(pos)
    BY DEF TxHeld
  <1>4. /\ pos \in [1 .. len -> 0 .. c]
        /\ \A i \in 1 .. len : Message(pos[i]) = owed[i]
        /\ \A i, j \in 1 .. len : i < j => pos[i] < pos[j]
        /\ \A k \in 0 .. c : Message(k) \in Command => \E i \in 1 .. len : pos[i] = k
    BY <1>3 DEF Places
  <1>5. /\ Message(0) = sending /\ Message(0)' \notin Command
        /\ \A k \in 1 .. c : Message(k)' = Message(k)
    BY <1>1, Values DEF Message, FifoNum
  <1>6. FifoCount(tx') = c
    BY <1>1 DEF FifoCount
  <1> HIDE DEF c, len
  <1>7. \A i \in 1 .. len : owed[i] \in Command
    BY <1>2 DEF len
  <1>8. CASE sending \notin Command
    <2>1. owed' = owed
      BY <1>8 DEF TxDone
    <2>2. ASSUME NEW i \in 1 .. len PROVE pos[i] \in 1 .. c /\ Message(pos[i])' = owed[i]
      <3>1. pos[i] # 0
        BY <1>4, <1>5, <1>7, <1>8
      <3>2. pos[i] \in 1 .. c
        BY <1>1, <1>4, <3>1
      <3> QED
        BY <1>4, <1>5, <3>2
    <2>3. ASSUME NEW k \in 0 .. c, Message(k)' \in Command
          PROVE  \E i \in 1 .. len : pos[i] = k
      <3>1. k # 0
        BY <1>5, <2>3
      <3>2. k \in 1 .. c
        BY <1>1, <3>1
      <3> QED
        BY <1>4, <1>5, <2>3, <3>2
    <2>4. Places(pos)'
      BY <1>4, <1>6, <2>1, <2>2, <2>3 DEF Places, len
    <2> QED
      BY <1>2, <1>6, <2>1, <2>4 DEF TxHeld, c
  <1>9. CASE sending \in Command
    <2>1. owed' = Tail(owed)
      BY <1>9 DEF TxDone
    <2>2. PICK first \in 1 .. len : pos[first] = 0
      BY <1>1, <1>4, <1>5, <1>9
    <2>3. 1 \in 1 .. len /\ pos[1] = 0
      <3>1. 1 \in 1 .. len /\ (first = 1 \/ 1 < first)
        BY <1>2, <2>2 DEF len
      <3> QED
        BY <1>1, <1>4, <2>2, <3>1
    <2>4. owed # <<>>
      BY <1>2, <2>3 DEF len
    <2>5. /\ owed' \in Seq(Command) /\ Len(owed') = len - 1
          /\ \A i \in 1 .. len - 1 : owed'[i] = owed[i + 1]
      BY <1>2, <2>1, <2>4 DEF len
    <2>6. PICK q : q = [i \in 1 .. len - 1 |-> pos[i + 1]]
      OBVIOUS
    <2>7. ASSUME NEW i \in 1 .. len - 1
          PROVE  q[i] = pos[i + 1] /\ i + 1 \in 1 .. len /\ q[i] \in 1 .. c
      <3>1. i + 1 \in 1 .. len /\ 1 < i + 1
        BY <1>2 DEF len
      <3>2. pos[1] < pos[i + 1] /\ pos[i + 1] \in 0 .. c
        BY <1>4, <2>3, <3>1
      <3> QED
        BY <1>1, <2>3, <2>6, <3>1, <3>2
    <2>8. q \in [1 .. len - 1 -> 0 .. c]
      BY <1>1, <2>6, <2>7
    <2>9. ASSUME NEW i \in 1 .. len - 1 PROVE Message(q[i])' = owed'[i]
      BY <1>4, <1>5, <2>5, <2>7
    <2>10. ASSUME NEW i \in 1 .. len - 1, NEW j \in 1 .. len - 1, i < j PROVE q[i] < q[j]
      <3>1. i + 1 < j + 1
        BY <2>10
      <3> QED
        BY <1>4, <2>7, <3>1
    <2>11. ASSUME NEW k \in 0 .. c, Message(k)' \in Command
           PROVE  \E i \in 1 .. len - 1 : q[i] = k
      <3>1. k # 0 /\ k \in 1 .. c
        BY <1>1, <1>5, <2>11
      <3>2. PICK i \in 1 .. len : pos[i] = k
        BY <1>4, <1>5, <2>11, <3>1
      <3>3. i - 1 \in 1 .. len - 1 /\ (i - 1) + 1 = i
        BY <1>2, <2>3, <3>1, <3>2 DEF len
      <3> QED
        BY <2>7, <3>2, <3>3
    <2>12. Places(q)'
      BY <1>6, <2>5, <2>8, <2>9, <2>10, <2>11 DEF Places
    <2> QED
      BY <1>6, <2>5, <2>12 DEF TxHeld, c
  <1> QED
    BY <1>8, <1>9

LEMMA TxClean ==
    ASSUME tx' = FifoInit(TxNum), sending' = Empty, owed' = <<>>
    PROVE  TxHeld' /\ tx' \in Fifo(TxNum, TxContent)
  <1>1. tx' \in Fifo(TxNum, TxContent) /\ FifoCount(tx') = 0
    BY Consts, Values, InitFacts
  <1>2. PICK q : q = [i \in 1 .. 0 |-> 0]
    OBVIOUS
  <1>3. q \in [1 .. 0 -> 0 .. 0] /\ Len(owed') = 0
    BY <1>2
  <1>4. \A k \in 0 .. 0 : Message(k)' \notin Command
    BY Values DEF Message
  <1>5. Places(q)'
    BY <1>1, <1>3, <1>4 DEF Places
  <1> QED
    BY <1>1, <1>5, Consts DEF TxHeld

(* With nothing to send, no answer is awaited. *)
LEMMA TxNothing ==
    ASSUME Types, TxHeld, tx.r = tx.w, sending = Empty
    PROVE  owed = <<>>
  <1>1. FifoCount(tx) = 0
    BY TxFacts
  <1>2. owed \in Seq(Command) /\ Len(owed) \in Nat
    BY DEF Types, TypeGhost
  <1>3. PICK pos : Places(pos)
    BY DEF TxHeld
  <1>4. ASSUME NEW i \in 1 .. Len(owed) PROVE FALSE
    <2>1. pos[i] \in 0 .. 0 /\ Message(pos[i]) = owed[i]
      BY <1>1, <1>3 DEF Places
    <2>2. pos[i] = 0 /\ owed[i] \in Command
      BY <1>2, <2>1
    <2> QED
      BY <2>1, <2>2, Values DEF Message
  <1>5. Len(owed) = 0
    BY <1>2, <1>4
  <1> QED
    BY <1>2, <1>5

-----------------------------------------------------------------------------
LEMMA InitInv == Init => IndInv
  <1> SUFFICES ASSUME Init PROVE IndInv
    OBVIOUS
  <1>1. /\ rx \in Fifo(RxNum, RxContent) /\ rx.w = 0 /\ rx.r = 0 /\ FifoCount(rx) = 0
        /\ tx \in Fifo(TxNum, TxContent) /\ tx.w = 0 /\ tx.r = 0 /\ FifoCount(tx) = 0
    BY Consts, Values, InitFacts DEF Init
  <1>2. TypeFifos
    BY <1>1, Consts, Values DEF Init, TypeFifos
  <1>3. TypeGhost
    <2>1. 0 \in Command
      BY Consts DEF Command
    <2> QED
      BY <2>1 DEF Init, TypeGhost
  <1>4. TypeFlags
    BY DEF Init, TypeFlags
  <1>5. RxHeld
    <2>1. Handled = 0 /\ Len(unhandled) = 0 /\ 0 % RxNum = 0 /\ 0 <= Window
      BY Consts DEF Handled, Init
    <2> QED
      BY <1>1, <2>1 DEF Init, RxHeld
  <1>6. TxHeld
    <2> DEFINE q == [i \in 1 .. 0 |-> 0]
    <2>1. q \in [1 .. 0 -> 0 .. 0] /\ Len(owed) = 0
      BY DEF Init
    <2>2. \A k \in 0 .. 0 : Message(k) \notin Command
      BY Values DEF Message, Init
    <2> HIDE DEF q
    <2>3. Places(q)
      BY <1>1, <2>1, <2>2 DEF Places
    <2> QED
      BY <1>1, <2>3, Consts DEF TxHeld
  <1>7. Quiet /\ Warned
    BY <1>1 DEF Init, Quiet, SleepsClean, Warned, McuWarned
  <1> QED
    BY <1>2, <1>3, <1>4, <1>5, <1>6, <1>7 DEF IndInv, Types

(* Most steps leave the FIFOs and what is under way alone. *)
LEMMA Untouched ==
    ASSUME IndInv, TypeFlags', Quiet', Warned', Handled' = Handled,
           UNCHANGED <<rx, dma, unhandled, writing, tx, sending, owed, next>>
    PROVE  IndInv'
  <1>1. TypeFifos' /\ TypeGhost'
    BY DEF IndInv, Types, TypeFifos, TypeGhost
  <1> QED
    BY <1>1, RxSame, TxSame DEF IndInv, Types

LEMMA RxFromUartCbInv == ASSUME IndInv, RxFromUartCb PROVE IndInv'
  <1> DEFINE m == Head(unhandled)
  <1>1. /\ Types /\ RxHeld /\ TxHeld /\ Quiet /\ Warned
    BY DEF IndInv
  <1>2. unhandled # <<>> /\ m \in Command /\ rx.slot[FifoRptr(rx)] = m /\ RxHeld'
    BY <1>1, RxTake
  <1>3. m \in TxContent
    BY <1>2, Values
  <1> HIDE DEF m
  <1>4. /\ unhandled' = Tail(unhandled) /\ sending' = sending /\ sleep = "awake" /\ sleep' = sleep
        /\ UNCHANGED <<rx, dma, mask, tick, pull, mcuPin, next, writing, stale>>
        /\ restart' \in {restart, TRUE} /\ pc' = "pop"
    BY DEF RxFromUartCb, mcu
  <1>5. SppSendData(m)
    BY <1>2 DEF RxFromUartCb
  <1>6. owed' = IF FifoHasRoom(tx) THEN Append(owed, m) ELSE owed
    BY DEF RxFromUartCb, m
  <1>7. TxHeld' /\ tx' \in Fifo(TxNum, TxContent)
    <2>1. CASE FifoHasRoom(tx)
      <3>1. tx' = FifoNext([tx EXCEPT !.slot[FifoWptr(tx)] = m])
        BY <1>5, <2>1 DEF SppSendData
      <3>2. owed' = IF m \in Command THEN Append(owed, m) ELSE owed
        BY <1>2, <1>6, <2>1
      <3> QED
        BY <1>1, <1>3, <1>4, <2>1, <3>1, <3>2, TxPushed
    <2>2. CASE ~FifoHasRoom(tx)
      <3>1. UNCHANGED <<tx, sending, owed>>
        BY <1>4, <1>5, <1>6, <2>2 DEF SppSendData
      <3> QED
        BY <1>1, <3>1, TxSame DEF Types, TypeFifos
    <2> QED
      BY <2>1, <2>2
  <1>8. TypeFifos'
    BY <1>1, <1>4, <1>7 DEF Types, TypeFifos
  <1>9. TypeGhost'
    <2>1. unhandled' \in Seq(Command)
      BY <1>1, <1>2, <1>4 DEF Types, TypeGhost
    <2>2. owed' \in Seq(Command)
      BY <1>1, <1>2, <1>6 DEF Types, TypeGhost
    <2> QED
      BY <1>1, <1>4, <2>1, <2>2 DEF Types, TypeGhost
  <1>10. TypeFlags'
    BY <1>1, <1>4, <1>5 DEF Types, TypeFlags, SppSendData
  <1>11. Quiet'
    BY <1>1, <1>4 DEF Quiet, SleepsClean
  <1>12. Warned'
    BY <1>1, <1>4, <1>5 DEF Warned, McuWarned, SppSendData, Types, TypeFlags
  <1> QED
    BY <1>2, <1>7, <1>8, <1>9, <1>10, <1>11, <1>12 DEF IndInv, Types

LEMMA RxPopInv == ASSUME IndInv, RxPop PROVE IndInv'
  <1>1. RxHeld' /\ rx' \in Fifo(RxNum, RxContent)
    BY RxPopped DEF IndInv
  <1>2. TxHeld'
    BY TxSame DEF IndInv, RxPop, ghost
  <1>3. Types'
    BY <1>1 DEF IndInv, RxPop, Types, TypeFifos, TypeGhost, TypeFlags, power, mcu, ghost
  <1>4. Quiet'
    BY DEF IndInv, RxPop, Quiet, SleepsClean, power, mcu, ghost
  <1>5. Warned'
    BY DEF IndInv, RxPop, Warned, McuWarned, power, mcu, ghost
  <1> QED
    BY <1>1, <1>2, <1>3, <1>4, <1>5 DEF IndInv

LEMMA TxToUartCbInv == ASSUME IndInv, TxToUartCb PROVE IndInv'
  <1>1. TxHeld' /\ tx' \in Fifo(TxNum, TxContent) /\ sending' \in TxContent
    BY TxMoved DEF IndInv
  <1>2. RxHeld'
    <2>1. Handled' = Handled
      BY DEF TxToUartCb, Handled
    <2> QED
      BY <2>1, RxSame DEF IndInv, TxToUartCb, ghost, mcu
  <1>3. Types'
    BY <1>1 DEF IndInv, TxToUartCb, Types, TypeFifos, TypeGhost, TypeFlags, power, mcu, ghost
  <1>4. Quiet'
    BY DEF IndInv, TxToUartCb, Quiet, SleepsClean, power, mcu, ghost
  <1>5. Warned'
    <2>1. tx.r # tx.w
      BY DEF TxToUartCb, FifoIsEmpty
    <2> QED
      BY <2>1 DEF IndInv, TxToUartCb, Warned, McuWarned, power, ghost
  <1> QED
    BY <1>1, <1>2, <1>3, <1>4, <1>5 DEF IndInv

LEMMA LinkEventInv == ASSUME IndInv, LinkEvent PROVE IndInv'
  <1>1. /\ Types /\ RxHeld /\ TxHeld /\ Quiet /\ Warned
    BY DEF IndInv
  <1>2. /\ SppSendData(Event) /\ sleep = "awake"
        /\ UNCHANGED <<rx, dma, sending, pc, mask, tick, pull, sleep, restart,
                       mcuPin, next, writing, unhandled, owed, stale>>
    BY DEF LinkEvent, mcu, ghost
  <1>3. TxHeld' /\ tx' \in Fifo(TxNum, TxContent)
    <2>1. CASE FifoHasRoom(tx)
      <3>1. tx' = FifoNext([tx EXCEPT !.slot[FifoWptr(tx)] = Event])
        BY <1>2, <2>1 DEF SppSendData
      <3>2. owed' = (IF Event \in Command THEN Append(owed, Event) ELSE owed)
            /\ Event \in TxContent
        BY <1>2, Values
      <3> QED
        BY <1>1, <1>2, <2>1, <3>1, <3>2, TxPushed
    <2>2. CASE ~FifoHasRoom(tx)
      <3>1. UNCHANGED <<tx, sending, owed>>
        BY <1>2, <2>2 DEF SppSendData
      <3> QED
        BY <1>1, <3>1, TxSame DEF Types, TypeFifos
    <2> QED
      BY <2>1, <2>2
  <1>4. RxHeld'
    <2>1. Handled' = Handled
      BY <1>2 DEF Handled
    <2> QED
      BY <1>1, <1>2, <2>1, RxSame
  <1>5. TypeFifos' /\ TypeGhost'
    BY <1>1, <1>2, <1>3 DEF Types, TypeFifos, TypeGhost
  <1>6. TypeFlags'
    <2>1. flag' \in BOOLEAN /\ wakeMcu' \in BOOLEAN
      BY <1>1, <1>2 DEF Types, TypeFlags, SppSendData
    <2> QED
      BY <1>1, <1>2, <2>1 DEF Types, TypeFlags
  <1>7. Quiet'
    BY <1>1, <1>2 DEF Quiet, SleepsClean
  <1>8. Warned'
    BY <1>1, <1>2 DEF Warned, McuWarned, SppSendData, Types, TypeFlags
  <1> QED
    BY <1>3, <1>4, <1>5, <1>6, <1>7, <1>8 DEF IndInv, Types

(* app_suspend_enter lets the stack sleep only if nothing is under way. *)
LEMMA AppSuspendEnterInv == ASSUME IndInv, AppSuspendEnter PROVE IndInv'
  <1>1. /\ UNCHANGED <<rx, dma, unhandled, writing, tx, sending, owed, next>>
        /\ UNCHANGED <<pc, flag, wakeMcu, restart, mcuPin>> /\ pc = "stack"
    BY DEF AppSuspendEnter, fifos, mcu
  <1>2. Handled' = Handled
    BY <1>1 DEF Handled
  <1>3. TypeFlags'
    BY <1>1 DEF IndInv, Types, TypeFlags, AppSuspendEnter, AppSuspendExit
  <1>4. Quiet'
    <2>1. CASE AppModuleBusy
      BY <1>1, <2>1 DEF IndInv, Quiet, SleepsClean, AppSuspendEnter
    <2>2. CASE ~AppModuleBusy
      <3>1. /\ tx.r = tx.w /\ sending = Empty /\ rx.r = rx.w /\ mcuPin # "high"
        BY <2>2 DEF AppModuleBusy, UartTxBusy, UartRxBusy, FifoIsEmpty, PinHigh
      <3>2. ~writing
        BY <3>1 DEF IndInv, Quiet
      <3>3. owed = <<>>
        BY <3>1, TxNothing DEF IndInv
      <3>4. unhandled = <<>>
        <4>1. FifoCount(rx) = 0 /\ Handled = 0 /\ unhandled \in Seq(Command)
          BY <1>1, <3>1, RxFacts DEF IndInv, Handled, Types, TypeGhost
        <4>2. Len(unhandled) = 0
          BY <4>1 DEF IndInv, RxHeld
        <4> QED
          BY <4>1, <4>2
      <3> QED
        BY <1>1, <3>1, <3>2, <3>3, <3>4 DEF Quiet, SleepsClean
    <2> QED
      BY <2>1, <2>2
  <1>5. Warned'
    <2>1. CASE AppModuleBusy
      BY <1>1, <2>1 DEF IndInv, Warned, McuWarned, AppSuspendEnter
    <2>2. CASE ~AppModuleBusy
      <3>1. (stale => stale') /\ (sleep' = "retention" /\ flag => stale')
        BY <2>2 DEF AppSuspendEnter
      <3> QED
        BY <1>1, <3>1 DEF IndInv, Warned, McuWarned
    <2> QED
      BY <2>1, <2>2
  <1> QED
    BY <1>1, <1>2, <1>3, <1>4, <1>5, Untouched

LEMMA WakeFromSuspendInv == ASSUME IndInv, WakeFromSuspend PROVE IndInv'
  <1>1. /\ UNCHANGED <<rx, dma, unhandled, writing, tx, sending, owed, next>>
        /\ UNCHANGED <<pc, flag, wakeMcu, restart, mcuPin, stale>>
    BY DEF WakeFromSuspend, fifos, mcu, ghost
  <1>2. Handled' = Handled
    BY <1>1 DEF Handled
  <1>3. TypeFlags'
    BY <1>1 DEF IndInv, Types, TypeFlags, WakeFromSuspend, AppSuspendExit
  <1>4. Quiet' /\ Warned'
    BY <1>1 DEF IndInv, Quiet, SleepsClean, Warned, McuWarned, WakeFromSuspend
  <1> QED
    BY <1>1, <1>2, <1>3, <1>4, Untouched

(* user_init_deepRetn: the UART was idle and DMA stood where it starts again. *)
LEMMA WakeFromRetentionInv == ASSUME IndInv, WakeFromRetention PROVE IndInv'
  <1>1. /\ sleep = "retention" /\ sleep' = "awake" /\ pc' = "stack" /\ wakeMcu' = FALSE
        /\ UNCHANGED <<rx, unhandled, writing, tx, owed, next>>
        /\ UNCHANGED <<flag, restart, mcuPin, stale>>
        /\ dma' = FifoWptr(rx) /\ sending' = Empty
    BY DEF WakeFromRetention, mcu, ghost
  <1>2. pc = "stack" /\ sending = Empty /\ tx.r = tx.w
    BY <1>1 DEF IndInv, Quiet, SleepsClean
  <1>3. dma' = dma /\ sending' = sending /\ Handled' = Handled
    BY <1>1, <1>2, RxFacts DEF IndInv, RxHeld, Handled
  <1>4. TypeFlags'
    BY <1>1 DEF IndInv, Types, TypeFlags, WakeFromRetention, AppSuspendExit
  <1>5. Quiet'
    BY <1>1 DEF IndInv, Quiet, SleepsClean
  <1>6. Warned'
    BY <1>1, <1>2 DEF IndInv, Warned, McuWarned
  <1> QED
    BY <1>1, <1>3, <1>4, <1>5, <1>6, Untouched

LEMMA DataSentInv == ASSUME IndInv, DataSent PROVE IndInv'
  <1>1. /\ UNCHANGED <<rx, dma, unhandled, writing, tx, sending, owed, next>>
        /\ UNCHANGED <<mask, tick, pull, sleep, restart, mcuPin>>
        /\ sleep = "awake" /\ pc = "stack" /\ pc' = "mask"
    BY DEF DataSent, fifos, mcu
  <1>2. Handled' = Handled
    BY <1>1 DEF Handled
  <1>3. TypeFlags'
    BY <1>1 DEF IndInv, Types, TypeFlags, DataSent
  <1>4. Quiet'
    BY <1>1 DEF IndInv, Quiet, SleepsClean
  <1>5. Warned'
    BY <1>1 DEF IndInv, Warned, McuWarned, DataSent, UartTxBusy, FifoIsEmpty
  <1> QED
    BY <1>1, <1>2, <1>3, <1>4, <1>5, Untouched

LEMMA ManageSleepInv == ASSUME IndInv, ManageSleep PROVE IndInv'
  <1>1. /\ UNCHANGED <<rx, dma, unhandled, writing, tx, sending, owed, next>>
        /\ UNCHANGED <<flag, wakeMcu, sleep, restart, mcuPin, stale>>
        /\ pc = "mask" /\ pc' = "restart"
    BY DEF ManageSleep, fifos, mcu, ghost
  <1>2. Handled' = Handled
    BY <1>1 DEF Handled
  <1>3. mask' \in BOOLEAN /\ tick' \in BOOLEAN /\ pull' \in {"up", "down"}
    BY DEF IndInv, Types, TypeFlags, ManageSleep
  <1>4. TypeFlags'
    BY <1>1, <1>3 DEF IndInv, Types, TypeFlags
  <1>5. Quiet' /\ Warned'
    BY <1>1 DEF IndInv, Quiet, SleepsClean, Warned, McuWarned
  <1> QED
    BY <1>1, <1>2, <1>4, <1>5, Untouched

LEMMA SppRestartProcInv == ASSUME IndInv, SppRestartProc PROVE IndInv'
  <1>1. CASE UNCHANGED <<fifos, power, restart, mcu, ghost>>
    <2>1. /\ UNCHANGED <<rx, dma, unhandled, writing, tx, sending, owed, next>>
          /\ UNCHANGED <<mask, tick, pull, flag, wakeMcu, sleep, restart, mcuPin, stale>>
          /\ pc = "restart" /\ pc' = "stack"
      BY <1>1 DEF SppRestartProc, fifos, power, mcu, ghost
    <2>2. Handled' = Handled /\ TypeFlags'
      BY <2>1 DEF Handled, IndInv, Types, TypeFlags
    <2>3. Quiet' /\ Warned'
      BY <2>1 DEF IndInv, Quiet, SleepsClean, Warned, McuWarned
    <2> QED
      BY <2>1, <2>2, <2>3, Untouched
  <1>2. CASE ~UNCHANGED <<fifos, power, restart, mcu, ghost>>
    <2>1. /\ pc = "restart" /\ pc' = "stack" /\ restart' = FALSE /\ mask' = TRUE
          /\ tick' = FALSE /\ pull' = "down" /\ flag' = FALSE /\ wakeMcu' = FALSE
          /\ next' = 0 /\ writing' = FALSE /\ stale' = FALSE
          /\ UNCHANGED <<sleep, mcuPin>>
      BY <1>2 DEF SppRestartProc
    <2>2. /\ rx' = FifoInit(RxNum) /\ tx' = FifoInit(TxNum) /\ dma' = 0 /\ sending' = Empty
          /\ unhandled' = <<>> /\ owed' = <<>>
      BY <1>2 DEF SppRestartProc
    <2>3. RxHeld' /\ rx' \in Fifo(RxNum, RxContent) /\ TxHeld' /\ tx' \in Fifo(TxNum, TxContent)
      BY <2>1, <2>2, RxClean, TxClean
    <2>4. TypeFifos'
      BY <2>2, <2>3, Consts, Values DEF TypeFifos
    <2>5. TypeGhost'
      <3>1. 0 \in Command
        BY Consts DEF Command
      <3> QED
        BY <2>1, <2>2, <3>1 DEF TypeGhost
    <2>6. TypeFlags'
      BY <2>1 DEF IndInv, Types, TypeFlags
    <2>7. Quiet' /\ Warned'
      <3>1. sleep' = "awake"
        BY <2>1 DEF IndInv, Quiet, Types, TypeFlags
      <3>2. tx'.r = tx'.w
        BY <2>2 DEF FifoInit
      <3> QED
        BY <2>1, <2>2, <3>1, <3>2 DEF Quiet, SleepsClean, Warned, McuWarned
    <2> QED
      BY <2>3, <2>4, <2>5, <2>6, <2>7 DEF IndInv, Types
  <1> QED
    BY <1>1, <1>2

LEMMA TxDoneInv == ASSUME IndInv, TxDone PROVE IndInv'
  <1>1. TxHeld' /\ owed' \in Seq(Command)
    BY TxSent DEF IndInv
  <1>2. /\ UNCHANGED <<rx, dma, unhandled, writing, tx, next, pc, mask, tick, pull, flag>>
        /\ UNCHANGED <<wakeMcu, sleep, restart, mcuPin, stale>>
        /\ sending # Empty /\ sending' = Empty
    BY DEF TxDone, power, mcu
  <1>3. RxHeld'
    <2>1. Handled' = Handled
      BY <1>2 DEF Handled
    <2> QED
      BY <1>2, <2>1, RxSame DEF IndInv
  <1>4. Types'
    BY <1>1, <1>2, Values DEF IndInv, Types, TypeFifos, TypeGhost, TypeFlags
  <1>5. Quiet' /\ Warned'
    BY <1>2 DEF IndInv, Quiet, SleepsClean, Warned, McuWarned
  <1> QED
    BY <1>1, <1>3, <1>4, <1>5 DEF IndInv

LEMMA IrqHandlerInv == ASSUME IndInv, IrqHandler PROVE IndInv'
  <1>1. RxHeld' /\ rx' \in Fifo(RxNum, RxContent) /\ dma' \in 0 .. RxNum - 1
    BY RxStored DEF IndInv
  <1>2. /\ UNCHANGED <<tx, sending, owed, pc, mask, tick, pull, flag>>
        /\ UNCHANGED <<wakeMcu, sleep, restart, mcuPin, stale>>
        /\ writing /\ writing' = FALSE
        /\ unhandled' = Append(unhandled, next) /\ next' = (next + 1) % Modulus
    BY DEF IrqHandler, power
  <1>3. TypeGhost'
    <2>1. next \in Command /\ unhandled \in Seq(Command)
      BY DEF IndInv, Types, TypeGhost
    <2>2. next' \in Command
      BY <1>2, <2>1, Values
    <2> QED
      BY <1>2, <2>1, <2>2 DEF IndInv, Types, TypeGhost
  <1>4. TypeFifos' /\ TypeFlags'
    <2>1. TypeFifos'
      BY <1>1, <1>2 DEF IndInv, Types, TypeFifos
    <2>2. TypeFlags
      BY DEF IndInv, Types
    <2>3. /\ pc' = pc /\ mask' = mask /\ tick' = tick /\ pull' = pull /\ flag' = flag
          /\ wakeMcu' = wakeMcu /\ restart' = restart /\ sleep' = sleep /\ mcuPin' = mcuPin
          /\ stale' = stale /\ writing' = FALSE
      BY <1>2
    <2>4. TypeFlags'
      <3>1. pc' \in {"stack", "pop", "mask", "restart"} /\ pull' \in {"up", "down"}
        BY <2>2, <2>3 DEF TypeFlags
      <3>2. sleep' \in {"awake", "suspend", "retention"} /\ mcuPin' \in {"high", "low", "float"}
        BY <2>2, <2>3 DEF TypeFlags
      <3>3. mask' \in BOOLEAN /\ tick' \in BOOLEAN /\ flag' \in BOOLEAN /\ wakeMcu' \in BOOLEAN
        BY <2>2, <2>3 DEF TypeFlags
      <3>4. restart' \in BOOLEAN /\ writing' \in BOOLEAN /\ stale' \in BOOLEAN
        BY <2>2, <2>3 DEF TypeFlags
      <3> QED
        BY <3>1, <3>2, <3>3, <3>4 DEF TypeFlags
    <2> QED
      BY <2>1, <2>4
  <1>5. TxHeld'
    BY <1>2, TxSame DEF IndInv
  <1>6. Quiet' /\ Warned'
    BY <1>2 DEF IndInv, Quiet, SleepsClean, Warned, McuWarned
  <1> QED
    BY <1>1, <1>3, <1>4, <1>5, <1>6 DEF IndInv, Types

LEMMA PinInv == ASSUME IndInv, McuRaisesPin \/ McuReleasesPin PROVE IndInv'
  <1>1. /\ UNCHANGED <<rx, dma, unhandled, writing, tx, sending, owed, next>>
        /\ UNCHANGED <<pc, mask, tick, pull, flag, wakeMcu, sleep, restart, stale>>
        /\ mcuPin' \in {"high", "low", "float"} /\ (writing => mcuPin' = "high")
    BY DEF McuRaisesPin, McuReleasesPin, fifos, power, ghost
  <1>2. Handled' = Handled /\ TypeFlags'
    BY <1>1 DEF Handled, IndInv, Types, TypeFlags
  <1>3. Quiet' /\ Warned'
    BY <1>1 DEF IndInv, Quiet, SleepsClean, Warned, McuWarned
  <1> QED
    BY <1>1, <1>2, <1>3, Untouched

LEMMA McuSendsInv == ASSUME IndInv, McuSends PROVE IndInv'
  <1>1. RxHeld' /\ rx' \in Fifo(RxNum, RxContent)
    BY RxTorn DEF IndInv
  <1>2. /\ UNCHANGED <<tx, dma, sending, owed, unhandled, next, pc, mask, tick, pull, flag>>
        /\ UNCHANGED <<wakeMcu, sleep, restart, mcuPin, stale>>
        /\ mcuPin = "high" /\ sleep = "awake" /\ writing' = TRUE
    BY DEF McuSends, power, ghost
  <1>3. Types'
    BY <1>1, <1>2 DEF IndInv, Types, TypeFifos, TypeGhost, TypeFlags
  <1>4. TxHeld'
    BY <1>2, TxSame DEF IndInv
  <1>5. Quiet' /\ Warned'
    BY <1>2 DEF IndInv, Quiet, SleepsClean, Warned, McuWarned
  <1> QED
    BY <1>1, <1>3, <1>4, <1>5 DEF IndInv

LEMMA StutterInv == ASSUME IndInv, UNCHANGED vars PROVE IndInv'
  <1>1. /\ UNCHANGED <<rx, dma, unhandled, writing, tx, sending, owed, next>>
        /\ UNCHANGED <<pc, mask, tick, pull, flag, wakeMcu, sleep, restart, mcuPin, stale>>
    BY DEF vars, fifos, power, mcu, ghost
  <1>2. Handled' = Handled /\ TypeFlags'
    BY <1>1 DEF Handled, IndInv, Types, TypeFlags
  <1>3. Quiet' /\ Warned'
    BY <1>1 DEF IndInv, Quiet, SleepsClean, Warned, McuWarned
  <1> QED
    BY <1>1, <1>2, <1>3, Untouched

(* The inductive invariant holds in every reachable state. *)
THEOREM SpecInv == Spec => []IndInv
  <1>1. IndInv /\ [Next]_vars => IndInv'
    BY RxFromUartCbInv, RxPopInv, TxToUartCbInv, LinkEventInv, AppSuspendEnterInv,
       WakeFromSuspendInv, WakeFromRetentionInv, DataSentInv, ManageSleepInv,
       SppRestartProcInv, TxDoneInv, IrqHandlerInv, PinInv, McuSendsInv, StutterInv DEF Next
  <1> QED
    BY <1>1, InitInv, PTL DEF Spec

LEMMA RxInOrder ==
    ASSUME Types, RxHeld
    PROVE  Content(rx) = (IF pc = "pop" THEN <<rx.slot[FifoRptr(rx)]>> ELSE <<>>) \o unhandled
  <1> DEFINE len == Len(unhandled)
             s(k) == rx.slot[(rx.r + k - 1) % RxNum]
  <1>1. unhandled \in Seq(Command) /\ len \in Nat /\ FifoCount(rx) = Handled + len
    BY DEF Types, TypeGhost, RxHeld
  <1>2. /\ FifoNum(rx) = RxNum /\ FifoRptr(rx) = rx.r % RxNum /\ rx.r \in Int
        /\ \A k \in 1 .. len : rx.slot[(rx.r + Handled + k - 1) % RxNum] = unhandled[k]
    BY RxFacts DEF RxHeld
  <1>3. Content(rx) = [k \in 1 .. Handled + len |-> s(k)]
    BY <1>1, <1>2 DEF Content
  <1> HIDE DEF s
  <1>4. CASE pc # "pop"
    <2>1. Handled = 0 /\ 0 + len = len
      BY <1>1, <1>4 DEF Handled
    <2>2. ASSUME NEW k \in 1 .. len PROVE s(k) = unhandled[k]
      <3>1. rx.r + 0 + k - 1 = rx.r + k - 1
        BY <1>1, <1>2
      <3> QED
        BY <1>2, <2>1, <3>1 DEF s
    <2>3. [k \in 1 .. len |-> s(k)] = unhandled
      BY <1>1, <2>2
    <2>4. <<>> \o unhandled = unhandled
      BY <1>1
    <2> QED
      BY <1>3, <1>4, <2>1, <2>3, <2>4
  <1>5. CASE pc = "pop"
    <2> DEFINE one == <<rx.slot[FifoRptr(rx)]>>
               both == one \o unhandled
    <2>1. Handled = 1
      BY <1>5 DEF Handled
    <2>2. s(1) = rx.slot[FifoRptr(rx)]
      <3>1. rx.r + 1 - 1 = rx.r
        BY <1>2
      <3> QED
        BY <1>2, <3>1 DEF s
    <2>3. /\ both \in Seq(RxContent) /\ Len(both) = 1 + len /\ both[1] = rx.slot[FifoRptr(rx)]
          /\ \A k \in 2 .. 1 + len : both[k] = unhandled[k - 1]
      <3>1. rx.slot[FifoRptr(rx)] \in RxContent /\ unhandled \in Seq(RxContent)
        <4>1. unhandled = [i \in 1 .. len |-> unhandled[i]]
              /\ \A i \in 1 .. len : unhandled[i] \in RxContent
          BY <1>1, Values
        <4>2. rx.slot[FifoRptr(rx)] \in RxContent
          BY RxFacts
        <4> QED
          BY <1>1, <4>1, <4>2
      <3>2. one \in Seq(RxContent) /\ Len(one) = 1 /\ one[1] = rx.slot[FifoRptr(rx)]
        BY <3>1
      <3> HIDE DEF one
      <3> QED
        <4>1. /\ both \in Seq(RxContent) /\ Len(both) = Len(one) + Len(unhandled)
              /\ \A i \in 1 .. Len(one) + Len(unhandled) :
                    both[i] = IF i <= Len(one) THEN one[i] ELSE unhandled[i - Len(one)]
          BY <3>1, <3>2, ConcatProperties
        <4> HIDE DEF both
        <4> QED
          BY <1>1, <3>2, <4>1
    <2>4. ASSUME NEW k \in 1 .. 1 + len PROVE s(k) = both[k]
      <3>1. CASE k = 1
        BY <2>2, <2>3, <3>1
      <3>2. CASE k # 1
        <4>1. k \in 2 .. 1 + len /\ k - 1 \in 1 .. len /\ rx.r + 1 + (k - 1) - 1 = rx.r + k - 1
          <5>1. rx.r \in Int /\ len \in Int
            BY <1>1, <1>2
          <5> QED
            BY <3>2, <5>1
        <4>2. rx.slot[(rx.r + Handled + (k - 1) - 1) % RxNum] = unhandled[k - 1]
          BY <1>2, <4>1
        <4>3. s(k) = unhandled[k - 1]
          BY <2>1, <4>1, <4>2, Zenon DEF s
        <4>4. both[k] = unhandled[k - 1]
          BY <2>3, <4>1
        <4> QED
          BY <4>3, <4>4
      <3> QED
        BY <3>1, <3>2
    <2> HIDE DEF both
    <2>5. [k \in 1 .. 1 + len |-> s(k)] = both
      BY <1>1, <2>3, <2>4
    <2> QED
      BY <1>3, <1>5, <2>1, <2>5 DEF both
  <1> QED
    BY <1>4, <1>5

(* Commands are handled in the order of the MCU, none overwritten by DMA, and *)
(* answers come back in that order, whatever the sizes of the FIFOs, as long  *)
(* as the MCU has no more commands under way than spp_rx_fifo has slots.      *)
THEOREM InOrderThm == Spec => []InOrder
  <1>1. ASSUME IndInv PROVE InOrder
    <2>1. TypeOK
      BY <1>1 DEF IndInv, Types, TypeFifos, TypeGhost, TypeFlags, RxContent, TxContent, TypeOK
    <2>2. \E pos \in [1 .. Len(owed) -> 0 .. FifoCount(tx)] :
            /\ \A i \in 1 .. Len(owed) : Message(pos[i]) = owed[i]
            /\ \A i, j \in 1 .. Len(owed) : i < j => pos[i] < pos[j]
            /\ \A k \in 0 .. FifoCount(tx) :
                 Message(k) \in Command => \E i \in 1 .. Len(owed) : pos[i] = k
      BY <1>1 DEF IndInv, TxHeld, Places
    <2> QED
      BY <1>1, <2>1, <2>2, RxInOrder DEF IndInv, InOrder
  <1> QED
    BY <1>1, SpecInv, PTL

(* The module never sleeps on a command, an answer, an event or a transfer of *)
(* the UART, although these are decided on by three parties.                  *)
THEOREM SleepsCleanThm == Spec => []SleepsClean
  <1>1. IndInv => SleepsClean
    BY DEF IndInv, Quiet
  <1> QED
    BY <1>1, SpecInv, PTL

(* What waits for the MCU is announced at GPIO_WAKEUP_MCU, unless the flag is *)
(* left from before a retention sleep.                                        *)
THEOREM McuWarnedThm == Spec => []McuWarned
  <1>1. IndInv => McuWarned
    BY DEF IndInv, Warned
  <1> QED
    BY <1>1, SpecInv, PTL
=============================================================================
