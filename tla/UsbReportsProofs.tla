--------------------------- MODULE UsbReportsProofs ---------------------------
(* Proofs about UsbReports, for any keys, any USB_FIFO_NUM from two on and any *)
(* range of the FIFO pointers that is a multiple of twice USB_FIFO_NUM: the    *)
(* PC sees the keys that the slave reports as long as no report had to wait    *)
(* (UndisturbedMirror), and usb_fifo implements the abstract queue             *)
(* (ImplementsReportQueue).                                                    *)
(*                                                                             *)
(* A notification calls up to three report functions one after the other, so   *)
(* the proofs are about one such call, from a device d to the next, and about  *)
(* what calls in a row add up to.                                              *)
EXTENDS UsbReports, SequenceTheorems, TLAPS

AllKeys == NormalKey \cup SysKey \cup MediaKey

DeviceType ==
    [ep : [Endpoint -> Report \cup {Idle}], fifo : [0 .. FifoNum - 1 -> Report \cup {Idle}],
     rptr : 0 .. Wrap - 1, wptr : 0 .. Wrap - 1, rel : SUBSET Kind]

\* The reports of a device that wait in usb_fifo.
Used(d) == (d.wptr + Wrap - d.rptr) % Wrap
Slot(d, i) == (d.rptr + i) % FifoNum

\* Each endpoint holds a report of one of its kinds, and what waits are reports.
Good(d) ==
    /\ d \in DeviceType
    /\ \A e \in Endpoint : d.ep[e] # Idle => d.ep[e] \in Report /\ EndpointOf[d.ep[e].kind] = e
    /\ Used(d) <= FifoNum
    /\ \A i \in 0 .. Used(d) - 1 : d.fifo[Slot(d, i)] \in Report

\* What the PC has or is about to take, of a device.
Look(d, t) == IF d.ep[EndpointOf[t]].kind = t THEN d.ep[EndpointOf[t]].key ELSE pc[t]

\* The PC and usbkb_not_released agree with the keys h; nothing waits.
Mirrors(d, h) ==
    /\ d.rptr = d.wptr
    /\ \A t \in Kind : Look(d, t) = h[t] /\ (t \in d.rel <=> h[t] # None)

Pressed(k) == [t \in Kind |-> IF k \in KeysOf[t] THEN k ELSE None]

TypeWorld ==
    /\ last_data \in AllKeys \cup {None}
    /\ link \in BOOLEAN /\ suspended \in BOOLEAN /\ disturbed \in BOOLEAN
    /\ held \in [Kind -> AllKeys \cup {None}] /\ pc \in [Kind -> AllKeys \cup {None}]

IndInv ==
    /\ TypeWorld
    /\ Good(Device)
    /\ ~disturbed => Mirrors(Device, held) /\ held \in {NoKeys, Pressed(last_data)}

-----------------------------------------------------------------------------
(* Pointers that count modulo m.                                               *)
LEMMA ModDef ==
    ASSUME NEW m \in Int, m > 0, NEW q \in Int, NEW r \in 0 .. m - 1
    PROVE  (q * m + r) % m = r
OBVIOUS

LEMMA DivMod ==
    ASSUME NEW m \in Int, m > 0, NEW a \in Int
    PROVE  \E q \in Int, r \in 0 .. m - 1 : a = q * m + r /\ a % m = r
<1>1. a \div m \in Int
  OBVIOUS
<1>2. a % m \in 0 .. m - 1
  OBVIOUS
<1>3. a = (a \div m) * m + (a % m)
  OBVIOUS
<1> QED BY <1>1, <1>2, <1>3

LEMMA ModShift ==
    ASSUME NEW m \in Int, m > 0, NEW a \in Int, NEW q \in Int
    PROVE  (q * m + a) % m = a % m
<1>1. PICK k \in Int, r \in 0 .. m - 1 : a = k * m + r /\ a % m = r
  BY DivMod
<1>2. q * m + a = (q + k) * m + r /\ q + k \in Int
  BY <1>1
<1> QED BY <1>1, <1>2, ModDef

LEMMA Consts ==
    /\ FifoNum \in Int /\ FifoNum >= 2
    /\ Wrap \in Int /\ Wrap >= 2 * FifoNum
    /\ \E c \in Int : Wrap = c * FifoNum
    /\ \E c \in Int : Wrap = c * (2 * FifoNum)
<1>1. FifoNum \in Int /\ FifoNum >= 2 /\ Wrap \in Int /\ Wrap > 0 /\ Wrap % (2 * FifoNum) = 0
  BY UsbAssumption
<1>2. 2 * FifoNum \in Int /\ 2 * FifoNum > 0
  BY <1>1
<1>3. PICK c \in Int, r \in 0 .. 2 * FifoNum - 1 : Wrap = c * (2 * FifoNum) + r /\ Wrap % (2 * FifoNum) = r
  BY <1>1, <1>2, DivMod
<1>4. Wrap = c * (2 * FifoNum)
  BY <1>1, <1>3
<1>5. Wrap = (2 * c) * FifoNum /\ 2 * c \in Int
  BY <1>1, <1>4
<1>6. c >= 1
  BY <1>1, <1>4
<1>7. Wrap >= 2 * FifoNum
  BY <1>1, <1>4, <1>6
<1> QED BY <1>1, <1>4, <1>5, <1>7

LEMMA Sizes ==
    FifoNum \in Int /\ FifoNum >= 2 /\ Wrap \in Int /\ Wrap >= 2 * FifoNum
BY Consts

\* A pointer one further on, and the distance of two of them.
LEMMA NextPtr ==
    ASSUME NEW w \in 0 .. Wrap - 1
    PROVE  (w + 1) % Wrap = IF w = Wrap - 1 THEN 0 ELSE w + 1
BY Consts

LEMMA Distance ==
    ASSUME NEW w \in 0 .. Wrap - 1, NEW r \in 0 .. Wrap - 1
    PROVE  (w + Wrap - r) % Wrap = IF w >= r THEN w - r ELSE w + Wrap - r
BY Consts

\* Slots of usb_fifo: the pointers' range is a multiple of their number.
LEMMA SlotNext ==
    ASSUME NEW r \in 0 .. Wrap - 1, NEW i \in Int
    PROVE  (((r + 1) % Wrap) + i) % FifoNum = (r + 1 + i) % FifoNum
<1>1. CASE r = Wrap - 1
  <2>1. PICK c \in Int : Wrap = c * FifoNum
    BY Consts
  <2>2. (r + 1) % Wrap = 0 /\ r + 1 + i = c * FifoNum + i
    BY <1>1, <2>1, NextPtr, Consts
  <2>3. FifoNum \in Int /\ FifoNum > 0 /\ i \in Int
    BY Consts
  <2>4. (c * FifoNum + i) % FifoNum = i % FifoNum
    BY <2>3, ModShift
  <2> QED BY <2>2, <2>4
<1>2. CASE r # Wrap - 1
  BY <1>2, NextPtr
<1> QED BY <1>1, <1>2

LEMMA SlotWptr ==
    ASSUME NEW w \in 0 .. Wrap - 1, NEW r \in 0 .. Wrap - 1
    PROVE  w % FifoNum = (r + ((w + Wrap - r) % Wrap)) % FifoNum
<1>1. CASE w >= r
  BY <1>1, Distance, Consts
<1>2. CASE w < r
  <2>1. PICK c \in Int : Wrap = c * FifoNum
    BY Consts
  <2>2. r + ((w + Wrap - r) % Wrap) = c * FifoNum + w
    BY <1>2, <2>1, Distance, Consts
  <2>3. FifoNum \in Int /\ FifoNum > 0 /\ w \in Int
    BY Consts
  <2>4. (c * FifoNum + w) % FifoNum = w % FifoNum
    BY <2>3, ModShift
  <2> QED BY <2>2, <2>4
<1> QED BY <1>1, <1>2, Consts

LEMMA SlotsDiffer ==
    ASSUME NEW a \in Int, NEW x \in 1 .. FifoNum - 1
    PROVE  (a + x) % FifoNum # a % FifoNum
<1>0. FifoNum \in Int /\ FifoNum > 0
  BY Consts
<1>1. PICK k \in Int, r \in 0 .. FifoNum - 1 : a = k * FifoNum + r /\ a % FifoNum = r
  BY <1>0, DivMod
<1>2. CASE r + x < FifoNum
  <2>1. a + x = k * FifoNum + (r + x) /\ r + x \in 0 .. FifoNum - 1
    BY <1>0, <1>1, <1>2
  <2> QED BY <1>0, <1>1, <2>1, ModDef
<1>3. CASE r + x >= FifoNum
  <2>1. a + x = (k + 1) * FifoNum + (r + x - FifoNum) /\ r + x - FifoNum \in 0 .. FifoNum - 1
    BY <1>0, <1>1, <1>3
  <2> QED BY <1>0, <1>1, <2>1, ModDef
<1> QED BY <1>0, <1>1, <1>2, <1>3

\* The overflow test counts modulo 2 * FifoNum what Waiting counts modulo Wrap.
LEMMA OverflowTest ==
    ASSUME NEW w \in 0 .. Wrap - 1, NEW r \in 0 .. Wrap - 1,
           (w + Wrap - r) % Wrap < 2 * FifoNum
    PROVE  (w + Wrap - r) % (2 * FifoNum) = (w + Wrap - r) % Wrap
<1> DEFINE n == (w + Wrap - r) % Wrap
           f == 2 * FifoNum
<1>1. f \in Int /\ f > 0 /\ n \in 0 .. f - 1 /\ Wrap \in Int
  BY Consts, Distance
<1>2. PICK c \in Int : Wrap = c * f
  BY Consts
<1>3. CASE w >= r
  <2>1. w + Wrap - r = c * f + n
    BY <1>1, <1>2, <1>3, Distance
  <2> HIDE DEF n, f
  <2>2. (c * f + n) % f = n
    BY <1>1, ModDef
  <2> QED BY <2>1, <2>2 DEF n, f
<1>4. CASE w < r
  <2>1. w + Wrap - r = 0 * f + n
    BY <1>1, <1>2, <1>4, Distance
  <2> HIDE DEF n, f
  <2>2. (0 * f + n) % f = n
    BY <1>1, ModDef
  <2> QED BY <2>1, <2>2 DEF n, f
<1> QED BY <1>3, <1>4

-----------------------------------------------------------------------------
(* Keys, reports and devices.                                                  *)
LEMMA Tables ==
    /\ KeysOf["normal"] = NormalKey /\ KeysOf["sys"] = SysKey /\ KeysOf["media"] = MediaKey
    /\ EndpointOf["normal"] = "keyboard" /\ EndpointOf["sys"] = "mouse" /\ EndpointOf["media"] = "mouse"
BY DEF KeysOf, EndpointOf

LEMMA KindTables ==
    ASSUME NEW t \in Kind
    PROVE  /\ KeysOf[t] \subseteq AllKeys /\ None \notin KeysOf[t]
           /\ EndpointOf[t] \in Endpoint
BY Tables, UsbAssumption DEF Kind, AllKeys, Endpoint

LEMMA MakeReport ==
    ASSUME NEW t \in Kind, NEW k \in KeysOf[t] \cup {None}
    PROVE  [kind |-> t, key |-> k] \in Report
BY DEF Report

LEMMA ReadReport ==
    ASSUME NEW r \in Report
    PROVE  /\ r.kind \in Kind /\ r.key \in KeysOf[r.kind] \cup {None}
           /\ r = [kind |-> r.kind, key |-> r.key] /\ r # Idle
<1>1. PICK t \in Kind : r \in [kind : {t}, key : KeysOf[t] \cup {None}]
  BY DEF Report
<1>2. "none" \notin Kind
  BY DEF Kind
<1> QED BY <1>1, <1>2 DEF Idle

LEMMA AllKeysUnion == UNION {KeysOf[t] : t \in Kind} = AllKeys
<1>1. ASSUME NEW k \in UNION {KeysOf[t] : t \in Kind} PROVE k \in AllKeys
  BY KindTables
<1>2. ASSUME NEW k \in AllKeys PROVE \E t \in Kind : k \in KeysOf[t]
  BY Tables DEF AllKeys, Kind
<1> QED BY <1>1, <1>2

LEMMA DeviceFields ==
    ASSUME NEW d \in DeviceType
    PROVE  /\ d.ep \in [Endpoint -> Report \cup {Idle}] /\ d.fifo \in [0 .. FifoNum - 1 -> Report \cup {Idle}]
           /\ d.rptr \in 0 .. Wrap - 1 /\ d.wptr \in 0 .. Wrap - 1 /\ d.rel \subseteq Kind
BY DEF DeviceType

-----------------------------------------------------------------------------
\* From d to p the FIFO lost its x oldest reports, only to be full, and gained at
\* most n; the others are in their order.
Kept(d, p, n, x) ==
    /\ x \in 0 .. Used(d)
    /\ Used(d) - x <= Used(p) /\ Used(p) <= Used(d) - x + n
    /\ x > 0 => Used(p) = FifoNum
    /\ \A i \in 0 .. Used(d) - x - 1 : p.fifo[Slot(p, i)] = d.fifo[Slot(d, i + x)]

LEMMA UsedType ==
    ASSUME NEW d \in DeviceType
    PROVE  /\ Used(d) \in Nat /\ Used(d) < Wrap
           /\ Used(d) = IF d.wptr >= d.rptr THEN d.wptr - d.rptr ELSE d.wptr + Wrap - d.rptr
           /\ \A i \in Int : Slot(d, i) \in 0 .. FifoNum - 1
<1>1. d.rptr \in 0 .. Wrap - 1 /\ d.wptr \in 0 .. Wrap - 1
  BY DeviceFields
<1>2. Used(d) = IF d.wptr >= d.rptr THEN d.wptr - d.rptr ELSE d.wptr + Wrap - d.rptr
  BY <1>1, Distance DEF Used
<1>3. \A i \in Int : Slot(d, i) \in 0 .. FifoNum - 1
  BY <1>1, Consts DEF Slot
<1> QED BY <1>1, <1>2, <1>3, Consts

\* The endpoints of d with the report r at the one of its kind.
Written(d, r) == [d.ep EXCEPT ![EndpointOf[r.kind]] = r]

LEMMA WrittenEndpoint ==
    ASSUME NEW d, Good(d), NEW r \in Report, NEW p \in DeviceType, p.ep = Written(d, r),
           p.fifo = d.fifo, p.rptr = d.rptr, p.wptr = d.wptr
    PROVE  Good(p)
<1>0. PICK t \in Kind : t = r.kind
  BY ReadReport
<1>1. /\ d.ep \in [Endpoint -> Report \cup {Idle}] /\ EndpointOf[t] \in Endpoint
      /\ p.ep = [d.ep EXCEPT ![EndpointOf[t]] = r]
  BY <1>0, DeviceFields, KindTables DEF Good, Written
<1>2. ASSUME NEW e \in Endpoint, p.ep[e] # Idle
      PROVE  p.ep[e] \in Report /\ EndpointOf[p.ep[e].kind] = e
  <2>1. CASE e = EndpointOf[t]
    BY <1>0, <1>1, <2>1
  <2>2. CASE e # EndpointOf[t]
    <3>1. p.ep[e] = d.ep[e]
      BY <1>1, <2>2
    <3> QED BY <1>2, <3>1 DEF Good
  <2> QED BY <2>1, <2>2
<1>3. Used(p) = Used(d) /\ \A i \in Int : Slot(p, i) = Slot(d, i)
  BY DEF Used, Slot
<1>4. Used(d) \in Int
  BY UsedType DEF Good
<1> QED BY <1>2, <1>3, <1>4 DEF Good

\* report_to_usb_fifo: the report is the newest, and the oldest gives way if the
\* FIFO was full.
LEMMA PushFifo ==
    ASSUME NEW d, Good(d), NEW r \in Report, NEW p, p = Push(d, r)
    PROVE  /\ Good(p) /\ p.ep = d.ep /\ p.rel = d.rel
           /\ p.wptr = (d.wptr + 1) % Wrap
           /\ \E x \in {0, 1} : Kept(d, p, 1, x)
<1>1. /\ d \in DeviceType /\ Used(d) <= FifoNum /\ Used(d) \in Nat
      /\ d.rptr \in 0 .. Wrap - 1 /\ d.wptr \in 0 .. Wrap - 1
      /\ d.fifo \in [0 .. FifoNum - 1 -> Report \cup {Idle}]
      /\ d.ep \in [Endpoint -> Report \cup {Idle}] /\ d.rel \subseteq Kind
  BY DeviceFields, UsedType DEF Good
<1>0. /\ d.rptr \in Int /\ d.rptr >= 0 /\ d.rptr <= Wrap - 1
      /\ d.wptr \in Int /\ d.wptr >= 0 /\ d.wptr <= Wrap - 1
      /\ Used(d) \in Int /\ Used(d) >= 0 /\ Used(d) <= FifoNum
      /\ FifoNum \in Int /\ FifoNum >= 2 /\ Wrap \in Int /\ Wrap >= 2 * FifoNum
  BY <1>1, Sizes
<1>2. PICK w : w = (d.wptr + 1) % Wrap
  OBVIOUS
<1>3. w = (IF d.wptr = Wrap - 1 THEN 0 ELSE d.wptr + 1) /\ w \in 0 .. Wrap - 1
  <2>1. w = IF d.wptr = Wrap - 1 THEN 0 ELSE d.wptr + 1
    BY <1>1, <1>2, NextPtr
  <2> QED BY <1>1, <2>1, Sizes
<1>4. (w + Wrap - d.rptr) % Wrap = Used(d) + 1
  <2>1. (w + Wrap - d.rptr) % Wrap = IF w >= d.rptr THEN w - d.rptr ELSE w + Wrap - d.rptr
    BY <1>1, <1>3, Distance
  <2>2. Used(d) = IF d.wptr >= d.rptr THEN d.wptr - d.rptr ELSE d.wptr + Wrap - d.rptr
    BY <1>1, UsedType
  <2> QED BY <1>0, <1>3, <2>1, <2>2
<1>5. (w + Wrap - d.rptr) % (2 * FifoNum) = Used(d) + 1
  <2>1. Used(d) + 1 < 2 * FifoNum
    BY <1>1, Sizes
  <2> QED BY <1>1, <1>3, <1>4, <2>1, OverflowTest
<1>6. PICK s : s = d.wptr % FifoNum
  OBVIOUS
<1>7. s \in 0 .. FifoNum - 1 /\ s = Slot(d, Used(d))
  <2>1. s \in 0 .. FifoNum - 1
    BY <1>1, <1>6, Sizes
  <2>2. d.wptr % FifoNum = (d.rptr + ((d.wptr + Wrap - d.rptr) % Wrap)) % FifoNum
    BY <1>1, SlotWptr
  <2> QED BY <1>6, <2>1, <2>2 DEF Used, Slot
<1>8. PICK x \in {0, 1} : x = 1 <=> Used(d) + 1 > FifoNum
  <2>1. CASE Used(d) + 1 > FifoNum
    BY <2>1
  <2>2. CASE ~(Used(d) + 1 > FifoNum)
    BY <2>2
  <2> QED BY <2>1, <2>2
<1>9. PICK q : q = IF x = 1 THEN (d.rptr + 1) % Wrap ELSE d.rptr
  OBVIOUS
<1>10. q \in 0 .. Wrap - 1
  BY <1>1, <1>9, NextPtr, Sizes
<1>11. PICK f : f = [d.fifo EXCEPT ![s] = r]
  OBVIOUS
<1>12. f \in [0 .. FifoNum - 1 -> Report \cup {Idle}]
  BY <1>1, <1>7, <1>11
<1>13. p = [d EXCEPT !.fifo = f, !.wptr = w, !.rptr = q]
  BY <1>1, <1>2, <1>5, <1>6, <1>8, <1>9, <1>11 DEF Push, DeviceType
<1>14. /\ p \in DeviceType /\ p.ep = d.ep /\ p.rel = d.rel /\ p.fifo = f /\ p.wptr = w /\ p.rptr = q
  BY <1>1, <1>3, <1>10, <1>12, <1>13 DEF DeviceType
<1>15. Used(p) = Used(d) + 1 - x
  <2>1. Used(p) = (w + Wrap - q) % Wrap
    BY <1>14 DEF Used
  <2>2. CASE x = 0
    BY <1>1, <1>4, <1>9, <2>1, <2>2
  <2>3. CASE x = 1
    <3>1. q = IF d.rptr = Wrap - 1 THEN 0 ELSE d.rptr + 1
      BY <1>1, <1>9, <2>3, NextPtr
    <3>2. Used(d) + 1 > FifoNum
      BY <1>8, <2>3
    <3>3. (w + Wrap - d.rptr) % Wrap = IF w >= d.rptr THEN w - d.rptr ELSE w + Wrap - d.rptr
      BY <1>1, <1>3, Distance
    <3>4. (w + Wrap - q) % Wrap = IF w >= q THEN w - q ELSE w + Wrap - q
      BY <1>3, <1>10, Distance
    <3>5. Used(d) + 1 = IF w >= d.rptr THEN w - d.rptr ELSE w + Wrap - d.rptr
      BY <1>4, <3>3
    <3>6. Used(p) = IF w >= q THEN w - q ELSE w + Wrap - q
      BY <2>1, <3>4
    <3>7. w \in Int /\ w >= 0 /\ w <= Wrap - 1 /\ q \in Int
      BY <1>3, <1>10
    <3>8. Used(p) = Used(d)
      BY <1>0, <3>1, <3>2, <3>5, <3>6, <3>7
    <3> QED BY <1>0, <2>3, <3>8
  <2> QED BY <2>2, <2>3
<1>16. \A i \in Int : Slot(p, i) = Slot(d, i + x)
  <2> TAKE i \in Int
  <2>1. CASE x = 0
    BY <1>1, <1>9, <1>14, <2>1, Sizes DEF Slot
  <2>2. CASE x = 1
    <3>1. (((d.rptr + 1) % Wrap) + i) % FifoNum = (d.rptr + 1 + i) % FifoNum
      BY <1>1, SlotNext
    <3>2. d.rptr + 1 + i = d.rptr + (i + x)
      BY <1>0, <2>2
    <3> QED BY <1>9, <1>14, <2>2, <3>1, <3>2 DEF Slot
  <2> QED BY <2>1, <2>2
<1>17. ASSUME NEW i \in 0 .. Used(d) - x - 1
       PROVE  p.fifo[Slot(p, i)] = d.fifo[Slot(d, i + x)]
  <2>1. Slot(p, i) = Slot(d, i + x)
    BY <1>16
  <2>0. /\ i \in Int /\ i >= 0 /\ i <= Used(d) - x - 1
        /\ x \in Int /\ x >= 0 /\ (x = 0 => Used(d) + 1 <= FifoNum)
    BY <1>0, <1>8, <1>17
  <2>2. Used(d) - (i + x) \in 1 .. FifoNum - 1
    BY <1>0, <2>0
  <2>3. (d.rptr + (i + x) + (Used(d) - (i + x))) % FifoNum # (d.rptr + (i + x)) % FifoNum
    <3>1. d.rptr + (i + x) \in Int
      BY <1>1, Sizes
    <3> QED BY <2>2, <3>1, SlotsDiffer
  <2>4. d.rptr + (i + x) + (Used(d) - (i + x)) = d.rptr + Used(d)
    BY <1>0, <2>0
  <2>5. Slot(d, i + x) # s
    BY <1>7, <2>3, <2>4 DEF Slot
  <2>6. Slot(d, i + x) \in 0 .. FifoNum - 1
    <3>1. i + x \in Int
      OBVIOUS
    <3> QED BY <1>1, <3>1, UsedType
  <2> QED BY <1>1, <1>7, <1>11, <1>14, <2>1, <2>5, <2>6
<1>18. p.fifo[Slot(p, Used(p) - 1)] = r
  <2>1. Slot(p, Used(p) - 1) = s
    BY <1>1, <1>7, <1>15, <1>16
  <2> QED BY <1>1, <1>7, <1>11, <1>14, <2>1
<1>19. Used(p) <= FifoNum /\ (x > 0 => Used(p) = FifoNum)
  BY <1>1, <1>8, <1>15, Sizes
<1>20. ASSUME NEW i \in 0 .. Used(p) - 1 PROVE p.fifo[Slot(p, i)] \in Report
  <2>1. CASE i = Used(p) - 1
    BY <1>18, <2>1
  <2>2. CASE i # Used(p) - 1
    <3>1. i \in 0 .. Used(d) - x - 1 /\ i + x \in 0 .. Used(d) - 1
      BY <1>1, <1>15, <2>2
    <3> QED BY <1>17, <3>1 DEF Good
  <2> QED BY <2>1, <2>2
<1>21. Good(p)
  BY <1>14, <1>19, <1>20 DEF Good
<1>22. Kept(d, p, 1, x)
  <2>1. x \in 0 .. Used(d)
    BY <1>1, <1>8, Sizes
  <2>2. Used(d) - x <= Used(p) /\ Used(p) <= Used(d) - x + 1
    BY <1>1, <1>15
  <2> QED BY <1>17, <1>19, <2>1, <2>2 DEF Kept
<1> QED BY <1>2, <1>14, <1>21, <1>22

-----------------------------------------------------------------------------
\* A call of a report function that queued nothing: there was nothing to release,
\* or the endpoint was free.
Code(k, t) == IF k \in KeysOf[t] THEN k ELSE None

Direct(d, p, t, k) ==
    /\ p.fifo = d.fifo /\ p.rptr = d.rptr /\ p.wptr = d.wptr
    /\ \/ p = d /\ k \notin KeysOf[t] /\ t \notin d.rel
       \/ /\ Free(d, t)
          /\ p.ep = [d.ep EXCEPT ![EndpointOf[t]] = [kind |-> t, key |-> Code(k, t)]]
          /\ p.rel = IF k \in KeysOf[t] THEN d.rel \cup {t} ELSE d.rel \ {t}

LEMMA KeptSame ==
    ASSUME NEW d, Good(d), NEW p, p.fifo = d.fifo, p.rptr = d.rptr, p.wptr = d.wptr
    PROVE  Kept(d, p, 1, 0)
<1>1. Used(d) \in Nat
  BY UsedType DEF Good
<1>2. Used(p) = Used(d) /\ \A i : Slot(p, i) = Slot(d, i)
  BY DEF Used, Slot
<1>3. \A i \in 0 .. Used(d) - 1 : i + 0 = i
  BY <1>1
<1> QED BY <1>1, <1>2, <1>3 DEF Kept

WithRel(u, rel) == [u EXCEPT !.rel = rel]

LEMMA SendDirect ==
    ASSUME NEW d, Good(d), NEW t \in Kind, NEW k, Free(d, t), NEW rel, rel \subseteq Kind,
           NEW u, u = HidReport(d, t, Code(k, t)), NEW p, p = WithRel(u, rel)
    PROVE  /\ Good(p) /\ p.fifo = d.fifo /\ p.rptr = d.rptr /\ p.wptr = d.wptr /\ p.rel = rel
           /\ p.ep = [d.ep EXCEPT ![EndpointOf[t]] = [kind |-> t, key |-> Code(k, t)]]
<1>1. PICK r : r = [kind |-> t, key |-> Code(k, t)]
  OBVIOUS
<1>2. r \in Report /\ r.kind = t
  BY <1>1, MakeReport DEF Code
<1>3. d \in DeviceType /\ d.ep \in [Endpoint -> Report \cup {Idle}] /\ EndpointOf[t] \in Endpoint
  BY DeviceFields, KindTables DEF Good
<1>4. PICK e : e = [d.ep EXCEPT ![EndpointOf[t]] = r]
  OBVIOUS
<1>5. e \in [Endpoint -> Report \cup {Idle}]
  BY <1>2, <1>3, <1>4
<1>6. u = [d EXCEPT !.ep = e]
  BY <1>1, <1>3, <1>4 DEF HidReport, DeviceType
<1>7. p = [d EXCEPT !.ep = e, !.rel = rel]
  BY <1>3, <1>6 DEF DeviceType, WithRel
<1>8. /\ p \in DeviceType /\ p.ep = e /\ p.rel = rel /\ p.fifo = d.fifo /\ p.rptr = d.rptr /\ p.wptr = d.wptr
  BY <1>3, <1>5, <1>7 DEF DeviceType
<1>9. Good(p)
  <2>1. p.ep = Written(d, r)
    BY <1>2, <1>4, <1>8 DEF Written
  <2> QED BY <1>2, <1>8, <2>1, WrittenEndpoint
<1> QED BY <1>1, <1>4, <1>8, <1>9

LEMMA SendQueued ==
    ASSUME NEW d, Good(d), NEW t \in Kind, NEW k, ~Free(d, t),
           NEW u, u = HidReport(d, t, Code(k, t)), NEW p, p = WithRel(u, u.rel)
    PROVE  /\ Good(p) /\ p.ep = d.ep /\ p.rel = d.rel
           /\ p.wptr = (d.wptr + 1) % Wrap
           /\ \E x \in {0, 1} : Kept(d, p, 1, x)
<1>1. PICK r : r = [kind |-> t, key |-> Code(k, t)]
  OBVIOUS
<1>2. r \in Report
  BY <1>1, MakeReport DEF Code
<1>3. u = Push(d, r)
  BY <1>1 DEF HidReport
<1>4. /\ Good(u) /\ u.ep = d.ep /\ u.rel = d.rel /\ u.wptr = (d.wptr + 1) % Wrap
      /\ \E x \in {0, 1} : Kept(d, u, 1, x)
  BY <1>2, <1>3, PushFifo
<1>5. p = u
  BY <1>4 DEF Good, DeviceType, WithRel
<1> QED BY <1>4, <1>5

\* usbkb_report_normal_key, usbkb_report_sys_key and usbkb_report_consumer_key.
LEMMA CallReport ==
    ASSUME NEW d, Good(d), NEW t \in Kind, NEW k, NEW p, p = ReportKey(d, t, k)
    PROVE  /\ Good(p)
           /\ \E x \in {0, 1} : Kept(d, p, 1, x)
           /\ Direct(d, p, t, k) \/ p.wptr = (d.wptr + 1) % Wrap
<1>0. PICK u : u = HidReport(d, t, Code(k, t))
  OBVIOUS
<1>1. d.rel \subseteq Kind
  BY DeviceFields DEF Good
<1>2. CASE k \notin KeysOf[t] /\ t \notin d.rel
  <2>1. p = d
    BY <1>2 DEF ReportKey, ReleaseKey
  <2> QED BY <1>2, <2>1, KeptSame DEF Direct
<1>3. CASE k \notin KeysOf[t] /\ t \in d.rel
  <2>0. Code(k, t) = None
    BY <1>3 DEF Code
  <2>1. p = [u EXCEPT !.rel = IF Free(d, t) THEN u.rel \ {t} ELSE u.rel]
    BY <1>3, <1>0, <2>0 DEF ReportKey, ReleaseKey
  <2>2. CASE Free(d, t)
    <3>1. u.rel = d.rel
      BY <1>0, <2>2 DEF HidReport, Good, DeviceType
    <3>2. PICK rel : rel = d.rel \ {t}
      OBVIOUS
    <3>3. rel \subseteq Kind /\ p = WithRel(u, rel)
      BY <1>1, <2>1, <2>2, <3>1, <3>2 DEF WithRel
    <3>4. /\ Good(p) /\ p.fifo = d.fifo /\ p.rptr = d.rptr /\ p.wptr = d.wptr /\ p.rel = rel
          /\ p.ep = [d.ep EXCEPT ![EndpointOf[t]] = [kind |-> t, key |-> Code(k, t)]]
      BY <1>0, <2>2, <3>3, SendDirect
    <3>5. Direct(d, p, t, k)
      BY <1>3, <2>2, <3>2, <3>4 DEF Direct
    <3> QED BY <3>4, <3>5, KeptSame
  <2>3. CASE ~Free(d, t)
    <3>1. p = WithRel(u, u.rel)
      BY <2>1, <2>3 DEF WithRel
    <3> QED BY <1>0, <2>3, <3>1, SendQueued
  <2> QED BY <2>2, <2>3
<1>4. CASE k \in KeysOf[t]
  <2>0. Code(k, t) = k
    BY <1>4 DEF Code
  <2>1. p = [u EXCEPT !.rel = IF Free(d, t) THEN u.rel \cup {t} ELSE u.rel]
    BY <1>4, <1>0, <2>0 DEF ReportKey, PressKey
  <2>2. CASE Free(d, t)
    <3>1. u.rel = d.rel
      BY <1>0, <2>2 DEF HidReport, Good, DeviceType
    <3>2. PICK rel : rel = d.rel \cup {t}
      OBVIOUS
    <3>3. rel \subseteq Kind /\ p = WithRel(u, rel)
      BY <1>1, <2>1, <2>2, <3>1, <3>2 DEF WithRel
    <3>4. /\ Good(p) /\ p.fifo = d.fifo /\ p.rptr = d.rptr /\ p.wptr = d.wptr /\ p.rel = rel
          /\ p.ep = [d.ep EXCEPT ![EndpointOf[t]] = [kind |-> t, key |-> Code(k, t)]]
      BY <1>0, <2>2, <3>3, SendDirect
    <3>5. Direct(d, p, t, k)
      BY <1>4, <2>2, <3>2, <3>4 DEF Direct
    <3> QED BY <3>4, <3>5, KeptSame
  <2>3. CASE ~Free(d, t)
    <3>1. p = WithRel(u, u.rel)
      BY <2>1, <2>3 DEF WithRel
    <3> QED BY <1>0, <2>3, <3>1, SendQueued
  <2> QED BY <2>2, <2>3
<1> QED BY <1>2, <1>3, <1>4

\* What a call that queued nothing shows the PC.
LEMMA DirectMirrors ==
    ASSUME NEW d, Good(d), NEW t \in Kind, NEW k, NEW p, Direct(d, p, t, k),
           NEW h, h \in [Kind -> AllKeys \cup {None}], Mirrors(d, h)
    PROVE  Mirrors(p, [h EXCEPT ![t] = Code(k, t)])
<1>1. PICK g : g = [h EXCEPT ![t] = Code(k, t)]
  OBVIOUS
<1>2. p.rptr = p.wptr
  BY DEF Direct, Mirrors
<1>3. d.ep \in [Endpoint -> Report \cup {Idle}] /\ EndpointOf[t] \in Endpoint
  BY DeviceFields, KindTables DEF Good
<1>4. CASE p = d /\ k \notin KeysOf[t] /\ t \notin d.rel
  <2>1. h[t] = None /\ Code(k, t) = None
    BY <1>4 DEF Mirrors, Code
  <2>2. g = h
    BY <1>1, <2>1
  <2> QED BY <1>1, <1>4, <2>2
<1>5. CASE /\ Free(d, t)
           /\ p.ep = [d.ep EXCEPT ![EndpointOf[t]] = [kind |-> t, key |-> Code(k, t)]]
           /\ p.rel = IF k \in KeysOf[t] THEN d.rel \cup {t} ELSE d.rel \ {t}
  <2>1. ASSUME NEW u \in Kind PROVE Look(p, u) = g[u] /\ (u \in p.rel <=> g[u] # None)
    <3>1. CASE u = t
      <4>1. Look(p, t) = Code(k, t)
        BY <1>3, <1>5 DEF Look
      <4>2. g[t] = Code(k, t)
        BY <1>1
      <4>3. t \in p.rel <=> Code(k, t) # None
        BY <1>5, KindTables DEF Code
      <4> QED BY <3>1, <4>1, <4>2, <4>3
    <3>2. CASE u # t
      <4>1. g[u] = h[u] /\ (u \in p.rel <=> u \in d.rel)
        BY <1>1, <1>5, <3>2
      <4>2. Look(p, u) = Look(d, u)
        <5>1. CASE EndpointOf[u] = EndpointOf[t]
          <6>1. d.ep[EndpointOf[u]] = Idle /\ p.ep[EndpointOf[u]].kind = t
            BY <1>3, <1>5, <5>1 DEF Free
          <6>2. Idle.kind # u
            BY DEF Idle, Kind
          <6> QED BY <3>2, <6>1, <6>2 DEF Look
        <5>2. CASE EndpointOf[u] # EndpointOf[t]
          <6>1. p.ep[EndpointOf[u]] = d.ep[EndpointOf[u]]
            BY <1>3, <1>5, <5>2, KindTables
          <6> QED BY <6>1 DEF Look
        <5> QED BY <5>1, <5>2
      <4> QED BY <4>1, <4>2 DEF Mirrors
    <3> QED BY <3>1, <3>2
  <2> QED BY <1>1, <1>2, <2>1 DEF Mirrors
<1> QED BY <1>4, <1>5 DEF Direct

\* Calls in a row.
LEMMA KeptTwice ==
    ASSUME NEW d, Good(d), NEW p, Good(p), NEW q, Good(q), NEW n \in Nat, NEW x, Kept(d, p, n, x),
           NEW y \in {0, 1}, Kept(p, q, 1, y)
    PROVE  \E z : Kept(d, q, n + 1, z)
<1>1. /\ Used(d) \in Nat /\ Used(p) \in Nat /\ Used(q) \in Nat /\ x \in 0 .. Used(d)
      /\ Used(q) <= FifoNum
  BY UsedType DEF Good, Kept
<1>2. /\ Used(d) - x <= Used(p) /\ Used(p) <= Used(d) - x + n /\ (x > 0 => Used(p) = FifoNum)
      /\ Used(p) - y <= Used(q) /\ Used(q) <= Used(p) - y + 1 /\ (y > 0 => Used(q) = FifoNum)
  BY DEF Kept
<1>3. PICK z : z = IF y = 1 /\ x < Used(d) THEN x + 1 ELSE x
  OBVIOUS
<1>4. /\ z \in 0 .. Used(d) /\ Used(d) - z <= Used(q) /\ Used(q) <= Used(d) - z + n + 1
      /\ z > 0 => Used(q) = FifoNum
  BY <1>1, <1>2, <1>3, Sizes
<1>5. ASSUME NEW i \in 0 .. Used(d) - z - 1
      PROVE  q.fifo[Slot(q, i)] = d.fifo[Slot(d, i + z)]
  <2>1. z = x + y
    BY <1>1, <1>3, <1>5
  <2>2. i \in 0 .. Used(p) - y - 1 /\ i + y \in 0 .. Used(d) - x - 1 /\ (i + y) + x = i + z
    BY <1>1, <1>2, <1>5, <2>1
  <2>3. q.fifo[Slot(q, i)] = p.fifo[Slot(p, i + y)]
    BY <2>2 DEF Kept
  <2>4. p.fifo[Slot(p, i + y)] = d.fifo[Slot(d, (i + y) + x)]
    BY <2>2 DEF Kept
  <2> QED BY <2>2, <2>3, <2>4
<1>6. Used(q) <= Used(d) - z + (n + 1)
  BY <1>1, <1>4
<1> QED BY <1>4, <1>5, <1>6 DEF Kept

\* usbkb_hid_report: three calls, or none for a key that is repeated.
LEMMA HidReportCalls ==
    ASSUME NEW d, Good(d), NEW k, NEW p, p = UsbkbHidReport(d, k)
    PROVE  /\ Good(p)
           /\ \E x : Kept(d, p, 3, x)
           /\ p.wptr = d.wptr =>
                \/ p = d /\ k # None /\ k = last_data /\ d.rel # {}
                \/ \E a, b : /\ Direct(d, a, "normal", k) /\ Direct(a, b, "sys", k) /\ Direct(b, p, "media", k)
                            /\ Good(a) /\ Good(b)
<1>1. CASE k # None /\ k = last_data /\ d.rel # {}
  <2>1. p = d
    BY <1>1 DEF UsbkbHidReport
  <2>2. Used(d) \in Nat /\ Kept(d, p, 1, 0)
    BY <2>1, KeptSame, UsedType DEF Good
  <2>3. Kept(d, p, 3, 0)
    BY <2>1, <2>2 DEF Kept
  <2> QED BY <1>1, <2>1, <2>3
<1>2. CASE ~(k # None /\ k = last_data /\ d.rel # {})
  <2>0. "normal" \in Kind /\ "sys" \in Kind /\ "media" \in Kind
    BY DEF Kind
  <2>1. PICK a : a = ReportKey(d, "normal", k)
    OBVIOUS
  <2>2. PICK b : b = ReportKey(a, "sys", k)
    OBVIOUS
  <2>3. p = ReportKey(b, "media", k)
    BY <1>2, <2>1, <2>2 DEF UsbkbHidReport
  <2>4. /\ Good(a) /\ (\E x \in {0, 1} : Kept(d, a, 1, x))
        /\ Direct(d, a, "normal", k) \/ a.wptr = (d.wptr + 1) % Wrap
    BY <2>0, <2>1, CallReport
  <2>5. /\ Good(b) /\ (\E x \in {0, 1} : Kept(a, b, 1, x))
        /\ Direct(a, b, "sys", k) \/ b.wptr = (a.wptr + 1) % Wrap
    BY <2>0, <2>2, <2>4, CallReport
  <2>6. /\ Good(p) /\ (\E x \in {0, 1} : Kept(b, p, 1, x))
        /\ Direct(b, p, "media", k) \/ p.wptr = (b.wptr + 1) % Wrap
    BY <2>0, <2>3, <2>5, CallReport
  <2>7. \E x : Kept(d, b, 2, x)
    <3>1. PICK x \in {0, 1} : Kept(d, a, 1, x)
      BY <2>4
    <3>2. PICK y \in {0, 1} : Kept(a, b, 1, y)
      BY <2>5
    <3>3. \E z : Kept(d, b, 1 + 1, z)
      BY <2>4, <2>5, <3>1, <3>2, KeptTwice
    <3> QED BY <3>3
  <2>8. \E x : Kept(d, p, 3, x)
    <3>1. PICK x : Kept(d, b, 2, x)
      BY <2>7
    <3>2. PICK y \in {0, 1} : Kept(b, p, 1, y)
      BY <2>6
    <3>3. \E z : Kept(d, p, 2 + 1, z)
      BY <2>5, <2>6, <3>1, <3>2, KeptTwice
    <3> QED BY <3>3
  <2>9. ASSUME p.wptr = d.wptr
        PROVE  Direct(d, a, "normal", k) /\ Direct(a, b, "sys", k) /\ Direct(b, p, "media", k)
    <3>1. /\ d.wptr \in 0 .. Wrap - 1 /\ a.wptr \in 0 .. Wrap - 1 /\ b.wptr \in 0 .. Wrap - 1
      BY <2>4, <2>5, DeviceFields DEF Good
    <3>2. /\ (d.wptr + 1) % Wrap = IF d.wptr = Wrap - 1 THEN 0 ELSE d.wptr + 1
          /\ (a.wptr + 1) % Wrap = IF a.wptr = Wrap - 1 THEN 0 ELSE a.wptr + 1
          /\ (b.wptr + 1) % Wrap = IF b.wptr = Wrap - 1 THEN 0 ELSE b.wptr + 1
      BY <3>1, NextPtr
    <3>3. /\ a.wptr = d.wptr \/ a.wptr = IF d.wptr = Wrap - 1 THEN 0 ELSE d.wptr + 1
          /\ b.wptr = a.wptr \/ b.wptr = IF a.wptr = Wrap - 1 THEN 0 ELSE a.wptr + 1
          /\ p.wptr = b.wptr \/ p.wptr = IF b.wptr = Wrap - 1 THEN 0 ELSE b.wptr + 1
      BY <2>4, <2>5, <2>6, <3>2 DEF Direct
    <3>4. a.wptr = d.wptr /\ b.wptr = d.wptr
      BY <2>9, <3>1, <3>3, Sizes
    <3>5. /\ a.wptr # (d.wptr + 1) % Wrap /\ b.wptr # (a.wptr + 1) % Wrap /\ p.wptr # (b.wptr + 1) % Wrap
      BY <2>9, <3>1, <3>2, <3>4, Sizes
    <3> QED BY <2>4, <2>5, <2>6, <3>5
  <2> QED BY <2>4, <2>5, <2>6, <2>8, <2>9
<1> QED BY <1>1, <1>2

-----------------------------------------------------------------------------
LEMMA DeviceIs ==
    /\ Device.ep = ep /\ Device.fifo = fifo /\ Device.rptr = rptr /\ Device.wptr = wptr
    /\ Device.rel = not_released
BY DEF Device

LEMMA BecomesIs ==
    ASSUME NEW d \in DeviceType, Becomes(d)
    PROVE  Device' = d
BY DEF Becomes, Device, DeviceType

LEMMA InitInd == Init => IndInv
<1> SUFFICES ASSUME Init PROVE IndInv
  OBVIOUS
<1>1. NoKeys \in [Kind -> AllKeys \cup {None}] /\ \A t \in Kind : NoKeys[t] = None
  BY DEF NoKeys
<1>2. TypeWorld
  BY <1>1 DEF Init, TypeWorld
<1>3. 0 \in 0 .. Wrap - 1
  BY Sizes
<1>4. Device \in DeviceType
  BY <1>3 DEF Init, Device, DeviceType
<1>5. Used(Device) = 0
  <2>1. Device.rptr = 0 /\ Device.wptr = 0
    BY DeviceIs DEF Init
  <2> QED BY <1>4, <2>1, UsedType
<1>6. \A e \in Endpoint : Device.ep[e] = Idle
  BY DeviceIs DEF Init
<1>7. Good(Device)
  BY <1>4, <1>5, <1>6, Sizes DEF Good
<1>8. Mirrors(Device, held)
  <2>1. ASSUME NEW t \in Kind PROVE Look(Device, t) = held[t] /\ (t \in Device.rel <=> held[t] # None)
    <3>1. Device.ep[EndpointOf[t]] = Idle /\ Idle.kind # t
      BY <1>6, KindTables DEF Idle, Kind
    <3> QED BY <1>1, <3>1, DeviceIs DEF Init, Look
  <2> QED BY <2>1, DeviceIs DEF Init, Mirrors
<1> QED BY <1>2, <1>7, <1>8 DEF IndInv, Init

\* att_keyboard
LEMMA AttKeyboardInd ==
    ASSUME IndInv, NEW k \in AllKeys \cup {None}, AttKeyboard(k)
    PROVE  IndInv' /\ \E x : Kept(Device, Device', 3, x)
<1>1. PICK p : p = UsbkbHidReport(Device, k)
  OBVIOUS
<1>2. /\ Becomes(p) /\ held' = Pressed(k) /\ last_data' = (IF k # None THEN k ELSE last_data)
      /\ disturbed' = (disturbed \/ Queued(p)) /\ link' = link /\ pc' = pc /\ suspended' = suspended
  BY <1>1 DEF AttKeyboard, Pressed
<1>3. /\ Good(p) /\ (\E x : Kept(Device, p, 3, x))
      /\ p.wptr = Device.wptr =>
           \/ p = Device /\ k # None /\ k = last_data /\ Device.rel # {}
           \/ \E a, b : /\ Direct(Device, a, "normal", k) /\ Direct(a, b, "sys", k) /\ Direct(b, p, "media", k)
                       /\ Good(a) /\ Good(b)
  BY <1>1, HidReportCalls DEF IndInv
<1>4. Device' = p
  BY <1>2, <1>3, BecomesIs DEF Good
<1>5. TypeWorld /\ Pressed(k) \in [Kind -> AllKeys \cup {None}]
  BY DEF IndInv, Pressed
<1>6. TypeWorld'
  <2>1. disturbed' \in BOOLEAN
    BY <1>2
  <2> QED BY <1>2, <1>5, <2>1 DEF TypeWorld
<1>7. ASSUME ~disturbed' PROVE Mirrors(p, held') /\ held' \in {NoKeys, Pressed(last_data')}
  <2>1. ~disturbed /\ p.wptr = Device.wptr
    BY <1>2, <1>7, DeviceIs DEF Queued
  <2>2. Mirrors(Device, held) /\ held \in {NoKeys, Pressed(last_data)}
    BY <2>1 DEF IndInv
  <2>3. held' \in {NoKeys, Pressed(last_data')}
    <3>1. CASE k = None
      BY <1>2, <3>1, KindTables DEF Pressed, NoKeys
    <3>2. CASE k # None
      BY <1>2, <3>2
    <3> QED BY <3>1, <3>2
  <2>4. CASE p = Device /\ k # None /\ k = last_data /\ Device.rel # {}
    <3>1. held # NoKeys
      <4>1. PICK t \in Kind : t \in Device.rel
        BY <2>4, DeviceFields DEF IndInv, Good
      <4> QED BY <2>2, <4>1 DEF Mirrors, NoKeys
    <3>2. held' = held
      BY <1>2, <2>2, <2>4, <3>1
    <3> QED BY <2>2, <2>3, <2>4, <3>2
  <2>5. CASE \E a, b : /\ Direct(Device, a, "normal", k) /\ Direct(a, b, "sys", k) /\ Direct(b, p, "media", k)
                      /\ Good(a) /\ Good(b)
    <3>1. PICK a, b : /\ Direct(Device, a, "normal", k) /\ Direct(a, b, "sys", k) /\ Direct(b, p, "media", k)
                      /\ Good(a) /\ Good(b)
      BY <2>5
    <3>2. PICK h1 : h1 = [held EXCEPT !["normal"] = Code(k, "normal")]
      OBVIOUS
    <3>3. PICK h2 : h2 = [h1 EXCEPT !["sys"] = Code(k, "sys")]
      OBVIOUS
    <3>4. PICK h3 : h3 = [h2 EXCEPT !["media"] = Code(k, "media")]
      OBVIOUS
    <3>5. /\ "normal" \in Kind /\ "sys" \in Kind /\ "media" \in Kind
          /\ \A t \in Kind : Code(k, t) \in AllKeys \cup {None}
      BY KindTables DEF Kind, Code
    <3>6. /\ held \in [Kind -> AllKeys \cup {None}] /\ h1 \in [Kind -> AllKeys \cup {None}]
          /\ h2 \in [Kind -> AllKeys \cup {None}]
      BY <1>5, <3>2, <3>3, <3>5 DEF TypeWorld
    <3>7. Mirrors(a, h1)
      BY <2>2, <3>1, <3>2, <3>5, <3>6, DirectMirrors DEF IndInv
    <3>8. Mirrors(b, h2)
      BY <3>1, <3>3, <3>5, <3>6, <3>7, DirectMirrors
    <3>9. Mirrors(p, h3)
      BY <3>1, <3>4, <3>5, <3>6, <3>8, DirectMirrors
    <3>10. h3 = Pressed(k)
      <4>1. h3 = [t \in Kind |-> Code(k, t)]
        BY <3>2, <3>3, <3>4, <3>6 DEF Kind
      <4> QED BY <4>1 DEF Code, Pressed
    <3> QED BY <1>2, <2>3, <3>9, <3>10
  <2> QED BY <1>3, <2>1, <2>4, <2>5
<1>8. ~disturbed' => Mirrors(Device, held)'
  BY <1>2, <1>4, <1>7 DEF Mirrors, Look
<1> QED BY <1>3, <1>4, <1>6, <1>7, <1>8 DEF IndInv

\* att_keyboard_media
LEMMA AttKeyboardMediaInd ==
    ASSUME IndInv, NEW k \in MediaKey \cup {None}, AttKeyboardMedia(k)
    PROVE  IndInv' /\ \E x : Kept(Device, Device', 1, x)
<1>1. PICK p : p = ReportKey(Device, "media", k)
  OBVIOUS
<1>2. /\ Becomes(p) /\ held' = [held EXCEPT !["media"] = k] /\ disturbed' = TRUE
      /\ last_data' = last_data /\ link' = link /\ pc' = pc /\ suspended' = suspended
  BY <1>1 DEF AttKeyboardMedia
<1>3. "media" \in Kind
  BY DEF Kind
<1>4. Good(p) /\ \E x \in {0, 1} : Kept(Device, p, 1, x)
  BY <1>1, <1>3, CallReport DEF IndInv
<1>5. Device' = p
  BY <1>2, <1>4, BecomesIs DEF Good
<1>6. TypeWorld'
  <2>1. k \in AllKeys \cup {None}
    BY DEF AllKeys
  <2> QED BY <1>2, <1>3, <2>1 DEF IndInv, TypeWorld
<1> QED BY <1>2, <1>4, <1>5, <1>6 DEF IndInv

\* The oldest report leaves the FIFO.
WithRptr(d, r) == [d EXCEPT !.rptr = r]

LEMMA PopFifo ==
    ASSUME NEW d, Good(d), d.rptr # d.wptr, NEW p, p = WithRptr(d, (d.rptr + 1) % Wrap)
    PROVE  /\ Good(p) /\ p.fifo = d.fifo /\ Used(d) \in Nat /\ Used(p) \in Nat /\ Used(p) = Used(d) - 1
           /\ \A i \in Int : Slot(p, i) = Slot(d, i + 1)
<1>1. /\ d \in DeviceType /\ d.rptr \in 0 .. Wrap - 1 /\ d.wptr \in 0 .. Wrap - 1
  BY DeviceFields DEF Good
<1>2. PICK r : r = (d.rptr + 1) % Wrap
  OBVIOUS
<1>3. r = IF d.rptr = Wrap - 1 THEN 0 ELSE d.rptr + 1
  BY <1>1, <1>2, NextPtr
<1>4. r \in 0 .. Wrap - 1
  BY <1>1, <1>3, Sizes
<1>5. p = [d EXCEPT !.rptr = r]
  BY <1>2 DEF WithRptr
<1>6. /\ p \in DeviceType /\ p.rptr = r /\ p.wptr = d.wptr /\ p.fifo = d.fifo /\ p.ep = d.ep
  BY <1>1, <1>4, <1>5 DEF DeviceType
<1>7. /\ Used(d) = IF d.wptr >= d.rptr THEN d.wptr - d.rptr ELSE d.wptr + Wrap - d.rptr
      /\ Used(p) = IF d.wptr >= r THEN d.wptr - r ELSE d.wptr + Wrap - r
  BY <1>1, <1>6, UsedType
<1>8. Used(p) = Used(d) - 1 /\ Used(d) \in Nat /\ Used(p) \in Nat
  <2>1. /\ d.rptr \in Int /\ d.rptr >= 0 /\ d.rptr <= Wrap - 1
        /\ d.wptr \in Int /\ d.wptr >= 0 /\ d.wptr <= Wrap - 1 /\ Wrap \in Int /\ Wrap >= 4
    BY <1>1, Sizes
  <2>2. CASE d.rptr = Wrap - 1
    BY <1>3, <1>7, <2>1, <2>2
  <2>3. CASE d.rptr # Wrap - 1
    <3>1. r = d.rptr + 1
      BY <1>3, <2>3
    <3>2. CASE d.wptr > d.rptr
      <4>1. d.wptr >= d.rptr /\ d.wptr >= r
        BY <2>1, <3>1, <3>2
      <4>2. Used(d) = d.wptr - d.rptr /\ Used(p) = d.wptr - (d.rptr + 1)
        BY <1>7, <3>1, <4>1
      <4> QED BY <2>1, <3>2, <4>2
    <3>3. CASE d.wptr < d.rptr
      <4>1. ~(d.wptr >= d.rptr) /\ ~(d.wptr >= r)
        BY <2>1, <3>1, <3>3
      <4>2. Used(d) = d.wptr + Wrap - d.rptr /\ Used(p) = d.wptr + Wrap - (d.rptr + 1)
        BY <1>7, <3>1, <4>1
      <4> QED BY <2>1, <3>3, <4>2
    <3> QED BY <2>1, <3>2, <3>3
  <2> QED BY <2>2, <2>3
<1>9. ASSUME NEW i \in Int PROVE Slot(p, i) = Slot(d, i + 1)
  <2>1. (((d.rptr + 1) % Wrap) + i) % FifoNum = (d.rptr + 1 + i) % FifoNum
    BY <1>1, SlotNext
  <2>2. d.rptr + 1 + i = d.rptr + (i + 1)
    BY <1>1, Sizes
  <2> QED BY <1>2, <1>6, <2>1, <2>2 DEF Slot
<1>10. ASSUME NEW i \in 0 .. Used(p) - 1 PROVE p.fifo[Slot(p, i)] \in Report
  <2>1. i + 1 \in 0 .. Used(d) - 1
    BY <1>8
  <2> QED BY <1>6, <1>9, <2>1 DEF Good
<1>11. Used(p) <= FifoNum
  BY <1>8, Sizes DEF Good
<1> QED BY <1>6, <1>8, <1>9, <1>10, <1>11 DEF Good

\* usb_hid_report_fifo_proc
LEMMA FifoProcInd ==
    ASSUME IndInv, FifoProc
    PROVE  /\ IndInv' /\ Device'.fifo = Device.fifo /\ Used(Device) \in Nat /\ Used(Device)' \in Nat
           /\ Used(Device)' = Used(Device) - 1
           /\ \A i \in Int : Slot(Device', i) = Slot(Device, i + 1)
<1>0. Good(Device) /\ rptr # wptr /\ Device \in DeviceType
  BY DEF IndInv, Good, FifoProc
<1>1. Used(Device) \in Nat /\ Used(Device) > 0
  <2>1. Device.rptr # Device.wptr /\ Device.rptr \in 0 .. Wrap - 1 /\ Device.wptr \in 0 .. Wrap - 1
    BY <1>0, DeviceIs, DeviceFields
  <2>2. Used(Device) = IF Device.wptr >= Device.rptr THEN Device.wptr - Device.rptr
                       ELSE Device.wptr + Wrap - Device.rptr
    BY <1>0, UsedType
  <2> QED BY <2>1, <2>2, Sizes
<1>2. FifoHead \in Report
  <2>1. Slot(Device, 0) = rptr % FifoNum
    <3>1. Device.rptr + 0 = rptr
      BY <1>0, DeviceIs, DeviceFields, Sizes
    <3> QED BY <3>1 DEF Slot
  <2>2. 0 \in 0 .. Used(Device) - 1
    BY <1>1
  <2>3. Device.fifo[Slot(Device, 0)] \in Report
    BY <1>0, <2>2 DEF Good
  <2> QED BY <2>1, <2>3, DeviceIs DEF FifoHead
<1>3. PICK r \in Report : r = FifoHead
  BY <1>2
<1>4. r.kind \in Kind /\ r = [kind |-> r.kind, key |-> r.key]
  BY ReadReport
<1>5. PICK d : d = HidReport(Device, r.kind, r.key)
  OBVIOUS
<1>6. PICK e : e = Written(Device, r)
  OBVIOUS
<1>7. d = [Device EXCEPT !.ep = e]
  <2>1. Free(Device, r.kind)
    BY <1>3 DEF FifoProc
  <2> QED BY <1>0, <1>4, <1>5, <1>6, <2>1 DEF HidReport, Written, DeviceType
<1>8. e \in [Endpoint -> Report \cup {Idle}]
  BY <1>0, <1>4, <1>6, KindTables, DeviceFields DEF Written
<1>9. /\ d \in DeviceType /\ d.ep = e /\ d.fifo = Device.fifo /\ d.rptr = Device.rptr /\ d.wptr = Device.wptr
  BY <1>0, <1>7, <1>8 DEF DeviceType
<1>10. Good(d)
  BY <1>0, <1>6, <1>9, WrittenEndpoint
<1>11. PICK p : p = WithRptr(d, (d.rptr + 1) % Wrap)
  OBVIOUS
<1>12. /\ Good(p) /\ p.fifo = d.fifo /\ Used(d) \in Nat /\ Used(p) \in Nat /\ Used(p) = Used(d) - 1
       /\ \A i \in Int : Slot(p, i) = Slot(d, i + 1)
  <2>1. d.rptr # d.wptr
    BY <1>0, <1>9, DeviceIs
  <2> QED BY <1>10, <1>11, <2>1, PopFifo
<1>13. Becomes(p)
  BY <1>3, <1>5, <1>11 DEF FifoProc, WithRptr
<1>14. Device' = p
  BY <1>12, <1>13, BecomesIs DEF Good
<1>15. Used(d) = Used(Device) /\ \A i : Slot(d, i) = Slot(Device, i)
  BY <1>9 DEF Used, Slot
<1>16. Used(Device)' = Used(p)
  BY <1>14 DEF Used
<1>17. disturbed /\ disturbed' = disturbed
  <2>1. disturbed' = disturbed
    BY DEF FifoProc
  <2>2. ~disturbed => Device.rptr = Device.wptr
    BY DEF IndInv, Mirrors
  <2> QED BY <1>0, <2>1, <2>2, DeviceIs
<1>18. TypeWorld'
  BY DEF FifoProc, IndInv, TypeWorld, world
<1> QED BY <1>9, <1>12, <1>14, <1>15, <1>16, <1>17, <1>18 DEF IndInv

\* The endpoint that the PC polled, or that a reset stopped, is free.
LEMMA Cleared ==
    ASSUME IndInv, NEW E \in SUBSET Endpoint,
           ep' = [e \in Endpoint |-> IF e \in E THEN Idle ELSE ep[e]],
           fifo' = fifo, rptr' = rptr, wptr' = wptr, not_released' = not_released
    PROVE  Good(Device)'
<1>1. Good(Device) /\ Device \in DeviceType /\ ep \in [Endpoint -> Report \cup {Idle}]
  BY DeviceIs, DeviceFields DEF IndInv, Good
<1>2. PICK p : p = Device'
  OBVIOUS
<1>3. p.ep = ep' /\ p.fifo = fifo /\ p.rptr = rptr /\ p.wptr = wptr /\ p.rel = not_released
  BY <1>2 DEF Device
<1>4. p \in DeviceType
  <2>1. ep' \in [Endpoint -> Report \cup {Idle}]
    BY <1>1
  <2> QED BY <1>1, <1>2, <2>1 DEF Device, DeviceType
<1>5. ASSUME NEW e \in Endpoint, p.ep[e] # Idle
      PROVE  p.ep[e] \in Report /\ EndpointOf[p.ep[e].kind] = e
  <2>1. p.ep[e] = Device.ep[e]
    BY <1>3, <1>5, DeviceIs
  <2> QED BY <1>1, <1>5, <2>1 DEF Good
<1>6. Used(p) = Used(Device) /\ p.fifo = Device.fifo /\ \A i : Slot(p, i) = Slot(Device, i)
  BY <1>3, DeviceIs DEF Used, Slot
<1>7. Good(p)
  BY <1>1, <1>4, <1>5, <1>6 DEF Good
<1> QED BY <1>2, <1>7

\* The PC polls an endpoint.
LEMMA PollInd ==
    ASSUME IndInv, NEW e \in Endpoint, Poll(e)
    PROVE  IndInv'
<1>1. /\ ep[e] # Idle /\ pc' = [pc EXCEPT ![ep[e].kind] = ep[e].key] /\ ep' = [ep EXCEPT ![e] = Idle]
      /\ fifo' = fifo /\ rptr' = rptr /\ wptr' = wptr /\ not_released' = not_released
      /\ last_data' = last_data /\ link' = link /\ held' = held /\ suspended' = suspended
      /\ disturbed' = disturbed
  BY DEF Poll
<1>2. ep \in [Endpoint -> Report \cup {Idle}] /\ pc \in [Kind -> AllKeys \cup {None}]
  BY DeviceIs, DeviceFields DEF IndInv, Good, TypeWorld
<1>3. ep[e] \in Report /\ EndpointOf[ep[e].kind] = e
  BY <1>1, DeviceIs DEF IndInv, Good
<1>4. PICK s \in Kind, k \in AllKeys \cup {None} : s = ep[e].kind /\ k = ep[e].key
  BY <1>3, ReadReport, KindTables
<1>5. pc' = [pc EXCEPT ![s] = k] /\ EndpointOf[s] = e
  BY <1>1, <1>3, <1>4
<1>6. Good(Device)'
  <2>1. ep' = [f \in Endpoint |-> IF f \in {e} THEN Idle ELSE ep[f]]
    BY <1>1, <1>2
  <2> QED BY <1>1, <2>1, Cleared
<1>7. TypeWorld'
  <2>1. pc' \in [Kind -> AllKeys \cup {None}]
    BY <1>2, <1>5
  <2> QED BY <1>1, <2>1 DEF IndInv, TypeWorld
<1>8. ASSUME ~disturbed PROVE Mirrors(Device, held)'
  <2>1. Mirrors(Device, held)
    BY <1>8 DEF IndInv
  <2>2. ASSUME NEW t \in Kind PROVE Look(Device, t)' = held[t] /\ (t \in not_released <=> held[t] # None)
    <3>1. Look(Device, t) = held[t] /\ (t \in not_released <=> held[t] # None)
      BY <2>1, DeviceIs DEF Mirrors
    <3>2. Look(Device, t) = IF ep[EndpointOf[t]].kind = t THEN ep[EndpointOf[t]].key ELSE pc[t]
      BY DeviceIs DEF Look
    <3>3. Look(Device, t)' = IF ep'[EndpointOf[t]].kind = t THEN ep'[EndpointOf[t]].key ELSE pc'[t]
      BY DEF Look, Device
    <3>4. CASE EndpointOf[t] = e
      <4>1. ep'[EndpointOf[t]].kind # t
        BY <1>1, <1>2, <3>4 DEF Idle, Kind
      <4> QED BY <1>2, <1>4, <1>5, <3>1, <3>2, <3>3, <3>4, <4>1
    <3>5. CASE EndpointOf[t] # e
      <4>1. ep'[EndpointOf[t]] = ep[EndpointOf[t]] /\ pc'[t] = pc[t]
        BY <1>1, <1>2, <1>5, <3>5, KindTables
      <4> QED BY <3>1, <3>2, <3>3, <4>1
    <3> QED BY <3>4, <3>5
  <2>3. rptr = wptr
    BY <2>1, DeviceIs DEF Mirrors
  <2>4. /\ Device'.rptr = rptr /\ Device'.wptr = wptr /\ Device'.rel = not_released
    BY <1>1 DEF Device
  <2> QED BY <1>1, <2>2, <2>3, <2>4 DEF Mirrors
<1> QED BY <1>1, <1>6, <1>7, <1>8 DEF IndInv, Pressed

\* Steps that leave the reports alone: connections, suspend, and a stutter.
LEMMA DeviceKept ==
    ASSUME IndInv, UNCHANGED device
    PROVE  Device' = Device /\ Good(Device)'
BY DEF device, Device, IndInv

LEMMA OtherInd ==
    ASSUME IndInv, Connect \/ Disconnect \/ Suspend \/ UNCHANGED vars
    PROVE  IndInv'
<1>1. /\ UNCHANGED device /\ last_data' = last_data /\ pc' = pc
      /\ (held' = held /\ disturbed' = disturbed) \/ (held' = NoKeys /\ disturbed' = TRUE)
  BY DEF Connect, Disconnect, Suspend, vars, world
<1>2. link' \in BOOLEAN /\ suspended' \in BOOLEAN
  BY DEF Connect, Disconnect, Suspend, vars, world, IndInv, TypeWorld
<1>3. Device' = Device /\ Good(Device)'
  BY <1>1, DeviceKept
<1>4. NoKeys \in [Kind -> AllKeys \cup {None}]
  BY DEF NoKeys
<1>5. TypeWorld'
  BY <1>1, <1>2, <1>4 DEF IndInv, TypeWorld
<1>6. ASSUME ~disturbed' PROVE Mirrors(Device, held)' /\ held' \in {NoKeys, Pressed(last_data)}
  <2>1. held' = held /\ ~disturbed
    BY <1>1, <1>6
  <2> QED BY <1>1, <1>3, <2>1 DEF IndInv, Mirrors, Look
<1> QED BY <1>1, <1>3, <1>5, <1>6 DEF IndInv, Pressed

\* A reset of the bus.
LEMMA UsbResetInd == ASSUME IndInv, UsbReset PROVE IndInv'
<1>1. NoKeys \in [Kind -> AllKeys \cup {None}]
  BY DEF NoKeys
<1>2. TypeWorld' /\ disturbed' = TRUE
  BY <1>1 DEF UsbReset, IndInv, TypeWorld
<1>3. Good(Device)'
  <2>1. Endpoint \in SUBSET Endpoint /\ ep' = [e \in Endpoint |-> IF e \in Endpoint THEN Idle ELSE ep[e]]
    BY DEF UsbReset
  <2>2. fifo' = fifo /\ rptr' = rptr /\ wptr' = wptr /\ not_released' = not_released
    BY DEF UsbReset
  <2> QED BY <2>1, <2>2, Cleared
<1> QED BY <1>2, <1>3 DEF IndInv

LEMMA NextInd == IndInv /\ [Next]_vars => IndInv'
<1> SUFFICES ASSUME IndInv, [Next]_vars PROVE IndInv'
  OBVIOUS
<1>1. CASE \E k \in NormalKey \cup SysKey \cup MediaKey \cup {None} : AttKeyboard(k)
  BY <1>1, AttKeyboardInd DEF AllKeys
<1>2. CASE \E k \in MediaKey \cup {None} : AttKeyboardMedia(k)
  BY <1>2, AttKeyboardMediaInd
<1>3. CASE FifoProc
  BY <1>3, FifoProcInd
<1>4. CASE UsbReset
  BY <1>4, UsbResetInd
<1>5. CASE \E e \in Endpoint : Poll(e)
  BY <1>5, PollInd
<1>6. CASE Connect \/ Disconnect \/ Suspend \/ UNCHANGED vars
  BY <1>6, OtherInd
<1> QED BY <1>1, <1>2, <1>3, <1>4, <1>5, <1>6 DEF Next

\* The inductive invariant: each endpoint holds a report of its kinds, the FIFO at
\* most USB_FIFO_NUM reports, and while undisturbed what the PC sees, the bits of
\* usbkb_not_released and last_data follow the slave.
THEOREM SpecInv == Spec => []IndInv
BY InitInd, NextInd, PTL DEF Spec

\* The repeat filter of usbkb_hid_report and usbkb_not_released swallow no press and
\* no release as long as every report finds its endpoint free, and usb_fifo never
\* holds more than USB_FIFO_NUM reports.
THEOREM UndisturbedMirrorThm == Spec => []UndisturbedMirror
<1>1. IndInv => UndisturbedMirror
  <2> SUFFICES ASSUME IndInv PROVE UndisturbedMirror
    OBVIOUS
  <2>1. Waiting = Used(Device)
    BY DeviceIs DEF Waiting, Used
  <2>2. TypeOK
    <3>1. /\ ep \in [Endpoint -> Report \cup {Idle}] /\ fifo \in [0 .. FifoNum - 1 -> Report \cup {Idle}]
          /\ rptr \in 0 .. Wrap - 1 /\ wptr \in 0 .. Wrap - 1 /\ not_released \subseteq Kind
          /\ Waiting <= FifoNum
      BY <2>1, DeviceIs, DeviceFields DEF IndInv, Good
    <3>2. /\ held \in [Kind -> (UNION {KeysOf[t] : t \in Kind}) \cup {None}]
          /\ pc \in [Kind -> (UNION {KeysOf[t] : t \in Kind}) \cup {None}]
      <4>1. held \in [Kind -> AllKeys \cup {None}] /\ pc \in [Kind -> AllKeys \cup {None}]
        BY DEF IndInv, TypeWorld
      <4> QED BY <4>1, AllKeysUnion, Zenon
    <3>3. last_data \in NormalKey \cup SysKey \cup MediaKey \cup {None}
      BY DEF IndInv, TypeWorld, AllKeys
    <3>4. link \in BOOLEAN /\ suspended \in BOOLEAN /\ disturbed \in BOOLEAN
      BY DEF IndInv, TypeWorld
    <3> QED BY <3>1, <3>2, <3>3, <3>4, Zenon DEF TypeOK
  <2>3. ~disturbed => \A t \in Kind : Shown(t) = held[t]
    <3>1. \A t \in Kind : Shown(t) = Look(Device, t)
      BY DeviceIs DEF Shown, Look
    <3> QED BY <3>1 DEF IndInv, Mirrors
  <2> QED BY <2>2, <2>3 DEF UndisturbedMirror
<1> QED BY <1>1, SpecInv, PTL

-----------------------------------------------------------------------------
(* usb_fifo implements the abstract queue.                                     *)
LEMMA MakeSeq ==
    ASSUME NEW S, NEW n \in Nat, NEW f \in [1 .. n -> S]
    PROVE  f \in Seq(S) /\ Len(f) = n
OBVIOUS

LEMMA ContentsAre ==
    ASSUME Good(Device)
    PROVE  /\ Contents \in Seq(Report) /\ Len(Contents) = Used(Device) /\ Used(Device) \in Nat
           /\ \A i \in 1 .. Used(Device) : Contents[i] = Device.fifo[Slot(Device, i - 1)]
<1>1. Waiting = Used(Device) /\ Used(Device) \in Nat
  BY DeviceIs, UsedType DEF Waiting, Used, Good
<1>2. ASSUME NEW i \in 1 .. Used(Device)
      PROVE  fifo[(rptr + i - 1) % FifoNum] = Device.fifo[Slot(Device, i - 1)]
  <2>1. rptr + i - 1 = rptr + (i - 1)
    BY <1>1, DeviceIs, DeviceFields, Sizes DEF Good
  <2> QED BY <2>1, DeviceIs DEF Slot
<1>3. ASSUME NEW i \in 1 .. Used(Device) PROVE Device.fifo[Slot(Device, i - 1)] \in Report
  <2>1. i - 1 \in 0 .. Used(Device) - 1
    BY <1>1
  <2> QED BY <2>1 DEF Good
<1>4. Contents \in [1 .. Used(Device) -> Report]
  BY <1>1, <1>2, <1>3 DEF Contents
<1>5. Contents \in Seq(Report) /\ Len(Contents) = Used(Device)
  BY <1>1, <1>4, MakeSeq
<1> QED BY <1>1, <1>2, <1>5 DEF Contents

LEMMA SamePrefix ==
    ASSUME NEW S, NEW n \in Nat, NEW a, NEW b, \A i \in 1 .. n : a[i] \in S /\ b[i] \in S /\ a[i] = b[i]
    PROVE  SubSeq(a, 1, n) = SubSeq(b, 1, n)
<1>1. (\A i \in 1 .. n : a[i] \in S) /\ (\A i \in 1 .. n : b[i] \in S)
  BY Zenon
<1>2. /\ SubSeq(a, 1, n) \in Seq(S) /\ Len(SubSeq(a, 1, n)) = IF 1 <= n THEN n - 1 + 1 ELSE 0
      /\ \A i \in 1 .. n - 1 + 1 : SubSeq(a, 1, n)[i] = a[1 + i - 1]
  BY <1>1, SubSeqProperties
<1>3. /\ SubSeq(b, 1, n) \in Seq(S) /\ Len(SubSeq(b, 1, n)) = IF 1 <= n THEN n - 1 + 1 ELSE 0
      /\ \A i \in 1 .. n - 1 + 1 : SubSeq(b, 1, n)[i] = b[1 + i - 1]
  BY <1>1, SubSeqProperties
<1>4. Len(SubSeq(a, 1, n)) = n /\ Len(SubSeq(b, 1, n)) = n
  BY <1>2, <1>3
<1>5. ASSUME NEW i \in 1 .. n PROVE SubSeq(a, 1, n)[i] = SubSeq(b, 1, n)[i]
  <2>1. i \in 1 .. n - 1 + 1 /\ 1 + i - 1 = i
    OBVIOUS
  <2> QED BY <1>2, <1>3, <2>1
<1> QED BY <1>2, <1>3, <1>4, <1>5, SeqEqual

LEMMA Suffix ==
    ASSUME NEW S, NEW q \in Seq(S), NEW x \in 0 .. Len(q)
    PROVE  /\ SubSeq(q, x + 1, Len(q)) \in Seq(S) /\ Len(SubSeq(q, x + 1, Len(q))) = Len(q) - x
           /\ \A i \in 1 .. Len(q) - x : SubSeq(q, x + 1, Len(q))[i] = q[i + x]
<1>1. Len(q) \in Nat /\ x \in Nat /\ x <= Len(q)
  BY LenProperties
<1>2. \A i \in x + 1 .. Len(q) : q[i] \in S
  BY <1>1
<1>3. /\ SubSeq(q, x + 1, Len(q)) \in Seq(S)
      /\ Len(SubSeq(q, x + 1, Len(q))) = IF x + 1 <= Len(q) THEN Len(q) - (x + 1) + 1 ELSE 0
      /\ \A i \in 1 .. Len(q) - (x + 1) + 1 : SubSeq(q, x + 1, Len(q))[i] = q[(x + 1) + i - 1]
  BY <1>1, <1>2, SubSeqProperties
<1>4. Len(SubSeq(q, x + 1, Len(q))) = Len(q) - x
  BY <1>1, <1>3
<1>5. ASSUME NEW i \in 1 .. Len(q) - x PROVE SubSeq(q, x + 1, Len(q))[i] = q[i + x]
  <2>1. i \in 1 .. Len(q) - (x + 1) + 1 /\ (x + 1) + i - 1 = i + x
    BY <1>1
  <2> QED BY <1>3, <2>1
<1> QED BY <1>3, <1>4, <1>5

LEMMA KeptPrefix ==
    ASSUME NEW S, NEW kept \in Seq(S), NEW p \in Seq(S), Len(kept) <= Len(p),
           \A i \in 1 .. Len(kept) : p[i] = kept[i]
    PROVE  SubSeq(kept, 1, Len(kept)) = SubSeq(p, 1, Len(kept))
<1>1. PICK n \in Nat : n = Len(kept) /\ n <= Len(p)
  BY LenProperties
<1>2. Len(p) \in Nat
  BY LenProperties
<1>3. \A i \in 1 .. n : kept[i] \in S /\ p[i] \in S /\ kept[i] = p[i]
  BY <1>1, <1>2
<1>4. SubSeq(kept, 1, n) = SubSeq(p, 1, n)
  BY <1>3, SamePrefix
<1> QED BY <1>1, <1>4

LEMMA PutStep ==
    ASSUME Good(Device), Good(Device)', NEW n \in 0 .. 3, NEW x, Kept(Device, Device', n, x)
    PROVE  Queue!Put
<1>1. /\ Contents \in Seq(Report) /\ Len(Contents) = Used(Device) /\ Used(Device) \in Nat
      /\ \A i \in 1 .. Used(Device) : Contents[i] = Device.fifo[Slot(Device, i - 1)]
  BY ContentsAre
<1>2. PICK q : q = Contents'
  OBVIOUS
<1>3. PICK d : d = Device'
  OBVIOUS
<1>4. /\ q \in Seq(Report) /\ Len(q) = Used(d) /\ Used(d) \in Nat
      /\ \A i \in 1 .. Used(d) : q[i] = d.fifo[Slot(d, i - 1)]
  <2>1. (/\ Contents \in Seq(Report) /\ Len(Contents) = Used(Device) /\ Used(Device) \in Nat
         /\ \A i \in 1 .. Used(Device) : Contents[i] = Device.fifo[Slot(Device, i - 1)])'
    BY ContentsAre, PTL
  <2> QED BY <1>2, <1>3, <2>1
<1>5. /\ x \in 0 .. Used(Device) /\ Used(Device) - x <= Used(d) /\ Used(d) <= Used(Device) - x + n
      /\ x > 0 => Used(d) = FifoNum
      /\ \A i \in 0 .. Used(Device) - x - 1 : d.fifo[Slot(d, i)] = Device.fifo[Slot(Device, i + x)]
  BY <1>3 DEF Kept
<1>6. ASSUME NEW i \in 1 .. Len(Contents) - x PROVE q[i] = Contents[i + x]
  <2>1. /\ i - 1 \in 0 .. Used(Device) - x - 1 /\ i \in 1 .. Used(d) /\ i + x \in 1 .. Used(Device)
        /\ (i - 1) + x = (i + x) - 1
    BY <1>1, <1>4, <1>5
  <2>2. q[i] = d.fifo[Slot(d, i - 1)]
    BY <1>4, <2>1
  <2>3. d.fifo[Slot(d, i - 1)] = Device.fifo[Slot(Device, (i - 1) + x)]
    BY <1>5, <2>1
  <2>4. Contents[i + x] = Device.fifo[Slot(Device, (i + x) - 1)]
    BY <1>1, <2>1
  <2> QED BY <2>1, <2>2, <2>3, <2>4
<1>7. PICK kept : kept = SubSeq(Contents, x + 1, Len(Contents))
  OBVIOUS
<1>8. Len(kept) = Len(Contents) - x /\ SubSeq(kept, 1, Len(kept)) = SubSeq(q, 1, Len(kept))
  <2>1. /\ kept \in Seq(Report) /\ Len(kept) = Len(Contents) - x
        /\ \A i \in 1 .. Len(Contents) - x : kept[i] = Contents[i + x]
    BY <1>1, <1>5, <1>7, Suffix
  <2>2. Len(kept) <= Len(q) /\ \A i \in 1 .. Len(kept) : q[i] = kept[i]
    BY <1>1, <1>4, <1>5, <1>6, <2>1
  <2> QED BY <1>4, <2>1, <2>2, KeptPrefix
<1>9. /\ x \in 0 .. Len(Contents) /\ Len(kept) <= Len(q) /\ Len(q) - Len(kept) <= 3
      /\ Len(q) <= FifoNum /\ (x > 0 => Len(q) = FifoNum)
  <2>1. Used(d) <= FifoNum
    BY <1>3 DEF Good
  <2> QED BY <1>1, <1>4, <1>5, <1>8, <2>1, Sizes
<1> QED BY <1>2, <1>4, <1>7, <1>8, <1>9 DEF Queue!Put, Queue!IsPrefix

LEMMA TakeStep == ASSUME IndInv, FifoProc PROVE Queue!Take
<1>1. /\ Contents \in Seq(Report) /\ Len(Contents) = Used(Device) /\ Used(Device) \in Nat
      /\ \A i \in 1 .. Used(Device) : Contents[i] = Device.fifo[Slot(Device, i - 1)]
  BY ContentsAre DEF IndInv
<1>2. PICK q : q = Contents'
  OBVIOUS
<1>3. PICK d : d = Device'
  OBVIOUS
<1>4. /\ Good(d) /\ d.fifo = Device.fifo /\ Used(d) \in Nat /\ Used(d) = Used(Device) - 1
      /\ \A i \in Int : Slot(d, i) = Slot(Device, i + 1)
  <2>1. Used(Device)' = Used(d)
    BY <1>3 DEF Used
  <2> QED BY <1>3, <2>1, FifoProcInd DEF IndInv
<1>5. /\ q \in Seq(Report) /\ Len(q) = Used(d)
      /\ \A i \in 1 .. Used(d) : q[i] = d.fifo[Slot(d, i - 1)]
  <2>1. Good(Device)'
    BY <1>3, <1>4
  <2>2. (/\ Contents \in Seq(Report) /\ Len(Contents) = Used(Device) /\ Used(Device) \in Nat
         /\ \A i \in 1 .. Used(Device) : Contents[i] = Device.fifo[Slot(Device, i - 1)])'
    BY <2>1, ContentsAre, PTL
  <2> QED BY <1>2, <1>3, <2>2
<1>6. Contents # <<>> /\ Len(Contents) > 0
  BY <1>1, <1>4
<1>7. /\ Tail(Contents) \in Seq(Report) /\ Len(Tail(Contents)) = Len(Contents) - 1
      /\ \A i \in 1 .. Len(Tail(Contents)) : Tail(Contents)[i] = Contents[i + 1]
  BY <1>1, <1>6, HeadTailProperties
<1>8. ASSUME NEW i \in 1 .. Len(q) PROVE q[i] = Tail(Contents)[i]
  <2>1. i \in 1 .. Len(Tail(Contents)) /\ i + 1 \in 1 .. Used(Device) /\ i - 1 \in Int /\ (i - 1) + 1 = (i + 1) - 1
    <3>1. Len(Tail(Contents)) = Used(d) /\ Used(Device) = Used(d) + 1 /\ Len(q) = Used(d) /\ Used(d) \in Nat
      BY <1>1, <1>4, <1>5, <1>7
    <3> QED BY <3>1
  <2>2. q[i] = Device.fifo[Slot(Device, (i - 1) + 1)]
    BY <1>4, <1>5, <2>1
  <2>3. Tail(Contents)[i] = Device.fifo[Slot(Device, (i + 1) - 1)]
    BY <1>1, <1>7, <2>1
  <2> QED BY <2>1, <2>2, <2>3
<1>9. q = Tail(Contents)
  <2>1. Len(q) = Len(Tail(Contents))
    BY <1>1, <1>4, <1>5, <1>7
  <2> QED BY <1>5, <1>7, <1>8, <2>1, SeqEqual
<1> QED BY <1>2, <1>6, <1>9 DEF Queue!Take

LEMMA QueueInit == Init => Queue!Init
<1> SUFFICES ASSUME Init PROVE Queue!Init
  OBVIOUS
<1>1. Waiting = 0
  BY Sizes DEF Init, Waiting
<1>2. Contents = <<>>
  BY <1>1 DEF Contents
<1> QED BY <1>2 DEF Queue!Init

LEMMA QueueStep == IndInv /\ IndInv' /\ [Next]_vars => [Queue!Next]_Contents
<1> SUFFICES ASSUME IndInv, IndInv', [Next]_vars PROVE [Queue!Next]_Contents
  OBVIOUS
<1>0. Good(Device) /\ Good(Device)'
  BY DEF IndInv
<1>1. CASE \E k \in NormalKey \cup SysKey \cup MediaKey \cup {None} : AttKeyboard(k)
  <2>1. \E x : Kept(Device, Device', 3, x)
    BY <1>1, AttKeyboardInd DEF AllKeys
  <2> QED BY <1>0, <2>1, PutStep DEF Queue!Next
<1>2. CASE \E k \in MediaKey \cup {None} : AttKeyboardMedia(k)
  <2>1. \E x : Kept(Device, Device', 1, x)
    BY <1>2, AttKeyboardMediaInd
  <2> QED BY <1>0, <2>1, PutStep DEF Queue!Next
<1>3. CASE FifoProc
  BY <1>3, TakeStep DEF Queue!Next
<1>4. CASE UsbReset \/ (\E e \in Endpoint : Poll(e)) \/ Connect \/ Disconnect \/ Suspend \/ UNCHANGED vars
  <2>1. fifo' = fifo /\ rptr' = rptr /\ wptr' = wptr
    BY <1>4 DEF UsbReset, Poll, Connect, Disconnect, Suspend, vars, device
  <2> QED BY <2>1 DEF Contents, Waiting
<1> QED BY <1>1, <1>2, <1>3, <1>4 DEF Next

\* usb_fifo, with its two u8 pointers, the mask and the overflow rule of
\* report_to_usb_fifo, implements a queue that keeps the newest reports in their
\* order and loses the oldest only when it is full.
THEOREM ReportQueueThm == Spec => ImplementsReportQueue
BY InitInd, NextInd, QueueInit, QueueStep, PTL DEF Spec, ImplementsReportQueue, Queue!Spec
=============================================================================
