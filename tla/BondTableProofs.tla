--------------------------- MODULE BondTableProofs ---------------------------
(* Proofs about BondTable, for every set of slaves, every table size, every   *)
(* sector geometry and, where PairingBudget is assumed, every number of       *)
(* pairings per power cycle that the sector has room for.                     *)
EXTENDS BondTable, FiniteSetTheorems, TLAPS

(* The valid areas below area k. *)
Below(k) == {s \in 0 .. k - 1 : flash[s].mark = "bond"}

(* Areas are used from the start of the sector on, without holes.             *)
LogShape ==
    /\ \A s, t \in Slots :
          (s < t /\ flash[t].mark # "free") => flash[s].mark # "free"
    /\ \A s \in Slots : s >= SectorSlots => flash[s].mark = "free"

Ascending == \A i, j \in 1 .. Len(tbl) : i < j => tbl[i].slot < tbl[j].slot

(* The entries of the table from the m-th on own the valid areas below k.     *)
Mirrors(m, k) ==
    /\ Ascending
    /\ \A i \in m .. Len(tbl) :
          /\ tbl[i].slot < k
          /\ flash[tbl[i].slot].mark = "bond" /\ flash[tbl[i].slot].dev = tbl[i].dev
    /\ \A s \in Below(k) : \E i \in m .. Len(tbl) : tbl[i].slot = s

(* cfgIdx is the last area in use. *)
Frontier == \A s \in Slots : flash[s].mark = "free" <=> s > cfgIdx

InvScan ==
    pc = "scan" =>
        /\ cfgIdx \in 0 .. SectorSlots /\ adds = 0
        /\ \A s \in Slots : s < cfgIdx => flash[s].mark # "free"
        /\ Mirrors(1, cfgIdx)
        /\ Cardinality(Below(cfgIdx)) = Len(tbl)

InvSettled ==
    pc \in {"ready", "store", "erase"} =>
        /\ cfgIdx < SectorSlots
        /\ Frontier /\ Mirrors(1, SectorSlots)
        /\ Cardinality(Below(SectorSlots)) = Len(tbl)

InvBudget ==
    /\ pc = "erase" => adds = 0
    /\ pc \in {"ready", "wipe"} => cfgIdx + 1 <= CleanSlot + adds
    /\ pc = "store" => cfgIdx + 2 <= CleanSlot + adds
    /\ pc = "store" => Len(tbl) < MaxNum

InvRewrite ==
    pc = "rewrite" =>
        /\ adds = 0 /\ n <= Len(tbl) /\ cfgIdx = n - 1
        /\ Frontier
        /\ \A i \in 1 .. n :
              /\ tbl[i].slot = i - 1
              /\ flash[tbl[i].slot].mark = "bond" /\ flash[tbl[i].slot].dev = tbl[i].dev

InvWipe ==
    pc = "wipe" =>
        /\ cfgIdx < SectorSlots /\ n <= Len(tbl)
        /\ Frontier /\ Mirrors(n + 1, SectorSlots)
        /\ \A i \in 1 .. Len(tbl) : tbl[i].slot <= cfgIdx

(* The inductive invariant.  Capacity is what keeps power-on from the trap:   *)
(* it must hold at every flash command, since any of them may be the last.    *)
Capacity == Cardinality(Below(SectorSlots)) <= MaxNum

IndInv ==
    /\ TypeOK /\ BootAccepts /\ LogShape /\ Capacity
    /\ InvScan /\ InvSettled /\ InvBudget /\ InvRewrite /\ InvWipe

-----------------------------------------------------------------------------
(* Facts about sequences and finite sets. *)

(* Entries of the table are entries, and their areas are numbers. *)
LEMMA EntryFacts ==
    ASSUME TypeOK
    PROVE  /\ Len(tbl) \in Nat
           /\ \A i \in 1 .. Len(tbl) :
                 tbl[i] \in Entry /\ tbl[i].slot \in Slots /\ tbl[i].slot \in Nat
           /\ \A s \in Slots : flash[s] \in Area /\ s \in Nat
  <1>1. Slots \subseteq Nat
    BY BondAssumption DEF Slots
  <1>2. \A s \in Slots : flash[s] \in Area
    BY DEF TypeOK
  <1>3. tbl \in Seq(Entry)
    BY DEF TypeOK
  <1>4. Len(tbl) \in Nat /\ \A i \in 1 .. Len(tbl) : tbl[i] \in Entry
    BY <1>3
  <1>5. \A e \in Entry : e.slot \in Slots
    BY DEF Entry
  <1> QED
    BY <1>1, <1>2, <1>4, <1>5

(* Removing the i-th entry leaves a table that is one entry shorter. *)
LEMMA WithoutType ==
    ASSUME tbl \in Seq(Entry), NEW i \in 1 .. Len(tbl)
    PROVE  /\ Without(i) \in Seq(Entry)
           /\ Len(Without(i)) = Len(tbl) - 1
           /\ \A j \in 1 .. Len(tbl) - 1 :
                 Without(i)[j] = IF j < i THEN tbl[j] ELSE tbl[j + 1]
  <1>1. Len(tbl) - 1 \in Nat
    OBVIOUS
  <1>2. Without(i) \in [1 .. Len(tbl) - 1 -> Entry]
    BY <1>1 DEF Without
  <1>3. Without(i) \in Seq(Entry) /\ Len(Without(i)) = Len(tbl) - 1
    BY <1>1, <1>2
  <1> QED
    BY <1>3 DEF Without

(* Overwriting one field of an entry keeps the table a table. *)
LEMMA ReslotType ==
    ASSUME tbl \in Seq(Entry), NEW i \in 1 .. Len(tbl), NEW v \in Slots
    PROVE  /\ [tbl EXCEPT ![i].slot = v] \in Seq(Entry)
           /\ Len([tbl EXCEPT ![i].slot = v]) = Len(tbl)
           /\ \A j \in 1 .. Len(tbl) :
                [tbl EXCEPT ![i].slot = v][j] =
                   IF j = i THEN [dev |-> tbl[i].dev, slot |-> v] ELSE tbl[j]
  <1>1. tbl \in [1 .. Len(tbl) -> Entry]
    OBVIOUS
  <1>2. tbl[i] \in Entry /\ [tbl[i] EXCEPT !.slot = v] = [dev |-> tbl[i].dev, slot |-> v]
    BY <1>1 DEF Entry
  <1>3. [tbl EXCEPT ![i].slot = v] \in [1 .. Len(tbl) -> Entry]
    BY <1>1, <1>2 DEF Entry
  <1> QED
    BY <1>1, <1>2, <1>3

LEMMA RedevType ==
    ASSUME tbl \in Seq(Entry), NEW i \in 1 .. Len(tbl)
    PROVE  /\ [tbl EXCEPT ![i].dev = NoDevice] \in Seq(Entry)
           /\ Len([tbl EXCEPT ![i].dev = NoDevice]) = Len(tbl)
           /\ \A j \in 1 .. Len(tbl) :
                [tbl EXCEPT ![i].dev = NoDevice][j] =
                   IF j = i THEN [dev |-> NoDevice, slot |-> tbl[i].slot] ELSE tbl[j]
  <1>1. tbl \in [1 .. Len(tbl) -> Entry]
    OBVIOUS
  <1>2. /\ tbl[i] \in Entry
        /\ [tbl[i] EXCEPT !.dev = NoDevice] = [dev |-> NoDevice, slot |-> tbl[i].slot]
    BY <1>1 DEF Entry
  <1>3. [tbl EXCEPT ![i].dev = NoDevice] \in [1 .. Len(tbl) -> Entry]
    BY <1>1, <1>2 DEF Entry
  <1> QED
    BY <1>1, <1>2, <1>3

(* The valid areas below k are finitely many. *)
LEMMA BelowFinite ==
    ASSUME NEW k \in Nat
    PROVE  IsFiniteSet(Below(k)) /\ Cardinality(Below(k)) \in Nat
  <1>1. IsFiniteSet(0 .. k - 1)
    BY FS_Interval
  <1>2. Below(k) \subseteq 0 .. k - 1
    BY DEF Below
  <1> QED
    BY <1>1, <1>2, FS_Subset, FS_CardinalityType

(* Adding a valid area, removing some. *)
LEMMA CardAdd ==
    ASSUME NEW k \in Nat, NEW S, NEW x, x \notin Below(k), S = Below(k) \cup {x}
    PROVE  Cardinality(S) = Cardinality(Below(k)) + 1
  BY BelowFinite, FS_AddElement

LEMMA CardRemove ==
    ASSUME NEW k \in Nat, NEW S, NEW x \in Below(k), S = Below(k) \ {x}
    PROVE  Cardinality(S) = Cardinality(Below(k)) - 1
  BY BelowFinite, FS_RemoveElement

LEMMA CardSubset ==
    ASSUME NEW k \in Nat, NEW S \in SUBSET Below(k)
    PROVE  Cardinality(S) <= Cardinality(Below(k))
  BY BelowFinite, FS_Subset

-----------------------------------------------------------------------------
(* The inductive invariant holds at power-on with a blank sector ...          *)
LEMMA InitInd == Init => IndInv
  <1> SUFFICES ASSUME Init PROVE IndInv
    OBVIOUS
  <1> USE BondAssumption
  <1>1. TypeOK
    BY DEF Init, TypeOK, Slots, Area, Blank, Marks, Entry
  <1>2. Below(SectorSlots) = {} /\ Below(0) = {}
    BY DEF Init, Below, Slots, Blank
  <1>3. Cardinality(Below(SectorSlots)) = 0 /\ Cardinality(Below(0)) = 0
    BY <1>2, FS_EmptySet
  <1>4. LogShape
    BY DEF Init, LogShape, Blank
  <1>5. Mirrors(1, 0) /\ Len(tbl) = 0
    BY <1>2 DEF Init, Mirrors, Ascending
  <1>6. InvScan
    BY <1>1, <1>3, <1>5 DEF Init, InvScan, Slots
  <1>7. InvSettled /\ InvBudget /\ InvRewrite /\ InvWipe /\ BootAccepts
    BY DEF Init, InvSettled, InvBudget, InvRewrite, InvWipe, BootAccepts
  <1> QED
    BY <1>1, <1>3, <1>4, <1>6, <1>7 DEF IndInv, Capacity

(* ... and every step keeps it, one lemma for each action.                    *)
LEMMA ScanStays ==
    ASSUME LogShape, Capacity, flash' = flash, pc' = "scan", TypeOK', InvScan'
    PROVE  IndInv'
  <1>1. LogShape' /\ Capacity'
    BY DEF LogShape, Capacity, Below
  <1>2. BootAccepts' /\ InvSettled' /\ InvBudget' /\ InvRewrite' /\ InvWipe'
    BY DEF BootAccepts, InvSettled, InvBudget, InvRewrite, InvWipe
  <1> QED
    BY <1>1, <1>2 DEF IndInv

LEMMA ScanAreaInd == IndInv /\ ScanArea => IndInv'
  <1> SUFFICES ASSUME IndInv, ScanArea PROVE IndInv'
    OBVIOUS
  <1> USE BondAssumption
  <1>0. /\ TypeOK /\ LogShape /\ Capacity /\ InvScan /\ pc = "scan"
        /\ cfgIdx \in 0 .. SectorSlots - 1 /\ flash[cfgIdx].mark # "free"
        /\ cfgIdx \in Slots /\ flash' = flash
    BY DEF IndInv, ScanArea, ScanDone, InvScan, Slots
  <1>1. CASE flash[cfgIdx].mark = "bond"
    <2>1. Below(cfgIdx + 1) = Below(cfgIdx) \cup {cfgIdx} /\ cfgIdx \notin Below(cfgIdx)
      BY <1>0, <1>1 DEF Below
    <2>2. Cardinality(Below(cfgIdx + 1)) = Len(tbl) + 1
      <3>1. Cardinality(Below(cfgIdx + 1)) = Cardinality(Below(cfgIdx)) + 1
        BY <1>0, <2>1, CardAdd
      <3> QED
        BY <1>0, <3>1 DEF InvScan
    <2>3. Below(cfgIdx + 1) \in SUBSET Below(SectorSlots)
      BY <1>0 DEF Below
    <2>4. Len(tbl) < MaxNum
      <3>1. Cardinality(Below(cfgIdx + 1)) <= Cardinality(Below(SectorSlots))
        BY <2>3, CardSubset
      <3>2. Cardinality(Below(SectorSlots)) \in Nat /\ Len(tbl) \in Nat
        BY <1>0, BelowFinite, EntryFacts
      <3> QED
        BY <1>0, <2>2, <3>1, <3>2 DEF Capacity
    <2>5. /\ tbl' = Append(tbl, [dev |-> flash[cfgIdx].dev, slot |-> cfgIdx])
          /\ cfgIdx' = cfgIdx + 1 /\ pc' = "scan"
      BY <1>0, <1>1, <2>4 DEF ScanArea
    <2>6. [dev |-> flash[cfgIdx].dev, slot |-> cfgIdx] \in Entry
      BY <1>0, <1>1 DEF TypeOK, Area, Entry
    <2>7. /\ tbl' \in Seq(Entry) /\ Len(tbl') = Len(tbl) + 1
          /\ \A i \in 1 .. Len(tbl) : tbl'[i] = tbl[i]
          /\ tbl'[Len(tbl) + 1] = [dev |-> flash[cfgIdx].dev, slot |-> cfgIdx]
      BY <1>0, <2>5, <2>6 DEF TypeOK
    <2>8. TypeOK'
      <3>1. UNCHANGED <<flash, n, arg, adds>>
        BY <1>1 DEF ScanArea
      <3> QED
        BY <1>0, <2>4, <2>5, <2>7, <3>1 DEF TypeOK
    <2>9. Mirrors(1, cfgIdx)'
      <3>1. Ascending'
        <4>1. \A i \in 1 .. Len(tbl) : tbl'[i].slot < cfgIdx
          BY <1>0, <2>7 DEF InvScan, Mirrors
        <4>2. Ascending
          BY <1>0 DEF InvScan, Mirrors
        <4>3. ASSUME NEW i \in 1 .. Len(tbl'), NEW j \in 1 .. Len(tbl'), i < j
              PROVE  tbl'[i].slot < tbl'[j].slot
          <5>1. i \in 1 .. Len(tbl) /\ (j \in 1 .. Len(tbl) \/ j = Len(tbl) + 1)
            BY <1>0, <2>7, <4>3, EntryFacts
          <5>2. CASE j \in 1 .. Len(tbl)
            BY <2>7, <4>2, <4>3, <5>1, <5>2 DEF Ascending
          <5>3. CASE j = Len(tbl) + 1
            BY <2>7, <4>1, <5>1, <5>3
          <5> QED
            BY <5>1, <5>2, <5>3
        <4> QED
          BY <4>3 DEF Ascending
      <3>2. \A i \in 1 .. Len(tbl') :
               /\ tbl'[i].slot < cfgIdx + 1
               /\ flash[tbl'[i].slot].mark = "bond" /\ flash[tbl'[i].slot].dev = tbl'[i].dev
        BY <1>0, <1>1, <2>7, EntryFacts DEF InvScan, Mirrors
      <3>3. \A s \in Below(cfgIdx + 1) : \E i \in 1 .. Len(tbl') : tbl'[i].slot = s
        BY <1>0, <2>1, <2>7, EntryFacts DEF InvScan, Mirrors
      <3> QED
        BY <1>0, <2>5, <3>1, <3>2, <3>3 DEF Mirrors, Below
    <2>10. InvScan'
      BY <1>0, <2>2, <2>5, <2>7, <2>9 DEF InvScan, ScanArea, Below
    <2> QED
      BY <1>0, <2>5, <2>8, <2>10, ScanStays
  <1>2. CASE flash[cfgIdx].mark # "bond"
    <2>1. cfgIdx' = cfgIdx + 1 /\ tbl' = tbl /\ pc' = "scan"
      BY <1>0, <1>2 DEF ScanArea
    <2>2. Below(cfgIdx + 1) = Below(cfgIdx)
      BY <1>0, <1>2 DEF Below
    <2>3. TypeOK'
      BY <1>0, <2>1 DEF TypeOK, ScanArea
    <2>4. Mirrors(1, cfgIdx + 1)
      BY <1>0, <2>2, EntryFacts DEF InvScan, Mirrors
    <2>5. Mirrors(1, cfgIdx)'
      BY <1>0, <2>1, <2>4 DEF Mirrors, Below, Ascending
    <2>6. InvScan'
      <3>1. Below(cfgIdx)' = Below(cfgIdx + 1)
        BY <1>0, <2>1 DEF Below
      <3>2. \A s \in Slots : s < cfgIdx + 1 => flash[s].mark # "free"
        BY <1>0, EntryFacts DEF InvScan
      <3> QED
        BY <1>0, <2>1, <2>2, <2>5, <3>1, <3>2 DEF InvScan, ScanArea
    <2> QED
      BY <1>0, <2>1, <2>3, <2>6, ScanStays
  <1> QED
    BY <1>1, <1>2

LEMMA PowerLossInd == IndInv /\ PowerLoss => IndInv'
  <1> SUFFICES ASSUME IndInv, PowerLoss PROVE IndInv'
    OBVIOUS
  <1> USE BondAssumption
  <1>1. /\ LogShape /\ Capacity /\ flash' = flash /\ pc' = "scan" /\ tbl' = <<>>
        /\ cfgIdx' = 0 /\ adds' = 0
    BY DEF IndInv, PowerLoss
  <1>2. TypeOK'
    BY DEF IndInv, TypeOK, PowerLoss
  <1>3. Below(cfgIdx)' = {} /\ Len(tbl') = 0
    BY <1>1 DEF Below
  <1>4. Cardinality(Below(cfgIdx)') = 0
    BY <1>3, FS_EmptySet
  <1>5. Mirrors(1, cfgIdx)'
    BY <1>1, <1>3 DEF Mirrors, Ascending
  <1>6. InvScan'
    BY <1>1, <1>2, <1>3, <1>4, <1>5, EntryFacts DEF InvScan, Slots
  <1> QED
    BY <1>1, <1>2, <1>6, ScanStays

LEMMA ScanEndInd == IndInv /\ ScanEnd => IndInv'
  <1> SUFFICES ASSUME IndInv, ScanEnd PROVE IndInv'
    OBVIOUS
  <1> USE BondAssumption
  <1>0. /\ TypeOK /\ LogShape /\ Capacity /\ InvScan /\ pc = "scan" /\ ScanDone
        /\ flash' = flash /\ tbl' = tbl /\ cfgIdx' = cfgIdx - 1 /\ adds' = adds
        /\ pc' \in {"ready", "erase"}
        /\ pc' = "ready" => cfgIdx - 1 < CleanSlot
        /\ cfgIdx \in 0 .. SectorSlots /\ cfgIdx \in Slots /\ adds = 0
    BY DEF IndInv, ScanEnd, InvScan, Slots
  <1>1. TypeOK'
    BY <1>0 DEF TypeOK, ScanEnd
  <1>2. \A s \in Slots : flash[s].mark = "free" <=> s > cfgIdx - 1
    <2>1. \A s \in Slots : s >= cfgIdx => flash[s].mark = "free"
      <3>1. CASE cfgIdx = SectorSlots
        BY <1>0, <3>1 DEF LogShape
      <3>2. CASE flash[cfgIdx].mark = "free"
        BY <1>0, <3>2 DEF LogShape, Slots
      <3> QED
        BY <1>0, <3>1, <3>2 DEF ScanDone
    <2>2. \A s \in Slots : s < cfgIdx => flash[s].mark # "free"
      BY <1>0 DEF InvScan
    <2> QED
      BY <1>0, <2>1, <2>2 DEF Slots
  <1>3. Below(SectorSlots) = Below(cfgIdx)
    BY <1>0, <1>2 DEF Below, Slots
  <1>4. Mirrors(1, SectorSlots)
    BY <1>0, <1>3, EntryFacts DEF InvScan, Mirrors
  <1>5. LogShape' /\ Capacity'
    BY <1>0 DEF LogShape, Capacity, Below
  <1>6. Frontier'
    BY <1>0, <1>2 DEF Frontier
  <1>7. Mirrors(1, SectorSlots)'
    BY <1>0, <1>4 DEF Mirrors, Ascending, Below
  <1>8. Cardinality(Below(SectorSlots))' = Len(tbl')
    BY <1>0, <1>3 DEF InvScan, Below
  <1>9. InvSettled'
    BY <1>0, <1>6, <1>7, <1>8 DEF InvSettled
  <1>10. pc' = "ready" => cfgIdx' + 1 <= CleanSlot + adds'
    BY <1>0
  <1>11. InvBudget' /\ BootAccepts' /\ InvScan' /\ InvRewrite' /\ InvWipe'
    BY <1>0, <1>10 DEF InvBudget, BootAccepts, InvScan, InvRewrite, InvWipe
  <1> QED
    BY <1>1, <1>5, <1>9, <1>11 DEF IndInv

LEMMA CleanEraseInd == IndInv /\ CleanErase => IndInv'
  <1> SUFFICES ASSUME IndInv, CleanErase PROVE IndInv'
    OBVIOUS
  <1> USE BondAssumption
  <1>0. /\ TypeOK /\ LogShape /\ pc = "erase" /\ adds = 0
        /\ pc' = "rewrite" /\ tbl' = tbl /\ cfgIdx' = -1 /\ n' = 0 /\ adds' = 0
        /\ flash' = [s \in Slots |-> IF s < SectorSlots THEN Blank ELSE flash[s]]
    BY DEF IndInv, CleanErase, InvBudget
  <1>1. Blank \in Area /\ Blank.mark = "free"
    BY DEF Blank, Area, Marks
  <1>2. flash' \in [Slots -> Area] /\ \A s \in Slots : flash'[s].mark = "free"
    BY <1>0, <1>1, EntryFacts DEF LogShape
  <1>3. TypeOK'
    BY <1>0, <1>2 DEF TypeOK, CleanErase
  <1>4. Below(SectorSlots)' = {}
    BY <1>2 DEF Below, Slots
  <1>5. LogShape' /\ Capacity'
    BY <1>2, <1>4, FS_EmptySet DEF LogShape, Capacity
  <1>6. Frontier'
    BY <1>0, <1>2 DEF Frontier, Slots
  <1>7. InvRewrite'
    BY <1>0, <1>6, EntryFacts DEF InvRewrite
  <1>8. InvBudget' /\ BootAccepts' /\ InvScan' /\ InvSettled' /\ InvWipe'
    BY <1>0 DEF InvBudget, BootAccepts, InvScan, InvSettled, InvWipe
  <1> QED
    BY <1>3, <1>5, <1>7, <1>8 DEF IndInv

LEMMA CleanEndInd == IndInv /\ CleanEnd => IndInv'
  <1> SUFFICES ASSUME IndInv, CleanEnd PROVE IndInv'
    OBVIOUS
  <1> USE BondAssumption
  <1>0. /\ TypeOK /\ LogShape /\ Capacity /\ InvRewrite /\ pc = "rewrite"
        /\ pc' = "ready" /\ tbl' = tbl /\ cfgIdx' = cfgIdx /\ adds' = adds
        /\ flash' = flash /\ n >= Len(tbl)
    BY DEF IndInv, CleanEnd
  <1>1. /\ n = Len(tbl) /\ cfgIdx = Len(tbl) - 1 /\ Len(tbl) \in 0 .. MaxNum
        /\ Frontier /\ adds = 0
    BY <1>0, EntryFacts DEF InvRewrite, TypeOK
  <1>2. \A i \in 1 .. Len(tbl) :
           /\ tbl[i].slot = i - 1
           /\ flash[tbl[i].slot].mark = "bond" /\ flash[tbl[i].slot].dev = tbl[i].dev
    BY <1>0, <1>1 DEF InvRewrite
  <1>3. Below(SectorSlots) = 0 .. Len(tbl) - 1
    <2>1. \A s \in 0 .. SectorSlots - 1 : s \in Slots
      BY DEF Slots
    <2>3. \A s \in 0 .. Len(tbl) - 1 : flash[s].mark = "bond"
      <3> SUFFICES ASSUME NEW s \in 0 .. Len(tbl) - 1 PROVE flash[s].mark = "bond"
        OBVIOUS
      <3>1. s + 1 \in 1 .. Len(tbl)
        BY <1>1
      <3>2. tbl[s + 1].slot = s
        BY <1>2, <3>1
      <3> QED
        BY <1>2, <3>1, <3>2
    <2>4. \A s \in 0 .. SectorSlots - 1 : s > Len(tbl) - 1 => flash[s].mark = "free"
      BY <1>1, <2>1 DEF Frontier
    <2> QED
      BY <1>1, <2>3, <2>4 DEF Below
  <1>4. Cardinality(Below(SectorSlots)) = Len(tbl)
    <2>1. Cardinality(0 .. Len(tbl) - 1) = Len(tbl)
      <3> DEFINE b == Len(tbl) - 1
      <3>1. b \in Int /\ 0 \in Int
        BY <1>1
      <3> HIDE DEF b
      <3>2. Cardinality(0 .. b) = IF 0 > b THEN 0 ELSE b - 0 + 1
        BY <3>1, FS_Interval
      <3> QED
        BY <1>1, <3>1, <3>2 DEF b
    <2> QED
      BY <1>3, <2>1
  <1>5. Mirrors(1, SectorSlots)
    <2>1. ASSUME NEW s \in Below(SectorSlots)
          PROVE  \E i \in 1 .. Len(tbl) : tbl[i].slot = s
      <3>1. s + 1 \in 1 .. Len(tbl)
        BY <1>1, <1>3
      <3>2. tbl[s + 1].slot = s
        BY <1>2, <1>3, <3>1
      <3> QED
        BY <3>1, <3>2
    <2>2. Ascending
      BY <1>1, <1>2 DEF Ascending
    <2>3. \A i \in 1 .. Len(tbl) : tbl[i].slot < SectorSlots
      BY <1>1, <1>2
    <2> QED
      BY <1>2, <2>1, <2>2, <2>3 DEF Mirrors
  <1>6. TypeOK'
    BY <1>0 DEF TypeOK, CleanEnd
  <1>7. LogShape' /\ Capacity'
    BY <1>0 DEF LogShape, Capacity, Below
  <1>8. Mirrors(1, SectorSlots)' /\ Frontier'
    BY <1>0, <1>1, <1>5 DEF Mirrors, Ascending, Below, Frontier
  <1>9. InvSettled'
    BY <1>0, <1>1, <1>4, <1>8 DEF InvSettled, Below
  <1>10. InvBudget' /\ BootAccepts' /\ InvScan' /\ InvRewrite' /\ InvWipe'
    BY <1>0, <1>1 DEF InvBudget, BootAccepts, InvScan, InvRewrite, InvWipe
  <1> QED
    BY <1>6, <1>7, <1>9, <1>10 DEF IndInv

-----------------------------------------------------------------------------
(* What the flash commands do to the areas. *)

LEMMA WriteFacts ==
    ASSUME TypeOK, NEW c \in Slots, NEW d \in Device \cup {NoDevice},
           flash[c].mark = "free", flash' = WriteRecord(c, d)
    PROVE  /\ flash' \in [Slots -> Area]
           /\ flash'[c].mark = "bond" /\ flash'[c].dev = d
           /\ \A s \in Slots : s # c => flash'[s] = flash[s]
  <1>1. [mark |-> "bond", dev |-> d] \in Area
    BY DEF Area, Marks
  <1>2. flash' = [flash EXCEPT ![c] = [mark |-> "bond", dev |-> d]]
    BY DEF WriteRecord
  <1>3. flash \in [Slots -> Area]
    BY DEF TypeOK
  <1> QED
    BY <1>1, <1>2, <1>3

LEMMA EraseFacts ==
    ASSUME TypeOK, NEW c \in Slots, flash' = WriteErased(c)
    PROVE  /\ flash' \in [Slots -> Area]
           /\ flash'[c].mark = "erased"
           /\ \A s \in Slots : s # c => flash'[s] = flash[s]
  <1>1. flash \in [Slots -> Area] /\ flash[c] \in Area
    BY DEF TypeOK
  <1>2. /\ [flash[c] EXCEPT !.mark = "erased"] \in Area
        /\ [flash[c] EXCEPT !.mark = "erased"].mark = "erased"
    BY <1>1 DEF Area, Marks
  <1>3. flash' = [flash EXCEPT ![c] = [flash[c] EXCEPT !.mark = "erased"]]
    BY <1>1 DEF WriteErased
  <1> QED
    BY <1>1, <1>2, <1>3

(* The shape of the log follows from the frontier. *)
LEMMA FrontierShape ==
    ASSUME NEW f, NEW c \in Int, c < SectorSlots,
           \A s \in Slots : f[s].mark = "free" <=> s > c
    PROVE  /\ \A s, t \in Slots :
                 (s < t /\ f[t].mark # "free") => f[s].mark # "free"
           /\ \A s \in Slots : s >= SectorSlots => f[s].mark = "free"
  BY BondAssumption DEF Slots

LEMMA CleanRewriteInd == IndInv /\ CleanRewrite => IndInv'
  <1> SUFFICES ASSUME IndInv, CleanRewrite PROVE IndInv'
    OBVIOUS
  <1> USE BondAssumption
  <1>0. /\ TypeOK /\ InvRewrite /\ pc = "rewrite" /\ pc' = "rewrite"
        /\ n < Len(tbl) /\ n' = n + 1 /\ adds' = adds /\ arg' = arg
        /\ cfgIdx' = cfgIdx + 1 /\ flash' = WriteRecord(cfgIdx + 1, tbl[n + 1].dev)
        /\ tbl' = [tbl EXCEPT ![n + 1].slot = cfgIdx + 1]
    BY DEF IndInv, CleanRewrite
  <1>1. /\ n \in 0 .. MaxNum - 1 /\ n + 1 \in 1 .. Len(tbl) /\ cfgIdx = n - 1
        /\ Frontier /\ adds = 0 /\ n \in Slots /\ Len(tbl) \in 0 .. MaxNum
        /\ cfgIdx + 1 = n
    BY <1>0, EntryFacts DEF InvRewrite, TypeOK, Slots
  <1>2. /\ tbl' = [tbl EXCEPT ![n + 1].slot = n]
        /\ flash' = WriteRecord(n, tbl[n + 1].dev) /\ cfgIdx' = n
    BY <1>0, <1>1
  <1>3. /\ tbl' \in Seq(Entry) /\ Len(tbl') = Len(tbl)
        /\ \A j \in 1 .. Len(tbl) :
              tbl'[j] = IF j = n + 1 THEN [dev |-> tbl[n + 1].dev, slot |-> n] ELSE tbl[j]
    <2>1. tbl \in Seq(Entry)
      BY <1>0 DEF TypeOK
    <2> DEFINE k == n + 1
    <2>2. k \in 1 .. Len(tbl)
      BY <1>1
    <2>3. tbl' = [tbl EXCEPT ![k].slot = n] /\ n \in Slots
      BY <1>1, <1>2
    <2> HIDE DEF k
    <2>4. /\ tbl' \in Seq(Entry) /\ Len(tbl') = Len(tbl)
          /\ \A j \in 1 .. Len(tbl) :
                tbl'[j] = IF j = k THEN [dev |-> tbl[k].dev, slot |-> n] ELSE tbl[j]
      BY <2>1, <2>2, <2>3, ReslotType
    <2> QED
      BY <2>4 DEF k
  <1>4. flash[n].mark = "free" /\ tbl[n + 1].dev \in Device \cup {NoDevice}
    BY <1>0, <1>1, EntryFacts DEF Frontier, Entry
  <1>5. /\ flash' \in [Slots -> Area]
        /\ flash'[n].mark = "bond" /\ flash'[n].dev = tbl[n + 1].dev
        /\ \A s \in Slots : s # n => flash'[s] = flash[s]
    BY <1>0, <1>1, <1>2, <1>4, WriteFacts
  <1>6. TypeOK'
    <2>1. n' \in 0 .. MaxNum /\ cfgIdx' \in -1 .. SectorSlots + MaxAdds /\ Len(tbl') <= MaxNum
      BY <1>0, <1>1, <1>2, <1>3
    <2>2. adds' \in 0 .. MaxAdds /\ arg' \in Device \cup {NoDevice}
      BY <1>0 DEF TypeOK
    <2>3. flash' \in [Slots -> Area] /\ tbl' \in Seq(Entry) /\ pc' = "rewrite"
      BY <1>0, <1>3, <1>5
    <2> QED
      BY <2>1, <2>2, <2>3 DEF TypeOK
  <1>7. Frontier'
    <2>1. ASSUME NEW s \in Slots PROVE flash'[s].mark = "free" <=> s > n
      <3>1. s \in Int /\ (flash[s].mark = "free" <=> s > n - 1)
        BY <1>1 DEF Frontier, Slots
      <3>2. CASE s = n
        BY <1>1, <1>5, <3>2
      <3>3. CASE s # n
        BY <1>1, <1>5, <3>1, <3>3
      <3> QED
        BY <3>2, <3>3
    <2> QED
      BY <1>2, <2>1 DEF Frontier
  <1>8. LogShape'
    <2>1. \A s \in Slots : flash'[s].mark = "free" <=> s > n
      BY <1>2, <1>7 DEF Frontier
    <2>2. n \in Int /\ n < SectorSlots
      BY <1>1
    <2> QED
      BY <2>1, <2>2, FrontierShape DEF LogShape
  <1>9. Capacity'
    <2>1. Below(SectorSlots)' \subseteq 0 .. n
      <3>1. \A s \in Slots : flash'[s].mark = "free" <=> s > n
        BY <1>2, <1>7 DEF Frontier
      <3> QED
        BY <1>1, <3>1 DEF Below, Slots
    <2>2. n \in Int /\ 0 \in Int
      BY <1>1
    <2>3. IsFiniteSet(0 .. n) /\ Cardinality(0 .. n) = IF 0 > n THEN 0 ELSE n - 0 + 1
      BY <2>2, FS_Interval
    <2>4. Cardinality(Below(SectorSlots)') <= Cardinality(0 .. n)
      BY <2>1, <2>3, FS_Subset
    <2>5. Cardinality(Below(SectorSlots)') \in Nat
      BY <2>1, <2>3, FS_Subset, FS_CardinalityType
    <2> QED
      BY <1>1, <2>3, <2>4, <2>5 DEF Capacity
  <1>10. InvRewrite'
    <2>1. ASSUME NEW i \in 1 .. n + 1
          PROVE  /\ tbl'[i].slot = i - 1
                 /\ flash'[tbl'[i].slot].mark = "bond"
                 /\ flash'[tbl'[i].slot].dev = tbl'[i].dev
      <3>1. CASE i = n + 1
        BY <1>1, <1>3, <1>5, <3>1
      <3>2. CASE i # n + 1
        <4>1. i \in 1 .. n /\ i \in 1 .. Len(tbl) /\ tbl'[i] = tbl[i]
          BY <1>1, <1>3, <3>2
        <4>2. tbl[i].slot = i - 1 /\ tbl[i].slot \in Slots /\ tbl[i].slot # n
          BY <1>0, <1>1, <4>1, EntryFacts DEF InvRewrite
        <4> QED
          <5>1. flash[tbl[i].slot].mark = "bond" /\ flash[tbl[i].slot].dev = tbl[i].dev
            BY <1>0, <4>1 DEF InvRewrite
          <5>2. flash'[tbl[i].slot] = flash[tbl[i].slot]
            BY <1>5, <4>2
          <5> QED
            BY <4>1, <4>2, <5>1, <5>2
      <3> QED
        BY <3>1, <3>2
    <2> QED
      BY <1>0, <1>1, <1>2, <1>3, <1>7, <2>1 DEF InvRewrite
  <1>11. InvBudget' /\ BootAccepts' /\ InvScan' /\ InvSettled' /\ InvWipe'
    BY <1>0 DEF InvBudget, BootAccepts, InvScan, InvSettled, InvWipe
  <1> QED
    BY <1>6, <1>8, <1>9, <1>10, <1>11 DEF IndInv

(* Marking a valid record as deleted leaves the frontier where it is and      *)
(* takes just that area away from the valid ones.                             *)
LEMMA EraseSettled ==
    ASSUME TypeOK, Frontier, cfgIdx < SectorSlots, cfgIdx' = cfgIdx,
           NEW c \in Slots, c < SectorSlots, flash[c].mark = "bond",
           flash' = WriteErased(c)
    PROVE  /\ Frontier' /\ LogShape' /\ flash' \in [Slots -> Area]
           /\ Below(SectorSlots)' = Below(SectorSlots) \ {c}
           /\ c \in Below(SectorSlots)
  <1> USE BondAssumption
  <1>1. /\ flash' \in [Slots -> Area]
        /\ flash'[c].mark = "erased"
        /\ \A s \in Slots : s # c => flash'[s] = flash[s]
    BY EraseFacts
  <1>2. c \in 0 .. SectorSlots - 1 /\ \A s \in 0 .. SectorSlots - 1 : s \in Slots
    BY DEF Slots
  <1>3. \A s \in Slots : flash'[s].mark = "free" <=> s > cfgIdx
    <2>1. ASSUME NEW s \in Slots PROVE flash'[s].mark = "free" <=> s > cfgIdx
      <3>1. flash[s].mark = "free" <=> s > cfgIdx
        BY DEF Frontier
      <3>2. CASE s = c
        BY <1>1, <3>1, <3>2
      <3>3. CASE s # c
        BY <1>1, <3>1, <3>3
      <3> QED
        BY <3>2, <3>3
    <2> QED
      BY <2>1
  <1>4. Frontier'
    BY <1>3 DEF Frontier
  <1>5. LogShape'
    <2>1. cfgIdx \in Int
      BY DEF TypeOK
    <2> QED
      BY <1>3, <2>1, FrontierShape DEF LogShape
  <1>6. Below(SectorSlots)' = Below(SectorSlots) \ {c}
    BY <1>1, <1>2 DEF Below
  <1>7. c \in Below(SectorSlots)
    BY <1>2 DEF Below
  <1> QED
    BY <1>1, <1>4, <1>5, <1>6, <1>7

(* Deleting an entry between operations keeps table and flash in step.        *)
LEMMA DeleteIndexFacts ==
    ASSUME TypeOK, Frontier, cfgIdx < SectorSlots, cfgIdx' = cfgIdx,
           Mirrors(1, SectorSlots), Cardinality(Below(SectorSlots)) = Len(tbl),
           NEW i \in 1 .. Len(tbl), DeleteIndex(i)
    PROVE  /\ flash' \in [Slots -> Area] /\ tbl' \in Seq(Entry)
           /\ Len(tbl') = Len(tbl) - 1 /\ Len(tbl) \in 1 .. MaxNum
           /\ Frontier' /\ LogShape' /\ Capacity' /\ Mirrors(1, SectorSlots)'
           /\ Cardinality(Below(SectorSlots)') = Len(tbl')
  <1> USE BondAssumption
  <1> DEFINE c == tbl[i].slot
  <1>0. flash' = WriteErased(c) /\ tbl' = Without(i) /\ Len(tbl) \in 1 .. MaxNum
    BY DEF DeleteIndex, TypeOK
  <1>1. c \in Slots /\ c < SectorSlots /\ flash[c].mark = "bond"
    BY EntryFacts DEF Mirrors
  <1>2. /\ Frontier' /\ LogShape' /\ flash' \in [Slots -> Area]
        /\ Below(SectorSlots)' = Below(SectorSlots) \ {c}
        /\ c \in Below(SectorSlots)
    BY <1>0, <1>1, EraseSettled
  <1>3. /\ tbl' \in Seq(Entry) /\ Len(tbl') = Len(tbl) - 1
        /\ \A j \in 1 .. Len(tbl) - 1 : tbl'[j] = IF j < i THEN tbl[j] ELSE tbl[j + 1]
    BY <1>0, WithoutType DEF TypeOK
  <1>4. Cardinality(Below(SectorSlots)') = Len(tbl')
    <2>1. Cardinality(Below(SectorSlots)') = Cardinality(Below(SectorSlots)) - 1
      BY <1>2, CardRemove
    <2> QED
      BY <1>3, <2>1
  <1>5. Capacity'
    BY <1>0, <1>3, <1>4 DEF Capacity
  <1>6. ASSUME NEW j \in 1 .. Len(tbl')
        PROVE  \E k \in 1 .. Len(tbl) :
                  /\ k # i /\ tbl'[j] = tbl[k] /\ k = (IF j < i THEN j ELSE j + 1)
    <2>1. CASE j < i
      BY <1>0, <1>3, <2>1
    <2>2. CASE ~(j < i)
      <3>1. j + 1 \in 1 .. Len(tbl) /\ j + 1 # i /\ tbl'[j] = tbl[j + 1]
        BY <1>0, <1>3, <2>2
      <3> QED
        BY <2>2, <3>1
    <2> QED
      BY <2>1, <2>2
  <1>7. Ascending'
    <2> SUFFICES ASSUME NEW j \in 1 .. Len(tbl'), NEW l \in 1 .. Len(tbl'), j < l
                 PROVE  tbl'[j].slot < tbl'[l].slot
      BY DEF Ascending
    <2>1. PICK a \in 1 .. Len(tbl) : tbl'[j] = tbl[a] /\ a = (IF j < i THEN j ELSE j + 1)
      BY <1>6
    <2>2. PICK b \in 1 .. Len(tbl) : tbl'[l] = tbl[b] /\ b = (IF l < i THEN l ELSE l + 1)
      BY <1>6
    <2>3. a < b
      BY <1>0, <1>3, <2>1, <2>2
    <2> QED
      BY <2>1, <2>2, <2>3 DEF Mirrors, Ascending
  <1>8. ASSUME NEW j \in 1 .. Len(tbl')
        PROVE  /\ tbl'[j].slot < SectorSlots
               /\ flash'[tbl'[j].slot].mark = "bond"
               /\ flash'[tbl'[j].slot].dev = tbl'[j].dev
    <2>1. PICK k \in 1 .. Len(tbl) : k # i /\ tbl'[j] = tbl[k]
      BY <1>6
    <2>2. tbl[k].slot # c /\ tbl[k].slot \in Slots
      <3>1. k < i \/ i < k
        BY <1>0, <2>1
      <3>2. k < i => tbl[k].slot < c
        BY DEF Mirrors, Ascending
      <3>3. i < k => c < tbl[k].slot
        BY DEF Mirrors, Ascending
      <3>4. tbl[k].slot \in Nat /\ tbl[k].slot \in Slots /\ c \in Nat
        BY EntryFacts
      <3> QED
        BY <3>1, <3>2, <3>3, <3>4
    <2>3. /\ tbl[k].slot < SectorSlots /\ flash[tbl[k].slot].mark = "bond"
          /\ flash[tbl[k].slot].dev = tbl[k].dev
      BY DEF Mirrors
    <2>4. flash'[tbl[k].slot] = flash[tbl[k].slot]
      BY <1>0, <1>1, <2>2, EraseFacts
    <2> QED
      BY <2>1, <2>3, <2>4
  <1>9. ASSUME NEW s \in Below(SectorSlots)'
        PROVE  \E j \in 1 .. Len(tbl') : tbl'[j].slot = s
    <2>1. s \in Below(SectorSlots) /\ s # c
      BY <1>2
    <2>2. PICK k \in 1 .. Len(tbl) : tbl[k].slot = s
      BY <2>1 DEF Mirrors
    <2>3. CASE k < i
      <3>1. k \in 1 .. Len(tbl') /\ tbl'[k] = tbl[k]
        BY <1>0, <1>3, <2>3
      <3> QED
        BY <2>2, <3>1
    <2>4. CASE i < k
      <3>1. k - 1 \in 1 .. Len(tbl') /\ ~(k - 1 < i) /\ k - 1 \in 1 .. Len(tbl) - 1
        BY <1>0, <1>3, <2>4
      <3>2. tbl'[k - 1] = tbl[(k - 1) + 1] /\ (k - 1) + 1 = k
        BY <1>3, <3>1
      <3> QED
        BY <2>2, <3>1, <3>2
    <2>5. k # i
      BY <2>1, <2>2
    <2> QED
      BY <1>0, <2>3, <2>4, <2>5
  <1>10. Mirrors(1, SectorSlots)'
    BY <1>7, <1>8, <1>9 DEF Mirrors
  <1> QED
    BY <1>0, <1>2, <1>3, <1>4, <1>5, <1>10

LEMMA DeleteByAdrInd == \A d \in Device : IndInv /\ DeleteByAdr(d) => IndInv'
  <1> SUFFICES ASSUME NEW d \in Device, IndInv, DeleteByAdr(d) PROVE IndInv'
    OBVIOUS
  <1> USE BondAssumption
  <1>0. /\ TypeOK /\ InvSettled /\ InvBudget /\ pc = "ready" /\ pc' = "ready"
        /\ cfgIdx' = cfgIdx /\ n' = n /\ arg' = arg /\ adds' = adds
    BY DEF IndInv, DeleteByAdr
  <1>1. PICK i \in 1 .. Len(tbl) : DeleteIndex(i)
    BY DEF DeleteByAdr, Matches
  <1>2. /\ cfgIdx < SectorSlots /\ Frontier /\ Mirrors(1, SectorSlots)
        /\ Cardinality(Below(SectorSlots)) = Len(tbl)
    BY <1>0 DEF InvSettled
  <1>3. /\ flash' \in [Slots -> Area] /\ tbl' \in Seq(Entry)
        /\ Len(tbl') = Len(tbl) - 1 /\ Len(tbl) \in 1 .. MaxNum
        /\ Frontier' /\ LogShape' /\ Capacity' /\ Mirrors(1, SectorSlots)'
        /\ Cardinality(Below(SectorSlots)') = Len(tbl')
    BY <1>0, <1>1, <1>2, DeleteIndexFacts
  <1>4. TypeOK'
    BY <1>0, <1>3 DEF TypeOK
  <1>5. InvSettled'
    BY <1>0, <1>2, <1>3 DEF InvSettled
  <1>6. InvBudget'
    BY <1>0 DEF InvBudget
  <1>7. BootAccepts' /\ InvScan' /\ InvRewrite' /\ InvWipe'
    BY <1>0 DEF BootAccepts, InvScan, InvRewrite, InvWipe
  <1> QED
    BY <1>3, <1>4, <1>5, <1>6, <1>7 DEF IndInv

LEMMA AddInd == \A d \in Device : IndInv /\ Add(d) => IndInv'
  <1> SUFFICES ASSUME NEW d \in Device, IndInv, Add(d) PROVE IndInv'
    OBVIOUS
  <1> USE BondAssumption
  <1>0. /\ TypeOK /\ LogShape /\ Capacity /\ InvSettled /\ InvBudget
        /\ pc = "ready" /\ pc' = "store"
        /\ cfgIdx' = cfgIdx /\ n' = n /\ arg' = d /\ adds' = adds + 1 /\ adds < MaxAdds
    BY DEF IndInv, Add
  <1>1. /\ cfgIdx < SectorSlots /\ Frontier /\ Mirrors(1, SectorSlots)
        /\ Cardinality(Below(SectorSlots)) = Len(tbl)
    BY <1>0 DEF InvSettled
  <1>2. /\ flash' \in [Slots -> Area] /\ tbl' \in Seq(Entry) /\ Len(tbl') < MaxNum
        /\ Frontier' /\ LogShape' /\ Capacity' /\ Mirrors(1, SectorSlots)'
        /\ Cardinality(Below(SectorSlots)') = Len(tbl')
    <2>1. CASE Len(tbl) >= MaxNum
      <3>1. DeleteIndex(1)
        BY <2>1 DEF Add
      <3>2. 1 \in 1 .. Len(tbl)
        BY <1>0, <2>1, EntryFacts
      <3> QED
        BY <1>0, <1>1, <3>1, <3>2, DeleteIndexFacts
    <2>2. CASE ~(Len(tbl) >= MaxNum)
      <3>1. flash' = flash /\ tbl' = tbl
        BY <2>2 DEF Add
      <3>2. Len(tbl) < MaxNum
        BY <1>0, <2>2, EntryFacts
      <3>3. LogShape' /\ Capacity' /\ Frontier' /\ Mirrors(1, SectorSlots)'
        BY <1>0, <1>1, <3>1 DEF LogShape, Capacity, Frontier, Mirrors, Ascending, Below
      <3>4. Below(SectorSlots)' = Below(SectorSlots)
        BY <3>1 DEF Below
      <3> QED
        BY <1>0, <1>1, <3>1, <3>2, <3>3, <3>4 DEF TypeOK
    <2> QED
      BY <2>1, <2>2
  <1>3. TypeOK'
    BY <1>0, <1>2 DEF TypeOK
  <1>4. InvSettled'
    BY <1>0, <1>1, <1>2 DEF InvSettled
  <1>5. InvBudget'
    <2>1. cfgIdx' + 2 <= CleanSlot + adds'
      BY <1>0 DEF InvBudget, TypeOK
    <2> QED
      BY <1>0, <1>2, <2>1 DEF InvBudget
  <1>6. BootAccepts' /\ InvScan' /\ InvRewrite' /\ InvWipe'
    BY <1>0 DEF BootAccepts, InvScan, InvRewrite, InvWipe
  <1> QED
    BY <1>2, <1>3, <1>4, <1>5, <1>6 DEF IndInv

LEMMA AddStoreInd ==
    ASSUME PairingBudget, IndInv, AddStore
    PROVE  IndInv'
  <1> USE BondAssumption
  <1> DEFINE c == cfgIdx + 1
             e == [dev |-> arg, slot |-> c]
  <1>0. /\ TypeOK /\ InvSettled /\ InvBudget /\ pc = "store" /\ pc' = "ready"
        /\ cfgIdx' = c /\ flash' = WriteRecord(c, arg) /\ tbl' = Append(tbl, e)
        /\ arg' = NoDevice /\ n' = n /\ adds' = adds
    BY DEF IndInv, AddStore, StoreRecord
  <1>1. /\ cfgIdx < SectorSlots /\ Frontier /\ Mirrors(1, SectorSlots)
        /\ Cardinality(Below(SectorSlots)) = Len(tbl)
    BY <1>0 DEF InvSettled
  <1>2. /\ c \in 0 .. SectorSlots - 1 /\ c \in Slots /\ c \in Int
        /\ c + 1 <= CleanSlot + adds
    BY <1>0 DEF InvBudget, PairingBudget, TypeOK, Slots
  <1>3. flash[c].mark = "free" /\ arg \in Device
    BY <1>0, <1>1, <1>2 DEF Frontier, TypeOK
  <1>4. e \in Entry /\ Len(tbl) \in Nat /\ Len(tbl) < MaxNum
    BY <1>0, <1>2, <1>3, EntryFacts DEF Entry, InvBudget
  <1>5. /\ flash' \in [Slots -> Area]
        /\ flash'[c].mark = "bond" /\ flash'[c].dev = arg
        /\ \A s \in Slots : s # c => flash'[s] = flash[s]
    BY <1>0, <1>2, <1>3, WriteFacts
  <1>6. /\ tbl' \in Seq(Entry) /\ Len(tbl') = Len(tbl) + 1
        /\ \A i \in 1 .. Len(tbl) : tbl'[i] = tbl[i]
        /\ tbl'[Len(tbl) + 1].slot = c /\ tbl'[Len(tbl) + 1].dev = arg
    <2>1. tbl \in Seq(Entry)
      BY <1>0 DEF TypeOK
    <2>2. /\ tbl' \in Seq(Entry) /\ Len(tbl') = Len(tbl) + 1
          /\ \A i \in 1 .. Len(tbl) : tbl'[i] = tbl[i]
          /\ tbl'[Len(tbl) + 1] = e
      <3> HIDE DEF e
      <3> QED
        BY <1>0, <1>4, <2>1
    <2> QED
      BY <2>2
  <1> HIDE DEF e, c
  <1>7. TypeOK'
    BY <1>0, <1>2, <1>4, <1>5, <1>6 DEF TypeOK
  <1>8. \A s \in Slots : flash'[s].mark = "free" <=> s > c
    <2>1. ASSUME NEW s \in Slots PROVE flash'[s].mark = "free" <=> s > c
      <3>1. s \in Int /\ (flash[s].mark = "free" <=> s > c - 1)
        BY <1>0, <1>1 DEF Frontier, Slots, c, TypeOK
      <3>2. CASE s = c
        BY <1>2, <1>5, <3>2
      <3>3. CASE s # c
        BY <1>2, <1>5, <3>1, <3>3
      <3> QED
        BY <3>2, <3>3
    <2> QED
      BY <2>1
  <1>9. Frontier' /\ LogShape'
    <2>1. Frontier'
      BY <1>0, <1>8 DEF Frontier
    <2>2. LogShape'
      BY <1>2, <1>8, FrontierShape DEF LogShape
    <2> QED
      BY <2>1, <2>2
  <1>10. /\ Below(SectorSlots)' = Below(SectorSlots) \cup {c}
         /\ c \notin Below(SectorSlots)
    <2>1. \A s \in 0 .. SectorSlots - 1 : s \in Slots
      BY DEF Slots
    <2> QED
      BY <1>2, <1>3, <1>5, <2>1 DEF Below
  <1>11. Cardinality(Below(SectorSlots)') = Len(tbl')
    <2>1. Cardinality(Below(SectorSlots)') = Cardinality(Below(SectorSlots)) + 1
      BY <1>10, CardAdd
    <2> QED
      BY <1>1, <1>6, <2>1
  <1>12. Capacity'
    BY <1>4, <1>6, <1>11 DEF Capacity
  <1>13. ASSUME NEW i \in 1 .. Len(tbl)
         PROVE  /\ tbl[i].slot < c /\ flash'[tbl[i].slot] = flash[tbl[i].slot]
                /\ flash[tbl[i].slot].mark = "bond" /\ flash[tbl[i].slot].dev = tbl[i].dev
    <2>1. flash[tbl[i].slot].mark = "bond" /\ flash[tbl[i].slot].dev = tbl[i].dev
      BY <1>1 DEF Mirrors
    <2>2. tbl[i].slot \in Slots /\ tbl[i].slot \in Nat
      BY <1>0, EntryFacts
    <2>3. ~(tbl[i].slot > cfgIdx)
      BY <1>1, <2>1, <2>2 DEF Frontier
    <2>4. tbl[i].slot < c
      BY <1>0, <2>2, <2>3 DEF c, TypeOK
    <2> QED
      BY <1>2, <1>5, <2>1, <2>2, <2>4
  <1>14. ASSUME NEW i \in 1 .. Len(tbl')
         PROVE  /\ tbl'[i].slot < SectorSlots
                /\ flash'[tbl'[i].slot].mark = "bond"
                /\ flash'[tbl'[i].slot].dev = tbl'[i].dev
    <2>1. CASE i = Len(tbl) + 1
      BY <1>2, <1>5, <1>6, <2>1
    <2>2. CASE i \in 1 .. Len(tbl)
      <3>1. tbl'[i] = tbl[i] /\ tbl[i].slot < SectorSlots
        BY <1>1, <1>6, <2>2 DEF Mirrors
      <3> QED
        BY <1>13, <2>2, <3>1
    <2> QED
      BY <1>4, <1>6, <2>1, <2>2
  <1>15. Ascending'
    <2> SUFFICES ASSUME NEW i \in 1 .. Len(tbl'), NEW j \in 1 .. Len(tbl'), i < j
                 PROVE  tbl'[i].slot < tbl'[j].slot
      BY DEF Ascending
    <2>1. i \in 1 .. Len(tbl)
      BY <1>4, <1>6
    <2>2. CASE j = Len(tbl) + 1
      BY <1>6, <1>13, <2>1, <2>2
    <2>3. CASE j \in 1 .. Len(tbl)
      BY <1>1, <1>6, <2>1, <2>3 DEF Mirrors, Ascending
    <2> QED
      BY <1>4, <1>6, <2>2, <2>3
  <1>16. ASSUME NEW s \in Below(SectorSlots)'
         PROVE  \E i \in 1 .. Len(tbl') : tbl'[i].slot = s
    <2>1. CASE s = c
      <3>1. Len(tbl) + 1 \in 1 .. Len(tbl')
        BY <1>4, <1>6
      <3> QED
        BY <1>6, <2>1, <3>1
    <2>2. CASE s \in Below(SectorSlots)
      <3>1. PICK i \in 1 .. Len(tbl) : tbl[i].slot = s
        BY <1>1, <2>2 DEF Mirrors
      <3>2. i \in 1 .. Len(tbl') /\ tbl'[i] = tbl[i]
        BY <1>4, <1>6
      <3> QED
        BY <3>1, <3>2
    <2> QED
      BY <1>10, <2>1, <2>2
  <1>17. Mirrors(1, SectorSlots)'
    BY <1>14, <1>15, <1>16 DEF Mirrors
  <1>18. InvSettled'
    <2>1. cfgIdx' < SectorSlots
      BY <1>0, <1>2
    <2> QED
      BY <1>9, <1>11, <1>17, <2>1 DEF InvSettled
  <1>19. InvBudget'
    BY <1>0, <1>2 DEF InvBudget
  <1>20. BootAccepts' /\ InvScan' /\ InvRewrite' /\ InvWipe'
    BY <1>0 DEF BootAccepts, InvScan, InvRewrite, InvWipe
  <1> QED
    BY <1>7, <1>9, <1>12, <1>18, <1>19, <1>20 DEF IndInv

LEMMA DeleteAllInd == IndInv /\ DeleteAll => IndInv'
  <1> SUFFICES ASSUME IndInv, DeleteAll PROVE IndInv'
    OBVIOUS
  <1> USE BondAssumption
  <1>0. /\ TypeOK /\ LogShape /\ Capacity /\ InvSettled /\ InvBudget
        /\ pc = "ready" /\ pc' = "wipe" /\ n' = 0 /\ flash' = flash /\ tbl' = tbl
        /\ cfgIdx' = cfgIdx /\ arg' = arg /\ adds' = adds
    BY DEF IndInv, DeleteAll
  <1>1. /\ cfgIdx < SectorSlots /\ Frontier /\ Mirrors(1, SectorSlots)
    BY <1>0 DEF InvSettled
  <1>2. TypeOK'
    BY <1>0 DEF TypeOK
  <1>3. LogShape' /\ Capacity' /\ Frontier'
    BY <1>0, <1>1 DEF LogShape, Capacity, Frontier, Below
  <1>4. Mirrors(n + 1, SectorSlots)'
    <2>1. n' + 1 = 1
      BY <1>0
    <2> QED
      BY <1>0, <1>1, <2>1 DEF Mirrors, Ascending, Below
  <1>5. \A i \in 1 .. Len(tbl) : tbl[i].slot <= cfgIdx
    <2>1. \A i \in 1 .. Len(tbl) : ~(tbl[i].slot > cfgIdx) /\ tbl[i].slot \in Nat
      BY <1>0, <1>1, EntryFacts DEF Mirrors, Frontier
    <2> QED
      BY <1>0, <2>1 DEF TypeOK
  <1>6. InvWipe'
    BY <1>0, <1>1, <1>3, <1>4, <1>5, EntryFacts DEF InvWipe
  <1>7. InvBudget'
    BY <1>0 DEF InvBudget
  <1>8. BootAccepts' /\ InvScan' /\ InvRewrite' /\ InvSettled'
    BY <1>0 DEF BootAccepts, InvScan, InvRewrite, InvSettled
  <1> QED
    BY <1>2, <1>3, <1>6, <1>7, <1>8 DEF IndInv

LEMMA DeleteAllMarkInd == IndInv /\ DeleteAllMark => IndInv'
  <1> SUFFICES ASSUME IndInv, DeleteAllMark PROVE IndInv'
    OBVIOUS
  <1> USE BondAssumption
  <1> DEFINE k == n + 1
             c == tbl[k].slot
  <1>0. /\ TypeOK /\ Capacity /\ InvWipe /\ InvBudget
        /\ pc = "wipe" /\ pc' = "wipe" /\ n < Len(tbl) /\ n' = k
        /\ flash' = WriteErased(c) /\ tbl' = [tbl EXCEPT ![k].dev = NoDevice]
        /\ cfgIdx' = cfgIdx /\ arg' = arg /\ adds' = adds
    BY DEF IndInv, DeleteAllMark
  <1>1. /\ cfgIdx < SectorSlots /\ Frontier /\ Mirrors(k, SectorSlots)
        /\ \A i \in 1 .. Len(tbl) : tbl[i].slot <= cfgIdx
    BY <1>0 DEF InvWipe
  <1>2. /\ k \in 1 .. Len(tbl) /\ k \in k .. Len(tbl) /\ Len(tbl) \in 0 .. MaxNum
        /\ n \in Nat /\ tbl \in Seq(Entry) /\ k = n + 1
    BY <1>0, EntryFacts DEF TypeOK
  <1> HIDE DEF k
  <1>3. c \in Slots /\ c < SectorSlots /\ flash[c].mark = "bond"
    BY <1>0, <1>1, <1>2, EntryFacts DEF Mirrors
  <1> HIDE DEF c
  <1>4. /\ Frontier' /\ LogShape' /\ flash' \in [Slots -> Area]
        /\ Below(SectorSlots)' = Below(SectorSlots) \ {c}
        /\ c \in Below(SectorSlots)
    BY <1>0, <1>1, <1>3, EraseSettled
  <1>5. /\ tbl' \in Seq(Entry) /\ Len(tbl') = Len(tbl)
        /\ \A j \in 1 .. Len(tbl) : tbl'[j].slot = tbl[j].slot
        /\ \A j \in 1 .. Len(tbl) : j # k => tbl'[j] = tbl[j]
    <2>1. /\ tbl' \in Seq(Entry) /\ Len(tbl') = Len(tbl)
          /\ \A j \in 1 .. Len(tbl) :
                tbl'[j] = IF j = k THEN [dev |-> NoDevice, slot |-> tbl[k].slot] ELSE tbl[j]
      BY <1>0, <1>2, RedevType, Zenon
    <2> QED
      BY <2>1
  <1>6. TypeOK'
    BY <1>0, <1>2, <1>4, <1>5 DEF TypeOK
  <1>7. Capacity'
    <2>1. Cardinality(Below(SectorSlots)') = Cardinality(Below(SectorSlots)) - 1
      BY <1>4, CardRemove
    <2>2. Cardinality(Below(SectorSlots)) \in Nat
      BY BelowFinite
    <2> QED
      BY <1>0, <2>1, <2>2 DEF Capacity
  <1>8. Ascending'
    <2>1. Ascending
      BY <1>1 DEF Mirrors
    <2> QED
      BY <1>5, <2>1 DEF Ascending
  <1>9. ASSUME NEW i \in k + 1 .. Len(tbl)
        PROVE  /\ tbl'[i].slot < SectorSlots
               /\ flash'[tbl'[i].slot].mark = "bond"
               /\ flash'[tbl'[i].slot].dev = tbl'[i].dev
    <2>1. i \in 1 .. Len(tbl) /\ i \in k .. Len(tbl) /\ k < i /\ i # k
      BY <1>2
    <2>2. /\ tbl[i].slot < SectorSlots
          /\ flash[tbl[i].slot].mark = "bond" /\ flash[tbl[i].slot].dev = tbl[i].dev
      BY <1>1, <2>1 DEF Mirrors
    <2>3. c < tbl[i].slot
      BY <1>1, <1>2, <2>1 DEF Mirrors, Ascending, c
    <2>4. tbl[i].slot \in Slots /\ tbl[i].slot \in Nat /\ c \in Nat
      BY <1>0, <1>2, <2>1, EntryFacts DEF c
    <2>5. flash'[tbl[i].slot] = flash[tbl[i].slot]
      BY <1>0, <1>3, <2>3, <2>4, EraseFacts
    <2>6. tbl'[i] = tbl[i]
      BY <1>5, <2>1
    <2> QED
      BY <2>2, <2>5, <2>6
  <1>10. ASSUME NEW s \in Below(SectorSlots)'
         PROVE  \E i \in k + 1 .. Len(tbl) : tbl'[i].slot = s
    <2>1. s \in Below(SectorSlots) /\ s # c
      BY <1>4
    <2>2. PICK i \in k .. Len(tbl) : tbl[i].slot = s
      BY <1>1, <2>1 DEF Mirrors
    <2>3. i # k
      BY <2>1, <2>2 DEF c
    <2>4. i \in k + 1 .. Len(tbl) /\ i \in 1 .. Len(tbl)
      BY <1>2, <2>3
    <2> QED
      BY <1>5, <2>2, <2>4
  <1>11. Mirrors(n + 1, SectorSlots)'
    <2>1. n' + 1 = k + 1 /\ Len(tbl') = Len(tbl)
      BY <1>0, <1>5
    <2> QED
      BY <1>8, <1>9, <1>10, <2>1 DEF Mirrors
  <1>12. InvWipe'
    <2>1. n' <= Len(tbl') /\ cfgIdx' < SectorSlots
      BY <1>0, <1>1, <1>2, <1>5
    <2>2. \A i \in 1 .. Len(tbl') : tbl'[i].slot <= cfgIdx'
      BY <1>0, <1>1, <1>5
    <2> QED
      BY <1>4, <1>11, <2>1, <2>2 DEF InvWipe
  <1>13. InvBudget'
    BY <1>0 DEF InvBudget
  <1>14. BootAccepts' /\ InvScan' /\ InvRewrite' /\ InvSettled'
    BY <1>0 DEF BootAccepts, InvScan, InvRewrite, InvSettled
  <1> QED
    BY <1>4, <1>6, <1>7, <1>12, <1>13, <1>14 DEF IndInv

LEMMA DeleteAllEndInd == IndInv /\ DeleteAllEnd => IndInv'
  <1> SUFFICES ASSUME IndInv, DeleteAllEnd PROVE IndInv'
    OBVIOUS
  <1> USE BondAssumption
  <1>0. /\ TypeOK /\ LogShape /\ Capacity /\ InvWipe /\ InvBudget
        /\ pc = "wipe" /\ pc' = "ready" /\ n >= Len(tbl) /\ n' = 0
        /\ flash' = flash /\ tbl' = <<>>
        /\ cfgIdx' = cfgIdx /\ arg' = arg /\ adds' = adds
    BY DEF IndInv, DeleteAllEnd
  <1>1. /\ cfgIdx < SectorSlots /\ Frontier /\ Mirrors(n + 1, SectorSlots)
        /\ n = Len(tbl) /\ Len(tbl) \in Nat
    BY <1>0, EntryFacts DEF InvWipe, TypeOK
  <1>2. Below(SectorSlots) = {}
    <2>1. n + 1 .. Len(tbl) = {}
      BY <1>1
    <2> QED
      BY <1>1, <2>1 DEF Mirrors
  <1>3. TypeOK'
    BY <1>0 DEF TypeOK
  <1>4. LogShape' /\ Capacity' /\ Frontier'
    BY <1>0, <1>1 DEF LogShape, Capacity, Frontier, Below
  <1>5. Below(SectorSlots)' = {} /\ Len(tbl') = 0
    BY <1>0, <1>2 DEF Below
  <1>6. Cardinality(Below(SectorSlots)') = Len(tbl')
    BY <1>5, FS_EmptySet
  <1>7. Mirrors(1, SectorSlots)'
    BY <1>0, <1>5 DEF Mirrors, Ascending
  <1>8. InvSettled'
    BY <1>0, <1>1, <1>4, <1>6, <1>7 DEF InvSettled
  <1>9. InvBudget'
    BY <1>0 DEF InvBudget
  <1>10. BootAccepts' /\ InvScan' /\ InvRewrite' /\ InvWipe'
    BY <1>0 DEF BootAccepts, InvScan, InvRewrite, InvWipe
  <1> QED
    BY <1>3, <1>4, <1>8, <1>9, <1>10 DEF IndInv

LEMMA StutterInd == IndInv /\ UNCHANGED vars => IndInv'
  BY DEF IndInv, vars, TypeOK, BootAccepts, LogShape, Capacity, InvScan, InvSettled,
         InvBudget, InvRewrite, InvWipe, Below, Mirrors, Ascending, Frontier

LEMMA NextInd ==
    ASSUME PairingBudget, IndInv, [Next]_vars
    PROVE  IndInv'
  <1>1. CASE Boot
    BY <1>1, ScanAreaInd, ScanEndInd, CleanEraseInd, CleanRewriteInd, CleanEndInd DEF Boot
  <1>2. CASE Finish
    BY <1>2, AddStoreInd, DeleteAllMarkInd, DeleteAllEndInd DEF Finish
  <1>3. CASE DeleteAll
    BY <1>3, DeleteAllInd
  <1>4. CASE PowerLoss
    BY <1>4, PowerLossInd
  <1>5. ASSUME NEW d \in Device, Add(d) \/ DeleteByAdr(d) PROVE IndInv'
    BY <1>5, AddInd, DeleteByAdrInd
  <1>6. CASE UNCHANGED vars
    BY <1>6, StutterInd
  <1> QED
    BY <1>1, <1>2, <1>3, <1>4, <1>5, <1>6 DEF Next

-----------------------------------------------------------------------------
(* The inductive invariant holds at every step, as long as one power cycle    *)
(* has no more pairings than the sector has room for (PairingBudget).         *)
THEOREM Inductive == PairingBudget => (Spec => []IndInv)
  <1> SUFFICES ASSUME PairingBudget PROVE Spec => []IndInv
    OBVIOUS
  <1>1. IndInv /\ [Next]_vars => IndInv'
    BY NextInd
  <1> QED
    BY <1>1, InitInd, PTL DEF Spec

(* Types: in particular the RAM table never holds more than                   *)
(* USER_PAIR_SLAVE_MAX_NUM entries.                                           *)
THEOREM TypeCorrect == PairingBudget => (Spec => []TypeOK)
  <1>1. IndInv => TypeOK
    BY DEF IndInv
  <1> QED
    BY <1>1, Inductive, PTL

(* The trap in the power-on traversal of flash_init is never reached.         *)
THEOREM BootNeverTraps == PairingBudget => (Spec => []BootAccepts)
  <1>1. IndInv => BootAccepts
    BY DEF IndInv
  <1> QED
    BY <1>1, Inductive, PTL

(* Records stay inside the sector that power-on scans and erases.             *)
THEOREM StaysInSector == PairingBudget => (Spec => []InSector)
  <1>1. IndInv => InSector
    <2> SUFFICES ASSUME IndInv, pc # "scan" PROVE cfgIdx < SectorSlots
      BY DEF InSector
    <2>1. CASE pc = "rewrite"
      BY <2>1, BondAssumption DEF IndInv, InvRewrite, TypeOK
    <2>2. CASE pc \in {"ready", "store", "erase"}
      BY <2>2 DEF IndInv, InvSettled
    <2>3. CASE pc = "wipe"
      BY <2>3 DEF IndInv, InvWipe
    <2> QED
      BY <2>1, <2>2, <2>3 DEF IndInv, BootAccepts, TypeOK
  <1> QED
    BY <1>1, Inductive, PTL

(* Between operations the RAM table is what the next power-on would load.     *)
THEOREM TableIsDurable == PairingBudget => (Spec => []Durable)
  <1>1. IndInv => Durable
    <2> SUFFICES ASSUME IndInv, pc = "ready"
                 PROVE  /\ Ascending
                        /\ BondAreas = {tbl[i].slot : i \in 1 .. Len(tbl)}
                        /\ \A i \in 1 .. Len(tbl) : flash[tbl[i].slot].dev = tbl[i].dev
                        /\ Frontier
      BY DEF Durable, Ascending, Frontier
    <2>1. Frontier /\ Mirrors(1, SectorSlots) /\ TypeOK
      BY DEF IndInv, InvSettled
    <2>2. ASSUME NEW i \in 1 .. Len(tbl) PROVE tbl[i].slot \in BondAreas
      BY <2>1, EntryFacts, BondAssumption DEF Mirrors, BondAreas
    <2>3. \A s \in BondAreas : \E i \in 1 .. Len(tbl) : tbl[i].slot = s
      BY <2>1 DEF Mirrors, BondAreas, Below
    <2> QED
      BY <2>1, <2>2, <2>3 DEF Mirrors
  <1> QED
    BY <1>1, Inductive, PTL

-----------------------------------------------------------------------------
(* One record for each slave needs more: the slave about to be stored has no  *)
(* entry, and the table being rewritten has no slave twice.                   *)
Distinct == \A i, j \in 1 .. Len(tbl) : tbl[i].dev = tbl[j].dev => i = j

OnceInv ==
    /\ OneRecordEach
    /\ pc = "store" => Matches(arg) = {}
    /\ pc = "rewrite" => Distinct

(* A step that adds no valid area adds no second record. *)
LEMMA NoNewRecord ==
    ASSUME OneRecordEach,
           \A s \in 0 .. SectorSlots - 1 :
              flash'[s].mark = "bond" => flash'[s] = flash[s]
    PROVE  OneRecordEach'
  BY DEF OneRecordEach, BondAreas

LEMMA OnceErase ==
    ASSUME TypeOK, OneRecordEach, NEW c \in Slots, flash' = WriteErased(c)
    PROVE  OneRecordEach'
  <1>1. /\ flash'[c].mark = "erased"
        /\ \A s \in Slots : s # c => flash'[s] = flash[s]
    BY EraseFacts
  <1>2. \A s \in 0 .. SectorSlots - 1 : s \in Slots
    BY BondAssumption DEF Slots
  <1> QED
    BY <1>1, <1>2, NoNewRecord

(* A new record is the only one of its slave if no valid area has it.         *)
LEMMA OnceWrite ==
    ASSUME TypeOK, OneRecordEach, NEW c \in Slots, NEW d \in Device \cup {NoDevice},
           flash[c].mark = "free", flash' = WriteRecord(c, d),
           \A s \in BondAreas : flash[s].dev # d
    PROVE  OneRecordEach'
  <1>1. /\ flash'[c].mark = "bond" /\ flash'[c].dev = d
        /\ \A s \in Slots : s # c => flash'[s] = flash[s]
    BY WriteFacts
  <1>2. \A s \in 0 .. SectorSlots - 1 : s \in Slots
    BY BondAssumption DEF Slots
  <1> SUFFICES ASSUME NEW s \in 0 .. SectorSlots - 1, NEW t \in 0 .. SectorSlots - 1,
                      flash'[s].mark = "bond", flash'[t].mark = "bond",
                      flash'[s].dev = flash'[t].dev
               PROVE  s = t
    BY DEF OneRecordEach, BondAreas
  <1>3. CASE s = c \/ t = c
    BY <1>1, <1>2, <1>3 DEF BondAreas
  <1>4. CASE s # c /\ t # c
    BY <1>1, <1>2, <1>4 DEF OneRecordEach, BondAreas
  <1> QED
    BY <1>3, <1>4

LEMMA OnceInit == Init => OnceInv
  <1>1. \A s \in 0 .. SectorSlots - 1 : s \in Slots
    BY BondAssumption DEF Slots
  <1> QED
    BY <1>1 DEF Init, OnceInv, OneRecordEach, BondAreas, Blank

LEMMA OnceNext ==
    ASSUME PairingBudget, IndInv, OnceInv, [Next]_vars
    PROVE  OnceInv'
  <1> USE BondAssumption
  <1>0. /\ TypeOK /\ OneRecordEach /\ \A s \in 0 .. SectorSlots - 1 : s \in Slots
    BY DEF IndInv, OnceInv, Slots
  <1>1. ASSUME flash' = flash, pc' # "store", pc' # "rewrite" PROVE OnceInv'
    BY <1>0, <1>1, NoNewRecord DEF OnceInv
  <1>2. CASE ScanArea
    BY <1>1, <1>2 DEF ScanArea
  <1>3. CASE ScanEnd
    BY <1>1, <1>3 DEF ScanEnd
  <1>4. CASE CleanErase
    <2>1. /\ flash' = [s \in Slots |-> IF s < SectorSlots THEN Blank ELSE flash[s]]
          /\ tbl' = tbl /\ pc = "erase" /\ pc' = "rewrite"
      BY <1>4 DEF CleanErase
    <2>2. \A s \in 0 .. SectorSlots - 1 : flash'[s].mark = "free"
      BY <1>0, <2>1 DEF Blank
    <2>3. OneRecordEach'
      BY <1>0, <2>2, NoNewRecord
    <2>4. Distinct
      <3> SUFFICES ASSUME NEW i \in 1 .. Len(tbl), NEW j \in 1 .. Len(tbl),
                          tbl[i].dev = tbl[j].dev
                   PROVE  i = j
        BY DEF Distinct
      <3>1. Mirrors(1, SectorSlots)
        BY <2>1 DEF IndInv, InvSettled
      <3>2. tbl[i].slot \in BondAreas /\ tbl[j].slot \in BondAreas
        BY <1>0, <3>1, EntryFacts DEF Mirrors, BondAreas
      <3>3. tbl[i].slot = tbl[j].slot
        BY <1>0, <3>1, <3>2 DEF Mirrors, OneRecordEach
      <3>4. ~(i < j) /\ ~(j < i)
        BY <1>0, <3>1, <3>3, EntryFacts DEF Mirrors, Ascending
      <3> QED
        BY <1>0, <3>4, EntryFacts
    <2> QED
      BY <2>1, <2>3, <2>4 DEF OnceInv, Distinct
  <1>5. CASE CleanRewrite
    <2> DEFINE k == n + 1
    <2>1. /\ pc = "rewrite" /\ pc' = "rewrite" /\ n < Len(tbl)
          /\ flash' = WriteRecord(cfgIdx + 1, tbl[k].dev)
          /\ tbl' = [tbl EXCEPT ![k].slot = cfgIdx + 1] /\ Distinct
      BY <1>5 DEF CleanRewrite, OnceInv
    <2>2. /\ cfgIdx = n - 1 /\ Frontier /\ n \in Nat /\ n < MaxNum /\ n \in Slots
          /\ k \in 1 .. Len(tbl) /\ Len(tbl) \in Nat /\ tbl \in Seq(Entry)
          /\ \A i \in 1 .. n :
                /\ tbl[i].slot = i - 1
                /\ flash[tbl[i].slot].dev = tbl[i].dev
      BY <2>1, EntryFacts DEF IndInv, InvRewrite, TypeOK, Slots
    <2>3. cfgIdx + 1 = n
      BY <2>2
    <2>4. flash' = WriteRecord(n, tbl[k].dev) /\ tbl' = [tbl EXCEPT ![k].slot = n]
      BY <2>1, <2>3
    <2>5. flash[n].mark = "free" /\ tbl[k].dev \in Device \cup {NoDevice}
      BY <1>0, <2>2, EntryFacts DEF Frontier, Entry
    <2>6. ASSUME NEW s \in BondAreas PROVE flash[s].dev # tbl[k].dev
      <3>1. s \in Slots /\ s \in Nat /\ flash[s].mark # "free"
        BY <1>0 DEF BondAreas
      <3>2. s < n
        BY <2>2, <3>1 DEF Frontier
      <3>3. s + 1 \in 1 .. n /\ s + 1 \in 1 .. Len(tbl) /\ s + 1 # k
        BY <2>2, <3>1, <3>2
      <3>4. tbl[s + 1].slot = s
        BY <2>2, <3>1, <3>3
      <3>5. flash[s].dev = tbl[s + 1].dev
        BY <2>2, <3>3, <3>4
      <3> QED
        BY <2>1, <2>2, <3>3, <3>5 DEF Distinct
    <2>7. OneRecordEach'
      BY <1>0, <2>2, <2>4, <2>5, <2>6, OnceWrite
    <2>8. Distinct'
      <3>0. /\ tbl \in Seq(Entry) /\ k \in 1 .. Len(tbl) /\ n \in Slots
            /\ tbl' = [tbl EXCEPT ![k].slot = n]
        BY <2>2, <2>4
      <3> HIDE DEF k
      <3>1. /\ Len(tbl') = Len(tbl)
            /\ \A j \in 1 .. Len(tbl) :
                  tbl'[j] = IF j = k THEN [dev |-> tbl[k].dev, slot |-> n] ELSE tbl[j]
        BY <3>0, ReslotType
      <3>2. \A j \in 1 .. Len(tbl) : tbl'[j].dev = tbl[j].dev
        BY <3>1
      <3> QED
        BY <2>1, <3>1, <3>2 DEF Distinct
    <2> QED
      BY <2>1, <2>7, <2>8 DEF OnceInv
  <1>6. CASE CleanEnd
    BY <1>1, <1>6 DEF CleanEnd
  <1>7. CASE AddStore
    <2>1. /\ pc = "store" /\ pc' = "ready" /\ flash' = WriteRecord(cfgIdx + 1, arg)
          /\ arg \in Device /\ Matches(arg) = {}
      BY <1>0, <1>7 DEF AddStore, StoreRecord, OnceInv, TypeOK
    <2>2. Frontier /\ Mirrors(1, SectorSlots) /\ cfgIdx + 1 \in Slots
      BY <1>0, <2>1 DEF IndInv, InvSettled, InvBudget, PairingBudget, TypeOK, Slots
    <2>3. flash[cfgIdx + 1].mark = "free"
      BY <1>0, <2>2 DEF Frontier, TypeOK
    <2>4. ASSUME NEW s \in BondAreas PROVE flash[s].dev # arg
      <3>1. PICK i \in 1 .. Len(tbl) : tbl[i].slot = s
        BY <2>2 DEF Mirrors, BondAreas, Below
      <3> QED
        BY <2>1, <2>2, <3>1 DEF Mirrors, Matches
    <2>5. OneRecordEach'
      BY <1>0, <2>1, <2>2, <2>3, <2>4, OnceWrite
    <2> QED
      BY <2>1, <2>5 DEF OnceInv
  <1>8. CASE DeleteAllMark
    <2>1. /\ pc' = "wipe" /\ flash' = WriteErased(tbl[n + 1].slot)
          /\ n + 1 \in 1 .. Len(tbl)
      BY <1>0, <1>8, EntryFacts DEF DeleteAllMark, TypeOK
    <2>2. tbl[n + 1].slot \in Slots
      BY <1>0, <2>1, EntryFacts
    <2>3. OneRecordEach'
      BY <1>0, <2>1, <2>2, OnceErase
    <2> QED
      BY <2>1, <2>3 DEF OnceInv
  <1>9. CASE DeleteAllEnd
    BY <1>1, <1>9 DEF DeleteAllEnd
  <1>10. CASE DeleteAll
    BY <1>1, <1>10 DEF DeleteAll
  <1>11. CASE PowerLoss
    BY <1>1, <1>11 DEF PowerLoss
  <1>12. ASSUME NEW d \in Device, Add(d) PROVE OnceInv'
    <2>1. pc' = "store" /\ arg' = d /\ Matches(d) = {}
      BY <1>12 DEF Add
    <2>2. CASE Len(tbl) >= MaxNum
      <3>1. DeleteIndex(1) /\ 1 \in 1 .. Len(tbl)
        BY <1>0, <1>12, <2>2, EntryFacts DEF Add
      <3>2. OneRecordEach'
        BY <1>0, <3>1, EntryFacts, OnceErase DEF DeleteIndex
      <3>3. /\ Len(tbl') = Len(tbl) - 1 /\ Len(tbl) \in Nat
            /\ \A j \in 1 .. Len(tbl) - 1 : tbl'[j] = IF j < 1 THEN tbl[j] ELSE tbl[j + 1]
        <4>1. tbl \in Seq(Entry) /\ Len(tbl) \in Nat /\ tbl' = Without(1)
          BY <1>0, <3>1, EntryFacts DEF DeleteIndex, TypeOK
        <4> QED
          BY <3>1, <4>1, WithoutType
      <3>4. \A j \in 1 .. Len(tbl') : j + 1 \in 1 .. Len(tbl) /\ tbl'[j] = tbl[j + 1]
        BY <3>3
      <3>5. \A j \in 1 .. Len(tbl') : tbl'[j].dev # d
        BY <2>1, <3>4 DEF Matches
      <3> QED
        BY <2>1, <3>2, <3>5 DEF OnceInv, Matches
    <2>3. CASE ~(Len(tbl) >= MaxNum)
      <3>1. flash' = flash /\ tbl' = tbl
        BY <1>12, <2>3 DEF Add
      <3>2. OneRecordEach'
        BY <1>0, <3>1, NoNewRecord
      <3> QED
        BY <2>1, <3>1, <3>2 DEF OnceInv, Matches
    <2> QED
      BY <2>2, <2>3
  <1>13. ASSUME NEW d \in Device, DeleteByAdr(d) PROVE OnceInv'
    <2>1. PICK i \in 1 .. Len(tbl) : DeleteIndex(i)
      BY <1>13 DEF DeleteByAdr, Matches
    <2>2. OneRecordEach'
      BY <1>0, <2>1, EntryFacts, OnceErase DEF DeleteIndex
    <2> QED
      BY <1>13, <2>2 DEF OnceInv, DeleteByAdr
  <1>14. CASE UNCHANGED vars
    BY <1>14 DEF vars, OnceInv, OneRecordEach, BondAreas, Matches, Distinct
  <1> QED
    BY <1>2, <1>3, <1>4, <1>5, <1>6, <1>7, <1>8, <1>9, <1>10, <1>11, <1>12, <1>13, <1>14
       DEF Next, Boot, Finish

(* No slave ever has two valid records in flash.                              *)
THEOREM NeverTwoRecords == PairingBudget => (Spec => []OneRecordEach)
  <1> SUFFICES ASSUME PairingBudget PROVE Spec => []OneRecordEach
    OBVIOUS
  <1>1. IndInv /\ OnceInv /\ [Next]_vars => OnceInv'
    BY OnceNext
  <1>2. OnceInv => OneRecordEach
    BY DEF OnceInv
  <1>3. Spec => []IndInv
    BY Inductive
  <1> QED
    BY <1>1, <1>2, <1>3, OnceInit, PTL DEF Spec

-----------------------------------------------------------------------------
(* One flash command of the working dongle. *)
OneCommand ==
    \E s \in Slots :
        /\ \A t \in Slots \ {s} : flash'[t] = flash[t]
        /\ <<flash[s].mark, flash'[s].mark>>
              \in {<<"free", "bond">>, <<"bond", "erased">>}

LEMMA EraseCommand ==
    ASSUME TypeOK, NEW c \in Slots, flash[c].mark = "bond", flash' = WriteErased(c)
    PROVE  OneCommand
  <1>1. flash'[c].mark = "erased" /\ \A s \in Slots : s # c => flash'[s] = flash[s]
    BY EraseFacts
  <1> QED
    BY <1>1 DEF OneCommand

LEMMA DeleteCommand ==
    ASSUME IndInv, pc = "ready", NEW i \in 1 .. Len(tbl), DeleteIndex(i)
    PROVE  OneCommand
  <1>1. TypeOK /\ Mirrors(1, SectorSlots) /\ flash' = WriteErased(tbl[i].slot)
    BY DEF IndInv, InvSettled, DeleteIndex
  <1>2. tbl[i].slot \in Slots /\ flash[tbl[i].slot].mark = "bond"
    BY <1>1, EntryFacts DEF Mirrors
  <1> QED
    BY <1>1, <1>2, EraseCommand

(* A working dongle never erases: each flash command of an operation turns a  *)
(* free area into a valid record or a valid record into a deleted one.        *)
THEOREM LogIsAppendOnly == PairingBudget => (Spec => LogDiscipline)
  <1> SUFFICES ASSUME PairingBudget PROVE Spec => LogDiscipline
    OBVIOUS
  <1> DEFINE Step == (pc \notin {"erase", "rewrite"} /\ flash' # flash) => OneCommand
  <1>1. IndInv /\ [Next]_vars => Step
    <2> SUFFICES ASSUME IndInv, Next, pc \notin {"erase", "rewrite"}, flash' # flash
                 PROVE  OneCommand
      BY DEF vars
    <2>0. TypeOK
      BY DEF IndInv
    <2>1. CASE AddStore
      <3>1. /\ pc = "store" /\ flash' = WriteRecord(cfgIdx + 1, arg) /\ arg \in Device
        BY <2>0, <2>1 DEF AddStore, StoreRecord, TypeOK
      <3>2. Frontier /\ cfgIdx + 1 \in Slots
        BY <2>0, <3>1, BondAssumption
           DEF IndInv, InvSettled, InvBudget, PairingBudget, TypeOK, Slots
      <3>3. flash[cfgIdx + 1].mark = "free"
        BY <2>0, <3>2 DEF Frontier, TypeOK
      <3>4. /\ flash'[cfgIdx + 1].mark = "bond"
            /\ \A s \in Slots : s # cfgIdx + 1 => flash'[s] = flash[s]
        BY <2>0, <3>1, <3>2, <3>3, WriteFacts
      <3> QED
        BY <3>2, <3>3, <3>4 DEF OneCommand
    <2>2. CASE DeleteAllMark
      <3>1. /\ pc = "wipe" /\ flash' = WriteErased(tbl[n + 1].slot)
            /\ n + 1 \in 1 .. Len(tbl) /\ n + 1 \in n + 1 .. Len(tbl)
        BY <2>0, <2>2, EntryFacts DEF DeleteAllMark, TypeOK
      <3>2. Mirrors(n + 1, SectorSlots)
        BY <3>1 DEF IndInv, InvWipe
      <3>3. tbl[n + 1].slot \in Slots /\ flash[tbl[n + 1].slot].mark = "bond"
        BY <2>0, <3>1, <3>2, EntryFacts DEF Mirrors
      <3> QED
        BY <2>0, <3>1, <3>3, EraseCommand
    <2>3. ASSUME NEW d \in Device, Add(d) PROVE OneCommand
      <3>1. Len(tbl) >= MaxNum /\ DeleteIndex(1) /\ pc = "ready"
        BY <2>3 DEF Add
      <3>2. 1 \in 1 .. Len(tbl)
        BY <2>0, <3>1, EntryFacts, BondAssumption
      <3> QED
        BY <3>1, <3>2, DeleteCommand
    <2>4. ASSUME NEW d \in Device, DeleteByAdr(d) PROVE OneCommand
      BY <2>4, DeleteCommand DEF DeleteByAdr, Matches
    <2>5. ~(ScanArea \/ ScanEnd \/ CleanErase \/ CleanRewrite \/ CleanEnd)
      BY DEF ScanArea, ScanEnd, CleanErase, CleanRewrite, CleanEnd
    <2>6. ~(DeleteAllEnd \/ DeleteAll \/ PowerLoss)
      BY DEF DeleteAllEnd, DeleteAll, PowerLoss
    <2> QED
      BY <2>1, <2>2, <2>3, <2>4, <2>5, <2>6 DEF Next, Boot, Finish
  <1>2. Spec => []IndInv
    BY Inductive
  <1>3. Step => ((pc \notin {"erase", "rewrite"} /\ flash' # flash) =>
                   \E s \in Slots :
                      /\ \A t \in Slots \ {s} : flash'[t] = flash[t]
                      /\ <<flash[s].mark, flash'[s].mark>>
                            \in {<<"free", "bond">>, <<"bond", "erased">>})
    BY DEF OneCommand
  <1> HIDE DEF Step
  <1> QED
    BY <1>1, <1>2, <1>3, PTL DEF Spec, LogDiscipline

-----------------------------------------------------------------------------
(* BondStore.  The list that a power-on would load numbers the valid areas    *)
(* from the lowest on; where the table mirrors them it is the table.          *)

(* e lists the numbers of S in ascending order. *)
Lists(e, len, S) ==
    /\ \A i \in 1 .. len : e[i] \in Int
    /\ \A i, j \in 1 .. len : i < j => e[i] < e[j]
    /\ \A x : x \in S <=> \E i \in 1 .. len : x = e[i]

LEMMA ListCount ==
    ASSUME NEW e, NEW len \in Nat, NEW S, Lists(e, len, S)
    PROVE  Cardinality(S) = len
  <1> DEFINE f == [j \in 1 .. len |-> e[j]]
  <1>1. f \in [1 .. len -> S] /\ \A j \in 1 .. len : f[j] = e[j]
    BY DEF Lists
  <1>2. \A i, j \in 1 .. len : e[i] = e[j] => i = j
    BY DEF Lists
  <1>3. \A x \in S : \E j \in 1 .. len : f[j] = x
    BY <1>1 DEF Lists
  <1> HIDE DEF f
  <1>4. f \in Injection(1 .. len, S)
    BY <1>1, <1>2 DEF Injection, IsInjective
  <1>5. f \in Surjection(1 .. len, S)
    BY <1>1, <1>3 DEF Surjection
  <1>6. ExistsBijection(1 .. len, S)
    BY <1>4, <1>5 DEF ExistsBijection, Bijection
  <1> QED
    BY <1>6, FS_CountingElements

LEMMA ListNth ==
    ASSUME NEW e, NEW len \in Nat, NEW S, Lists(e, len, S), NEW i \in 1 .. len
    PROVE  Nth(S, i) = e[i]
  <1>1. ASSUME NEW k \in 1 .. len PROVE Cardinality({t \in S : t <= e[k]}) = k
    <2>1. k \in Nat /\ 1 .. k \subseteq 1 .. len
      OBVIOUS
    <2>2. ASSUME NEW x PROVE x \in {t \in S : t <= e[k]} <=> \E j \in 1 .. k : x = e[j]
      <3>1. ASSUME x \in S, x <= e[k] PROVE \E j \in 1 .. k : x = e[j]
        <4>1. PICK j \in 1 .. len : x = e[j]
          BY <3>1 DEF Lists
        <4>2. j <= k
          BY <3>1, <4>1 DEF Lists
        <4> QED
          BY <4>1, <4>2
      <3>2. ASSUME NEW j \in 1 .. k, x = e[j] PROVE x \in S /\ x <= e[k]
        <4>1. j \in 1 .. len /\ (j = k \/ j < k)
          BY <2>1
        <4> QED
          BY <3>2, <4>1 DEF Lists
      <3> QED
        BY <3>1, <3>2
    <2>3. Lists(e, k, {t \in S : t <= e[k]})
      BY <2>1, <2>2 DEF Lists
    <2> QED
      BY <2>1, <2>3, ListCount
  <1>2. e[i] \in S /\ Cardinality({t \in S : t <= e[i]}) = i
    BY <1>1 DEF Lists
  <1>3. ASSUME NEW s \in S, Cardinality({t \in S : t <= s}) = i PROVE s = e[i]
    <2>1. PICK j \in 1 .. len : s = e[j]
      BY DEF Lists
    <2>2. j = i
      BY <1>1, <1>3, <2>1
    <2> QED
      BY <2>1, <2>2
  <1> QED
    BY <1>2, <1>3 DEF Nth

(* The entries of the table that delete all has not marked yet. *)
Gone == IF pc = "wipe" THEN n ELSE 0
Rest == [i \in 1 .. Len(tbl) - Gone |-> tbl[i + Gone].dev]

InRam == pc \in {"ready", "store", "erase", "wipe"}
Agrees == Bonds = Rest

LEMMA Listing == IndInv /\ InRam => Agrees
  <1> SUFFICES ASSUME IndInv, pc \in {"ready", "store", "erase", "wipe"} PROVE Bonds = Rest
    BY DEF InRam, Agrees
  <1>1. TypeOK /\ Mirrors(Gone + 1, SectorSlots) /\ Gone \in Nat /\ Gone <= Len(tbl)
    BY EntryFacts DEF IndInv, InvSettled, InvWipe, Gone, TypeOK
  <1>2. PICK len \in Nat : len = Len(tbl) - Gone
    BY <1>1, EntryFacts
  <1> DEFINE e == [i \in 1 .. len |-> tbl[i + Gone].slot]
  <1>3. /\ \A i \in 1 .. len : i + Gone \in Gone + 1 .. Len(tbl) /\ i + Gone \in 1 .. Len(tbl)
        /\ \A k \in Gone + 1 .. Len(tbl) : k - Gone \in 1 .. len /\ (k - Gone) + Gone = k
    BY <1>1, <1>2, EntryFacts
  <1>4. \A i \in 1 .. len : e[i] = tbl[i + Gone].slot
    OBVIOUS
  <1> HIDE DEF e
  <1>5. \A i \in 1 .. len : /\ e[i] \in Int /\ e[i] \in Nat /\ e[i] < SectorSlots
                            /\ flash[e[i]].mark = "bond" /\ flash[e[i]].dev = tbl[i + Gone].dev
    <2> SUFFICES ASSUME NEW i \in 1 .. len
                 PROVE  /\ e[i] \in Int /\ e[i] \in Nat /\ e[i] < SectorSlots
                        /\ flash[e[i]].mark = "bond" /\ flash[e[i]].dev = tbl[i + Gone].dev
      OBVIOUS
    <2>1. PICK k : k = i + Gone /\ k \in Gone + 1 .. Len(tbl) /\ k \in 1 .. Len(tbl)
      BY <1>3
    <2>2. tbl[k].slot \in Nat
      BY <1>1, <2>1, EntryFacts
    <2>3. /\ tbl[k].slot < SectorSlots
          /\ flash[tbl[k].slot].mark = "bond" /\ flash[tbl[k].slot].dev = tbl[k].dev
      BY <1>1, <2>1 DEF Mirrors
    <2>4. e[i] = tbl[k].slot
      BY <1>4, <2>1
    <2> QED
      BY <2>1, <2>2, <2>3, <2>4
  <1>6. \A i, j \in 1 .. len : i < j => e[i] < e[j]
    <2>1. \A i, j \in 1 .. len : i < j => i + Gone < j + Gone
      BY <1>1
    <2> QED
      BY <1>1, <1>3, <1>4, <2>1 DEF Mirrors, Ascending
  <1>7. \A x : x \in BondAreas <=> \E i \in 1 .. len : x = e[i]
    <2>1. ASSUME NEW x \in BondAreas PROVE \E i \in 1 .. len : x = e[i]
      <3>1. PICK k \in Gone + 1 .. Len(tbl) : tbl[k].slot = x
        BY <1>1 DEF Mirrors, Below, BondAreas
      <3>2. k - Gone \in 1 .. len /\ e[k - Gone] = x
        BY <1>3, <1>4, <3>1
      <3> QED
        BY <3>2
    <2>2. ASSUME NEW i \in 1 .. len PROVE e[i] \in BondAreas
      BY <1>5, BondAssumption DEF BondAreas
    <2> QED
      BY <2>1, <2>2
  <1>8. Lists(e, len, BondAreas)
    BY <1>5, <1>6, <1>7 DEF Lists
  <1>9. Cardinality(BondAreas) = len /\ \A i \in 1 .. len : Nth(BondAreas, i) = e[i]
    BY <1>8, ListCount, ListNth
  <1> QED
    BY <1>2, <1>5, <1>9 DEF Bonds, Rest

(* ... and after a step too. *)
LEMMA ListingAfter == IndInv' /\ InRam' => Agrees'
  BY Listing, PTL

(* A step that leaves the flash alone, outside the compaction. *)
LEMMA SameList ==
    ASSUME flash' = flash, pc # "rewrite", pc' # "rewrite"
    PROVE  Bonds' = Bonds
  <1>1. BondAreas' = BondAreas
    BY DEF BondAreas
  <1> QED
    BY <1>1 DEF Bonds

(* Every valid record is a slave's, and so is every entry that is rewritten.  *)
Named ==
    /\ \A s \in Slots : flash[s].mark = "bond" => flash[s].dev \in Device
    /\ pc = "rewrite" => \A i \in 1 .. Len(tbl) : tbl[i].dev \in Device

LEMMA NamedErase ==
    ASSUME TypeOK, Named, NEW c \in Slots, flash' = WriteErased(c), pc' # "rewrite"
    PROVE  Named'
  <1>1. flash'[c].mark = "erased" /\ \A s \in Slots : s # c => flash'[s] = flash[s]
    BY EraseFacts
  <1>2. \A s \in Slots : flash'[s].mark = "bond" => flash'[s].dev \in Device
    <2> SUFFICES ASSUME NEW s \in Slots, flash'[s].mark = "bond" PROVE flash'[s].dev \in Device
      OBVIOUS
    <2>1. s # c
      BY <1>1
    <2> QED
      BY <1>1, <2>1 DEF Named
  <1> QED
    BY <1>2 DEF Named

LEMMA NamedWrite ==
    ASSUME TypeOK, Named, NEW c \in Slots, NEW d \in Device,
           flash[c].mark = "free", flash' = WriteRecord(c, d)
    PROVE  \A s \in Slots : flash'[s].mark = "bond" => flash'[s].dev \in Device
  <1>1. flash'[c].dev = d /\ \A s \in Slots : s # c => flash'[s] = flash[s]
    BY WriteFacts
  <1> QED
    BY <1>1 DEF Named

LEMMA DeleteNamed ==
    ASSUME IndInv, Named, pc = "ready", pc' # "rewrite", NEW i \in 1 .. Len(tbl), DeleteIndex(i)
    PROVE  Named'
  <1>1. TypeOK /\ flash' = WriteErased(tbl[i].slot)
    BY DEF IndInv, DeleteIndex
  <1>2. tbl[i].slot \in Slots
    BY <1>1, EntryFacts
  <1> QED
    BY <1>1, <1>2, NamedErase

LEMMA NamedNext ==
    ASSUME PairingBudget, IndInv, Named, [Next]_vars
    PROVE  Named'
  <1> USE BondAssumption
  <1>0. TypeOK
    BY DEF IndInv
  <1>1. ASSUME flash' = flash, pc' # "rewrite" PROVE Named'
    BY <1>1 DEF Named
  <1>2. CASE ScanArea \/ ScanEnd \/ CleanEnd \/ DeleteAll \/ DeleteAllEnd \/ PowerLoss
    BY <1>1, <1>2 DEF ScanArea, ScanEnd, CleanEnd, DeleteAll, DeleteAllEnd, PowerLoss
  <1>3. CASE CleanErase
    <2>1. /\ flash' = [s \in Slots |-> IF s < SectorSlots THEN Blank ELSE flash[s]]
          /\ tbl' = tbl /\ pc = "erase"
      BY <1>3 DEF CleanErase
    <2>2. Mirrors(1, SectorSlots)
      BY <2>1 DEF IndInv, InvSettled
    <2>3. \A s \in Slots : flash'[s].mark = "bond" => flash'[s].dev \in Device
      BY <2>1 DEF Named, Blank
    <2>4. ASSUME NEW i \in 1 .. Len(tbl) PROVE tbl[i].dev \in Device
      <3>1. tbl[i].slot \in Slots /\ flash[tbl[i].slot].mark = "bond" /\ flash[tbl[i].slot].dev = tbl[i].dev
        BY <1>0, <2>2, EntryFacts DEF Mirrors
      <3> QED
        BY <3>1 DEF Named
    <2> QED
      BY <2>1, <2>3, <2>4 DEF Named
  <1>4. CASE CleanRewrite
    <2>1. /\ pc = "rewrite" /\ n < Len(tbl) /\ flash' = WriteRecord(cfgIdx + 1, tbl[n + 1].dev)
          /\ tbl' = [tbl EXCEPT ![n + 1].slot = cfgIdx + 1]
      BY <1>4 DEF CleanRewrite
    <2>2. PICK k \in 1 .. Len(tbl), c \in Slots : k = n + 1 /\ c = cfgIdx + 1 /\ flash[c].mark = "free"
      <3>1. /\ n + 1 \in 1 .. Len(tbl) /\ cfgIdx = n - 1 /\ Frontier /\ n \in Slots /\ n > cfgIdx
        BY <1>0, <2>1, EntryFacts DEF IndInv, InvRewrite, TypeOK, Slots
      <3>2. cfgIdx + 1 = n
        BY <3>1, <1>0 DEF TypeOK
      <3> QED
        BY <3>1, <3>2 DEF Frontier
    <2>3. \A i \in 1 .. Len(tbl) : tbl[i].dev \in Device
      BY <2>1 DEF Named
    <2>4. \A s \in Slots : flash'[s].mark = "bond" => flash'[s].dev \in Device
      BY <1>0, <2>1, <2>2, <2>3, NamedWrite
    <2>5. tbl' = [tbl EXCEPT ![k].slot = c] /\ tbl \in Seq(Entry)
      BY <1>0, <2>1, <2>2 DEF TypeOK
    <2>6. Len(tbl') = Len(tbl) /\ \A j \in 1 .. Len(tbl) : tbl'[j].dev = tbl[j].dev
      BY <2>5, ReslotType
    <2> QED
      BY <2>3, <2>4, <2>6 DEF Named
  <1>5. CASE AddStore
    <2>1. pc = "store" /\ pc' = "ready" /\ flash' = WriteRecord(cfgIdx + 1, arg) /\ arg \in Device
      BY <1>0, <1>5 DEF AddStore, StoreRecord, TypeOK
    <2>2. Frontier /\ cfgIdx + 1 \in Slots
      BY <1>0, <2>1 DEF IndInv, InvSettled, InvBudget, PairingBudget, TypeOK, Slots
    <2>3. flash[cfgIdx + 1].mark = "free"
      BY <1>0, <2>2 DEF Frontier, TypeOK
    <2>4. \A s \in Slots : flash'[s].mark = "bond" => flash'[s].dev \in Device
      BY <1>0, <2>1, <2>2, <2>3, NamedWrite
    <2> QED
      BY <2>1, <2>4 DEF Named
  <1>6. CASE DeleteAllMark
    <2>1. /\ pc = "wipe" /\ pc' = pc /\ flash' = WriteErased(tbl[n + 1].slot) /\ n + 1 \in 1 .. Len(tbl)
      BY <1>0, <1>6, EntryFacts DEF DeleteAllMark, TypeOK
    <2>2. tbl[n + 1].slot \in Slots
      BY <1>0, <2>1, EntryFacts
    <2> QED
      BY <1>0, <2>1, <2>2, NamedErase
  <1>7. ASSUME NEW d \in Device, Add(d) PROVE Named'
    <2>1. pc = "ready" /\ pc' = "store"
      BY <1>7 DEF Add
    <2>2. CASE Len(tbl) >= MaxNum
      <3>1. 1 \in 1 .. Len(tbl) /\ DeleteIndex(1)
        BY <1>0, <1>7, <2>2, EntryFacts DEF Add
      <3> QED
        BY <2>1, <3>1, DeleteNamed
    <2>3. CASE ~(Len(tbl) >= MaxNum)
      BY <1>1, <1>7, <2>1, <2>3 DEF Add
    <2> QED
      BY <2>2, <2>3
  <1>8. ASSUME NEW d \in Device, DeleteByAdr(d) PROVE Named'
    BY <1>8, DeleteNamed DEF DeleteByAdr, Matches
  <1>9. CASE UNCHANGED vars
    BY <1>9 DEF Named, vars
  <1> QED
    BY <1>2, <1>3, <1>4, <1>5, <1>6, <1>7, <1>8, <1>9 DEF Next, Boot, Finish

-----------------------------------------------------------------------------
(* The operations, as steps of BondStore. *)

(* Deleting an entry between operations. *)
LEMMA DeleteForgets ==
    ASSUME IndInv, IndInv', pc = "ready", pc' \in {"ready", "store"},
           NEW i \in 1 .. Len(tbl), DeleteIndex(i)
    PROVE  Store!Forget(tbl[i].dev)
  <1>1. tbl \in Seq(Entry) /\ Len(tbl) \in Nat /\ tbl' = Without(i)
    BY EntryFacts DEF IndInv, TypeOK, DeleteIndex
  <1>2. /\ Len(tbl') = Len(tbl) - 1
        /\ \A j \in 1 .. Len(tbl) - 1 : tbl'[j] = IF j < i THEN tbl[j] ELSE tbl[j + 1]
    BY <1>1, WithoutType
  <1>3. Bonds = [j \in 1 .. Len(tbl) |-> tbl[j].dev]
    <2>1. Bonds = Rest /\ Gone = 0
      BY Listing DEF InRam, Agrees, Gone
    <2> QED
      BY <1>1, <2>1 DEF Rest
  <1>4. Bonds' = [j \in 1 .. Len(tbl) - 1 |-> tbl'[j].dev]
    <2>1. Bonds' = Rest' /\ Gone' = 0
      BY ListingAfter DEF InRam, Agrees, Gone
    <2> QED
      BY <1>1, <1>2, <2>1 DEF Rest
  <1>5. Len(Bonds) = Len(tbl) /\ \A j \in 1 .. Len(tbl) : Bonds[j] = tbl[j].dev
    BY <1>1, <1>3
  <1>6. Bonds' = [j \in 1 .. Len(Bonds) - 1 |-> IF j < i THEN Bonds[j] ELSE Bonds[j + 1]]
    <2>1. ASSUME NEW j \in 1 .. Len(tbl) - 1
          PROVE  tbl'[j].dev = IF j < i THEN Bonds[j] ELSE Bonds[j + 1]
      <3>1. j \in 1 .. Len(tbl) /\ j + 1 \in 1 .. Len(tbl)
        BY <1>1
      <3> QED
        BY <1>2, <1>5, <3>1
    <2> QED
      BY <1>4, <1>5, <2>1
  <1> QED
    BY <1>5, <1>6 DEF Store!Forget

(* The write of user_tbl_slave_mac_add. *)
LEMMA StoreBonds ==
    ASSUME IndInv, IndInv', OnceInv, AddStore
    PROVE  Store!Bond(arg)
  <1> DEFINE e == [dev |-> arg, slot |-> cfgIdx + 1]
  <1>1. pc = "store" /\ pc' = "ready" /\ tbl' = Append(tbl, e) /\ tbl \in Seq(Entry) /\ Len(tbl) \in Nat
    BY EntryFacts DEF AddStore, StoreRecord, IndInv, TypeOK
  <1>2. PICK len \in Nat : len = Len(tbl)
    BY <1>1
  <1>3. Len(tbl') = len + 1 /\ \A j \in 1 .. len + 1 : tbl'[j] = IF j = len + 1 THEN e ELSE tbl[j]
    <2>1. \A T, x : \A q \in Seq(T) : Len(q) = len =>
             /\ Len(Append(q, x)) = len + 1
             /\ \A j \in 1 .. len + 1 : Append(q, x)[j] = IF j = len + 1 THEN x ELSE q[j]
      OBVIOUS
    <2> HIDE DEF e
    <2> QED
      BY <1>1, <1>2, <2>1
  <1>4. Bonds = [j \in 1 .. len |-> tbl[j].dev]
    <2>1. Bonds = Rest /\ Gone = 0
      BY <1>1, Listing DEF InRam, Agrees, Gone
    <2> QED
      BY <1>2, <2>1 DEF Rest
  <1>5. Bonds' = [j \in 1 .. len + 1 |-> tbl'[j].dev]
    <2>1. Bonds' = Rest' /\ Gone' = 0
      BY <1>1, ListingAfter DEF InRam, Agrees, Gone
    <2> QED
      BY <1>2, <1>3, <2>1 DEF Rest
  <1>6. Bonds' = [j \in 1 .. len + 1 |-> IF j = len + 1 THEN arg ELSE tbl[j].dev]
    <2>1. e.dev = arg
      OBVIOUS
    <2> HIDE DEF e
    <2>2. \A j \in 1 .. len + 1 : tbl'[j].dev = IF j = len + 1 THEN arg ELSE tbl[j].dev
      BY <1>3, <2>1
    <2> QED
      BY <1>5, <2>2
  <1>7. Bonds' = Append(Bonds, arg) /\ Len(Bonds) = len
    <2>1. \A x, f : [j \in 1 .. len + 1 |-> IF j = len + 1 THEN x ELSE f[j]]
                       = Append([j \in 1 .. len |-> f[j]], x)
      OBVIOUS
    <2> DEFINE f == [j \in 1 .. len |-> tbl[j].dev]
    <2>2. [j \in 1 .. len + 1 |-> IF j = len + 1 THEN arg ELSE tbl[j].dev]
            = [j \in 1 .. len + 1 |-> IF j = len + 1 THEN arg ELSE f[j]]
      OBVIOUS
    <2>3. [j \in 1 .. len |-> f[j]] = f /\ Len(f) = len
      OBVIOUS
    <2> QED
      BY <1>4, <1>6, <2>1, <2>2, <2>3
  <1>8. len < MaxNum
    BY <1>1, <1>2 DEF IndInv, InvBudget
  <1>9. ~Store!Bonded(arg)
    <2>1. \A j \in 1 .. len : tbl[j].dev # arg
      BY <1>1, <1>2 DEF OnceInv, Matches
    <2> QED
      BY <1>4, <1>7, <2>1 DEF Store!Bonded
  <1>10. pc # "rewrite" /\ pc' # "rewrite"
    BY <1>1
  <1> HIDE DEF e
  <1> QED
    BY <1>7, <1>8, <1>9, <1>10 DEF Store!Bond

(* One mark of delete all: of the entries left, the first. *)
LEMMA MarkForgets ==
    ASSUME IndInv, IndInv', DeleteAllMark
    PROVE  Store!Forget(tbl[n + 1].dev)
  <1>1. /\ pc = "wipe" /\ pc' = "wipe" /\ n < Len(tbl) /\ n' = n + 1 /\ n \in Nat
        /\ tbl' = [tbl EXCEPT ![n + 1].dev = NoDevice] /\ tbl \in Seq(Entry) /\ Len(tbl) \in Nat
    BY EntryFacts DEF DeleteAllMark, IndInv, TypeOK
  <1>2. PICK k \in 1 .. Len(tbl) : k = n + 1
    BY <1>1
  <1>3. Len(tbl') = Len(tbl) /\ \A j \in 1 .. Len(tbl) : j # k => tbl'[j] = tbl[j]
    BY <1>1, <1>2, RedevType
  <1>4. PICK len \in Nat : len = Len(tbl) - n /\ len >= 1
    BY <1>1
  <1>5. Bonds = [j \in 1 .. len |-> tbl[j + n].dev]
    <2>1. Bonds = Rest /\ Gone = n
      BY <1>1, Listing DEF InRam, Agrees, Gone
    <2> QED
      BY <1>4, <2>1 DEF Rest
  <1>6. Bonds' = [j \in 1 .. len - 1 |-> tbl'[j + (n + 1)].dev]
    <2>1. Bonds' = Rest' /\ Gone' = n + 1
      BY <1>1, ListingAfter DEF InRam, Agrees, Gone
    <2>2. Len(tbl') - (n + 1) = len - 1
      BY <1>1, <1>3, <1>4
    <2> QED
      BY <2>1, <2>2 DEF Rest
  <1>7. Len(Bonds) = len /\ \A j \in 1 .. len : Bonds[j] = tbl[j + n].dev
    BY <1>5
  <1>8. Bonds' = [j \in 1 .. Len(Bonds) - 1 |-> IF j < 1 THEN Bonds[j] ELSE Bonds[j + 1]]
    <2>1. ASSUME NEW j \in 1 .. len - 1
          PROVE  tbl'[j + (n + 1)].dev = IF j < 1 THEN Bonds[j] ELSE Bonds[j + 1]
      <3>1. /\ j + 1 \in 1 .. len /\ ~(j < 1) /\ (j + 1) + n = j + (n + 1)
        BY <1>1, <1>4
      <3>2. j + (n + 1) \in 1 .. Len(tbl)
        BY <1>1, <1>4
      <3>3. j + (n + 1) # k
        BY <1>1, <1>2
      <3> QED
        BY <1>3, <1>7, <3>1, <3>2, <3>3
    <2> QED
      BY <1>6, <1>7, <2>1
  <1>9. 1 \in 1 .. Len(Bonds) /\ Bonds[1] = tbl[n + 1].dev
    <2>1. 1 + n = n + 1 /\ 1 \in 1 .. len
      BY <1>1, <1>4
    <2> QED
      BY <1>7, <2>1
  <1> QED
    BY <1>1, <1>8, <1>9 DEF Store!Forget

(* The compaction at power-on begins and ends with the list in RAM. *)
LEMMA EraseCompacts ==
    ASSUME IndInv, CleanErase
    PROVE  Store!Compact
  <1>1. pc = "erase" /\ pc' = "rewrite" /\ tbl' = tbl /\ Len(tbl) \in Nat
    BY EntryFacts DEF CleanErase, IndInv
  <1>2. Bonds = Rest /\ Gone = 0
    BY <1>1, Listing DEF InRam, Agrees, Gone
  <1>3. Bonds = [i \in 1 .. Len(tbl) |-> tbl[i].dev]
    BY <1>1, <1>2 DEF Rest
  <1>4. Bonds' = [i \in 1 .. Len(tbl) |-> tbl[i].dev]
    BY <1>1 DEF Bonds
  <1> QED
    BY <1>1, <1>3, <1>4 DEF Store!Compact

LEMMA EndCompacted ==
    ASSUME IndInv, IndInv', CleanEnd
    PROVE  Store!Compacted
  <1>1. pc = "rewrite" /\ pc' = "ready" /\ tbl' = tbl /\ Len(tbl) \in Nat
    BY EntryFacts DEF CleanEnd, IndInv
  <1>2. Bonds' = Rest' /\ Gone' = 0
    BY <1>1, ListingAfter DEF InRam, Agrees, Gone
  <1>3. Bonds' = [i \in 1 .. Len(tbl) |-> tbl[i].dev]
    BY <1>1, <1>2 DEF Rest
  <1>4. Bonds = [i \in 1 .. Len(tbl) |-> tbl[i].dev]
    BY <1>1 DEF Bonds
  <1> QED
    BY <1>1, <1>3, <1>4 DEF Store!Compacted

LEMMA RewriteKeeps ==
    ASSUME IndInv, CleanRewrite
    PROVE  Bonds' = Bonds
  <1>1. /\ pc = "rewrite" /\ pc' = "rewrite" /\ n < Len(tbl) /\ cfgIdx = n - 1 /\ n \in Nat
        /\ tbl' = [tbl EXCEPT ![n + 1].slot = cfgIdx + 1] /\ tbl \in Seq(Entry) /\ Len(tbl) \in Nat
        /\ n <= MaxNum
    BY EntryFacts DEF CleanRewrite, IndInv, InvRewrite, TypeOK
  <1>2. PICK k \in 1 .. Len(tbl), c \in Slots : k = n + 1 /\ c = cfgIdx + 1
    BY <1>1, BondAssumption DEF Slots
  <1>3. Len(tbl') = Len(tbl) /\ \A j \in 1 .. Len(tbl) : tbl'[j].dev = tbl[j].dev
    BY <1>1, <1>2, ReslotType
  <1> QED
    BY <1>1, <1>3 DEF Bonds

(* Power is lost in the compaction: the records written back are the first n. *)
LEMMA LossCuts ==
    ASSUME IndInv, PowerLoss, pc = "rewrite"
    PROVE  Store!Cut
  <1>1. /\ TypeOK /\ InvRewrite /\ flash' = flash /\ pc' = "scan" /\ Len(tbl) \in Nat
    BY EntryFacts DEF IndInv, PowerLoss
  <1>2. /\ n \in Nat /\ n <= Len(tbl) /\ n <= SectorSlots /\ cfgIdx = n - 1 /\ Frontier
        /\ \A i \in 1 .. n : flash[i - 1].mark = "bond" /\ flash[i - 1].dev = tbl[i].dev
    BY <1>1, BondAssumption DEF InvRewrite, TypeOK
  <1> DEFINE e == [i \in 1 .. n |-> i - 1]
  <1>3. \A x : x \in BondAreas <=> \E i \in 1 .. n : x = e[i]
    <2>1. ASSUME NEW x \in BondAreas PROVE \E i \in 1 .. n : x = e[i]
      <3>1. x \in 0 .. SectorSlots - 1 /\ x \in Slots /\ flash[x].mark # "free"
        BY BondAssumption DEF BondAreas, Slots
      <3>2. ~(x > cfgIdx)
        BY <1>2, <3>1 DEF Frontier
      <3>3. x + 1 \in 1 .. n /\ e[x + 1] = x
        BY <1>2, <3>1, <3>2, BondAssumption
      <3> QED
        BY <3>3
    <2>2. ASSUME NEW i \in 1 .. n PROVE e[i] \in BondAreas
      <3>1. e[i] = i - 1 /\ i - 1 \in 0 .. SectorSlots - 1
        BY <1>2, BondAssumption
      <3> QED
        BY <1>2, <3>1 DEF BondAreas
    <2> QED
      BY <2>1, <2>2
  <1>4. Lists(e, n, BondAreas)
    BY <1>2, <1>3 DEF Lists
  <1>5. Cardinality(BondAreas) = n /\ \A i \in 1 .. n : Nth(BondAreas, i) = i - 1
    <2>1. \A i \in 1 .. n : e[i] = i - 1
      OBVIOUS
    <2> HIDE DEF e
    <2> QED
      BY <1>2, <1>4, <2>1, ListCount, ListNth
  <1>6. BondAreas' = BondAreas
    BY <1>1 DEF BondAreas
  <1>7. Bonds' = [i \in 1 .. n |-> tbl[i].dev]
    BY <1>1, <1>2, <1>5, <1>6 DEF Bonds
  <1>8. Bonds = [i \in 1 .. Len(tbl) |-> tbl[i].dev]
    BY DEF Bonds
  <1>9. Bonds' = SubSeq(Bonds, 1, n) /\ n \in 0 .. Len(Bonds)
    <2>1. Len(Bonds) = Len(tbl) /\ \A j \in 1 .. Len(tbl) : Bonds[j] = tbl[j].dev
      BY <1>1, <1>8
    <2>2. SubSeq(Bonds, 1, n) = [i \in 1 .. n |-> Bonds[i]]
      BY <1>1, <1>2, <2>1
    <2>3. \A i \in 1 .. n : Bonds[i] = tbl[i].dev
      BY <1>1, <1>2, <2>1
    <2> QED
      BY <1>1, <1>2, <1>7, <2>1, <2>2, <2>3
  <1> QED
    BY <1>1, <1>9 DEF Store!Cut

-----------------------------------------------------------------------------
LEMMA StoreInit == Init => Store!Init
  <1> SUFFICES ASSUME Init PROVE Store!Init
    OBVIOUS
  <1>1. pc = "scan" /\ flash = [s \in Slots |-> Blank]
    BY DEF Init
  <1>2. BondAreas = {}
    BY <1>1, BondAssumption DEF BondAreas, Slots, Blank
  <1>3. Cardinality(BondAreas) = 0
    BY <1>2, FS_EmptySet
  <1>4. Bonds = <<>>
    BY <1>1, <1>3 DEF Bonds
  <1> QED
    BY <1>1, <1>4 DEF Store!Init

LEMMA StoreNext ==
    ASSUME IndInv, IndInv', OnceInv, Named, [Next]_vars
    PROVE  [Store!Next]_(Store!vars)
  <1>1. ASSUME flash' = flash, pc # "rewrite", pc' # "rewrite" PROVE UNCHANGED Store!vars
    BY <1>1, SameList DEF Store!vars
  <1>2. CASE ScanArea \/ ScanEnd \/ DeleteAll \/ DeleteAllEnd
    BY <1>1, <1>2 DEF ScanArea, ScanEnd, DeleteAll, DeleteAllEnd
  <1>3. CASE CleanErase \/ CleanEnd
    BY <1>3, EraseCompacts, EndCompacted DEF Store!Next
  <1>4. CASE CleanRewrite
    <2>1. pc = "rewrite" /\ pc' = "rewrite"
      BY <1>4 DEF CleanRewrite
    <2> QED
      BY <1>4, <2>1, RewriteKeeps DEF Store!vars
  <1>5. CASE PowerLoss
    <2>1. flash' = flash /\ pc' # "rewrite"
      BY <1>5 DEF PowerLoss
    <2> QED
      BY <1>1, <1>5, <2>1, LossCuts DEF Store!Next
  <1>6. CASE AddStore
    <2>1. arg \in Device
      BY <1>6 DEF AddStore, IndInv, TypeOK
    <2> QED
      BY <1>6, <2>1, StoreBonds DEF Store!Next
  <1>7. CASE DeleteAllMark
    <2>1. TypeOK /\ pc = "wipe" /\ n + 1 \in 1 .. Len(tbl) /\ n + 1 \in n + 1 .. Len(tbl)
      BY <1>7, EntryFacts DEF DeleteAllMark, IndInv, TypeOK
    <2>2. tbl[n + 1].slot \in Slots
      BY <2>1, EntryFacts
    <2>3. flash[tbl[n + 1].slot].mark = "bond" /\ flash[tbl[n + 1].slot].dev = tbl[n + 1].dev
      BY <2>1 DEF IndInv, InvWipe, Mirrors
    <2>4. tbl[n + 1].dev \in Device
      BY <2>2, <2>3 DEF Named
    <2> QED
      BY <1>7, <2>4, MarkForgets DEF Store!Next
  <1>8. ASSUME pc = "ready", pc' \in {"ready", "store"}, NEW i \in 1 .. Len(tbl), DeleteIndex(i)
        PROVE  Store!Next
    <2>1. TypeOK /\ Mirrors(1, SectorSlots)
      BY <1>8 DEF IndInv, InvSettled
    <2>2. /\ tbl[i].slot \in Slots
          /\ flash[tbl[i].slot].mark = "bond" /\ flash[tbl[i].slot].dev = tbl[i].dev
      BY <2>1, EntryFacts DEF Mirrors
    <2>3. tbl[i].dev \in Device
      BY <2>2 DEF Named
    <2> QED
      BY <1>8, <2>3, DeleteForgets DEF Store!Next
  <1>9. ASSUME NEW d \in Device, Add(d) PROVE [Store!Next]_(Store!vars)
    <2>1. pc = "ready" /\ pc' = "store"
      BY <1>9 DEF Add
    <2>2. CASE Len(tbl) >= MaxNum
      <3>1. 1 \in 1 .. Len(tbl) /\ DeleteIndex(1)
        BY <1>9, <2>2, EntryFacts, BondAssumption DEF Add, IndInv
      <3> QED
        BY <1>8, <2>1, <3>1
    <2>3. CASE ~(Len(tbl) >= MaxNum)
      BY <1>1, <1>9, <2>1, <2>3 DEF Add
    <2> QED
      BY <2>2, <2>3
  <1>10. ASSUME NEW d \in Device, DeleteByAdr(d) PROVE Store!Next
    <2>1. pc = "ready" /\ pc' = "ready" /\ \E i \in 1 .. Len(tbl) : DeleteIndex(i)
      BY <1>10 DEF DeleteByAdr, Matches
    <2> QED
      BY <1>8, <2>1
  <1>11. CASE UNCHANGED vars
    <2>1. flash' = flash /\ tbl' = tbl /\ pc' = pc
      BY <1>11 DEF vars
    <2>2. BondAreas' = BondAreas
      BY <2>1 DEF BondAreas
    <2> QED
      BY <2>1, <2>2 DEF Bonds, Store!vars
  <1> QED
    BY <1>2, <1>3, <1>4, <1>5, <1>6, <1>7, <1>9, <1>10, <1>11 DEF Next, Boot, Finish

(* blm_pair.c keeps the promise of BondStore, for any number of slaves, any   *)
(* table and any sector with room for the pairings of a power cycle: whatever *)
(* operation a power loss cuts short, the list that the next power-on loads   *)
(* is the one before it or after it, and only a loss during the compaction    *)
(* costs bonds, the newest ones.                                              *)
THEOREM KeepsBonds == PairingBudget => (Spec => ImplementsBondStore)
  <1> SUFFICES ASSUME PairingBudget PROVE Spec => ImplementsBondStore
    OBVIOUS
  <1>1. Init => Named
    BY DEF Init, Named, Blank
  <1>2. IndInv /\ Named /\ [Next]_vars => Named'
    BY NamedNext
  <1>3. IndInv /\ OnceInv /\ [Next]_vars => OnceInv'
    BY OnceNext
  <1>4. IndInv /\ IndInv' /\ OnceInv /\ Named /\ [Next]_vars => [Store!Next]_(Store!vars)
    BY StoreNext
  <1>5. Spec => []IndInv
    BY Inductive
  <1> QED
    BY <1>1, <1>2, <1>3, <1>4, <1>5, OnceInit, StoreInit, PTL DEF Spec, ImplementsBondStore, Store!Spec
=============================================================================
