------------------------------ MODULE BondStore ------------------------------
(* What the bond table promises its callers, without flash or power loss: a   *)
(* bounded list of distinct bonded slaves, oldest first, that survives a power *)
(* cycle whole, except for one that strikes while the sector is compacted.    *)
EXTENDS Naturals, Sequences

CONSTANTS Device, MaxNum

VARIABLES
    bonds,          \* the bonded slaves, oldest first
    compacting      \* the sector is being compacted

vars == <<bonds, compacting>>

Init == bonds = <<>> /\ compacting = FALSE

Bonded(d) == \E i \in 1 .. Len(bonds) : bonds[i] = d

Bond(d) ==
    /\ ~compacting /\ Len(bonds) < MaxNum /\ ~Bonded(d)
    /\ bonds' = Append(bonds, d)
    /\ UNCHANGED compacting

(* A slave is forgotten on request, or as the oldest when the list is full;   *)
(* forgetting everybody starts with the oldest.                               *)
Forget(d) ==
    /\ ~compacting
    /\ \E i \in 1 .. Len(bonds) :
         /\ bonds[i] = d
         /\ bonds' = [j \in 1 .. Len(bonds) - 1 |-> IF j < i THEN bonds[j] ELSE bonds[j + 1]]
    /\ UNCHANGED compacting

Compact == ~compacting /\ compacting' = TRUE /\ UNCHANGED bonds
Compacted == compacting /\ compacting' = FALSE /\ UNCHANGED bonds

(* Power lost while compacting: only the slaves written back so far are left. *)
Cut ==
    /\ compacting /\ compacting' = FALSE
    /\ \E k \in 0 .. Len(bonds) : bonds' = SubSeq(bonds, 1, k)

Next ==
    \/ Compact \/ Compacted \/ Cut
    \/ \E d \in Device : Bond(d) \/ Forget(d)

Spec == Init /\ [][Next]_vars
=============================================================================
