-------------------------- MODULE ReliableChannel ----------------------------
(* What the three-wire transport promises for one direction: payloads are      *)
(* handed over one at a time, in order and at most once, and a payload is      *)
(* confirmed to its sender only after the receiver had it.  A link reset gives *)
(* up the payload under way, which may still arrive until the sender hands     *)
(* over another one.                                                           *)
EXTENDS Naturals

VARIABLES
    accepted,       \* payloads taken so far, numbered from 1
    outstanding,    \* the payload under way, 0: none
    received,       \* the last payload handed to the receiver, 0: none
    handed,         \* how many payloads the receiver was handed
    confirmed       \* the last payload confirmed to the sender, 0: none

cvars == <<accepted, outstanding, received, handed, confirmed>>

Init == accepted = 0 /\ outstanding = 0 /\ received = 0 /\ handed = 0 /\ confirmed = 0

Accept ==
    /\ outstanding = 0
    /\ accepted' = accepted + 1 /\ outstanding' = accepted + 1
    /\ UNCHANGED <<received, handed, confirmed>>

Deliver ==
    /\ received < accepted
    /\ received' = accepted /\ handed' = handed + 1
    /\ UNCHANGED <<accepted, outstanding, confirmed>>

\* The sender may hand over the next payload in the confirmation itself.
Confirm ==
    /\ outstanding # 0 /\ outstanding = received
    /\ confirmed' = outstanding
    /\ \/ accepted' = accepted + 1 /\ outstanding' = accepted + 1
       \/ accepted' = accepted /\ outstanding' = 0
    /\ UNCHANGED <<received, handed>>

GiveUp ==
    /\ outstanding' = 0
    /\ UNCHANGED <<accepted, received, handed, confirmed>>

Next == Accept \/ Deliver \/ Confirm \/ GiveUp

Spec == Init /\ [][Next]_cvars
=============================================================================
