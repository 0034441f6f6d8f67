--------------------------- MODULE AdoptedRelease ---------------------------
(***************************************************************************)
(* What the release ledger of a browser promises, however many tabs use    *)
(* it, whatever they load and wherever they stop: the accepted release     *)
(* only moves to a greater generation, and the last known good one only    *)
(* becomes the release accepted at that moment.                            *)
(***************************************************************************)
EXTENDS Naturals

CONSTANTS Pointers, NoPointer

VARIABLES highest, good

Init == highest = NoPointer /\ good = NoPointer

Accept(p) ==
    /\ p.gen > highest.gen
    /\ highest' = p
    /\ UNCHANGED good

Confirm ==
    /\ highest # NoPointer
    /\ good' = highest
    /\ UNCHANGED highest

Next == (\E p \in Pointers : Accept(p)) \/ Confirm

Spec == Init /\ [][Next]_<<highest, good>>
=============================================================================
