----------------------------- MODULE MCHomeKeys -----------------------------
(* A small instance of HomeKeys for TLC: one home, its owner and a stranger.*)
(* The identifiers inside generated keys are all different.                *)
EXTENDS HomeKeys, TLC

CONSTANTS owner, stranger

MCOwner  == [h \in Homes |-> owner]
MCIdOf   == [m \in Materials |-> m]
Symmetry == Permutations(Calls) \cup Permutations(KeyIds)
=============================================================================
