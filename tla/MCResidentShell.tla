--------------------------- MODULE MCResidentShell --------------------------
(* Two residents share a device. *)
EXTENDS ResidentShell, TLC

CONSTANTS a, b

Symmetry == Permutations(Users)
=============================================================================
