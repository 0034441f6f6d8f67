------------------------- MODULE MCReleaseAdoption -------------------------
(* Two releases that may be adopted and one the browsers deny, under two   *)
(* generations; attempts are interchangeable.                              *)
EXTENDS ReleaseAdoption, TLC

Symmetry == Permutations(Attempts)
=============================================================================
