---------------------------- MODULE MCPushGrants ----------------------------
(* One user without destinations, and one home. *)
EXTENDS PushGrants, TLC

CONSTANTS owner, d1, d2

NoneRegistered == [x \in Users |-> {}]

Symmetry == Permutations(Calls) \cup Permutations(Grants) \cup Permutations(Challenges)
            \cup Permutations(Destinations)
=============================================================================
