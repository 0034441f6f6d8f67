-------------------------- MODULE MCComponentMount --------------------------
(* Components written with the authoring helpers name each handler after its
   node; others are free not to. *)
EXTENDS ComponentMount

AuthoredHandlers == [n \in Nodes |-> n]
FreeHandlers     == [n \in Nodes |-> "press"]
=============================================================================
