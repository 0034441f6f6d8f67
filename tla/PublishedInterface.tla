------------------------- MODULE PublishedInterface -------------------------
(***************************************************************************)
(* What publication promises a home and its residents, whatever uploads,   *)
(* storage objects, crashes and retries realise it: a digest is released   *)
(* for a home once and for one publisher and description; the live pointer *)
(* moves only to a released digest that is not quarantined, and only to a  *)
(* greater generation.                                                     *)
(***************************************************************************)
EXTENDS Naturals

CONSTANTS Homes, Digests, Bindings, Generations, None

VARIABLES
    released,     \* [Homes -> [Digests -> Bindings \cup {None}]]
    live,         \* the pointer residents load
    quarantined   \* digests no home may activate any more

Nothing == [gen |-> 0, digest |-> None, binding |-> None]

Init ==
    /\ released = [h \in Homes |-> [d \in Digests |-> None]]
    /\ live = [h \in Homes |-> Nothing]
    /\ quarantined = {}

Release(h, d, b) ==
    /\ released[h][d] = None
    /\ released' = [released EXCEPT ![h][d] = b]
    /\ UNCHANGED <<live, quarantined>>

Activate(h, d, g) ==
    /\ released[h][d] # None
    /\ d \notin quarantined
    /\ g > live[h].gen
    /\ live' = [live EXCEPT ![h] =
                    [gen |-> g, digest |-> d, binding |-> released[h][d]]]
    /\ UNCHANGED <<released, quarantined>>

Quarantine(d) ==
    /\ quarantined' = quarantined \cup {d}
    /\ UNCHANGED <<released, live>>

Next ==
    \/ \E h \in Homes, d \in Digests, b \in Bindings : Release(h, d, b)
    \/ \E h \in Homes, d \in Digests, g \in Generations : Activate(h, d, g)
    \/ \E d \in Digests : Quarantine(d)

Spec == Init /\ [][Next]_<<released, live, quarantined>>
=============================================================================
