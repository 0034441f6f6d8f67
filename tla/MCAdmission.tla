----------------------------- MODULE MCAdmission -----------------------------
(* A small instance of Admission for TLC: the first two requests come from *)
(* one user and source and ask for different homes, the third comes from   *)
(* another user and source and asks for the first home; both sources share *)
(* the slot of one budget.  Every window is two ticks long.                *)
EXTENDS Admission

CONSTANTS r1, r2, r3, h1, h2, user1, user2, source1, source2

MCHomeOf   == [r \in Requests |-> IF r = r2 THEN h2 ELSE h1]
MCUserOf   == [r \in Requests |-> IF r = r3 THEN user2 ELSE user1]
MCSourceOf == [r \in Requests |-> IF r = r3 THEN source2 ELSE source1]
MCSlotOf   ==
    [b \in Budgets |-> [s \in Subjects |->
        IF b # "source.operations" /\ s \in {user2, source2} THEN 1 ELSE 0]]
MCMaximum  == [b \in Budgets |-> IF b = "audit.events" THEN 2 ELSE 1]
MCWindow   == [b \in Budgets |-> 2]
=============================================================================
