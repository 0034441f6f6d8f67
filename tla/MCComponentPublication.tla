----------------------- MODULE MCComponentPublication -----------------------
(* Small instances of ComponentPublication for TLC: one home and its       *)
(* publisher, two descriptions of the same bytes, and a third capability   *)
(* whose identifier collides with the first.                               *)
(*                                                                         *)
(* Calls, descriptions and the capabilities of the first upload are        *)
(* interchangeable.  What a finished call answered decides no later step   *)
(* and is in no property, so View leaves it out.                           *)
EXTENDS ComponentPublication, TLC

CONSTANTS home, good, upload1, upload2, token2

MCHomeOf   == [p \in Publishers |-> home]
MCDigestOf == [i \in Inputs |-> good]
MCUploadOf == [t \in Tokens |-> IF t = token2 THEN upload2 ELSE upload1]
Symmetry   == Permutations(Calls) \cup Permutations(Inputs)
              \cup Permutations(Tokens \ {token2})
View       == <<clock, documents, drawn, handed, lostAcks,
                [c \in Calls |-> IF Free(c) THEN None ELSE call[c]]>>
=============================================================================
