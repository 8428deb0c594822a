---------------------------- MODULE MCPhraseMine ----------------------------
(* Instances of PhraseMine for TLC.                                         *)
EXTENDS PhraseMine, TLC

CONSTANTS a, b

\* Both surfaces count the same phrases.
Alike == [s \in Surfaces |-> Phrases]

\* Each surface has a phrase of its own.
Apart == 1 :> {a} @@ 2 :> {b}
=============================================================================
