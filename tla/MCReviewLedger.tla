--------------------------- MODULE MCReviewLedger ---------------------------
(* Instances of ReviewLedger for TLC.                                       *)
EXTENDS ReviewLedger, TLC

CONSTANTS r1, r2, r3, w, a1, a2, a3, a4, a5, a6, d1, d2

\* A device answers card 2 and then card 1 (a5 is dated too far ahead) and sends
\* the batch twice (r1, r2); card 1 is answered on the web (w) between and after.
\* Another device answers both cards in the other order (r3): a4 takes the id of
\* a1, and a6 predates the migration.
IdOfAll   == a1 :> 1 @@ a2 :> 2 @@ a3 :> 3 @@ a4 :> 1 @@ a5 :> 5 @@ a6 :> 6
CardOfAll == a1 :> 1 @@ a2 :> 2 @@ a3 :> 1 @@ a4 :> 2 @@ a5 :> 2 @@ a6 :> 1
AtAll     == a1 :> 3 @@ a2 :> 2 @@ a3 :> 2 @@ a4 :> 3 @@ a5 :> 5 @@ a6 :> 1
BatchAll  == r1 :> {a1, a2, a5} @@ r2 :> {a1, a2, a5} @@ r3 :> {a3, a4, a6} @@ w :> {a3}
DeviceAll == r1 :> d1 @@ r2 :> d1 @@ r3 :> d2
RetryAndMixed == {{r1, r2, w}, {r1, r3}}
=============================================================================
