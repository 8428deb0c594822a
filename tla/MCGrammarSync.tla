--------------------------- MODULE MCGrammarSync ---------------------------
(* Instances of GrammarSync for TLC.                                        *)
EXTENDS GrammarSync, TLC

CONSTANTS a1, a2, w1, u1, u2

OneItem == {1}
RuleOfOne == 1 :> 1
\* All answers are to one point.  The second answer of the device is older
\* than the browser's.
ItemOfAll == a1 :> 1 @@ a2 :> 1 @@ w1 :> 1
AtOfAll == a1 :> 2 @@ a2 :> 1 @@ w1 :> 2
\* An answer in the browser beside one of the device; two answers of the
\* device; a request that is served late beside the next one.
FollowPlans == {{a2, w1, u1}, {a1, a2, u1}, {a1, u1, u2}}
OnePlan == {{a1, u1}}
=============================================================================
