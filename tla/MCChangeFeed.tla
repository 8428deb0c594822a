---------------------------- MODULE MCChangeFeed ----------------------------
(* Instances of ChangeFeed for TLC.                                         *)
EXTENDS ChangeFeed, TLC

CONSTANTS k1, k2, k3, s1, s2

\* Two cards of a learner, and with them a translation of a language pair.
OneStream == k1 :> s1 @@ k2 :> s1
TwoStreams == OneStream @@ k3 :> s2
=============================================================================
