---------------------- MODULE MCSubscriptionAdmission ----------------------
(* Instances of SubscriptionAdmission for TLC: two streams of a key on one  *)
(* replica and a third on another.                                          *)
EXTENDS SubscriptionAdmission, TLC

CONSTANTS r1, r2, s1, s2, s3

MCHome == s1 :> r1 @@ s2 :> r1 @@ s3 :> r2
MCKeyOf == [s \in {s1, s2, s3} |-> "key"]

Symmetry == Permutations({s1, s2}) \cup Permutations(Sessions)
=============================================================================
