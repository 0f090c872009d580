-------------------------- MODULE MCNativeRecovery --------------------------
(* Instances of NativeRecovery for TLC.                                     *)
EXTENDS NativeRecovery, TLC

CONSTANTS g1, g2
Windows == g1 :> 1 @@ g2 :> 2
OneWindow == g1 :> 1

CONSTANTS a, b
Deep == a :> 3
Uneven == a :> 4 @@ b :> 2

Symmetry == Permutations(Requests)
=============================================================================
