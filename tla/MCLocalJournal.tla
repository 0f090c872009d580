--------------------------- MODULE MCLocalJournal ---------------------------
(* Instances of LocalJournal for TLC.  Keys and values are interchangeable.  *)
EXTENDS LocalJournal, TLC

Symmetry == Permutations(Keys) \cup Permutations(Vals)
=============================================================================
