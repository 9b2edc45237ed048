---------------------------- MODULE MCBugFiling ----------------------------
(***************************************************************************)
(* Instances of BugFiling for TLC.                                         *)
(***************************************************************************)
EXTENDS BugFiling, TLC

\* Interchangeable.
Symmetry == Permutations(Threads) \cup Permutations(Buckets)
=============================================================================
