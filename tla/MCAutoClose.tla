---------------------------- MODULE MCAutoClose ----------------------------
(***************************************************************************)
(* Instances of AutoClose for TLC.                                         *)
(***************************************************************************)
EXTENDS AutoClose, TLC

\* Bugs, analysis ids and passes are interchangeable; safety runs only.
Symmetry == UNION {Permutations(S) : S \in {Bugs, Ids, Closers, Auditors, Workers}}
=============================================================================
