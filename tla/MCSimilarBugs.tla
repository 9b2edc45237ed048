---------------------------- MODULE MCSimilarBugs ----------------------------
(***************************************************************************)
(* Instances of SimilarBugs for TLC.                                       *)
(***************************************************************************)
EXTENDS SimilarBugs, TLC

\* Interchangeable.  Not for runs with a liveness property.
Symmetry == UNION {Permutations(S) : S \in {Keys, Bugs, Nodes}}
=============================================================================
