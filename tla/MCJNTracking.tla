---------------------------- MODULE MCJNTracking ----------------------------
(***************************************************************************)
(* Instances of JNTracking for TLC.                                        *)
(***************************************************************************)
EXTENDS JNTracking, TLC

CONSTANTS n1, n2, r1

\* Every thread on the one node.
OneNode == [t \in Plain \cup Synth |-> n1]

\* The first of the plain requests on a node of its own.
TwoNodes == [t \in Plain \cup Synth |-> IF t = r1 THEN n2 ELSE n1]

\* Interchangeable; the synthetic requests because they share a node.
Symmetry ==
  UNION {Permutations(S) : S \in {Ids, Synthetic, Synth, Pollers}}
=============================================================================
