--------------------------- MODULE MCBucketAnalysis ---------------------------
(***************************************************************************)
(* Instances of BucketAnalysis for TLC.                                    *)
(***************************************************************************)
EXTENDS BucketAnalysis, TLC

\* The passes and the traces.
Symmetry == Permutations(Threads) \cup Permutations(Traces)
==============================================================================
