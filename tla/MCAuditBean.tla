---------------------------- MODULE MCAuditBean ----------------------------
(***************************************************************************)
(* Instances of AuditBean for TLC.                                         *)
(***************************************************************************)
EXTENDS AuditBean, TLC

\* The workers are on different nodes, or on one.
OnePerNode == [p \in Passes |-> p]
OneNode == [p \in Passes |-> CHOOSE o \in Beans : TRUE]

\* Passes and their beans are interchangeable, and so are the audits.
Symmetry == Permutations(Audits) \cup Permutations(Passes)
=============================================================================
