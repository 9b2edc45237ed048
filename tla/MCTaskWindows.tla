---------------------------- MODULE MCTaskWindows ----------------------------
(***************************************************************************)
(* Instances of TaskWindows for TLC.                                       *)
(***************************************************************************)
EXTENDS TaskWindows
=============================================================================
