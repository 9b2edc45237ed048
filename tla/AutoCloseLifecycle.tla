------------------------- MODULE AutoCloseLifecycle -------------------------
(***************************************************************************)
(* What the auto-closer promises for one synthetic bug, with the passes,   *)
(* the audits and the failures left out: a bounded number of attempts, one *)
(* outcome, and closure in Chiron only for a bug JN has cleared.           *)
(***************************************************************************)
EXTENDS Naturals

CONSTANTS Bugs, MaxAttempts  \* MaxAttempts is a natural number

VARIABLES
  status,    \* of the job: BugAutoCloserSchedularJob.status
  attempts,  \* analyses of the bug that its job has counted
  cleared,   \* bugs for which JN answered Update_SR
  closed     \* bugs closed in Chiron

vars == <<status, attempts, cleared, closed>>

Init ==
  /\ status = [b \in Bugs |-> "ABSENT"]
  /\ attempts = [b \in Bugs |-> 0]
  /\ cleared = {}
  /\ closed = {}

Moves(b, from, to) ==
  /\ status[b] = from
  /\ status' = [status EXCEPT ![b] = to]

File(b) == Moves(b, "ABSENT", "READY") /\ UNCHANGED <<attempts, cleared, closed>>

\* The job of a waiting bug learns what became of the request for an analysis:
\* JN took it, or refused it.  A request the job never learns of is no step.
Analyse(b) ==
  /\ Moves(b, "READY", "INPROGRESS")
  /\ attempts[b] < MaxAttempts
  /\ attempts' = [attempts EXCEPT ![b] = @ + 1]
  /\ UNCHANGED <<cleared, closed>>

Refuse(b) == Moves(b, "READY", "FAILURE") /\ UNCHANGED <<attempts, cleared, closed>>

\* The analysis did not clear the bug: another attempt, or none is left.
Retry(b) ==
  /\ Moves(b, "INPROGRESS", "READY")
  /\ b \notin cleared /\ attempts[b] < MaxAttempts
  /\ UNCHANGED <<attempts, cleared, closed>>

GiveUp(b) ==
  /\ Moves(b, "INPROGRESS", "FAILURE")
  /\ b \notin cleared /\ attempts[b] = MaxAttempts
  /\ UNCHANGED <<attempts, cleared, closed>>

\* The analysis cleared the bug, which is then closed; the job may learn of it
\* before, after or, when Chiron refuses the update, without the closure.
Clear(b) ==
  /\ status[b] = "INPROGRESS"
  /\ b \notin cleared
  /\ cleared' = cleared \cup {b}
  /\ UNCHANGED <<status, attempts, closed>>

Close(b) ==
  /\ b \in cleared
  /\ closed' = closed \cup {b}
  /\ UNCHANGED <<status, attempts, cleared>>

Finish(b) ==
  /\ b \in cleared
  /\ Moves(b, "INPROGRESS", "SUCCESS")
  /\ UNCHANGED <<attempts, cleared, closed>>

Next ==
  \E b \in Bugs :
    \/ File(b) \/ Analyse(b) \/ Refuse(b) \/ Retry(b)
    \/ GiveUp(b) \/ Clear(b) \/ Close(b) \/ Finish(b)

Spec == Init /\ [][Next]_vars
=============================================================================
