----------------------------- MODULE AuditBean -----------------------------
(***************************************************************************)
(* The fields of BugAutoCloserSchedularAuditServices.                      *)
(*                                                                         *)
(* The class is a prototype bean, but it is injected once into the         *)
(* singleton BugAutoCloserSchedular: all the workers of a node call        *)
(* accept and executeImpl on one object, which hand the audit and the job  *)
(* from the one to the other in its fields.  The scheduled method returns  *)
(* as soon as its worker is started, so a worker held up in a call to JN   *)
(* or Chiron is still at its list when the next one starts.                *)
(*                                                                         *)
(* A pass is one worker with the documents its query returned.  Documents  *)
(* in memory are shared by reference: <<p, a>> is the object that pass p    *)
(* read for audit a, or the job it read while at audit a.  AutoClose has    *)
(* the rest of the auto-closer, with one worker at a time on a node.       *)
(***************************************************************************)
CONSTANTS
  Audits,  \* open audits, each the latest analysis of a job of its own
  Passes,
  Beans,   \* the bean objects, one on every node
  BeanOf   \* the bean a pass works on

ASSUME BeanOfAssumption == BeanOf \in [Passes -> Beans]

VARIABLES
  audits,    \* collection BugAutoCloserAudit
  jobs,      \* status of the job of each audit's bug
  approved,  \* analyses for which JN answered Update_SR (history)
  closed,    \* audits whose bug Chiron has closed
  auditObj, jobObj,  \* the objects in memory
  bean,      \* the fields bugAutoCloserAudit and bugAutoCloserSchedularJob
  pass       \* the workers' threads

store == <<audits, jobs, approved, closed>>
vars == <<store, auditObj, jobObj, bean, pass>>

Status == {"READY", "INPROGRESS", "SUCCESS", "FAILURE"}
Verdict == {"SUCCESS", "FAILURE", "INPROGRESS"}
Audit == [status: Status, closed: BOOLEAN]
Refs == Passes \X Audits
NoRef == <<>>

Open == [status |-> "INPROGRESS", closed |-> FALSE]

Job == [of: Audits, status: Status]

\* The fields of a bean.
Fields == [audit: Refs \cup {NoRef}, job: Refs \cup {NoRef}]

PassState ==
  [pc: {"idle", "accept", "load", "ask", "post", "record", "sync", "tell",
        "flag", "save"},
   todo: SUBSET Audits,
   own: Refs \cup {NoRef},    \* the item of the list at hand
   cleared: BOOLEAN,          \* JN's answer
   audit: Refs \cup {NoRef},  \* the arguments of postProcessing
   job: Refs \cup {NoRef},
   status: Verdict]           \* its JobStatusForBugAutoCloser

\* A pass before its query; between two items only its list is kept.
Idle == [pc |-> "idle", todo |-> {}, own |-> NoRef, cleared |-> FALSE,
         audit |-> NoRef, job |-> NoRef, status |-> "INPROGRESS"]

\* Everything has its type.
TypeOK ==
  /\ audits \in [Audits -> Audit]
  /\ jobs \in [Audits -> Status]
  /\ approved \subseteq Audits
  /\ closed \subseteq Audits
  /\ auditObj \in [Refs -> Audit]
  /\ jobObj \in [Refs -> Job]
  /\ bean \in [Beans -> Fields]
  /\ pass \in [Passes -> PassState]

Init ==
  /\ audits = [a \in Audits |-> Open]
  /\ jobs = [a \in Audits |-> "INPROGRESS"]
  /\ approved = {}
  /\ closed = {}
  /\ auditObj = [r \in Refs |-> Open]
  /\ jobObj = [r \in Refs |-> [of |-> r[2], status |-> "INPROGRESS"]]
  /\ bean = [o \in Beans |-> [audit |-> NoRef, job |-> NoRef]]
  /\ pass = [p \in Passes |-> Idle]

-----------------------------------------------------------------------------
Field(p) == bean[BeanOf[p]]

Goes(p, pc) == pass' = [pass EXCEPT ![p].pc = pc]

Continues(p) ==
  pass' = [pass EXCEPT ![p] = [Idle EXCEPT !.pc = "accept", !.todo = pass[p].todo]]

\* getWaitingStatusAuditDoc: the documents are read into memory.
Start(p) ==
  LET waiting == {a \in Audits : audits[a].status = "INPROGRESS"}
  IN /\ pass[p].pc = "idle"
     /\ pass' = [pass EXCEPT ![p] =
           [@ EXCEPT !.pc = "accept", !.todo = waiting]]
     /\ auditObj' = [r \in Refs |-> IF r[1] = p THEN audits[r[2]] ELSE auditObj[r]]
     /\ UNCHANGED <<store, jobObj, bean>>

\* accept: the audit goes to the field, ...
Accept(p) ==
  /\ pass[p].pc = "accept"
  /\ \E a \in pass[p].todo :
       /\ pass' = [pass EXCEPT ![p] =
             [pass[p] EXCEPT !.pc = "load", !.todo = @ \ {a},
                              !.own = <<p, a>>]]
       /\ bean' = [bean EXCEPT ![BeanOf[p]].audit = <<p, a>>]
  /\ UNCHANGED <<store, auditObj, jobObj>>

\* ... and the job of the audit the field holds by now is read.
Load(p) ==
  LET a == Field(p).audit[2]
  IN /\ pass[p].pc = "load"
     /\ jobObj' = [jobObj EXCEPT ![pass[p].own] = [of |-> a, status |-> jobs[a]]]
     /\ bean' = [bean EXCEPT ![BeanOf[p]].job = pass[p].own]
     /\ Goes(p, "ask")
     /\ UNCHANGED <<store, auditObj>>

\* getStatusWithAnalysisId: JN is asked about the analysis in the field.
Ask(p) ==
  LET a == Field(p).audit[2]
  IN /\ pass[p].pc = "ask"
     /\ \E cleared \in BOOLEAN :
          /\ pass' = [pass EXCEPT ![p] =
                [@ EXCEPT !.pc = "post", !.cleared = cleared]]
          /\ approved' = IF cleared THEN approved \cup {a} ELSE approved
     /\ UNCHANGED <<audits, jobs, closed, auditObj, jobObj, bean>>

\* Mutants: every completed analysis counts as success; the status JN answers
\* is stored as it is.
PostCompleted(p) ==
  /\ pass[p].pc = "post"
  /\ \E status \in {"SUCCESS", "INPROGRESS"} :
       /\ pass' = [pass EXCEPT ![p] =
             [@ EXCEPT !.pc = "record",
                       !.audit = Field(p).audit,
                       !.job = Field(p).job,
                       !.status = status]]
       /\ auditObj' = [auditObj EXCEPT ![Field(p).audit].status =
                         IF status = "INPROGRESS" THEN @ ELSE status]
  /\ UNCHANGED <<store, jobObj, bean>>

PostRawStatus(p) ==
  /\ pass[p].pc = "post"
  /\ pass' = [pass EXCEPT ![p] =
        [@ EXCEPT !.pc = "record",
                  !.audit = Field(p).audit,
                  !.job = Field(p).job,
                  !.status = IF pass[p].cleared THEN "SUCCESS" ELSE "FAILURE"]]
  /\ auditObj' = [auditObj EXCEPT ![Field(p).audit].status = "COMPLETED"]
  /\ UNCHANGED <<store, jobObj, bean>>

\* postProcessing is called with what the fields hold after JN has answered.
Post(p) ==
  /\ pass[p].pc = "post"
  /\ \E status \in IF pass[p].cleared THEN {"SUCCESS"} ELSE {"FAILURE", "INPROGRESS"} :
       /\ pass' = [pass EXCEPT ![p] =
             [@ EXCEPT !.pc = "record",
                       !.audit = Field(p).audit,
                       !.job = Field(p).job,
                       !.status = status]]
       /\ auditObj' = [auditObj EXCEPT ![Field(p).audit].status =
                         IF status = "INPROGRESS" THEN @ ELSE status]
  /\ UNCHANGED <<store, jobObj, bean>>

Record(p) ==
  LET audit == pass[p].audit
  IN /\ pass[p].pc = "record"
     /\ audits' = [audits EXCEPT ![audit[2]] = auditObj[audit]]
     /\ IF pass[p].status = "INPROGRESS" THEN Continues(p) ELSE Goes(p, "sync")
     /\ UNCHANGED <<jobs, approved, closed, auditObj, jobObj, bean>>

\* bugAutoCloserAndAuditSync: Chiron is told the status the audit object has
\* now.  Whether attempts are left decides between giving up and a retry.
Sync(p) ==
  LET Sets(status) == jobObj' = [jobObj EXCEPT ![pass[p].job].status = status]
      Tells(status) ==
        pass' = [pass EXCEPT ![p] =
              [@ EXCEPT !.pc = "tell", !.status = status]]
  IN /\ pass[p].pc = "sync"
     /\ \/ /\ pass[p].status = "SUCCESS"
           /\ Sets("SUCCESS")
           /\ Tells(auditObj[pass[p].audit].status)
        \/ pass[p].status = "FAILURE" /\ Sets("FAILURE") /\ Tells("FAILURE")
        \/ pass[p].status = "FAILURE" /\ Sets("READY") /\ Goes(p, "save")
     /\ UNCHANGED <<store, auditObj, bean>>

\* updateChiron: the closure is accepted, or the update changes nothing here.
Tell(p) ==
  LET a == pass[p].audit[2]
  IN /\ pass[p].pc = "tell"
     /\ \/ pass[p].status = "SUCCESS" /\ closed' = closed \cup {a} /\ Goes(p, "flag")
        \/ Goes(p, "save") /\ UNCHANGED closed
     /\ UNCHANGED <<audits, jobs, approved, auditObj, jobObj, bean>>

Flag(p) ==
  /\ pass[p].pc = "flag"
  /\ audits' = [audits EXCEPT ![pass[p].audit[2]].closed = TRUE]
  /\ Goes(p, "save")
  /\ UNCHANGED <<jobs, approved, closed, auditObj, jobObj, bean>>

\* saveBugDetail of the job object, whatever it says now.
Save(p) ==
  LET job == jobObj[pass[p].job]
  IN /\ pass[p].pc = "save"
     /\ jobs' = [jobs EXCEPT ![job.of] = job.status]
     /\ Continues(p)
     /\ UNCHANGED <<audits, approved, closed, auditObj, jobObj, bean>>

Next ==
  \E p \in Passes :
    \/ Start(p) \/ Accept(p) \/ Load(p) \/ Ask(p) \/ Post(p) \/ Record(p)
    \/ Sync(p) \/ Tell(p) \/ Flag(p) \/ Save(p)

Spec == Init /\ [][Next]_vars

-----------------------------------------------------------------------------
(***************************************************************************)
(* Properties.                                                             *)
(***************************************************************************)

\* A bug is closed in Chiron only after JN cleared the analysis of that bug.
ClosedOnlyWhenCleared == closed \subseteq approved

\* A verdict stored in an audit or in a job is one JN gave for that bug: an
\* answer is never booked on the audit or the job of another bug.
VerdictFits ==
  \A a \in Audits :
    audits[a].status = "SUCCESS" \/ jobs[a] = "SUCCESS" => a \in approved
=============================================================================
