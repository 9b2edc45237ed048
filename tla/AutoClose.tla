----------------------------- MODULE AutoClose -----------------------------
(***************************************************************************)
(* The bug auto-closer: synthetic bugs filed for site errors are analysed  *)
(* again by Juggernaut (JN) until JN says the failure is gone, and are then *)
(* closed in Chiron.                                                       *)
(*                                                                         *)
(* Two scheduled methods of BugAutoCloserSchedular work on two collections *)
(* of documents.  scheduleAutoCloserBugs runs BugAutoCloserServiceImpl, a  *)
(* "closer", which triggers an analysis for every READY job.               *)
(* BugAutoCloserAudit is an "auditor": it opens an audit for every job     *)
(* that is INPROGRESS, hands the audits that are due to a detached         *)
(* "worker" (BugAutoCloserSchedularAuditServices), which asks JN for the   *)
(* verdict, and closes in Chiron the bugs whose audit succeeded.           *)
(*                                                                         *)
(* A document is read and saved as a whole, with no condition on the save; *)
(* a step of a pass is one access to a document or one call to Chiron.     *)
(* Neither scheduled method looks at the master election, so every node    *)
(* runs both, and a pass that outlives the 30 minutes between two starts   *)
(* overlaps the next one: Closers, Auditors and Workers are the passes     *)
(* that may be live at once on the whole cluster.  A node has one worker   *)
(* here, whose fields are those of the node's bean: two workers of one     *)
(* node share them, and that is what AuditBean is about.  Whatever is said *)
(* of passes that overlap holds for workers of different nodes.            *)
(*                                                                         *)
(* JN runs what it is asked for from the moment it takes the request,      *)
(* whether or not the pass that asked lives to read and save the answer:   *)
(* owner has every analysis JN runs, lost those whose id reaches no job.   *)
(* A save MongoDB refuses is an instance of Crash.                         *)
(***************************************************************************)
EXTENDS Naturals, FiniteSets

CONSTANTS
  Bugs,        \* synthetic bug ids, the keys of BugAutoCloserSchedularJob
  Ids,         \* JN analysis request ids, the keys of BugAutoCloserAudit
  None,        \* the null analysis id
  Closers, Auditors,
  Workers,     \* the nodes' workers, one live at a time on each node
  RetryCount,  \* <retry-count> of bugAutoCloseConfig.xml
  PickLimit,   \* the retryCount literal in AutoCloseRepository.getBugList
  MaxLost,     \* bound: how many analyses JN starts without its id arriving
  Faults       \* what may go wrong in the environment, out of FaultKinds

FaultKinds == {"chironThrows",   \* 5xx or no connection: the call throws
               "chironRefuses",  \* 4xx, or a body that is not a success
               "jnThrows",       \* token service or JN unreachable, or the
                                 \* answer of JN lost
               "jnRejects",      \* JN answers a trigger with a non-200
               "jnNoId",         \* a 200 without analysisRequestID
               "jnNoStatus",     \* no single matching answer, or a 4xx
               "crash"}          \* the node running a pass stops

ASSUME NoneAssumption == None \notin Ids \cup Bugs
ASSUME RetryAssumption == RetryCount \in Nat \ {0} /\ PickLimit \in Nat
ASSUME LimitAssumption == RetryCount <= PickLimit
ASSUME LostAssumption == MaxLost \in Nat
ASSUME FaultsAssumption == Faults \subseteq FaultKinds

VARIABLES
  jobs,      \* collection BugAutoCloserSchedularJob
  audits,    \* collection BugAutoCloserAudit
  owner,     \* the bug each analysis JN was asked for is about
  lost,      \* analyses whose id no job has or will have (history)
  approved,  \* analyses for which JN answered Update_SR (history)
  chiron,    \* the progressStatus updates Chiron has applied to each bug;
             \* the one with "SUCCESS" closes the bug
  closer, auditor, worker   \* the passes' threads

store == <<jobs, audits, owner, lost, approved, chiron>>
vars == <<store, closer, auditor, worker>>

JobStatus == {"READY", "INPROGRESS", "SUCCESS", "FAILURE"}
NoStatus == "ABSENT"    \* of a document that does not exist

Job == [status: JobStatus \cup {NoStatus}, retryCount: Nat,
        last: Ids \cup {None},   \* id of the last of analysisDetails
        due: BOOLEAN]            \* nextScheduledTime has passed

Audit == [status: JobStatus \cup {NoStatus},
          responses: Nat,        \* size of requestResponseDetails
          due: BOOLEAN,          \* nextPickTime has passed
          closed: BOOLEAN]       \* isClosedByChiron

NoJob == [status |-> NoStatus, retryCount |-> 0, last |-> None, due |-> FALSE]
NoAudit ==
  [status |-> NoStatus, responses |-> 0, due |-> FALSE, closed |-> FALSE]

IdleCloser == [pc |-> "idle", todo |-> {}, bug |-> None, job |-> NoJob]
IdleAuditor ==
  [pc |-> "idle", jobs |-> {}, job |-> <<None, None>>, ids |-> {}, id |-> None]
IdleWorker ==
  [pc |-> "idle", todo |-> {}, id |-> None, doc |-> NoAudit, job |-> NoJob]

CloserState ==
  [pc: {"idle", "fetch", "analyse", "save", "notify"},
   todo: SUBSET Bugs,             \* jobs of the list still to be done
   bug: Bugs \cup {None}, job: Job]

AuditorState ==
  [pc: {"idle", "register", "create", "spawn", "scan", "close", "flag"},
   jobs: SUBSET (Bugs \X (Ids \cup {None})),
   job: (Bugs \cup {None}) \X (Ids \cup {None}),
   ids: SUBSET Ids,               \* audits of the list still to be closed
   id: Ids \cup {None}]

WorkerState ==
  [pc: {"idle", "accept", "query", "close", "flag", "giveup", "save"},
   todo: SUBSET [id: Ids, doc: Audit],
   id: Ids \cup {None}, doc: Audit, job: Job]

TypeOK ==
  /\ jobs \in [Bugs -> Job]
  /\ audits \in [Ids -> Audit]
  /\ owner \in [Ids -> Bugs \cup {None}]
  /\ lost \subseteq Ids
  /\ approved \subseteq Ids
  /\ chiron \in [Bugs -> SUBSET JobStatus]
  /\ closer \in [Closers -> CloserState]
  /\ auditor \in [Auditors -> AuditorState]
  /\ worker \in [Workers -> WorkerState]

Init ==
  /\ jobs = [b \in Bugs |-> NoJob]
  /\ audits = [a \in Ids |-> NoAudit]
  /\ owner = [a \in Ids |-> None]
  /\ lost = {}
  /\ approved = {}
  /\ chiron = [b \in Bugs |-> {}]
  /\ closer = [c \in Closers |-> IdleCloser]
  /\ auditor = [s \in Auditors |-> IdleAuditor]
  /\ worker = [w \in Workers |-> IdleWorker]

-----------------------------------------------------------------------------
(***************************************************************************)
(* Calls and time.                                                         *)
(***************************************************************************)

\* The bug in Chiron after it took an update with the given status.
Updated(b, status) == [chiron EXCEPT ![b] = @ \cup {status}]

\* updateChiron: the update is accepted, refused (4xx and unsuccessful bodies
\* are swallowed), or the call throws, with or without having been applied.
UpdateChiron(b, status, Accepted, Refused, Thrown) ==
  \/ chiron' = Updated(b, status) /\ Accepted
  \/ "chironRefuses" \in Faults /\ UNCHANGED chiron /\ Refused
  \/ /\ "chironThrows" \in Faults
     /\ chiron' \in {chiron, Updated(b, status)}
     /\ Thrown

\* BugCreatorStep files a job for a new bug.
CreateJob(b) ==
  /\ jobs[b].status = NoStatus
  /\ jobs' = [jobs EXCEPT ![b].status = "READY"]
  /\ UNCHANGED <<audits, owner, lost, approved, chiron, closer, auditor, worker>>

\* The retry interval of a job, or of an audit, is over.  It matters only in
\* the states the two queries select.
JobDue(b) ==
  /\ jobs[b].status = "READY" /\ ~jobs[b].due
  /\ jobs' = [jobs EXCEPT ![b].due = TRUE]
  /\ UNCHANGED <<audits, owner, lost, approved, chiron, closer, auditor, worker>>

AuditDue(a) ==
  /\ audits[a].status = "INPROGRESS" /\ ~audits[a].due
  /\ audits' = [audits EXCEPT ![a].due = TRUE]
  /\ UNCHANGED <<jobs, owner, lost, approved, chiron, closer, auditor, worker>>

-----------------------------------------------------------------------------
(***************************************************************************)
(* A closer: one run of scheduleAutoCloserBugs.                            *)
(***************************************************************************)

\* Mutant: the limit is one too low.
PickableTooFew(b) ==
  /\ jobs[b].status = "READY"
  /\ jobs[b].due
  /\ jobs[b].retryCount + 1 < PickLimit

\* getBugList.
Pickable(b) ==
  /\ jobs[b].status = "READY"
  /\ jobs[b].due
  /\ jobs[b].retryCount < PickLimit

CloserStart(c) ==
  /\ closer[c].pc = "idle"
  /\ \E b \in Bugs : Pickable(b)
  /\ closer' = [closer EXCEPT ![c] =
        [@ EXCEPT !.pc = "fetch", !.todo = {b \in Bugs : Pickable(b)}]]
  /\ UNCHANGED <<store, auditor, worker>>

\* getBugDetails and getById: the job is read again, its status is not.
CloserFetch(c) ==
  /\ closer[c].pc = "fetch"
  /\ \E b \in closer[c].todo :
       closer' = [closer EXCEPT ![c] =
         [pc |-> "analyse", todo |-> @.todo \ {b}, bug |-> b, job |-> jobs[b]]]
  /\ UNCHANGED <<store, auditor, worker>>

\* Nothing in the loop catches: an exception ends the pass for every bug left.
CloserAborts(c) ==
  /\ closer' = [closer EXCEPT ![c] = IdleCloser]
  /\ UNCHANGED <<auditor, worker>>

CloserFetchThrows(c) ==
  /\ closer[c].pc = "fetch"
  /\ Faults \cap {"chironThrows", "chironRefuses"} # {}
  /\ CloserAborts(c)
  /\ UNCHANGED store

\* JN takes the request and runs an analysis of the bug.
Issues(b, a) ==
  /\ owner[a] = None
  /\ owner' = [owner EXCEPT ![a] = b]

\* The id of an analysis does not arrive: JN may run one all the same.
Unheard(b) ==
  \/ UNCHANGED <<owner, lost>>
  \/ /\ Cardinality(lost) < MaxLost
     /\ \E a \in Ids : Issues(b, a) /\ lost' = lost \cup {a}

\* analyseThroughJN throws, before JN took the request or after.
CloserAnalyseThrows(c) ==
  /\ closer[c].pc = "analyse"
  /\ "jnThrows" \in Faults
  /\ Unheard(closer[c].bug)
  /\ CloserAborts(c)
  /\ UNCHANGED <<jobs, audits, approved, chiron>>

\* Mutants: the attempt is not counted; attempts are counted down.
AnalysingUncounted(job, id) ==
  [job EXCEPT !.status = "INPROGRESS", !.last = id, !.due = FALSE]

AnalysingCountsDown(job, id) ==
  [job EXCEPT !.status = "INPROGRESS", !.retryCount = @ - 1,
              !.last = id, !.due = FALSE]

Analysing(job, id) ==
  [job EXCEPT !.status = "INPROGRESS", !.retryCount = @ + 1,
              !.last = id, !.due = FALSE]

\* The job as read is changed after JN's answer, and saved one step later.
CloserChanges(c, job) ==
  /\ closer[c].pc = "analyse"
  /\ closer' = [closer EXCEPT ![c] = [@ EXCEPT !.pc = "save", !.job = job]]
  /\ UNCHANGED <<jobs, audits, approved, chiron, auditor, worker>>

\* analyseThroughJN: JN takes the request, and answers with the id or without.
CloserTrigger(c) ==
  \/ \E a \in Ids : /\ Issues(closer[c].bug, a)
                   /\ CloserChanges(c, Analysing(closer[c].job, a))
                   /\ UNCHANGED lost
  \/ /\ "jnNoId" \in Faults
     /\ Unheard(closer[c].bug)
     /\ CloserChanges(c, Analysing(closer[c].job, None))

\* Mutant: the failure is saved but Chiron is not told.
CloserRejectSilently(c) ==
  /\ "jnRejects" \in Faults
  /\ closer[c].pc = "analyse"
  /\ jobs' = [jobs EXCEPT ![closer[c].bug] =
                [closer[c].job EXCEPT !.status = "FAILURE", !.last = None]]
  /\ closer' = [closer EXCEPT ![c] = IdleCloser]
  /\ UNCHANGED <<audits, owner, lost, approved, chiron, auditor, worker>>

\* JN did not answer 200: the entry appended to the analyses has no id.
CloserReject(c) ==
  /\ "jnRejects" \in Faults
  /\ CloserChanges(c, [closer[c].job EXCEPT !.status = "FAILURE", !.last = None])
  /\ UNCHANGED <<owner, lost>>

\* saveBugDetail, of the whole document.
CloserSave(c) ==
  /\ closer[c].pc = "save"
  /\ jobs' = [jobs EXCEPT ![closer[c].bug] = closer[c].job]
  /\ closer' = [closer EXCEPT ![c] = [@ EXCEPT !.pc = "notify"]]
  /\ UNCHANGED <<audits, owner, lost, approved, chiron, auditor, worker>>

\* updateChiron with the status just saved, then the next bug.
CloserNotify(c) ==
  LET next == IF closer[c].todo = {} THEN IdleCloser
              ELSE [IdleCloser EXCEPT !.pc = "fetch", !.todo = closer[c].todo]
      Go(state) == closer' = [closer EXCEPT ![c] = state]
  IN /\ closer[c].pc = "notify"
     /\ UpdateChiron(closer[c].bug, closer[c].job.status,
                     Go(next), Go(next), Go(IdleCloser))
     /\ UNCHANGED <<jobs, audits, owner, lost, approved, auditor, worker>>

CloserStep(c) ==
  \/ CloserFetch(c) \/ CloserFetchThrows(c) \/ CloserAnalyseThrows(c)
  \/ CloserTrigger(c) \/ CloserReject(c) \/ CloserSave(c) \/ CloserNotify(c)

-----------------------------------------------------------------------------
(***************************************************************************)
(* An auditor: the scheduler thread in one run of BugAutoCloserAudit.      *)
(***************************************************************************)

AuditorGoes(s, state) ==
  /\ auditor' = [auditor EXCEPT ![s] = state]
  /\ UNCHANGED closer

\* getJobsForAuditing.
AuditorStart(s) ==
  LET inProgress == {b \in Bugs : jobs[b].status = "INPROGRESS"}
  IN /\ auditor[s].pc = "idle"
     /\ AuditorGoes(s, [IdleAuditor EXCEPT
          !.pc = "register", !.jobs = {<<b, jobs[b].last>> : b \in inProgress}])
     /\ UNCHANGED <<store, worker>>

\* Mutant: an audit that exists already is created again.
AuditorRegisterAgain(s) ==
  /\ auditor[s].pc = "register"
  /\ \/ /\ auditor[s].jobs = {}
        /\ AuditorGoes(s, [auditor[s] EXCEPT !.pc = "spawn"])
     \/ \E j \in auditor[s].jobs :
          /\ j[2] \in Ids
          /\ AuditorGoes(s, [auditor[s] EXCEPT
               !.jobs = @ \ {j}, !.pc = "create", !.job = j])
  /\ UNCHANGED <<store, worker>>

\* One turn of the loop in saveBugAutoCloserAudit: a look-up by analysis id.
AuditorRegister(s) ==
  /\ auditor[s].pc = "register"
  /\ \/ /\ auditor[s].jobs = {}
        /\ AuditorGoes(s, [auditor[s] EXCEPT !.pc = "spawn"])
     \/ \E j \in auditor[s].jobs :
          /\ j[2] \in Ids
          /\ AuditorGoes(s, [auditor[s] EXCEPT
               !.jobs = @ \ {j},
               !.pc = IF audits[j[2]].status = NoStatus THEN "create" ELSE @,
               !.job = IF audits[j[2]].status = NoStatus THEN j ELSE @])
  /\ UNCHANGED <<store, worker>>

\* findById(null) is refused with an exception, which ends the whole run.
AuditorRegisterThrows(s) ==
  /\ auditor[s].pc = "register"
  /\ \E j \in auditor[s].jobs : j[2] = None
  /\ AuditorGoes(s, IdleAuditor)
  /\ UNCHANGED <<store, worker>>

AuditorCreate(s) ==
  /\ auditor[s].pc = "create"
  /\ audits' = [audits EXCEPT ![auditor[s].job[2]] =
                  [NoAudit EXCEPT !.status = "INPROGRESS"]]
  /\ AuditorGoes(s, [auditor[s] EXCEPT
                       !.pc = "register", !.job = IdleAuditor.job])
  /\ UNCHANGED <<jobs, owner, lost, approved, chiron, worker>>

\* getWaitingStatusAuditDoc: the documents themselves go to a new worker.
WaitingAudits ==
  {[id |-> a, doc |-> audits[a]] :
     a \in {x \in Ids : audits[x].status = "INPROGRESS" /\ audits[x].due}}

AuditorSpawn(s) ==
  /\ auditor[s].pc = "spawn"
  /\ AuditorGoes(s, [auditor[s] EXCEPT !.pc = "scan"])
  /\ IF WaitingAudits = {} THEN UNCHANGED worker
     ELSE \E w \in Workers :
            /\ worker[w].pc = "idle"
            /\ worker' = [worker EXCEPT ![w] =
                  [@ EXCEPT !.pc = "accept", !.todo = WaitingAudits]]
  /\ UNCHANGED store

\* Mutants: the status is not part of the query; the flag is tested for true.
UnclosedAnyStatus == {a \in Ids : audits[a].status # NoStatus /\ ~audits[a].closed}

UnclosedSwapped == {a \in Ids : audits[a].status = "SUCCESS" /\ audits[a].closed}

\* getSuccessAndNotClosedByChironBugs.
Unclosed == {a \in Ids : audits[a].status = "SUCCESS" /\ ~audits[a].closed}

Closing(ids) ==
  IF ids = {} THEN IdleAuditor
  ELSE [IdleAuditor EXCEPT !.pc = "close", !.ids = ids]

AuditorScan(s) ==
  /\ auditor[s].pc = "scan"
  /\ AuditorGoes(s, Closing(Unclosed))
  /\ UNCHANGED <<store, worker>>

AuditorClose(s) ==
  /\ auditor[s].pc = "close"
  /\ \E a \in auditor[s].ids :
       LET rest == auditor[s].ids \ {a}
       IN UpdateChiron(owner[a], "SUCCESS",
            AuditorGoes(s, [IdleAuditor EXCEPT
                              !.pc = "flag", !.ids = rest, !.id = a]),
            AuditorGoes(s, Closing(rest)),
            AuditorGoes(s, IdleAuditor))
  /\ UNCHANGED <<jobs, audits, owner, lost, approved, worker>>

\* The end of updateChiron: the audit is read again and saved as closed.
AuditorFlag(s) ==
  /\ auditor[s].pc = "flag"
  /\ audits' = [audits EXCEPT ![auditor[s].id].closed = TRUE]
  /\ AuditorGoes(s, Closing(auditor[s].ids))
  /\ UNCHANGED <<jobs, owner, lost, approved, chiron, worker>>

AuditorStep(s) ==
  \/ AuditorRegister(s) \/ AuditorRegisterThrows(s) \/ AuditorCreate(s)
  \/ AuditorSpawn(s) \/ AuditorScan(s) \/ AuditorClose(s) \/ AuditorFlag(s)

-----------------------------------------------------------------------------
(***************************************************************************)
(* A worker: the executor thread started by one run of BugAutoCloserAudit. *)
(***************************************************************************)

WorkerGoes(w, state) ==
  /\ worker' = [worker EXCEPT ![w] = state]
  /\ UNCHANGED <<closer, auditor>>

Remaining(todo) ==
  IF todo = {} THEN IdleWorker
  ELSE [IdleWorker EXCEPT !.pc = "accept", !.todo = todo]

\* An exception leaves the audit at hand.  ServiceBase.execute, outside the
\* repository, decides whether it also ends the loop over the others.
WorkerThrows(w) == \E todo \in {{}, worker[w].todo} : WorkerGoes(w, Remaining(todo))

\* accept: the job of the audit is read now, the audit was read at the spawn.
\* id, doc and job are the bean's fields jnAnalysisId, autoCloserAudit and
\* bugAutoCloser, read again at each use: they stay the worker's own because
\* it is the only one at work on its node (AuditBean has several).
WorkerAccept(w) ==
  /\ worker[w].pc = "accept"
  /\ \E e \in worker[w].todo :
       WorkerGoes(w, [pc |-> "query", todo |-> worker[w].todo \ {e},
                      id |-> e.id, doc |-> e.doc, job |-> jobs[owner[e.id]]])
  /\ UNCHANGED store

\* Mutants: the audit is saved before its status is set; the answer is not
\* added to the audit.
WorkerRecordsNoStatus(w, status) ==
  /\ worker[w].pc = "query"
  /\ audits' = [audits EXCEPT ![worker[w].id] =
       [worker[w].doc EXCEPT !.responses = @ + 1,
                             !.due = IF status = "INPROGRESS" THEN FALSE ELSE @]]
  /\ UNCHANGED <<jobs, owner, lost, chiron>>

WorkerRecordsNoResponse(w, status) ==
  /\ worker[w].pc = "query"
  /\ audits' = [audits EXCEPT ![worker[w].id] =
       [worker[w].doc EXCEPT !.status = status,
                             !.due = IF status = "INPROGRESS" THEN FALSE ELSE @]]
  /\ UNCHANGED <<jobs, owner, lost, chiron>>

\* postProcessing up to the save of the audit.
WorkerRecords(w, status) ==
  /\ worker[w].pc = "query"
  /\ audits' = [audits EXCEPT ![worker[w].id] =
       [worker[w].doc EXCEPT !.status = status, !.responses = @ + 1,
                             !.due = IF status = "INPROGRESS" THEN FALSE ELSE @]]
  /\ UNCHANGED <<jobs, owner, lost, chiron>>

\* The rest of bugAutoCloserAndAuditSync works on the job as accept read it.
WorkerSyncs(w, pc, job) ==
  WorkerGoes(w, [worker[w] EXCEPT !.pc = pc, !.doc = NoAudit, !.job = job])

\* Mutant: the two outcomes are swapped on the job.
WorkerApprovesSwapped(w) ==
  /\ WorkerRecords(w, "SUCCESS")
  /\ approved' = approved \cup {worker[w].id}
  /\ WorkerSyncs(w, "close", [worker[w].job EXCEPT !.status = "FAILURE"])

\* JN answers Update_SR: the failure is gone.
WorkerApproves(w) ==
  /\ WorkerRecords(w, "SUCCESS")
  /\ approved' = approved \cup {worker[w].id}
  /\ WorkerSyncs(w, "close", [worker[w].job EXCEPT !.status = "SUCCESS"])

\* No answer may still count once RetryCount answers were recorded.
LastResponse(w) == worker[w].doc.responses + 1 >= RetryCount

\* Mutants: the retry count is compared with >; it is not compared at all.
WorkerFailsLate(w) ==
  LET job == worker[w].job
  IN /\ WorkerRecords(w, "FAILURE")
     /\ UNCHANGED approved
     /\ IF job.retryCount > RetryCount
        THEN WorkerSyncs(w, "giveup", [job EXCEPT !.status = "FAILURE"])
        ELSE WorkerSyncs(w, "save", [job EXCEPT !.status = "READY", !.due = FALSE])

WorkerFailsAtOnce(w) ==
  /\ WorkerRecords(w, "FAILURE")
  /\ UNCHANGED approved
  /\ WorkerSyncs(w, "giveup", [worker[w].job EXCEPT !.status = "FAILURE"])

\* JN answers COMPLETED without Update_SR, or with anything for the last time.
WorkerFails(w) ==
  LET job == worker[w].job
  IN /\ WorkerRecords(w, "FAILURE")
     /\ UNCHANGED approved
     /\ IF job.retryCount >= RetryCount
        THEN WorkerSyncs(w, "giveup", [job EXCEPT !.status = "FAILURE"])
        ELSE WorkerSyncs(w, "save", [job EXCEPT !.status = "READY", !.due = FALSE])

\* JN is still at work: ask again after the retry interval.
WorkerPostpones(w) ==
  /\ ~LastResponse(w)
  /\ WorkerRecords(w, "INPROGRESS")
  /\ UNCHANGED approved
  /\ WorkerGoes(w, Remaining(worker[w].todo))

\* JN throws, or the answer has no status: equals on null, nothing saved.
WorkerQueryThrows(w) ==
  /\ worker[w].pc = "query"
  /\ "jnThrows" \in Faults \/ ("jnNoStatus" \in Faults /\ ~LastResponse(w))
  /\ WorkerThrows(w)
  /\ UNCHANGED store

\* Mutant: the answer of Chiron is not looked at before the audit is flagged.
WorkerCloseUnchecked(w) ==
  /\ worker[w].pc = "close"
  /\ UpdateChiron(owner[worker[w].id], "SUCCESS",
       WorkerGoes(w, [worker[w] EXCEPT !.pc = "flag"]),
       WorkerGoes(w, [worker[w] EXCEPT !.pc = "flag"]),
       WorkerThrows(w))
  /\ UNCHANGED <<jobs, audits, owner, lost, approved>>

\* updateChiron on success, then on giving up.
WorkerClose(w) ==
  /\ worker[w].pc = "close"
  /\ UpdateChiron(owner[worker[w].id], "SUCCESS",
       WorkerGoes(w, [worker[w] EXCEPT !.pc = "flag"]),
       WorkerGoes(w, [worker[w] EXCEPT !.pc = "save"]),
       WorkerThrows(w))
  /\ UNCHANGED <<jobs, audits, owner, lost, approved>>

WorkerFlag(w) ==
  /\ worker[w].pc = "flag"
  /\ audits' = [audits EXCEPT ![worker[w].id].closed = TRUE]
  /\ WorkerGoes(w, [worker[w] EXCEPT !.pc = "save"])
  /\ UNCHANGED <<jobs, owner, lost, approved, chiron>>

\* Mutant: the job is not saved after Chiron was told.
WorkerGiveUpUnsaved(w) ==
  LET next == WorkerGoes(w, Remaining(worker[w].todo))
  IN /\ worker[w].pc = "giveup"
     /\ UpdateChiron(owner[worker[w].id], "FAILURE", next, next, WorkerThrows(w))
     /\ UNCHANGED <<jobs, audits, owner, lost, approved>>

WorkerGiveUp(w) ==
  LET saving == WorkerGoes(w, [worker[w] EXCEPT !.pc = "save"])
  IN /\ worker[w].pc = "giveup"
     /\ UpdateChiron(owner[worker[w].id], "FAILURE", saving, saving, WorkerThrows(w))
     /\ UNCHANGED <<jobs, audits, owner, lost, approved>>

WorkerSave(w) ==
  /\ worker[w].pc = "save"
  /\ jobs' = [jobs EXCEPT ![owner[worker[w].id]] = worker[w].job]
  /\ WorkerGoes(w, Remaining(worker[w].todo))
  /\ UNCHANGED <<audits, owner, lost, approved, chiron>>

WorkerStep(w) ==
  \/ WorkerAccept(w) \/ WorkerApproves(w) \/ WorkerFails(w)
  \/ WorkerPostpones(w) \/ WorkerQueryThrows(w) \/ WorkerClose(w)
  \/ WorkerFlag(w) \/ WorkerGiveUp(w) \/ WorkerSave(w)

-----------------------------------------------------------------------------
\* The analysis a closer has the id of and has yet to save with its job.
InHand(c) == IF closer[c].pc = "save" THEN {closer[c].job.last} \cap Ids ELSE {}

\* A node stops, and its passes with it; the collections are kept.  A save that
\* Mongo refuses ends a pass just so.
Crash ==
  /\ "crash" \in Faults
  /\ \/ \E c \in Closers : /\ closer[c].pc # "idle" /\ CloserAborts(c)
                           /\ lost' = lost \cup InHand(c)
     \/ \E s \in Auditors : /\ auditor[s].pc # "idle"
                            /\ AuditorGoes(s, IdleAuditor) /\ UNCHANGED <<lost, worker>>
     \/ \E w \in Workers : worker[w].pc # "idle" /\ WorkerGoes(w, IdleWorker)
                           /\ UNCHANGED lost
  /\ UNCHANGED <<jobs, audits, owner, approved, chiron>>

Next ==
  \/ \E b \in Bugs : CreateJob(b) \/ JobDue(b)
  \/ \E a \in Ids : AuditDue(a)
  \/ \E c \in Closers : CloserStart(c) \/ CloserStep(c)
  \/ \E s \in Auditors : AuditorStart(s) \/ AuditorStep(s)
  \/ \E w \in Workers : WorkerStep(w)
  \/ Crash

Spec == Init /\ [][Next]_vars

\* Both methods are scheduled every 30 minutes, executor threads run to their
\* end, retry intervals elapse.
Fairness ==
  /\ \A b \in Bugs : WF_vars(JobDue(b))
  /\ \A a \in Ids : WF_vars(AuditDue(a))
  /\ \A c \in Closers : WF_vars(CloserStart(c)) /\ WF_vars(CloserStep(c))
  /\ \A s \in Auditors : WF_vars(AuditorStart(s)) /\ WF_vars(AuditorStep(s))
  /\ \A w \in Workers : WF_vars(WorkerStep(w))

FairSpec == Spec /\ Fairness

\* Chiron and JN do not fail one and the same call for ever.
ClosesAudit(s, a) ==
  AuditorClose(s) /\ auditor'[s].pc = "flag" /\ auditor'[s].id = a

Recovers ==
  /\ \A c \in Closers : /\ SF_vars(CloserFetch(c))
                        /\ SF_vars(CloserTrigger(c) \/ CloserReject(c))
  /\ \A s \in Auditors, a \in Ids : SF_vars(ClosesAudit(s, a))
  /\ \A w \in Workers :
       SF_vars(WorkerApproves(w) \/ WorkerFails(w) \/ WorkerPostpones(w))

RecoverySpec == FairSpec /\ Recovers

-----------------------------------------------------------------------------
(***************************************************************************)
(* Properties.                                                             *)
(***************************************************************************)

Resolved == {"SUCCESS", "FAILURE"}
Issued(b) == {a \in Ids : owner[a] = b}

\* A bug is closed in Chiron only after JN answered Update_SR for an analysis
\* of that very bug, whatever is refused, lost or dies half-way.  The worker
\* of a node is alone on its bean here: of two that share one, AuditBean shows
\* the contrary.
ClosedOnlyOnApproval ==
  \A b \in Bugs : "SUCCESS" \in chiron[b] => \E a \in approved : owner[a] = b

\* isClosedByChiron is never set for a bug Chiron has not closed, or the
\* auditor would stop trying to close it.
FlagMeansClosed ==
  \A a \in Ids : audits[a].closed => "SUCCESS" \in chiron[owner[a]]

\* No job waits for a closer that will never pick it: the limit written in
\* getBugList is not below the configured retry count at which the worker
\* gives up.
NoStrandedJob ==
  \A b \in Bugs : jobs[b].status = "READY" => jobs[b].retryCount < PickLimit

\* Analyses of a bug whose id was saved with a job.
Tallied(b) == Issued(b) \ (lost \cup UNION {InHand(c) : c \in Closers})

\* JN is asked for an analysis that retryCount does not count only by a pass
\* that loses JN's answer, or dies before it saves the job: the next pass asks
\* again, and that has no bound.  All others are counted, none twice, and are
\* at most as many as configured.
AttemptsCounted ==
  \A b \in Bugs : /\ Cardinality(Tallied(b)) <= jobs[b].retryCount
                  /\ jobs[b].retryCount <= RetryCount

\* An audit is open only for the latest analysis of a job in progress: two
\* analyses of a bug are never tracked at once, and none outlives its job.
OpenAuditIsCurrent ==
  \A a \in Ids : audits[a].status = "INPROGRESS" =>
    LET job == jobs[owner[a]] IN job.status = "INPROGRESS" /\ job.last = a

\* Chiron is never told both that the bug is closed and that its analysis
\* failed, and a closed bug is not analysed again.
OneOutcomeInChiron ==
  \A b \in Bugs : "SUCCESS" \in chiron[b] =>
    /\ "FAILURE" \notin chiron[b]
    /\ jobs[b].status \in {"INPROGRESS", "SUCCESS"}

\* A verdict recorded in an audit, or in a job, is never overwritten, and an
\* audit known to be closed stays so.
VerdictIsFinal ==
  [][/\ \A a \in Ids :
          /\ audits[a].status \in Resolved => audits'[a].status = audits[a].status
          /\ audits[a].closed => audits'[a].closed
     /\ \A b \in Bugs :
          jobs[b].status \in Resolved => jobs'[b].status = jobs[b].status]_vars

\* bugAutoCloserAndAuditSync: once no worker is at it, a verdict recorded in
\* the audit of a job's latest analysis has reached the job, where Chiron does
\* not throw, no node stops and no two workers share a bean.
InSync ==
  \A a \in Ids :
    /\ audits[a].status \in Resolved
    /\ \A w \in Workers : worker[w].id # a
    => LET job == jobs[owner[a]] IN ~(job.status = "INPROGRESS" /\ job.last = a)

\* When a job has ended and nobody is about to report it, Chiron knows, where
\* Chiron answers and accepts, no node stops and no two workers share a bean.
OutcomeReported ==
  \A b \in Bugs :
    /\ jobs[b].status \in Resolved
    /\ \A c \in Closers : closer[c].pc = "notify" => closer[c].bug # b
    => jobs[b].status \in chiron[b]

\* Every job is eventually closed or given up.
EveryJobEnds ==
  \A b \in Bugs : jobs[b].status = "READY" ~> jobs[b].status \in Resolved

\* Every open audit is eventually decided.
EveryAuditEnds ==
  \A a \in Ids :
    audits[a].status = "INPROGRESS" ~> audits[a].status \in Resolved

\* A bug JN has cleared is eventually closed in Chiron.
ApprovedIsClosed ==
  \A a \in Ids : a \in approved ~> \E b \in Bugs : owner[a] = b /\ "SUCCESS" \in chiron[b]

\* The passes implement the life cycle: bounded attempts and one outcome for
\* every bug, whatever fails on the way, as long as passes do not overlap.
Lifecycle == INSTANCE AutoCloseLifecycle WITH
  MaxAttempts <- RetryCount,
  status <- [b \in Bugs |-> jobs[b].status],
  attempts <- [b \in Bugs |-> jobs[b].retryCount],
  cleared <- {b \in Bugs : \E a \in approved : owner[a] = b},
  closed <- {b \in Bugs : "SUCCESS" \in chiron[b]}

ImplementsLifecycle == Lifecycle!Spec
=============================================================================
