------------------------ MODULE AutoCloseSinglePass ------------------------
(***************************************************************************)
(* Proofs about AutoClose when no pass overlaps another of its kind: at    *)
(* most one closer, one auditor and one worker are live at a time.  The    *)
(* three interleave with each other in every way, there are any number of  *)
(* bugs and analyses, and every fault may happen.  Passes of one kind that *)
(* overlap do break these properties, for the documents are saved with no  *)
(* condition.                                                              *)
(***************************************************************************)
EXTENDS AutoCloseProofs, FiniteSetTheorems

\* No pass is still at work when the next one of its kind starts.
Alone ==
  /\ \A c, d \in Closers : c = d
  /\ \A s, t \in Auditors : s = t
  /\ \A v, w \in Workers : v = w

-----------------------------------------------------------------------------
(***************************************************************************)
(* The inductive invariant: first what holds of the collections, then why  *)
(* what a pass has read is still so when it acts on it.                    *)
(***************************************************************************)

\* The closer may take b: nobody else will touch the job before it does.
Ripe(b) == jobs[b].status = "READY" /\ jobs[b].due

Limited ==
  \A b \in Bugs :
    /\ jobs[b].retryCount <= RetryCount
    /\ jobs[b].status \in {"READY", NoStatus} => jobs[b].retryCount < RetryCount
    /\ jobs[b].last \in Ids => owner[jobs[b].last] = b

\* The analyses whose id was saved with the job of b.
KnownOf(b) == {a \in Known : owner[a] = b}

Counted ==
  \A b \in Bugs : /\ IsFiniteSet(KnownOf(b))
                  /\ Cardinality(KnownOf(b)) <= jobs[b].retryCount

Tracked ==
  \A a \in Ids :
    /\ audits[a].status = "INPROGRESS" => Awaits(owner[a], a)
    /\ audits[a].closed => audits[a].status = "SUCCESS"
    /\ a \in approved => /\ audits[a].status = "SUCCESS"
                         /\ jobs[owner[a]].last = a
                         /\ jobs[owner[a]].status \in {"INPROGRESS", "SUCCESS"}

\* Chiron is told of a failure by a closer that saved it, or by a worker about
\* to save it: if it stops before, the analysis has failed at least.
Failing(b) ==
  \/ jobs[b].status = "FAILURE"
  \/ \E a \in Ids : Awaits(b, a) /\ audits[a].status = "FAILURE"

FailureTold == \A b \in Bugs : "FAILURE" \in chiron[b] => Failing(b)

\* What the closer makes of a job: one attempt more, or a failure.
Changed(job, read) ==
  \/ job.status = "INPROGRESS" /\ job.retryCount = read.retryCount + 1
  \/ /\ job.status = "FAILURE" /\ job.retryCount = read.retryCount
     /\ job.last = None

CloserSound ==
  \A c \in Closers :
    /\ \A b \in closer[c].todo : Ripe(b)
    /\ closer[c].pc \in {"analyse", "save"} => Ripe(closer[c].bug)
    /\ closer[c].pc = "analyse" => closer[c].job = jobs[closer[c].bug]
    /\ closer[c].pc = "save" => Changed(closer[c].job, jobs[closer[c].bug])
    /\ closer[c].pc \in {"analyse", "save", "notify"}
         => closer[c].bug \notin closer[c].todo
    /\ closer[c].pc = "notify" /\ closer[c].job.status = "FAILURE"
         => jobs[closer[c].bug].status = "FAILURE"

\* A job the auditor read and has no audit yet for is as the auditor read it.
Unaudited(j) ==
  j[2] \in Ids => /\ owner[j[2]] = j[1]
                  /\ audits[j[2]].status = NoStatus => Awaits(j[1], j[2])

AuditorSound ==
  \A s \in Auditors :
    /\ \A j \in auditor[s].jobs : Unaudited(j)
    /\ auditor[s].pc = "create" => /\ Unaudited(auditor[s].job)
                                   /\ audits[auditor[s].job[2]].status = NoStatus
    /\ \A a \in auditor[s].ids : audits[a].status = "SUCCESS"
    /\ auditor[s].pc = "flag" => audits[auditor[s].id].status = "SUCCESS"

\* An audit handed to the worker is as the auditor found it.
Fresh(a, doc) == audits[a] = doc /\ doc.status = "INPROGRESS" /\ doc.due

\* The job the worker is about to save agrees with the audit it has saved.
Agrees(a, job) ==
  LET b == owner[a]
  IN /\ Awaits(b, a)
     /\ job.last = a /\ job.retryCount = jobs[b].retryCount
     /\ audits[a].status \in Resolved
     /\ job.status \in {"READY", "SUCCESS", "FAILURE"}
     /\ job.status = "SUCCESS" <=> audits[a].status = "SUCCESS"
     /\ job.status = "READY" =>
          job.retryCount < RetryCount /\ "FAILURE" \notin chiron[b]
     /\ job.status = "FAILURE" => job.retryCount >= RetryCount

WorkerSound ==
  \A w \in Workers :
    LET W == worker[w]
    IN /\ \A e \in W.todo : Fresh(e.id, e.doc)
       /\ W.pc = "query" => Fresh(W.id, W.doc) /\ W.job = jobs[owner[W.id]]
       /\ W.pc \notin {"idle", "accept"} => \A e \in W.todo : e.id # W.id
       /\ W.pc \in {"close", "flag", "giveup", "save"} => Agrees(W.id, W.job)
       /\ W.pc \in {"close", "flag"} => W.job.status = "SUCCESS"
       /\ W.pc = "giveup" => W.job.status = "FAILURE"

StoreSound == Limited /\ Counted /\ Tracked /\ FailureTold

Sound == StoreSound /\ CloserSound /\ AuditorSound /\ WorkerSound

-----------------------------------------------------------------------------
(***************************************************************************)
(* What a step does to the collections, whoever takes it.                  *)
(***************************************************************************)

JobsBut(b) == \A x \in Bugs \ {b} : jobs'[x] = jobs[x]
AuditsBut(a) == \A x \in Ids \ {a} : audits'[x] = audits[x]

\* A job is filed, or its retry interval is over.
Queues(b) ==
  /\ jobs[b].status = NoStatus \/ (jobs[b].status = "READY" /\ ~jobs[b].due)
  /\ jobs'[b].status = "READY"
  /\ jobs'[b].retryCount = jobs[b].retryCount /\ jobs'[b].last = jobs[b].last
  /\ JobsBut(b) /\ UNCHANGED <<audits, owner, lost, approved, chiron>>

\* Analyses may be started, and lost, whose id no job has.
Quiet ==
  /\ \A a \in Known : owner'[a] = owner[a]
  /\ UNCHANGED <<jobs, audits, approved, chiron>>

\* The closer saves a job it had analysed, and one JN refused to analyse.
Asks(b, a) ==
  /\ Ripe(b)
  /\ jobs'[b].status = "INPROGRESS" /\ jobs'[b].last = a
  /\ jobs'[b].retryCount = jobs[b].retryCount + 1
  /\ \/ a \in Ids \ Known /\ owner[a] = b /\ Known' = Known \cup {a}
     \/ a = None /\ Known' = Known
  /\ JobsBut(b) /\ UNCHANGED <<audits, owner, lost, approved, chiron>>

Refuses(b) ==
  /\ Ripe(b)
  /\ jobs'[b].status = "FAILURE" /\ jobs'[b].last = None
  /\ jobs'[b].retryCount = jobs[b].retryCount
  /\ Known' = Known
  /\ JobsBut(b) /\ UNCHANGED <<audits, owner, lost, approved, chiron>>

\* Chiron applies an update that is true of the bug.
Tells(b, v) ==
  /\ v \in JobStatus
  /\ v = "SUCCESS" => \E a \in approved : owner[a] = b
  /\ v = "FAILURE" => Failing(b)
  /\ chiron' = Updated(b, v)
  /\ UNCHANGED <<jobs, audits, owner, lost, approved>>

\* The auditor opens the audit of a job in progress.
Opens(a) ==
  /\ audits[a].status = NoStatus /\ Awaits(owner[a], a)
  /\ audits'[a].status = "INPROGRESS" /\ ~audits'[a].closed
  /\ AuditsBut(a) /\ UNCHANGED <<jobs, owner, lost, approved, chiron>>

\* An open audit is asked about again later, or is due again.
Waits(a) ==
  /\ audits[a].status = "INPROGRESS"
  /\ audits'[a].status = "INPROGRESS" /\ audits'[a].closed = audits[a].closed
  /\ AuditsBut(a) /\ UNCHANGED <<jobs, owner, lost, approved, chiron>>

\* The worker saves the verdict of JN, and then the job.
Decides(a, v) ==
  /\ audits[a].status = "INPROGRESS"
  /\ audits'[a].status = v /\ audits'[a].closed = audits[a].closed
  /\ approved' = IF v = "SUCCESS" THEN approved \cup {a} ELSE approved
  /\ AuditsBut(a) /\ UNCHANGED <<jobs, owner, lost, chiron>>

Saves(a, job) ==
  /\ Agrees(a, job)
  /\ jobs'[owner[a]] = job
  /\ JobsBut(owner[a]) /\ UNCHANGED <<audits, owner, lost, approved, chiron>>

\* isClosedByChiron is set.
Marks(a) ==
  /\ audits[a].status = "SUCCESS"
  /\ audits'[a].status = "SUCCESS" /\ audits'[a].closed
  /\ AuditsBut(a) /\ UNCHANGED <<jobs, owner, lost, approved, chiron>>

TimeStores ==
  (\E b \in Bugs : Queues(b)) \/ (\E a \in Ids : Waits(a) /\ ~audits[a].due)

CloserStores ==
  \E b \in Bugs : (\E a \in Ids \cup {None} : Asks(b, a)) \/ Refuses(b)

AuditorStores == \E a \in Known : Opens(a) \/ Marks(a)

WorkerStores ==
  \E a \in Known : \/ Waits(a)
                   \/ \E v \in Resolved : Decides(a, v)
                   \/ \E job : Saves(a, job)
                   \/ Marks(a)

Telling == \E b \in Bugs, v \in JobStatus : Tells(b, v)

StoreStep ==
  \/ CloserStores
  \/ /\ Known' = Known
     /\ Quiet \/ TimeStores \/ AuditorStores \/ WorkerStores \/ Telling

-----------------------------------------------------------------------------
(***************************************************************************)
(* What a step does to the pass that takes it.                             *)
(***************************************************************************)

CloserTurn(c, r) ==
  LET C == closer[c]
  IN \/ /\ Quiet /\ Known' = Known
        /\ \/ /\ r.pc \in {"idle", "fetch"}
              /\ \A b \in r.todo : b \in Bugs /\ Ripe(b)
           \/ /\ C.pc = "fetch"
              /\ r.pc = "analyse" /\ r.bug \in C.todo
              /\ r.todo = C.todo \ {r.bug} /\ r.job = jobs[r.bug]
           \/ /\ C.pc = "analyse"
              /\ r.pc = "save" /\ r.bug = C.bug /\ r.todo = C.todo
              /\ Changed(r.job, C.job)
     \/ /\ C.pc = "save"
        /\ r.pc = "notify" /\ r.bug = C.bug /\ r.todo = C.todo
        /\ r.job.status = jobs'[C.bug].status
        /\ (\E a \in Ids \cup {None} : Asks(C.bug, a)) \/ Refuses(C.bug)
     \/ /\ C.pc = "notify" /\ C.bug \in Bugs
        /\ r.pc \in {"idle", "fetch"} /\ r.todo \subseteq C.todo
        /\ Tells(C.bug, C.job.status) /\ C.job.status # "SUCCESS"
        /\ C.job.status = "FAILURE" => jobs[C.bug].status = "FAILURE"
        /\ Known' = Known

AuditorTurn(s, r) ==
  LET A == auditor[s]
  IN /\ \/ UNCHANGED store
        \/ A.pc = "create" /\ A.job[2] \in Known /\ Opens(A.job[2])
        \/ A.pc = "flag" /\ A.id \in Known /\ Marks(A.id)
        \/ \E b \in Bugs : Tells(b, "SUCCESS")
     /\ \A j \in r.jobs :
          \/ j \in A.jobs
          \/ j[1] \in Bugs /\ Awaits(j[1], j[2]) /\ UNCHANGED store
     /\ r.pc = "create" => /\ r.job \in A.jobs /\ r.job[2] \in Ids
                           /\ audits[r.job[2]].status = NoStatus
                           /\ UNCHANGED store
     /\ \A a \in r.ids :
          a \in A.ids \/ (audits[a].status = "SUCCESS" /\ UNCHANGED store)
     /\ r.pc = "flag" => r.id \in A.ids

\* The pass is at the end of its work on an audit.
Leaves(w, r) == r.pc \in {"idle", "accept"} /\ r.todo \subseteq worker[w].todo

\* The pass is still at work on the same audit.
Goes(w, r, pc) ==
  /\ r.pc = pc /\ r.todo = worker[w].todo /\ r.id = worker[w].id
  /\ r.job = worker[w].job

WorkerTurn(w, r) ==
  LET W == worker[w]
  IN \/ /\ UNCHANGED store
        /\ W.pc = "accept" /\ r.pc = "query"
        /\ \E e \in W.todo : /\ r.todo = W.todo \ {e}
                             /\ r.id = e.id /\ r.doc = e.doc
                             /\ r.job = jobs[owner[e.id]]
     \/ /\ W.pc = "query"
        /\ r.todo = W.todo /\ r.id = W.id
        /\ r.job.last = W.job.last /\ r.job.retryCount = W.job.retryCount
        /\ \/ /\ r.pc = "close" /\ r.job.status = "SUCCESS"
              /\ Decides(W.id, "SUCCESS")
           \/ /\ r.pc = "giveup" /\ r.job.status = "FAILURE"
              /\ W.job.retryCount >= RetryCount
              /\ Decides(W.id, "FAILURE")
           \/ /\ r.pc = "save" /\ r.job.status = "READY"
              /\ W.job.retryCount < RetryCount
              /\ Decides(W.id, "FAILURE")
     \/ /\ W.pc = "query" /\ Leaves(w, r) /\ Waits(W.id)
     \/ Leaves(w, r) /\ UNCHANGED store
     \/ /\ W.pc = "close"
        /\ \/ Goes(w, r, "flag") /\ Tells(owner[W.id], "SUCCESS")
           \/ Goes(w, r, "save") /\ UNCHANGED store
           \/ Leaves(w, r) /\ Tells(owner[W.id], "SUCCESS")
     \/ /\ W.pc = "giveup"
        /\ \/ Goes(w, r, "save") /\ Tells(owner[W.id], "FAILURE")
           \/ Goes(w, r, "save") /\ UNCHANGED store
           \/ Leaves(w, r) /\ Tells(owner[W.id], "FAILURE")
     \/ /\ W.pc = "flag" /\ Goes(w, r, "save") /\ Marks(W.id)
     \/ /\ W.pc = "save" /\ Leaves(w, r) /\ Saves(W.id, W.job)
\* A job as the closer changes it.
LEMMA AnalysedJob ==
  ASSUME NEW job \in Job, NEW id \in Ids \cup {None}
  PROVE  /\ Analysing(job, id) \in Job
         /\ Analysing(job, id).status = "INPROGRESS"
         /\ Analysing(job, id).last = id
         /\ Analysing(job, id).retryCount = job.retryCount + 1
<1> DEFINE n == job.retryCount + 1
           j == [job EXCEPT !.status = "INPROGRESS", !.retryCount = n,
                            !.last = id, !.due = FALSE]
<1>1. Analysing(job, id) = j  BY DEF Analysing
<1>2. n \in Nat  BY DEF Job
<1> HIDE DEF n
<1>3. j \in Job  BY <1>2 DEF Job, JobStatus
<1>4. j.status = "INPROGRESS" /\ j.last = id /\ j.retryCount = n  BY DEF Job
<1> QED BY <1>1, <1>3, <1>4 DEF n

\* No id reaches a job when those that are issued are lost or kept in hand.
LEMMA KnownSame ==
  ASSUME Typing, Known \subseteq Known', NEW c \in Closers, NEW r,
         closer' = [closer EXCEPT ![c] = r], lost \subseteq lost',
         \A a \in Ids : owner'[a] = owner[a] \/ a \in lost' \cup InHand(c)',
         InHand(c) \subseteq lost' \cup InHand(c)'
  PROVE  Known' = Known
<1>1. \A d \in Closers \ {c} : InHand(d)' = InHand(d)
  BY OneHand DEF Typing, TypeOK
<1>2. ASSUME NEW a \in Known'  PROVE a \in Known
  <2>1. /\ a \in Ids /\ owner'[a] \in Bugs /\ a \notin lost'
        /\ \A d \in Closers : a \notin InHand(d)'
    BY DEF Known
  <2>2. \A d \in Closers : a \notin InHand(d)  BY <1>1, <2>1
  <2> QED BY <2>1, <2>2 DEF Known
<1> QED BY <1>2

\* A crash of a closer.
CloserDies(c) ==
  /\ CloserAborts(c) /\ lost' = lost \cup InHand(c)
  /\ UNCHANGED <<jobs, audits, owner, approved, chiron>>

\* The steps of a closer, and its end in a crash.
LEMMA CloserTurns ==
  ASSUME Typing, CloserSound, [Next]_vars, NEW c \in Closers,
         CloserStart(c) \/ CloserStep(c) \/ CloserDies(c)
  PROVE  /\ UNCHANGED <<auditor, worker>>
         /\ \E r : closer' = [closer EXCEPT ![c] = r] /\ CloserTurn(c, r)
<1> USE DEF Typing
<1> DEFINE C == closer[c]
           Goal == /\ UNCHANGED <<auditor, worker>>
                   /\ \E r : closer' = [closer EXCEPT ![c] = r] /\ CloserTurn(c, r)
<1>0. /\ C \in CloserState /\ C.job \in Job /\ C.todo \subseteq Bugs
      /\ jobs \in [Bugs -> Job] /\ closer \in [Closers -> CloserState]
      /\ C.pc \in {"analyse", "save", "notify"} => C.bug \in Bugs
  BY DEF TypeOK, CloserState, CloserOwned
<1>i. IdleCloser.pc = "idle" /\ IdleCloser.todo = {}  BY DEF IdleCloser
<1>g. Known \subseteq Known' /\ \A a \in Known : owner'[a] = owner[a]
  BY KnownGrows, StepRemembers DEF Remembers
\* Ids are lost, or held, but none is saved.
<1>q. ASSUME UNCHANGED <<jobs, audits, approved, chiron>>, NEW r,
             closer' = [closer EXCEPT ![c] = r], lost \subseteq lost',
             \A a \in Ids : owner'[a] = owner[a] \/ a \in lost' \cup InHand(c)',
             InHand(c) \subseteq lost'
      PROVE  Quiet /\ Known' = Known
  BY <1>g, <1>q, KnownSame DEF Quiet
<1>p. C.pc # "save" => InHand(c) = {}  BY DEF InHand
<1>u. ASSUME UNCHANGED store  PROVE /\ UNCHANGED <<jobs, audits, owner, lost, approved, chiron>>
                                    /\ lost \subseteq lost'
  BY <1>u DEF store
\* Steps of a closer that has nothing in its hands, and asks for nothing.
<1>s. ASSUME UNCHANGED store, C.pc # "save", NEW r, closer' = [closer EXCEPT ![c] = r]
      PROVE  Quiet /\ Known' = Known
  BY <1>p, <1>q, <1>s, <1>u
<1>1. CASE CloserStart(c)
  <2> DEFINE S == {b \in Bugs : Pickable(b)}
             r == [C EXCEPT !.pc = "fetch", !.todo = S]
  <2>1. /\ closer' = [closer EXCEPT ![c] = r] /\ C.pc # "save" /\ UNCHANGED store
        /\ UNCHANGED <<auditor, worker>>
    BY <1>1, <1>0 DEF CloserStart
  <2>2. \A b \in S : b \in Bugs /\ Ripe(b)  BY DEF Pickable, Ripe
  <2> HIDE DEF S
  <2>3. r.pc = "fetch" /\ r.todo = S  BY <1>0 DEF CloserState
  <2> HIDE DEF r
  <2>4. CloserTurn(c, r)  BY <1>s, <2>1, <2>2, <2>3 DEF CloserTurn
  <2> QED BY <2>1, <2>4
<1>2. CASE CloserFetch(c)
  <2>1. PICK b \in C.todo : closer' = [closer EXCEPT ![c] =
          [pc |-> "analyse", todo |-> C.todo \ {b}, bug |-> b, job |-> jobs[b]]]
    BY <1>2 DEF CloserFetch
  <2> DEFINE r == [pc |-> "analyse", todo |-> C.todo \ {b}, bug |-> b, job |-> jobs[b]]
  <2>2. /\ r.pc = "analyse" /\ r.bug = b /\ r.todo = C.todo \ {b}
        /\ r.job = jobs[b]
    OBVIOUS
  <2>3. closer' = [closer EXCEPT ![c] = r]  BY <2>1
  <2> HIDE DEF r
  <2>4. C.pc = "fetch" /\ UNCHANGED <<store, auditor, worker>>
    BY <1>2 DEF CloserFetch
  <2>5. CloserTurn(c, r)  BY <1>s, <2>2, <2>3, <2>4 DEF CloserTurn
  <2> QED BY <2>3, <2>4, <2>5
\* A pass that ends early.
<1>a. ASSUME CloserAborts(c), Quiet, Known' = Known  PROVE Goal
  <2>1. CloserTurn(c, IdleCloser)  BY <1>a, <1>i DEF CloserTurn
  <2> QED BY <1>a, <2>1 DEF CloserAborts
<1>3. CASE CloserFetchThrows(c)
  BY <1>3, <1>a, <1>s DEF CloserFetchThrows, CloserAborts
<1>4. CASE CloserAnalyseThrows(c)
  <2>1. /\ C.pc = "analyse" /\ Unheard(C.bug) /\ CloserAborts(c)
        /\ UNCHANGED <<jobs, audits, approved, chiron>>
    BY <1>4 DEF CloserAnalyseThrows
  <2>2. lost \subseteq lost' /\ \A a \in Ids : owner'[a] = owner[a] \/ a \in lost'
    BY <2>1 DEF Unheard, Issues, TypeOK
  <2>3. closer' = [closer EXCEPT ![c] = IdleCloser]  BY <2>1 DEF CloserAborts
  <2> QED BY <1>a, <1>p, <1>q, <2>1, <2>2, <2>3
<1>5. CASE CloserDies(c)
  <2>1. closer' = [closer EXCEPT ![c] = IdleCloser]  BY <1>5 DEF CloserDies, CloserAborts
  <2>2. Quiet /\ Known' = Known  BY <1>5, <1>q, <2>1 DEF CloserDies
  <2> QED BY <1>5, <1>a, <2>2 DEF CloserDies
\* JN has answered.
<1>6. ASSUME NEW job, CloserChanges(c, job), Changed(job, C.job), lost \subseteq lost',
             \A a \in Ids : owner'[a] = owner[a] \/ a \in lost' \cup ({job.last} \cap Ids)
      PROVE  Goal
  <2> DEFINE r == [C EXCEPT !.pc = "save", !.job = job]
  <2>1. /\ closer' = [closer EXCEPT ![c] = r] /\ C.pc = "analyse"
        /\ UNCHANGED <<jobs, audits, approved, chiron, auditor, worker>>
    BY <1>0, <1>6 DEF CloserChanges
  <2>2. r.pc = "save" /\ r.bug = C.bug /\ r.todo = C.todo /\ r.job = job
    BY <1>0 DEF CloserState
  <2> HIDE DEF r
  <2>3. InHand(c)' = {job.last} \cap Ids  BY <1>0, <2>1, <2>2, OneHand
  <2>4. Quiet /\ Known' = Known  BY <1>6, <1>p, <1>q, <2>1, <2>3
  <2>5. CloserTurn(c, r)  BY <1>6, <2>1, <2>2, <2>4 DEF CloserTurn
  <2> QED BY <2>1, <2>5
<1>7. CASE CloserTrigger(c)
  <2>0. \A id \in Ids \cup {None} : /\ Changed(Analysing(C.job, id), C.job)
                                    /\ Analysing(C.job, id).last = id
    BY <1>0, AnalysedJob DEF Changed
  <2> DEFINE A(id) == Analysing(C.job, id)
  <2> HIDE DEF A
  <2>1. CASE \E a \in Ids : /\ Issues(C.bug, a) /\ CloserChanges(c, A(a))
                           /\ UNCHANGED lost
    <3>1. PICK a \in Ids : /\ Issues(C.bug, a) /\ CloserChanges(c, A(a))
                           /\ UNCHANGED lost
      BY <2>1
    <3>2. A(a).last = a /\ Changed(A(a), C.job)  BY <2>0 DEF A
    <3>3. \A x \in Ids : owner'[x] = owner[x] \/ x = a  BY <3>1 DEF Issues, TypeOK
    <3> QED BY <1>6, <3>1, <3>2, <3>3
  <2>2. CASE CloserChanges(c, A(None)) /\ Unheard(C.bug)
    <3>1. Changed(A(None), C.job)  BY <2>0 DEF A
    <3>2. lost \subseteq lost' /\ \A a \in Ids : owner'[a] = owner[a] \/ a \in lost'
      BY <2>2 DEF Unheard, Issues, TypeOK
    <3> QED BY <1>6, <2>2, <3>1, <3>2
  <2> QED BY <1>7, <2>1, <2>2 DEF CloserTrigger, A
<1>8. CASE CloserReject(c)
  <2> DEFINE job == [C.job EXCEPT !.status = "FAILURE", !.last = None]
  <2>1. CloserChanges(c, job) /\ owner' = owner /\ lost' = lost  BY <1>8 DEF CloserReject
  <2>2. Changed(job, C.job)  BY <1>0 DEF Changed, Job
  <2> HIDE DEF job
  <2> QED BY <1>6, <2>1, <2>2
\* The job is saved.
<1>9. CASE CloserSave(c)
  <2> DEFINE r == [C EXCEPT !.pc = "notify"]
             a == C.job.last
  <2>1. /\ closer' = [closer EXCEPT ![c] = r] /\ C.pc = "save"
        /\ jobs' = [jobs EXCEPT ![C.bug] = C.job]
        /\ UNCHANGED <<audits, owner, lost, approved, chiron, auditor, worker>>
    BY <1>0, <1>9 DEF CloserSave
  <2>2. r.pc = "notify" /\ r.bug = C.bug /\ r.todo = C.todo /\ r.job = C.job
    BY <1>0 DEF CloserState
  <2> HIDE DEF r
  <2>3. /\ C.bug \in Bugs /\ Ripe(C.bug) /\ Changed(C.job, jobs[C.bug])
        /\ a \in Ids \cup {None}
    BY <1>0, <2>1 DEF CloserSound, Job
  <2>4. jobs'[C.bug] = C.job /\ JobsBut(C.bug)  BY <1>0, <2>1, <2>3 DEF JobsBut
  <2>5. \A d \in Closers : InHand(d)' = IF d = c THEN {} ELSE InHand(d)
    BY <1>0, <2>1, <2>2, OneHand
  <2>6. InHand(c) = {a} \cap Ids  BY <2>1 DEF InHand
  <2>7. CASE a \in Ids
    <3>1. /\ a \notin Known /\ owner[a] = C.bug /\ a \notin lost
          /\ \A d \in Closers \ {c} : a \notin InHand(d)
      BY <2>6, <2>7 DEF CloserOwned, Known
    <3>2. Known' = Known \cup {a}
      <4>1. ASSUME NEW x  PROVE x \in Known' <=> x \in Known \cup {a}
        BY <2>1, <2>3, <2>5, <2>6, <2>7, <3>1 DEF Known
      <4> QED BY <4>1
    <3>3. C.job.status = "INPROGRESS"  BY <2>3, <2>7, NoneAssumption DEF Changed
    <3>4. Asks(C.bug, a)  BY <2>1, <2>3, <2>4, <2>7, <3>1, <3>2, <3>3 DEF Asks, Changed
    <3>5. CloserTurn(c, r)  BY <2>1, <2>2, <2>4, <2>7, <3>4 DEF CloserTurn
    <3> QED BY <2>1, <3>5
  <2>8. CASE a = None
    <3>1. Known' = Known
      <4>1. InHand(c) = {}  BY <2>6, <2>8, NoneAssumption
      <4>2. ASSUME NEW x  PROVE x \in Known' <=> x \in Known
        BY <2>1, <2>5, <4>1 DEF Known
      <4> QED BY <4>2
    <3>2. Asks(C.bug, None) \/ Refuses(C.bug)
      BY <2>1, <2>3, <2>4, <2>8, <3>1 DEF Asks, Refuses, Changed
    <3>3. CloserTurn(c, r)  BY <2>1, <2>2, <2>4, <3>2 DEF CloserTurn
    <3> QED BY <2>1, <3>3
  <2> QED BY <2>3, <2>7, <2>8
<1>10. CASE CloserNotify(c)
  <2> DEFINE n == [IdleCloser EXCEPT !.pc = "fetch", !.todo = C.todo]
  <2>1. /\ C.pc = "notify" /\ UNCHANGED <<jobs, audits, owner, lost, approved, auditor, worker>>
        /\ C.bug \in Bugs /\ C.job.status \in {"INPROGRESS", "FAILURE"}
    BY <1>10 DEF CloserNotify, CloserOwned
  <2>2. /\ closer' \in {[closer EXCEPT ![c] = IdleCloser], [closer EXCEPT ![c] = n]}
        /\ chiron' \in {chiron, Updated(C.bug, C.job.status)}
    BY <1>10 DEF CloserNotify, UpdateChiron
  <2>3. n.pc = "fetch" /\ n.todo = C.todo  BY DEF IdleCloser
  <2> HIDE DEF n
  <2>4. PICK r \in {IdleCloser, n} : closer' = [closer EXCEPT ![c] = r]  BY <2>2
  <2>5. r.pc \in {"idle", "fetch"} /\ r.todo \subseteq C.todo  BY <1>i, <2>3
  <2>6. C.job.status = "FAILURE" => jobs[C.bug].status = "FAILURE"
    BY <2>1 DEF CloserSound
  <2>k. Known' = Known  BY <1>g, <1>p, <2>1, <2>4, KnownSame
  <2>7. CASE chiron' = chiron
    <3>1. \A b \in r.todo : b \in Bugs /\ Ripe(b)  BY <1>0, <2>5 DEF CloserSound
    <3>2. Quiet  BY <2>1, <2>7 DEF Quiet
    <3>3. CloserTurn(c, r)  BY <2>5, <2>k, <3>1, <3>2 DEF CloserTurn
    <3> QED BY <2>1, <2>4, <3>3
  <2>8. CASE chiron' = Updated(C.bug, C.job.status)
    <3>1. Tells(C.bug, C.job.status)
      BY <2>1, <2>6, <2>8 DEF Tells, Failing, JobStatus
    <3>2. CloserTurn(c, r)  BY <2>1, <2>5, <2>6, <2>k, <3>1 DEF CloserTurn
    <3> QED BY <2>1, <2>4, <3>2
  <2> QED BY <2>2, <2>7, <2>8
<1> QED BY <1>1, <1>2, <1>3, <1>4, <1>5, <1>7, <1>8, <1>9, <1>10 DEF CloserStep
\* The audits that are due go to an idle worker.
Spawns(v) ==
  /\ worker[v].pc = "idle" /\ UNCHANGED store
  /\ worker' = [worker EXCEPT ![v] =
       [worker[v] EXCEPT !.pc = "accept", !.todo = WaitingAudits]]

\* The steps of an auditor, and its end in a crash.
LEMMA AuditorTurns ==
  ASSUME Typing, Approval, AuditorSound, NEW s \in Auditors,
         \/ AuditorStart(s) \/ AuditorStep(s)
         \/ AuditorGoes(s, IdleAuditor) /\ UNCHANGED <<store, worker>>
  PROVE  /\ closer' = closer
         /\ worker' = worker \/ \E v \in Workers : Spawns(v)
         /\ \E r : auditor' = [auditor EXCEPT ![s] = r] /\ AuditorTurn(s, r)
<1> USE DEF Typing
<1> DEFINE A == auditor[s]
           Goal == /\ closer' = closer
                   /\ worker' = worker \/ \E v \in Workers : Spawns(v)
                   /\ \E r : auditor' = [auditor EXCEPT ![s] = r] /\ AuditorTurn(s, r)
<1>0. A \in AuditorState /\ audits \in [Ids -> Audit]  BY DEF TypeOK
<1>i. IdleAuditor.pc = "idle" /\ IdleAuditor.ids = {} /\ IdleAuditor.jobs = {}
  BY DEF IdleAuditor
\* A pass that only goes on, or ends.
<1>a. ASSUME NEW r, AuditorGoes(s, r), UNCHANGED store, r.jobs \subseteq A.jobs,
             r.ids \subseteq A.ids, r.pc \notin {"create", "flag"},
             worker' = worker \/ \E v \in Workers : Spawns(v)
      PROVE  Goal
  <2>1. AuditorTurn(s, r)  BY <1>a DEF AuditorTurn
  <2> QED BY <1>a, <2>1 DEF AuditorGoes
<1>1. CASE AuditorStart(s)
  <2> DEFINE S == {b \in Bugs : jobs[b].status = "INPROGRESS"}
             js == {<<b, jobs[b].last>> : b \in S}
             r == [IdleAuditor EXCEPT !.pc = "register", !.jobs = js]
  <2>1. AuditorGoes(s, r) /\ UNCHANGED <<store, worker>>  BY <1>1 DEF AuditorStart
  <2>2. \A j \in js : j[1] \in Bugs /\ Awaits(j[1], j[2])  BY DEF Awaits
  <2> HIDE DEF js
  <2>3. r.pc = "register" /\ r.jobs = js /\ r.ids = {}  BY DEF IdleAuditor
  <2> HIDE DEF r
  <2>4. AuditorTurn(s, r)  BY <2>1, <2>2, <2>3 DEF AuditorTurn
  <2> QED BY <2>1, <2>4 DEF AuditorGoes
<1>2. CASE AuditorRegister(s)
  <2>1. UNCHANGED <<store, worker>> /\ A.pc = "register"  BY <1>2 DEF AuditorRegister
  <2>2. CASE AuditorGoes(s, [A EXCEPT !.pc = "spawn"])
    <3> DEFINE r == [A EXCEPT !.pc = "spawn"]
    <3>1. r.pc = "spawn" /\ r.jobs = A.jobs /\ r.ids = A.ids
      BY <1>0 DEF AuditorState
    <3>2. AuditorGoes(s, r)  BY <2>2
    <3> HIDE DEF r
    <3> QED BY <1>a, <2>1, <3>1, <3>2
  <2>3. ASSUME NEW j \in A.jobs, j[2] \in Ids,
               AuditorGoes(s, [A EXCEPT
                 !.jobs = @ \ {j},
                 !.pc = IF audits[j[2]].status = NoStatus THEN "create" ELSE @,
                 !.job = IF audits[j[2]].status = NoStatus THEN j ELSE @])
        PROVE  Goal
    <3> DEFINE js == A.jobs \ {j}
               pc == IF audits[j[2]].status = NoStatus THEN "create" ELSE A.pc
               job == IF audits[j[2]].status = NoStatus THEN j ELSE A.job
               r == [A EXCEPT !.jobs = js, !.pc = pc, !.job = job]
    <3>1. AuditorGoes(s, r)  BY <2>3
    <3>2. /\ pc \in {"register", "create"} /\ js \subseteq A.jobs
          /\ pc = "create" => job = j /\ audits[j[2]].status = NoStatus
      BY <2>1
    <3> HIDE DEF js, pc, job
    <3>3. r.pc = pc /\ r.jobs = js /\ r.ids = A.ids /\ r.job = job
      BY <1>0 DEF AuditorState
    <3> HIDE DEF r
    <3>4. AuditorTurn(s, r)  BY <2>1, <2>3, <3>2, <3>3 DEF AuditorTurn
    <3> QED BY <2>1, <3>1, <3>4 DEF AuditorGoes
  <2> QED BY <1>2, <2>2, <2>3 DEF AuditorRegister
<1>3. CASE \/ AuditorRegisterThrows(s)
           \/ AuditorGoes(s, IdleAuditor) /\ UNCHANGED <<store, worker>>
  BY <1>3, <1>a, <1>i DEF AuditorRegisterThrows
<1>4. CASE AuditorCreate(s)
  <2> DEFINE a == A.job[2]
             d == [NoAudit EXCEPT !.status = "INPROGRESS"]
             r == [A EXCEPT !.pc = "register", !.job = IdleAuditor.job]
  <2>1. /\ A.pc = "create" /\ audits' = [audits EXCEPT ![a] = d] /\ AuditorGoes(s, r)
        /\ UNCHANGED <<jobs, owner, lost, approved, chiron, worker>>
    BY <1>4 DEF AuditorCreate
  <2>2. a \in Known /\ a \in Ids /\ Unaudited(A.job) /\ audits[a].status = NoStatus
    BY <2>1 DEF AuditorOwned, AuditorSound, Known
  <2>3. Awaits(owner[a], a)  BY <2>2 DEF Unaudited
  <2>4. d.status = "INPROGRESS" /\ d.closed = FALSE  BY DEF NoAudit
  <2>5. r.pc = "register" /\ r.jobs = A.jobs /\ r.ids = A.ids
    BY <1>0 DEF AuditorState
  <2> HIDE DEF d, r
  <2>6. audits'[a] = d /\ AuditsBut(a)  BY <1>0, <2>1, <2>2 DEF AuditsBut
  <2>7. Opens(a)  BY <2>1, <2>2, <2>3, <2>4, <2>6 DEF Opens
  <2>8. AuditorTurn(s, r)  BY <2>1, <2>2, <2>5, <2>7 DEF AuditorTurn
  <2> QED BY <2>1, <2>8 DEF AuditorGoes
<1>5. CASE AuditorSpawn(s)
  <2> DEFINE r == [A EXCEPT !.pc = "scan"]
  <2>1. AuditorGoes(s, r) /\ UNCHANGED store  BY <1>5 DEF AuditorSpawn
  <2>2. r.pc = "scan" /\ r.jobs = A.jobs /\ r.ids = A.ids  BY <1>0 DEF AuditorState
  <2> HIDE DEF r
  <2>3. worker' = worker \/ \E v \in Workers : Spawns(v)
    BY <1>5, <2>1 DEF AuditorSpawn, Spawns
  <2> QED BY <1>a, <2>1, <2>2, <2>3
\* The closing loop.
<1>c. ASSUME NEW ids \in SUBSET Ids
      PROVE  /\ Closing(ids).jobs = {} /\ Closing(ids).ids = ids
             /\ Closing(ids).pc \notin {"create", "flag"}
  BY ClosingTyped
<1>6. CASE AuditorScan(s)
  <2>1. Unclosed \in SUBSET Ids /\ \A a \in Unclosed : audits[a].status = "SUCCESS"
    BY DEF Unclosed
  <2>2. AuditorGoes(s, Closing(Unclosed)) /\ UNCHANGED <<store, worker>>
    BY <1>6 DEF AuditorScan
  <2>3. AuditorTurn(s, Closing(Unclosed))  BY <1>c, <2>1, <2>2 DEF AuditorTurn
  <2> QED BY <2>2, <2>3 DEF AuditorGoes
<1>7. CASE AuditorClose(s)
  <2>1. PICK a \in A.ids :
          LET rest == A.ids \ {a}
          IN \/ /\ chiron' = Updated(owner[a], "SUCCESS")
                /\ \/ AuditorGoes(s, [IdleAuditor EXCEPT
                              !.pc = "flag", !.ids = rest, !.id = a])
                   \/ AuditorGoes(s, IdleAuditor)
             \/ /\ chiron' = chiron
                /\ AuditorGoes(s, Closing(rest)) \/ AuditorGoes(s, IdleAuditor)
    BY <1>7 DEF AuditorClose, UpdateChiron
  <2>2. UNCHANGED <<jobs, audits, owner, lost, approved, worker>>  BY <1>7 DEF AuditorClose
  <2>3. A.ids \subseteq Ids /\ a \in Known /\ a \in approved /\ owner[a] \in Bugs
    BY <1>0 DEF AuditorState, AuditorOwned, Known, Approval, ScanApproved
  <2> DEFINE rest == A.ids \ {a}
             f == [IdleAuditor EXCEPT !.pc = "flag", !.ids = rest, !.id = a]
  <2>4. rest \in SUBSET Ids /\ rest \subseteq A.ids  BY <2>3
  <2> HIDE DEF rest
  <2>5. f.pc = "flag" /\ f.id = a /\ f.ids = rest /\ f.jobs = {}  BY DEF IdleAuditor
  <2> HIDE DEF f
  <2>6. CASE /\ chiron' = Updated(owner[a], "SUCCESS")
             /\ AuditorGoes(s, f) \/ AuditorGoes(s, IdleAuditor)
    <3>1. Tells(owner[a], "SUCCESS")  BY <2>2, <2>3, <2>6 DEF Tells, JobStatus
    <3>2. AuditorTurn(s, f) /\ AuditorTurn(s, IdleAuditor)
      BY <1>i, <2>3, <2>4, <2>5, <3>1 DEF AuditorTurn
    <3> QED BY <2>2, <2>6, <3>2 DEF AuditorGoes
  <2>7. CASE /\ chiron' = chiron
             /\ AuditorGoes(s, Closing(rest)) \/ AuditorGoes(s, IdleAuditor)
    <3>1. UNCHANGED store  BY <2>2, <2>7 DEF store
    <3>2. Closing(rest).ids \subseteq A.ids /\ Closing(rest).jobs = {}
          /\ Closing(rest).pc \notin {"create", "flag"}
      BY <1>c, <2>4
    <3> QED BY <1>a, <1>i, <2>2, <2>7, <3>1, <3>2
  <2> QED BY <2>1, <2>6, <2>7 DEF f, rest
<1>8. CASE AuditorFlag(s)
  <2>1. /\ A.pc = "flag" /\ audits' = [audits EXCEPT ![A.id].closed = TRUE]
        /\ AuditorGoes(s, Closing(A.ids))
        /\ UNCHANGED <<jobs, owner, lost, approved, chiron, worker>>
    BY <1>8 DEF AuditorFlag
  <2>2. A.id \in Known /\ A.id \in Ids /\ audits[A.id].status = "SUCCESS"
    BY <2>1 DEF AuditorOwned, AuditorSound, Known
  <2>3. Marks(A.id)  BY <1>0, <2>1, <2>2 DEF Marks, AuditsBut, Audit
  <2>4. A.ids \in SUBSET Ids  BY <1>0 DEF AuditorState
  <2>5. AuditorTurn(s, Closing(A.ids))
    BY <1>c, <2>1, <2>2, <2>3, <2>4 DEF AuditorTurn
  <2> QED BY <2>1, <2>5 DEF AuditorGoes
<1> QED BY <1>1, <1>2, <1>3, <1>4, <1>5, <1>6, <1>7, <1>8 DEF AuditorStep
\* The audit a worker saves is the one it was given, with the verdict in it.
LEMMA Verdict ==
  ASSUME Typing, WorkerSound, NEW w \in Workers, NEW status \in JobStatus,
         WorkerRecords(w, status)
  PROVE  LET a == worker[w].id
         IN /\ worker[w].pc = "query" /\ a \in Known
            /\ audits[a].status = "INPROGRESS"
            /\ audits'[a].status = status /\ audits'[a].closed = audits[a].closed
            /\ AuditsBut(a) /\ UNCHANGED <<jobs, owner, lost, chiron>>
<1> DEFINE W == worker[w]
           a == W.id
           n == W.doc.responses + 1
           due == IF status = "INPROGRESS" THEN FALSE ELSE W.doc.due
           d == [W.doc EXCEPT !.status = status, !.responses = n, !.due = due]
<1>1. /\ W.pc = "query" /\ audits' = [audits EXCEPT ![a] = d]
      /\ UNCHANGED <<jobs, owner, lost, chiron>>
  BY DEF WorkerRecords
<1>2. a \in Known /\ a \in Ids /\ Fresh(a, W.doc)
  BY <1>1 DEF Typing, WorkerOwned, WorkerSound, Known
<1>3. W.doc \in Audit /\ audits \in [Ids -> Audit]
  BY DEF Typing, TypeOK, WorkerState
<1> HIDE DEF n, due
<1>4. d.status = status /\ d.closed = W.doc.closed  BY <1>3 DEF Audit
<1> HIDE DEF d
<1>5. audits'[a] = d /\ AuditsBut(a)  BY <1>1, <1>2, <1>3 DEF AuditsBut
<1> QED BY <1>1, <1>2, <1>4, <1>5 DEF Fresh

\* The state of a worker that leaves an audit.
LEMMA RemainingLeaves ==
  ASSUME NEW w, NEW todo, todo \subseteq worker[w].todo
  PROVE  /\ Leaves(w, Remaining(todo))
         /\ Leaves(w, IdleWorker)
<1> DEFINE r == [IdleWorker EXCEPT !.pc = "accept", !.todo = todo]
<1>1. r.pc = "accept" /\ r.todo = todo  BY DEF IdleWorker
<1>2. IdleWorker.pc = "idle" /\ IdleWorker.todo = {}  BY DEF IdleWorker
<1> HIDE DEF r
<1>3. Remaining(todo) = IF todo = {} THEN IdleWorker ELSE r  BY DEF Remaining, r
<1> QED BY <1>1, <1>2, <1>3 DEF Leaves

\* The steps of a worker, and its end in a crash.
LEMMA WorkerTurns ==
  ASSUME Typing, Approval, WorkerSound, NEW w \in Workers,
         \/ WorkerStep(w)
         \/ WorkerGoes(w, IdleWorker) /\ UNCHANGED store
  PROVE  /\ UNCHANGED <<closer, auditor>>
         /\ \E r : worker' = [worker EXCEPT ![w] = r] /\ WorkerTurn(w, r)
<1> USE DEF Typing
<1> DEFINE W == worker[w]
           Goal == /\ UNCHANGED <<closer, auditor>>
                   /\ \E r : worker' = [worker EXCEPT ![w] = r] /\ WorkerTurn(w, r)
<1>0. W \in WorkerState /\ W.job \in Job /\ audits \in [Ids -> Audit]
  BY DEF TypeOK, WorkerState
<1>k. W.pc \notin {"idle", "accept"} => W.id \in Known /\ W.id \in Ids /\ owner[W.id] \in Bugs
  BY DEF WorkerOwned, Known
\* The steps that end the work on an audit, and those that go on with it.
<1>l. ASSUME NEW r, WorkerGoes(w, r), WorkerTurn(w, r)  PROVE Goal
  BY <1>l DEF WorkerGoes
<1>g. ASSUME NEW pc
      PROVE  Goes(w, [W EXCEPT !.pc = pc], pc)
  BY <1>0 DEF Goes, WorkerState
<1>r. ASSUME NEW todo \in {{}, W.todo}
      PROVE  Leaves(w, Remaining(todo)) /\ Leaves(w, IdleWorker)
  BY RemainingLeaves
<1>1. CASE WorkerAccept(w)
  <2>1. PICK e \in W.todo : WorkerGoes(w, [pc |-> "query", todo |-> W.todo \ {e},
          id |-> e.id, doc |-> e.doc, job |-> jobs[owner[e.id]]])
    BY <1>1 DEF WorkerAccept
  <2> DEFINE r == [pc |-> "query", todo |-> W.todo \ {e}, id |-> e.id,
                   doc |-> e.doc, job |-> jobs[owner[e.id]]]
  <2>2. /\ r.pc = "query" /\ r.todo = W.todo \ {e} /\ r.id = e.id
        /\ r.doc = e.doc /\ r.job = jobs[owner[e.id]]
    OBVIOUS
  <2>3. WorkerGoes(w, r)  BY <2>1
  <2> HIDE DEF r
  <2>4. WorkerTurn(w, r)  BY <1>1, <2>2 DEF WorkerTurn, WorkerAccept
  <2> QED BY <1>l, <2>3, <2>4
<1>y. ASSUME NEW pc, NEW job, WorkerSyncs(w, pc, job), W.pc = "query",
             job.last = W.job.last, job.retryCount = W.job.retryCount,
             \/ /\ pc = "close" /\ job.status = "SUCCESS"
                /\ Decides(W.id, "SUCCESS")
             \/ /\ pc = "giveup" /\ job.status = "FAILURE"
                /\ W.job.retryCount >= RetryCount
                /\ Decides(W.id, "FAILURE")
             \/ /\ pc = "save" /\ job.status = "READY"
                /\ W.job.retryCount < RetryCount
                /\ Decides(W.id, "FAILURE")
      PROVE  Goal
  <2> DEFINE r == [W EXCEPT !.pc = pc, !.doc = NoAudit, !.job = job]
  <2>1. WorkerGoes(w, r)  BY <1>y DEF WorkerSyncs
  <2>2. r.pc = pc /\ r.id = W.id /\ r.todo = W.todo /\ r.job = job
    BY <1>0 DEF WorkerState
  <2> HIDE DEF r
  <2>3. WorkerTurn(w, r)  BY <1>y, <2>2 DEF WorkerTurn
  <2> QED BY <1>l, <2>1, <2>3
<1>2. CASE WorkerApproves(w)
  <2> DEFINE job == [W.job EXCEPT !.status = "SUCCESS"]
  <2>1. WorkerRecords(w, "SUCCESS") /\ approved' = approved \cup {W.id}
    BY <1>2 DEF WorkerApproves
  <2>2. W.pc = "query" /\ Decides(W.id, "SUCCESS")
    BY <2>1, Verdict DEF Decides, JobStatus
  <2>3. /\ job.status = "SUCCESS" /\ job.last = W.job.last
        /\ job.retryCount = W.job.retryCount
    BY <1>0 DEF Job
  <2>4. WorkerSyncs(w, "close", job)  BY <1>2 DEF WorkerApproves
  <2> HIDE DEF job
  <2> QED BY <1>y, <2>2, <2>3, <2>4
<1>3. CASE WorkerFails(w)
  <2>1. WorkerRecords(w, "FAILURE") /\ approved' = approved
    BY <1>3 DEF WorkerFails
  <2>2. W.pc = "query" /\ Decides(W.id, "FAILURE")
    BY <2>1, Verdict DEF Decides, JobStatus
  <2>3. CASE W.job.retryCount >= RetryCount
    <3> DEFINE job == [W.job EXCEPT !.status = "FAILURE"]
    <3>1. /\ job.status = "FAILURE" /\ job.last = W.job.last
          /\ job.retryCount = W.job.retryCount
      BY <1>0 DEF Job
    <3>2. WorkerSyncs(w, "giveup", job)  BY <1>3, <2>3 DEF WorkerFails
    <3> HIDE DEF job
    <3> QED BY <1>y, <2>2, <2>3, <3>1, <3>2
  <2>4. CASE ~(W.job.retryCount >= RetryCount)
    <3> DEFINE job == [W.job EXCEPT !.status = "READY", !.due = FALSE]
    <3>1. /\ job.status = "READY" /\ job.last = W.job.last
          /\ job.retryCount = W.job.retryCount
      BY <1>0 DEF Job
    <3>2. WorkerSyncs(w, "save", job)  BY <1>3, <2>4 DEF WorkerFails
    <3>3. W.job.retryCount < RetryCount  BY <1>0, <2>4, RetryAssumption DEF Job
    <3> HIDE DEF job
    <3> QED BY <1>y, <2>2, <3>1, <3>2, <3>3
  <2> QED BY <2>3, <2>4
<1>4. CASE WorkerPostpones(w)
  <2>1. /\ WorkerRecords(w, "INPROGRESS") /\ approved' = approved
        /\ WorkerGoes(w, Remaining(W.todo))
    BY <1>4 DEF WorkerPostpones
  <2>2. W.pc = "query" /\ Waits(W.id)
    BY <2>1, Verdict DEF Waits, JobStatus
  <2>3. WorkerTurn(w, Remaining(W.todo))  BY <1>r, <2>2 DEF WorkerTurn
  <2> QED BY <1>l, <2>1, <2>3
<1>5. CASE WorkerQueryThrows(w)
  <2>1. PICK todo \in {{}, W.todo} : WorkerGoes(w, Remaining(todo))
    BY <1>5 DEF WorkerQueryThrows, WorkerThrows
  <2>2. WorkerTurn(w, Remaining(todo))
    BY <1>5, <1>r DEF WorkerTurn, WorkerQueryThrows
  <2> QED BY <1>l, <2>1, <2>2
<1>6. CASE WorkerGoes(w, IdleWorker) /\ UNCHANGED store
  BY <1>6, <1>l, <1>r DEF WorkerTurn
\* The two calls of Chiron.
<1>7. CASE WorkerClose(w)
  <2>1. W.pc = "close" /\ UNCHANGED <<jobs, audits, owner, lost, approved>>
    BY <1>7 DEF WorkerClose
  <2>t. chiron' = Updated(owner[W.id], "SUCCESS") => Tells(owner[W.id], "SUCCESS")
    BY <2>1 DEF Tells, JobStatus, Approval, CloseApproved
  <2>s. chiron' = chiron => UNCHANGED store  BY <2>1 DEF store
  <2>2. CASE /\ chiron' = Updated(owner[W.id], "SUCCESS")
             /\ WorkerGoes(w, [W EXCEPT !.pc = "flag"])
    <3>1. WorkerTurn(w, [W EXCEPT !.pc = "flag"])
      BY <1>g, <2>1, <2>2, <2>t DEF WorkerTurn
    <3> QED BY <1>l, <2>2, <3>1
  <2>3. CASE /\ chiron' = chiron
             /\ WorkerGoes(w, [W EXCEPT !.pc = "save"])
    <3>1. WorkerTurn(w, [W EXCEPT !.pc = "save"])
      BY <1>g, <2>1, <2>3, <2>s DEF WorkerTurn
    <3> QED BY <1>l, <2>3, <3>1
  <2>4. ASSUME chiron' \in {chiron, Updated(owner[W.id], "SUCCESS")},
               NEW todo \in {{}, W.todo}, WorkerGoes(w, Remaining(todo))
        PROVE  Goal
    <3>1. WorkerTurn(w, Remaining(todo))
      BY <1>r, <2>1, <2>4, <2>s, <2>t DEF WorkerTurn
    <3> QED BY <1>l, <2>4, <3>1
  <2> QED BY <1>7, <2>2, <2>3, <2>4 DEF WorkerClose, UpdateChiron, WorkerThrows
<1>8. CASE WorkerGiveUp(w)
  <2>1. W.pc = "giveup" /\ UNCHANGED <<jobs, audits, owner, lost, approved>>
    BY <1>8 DEF WorkerGiveUp
  <2>2. Failing(owner[W.id])
    <3>1. Agrees(W.id, W.job) /\ W.job.status = "FAILURE"  BY <2>1 DEF WorkerSound
    <3> QED BY <1>k, <2>1, <3>1 DEF Failing, Agrees, Resolved
  <2>t. chiron' = Updated(owner[W.id], "FAILURE") => Tells(owner[W.id], "FAILURE")
    BY <2>1, <2>2 DEF Tells, JobStatus
  <2>s. chiron' = chiron => UNCHANGED store  BY <2>1 DEF store
  <2>3. CASE /\ chiron' \in {chiron, Updated(owner[W.id], "FAILURE")}
             /\ WorkerGoes(w, [W EXCEPT !.pc = "save"])
    <3>1. WorkerTurn(w, [W EXCEPT !.pc = "save"])
      BY <1>g, <2>1, <2>3, <2>s, <2>t DEF WorkerTurn
    <3> QED BY <1>l, <2>3, <3>1
  <2>4. ASSUME chiron' \in {chiron, Updated(owner[W.id], "FAILURE")},
               NEW todo \in {{}, W.todo}, WorkerGoes(w, Remaining(todo))
        PROVE  Goal
    <3>1. WorkerTurn(w, Remaining(todo))
      BY <1>r, <2>1, <2>4, <2>s, <2>t DEF WorkerTurn
    <3> QED BY <1>l, <2>4, <3>1
  <2> QED BY <1>8, <2>3, <2>4 DEF WorkerGiveUp, UpdateChiron, WorkerThrows
<1>9. CASE WorkerFlag(w)
  <2>1. /\ W.pc = "flag" /\ audits' = [audits EXCEPT ![W.id].closed = TRUE]
        /\ WorkerGoes(w, [W EXCEPT !.pc = "save"])
        /\ UNCHANGED <<jobs, owner, lost, approved, chiron>>
    BY <1>9 DEF WorkerFlag
  <2>2. W.id \in Ids /\ audits[W.id].status = "SUCCESS"
    BY <1>k, <2>1 DEF WorkerSound, Agrees
  <2>3. Marks(W.id)  BY <1>0, <2>1, <2>2 DEF Marks, AuditsBut, Audit
  <2>4. WorkerTurn(w, [W EXCEPT !.pc = "save"])  BY <1>g, <2>1, <2>3 DEF WorkerTurn
  <2> QED BY <1>l, <2>1, <2>4
<1>10. CASE WorkerSave(w)
  <2>1. /\ W.pc = "save" /\ jobs' = [jobs EXCEPT ![owner[W.id]] = W.job]
        /\ WorkerGoes(w, Remaining(W.todo))
        /\ UNCHANGED <<audits, owner, lost, approved, chiron>>
    BY <1>10 DEF WorkerSave
  <2>2. Agrees(W.id, W.job)  BY <2>1 DEF WorkerSound
  <2>3. Saves(W.id, W.job)
    BY <1>k, <2>1, <2>2 DEF Saves, JobsBut, TypeOK
  <2>4. WorkerTurn(w, Remaining(W.todo))  BY <1>r, <2>1, <2>3 DEF WorkerTurn
  <2> QED BY <1>l, <2>1, <2>4
<1> QED BY <1>1, <1>2, <1>3, <1>4, <1>5, <1>6, <1>7, <1>8, <1>9, <1>10 DEF WorkerStep
-----------------------------------------------------------------------------
(***************************************************************************)
(* Whose turn it is.                                                       *)
(***************************************************************************)

TimeActs == TimeStores /\ UNCHANGED <<closer, auditor, worker>>

CloserActs ==
  /\ UNCHANGED <<auditor, worker>>
  /\ \E c \in Closers : \E r : closer' = [closer EXCEPT ![c] = r] /\ CloserTurn(c, r)

AuditorActs ==
  /\ closer' = closer
  /\ worker' = worker \/ \E v \in Workers : Spawns(v)
  /\ \E s \in Auditors : \E r : auditor' = [auditor EXCEPT ![s] = r] /\ AuditorTurn(s, r)

WorkerActs ==
  /\ UNCHANGED <<closer, auditor>>
  /\ \E w \in Workers : \E r : worker' = [worker EXCEPT ![w] = r] /\ WorkerTurn(w, r)

\* Every step is somebody's turn, or nothing happens.
LEMMA Turns ==
  ASSUME Typing, Approval, Sound, [Next]_vars
  PROVE  UNCHANGED vars \/ TimeActs \/ CloserActs \/ AuditorActs \/ WorkerActs
<1> USE DEF Typing, Sound
<1>1. ASSUME NEW b \in Bugs, CreateJob(b) \/ JobDue(b)  PROVE TimeActs
  <2>1. jobs \in [Bugs -> Job] /\ jobs[b] \in Job  BY DEF TypeOK
  <2>2. Queues(b)
    BY <1>1, <2>1 DEF Queues, JobsBut, CreateJob, JobDue, Job
  <2> QED BY <1>1, <2>2 DEF TimeActs, TimeStores, CreateJob, JobDue
<1>2. ASSUME NEW a \in Ids, AuditDue(a)  PROVE TimeActs
  <2>1. audits \in [Ids -> Audit] /\ audits[a] \in Audit  BY DEF TypeOK
  <2>2. Waits(a) /\ ~audits[a].due
    BY <1>2, <2>1 DEF Waits, AuditsBut, AuditDue, Audit
  <2> QED BY <1>2, <2>2 DEF TimeActs, TimeStores, AuditDue
<1>3. ASSUME NEW c \in Closers,
             CloserStart(c) \/ CloserStep(c) \/ CloserDies(c)
      PROVE  CloserActs
  BY <1>3, CloserTurns DEF CloserActs
<1>4. ASSUME NEW s \in Auditors,
             \/ AuditorStart(s) \/ AuditorStep(s)
             \/ AuditorGoes(s, IdleAuditor) /\ UNCHANGED <<store, worker>>
      PROVE  AuditorActs
  BY <1>4, AuditorTurns DEF AuditorActs
<1>5. ASSUME NEW w \in Workers,
             \/ WorkerStep(w)
             \/ WorkerGoes(w, IdleWorker) /\ UNCHANGED store
      PROVE  WorkerActs
  BY <1>5, WorkerTurns DEF WorkerActs
<1>6. CASE Crash  BY <1>3, <1>4, <1>5, <1>6 DEF Crash, CloserDies, store
<1> QED BY <1>1, <1>2, <1>3, <1>4, <1>5, <1>6 DEF Next

\* What a turn does to the collections.
CloserTells ==
  \E b \in Bugs, v \in {"INPROGRESS", "FAILURE"} :
    Tells(b, v) /\ (v = "FAILURE" => jobs[b].status = "FAILURE")

\* A closer tells Chiron of a failure that the job has recorded.
LEMMA CloserStored ==
  ASSUME Typing, CloserActs
  PROVE  CloserStores \/ (Known' = Known /\ (Quiet \/ CloserTells))
<1>0. PICK c \in Closers : \E r : CloserTurn(c, r)  BY DEF CloserActs
<1>1. PICK r : CloserTurn(c, r)  BY <1>0
<1>2. CASE closer[c].pc = "save" /\
           ((\E a \in Ids \cup {None} : Asks(closer[c].bug, a)) \/ Refuses(closer[c].bug))
  <2>1. closer[c].bug \in Bugs  BY <1>2 DEF Typing, CloserOwned
  <2> QED BY <1>2, <2>1 DEF CloserStores
<1>3. CASE /\ closer[c].pc = "notify" /\ closer[c].bug \in Bugs
           /\ Tells(closer[c].bug, closer[c].job.status)
           /\ closer[c].job.status = "FAILURE" => jobs[closer[c].bug].status = "FAILURE"
           /\ Known' = Known
  <2>1. closer[c].job.status \in {"INPROGRESS", "FAILURE"}
    BY <1>3 DEF Typing, CloserOwned
  <2> QED BY <1>3, <2>1 DEF CloserTells
<1> QED BY <1>1, <1>2, <1>3 DEF CloserTurn

\* An auditor tells Chiron of approved analyses only.
LEMMA AuditorStored ==
  ASSUME AuditorActs
  PROVE  UNCHANGED store \/ AuditorStores \/ \E b \in Bugs : Tells(b, "SUCCESS")
BY DEF AuditorActs, AuditorTurn, AuditorStores

\* A worker touches the audit at hand and its job.
LEMMA WorkerStored ==
  ASSUME Typing, WorkerActs
  PROVE  UNCHANGED store \/ WorkerStores \/ Telling
<1>0. PICK w \in Workers : \E r : WorkerTurn(w, r)  BY DEF WorkerActs
<1>1. PICK r : WorkerTurn(w, r)  BY <1>0
<1> DEFINE a == worker[w].id
<1>2. worker[w].pc \notin {"idle", "accept"} => a \in Known /\ owner[a] \in Bugs
  BY DEF Typing, WorkerOwned, Known
<1>3. \/ UNCHANGED store
      \/ /\ worker[w].pc \notin {"idle", "accept"}
         /\ \/ Decides(a, "SUCCESS") \/ Decides(a, "FAILURE") \/ Waits(a)
            \/ Marks(a) \/ Saves(a, worker[w].job)
      \/ /\ worker[w].pc \notin {"idle", "accept"}
         /\ Tells(owner[a], "SUCCESS") \/ Tells(owner[a], "FAILURE")
  BY <1>1 DEF WorkerTurn
<1> QED BY <1>2, <1>3 DEF WorkerStores, Telling, Resolved, JobStatus

\* A job comes to know an analysis by the closer only.
LEMMA KnownStays ==
  ASSUME Typing, TimeActs \/ AuditorActs \/ WorkerActs
  PROVE  Known' = Known
<1>1. closer' = closer  BY DEF TimeActs, AuditorActs, WorkerActs
<1>2. UNCHANGED store \/ TimeStores \/ AuditorStores \/ WorkerStores \/ \E b, v : Tells(b, v)
  BY AuditorStored, WorkerStored DEF TimeActs, Telling
<1>3. UNCHANGED <<owner, lost>>
  BY <1>2 DEF TimeStores, Queues, Waits, AuditorStores, Opens, Marks, WorkerStores,
     Decides, Saves, Tells, store
<1> QED BY <1>1, <1>3, KnownKept

\* The collections change in one of the ways above.
LEMMA StoreSteps ==
  ASSUME Typing, Approval, Sound, [Next]_vars  PROVE StoreStep
<1>1. CloserTells => Telling  BY DEF CloserTells, Telling, JobStatus
<1>2. (\E b \in Bugs : Tells(b, "SUCCESS")) => Telling  BY DEF Telling, JobStatus
<1>3. UNCHANGED store => Quiet  BY DEF store, Quiet
<1>4. CASE UNCHANGED vars  BY <1>3, <1>4, KnownKept DEF StoreStep, vars, store
<1>5. CASE TimeActs \/ AuditorActs \/ WorkerActs
  BY <1>2, <1>3, <1>5, KnownStays, AuditorStored, WorkerStored DEF StoreStep, TimeActs
<1> QED BY <1>1, <1>4, <1>5, Turns, CloserStored DEF StoreStep

-----------------------------------------------------------------------------
(***************************************************************************)
(* The collections stay sound.                                             *)
(***************************************************************************)

\* Before anything is filed.
LEMMA SoundInit == Init => Sound
<1> SUFFICES ASSUME Init PROVE Sound  OBVIOUS
<1>1. Limited
  BY NoneAssumption, RetryAssumption DEF Init, Limited, NoJob, NoStatus
<1>2. Counted
  <2>1. \A b \in Bugs : KnownOf(b) = {}  BY NoneAssumption DEF Init, KnownOf, Known
  <2>2. \A b \in Bugs : jobs[b].retryCount = 0  BY DEF Init, NoJob
  <2> QED BY <2>1, <2>2, FS_EmptySet DEF Counted
<1>3. Tracked  BY DEF Init, Tracked, NoAudit, NoStatus
<1>4. FailureTold  BY DEF Init, FailureTold
<1>5. CloserSound  BY DEF Init, CloserSound, IdleCloser
<1>6. AuditorSound  BY DEF Init, AuditorSound, IdleAuditor
<1>7. WorkerSound  BY DEF Init, WorkerSound, IdleWorker
<1> QED BY <1>1, <1>2, <1>3, <1>4, <1>5, <1>6, <1>7 DEF Sound, StoreSound

\* What typing says of an analysis and of a job.
LEMMA Documents ==
  ASSUME Typing
  PROVE  /\ \A a \in Ids : audits[a].status # NoStatus => a \in Known
         /\ \A a \in Known : a \in Ids /\ owner[a] \in Bugs
         /\ \A b \in Bugs : jobs[b].retryCount \in Nat /\ jobs[b].last \in Known \cup {None}
         /\ RetryCount \in Nat \ {0} /\ None \notin Ids
BY NoneAssumption, RetryAssumption DEF Typing, StoreOwned, Known, TypeOK, Job

\* No attempt beyond the limit, and every analysis counted.
LEMMA LimitedStep ==
  ASSUME Typing, Limited, Counted, StoreStep
  PROVE  Limited' /\ Counted'
<1>d. /\ \A b \in Bugs : jobs[b].retryCount \in Nat /\ jobs[b].last \in Known \cup {None}
      /\ RetryCount \in Nat \ {0} /\ None \notin Ids
      /\ \A a \in Known : a \in Ids /\ owner[a] \in Bugs
  BY Documents
<1>o. owner \in [Ids -> Bugs \cup {None}]  BY DEF Typing, TypeOK
\* Steps by which no job knows more and which change neither count nor limit.
<1>k. ASSUME \A a \in Known : owner'[a] = owner[a], Known' = Known,
             \A b \in Bugs : /\ jobs'[b].retryCount = jobs[b].retryCount
                             /\ jobs'[b].last \in {None, jobs[b].last}
                             /\ jobs'[b].status \in {"READY", NoStatus}
                                => jobs[b].retryCount < RetryCount
      PROVE  Limited' /\ Counted'
  <2>1. Limited'  BY <1>k, <1>d DEF Limited
  <2>2. \A b \in Bugs : KnownOf(b)' = KnownOf(b)  BY <1>k DEF KnownOf
  <2>3. Counted'  BY <1>k, <2>2 DEF Counted
  <2> QED BY <2>1, <2>3
<1>1. CASE (\A a \in Known : owner'[a] = owner[a]) /\ Known' = Known /\ jobs' = jobs
  BY <1>1, <1>k DEF Limited
<1>2. ASSUME NEW b \in Bugs, Queues(b), Known' = Known  PROVE Limited' /\ Counted'
  BY <1>2, <1>k DEF Queues, JobsBut, Limited
<1>3. ASSUME NEW b \in Bugs, Refuses(b)  PROVE Limited' /\ Counted'
  BY <1>3, <1>k DEF Refuses, JobsBut, Limited, NoStatus
<1>4. ASSUME NEW a \in Known, NEW job, Saves(a, job), Known' = Known
      PROVE  Limited' /\ Counted'
  BY <1>4, <1>d, <1>k DEF Saves, JobsBut, Limited, Agrees, Awaits, NoStatus
<1>5. ASSUME NEW b \in Bugs, NEW a \in Ids \cup {None}, Asks(b, a)
      PROVE  Limited' /\ Counted'
  <2>1. /\ jobs[b].retryCount < RetryCount
        /\ jobs'[b].retryCount = jobs[b].retryCount + 1
        /\ jobs'[b].status = "INPROGRESS" /\ jobs'[b].last = a
        /\ \A x \in Bugs \ {b} : jobs'[x] = jobs[x]
        /\ owner' = owner
        /\ a \in Ids => owner[a] = b
    BY <1>5, <1>d DEF Asks, Ripe, Limited, JobsBut
  <2>l. Limited'  BY <1>d, <2>1 DEF Limited, NoStatus
  <2>c. \A x \in Bugs : Cardinality(KnownOf(x)) \in Nat
    BY FS_CardinalityType DEF Counted
  <2>2. CASE a = None /\ Known' = Known
    <3>1. \A x \in Bugs : KnownOf(x)' = KnownOf(x)  BY <2>1, <2>2 DEF KnownOf
    <3>2. Counted'  BY <1>d, <2>1, <2>c, <3>1 DEF Counted
    <3> QED BY <2>l, <3>2
  <2>3. CASE a \in Ids \ Known /\ Known' = Known \cup {a}
    <3>1. KnownOf(b)' = KnownOf(b) \cup {a} /\ a \notin KnownOf(b)
      BY <2>1, <2>3 DEF KnownOf
    <3>2. \A x \in Bugs \ {b} : KnownOf(x)' = KnownOf(x)
      BY <2>1, <2>3 DEF KnownOf
    <3>3. /\ IsFiniteSet(KnownOf(b) \cup {a})
          /\ Cardinality(KnownOf(b) \cup {a}) = Cardinality(KnownOf(b)) + 1
      BY <3>1, FS_AddElement DEF Counted
    <3>4. IsFiniteSet(KnownOf(b)') /\ Cardinality(KnownOf(b)') <= jobs'[b].retryCount
      BY <1>d, <2>1, <2>c, <3>1, <3>3 DEF Counted
    <3>5. Counted'  BY <2>1, <3>2, <3>4 DEF Counted
    <3> QED BY <2>l, <3>5
  <2> QED BY <1>5, <2>2, <2>3 DEF Asks
<1>6. (AuditorStores \/ Telling \/ Quiet) => (\A a \in Known : owner'[a] = owner[a]) /\ jobs' = jobs
  BY DEF AuditorStores, Opens, Marks, Telling, Tells, Quiet
<1>7. CASE TimeStores /\ Known' = Known  BY <1>1, <1>2, <1>7 DEF TimeStores, Waits
<1>8. CASE CloserStores  BY <1>3, <1>5, <1>8 DEF CloserStores
<1>9. CASE WorkerStores /\ Known' = Known
  BY <1>1, <1>4, <1>9 DEF WorkerStores, Waits, Decides, Marks
<1> QED BY <1>1, <1>6, <1>7, <1>8, <1>9 DEF StoreStep
\* Audits stay those of the latest analyses, and approvals those of jobs that
\* wait for them or have ended with them.
LEMMA TrackedStep ==
  ASSUME Typing, Approval, Tracked, StoreStep
  PROVE  Tracked'
<1>d. /\ \A a \in Ids : audits[a].status # NoStatus => a \in Known
      /\ \A a \in Known : a \in Ids /\ owner[a] \in Bugs
      /\ None \notin Ids \cup Bugs
      /\ approved \subseteq Known
  BY Documents, NoneAssumption DEF Approval
<1>o. owner \in [Ids -> Bugs \cup {None}]  BY DEF Typing, TypeOK
\* Steps that touch a job which neither waits for an audit nor ended with one.
<1>j. ASSUME NEW b \in Bugs, jobs[b].status \in {"READY", NoStatus}, JobsBut(b),
             UNCHANGED <<audits, approved>>, \A a \in Known : owner'[a] = owner[a]
      PROVE  Tracked'
  <2>1. ASSUME NEW a \in Ids, audits[a].status = "INPROGRESS" \/ a \in approved
        PROVE  owner'[a] = owner[a] /\ owner[a] \in Bugs /\ owner[a] # b
    BY <1>d, <1>j, <2>1 DEF Tracked, Awaits, NoStatus
  <2>2. ASSUME NEW a \in Ids, audits[a].status = "INPROGRESS" \/ a \in approved
        PROVE  jobs'[owner'[a]] = jobs[owner[a]]
    BY <1>j, <2>1, <2>2 DEF JobsBut
  <2> QED BY <1>j, <2>2 DEF Tracked, Awaits
<1>1. ASSUME NEW b \in Bugs, Queues(b)  PROVE Tracked'
  BY <1>1, <1>j DEF Queues
<1>2. ASSUME NEW b \in Bugs, Refuses(b)  PROVE Tracked'
  BY <1>2, <1>j DEF Refuses, Ripe
<1>3. ASSUME NEW b \in Bugs, NEW a \in Ids \cup {None}, Asks(b, a)  PROVE Tracked'
  BY <1>3, <1>j DEF Asks, Ripe
\* Steps that touch one audit.
<1>4. ASSUME NEW a \in Ids, Opens(a)  PROVE Tracked'
  BY <1>4 DEF Tracked, Opens, AuditsBut, Awaits, NoStatus
<1>5. ASSUME NEW a \in Ids, Waits(a) \/ Marks(a)  PROVE Tracked'
  BY <1>5 DEF Tracked, Waits, Marks, AuditsBut, Awaits
<1>6. ASSUME NEW a \in Ids, NEW v \in Resolved, Decides(a, v)  PROVE Tracked'
  BY <1>6 DEF Tracked, Decides, AuditsBut, Awaits, Resolved
<1>7. ASSUME NEW a \in Known, NEW job, Saves(a, job)  PROVE Tracked'
  <2>1. ASSUME NEW x \in Ids, audits[x].status = "INPROGRESS"
        PROVE  jobs'[owner[x]] = jobs[owner[x]]
    <3>1. Awaits(owner[x], x) /\ owner[x] \in Bugs
      BY <1>d, <2>1 DEF Tracked, NoStatus
    <3>2. owner[x] # owner[a]
      BY <1>7, <2>1, <3>1 DEF Saves, Agrees, Awaits, Resolved
    <3> QED BY <1>7, <3>1, <3>2 DEF Saves, JobsBut
  <2>2. ASSUME NEW x \in approved
        PROVE  /\ jobs'[owner[x]].last = x
               /\ jobs'[owner[x]].status \in {"INPROGRESS", "SUCCESS"}
    <3>1. /\ audits[x].status = "SUCCESS" /\ jobs[owner[x]].last = x
          /\ jobs[owner[x]].status \in {"INPROGRESS", "SUCCESS"} /\ owner[x] \in Bugs
      BY <1>d DEF Tracked
    <3>2. CASE owner[x] = owner[a]
      BY <1>7, <3>1, <3>2 DEF Saves, Agrees, Awaits
    <3>3. CASE owner[x] # owner[a]
      BY <1>7, <3>1, <3>3 DEF Saves, JobsBut
    <3> QED BY <3>2, <3>3
  <2>3. UNCHANGED <<audits, owner, lost, approved>>  BY <1>7 DEF Saves
  <2> QED BY <2>1, <2>2, <2>3 DEF Tracked, Awaits
<1>8. (Telling \/ Quiet) => Tracked'
  BY <1>d DEF Telling, Tells, Quiet, Tracked, Awaits, NoStatus
<1> QED BY <1>d, <1>1, <1>2, <1>3, <1>4, <1>5, <1>6, <1>7, <1>8
        DEF StoreStep, TimeStores, CloserStores, AuditorStores, WorkerStores

\* No verdict is overwritten, and no audit reopened.
LEMMA VerdictsKept ==
  ASSUME Typing, Tracked, StoreStep
  PROVE  /\ \A a \in Ids :
              /\ audits[a].status \in Resolved => audits'[a].status = audits[a].status
              /\ audits[a].closed => audits'[a].closed
         /\ \A b \in Bugs :
              jobs[b].status \in Resolved => jobs'[b].status = jobs[b].status
<1> DEFINE Jobs == \A b \in Bugs :
              jobs[b].status \in Resolved => jobs'[b].status = jobs[b].status
           Audits == \A a \in Ids :
              /\ audits[a].status \in Resolved => audits'[a].status = audits[a].status
              /\ audits[a].closed => audits'[a].closed
<1>1. ASSUME NEW b \in Bugs, Queues(b)  PROVE Jobs /\ audits' = audits
  BY <1>1 DEF Queues, JobsBut, Resolved, NoStatus
<1>2. ASSUME NEW b \in Bugs, NEW a, Asks(b, a) \/ Refuses(b)
      PROVE  Jobs /\ audits' = audits
  BY <1>2 DEF Asks, Refuses, Ripe, JobsBut, Resolved
<1>3. ASSUME NEW a \in Ids, NEW job, Saves(a, job)  PROVE Jobs /\ audits' = audits
  BY <1>3 DEF Saves, Agrees, Awaits, JobsBut, Resolved
<1>4. ASSUME NEW a \in Ids, Opens(a) \/ Waits(a) \/ Marks(a)  PROVE Audits /\ jobs' = jobs
  BY <1>4 DEF Opens, Waits, Marks, AuditsBut, Resolved, NoStatus, Tracked
<1>5. ASSUME NEW a \in Ids, NEW v \in Resolved, Decides(a, v)  PROVE Audits /\ jobs' = jobs
  BY <1>5 DEF Decides, AuditsBut, Resolved, Tracked
<1>6. Telling \/ Quiet => audits' = audits /\ jobs' = jobs
  BY DEF Telling, Tells, Quiet
<1>7. Known \subseteq Ids  BY DEF Known
<1> QED BY <1>1, <1>2, <1>3, <1>4, <1>5, <1>6, <1>7
        DEF StoreStep, TimeStores, CloserStores, AuditorStores, WorkerStores

\* Chiron is told of a failure only once the job or its last audit failed.
LEMMA FailureToldStep ==
  ASSUME Typing, Tracked, FailureTold, StoreStep
  PROVE  FailureTold'
<1>c. chiron \in [Bugs -> SUBSET JobStatus]  BY DEF Typing, TypeOK
<1>v. \A b \in Bugs : jobs[b].status = "FAILURE" => jobs'[b].status = "FAILURE"
  BY VerdictsKept DEF Resolved
<1>a. \A a \in Ids : audits[a].status = "FAILURE" => audits'[a].status = "FAILURE"
  BY VerdictsKept DEF Resolved
\* Steps that keep every failure.
<1>k. ASSUME chiron' = chiron,
             \A b \in Bugs : "FAILURE" \in chiron[b] /\ Failing(b) => Failing(b)'
      PROVE  FailureTold'
  BY <1>k DEF FailureTold
<1>1. CASE jobs' = jobs /\ chiron' = chiron
  BY <1>1, <1>a, <1>k DEF Failing, Awaits
<1>2. ASSUME NEW b \in Bugs, JobsBut(b), jobs[b].status \in {"READY", NoStatus},
             UNCHANGED <<audits, chiron>>
      PROVE  FailureTold'
  BY <1>2, <1>k DEF Failing, Awaits, JobsBut, NoStatus
<1>3. ASSUME NEW a \in Ids, NEW job, Saves(a, job)  PROVE FailureTold'
  <2>1. UNCHANGED <<audits, chiron>> /\ jobs'[owner[a]] = job /\ Agrees(a, job)
    BY <1>3 DEF Saves
  <2>2. ASSUME NEW b \in Bugs, "FAILURE" \in chiron[b], Failing(b)
        PROVE  Failing(b)'
    <3>1. CASE jobs[b].status = "FAILURE"  BY <1>v, <3>1 DEF Failing
    <3>2. CASE b # owner[a]
      BY <1>3, <2>1, <2>2, <3>2 DEF Saves, JobsBut, Failing, Awaits
    <3>3. CASE b = owner[a] /\ jobs[b].status # "FAILURE"
      <4>1. PICK x \in Ids : Awaits(b, x) /\ audits[x].status = "FAILURE"
        BY <2>2, <3>3 DEF Failing
      <4>2. x = a  BY <2>1, <3>3, <4>1 DEF Agrees, Awaits
      <4>3. job.status = "FAILURE"
        BY <2>1, <2>2, <3>3, <4>1, <4>2 DEF Agrees
      <4> QED BY <2>1, <3>3, <4>3 DEF Failing
    <3> QED BY <3>1, <3>2, <3>3
  <2> QED BY <1>k, <2>1, <2>2
<1>4. ASSUME NEW b \in Bugs, NEW v \in JobStatus, Tells(b, v)  PROVE FailureTold'
  <2>1. /\ chiron' = [chiron EXCEPT ![b] = @ \cup {v}]
        /\ UNCHANGED <<jobs, audits, owner, lost, approved>>
        /\ v = "FAILURE" => Failing(b)
    BY <1>4 DEF Tells, Updated
  <2>2. \A x \in Bugs : "FAILURE" \in chiron'[x] => Failing(x)
    BY <1>c, <2>1 DEF FailureTold
  <2> QED BY <2>1, <2>2 DEF FailureTold, Failing, Awaits
<1>5. CASE TimeStores  BY <1>1, <1>2, <1>5 DEF TimeStores, Queues, Waits
<1>6. CASE CloserStores  BY <1>2, <1>6 DEF CloserStores, Asks, Refuses, Ripe
<1>7. CASE AuditorStores \/ Quiet
  BY <1>1, <1>7 DEF AuditorStores, Opens, Marks, Quiet
<1>8. CASE WorkerStores
  BY <1>1, <1>3, <1>8 DEF WorkerStores, Waits, Decides, Marks, Known
<1> QED BY <1>4, <1>5, <1>6, <1>7, <1>8 DEF StoreStep, Telling
-----------------------------------------------------------------------------
(***************************************************************************)
(* A pass finds what it read as it read it, whoever acts meanwhile.        *)
(***************************************************************************)

\* A job that is ripe is left to the closer.
LEMMA RipeKept ==
  ASSUME Typing, Approval, Sound, TimeActs \/ AuditorActs \/ WorkerActs
  PROVE  \A b \in Bugs : Ripe(b) => jobs'[b] = jobs[b]
<1> DEFINE Goal == \A b \in Bugs : Ripe(b) => jobs'[b] = jobs[b]
<1>1. ASSUME NEW b \in Bugs, Queues(b)  PROVE Goal
  BY <1>1 DEF Queues, JobsBut, Ripe, NoStatus
<1>2. ASSUME NEW a, NEW job, Saves(a, job)  PROVE Goal
  BY <1>2 DEF Saves, Agrees, Awaits, JobsBut, Ripe
<1>3. CASE TimeActs  BY <1>1, <1>3 DEF TimeActs, TimeStores, Waits
<1>4. CASE AuditorActs
  BY <1>4, AuditorStored DEF AuditorStores, Opens, Marks, Tells, store
<1>5. CASE WorkerActs
  BY <1>2, <1>5, WorkerStored
     DEF WorkerStores, Waits, Decides, Marks, Telling, Tells, store
<1> QED BY <1>3, <1>4, <1>5

\* The closer stays sound.
LEMMA CloserSoundStep ==
  ASSUME Alone, Typing, Approval, Sound, [Next]_vars
  PROVE  CloserSound'
<1>t. closer \in [Closers -> CloserState] /\ \A c \in Closers : closer[c].todo \subseteq Bugs
  BY DEF Typing, TypeOK, CloserState
<1>b. \A c \in Closers : closer[c].pc \in {"analyse", "save", "notify"} => closer[c].bug \in Bugs
  BY DEF Typing, CloserOwned
<1>v. \A b \in Bugs : jobs[b].status = "FAILURE" => jobs'[b].status = "FAILURE"
  BY StoreSteps, VerdictsKept DEF Sound, StoreSound, Resolved
<1>1. CASE UNCHANGED vars
  BY <1>1 DEF Sound, CloserSound, Ripe, vars, store
<1>2. CASE TimeActs \/ AuditorActs \/ WorkerActs
  <2>1. closer' = closer  BY <1>2 DEF TimeActs, AuditorActs, WorkerActs
  <2> QED BY <1>2, <1>t, <1>b, <1>v, <2>1, RipeKept DEF Sound, CloserSound, Ripe
<1>3. CASE CloserActs
  <2>0. PICK c \in Closers : \E r : closer' = [closer EXCEPT ![c] = r] /\ CloserTurn(c, r)
    BY <1>3 DEF CloserActs
  <2>1. PICK r : closer' = [closer EXCEPT ![c] = r] /\ CloserTurn(c, r)
    BY <2>0
  <2> DEFINE C == closer[c]
  <2>2. /\ closer'[c] = r
        /\ \A d \in Closers : closer'[d] = r
    BY <1>t, <2>1 DEF Alone
  <2>3. SUFFICES
          /\ \A b \in r.todo : Ripe(b)'
          /\ r.pc \in {"analyse", "save"} => Ripe(r.bug)'
          /\ r.pc = "analyse" => r.job = jobs'[r.bug]
          /\ r.pc = "save" => Changed(r.job, jobs'[r.bug])
          /\ r.pc \in {"analyse", "save", "notify"} => r.bug \notin r.todo
          /\ r.pc = "notify" /\ r.job.status = "FAILURE"
               => jobs'[r.bug].status = "FAILURE"
    BY <2>2 DEF CloserSound, Ripe, Changed
  <2>s. CloserSound  BY DEF Sound
  <2>k. Quiet => \A b \in Bugs : Ripe(b)' = Ripe(b) /\ jobs'[b] = jobs[b]
    BY DEF Quiet, Ripe
  <2>4. CASE Quiet /\ r.pc \in {"idle", "fetch"}
             /\ \A b \in r.todo : b \in Bugs /\ Ripe(b)
    BY <2>4, <2>k
  <2>5. CASE /\ Quiet
             /\ r.pc = "analyse" /\ r.bug \in C.todo
             /\ r.todo = C.todo \ {r.bug} /\ r.job = jobs[r.bug]
    BY <1>t, <2>5, <2>k, <2>s DEF CloserSound
  <2>9. CASE /\ Quiet /\ C.pc = "analyse"
             /\ r.pc = "save" /\ r.bug = C.bug /\ r.todo = C.todo
             /\ Changed(r.job, C.job)
    BY <1>t, <1>b, <2>9, <2>k, <2>s DEF CloserSound
  <2>6. CASE /\ C.pc = "save"
             /\ r.pc = "notify" /\ r.bug = C.bug /\ r.todo = C.todo
             /\ r.job.status = jobs'[C.bug].status
             /\ (\E a \in Ids \cup {None} : Asks(C.bug, a)) \/ Refuses(C.bug)
    <3>1. JobsBut(C.bug) /\ C.bug \notin C.todo /\ \A b \in C.todo : b \in Bugs /\ Ripe(b)
      BY <1>t, <2>6, <2>s DEF Asks, Refuses, CloserSound
    <3>2. \A b \in C.todo : Ripe(b)'  BY <3>1 DEF JobsBut, Ripe
    <3> QED BY <2>6, <3>1, <3>2
  <2>7. CASE /\ C.bug \in Bugs
             /\ r.pc \in {"idle", "fetch"} /\ r.todo \subseteq C.todo
             /\ Tells(C.bug, C.job.status)
    <3>1. \A b \in Bugs : Ripe(b)' = Ripe(b)  BY <2>7 DEF Tells, Ripe
    <3> QED BY <1>t, <2>7, <2>s, <3>1 DEF CloserSound
  <2> QED BY <2>1, <2>4, <2>5, <2>6, <2>7, <2>9 DEF CloserTurn
<1> QED BY <1>1, <1>2, <1>3, Turns

\* Nobody but the worker saves a job in progress, and it only after the audit;
\* no audit is removed.
LEMMA UnauditedKept ==
  ASSUME Typing, StoreStep,
         NEW j, j[2] \in Known \cup {None}, Unaudited(j)
  PROVE  Unaudited(j)'
<1>1. SUFFICES ASSUME j[2] \in Ids, j[2] \in Known, owner[j[2]] = j[1], j[1] \in Bugs,
                   audits[j[2]].status = NoStatus => Awaits(j[1], j[2])
              PROVE  /\ owner'[j[2]] = j[1]
                     /\ audits'[j[2]].status = NoStatus => Awaits(j[1], j[2])'
  BY NoneAssumption DEF Unaudited, Known
<1> DEFINE a == j[2]
           b == j[1]
<1>o. owner \in [Ids -> Bugs \cup {None}]  BY DEF Typing, TypeOK
<1>2. owner'[a] = b
  BY <1>1, <1>o, NoneAssumption DEF StoreStep, TimeStores, Queues, Waits, CloserStores,
     Asks, Refuses, AuditorStores, Opens, Marks, WorkerStores, Decides, Saves,
     Telling, Tells, Quiet
<1>3. audits'[a].status = NoStatus => audits[a].status = NoStatus
  BY <1>1 DEF StoreStep, TimeStores, Queues, Waits, CloserStores,
     Asks, Refuses, AuditorStores, Opens, Marks, WorkerStores, Decides, Saves,
     Telling, Tells, Quiet, AuditsBut, NoStatus, Resolved
<1>4. Awaits(b, a) /\ audits[a].status = NoStatus => Awaits(b, a)'
  <2>1. SUFFICES ASSUME Awaits(b, a), audits[a].status = NoStatus
                 PROVE  Awaits(b, a)'
    OBVIOUS
  <2>2. ASSUME NEW x \in Bugs, JobsBut(x), jobs[x].status # "INPROGRESS"
        PROVE  Awaits(b, a)'
    BY <1>1, <2>1, <2>2 DEF JobsBut, Awaits
  <2>3. ASSUME NEW x \in Known, NEW job, Saves(x, job)  PROVE Awaits(b, a)'
    <3>1. x # a /\ Awaits(owner[x], x)  BY <2>1, <2>3 DEF Saves, Agrees, Resolved, NoStatus
    <3>2. owner[x] # b  BY <2>1, <3>1 DEF Awaits
    <3> QED BY <1>1, <2>1, <2>3, <3>2 DEF Saves, JobsBut, Awaits
  <2>4. ASSUME jobs' = jobs  PROVE Awaits(b, a)'  BY <2>1, <2>4 DEF Awaits
  <2>5. CASE TimeStores  BY <2>2, <2>4, <2>5 DEF TimeStores, Queues, Waits, NoStatus
  <2>6. CASE CloserStores  BY <2>2, <2>6 DEF CloserStores, Asks, Refuses, Ripe
  <2>7. CASE WorkerStores  BY <2>3, <2>4, <2>7 DEF WorkerStores, Waits, Decides, Marks
  <2>8. CASE AuditorStores \/ Telling \/ Quiet
    BY <2>4, <2>8 DEF AuditorStores, Opens, Marks, Telling, Tells, Quiet
  <2> QED BY <2>5, <2>6, <2>7, <2>8 DEF StoreStep
<1> QED BY <1>1, <1>2, <1>3, <1>4
\* The auditor stays sound.
LEMMA AuditorSoundStep ==
  ASSUME Alone, Typing, Approval, Sound, [Next]_vars
  PROVE  AuditorSound'
<1>t. auditor \in [Auditors -> AuditorState] /\ \A s \in Auditors : auditor[s].ids \subseteq Ids
  BY DEF Typing, TypeOK, AuditorState
<1>w. /\ \A s \in Auditors : \A j \in auditor[s].jobs : j[2] \in Known \cup {None}
      /\ \A s \in Auditors : auditor[s].pc = "create" => auditor[s].job[2] \in Known
      /\ \A s \in Auditors : auditor[s].pc = "flag" => auditor[s].id \in Known
  BY DEF Typing, AuditorOwned
<1>s. StoreStep /\ AuditorSound  BY StoreSteps DEF Sound
<1>v. \A a \in Ids : audits[a].status = "SUCCESS" => audits'[a].status = "SUCCESS"
  BY <1>s, VerdictsKept DEF Sound, StoreSound, Resolved
<1>u. \A j : j[2] \in Known \cup {None} /\ Unaudited(j) => Unaudited(j)'
  BY <1>s, UnauditedKept
<1>k. Known \subseteq Ids  BY DEF Known
\* Only an auditor opens an audit.
<1>1. CASE UNCHANGED vars \/ TimeActs \/ CloserActs \/ WorkerActs
  <2>1. auditor' = auditor  BY <1>1 DEF vars, TimeActs, CloserActs, WorkerActs
  <2>2. \A a \in Ids : audits[a].status = NoStatus => audits'[a].status = NoStatus
    <3>1. Quiet \/ TimeStores \/ CloserStores \/ WorkerStores \/ Telling
      <4>1. CloserTells => Telling  BY DEF CloserTells, Telling, JobStatus
      <4>2. UNCHANGED store => Quiet  BY DEF store, Quiet
      <4> QED BY <1>1, <4>1, <4>2, CloserStored, WorkerStored DEF TimeActs, vars
    <3> QED BY <1>k, <3>1 DEF TimeStores, Queues, Waits, CloserStores, Asks, Refuses,
          WorkerStores, Decides, Marks, Saves, Telling, Tells, Quiet, AuditsBut, NoStatus
  <2>3. \A s \in Auditors : \A j \in auditor[s].jobs : Unaudited(j)'
    BY <1>s, <1>u, <1>w DEF AuditorSound
  <2>4. \A s \in Auditors : auditor[s].pc = "create" =>
           Unaudited(auditor[s].job)' /\ audits'[auditor[s].job[2]].status = NoStatus
    <3>1. SUFFICES ASSUME NEW s \in Auditors, auditor[s].pc = "create",
                          NEW j, j = auditor[s].job
                   PROVE  Unaudited(j)' /\ audits'[j[2]].status = NoStatus
      BY <2>1 DEF Unaudited, Awaits
    <3>2. j[2] \in Known /\ Unaudited(j) /\ audits[j[2]].status = NoStatus
      BY <1>s, <1>w, <3>1 DEF AuditorSound
    <3> QED BY <1>k, <1>u, <2>2, <3>2
  <2> QED BY <1>s, <1>t, <1>k, <1>v, <1>w, <2>1, <2>3, <2>4 DEF AuditorSound
<1>2. CASE AuditorActs
  <2>0. PICK s \in Auditors : \E r : auditor' = [auditor EXCEPT ![s] = r] /\ AuditorTurn(s, r)
    BY <1>2 DEF AuditorActs
  <2>1. PICK r : auditor' = [auditor EXCEPT ![s] = r] /\ AuditorTurn(s, r)
    BY <2>0
  <2> DEFINE A == auditor[s]
  <2>2. \A x \in Auditors : auditor'[x] = r  BY <1>t, <2>1 DEF Alone
  <2>3. SUFFICES
          /\ \A j \in r.jobs : Unaudited(j)'
          /\ r.pc = "create" => Unaudited(r.job)' /\ audits'[r.job[2]].status = NoStatus
          /\ \A a \in r.ids : audits'[a].status = "SUCCESS"
          /\ r.pc = "flag" => audits'[r.id].status = "SUCCESS"
    BY <2>2 DEF AuditorSound
  <2>4. ASSUME NEW j, j \in A.jobs  PROVE Unaudited(j)'
    BY <1>s, <1>u, <1>w, <2>4 DEF AuditorSound
  <2>5. ASSUME NEW j, j[1] \in Bugs, Awaits(j[1], j[2]), UNCHANGED store
        PROVE  Unaudited(j)'
    <3>1. j[2] \in Ids => owner[j[2]] = j[1]
      BY <2>5 DEF Sound, StoreSound, Limited, Awaits
    <3> QED BY <2>5, <3>1 DEF Unaudited, Awaits, store
  <2>6. \A j \in r.jobs : Unaudited(j)'  BY <2>1, <2>4, <2>5 DEF AuditorTurn
  <2>7. r.pc = "create" => Unaudited(r.job)' /\ audits'[r.job[2]].status = NoStatus
    BY <2>1, <2>4 DEF AuditorTurn, store
  <2>8. \A a \in A.ids : audits'[a].status = "SUCCESS"
    BY <1>s, <1>t, <1>v DEF AuditorSound
  <2> QED BY <2>1, <2>6, <2>7, <2>8 DEF AuditorTurn, store
<1> QED BY <1>1, <1>2, Turns

\* An open audit that is due, and the job it is about, are left to the worker.
LEMMA OpenKept ==
  ASSUME Typing, Approval, Sound, UNCHANGED vars \/ TimeActs \/ CloserActs \/ AuditorActs,
         NEW a \in Known
  PROVE  /\ owner'[a] = owner[a]
         /\ audits[a].status = "INPROGRESS" /\ audits[a].due => audits'[a] = audits[a]
         /\ Awaits(owner[a], a) =>
              /\ jobs'[owner[a]] = jobs[owner[a]]
              /\ "FAILURE" \notin chiron[owner[a]] => "FAILURE" \notin chiron'[owner[a]]
<1> DEFINE Goal == /\ owner'[a] = owner[a]
                   /\ audits[a].status = "INPROGRESS" /\ audits[a].due => audits'[a] = audits[a]
                   /\ Awaits(owner[a], a) =>
                        /\ jobs'[owner[a]] = jobs[owner[a]]
                        /\ "FAILURE" \notin chiron[owner[a]] => "FAILURE" \notin chiron'[owner[a]]
<1>k. a \in Ids /\ owner[a] \in Bugs /\ None \notin Bugs
  BY NoneAssumption DEF Known
<1>c. chiron \in [Bugs -> SUBSET JobStatus] /\ owner \in [Ids -> Bugs \cup {None}]
  BY DEF Typing, TypeOK
<1>0. CASE Quiet \/ UNCHANGED store  BY <1>0 DEF Quiet, store
<1>1. ASSUME NEW b \in Bugs, Queues(b)  PROVE Goal
  BY <1>k, <1>1 DEF Queues, JobsBut, Awaits, NoStatus
<1>2. ASSUME NEW b \in Bugs, NEW x, Asks(b, x) \/ Refuses(b)  PROVE Goal
  BY <1>k, <1>c, <1>2 DEF Asks, Refuses, JobsBut, Awaits, Ripe
<1>3. ASSUME NEW x \in Ids, Waits(x) /\ ~audits[x].due  PROVE Goal
  BY <1>k, <1>3 DEF Waits, AuditsBut
<1>4. ASSUME NEW x \in Ids, Opens(x) \/ Marks(x)  PROVE Goal
  BY <1>k, <1>4 DEF Opens, Marks, AuditsBut, NoStatus
<1>5. ASSUME NEW b \in Bugs, NEW v, Tells(b, v), v = "FAILURE" => jobs[b].status = "FAILURE"
      PROVE  Goal
  BY <1>k, <1>c, <1>5 DEF Tells, Updated, Awaits
<1>6. CASE TimeActs  BY <1>1, <1>3, <1>6 DEF TimeActs, TimeStores
<1>7. CASE CloserActs  BY <1>0, <1>2, <1>5, <1>7, CloserStored DEF CloserStores, CloserTells
<1>8. CASE AuditorActs
  BY <1>0, <1>4, <1>5, <1>8, AuditorStored DEF AuditorStores, Known
<1> QED BY <1>0, <1>6, <1>7, <1>8 DEF vars
\* The worker stays sound.
LEMMA WorkerSoundStep ==
  ASSUME Alone, Typing, Approval, Sound, [Next]_vars
  PROVE  WorkerSound'
<1>t. /\ worker \in [Workers -> WorkerState]
      /\ \A w \in Workers : worker[w] \in WorkerState
      /\ \A w \in Workers : worker[w].todo \subseteq [id : Ids, doc : Audit]
  BY DEF Typing, TypeOK, WorkerState
<1>w. \A w \in Workers :
        /\ \A e \in worker[w].todo : e.id \in Known
        /\ worker[w].pc \notin {"idle", "accept"} => worker[w].id \in Known
  BY DEF Typing, WorkerOwned
<1>k. \A a \in Known : a \in Ids /\ owner[a] \in Bugs  BY DEF Known
<1>s. WorkerSound /\ Tracked /\ FailureTold /\ StoreStep
  BY StoreSteps DEF Sound, StoreSound
<1>v. \A a \in Ids : audits[a].status \in Resolved => audits'[a].status = audits[a].status
  BY <1>s, VerdictsKept
<1>0. SUFFICES
        ASSUME NEW w \in Workers, NEW r, r = worker'[w]
        PROVE  /\ \A e \in r.todo : Fresh(e.id, e.doc)'
               /\ r.pc = "query" => Fresh(r.id, r.doc)' /\ r.job = jobs'[owner'[r.id]]
               /\ r.pc \notin {"idle", "accept"} => \A e \in r.todo : e.id # r.id
               /\ r.pc \in {"close", "flag", "giveup", "save"} => Agrees(r.id, r.job)'
               /\ r.pc \in {"close", "flag"} => r.job.status = "SUCCESS"
               /\ r.pc = "giveup" => r.job.status = "FAILURE"
  BY DEF WorkerSound, Fresh, Agrees, Awaits
<1> DEFINE W == worker[w]
           Fine == /\ \A e \in r.todo : Fresh(e.id, e.doc)'
                   /\ r.pc = "query" => Fresh(r.id, r.doc)' /\ r.job = jobs'[owner'[r.id]]
                   /\ r.pc \notin {"idle", "accept"} => \A e \in r.todo : e.id # r.id
                   /\ r.pc \in {"close", "flag", "giveup", "save"} => Agrees(r.id, r.job)'
                   /\ r.pc \in {"close", "flag"} => r.job.status = "SUCCESS"
                   /\ r.pc = "giveup" => r.job.status = "FAILURE"
\* Steps of others that leave the worker where it is.
<1>1. CASE (UNCHANGED vars \/ TimeActs \/ CloserActs \/ AuditorActs) /\ r = W
  <2>1. ASSUME NEW a \in Known, NEW doc, Fresh(a, doc)  PROVE Fresh(a, doc)'
    BY <1>1, <2>1, OpenKept DEF Fresh
  <2>2. ASSUME NEW a \in Known, Awaits(owner[a], a)
        PROVE  /\ owner'[a] = owner[a] /\ jobs'[owner[a]] = jobs[owner[a]]
               /\ "FAILURE" \notin chiron[owner[a]] => "FAILURE" \notin chiron'[owner[a]]
    BY <1>1, <2>2, OpenKept
  <2>3. \A e \in r.todo : Fresh(e.id, e.doc)'  BY <1>1, <1>s, <1>w, <2>1 DEF WorkerSound
  <2>4. r.pc = "query" => Fresh(r.id, r.doc)' /\ r.job = jobs'[owner'[r.id]]
    <3>1. SUFFICES ASSUME r.pc = "query"
                   PROVE  Fresh(r.id, r.doc)' /\ r.job = jobs'[owner'[r.id]]
      OBVIOUS
    <3>2. r.id \in Known /\ Fresh(r.id, r.doc) /\ r.job = jobs[owner[r.id]]
      BY <1>1, <1>s, <1>w, <3>1 DEF WorkerSound
    <3>3. Awaits(owner[r.id], r.id)  BY <1>k, <1>s, <3>2 DEF Tracked, Fresh
    <3> QED BY <2>1, <2>2, <3>2, <3>3
  <2>5. r.pc \in {"close", "flag", "giveup", "save"} => Agrees(r.id, r.job)'
    <3>1. SUFFICES ASSUME r.pc \in {"close", "flag", "giveup", "save"}
                   PROVE  Agrees(r.id, r.job)'
      OBVIOUS
    <3>2. r.id \in Known /\ Agrees(r.id, r.job)
      BY <1>1, <1>s, <1>w, <3>1 DEF WorkerSound
    <3>3. audits'[r.id].status = audits[r.id].status  BY <1>k, <1>v, <3>2 DEF Agrees
    <3> QED BY <2>2, <3>2, <3>3 DEF Agrees, Awaits
  <2> QED BY <1>1, <1>s, <2>3, <2>4, <2>5 DEF WorkerSound
\* The audits that are due are handed over.
<1>2. CASE \E v \in Workers : Spawns(v)
  <2>1. Spawns(w)  BY <1>2 DEF Alone
  <2>2. r.pc = "accept" /\ r.todo = WaitingAudits
    BY <1>0, <1>t, <2>1 DEF Spawns, WorkerState
  <2> QED BY <2>1, <2>2 DEF Fresh, WaitingAudits, Spawns, store
\* The worker's own turn.
<1>3. CASE WorkerActs
  <2>1. WorkerTurn(w, r)
    <3>0. PICK v \in Workers : \E x : worker' = [worker EXCEPT ![v] = x] /\ WorkerTurn(v, x)
      BY <1>3 DEF WorkerActs
    <3>1. PICK x : worker' = [worker EXCEPT ![v] = x] /\ WorkerTurn(v, x)
      BY <3>0
    <3> QED BY <1>0, <1>t, <3>1 DEF Alone
  <2>d. /\ \A e \in W.todo : e.id \in Known /\ Fresh(e.id, e.doc)
        /\ W.pc = "query" => /\ W.id \in Known /\ Fresh(W.id, W.doc)
                             /\ W.job = jobs[owner[W.id]] /\ Awaits(owner[W.id], W.id)
        /\ W.pc \notin {"idle", "accept"} => W.id \in Known /\ \A e \in W.todo : e.id # W.id
        /\ W.pc \in {"close", "flag", "giveup", "save"} => Agrees(W.id, W.job)
    BY <1>s, <1>w, <1>k DEF WorkerSound, Tracked, Fresh
  \* The audits still to be done.
  <2>k. ASSUME audits' = audits  PROVE \A e \in W.todo : Fresh(e.id, e.doc)'
    BY <2>d, <2>k DEF Fresh
  <2>b. ASSUME W.pc \notin {"idle", "accept"}, AuditsBut(W.id)
        PROVE  \A e \in W.todo : Fresh(e.id, e.doc)'
    BY <1>k, <2>d, <2>b DEF Fresh, AuditsBut
  <2>l. ASSUME Leaves(w, r), \A e \in W.todo : Fresh(e.id, e.doc)'  PROVE Fine
    BY <2>l DEF Leaves
  <2>2. CASE /\ UNCHANGED store
             /\ r.pc = "query"
             /\ \E e \in W.todo : /\ r.todo = W.todo \ {e}
                                  /\ r.id = e.id /\ r.doc = e.doc
                                  /\ r.job = jobs[owner[e.id]]
    <3>1. PICK e \in W.todo : /\ r.todo = W.todo \ {e}
                              /\ r.id = e.id /\ r.doc = e.doc
                              /\ r.job = jobs[owner[e.id]]
      BY <2>2
    <3>2. \A f \in W.todo : f.id = e.id => f.doc = e.doc  BY <2>d DEF Fresh
    <3>3. \A f \in W.todo : f.id = e.id => f = e
      <4>1. \A f, g \in [id : Ids, doc : Audit] : f.id = g.id /\ f.doc = g.doc => f = g
        OBVIOUS
      <4> QED BY <1>t, <3>2, <4>1
    <3>4. UNCHANGED <<jobs, audits, owner>>  BY <2>2 DEF store
    <3> QED BY <2>2, <2>d, <2>k, <3>1, <3>3, <3>4 DEF Fresh
  <2>3. CASE /\ W.pc = "query"
             /\ r.todo = W.todo /\ r.id = W.id
             /\ r.job.last = W.job.last /\ r.job.retryCount = W.job.retryCount
             /\ \/ /\ r.pc = "close" /\ r.job.status = "SUCCESS"
                   /\ Decides(W.id, "SUCCESS")
                \/ /\ r.pc = "giveup" /\ r.job.status = "FAILURE"
                   /\ W.job.retryCount >= RetryCount
                   /\ Decides(W.id, "FAILURE")
                \/ /\ r.pc = "save" /\ r.job.status = "READY"
                   /\ W.job.retryCount < RetryCount
                   /\ Decides(W.id, "FAILURE")
    <3>1. AuditsBut(W.id) /\ UNCHANGED <<jobs, owner, lost, chiron>>  BY <2>3 DEF Decides
    <3>2. "FAILURE" \notin chiron[owner[W.id]]
      BY <1>k, <1>s, <2>3, <2>d DEF FailureTold, Failing, Awaits, Fresh
    <3>3. audits'[W.id].status = IF r.job.status = "SUCCESS" THEN "SUCCESS" ELSE "FAILURE"
      BY <2>3 DEF Decides
    <3>4. Agrees(r.id, r.job)'
      BY <2>3, <2>d, <3>1, <3>2, <3>3 DEF Agrees, Awaits, Resolved
    <3> QED BY <2>3, <2>b, <2>d, <3>1, <3>4
  <2>4. CASE W.pc = "query" /\ Leaves(w, r) /\ Waits(W.id)
    BY <2>4, <2>b, <2>l DEF Waits
  <2>5. CASE Leaves(w, r) /\ UNCHANGED store
    BY <2>5, <2>k, <2>l DEF store
  \* The job that will be saved says no more of Chiron than was true.
  <2>g. ASSUME W.pc \in {"close", "flag", "giveup"}, NEW pc \in {"flag", "save"},
               Goes(w, r, pc), pc = "flag" => W.pc = "close",
               \A e \in W.todo : Fresh(e.id, e.doc)',
               UNCHANGED <<jobs, owner>>, audits'[W.id].status = audits[W.id].status
        PROVE  Fine
    <3>1. W.job.status \in {"SUCCESS", "FAILURE"} /\ (W.pc = "close" => W.job.status = "SUCCESS")
      BY <1>s, <2>g DEF WorkerSound
    <3>2. Agrees(r.id, r.job)'  BY <2>d, <2>g, <3>1 DEF Agrees, Awaits, Goes
    <3> QED BY <2>d, <2>g, <3>1, <3>2 DEF Goes
  <2>6. CASE /\ W.pc \in {"close", "giveup"}
             /\ \/ W.pc = "close" /\ Goes(w, r, "flag")
                \/ Goes(w, r, "save")
                \/ Leaves(w, r)
             /\ \/ UNCHANGED store
                \/ Tells(owner[W.id], "SUCCESS") \/ Tells(owner[W.id], "FAILURE")
    <3>1. UNCHANGED <<jobs, audits, owner>>  BY <2>6 DEF Tells, store
    <3> QED BY <2>6, <2>g, <2>k, <2>l, <3>1
  <2>7. CASE W.pc = "flag" /\ Goes(w, r, "save") /\ Marks(W.id)
    BY <2>7, <2>b, <2>g DEF Marks
  <2>8. CASE W.pc = "save" /\ Leaves(w, r) /\ Saves(W.id, W.job)
    BY <2>8, <2>k, <2>l DEF Saves
  <2> QED BY <2>1, <2>2, <2>3, <2>4, <2>5, <2>6, <2>7, <2>8 DEF WorkerTurn
<1>4. AuditorActs => r = W \/ \E v \in Workers : Spawns(v)
  BY <1>0 DEF AuditorActs
<1>5. UNCHANGED vars \/ TimeActs \/ CloserActs => r = W
  BY <1>0 DEF vars, TimeActs, CloserActs
<1> QED BY <1>1, <1>2, <1>3, <1>4, <1>5, Turns

\* The whole invariant is inductive.
LEMMA SoundStep ==
  ASSUME Alone, Typing, Approval, Sound, [Next]_vars  PROVE Sound'
<1>1. StoreStep  BY StoreSteps
<1> QED BY <1>1, LimitedStep, TrackedStep, FailureToldStep, CloserSoundStep,
           AuditorSoundStep, WorkerSoundStep DEF Sound, StoreSound
-----------------------------------------------------------------------------
\* What the proofs of this module rest on, together.
Steady == Typing /\ Approval /\ Sound

\* It holds at first, and after every step.
LEMMA SteadyStep ==
  /\ Init => Steady
  /\ Alone /\ Steady /\ [Next]_vars => Steady'
BY TypingInit, ApprovalInit, SoundInit, TypingStep, ApprovalStep, SoundStep DEF Steady

\* It holds for ever.
LEMMA AlwaysSteady == ASSUME Alone PROVE Spec => []Steady
<1>1. Init => Steady  BY SteadyStep
<1>2. Steady /\ [Next]_vars => Steady'  BY SteadyStep
<1> QED BY <1>1, <1>2, PTL DEF Spec

\* Passes that do not overlap count every analysis they ask JN for, unless they
\* lose JN's answer or stop before the job is saved, whatever else fails; of
\* those they count they ask for no more than the configured number.
THEOREM AttemptsAreCounted == ASSUME Alone PROVE Spec => []AttemptsCounted
<1>1. ASSUME Typing, NEW b \in Bugs  PROVE Tallied(b) = KnownOf(b)
  BY DEF Tallied, Issued, KnownOf, Known
<1>2. Steady => AttemptsCounted
  BY <1>1 DEF Steady, Sound, StoreSound, Limited, Counted, AttemptsCounted
<1> QED BY AlwaysSteady, <1>2, PTL

\* Passes that do not overlap never follow two analyses of a bug at once, and
\* an audit they keep open is that of a job in progress.
THEOREM AuditsAreCurrent == ASSUME Alone PROVE Spec => []OpenAuditIsCurrent
<1>1. Steady => OpenAuditIsCurrent
  BY DEF Steady, Sound, StoreSound, Tracked, Awaits, OpenAuditIsCurrent
<1> QED BY AlwaysSteady, <1>1, PTL

\* Passes that do not overlap never tell Chiron both outcomes of a bug, and
\* never analyse again a bug Chiron has closed.
THEOREM OneOutcome == ASSUME Alone PROVE Spec => []OneOutcomeInChiron
<1>1. Steady => OneOutcomeInChiron
  <2>1. SUFFICES ASSUME Steady, NEW b \in Bugs, "SUCCESS" \in chiron[b]
                 PROVE  /\ "FAILURE" \notin chiron[b]
                        /\ jobs[b].status \in {"INPROGRESS", "SUCCESS"}
    BY DEF OneOutcomeInChiron
  <2>2. PICK a \in approved : owner[a] = b
    BY <2>1 DEF Steady, Approval, ClosedOnlyOnApproval
  <2>3. /\ audits[a].status = "SUCCESS" /\ jobs[b].last = a
        /\ jobs[b].status \in {"INPROGRESS", "SUCCESS"}
    BY <2>1, <2>2 DEF Steady, Approval, Known, Sound, StoreSound, Tracked
  <2>4. ~Failing(b)  BY <2>3 DEF Failing, Awaits
  <2> QED BY <2>1, <2>3, <2>4 DEF Steady, Sound, StoreSound, FailureTold
<1> QED BY AlwaysSteady, <1>1, PTL

\* Passes that do not overlap never save over a verdict, in an audit or in a
\* job, and never forget that Chiron has closed a bug.
THEOREM VerdictsAreFinal == ASSUME Alone PROVE Spec => VerdictIsFinal
<1> DEFINE Kept ==
      /\ \A a \in Ids :
          /\ audits[a].status \in Resolved => audits'[a].status = audits[a].status
          /\ audits[a].closed => audits'[a].closed
      /\ \A b \in Bugs :
          jobs[b].status \in Resolved => jobs'[b].status = jobs[b].status
<1>1. Steady /\ [Next]_vars => Kept
  BY StoreSteps, VerdictsKept DEF Steady, Sound, StoreSound
<1> HIDE DEF Kept
<1>2. Spec => [][Kept]_vars  BY AlwaysSteady, <1>1, PTL DEF Spec
<1> QED BY <1>2 DEF VerdictIsFinal, Kept
-----------------------------------------------------------------------------
(***************************************************************************)
(* The passes implement the life cycle.  Each change of the collections is *)
(* an action of AutoCloseLifecycle, or none that it can tell.              *)
(***************************************************************************)

\* The life cycle starts where the collections do.
LEMMA LifecycleInit == Init => Lifecycle!Init
<1> SUFFICES ASSUME Init PROVE Lifecycle!Init  OBVIOUS
<1>1. \A b \in Bugs : jobs[b].status = "ABSENT" /\ jobs[b].retryCount = 0
  BY DEF Init, NoJob, NoStatus
<1>2. \A b \in Bugs : ~(\E a \in approved : owner[a] = b) /\ chiron[b] = {}
  BY DEF Init
<1> QED BY <1>1, <1>2 DEF Lifecycle!Init

\* The mapped variables, as functions and sets of this module.
MappedStatus == [b \in Bugs |-> jobs[b].status]
MappedAttempts == [b \in Bugs |-> jobs[b].retryCount]
Cleared == {b \in Bugs : \E a \in approved : owner[a] = b}
ClosedBugs == {b \in Bugs : "SUCCESS" \in chiron[b]}

\* A step that no action of the life cycle shows.
LEMMA Unseen ==
  ASSUME \A b \in Bugs : /\ jobs'[b].status = jobs[b].status
                         /\ jobs'[b].retryCount = jobs[b].retryCount,
         Cleared' = Cleared, ClosedBugs' = ClosedBugs
  PROVE  UNCHANGED Lifecycle!vars
<1>1. /\ [b \in Bugs |-> jobs'[b].status] = [b \in Bugs |-> jobs[b].status]
      /\ [b \in Bugs |-> jobs'[b].retryCount] = [b \in Bugs |-> jobs[b].retryCount]
  OBVIOUS
<1> QED BY <1>1 DEF Lifecycle!vars, Cleared, ClosedBugs

\* One job changes its status.
LEMMA OneMoves ==
  ASSUME NEW b \in Bugs, NEW from, NEW to, jobs[b].status = from,
         jobs'[b].status = to, JobsBut(b)
  PROVE  Lifecycle!Moves(b, from, to)
<1>1. [x \in Bugs |-> jobs'[x].status] =
        [[x \in Bugs |-> jobs[x].status] EXCEPT ![b] = to]
  BY DEF JobsBut
<1> QED BY <1>1 DEF Lifecycle!Moves

\* And no attempt is made.
LEMMA NoAttempt ==
  ASSUME NEW b \in Bugs, JobsBut(b), jobs'[b].retryCount = jobs[b].retryCount
  PROVE  [x \in Bugs |-> jobs'[x].retryCount] = [x \in Bugs |-> jobs[x].retryCount]
BY DEF JobsBut

\* The analyses approved, of which bugs.
LEMMA ClearedKept ==
  ASSUME Approval, approved' = approved, \A a \in Known : owner'[a] = owner[a]
  PROVE  Cleared' = Cleared
BY DEF Approval, Cleared

\* Chiron has closed the same bugs.
LEMMA ClosedKept == ASSUME chiron' = chiron PROVE ClosedBugs' = ClosedBugs
BY DEF ClosedBugs

\* Every step of the passes is one of the life cycle, or none.
LEMMA LifecycleStep ==
  ASSUME Typing, Approval, Sound, StoreStep
  PROVE  [Lifecycle!Next]_(Lifecycle!vars)
<1> DEFINE Goal == [Lifecycle!Next]_(Lifecycle!vars)
<1>s. Limited /\ Tracked /\ FailureTold  BY DEF Sound, StoreSound
<1>o. owner \in [Ids -> Bugs \cup {None}] /\ chiron \in [Bugs -> SUBSET JobStatus]
  BY DEF Typing, TypeOK
<1>d. /\ \A a \in Known : a \in Ids /\ owner[a] \in Bugs
      /\ \A b \in Bugs : jobs[b].retryCount \in Nat
      /\ RetryCount \in Nat \ {0} /\ approved \subseteq Known
  BY Documents DEF Approval
<1>n. ASSUME NEW b \in Bugs,
             \/ Lifecycle!File(b) \/ Lifecycle!Analyse(b) \/ Lifecycle!Refuse(b)
             \/ Lifecycle!Retry(b) \/ Lifecycle!GiveUp(b) \/ Lifecycle!Clear(b)
             \/ Lifecycle!Close(b) \/ Lifecycle!Finish(b)
      PROVE  Goal
  BY <1>n DEF Lifecycle!Next
<1>c. Cleared = {b \in Bugs : \E a \in approved : owner[a] = b}  BY DEF Cleared
\* What was not approved of the job at hand.
<1>1. ASSUME UNCHANGED <<jobs, owner, lost, approved, chiron>>  PROVE Goal
  BY <1>1, Unseen DEF Cleared, ClosedBugs
<1>2. ASSUME NEW b \in Bugs, Queues(b)  PROVE Goal
  <2>1. Cleared' = Cleared /\ ClosedBugs' = ClosedBugs
    BY <1>2 DEF Queues, Cleared, ClosedBugs
  <2>2. CASE jobs[b].status = "READY"
    <3>1. \A x \in Bugs : /\ jobs'[x].status = jobs[x].status
                          /\ jobs'[x].retryCount = jobs[x].retryCount
      BY <1>2, <2>2 DEF Queues, JobsBut
    <3> QED BY <2>1, <3>1, Unseen
  <2>3. CASE jobs[b].status = NoStatus
    <3>1. JobsBut(b) /\ jobs'[b].status = "READY" /\ jobs'[b].retryCount = jobs[b].retryCount
      BY <1>2 DEF Queues
    <3>2. Lifecycle!Moves(b, "ABSENT", "READY")
      BY <2>3, <3>1, OneMoves DEF NoStatus
    <3>3. Lifecycle!File(b)
      BY <2>1, <3>1, <3>2, NoAttempt DEF Lifecycle!File, Cleared, ClosedBugs
    <3> QED BY <1>n, <3>3
  <2> QED BY <1>2, <2>2, <2>3 DEF Queues
<1>3. ASSUME NEW b \in Bugs, NEW a \in Ids \cup {None}, Asks(b, a)  PROVE Goal
  <2>1. /\ jobs[b].status = "READY" /\ jobs'[b].status = "INPROGRESS" /\ JobsBut(b)
        /\ jobs'[b].retryCount = jobs[b].retryCount + 1
        /\ UNCHANGED <<approved, chiron>>
    BY <1>3 DEF Asks, Ripe
  <2>2. \A x \in Known : owner'[x] = owner[x]  BY <1>3 DEF Asks
  <2>3. Cleared' = Cleared /\ ClosedBugs' = ClosedBugs
    BY <2>1, <2>2, ClearedKept, ClosedKept
  <2>4. Lifecycle!Moves(b, "READY", "INPROGRESS")  BY <2>1, OneMoves
  <2>5. [x \in Bugs |-> jobs'[x].retryCount] =
          [[x \in Bugs |-> jobs[x].retryCount] EXCEPT ![b] = @ + 1]
    BY <2>1 DEF JobsBut
  <2>6. jobs[b].retryCount < RetryCount  BY <1>s, <2>1 DEF Limited
  <2>7. Lifecycle!Analyse(b)
    BY <2>3, <2>4, <2>5, <2>6 DEF Lifecycle!Analyse, Cleared, ClosedBugs
  <2> QED BY <1>n, <2>7
<1>4. ASSUME NEW b \in Bugs, Refuses(b)  PROVE Goal
  <2>1. /\ jobs[b].status = "READY" /\ jobs'[b].status = "FAILURE" /\ JobsBut(b)
        /\ jobs'[b].retryCount = jobs[b].retryCount
        /\ UNCHANGED <<owner, lost, approved, chiron>>
    BY <1>4 DEF Refuses, Ripe
  <2>2. Cleared' = Cleared /\ ClosedBugs' = ClosedBugs
    BY <2>1 DEF Cleared, ClosedBugs
  <2>3. Lifecycle!Moves(b, "READY", "FAILURE")  BY <2>1, OneMoves
  <2>4. Lifecycle!Refuse(b)
    BY <2>1, <2>2, <2>3, NoAttempt DEF Lifecycle!Refuse, Cleared, ClosedBugs
  <2> QED BY <1>n, <2>4
<1>5. ASSUME NEW b \in Bugs, NEW v, Tells(b, v)  PROVE Goal
  <2>1. /\ chiron' = [chiron EXCEPT ![b] = @ \cup {v}]
        /\ UNCHANGED <<jobs, owner, lost, approved>>
        /\ v = "SUCCESS" => b \in Cleared
    BY <1>5 DEF Tells, Updated, Cleared
  <2>2. Cleared' = Cleared  BY <2>1 DEF Cleared
  <2>3. CASE v = "SUCCESS"
    <3>1. ClosedBugs' = ClosedBugs \cup {b}  BY <1>o, <2>1, <2>3 DEF ClosedBugs
    <3>2. Lifecycle!Close(b)
      BY <2>1, <2>2, <2>3, <3>1 DEF Lifecycle!Close, Cleared, ClosedBugs
    <3> QED BY <1>n, <3>2
  <2>4. CASE v # "SUCCESS"
    <3>1. ClosedBugs' = ClosedBugs  BY <1>o, <2>1, <2>4 DEF ClosedBugs
    <3> QED BY <2>1, <2>2, <3>1, Unseen
  <2> QED BY <2>3, <2>4
<1>6. ASSUME NEW a \in Known, Decides(a, "SUCCESS")  PROVE Goal
  <2>b. PICK b : b = owner[a]  OBVIOUS
  <2>1. /\ audits[a].status = "INPROGRESS" /\ approved' = approved \cup {a}
        /\ UNCHANGED <<jobs, owner, lost, chiron>>
    BY <1>6 DEF Decides
  <2>2. b \in Bugs /\ jobs[b].status = "INPROGRESS" /\ jobs[b].last = a
    BY <1>d, <1>s, <2>1, <2>b DEF Tracked, Awaits
  <2>3. b \notin Cleared  BY <1>d, <1>s, <2>1, <2>2, <2>b DEF Cleared, Tracked
  <2>4. Cleared' = Cleared \cup {b} /\ ClosedBugs' = ClosedBugs
    BY <2>1, <2>2, <2>b DEF Cleared, ClosedBugs
  <2>5. Lifecycle!Clear(b)
    BY <2>1, <2>2, <2>3, <2>4 DEF Lifecycle!Clear, Cleared, ClosedBugs
  <2> QED BY <1>n, <2>2, <2>5
<1>7. ASSUME NEW a \in Known, NEW job, Saves(a, job)  PROVE Goal
  <2>b. PICK b : b = owner[a]  OBVIOUS
  <2>1. /\ Agrees(a, job) /\ jobs'[b] = job /\ JobsBut(b)
        /\ UNCHANGED <<owner, lost, approved, chiron>> /\ b \in Bugs
    BY <1>7, <1>d, <2>b DEF Saves
  <2>2. /\ jobs[b].status = "INPROGRESS" /\ jobs[b].last = a
        /\ job.retryCount = jobs[b].retryCount
        /\ job.status \in {"READY", "SUCCESS", "FAILURE"}
        /\ job.status = "SUCCESS" <=> audits[a].status = "SUCCESS"
        /\ job.status = "READY" => jobs[b].retryCount < RetryCount
        /\ job.status = "FAILURE" => jobs[b].retryCount >= RetryCount
    BY <2>1, <2>b DEF Agrees, Awaits
  <2>3. job.status # "SUCCESS" => b \notin Cleared
    BY <1>d, <1>s, <2>2, <2>b DEF Cleared, Tracked
  <2>4. job.status = "SUCCESS" => b \in Cleared
    BY <1>d, <2>1, <2>2, <2>b DEF Cleared, Approval, SuccessApproved
  <2>5. Cleared' = Cleared /\ ClosedBugs' = ClosedBugs
    BY <2>1 DEF Cleared, ClosedBugs
  <2>6. Lifecycle!Moves(b, "INPROGRESS", job.status)  BY <2>1, <2>2, OneMoves
  <2>7. [x \in Bugs |-> jobs'[x].retryCount] = [x \in Bugs |-> jobs[x].retryCount]
    BY <2>1, <2>2, NoAttempt
  <2>8. jobs[b].retryCount \in Nat /\ jobs[b].retryCount <= RetryCount
    BY <1>d, <1>s, <2>1 DEF Limited
  <2>9. CASE job.status = "READY"
    <3>1. Lifecycle!Retry(b)
      BY <2>1, <2>2, <2>3, <2>5, <2>6, <2>7, <2>9 DEF Lifecycle!Retry, Cleared, ClosedBugs
    <3> QED BY <1>n, <2>1, <3>1
  <2>10. CASE job.status = "FAILURE"
    <3>0. jobs[b].retryCount = RetryCount  BY <1>d, <2>2, <2>8, <2>10
    <3>1. Lifecycle!GiveUp(b)
      BY <2>1, <2>3, <2>5, <2>6, <2>7, <2>10, <3>0 DEF Lifecycle!GiveUp, Cleared, ClosedBugs
    <3> QED BY <1>n, <2>1, <3>1
  <2>11. CASE job.status = "SUCCESS"
    <3>1. Lifecycle!Finish(b)
      BY <2>1, <2>4, <2>5, <2>6, <2>7, <2>11 DEF Lifecycle!Finish, Cleared, ClosedBugs
    <3> QED BY <1>n, <2>1, <3>1
  <2> QED BY <2>2, <2>9, <2>10, <2>11
<1>8. ASSUME NEW a, Decides(a, "FAILURE") \/ Opens(a) \/ Waits(a) \/ Marks(a)  PROVE Goal
  BY <1>1, <1>8 DEF Decides, Opens, Waits, Marks
<1>9. CASE Quiet
  BY <1>9, ClearedKept, ClosedKept, Unseen DEF Quiet
<1> QED BY <1>2, <1>3, <1>4, <1>5, <1>6, <1>7, <1>8, <1>9
        DEF StoreStep, TimeStores, CloserStores, AuditorStores, WorkerStores, Telling, Resolved

\* Passes that do not overlap implement the life cycle of a synthetic bug: a
\* bounded number of analyses, one outcome, and closure in Chiron only for a
\* bug JN has cleared, whatever fails on the way.
THEOREM PassesImplementLifecycle == ASSUME Alone PROVE Spec => ImplementsLifecycle
<1>1. Steady /\ [Next]_vars => [Lifecycle!Next]_(Lifecycle!vars)
  BY StoreSteps, LifecycleStep DEF Steady
<1> QED BY LifecycleInit, AlwaysSteady, <1>1, PTL
        DEF Spec, ImplementsLifecycle, Lifecycle!Spec
=============================================================================
