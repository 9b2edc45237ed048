-------------------------- MODULE AutoCloseProofs --------------------------
(***************************************************************************)
(* Proofs about AutoClose, for any number of bugs, analyses and            *)
(* overlapping passes and for every set of faults.  The workers that       *)
(* overlap are those of different nodes: two of one node share the fields  *)
(* of a bean, and for them AuditBean has the contrary of ClosureApproved,  *)
(* VerdictsReachJobs and OutcomesAreReported.                              *)
(***************************************************************************)
EXTENDS AutoClose, TLAPS

-----------------------------------------------------------------------------
(***************************************************************************)
(* Typing.  A worker reads the job of the bug its audit belongs to, so     *)
(* typing needs every analysis id that is stored, or held by a pass, to    *)
(* have been issued for a bug.  Such an id was saved with a job; one in    *)
(* the hands of a closer about to save it, or lost, is nowhere else.       *)
(***************************************************************************)

Known ==
  {a \in Ids : /\ owner[a] \in Bugs
               /\ a \notin lost
               /\ \A c \in Closers : a \notin InHand(c)}

StoreOwned ==
  /\ \A b \in Bugs : jobs[b].last \in Known \cup {None}
  /\ \A a \in Ids : audits[a].status # NoStatus => a \in Known

LostIssued == \A a \in lost : owner[a] \in Bugs

CloserOwned ==
  /\ LostIssued
  /\ \A c \in Closers :
       /\ closer[c].pc # "save" => closer[c].job.last \in Known \cup {None}
       /\ \A a \in InHand(c) : /\ owner[a] = closer[c].bug /\ a \notin lost
                               /\ \A d \in Closers \ {c} : a \notin InHand(d)
       /\ closer[c].pc \in {"analyse", "save", "notify"} => closer[c].bug \in Bugs
       /\ closer[c].pc \in {"save", "notify"}
          => closer[c].job.status \in {"INPROGRESS", "FAILURE"}

AuditorOwned ==
  \A s \in Auditors :
    /\ \A j \in auditor[s].jobs : j[2] \in Known \cup {None}
    /\ auditor[s].pc = "create" => auditor[s].job[2] \in Known
    /\ auditor[s].ids \subseteq Known
    /\ auditor[s].pc = "flag" => auditor[s].id \in Known

WorkerOwned ==
  \A w \in Workers :
    /\ worker[w].job.last \in Known \cup {None}
    /\ \A e \in worker[w].todo : e.id \in Known
    /\ worker[w].pc \notin {"idle", "accept"} => worker[w].id \in Known

Typing ==
  TypeOK /\ StoreOwned /\ CloserOwned /\ AuditorOwned /\ WorkerOwned

\* Before anything is filed every list is empty.
LEMMA TypingInit == Init => Typing
  BY NoneAssumption DEF Init, Typing, TypeOK, StoreOwned, CloserOwned,
     LostIssued, AuditorOwned, WorkerOwned, Known, InHand, NoJob, NoAudit,
     IdleCloser, IdleAuditor, IdleWorker, CloserState, AuditorState, WorkerState,
     Job, Audit, JobStatus, NoStatus

\* What a step leaves alone keeps its part of the invariant.
LEMMA CloserOwnedKept ==
  ASSUME CloserOwned, Known \subseteq Known', UNCHANGED <<owner, lost, closer>>
  PROVE  CloserOwned'
  BY DEF CloserOwned, LostIssued, InHand

\* An auditor that does not move holds issued ids still.
LEMMA AuditorOwnedKept ==
  ASSUME AuditorOwned, Known \subseteq Known', auditor' = auditor
  PROVE  AuditorOwned'
  BY DEF AuditorOwned

\* The same of a worker.
LEMMA WorkerOwnedKept ==
  ASSUME WorkerOwned, Known \subseteq Known', worker' = worker
  PROVE  WorkerOwned'
  BY DEF WorkerOwned

\* The same of the two collections.
LEMMA StoreOwnedKept ==
  ASSUME StoreOwned, Known \subseteq Known', jobs' = jobs, audits' = audits
  PROVE  StoreOwned'
  BY DEF StoreOwned

\* Only a closer makes an id known, or loses one.
LEMMA KnownKept == ASSUME UNCHANGED <<owner, lost, closer>> PROVE Known' = Known
  BY DEF Known, InHand

\* The hands of the other closers.
LEMMA OneHand ==
  ASSUME closer \in [Closers -> CloserState], NEW c \in Closers, NEW r,
         closer' = [closer EXCEPT ![c] = r]
  PROVE  /\ \A d \in Closers \ {c} : closer'[d] = closer[d] /\ InHand(d)' = InHand(d)
         /\ closer'[c] = r
         /\ InHand(c)' = IF r.pc = "save" THEN {r.job.last} \cap Ids ELSE {}
  BY DEF InHand

\* An analysis that JN starts is about the bug it was asked about, and nobody
\* has known its id before.
LEMMA IssuesFresh ==
  ASSUME Typing, NEW b \in Bugs, NEW a \in Ids, Issues(b, a)
  PROVE  /\ owner' \in [Ids -> Bugs \cup {None}]
         /\ owner'[a] = b /\ \A x \in Ids \ {a} : owner'[x] = owner[x]
         /\ a \notin Known /\ a \notin lost
         /\ \A c \in Closers : a \notin InHand(c)
<1>1. owner[a] = None /\ owner' = [owner EXCEPT ![a] = b]  BY DEF Issues
<1>2. \A c \in Closers : \A x \in InHand(c) : owner[x] \in Bugs
  BY DEF Typing, CloserOwned, InHand
<1>3. a \notin Known /\ a \notin lost
  BY <1>1, NoneAssumption DEF Typing, CloserOwned, LostIssued, Known
<1>4. \A c \in Closers : a \notin InHand(c)  BY <1>1, <1>2, NoneAssumption
<1> QED BY <1>1, <1>3, <1>4 DEF Typing, TypeOK

\* An analysis that is lost was not known.
LEMMA UnheardLost ==
  ASSUME Typing, NEW b \in Bugs, Unheard(b)
  PROVE  /\ owner' \in [Ids -> Bugs \cup {None}] /\ lost' \subseteq Ids /\ LostIssued'
         /\ \A a \in Known : owner'[a] = owner[a] /\ a \notin lost'
         /\ \A c \in Closers : \A a \in InHand(c) : owner'[a] = owner[a] /\ a \notin lost'
<1>0. \A c \in Closers : \A a \in InHand(c) : a \in Ids /\ a \notin lost
  BY DEF Typing, CloserOwned, InHand
<1>1. CASE UNCHANGED <<owner, lost>>
  BY <1>0, <1>1 DEF Typing, TypeOK, CloserOwned, LostIssued, Known
<1>2. ASSUME NEW a \in Ids, Issues(b, a), lost' = lost \cup {a}
      PROVE  /\ owner' \in [Ids -> Bugs \cup {None}] /\ lost' \subseteq Ids /\ LostIssued'
             /\ \A x \in Known : owner'[x] = owner[x] /\ x \notin lost'
             /\ \A c \in Closers : \A x \in InHand(c) : owner'[x] = owner[x] /\ x \notin lost'
  BY <1>0, <1>2, IssuesFresh DEF Typing, TypeOK, CloserOwned, LostIssued, Known
<1> QED BY <1>1, <1>2 DEF Unheard

\* The states in which passes and documents start are typed.
LEMMA IdleTyped ==
  /\ NoJob \in Job /\ NoAudit \in Audit
  /\ IdleCloser \in CloserState
  /\ IdleAuditor \in AuditorState
  /\ IdleWorker \in WorkerState
  BY DEF NoJob, NoAudit, IdleCloser, IdleAuditor, IdleWorker, CloserState,
     AuditorState, WorkerState, Job, Audit, JobStatus, NoStatus

-----------------------------------------------------------------------------
\* The actions that no pass takes.
LEMMA TypingOther ==
  ASSUME Typing,
         \/ \E b \in Bugs : CreateJob(b) \/ JobDue(b)
         \/ \E a \in Ids : AuditDue(a)
         \/ UNCHANGED vars
  PROVE  Typing' /\ Known \subseteq Known'
<1> USE DEF Typing
<1>1. CASE \E b \in Bugs : CreateJob(b) \/ JobDue(b)
  <2>1. PICK b \in Bugs : CreateJob(b) \/ JobDue(b)  BY <1>1
  <2>2. /\ \/ jobs' = [jobs EXCEPT ![b].status = "READY"]
           \/ jobs' = [jobs EXCEPT ![b].due = TRUE]
        /\ UNCHANGED <<audits, owner, lost, approved, chiron, closer, auditor, worker>>
    BY <2>1 DEF CreateJob, JobDue
  <2>3. jobs \in [Bugs -> Job]  BY DEF TypeOK
  <2>4. jobs' \in [Bugs -> Job]  BY <2>2, <2>3 DEF Job, JobStatus
  <2>5. TypeOK'  BY <2>2, <2>4 DEF TypeOK
  <2>6. Known' = Known  BY <2>2, KnownKept
  <2>7. \A x \in Bugs : jobs'[x].last = jobs[x].last  BY <2>2, <2>3 DEF Job
  <2>8. StoreOwned'  BY <2>2, <2>6, <2>7 DEF StoreOwned
  <2> QED BY <2>2, <2>5, <2>6, <2>8, CloserOwnedKept, AuditorOwnedKept,
             WorkerOwnedKept
<1>2. CASE \E a \in Ids : AuditDue(a)
  <2>1. PICK a \in Ids : AuditDue(a)  BY <1>2
  <2>2. audits \in [Ids -> Audit]  BY DEF TypeOK
  <2>3. audits' \in [Ids -> Audit]  BY <2>1, <2>2 DEF AuditDue, Audit
  <2>4. TypeOK'  BY <2>1, <2>3 DEF TypeOK, AuditDue
  <2>5. Known' = Known  BY <2>1, KnownKept DEF AuditDue
  <2>6. \A x \in Ids : audits'[x].status = audits[x].status
    BY <2>1, <2>2 DEF AuditDue, Audit
  <2>7. StoreOwned'  BY <2>1, <2>5, <2>6 DEF StoreOwned, AuditDue
  <2> QED BY <2>1, <2>4, <2>5, <2>7, CloserOwnedKept, AuditorOwnedKept,
             WorkerOwnedKept DEF AuditDue
<1>3. CASE UNCHANGED vars
  <2>1. Known' = Known  BY <1>3, KnownKept DEF vars, store
  <2> QED BY <1>3, <2>1, StoreOwnedKept, CloserOwnedKept, AuditorOwnedKept,
             WorkerOwnedKept DEF TypeOK, vars, store
<1> QED BY <1>1, <1>2, <1>3

-----------------------------------------------------------------------------
\* A pass whose state is replaced by one that is well typed and owned.
LEMMA CloserReplaced ==
  ASSUME closer \in [Closers -> CloserState], CloserOwned, LostIssued',
         Known \subseteq Known', NEW c \in Closers, NEW r \in CloserState,
         closer' = [closer EXCEPT ![c] = r],
         r.pc # "save" => r.job.last \in Known' \cup {None},
         r.pc = "save" => \A a \in {r.job.last} \cap Ids :
                            /\ owner'[a] = r.bug /\ a \notin lost'
                            /\ \A d \in Closers \ {c} : a \notin InHand(d),
         \A d \in Closers \ {c} :
           \A a \in InHand(d) : owner'[a] = owner[a] /\ a \notin lost',
         r.pc \in {"analyse", "save", "notify"} => r.bug \in Bugs,
         r.pc \in {"save", "notify"} => r.job.status \in {"INPROGRESS", "FAILURE"}
  PROVE  closer' \in [Closers -> CloserState] /\ CloserOwned'
<1>1. /\ \A d \in Closers \ {c} : closer'[d] = closer[d] /\ InHand(d)' = InHand(d)
      /\ closer'[c] = r
      /\ InHand(c)' = IF r.pc = "save" THEN {r.job.last} \cap Ids ELSE {}
  BY OneHand
<1>2. closer' \in [Closers -> CloserState]  OBVIOUS
<1>3. ASSUME NEW d \in Closers \ {c}
      PROVE  /\ closer'[d].pc # "save" => closer'[d].job.last \in Known' \cup {None}
             /\ \A a \in InHand(d)' : /\ owner'[a] = closer'[d].bug /\ a \notin lost'
                                      /\ \A e \in Closers \ {d} : a \notin InHand(e)'
             /\ closer'[d].pc \in {"analyse", "save", "notify"} => closer'[d].bug \in Bugs
             /\ closer'[d].pc \in {"save", "notify"}
                => closer'[d].job.status \in {"INPROGRESS", "FAILURE"}
  <2>1. \A a \in InHand(d) : a \notin InHand(c)'
    BY <1>1 DEF InHand
  <2> QED BY <1>1, <2>1 DEF CloserOwned
<1>4. /\ closer'[c].pc # "save" => closer'[c].job.last \in Known' \cup {None}
      /\ \A a \in InHand(c)' : /\ owner'[a] = closer'[c].bug /\ a \notin lost'
                               /\ \A e \in Closers \ {c} : a \notin InHand(e)'
      /\ closer'[c].pc \in {"analyse", "save", "notify"} => closer'[c].bug \in Bugs
      /\ closer'[c].pc \in {"save", "notify"}
         => closer'[c].job.status \in {"INPROGRESS", "FAILURE"}
  BY <1>1
<1>5. CloserOwned'
  <2>1. \A d \in Closers : d = c \/ d \in Closers \ {c}  OBVIOUS
  <2> QED BY <1>3, <1>4, <2>1 DEF CloserOwned
<1> QED BY <1>2, <1>5

\* What the ids of a closer's hands and the lost ones leave of the known.
LEMMA KnownOfCloser ==
  ASSUME Typing, NEW c \in Closers, NEW r, closer' = [closer EXCEPT ![c] = r],
         r.pc = "save" => r.job.last \notin Known,
         \A a \in Known : owner'[a] = owner[a] /\ a \notin lost'
  PROVE  Known \subseteq Known'
<1>1. /\ \A d \in Closers \ {c} : InHand(d)' = InHand(d)
      /\ InHand(c)' = IF r.pc = "save" THEN {r.job.last} \cap Ids ELSE {}
  BY OneHand DEF Typing, TypeOK
<1> SUFFICES ASSUME NEW a \in Known PROVE a \in Known'  OBVIOUS
<1>2. \A d \in Closers : a \notin InHand(d)'  BY <1>1 DEF Known
<1> QED BY <1>2 DEF Known

\* A closer that was and is not about to save, and neither asks nor loses.
LEMMA CloserMoves ==
  ASSUME Typing, UNCHANGED <<owner, lost>>, NEW c \in Closers, NEW r \in CloserState,
         closer' = [closer EXCEPT ![c] = r], r.pc # "save",
         r.job.last \in Known \cup {None},
         r.pc \in {"analyse", "notify"} => r.bug \in Bugs,
         r.pc = "notify" => r.job.status \in {"INPROGRESS", "FAILURE"}
  PROVE  /\ closer' \in [Closers -> CloserState] /\ CloserOwned'
         /\ Known \subseteq Known'
<1>1. \A a \in Known : owner'[a] = owner[a] /\ a \notin lost'  BY DEF Known
<1>2. Known \subseteq Known'  BY <1>1, KnownOfCloser
<1>3. \A d \in Closers : \A a \in InHand(d) : owner'[a] = owner[a] /\ a \notin lost'
  BY DEF Typing, CloserOwned
<1> QED BY <1>2, <1>3, CloserReplaced DEF Typing, TypeOK, CloserOwned, LostIssued

\* The steps of a closer.
LEMMA TypingCloser ==
  ASSUME Typing, NEW c \in Closers, CloserStart(c) \/ CloserStep(c)
  PROVE  Typing' /\ Known \subseteq Known'
<1> USE DEF Typing
<1> DEFINE Typed == closer' \in [Closers -> CloserState]
           Goal == Typing' /\ Known \subseteq Known'
<1>0. closer \in [Closers -> CloserState] /\ closer[c] \in CloserState  BY DEF TypeOK
<1>i. /\ IdleCloser.job.last = None /\ IdleCloser.pc = "idle"
      /\ IdleCloser \in CloserState
  BY IdleTyped DEF IdleCloser, NoJob
<1>q. ASSUME UNCHANGED <<jobs, audits, approved, auditor, worker>>,
             chiron' \in [Bugs -> SUBSET JobStatus],
             owner' \in [Ids -> Bugs \cup {None}], lost' \subseteq Ids,
             Known \subseteq Known', Typed, CloserOwned'
      PROVE  Goal
  <2>1. TypeOK'  BY <1>q DEF TypeOK
  <2> QED BY <1>q, <2>1, StoreOwnedKept, AuditorOwnedKept, WorkerOwnedKept
<1>r. ASSUME UNCHANGED <<jobs, audits, owner, lost, approved, auditor, worker>>,
             chiron' \in [Bugs -> SUBSET JobStatus],
             Known \subseteq Known', Typed, CloserOwned'
      PROVE  Goal
  BY <1>q, <1>r DEF TypeOK
<1>c. chiron \in [Bugs -> SUBSET JobStatus]  BY DEF TypeOK
<1>1. CASE CloserStart(c)
  <2> DEFINE r == [closer[c] EXCEPT !.pc = "fetch", !.todo = {b \in Bugs : Pickable(b)}]
  <2>1. /\ closer' = [closer EXCEPT ![c] = r] /\ closer[c].pc = "idle"
        /\ UNCHANGED <<store, auditor, worker>>
    BY <1>1, <1>0 DEF CloserStart
  <2>2. r \in CloserState /\ r.pc = "fetch" /\ r.job = closer[c].job
    BY <1>0 DEF CloserState
  <2> HIDE DEF r
  <2>4. r.job.last \in Known \cup {None}  BY <2>1, <2>2 DEF CloserOwned
  <2>5. Typed /\ CloserOwned' /\ Known \subseteq Known'
    BY <2>1, <2>2, <2>4, CloserMoves DEF store
  <2> QED BY <1>c, <1>r, <2>1, <2>5 DEF store
<1>2. CASE CloserFetch(c)
  <2>1. PICK b \in closer[c].todo :
          closer' = [closer EXCEPT ![c] =
            [pc |-> "analyse", todo |-> closer[c].todo \ {b}, bug |-> b, job |-> jobs[b]]]
    BY <1>2 DEF CloserFetch
  <2> DEFINE r == [pc |-> "analyse", todo |-> closer[c].todo \ {b}, bug |-> b, job |-> jobs[b]]
  <2>2. b \in Bugs /\ jobs[b] \in Job  BY <1>0 DEF TypeOK, CloserState
  <2>3. r \in CloserState  BY <1>0, <2>2 DEF CloserState
  <2>4. UNCHANGED <<store, auditor, worker>>  BY <1>2 DEF CloserFetch
  <2>5. r.job.last \in Known \cup {None}  BY <2>2 DEF StoreOwned
  <2>6. Typed /\ CloserOwned' /\ Known \subseteq Known'
    BY <2>1, <2>2, <2>3, <2>4, <2>5, CloserMoves DEF store
  <2> QED BY <1>c, <1>r, <2>4, <2>6 DEF store
<1>3. CASE CloserFetchThrows(c)
  <2>1. /\ UNCHANGED <<store, auditor, worker>>
        /\ closer' = [closer EXCEPT ![c] = IdleCloser]
    BY <1>3 DEF CloserFetchThrows, CloserAborts
  <2>2. Typed /\ CloserOwned' /\ Known \subseteq Known'
    BY <1>i, <2>1, CloserMoves DEF store
  <2> QED BY <1>c, <1>r, <2>1, <2>2 DEF store
<1>6. CASE CloserAnalyseThrows(c)
  <2>1. /\ UNCHANGED <<jobs, audits, approved, chiron, auditor, worker>>
        /\ closer' = [closer EXCEPT ![c] = IdleCloser]
        /\ closer[c].bug \in Bugs /\ Unheard(closer[c].bug)
    BY <1>6 DEF CloserAnalyseThrows, CloserAborts, CloserOwned
  <2>2. /\ owner' \in [Ids -> Bugs \cup {None}] /\ lost' \subseteq Ids /\ LostIssued'
        /\ \A a \in Known : owner'[a] = owner[a] /\ a \notin lost'
        /\ \A d \in Closers : \A a \in InHand(d) : owner'[a] = owner[a] /\ a \notin lost'
    BY <2>1, UnheardLost
  <2>3. Known \subseteq Known'  BY <1>i, <2>1, <2>2, KnownOfCloser
  <2>4. Typed /\ CloserOwned'  BY <1>0, <1>i, <2>1, <2>2, <2>3, CloserReplaced
  <2> QED BY <1>c, <1>q, <2>1, <2>2, <2>3, <2>4
<1>4. CASE CloserTrigger(c) \/ CloserReject(c)
  <2>0. closer[c].job \in Job /\ closer[c].job.retryCount + 1 \in Nat
    BY <1>0 DEF CloserState, Job
  <2>1. ASSUME NEW id \in Ids \cup {None}
        PROVE  /\ Analysing(closer[c].job, id) \in Job
               /\ Analysing(closer[c].job, id).status = "INPROGRESS"
               /\ Analysing(closer[c].job, id).last = id
    <3> DEFINE n == closer[c].job.retryCount + 1
               job == [closer[c].job EXCEPT !.status = "INPROGRESS",
                         !.retryCount = n, !.last = id, !.due = FALSE]
    <3>1. n \in Nat  BY <2>0
    <3>2. Analysing(closer[c].job, id) = job  BY DEF Analysing
    <3> HIDE DEF n
    <3>3. job \in Job /\ job.status = "INPROGRESS" /\ job.last = id
      BY <2>0, <3>1 DEF Job, JobStatus
    <3> QED BY <3>2, <3>3
  <2>2. LET job == [closer[c].job EXCEPT !.status = "FAILURE", !.last = None]
        IN job \in Job /\ job.status = "FAILURE" /\ job.last = None
    BY <2>0 DEF Job, JobStatus
  <2>3. closer[c].bug \in Bugs
    BY <1>4 DEF CloserTrigger, CloserReject, CloserChanges, CloserOwned
  <2> DEFINE Suits(job) ==
        /\ CloserChanges(c, job)
        /\ job \in Job /\ job.status \in {"INPROGRESS", "FAILURE"}
        /\ owner' \in [Ids -> Bugs \cup {None}] /\ lost' \subseteq Ids /\ LostIssued'
        /\ \A a \in Known : owner'[a] = owner[a] /\ a \notin lost'
        /\ \A d \in Closers : \A a \in InHand(d) : owner'[a] = owner[a] /\ a \notin lost'
        /\ job.last \notin Known
        /\ job.last \in Ids =>
             /\ owner'[job.last] = closer[c].bug /\ job.last \notin lost'
             /\ \A d \in Closers : job.last \notin InHand(d)
  <2>4. PICK job : Suits(job)
    <3> DEFINE A(id) == Analysing(closer[c].job, id)
               F == [closer[c].job EXCEPT !.status = "FAILURE", !.last = None]
    <3>n. None \notin Ids /\ None \notin Known  BY NoneAssumption DEF Known
    <3>l. /\ \A a \in Known : a \in Ids /\ a \notin lost
          /\ \A d \in Closers : \A a \in InHand(d) : a \in Ids /\ a \notin lost
      BY DEF Known, CloserOwned, InHand
    <3>1. CASE \E a \in Ids : /\ Issues(closer[c].bug, a)
                             /\ CloserChanges(c, A(a))
                             /\ UNCHANGED lost
      <4>1. PICK a \in Ids : /\ Issues(closer[c].bug, a)
                             /\ CloserChanges(c, A(a))
                             /\ UNCHANGED lost
        BY <3>1
      <4>2. A(a) \in Job /\ A(a).status = "INPROGRESS" /\ A(a).last = a  BY <2>1
      <4>3. /\ owner' \in [Ids -> Bugs \cup {None}]
            /\ owner'[a] = closer[c].bug /\ \A x \in Ids \ {a} : owner'[x] = owner[x]
            /\ a \notin Known /\ a \notin lost
            /\ \A d \in Closers : a \notin InHand(d)
        BY <2>3, <4>1, IssuesFresh
      <4> HIDE DEF A
      <4>5. Suits(A(a))  BY <3>l, <4>1, <4>2, <4>3 DEF TypeOK, CloserOwned, LostIssued
      <4> QED BY <4>5
    <3>2. CASE CloserChanges(c, A(None)) /\ Unheard(closer[c].bug)
      <4>1. A(None) \in Job /\ A(None).status = "INPROGRESS" /\ A(None).last = None
        BY <2>1
      <4> HIDE DEF A
      <4>2. /\ owner' \in [Ids -> Bugs \cup {None}] /\ lost' \subseteq Ids /\ LostIssued'
            /\ \A a \in Known : owner'[a] = owner[a] /\ a \notin lost'
            /\ \A d \in Closers : \A a \in InHand(d) : owner'[a] = owner[a] /\ a \notin lost'
        BY <2>3, <3>2, UnheardLost
      <4>3. Suits(A(None))  BY <3>n, <3>2, <4>1, <4>2
      <4> QED BY <4>3
    <3>3. CASE CloserChanges(c, F) /\ UNCHANGED <<owner, lost>>
      <4>1. F \in Job /\ F.status = "FAILURE" /\ F.last = None  BY <2>2
      <4> HIDE DEF F
      <4>2. Suits(F)  BY <3>n, <3>l, <3>3, <4>1 DEF TypeOK, CloserOwned, LostIssued
      <4> QED BY <4>2
    <3> QED BY <1>4, <3>1, <3>2, <3>3 DEF CloserTrigger, CloserReject
  <2> DEFINE r == [closer[c] EXCEPT !.pc = "save", !.job = job]
  <2>7. closer' = [closer EXCEPT ![c] = r]  BY <1>0, <2>4 DEF CloserChanges
  <2>8. r \in CloserState /\ r.pc = "save" /\ r.job = job /\ r.bug = closer[c].bug
    BY <1>0, <2>4 DEF CloserState
  <2>u. UNCHANGED <<jobs, audits, approved, chiron, auditor, worker>>
    BY <2>4 DEF CloserChanges
  <2> HIDE DEF r
  <2>9. Known \subseteq Known'  BY <2>4, <2>7, <2>8, KnownOfCloser
  <2>10. Typed /\ CloserOwned'
    BY <1>0, <2>3, <2>4, <2>7, <2>8, <2>9, CloserReplaced
  <2> QED BY <1>c, <1>q, <2>4, <2>u, <2>9, <2>10
<1>7. CASE CloserSave(c)
  <2>1. /\ closer[c].pc = "save"
        /\ closer[c].bug \in Bugs /\ closer[c].job \in Job
        /\ closer[c].job.last \in Ids \cup {None}
        /\ closer[c].job.status \in {"INPROGRESS", "FAILURE"}
    BY <1>0, <1>7 DEF CloserSave, CloserOwned, CloserState, Job
  <2> DEFINE r == [closer[c] EXCEPT !.pc = "notify"]
  <2>2. closer' = [closer EXCEPT ![c] = r]  BY <1>0, <1>7 DEF CloserSave
  <2>3. /\ r \in CloserState /\ r.pc = "notify"
        /\ r.job = closer[c].job /\ r.bug = closer[c].bug
    BY <1>0 DEF CloserState
  <2>6. /\ jobs' = [jobs EXCEPT ![closer[c].bug] = closer[c].job]
        /\ UNCHANGED <<audits, owner, lost, approved, chiron, auditor, worker>>
    BY <1>7 DEF CloserSave
  <2> HIDE DEF r
  <2>h. \A d \in Closers : \A a \in InHand(d) : a \in Ids /\ owner[a] = closer[d].bug /\ a \notin lost
    BY DEF CloserOwned, InHand
  <2>4. Known \subseteq Known' /\ closer[c].job.last \in Known' \cup {None}
    <3>1. \A a \in Known : owner'[a] = owner[a] /\ a \notin lost'  BY <2>6 DEF Known
    <3>2. Known \subseteq Known'  BY <2>2, <2>3, <3>1, KnownOfCloser
    <3>3. closer[c].job.last \in Ids => closer[c].job.last \in InHand(c)
      BY <2>1 DEF InHand
    <3>4. \A d \in Closers : InHand(d)' = IF d = c THEN {} ELSE InHand(d)
      BY <1>0, <2>2, <2>3, OneHand
    <3>5. closer[c].job.last \in Ids => closer[c].job.last \in Known'
      BY <2>1, <2>6, <2>h, <3>3, <3>4 DEF Known, CloserOwned
    <3> QED BY <2>1, <3>2, <3>5
  <2>5. Typed /\ CloserOwned'
    BY <1>0, <2>1, <2>2, <2>3, <2>4, <2>6, <2>h, CloserReplaced DEF CloserOwned, LostIssued
  <2>7. jobs' \in [Bugs -> Job]  BY <2>1, <2>6 DEF TypeOK
  <2>8. TypeOK'  BY <2>5, <2>6, <2>7 DEF TypeOK
  <2>9. \A b \in Bugs : jobs'[b].last \in Known' \cup {None}
    BY <2>1, <2>4, <2>6 DEF StoreOwned, TypeOK
  <2>10. StoreOwned'  BY <2>4, <2>6, <2>9 DEF StoreOwned
  <2> QED BY <2>4, <2>5, <2>6, <2>8, <2>10, AuditorOwnedKept, WorkerOwnedKept
<1>5. CASE CloserNotify(c)
  <2>1. closer[c].pc = "notify" /\ closer[c].job.status \in JobStatus
    BY <1>5 DEF CloserNotify, CloserOwned, JobStatus
  <2>2. /\ chiron' \in [Bugs -> SUBSET JobStatus]
        /\ UNCHANGED <<jobs, audits, owner, lost, approved, auditor, worker>>
    BY <1>5, <2>1 DEF CloserNotify, UpdateChiron, Updated, TypeOK
  <2> DEFINE n == [IdleCloser EXCEPT !.pc = "fetch", !.todo = closer[c].todo]
  <2>3. PICK r \in {IdleCloser, n} : closer' = [closer EXCEPT ![c] = r]
    BY <1>5 DEF CloserNotify, UpdateChiron
  <2>4. n \in CloserState /\ n.pc = "fetch" /\ n.job = IdleCloser.job
    BY <1>0, <1>i DEF CloserState
  <2>5. r \in CloserState /\ r.pc \in {"idle", "fetch"} /\ r.job.last = None
    BY <1>i, <2>3, <2>4
  <2> HIDE DEF n
  <2>7. Typed /\ CloserOwned' /\ Known \subseteq Known'
    BY <2>2, <2>3, <2>5, CloserMoves
  <2> QED BY <1>r, <2>2, <2>7
<1> QED BY <1>1, <1>2, <1>3, <1>4, <1>5, <1>6, <1>7 DEF CloserStep

-----------------------------------------------------------------------------
\* A new state of one auditor is typed and owned when it is so by itself.
LEMMA AuditorReplaced ==
  ASSUME auditor \in [Auditors -> AuditorState], AuditorOwned, Known' = Known,
         NEW s \in Auditors, NEW r \in AuditorState,
         auditor' = [auditor EXCEPT ![s] = r],
         \A j \in r.jobs : j[2] \in Known \cup {None},
         r.pc = "create" => r.job[2] \in Known,
         r.ids \subseteq Known,
         r.pc = "flag" => r.id \in Known
  PROVE  auditor' \in [Auditors -> AuditorState] /\ AuditorOwned'
  BY DEF AuditorOwned

\* The same of one worker.
LEMMA WorkerReplaced ==
  ASSUME worker \in [Workers -> WorkerState], WorkerOwned, Known' = Known,
         NEW w \in Workers, NEW r \in WorkerState,
         worker' = [worker EXCEPT ![w] = r],
         r.job.last \in Known \cup {None},
         \A e \in r.todo : e.id \in Known,
         r.pc \notin {"idle", "accept"} => r.id \in Known
  PROVE  worker' \in [Workers -> WorkerState] /\ WorkerOwned'
  BY DEF WorkerOwned

\* Setting isClosedByChiron of one audit.
LEMMA FlagTyped ==
  ASSUME TypeOK, StoreOwned, Known' = Known, jobs' = jobs, NEW a \in Known,
         audits' = [audits EXCEPT ![a].closed = TRUE]
  PROVE  audits' \in [Ids -> Audit] /\ StoreOwned'
<1>1. audits \in [Ids -> Audit] /\ a \in Ids  BY DEF TypeOK, Known
<1>2. audits' \in [Ids -> Audit]  BY <1>1 DEF Audit
<1>3. \A x \in Ids : audits'[x].status = audits[x].status  BY <1>1 DEF Audit
<1> QED BY <1>2, <1>3 DEF StoreOwned

\* The state of an auditor at the start of its closing loop, or idle.
LEMMA ClosingTyped ==
  ASSUME NEW ids \in SUBSET Ids
  PROVE  /\ Closing(ids) \in AuditorState
         /\ Closing(ids).jobs = {}
         /\ Closing(ids).pc \in {"idle", "close"}
         /\ Closing(ids).ids = ids
<1>1. IdleAuditor \in AuditorState  BY IdleTyped
<1>2. IdleAuditor.jobs = {} /\ IdleAuditor.pc = "idle" /\ IdleAuditor.ids = {}
  BY DEF IdleAuditor
<1> DEFINE r == [IdleAuditor EXCEPT !.pc = "close", !.ids = ids]
<1>3. r \in AuditorState /\ r.jobs = {} /\ r.pc = "close" /\ r.ids = ids
  BY <1>1, <1>2 DEF AuditorState
<1> HIDE DEF r
<1>4. Closing(ids) = IF ids = {} THEN IdleAuditor ELSE r  BY DEF Closing, r
<1> QED BY <1>1, <1>2, <1>3, <1>4

\* The steps of an auditor.
LEMMA TypingAuditor ==
  ASSUME Typing, NEW s \in Auditors, AuditorStart(s) \/ AuditorStep(s)
  PROVE  Typing' /\ Known \subseteq Known'
<1> USE DEF Typing
<1> DEFINE Typed == auditor' \in [Auditors -> AuditorState] /\ AuditorOwned'
           A == auditor[s]
<1>0. auditor \in [Auditors -> AuditorState] /\ A \in AuditorState  BY DEF TypeOK
<1>i. /\ IdleAuditor \in AuditorState /\ IdleAuditor.jobs = {}
      /\ IdleAuditor.pc = "idle" /\ IdleAuditor.ids = {}
      /\ IdleAuditor.job = <<None, None>>
  BY IdleTyped DEF IdleAuditor
<1>o. /\ \A j \in A.jobs : j[2] \in Known \cup {None}
      /\ A.ids \subseteq Known /\ A.ids \subseteq Ids
      /\ A.pc = "create" => A.job[2] \in Known
      /\ A.pc = "flag" => A.id \in Known
  BY <1>0 DEF AuditorOwned, AuditorState
<1>r. ASSUME UNCHANGED <<store, closer, worker>>, Typed  PROVE Typing' /\ Known \subseteq Known'
  <2>1. Known' = Known  BY <1>r, KnownKept DEF store
  <2>2. TypeOK'  BY <1>r DEF TypeOK, store
  <2> QED BY <1>r, <2>1, <2>2, StoreOwnedKept, CloserOwnedKept, WorkerOwnedKept DEF store
<1>1. CASE AuditorStart(s)
  <2> DEFINE js == {<<b, jobs[b].last>> : b \in {x \in Bugs : jobs[x].status = "INPROGRESS"}}
             r == [IdleAuditor EXCEPT !.pc = "register", !.jobs = js]
  <2>1. auditor' = [auditor EXCEPT ![s] = r] /\ UNCHANGED <<store, closer, worker>>
    BY <1>1 DEF AuditorStart, AuditorGoes
  <2>2. js \subseteq Bugs \X (Ids \cup {None})
    <3>1. \A b \in Bugs : jobs[b].last \in Ids \cup {None}  BY DEF TypeOK, Job
    <3> QED BY <3>1
  <2>3. \A j \in js : j[2] \in Known \cup {None}  BY DEF StoreOwned
  <2> HIDE DEF js
  <2>4. r \in AuditorState /\ r.pc = "register" /\ r.jobs = js /\ r.ids = {}
    BY <1>i, <2>2 DEF AuditorState
  <2> HIDE DEF r
  <2>5. Known' = Known  BY <2>1, KnownKept DEF store
  <2>6. Typed  BY <1>0, <2>1, <2>3, <2>4, <2>5, AuditorReplaced
  <2> QED BY <2>1, <2>6, <1>r
<1>2. CASE AuditorRegister(s)
  <2>1. UNCHANGED <<store, closer, worker>>  BY <1>2 DEF AuditorRegister, AuditorGoes
  <2>2. Known' = Known  BY <2>1, KnownKept DEF store
  <2>3. CASE auditor' = [auditor EXCEPT ![s] = [A EXCEPT !.pc = "spawn"]]
    <3> DEFINE r == [A EXCEPT !.pc = "spawn"]
    <3>1. r \in AuditorState /\ r.pc = "spawn" /\ r.jobs = A.jobs /\ r.ids = A.ids
      BY <1>0 DEF AuditorState
    <3>2. auditor' = [auditor EXCEPT ![s] = r]  BY <2>3
    <3> HIDE DEF r
    <3>3. Typed  BY <1>0, <1>o, <2>2, <3>1, <3>2, AuditorReplaced
    <3> QED BY <2>1, <3>3, <1>r
  <2>4. ASSUME NEW j \in A.jobs, j[2] \in Ids, NEW pc \in {"create", A.pc},
               NEW job \in {j, A.job}, pc = "create" => job = j, A.pc = "register",
               auditor' = [auditor EXCEPT ![s] =
                 [A EXCEPT !.jobs = @ \ {j}, !.pc = pc, !.job = job]]
        PROVE  Typing' /\ Known \subseteq Known'
    <3> DEFINE r == [A EXCEPT !.jobs = @ \ {j}, !.pc = pc, !.job = job]
    <3>1. j \in Bugs \X (Ids \cup {None}) /\ j[2] \in Known
      BY <1>0, <1>o, <2>4, NoneAssumption DEF AuditorState
    <3>2. job \in (Bugs \cup {None}) \X (Ids \cup {None})
      BY <1>0, <2>4, <3>1 DEF AuditorState
    <3>3. /\ r \in AuditorState /\ r.pc = pc /\ r.job = job
          /\ r.jobs = A.jobs \ {j} /\ r.ids = A.ids
      BY <1>0, <2>4, <3>2 DEF AuditorState
    <3>4. auditor' = [auditor EXCEPT ![s] = r]  BY <2>4
    <3> HIDE DEF r
    <3>5. Typed  BY <1>0, <1>o, <2>2, <2>4, <3>1, <3>3, <3>4, AuditorReplaced
    <3> QED BY <2>1, <3>5, <1>r
  <2>5. ASSUME NEW j \in A.jobs, j[2] \in Ids, A.pc = "register",
               AuditorGoes(s, [A EXCEPT
                 !.jobs = @ \ {j},
                 !.pc = IF audits[j[2]].status = NoStatus THEN "create" ELSE @,
                 !.job = IF audits[j[2]].status = NoStatus THEN j ELSE @])
        PROVE  Typing' /\ Known \subseteq Known'
    <3>1. CASE audits[j[2]].status = NoStatus
      <4>1. auditor' = [auditor EXCEPT ![s] =
              [A EXCEPT !.jobs = @ \ {j}, !.pc = "create", !.job = j]]
        BY <2>5, <3>1 DEF AuditorGoes
      <4> QED BY <2>4, <2>5, <4>1
    <3>2. CASE audits[j[2]].status # NoStatus
      <4>1. auditor' = [auditor EXCEPT ![s] =
              [A EXCEPT !.jobs = @ \ {j}, !.pc = A.pc, !.job = A.job]]
        BY <2>5, <3>2 DEF AuditorGoes
      <4> QED BY <2>4, <2>5, <4>1
    <3> QED BY <3>1, <3>2
  <2> QED BY <1>2, <2>3, <2>5 DEF AuditorRegister, AuditorGoes
<1>3. CASE AuditorRegisterThrows(s)
  <2>1. auditor' = [auditor EXCEPT ![s] = IdleAuditor] /\ UNCHANGED <<store, closer, worker>>
    BY <1>3 DEF AuditorRegisterThrows, AuditorGoes
  <2>2. Known' = Known  BY <2>1, KnownKept DEF store
  <2>3. Typed  BY <1>0, <1>i, <2>1, <2>2, AuditorReplaced
  <2> QED BY <2>1, <2>3, <1>r
<1>4. CASE AuditorCreate(s)
  <2> DEFINE a == A.job[2]
             d == [NoAudit EXCEPT !.status = "INPROGRESS"]
             r == [A EXCEPT !.pc = "register", !.job = IdleAuditor.job]
  <2>1. /\ A.pc = "create" /\ audits' = [audits EXCEPT ![a] = d]
        /\ auditor' = [auditor EXCEPT ![s] = r]
        /\ UNCHANGED <<jobs, owner, lost, approved, chiron, worker, closer>>
    BY <1>4 DEF AuditorCreate, AuditorGoes
  <2>2. a \in Known /\ a \in Ids  BY <1>o, <2>1 DEF Known
  <2>3. Known' = Known  BY <2>1, KnownKept
  <2>4. d \in Audit  BY IdleTyped DEF Audit, JobStatus
  <2>5. r \in AuditorState /\ r.pc = "register" /\ r.jobs = A.jobs /\ r.ids = A.ids
    BY <1>0, <1>i DEF AuditorState
  <2> HIDE DEF a, d, r
  <2>6. Typed  BY <1>0, <1>o, <2>1, <2>3, <2>5, AuditorReplaced
  <2>7. TypeOK'  BY <2>1, <2>2, <2>4, <2>6 DEF TypeOK
  <2>8. StoreOwned'  BY <2>1, <2>2, <2>3 DEF StoreOwned, TypeOK
  <2> QED BY <2>1, <2>3, <2>6, <2>7, <2>8, CloserOwnedKept, WorkerOwnedKept
<1>5. CASE AuditorSpawn(s)
  <2> DEFINE r == [A EXCEPT !.pc = "scan"]
  <2>1. auditor' = [auditor EXCEPT ![s] = r] /\ UNCHANGED <<store, closer>>
    BY <1>5 DEF AuditorSpawn, AuditorGoes
  <2>2. Known' = Known  BY <2>1, KnownKept DEF store
  <2>3. r \in AuditorState /\ r.pc = "scan" /\ r.jobs = A.jobs /\ r.ids = A.ids
    BY <1>0 DEF AuditorState
  <2> HIDE DEF r
  <2>4. Typed  BY <1>0, <1>o, <2>1, <2>2, <2>3, AuditorReplaced
  <2>5. worker' \in [Workers -> WorkerState] /\ WorkerOwned'
    <3>1. CASE worker' = worker
      BY <2>2, <3>1, WorkerOwnedKept DEF TypeOK
    <3>2. CASE \E w \in Workers :
                 worker' = [worker EXCEPT ![w] =
                       [@ EXCEPT !.pc = "accept", !.todo = WaitingAudits]]
      <4>1. PICK w \in Workers :
              worker' = [worker EXCEPT ![w] =
                    [@ EXCEPT !.pc = "accept", !.todo = WaitingAudits]]
        BY <3>2
      <4> DEFINE q == [worker[w] EXCEPT !.pc = "accept", !.todo = WaitingAudits]
      <4>2. WaitingAudits \subseteq [id: Ids, doc: Audit]
            /\ \A e \in WaitingAudits : e.id \in Known
        BY DEF WaitingAudits, TypeOK, StoreOwned, NoStatus
      <4>3. worker \in [Workers -> WorkerState] /\ worker[w] \in WorkerState
        BY DEF TypeOK
      <4>4. q \in WorkerState /\ q.pc = "accept" /\ q.todo = WaitingAudits
            /\ q.job = worker[w].job
        BY <4>2, <4>3 DEF WorkerState
      <4>5. worker' = [worker EXCEPT ![w] = q]  BY <4>1, <4>3
      <4>6. q.job.last \in Known \cup {None}  BY <4>4 DEF WorkerOwned
      <4> HIDE DEF q
      <4> QED BY <2>2, <4>2, <4>3, <4>4, <4>5, <4>6, WorkerReplaced
    <3> QED BY <1>5, <3>1, <3>2 DEF AuditorSpawn
  <2>6. TypeOK'  BY <2>1, <2>4, <2>5 DEF TypeOK, store
  <2> QED BY <2>1, <2>2, <2>4, <2>5, <2>6, StoreOwnedKept, CloserOwnedKept DEF store
<1>6. CASE AuditorScan(s)
  <2>1. auditor' = [auditor EXCEPT ![s] = Closing(Unclosed)]
        /\ UNCHANGED <<store, closer, worker>>
    BY <1>6 DEF AuditorScan, AuditorGoes
  <2>2. Known' = Known  BY <2>1, KnownKept DEF store
  <2>3. Unclosed \subseteq Known /\ Unclosed \in SUBSET Ids
    BY DEF Unclosed, StoreOwned, NoStatus
  <2> DEFINE r == Closing(Unclosed)
  <2>4. /\ r \in AuditorState /\ r.jobs = {} /\ r.ids \subseteq Known
        /\ r.pc \in {"idle", "close"}
    BY <2>3, ClosingTyped
  <2>5. auditor' = [auditor EXCEPT ![s] = r]  BY <2>1
  <2> HIDE DEF r
  <2>6. Typed  BY <1>0, <2>2, <2>4, <2>5, AuditorReplaced
  <2> QED BY <2>1, <2>6, <1>r
<1>7. CASE AuditorClose(s)
  <2>1. PICK a \in A.ids :
          /\ chiron' \in {chiron, Updated(owner[a], "SUCCESS")}
          /\ \/ auditor' = [auditor EXCEPT ![s] = [IdleAuditor EXCEPT
                              !.pc = "flag", !.ids = A.ids \ {a}, !.id = a]]
             \/ auditor' = [auditor EXCEPT ![s] = Closing(A.ids \ {a})]
             \/ auditor' = [auditor EXCEPT ![s] = IdleAuditor]
    BY <1>7 DEF AuditorClose, UpdateChiron, AuditorGoes
  <2>2. UNCHANGED <<jobs, audits, owner, lost, approved, worker, closer>>
    BY <1>7 DEF AuditorClose, UpdateChiron, AuditorGoes
  <2>3. Known' = Known  BY <2>2, KnownKept
  <2>4. chiron' \in [Bugs -> SUBSET JobStatus]
    BY <2>1 DEF Updated, TypeOK, JobStatus
  <2> DEFINE f == [IdleAuditor EXCEPT !.pc = "flag", !.ids = A.ids \ {a}, !.id = a]
  <2>5. f \in AuditorState /\ f.pc = "flag" /\ f.jobs = {}
        /\ f.ids = A.ids \ {a} /\ f.id = a
    BY <1>i, <1>o DEF AuditorState
  <2>6. PICK r \in {f, Closing(A.ids \ {a}), IdleAuditor} :
          auditor' = [auditor EXCEPT ![s] = r]
    BY <2>1
  <2> HIDE DEF f
  <2>7. /\ r \in AuditorState /\ r.jobs = {} /\ r.ids \subseteq Known
        /\ r.pc # "create" /\ (r.pc = "flag" => r.id \in Known)
    <3>1. A.ids \ {a} \in SUBSET Ids  BY <1>o
    <3> QED BY <1>i, <1>o, <2>5, <2>6, <3>1, ClosingTyped
  <2>8. Typed  BY <1>0, <2>3, <2>6, <2>7, AuditorReplaced
  <2>9. TypeOK'  BY <2>2, <2>4, <2>8 DEF TypeOK
  <2> QED BY <2>2, <2>3, <2>8, <2>9, StoreOwnedKept, CloserOwnedKept, WorkerOwnedKept
<1>8. CASE AuditorFlag(s)
  <2>1. /\ A.pc = "flag" /\ audits' = [audits EXCEPT ![A.id].closed = TRUE]
        /\ auditor' = [auditor EXCEPT ![s] = Closing(A.ids)]
        /\ UNCHANGED <<jobs, owner, lost, approved, chiron, worker, closer>>
    BY <1>8 DEF AuditorFlag, AuditorGoes
  <2>2. Known' = Known  BY <2>1, KnownKept
  <2> DEFINE r == Closing(A.ids)
  <2>a. /\ r \in AuditorState /\ r.jobs = {} /\ r.ids \subseteq Known
        /\ r.pc \in {"idle", "close"}
    BY <1>o, ClosingTyped
  <2>b. auditor' = [auditor EXCEPT ![s] = r]  BY <2>1
  <2> HIDE DEF r
  <2>3. Typed  BY <1>0, <2>2, <2>a, <2>b, AuditorReplaced
  <2>4. audits' \in [Ids -> Audit] /\ StoreOwned'
    BY <1>o, <2>1, <2>2, FlagTyped
  <2>5. TypeOK'  BY <2>1, <2>3, <2>4 DEF TypeOK
  <2> QED BY <2>1, <2>2, <2>3, <2>4, <2>5, CloserOwnedKept, WorkerOwnedKept
<1> QED BY <1>1, <1>2, <1>3, <1>4, <1>5, <1>6, <1>7, <1>8 DEF AuditorStep

-----------------------------------------------------------------------------
\* A worker that has finished with an audit: idle, or at the next one.
LEMMA RemainingTyped ==
  ASSUME NEW todo \in SUBSET [id: Ids, doc: Audit]
  PROVE  /\ Remaining(todo) \in WorkerState
         /\ Remaining(todo).pc \in {"idle", "accept"}
         /\ Remaining(todo).todo = todo
         /\ Remaining(todo).job.last = None
<1>1. IdleWorker \in WorkerState  BY IdleTyped
<1>2. IdleWorker.todo = {} /\ IdleWorker.pc = "idle" /\ IdleWorker.job.last = None
  BY DEF IdleWorker, NoJob
<1> DEFINE r == [IdleWorker EXCEPT !.pc = "accept", !.todo = todo]
<1>3. r \in WorkerState /\ r.pc = "accept" /\ r.todo = todo /\ r.job.last = None
  BY <1>1, <1>2 DEF WorkerState
<1> HIDE DEF r
<1>4. Remaining(todo) = IF todo = {} THEN IdleWorker ELSE r  BY DEF Remaining, r
<1> QED BY <1>1, <1>2, <1>3, <1>4

\* The document a worker saves with a verdict.
LEMMA RecordTyped ==
  ASSUME Typing, closer' = closer,
         NEW w \in Workers, NEW status \in JobStatus, WorkerRecords(w, status)
  PROVE  audits' \in [Ids -> Audit] /\ StoreOwned' /\ Known' = Known
<1> DEFINE W == worker[w]
           n == W.doc.responses + 1
           due == IF status = "INPROGRESS" THEN FALSE ELSE W.doc.due
           d == [W.doc EXCEPT !.status = status, !.responses = n, !.due = due]
<1>1. /\ W.pc = "query" /\ audits' = [audits EXCEPT ![W.id] = d]
      /\ UNCHANGED <<jobs, owner, lost, chiron>>
  BY DEF WorkerRecords
<1>2. W.id \in Known /\ W.id \in Ids  BY <1>1 DEF Typing, WorkerOwned, Known
<1>3. W.doc \in Audit  BY DEF Typing, TypeOK, WorkerState
<1>4. n \in Nat /\ due \in BOOLEAN
  <2>1. W.doc.responses \in Nat /\ W.doc.due \in BOOLEAN  BY <1>3 DEF Audit
  <2>2. n \in Nat  BY <2>1
  <2>3. due \in BOOLEAN
    <3>1. CASE status = "INPROGRESS"  BY <3>1
    <3>2. CASE status # "INPROGRESS"  BY <2>1, <3>2, Zenon
    <3> QED BY <3>1, <3>2
  <2> QED BY <2>2, <2>3
<1>5. Known' = Known  BY <1>1, KnownKept
<1> HIDE DEF n, due
<1>6. d \in Audit  BY <1>3, <1>4 DEF Audit
<1> HIDE DEF d, W
<1>7. audits' \in [Ids -> Audit]  BY <1>1, <1>2, <1>6 DEF Typing, TypeOK
<1>8. StoreOwned'  BY <1>1, <1>2, <1>5 DEF Typing, TypeOK, StoreOwned
<1> QED BY <1>5, <1>7, <1>8

\* The steps of a worker.
LEMMA TypingWorker ==
  ASSUME Typing, NEW w \in Workers, WorkerStep(w)
  PROVE  Typing' /\ Known \subseteq Known'
<1> USE DEF Typing
<1> DEFINE Typed == worker' \in [Workers -> WorkerState] /\ WorkerOwned'
           W == worker[w]
<1>0. worker \in [Workers -> WorkerState] /\ W \in WorkerState  BY DEF TypeOK
<1>o. /\ W.job.last \in Known \cup {None} /\ W.job \in Job
      /\ W.todo \subseteq [id: Ids, doc: Audit]
      /\ \A e \in W.todo : e.id \in Known
      /\ W.pc \notin {"idle", "accept"} => W.id \in Known /\ W.id \in Ids
  BY <1>0 DEF WorkerOwned, WorkerState, Known
<1>k. ASSUME Known' = Known, UNCHANGED <<owner, lost, closer, auditor>>, Typed,
             TypeOK', StoreOwned'
      PROVE  Typing' /\ Known \subseteq Known'
  BY <1>k, CloserOwnedKept, AuditorOwnedKept
<1>c. ASSUME UNCHANGED <<jobs, audits, owner, lost, approved, closer, auditor>>, Typed,
             chiron' \in [Bugs -> SUBSET JobStatus]
      PROVE  Typing' /\ Known \subseteq Known'
  <2>1. Known' = Known  BY <1>c, KnownKept
  <2>2. TypeOK'  BY <1>c DEF TypeOK
  <2> QED BY <1>c, <1>k, <2>1, <2>2, StoreOwnedKept
\* What a step that ends with the audit at hand leaves behind.
<1>t. ASSUME NEW todo \in {{}, W.todo},
             worker' = [worker EXCEPT ![w] = Remaining(todo)], Known' = Known
      PROVE  Typed
  <2>1. todo \in SUBSET [id: Ids, doc: Audit] /\ \A e \in todo : e.id \in Known
    BY <1>o
  <2> DEFINE r == Remaining(todo)
  <2>2. /\ r \in WorkerState /\ r.pc \in {"idle", "accept"}
        /\ r.todo = todo /\ r.job.last = None
    BY <2>1, RemainingTyped
  <2>3. worker' = [worker EXCEPT ![w] = r]  BY <1>t
  <2> HIDE DEF r
  <2> QED BY <1>0, <1>t, <2>1, <2>2, <2>3, WorkerReplaced
\* What a step to another pc for the same audit leaves behind.
<1>p. ASSUME W.pc \notin {"idle", "accept"}, Known' = Known,
             NEW pc \in {"flag", "save"},
             worker' = [worker EXCEPT ![w] = [W EXCEPT !.pc = pc]]
      PROVE  Typed
  <2> DEFINE r == [W EXCEPT !.pc = pc]
  <2>1. /\ r \in WorkerState /\ r.pc = pc /\ r.todo = W.todo /\ r.id = W.id
        /\ r.job = W.job
    BY <1>0, <1>p DEF WorkerState
  <2>2. worker' = [worker EXCEPT ![w] = r]  BY <1>p
  <2> HIDE DEF r
  <2> QED BY <1>0, <1>o, <1>p, <2>1, <2>2, WorkerReplaced
\* What the sync leaves behind.
<1>y. ASSUME W.pc = "query", Known' = Known, NEW pc \in {"close", "giveup", "save"},
             NEW job \in Job, job.last = W.job.last,
             worker' = [worker EXCEPT ![w] =
                          [W EXCEPT !.pc = pc, !.doc = NoAudit, !.job = job]]
      PROVE  Typed
  <2> DEFINE r == [W EXCEPT !.pc = pc, !.doc = NoAudit, !.job = job]
  <2>1. /\ r \in WorkerState /\ r.pc = pc /\ r.todo = W.todo /\ r.id = W.id
        /\ r.job = job
    BY <1>0, <1>y, IdleTyped DEF WorkerState
  <2>2. worker' = [worker EXCEPT ![w] = r]  BY <1>y
  <2> HIDE DEF r
  <2> QED BY <1>0, <1>o, <1>y, <2>1, <2>2, WorkerReplaced
<1>1. CASE WorkerAccept(w)
  <2>1. PICK e \in W.todo :
          worker' = [worker EXCEPT ![w] =
            [pc |-> "query", todo |-> W.todo \ {e}, id |-> e.id, doc |-> e.doc,
             job |-> jobs[owner[e.id]]]]
    BY <1>1 DEF WorkerAccept, WorkerGoes
  <2>2. UNCHANGED <<store, closer, auditor>>  BY <1>1 DEF WorkerAccept, WorkerGoes
  <2>3. Known' = Known  BY <2>2, KnownKept DEF store
  <2>4. /\ e.id \in Ids /\ e.doc \in Audit /\ e.id \in Known
        /\ owner[e.id] \in Bugs
    BY <1>o, <2>1 DEF Known
  <2>5. jobs[owner[e.id]] \in Job /\ jobs[owner[e.id]].last \in Known \cup {None}
    BY <2>4 DEF TypeOK, StoreOwned
  <2> DEFINE r == [pc |-> "query", todo |-> W.todo \ {e}, id |-> e.id,
                   doc |-> e.doc, job |-> jobs[owner[e.id]]]
  <2>6. /\ r \in WorkerState /\ r.todo \subseteq W.todo /\ r.id = e.id
        /\ r.job = jobs[owner[e.id]]
    BY <1>o, <2>4, <2>5 DEF WorkerState
  <2>7. worker' = [worker EXCEPT ![w] = r]  BY <2>1
  <2> HIDE DEF r
  <2>8. Typed  BY <1>0, <1>o, <2>3, <2>4, <2>5, <2>6, <2>7, WorkerReplaced
  <2>9. chiron' \in [Bugs -> SUBSET JobStatus]  BY <2>2 DEF store, TypeOK
  <2> QED BY <1>c, <2>2, <2>8, <2>9 DEF store
<1>2. CASE WorkerApproves(w)
  <2> DEFINE job == [W.job EXCEPT !.status = "SUCCESS"]
  <2>1. /\ WorkerRecords(w, "SUCCESS") /\ approved' = approved \cup {W.id}
        /\ worker' = [worker EXCEPT ![w] =
                        [W EXCEPT !.pc = "close", !.doc = NoAudit, !.job = job]]
        /\ UNCHANGED <<closer, auditor>>
    BY <1>2 DEF WorkerApproves, WorkerSyncs, WorkerGoes
  <2>2. W.pc = "query" /\ UNCHANGED <<jobs, owner, lost, chiron>>
    BY <2>1 DEF WorkerRecords
  <2>3. audits' \in [Ids -> Audit] /\ StoreOwned' /\ Known' = Known
    BY <2>1, RecordTyped DEF JobStatus
  <2>4. job \in Job /\ job.last = W.job.last  BY <1>o DEF Job, JobStatus
  <2> HIDE DEF job
  <2>5. Typed  BY <1>y, <2>1, <2>2, <2>3, <2>4
  <2>6. TypeOK'  BY <1>o, <2>1, <2>2, <2>3, <2>5 DEF TypeOK
  <2> QED BY <1>k, <2>1, <2>2, <2>3, <2>5, <2>6
<1>3. CASE WorkerFails(w)
  <2> DEFINE f == [W.job EXCEPT !.status = "FAILURE"]
             g == [W.job EXCEPT !.status = "READY", !.due = FALSE]
  <2>1. PICK pc \in {"giveup", "save"}, job \in {f, g} :
          worker' = [worker EXCEPT ![w] =
                      [W EXCEPT !.pc = pc, !.doc = NoAudit, !.job = job]]
    <3>1. CASE W.job.retryCount >= RetryCount
      <4>1. worker' = [worker EXCEPT ![w] =
                        [W EXCEPT !.pc = "giveup", !.doc = NoAudit, !.job = f]]
        BY <1>3, <3>1 DEF WorkerFails, WorkerSyncs, WorkerGoes
      <4> QED BY <4>1
    <3>2. CASE ~(W.job.retryCount >= RetryCount)
      <4>1. worker' = [worker EXCEPT ![w] =
                        [W EXCEPT !.pc = "save", !.doc = NoAudit, !.job = g]]
        BY <1>3, <3>2 DEF WorkerFails, WorkerSyncs, WorkerGoes
      <4> QED BY <4>1
    <3> QED BY <3>1, <3>2
  <2>2. /\ WorkerRecords(w, "FAILURE") /\ approved' = approved
        /\ UNCHANGED <<closer, auditor>>
    BY <1>3 DEF WorkerFails, WorkerSyncs, WorkerGoes
  <2>3. W.pc = "query" /\ UNCHANGED <<jobs, owner, lost, chiron>>
    BY <2>2 DEF WorkerRecords
  <2>4. audits' \in [Ids -> Audit] /\ StoreOwned' /\ Known' = Known
    BY <2>2, RecordTyped DEF JobStatus
  <2>5. /\ f \in Job /\ f.last = W.job.last
        /\ g \in Job /\ g.last = W.job.last
    BY <1>o DEF Job, JobStatus
  <2> HIDE DEF f, g
  <2>6. Typed  BY <1>y, <2>1, <2>3, <2>4, <2>5
  <2>7. TypeOK'  BY <2>2, <2>3, <2>4, <2>6 DEF TypeOK
  <2> QED BY <1>k, <2>2, <2>3, <2>4, <2>6, <2>7
<1>4. CASE WorkerPostpones(w)
  <2>1. /\ WorkerRecords(w, "INPROGRESS") /\ approved' = approved
        /\ worker' = [worker EXCEPT ![w] = Remaining(W.todo)]
        /\ UNCHANGED <<closer, auditor>>
    BY <1>4 DEF WorkerPostpones, WorkerGoes
  <2>2. UNCHANGED <<jobs, owner, lost, chiron>>  BY <2>1 DEF WorkerRecords
  <2>3. audits' \in [Ids -> Audit] /\ StoreOwned' /\ Known' = Known
    BY <2>1, RecordTyped DEF JobStatus
  <2>4. Typed  BY <1>t, <2>1, <2>3
  <2>5. TypeOK'  BY <2>1, <2>2, <2>3, <2>4 DEF TypeOK
  <2> QED BY <1>k, <2>1, <2>2, <2>3, <2>4, <2>5
<1>5. CASE WorkerQueryThrows(w)
  <2>1. PICK todo \in {{}, W.todo} : worker' = [worker EXCEPT ![w] = Remaining(todo)]
    BY <1>5 DEF WorkerQueryThrows, WorkerThrows, WorkerGoes
  <2>2. UNCHANGED <<store, closer, auditor>>
    BY <1>5 DEF WorkerQueryThrows, WorkerThrows, WorkerGoes
  <2>3. Known' = Known  BY <2>2, KnownKept DEF store
  <2>4. Typed  BY <1>t, <2>1, <2>3
  <2>5. chiron' \in [Bugs -> SUBSET JobStatus]  BY <2>2 DEF store, TypeOK
  <2> QED BY <1>c, <2>2, <2>4, <2>5 DEF store
<1>6. CASE WorkerClose(w) \/ WorkerGiveUp(w)
  <2>1. W.pc \notin {"idle", "accept"}  BY <1>6 DEF WorkerClose, WorkerGiveUp
  <2>2. UNCHANGED <<jobs, audits, owner, lost, approved, closer, auditor>>
    BY <1>6 DEF WorkerClose, WorkerGiveUp, WorkerGoes, WorkerThrows, UpdateChiron
  <2>3. chiron' \in [Bugs -> SUBSET JobStatus]
    BY <1>6 DEF WorkerClose, WorkerGiveUp, UpdateChiron, Updated, TypeOK, JobStatus
  <2>4. Known' = Known  BY <2>2, KnownKept
  <2>5. \/ \E pc \in {"flag", "save"} : worker' = [worker EXCEPT ![w] = [W EXCEPT !.pc = pc]]
        \/ \E todo \in {{}, W.todo} : worker' = [worker EXCEPT ![w] = Remaining(todo)]
    BY <1>6 DEF WorkerClose, WorkerGiveUp, UpdateChiron, WorkerGoes, WorkerThrows
  <2>6. Typed  BY <1>p, <1>t, <2>1, <2>4, <2>5
  <2> QED BY <1>c, <2>2, <2>3, <2>6
<1>7. CASE WorkerFlag(w)
  <2>1. /\ W.pc = "flag" /\ audits' = [audits EXCEPT ![W.id].closed = TRUE]
        /\ worker' = [worker EXCEPT ![w] = [W EXCEPT !.pc = "save"]]
        /\ UNCHANGED <<jobs, owner, lost, approved, chiron, closer, auditor>>
    BY <1>7 DEF WorkerFlag, WorkerGoes
  <2>2. Known' = Known  BY <2>1, KnownKept
  <2>3. Typed  BY <1>p, <2>1, <2>2
  <2>4. audits' \in [Ids -> Audit] /\ StoreOwned'
    BY <1>o, <2>1, <2>2, FlagTyped
  <2>5. TypeOK'  BY <2>1, <2>3, <2>4 DEF TypeOK
  <2> QED BY <1>k, <2>1, <2>2, <2>3, <2>4, <2>5
<1>8. CASE WorkerSave(w)
  <2>1. /\ W.pc = "save" /\ jobs' = [jobs EXCEPT ![owner[W.id]] = W.job]
        /\ worker' = [worker EXCEPT ![w] = Remaining(W.todo)]
        /\ UNCHANGED <<audits, owner, lost, approved, chiron, closer, auditor>>
    BY <1>8 DEF WorkerSave, WorkerGoes
  <2>2. owner[W.id] \in Bugs  BY <1>o, <2>1 DEF Known
  <2>3. Known' = Known  BY <2>1, KnownKept
  <2>4. Typed  BY <1>t, <2>1, <2>3
  <2>5. jobs' \in [Bugs -> Job]  BY <1>o, <2>1, <2>2 DEF TypeOK
  <2>6. TypeOK'  BY <2>1, <2>4, <2>5 DEF TypeOK
  <2>7. StoreOwned'  BY <1>o, <2>1, <2>2, <2>3 DEF StoreOwned, TypeOK
  <2> QED BY <1>k, <2>1, <2>3, <2>4, <2>6, <2>7
<1> QED BY <1>1, <1>2, <1>3, <1>4, <1>5, <1>6, <1>7, <1>8 DEF WorkerStep

-----------------------------------------------------------------------------
\* A crash leaves the collections alone and idles one pass; what a closer had
\* not saved is lost.
LEMMA TypingCrash ==
  ASSUME Typing, Crash
  PROVE  Typing' /\ Known \subseteq Known'
<1> USE DEF Typing
<1>1. UNCHANGED <<jobs, audits, owner, approved, chiron>>  BY DEF Crash
<1>i. /\ IdleCloser \in CloserState /\ IdleAuditor \in AuditorState
      /\ IdleWorker \in WorkerState
      /\ IdleCloser.pc = "idle" /\ IdleCloser.job.last = None
      /\ IdleAuditor.pc = "idle" /\ IdleAuditor.jobs = {} /\ IdleAuditor.ids = {}
      /\ IdleWorker.pc = "idle" /\ IdleWorker.todo = {} /\ IdleWorker.job.last = None
  BY IdleTyped DEF IdleCloser, IdleAuditor, IdleWorker, NoJob
<1>4. ASSUME NEW c \in Closers, CloserAborts(c), lost' = lost \cup InHand(c)
      PROVE  Typing' /\ Known \subseteq Known'
  <2>1. /\ closer' = [closer EXCEPT ![c] = IdleCloser]
        /\ UNCHANGED <<auditor, worker>>
    BY <1>4 DEF CloserAborts
  <2>2. \A d \in Closers : \A a \in InHand(d) : a \in Ids /\ owner[a] \in Bugs
    BY DEF CloserOwned, InHand
  <2>3. lost' \subseteq Ids /\ LostIssued'
    BY <1>1, <1>4, <2>2 DEF TypeOK, CloserOwned, LostIssued
  <2>4. \A a \in Known : owner'[a] = owner[a] /\ a \notin lost'
    BY <1>1, <1>4 DEF Known
  <2>5. Known \subseteq Known'  BY <1>i, <2>1, <2>4, KnownOfCloser
  <2>6. \A d \in Closers \ {c} : \A a \in InHand(d) : owner'[a] = owner[a] /\ a \notin lost'
    BY <1>1, <1>4 DEF CloserOwned
  <2>7. closer' \in [Closers -> CloserState] /\ CloserOwned'
    BY <1>i, <2>1, <2>3, <2>5, <2>6, CloserReplaced DEF TypeOK
  <2>8. TypeOK'  BY <1>1, <2>1, <2>3, <2>7 DEF TypeOK
  <2> QED BY <1>1, <2>1, <2>5, <2>7, <2>8, StoreOwnedKept, AuditorOwnedKept, WorkerOwnedKept
<1>k. ASSUME UNCHANGED <<lost, closer>>
      PROVE  Known' = Known /\ StoreOwned' /\ CloserOwned'
  BY <1>1, <1>k, KnownKept, StoreOwnedKept, CloserOwnedKept
<1>5. ASSUME NEW s \in Auditors, AuditorGoes(s, IdleAuditor), UNCHANGED <<lost, worker>>
      PROVE  Typing' /\ Known \subseteq Known'
  <2>1. auditor' = [auditor EXCEPT ![s] = IdleAuditor] /\ UNCHANGED closer
    BY <1>5 DEF AuditorGoes
  <2>2. auditor' \in [Auditors -> AuditorState] /\ AuditorOwned'
    BY <1>5, <1>i, <1>k, <2>1, AuditorReplaced DEF TypeOK
  <2>3. TypeOK'  BY <1>1, <1>5, <2>1, <2>2 DEF TypeOK
  <2> QED BY <1>5, <1>k, <2>1, <2>2, <2>3, WorkerOwnedKept
<1>6. ASSUME NEW w \in Workers, WorkerGoes(w, IdleWorker), UNCHANGED lost
      PROVE  Typing' /\ Known \subseteq Known'
  <2>1. worker' = [worker EXCEPT ![w] = IdleWorker] /\ UNCHANGED <<closer, auditor>>
    BY <1>6 DEF WorkerGoes
  <2>2. worker' \in [Workers -> WorkerState] /\ WorkerOwned'
    BY <1>6, <1>i, <1>k, <2>1, WorkerReplaced DEF TypeOK
  <2>3. TypeOK'  BY <1>1, <1>6, <2>1, <2>2 DEF TypeOK
  <2> QED BY <1>6, <1>k, <2>1, <2>2, <2>3, AuditorOwnedKept
<1> QED BY <1>4, <1>5, <1>6 DEF Crash

\* Every step keeps the known ids known.
LEMMA KnownGrows == ASSUME Typing, [Next]_vars PROVE Typing' /\ Known \subseteq Known'
  BY TypingOther, TypingCloser, TypingAuditor, TypingWorker, TypingCrash DEF Next

\* Typing is inductive: every action of Next keeps it.
LEMMA TypingStep == Typing /\ [Next]_vars => Typing'
  BY KnownGrows

\* Every analysis id that is stored, or held by a pass, was issued for a bug.
THEOREM TypingInvariant == Spec => []Typing
  BY TypingInit, TypingStep, PTL DEF Spec

\* Documents and passes always have their type, whatever overlaps or fails.
THEOREM TypeCorrect == Spec => []TypeOK
<1>1. Typing => TypeOK  BY DEF Typing
<1> QED BY <1>1, TypingInvariant, PTL

-----------------------------------------------------------------------------
(***************************************************************************)
(* What the history variables keep: an analysis stays issued for its bug,  *)
(* an approval stays, and Chiron never forgets an update.                  *)
(***************************************************************************)

Remembers ==
  /\ \A a \in Known : owner'[a] = owner[a]
  /\ Known \subseteq Known'
  /\ approved \subseteq approved'
  /\ \A b \in Bugs : chiron[b] \subseteq chiron'[b]

\* updateChiron only adds to what Chiron has applied, whatever the answer.
LEMMA UpdateKeeps ==
  ASSUME Typing, NEW b \in Bugs, NEW status, chiron' \in {chiron, Updated(b, status)}
  PROVE  /\ \A x \in Bugs : chiron[x] \subseteq chiron'[x]
         /\ \A x \in Bugs : \A v : v \in chiron'[x] /\ v \notin chiron[x] => x = b /\ v = status
  BY DEF Typing, TypeOK, Updated

\* No step revokes an id or an approval, or undoes an update of Chiron.
LEMMA StepRemembers == ASSUME Typing, [Next]_vars PROVE Remembers
<1> USE DEF Typing
<1>g. Known \subseteq Known'  BY KnownGrows
<1>k. ASSUME owner' = owner, approved' = approved, chiron' = chiron  PROVE Remembers
  BY <1>g, <1>k DEF Remembers
<1>u. ASSUME owner' = owner, approved' = approved, NEW b \in Bugs, NEW v,
             chiron' \in {chiron, Updated(b, v)}
      PROVE  Remembers
  BY <1>g, <1>u, UpdateKeeps DEF Remembers
<1>1. CASE UNCHANGED vars  BY <1>1, <1>k DEF vars, store
<1>2. CASE \/ \E b \in Bugs : CreateJob(b) \/ JobDue(b)
           \/ \E a \in Ids : AuditDue(a)
  BY <1>2, <1>k DEF CreateJob, JobDue, AuditDue
<1>3. ASSUME NEW c \in Closers, CloserStart(c) \/ CloserStep(c)  PROVE Remembers
  <2>1. CASE \/ CloserStart(c) \/ CloserFetch(c) \/ CloserFetchThrows(c)
             \/ CloserReject(c) \/ CloserSave(c)
    BY <2>1, <1>k DEF CloserStart, CloserFetch, CloserFetchThrows, CloserReject,
       CloserChanges, CloserSave, store
  <2>2. CASE CloserTrigger(c) \/ CloserAnalyseThrows(c)
    <3>1. /\ approved' = approved /\ chiron' = chiron /\ closer[c].bug \in Bugs
          /\ (\E a \in Ids : Issues(closer[c].bug, a)) \/ Unheard(closer[c].bug)
      BY <2>2 DEF CloserTrigger, CloserAnalyseThrows, CloserChanges, CloserOwned
    <3>2. \A a \in Known : owner'[a] = owner[a]
      <4>1. ASSUME NEW x \in Ids, Issues(closer[c].bug, x)
            PROVE  \A a \in Known : owner'[a] = owner[a]
        BY <3>1, <4>1, IssuesFresh DEF Known
      <4> QED BY <3>1, <4>1, UnheardLost
    <3> QED BY <1>g, <3>1, <3>2 DEF Remembers
  <2>3. CASE CloserNotify(c)
    <3>1. closer[c].bug \in Bugs  BY <2>3 DEF CloserNotify, CloserOwned
    <3> QED BY <2>3, <3>1, <1>u DEF CloserNotify, UpdateChiron
  <2> QED BY <1>3, <2>1, <2>2, <2>3 DEF CloserStep
<1>4. ASSUME NEW s \in Auditors, AuditorStart(s) \/ AuditorStep(s)  PROVE Remembers
  <2>1. CASE AuditorClose(s)
    <3>1. PICK a \in auditor[s].ids : chiron' \in {chiron, Updated(owner[a], "SUCCESS")}
      BY <2>1 DEF AuditorClose, UpdateChiron
    <3>2. owner[a] \in Bugs  BY <3>1 DEF AuditorOwned, Known
    <3> QED BY <2>1, <3>1, <3>2, <1>u DEF AuditorClose
  <2>2. CASE ~AuditorClose(s)
    BY <1>4, <2>2, <1>k DEF AuditorStart, AuditorStep, AuditorRegister,
       AuditorRegisterThrows, AuditorCreate, AuditorSpawn, AuditorScan,
       AuditorFlag, store
  <2> QED BY <2>1, <2>2
<1>5. ASSUME NEW w \in Workers, WorkerStep(w)  PROVE Remembers
  <2>1. CASE WorkerClose(w) \/ WorkerGiveUp(w)
    <3>1. owner[worker[w].id] \in Bugs
      BY <2>1 DEF WorkerClose, WorkerGiveUp, WorkerOwned, Known
    <3> QED BY <2>1, <3>1, <1>u DEF WorkerClose, WorkerGiveUp, UpdateChiron
  <2>2. CASE WorkerApproves(w)
    <3>1. owner' = owner /\ chiron' = chiron /\ approved \subseteq approved'
      BY <2>2 DEF WorkerApproves, WorkerRecords
    <3> QED BY <1>g, <3>1 DEF Remembers
  <2>3. CASE WorkerFails(w) \/ WorkerPostpones(w)
    BY <2>3, <1>k DEF WorkerFails, WorkerPostpones, WorkerRecords
  <2>4. CASE WorkerAccept(w) \/ WorkerQueryThrows(w) \/ WorkerFlag(w) \/ WorkerSave(w)
    BY <2>4, <1>k DEF WorkerAccept, WorkerQueryThrows, WorkerFlag, WorkerSave, store
  <2> QED BY <1>5, <2>1, <2>2, <2>3, <2>4 DEF WorkerStep
<1>6. CASE Crash  BY <1>6, <1>k DEF Crash, store
<1> QED BY <1>1, <1>2, <1>3, <1>4, <1>5, <1>6 DEF Next

-----------------------------------------------------------------------------
\* Which actions may change a variable.
LEMMA Frame ==
  ASSUME [Next]_vars
  PROVE  /\ \/ jobs' = jobs
            \/ \E b \in Bugs : CreateJob(b) \/ JobDue(b)
            \/ \E c \in Closers : CloserSave(c)
            \/ \E w \in Workers : WorkerSave(w)
         /\ \/ audits' = audits
            \/ \E a \in Ids : AuditDue(a)
            \/ \E s \in Auditors : AuditorCreate(s) \/ AuditorFlag(s)
            \/ \E w \in Workers : \/ WorkerApproves(w) \/ WorkerFails(w)
                                  \/ WorkerPostpones(w) \/ WorkerFlag(w)
         /\ \/ approved' = approved
            \/ \E w \in Workers : WorkerApproves(w)
         /\ \/ chiron' = chiron
            \/ \E c \in Closers : CloserNotify(c)
            \/ \E s \in Auditors : AuditorClose(s)
            \/ \E w \in Workers : WorkerClose(w) \/ WorkerGiveUp(w)
         /\ \/ auditor' = auditor
            \/ \E s \in Auditors : AuditorStart(s) \/ AuditorStep(s)
            \/ \E s \in Auditors : AuditorGoes(s, IdleAuditor)
         /\ \/ worker' = worker
            \/ \E s \in Auditors : AuditorSpawn(s)
            \/ \E w \in Workers : WorkerStep(w) \/ WorkerGoes(w, IdleWorker)
<1>1. CASE UNCHANGED vars  BY <1>1 DEF vars, store
<1>2. CASE \/ \E b \in Bugs : CreateJob(b) \/ JobDue(b)
           \/ \E a \in Ids : AuditDue(a)
  BY <1>2 DEF CreateJob, JobDue, AuditDue
<1>3. CASE \E c \in Closers : CloserStart(c) \/ CloserStep(c)
  BY <1>3 DEF CloserStep, CloserStart, CloserFetch, CloserFetchThrows,
     CloserAnalyseThrows, CloserTrigger, CloserReject, CloserChanges,
     CloserSave, CloserNotify, CloserAborts, store
<1>4. CASE \E s \in Auditors : AuditorStart(s) \/ AuditorStep(s)
  BY <1>4 DEF AuditorStep, AuditorStart, AuditorRegister, AuditorRegisterThrows,
     AuditorCreate, AuditorSpawn, AuditorScan, AuditorClose, AuditorFlag, store
<1>5. CASE \E w \in Workers : WorkerStep(w)
  <2>1. PICK w \in Workers : WorkerStep(w)  BY <1>5
  <2>2. auditor' = auditor
    BY <2>1 DEF WorkerStep, WorkerAccept, WorkerApproves, WorkerFails,
       WorkerPostpones, WorkerQueryThrows, WorkerClose, WorkerFlag, WorkerGiveUp,
       WorkerSave, WorkerGoes, WorkerThrows, WorkerSyncs, UpdateChiron
  <2>3. CASE WorkerAccept(w) \/ WorkerQueryThrows(w)
    BY <2>1, <2>2, <2>3 DEF WorkerAccept, WorkerQueryThrows, store
  <2>4. CASE WorkerApproves(w) \/ WorkerFails(w) \/ WorkerPostpones(w)
    BY <2>1, <2>2, <2>4 DEF WorkerApproves, WorkerFails, WorkerPostpones, WorkerRecords
  <2>5. CASE \/ WorkerClose(w) \/ WorkerFlag(w) \/ WorkerGiveUp(w) \/ WorkerSave(w)
    BY <2>1, <2>2, <2>5 DEF WorkerClose, WorkerFlag, WorkerGiveUp, WorkerSave
  <2> QED BY <2>1, <2>3, <2>4, <2>5 DEF WorkerStep
<1>6. CASE Crash
  BY <1>6 DEF Crash, CloserAborts, AuditorGoes, WorkerGoes, store
<1> QED BY <1>1, <1>2, <1>3, <1>4, <1>5, <1>6 DEF Next

-----------------------------------------------------------------------------
(***************************************************************************)
(* A bug is closed only on approval.  The right to close travels from the  *)
(* answer of JN to the audit saved with SUCCESS, from there to the list an *)
(* auditor scanned, and to the worker at its call of Chiron; each of these *)
(* holders keeps it although the document may be overwritten meanwhile.    *)
(***************************************************************************)

SuccessApproved == \A a \in Ids : audits[a].status = "SUCCESS" => a \in approved
ScanApproved == \A s \in Auditors : auditor[s].ids \subseteq approved
CloseApproved == \A w \in Workers : worker[w].pc = "close" => worker[w].id \in approved

Approval ==
  /\ approved \subseteq Known
  /\ SuccessApproved
  /\ ScanApproved
  /\ CloseApproved
  /\ ClosedOnlyOnApproval

\* At first nothing is approved, and nothing is closed.
LEMMA ApprovalInit == Init => Approval
  BY DEF Init, Approval, SuccessApproved, ScanApproved, CloseApproved,
     ClosedOnlyOnApproval, NoAudit, NoStatus, IdleAuditor, IdleWorker

\* Approval is inductive: what leads to a closure was approved by JN.
LEMMA ApprovalStep == ASSUME Typing, Approval, [Next]_vars PROVE Approval'
<1> USE DEF Typing, Approval
<1>r. Remembers  BY StepRemembers
<1>t. TypeOK'  BY TypingStep
<1>1. (approved \subseteq Known)'
  <2>1. CASE approved' = approved  BY <1>r, <2>1 DEF Remembers
  <2>2. CASE \E w \in Workers : WorkerApproves(w)
    BY <1>r, <2>2 DEF WorkerApproves, WorkerRecords, WorkerOwned, Remembers
  <2> QED BY <2>1, <2>2, Frame
<1>2. SuccessApproved'
  <2>1. CASE audits' = audits  BY <1>r, <2>1 DEF SuccessApproved, Remembers
  <2>2. CASE \E a \in Ids : AuditDue(a)
    <3>1. \A x \in Ids : audits'[x].status = audits[x].status
      BY <2>2 DEF AuditDue, TypeOK, Audit
    <3> QED BY <1>r, <3>1 DEF SuccessApproved, Remembers
  <2>3. ASSUME NEW s \in Auditors, AuditorCreate(s)  PROVE SuccessApproved'
    <3>1. \A x \in Ids : audits'[x].status \in {audits[x].status, "INPROGRESS"}
      BY <2>3 DEF AuditorCreate, TypeOK, NoAudit
    <3> QED BY <1>r, <3>1 DEF SuccessApproved, Remembers
  <2>4. CASE \/ \E s \in Auditors : AuditorFlag(s)
             \/ \E w \in Workers : WorkerFlag(w)
    <3>1. PICK a : audits' = [audits EXCEPT ![a].closed = TRUE]
      BY <2>4 DEF AuditorFlag, WorkerFlag
    <3>2. \A x \in Ids : audits'[x].status = audits[x].status
      BY <3>1 DEF TypeOK, Audit
    <3> QED BY <1>r, <3>2 DEF SuccessApproved, Remembers
  <2>5. ASSUME NEW w \in Workers,
               WorkerApproves(w) \/ WorkerFails(w) \/ WorkerPostpones(w)
        PROVE  SuccessApproved'
    <3>1. PICK status \in JobStatus :
            /\ WorkerRecords(w, status)
            /\ status = "SUCCESS" => worker[w].id \in approved'
      BY <2>5 DEF WorkerApproves, WorkerFails, WorkerPostpones, JobStatus
    <3>2. worker[w].doc \in Audit  BY DEF TypeOK, WorkerState
    <3>3. \A x \in Ids : \/ audits'[x].status = audits[x].status
                         \/ x = worker[w].id /\ audits'[x].status = status
      BY <3>1, <3>2 DEF WorkerRecords, TypeOK, Audit
    <3> QED BY <1>r, <3>1, <3>3 DEF SuccessApproved, Remembers
  <2> QED BY <2>1, <2>2, <2>3, <2>4, <2>5, Frame
<1>3. ScanApproved'
  <2>k. ASSUME NEW s \in Auditors, NEW r, r.ids \subseteq approved,
               auditor' = [auditor EXCEPT ![s] = r]
        PROVE  ScanApproved'
    BY <1>r, <2>k DEF ScanApproved, Remembers, TypeOK
  <2>c. ASSUME NEW ids \in SUBSET Ids, NEW s \in Auditors, ids \subseteq approved,
               auditor' = [auditor EXCEPT ![s] = Closing(ids)]
        PROVE  ScanApproved'
    <3>1. Closing(ids).ids = ids  BY ClosingTyped
    <3> QED BY <2>c, <2>k, <3>1
  <2>i. IdleAuditor.ids = {}  BY DEF IdleAuditor
  <2>1. CASE auditor' = auditor  BY <1>r, <2>1 DEF ScanApproved, Remembers
  <2>2. CASE \E s \in Auditors : AuditorGoes(s, IdleAuditor)
    BY <2>2, <2>k, <2>i DEF AuditorGoes
  <2>3. ASSUME NEW s \in Auditors, AuditorStart(s) \/ AuditorRegisterThrows(s)
        PROVE  ScanApproved'
    <3> DEFINE js == {<<b, jobs[b].last>> : b \in {x \in Bugs : jobs[x].status = "INPROGRESS"}}
               r == [IdleAuditor EXCEPT !.pc = "register", !.jobs = js]
    <3>1. \/ auditor' = [auditor EXCEPT ![s] = r]
          \/ auditor' = [auditor EXCEPT ![s] = IdleAuditor]
      BY <2>3 DEF AuditorStart, AuditorRegisterThrows, AuditorGoes
    <3> HIDE DEF js
    <3>2. r.ids = {}  BY DEF IdleAuditor
    <3> HIDE DEF r
    <3> QED BY <2>k, <2>i, <3>1, <3>2
  <2>4. ASSUME NEW s \in Auditors,
               AuditorRegister(s) \/ AuditorCreate(s) \/ AuditorSpawn(s)
        PROVE  ScanApproved'
    <3>0. auditor \in [Auditors -> AuditorState] /\ auditor[s] \in AuditorState
      BY DEF TypeOK
    <3>b. ASSUME AuditorRegister(s)  PROVE auditor'[s].ids = auditor[s].ids
      <4>1. CASE auditor' = [auditor EXCEPT ![s] = [auditor[s] EXCEPT !.pc = "spawn"]]
        BY <3>0, <4>1 DEF AuditorState
      <4>2. ASSUME NEW j, NEW pc, NEW job,
                   auditor' = [auditor EXCEPT ![s] =
                     [auditor[s] EXCEPT !.jobs = @ \ {j}, !.pc = pc, !.job = job]]
            PROVE  auditor'[s].ids = auditor[s].ids
        BY <3>0, <4>2 DEF AuditorState
      <4>3. ASSUME NEW j \in auditor[s].jobs,
                   AuditorGoes(s, [auditor[s] EXCEPT
                     !.jobs = @ \ {j},
                     !.pc = IF audits[j[2]].status = NoStatus THEN "create" ELSE @,
                     !.job = IF audits[j[2]].status = NoStatus THEN j ELSE @])
            PROVE  auditor'[s].ids = auditor[s].ids
        BY <4>2, <4>3 DEF AuditorGoes
      <4> QED BY <3>b, <4>1, <4>3 DEF AuditorRegister, AuditorGoes
    <3>c. ASSUME AuditorCreate(s)  PROVE auditor'[s].ids = auditor[s].ids
      BY <3>0, <3>c DEF AuditorCreate, AuditorGoes, AuditorState
    <3>d. ASSUME AuditorSpawn(s)  PROVE auditor'[s].ids = auditor[s].ids
      BY <3>0, <3>d DEF AuditorSpawn, AuditorGoes, AuditorState
    <3>1. auditor'[s].ids = auditor[s].ids
      BY <2>4, <3>b, <3>c, <3>d
    <3>2. \A x \in Auditors \ {s} : auditor'[x] = auditor[x]
      BY <2>4, <3>0 DEF AuditorRegister, AuditorCreate, AuditorSpawn, AuditorGoes
    <3> QED BY <1>r, <3>1, <3>2 DEF ScanApproved, Remembers
  <2>5. ASSUME NEW s \in Auditors, AuditorScan(s)  PROVE ScanApproved'
    <3>1. Unclosed \in SUBSET Ids /\ Unclosed \subseteq approved
      BY DEF Unclosed, SuccessApproved
    <3> QED BY <2>5, <2>c, <3>1 DEF AuditorScan, AuditorGoes
  <2>6. ASSUME NEW s \in Auditors, AuditorClose(s)  PROVE ScanApproved'
    <3>1. PICK rest \in SUBSET auditor[s].ids :
            \/ auditor' = [auditor EXCEPT ![s] = Closing(rest)]
            \/ \E r : auditor' = [auditor EXCEPT ![s] = r] /\ r.ids \subseteq rest
      BY <2>6 DEF AuditorClose, UpdateChiron, AuditorGoes, IdleAuditor
    <3>2. rest \in SUBSET Ids /\ rest \subseteq approved
      BY DEF ScanApproved, TypeOK, AuditorState
    <3> QED BY <2>c, <2>k, <3>1, <3>2
  <2>7. ASSUME NEW s \in Auditors, AuditorFlag(s)  PROVE ScanApproved'
    <3>1. auditor[s].ids \in SUBSET Ids /\ auditor[s].ids \subseteq approved
      BY DEF ScanApproved, TypeOK, AuditorState
    <3> QED BY <2>7, <2>c, <3>1 DEF AuditorFlag, AuditorGoes
  <2> QED BY <2>1, <2>2, <2>3, <2>4, <2>5, <2>6, <2>7, Frame DEF AuditorStep
<1>4. CloseApproved'
  <2>k. ASSUME NEW w \in Workers, NEW r, worker' = [worker EXCEPT ![w] = r],
               r.pc = "close" => r.id \in approved'
        PROVE  CloseApproved'
    BY <1>r, <2>k DEF CloseApproved, Remembers, TypeOK
  <2>1. CASE worker' = worker  BY <1>r, <2>1 DEF CloseApproved, Remembers
  <2>2. ASSUME NEW s \in Auditors, AuditorSpawn(s)  PROVE CloseApproved'
    <3>0. worker \in [Workers -> WorkerState]  BY DEF TypeOK
    <3>a. \/ worker' = worker
          \/ \E v \in Workers :
               worker' = [worker EXCEPT ![v] =
                     [@ EXCEPT !.pc = "accept", !.todo = WaitingAudits]]
      BY <2>2 DEF AuditorSpawn
    <3>1. \A w \in Workers : \/ worker'[w] = worker[w]
                             \/ worker'[w].pc = "accept"
      BY <3>0, <3>a DEF WorkerState
    <3> QED BY <1>r, <3>1 DEF CloseApproved, Remembers
  <2>3. ASSUME NEW w \in Workers, WorkerApproves(w)  PROVE CloseApproved'
    <3>1. worker[w].id \in approved'  BY <2>3 DEF WorkerApproves
    <3> DEFINE r == [worker[w] EXCEPT !.pc = "close", !.doc = NoAudit,
                                      !.job = [worker[w].job EXCEPT !.status = "SUCCESS"]]
    <3>2. worker' = [worker EXCEPT ![w] = r]
      BY <2>3 DEF WorkerApproves, WorkerSyncs, WorkerGoes
    <3>3. r.id = worker[w].id  BY DEF TypeOK, WorkerState
    <3> HIDE DEF r
    <3> QED BY <2>k, <3>1, <3>2, <3>3
  <2>4. ASSUME NEW w \in Workers,
               \/ WorkerStep(w) /\ ~WorkerApproves(w)
               \/ WorkerGoes(w, IdleWorker)
        PROVE  CloseApproved'
    <3>0. worker \in [Workers -> WorkerState] /\ worker[w] \in WorkerState
      BY DEF TypeOK
    <3>r. ASSUME NEW todo, worker' = [worker EXCEPT ![w] = Remaining(todo)]
          PROVE  CloseApproved'
      <4>1. Remaining(todo).pc # "close"  BY DEF Remaining, IdleWorker
      <4> QED BY <2>k, <3>r, <4>1
    <3>p. ASSUME NEW pc \in {"flag", "save"},
                 worker' = [worker EXCEPT ![w] = [worker[w] EXCEPT !.pc = pc]]
          PROVE  CloseApproved'
      <4>1. [worker[w] EXCEPT !.pc = pc].pc # "close"  BY <3>0 DEF WorkerState
      <4> QED BY <2>k, <3>p, <4>1
    <3>y. ASSUME NEW pc \in {"giveup", "save"}, NEW job, WorkerSyncs(w, pc, job)
          PROVE  CloseApproved'
      <4> DEFINE r == [worker[w] EXCEPT !.pc = pc, !.doc = NoAudit, !.job = job]
      <4>1. worker' = [worker EXCEPT ![w] = r]  BY <3>y DEF WorkerSyncs, WorkerGoes
      <4>2. r.pc # "close"  BY <3>0 DEF WorkerState
      <4> HIDE DEF r
      <4> QED BY <2>k, <4>1, <4>2
    <3>1. CASE WorkerAccept(w)
      <4>1. PICK e \in worker[w].todo : WorkerGoes(w,
              [pc |-> "query", todo |-> worker[w].todo \ {e}, id |-> e.id,
               doc |-> e.doc, job |-> jobs[owner[e.id]]])
        BY <3>1 DEF WorkerAccept
      <4> QED BY <2>k, <4>1 DEF WorkerGoes
    <3>2. CASE WorkerFails(w)  BY <3>2, <3>y DEF WorkerFails
    <3>3. CASE WorkerPostpones(w) \/ WorkerQueryThrows(w) \/ WorkerSave(w)
      BY <3>3, <3>r DEF WorkerPostpones, WorkerQueryThrows, WorkerSave,
         WorkerThrows, WorkerGoes
    <3>4. CASE WorkerClose(w) \/ WorkerGiveUp(w) \/ WorkerFlag(w)
      BY <3>4, <3>p, <3>r DEF WorkerClose, WorkerGiveUp, WorkerFlag, UpdateChiron,
         WorkerThrows, WorkerGoes
    <3>5. CASE WorkerGoes(w, IdleWorker)
      BY <3>5, <2>k DEF WorkerGoes, IdleWorker
    <3> QED BY <2>4, <3>1, <3>2, <3>3, <3>4, <3>5 DEF WorkerStep
  <2> QED BY <2>1, <2>2, <2>3, <2>4, Frame
<1>5. ClosedOnlyOnApproval'
  <2>k. ASSUME \A b \in Bugs : "SUCCESS" \in chiron'[b] /\ "SUCCESS" \notin chiron[b]
                             => \E a \in approved : owner[a] = b
        PROVE  ClosedOnlyOnApproval'
    <3>1. \A b \in Bugs : "SUCCESS" \in chiron'[b] => \E a \in approved : owner[a] = b
      BY <2>k DEF ClosedOnlyOnApproval
    <3> QED BY <1>r, <3>1 DEF ClosedOnlyOnApproval, Remembers
  <2>1. CASE chiron' = chiron  BY <2>k, <2>1
  <2>2. ASSUME NEW c \in Closers, CloserNotify(c)  PROVE ClosedOnlyOnApproval'
    <3>1. /\ closer[c].bug \in Bugs /\ closer[c].job.status # "SUCCESS"
          /\ chiron' \in {chiron, Updated(closer[c].bug, closer[c].job.status)}
      BY <2>2 DEF CloserNotify, UpdateChiron, CloserOwned
    <3> QED BY <2>k, <3>1, UpdateKeeps
  <2>3. ASSUME NEW s \in Auditors, AuditorClose(s)  PROVE ClosedOnlyOnApproval'
    <3>1. PICK a \in auditor[s].ids : chiron' \in {chiron, Updated(owner[a], "SUCCESS")}
      BY <2>3 DEF AuditorClose, UpdateChiron
    <3>2. a \in approved /\ owner[a] \in Bugs  BY DEF ScanApproved, Known
    <3> QED BY <2>k, <3>1, <3>2, UpdateKeeps
  <2>4. ASSUME NEW w \in Workers, WorkerClose(w)  PROVE ClosedOnlyOnApproval'
    <3>1. /\ worker[w].id \in approved
          /\ chiron' \in {chiron, Updated(owner[worker[w].id], "SUCCESS")}
      BY <2>4 DEF WorkerClose, UpdateChiron, CloseApproved
    <3>2. owner[worker[w].id] \in Bugs  BY <3>1 DEF Known
    <3> QED BY <2>k, <3>1, <3>2, UpdateKeeps
  <2>5. ASSUME NEW w \in Workers, WorkerGiveUp(w)  PROVE ClosedOnlyOnApproval'
    <3>1. /\ owner[worker[w].id] \in Bugs
          /\ chiron' \in {chiron, Updated(owner[worker[w].id], "FAILURE")}
      BY <2>5 DEF WorkerGiveUp, UpdateChiron, WorkerOwned, Known
    <3> QED BY <2>k, <3>1, UpdateKeeps
  <2> QED BY <2>1, <2>2, <2>3, <2>4, <2>5, Frame
<1> QED BY <1>1, <1>2, <1>3, <1>4, <1>5

\* A bug is closed in Chiron only after JN cleared an analysis of that bug, for
\* any number of overlapping passes, with at most one worker at a time on a
\* node, and whatever fails.
THEOREM ClosureApproved == Spec => []ClosedOnlyOnApproval
<1>1. Typing /\ Approval /\ [Next]_vars => Approval'  BY ApprovalStep
<1>2. Spec => []Approval  BY ApprovalInit, TypingInvariant, <1>1, PTL DEF Spec
<1>3. Approval => ClosedOnlyOnApproval  BY DEF Approval
<1> QED BY <1>2, <1>3, PTL
-----------------------------------------------------------------------------
(***************************************************************************)
(* What a step does to a worker, as far as the theorems below need it.     *)
(***************************************************************************)

Moved(w, r) ==
  /\ r.pc = "flag" => /\ r.id = worker[w].id /\ worker[w].pc = "close"
                      /\ chiron' = Updated(owner[worker[w].id], "SUCCESS")
  /\ r.doc.closed => \/ r.id = worker[w].id /\ worker[w].doc.closed
                     \/ \E e \in worker[w].todo : r.id = e.id /\ e.doc.closed
  /\ r.todo \subseteq worker[w].todo
  /\ \/ r.job \in {NoJob, worker[w].job}
     \/ \E e \in worker[w].todo : r.job = jobs[owner[e.id]]
     \/ r.job.status \in Resolved
     \/ r.job.status = "READY" /\ r.job.retryCount < RetryCount

\* At the end of an audit nothing but the list is left.
LEMMA RemainingMoved ==
  ASSUME NEW w, NEW todo \in {{}, worker[w].todo}
  PROVE  Moved(w, Remaining(todo))
<1> DEFINE r == [IdleWorker EXCEPT !.pc = "accept", !.todo = todo]
<1>1. r.pc = "accept" /\ r.doc = NoAudit /\ r.job = NoJob /\ r.todo = todo
  BY DEF IdleWorker
<1>2. /\ IdleWorker.pc = "idle" /\ IdleWorker.doc = NoAudit
      /\ IdleWorker.job = NoJob /\ IdleWorker.todo = {}
  BY DEF IdleWorker
<1> HIDE DEF r
<1>3. Remaining(todo) = IF todo = {} THEN IdleWorker ELSE r  BY DEF Remaining, r
<1>4. /\ Remaining(todo).pc # "flag" /\ Remaining(todo).doc = NoAudit
      /\ Remaining(todo).job = NoJob /\ Remaining(todo).todo \subseteq worker[w].todo
  BY <1>1, <1>2, <1>3
<1>5. ~NoAudit.closed  BY DEF NoAudit
<1> QED BY <1>4, <1>5 DEF Moved

\* A worker flags only a bug that Chiron has just closed, knows an audit to be
\* closed only from what it was given, and makes a job wait again only below
\* the retry count.
LEMMA WorkerMoves ==
  ASSUME Typing, NEW w \in Workers, WorkerStep(w) \/ WorkerGoes(w, IdleWorker)
  PROVE  \E r : worker' = [worker EXCEPT ![w] = r] /\ Moved(w, r)
<1> DEFINE W == worker[w]
<1> USE DEF Typing
<1>0. W \in WorkerState /\ W.job \in Job  BY DEF TypeOK, WorkerState
<1>a. ~NoAudit.closed  BY DEF NoAudit
\* The steps that end with the audit at hand.
<1>r. ASSUME NEW todo \in {{}, W.todo}, worker' = [worker EXCEPT ![w] = Remaining(todo)]
      PROVE  \E r : worker' = [worker EXCEPT ![w] = r] /\ Moved(w, r)
  BY <1>r, RemainingMoved
\* The steps after a verdict.
<1>y. ASSUME NEW pc \in {"close", "giveup", "save"}, NEW job,
             \/ job.status \in Resolved
             \/ job.status = "READY" /\ job.retryCount < RetryCount,
             WorkerSyncs(w, pc, job)
      PROVE  \E r : worker' = [worker EXCEPT ![w] = r] /\ Moved(w, r)
  <2> DEFINE r == [W EXCEPT !.pc = pc, !.doc = NoAudit, !.job = job]
  <2>1. worker' = [worker EXCEPT ![w] = r]  BY <1>y DEF WorkerSyncs, WorkerGoes
  <2>2. r.pc # "flag" /\ r.doc = NoAudit /\ r.job = job /\ r.todo = W.todo
    BY <1>0 DEF WorkerState
  <2> HIDE DEF r
  <2>3. Moved(w, r)  BY <1>a, <1>y, <2>2 DEF Moved
  <2> QED BY <2>1, <2>3
\* The steps that only go on.
<1>p. ASSUME NEW pc \in {"flag", "save"},
             worker' = [worker EXCEPT ![w] = [W EXCEPT !.pc = pc]],
             pc = "flag" => /\ chiron' = Updated(owner[W.id], "SUCCESS")
                            /\ W.pc = "close"
      PROVE  \E r : worker' = [worker EXCEPT ![w] = r] /\ Moved(w, r)
  <2> DEFINE r == [W EXCEPT !.pc = pc]
  <2>1. worker' = [worker EXCEPT ![w] = r]  BY <1>p
  <2>2. /\ r.pc = pc /\ r.id = W.id /\ r.doc = W.doc /\ r.job = W.job
        /\ r.todo = W.todo
    BY <1>0 DEF WorkerState
  <2> HIDE DEF r
  <2>3. Moved(w, r)  BY <1>p, <2>2 DEF Moved
  <2> QED BY <2>1, <2>3
<1>1. CASE WorkerAccept(w)
  <2>1. PICK e \in W.todo : worker' = [worker EXCEPT ![w] =
          [pc |-> "query", todo |-> W.todo \ {e}, id |-> e.id, doc |-> e.doc,
           job |-> jobs[owner[e.id]]]]
    BY <1>1 DEF WorkerAccept, WorkerGoes
  <2> DEFINE r == [pc |-> "query", todo |-> W.todo \ {e}, id |-> e.id,
                   doc |-> e.doc, job |-> jobs[owner[e.id]]]
  <2>2. /\ r.pc # "flag" /\ r.id = e.id /\ r.doc = e.doc
        /\ r.job = jobs[owner[e.id]] /\ r.todo \subseteq W.todo
    OBVIOUS
  <2>3. worker' = [worker EXCEPT ![w] = r]  BY <2>1
  <2> HIDE DEF r
  <2>4. Moved(w, r)  BY <2>1, <2>2 DEF Moved
  <2> QED BY <2>3, <2>4
<1>2. CASE WorkerApproves(w)
  <2> DEFINE job == [W.job EXCEPT !.status = "SUCCESS"]
  <2>1. job.status \in Resolved  BY <1>0 DEF Job, Resolved
  <2>2. WorkerSyncs(w, "close", job)  BY <1>2 DEF WorkerApproves
  <2> HIDE DEF job
  <2> QED BY <1>y, <2>1, <2>2
<1>3. CASE WorkerFails(w) /\ W.job.retryCount >= RetryCount
  <2> DEFINE job == [W.job EXCEPT !.status = "FAILURE"]
  <2>1. job.status \in Resolved  BY <1>0 DEF Job, Resolved
  <2>2. WorkerSyncs(w, "giveup", job)  BY <1>3 DEF WorkerFails
  <2> HIDE DEF job
  <2> QED BY <1>y, <2>1, <2>2
<1>4. CASE WorkerFails(w) /\ ~(W.job.retryCount >= RetryCount)
  <2> DEFINE job == [W.job EXCEPT !.status = "READY", !.due = FALSE]
  <2>1. job.status = "READY" /\ job.retryCount = W.job.retryCount  BY <1>0 DEF Job
  <2>2. WorkerSyncs(w, "save", job)  BY <1>4 DEF WorkerFails
  <2>3. W.job.retryCount < RetryCount  BY <1>0, <1>4, RetryAssumption DEF Job
  <2> HIDE DEF job
  <2> QED BY <1>y, <2>1, <2>2, <2>3
<1>5. CASE WorkerPostpones(w) \/ WorkerQueryThrows(w) \/ WorkerSave(w)
  BY <1>5, <1>r DEF WorkerPostpones, WorkerQueryThrows, WorkerSave, WorkerThrows, WorkerGoes
<1>6. CASE WorkerClose(w)
  <2>1. \/ /\ worker' = [worker EXCEPT ![w] = [W EXCEPT !.pc = "flag"]]
           /\ chiron' = Updated(owner[W.id], "SUCCESS") /\ W.pc = "close"
        \/ worker' = [worker EXCEPT ![w] = [W EXCEPT !.pc = "save"]]
        \/ \E todo \in {{}, W.todo} : worker' = [worker EXCEPT ![w] = Remaining(todo)]
    BY <1>6 DEF WorkerClose, UpdateChiron, WorkerThrows, WorkerGoes
  <2> QED BY <1>p, <1>r, <2>1
<1>7. CASE WorkerFlag(w)
  BY <1>7, <1>p DEF WorkerFlag, WorkerGoes
<1>8. CASE WorkerGiveUp(w)
  <2>1. \/ worker' = [worker EXCEPT ![w] = [W EXCEPT !.pc = "save"]]
        \/ \E todo \in {{}, W.todo} : worker' = [worker EXCEPT ![w] = Remaining(todo)]
    BY <1>8 DEF WorkerGiveUp, UpdateChiron, WorkerThrows, WorkerGoes
  <2> QED BY <1>p, <1>r, <2>1
<1>9. CASE WorkerGoes(w, IdleWorker)
  <2>1. Remaining({}) = IdleWorker  BY DEF Remaining
  <2> QED BY <1>9, <1>r, <2>1 DEF WorkerGoes
<1> QED BY <1>1, <1>2, <1>3, <1>4, <1>5, <1>6, <1>7, <1>8, <1>9 DEF WorkerStep
-----------------------------------------------------------------------------
(***************************************************************************)
(* No job is stranded.  A job that does not exist has no attempts, and a   *)
(* worker makes one wait again only below the retry count; a worker may    *)
(* hold an older copy of the job, which fits as well.                      *)
(***************************************************************************)

Fits(job) ==
  /\ job.status = "READY" => job.retryCount < PickLimit
  /\ job.status = NoStatus => job.retryCount = 0

Pickables ==
  /\ \A b \in Bugs : Fits(jobs[b])
  /\ \A w \in Workers : Fits(worker[w].job)

\* The configuration: an attempt below the retry count is below the limit.
LEMMA BelowLimit ==
  ASSUME NEW n \in Nat, n < RetryCount
  PROVE  n < PickLimit
  BY RetryAssumption, LimitAssumption

\* At first there are no jobs.
LEMMA PickablesInit == Init => Pickables
  BY DEF Init, Pickables, Fits, NoJob, NoStatus, IdleWorker

\* Every job that is stored, or held by a worker, can be picked when it waits.
LEMMA PickablesStep == ASSUME Typing, Pickables, [Next]_vars PROVE Pickables'
<1> USE DEF Typing
<1>j. jobs \in [Bugs -> Job] /\ worker \in [Workers -> WorkerState]  BY DEF TypeOK
<1>n. Fits(NoJob)  BY DEF Fits, NoJob, NoStatus
<1>1. \A b \in Bugs : Fits(jobs'[b])
  <2>k. ASSUME NEW x \in Bugs, NEW job, Fits(job), jobs' = [jobs EXCEPT ![x] = job]
        PROVE  \A b \in Bugs : Fits(jobs'[b])
    BY <1>j, <2>k DEF Pickables
  <2>1. CASE jobs' = jobs  BY <2>1 DEF Pickables
  <2>2. ASSUME NEW b \in Bugs, CreateJob(b)  PROVE \A x \in Bugs : Fits(jobs'[x])
    <3> DEFINE job == [jobs[b] EXCEPT !.status = "READY"]
    <3>1. jobs[b].status = NoStatus /\ jobs' = [jobs EXCEPT ![b] = job]
      BY <1>j, <2>2 DEF CreateJob
    <3>2. job.status = "READY" /\ job.retryCount = 0
      BY <1>j, <3>1 DEF Pickables, Fits, Job
    <3>3. 0 < PickLimit  BY BelowLimit, RetryAssumption
    <3> HIDE DEF job
    <3>4. Fits(job)  BY <3>2, <3>3 DEF Fits, NoStatus
    <3> QED BY <2>k, <3>1, <3>4
  <2>3. ASSUME NEW b \in Bugs, JobDue(b)  PROVE \A x \in Bugs : Fits(jobs'[x])
    <3> DEFINE job == [jobs[b] EXCEPT !.due = TRUE]
    <3>1. jobs' = [jobs EXCEPT ![b] = job]  BY <1>j, <2>3 DEF JobDue
    <3>2. job.status = jobs[b].status /\ job.retryCount = jobs[b].retryCount
      BY <1>j DEF Job
    <3> HIDE DEF job
    <3>3. Fits(job)  BY <3>2 DEF Pickables, Fits
    <3> QED BY <2>k, <3>1, <3>3
  <2>4. ASSUME NEW c \in Closers, CloserSave(c)
        PROVE  \A b \in Bugs : Fits(jobs'[b])
    <3>1. /\ closer[c].bug \in Bugs /\ closer[c].job.status \in {"INPROGRESS", "FAILURE"}
          /\ jobs' = [jobs EXCEPT ![closer[c].bug] = closer[c].job]
      BY <2>4 DEF CloserSave, CloserOwned
    <3>2. Fits(closer[c].job)  BY <3>1 DEF Fits, NoStatus
    <3> QED BY <2>k, <3>1, <3>2
  <2>5. ASSUME NEW w \in Workers, WorkerSave(w)  PROVE \A b \in Bugs : Fits(jobs'[b])
    <3>1. /\ owner[worker[w].id] \in Bugs
          /\ jobs' = [jobs EXCEPT ![owner[worker[w].id]] = worker[w].job]
      BY <2>5 DEF WorkerSave, WorkerOwned, Known
    <3>2. Fits(worker[w].job)  BY DEF Pickables
    <3> QED BY <2>k, <3>1, <3>2
  <2> QED BY <2>1, <2>2, <2>3, <2>4, <2>5, Frame
<1>2. \A w \in Workers : Fits(worker'[w].job)
  <2>1. CASE worker' = worker  BY <2>1 DEF Pickables
  <2>2. ASSUME NEW s \in Auditors, AuditorSpawn(s)
        PROVE  \A w \in Workers : Fits(worker'[w].job)
    <3>a. \/ worker' = worker
          \/ \E v \in Workers :
               worker' = [worker EXCEPT ![v] =
                     [@ EXCEPT !.pc = "accept", !.todo = WaitingAudits]]
      BY <2>2 DEF AuditorSpawn
    <3>1. ASSUME NEW v \in Workers,
                 worker' = [worker EXCEPT ![v] =
                       [@ EXCEPT !.pc = "accept", !.todo = WaitingAudits]]
          PROVE  \A w \in Workers : worker'[w].job = worker[w].job
      <4>1. \A w \in Workers \ {v} : worker'[w] = worker[w]  BY <1>j, <3>1
      <4>2. worker'[v].job = worker[v].job  BY <1>j, <3>1 DEF WorkerState
      <4> QED BY <4>1, <4>2
    <3> QED BY <3>a, <3>1 DEF Pickables
  <2>3. ASSUME NEW w \in Workers, WorkerStep(w) \/ WorkerGoes(w, IdleWorker)
        PROVE  \A v \in Workers : Fits(worker'[v].job)
    <3>1. PICK r : worker' = [worker EXCEPT ![w] = r] /\ Moved(w, r)
      BY <2>3, WorkerMoves
    <3>2. \A e \in worker[w].todo : owner[e.id] \in Bugs
      BY DEF WorkerOwned, Known
    <3>3. CASE r.job.status = "READY" /\ r.job.retryCount < RetryCount
      <4>1. worker' \in [Workers -> WorkerState]  BY TypingStep DEF TypeOK
      <4>2. r.job.retryCount \in Nat
        BY <1>j, <3>1, <4>1 DEF WorkerState, Job
      <4>3. Fits(r.job)  BY <3>3, <4>2, BelowLimit DEF Fits, NoStatus
      <4> QED BY <1>j, <3>1, <4>3 DEF Pickables
    <3>4. CASE r.job.status \in Resolved
      <4>1. Fits(r.job)  BY <3>4 DEF Fits, Resolved, NoStatus
      <4> QED BY <1>j, <3>1, <4>1 DEF Pickables
    <3>5. CASE \/ r.job \in {NoJob, worker[w].job}
               \/ \E e \in worker[w].todo : r.job = jobs[owner[e.id]]
      <4>1. Fits(r.job)  BY <1>n, <3>2, <3>5 DEF Pickables
      <4> QED BY <1>j, <3>1, <4>1 DEF Pickables
    <3> QED BY <3>1, <3>3, <3>4, <3>5 DEF Moved
  <2> QED BY <2>1, <2>2, <2>3, Frame
<1> QED BY <1>1, <1>2 DEF Pickables

\* A job that waits for a closer is one the query of the closer selects once
\* its interval is over, although closers and workers of different nodes save
\* each other's jobs over and stop anywhere.
THEOREM NoJobStranded == Spec => []NoStrandedJob
<1>1. Typing /\ Pickables /\ [Next]_vars => Pickables'  BY PickablesStep
<1>2. Spec => []Pickables  BY PickablesInit, TypingInvariant, <1>1, PTL DEF Spec
<1>3. Pickables => NoStrandedJob  BY DEF Pickables, Fits, NoStrandedJob
<1> QED BY <1>2, <1>3, PTL
-----------------------------------------------------------------------------
(***************************************************************************)
(* isClosedByChiron is true only of closed bugs.  The knowledge that the   *)
(* bug of an audit is closed is in the audits, with an auditor or a worker *)
(* about to set the flag, and in the copies of audits that workers save.   *)
(***************************************************************************)

Shut == {a \in Known : "SUCCESS" \in chiron[owner[a]]}

Carries(r, S) ==
  /\ r.pc = "flag" => r.id \in S
  /\ r.doc.closed => r.id \in S
  /\ \A e \in r.todo : e.doc.closed => e.id \in S

Flags ==
  /\ \A a \in Ids : audits[a].closed => a \in Shut
  /\ \A s \in Auditors : auditor[s].pc = "flag" => auditor[s].id \in Shut
  /\ \A w \in Workers : Carries(worker[w], Shut)

\* At first nothing is known to be closed.
LEMMA FlagsInit == Init => Flags
  BY DEF Init, Flags, Carries, NoAudit, IdleAuditor, IdleWorker

\* Chiron never opens a bug again.
LEMMA ShutKept == ASSUME Typing, Remembers PROVE Shut \subseteq Shut'
  BY DEF Typing, Remembers, Shut, Known

\* A bug is in Shut once it is closed for one of its analyses.
LEMMA ShutAfter ==
  ASSUME Typing, [Next]_vars, NEW a \in Known, owner' = owner,
         chiron' = Updated(owner[a], "SUCCESS")
  PROVE  a \in Shut'
<1>1. a \in Known'  BY KnownGrows
<1>2. "SUCCESS" \in chiron'[owner[a]]  BY DEF Typing, TypeOK, Updated, Known
<1> QED BY <1>1, <1>2 DEF Shut

\* Whoever holds an audit as closed, or is about to flag it, has a closed bug.
LEMMA FlagsStep == ASSUME Typing, Flags, [Next]_vars PROVE Flags'
<1> USE DEF Typing
<1>j. /\ audits \in [Ids -> Audit] /\ worker \in [Workers -> WorkerState]
      /\ auditor \in [Auditors -> AuditorState]
  BY DEF TypeOK
<1>s. Shut \subseteq Shut'  BY StepRemembers, ShutKept
<1>1. \A a \in Ids : audits'[a].closed => a \in Shut'
  <2>k. ASSUME NEW x \in Ids, NEW doc, doc.closed => x \in Shut',
               audits' = [audits EXCEPT ![x] = doc]
        PROVE  \A a \in Ids : audits'[a].closed => a \in Shut'
    BY <1>j, <1>s, <2>k DEF Flags
  <2>1. CASE audits' = audits  BY <1>s, <2>1 DEF Flags
  <2>2. ASSUME NEW x \in Ids, AuditDue(x)
        PROVE  \A a \in Ids : audits'[a].closed => a \in Shut'
    <3>1. \A a \in Ids : audits'[a].closed = audits[a].closed
      BY <1>j, <2>2 DEF AuditDue, Audit
    <3> QED BY <1>s, <3>1 DEF Flags
  <2>3. ASSUME NEW s \in Auditors, AuditorCreate(s)
        PROVE  \A a \in Ids : audits'[a].closed => a \in Shut'
    <3> DEFINE doc == [NoAudit EXCEPT !.status = "INPROGRESS"]
    <3>1. auditor[s].job[2] \in Ids /\ audits' = [audits EXCEPT ![auditor[s].job[2]] = doc]
      BY <2>3 DEF AuditorCreate, AuditorOwned, Known
    <3>2. ~doc.closed  BY DEF NoAudit
    <3> HIDE DEF doc
    <3> QED BY <2>k, <3>1, <3>2
  <2>4. ASSUME NEW x \in Shut, audits' = [audits EXCEPT ![x].closed = TRUE]
        PROVE  \A a \in Ids : audits'[a].closed => a \in Shut'
    <3>1. x \in Ids  BY DEF Shut, Known
    <3>2. audits' = [audits EXCEPT ![x] = [audits[x] EXCEPT !.closed = TRUE]]
      BY <2>4, <3>1, <1>j
    <3> QED BY <1>s, <2>k, <3>1, <3>2
  <2>5. CASE \/ \E s \in Auditors : AuditorFlag(s)
             \/ \E w \in Workers : WorkerFlag(w)
    BY <2>4, <2>5 DEF AuditorFlag, WorkerFlag, Flags, Carries
  <2>6. ASSUME NEW w \in Workers,
               WorkerApproves(w) \/ WorkerFails(w) \/ WorkerPostpones(w)
        PROVE  \A a \in Ids : audits'[a].closed => a \in Shut'
    <3>1. PICK status \in JobStatus : WorkerRecords(w, status)
      BY <2>6 DEF WorkerApproves, WorkerFails, WorkerPostpones, JobStatus
    <3> DEFINE n == worker[w].doc.responses + 1
               due == IF status = "INPROGRESS" THEN FALSE ELSE worker[w].doc.due
               doc == [worker[w].doc EXCEPT !.status = status, !.responses = n, !.due = due]
    <3>2. worker[w].pc = "query" /\ audits' = [audits EXCEPT ![worker[w].id] = doc]
      BY <3>1 DEF WorkerRecords
    <3>3. worker[w].id \in Ids /\ worker[w].doc \in Audit
      BY <1>j, <3>2 DEF WorkerOwned, Known, WorkerState
    <3> HIDE DEF n, due
    <3>4. doc.closed = worker[w].doc.closed  BY <3>3 DEF Audit
    <3> HIDE DEF doc
    <3>5. worker[w].doc.closed => worker[w].id \in Shut  BY DEF Flags, Carries
    <3> QED BY <1>s, <2>k, <3>2, <3>3, <3>4, <3>5
  <2> QED BY <2>1, <2>2, <2>3, <2>5, <2>6, Frame
<1>2. \A s \in Auditors : auditor'[s].pc = "flag" => auditor'[s].id \in Shut'
  <2>k. ASSUME NEW s \in Auditors, NEW r, r.pc = "flag" => r.id \in Shut',
               auditor' = [auditor EXCEPT ![s] = r]
        PROVE  \A t \in Auditors : auditor'[t].pc = "flag" => auditor'[t].id \in Shut'
    BY <1>j, <1>s, <2>k DEF Flags
  <2>c. ASSUME NEW s \in Auditors, NEW ids, auditor' = [auditor EXCEPT ![s] = Closing(ids)]
        PROVE  \A t \in Auditors : auditor'[t].pc = "flag" => auditor'[t].id \in Shut'
    <3> DEFINE r == [IdleAuditor EXCEPT !.pc = "close", !.ids = ids]
    <3>1. IdleAuditor.pc = "idle" /\ r.pc = "close"  BY DEF IdleAuditor
    <3> HIDE DEF r
    <3>2. Closing(ids) \in {IdleAuditor, r}  BY DEF Closing, r
    <3>3. Closing(ids).pc # "flag"  BY <3>1, <3>2
    <3> QED BY <2>c, <2>k, <3>3
  <2>i. IdleAuditor.pc = "idle" /\ Closing({}) = IdleAuditor  BY DEF IdleAuditor, Closing
  <2>1. CASE auditor' = auditor  BY <1>s, <2>1 DEF Flags
  <2>2. ASSUME NEW s \in Auditors,
               AuditorGoes(s, IdleAuditor) \/ AuditorRegisterThrows(s)
        PROVE  \A t \in Auditors : auditor'[t].pc = "flag" => auditor'[t].id \in Shut'
    BY <2>2, <2>i, <2>k DEF AuditorRegisterThrows, AuditorGoes
  <2>3. ASSUME NEW s \in Auditors, AuditorStart(s)
        PROVE  \A t \in Auditors : auditor'[t].pc = "flag" => auditor'[t].id \in Shut'
    <3> DEFINE js == {<<b, jobs[b].last>> : b \in {x \in Bugs : jobs[x].status = "INPROGRESS"}}
               r == [IdleAuditor EXCEPT !.pc = "register", !.jobs = js]
    <3>1. auditor' = [auditor EXCEPT ![s] = r]  BY <2>3 DEF AuditorStart, AuditorGoes
    <3> HIDE DEF js
    <3>2. r.pc = "register"  BY DEF IdleAuditor
    <3> HIDE DEF r
    <3> QED BY <2>k, <3>1, <3>2
  <2>4. ASSUME NEW s \in Auditors,
               \/ AuditorScan(s)
               \/ AuditorFlag(s)
        PROVE  \A t \in Auditors : auditor'[t].pc = "flag" => auditor'[t].id \in Shut'
    BY <2>4, <2>c DEF AuditorScan, AuditorFlag, AuditorGoes
  <2>5. ASSUME NEW s \in Auditors,
               AuditorRegister(s) \/ AuditorCreate(s) \/ AuditorSpawn(s)
        PROVE  \A t \in Auditors : auditor'[t].pc = "flag" => auditor'[t].id \in Shut'
    <3>0. auditor[s] \in AuditorState  BY <1>j
    <3>a. ASSUME NEW pc \in {"spawn", "scan", "register", "create"}, NEW js, NEW job,
                 auditor' = [auditor EXCEPT ![s] =
                   [auditor[s] EXCEPT !.jobs = js, !.pc = pc, !.job = job]]
          PROVE  \A t \in Auditors : auditor'[t].pc = "flag" => auditor'[t].id \in Shut'
      <4> DEFINE r == [auditor[s] EXCEPT !.jobs = js, !.pc = pc, !.job = job]
      <4>1. r.pc = pc  BY <3>0 DEF AuditorState
      <4>2. auditor' = [auditor EXCEPT ![s] = r]  BY <3>a
      <4> HIDE DEF r
      <4> QED BY <2>k, <4>1, <4>2
    <3>b. ASSUME NEW pc \in {"spawn", "scan"}, AuditorGoes(s, [auditor[s] EXCEPT !.pc = pc])
          PROVE  \A t \in Auditors : auditor'[t].pc = "flag" => auditor'[t].id \in Shut'
      <4> DEFINE r == [auditor[s] EXCEPT !.pc = pc]
      <4>1. r.pc = pc  BY <3>0 DEF AuditorState
      <4>2. auditor' = [auditor EXCEPT ![s] = r]  BY <3>b DEF AuditorGoes
      <4> HIDE DEF r
      <4> QED BY <2>k, <4>1, <4>2
    <3>1. CASE AuditorSpawn(s)  BY <3>1, <3>b DEF AuditorSpawn
    <3>2. CASE AuditorCreate(s)
      <4> DEFINE r == [auditor[s] EXCEPT !.pc = "register", !.job = IdleAuditor.job]
      <4>1. r.pc = "register"  BY <3>0 DEF AuditorState
      <4>2. auditor' = [auditor EXCEPT ![s] = r]  BY <3>2 DEF AuditorCreate, AuditorGoes
      <4> HIDE DEF r
      <4> QED BY <2>k, <4>1, <4>2
    <3>3. CASE AuditorRegister(s)
      <4>1. CASE AuditorGoes(s, [auditor[s] EXCEPT !.pc = "spawn"])  BY <4>1, <3>b
      <4>2. ASSUME auditor[s].pc = "register", NEW j \in auditor[s].jobs,
                   AuditorGoes(s, [auditor[s] EXCEPT
                     !.jobs = @ \ {j},
                     !.pc = IF audits[j[2]].status = NoStatus THEN "create" ELSE @,
                     !.job = IF audits[j[2]].status = NoStatus THEN j ELSE @])
            PROVE  \A t \in Auditors : auditor'[t].pc = "flag" => auditor'[t].id \in Shut'
        <5> DEFINE js == auditor[s].jobs \ {j}
                   pc == IF audits[j[2]].status = NoStatus THEN "create" ELSE auditor[s].pc
                   job == IF audits[j[2]].status = NoStatus THEN j ELSE auditor[s].job
        <5>1. auditor' = [auditor EXCEPT ![s] =
                 [auditor[s] EXCEPT !.jobs = js, !.pc = pc, !.job = job]]
          BY <4>2 DEF AuditorGoes
        <5>2. pc \in {"create", "register"}  BY <4>2
        <5> HIDE DEF js, pc, job
        <5> QED BY <3>a, <5>1, <5>2
      <4> QED BY <3>3, <4>1, <4>2 DEF AuditorRegister
    <3> QED BY <2>5, <3>1, <3>2, <3>3
  <2>6. ASSUME NEW s \in Auditors, AuditorClose(s)
        PROVE  \A t \in Auditors : auditor'[t].pc = "flag" => auditor'[t].id \in Shut'
    <3>1. PICK a \in auditor[s].ids :
            \/ /\ chiron' = Updated(owner[a], "SUCCESS")
               /\ auditor' = [auditor EXCEPT ![s] = [IdleAuditor EXCEPT
                    !.pc = "flag", !.ids = auditor[s].ids \ {a}, !.id = a]]
            \/ auditor' = [auditor EXCEPT ![s] = Closing(auditor[s].ids \ {a})]
            \/ auditor' = [auditor EXCEPT ![s] = IdleAuditor]
      BY <2>6 DEF AuditorClose, UpdateChiron, AuditorGoes
    <3>2. a \in Known /\ owner' = owner  BY <2>6 DEF AuditorOwned, AuditorClose
    <3>3. CASE /\ chiron' = Updated(owner[a], "SUCCESS")
               /\ auditor' = [auditor EXCEPT ![s] = [IdleAuditor EXCEPT
                    !.pc = "flag", !.ids = auditor[s].ids \ {a}, !.id = a]]
      <4> DEFINE r == [IdleAuditor EXCEPT !.pc = "flag", !.ids = auditor[s].ids \ {a}, !.id = a]
      <4>1. r.id = a  BY DEF IdleAuditor
      <4>2. a \in Shut'  BY <3>2, <3>3, ShutAfter
      <4>3. auditor' = [auditor EXCEPT ![s] = r]  BY <3>3
      <4> HIDE DEF r
      <4> QED BY <2>k, <4>1, <4>2, <4>3
    <3> QED BY <2>c, <2>i, <2>k, <3>1, <3>3
  <2> QED BY <2>1, <2>2, <2>3, <2>4, <2>5, <2>6, Frame DEF AuditorStep
<1>3. \A w \in Workers : Carries(worker'[w], Shut')
  <2>a. \A w \in Workers : Carries(worker[w], Shut')  BY <1>s DEF Flags, Carries
  <2>1. CASE worker' = worker  BY <2>1, <2>a
  <2>2. ASSUME NEW s \in Auditors, AuditorSpawn(s)
        PROVE  \A w \in Workers : Carries(worker'[w], Shut')
    <3>1. \/ worker' = worker
          \/ \E v \in Workers :
               worker' = [worker EXCEPT ![v] =
                     [@ EXCEPT !.pc = "accept", !.todo = WaitingAudits]]
      BY <2>2 DEF AuditorSpawn
    <3>2. \A e \in WaitingAudits : e.doc.closed => e.id \in Shut'
      BY <1>s DEF WaitingAudits, Flags
    <3>3. ASSUME NEW v \in Workers,
                 worker' = [worker EXCEPT ![v] =
                       [@ EXCEPT !.pc = "accept", !.todo = WaitingAudits]]
          PROVE  \A w \in Workers : Carries(worker'[w], Shut')
      <4>1. \A w \in Workers \ {v} : worker'[w] = worker[w]  BY <1>j, <3>3
      <4>2. /\ worker'[v].pc = "accept" /\ worker'[v].todo = WaitingAudits
            /\ worker'[v].id = worker[v].id /\ worker'[v].doc = worker[v].doc
        BY <1>j, <3>3 DEF WorkerState
      <4>3. Carries(worker'[v], Shut')  BY <2>a, <3>2, <4>2 DEF Carries
      <4> QED BY <2>a, <4>1, <4>3
    <3> QED BY <2>1, <3>1, <3>3
  <2>3. ASSUME NEW w \in Workers, WorkerStep(w) \/ WorkerGoes(w, IdleWorker)
        PROVE  \A v \in Workers : Carries(worker'[v], Shut')
    <3>1. PICK r : worker' = [worker EXCEPT ![w] = r] /\ Moved(w, r)
      BY <2>3, WorkerMoves
    <3>2. r.pc = "flag" => r.id \in Shut'
      <4>1. SUFFICES ASSUME r.pc = "flag" PROVE r.id \in Shut'  OBVIOUS
      <4>2. /\ r.id = worker[w].id /\ worker[w].pc = "close"
            /\ chiron' = Updated(owner[worker[w].id], "SUCCESS")
        BY <3>1, <4>1 DEF Moved
      <4>3. r.id \in Known  BY <4>2 DEF WorkerOwned
      <4>4. r.id \in Known' /\ owner'[r.id] = owner[r.id]
        BY <4>3, StepRemembers DEF Remembers
      <4>5. "SUCCESS" \in chiron'[owner[r.id]]
        BY <4>2, <4>3 DEF Updated, TypeOK, Known
      <4> QED BY <4>4, <4>5 DEF Shut
    <3>3. r.doc.closed => r.id \in Shut'
      BY <2>a, <3>1 DEF Moved, Carries
    <3>4. \A e \in r.todo : e.doc.closed => e.id \in Shut'
      BY <2>a, <3>1 DEF Moved, Carries
    <3>5. Carries(r, Shut')  BY <3>2, <3>3, <3>4 DEF Carries
    <3> QED BY <1>j, <2>a, <3>1, <3>5
  <2> QED BY <2>1, <2>2, <2>3, Frame
<1> QED BY <1>1, <1>2, <1>3 DEF Flags

\* isClosedByChiron is never set for a bug Chiron has not closed, so the auditor
\* never stops trying to close one that is open: for any passes, the workers on
\* nodes of their own, that save each other's audits over, and whatever fails.
THEOREM FlaggedIsClosed == Spec => []FlagMeansClosed
<1>1. Typing /\ Flags /\ [Next]_vars => Flags'  BY FlagsStep
<1>2. Spec => []Flags  BY FlagsInit, TypingInvariant, <1>1, PTL DEF Spec
<1>3. Flags => FlagMeansClosed  BY DEF Flags, Shut, FlagMeansClosed
<1> QED BY <1>2, <1>3, PTL
-----------------------------------------------------------------------------
(***************************************************************************)
(* A verdict reaches the job and Chiron.  A worker that has recorded one   *)
(* saves a job that is no longer in progress, and nobody makes that job    *)
(* wait for the same analysis again, whatever older copies are saved over  *)
(* it; so passes may overlap, but a worker must get to its last save.      *)
(***************************************************************************)

\* The latest analysis of b is a, and the job waits for it.
Awaits(b, a) == jobs[b].status = "INPROGRESS" /\ jobs[b].last = a

\* Where a worker is between recording a verdict and saving the job.
Decided == {"close", "flag", "giveup", "save"}

\* The job a worker is about to save has its verdict.
Verdicts ==
  \A w \in Workers :
    /\ worker[w].pc \in Decided => worker[w].job.status \in {"READY", "SUCCESS", "FAILURE"}
    /\ worker[w].pc \in {"close", "flag"} => worker[w].job.status = "SUCCESS"
    /\ worker[w].pc = "giveup" => worker[w].job.status = "FAILURE"

\* Whoever recorded a verdict is on its way to the job.
Syncing ==
  \A a \in Ids :
    audits[a].status \in Resolved /\ Awaits(owner[a], a)
    => \E w \in Workers : worker[w].id = a /\ worker[w].pc \in Decided

\* Chiron knows the outcome of a job, or a closer is at the call.
Reporting(c, b) ==
  /\ closer[c].pc = "notify" /\ closer[c].bug = b
  /\ closer[c].job.status = jobs[b].status

JobsReported ==
  \A b \in Bugs :
    jobs[b].status \in Resolved =>
      jobs[b].status \in chiron[b] \/ \E c \in Closers : Reporting(c, b)

\* Chiron knows the outcome a worker is about to save.
WorkersReport ==
  \A w \in Workers :
    \/ worker[w].pc = "flag"
    \/ worker[w].pc = "save" /\ worker[w].job.status \in Resolved
    => worker[w].job.status \in chiron[owner[worker[w].id]]

\* What a worker that nothing stops does between its verdict and its save.
Delivers(w, r) ==
  LET W == worker[w]
  IN \/ W.pc \notin Decided /\ r.pc \notin Decided
     \/ /\ W.pc \notin Decided /\ r.pc \in Decided \ {"flag"} /\ r.id = W.id
        /\ r.pc = "close" => r.job.status = "SUCCESS"
        /\ r.pc = "giveup" => r.job.status = "FAILURE"
        /\ r.pc = "save" => r.job.status = "READY"
     \/ /\ W.pc \in {"close", "giveup"} /\ r.pc \in {"flag", "save"}
        /\ r.pc = "flag" => W.pc = "close"
        /\ r.id = W.id /\ r.job = W.job
        /\ "chironRefuses" \in Faults \/ chiron' = Updated(owner[W.id], W.job.status)
     \/ W.pc = "flag" /\ r.pc = "save" /\ r.id = W.id /\ r.job = W.job
     \/ /\ W.pc = "save" /\ r.pc \notin Decided
        /\ jobs' = [jobs EXCEPT ![owner[W.id]] = W.job]

\* When Chiron throws nothing a worker goes on until it has saved the job.
LEMMA WorkerDelivers ==
  ASSUME Typing, Verdicts, "chironThrows" \notin Faults, NEW w \in Workers, WorkerStep(w)
  PROVE  \E r : worker' = [worker EXCEPT ![w] = r] /\ Delivers(w, r)
<1> DEFINE W == worker[w]
<1>0. W \in WorkerState /\ W.job \in Job  BY DEF Typing, TypeOK, WorkerState
<1>i. \A todo : Remaining(todo).pc \in {"idle", "accept"}
  <2> TAKE todo
  <2> DEFINE r == [IdleWorker EXCEPT !.pc = "accept", !.todo = todo]
  <2>1. IdleWorker.pc = "idle" /\ r.pc = "accept"  BY DEF IdleWorker
  <2> HIDE DEF r
  <2>2. Remaining(todo) \in {IdleWorker, r}  BY DEF Remaining, r
  <2> QED BY <2>1, <2>2
\* The end with an audit, before its verdict.
<1>r. ASSUME NEW todo, W.pc = "query", worker' = [worker EXCEPT ![w] = Remaining(todo)]
      PROVE  \E r : worker' = [worker EXCEPT ![w] = r] /\ Delivers(w, r)
  <2>1. Delivers(w, Remaining(todo))  BY <1>i, <1>r DEF Delivers, Decided
  <2> QED BY <1>r, <2>1
\* The verdict.
<1>y. ASSUME NEW pc \in {"close", "giveup", "save"}, NEW job, W.pc = "query",
             /\ pc = "close" => job.status = "SUCCESS"
             /\ pc = "giveup" => job.status = "FAILURE"
             /\ pc = "save" => job.status = "READY",
             WorkerSyncs(w, pc, job)
      PROVE  \E r : worker' = [worker EXCEPT ![w] = r] /\ Delivers(w, r)
  <2> DEFINE r == [W EXCEPT !.pc = pc, !.doc = NoAudit, !.job = job]
  <2>1. worker' = [worker EXCEPT ![w] = r]  BY <1>y DEF WorkerSyncs, WorkerGoes
  <2>2. r.pc = pc /\ r.id = W.id /\ r.job = job  BY <1>0 DEF WorkerState
  <2> HIDE DEF r
  <2>3. Delivers(w, r)  BY <1>y, <2>2 DEF Delivers, Decided
  <2> QED BY <2>1, <2>3
\* The steps after it.
<1>p. ASSUME NEW pc \in {"flag", "save"}, worker' = [worker EXCEPT ![w] = [W EXCEPT !.pc = pc]],
             \/ W.pc = "flag" /\ pc = "save"
             \/ /\ W.pc \in {"close", "giveup"} /\ (pc = "flag" => W.pc = "close")
                /\ "chironRefuses" \in Faults \/ chiron' = Updated(owner[W.id], W.job.status)
      PROVE  \E r : worker' = [worker EXCEPT ![w] = r] /\ Delivers(w, r)
  <2> DEFINE r == [W EXCEPT !.pc = pc]
  <2>1. r.pc = pc /\ r.id = W.id /\ r.job = W.job  BY <1>0 DEF WorkerState
  <2>2. worker' = [worker EXCEPT ![w] = r]  BY <1>p
  <2> HIDE DEF r
  <2>3. Delivers(w, r)  BY <1>p, <2>1 DEF Delivers, Decided
  <2> QED BY <2>2, <2>3
<1>1. CASE WorkerAccept(w)
  <2>1. PICK e \in W.todo : worker' = [worker EXCEPT ![w] =
          [pc |-> "query", todo |-> W.todo \ {e}, id |-> e.id, doc |-> e.doc,
           job |-> jobs[owner[e.id]]]]
    BY <1>1 DEF WorkerAccept, WorkerGoes
  <2> DEFINE r == [pc |-> "query", todo |-> W.todo \ {e}, id |-> e.id,
                   doc |-> e.doc, job |-> jobs[owner[e.id]]]
  <2>2. r.pc = "query" /\ W.pc = "accept"  BY <1>1 DEF WorkerAccept
  <2>3. worker' = [worker EXCEPT ![w] = r]  BY <2>1
  <2> HIDE DEF r
  <2>4. Delivers(w, r)  BY <2>2 DEF Delivers, Decided
  <2> QED BY <2>3, <2>4
<1>2. CASE WorkerApproves(w)
  <2> DEFINE job == [W.job EXCEPT !.status = "SUCCESS"]
  <2>1. job.status = "SUCCESS"  BY <1>0 DEF Job
  <2>2. WorkerSyncs(w, "close", job) /\ W.pc = "query"
    BY <1>2 DEF WorkerApproves, WorkerRecords
  <2> HIDE DEF job
  <2> QED BY <1>y, <2>1, <2>2
<1>3. CASE WorkerFails(w) /\ W.job.retryCount >= RetryCount
  <2> DEFINE job == [W.job EXCEPT !.status = "FAILURE"]
  <2>1. job.status = "FAILURE"  BY <1>0 DEF Job
  <2>2. WorkerSyncs(w, "giveup", job) /\ W.pc = "query"
    BY <1>3 DEF WorkerFails, WorkerRecords
  <2> HIDE DEF job
  <2> QED BY <1>y, <2>1, <2>2
<1>4. CASE WorkerFails(w) /\ ~(W.job.retryCount >= RetryCount)
  <2> DEFINE job == [W.job EXCEPT !.status = "READY", !.due = FALSE]
  <2>1. job.status = "READY"  BY <1>0 DEF Job
  <2>2. WorkerSyncs(w, "save", job) /\ W.pc = "query"
    BY <1>4 DEF WorkerFails, WorkerRecords
  <2> HIDE DEF job
  <2> QED BY <1>y, <2>1, <2>2
<1>5. CASE WorkerPostpones(w) \/ WorkerQueryThrows(w)
  BY <1>5, <1>r DEF WorkerPostpones, WorkerRecords, WorkerQueryThrows, WorkerThrows, WorkerGoes
<1>6. CASE WorkerClose(w)
  <2>1. /\ W.pc = "close" /\ W.job.status = "SUCCESS"
        /\ \/ /\ worker' = [worker EXCEPT ![w] = [W EXCEPT !.pc = "flag"]]
              /\ chiron' = Updated(owner[W.id], "SUCCESS")
           \/ /\ worker' = [worker EXCEPT ![w] = [W EXCEPT !.pc = "save"]]
              /\ "chironRefuses" \in Faults
    BY <1>6 DEF WorkerClose, UpdateChiron, WorkerGoes, Verdicts
  <2> QED BY <1>p, <2>1
<1>7. CASE WorkerFlag(w)
  BY <1>7, <1>p DEF WorkerFlag, WorkerGoes
<1>8. CASE WorkerGiveUp(w)
  <2>1. /\ W.pc = "giveup" /\ W.job.status = "FAILURE"
        /\ worker' = [worker EXCEPT ![w] = [W EXCEPT !.pc = "save"]]
        /\ chiron' = Updated(owner[W.id], "FAILURE") \/ "chironRefuses" \in Faults
    BY <1>8 DEF WorkerGiveUp, UpdateChiron, WorkerGoes, Verdicts
  <2> QED BY <1>p, <2>1
<1>9. CASE WorkerSave(w)
  <2>1. /\ W.pc = "save" /\ jobs' = [jobs EXCEPT ![owner[W.id]] = W.job]
        /\ worker' = [worker EXCEPT ![w] = Remaining(W.todo)]
    BY <1>9 DEF WorkerSave, WorkerGoes
  <2>2. Delivers(w, Remaining(W.todo))  BY <1>i, <2>1 DEF Delivers, Decided
  <2> QED BY <2>1, <2>2
<1> QED BY <1>1, <1>2, <1>3, <1>4, <1>5, <1>6, <1>7, <1>8, <1>9 DEF WorkerStep

\* What becomes of a worker when nothing stops it: it is left alone, gets a list
\* when it is idle, or goes on.
LEMMA WorkersGoOn ==
  ASSUME Typing, Verdicts, Faults \cap {"chironThrows", "crash"} = {}, [Next]_vars,
         NEW w \in Workers
  PROVE  \/ worker'[w] = worker[w]
         \/ worker[w].pc = "idle" /\ worker'[w].pc = "accept"
         \/ Delivers(w, worker'[w])
<1>t. worker \in [Workers -> WorkerState]  BY DEF Typing, TypeOK
<1>1. \/ worker' = worker
      \/ \E s \in Auditors : AuditorSpawn(s)
      \/ \E v \in Workers : WorkerStep(v)
  <2>1. ~Crash  BY DEF Crash
  <2>2. CASE UNCHANGED vars  BY <2>2 DEF vars
  <2>3. CASE \/ \E b \in Bugs : CreateJob(b) \/ JobDue(b)
             \/ \E a \in Ids : AuditDue(a)
    BY <2>3 DEF CreateJob, JobDue, AuditDue
  <2>4. CASE \E c \in Closers : CloserStart(c) \/ CloserStep(c)
    BY <2>4 DEF CloserStep, CloserStart, CloserFetch, CloserFetchThrows,
       CloserAnalyseThrows, CloserTrigger, CloserReject, CloserChanges, CloserSave,
       CloserNotify, CloserAborts
  <2>5. CASE \E s \in Auditors : AuditorStart(s) \/ AuditorStep(s)
    BY <2>5 DEF AuditorStep, AuditorStart, AuditorRegister, AuditorRegisterThrows,
       AuditorCreate, AuditorScan, AuditorClose, AuditorFlag
  <2> QED BY <2>1, <2>2, <2>3, <2>4, <2>5 DEF Next
<1>2. ASSUME NEW s \in Auditors, AuditorSpawn(s)
      PROVE  worker'[w] = worker[w] \/ (worker[w].pc = "idle" /\ worker'[w].pc = "accept")
  <2>1. CASE worker' = worker  BY <2>1
  <2>2. ASSUME NEW v \in Workers, worker[v].pc = "idle",
               worker' = [worker EXCEPT ![v] =
                     [@ EXCEPT !.pc = "accept", !.todo = WaitingAudits]]
        PROVE  worker'[w] = worker[w] \/ (worker[w].pc = "idle" /\ worker'[w].pc = "accept")
    <3>1. CASE v # w  BY <1>t, <2>2, <3>1
    <3>2. CASE v = w
      <4>1. worker[w] \in WorkerState  BY <1>t
      <4>2. worker'[w] = [worker[w] EXCEPT !.pc = "accept", !.todo = WaitingAudits]
        BY <1>t, <2>2, <3>2
      <4> QED BY <2>2, <3>2, <4>1, <4>2 DEF WorkerState
    <3> QED BY <3>1, <3>2
  <2> QED BY <1>2, <2>1, <2>2 DEF AuditorSpawn
<1>3. ASSUME NEW v \in Workers, WorkerStep(v)
      PROVE  worker'[w] = worker[w] \/ Delivers(w, worker'[w])
  <2>1. PICK r : worker' = [worker EXCEPT ![v] = r] /\ Delivers(v, r)
    BY <1>3, WorkerDelivers
  <2> QED BY <1>t, <2>1
<1> QED BY <1>1, <1>2, <1>3

\* A verdict stays with the job that is about to be saved.
LEMMA VerdictsStep ==
  ASSUME Typing, Verdicts, Faults \cap {"chironThrows", "crash"} = {}, [Next]_vars
  PROVE  Verdicts'
<1> SUFFICES ASSUME NEW w \in Workers
             PROVE  LET r == worker'[w]
                    IN /\ r.pc \in Decided => r.job.status \in {"READY", "SUCCESS", "FAILURE"}
                       /\ r.pc \in {"close", "flag"} => r.job.status = "SUCCESS"
                       /\ r.pc = "giveup" => r.job.status = "FAILURE"
  BY DEF Verdicts
<1>1. \/ worker'[w] = worker[w]
      \/ worker[w].pc = "idle" /\ worker'[w].pc = "accept"
      \/ Delivers(w, worker'[w])
  BY WorkersGoOn
<1> QED BY <1>1 DEF Verdicts, Delivers, Decided

\* A verdict enters an audit only by a worker that goes on with it.
LEMMA VerdictsRecorded ==
  ASSUME Typing, [Next]_vars, NEW a \in Ids, audits'[a].status \in Resolved
  PROVE  \/ audits[a].status \in Resolved
         \/ \E w \in Workers : worker'[w].id = a /\ worker'[w].pc \in Decided
<1>t. /\ audits \in [Ids -> Audit] /\ worker \in [Workers -> WorkerState]
      /\ \A w \in Workers : worker[w].pc \notin {"idle", "accept"} => worker[w].id \in Ids
  BY DEF Typing, TypeOK, WorkerOwned, Known
<1> DEFINE Goal == \/ audits[a].status \in Resolved
                   \/ \E w \in Workers : worker'[w].id = a /\ worker'[w].pc \in Decided
<1>1. ASSUME NEW x \in Ids, NEW doc, audits' = [audits EXCEPT ![x] = doc],
             x = a => doc.status \notin Resolved \/ doc.status = audits[a].status
      PROVE  Goal
  BY <1>t, <1>1
<1>2. CASE audits' = audits  BY <1>2
<1>3. ASSUME NEW x \in Ids, AuditDue(x)  PROVE Goal
  <2> DEFINE doc == [audits[x] EXCEPT !.due = TRUE]
  <2>1. audits' = [audits EXCEPT ![x] = doc]  BY <1>3, <1>t DEF AuditDue
  <2>2. doc.status = audits[x].status  BY <1>t DEF Audit
  <2> HIDE DEF doc
  <2> QED BY <1>1, <2>1, <2>2
<1>4. ASSUME NEW s \in Auditors, AuditorCreate(s)  PROVE Goal
  <2> DEFINE doc == [NoAudit EXCEPT !.status = "INPROGRESS"]
  <2>1. auditor[s].job[2] \in Ids /\ audits' = [audits EXCEPT ![auditor[s].job[2]] = doc]
    BY <1>4 DEF AuditorCreate, Typing, AuditorOwned, Known
  <2>2. doc.status = "INPROGRESS"  BY DEF NoAudit
  <2> HIDE DEF doc
  <2>3. doc.status \notin Resolved  BY <2>2 DEF Resolved
  <2> QED BY <1>1, <2>1, <2>3
<1>5. ASSUME NEW x \in Ids, audits' = [audits EXCEPT ![x].closed = TRUE]  PROVE Goal
  <2> DEFINE doc == [audits[x] EXCEPT !.closed = TRUE]
  <2>1. audits' = [audits EXCEPT ![x] = doc]  BY <1>5, <1>t
  <2>2. doc.status = audits[x].status  BY <1>t DEF Audit
  <2> HIDE DEF doc
  <2> QED BY <1>1, <2>1, <2>2
<1>6. CASE \/ \E s \in Auditors : AuditorFlag(s)
           \/ \E w \in Workers : WorkerFlag(w)
  BY <1>5, <1>6, <1>t DEF AuditorFlag, WorkerFlag, Typing, AuditorOwned, Known
<1>7. ASSUME NEW w \in Workers, NEW status, WorkerRecords(w, status),
             \/ status = "INPROGRESS"
             \/ \E pc \in {"close", "giveup", "save"} : \E job : WorkerSyncs(w, pc, job)
      PROVE  Goal
  <2> DEFINE n == worker[w].doc.responses + 1
             due == IF status = "INPROGRESS" THEN FALSE ELSE worker[w].doc.due
             doc == [worker[w].doc EXCEPT !.status = status, !.responses = n, !.due = due]
  <2>1. worker[w].pc = "query" /\ audits' = [audits EXCEPT ![worker[w].id] = doc]
    BY <1>7 DEF WorkerRecords
  <2>2. worker[w].id \in Ids /\ worker[w].doc \in Audit /\ worker[w] \in WorkerState
    BY <1>t, <2>1 DEF WorkerState
  <2> HIDE DEF n, due
  <2>3. doc.status = status  BY <2>2 DEF Audit
  <2> HIDE DEF doc
  <2>4. CASE status = "INPROGRESS"
    <3>1. doc.status \notin Resolved  BY <2>3, <2>4 DEF Resolved
    <3> QED BY <1>1, <2>1, <2>2, <3>1
  <2>5. ASSUME NEW pc \in {"close", "giveup", "save"}, NEW job, WorkerSyncs(w, pc, job)
        PROVE  Goal
    <3> DEFINE r == [worker[w] EXCEPT !.pc = pc, !.doc = NoAudit, !.job = job]
    <3>1. worker'[w] = r  BY <1>t, <2>5 DEF WorkerSyncs, WorkerGoes
    <3>2. r.id = worker[w].id /\ r.pc = pc  BY <2>2 DEF WorkerState
    <3> HIDE DEF r
    <3>3. CASE worker[w].id = a  BY <2>5, <3>1, <3>2, <3>3 DEF Decided
    <3>4. CASE worker[w].id # a  BY <1>1, <2>1, <2>2, <3>4
    <3> QED BY <3>3, <3>4
  <2> QED BY <1>7, <2>4, <2>5
<1>8. CASE \E w \in Workers : WorkerApproves(w) \/ WorkerFails(w) \/ WorkerPostpones(w)
  BY <1>7, <1>8 DEF WorkerApproves, WorkerFails, WorkerPostpones
<1> QED BY <1>2, <1>3, <1>4, <1>6, <1>8, Frame

\* A job comes to wait for an analysis only when that is asked for.
LEMMA AwaitsKept ==
  ASSUME Typing, Verdicts, [Next]_vars,
         NEW a \in Known, Awaits(owner[a], a)'
  PROVE  Awaits(owner[a], a)
<1> DEFINE b == owner[a]
<1>t. jobs \in [Bugs -> Job] /\ a \in Ids /\ b \in Bugs  BY DEF Typing, TypeOK, Known
<1>0. owner'[a] = b /\ jobs'[b].status = "INPROGRESS" /\ jobs'[b].last = a
  BY StepRemembers DEF Remembers, Awaits
<1>1. ASSUME NEW x \in Bugs, NEW job, jobs' = [jobs EXCEPT ![x] = job],
             job.status # "INPROGRESS" \/ job.last # a
      PROVE  Awaits(b, a)
  BY <1>0, <1>1, <1>t DEF Awaits
<1>2. CASE jobs' = jobs  BY <1>0, <1>2 DEF Awaits
<1>3. ASSUME NEW x \in Bugs, CreateJob(x) \/ JobDue(x)  PROVE Awaits(b, a)
  <2>1. jobs'[x].status = "READY" /\ \A y \in Bugs \ {x} : jobs'[y] = jobs[y]
    BY <1>3, <1>t DEF CreateJob, JobDue, Job
  <2> QED BY <1>0, <1>t, <2>1 DEF Awaits
<1>4. ASSUME NEW c \in Closers, CloserSave(c)  PROVE Awaits(b, a)
  <2>1. /\ closer[c].pc = "save" /\ closer[c].bug \in Bugs
        /\ jobs' = [jobs EXCEPT ![closer[c].bug] = closer[c].job]
    BY <1>4 DEF CloserSave, Typing, CloserOwned
  <2>2. closer[c].job.last # a  BY <2>1 DEF Known, InHand
  <2> QED BY <1>1, <2>1, <2>2
<1>6. ASSUME NEW w \in Workers, WorkerSave(w)  PROVE Awaits(b, a)
  <2>1. /\ worker[w].pc = "save" /\ owner[worker[w].id] \in Bugs
        /\ jobs' = [jobs EXCEPT ![owner[worker[w].id]] = worker[w].job]
    BY <1>6 DEF WorkerSave, Typing, WorkerOwned, Known
  <2>2. worker[w].job.status # "INPROGRESS"  BY <2>1 DEF Verdicts, Decided
  <2> QED BY <1>1, <2>1, <2>2
<1> QED BY <1>2, <1>3, <1>4, <1>6, Frame

\* Whoever records a verdict goes on to save the job.
LEMMA SyncingStep ==
  ASSUME Faults \cap {"chironThrows", "crash"} = {}, Typing, Verdicts, Syncing, [Next]_vars
  PROVE  Syncing'
<1> SUFFICES ASSUME NEW a \in Ids, audits'[a].status \in Resolved, Awaits(owner[a], a)'
             PROVE  \E w \in Workers : worker'[w].id = a /\ worker'[w].pc \in Decided
  BY DEF Syncing
<1>1. CASE audits[a].status \in Resolved
  <2>1. a \in Known /\ owner[a] \in Bugs
    BY <1>1 DEF Typing, StoreOwned, Known, Resolved, NoStatus
  <2>2. PICK w \in Workers : worker[w].id = a /\ worker[w].pc \in Decided
    BY <1>1, <2>1, AwaitsKept DEF Syncing
  <2>3. CASE Delivers(w, worker'[w])
    <3>1. worker[w].pc = "save" => jobs'[owner[a]] = jobs'[owner'[a]]
      BY <2>1, StepRemembers DEF Remembers
    <3>2. worker[w].pc = "save" => worker[w].job.status # "INPROGRESS"
      BY <2>2 DEF Verdicts, Decided
    <3>3. ~(worker[w].pc = "save" /\ jobs' = [jobs EXCEPT ![owner[a]] = worker[w].job])
      BY <2>1, <3>1, <3>2 DEF Awaits, Typing, TypeOK
    <3> QED BY <2>2, <2>3, <3>3 DEF Delivers, Decided
  <2> QED BY <2>2, <2>3, WorkersGoOn DEF Decided
<1> QED BY <1>1, VerdictsRecorded

\* A verdict recorded in an audit has reached the job once no worker is at it,
\* for any closers and auditors and one worker on each node, unless a call of
\* Chiron throws or a node stops between the two saves.
THEOREM VerdictsReachJobs ==
  ASSUME Faults \cap {"chironThrows", "crash"} = {}
  PROVE  Spec => []InSync
<1>1. Init => Verdicts /\ Syncing
  BY DEF Init, Verdicts, Syncing, IdleWorker, NoAudit, NoStatus, Resolved, Decided
<1>2. Typing /\ Verdicts /\ Syncing /\ [Next]_vars => (Verdicts /\ Syncing)'
  BY VerdictsStep, SyncingStep
<1>3. Syncing => InSync  BY DEF Syncing, InSync, Awaits
<1> QED BY TypingInvariant, <1>1, <1>2, <1>3, PTL DEF Spec

\* A worker tells Chiron before it saves a job that has ended.
LEMMA WorkersReportStep ==
  ASSUME Faults \cap {"chironThrows", "chironRefuses", "crash"} = {},
         Typing, Verdicts, WorkersReport, [Next]_vars
  PROVE  WorkersReport'
<1>t. /\ chiron \in [Bugs -> SUBSET JobStatus]
      /\ \A w \in Workers : worker[w].pc \in Decided => worker[w].id \in Known
      /\ \A a \in Known : a \in Ids /\ owner[a] \in Bugs
  BY DEF Typing, TypeOK, WorkerOwned, Known, Decided
<1>m. /\ \A a \in Known : owner'[a] = owner[a]
      /\ \A b \in Bugs : chiron[b] \subseteq chiron'[b]
  BY StepRemembers DEF Remembers
<1> SUFFICES ASSUME NEW w \in Workers, NEW r, r = worker'[w],
                    r.pc = "flag" \/ (r.pc = "save" /\ r.job.status \in Resolved)
             PROVE  r.job.status \in chiron'[owner'[r.id]]
  BY DEF WorkersReport
<1> DEFINE W == worker[w]
<1>1. CASE r = W  BY <1>1, <1>m, <1>t DEF WorkersReport, Decided
<1>2. CASE Delivers(w, r)
  <2>1. /\ r.id = W.id /\ r.job = W.job /\ W.pc \in Decided
        /\ \/ W.pc = "flag"
           \/ chiron' = Updated(owner[W.id], W.job.status)
    BY <1>2 DEF Delivers, Decided, Resolved
  <2>2. CASE W.pc = "flag"  BY <1>m, <1>t, <2>1, <2>2 DEF WorkersReport
  <2>3. CASE chiron' = Updated(owner[W.id], W.job.status)
    BY <1>m, <1>t, <2>1, <2>3 DEF Updated
  <2> QED BY <2>1, <2>2, <2>3
<1> QED BY <1>1, <1>2, WorkersGoOn

\* A closer with an outcome to tell stays at the call until it has told it.
LEMMA ClosersTell ==
  ASSUME Faults \cap {"chironThrows", "chironRefuses", "crash"} = {},
         Typing, [Next]_vars, NEW c \in Closers, closer[c].pc = "notify"
  PROVE  closer'[c] = closer[c] \/ chiron' = Updated(closer[c].bug, closer[c].job.status)
<1>t. closer \in [Closers -> CloserState]  BY DEF Typing, TypeOK
<1>1. ~Crash  BY DEF Crash
<1>2. CASE UNCHANGED vars  BY <1>2 DEF vars
<1>3. CASE \/ \E b \in Bugs : CreateJob(b) \/ JobDue(b)
           \/ \E a \in Ids : AuditDue(a)
  BY <1>3 DEF CreateJob, JobDue, AuditDue
<1>4. ASSUME NEW d \in Closers, CloserStart(d) \/ CloserStep(d)
      PROVE  closer'[c] = closer[c] \/ chiron' = Updated(closer[c].bug, closer[c].job.status)
  <2>1. CASE d = c
    <3>1. CloserNotify(c)
      BY <1>4, <2>1 DEF CloserStep, CloserStart, CloserFetch, CloserFetchThrows,
         CloserAnalyseThrows, CloserTrigger, CloserReject, CloserChanges, CloserSave
    <3> QED BY <3>1 DEF CloserNotify, UpdateChiron
  <2>2. CASE d # c
    <3>1. \E r : closer' = [closer EXCEPT ![d] = r]
      BY <1>4 DEF CloserStep, CloserStart, CloserFetch, CloserFetchThrows,
         CloserAnalyseThrows, CloserTrigger, CloserReject, CloserChanges, CloserNotify, CloserSave,
         CloserAborts, UpdateChiron
    <3> QED BY <1>t, <2>2, <3>1
  <2> QED BY <2>1, <2>2
<1>5. CASE \E s \in Auditors : AuditorStart(s) \/ AuditorStep(s)
  BY <1>5 DEF AuditorStep, AuditorStart, AuditorRegister, AuditorRegisterThrows,
     AuditorCreate, AuditorSpawn, AuditorScan, AuditorClose, AuditorFlag, AuditorGoes,
     UpdateChiron
<1>6. ASSUME NEW w \in Workers, WorkerStep(w)  PROVE closer' = closer
  BY <1>6 DEF WorkerStep, WorkerAccept, WorkerApproves, WorkerFails,
     WorkerPostpones, WorkerQueryThrows, WorkerClose, WorkerFlag, WorkerGiveUp,
     WorkerSave, WorkerGoes, WorkerThrows, WorkerSyncs, UpdateChiron
<1> QED BY <1>1, <1>2, <1>3, <1>4, <1>5, <1>6 DEF Next

\* A job ends when a worker saves it, which has told Chiron, or when a closer
\* does, which goes on to tell it.
LEMMA JobsReportedStep ==
  ASSUME Faults \cap {"chironThrows", "chironRefuses", "crash"} = {},
         Typing, WorkersReport, JobsReported, [Next]_vars
  PROVE  JobsReported'
<1>t. /\ jobs \in [Bugs -> Job] /\ closer \in [Closers -> CloserState]
      /\ chiron \in [Bugs -> SUBSET JobStatus]
      /\ \A c \in Closers : closer[c].pc \in {"analyse", "save", "notify"} => closer[c].bug \in Bugs
  BY DEF Typing, TypeOK, CloserOwned
<1>m. \A b \in Bugs : chiron[b] \subseteq chiron'[b]
  BY StepRemembers DEF Remembers
<1> SUFFICES ASSUME NEW b \in Bugs, jobs'[b].status \in Resolved
             PROVE  jobs'[b].status \in chiron'[b] \/ \E c \in Closers : Reporting(c, b)'
  BY DEF JobsReported
<1> DEFINE Goal == jobs'[b].status \in chiron'[b] \/ \E c \in Closers : Reporting(c, b)'
\* A job that had ended before.
<1>k. ASSUME jobs'[b].status = jobs[b].status  PROVE Goal
  <2>1. CASE jobs[b].status \in chiron[b]  BY <1>k, <1>m, <2>1
  <2>2. ASSUME NEW c \in Closers, Reporting(c, b)  PROVE Goal
    <3>1. CASE closer'[c] = closer[c]  BY <1>k, <2>2, <3>1 DEF Reporting
    <3>2. CASE chiron' = Updated(closer[c].bug, closer[c].job.status)
      BY <1>k, <1>t, <2>2, <3>2 DEF Reporting, Updated
    <3> QED BY <2>2, <3>1, <3>2, ClosersTell DEF Reporting
  <2> QED BY <1>k, <2>1, <2>2 DEF JobsReported
<1>1. CASE jobs' = jobs  BY <1>1, <1>k
<1>2. ASSUME NEW x \in Bugs, CreateJob(x) \/ JobDue(x)  PROVE Goal
  <2>1. jobs'[x].status = "READY" /\ \A y \in Bugs \ {x} : jobs'[y] = jobs[y]
    BY <1>2, <1>t DEF CreateJob, JobDue, Job
  <2> QED BY <1>k, <2>1 DEF Resolved
<1>3. ASSUME NEW c \in Closers, CloserSave(c)  PROVE Goal
  <2>1. /\ closer[c].pc = "save" /\ jobs' = [jobs EXCEPT ![closer[c].bug] = closer[c].job]
        /\ closer' = [closer EXCEPT ![c] = [closer[c] EXCEPT !.pc = "notify"]]
    BY <1>3, <1>t DEF CloserSave
  <2>2. closer[c] \in CloserState /\ closer[c].bug \in Bugs  BY <1>t, <2>1
  <2>3. CASE b # closer[c].bug  BY <1>k, <1>t, <2>1, <2>3
  <2>4. CASE b = closer[c].bug
    <3> DEFINE r == [closer[c] EXCEPT !.pc = "notify"]
    <3>1. closer'[c] = r /\ jobs'[b] = closer[c].job  BY <1>t, <2>1, <2>4
    <3>2. r.pc = "notify" /\ r.bug = closer[c].bug /\ r.job = closer[c].job
      BY <2>2 DEF CloserState
    <3> HIDE DEF r
    <3>3. Reporting(c, b)'  BY <2>4, <3>1, <3>2 DEF Reporting
    <3> QED BY <3>3
  <2> QED BY <2>3, <2>4
<1>4. ASSUME NEW w \in Workers, WorkerSave(w)  PROVE Goal
  <2> DEFINE W == worker[w]
  <2>1. W.pc = "save" /\ jobs' = [jobs EXCEPT ![owner[W.id]] = W.job]
    BY <1>4 DEF WorkerSave
  <2>2. CASE b # owner[W.id]  BY <1>k, <1>t, <2>1, <2>2
  <2>3. CASE b = owner[W.id]
    <3>1. jobs'[b] = W.job  BY <1>t, <2>1, <2>3
    <3>2. W.job.status \in chiron[b]  BY <2>1, <2>3, <3>1 DEF WorkersReport
    <3> QED BY <1>m, <3>1, <3>2
  <2> QED BY <2>2, <2>3
<1> QED BY <1>1, <1>2, <1>3, <1>4, Frame

\* When a job has ended and nobody is about to report it, Chiron knows, for any
\* closers and auditors and one worker on each node, unless Chiron refuses an
\* update or throws, or a node stops.
THEOREM OutcomesAreReported ==
  ASSUME Faults \cap {"chironThrows", "chironRefuses", "crash"} = {}
  PROVE  Spec => []OutcomeReported
<1> DEFINE Told == Verdicts /\ JobsReported /\ WorkersReport
<1>1. Init => Told
  BY DEF Init, Verdicts, JobsReported, WorkersReport, NoJob, NoStatus, Resolved,
     IdleWorker, Decided
<1>2. Typing /\ Told /\ [Next]_vars => Told'
  BY VerdictsStep, JobsReportedStep, WorkersReportStep
<1>3. Told => OutcomeReported  BY DEF JobsReported, Reporting, OutcomeReported
<1> HIDE DEF Told
<1> QED BY TypingInvariant, <1>1, <1>2, <1>3, PTL DEF Spec
=============================================================================
