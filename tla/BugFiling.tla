------------------------------ MODULE BugFiling ------------------------------
(***************************************************************************)
(* Filing the bugs of a window (BugCreatorStep, BugCreator).               *)
(*                                                                         *)
(* A pass of a group hands the failures of one agent, gathered in buckets, *)
(* to BugCreatorStep, which asks Chiron for a synthetic bug for each that  *)
(* is above the threshold and books what the other components work from:   *)
(* the analysis JN makes for it, the bug's tracker, and the job of the     *)
(* auto-closer.                                                            *)
(*                                                                         *)
(* Both classes are singletons that keep their input and their result in   *)
(* fields.  The passes of two groups overlap on a node when one takes      *)
(* longer than the consumer waits for it, see TaskWindows.  The module is  *)
(* one node.  Accesses to fields with no call or save in between are one   *)
(* step.                                                                   *)
(*                                                                         *)
(* A bug and an analysis go by the name of the bucket they were made for.  *)
(***************************************************************************)

CONSTANTS
  Threads,    \* passes, each with the buckets of one agent
  Buckets,    \* those of type Genuine that are above the threshold
  None,       \* CreateBugResponse without a value; a null id
  Refused,    \* CreateBugResponse whose status contains "failed"
  Faults      \* what may go wrong in the environment, out of FaultKinds

FaultKinds == {"chironThrows",   \* createBug throws, the bug filed or not
               "chironRefuses",
               "yuvaThrows",     \* the agent's segments are not known
               "crash"}

ASSUME NoBugs == None \notin Buckets /\ Refused \notin Buckets \cup {None}
ASSUME KnownFaults == Faults \subseteq FaultKinds

VARIABLES
  faults,    \* those of Faults that happen in this behaviour
  running,   \* the passes that take place
  buckets,   \* what is known of each bucket
  filed,     \* Chiron: the bugs
  items,     \* JNAnalysisTriggeredItem
  trackers,  \* BugTracker
  jobs,      \* BugAutoCloserSchedularJob
  failures,  \* BugFailure: the buckets
  audits,    \* ForecastAudit
  step,      \* BugCreatorStep.errorBuckets: the pass whose agent they are of
  bean,      \* BugCreator
  thread

given == <<faults, running, buckets>>
docs == <<items, trackers, jobs, failures, audits>>
vars == <<given, docs, filed, step, bean, thread>>

Bucket ==
  [thread: Threads,
   analysed: BOOLEAN,  \* has juggernautDetails
   big: BOOLEAN,       \* more than 150 items
   site: BOOLEAN]      \* a site error, not by the route "aim"

Booking == [bug: Buckets, bucket: Buckets]
Item == [bug: Buckets \cup {None}, analysis: Buckets]
ForecastAttribute == [bug: Buckets \cup {None}, bucket: Buckets]
ForecastAudit == [agent: Threads, attributes: SUBSET ForecastAttribute]
Bean == [bucket: Buckets \cup {None}, bug: Buckets \cup {None, Refused}]

ThreadState ==
  [at: {"idle", "next", "create", "item", "failure", "track", "job", "end"},
   yuva: BOOLEAN,               \* isYuvaWorking
   todo: SUBSET Buckets,
   bucket: Buckets \cup {None},
   item: SUBSET Item,           \* the item to be saved, or none
   bug: Buckets \cup {None},    \* syntheticBugId of bugResponse
   attributes: SUBSET ForecastAttribute]

IdleThread ==
  [at |-> "idle", yuva |-> TRUE, todo |-> {}, bucket |-> None, item |-> {},
   bug |-> None, attributes |-> {}]

\* Everything has its type.
TypeOK ==
  /\ faults \subseteq Faults
  /\ running \subseteq Threads
  /\ buckets \in [Buckets -> Bucket]
  /\ filed \subseteq Buckets
  /\ items \subseteq Item
  /\ trackers \subseteq Booking
  /\ jobs \subseteq Booking
  /\ failures \subseteq Buckets
  /\ audits \subseteq ForecastAudit
  /\ step \in Threads \cup {None}
  /\ bean \in Bean
  /\ thread \in [Threads -> ThreadState]

Init ==
  /\ faults \in SUBSET Faults
  /\ running \in SUBSET Threads \ {{}}
  /\ buckets \in {B \in [Buckets -> Bucket] :
                     \A b \in Buckets : B[b].thread \in running}
  /\ filed = {}
  /\ items = {}
  /\ trackers = {}
  /\ jobs = {}
  /\ failures = {}
  /\ audits = {}
  /\ step = None
  /\ bean = [bucket |-> None, bug |-> None]
  /\ thread = [t \in Threads |-> IdleThread]

-----------------------------------------------------------------------------
Move(t, s) == thread' = [thread EXCEPT ![t].at = s]

\* ForecasterStep asks YUVA, and BugCreatorStep takes its input.
Accept(t) ==
  /\ t \in running
  /\ thread[t].at = "idle"
  /\ step' = t
  /\ \E yuva \in {TRUE} \cup (IF "yuvaThrows" \in faults THEN {FALSE} ELSE {}) :
       thread' = [thread EXCEPT ![t] =
                    [@ EXCEPT !.at = "next", !.yuva = yuva,
                              !.todo = {b \in Buckets : buckets[b].thread = t}]]
  /\ UNCHANGED <<given, docs, filed, bean>>

Todo(t, b) == thread[t].todo \ {b}
Attributes(t, b, bug) == thread[t].attributes \cup {[bucket |-> b, bug |-> bug]}

\* Mutant: setInput keeps the response to the last bucket.
CreateKeeps(t, b) ==
  /\ thread[t].at = "next"
  /\ b \in thread[t].todo
  /\ bean' = [bean EXCEPT !.bucket = b]
  /\ IF thread[t].yuva
     THEN thread' = [thread EXCEPT ![t] = [@ EXCEPT !.at = "create", !.bucket = b,
                                                    !.todo = Todo(t, b)]]
     ELSE thread' = [thread EXCEPT ![t] = [@ EXCEPT !.todo = Todo(t, b),
                                     !.attributes = Attributes(t, b, None)]]
  /\ UNCHANGED <<given, docs, filed, step>>

\* setInput, and execute up to the call.  What the call sends is ready now;
\* without YUVA the bucket has no top failure, which throws.
Create(t, b) ==
  /\ thread[t].at = "next"
  /\ b \in thread[t].todo
  /\ bean' = [bucket |-> b, bug |-> None]
  /\ IF thread[t].yuva
     THEN thread' = [thread EXCEPT ![t] = [@ EXCEPT !.at = "create", !.bucket = b,
                                                    !.todo = Todo(t, b)]]
     ELSE thread' = [thread EXCEPT ![t] = [@ EXCEPT !.todo = Todo(t, b),
                                     !.attributes = Attributes(t, b, None)]]
  /\ UNCHANGED <<given, docs, filed, step>>

\* Mutant: the job is saved only for a bucket without a tracker.
StageEither(b, at) ==
  IF at # "track" /\ buckets[b].big THEN "track"
  ELSE IF at # "track" /\ buckets[b].site THEN "job"
  ELSE "next"

\* What is to be saved for b, which is filed, after the step at.
Stage(b, at) ==
  IF at # "track" /\ buckets[b].big THEN "track"
  ELSE IF buckets[b].site THEN "job"
  ELSE "next"

\* Mutant: the status is not looked at.
AnsweredUnchecked(t, answer) ==
  LET b == thread[t].bucket
  IN  thread' = [thread EXCEPT ![t] =
                   [@ EXCEPT !.at = Stage(b, thread[t].at), !.item = {},
                      !.bug = answer, !.attributes = Attributes(t, b, answer)]]

\* Mutant: a refusal is passed over.
AnsweredSilently(t, answer) ==
  LET b == thread[t].bucket
      bug == IF answer = Refused THEN None ELSE answer
  IN  thread' = [thread EXCEPT ![t] =
                   [@ EXCEPT !.at = IF bug = None THEN "next"
                                    ELSE Stage(b, thread[t].at),
                      !.item = {}, !.bug = bug,
                      !.attributes = Attributes(t, b, bug)]]

\* getOutput gives answer.  One without a status throws, and is passed over.
Answered(t, answer) ==
  LET b == thread[t].bucket
      bug == IF answer = Refused THEN None ELSE answer
  IN  thread' = [thread EXCEPT ![t] =
                   [@ EXCEPT !.at = IF answer = None THEN "next"
                                    ELSE IF answer = Refused THEN "failure"
                                    ELSE Stage(b, thread[t].at),
                      !.item = {}, !.bug = bug,
                      !.attributes = Attributes(t, b, bug)]]

\* execute from the response on.  If the bucket in the field has an analysis,
\* an item is saved before getOutput.
Responded(t, answer) ==
  /\ bean' = [bean EXCEPT !.bug = answer]
  /\ IF buckets[bean.bucket].analysed
     THEN thread' = [thread EXCEPT ![t] =
                       [@ EXCEPT !.at = "item",
                          !.item = {[bug |-> IF answer = Refused THEN None ELSE answer,
                                     analysis |-> bean.bucket]}]]
     ELSE Answered(t, answer)

Created(t) ==
  /\ thread[t].at = "create"
  /\ filed' = filed \cup {thread[t].bucket}
  /\ Responded(t, thread[t].bucket)
  /\ UNCHANGED <<given, docs, step>>

CreateRefused(t) ==
  /\ "chironRefuses" \in faults
  /\ thread[t].at = "create"
  /\ Responded(t, Refused)
  /\ UNCHANGED <<given, docs, filed, step>>

\* execute catches everything, and getOutput gives what the field holds.
CreateThrows(t) ==
  /\ "chironThrows" \in faults
  /\ thread[t].at = "create"
  /\ filed' \in {filed, filed \cup {thread[t].bucket}}
  /\ Answered(t, bean.bug)
  /\ UNCHANGED <<given, docs, step, bean>>

SaveItem(t) ==
  /\ thread[t].at = "item"
  /\ items' = items \cup thread[t].item
  /\ Answered(t, bean.bug)
  /\ UNCHANGED <<given, trackers, jobs, failures, audits, filed, step, bean>>

SaveFailure(t) ==
  /\ thread[t].at = "failure"
  /\ failures' = failures \cup {thread[t].bucket}
  /\ Move(t, "next")
  /\ UNCHANGED <<given, items, trackers, jobs, audits, filed, step, bean>>

SaveTracker(t) ==
  /\ thread[t].at = "track"
  /\ trackers' = trackers \cup {[bug |-> thread[t].bug, bucket |-> thread[t].bucket]}
  /\ Move(t, Stage(thread[t].bucket, "track"))
  /\ UNCHANGED <<given, items, jobs, failures, audits, filed, step, bean>>

\* The auto-closer's job, as in CreateJob of AutoClose.
SaveJob(t) ==
  /\ thread[t].at = "job"
  /\ jobs' = jobs \cup {[bug |-> thread[t].bug, bucket |-> thread[t].bucket]}
  /\ Move(t, "next")
  /\ UNCHANGED <<given, items, trackers, failures, audits, filed, step, bean>>

\* The audit names the agent whose buckets are in the field now.
SaveAudit(t) ==
  /\ thread[t].at = "next"
  /\ thread[t].todo = {}
  /\ audits' = audits \cup {[agent |-> step, attributes |-> thread[t].attributes]}
  /\ Move(t, "end")
  /\ UNCHANGED <<given, items, trackers, jobs, failures, filed, step, bean>>

\* What a pass had not yet done is not done by another, see TaskWindows.
Crash ==
  /\ "crash" \in faults
  /\ \E F \in SUBSET {b \in Buckets : \E t \in Threads :
                        thread[t].at = "create" /\ thread[t].bucket = b} :
       filed' = filed \cup F
  /\ thread' = [t \in Threads |-> [IdleThread EXCEPT !.at = "end"]]
  /\ UNCHANGED <<given, docs, step, bean>>

-----------------------------------------------------------------------------
ThreadNext(t) ==
  \/ Accept(t)
  \/ \E b \in Buckets : Create(t, b)
  \/ Created(t)
  \/ CreateRefused(t)
  \/ CreateThrows(t)
  \/ SaveItem(t)
  \/ SaveFailure(t)
  \/ SaveTracker(t)
  \/ SaveJob(t)
  \/ SaveAudit(t)

Next == Crash \/ \E t \in Threads : ThreadNext(t)

Spec == Init /\ [][Next]_vars

-----------------------------------------------------------------------------
(***************************************************************************)
(* Properties.                                                             *)
(***************************************************************************)
\* One pass on the node: with two, each reads the other's fields.
Alone == \E t \in Threads : running = {t}

\* What is booked on a bug, its analysis, its tracker, its job and its line in
\* the audit, is that of the bucket the bug was filed for.
BookedOnItsBucket ==
  Alone =>
    /\ \A i \in items : i.bug \in {None, i.analysis}
    /\ \A r \in trackers \cup jobs : r.bug = r.bucket
    /\ \A audit \in audits : \A a \in audit.attributes :
         a.bug \in {None, a.bucket} /\ buckets[a.bucket].thread = audit.agent

\* Nothing is booked on a bug that is not in Chiron, also when passes overlap
\* and read each other's answers.
BookedIsFiled ==
  /\ \A r \in trackers \cup jobs : r.bug \in filed
  /\ \A i \in items : i.bug # None => i.bug \in filed
  /\ \A audit \in audits : \A a \in audit.attributes :
       a.bug # None => a.bug \in filed

InHand(b) ==
  \E t \in Threads : thread[t].bucket = b /\ thread[t].at \notin {"next", "end"}

\* A bug filed for a site error has its job for the auto-closer.  Not so when
\* the answer of Chiron is lost or the node stops before the save: nobody
\* closes such a bug.
FiledIsClosable ==
  (Alone /\ faults \cap {"chironThrows", "crash"} = {}) =>
    \A b \in filed : buckets[b].site =>
      InHand(b) \/ [bug |-> b, bucket |-> b] \in jobs

\* When the audit of an agent is saved each bucket has a bug that the audit
\* names, or is recorded as failed.  A pass without YUVA records nothing, and
\* a call that throws is not recorded either.
NothingLost ==
  (Alone /\ faults \cap {"chironThrows", "yuvaThrows"} = {}) =>
    \A audit \in audits : \A b \in Buckets :
      \/ b \in failures
      \/ b \in filed /\ [bucket |-> b, bug |-> b] \in audit.attributes
=============================================================================
