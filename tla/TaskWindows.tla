----------------------------- MODULE TaskWindows -----------------------------
(***************************************************************************)
(* The windows of time a group of agents is processed for.                 *)
(*                                                                         *)
(* The master sends each group to Kafka, at level "TWO" every half hour    *)
(* for its refresh statistics (RefreshStatsSchedular) and at level "ONE"   *)
(* every two hours for its failures (ApplicationStarter).  A consumer      *)
(* reads the group's last audit, fetches from Splunk what came after it,   *)
(* and adds an audit:                                                      *)
(*   TWO  half hour by half hour, the statistics stored before the audit;  *)
(*   ONE  in one window to the present, the audit stored before the        *)
(*        failures are bucketed and the bugs filed.                        *)
(* A pass of level ONE runs on a thread of its own; after 90 minutes the   *)
(* consumer stops waiting and takes other messages, the thread goes on.    *)
(*                                                                         *)
(* The levels share nothing, groups share nothing here: the module is one  *)
(* group at one level.  Time is counted in half hours up to the latest one *)
(* that may be asked for, which is 45 minutes ago at level TWO and half an *)
(* hour at level ONE.  Each node has one consumer.                         *)
(***************************************************************************)
EXTENDS Naturals

CONSTANTS
  Consumers,
  Workers,    \* passes that can be under way
  None,
  Faults,     \* what may go wrong in the environment, out of FaultKinds
  MaxClock,   \* bound: half hours that pass
  MaxQueue    \* bound: messages in Kafka

FaultKinds == {"splunkThrows",  \* no answer, or one that cannot be parsed
               "stepThrows",    \* while failures are bucketed or bugs filed
               "slow",          \* a pass takes longer than 90 minutes
               "crash"}         \* a node stops

ASSUME NoneIsNoWorker == None \notin Workers
ASSUME KnownFaults == Faults \subseteq FaultKinds
ASSUME Bounds == {MaxClock, MaxQueue} \subseteq Nat

VARIABLES
  faults,     \* those of Faults that happen in this behaviour
  consumers,  \* the nodes that run
  level,
  clock,
  queue,      \* messages for the group
  audits,     \* RefreshStatsAudit or ErrorStatsAudit: the windows in it
  done,       \* how often a window is in RefreshStatsCollection, or has all its
              \* bugs filed: 2 is "or more"
  waiting,    \* the pass a consumer waits for
  worker      \* the passes

environment == <<faults, consumers, level>>
vars == <<environment, clock, queue, audits, done, waiting, worker>>

\* The window s, e has the half hours s + 1 .. e.
Window == [start: 0 .. MaxClock, end: 0 .. MaxClock]

WorkerState ==
  [at: {"idle", "read", "fetch", "store", "audit", "process"},
   start: 0 .. MaxClock, end: 0 .. MaxClock,
   limit: 0 .. MaxClock,            \* calCurrent
   node: Consumers \cup {None}]

IdleWorker == [at |-> "idle", start |-> 0, end |-> 0, limit |-> 0, node |-> None]

\* Everything has its type.
TypeOK ==
  /\ faults \subseteq Faults
  /\ consumers \subseteq Consumers
  /\ level \in {"ONE", "TWO"}
  /\ clock \in 0 .. MaxClock
  /\ queue \in 0 .. MaxQueue
  /\ audits \subseteq Window
  /\ done \in [Window -> 0 .. 2]
  /\ waiting \in [Consumers -> Workers \cup {None}]
  /\ worker \in [Workers -> WorkerState]

\* No code stores the first audit of a group: it is there or it is not.
Init ==
  /\ faults \in SUBSET Faults
  /\ consumers \in SUBSET Consumers \ {{}}
  /\ level \in {"ONE", "TWO"}
  /\ clock = 0
  /\ queue = 0
  /\ audits \in {{}, {[start |-> 0, end |-> 0]}}
  /\ done = [W \in Window |-> 0]
  /\ waiting = [c \in Consumers |-> None]
  /\ worker = [w \in Workers |-> IdleWorker]

-----------------------------------------------------------------------------
(***************************************************************************)
(* The environment and the messages.                                       *)
(***************************************************************************)
Tick ==
  /\ clock < MaxClock
  /\ clock' = clock + 1
  /\ UNCHANGED <<environment, queue, audits, done, waiting, worker>>

\* sendAgentsForStats and sendAgentsForAnalysis do not ask what has become of
\* the last message.
Send ==
  /\ queue < MaxQueue
  /\ queue' = queue + 1
  /\ UNCHANGED <<environment, clock, audits, done, waiting, worker>>

\* process(Task), up to the look-up of the audit.
Deliver(c, w) ==
  /\ c \in consumers
  /\ waiting[c] = None
  /\ worker[w].at = "idle"
  /\ queue > 0
  /\ queue' = queue - 1
  /\ waiting' = [waiting EXCEPT ![c] = w]
  /\ worker' = [worker EXCEPT ![w] = [IdleWorker EXCEPT !.at = "read", !.node = c]]
  /\ UNCHANGED <<environment, clock, audits, done>>

\* The consumer of a finished pass takes the next message.
Finish(w) ==
  /\ worker' = [worker EXCEPT ![w] = IdleWorker]
  /\ waiting' = [c \in Consumers |-> IF waiting[c] = w THEN None ELSE waiting[c]]

Timeout(c) ==
  /\ "slow" \in faults
  /\ level = "ONE"
  /\ waiting[c] # None
  /\ waiting' = [waiting EXCEPT ![c] = None]
  /\ UNCHANGED <<environment, clock, queue, audits, done, worker>>

\* The message is delivered again, or not.
Crash(c) ==
  /\ "crash" \in faults
  /\ \E w \in Workers : worker[w].node = c
  /\ queue' \in {queue} \cup (IF waiting[c] = None THEN {} ELSE {queue + 1})
  /\ queue' <= MaxQueue
  /\ waiting' = [waiting EXCEPT ![c] = None]
  /\ worker' = [w \in Workers |->
                  IF worker[w].node = c THEN IdleWorker ELSE worker[w]]
  /\ UNCHANGED <<environment, clock, audits, done>>

-----------------------------------------------------------------------------
(***************************************************************************)
(* A pass.  An exception in any step ends it and frees its consumer.       *)
(***************************************************************************)
\* getInstanceLastAuditData sorts by endTime.
IsLast(e) ==
  /\ \E A \in audits : A.end = e
  /\ \A A \in audits : A.end <= e

\* Mutant: "< 0" for "<= 0".
TryWindowBefore(w, s, e, limit) ==
  IF s < e /\ e < limit
  THEN /\ worker' = [worker EXCEPT ![w] = [@ EXCEPT !.at = "fetch", !.start = s,
                                                 !.end = e, !.limit = limit]]
       /\ UNCHANGED waiting
  ELSE Finish(w)

\* Mutant: the loop goes on into the future.
TryWindowAlways(w, s, e, limit) ==
  /\ worker' = [worker EXCEPT ![w] = [@ EXCEPT !.at = "fetch", !.start = s,
                                               !.end = e, !.limit = limit]]
  /\ UNCHANGED waiting

\* Go on with the window s, e when it is over.  Level ONE has no such test, but
\* a window of no half hour covers nothing and is left out.
TryWindow(w, s, e, limit) ==
  IF s < e /\ e <= limit
  THEN /\ worker' = [worker EXCEPT ![w] = [@ EXCEPT !.at = "fetch", !.start = s,
                                                 !.end = e, !.limit = limit]]
       /\ UNCHANGED waiting
  ELSE Finish(w)

Read(w, e) ==
  /\ worker[w].at = "read"
  /\ IsLast(e)
  /\ IF level = "TWO" THEN TryWindow(w, e, e + 1, clock)
     ELSE TryWindow(w, e, clock, clock)
  /\ UNCHANGED <<environment, clock, queue, audits, done>>

\* Without an audit the query has no first result.
ReadThrows(w) ==
  /\ worker[w].at = "read"
  /\ audits = {}
  /\ Finish(w)
  /\ UNCHANGED <<environment, clock, queue, audits, done>>

Fetch(w) ==
  /\ worker[w].at = "fetch"
  /\ worker' = [worker EXCEPT ![w].at = IF level = "TWO" THEN "store" ELSE "audit"]
  /\ UNCHANGED <<environment, clock, queue, audits, done, waiting>>

\* Mutant: the exception is caught for the window, as that of level ONE is.
FetchThrowsOn(w) ==
  /\ "splunkThrows" \in faults
  /\ worker[w].at = "fetch"
  /\ IF level = "TWO"
     THEN TryWindow(w, worker[w].end, worker[w].end + 1, worker[w].limit)
     ELSE Finish(w)
  /\ UNCHANGED <<environment, clock, queue, audits, done>>

\* At level ONE the exception is swallowed, and the size of the list that is
\* not there throws instead.
FetchThrows(w) ==
  /\ "splunkThrows" \in faults
  /\ worker[w].at = "fetch"
  /\ Finish(w)
  /\ UNCHANGED <<environment, clock, queue, audits, done>>

WindowOf(w) == [start |-> worker[w].start, end |-> worker[w].end]

IsDone(W) == done' = [done EXCEPT ![W] = IF @ = 2 THEN 2 ELSE @ + 1]

\* Mutant: the audit is stored first, then the statistics.
StoreStatsAfterAudit(w) ==
  /\ worker[w].at = "store"
  /\ \/ /\ WindowOf(w) \notin audits
        /\ audits' = audits \cup {WindowOf(w)}
        /\ UNCHANGED <<environment, clock, queue, done, waiting, worker>>
     \/ /\ WindowOf(w) \in audits
        /\ IsDone(WindowOf(w))
        /\ TryWindow(w, worker[w].end, worker[w].end + 1, worker[w].limit)
        /\ UNCHANGED <<environment, clock, queue, audits>>

\* insertAuditRefreshData.
StoreStats(w) ==
  /\ worker[w].at = "store"
  /\ IsDone(WindowOf(w))
  /\ worker' = [worker EXCEPT ![w].at = "audit"]
  /\ UNCHANGED <<environment, clock, queue, audits, waiting>>

\* Mutant: the window of level TWO grows, its start stays.
StoreAuditKeepsStart(w) ==
  /\ worker[w].at = "audit"
  /\ audits' = audits \cup {WindowOf(w)}
  /\ IF level = "TWO"
     THEN TryWindow(w, worker[w].start, worker[w].end + 1, worker[w].limit)
     ELSE worker' = [worker EXCEPT ![w].at = "process"] /\ UNCHANGED waiting
  /\ UNCHANGED <<environment, clock, queue, done>>

\* insertLatestAudit; level TWO goes on with the next half hour, to the limit
\* it took from the clock when it read the last audit.
StoreAudit(w) ==
  /\ worker[w].at = "audit"
  /\ audits' = audits \cup {WindowOf(w)}
  /\ IF level = "TWO"
     THEN TryWindow(w, worker[w].end, worker[w].end + 1, worker[w].limit)
     ELSE worker' = [worker EXCEPT ![w].at = "process"] /\ UNCHANGED waiting
  /\ UNCHANGED <<environment, clock, queue, done>>

\* getHealth after the fetch, and forecastErrorBucket: to the last bug.
Process(w) ==
  /\ worker[w].at = "process"
  /\ IsDone(WindowOf(w))
  /\ Finish(w)
  /\ UNCHANGED <<environment, clock, queue, audits>>

\* doProcessing has one catch around everything.
ProcessThrows(w) ==
  /\ "stepThrows" \in faults
  /\ worker[w].at = "process"
  /\ Finish(w)
  /\ UNCHANGED <<environment, clock, queue, audits, done>>

-----------------------------------------------------------------------------
WorkerNext(w) ==
  \/ \E e \in 0 .. MaxClock : Read(w, e)
  \/ ReadThrows(w)
  \/ Fetch(w)
  \/ FetchThrows(w)
  \/ StoreStats(w)
  \/ StoreAudit(w)
  \/ Process(w)
  \/ ProcessThrows(w)

Deliveries == \E c \in Consumers, w \in Workers : Deliver(c, w)

Next ==
  \/ Tick
  \/ Send
  \/ Deliveries
  \/ \E c \in Consumers : Timeout(c) \/ Crash(c)
  \/ \E w \in Workers : WorkerNext(w)

Spec == Init /\ [][Next]_vars

(***************************************************************************)
(* The master goes on sending, Kafka delivers to a consumer that is free,  *)
(* a pass goes on to its end, and Splunk, asked for a window again and     *)
(* again, answers some time.                                               *)
(***************************************************************************)
FairSpec ==
  /\ Spec
  /\ WF_vars(Send)
  /\ WF_vars(Deliveries)
  /\ \A w \in Workers : WF_vars(WorkerNext(w)) /\ SF_vars(Fetch(w))

-----------------------------------------------------------------------------
(***************************************************************************)
(* Properties.                                                             *)
(***************************************************************************)
Covers(W, h) == W.start < h /\ h <= W.end

\* None before the last audit's end is skipped, whatever goes wrong: a failed
\* fetch is asked for again.
NothingSkipped ==
  \A A \in audits : \A h \in 1 .. A.end : \E B \in audits : Covers(B, h)

\* A window with an audit, which no pass fetches again, is stored.  At level
\* ONE it is processed or in hand, unless the pass ended in between.
AuditedIsDone ==
  \A A \in audits :
    A.end > 0 =>
      \/ done[A] > 0
      \/ /\ level = "ONE"
         /\ \/ faults \cap {"crash", "stepThrows"} # {}
            \/ \E w \in Workers : worker[w].at = "process" /\ WindowOf(w) = A

\* One consumer, and it waits for its pass.
Alone == (\E c \in Consumers : consumers = {c}) /\ "slow" \notin faults

\* A half hour is done once, if passes do not overlap: two deliveries of the
\* group would read the same audit.  A crash between the statistics and their
\* audit has the window stored again.
DoneOnce ==
  (Alone /\ (level = "TWO" => "crash" \notin faults)) =>
    /\ \A W \in Window : done[W] <= 1
    /\ \A V, W \in Window :
         (done[V] > 0 /\ done[W] > 0 /\ V # W) =>
           ~\E h \in 1 .. MaxClock : Covers(V, h) /\ Covers(W, h)

\* Every half hour is done in the end, also when Splunk fails now and then and
\* when passes overlap; not when a pass of level ONE ends after its audit, and
\* not for a group without a first audit.
EveryHalfHourDone ==
  \A h \in 1 .. MaxClock :
    (faults \subseteq {"splunkThrows", "slow"} /\ audits # {} /\ h <= clock)
      ~> \E W \in Window : done[W] > 0 /\ Covers(W, h)
=============================================================================
