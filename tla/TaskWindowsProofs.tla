-------------------------- MODULE TaskWindowsProofs --------------------------
(***************************************************************************)
(* Proofs about TaskWindows, for any number of consumers, passes and half  *)
(* hours.                                                                  *)
(*                                                                         *)
(* Typed is inductive by itself; Reached, Honest and Awaited next to it,   *)
(* and Disjoint, which says that passes which do not overlap never take a  *)
(* half hour again, next to Awaited.                                       *)
(***************************************************************************)
EXTENDS TaskWindows, TLAPS

\* A pass that has a window in hand.
Active == {"fetch", "store", "audit", "process"}

\* A window in hand is over and not empty; each level has its own stages.
Stages ==
  \A w \in Workers :
    /\ worker[w].at \in Active =>
         worker[w].start < worker[w].end /\ worker[w].end <= worker[w].limit
    /\ level = "ONE" => worker[w].at # "store"
    /\ level = "TWO" => worker[w].at # "process"

Typed == TypeOK /\ Stages

\* A window is taken up where the windows of the audits end.
Covered(h) == \E B \in audits : Covers(B, h)

Reached ==
  /\ NothingSkipped
  /\ \A w \in Workers : worker[w].at \in Active =>
       \A h \in 1 .. worker[w].start : Covered(h)

\* Level TWO stores the statistics before the audit.
Honest ==
  /\ AuditedIsDone
  /\ \A w \in Workers :
       level = "TWO" /\ worker[w].at = "audit" => done[WindowOf(w)] > 0

\* When no pass is slow the consumer waits for each until it is idle.
Awaited ==
  "slow" \notin faults =>
    \A w \in Workers : worker[w].at # "idle" =>
      worker[w].node \in consumers /\ waiting[worker[w].node] = w

InOrder == Alone /\ (level = "TWO" => "crash" \notin faults)

\* Every window that is done is in an audit, or its audit is the next thing
\* to be stored.
Known ==
  \A W \in Window : done[W] > 0 =>
    \/ W \in audits
    \/ level = "TWO" /\ \E w \in Workers : worker[w].at = "audit" /\ W = WindowOf(w)

\* The window in hand lies after all that is done, and all that is audited.
Ahead(w) ==
  /\ \A W \in Window : done[W] > 0 =>
       \/ W.end <= worker[w].start
       \/ level = "TWO" /\ worker[w].at = "audit" /\ W = WindowOf(w)
  /\ \A A \in audits :
       \/ A.end <= worker[w].start
       \/ worker[w].at = "process" /\ A = WindowOf(w)
  /\ worker[w].at = "process" => WindowOf(w) \in audits

Apart == \A V, W \in Window :
  (done[V] > 0 /\ done[W] > 0 /\ V # W) => V.end <= W.start \/ W.end <= V.start

Disjoint ==
  InOrder =>
    /\ \A W \in Window : done[W] <= 1
    /\ Apart
    /\ Known
    /\ \A w \in Workers : worker[w].at \in Active => Ahead(w)

-----------------------------------------------------------------------------
(***************************************************************************)
(* What the actions do to the state of their pass.                         *)
(***************************************************************************)
Steps(w) ==
  /\ worker' \in [Workers -> WorkerState]
  /\ \A u \in Workers : u # w => worker'[u] = worker[u]

\* The pass takes up the window s, e.
Takes(w, s, e, limit) ==
  /\ Steps(w) /\ waiting' = waiting
  /\ s < e /\ e <= limit
  /\ worker'[w].at = "fetch" /\ worker'[w].node = worker[w].node
  /\ worker'[w].start = s /\ worker'[w].end = e /\ worker'[w].limit = limit

\* The pass goes on with its window.
Goes(w, at) ==
  /\ Steps(w) /\ waiting' = waiting
  /\ worker'[w].at = at /\ worker'[w].node = worker[w].node
  /\ worker'[w].start = worker[w].start /\ worker'[w].end = worker[w].end
  /\ worker'[w].limit = worker[w].limit

Ends(w) ==
  /\ Steps(w) /\ worker'[w].at = "idle"
  /\ waiting' \in [Consumers -> Workers \cup {None}]
  /\ \A c \in Consumers : waiting'[c] = IF waiting[c] = w THEN None ELSE waiting[c]

LEMMA Numbers == MaxClock \in Nat /\ MaxQueue \in Nat
  BY Bounds

LEMMA IdleTyped == IdleWorker \in WorkerState /\ IdleWorker.at = "idle"
  BY Numbers DEF IdleWorker, WorkerState

LEMMA Finished == ASSUME TypeOK, NEW w \in Workers, Finish(w) PROVE Ends(w)
<1>1. /\ worker' = [worker EXCEPT ![w] = IdleWorker]
      /\ waiting' = [c \in Consumers |-> IF waiting[c] = w THEN None ELSE waiting[c]]
  BY DEF Finish
<1>2. Steps(w) /\ worker'[w] = IdleWorker
  BY <1>1, IdleTyped DEF TypeOK, Steps
<1>3. waiting' \in [Consumers -> Workers \cup {None}]
  BY <1>1 DEF TypeOK
<1> QED BY <1>1, <1>2, <1>3, IdleTyped DEF Ends

LEMMA Tried ==
  ASSUME TypeOK, NEW w \in Workers, NEW s \in 0 .. MaxClock, NEW e \in Nat,
         NEW limit \in 0 .. MaxClock, TryWindow(w, s, e, limit)
  PROVE  Takes(w, s, e, limit) \/ Ends(w)
<1>1. CASE s < e /\ e <= limit
  <2> DEFINE r == [worker[w] EXCEPT !.at = "fetch", !.start = s, !.end = e, !.limit = limit]
  <2>1. worker[w] \in WorkerState  BY DEF TypeOK
  <2>2. e \in 0 .. MaxClock  BY <1>1, Numbers
  <2>3. r \in WorkerState  BY <2>1, <2>2 DEF WorkerState
  <2>4. /\ r.at = "fetch" /\ r.start = s /\ r.end = e /\ r.limit = limit
        /\ r.node = worker[w].node
    BY <2>1 DEF WorkerState
  <2>5. worker' = [worker EXCEPT ![w] = r] /\ waiting' = waiting
    BY <1>1 DEF TryWindow
  <2> HIDE DEF r
  <2>6. Steps(w) /\ worker'[w] = r  BY <2>3, <2>5 DEF TypeOK, Steps
  <2> QED BY <1>1, <2>4, <2>5, <2>6 DEF Takes
<1>2. CASE ~(s < e /\ e <= limit)
  BY <1>2, Finished DEF TryWindow
<1> QED BY <1>1, <1>2

LEMMA Gone ==
  ASSUME TypeOK, NEW w \in Workers,
         NEW at \in {"store", "audit", "process"},
         worker' = [worker EXCEPT ![w].at = at], waiting' = waiting
  PROVE  Goes(w, at)
<1> DEFINE r == [worker[w] EXCEPT !.at = at]
<1>1. worker[w] \in WorkerState  BY DEF TypeOK
<1>2. r \in WorkerState  BY <1>1 DEF WorkerState
<1>3. /\ r.at = at /\ r.start = worker[w].start /\ r.end = worker[w].end
      /\ r.limit = worker[w].limit /\ r.node = worker[w].node
  BY <1>1 DEF WorkerState
<1>4. worker' = [worker EXCEPT ![w] = r]  OBVIOUS
<1> HIDE DEF r
<1>5. Steps(w) /\ worker'[w] = r  BY <1>2, <1>4 DEF TypeOK, Steps
<1> QED BY <1>3, <1>5 DEF Goes

LEMMA WindowTyped ==
  ASSUME TypeOK, NEW w \in Workers
  PROVE  /\ WindowOf(w) \in Window
         /\ WindowOf(w).start = worker[w].start /\ WindowOf(w).end = worker[w].end
<1>1. worker[w] \in WorkerState  BY DEF TypeOK
<1> QED BY <1>1 DEF WindowOf, Window, WorkerState

\* The audit that is read is of a window, and no audit is of a later one.
LEMMA LastEnd ==
  ASSUME TypeOK, NEW e, IsLast(e)
  PROVE  /\ e \in 0 .. MaxClock
         /\ \E A \in audits : A.end = e
         /\ \A A \in audits : A.end <= e
  BY DEF IsLast, TypeOK, Window

LEMMA ReadSteps ==
  ASSUME TypeOK, NEW w \in Workers, NEW e \in 0 .. MaxClock, Read(w, e)
  PROVE  \/ Ends(w)
         \/ \E f \in Nat : Takes(w, e, f, clock)
<1>1. clock \in 0 .. MaxClock  BY DEF TypeOK
<1>2. CASE level = "TWO"
  <2>1. TryWindow(w, e, e + 1, clock)  BY <1>2 DEF Read
  <2>2. e + 1 \in Nat  BY Numbers
  <2>3. Takes(w, e, e + 1, clock) \/ Ends(w)
    BY <1>1, <2>1, <2>2, Tried
  <2> QED BY <2>2, <2>3
<1>3. CASE level # "TWO"
  <2>1. TryWindow(w, e, clock, clock)  BY <1>3 DEF Read
  <2>2. clock \in Nat  BY <1>1, Numbers
  <2>3. Takes(w, e, clock, clock) \/ Ends(w)
    BY <1>1, <2>1, <2>2, Tried
  <2> QED BY <2>2, <2>3
<1> QED BY <1>2, <1>3

LEMMA StoreAuditSteps ==
  ASSUME TypeOK, NEW w \in Workers, StoreAudit(w)
  PROVE  /\ level = "ONE" => Goes(w, "process")
         /\ level = "TWO" =>
              \/ Ends(w)
              \/ Takes(w, worker[w].end, worker[w].end + 1, worker[w].limit)
<1>1. worker[w] \in WorkerState  BY DEF TypeOK
<1>2. CASE level = "TWO"
  <2>1. TryWindow(w, worker[w].end, worker[w].end + 1, worker[w].limit)
    BY <1>2 DEF StoreAudit
  <2>2. /\ worker[w].end \in 0 .. MaxClock /\ worker[w].limit \in 0 .. MaxClock
        /\ worker[w].end + 1 \in Nat
    BY <1>1, Numbers DEF WorkerState
  <2> QED BY <1>2, <2>1, <2>2, Tried
<1>3. CASE level # "TWO"
  BY <1>3, Gone DEF StoreAudit
<1> QED BY <1>2, <1>3

LEMMA DoneMore ==
  ASSUME TypeOK, NEW W \in Window, IsDone(W)
  PROVE  /\ done' \in [Window -> 0 .. 2]
         /\ done'[W] > 0
         /\ done[W] = 0 => done'[W] = 1
         /\ \A V \in Window : V # W => done'[V] = done[V]
         /\ \A V \in Window : done[V] > 0 => done'[V] > 0
<1>1. done \in [Window -> 0 .. 2]  BY DEF TypeOK
<1> DEFINE n == IF done[W] = 2 THEN 2 ELSE done[W] + 1
<1>2. done' = [done EXCEPT ![W] = n]  BY DEF IsDone
<1>3. done[W] \in 0 .. 2  BY <1>1
<1>4. n \in 0 .. 2 /\ n > 0 /\ (done[W] = 0 => n = 1)  BY <1>3
<1> HIDE DEF n
<1>5. done'[W] = n /\ \A V \in Window : V # W => done'[V] = done[V]
  BY <1>1, <1>2
<1>6. done' \in [Window -> 0 .. 2]  BY <1>1, <1>2, <1>4
<1> QED BY <1>1, <1>4, <1>5, <1>6

\* The names of the actions of a pass, by what they leave alone.
LEMMA PassCases ==
  ASSUME NEW w \in Workers, WorkerNext(w)
  PROVE  \/ \E e \in 0 .. MaxClock : Read(w, e)
         \/ Fetch(w) \/ StoreStats(w) \/ StoreAudit(w) \/ Process(w)
         \/ ReadThrows(w) \/ FetchThrows(w) \/ ProcessThrows(w)
  BY DEF WorkerNext

LEMMA ThrowsSteps ==
  ASSUME TypeOK, NEW w \in Workers,
         ReadThrows(w) \/ FetchThrows(w) \/ ProcessThrows(w)
  PROVE  /\ Ends(w) /\ UNCHANGED <<environment, clock, queue, audits, done>>
         /\ worker[w].at \in {"read", "fetch", "process"}
         /\ worker[w].at = "process" => "stepThrows" \in faults
  BY Finished DEF ReadThrows, FetchThrows, ProcessThrows

LEMMA FetchSteps ==
  ASSUME TypeOK, NEW w \in Workers, Fetch(w)
  PROVE  /\ worker[w].at = "fetch"
         /\ level = "TWO" => Goes(w, "store")
         /\ level = "ONE" => Goes(w, "audit")
         /\ UNCHANGED <<environment, clock, queue, audits, done>>
  BY Gone DEF Fetch

LEMMA StoreStatsSteps ==
  ASSUME TypeOK, NEW w \in Workers, StoreStats(w)
  PROVE  /\ worker[w].at = "store" /\ Goes(w, "audit") /\ IsDone(WindowOf(w))
         /\ UNCHANGED <<environment, clock, queue, audits>>
  BY Gone DEF StoreStats

LEMMA ProcessSteps ==
  ASSUME TypeOK, NEW w \in Workers, Process(w)
  PROVE  /\ worker[w].at = "process" /\ Ends(w) /\ IsDone(WindowOf(w))
         /\ UNCHANGED <<environment, clock, queue, audits>>
  BY Finished DEF Process

LEMMA DeliverSteps ==
  ASSUME TypeOK, NEW c \in Consumers, NEW w \in Workers, Deliver(c, w)
  PROVE  /\ Steps(w) /\ worker'[w].at = "read" /\ worker'[w].node = c
         /\ worker[w].at = "idle" /\ waiting[c] = None /\ c \in consumers
         /\ waiting' \in [Consumers -> Workers \cup {None}]
         /\ waiting'[c] = w /\ \A d \in Consumers : d # c => waiting'[d] = waiting[d]
         /\ queue' \in 0 .. MaxQueue
         /\ UNCHANGED <<environment, clock, audits, done>>
<1> DEFINE r == [IdleWorker EXCEPT !.at = "read", !.node = c]
<1>1. r \in WorkerState /\ r.at = "read" /\ r.node = c
  BY IdleTyped DEF WorkerState
<1>2. worker' = [worker EXCEPT ![w] = r]  BY DEF Deliver
<1> HIDE DEF r
<1>3. Steps(w) /\ worker'[w] = r  BY <1>1, <1>2 DEF TypeOK, Steps
<1>4. queue' \in 0 .. MaxQueue  BY Numbers DEF Deliver, TypeOK
<1> QED BY <1>1, <1>3, <1>4 DEF Deliver, TypeOK

LEMMA CrashSteps ==
  ASSUME TypeOK, NEW c \in Consumers, Crash(c)
  PROVE  /\ "crash" \in faults
         /\ worker' \in [Workers -> WorkerState]
         /\ \A w \in Workers :
              \/ worker'[w] = worker[w] /\ worker[w].node # c
              \/ worker'[w].at = "idle"
         /\ waiting' \in [Consumers -> Workers \cup {None}]
         /\ \A d \in Consumers : d # c => waiting'[d] = waiting[d]
         /\ queue' \in 0 .. MaxQueue
         /\ UNCHANGED <<environment, clock, audits, done>>
<1>1. worker' = [w \in Workers |->
                   IF worker[w].node = c THEN IdleWorker ELSE worker[w]]
  BY DEF Crash
<1>2. worker' \in [Workers -> WorkerState]
  BY <1>1, IdleTyped DEF TypeOK
<1>3. \A w \in Workers : \/ worker'[w] = worker[w] /\ worker[w].node # c
                         \/ worker'[w].at = "idle"
  BY <1>1, IdleTyped
<1>4. queue' \in 0 .. MaxQueue
  <2>1. queue' \in {queue, queue + 1} /\ queue' <= MaxQueue  BY DEF Crash
  <2> QED BY <2>1, Numbers DEF TypeOK
<1> QED BY <1>2, <1>3, <1>4 DEF Crash, TypeOK

LEMMA StepCases ==
  ASSUME [Next]_vars
  PROVE  \/ UNCHANGED vars \/ Tick \/ Send
         \/ \E c \in Consumers, w \in Workers : Deliver(c, w)
         \/ \E c \in Consumers : Timeout(c)
         \/ \E c \in Consumers : Crash(c)
         \/ \E w \in Workers : WorkerNext(w)
  BY DEF Next, Deliveries

-----------------------------------------------------------------------------
(***************************************************************************)
(* Typing.                                                                 *)
(***************************************************************************)
LEMMA TypedInit == Init => Typed
<1> SUFFICES ASSUME Init PROVE Typed  OBVIOUS
<1>1. TypeOK
  BY Numbers, IdleTyped DEF Init, TypeOK, Window
<1>2. Stages  BY DEF Init, Stages, IdleWorker, Active
<1> QED BY <1>1, <1>2 DEF Typed

StagesOf(w) ==
  /\ worker[w].at \in Active =>
       worker[w].start < worker[w].end /\ worker[w].end <= worker[w].limit
  /\ level = "ONE" => worker[w].at # "store"
  /\ level = "TWO" => worker[w].at # "process"

LEMMA StagesStep ==
  ASSUME Typed, NEW w \in Workers, Steps(w), level' = level, StagesOf(w)'
  PROVE  Stages'
<1>1. \A u \in Workers : StagesOf(u)'
  BY DEF Typed, Stages, StagesOf, Steps
<1> QED BY <1>1 DEF Stages, StagesOf

LEMMA TypedPass ==
  ASSUME Typed, NEW w \in Workers, WorkerNext(w)
  PROVE  Typed'
<1>1. TypeOK /\ StagesOf(w) /\ level \in {"ONE", "TWO"}
  BY DEF Typed, Stages, StagesOf, TypeOK
<1>2. ASSUME UNCHANGED <<environment, clock, queue, audits>>, Steps(w),
             StagesOf(w)', waiting' \in [Consumers -> Workers \cup {None}],
             done' \in [Window -> 0 .. 2]
      PROVE  Typed'
  <2>1. TypeOK'  BY <1>1, <1>2 DEF TypeOK, Steps, environment
  <2>2. Stages'  BY <1>2, StagesStep DEF environment
  <2> QED BY <2>1, <2>2 DEF Typed
<1>3. waiting \in [Consumers -> Workers \cup {None}] /\ done \in [Window -> 0 .. 2]
  BY <1>1 DEF TypeOK
<1>4. Ends(w) => StagesOf(w)'
  BY DEF Ends, StagesOf, Active
<1>5. CASE \E e \in 0 .. MaxClock : Read(w, e)
  <2>1. PICK e \in 0 .. MaxClock : Read(w, e)  BY <1>5
  <2>2. UNCHANGED <<environment, clock, queue, audits, done>>  BY <2>1 DEF Read
  <2>3. CASE Ends(w)
    BY <1>2, <1>3, <1>4, <2>2, <2>3 DEF Ends
  <2>4. CASE \E f \in Nat : Takes(w, e, f, clock)
    <3>1. Steps(w) /\ waiting' = waiting /\ StagesOf(w)'
      BY <2>4 DEF Takes, StagesOf
    <3> QED BY <1>2, <1>3, <2>2, <3>1
  <2> QED BY <1>1, <2>1, <2>3, <2>4, ReadSteps
<1>6. CASE Fetch(w)
  <2>1. /\ UNCHANGED <<environment, clock, queue, audits, done>>
        /\ worker[w].at = "fetch"
        /\ level = "TWO" => Goes(w, "store")
        /\ level = "ONE" => Goes(w, "audit")
    BY <1>1, <1>6, FetchSteps
  <2>2. Steps(w) /\ waiting' = waiting /\ StagesOf(w)'
    BY <1>1, <2>1 DEF Goes, StagesOf, Active, environment
  <2> QED BY <1>2, <1>3, <2>1, <2>2
<1>7. CASE StoreStats(w)
  <2>1. /\ UNCHANGED <<environment, clock, queue, audits>>
        /\ worker[w].at = "store" /\ Goes(w, "audit") /\ IsDone(WindowOf(w))
    BY <1>1, <1>7, StoreStatsSteps
  <2>2. Steps(w) /\ waiting' = waiting /\ StagesOf(w)'
    BY <1>1, <2>1 DEF Goes, StagesOf, Active, environment
  <2>3. done' \in [Window -> 0 .. 2]
    BY <1>1, <2>1, WindowTyped, DoneMore
  <2> QED BY <1>2, <1>3, <2>1, <2>2, <2>3
<1>8. CASE StoreAudit(w)
  <2>1. /\ UNCHANGED <<environment, clock, queue, done>> /\ worker[w].at = "audit"
        /\ audits' = audits \cup {WindowOf(w)}
    BY <1>8 DEF StoreAudit
  <2>2. /\ Steps(w) /\ waiting' \in [Consumers -> Workers \cup {None}]
        /\ StagesOf(w)'
    <3>1. CASE Goes(w, "process") /\ level = "ONE"
      BY <1>1, <1>3, <2>1, <3>1 DEF Goes, StagesOf, Active, environment
    <3>2. CASE Ends(w)
      BY <1>4, <3>2 DEF Ends
    <3>3. CASE Takes(w, worker[w].end, worker[w].end + 1, worker[w].limit)
      BY <1>3, <3>3 DEF Takes, StagesOf
    <3> QED BY <1>1, <1>8, <3>1, <3>2, <3>3, StoreAuditSteps
  <2>3. audits' \subseteq Window
    BY <1>1, <2>1, WindowTyped DEF TypeOK
  <2>4. TypeOK'
    BY <1>1, <2>1, <2>2, <2>3 DEF TypeOK, Steps, environment
  <2>5. Stages'
    BY <2>1, <2>2, StagesStep DEF environment
  <2> QED BY <2>4, <2>5 DEF Typed
<1>9. CASE Process(w)
  <2>1. /\ UNCHANGED <<environment, clock, queue, audits>>
        /\ Ends(w) /\ IsDone(WindowOf(w))
    BY <1>1, <1>9, ProcessSteps
  <2>2. done' \in [Window -> 0 .. 2]
    BY <1>1, <2>1, WindowTyped, DoneMore
  <2> QED BY <1>2, <1>4, <2>1, <2>2 DEF Ends
<1>10. CASE ReadThrows(w) \/ FetchThrows(w) \/ ProcessThrows(w)
  <2>1. Ends(w) /\ UNCHANGED <<environment, clock, queue, audits, done>>
    BY <1>1, <1>10, ThrowsSteps
  <2> QED BY <1>2, <1>3, <1>4, <2>1 DEF Ends
<1> QED BY <1>5, <1>6, <1>7, <1>8, <1>9, <1>10, PassCases

LEMMA TypedNext == Typed /\ [Next]_vars => Typed'
<1> SUFFICES ASSUME Typed, [Next]_vars PROVE Typed'  OBVIOUS
<1>1. TypeOK  BY DEF Typed
<1>2. CASE UNCHANGED vars
  BY <1>2 DEF Typed, TypeOK, Stages, vars, environment
<1>3. CASE Tick
  <2>1. clock' \in 0 .. MaxClock  BY <1>1, <1>3, Numbers DEF Tick, TypeOK
  <2> QED BY <1>3, <2>1 DEF Tick, Typed, TypeOK, Stages, environment
<1>4. CASE Send
  <2>1. queue' \in 0 .. MaxQueue  BY <1>1, <1>4, Numbers DEF Send, TypeOK
  <2> QED BY <1>4, <2>1 DEF Send, Typed, TypeOK, Stages, environment
<1>5. ASSUME NEW c \in Consumers, NEW w \in Workers, Deliver(c, w) PROVE Typed'
  <2>1. /\ Steps(w) /\ worker'[w].at = "read"
        /\ waiting' \in [Consumers -> Workers \cup {None}]
        /\ queue' \in 0 .. MaxQueue
        /\ UNCHANGED <<environment, clock, audits, done>>
    BY <1>1, <1>5, DeliverSteps
  <2>2. TypeOK'  BY <1>1, <2>1 DEF TypeOK, Steps, environment
  <2>3. StagesOf(w)'  BY <2>1 DEF StagesOf, Active
  <2>4. Stages'  BY <2>1, <2>3, StagesStep DEF environment
  <2> QED BY <2>2, <2>4 DEF Typed
<1>6. ASSUME NEW c \in Consumers, Timeout(c) PROVE Typed'
  <2>1. /\ UNCHANGED <<environment, clock, queue, audits, done, worker>>
        /\ waiting' \in [Consumers -> Workers \cup {None}]
    BY <1>1, <1>6 DEF Timeout, TypeOK
  <2> QED BY <2>1 DEF Typed, TypeOK, Stages, environment
<1>7. ASSUME NEW c \in Consumers, Crash(c) PROVE Typed'
  <2>1. /\ worker' \in [Workers -> WorkerState]
        /\ \A w \in Workers : worker'[w] = worker[w] \/ worker'[w].at = "idle"
        /\ waiting' \in [Consumers -> Workers \cup {None}]
        /\ queue' \in 0 .. MaxQueue
        /\ UNCHANGED <<environment, clock, audits, done>>
    BY <1>1, <1>7, CrashSteps
  <2>2. TypeOK'  BY <1>1, <2>1 DEF TypeOK, environment
  <2>3. ASSUME NEW w \in Workers PROVE StagesOf(w)'
    BY <2>1 DEF Typed, Stages, StagesOf, Active, environment
  <2>4. Stages'  BY <2>3 DEF Stages, StagesOf
  <2> QED BY <2>2, <2>4 DEF Typed
<1>8. ASSUME NEW w \in Workers, WorkerNext(w) PROVE Typed'
  BY <1>8, TypedPass
<1> QED BY <1>2, <1>3, <1>4, <1>5, <1>6, <1>7, <1>8, StepCases

\* For any number of consumers, passes and half hours everything has its type;
\* the window of a pass and its audit stay within the clock.
THEOREM Types == Spec => []TypeOK
<1>1. Typed => TypeOK  BY DEF Typed
<1> QED BY <1>1, TypedInit, TypedNext, PTL DEF Spec
-----------------------------------------------------------------------------
(***************************************************************************)
(* No half hour is skipped.                                                *)
(***************************************************************************)
UpTo(S, n) == \A h \in 1 .. n : \E A \in S : Covers(A, h)

LEMMA ReachedIs ==
  Reached <=> /\ \A A \in audits : UpTo(audits, A.end)
              /\ \A w \in Workers : worker[w].at \in Active => UpTo(audits, worker[w].start)
  BY DEF Reached, NothingSkipped, UpTo, Covered

LEMMA UpToStays ==
  ASSUME audits \subseteq audits', NEW n, UpTo(audits, n) PROVE UpTo(audits', n)
  BY DEF UpTo

LEMMA ReachedStep ==
  ASSUME Reached, audits' = audits,
         \A w \in Workers : worker'[w].at \in Active =>
           \/ worker[w].at \in Active /\ worker'[w].start = worker[w].start
           \/ \E A \in audits : worker'[w].start = A.end
  PROVE  Reached'
<1>1. \A n : UpTo(audits, n) => UpTo(audits', n)
  BY UpToStays
<1>2. \A A \in audits' : UpTo(audits', A.end)
  BY <1>1, ReachedIs
<1>3. ASSUME NEW w \in Workers, worker'[w].at \in Active PROVE UpTo(audits', worker'[w].start)
  BY <1>1, <1>3, ReachedIs
<1> QED
  BY <1>2, <1>3 DEF Reached, NothingSkipped, UpTo, Covered

LEMMA ReachedInit == Init => Reached
<1> SUFFICES ASSUME Init PROVE Reached  OBVIOUS
<1>1. \A A \in audits : A.end = 0  BY DEF Init
<1>2. UpTo(audits, 0)  BY DEF UpTo
<1>3. \A w \in Workers : worker[w].at \notin Active
  BY DEF Init, IdleWorker, Active
<1> QED BY <1>1, <1>2, <1>3, ReachedIs

\* The audit of the window in hand takes the half hours up to its end.
LEMMA ReachedStoreAudit ==
  ASSUME Typed, Reached, NEW w \in Workers, StoreAudit(w)
  PROVE  Reached'
<1>1. /\ worker[w].at = "audit" /\ audits' = audits \cup {WindowOf(w)}
  BY DEF StoreAudit
<1>2. /\ TypeOK /\ worker[w] \in WorkerState /\ worker[w].start < worker[w].end
      /\ level \in {"ONE", "TWO"}
  BY <1>1 DEF Typed, TypeOK, Stages, Active
<1>3. /\ WindowOf(w).start = worker[w].start /\ WindowOf(w).end = worker[w].end
      /\ worker[w].start \in Nat /\ worker[w].end \in Nat
  BY <1>2, WindowTyped DEF WorkerState
<1>4. \A n : UpTo(audits, n) => UpTo(audits', n)
  BY <1>1, UpToStays
<1>5. UpTo(audits', worker[w].start)
  BY <1>1, <1>4, ReachedIs DEF Active
<1>6. UpTo(audits', worker[w].end)
  <2> SUFFICES ASSUME NEW h \in 1 .. worker[w].end PROVE \E A \in audits' : Covers(A, h)
    BY DEF UpTo
  <2>1. CASE h <= worker[w].start
    <3>1. h \in 1 .. worker[w].start  BY <1>3, <2>1
    <3>2. \A i \in 1 .. worker[w].start : \E A \in audits' : Covers(A, i)
      BY <1>5 DEF UpTo
    <3> QED BY <3>1, <3>2
  <2>2. CASE h > worker[w].start
    <3>1. Covers(WindowOf(w), h)  BY <1>3, <2>2 DEF Covers
    <3> QED BY <1>1, <3>1
  <2> QED BY <1>3, <2>1, <2>2
<1>7. \A A \in audits' : UpTo(audits', A.end)
  BY <1>1, <1>3, <1>4, <1>6, ReachedIs
<1>8. worker'[w].at \in Active => UpTo(audits', worker'[w].start)
  <2>1. CASE Goes(w, "process")  BY <1>5, <2>1 DEF Goes
  <2>2. CASE Ends(w)  BY <2>2 DEF Ends, Active
  <2>3. CASE Takes(w, worker[w].end, worker[w].end + 1, worker[w].limit)
    BY <1>6, <2>3 DEF Takes
  <2> QED BY <1>2, <2>1, <2>2, <2>3, StoreAuditSteps
<1>9. Steps(w)
  BY <1>2, StoreAuditSteps DEF Goes, Ends, Takes
<1>10. ASSUME NEW u \in Workers, worker'[u].at \in Active
       PROVE  UpTo(audits', worker'[u].start)
  <2>1. CASE u = w  BY <1>8, <1>10, <2>1
  <2>2. CASE u # w
    <3>1. worker'[u] = worker[u]  BY <1>9, <2>2 DEF Steps
    <3>2. UpTo(audits, worker[u].start)  BY <1>10, <3>1, ReachedIs
    <3> QED BY <1>4, <3>1, <3>2
  <2> QED BY <2>1, <2>2
<1> QED
  BY <1>7, <1>10 DEF Reached, NothingSkipped, UpTo, Covered

LEMMA ReachedPass ==
  ASSUME Typed, Reached, NEW w \in Workers, WorkerNext(w)
  PROVE  Reached'
<1>1. TypeOK /\ level \in {"ONE", "TWO"}  BY DEF Typed, TypeOK
<1>2. ASSUME audits' = audits, Ends(w) PROVE Reached'
  BY <1>2, ReachedStep DEF Ends, Steps, Active
<1>3. ASSUME audits' = audits, worker[w].at \in Active,
             NEW at, Goes(w, at)
      PROVE  Reached'
  BY <1>3, ReachedStep DEF Goes, Steps
<1>4. CASE \E e \in 0 .. MaxClock : Read(w, e)
  <2>1. PICK e \in 0 .. MaxClock : Read(w, e)  BY <1>4
  <2>2. audits' = audits /\ \E A \in audits : A.end = e
    BY <1>1, <2>1, LastEnd DEF Read
  <2>3. CASE \E f \in Nat : Takes(w, e, f, clock)
    BY <2>2, <2>3, ReachedStep DEF Takes, Steps
  <2> QED BY <1>1, <1>2, <2>1, <2>2, <2>3, ReadSteps
<1>5. CASE Fetch(w)
  BY <1>1, <1>3, <1>5, FetchSteps DEF Active
<1>6. CASE StoreStats(w)
  BY <1>1, <1>3, <1>6, StoreStatsSteps DEF Active
<1>7. CASE StoreAudit(w)
  BY <1>7, ReachedStoreAudit
<1>8. CASE Process(w)
  BY <1>1, <1>2, <1>8, ProcessSteps
<1>9. CASE ReadThrows(w) \/ FetchThrows(w) \/ ProcessThrows(w)
  BY <1>1, <1>2, <1>9, ThrowsSteps
<1> QED BY <1>4, <1>5, <1>6, <1>7, <1>8, <1>9, PassCases

LEMMA ReachedNext == Typed /\ Reached /\ [Next]_vars => Reached'
<1> SUFFICES ASSUME Typed, Reached, [Next]_vars PROVE Reached'  OBVIOUS
<1>1. TypeOK  BY DEF Typed
<1>2. CASE UNCHANGED vars \/ Tick \/ Send \/ \E c \in Consumers : Timeout(c)
  <2>1. audits' = audits /\ worker' = worker
    BY <1>2 DEF vars, Tick, Send, Timeout
  <2> QED BY <2>1, ReachedStep
<1>3. ASSUME NEW c \in Consumers, NEW w \in Workers, Deliver(c, w) PROVE Reached'
  <2>1. Steps(w) /\ worker'[w].at = "read" /\ audits' = audits
    BY <1>1, <1>3, DeliverSteps
  <2> QED BY <2>1, ReachedStep DEF Steps, Active
<1>4. ASSUME NEW c \in Consumers, Crash(c) PROVE Reached'
  <2>1. /\ \A w \in Workers : worker'[w] = worker[w] \/ worker'[w].at = "idle"
        /\ audits' = audits
    BY <1>1, <1>4, CrashSteps
  <2> QED BY <2>1, ReachedStep DEF Active
<1> QED BY <1>2, <1>3, <1>4, ReachedPass, StepCases

\* For any number of half hours, passes and nodes, and whatever fails: before
\* the end of the last audit no half hour is outside every window that has an
\* audit.  A pass that takes up a window starts where an audit ends, and one
\* that fails leaves no audit, also when passes of one group overlap.
THEOREM SkipsNothing == Spec => []NothingSkipped
<1>1. Reached => NothingSkipped  BY DEF Reached
<1> QED BY <1>1, TypedInit, TypedNext, ReachedInit, ReachedNext, PTL DEF Spec

-----------------------------------------------------------------------------
(***************************************************************************)
(* A window with an audit is done, or in hand, or was given up.            *)
(***************************************************************************)
InProcess(A) == \E w \in Workers : worker[w].at = "process" /\ WindowOf(w) = A

Accounted(A) ==
  \/ done[A] > 0
  \/ level = "ONE" /\ (faults \cap {"crash", "stepThrows"} # {} \/ InProcess(A))

LEMMA HonestIs ==
  Honest <=> /\ \A A \in audits : A.end > 0 => Accounted(A)
             /\ \A w \in Workers : level = "TWO" /\ worker[w].at = "audit" =>
                                     done[WindowOf(w)] > 0
  BY DEF Honest, AuditedIsDone, Accounted, InProcess

LEMMA HonestInit == Init => Honest
<1> SUFFICES ASSUME Init PROVE Honest  OBVIOUS
<1>1. \A A \in audits : A.end = 0  BY DEF Init
<1>2. \A w \in Workers : worker[w].at = "idle"  BY DEF Init, IdleWorker
<1> QED BY <1>1, <1>2 DEF Honest, AuditedIsDone

\* The windows of the other passes are what they were.
LEMMA OtherWindows ==
  ASSUME NEW w, Steps(w)
  PROVE  \A u \in Workers : u # w => WindowOf(u)' = WindowOf(u)
  BY DEF Steps, WindowOf

LEMMA HonestStep ==
  ASSUME Typed, Honest, NEW w \in Workers, Steps(w), UNCHANGED environment,
         \A V \in Window : done[V] > 0 => done'[V] > 0,
         level = "TWO" /\ worker'[w].at = "audit" => done'[WindowOf(w)'] > 0,
         worker[w].at # "process" \/ done'[WindowOf(w)] > 0
           \/ faults \cap {"crash", "stepThrows"} # {},
         \A A \in audits' : A \in audits \/ Accounted(A)'
  PROVE  Honest'
<1>1. TypeOK /\ audits \subseteq Window  BY DEF Typed, TypeOK
<1>2. UNCHANGED <<faults, level>>  BY DEF environment
<1>3. ASSUME NEW A \in audits, Accounted(A) PROVE Accounted(A)'
  <2>1. A \in Window  BY <1>1
  <2>2. CASE done[A] > 0  BY <2>1, <2>2 DEF Accounted
  <2>3. CASE level = "ONE" /\ faults \cap {"crash", "stepThrows"} # {}
    BY <1>2, <2>3 DEF Accounted
  <2>4. CASE level = "ONE" /\ InProcess(A)
    <3>1. PICK u \in Workers : worker[u].at = "process" /\ WindowOf(u) = A
      BY <2>4 DEF InProcess
    <3>2. CASE u = w
      BY <1>2, <2>4, <3>1, <3>2 DEF Accounted
    <3>3. CASE u # w
      <4>1. worker'[u] = worker[u] /\ WindowOf(u)' = WindowOf(u)
        BY <3>3, OtherWindows DEF Steps
      <4>2. InProcess(A)'  BY <3>1, <4>1 DEF InProcess
      <4> QED BY <1>2, <2>4, <4>2 DEF Accounted
    <3> QED BY <3>2, <3>3
  <2> QED BY <1>3, <2>2, <2>3, <2>4 DEF Accounted
<1>4. \A A \in audits' : A.end > 0 => Accounted(A)'
  BY <1>3, HonestIs
<1>5. ASSUME NEW u \in Workers, level' = "TWO", worker'[u].at = "audit"
      PROVE  done'[WindowOf(u)'] > 0
  <2>1. CASE u = w  BY <1>2, <1>5, <2>1
  <2>2. CASE u # w
    <3>1. worker'[u] = worker[u] /\ WindowOf(u)' = WindowOf(u)
      BY <2>2, OtherWindows DEF Steps
    <3>2. done[WindowOf(u)] > 0  BY <1>2, <1>5, <3>1, HonestIs
    <3>3. WindowOf(u) \in Window  BY <1>1, WindowTyped
    <3> QED BY <3>1, <3>2, <3>3
  <2> QED BY <2>1, <2>2
<1> QED BY <1>4, <1>5 DEF Honest, AuditedIsDone, Accounted, InProcess

LEMMA HonestPass ==
  ASSUME Typed, Honest, NEW w \in Workers, WorkerNext(w)
  PROVE  Honest'
<1>1. TypeOK /\ level \in {"ONE", "TWO"}  BY DEF Typed, TypeOK
<1>2. WindowOf(w) \in Window  BY <1>1, WindowTyped
<1>3. CASE \E e \in 0 .. MaxClock : Read(w, e)
  <2>1. PICK e \in 0 .. MaxClock : Read(w, e)  BY <1>3
  <2>2. /\ UNCHANGED <<environment, clock, queue, audits, done>>
        /\ worker[w].at = "read"
    BY <2>1 DEF Read
  <2>3. Steps(w) /\ worker'[w].at # "audit"
    BY <1>1, <2>1, ReadSteps DEF Takes, Ends
  <2> QED BY <2>2, <2>3, HonestStep
<1>4. CASE Fetch(w)
  <2>1. /\ UNCHANGED <<environment, clock, queue, audits, done>>
        /\ worker[w].at = "fetch" /\ Steps(w)
        /\ level = "TWO" => worker'[w].at # "audit"
    BY <1>1, <1>4, FetchSteps DEF Goes
  <2> QED BY <2>1, HonestStep
<1>5. CASE StoreStats(w)
  <2>1. /\ UNCHANGED <<environment, clock, queue, audits>>
        /\ worker[w].at = "store" /\ Goes(w, "audit") /\ IsDone(WindowOf(w))
    BY <1>1, <1>5, StoreStatsSteps
  <2>2. WindowOf(w)' = WindowOf(w)
    BY <2>1 DEF Goes, WindowOf
  <2>3. /\ \A V \in Window : done[V] > 0 => done'[V] > 0
        /\ done'[WindowOf(w)] > 0
    BY <1>1, <1>2, <2>1, DoneMore
  <2>4. Steps(w)  BY <2>1 DEF Goes
  <2> QED BY <2>1, <2>2, <2>3, <2>4, HonestStep
<1>6. CASE StoreAudit(w)
  <2>1. /\ UNCHANGED <<environment, clock, queue, done>> /\ worker[w].at = "audit"
        /\ audits' = audits \cup {WindowOf(w)}
    BY <1>6 DEF StoreAudit
  <2>2. Steps(w) /\ worker'[w].at # "audit"
    BY <1>1, <1>6, StoreAuditSteps DEF Goes, Ends, Takes
  <2>3. ASSUME NEW A \in {WindowOf(w)} PROVE Accounted(A)'
    <3>1. CASE level = "TWO"
      <4>1. done[WindowOf(w)] > 0  BY <2>1, <3>1, HonestIs
      <4> QED BY <2>1, <2>3, <4>1 DEF Accounted
    <3>2. CASE level = "ONE"
      <4>1. Goes(w, "process")  BY <1>1, <1>6, <3>2, StoreAuditSteps
      <4>2. worker'[w].at = "process" /\ WindowOf(w)' = WindowOf(w)
        BY <4>1 DEF Goes, WindowOf
      <4>3. level' = "ONE"  BY <2>1, <3>2 DEF environment
      <4> QED BY <2>3, <4>2, <4>3 DEF Accounted, InProcess
    <3> QED BY <1>1, <3>1, <3>2
  <2>4. \A A \in audits' : A \in audits \/ Accounted(A)'
    BY <2>1, <2>3
  <2> QED BY <2>1, <2>2, <2>4, HonestStep
<1>7. CASE Process(w)
  <2>1. /\ UNCHANGED <<environment, clock, queue, audits>>
        /\ Ends(w) /\ IsDone(WindowOf(w))
    BY <1>1, <1>7, ProcessSteps
  <2>2. /\ \A V \in Window : done[V] > 0 => done'[V] > 0
        /\ done'[WindowOf(w)] > 0
    BY <1>1, <1>2, <2>1, DoneMore
  <2>3. Steps(w) /\ worker'[w].at # "audit"  BY <2>1 DEF Ends
  <2> QED BY <2>1, <2>2, <2>3, HonestStep
<1>8. CASE ReadThrows(w) \/ FetchThrows(w) \/ ProcessThrows(w)
  <2>1. /\ Ends(w) /\ UNCHANGED <<environment, clock, queue, audits, done>>
        /\ worker[w].at = "process" => "stepThrows" \in faults
    BY <1>1, <1>8, ThrowsSteps
  <2>2. Steps(w) /\ worker'[w].at # "audit"  BY <2>1 DEF Ends
  <2> QED BY <2>1, <2>2, HonestStep
<1> QED BY <1>3, <1>4, <1>5, <1>6, <1>7, <1>8, PassCases

LEMMA HonestNext == Typed /\ Honest /\ [Next]_vars => Honest'
<1> SUFFICES ASSUME Typed, Honest, [Next]_vars PROVE Honest'  OBVIOUS
<1>1. TypeOK  BY DEF Typed
<1>2. CASE UNCHANGED vars \/ Tick \/ Send \/ \E c \in Consumers : Timeout(c)
  <2>1. UNCHANGED <<environment, audits, done, worker>>
    BY <1>2 DEF vars, Tick, Send, Timeout
  <2> QED BY <2>1 DEF Honest, AuditedIsDone, WindowOf, environment
<1>3. ASSUME NEW c \in Consumers, NEW w \in Workers, Deliver(c, w) PROVE Honest'
  <2>1. /\ Steps(w) /\ worker'[w].at = "read" /\ worker[w].at = "idle"
        /\ UNCHANGED <<environment, clock, audits, done>>
    BY <1>1, <1>3, DeliverSteps
  <2> QED BY <2>1, HonestStep
<1>4. ASSUME NEW c \in Consumers, Crash(c) PROVE Honest'
  <2>1. /\ \A w \in Workers : worker'[w] = worker[w] \/ worker'[w].at = "idle"
        /\ UNCHANGED <<environment, clock, audits, done>> /\ "crash" \in faults
    BY <1>1, <1>4, CrashSteps
  <2>2. \A w \in Workers : worker'[w].at = "audit" =>
          worker[w].at = "audit" /\ WindowOf(w)' = WindowOf(w)
    BY <2>1 DEF WindowOf
  <2>3. \A A \in audits' : A.end > 0 => Accounted(A)'
    <3> SUFFICES ASSUME NEW A \in audits, A.end > 0 PROVE Accounted(A)'
      BY <2>1
    <3>1. Accounted(A)  BY HonestIs
    <3> QED BY <2>1, <3>1 DEF Accounted, environment
  <2> QED
    BY <2>1, <2>2, <2>3, HonestIs DEF Honest, AuditedIsDone, Accounted, InProcess, environment
<1> QED BY <1>2, <1>3, <1>4, HonestPass, StepCases

\* A window that has an audit, which no pass will fetch again, has its
\* statistics stored at level TWO; at level ONE it is processed, or a pass has
\* it in hand, or a step threw or a node stopped.
THEOREM AuditsAreHonest == Spec => []AuditedIsDone
<1>1. Honest => AuditedIsDone  BY DEF Honest
<1> QED BY <1>1, TypedInit, TypedNext, HonestInit, HonestNext, PTL DEF Spec
-----------------------------------------------------------------------------
(***************************************************************************)
(* A consumer that never stops waiting has one pass at a time.             *)
(***************************************************************************)
Busy(w) == worker[w].at # "idle"

LEMMA AwaitedInit == Init => Awaited
  BY DEF Init, Awaited, IdleWorker

\* A pass that goes on is waited for as before.
LEMMA AwaitedSame ==
  ASSUME Awaited, NEW w \in Workers, Steps(w), UNCHANGED <<environment, waiting>>,
         worker[w].at # "idle", worker'[w].node = worker[w].node
  PROVE  Awaited'
  BY DEF Awaited, Steps, environment

\* A pass that ends is none's that another is waited for by.
LEMMA AwaitedEnds ==
  ASSUME Typed, Awaited, NEW w \in Workers, Ends(w), UNCHANGED environment
  PROVE  Awaited'
<1> SUFFICES ASSUME "slow" \notin faults, NEW u \in Workers, worker'[u].at # "idle"
             PROVE  worker'[u].node \in consumers' /\ waiting'[worker'[u].node] = u
  BY DEF Awaited, environment
<1>1. u # w /\ worker'[u] = worker[u]
  BY DEF Ends, Steps
<1>2. worker[u].node \in consumers /\ waiting[worker[u].node] = u
  BY <1>1 DEF Awaited
<1>3. worker[u].node \in Consumers
  BY <1>2 DEF Typed, TypeOK
<1> QED BY <1>1, <1>2, <1>3 DEF Ends, environment

LEMMA AwaitedPass ==
  ASSUME Typed, Awaited, NEW w \in Workers, WorkerNext(w)
  PROVE  Awaited'
<1>1. TypeOK /\ level \in {"ONE", "TWO"}  BY DEF Typed, TypeOK
<1>2. UNCHANGED environment
  BY DEF WorkerNext, Read, ReadThrows, Fetch, FetchThrows, StoreStats, StoreAudit,
         Process, ProcessThrows
<1>3. worker[w].at # "idle"
  BY DEF WorkerNext, Read, ReadThrows, Fetch, FetchThrows, StoreStats, StoreAudit,
         Process, ProcessThrows
<1>4. ASSUME NEW s, NEW e, NEW limit, Takes(w, s, e, limit) PROVE Awaited'
  BY <1>2, <1>3, <1>4, AwaitedSame DEF Takes
<1>5. ASSUME NEW at, Goes(w, at) PROVE Awaited'
  BY <1>2, <1>3, <1>5, AwaitedSame DEF Goes
<1>6. CASE Ends(w)
  BY <1>2, <1>6, AwaitedEnds
<1>7. CASE \E e \in 0 .. MaxClock : Read(w, e)
  BY <1>1, <1>4, <1>6, <1>7, ReadSteps
<1>8. CASE Fetch(w)
  BY <1>1, <1>5, <1>8, FetchSteps
<1>9. CASE StoreStats(w)
  BY <1>1, <1>5, <1>9, StoreStatsSteps
<1>10. CASE StoreAudit(w)
  BY <1>1, <1>4, <1>5, <1>6, <1>10, StoreAuditSteps
<1>11. CASE Process(w)
  BY <1>1, <1>6, <1>11, ProcessSteps
<1>12. CASE ReadThrows(w) \/ FetchThrows(w) \/ ProcessThrows(w)
  BY <1>1, <1>6, <1>12, ThrowsSteps
<1> QED BY <1>7, <1>8, <1>9, <1>10, <1>11, <1>12, PassCases

LEMMA AwaitedNext == Typed /\ Awaited /\ [Next]_vars => Awaited'
<1> SUFFICES ASSUME Typed, Awaited, [Next]_vars PROVE Awaited'  OBVIOUS
<1>1. TypeOK  BY DEF Typed
<1>2. CASE UNCHANGED vars \/ Tick \/ Send
  <2>1. UNCHANGED <<environment, waiting, worker>>
    BY <1>2 DEF vars, Tick, Send
  <2> QED BY <2>1 DEF Awaited, environment
<1>3. ASSUME NEW c \in Consumers, Timeout(c) PROVE Awaited'
  BY <1>3 DEF Timeout, Awaited, environment
<1>4. ASSUME NEW c \in Consumers, NEW w \in Workers, Deliver(c, w) PROVE Awaited'
  <2>1. /\ Steps(w) /\ worker'[w].node = c
        /\ waiting[c] = None /\ c \in consumers
        /\ waiting'[c] = w /\ \A d \in Consumers : d # c => waiting'[d] = waiting[d]
        /\ UNCHANGED <<environment, clock, audits, done>>
    BY <1>1, <1>4, DeliverSteps
  <2> SUFFICES ASSUME "slow" \notin faults, NEW u \in Workers, worker'[u].at # "idle"
               PROVE  worker'[u].node \in consumers' /\ waiting'[worker'[u].node] = u
    BY <2>1 DEF Awaited, environment
  <2>2. CASE u = w  BY <2>1, <2>2 DEF environment
  <2>3. CASE u # w
    <3>1. worker'[u] = worker[u]  BY <2>1, <2>3 DEF Steps
    <3>2. worker[u].node \in consumers /\ waiting[worker[u].node] = u
      BY <3>1 DEF Awaited
    <3>3. worker[u].node \in Consumers /\ worker[u].node # c
      BY <1>1, <2>1, <3>2, NoneIsNoWorker DEF TypeOK
    <3> QED BY <2>1, <3>1, <3>2, <3>3 DEF environment
  <2> QED BY <2>2, <2>3
<1>5. ASSUME NEW c \in Consumers, Crash(c) PROVE Awaited'
  <2>1. /\ \A w \in Workers :
             \/ worker'[w] = worker[w] /\ worker[w].node # c
             \/ worker'[w].at = "idle"
        /\ \A d \in Consumers : d # c => waiting'[d] = waiting[d]
        /\ UNCHANGED <<environment, clock, audits, done>>
    BY <1>1, <1>5, CrashSteps
  <2> SUFFICES ASSUME "slow" \notin faults, NEW u \in Workers, worker'[u].at # "idle"
               PROVE  worker'[u].node \in consumers' /\ waiting'[worker'[u].node] = u
    BY <2>1 DEF Awaited, environment
  <2>2. worker'[u] = worker[u] /\ worker[u].node # c  BY <2>1
  <2>3. worker[u].node \in consumers /\ waiting[worker[u].node] = u
    BY <2>2 DEF Awaited
  <2>4. worker[u].node \in Consumers  BY <1>1, <2>3 DEF TypeOK
  <2> QED BY <2>1, <2>2, <2>3, <2>4 DEF environment
<1> QED BY <1>2, <1>3, <1>4, <1>5, AwaitedPass, StepCases

LEMMA OnePass ==
  ASSUME Awaited, Alone, NEW u \in Workers, NEW w \in Workers, Busy(u), Busy(w)
  PROVE  u = w
  BY DEF Awaited, Alone, Busy

-----------------------------------------------------------------------------
(***************************************************************************)
(* Passes that do not overlap do no half hour twice.                       *)
(***************************************************************************)
LEMMA DisjointInit == Init => Disjoint
<1> SUFFICES ASSUME Init PROVE Disjoint  OBVIOUS
<1>1. \A W \in Window : done[W] = 0  BY DEF Init
<1>2. \A w \in Workers : worker[w].at \notin Active
  BY DEF Init, IdleWorker, Active
<1> QED BY <1>1, <1>2 DEF Disjoint, Apart, Known

\* A step of a pass that does not change what is done.
LEMMA DisjointStep ==
  ASSUME Typed, Awaited, Disjoint, NEW w \in Workers, Steps(w),
         UNCHANGED <<environment, done>>, audits \subseteq audits',
         audits' \subseteq audits \cup {WindowOf(w)},
         audits' = audits \/ Busy(w),
         worker[w].at = "audit" => WindowOf(w) \in audits',
         InOrder /\ worker'[w].at \in Active => Ahead(w)'
  PROVE  Disjoint'
<1>1. InOrder' => InOrder
  BY DEF InOrder, Alone, environment
<1> SUFFICES ASSUME InOrder
             PROVE  /\ \A W \in Window : done'[W] <= 1
                    /\ Apart' /\ Known'
                    /\ \A u \in Workers : worker'[u].at \in Active => Ahead(u)'
  BY <1>1 DEF Disjoint
<1>2. \A W \in Window : done'[W] <= 1
  BY DEF Disjoint
<1>3. Apart'  BY DEF Disjoint, Apart
<1>4. Known'
  <2> SUFFICES ASSUME NEW W \in Window, done[W] > 0
               PROVE  \/ W \in audits'
                      \/ level' = "TWO" /\ \E u \in Workers :
                           worker'[u].at = "audit" /\ W = WindowOf(u)'
    BY DEF Known
  <2>1. CASE W \in audits  BY <2>1
  <2>2. CASE level = "TWO" /\ \E u \in Workers : worker[u].at = "audit" /\ W = WindowOf(u)
    <3>1. PICK u \in Workers : worker[u].at = "audit" /\ W = WindowOf(u)
      BY <2>2
    <3>2. CASE u = w  BY <3>1, <3>2
    <3>3. CASE u # w
      <4>1. worker'[u] = worker[u] /\ WindowOf(u)' = WindowOf(u)
        BY <3>3, OtherWindows DEF Steps
      <4> QED BY <2>2, <3>1, <4>1 DEF environment
    <3> QED BY <3>2, <3>3
  <2> QED BY <2>1, <2>2 DEF Disjoint, Known
<1>5. ASSUME NEW u \in Workers, worker'[u].at \in Active PROVE Ahead(u)'
  <2>1. CASE u = w  BY <1>5, <2>1
  <2>2. CASE u # w
    <3>1. worker'[u] = worker[u] /\ WindowOf(u)' = WindowOf(u)
      BY <2>2, OtherWindows DEF Steps
    <3>2. Ahead(u)  BY <1>5, <3>1 DEF Disjoint
    <3>3. audits' = audits
      BY <1>5, <2>2, <3>1, OnePass DEF InOrder, Busy, Active
    <3> QED BY <3>1, <3>2, <3>3 DEF Ahead, environment
  <2> QED BY <2>1, <2>2
<1> QED BY <1>2, <1>3, <1>4, <1>5

\* A pass does its window, which lies after all that was done.
LEMMA DisjointDone ==
  ASSUME Typed, Awaited, Disjoint, NEW w \in Workers, Steps(w),
         UNCHANGED <<environment, audits>>, IsDone(WindowOf(w)),
         \/ /\ worker[w].at = "store" /\ level = "TWO" /\ worker'[w].at = "audit"
            /\ worker'[w].start = worker[w].start /\ worker'[w].end = worker[w].end
         \/ worker[w].at = "process" /\ worker'[w].at = "idle"
  PROVE  Disjoint'
<1> DEFINE D == WindowOf(w)
<1>1. InOrder' => InOrder
  BY DEF InOrder, Alone, environment
<1> SUFFICES ASSUME InOrder
             PROVE  /\ \A W \in Window : done'[W] <= 1
                    /\ Apart' /\ Known'
                    /\ \A u \in Workers : worker'[u].at \in Active => Ahead(u)'
  BY <1>1 DEF Disjoint
<1>2. /\ TypeOK /\ worker[w] \in WorkerState /\ worker[w].start < worker[w].end
      /\ worker[w].at \in Active /\ worker[w].at # "idle" /\ worker[w].at # "audit"
  BY DEF Typed, TypeOK, Stages, Active
<1>3. /\ D \in Window /\ D.start = worker[w].start /\ D.end = worker[w].end
      /\ worker[w].start \in Nat /\ worker[w].end \in Nat
  BY <1>2, WindowTyped DEF WorkerState
<1>4. Ahead(w)  BY <1>2 DEF Disjoint
<1>5. \A W \in Window : done[W] > 0 => W.end <= D.start
  BY <1>2, <1>3, <1>4 DEF Ahead
<1>6. done[D] = 0
  <2>1. ~(done[D] > 0)  BY <1>2, <1>3, <1>5
  <2>2. done[D] \in 0 .. 2  BY <1>2, <1>3 DEF TypeOK
  <2> QED BY <2>1, <2>2
<1>7. /\ done'[D] = 1
      /\ \A V \in Window : V # D => done'[V] = done[V]
  BY <1>2, <1>3, <1>6, DoneMore
<1>8. \A W \in Window : done'[W] <= 1
  BY <1>7 DEF Disjoint
<1>9. \A W \in Window : done'[W] > 0 /\ W # D => done[W] > 0
  BY <1>7
<1>10. Apart'
  <2> SUFFICES ASSUME NEW V \in Window, NEW W \in Window,
                      done'[V] > 0, done'[W] > 0, V # W
               PROVE  V.end <= W.start \/ W.end <= V.start
    BY DEF Apart
  <2>1. CASE V = D  BY <1>5, <1>9, <2>1
  <2>2. CASE W = D  BY <1>5, <1>9, <2>2
  <2>3. CASE V # D /\ W # D  BY <1>9, <2>3 DEF Disjoint, Apart
  <2> QED BY <2>1, <2>2, <2>3
<1>11. \A u \in Workers : u # w => worker'[u].at = "idle"
  BY <1>2, OnePass DEF InOrder, Busy, Steps
<1>12. CASE worker[w].at = "store"
  <2>1. D' = D /\ worker'[w].at = "audit" /\ level' = "TWO"
        /\ worker'[w].start = worker[w].start
    BY <1>12 DEF WindowOf, environment
  <2>2. Known'
    <3> SUFFICES ASSUME NEW W \in Window, done'[W] > 0
                 PROVE  W \in audits' \/ W = D
      BY <2>1 DEF Known
    <3>1. CASE W = D  BY <3>1
    <3>2. CASE W # D
      <4>1. \/ W \in audits
            \/ \E u \in Workers : worker[u].at = "audit" /\ W = WindowOf(u)
        BY <1>9, <3>2 DEF Disjoint, Known
      <4>2. \A u \in Workers : worker[u].at # "audit"
        BY <1>2, OnePass DEF InOrder, Busy
      <4> QED BY <4>1, <4>2
    <3> QED BY <3>1, <3>2
  <2>3. Ahead(w)'
    <3>1. \A W \in Window : done'[W] > 0 => W.end <= worker'[w].start \/ W = D
      BY <1>3, <1>5, <1>9, <2>1
    <3>2. \A A \in audits' : A.end <= worker'[w].start
      BY <1>4, <1>12, <2>1 DEF Ahead
    <3> QED BY <2>1, <3>1, <3>2 DEF Ahead
  <2>4. \A u \in Workers : worker'[u].at \in Active => Ahead(u)'
    BY <1>11, <2>3 DEF Active
  <2> QED BY <1>8, <1>10, <2>2, <2>4
<1>13. CASE worker[w].at = "process"
  <2>1. D \in audits  BY <1>4, <1>13 DEF Ahead
  <2>2. Known'
    <3> SUFFICES ASSUME NEW W \in Window, done'[W] > 0 PROVE W \in audits'
      BY DEF Known
    <3>1. CASE W = D  BY <2>1, <3>1
    <3>2. CASE W # D
      <4>1. \/ W \in audits
            \/ \E u \in Workers : worker[u].at = "audit" /\ W = WindowOf(u)
        BY <1>9, <3>2 DEF Disjoint, Known
      <4>2. \A u \in Workers : worker[u].at # "audit"
        BY <1>2, OnePass DEF InOrder, Busy
      <4> QED BY <4>1, <4>2
    <3> QED BY <3>1, <3>2
  <2>3. \A u \in Workers : worker'[u].at \notin Active
    BY <1>11, <1>13 DEF Active
  <2> QED BY <1>8, <1>10, <2>2, <2>3
<1> QED BY <1>12, <1>13

LEMMA DisjointRead ==
  ASSUME Typed, Awaited, Disjoint, NEW w \in Workers, NEW e \in 0 .. MaxClock, Read(w, e)
  PROVE  Disjoint'
<1>1. /\ UNCHANGED <<environment, clock, queue, audits, done>>
      /\ worker[w].at = "read" /\ IsLast(e) /\ TypeOK
  BY DEF Read, Typed
<1>2. \A A \in audits : A.end <= e
  BY <1>1, LastEnd
<1>3. CASE Ends(w)
  BY <1>1, <1>3, DisjointStep DEF Ends, Active
<1>4. CASE \E f \in Nat : Takes(w, e, f, clock)
  <2>1. /\ Steps(w) /\ worker'[w].start = e /\ worker'[w].at = "fetch"
    BY <1>4 DEF Takes
  <2>2. ASSUME InOrder PROVE Ahead(w)'
    <3>1. \A u \in Workers : worker[u].at # "audit"
      BY <1>1, <2>2, OnePass DEF InOrder, Busy
    <3>2. \A W \in Window : done[W] > 0 => W \in audits
      BY <2>2, <3>1 DEF Disjoint, Known
    <3> QED BY <1>1, <1>2, <2>1, <3>2 DEF Ahead
  <2> QED BY <1>1, <2>1, <2>2, DisjointStep
<1> QED BY <1>1, <1>3, <1>4, ReadSteps

LEMMA DisjointStoreAudit ==
  ASSUME Typed, Awaited, Disjoint, NEW w \in Workers, StoreAudit(w)
  PROVE  Disjoint'
<1> DEFINE D == WindowOf(w)
<1>1. /\ UNCHANGED <<environment, clock, queue, done>> /\ worker[w].at = "audit"
      /\ audits' = audits \cup {D}
  BY DEF StoreAudit
<1>2. /\ TypeOK /\ worker[w] \in WorkerState /\ worker[w].start < worker[w].end
      /\ level \in {"ONE", "TWO"} /\ audits \subseteq Window
  BY <1>1 DEF Typed, TypeOK, Stages, Active
<1>3. /\ D \in Window /\ D.start = worker[w].start /\ D.end = worker[w].end
      /\ worker[w].start \in Nat /\ worker[w].end \in Nat
  BY <1>2, WindowTyped DEF WorkerState
<1>4. Steps(w)
  BY <1>2, StoreAuditSteps DEF Goes, Ends, Takes
<1>5. ASSUME InOrder, worker'[w].at \in Active PROVE Ahead(w)'
  <2>1. Ahead(w)  BY <1>1, <1>5 DEF Disjoint, Active
  <2>2. CASE level = "ONE" /\ Goes(w, "process")
    <3>1. /\ worker'[w].at = "process" /\ worker'[w].start = worker[w].start
          /\ D' = D
      BY <2>2 DEF Goes, WindowOf
    <3>2. \A W \in Window : done[W] > 0 => W.end <= worker[w].start
      BY <2>1, <2>2 DEF Ahead
    <3>3. \A A \in audits : A.end <= worker[w].start
      BY <1>1, <2>1 DEF Ahead
    <3> QED BY <1>1, <3>1, <3>2, <3>3 DEF Ahead
  <2>3. CASE Takes(w, worker[w].end, worker[w].end + 1, worker[w].limit)
    <3>1. worker'[w].at = "fetch" /\ worker'[w].start = worker[w].end
      BY <2>3 DEF Takes
    <3>2. \A W \in Window : done[W] > 0 => W.end <= worker[w].start \/ W = D
      BY <2>1 DEF Ahead
    <3>3. \A W \in Window : done[W] > 0 => W.end <= worker[w].end
      <4> SUFFICES ASSUME NEW W \in Window, done[W] > 0 PROVE W.end <= worker[w].end
        OBVIOUS
      <4>1. W.end \in Nat  BY Numbers DEF Window
      <4> QED BY <1>2, <1>3, <3>2, <4>1
    <3>4. \A A \in audits' : A.end <= worker[w].end
      <4> SUFFICES ASSUME NEW A \in audits, A.end <= worker[w].start
                   PROVE  A.end <= worker[w].end
        BY <1>1, <1>3, <2>1 DEF Ahead
      <4>1. A.end \in Nat  BY <1>2, Numbers DEF Window
      <4> QED BY <1>2, <1>3, <4>1
    <3> QED BY <1>1, <3>1, <3>3, <3>4 DEF Ahead
  <2>4. ~Ends(w)  BY <1>5 DEF Ends, Active
  <2> QED BY <1>2, <2>2, <2>3, <2>4, StoreAuditSteps
<1> QED BY <1>1, <1>4, <1>5, DisjointStep DEF Busy

LEMMA DisjointPass ==
  ASSUME Typed, Awaited, Disjoint, NEW w \in Workers, WorkerNext(w)
  PROVE  Disjoint'
<1>1. TypeOK /\ level \in {"ONE", "TWO"}  BY DEF Typed, TypeOK
<1>2. CASE \E e \in 0 .. MaxClock : Read(w, e)
  BY <1>2, DisjointRead
<1>3. CASE Fetch(w)
  <2>1. /\ UNCHANGED <<environment, clock, queue, audits, done>>
        /\ worker[w].at = "fetch" /\ Steps(w) /\ worker'[w].start = worker[w].start
        /\ worker'[w].at \in {"store", "audit"}
    BY <1>1, <1>3, FetchSteps DEF Goes
  <2>2. ASSUME InOrder PROVE Ahead(w)'
    <3>1. Ahead(w)  BY <2>1, <2>2 DEF Disjoint, Active
    <3> QED BY <2>1, <3>1 DEF Ahead
  <2> QED BY <2>1, <2>2, DisjointStep
<1>4. CASE StoreStats(w)
  <2>1. /\ worker[w].at = "store" /\ Goes(w, "audit") /\ IsDone(WindowOf(w))
        /\ UNCHANGED <<environment, clock, queue, audits>>
    BY <1>1, <1>4, StoreStatsSteps
  <2>2. level = "TWO"  BY <1>1, <2>1 DEF Typed, Stages
  <2> QED BY <2>1, <2>2, DisjointDone DEF Goes
<1>5. CASE StoreAudit(w)
  BY <1>5, DisjointStoreAudit
<1>6. CASE Process(w)
  <2>1. /\ worker[w].at = "process" /\ Ends(w) /\ IsDone(WindowOf(w))
        /\ UNCHANGED <<environment, clock, queue, audits>>
    BY <1>1, <1>6, ProcessSteps
  <2> QED BY <2>1, DisjointDone DEF Ends
<1>7. CASE ReadThrows(w) \/ FetchThrows(w) \/ ProcessThrows(w)
  <2>1. /\ Ends(w) /\ UNCHANGED <<environment, clock, queue, audits, done>>
        /\ worker[w].at \in {"read", "fetch", "process"}
    BY <1>1, <1>7, ThrowsSteps
  <2> QED BY <2>1, DisjointStep DEF Ends, Active
<1> QED BY <1>2, <1>3, <1>4, <1>5, <1>6, <1>7, PassCases

LEMMA DisjointNext == Typed /\ Awaited /\ Disjoint /\ [Next]_vars => Disjoint'
<1> SUFFICES ASSUME Typed, Awaited, Disjoint, [Next]_vars PROVE Disjoint'  OBVIOUS
<1>1. TypeOK /\ level \in {"ONE", "TWO"}  BY DEF Typed, TypeOK
<1>2. CASE UNCHANGED vars \/ Tick \/ Send \/ \E c \in Consumers : Timeout(c)
  <2>1. UNCHANGED <<environment, audits, done, worker>>
    BY <1>2 DEF vars, Tick, Send, Timeout
  <2> QED
    BY <2>1 DEF Disjoint, InOrder, Alone, Apart, Known, Ahead, WindowOf, environment
<1>3. ASSUME NEW c \in Consumers, NEW w \in Workers, Deliver(c, w) PROVE Disjoint'
  <2>1. /\ Steps(w) /\ worker'[w].at = "read" /\ worker[w].at = "idle"
        /\ UNCHANGED <<environment, clock, audits, done>>
    BY <1>1, <1>3, DeliverSteps
  <2> QED BY <2>1, DisjointStep DEF Active
<1>4. ASSUME NEW c \in Consumers, Crash(c) PROVE Disjoint'
  <2>1. /\ \A w \in Workers : worker'[w] = worker[w] \/ worker'[w].at = "idle"
        /\ UNCHANGED <<environment, clock, audits, done>> /\ "crash" \in faults
    BY <1>1, <1>4, CrashSteps
  <2>2. InOrder' => InOrder /\ level = "ONE"
    BY <1>1, <2>1 DEF InOrder, Alone, environment
  <2> SUFFICES ASSUME InOrder, level = "ONE"
               PROVE  /\ \A W \in Window : done'[W] <= 1
                      /\ Apart' /\ Known'
                      /\ \A u \in Workers : worker'[u].at \in Active => Ahead(u)'
    BY <2>2 DEF Disjoint
  <2>3. (\A W \in Window : done'[W] <= 1) /\ Apart'
    BY <2>1 DEF Disjoint, Apart
  <2>4. Known'  BY <2>1 DEF Disjoint, Known
  <2>5. ASSUME NEW u \in Workers, worker'[u].at \in Active PROVE Ahead(u)'
    <3>1. worker'[u] = worker[u]  BY <2>1, <2>5 DEF Active
    <3>2. Ahead(u) /\ WindowOf(u)' = WindowOf(u)
      BY <2>5, <3>1 DEF Disjoint, WindowOf
    <3> QED BY <2>1, <3>1, <3>2 DEF Ahead, environment
  <2> QED BY <2>3, <2>4, <2>5
<1> QED BY <1>2, <1>3, <1>4, DisjointPass, StepCases

LEMMA DisjointIsOnce == Typed /\ Disjoint => DoneOnce
<1> SUFFICES ASSUME Typed, Disjoint, InOrder
             PROVE  /\ \A W \in Window : done[W] <= 1
                    /\ \A V, W \in Window : (done[V] > 0 /\ done[W] > 0 /\ V # W) =>
                         ~\E h \in 1 .. MaxClock : Covers(V, h) /\ Covers(W, h)
  BY DEF DoneOnce, InOrder
<1>1. \A W \in Window : done[W] <= 1  BY DEF Disjoint
<1>2. ASSUME NEW V \in Window, NEW W \in Window, done[V] > 0, done[W] > 0, V # W,
             NEW h \in 1 .. MaxClock, Covers(V, h), Covers(W, h)
      PROVE  FALSE
  <2>1. V.end <= W.start \/ W.end <= V.start
    BY <1>2 DEF Disjoint, Apart
  <2>2. V.start < h /\ h <= V.end /\ W.start < h /\ h <= W.end
    BY <1>2 DEF Covers
  <2>3. V.start \in Nat /\ V.end \in Nat /\ W.start \in Nat /\ W.end \in Nat
    BY Numbers DEF Window
  <2> QED BY <2>1, <2>2, <2>3
<1> QED BY <1>1, <1>2

\* With one consumer whose passes it waits out, and no stop between the
\* statistics and their audit, no window is done twice and no two windows that
\* are done share a half hour: each pass takes up time after all that is done.
THEOREM DoesOnce == Spec => []DoneOnce
<1> QED
  BY TypedInit, TypedNext, AwaitedInit, AwaitedNext, DisjointInit, DisjointNext,
     DisjointIsOnce, PTL DEF Spec
=============================================================================
