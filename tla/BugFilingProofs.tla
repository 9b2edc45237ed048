--------------------------- MODULE BugFilingProofs ---------------------------
(***************************************************************************)
(* Proofs about BugFiling.                                                 *)
(*                                                                         *)
(* Typed is inductive by itself and Backed next to it.  What holds of the  *)
(* single pass of a node is Faithful, Closable and Recorded, each inductive *)
(* next to the ones before it.                                             *)
(***************************************************************************)
EXTENDS BugFiling, TLAPS

\* A pass that has a bucket in hand.
Working == {"create", "item", "failure", "track", "job"}

\* A pass with a bucket in hand has its name, and the fields are filled.
Handling ==
  /\ \A b \in Buckets : buckets[b].thread \in running
  /\ \A t \in Threads :
       /\ thread[t].at \notin {"idle", "end"} => t \in running /\ step \in Threads
       /\ thread[t].at = "idle" => thread[t].bucket = None
       /\ thread[t].at \in Working =>
            thread[t].bucket \in Buckets /\ bean.bucket \in Buckets
       /\ thread[t].at \in {"track", "job"} => thread[t].bug \in Buckets

Typed == TypeOK /\ Handling

\* Whatever a pass or a field names is in Chiron.
Backed ==
  /\ BookedIsFiled
  /\ bean.bug \in filed \cup {None, Refused}
  /\ \A t \in Threads :
       /\ thread[t].bug \in filed \cup {None}
       /\ \A i \in thread[t].item : i.bug \in filed \cup {None}
       /\ \A a \in thread[t].attributes : a.bug \in filed \cup {None}

\* The single pass finds its own bucket and agent in the fields.
OwnFields(t) ==
  /\ thread[t].at \notin {"idle", "end"} => step = t
  /\ thread[t].at \in Working =>
       bean.bucket = thread[t].bucket /\ buckets[thread[t].bucket].thread = t
  /\ thread[t].at = "create" => bean.bug = None
  /\ thread[t].at = "item" => bean.bug \in {Refused, thread[t].bucket}
  /\ thread[t].at \in {"track", "job"} => thread[t].bug = thread[t].bucket
  /\ \A b \in thread[t].todo : buckets[b].thread = t
  /\ \A i \in thread[t].item : i.bug \in {None, i.analysis}
  /\ \A a \in thread[t].attributes :
       a.bug \in {None, a.bucket} /\ buckets[a.bucket].thread = t

Faithful ==
  BookedOnItsBucket /\ \A t \in Threads : running = {t} => OwnFields(t)

\* A bucket that is yet to be sent to Chiron, or was refused, has no bug.
Unfiled(t) ==
  /\ thread[t].at = "idle" => filed = {}
  /\ thread[t].todo \cap filed = {}
  /\ thread[t].at = "create" => thread[t].bucket \notin thread[t].todo
  /\ \/ thread[t].at \in {"create", "failure"}
     \/ thread[t].at = "item" /\ bean.bug = Refused
     => thread[t].bucket \notin filed

Closable ==
  faults \cap {"chironThrows", "crash"} = {} =>
    FiledIsClosable /\ \A t \in Threads : running = {t} => Unfiled(t)

\* A bucket of the pass is to be handled, in hand, or done with.
Accounted(t, b) ==
  \/ b \in thread[t].todo
  \/ b = thread[t].bucket /\ thread[t].at \in {"create", "item", "failure"}
  \/ b \in failures
  \/ b \in filed /\ [bucket |-> b, bug |-> b] \in thread[t].attributes

Recorded ==
  faults \cap {"chironThrows", "yuvaThrows"} = {} =>
    /\ NothingLost
    /\ \A t \in Threads : running = {t} =>
         /\ thread[t].yuva
         /\ thread[t].at \notin {"idle", "end"} =>
              \A b \in Buckets : Accounted(t, b)

-----------------------------------------------------------------------------
(***************************************************************************)
(* What the actions do to the state of their thread.                       *)
(***************************************************************************)
\* Only thread t takes a step, to a state with these values.
Steps(t) ==
  /\ thread' \in [Threads -> ThreadState]
  /\ \A u \in Threads : u # t => thread'[u] = thread[u]

KeepsBucket(t) ==
  thread'[t].bucket = thread[t].bucket /\ thread'[t].yuva = thread[t].yuva

KeepsHand(t) ==
  /\ thread'[t].item = thread[t].item
  /\ thread'[t].bug = thread[t].bug

KeepsRest(t) ==
  /\ KeepsBucket(t)
  /\ KeepsHand(t)
  /\ thread'[t].todo = thread[t].todo
  /\ thread'[t].attributes = thread[t].attributes

Answers(t, answer) ==
  /\ Steps(t)
  /\ KeepsBucket(t)
  /\ thread'[t].todo = thread[t].todo
  /\ thread'[t].item = {}
  /\ thread'[t].attributes =
       Attributes(t, thread[t].bucket, thread'[t].bug)
  /\ answer = None => thread'[t].at = "next" /\ thread'[t].bug = None
  /\ answer = Refused => thread'[t].at = "failure" /\ thread'[t].bug = None
  /\ answer \in Buckets =>
       /\ thread'[t].at = Stage(thread[t].bucket, thread[t].at)
       /\ thread'[t].bug = answer

\* The item holds what the fields say when Chiron has answered.
TakesItem(t, answer) ==
  /\ Steps(t)
  /\ KeepsBucket(t)
  /\ thread'[t].at = "item"
  /\ thread'[t].bug = thread[t].bug
  /\ thread'[t].todo = thread[t].todo
  /\ thread'[t].attributes = thread[t].attributes
  /\ thread'[t].item = {[bug |-> IF answer = Refused THEN None ELSE answer,
                         analysis |-> bean.bucket]}

\* The names of no bug are no bugs.
LEMMA NoBug == \A b \in Buckets : b # None /\ b # Refused
  BY NoBugs

LEMMA RefusedIsNot == Refused # None
  BY NoBugs

LEMMA StageAt ==
  ASSUME NEW b, NEW at
  PROVE  /\ Stage(b, at) \in {"track", "job", "next"}
         /\ buckets[b].site => Stage(b, at) # "next"
         /\ buckets[b].site /\ at = "track" => Stage(b, at) = "job"
  BY DEF Stage

LEMMA Moved ==
  ASSUME TypeOK, NEW t \in Threads, NEW s, Move(t, s),
         s \in {"next", "create", "item", "failure", "track", "job", "end"}
  PROVE  Steps(t) /\ KeepsRest(t) /\ thread'[t].at = s
<1> DEFINE r == [thread[t] EXCEPT !.at = s]
<1>1. thread[t] \in ThreadState  BY DEF TypeOK
<1>2. r \in ThreadState
  BY <1>1 DEF ThreadState
<1>3. /\ r.at = s /\ r.yuva = thread[t].yuva /\ r.todo = thread[t].todo
      /\ r.bucket = thread[t].bucket /\ r.item = thread[t].item
      /\ r.bug = thread[t].bug /\ r.attributes = thread[t].attributes
  BY <1>1 DEF ThreadState
<1>4. thread' = [thread EXCEPT ![t] = r]
  BY DEF Move
<1> HIDE DEF r
<1>5. thread'[t] = r  BY <1>4 DEF TypeOK
<1>6. Steps(t)  BY <1>2, <1>4 DEF TypeOK, Steps
<1> QED BY <1>3, <1>5, <1>6 DEF KeepsRest, KeepsBucket, KeepsHand

LEMMA AnsweredSteps ==
  ASSUME TypeOK, NEW t \in Threads, thread[t].bucket \in Buckets,
         NEW answer \in Buckets \cup {None, Refused}, Answered(t, answer)
  PROVE  Answers(t, answer)
<1> DEFINE b == thread[t].bucket
           bug == IF answer = Refused THEN None ELSE answer
           at == IF answer = None THEN "next"
                 ELSE IF answer = Refused THEN "failure"
                 ELSE Stage(b, thread[t].at)
           r == [thread[t] EXCEPT !.at = at, !.item = {}, !.bug = bug,
                                  !.attributes = Attributes(t, b, bug)]
<1>1. thread[t] \in ThreadState  BY DEF TypeOK
<1>2. thread' = [thread EXCEPT ![t] = r]
  BY DEF Answered
<1>3. bug \in Buckets \cup {None}
  OBVIOUS
<1>4. at \in {"next", "failure", "track", "job"}
  BY StageAt
<1>5. Attributes(t, b, bug) \in SUBSET ForecastAttribute
  BY <1>1, <1>3 DEF Attributes, ThreadState, ForecastAttribute
<1>6. /\ answer = None => at = "next" /\ bug = None
      /\ answer = Refused => at = "failure" /\ bug = None
      /\ answer \in Buckets => at = Stage(b, thread[t].at) /\ bug = answer
  BY NoBugs
<1> HIDE DEF at, bug
<1>7. r \in ThreadState
  BY <1>1, <1>3, <1>4, <1>5 DEF ThreadState
<1>8. /\ r.at = at /\ r.item = {} /\ r.bug = bug /\ r.yuva = thread[t].yuva
      /\ r.todo = thread[t].todo /\ r.bucket = b
      /\ r.attributes = Attributes(t, b, bug)
  BY <1>1 DEF ThreadState
<1> HIDE DEF r
<1>9. thread'[t] = r  BY <1>2 DEF TypeOK
<1>10. Steps(t)  BY <1>2, <1>7 DEF TypeOK, Steps
<1> QED BY <1>6, <1>8, <1>9, <1>10 DEF Answers, KeepsBucket

LEMMA RespondedSteps ==
  ASSUME TypeOK, NEW t \in Threads, thread[t].bucket \in Buckets,
         bean.bucket \in Buckets,
         NEW answer \in Buckets \cup {Refused}, Responded(t, answer)
  PROVE  /\ bean' \in Bean /\ bean'.bucket = bean.bucket /\ bean'.bug = answer
         /\ TakesItem(t, answer) \/ Answers(t, answer)
<1>1. bean' \in Bean /\ bean'.bucket = bean.bucket /\ bean'.bug = answer
  BY DEF Responded, TypeOK, Bean
<1>2. CASE ~buckets[bean.bucket].analysed
  BY <1>1, <1>2, AnsweredSteps DEF Responded
<1>3. CASE buckets[bean.bucket].analysed
  <2> DEFINE i == [bug |-> IF answer = Refused THEN None ELSE answer,
                   analysis |-> bean.bucket]
             r == [thread[t] EXCEPT !.at = "item", !.item = {i}]
  <2>1. thread[t] \in ThreadState  BY DEF TypeOK
  <2>2. thread' = [thread EXCEPT ![t] = r]
    BY <1>3 DEF Responded
  <2>3. i \in Item  BY DEF Item
  <2> HIDE DEF i
  <2>4. r \in ThreadState  BY <2>1, <2>3 DEF ThreadState
  <2>5. /\ r.at = "item" /\ r.item = {i} /\ r.bug = thread[t].bug
        /\ r.yuva = thread[t].yuva /\ r.todo = thread[t].todo
        /\ r.bucket = thread[t].bucket /\ r.attributes = thread[t].attributes
    BY <2>1 DEF ThreadState
  <2> HIDE DEF r
  <2>6. thread'[t] = r  BY <2>2 DEF TypeOK
  <2>7. Steps(t)  BY <2>2, <2>4 DEF TypeOK, Steps
  <2> QED BY <1>1, <2>5, <2>6, <2>7 DEF TakesItem, KeepsBucket, i
<1> QED BY <1>2, <1>3

LEMMA AcceptSteps ==
  ASSUME TypeOK, NEW t \in Threads, Accept(t)
  PROVE  /\ Steps(t) /\ KeepsHand(t)
         /\ thread'[t].at = "next"
         /\ thread'[t].bucket = thread[t].bucket
         /\ thread'[t].attributes = thread[t].attributes
         /\ thread'[t].todo = {b \in Buckets : buckets[b].thread = t}
         /\ "yuvaThrows" \notin faults => thread'[t].yuva
<1> DEFINE own == {b \in Buckets : buckets[b].thread = t}
<1>1. thread[t] \in ThreadState  BY DEF TypeOK
<1>2. PICK yuva \in {TRUE} \cup (IF "yuvaThrows" \in faults THEN {FALSE} ELSE {}) :
        thread' = [thread EXCEPT ![t] =
                     [@ EXCEPT !.at = "next", !.yuva = yuva, !.todo = own]]
  BY DEF Accept
<1>3. yuva \in BOOLEAN /\ ("yuvaThrows" \notin faults => yuva)
  OBVIOUS
<1> DEFINE r == [thread[t] EXCEPT !.at = "next", !.yuva = yuva, !.todo = own]
<1>4. thread' = [thread EXCEPT ![t] = r]  BY <1>2
<1>5. own \in SUBSET Buckets  OBVIOUS
<1> HIDE DEF own
<1>6. r \in ThreadState  BY <1>1, <1>3, <1>5 DEF ThreadState
<1>7. /\ r.at = "next" /\ r.yuva = yuva /\ r.todo = own
      /\ r.bucket = thread[t].bucket /\ r.item = thread[t].item
      /\ r.bug = thread[t].bug /\ r.attributes = thread[t].attributes
  BY <1>1 DEF ThreadState
<1> HIDE DEF r
<1>8. thread'[t] = r  BY <1>4 DEF TypeOK
<1>9. Steps(t)  BY <1>4, <1>6 DEF TypeOK, Steps
<1> QED BY <1>3, <1>7, <1>8, <1>9 DEF KeepsHand, own

LEMMA CreateSteps ==
  ASSUME TypeOK, NEW t \in Threads, NEW b \in Buckets, Create(t, b)
  PROVE  /\ Steps(t) /\ KeepsHand(t)
         /\ thread'[t].todo = thread[t].todo \ {b}
         /\ thread'[t].yuva = thread[t].yuva
         /\ bean' \in Bean /\ bean'.bucket = b /\ bean'.bug = None
         /\ thread[t].yuva =>
              /\ thread'[t].at = "create" /\ thread'[t].bucket = b
              /\ thread'[t].attributes = thread[t].attributes
         /\ ~thread[t].yuva =>
              /\ thread'[t].at = "next"
              /\ thread'[t].bucket = thread[t].bucket
              /\ thread'[t].attributes = Attributes(t, b, None)
<1>1. thread[t] \in ThreadState  BY DEF TypeOK
<1>2. bean' \in Bean /\ bean'.bucket = b /\ bean'.bug = None
  BY DEF Create, Bean
<1>3. Todo(t, b) \in SUBSET Buckets /\ Todo(t, b) = thread[t].todo \ {b}
  BY <1>1 DEF Todo, ThreadState
<1>4. CASE thread[t].yuva
  <2> DEFINE r == [thread[t] EXCEPT !.at = "create", !.bucket = b, !.todo = Todo(t, b)]
  <2>1. thread' = [thread EXCEPT ![t] = r]  BY <1>4 DEF Create
  <2>2. r \in ThreadState  BY <1>1, <1>3 DEF ThreadState
  <2>3. /\ r.at = "create" /\ r.yuva = thread[t].yuva /\ r.todo = Todo(t, b)
        /\ r.bucket = b /\ r.item = thread[t].item
        /\ r.bug = thread[t].bug /\ r.attributes = thread[t].attributes
    BY <1>1 DEF ThreadState
  <2> HIDE DEF r
  <2>4. thread'[t] = r  BY <2>1 DEF TypeOK
  <2>5. Steps(t)  BY <2>1, <2>2 DEF TypeOK, Steps
  <2> QED BY <1>2, <1>3, <1>4, <2>3, <2>4, <2>5 DEF KeepsHand
<1>5. CASE ~thread[t].yuva
  <2> DEFINE r == [thread[t] EXCEPT !.todo = Todo(t, b),
                                    !.attributes = Attributes(t, b, None)]
  <2>1. thread' = [thread EXCEPT ![t] = r]  BY <1>5 DEF Create
  <2>2. Attributes(t, b, None) \in SUBSET ForecastAttribute
    BY <1>1 DEF Attributes, ThreadState, ForecastAttribute
  <2>3. r \in ThreadState  BY <1>1, <1>3, <2>2 DEF ThreadState
  <2>4. /\ r.at = "next" /\ r.yuva = thread[t].yuva /\ r.todo = Todo(t, b)
        /\ r.bucket = thread[t].bucket /\ r.item = thread[t].item
        /\ r.bug = thread[t].bug /\ r.attributes = Attributes(t, b, None)
    BY <1>1 DEF ThreadState, Create
  <2> HIDE DEF r
  <2>5. thread'[t] = r  BY <2>1 DEF TypeOK
  <2>6. Steps(t)  BY <2>1, <2>3 DEF TypeOK, Steps
  <2> QED BY <1>2, <1>3, <1>5, <2>4, <2>5, <2>6 DEF KeepsHand
<1> QED BY <1>4, <1>5

\* A crash ends every pass with nothing in hand.
LEMMA CrashSteps ==
  ASSUME TypeOK, Crash
  PROVE  /\ thread' \in [Threads -> ThreadState]
         /\ \A t \in Threads : thread'[t] = [IdleThread EXCEPT !.at = "end"]
         /\ filed \subseteq filed' /\ filed' \subseteq Buckets
<1>1. [IdleThread EXCEPT !.at = "end"] \in ThreadState
  BY DEF IdleThread, ThreadState
<1>2. thread' = [t \in Threads |-> [IdleThread EXCEPT !.at = "end"]]
  BY DEF Crash
<1>3. filed \subseteq filed' /\ filed' \subseteq Buckets
  BY DEF Crash, TypeOK
<1> HIDE DEF Crash
<1> QED BY <1>1, <1>2, <1>3
-----------------------------------------------------------------------------
(***************************************************************************)
(* Typing.                                                                 *)
(***************************************************************************)
LEMMA TypedInit == Init => Typed
<1> SUFFICES ASSUME Init PROVE Typed  OBVIOUS
<1>1. IdleThread \in ThreadState  BY DEF IdleThread, ThreadState
<1>2. TypeOK  BY <1>1 DEF Init, TypeOK, Bean
<1>3. Handling  BY DEF Init, Handling, IdleThread, Working
<1> QED BY <1>2, <1>3 DEF Typed

LEMMA HandlingStep ==
  ASSUME Typed, NEW t \in Threads, Steps(t), UNCHANGED given, t \in running,
         step' \in Threads, bean'.bucket = bean.bucket \/ bean'.bucket \in Buckets,
         thread'[t].at # "idle",
         thread'[t].at \in Working =>
           thread'[t].bucket \in Buckets /\ bean'.bucket \in Buckets,
         thread'[t].at \in {"track", "job"} => thread'[t].bug \in Buckets
  PROVE  Handling'
<1>1. \A b \in Buckets : buckets'[b].thread \in running'
  BY DEF Typed, Handling, given
<1>2. ASSUME NEW u \in Threads
      PROVE  /\ thread'[u].at \notin {"idle", "end"} => u \in running' /\ step' \in Threads
             /\ thread'[u].at = "idle" => thread'[u].bucket = None
             /\ thread'[u].at \in Working =>
                  thread'[u].bucket \in Buckets /\ bean'.bucket \in Buckets
             /\ thread'[u].at \in {"track", "job"} => thread'[u].bug \in Buckets
  <2>1. CASE u = t  BY <2>1 DEF given
  <2>2. CASE u # t  BY <2>2 DEF Steps, Typed, Handling, given
  <2> QED BY <2>1, <2>2
<1> QED BY <1>1, <1>2 DEF Handling

\* The facts about a pass that takes a step.
LEMMA InHandTyped ==
  ASSUME Typed, NEW t \in Threads
  PROVE  /\ TypeOK
         /\ thread[t] \in ThreadState
         /\ bean.bucket \in Buckets \cup {None} /\ bean.bug \in Buckets \cup {None, Refused}
         /\ thread[t].at \notin {"idle", "end"} => t \in running /\ step \in Threads
         /\ thread[t].at \in Working =>
              thread[t].bucket \in Buckets /\ bean.bucket \in Buckets
         /\ thread[t].at \in {"track", "job"} => thread[t].bug \in Buckets
  BY DEF Typed, TypeOK, Handling, Bean

\* An answer leaves a bucket in hand only with its bug.
LEMMA AnswersHandling ==
  ASSUME NEW t \in Threads, NEW answer \in Buckets \cup {None, Refused},
         Answers(t, answer)
  PROVE  /\ thread'[t].at \in {"next", "failure", "track", "job"}
         /\ thread'[t].at \in {"track", "job"} => thread'[t].bug \in Buckets
         /\ thread'[t].bug \in {answer, None}
         /\ thread'[t].at = "failure" => answer = Refused
  BY StageAt, NoBug DEF Answers

LEMMA TypedAccept == ASSUME Typed, NEW t \in Threads, Accept(t) PROVE Typed'
<1>1. thread'[t].at = "next" /\ Steps(t)
  BY AcceptSteps DEF Typed
<1>2. /\ UNCHANGED <<given, docs, filed, bean>> /\ step' = t /\ t \in running
  BY DEF Accept
<1>3. Handling'
  BY <1>1, <1>2, HandlingStep DEF Working
<1>4. TypeOK'
  BY <1>1, <1>2 DEF Typed, TypeOK, Steps, given, docs
<1> QED BY <1>3, <1>4 DEF Typed

LEMMA TypedCreate ==
  ASSUME Typed, NEW t \in Threads, NEW b \in Buckets, Create(t, b)
  PROVE  Typed'
<1>1. /\ thread[t].at = "next" /\ UNCHANGED <<given, docs, filed, step>>
  BY DEF Create
<1>2. /\ Steps(t) /\ bean' \in Bean /\ bean'.bucket \in Buckets
      /\ \/ thread'[t].at = "create" /\ thread'[t].bucket = b
         \/ thread'[t].at = "next"
  BY CreateSteps DEF Typed
<1>3. step' \in Threads /\ t \in running
  BY <1>1, InHandTyped
<1>4. Handling'
  BY <1>1, <1>2, <1>3, HandlingStep DEF Working
<1>5. TypeOK'
  BY <1>1, <1>2 DEF Typed, TypeOK, Steps, given, docs
<1> QED BY <1>4, <1>5 DEF Typed

\* The rest of typing, when Chiron has answered and an item is not saved.
LEMMA TypedAnswers ==
  ASSUME Typed, NEW t \in Threads, thread[t].at \in {"create", "item"},
         NEW answer \in Buckets \cup {None, Refused}, Answers(t, answer),
         bean' \in Bean, bean'.bucket = bean.bucket,
         UNCHANGED <<given, trackers, jobs, failures, audits, step>>,
         items' \subseteq Item, filed' \subseteq Buckets
  PROVE  Typed'
<1>1. /\ t \in running /\ step' \in Threads
      /\ thread[t].bucket \in Buckets /\ bean.bucket \in Buckets
  BY InHandTyped DEF Working
<1>2. Steps(t) /\ thread'[t].bucket = thread[t].bucket
  BY DEF Answers, KeepsBucket
<1>3. Handling'
  BY <1>1, <1>2, AnswersHandling, HandlingStep
<1>4. TypeOK'
  BY <1>2 DEF Typed, TypeOK, Steps, given
<1> QED BY <1>3, <1>4 DEF Typed

LEMMA TypedResponded ==
  ASSUME Typed, NEW t \in Threads, thread[t].at = "create",
         NEW answer \in Buckets \cup {Refused}, Responded(t, answer),
         UNCHANGED <<given, docs, step>>, filed' \subseteq Buckets
  PROVE  Typed'
<1>1. /\ t \in running /\ step' \in Threads
      /\ thread[t].bucket \in Buckets /\ bean.bucket \in Buckets
  BY InHandTyped DEF Working
<1>2. /\ bean' \in Bean /\ bean'.bucket = bean.bucket
      /\ TakesItem(t, answer) \/ Answers(t, answer)
  BY <1>1, RespondedSteps DEF Typed
<1>3. CASE Answers(t, answer)
  <2>1. items' \subseteq Item  BY DEF Typed, TypeOK, docs
  <2> QED BY <1>2, <1>3, <2>1, TypedAnswers DEF docs
<1>4. CASE TakesItem(t, answer)
  <2>1. /\ Steps(t) /\ thread'[t].bucket = thread[t].bucket
        /\ thread'[t].at = "item"
    BY <1>4 DEF TakesItem, KeepsBucket
  <2>2. Handling'
    BY <1>1, <1>2, <2>1, HandlingStep
  <2>3. TypeOK'
    BY <1>2, <2>1 DEF Typed, TypeOK, Steps, given, docs
  <2> QED BY <2>2, <2>3 DEF Typed
<1> QED BY <1>2, <1>3, <1>4

LEMMA TypedChiron ==
  ASSUME Typed, NEW t \in Threads,
         Created(t) \/ CreateRefused(t) \/ CreateThrows(t)
  PROVE  Typed'
<1>1. thread[t].at = "create"
  BY DEF Created, CreateRefused, CreateThrows
<1>2. thread[t].bucket \in Buckets /\ filed \subseteq Buckets /\ TypeOK
  BY <1>1, InHandTyped DEF Working, TypeOK
<1>3. CASE Created(t)
  BY <1>1, <1>2, <1>3, TypedResponded DEF Created
<1>4. CASE CreateRefused(t)
  BY <1>1, <1>2, <1>4, TypedResponded DEF CreateRefused
<1>5. CASE CreateThrows(t)
  <2>1. /\ filed' \subseteq Buckets /\ Answered(t, bean.bug)
        /\ UNCHANGED <<given, docs, step, bean>>
    BY <1>2, <1>5 DEF CreateThrows
  <2>2. bean.bug \in Buckets \cup {None, Refused} /\ bean' \in Bean /\ items' \subseteq Item
    BY <1>2, <2>1 DEF TypeOK, Bean, docs
  <2>3. Answers(t, bean.bug)
    BY <1>2, <2>1, <2>2, AnsweredSteps
  <2> QED BY <1>1, <2>1, <2>2, <2>3, TypedAnswers DEF docs
<1> QED BY <1>3, <1>4, <1>5

LEMMA TypedSaveItem == ASSUME Typed, NEW t \in Threads, SaveItem(t) PROVE Typed'
<1>1. /\ thread[t].at = "item" /\ items' = items \cup thread[t].item
      /\ Answered(t, bean.bug)
      /\ UNCHANGED <<given, trackers, jobs, failures, audits, filed, step, bean>>
  BY DEF SaveItem
<1>2. /\ thread[t].bucket \in Buckets /\ TypeOK /\ thread[t] \in ThreadState
      /\ bean.bug \in Buckets \cup {None, Refused}
  BY <1>1, InHandTyped DEF Working
<1>3. /\ items' \subseteq Item /\ bean' \in Bean /\ filed' \subseteq Buckets
      /\ bean'.bucket = bean.bucket
  BY <1>1, <1>2 DEF TypeOK, ThreadState
<1>4. Answers(t, bean.bug)
  BY <1>1, <1>2, AnsweredSteps
<1> QED BY <1>1, <1>2, <1>3, <1>4, TypedAnswers

\* A save that moves on.
LEMMA TypedMoved ==
  ASSUME Typed, NEW t \in Threads, thread[t].at \notin {"idle", "end"},
         NEW s \in {"next", "job", "end"}, Move(t, s),
         s = "job" => thread[t].at = "track",
         UNCHANGED <<given, items, filed, step, bean>>,
         trackers' \subseteq Booking, jobs' \subseteq Booking,
         failures' \subseteq Buckets, audits' \subseteq ForecastAudit
  PROVE  Typed'
<1>1. /\ t \in running /\ step' \in Threads /\ TypeOK
      /\ thread[t].at \in Working =>
           thread[t].bucket \in Buckets /\ bean.bucket \in Buckets
      /\ thread[t].at \in {"track", "job"} => thread[t].bug \in Buckets
  BY InHandTyped
<1>2. Steps(t) /\ KeepsRest(t) /\ thread'[t].at = s
  BY <1>1, Moved
<1>3. thread'[t].bucket = thread[t].bucket /\ thread'[t].bug = thread[t].bug
  BY <1>2 DEF KeepsRest, KeepsBucket, KeepsHand
<1>4. Handling'
  BY <1>1, <1>2, <1>3, HandlingStep DEF Working
<1>5. TypeOK'
  BY <1>2 DEF Typed, TypeOK, Steps, given
<1> QED BY <1>4, <1>5 DEF Typed

LEMMA TypedSaves ==
  ASSUME Typed, NEW t \in Threads,
         SaveFailure(t) \/ SaveTracker(t) \/ SaveJob(t) \/ SaveAudit(t)
  PROVE  Typed'
<1>1. /\ TypeOK /\ thread[t] \in ThreadState
      /\ thread[t].at \notin {"idle", "end"} => step \in Threads
      /\ thread[t].at \in Working => thread[t].bucket \in Buckets
      /\ thread[t].at \in {"track", "job"} => thread[t].bug \in Buckets
  BY InHandTyped
<1>2. CASE SaveFailure(t)
  <2>1. /\ thread[t].at = "failure" /\ failures' = failures \cup {thread[t].bucket}
        /\ Move(t, "next")
        /\ UNCHANGED <<given, items, trackers, jobs, audits, filed, step, bean>>
    BY <1>2 DEF SaveFailure
  <2>2. /\ failures' \subseteq Buckets /\ trackers' \subseteq Booking
        /\ jobs' \subseteq Booking /\ audits' \subseteq ForecastAudit
    BY <1>1, <2>1 DEF TypeOK, Working
  <2> QED BY <2>1, <2>2, TypedMoved
<1>3. CASE SaveTracker(t)
  <2>1. /\ thread[t].at = "track"
        /\ trackers' = trackers \cup {[bug |-> thread[t].bug, bucket |-> thread[t].bucket]}
        /\ Move(t, Stage(thread[t].bucket, "track"))
        /\ UNCHANGED <<given, items, jobs, failures, audits, filed, step, bean>>
    BY <1>3 DEF SaveTracker
  <2>2. /\ failures' \subseteq Buckets /\ trackers' \subseteq Booking
        /\ jobs' \subseteq Booking /\ audits' \subseteq ForecastAudit
    BY <1>1, <2>1 DEF TypeOK, Working, Booking
  <2>3. Stage(thread[t].bucket, "track") \in {"job", "next"}
    BY DEF Stage
  <2> QED BY <2>1, <2>2, <2>3, TypedMoved
<1>4. CASE SaveJob(t)
  <2>1. /\ thread[t].at = "job"
        /\ jobs' = jobs \cup {[bug |-> thread[t].bug, bucket |-> thread[t].bucket]}
        /\ Move(t, "next")
        /\ UNCHANGED <<given, items, trackers, failures, audits, filed, step, bean>>
    BY <1>4 DEF SaveJob
  <2>2. /\ failures' \subseteq Buckets /\ trackers' \subseteq Booking
        /\ jobs' \subseteq Booking /\ audits' \subseteq ForecastAudit
    BY <1>1, <2>1 DEF TypeOK, Working, Booking
  <2> QED BY <2>1, <2>2, TypedMoved
<1>5. CASE SaveAudit(t)
  <2>1. /\ thread[t].at = "next"
        /\ audits' = audits \cup {[agent |-> step, attributes |-> thread[t].attributes]}
        /\ Move(t, "end")
        /\ UNCHANGED <<given, items, trackers, jobs, failures, filed, step, bean>>
    BY <1>5 DEF SaveAudit
  <2>2. /\ failures' \subseteq Buckets /\ trackers' \subseteq Booking
        /\ jobs' \subseteq Booking /\ audits' \subseteq ForecastAudit
    BY <1>1, <2>1 DEF TypeOK, ForecastAudit, ThreadState
  <2> QED BY <2>1, <2>2, TypedMoved
<1> QED BY <1>2, <1>3, <1>4, <1>5

LEMMA TypedCrash == ASSUME Typed, Crash PROVE Typed'
<1>1. /\ thread' \in [Threads -> ThreadState]
      /\ \A t \in Threads : thread'[t].at = "end"
      /\ filed' \subseteq Buckets
  BY CrashSteps DEF Typed, IdleThread
<1>2. UNCHANGED <<given, docs, step, bean>>  BY DEF Crash
<1>3. Handling'  BY <1>1, <1>2 DEF Typed, Handling, given, Working
<1>4. TypeOK'  BY <1>1, <1>2 DEF Typed, TypeOK, given, docs
<1> QED BY <1>3, <1>4 DEF Typed

LEMMA TypedStutter == ASSUME Typed, UNCHANGED vars PROVE Typed'
  BY DEF Typed, TypeOK, Handling, vars, given, docs

\* The name of every action, to split a step by.
LEMMA StepCases ==
  ASSUME [Next]_vars
  PROVE  \/ UNCHANGED vars \/ Crash
         \/ \E t \in Threads : Accept(t)
         \/ \E t \in Threads, b \in Buckets : Create(t, b)
         \/ \E t \in Threads : Created(t) \/ CreateRefused(t) \/ CreateThrows(t)
         \/ \E t \in Threads : SaveItem(t)
         \/ \E t \in Threads :
              SaveFailure(t) \/ SaveTracker(t) \/ SaveJob(t) \/ SaveAudit(t)
  BY DEF Next, ThreadNext

LEMMA TypedNext == Typed /\ [Next]_vars => Typed'
<1> SUFFICES ASSUME Typed, [Next]_vars PROVE Typed'  OBVIOUS
<1> QED
  BY StepCases, TypedStutter, TypedCrash, TypedAccept, TypedCreate, TypedChiron,
     TypedSaveItem, TypedSaves

\* For any passes, buckets and faults the documents, the fields of the two
\* singletons and the passes keep to their types.
THEOREM Types == Spec => []TypeOK
<1>1. Typed => TypeOK  BY DEF Typed
<1> QED BY <1>1, TypedInit, TypedNext, PTL DEF Spec
-----------------------------------------------------------------------------
(***************************************************************************)
(* What is booked is in Chiron, also when passes overlap.                  *)
(***************************************************************************)
IsFiled(bug) == bug \in filed \cup {None}

BackedPass(t) ==
  /\ IsFiled(thread[t].bug)
  /\ \A i \in thread[t].item : IsFiled(i.bug)
  /\ \A a \in thread[t].attributes : IsFiled(a.bug)

LEMMA BackedIs ==
  Backed <=> /\ BookedIsFiled /\ bean.bug \in filed \cup {None, Refused}
             /\ \A t \in Threads : BackedPass(t)
  BY DEF Backed, BackedPass, IsFiled

LEMMA BackedInit == Init => Backed
  BY DEF Init, Backed, BookedIsFiled, IdleThread

\* Chiron forgets no bug.
LEMMA BackedStep ==
  ASSUME Typed, Backed, NEW t \in Threads, Steps(t), filed \subseteq filed',
         bean'.bug \in filed' \cup {None, Refused}, BackedPass(t)', BookedIsFiled'
  PROVE  Backed'
<1>1. ASSUME NEW u \in Threads PROVE BackedPass(u)'
  <2>1. CASE u = t  BY <2>1
  <2>2. CASE u # t
    <3>1. thread'[u] = thread[u] /\ BackedPass(u)
      BY <2>2, BackedIs DEF Steps
    <3> QED BY <3>1 DEF BackedPass, IsFiled
  <2> QED BY <2>1, <2>2
<1>2. (/\ BookedIsFiled /\ bean.bug \in filed \cup {None, Refused}
       /\ \A u \in Threads : BackedPass(u))' => Backed'
  BY DEF Backed, BackedPass, IsFiled
<1> QED BY <1>1, <1>2

LEMMA BookedGrows ==
  ASSUME BookedIsFiled, filed \subseteq filed', UNCHANGED docs
  PROVE  BookedIsFiled'
  BY DEF BookedIsFiled, docs

\* The line in the audit names the bug of the answer.
LEMMA BackedAnswers ==
  ASSUME Backed, NEW t \in Threads, NEW answer \in Buckets \cup {None, Refused},
         Answers(t, answer), filed \subseteq filed',
         answer \in filed' \cup {None, Refused}
  PROVE  BackedPass(t)'
<1>1. /\ BackedPass(t) /\ thread'[t].item = {}
      /\ thread'[t].attributes = Attributes(t, thread[t].bucket, thread'[t].bug)
  BY BackedIs DEF Answers
<1>2. thread'[t].bug \in filed' \cup {None}
  <2>1. CASE answer = Refused  BY <2>1 DEF Answers
  <2>2. CASE answer # Refused
    BY <2>2, AnswersHandling
  <2> QED BY <2>1, <2>2
<1>3. \A a \in thread'[t].attributes : a.bug \in filed' \cup {None}
  BY <1>1, <1>2 DEF Attributes, BackedPass, IsFiled
<1> QED BY <1>1, <1>2, <1>3 DEF BackedPass, IsFiled

LEMMA BackedKept ==
  ASSUME Backed, NEW t \in Threads, filed \subseteq filed', KeepsHand(t),
         \A a \in thread'[t].attributes : a \in thread[t].attributes \/ a.bug = None
  PROVE  BackedPass(t)'
<1>1. BackedPass(t)  BY BackedIs
<1> QED BY <1>1 DEF BackedPass, IsFiled, KeepsHand

LEMMA BackedAccept ==
  ASSUME Typed, Backed, NEW t \in Threads, Accept(t) PROVE Backed'
<1>1. /\ Steps(t) /\ KeepsHand(t) /\ thread'[t].attributes = thread[t].attributes
  BY AcceptSteps DEF Typed
<1>2. UNCHANGED <<given, docs, filed, bean>>  BY DEF Accept
<1>3. BackedPass(t)'  BY <1>1, <1>2, BackedKept
<1>4. BookedIsFiled'  BY <1>2, BookedGrows DEF Backed
<1>5. bean'.bug \in filed' \cup {None, Refused}  BY <1>2 DEF Backed
<1> QED BY <1>1, <1>2, <1>3, <1>4, <1>5, BackedStep

LEMMA BackedCreate ==
  ASSUME Typed, Backed, NEW t \in Threads, NEW b \in Buckets, Create(t, b)
  PROVE  Backed'
<1>1. /\ Steps(t) /\ KeepsHand(t) /\ bean'.bug = None
      /\ \/ thread'[t].attributes = thread[t].attributes
         \/ thread'[t].attributes = Attributes(t, b, None)
  BY CreateSteps DEF Typed
<1>2. UNCHANGED <<given, docs, filed, step>>  BY DEF Create
<1>3. \A a \in thread'[t].attributes : a \in thread[t].attributes \/ a.bug = None
  BY <1>1 DEF Attributes
<1>4. BackedPass(t)'  BY <1>1, <1>2, <1>3, BackedKept
<1>5. BookedIsFiled'  BY <1>2, BookedGrows DEF Backed
<1> QED BY <1>1, <1>2, <1>4, <1>5, BackedStep

\* Chiron gives the bug it has filed, or none.
LEMMA BackedResponded ==
  ASSUME Typed, Backed, NEW t \in Threads, thread[t].at = "create",
         NEW answer \in Buckets \cup {Refused}, Responded(t, answer),
         UNCHANGED docs, filed \subseteq filed', answer \in filed' \cup {Refused}
  PROVE  Backed'
<1>1. /\ thread[t].bucket \in Buckets /\ bean.bucket \in Buckets /\ TypeOK
  BY InHandTyped DEF Working
<1>2. /\ bean'.bug = answer
      /\ TakesItem(t, answer) \/ Answers(t, answer)
  BY <1>1, RespondedSteps
<1>3. Steps(t)  BY <1>2 DEF TakesItem, Answers
<1>4. BookedIsFiled'  BY BookedGrows DEF Backed
<1>5. BackedPass(t)'
  <2>1. CASE Answers(t, answer)  BY <2>1, BackedAnswers
  <2>2. CASE TakesItem(t, answer)
    <3>1. \A i \in thread'[t].item : i.bug \in filed' \cup {None}
      BY <2>2 DEF TakesItem
    <3>2. thread'[t].bug = thread[t].bug /\ thread'[t].attributes = thread[t].attributes
      BY <2>2 DEF TakesItem
    <3>3. BackedPass(t)  BY BackedIs
    <3> QED BY <3>1, <3>2, <3>3 DEF BackedPass, IsFiled
  <2> QED BY <1>2, <2>1, <2>2
<1> QED BY <1>2, <1>3, <1>4, <1>5, BackedStep

LEMMA BackedChiron ==
  ASSUME Typed, Backed, NEW t \in Threads,
         Created(t) \/ CreateRefused(t) \/ CreateThrows(t)
  PROVE  Backed'
<1>1. thread[t].at = "create"
  BY DEF Created, CreateRefused, CreateThrows
<1>2. /\ thread[t].bucket \in Buckets /\ TypeOK
      /\ bean.bug \in Buckets \cup {None, Refused}
  BY <1>1, InHandTyped DEF Working
<1>3. CASE Created(t)
  <2>1. /\ filed' = filed \cup {thread[t].bucket} /\ Responded(t, thread[t].bucket)
        /\ UNCHANGED docs
    BY <1>3 DEF Created
  <2> QED BY <1>1, <1>2, <2>1, BackedResponded
<1>4. CASE CreateRefused(t)
  <2>1. filed' = filed /\ Responded(t, Refused) /\ UNCHANGED docs
    BY <1>4 DEF CreateRefused
  <2> QED BY <1>1, <2>1, BackedResponded
<1>5. CASE CreateThrows(t)
  <2>1. /\ filed \subseteq filed' /\ Answered(t, bean.bug)
        /\ UNCHANGED docs /\ bean' = bean
    BY <1>5 DEF CreateThrows
  <2>2. Answers(t, bean.bug)  BY <1>2, <2>1, AnsweredSteps
  <2>3. bean.bug \in filed' \cup {None, Refused}  BY <2>1 DEF Backed
  <2>4. BackedPass(t)'  BY <1>2, <2>1, <2>2, <2>3, BackedAnswers
  <2>5. BookedIsFiled'  BY <2>1, BookedGrows DEF Backed
  <2>6. Steps(t)  BY <2>2 DEF Answers
  <2> QED BY <2>1, <2>3, <2>4, <2>5, <2>6, BackedStep
<1> QED BY <1>3, <1>4, <1>5

LEMMA BackedSaveItem ==
  ASSUME Typed, Backed, NEW t \in Threads, SaveItem(t) PROVE Backed'
<1>1. /\ thread[t].at = "item" /\ items' = items \cup thread[t].item
      /\ Answered(t, bean.bug)
      /\ UNCHANGED <<given, trackers, jobs, failures, audits, filed, step, bean>>
  BY DEF SaveItem
<1>2. /\ thread[t].bucket \in Buckets /\ TypeOK
      /\ bean.bug \in Buckets \cup {None, Refused}
  BY <1>1, InHandTyped DEF Working
<1>3. Answers(t, bean.bug)  BY <1>1, <1>2, AnsweredSteps
<1>4. bean.bug \in filed \cup {None, Refused} /\ BackedPass(t)  BY BackedIs
<1>5. BackedPass(t)'  BY <1>1, <1>2, <1>3, <1>4, BackedAnswers
<1>6. BookedIsFiled'
  BY <1>1, <1>4 DEF Backed, BackedPass, IsFiled, BookedIsFiled
<1>7. Steps(t)  BY <1>3 DEF Answers
<1> QED BY <1>1, <1>4, <1>5, <1>6, <1>7, BackedStep

LEMMA BackedSaves ==
  ASSUME Typed, Backed, NEW t \in Threads,
         SaveFailure(t) \/ SaveTracker(t) \/ SaveJob(t) \/ SaveAudit(t)
  PROVE  Backed'
<1>1. /\ thread[t].at \in {"track", "job"} => thread[t].bug \in Buckets
      /\ TypeOK
  BY InHandTyped
<1>2. BackedPass(t) /\ BookedIsFiled /\ bean.bug \in filed \cup {None, Refused}
  BY BackedIs
<1>3. UNCHANGED <<given, items, filed, step, bean>>
  BY DEF SaveFailure, SaveTracker, SaveJob, SaveAudit
<1>4. PICK s \in {"next", "job", "end"} : Move(t, s)
  BY DEF SaveFailure, SaveTracker, SaveJob, SaveAudit, Stage
<1>5. Steps(t) /\ KeepsRest(t)  BY <1>1, <1>4, Moved
<1>6. BackedPass(t)'  BY <1>3, <1>5, BackedKept DEF KeepsRest
<1>7. thread[t].at \in {"track", "job"} => thread[t].bug \in filed
  BY <1>1, <1>2, NoBug DEF BackedPass, IsFiled
<1>8. BookedIsFiled'
  <2>1. CASE SaveFailure(t)
    BY <1>2, <1>3, <2>1 DEF SaveFailure, BookedIsFiled
  <2>2. CASE SaveTracker(t)
    BY <1>2, <1>3, <1>7, <2>2 DEF SaveTracker, BookedIsFiled
  <2>3. CASE SaveJob(t)
    BY <1>2, <1>3, <1>7, <2>3 DEF SaveJob, BookedIsFiled
  <2>4. CASE SaveAudit(t)
    BY <1>2, <1>3, <2>4 DEF SaveAudit, BookedIsFiled, BackedPass, IsFiled
  <2> QED BY <2>1, <2>2, <2>3, <2>4
<1> QED BY <1>2, <1>3, <1>5, <1>6, <1>8, BackedStep

LEMMA BackedCrash == ASSUME Typed, Backed, Crash PROVE Backed'
<1>1. /\ \A t \in Threads : thread'[t] = [IdleThread EXCEPT !.at = "end"]
      /\ filed \subseteq filed'
  BY CrashSteps DEF Typed
<1>2. UNCHANGED <<given, docs, step, bean>>  BY DEF Crash
<1>3. \A t \in Threads : /\ thread'[t].bug = None /\ thread'[t].item = {}
                         /\ thread'[t].attributes = {}
  BY <1>1 DEF IdleThread
<1>4. BookedIsFiled'  BY <1>1, <1>2, BookedGrows DEF Backed
<1> QED BY <1>1, <1>2, <1>3, <1>4 DEF Backed

LEMMA BackedStutter == ASSUME Backed, UNCHANGED vars PROVE Backed'
  BY DEF Backed, BookedIsFiled, vars, docs

LEMMA BackedNext == Typed /\ Backed /\ [Next]_vars => Backed'
<1> SUFFICES ASSUME Typed, Backed, [Next]_vars PROVE Backed'  OBVIOUS
<1> QED
  BY StepCases, BackedStutter, BackedCrash, BackedAccept, BackedCreate,
     BackedChiron, BackedSaveItem, BackedSaves

\* Whatever Chiron and YUVA do, wherever the node stops and however passes
\* overlap in the fields of BugCreator, no analysis, tracker, job of the
\* auto-closer or line of an audit names a bug that was never filed.
THEOREM BooksOnlyFiled == Spec => []BookedIsFiled
<1>1. Backed => BookedIsFiled  BY DEF Backed
<1> QED BY <1>1, TypedInit, TypedNext, BackedInit, BackedNext, PTL DEF Spec
-----------------------------------------------------------------------------
(***************************************************************************)
(* What the single pass of a node books is of its own bucket and agent.    *)
(***************************************************************************)
OwnDocs ==
  /\ \A i \in items : i.bug \in {None, i.analysis}
  /\ \A r \in trackers \cup jobs : r.bug = r.bucket
  /\ \A audit \in audits : \A a \in audit.attributes :
       a.bug \in {None, a.bucket} /\ buckets[a.bucket].thread = audit.agent

LEMMA FaithfulIs ==
  Faithful <=> \A t \in Threads : running = {t} => OwnDocs /\ OwnFields(t)
  BY DEF Faithful, BookedOnItsBucket, Alone, OwnDocs

LEMMA FaithfulInit == Init => Faithful
<1> SUFFICES ASSUME Init, NEW t \in Threads PROVE OwnDocs /\ OwnFields(t)
  BY FaithfulIs
<1> QED BY DEF Init, OwnDocs, OwnFields, IdleThread, Working

LEMMA FaithfulStep ==
  ASSUME Faithful, NEW t \in Threads, t \in running, running' = running,
         running = {t} /\ OwnDocs /\ OwnFields(t) => OwnDocs' /\ OwnFields(t)'
  PROVE  Faithful'
<1>1. \A u \in Threads : running = {u} => u = t  OBVIOUS
<1>2. \A u \in Threads : running' = {u} => OwnDocs' /\ OwnFields(u)'
  BY <1>1, FaithfulIs
<1>3. (\A u \in Threads : running = {u} => OwnDocs /\ OwnFields(u))' => Faithful'
  BY DEF Faithful, BookedOnItsBucket, Alone, OwnDocs
<1> QED BY <1>2, <1>3

LEMMA FaithfulAccept ==
  ASSUME Typed, Faithful, NEW t \in Threads, Accept(t) PROVE Faithful'
<1>1. UNCHANGED <<given, docs, filed, bean>> /\ step' = t /\ t \in running
  BY DEF Accept
<1> SUFFICES ASSUME running = {t}, OwnDocs, OwnFields(t)
             PROVE  OwnDocs' /\ OwnFields(t)'
  BY <1>1, FaithfulStep DEF given
<1>2. /\ thread'[t].at = "next" /\ KeepsHand(t)
      /\ thread'[t].attributes = thread[t].attributes
      /\ thread'[t].todo = {b \in Buckets : buckets[b].thread = t}
  BY AcceptSteps DEF Typed
<1>3. OwnDocs'  BY <1>1 DEF OwnDocs, docs, given
<1>4. OwnFields(t)'
  BY <1>1, <1>2 DEF OwnFields, KeepsHand, given, Working
<1> QED BY <1>3, <1>4

LEMMA FaithfulCreate ==
  ASSUME Typed, Faithful, NEW t \in Threads, NEW b \in Buckets, Create(t, b)
  PROVE  Faithful'
<1>1. /\ UNCHANGED <<given, docs, filed, step>> /\ thread[t].at = "next"
      /\ b \in thread[t].todo /\ t \in running
  BY InHandTyped DEF Create
<1> SUFFICES ASSUME running = {t}, OwnDocs, OwnFields(t)
             PROVE  OwnDocs' /\ OwnFields(t)'
  BY <1>1, FaithfulStep DEF given
<1>2. /\ KeepsHand(t) /\ bean'.bucket = b /\ bean'.bug = None
      /\ thread'[t].todo = thread[t].todo \ {b}
      /\ \/ /\ thread'[t].at = "create" /\ thread'[t].bucket = b
            /\ thread'[t].attributes = thread[t].attributes
         \/ /\ thread'[t].at = "next"
            /\ thread'[t].attributes = Attributes(t, b, None)
  BY CreateSteps DEF Typed
<1>3. OwnDocs'  BY <1>1 DEF OwnDocs, docs, given
<1>4. step' = t /\ buckets'[b].thread = t /\ buckets' = buckets
  BY <1>1 DEF OwnFields, given
<1>5. \A a \in thread'[t].attributes :
        a.bug \in {None, a.bucket} /\ buckets[a.bucket].thread = t
  BY <1>2, <1>4 DEF OwnFields, Attributes
<1>6. OwnFields(t)'
  BY <1>2, <1>4, <1>5 DEF OwnFields, KeepsHand, Working
<1> QED BY <1>3, <1>6

LEMMA OwnAnswers ==
  ASSUME Typed, NEW t \in Threads, OwnFields(t), thread[t].at \in {"create", "item"},
         NEW answer \in {None, Refused, thread[t].bucket}, Answers(t, answer),
         bean'.bucket = bean.bucket, UNCHANGED <<given, step>>
  PROVE  OwnFields(t)'
<1>1. thread[t].bucket \in Buckets
  BY InHandTyped DEF Working
<1>2. /\ thread'[t].bucket = thread[t].bucket /\ thread'[t].todo = thread[t].todo
      /\ thread'[t].item = {} /\ thread'[t].at \in {"next", "failure", "track", "job"}
      /\ thread'[t].attributes = Attributes(t, thread[t].bucket, thread'[t].bug)
  BY <1>1, AnswersHandling DEF Answers, KeepsBucket
<1>3. /\ thread'[t].bug \in {None, thread[t].bucket}
      /\ thread'[t].at \in {"track", "job"} => thread'[t].bug = thread[t].bucket
  BY <1>1, AnswersHandling, NoBug DEF Answers
<1>4. /\ step' = t /\ buckets' = buckets /\ bean'.bucket = thread[t].bucket
      /\ buckets[thread[t].bucket].thread = t
  BY DEF OwnFields, given, Working
<1>5. \A a \in thread'[t].attributes :
        a.bug \in {None, a.bucket} /\ buckets[a.bucket].thread = t
  BY <1>2, <1>3, <1>4 DEF OwnFields, Attributes
<1> QED
  BY <1>2, <1>3, <1>4, <1>5 DEF OwnFields, Working

LEMMA OwnResponded ==
  ASSUME Typed, NEW t \in Threads, OwnFields(t), thread[t].at = "create",
         NEW answer \in {Refused, thread[t].bucket}, Responded(t, answer),
         UNCHANGED <<given, docs, step>>
  PROVE  OwnFields(t)'
<1>1. thread[t].bucket \in Buckets /\ bean.bucket \in Buckets /\ TypeOK
  BY InHandTyped DEF Working
<1>2. /\ bean'.bucket = bean.bucket /\ bean'.bug = answer
      /\ TakesItem(t, answer) \/ Answers(t, answer)
  BY <1>1, RespondedSteps
<1>3. CASE Answers(t, answer)
  BY <1>2, <1>3, OwnAnswers
<1>4. CASE TakesItem(t, answer)
  <2>1. /\ thread'[t].bucket = thread[t].bucket /\ thread'[t].todo = thread[t].todo
        /\ thread'[t].at = "item" /\ thread'[t].attributes = thread[t].attributes
    BY <1>4 DEF TakesItem, KeepsBucket
  <2>2. /\ step' = t /\ buckets' = buckets /\ bean.bucket = thread[t].bucket
        /\ buckets[thread[t].bucket].thread = t
    BY DEF OwnFields, given, Working
  <2>3. \A i \in thread'[t].item : i.bug \in {None, i.analysis}
    BY <1>4, <2>2 DEF TakesItem
  <2> QED BY <1>2, <2>1, <2>2, <2>3 DEF OwnFields
<1> QED BY <1>2, <1>3, <1>4

LEMMA FaithfulChiron ==
  ASSUME Typed, Faithful, NEW t \in Threads,
         Created(t) \/ CreateRefused(t) \/ CreateThrows(t)
  PROVE  Faithful'
<1>1. /\ thread[t].at = "create" /\ UNCHANGED <<given, docs, step>>
  BY DEF Created, CreateRefused, CreateThrows
<1>2. t \in running /\ thread[t].bucket \in Buckets /\ TypeOK
  BY <1>1, InHandTyped DEF Working
<1> SUFFICES ASSUME running = {t}, OwnDocs, OwnFields(t)
             PROVE  OwnDocs' /\ OwnFields(t)'
  BY <1>1, <1>2, FaithfulStep DEF given
<1>3. OwnDocs'  BY <1>1 DEF OwnDocs, docs, given
<1>4. OwnFields(t)'
  <2>1. CASE Created(t)
    BY <1>1, <2>1, OwnResponded DEF Created
  <2>2. CASE CreateRefused(t)
    BY <1>1, <2>2, OwnResponded DEF CreateRefused
  <2>3. CASE CreateThrows(t)
    <3>1. Answered(t, bean.bug) /\ bean' = bean /\ bean.bug = None
      BY <1>1, <2>3 DEF CreateThrows, OwnFields
    <3>2. Answers(t, None)
      BY <1>2, <3>1, AnsweredSteps
    <3> QED BY <1>1, <3>1, <3>2, OwnAnswers
  <2> QED BY <2>1, <2>2, <2>3
<1> QED BY <1>3, <1>4

LEMMA FaithfulSaveItem ==
  ASSUME Typed, Faithful, NEW t \in Threads, SaveItem(t) PROVE Faithful'
<1>1. /\ thread[t].at = "item" /\ items' = items \cup thread[t].item
      /\ Answered(t, bean.bug)
      /\ UNCHANGED <<given, trackers, jobs, failures, audits, filed, step, bean>>
  BY DEF SaveItem
<1>2. t \in running /\ thread[t].bucket \in Buckets /\ TypeOK
      /\ bean.bug \in Buckets \cup {None, Refused}
  BY <1>1, InHandTyped DEF Working
<1> SUFFICES ASSUME running = {t}, OwnDocs, OwnFields(t)
             PROVE  OwnDocs' /\ OwnFields(t)'
  BY <1>1, <1>2, FaithfulStep DEF given
<1>3. bean.bug \in {None, Refused, thread[t].bucket}
  BY <1>1 DEF OwnFields
<1>4. Answers(t, bean.bug)  BY <1>1, <1>2, AnsweredSteps
<1>5. OwnFields(t)'  BY <1>1, <1>3, <1>4, OwnAnswers
<1>6. OwnDocs'  BY <1>1 DEF OwnDocs, OwnFields, given
<1> QED BY <1>5, <1>6

LEMMA FaithfulSaves ==
  ASSUME Typed, Faithful, NEW t \in Threads,
         SaveFailure(t) \/ SaveTracker(t) \/ SaveJob(t) \/ SaveAudit(t)
  PROVE  Faithful'
<1>1. UNCHANGED <<given, items, filed, step, bean>>
  BY DEF SaveFailure, SaveTracker, SaveJob, SaveAudit
<1>2. /\ thread[t].at \in {"failure", "track", "job", "next"}
      /\ \E s \in {"next", "job", "end"} :
           Move(t, s) /\ (s = "job" => thread[t].at = "track")
  BY DEF SaveFailure, SaveTracker, SaveJob, SaveAudit, Stage
<1>3. PICK s \in {"next", "job", "end"} :
        Move(t, s) /\ (s = "job" => thread[t].at = "track")
  BY <1>2
<1>4. TypeOK /\ t \in running
  BY <1>2, InHandTyped
<1> SUFFICES ASSUME running = {t}, OwnDocs, OwnFields(t)
             PROVE  OwnDocs' /\ OwnFields(t)'
  BY <1>1, <1>4, FaithfulStep DEF given
<1>5. KeepsRest(t) /\ thread'[t].at = s  BY <1>3, <1>4, Moved
<1>6. OwnFields(t)'
  BY <1>1, <1>2, <1>3, <1>5 DEF OwnFields, KeepsRest, KeepsBucket, KeepsHand, Working, given
<1>7. OwnDocs'
  <2>1. CASE SaveFailure(t)
    BY <1>1, <2>1 DEF SaveFailure, OwnDocs, given
  <2>2. CASE SaveTracker(t)
    BY <1>1, <2>2 DEF SaveTracker, OwnDocs, OwnFields, given
  <2>3. CASE SaveJob(t)
    BY <1>1, <2>3 DEF SaveJob, OwnDocs, OwnFields, given
  <2>4. CASE SaveAudit(t)
    <3>1. /\ audits' = audits \cup {[agent |-> step, attributes |-> thread[t].attributes]}
          /\ UNCHANGED <<items, trackers, jobs>> /\ step = t
      BY <1>1, <1>2, <2>4 DEF SaveAudit, OwnFields
    <3> QED BY <1>1, <3>1 DEF OwnDocs, OwnFields, given
  <2> QED BY <2>1, <2>2, <2>3, <2>4
<1> QED BY <1>6, <1>7

LEMMA FaithfulCrash == ASSUME Typed, Faithful, Crash PROVE Faithful'
<1>1. \A t \in Threads : thread'[t] = [IdleThread EXCEPT !.at = "end"]
  BY CrashSteps DEF Typed
<1>2. UNCHANGED <<given, docs, step, bean>>  BY DEF Crash
<1>3. \A t \in Threads : /\ thread'[t].at = "end" /\ thread'[t].todo = {}
                         /\ thread'[t].item = {} /\ thread'[t].attributes = {}
  BY <1>1 DEF IdleThread
<1>4. \A t \in Threads : running' = {t} => OwnFields(t)'
  BY <1>3 DEF OwnFields, Working
<1>5. BookedOnItsBucket'
  BY <1>2 DEF Faithful, BookedOnItsBucket, Alone, given, docs
<1> QED BY <1>4, <1>5 DEF Faithful

LEMMA FaithfulStutter == ASSUME Faithful, UNCHANGED vars PROVE Faithful'
  BY DEF Faithful, BookedOnItsBucket, Alone, OwnFields, vars, given, docs

LEMMA FaithfulNext == Typed /\ Faithful /\ [Next]_vars => Faithful'
<1> SUFFICES ASSUME Typed, Faithful, [Next]_vars PROVE Faithful'  OBVIOUS
<1> QED
  BY StepCases, FaithfulStutter, FaithfulCrash, FaithfulAccept, FaithfulCreate,
     FaithfulChiron, FaithfulSaveItem, FaithfulSaves

\* While no two passes overlap, every analysis, tracker, job and line of an
\* audit that is booked on a bug is of the bucket the bug was filed for, and
\* the audit is of the bucket's agent: the fields that BugCreator and
\* BugCreatorStep keep between calls are those of the bucket and agent at hand,
\* also after a call that threw.
THEOREM BooksOnOwnBucket == Spec => []BookedOnItsBucket
<1>1. Faithful => BookedOnItsBucket  BY DEF Faithful
<1> QED BY <1>1, TypedInit, TypedNext, FaithfulInit, FaithfulNext, PTL DEF Spec
-----------------------------------------------------------------------------
(***************************************************************************)
(* A bug of a site error has its job.                                      *)
(***************************************************************************)
Calm == faults \cap {"chironThrows", "crash"} = {}

Mine(t, b) == thread[t].bucket = b /\ thread[t].at \in Working

HaveJobs(t) ==
  \A b \in filed : buckets[b].site =>
    Mine(t, b) \/ [bug |-> b, bucket |-> b] \in jobs

\* The bucket in hand is in the hands of the single pass.
LEMMA InHandIsMine ==
  ASSUME Typed, NEW t \in Threads, running = {t}, NEW b \in Buckets
  PROVE  InHand(b) <=> Mine(t, b)
<1>1. ASSUME InHand(b) PROVE Mine(t, b)
  <2>1. PICK u \in Threads : thread[u].bucket = b /\ thread[u].at \notin {"next", "end"}
    BY <1>1 DEF InHand
  <2>2. thread[u].at # "idle"
    BY <2>1, NoBug DEF Typed, Handling
  <2>3. u \in running  BY <2>1, <2>2 DEF Typed, Handling
  <2>4. thread[u] \in ThreadState  BY DEF Typed, TypeOK
  <2> QED BY <2>1, <2>2, <2>3, <2>4 DEF Mine, Working, ThreadState
<1>2. ASSUME Mine(t, b) PROVE InHand(b)
  BY <1>2 DEF InHand, Mine, Working
<1> QED BY <1>1, <1>2

ClosableAlone ==
  Calm => \A t \in Threads : running = {t} => HaveJobs(t) /\ Unfiled(t)

LEMMA ClosableIs == Typed => (Closable <=> ClosableAlone)
<1> SUFFICES ASSUME Typed PROVE Closable <=> ClosableAlone  OBVIOUS
<1>1. filed \subseteq Buckets  BY DEF Typed, TypeOK
<1>2. ASSUME NEW t \in Threads, running = {t}, Calm
      PROVE  FiledIsClosable <=> HaveJobs(t)
  BY <1>1, <1>2, InHandIsMine DEF FiledIsClosable, Alone, HaveJobs, Calm
<1>3. ~Alone => FiledIsClosable  BY DEF FiledIsClosable
<1> QED BY <1>2, <1>3 DEF Closable, ClosableAlone, Calm, Alone

LEMMA ClosableIsThen == Typed' => (Closable' <=> ClosableAlone')
<1>1. (Typed => (Closable <=> ClosableAlone))'
  BY ClosableIs, PTL
<1> QED BY <1>1

LEMMA ClosableInit == Init => Closable
<1> SUFFICES ASSUME Init, NEW t \in Threads PROVE HaveJobs(t) /\ Unfiled(t)
  BY TypedInit, ClosableIs DEF ClosableAlone
<1> QED BY DEF Init, HaveJobs, Unfiled, IdleThread

LEMMA ClosableStep ==
  ASSUME Typed, Typed', Closable, NEW t \in Threads, t \in running,
         running' = running, faults' = faults,
         Calm /\ running = {t} /\ HaveJobs(t) /\ Unfiled(t) => HaveJobs(t)' /\ Unfiled(t)'
  PROVE  Closable'
<1>1. \A u \in Threads : running = {u} => u = t  OBVIOUS
<1>2. Calm' => \A u \in Threads : running' = {u} => HaveJobs(u)' /\ Unfiled(u)'
  BY <1>1, ClosableIs DEF Calm, ClosableAlone
<1> QED BY <1>2, ClosableIsThen DEF ClosableAlone

LEMMA ClosableAccept ==
  ASSUME Typed, Typed', Closable, NEW t \in Threads, Accept(t) PROVE Closable'
<1>1. /\ UNCHANGED <<given, docs, filed, bean>> /\ t \in running
      /\ thread[t].at = "idle"
  BY DEF Accept
<1> SUFFICES ASSUME Calm, running = {t}, HaveJobs(t), Unfiled(t)
             PROVE  HaveJobs(t)' /\ Unfiled(t)'
  BY <1>1, ClosableStep DEF given
<1>2. filed' = {}  BY <1>1 DEF Unfiled
<1>3. thread'[t].at = "next"  BY AcceptSteps DEF Typed
<1> QED BY <1>2, <1>3 DEF HaveJobs, Unfiled

LEMMA ClosableCreate ==
  ASSUME Typed, Typed', Closable, NEW t \in Threads, NEW b \in Buckets, Create(t, b)
  PROVE  Closable'
<1>1. /\ UNCHANGED <<given, docs, filed, step>> /\ thread[t].at = "next"
      /\ b \in thread[t].todo /\ t \in running
  BY InHandTyped DEF Create
<1> SUFFICES ASSUME Calm, running = {t}, HaveJobs(t), Unfiled(t)
             PROVE  HaveJobs(t)' /\ Unfiled(t)'
  BY <1>1, ClosableStep DEF given
<1>2. /\ thread'[t].todo = thread[t].todo \ {b}
      /\ \/ thread'[t].at = "create" /\ thread'[t].bucket = b
         \/ thread'[t].at = "next"
  BY CreateSteps DEF Typed
<1>3. HaveJobs(t)'  BY <1>1 DEF HaveJobs, Mine, Working, given, docs
<1>4. Unfiled(t)'  BY <1>1, <1>2 DEF Unfiled
<1> QED BY <1>3, <1>4

\* An answer of Chiron, with the bug filed or with a refusal.
LEMMA ClosableAnswers ==
  ASSUME Typed, NEW t \in Threads, HaveJobs(t), Unfiled(t),
         thread[t].at \in {"create", "item"},
         NEW answer \in {Refused, thread[t].bucket}, Answers(t, answer),
         UNCHANGED <<given, jobs>>,
         answer = Refused => filed' = filed /\ thread[t].bucket \notin filed,
         answer # Refused =>
           filed' = filed \cup {thread[t].bucket} /\ thread[t].bucket \notin thread[t].todo
  PROVE  HaveJobs(t)' /\ Unfiled(t)'
<1>1. thread[t].bucket \in Buckets  BY InHandTyped DEF Working
<1>2. /\ thread'[t].bucket = thread[t].bucket /\ thread'[t].todo = thread[t].todo
      /\ buckets' = buckets
  BY DEF Answers, KeepsBucket, given
<1>3. \A b \in filed : b # thread[t].bucket /\ buckets[b].site =>
        [bug |-> b, bucket |-> b] \in jobs
  BY DEF HaveJobs, Mine
<1>4. CASE answer = Refused
  <2>1. thread'[t].at = "failure"  BY <1>4 DEF Answers
  <2> QED BY <1>2, <1>3, <1>4, <2>1 DEF HaveJobs, Unfiled
<1>5. CASE answer = thread[t].bucket
  <2>1. answer \in Buckets /\ answer # Refused  BY <1>1, <1>5, NoBug
  <2>2. thread'[t].at = Stage(answer, thread[t].at)  BY <1>5, <2>1 DEF Answers
  <2>3. /\ thread'[t].at \in {"track", "job", "next"}
        /\ buckets[answer].site => thread'[t].at \in {"track", "job"}
    BY <2>2, StageAt
  <2>4. HaveJobs(t)'
    BY <1>2, <1>3, <1>5, <2>1, <2>3 DEF HaveJobs, Mine, Working
  <2>5. Unfiled(t)'
    BY <1>2, <1>5, <2>1, <2>3 DEF Unfiled
  <2> QED BY <2>4, <2>5
<1> QED BY <1>4, <1>5

LEMMA ClosableResponded ==
  ASSUME Typed, NEW t \in Threads, HaveJobs(t), Unfiled(t), thread[t].at = "create",
         NEW answer \in {Refused, thread[t].bucket}, Responded(t, answer),
         UNCHANGED <<given, docs>>,
         answer = Refused => filed' = filed,
         answer # Refused => filed' = filed \cup {thread[t].bucket}
  PROVE  HaveJobs(t)' /\ Unfiled(t)'
<1>1. thread[t].bucket \in Buckets /\ bean.bucket \in Buckets /\ TypeOK
  BY InHandTyped DEF Working
<1>2. /\ bean'.bug = answer
      /\ TakesItem(t, answer) \/ Answers(t, answer)
  BY <1>1, RespondedSteps
<1>3. thread[t].bucket \notin filed /\ thread[t].bucket \notin thread[t].todo
  BY DEF Unfiled
<1>4. CASE Answers(t, answer)
  BY <1>3, <1>4, ClosableAnswers DEF docs
<1>5. CASE TakesItem(t, answer)
  <2>1. /\ thread'[t].bucket = thread[t].bucket /\ thread'[t].todo = thread[t].todo
        /\ thread'[t].at = "item" /\ buckets' = buckets /\ jobs' = jobs
    BY <1>5 DEF TakesItem, KeepsBucket, given, docs
  <2>2. \A b \in filed : buckets[b].site => [bug |-> b, bucket |-> b] \in jobs
    BY <1>3 DEF HaveJobs, Mine
  <2>3. filed' \subseteq filed \cup {thread[t].bucket}  OBVIOUS
  <2>4. HaveJobs(t)'
    BY <2>1, <2>2, <2>3 DEF HaveJobs, Mine, Working
  <2>5. Unfiled(t)'
    BY <1>2, <1>3, <2>1, <2>3 DEF Unfiled
  <2> QED BY <2>4, <2>5
<1> QED BY <1>2, <1>4, <1>5

LEMMA ClosableChiron ==
  ASSUME Typed, Typed', Closable, NEW t \in Threads,
         Created(t) \/ CreateRefused(t) \/ CreateThrows(t)
  PROVE  Closable'
<1>1. /\ thread[t].at = "create" /\ UNCHANGED <<given, docs, step>>
  BY DEF Created, CreateRefused, CreateThrows
<1>2. t \in running /\ thread[t].bucket \in Buckets
  BY <1>1, InHandTyped DEF Working
<1> SUFFICES ASSUME Calm, running = {t}, HaveJobs(t), Unfiled(t)
             PROVE  HaveJobs(t)' /\ Unfiled(t)'
  BY <1>1, <1>2, ClosableStep DEF given
<1>3. CASE Created(t)
  BY <1>1, <1>2, <1>3, NoBug, ClosableResponded DEF Created
<1>4. CASE CreateRefused(t)
  BY <1>1, <1>4, ClosableResponded DEF CreateRefused
<1>5. ~CreateThrows(t)  BY DEF CreateThrows, Calm
<1> QED BY <1>3, <1>4, <1>5

LEMMA ClosableSaveItem ==
  ASSUME Typed, Typed', Backed, Faithful, Closable, NEW t \in Threads, SaveItem(t)
  PROVE  Closable'
<1>1. /\ thread[t].at = "item" /\ Answered(t, bean.bug)
      /\ UNCHANGED <<given, trackers, jobs, failures, audits, filed, step, bean>>
  BY DEF SaveItem
<1>2. /\ t \in running /\ thread[t].bucket \in Buckets /\ TypeOK
      /\ bean.bug \in Buckets \cup {None, Refused}
  BY <1>1, InHandTyped DEF Working
<1> SUFFICES ASSUME Calm, running = {t}, HaveJobs(t), Unfiled(t)
             PROVE  HaveJobs(t)' /\ Unfiled(t)'
  BY <1>1, <1>2, ClosableStep DEF given
<1>3. bean.bug \in {Refused, thread[t].bucket}
  BY <1>1, FaithfulIs DEF OwnFields
<1>4. Answers(t, bean.bug)  BY <1>1, <1>2, AnsweredSteps
<1>5. /\ bean.bug = Refused => thread[t].bucket \notin filed
      /\ bean.bug # Refused =>
           thread[t].bucket \in filed /\ thread[t].bucket \notin thread[t].todo
  BY <1>1, <1>2, <1>3, NoBug DEF Backed, Unfiled
<1> QED BY <1>1, <1>3, <1>4, <1>5, ClosableAnswers

LEMMA ClosableSaves ==
  ASSUME Typed, Typed', Faithful, Closable, NEW t \in Threads,
         SaveFailure(t) \/ SaveTracker(t) \/ SaveJob(t) \/ SaveAudit(t)
  PROVE  Closable'
<1>1. UNCHANGED <<given, items, filed, step, bean>>
  BY DEF SaveFailure, SaveTracker, SaveJob, SaveAudit
<1>2. /\ thread[t].at \in {"failure", "track", "job", "next"}
      /\ thread[t].at # "track" => Move(t, "next") \/ Move(t, "end")
      /\ thread[t].at = "track" => Move(t, Stage(thread[t].bucket, "track"))
      /\ jobs \subseteq jobs'
      /\ thread[t].at = "job" =>
           [bug |-> thread[t].bug, bucket |-> thread[t].bucket] \in jobs'
  BY DEF SaveFailure, SaveTracker, SaveJob, SaveAudit
<1>3. TypeOK /\ t \in running
  BY <1>2, InHandTyped
<1> SUFFICES ASSUME Calm, running = {t}, HaveJobs(t), Unfiled(t)
             PROVE  HaveJobs(t)' /\ Unfiled(t)'
  BY <1>1, <1>3, ClosableStep DEF given
<1>4. PICK s \in {"next", "job", "end"} :
        /\ Move(t, s)
        /\ thread[t].at = "track" /\ buckets[thread[t].bucket].site => s = "job"
        /\ thread[t].at # "track" => s # "job"
  BY <1>2 DEF Stage
<1>5. KeepsRest(t) /\ thread'[t].at = s  BY <1>3, <1>4, Moved
<1>6. /\ thread'[t].bucket = thread[t].bucket /\ thread'[t].todo = thread[t].todo
      /\ buckets' = buckets /\ filed' = filed
  BY <1>1, <1>5 DEF KeepsRest, KeepsBucket, given
<1>7. thread[t].at = "job" => thread[t].bug = thread[t].bucket
  BY FaithfulIs DEF OwnFields
<1>8. HaveJobs(t)'
  <2> SUFFICES ASSUME NEW b \in filed, buckets[b].site
               PROVE  Mine(t, b)' \/ [bug |-> b, bucket |-> b] \in jobs'
    BY <1>6 DEF HaveJobs
  <2>1. CASE [bug |-> b, bucket |-> b] \in jobs  BY <1>2, <2>1
  <2>2. CASE Mine(t, b)
    <3>1. thread[t].bucket = b /\ thread[t].at # "next" /\ thread[t].at # "failure"
      BY <2>2 DEF Mine, Working, Unfiled
    <3>2. CASE thread[t].at = "track"
      BY <1>4, <1>5, <1>6, <3>1, <3>2 DEF Mine, Working
    <3>3. CASE thread[t].at = "job"
      BY <1>2, <1>7, <3>1, <3>3
    <3> QED BY <1>2, <3>1, <3>2, <3>3
  <2> QED BY <2>1, <2>2 DEF HaveJobs
<1>9. Unfiled(t)'
  BY <1>4, <1>5, <1>6 DEF Unfiled
<1> QED BY <1>8, <1>9

LEMMA ClosableCrash == ASSUME Closable, Crash PROVE Closable'
<1>1. "crash" \in faults' BY DEF Crash, given
<1> QED BY <1>1 DEF Closable

LEMMA ClosableStutter == ASSUME Closable, UNCHANGED vars PROVE Closable'
  BY DEF Closable, FiledIsClosable, Alone, InHand, Unfiled, vars, given, docs

LEMMA ClosableNext ==
  Typed /\ Typed' /\ Backed /\ Faithful /\ Closable /\ [Next]_vars => Closable'
<1> SUFFICES ASSUME Typed, Typed', Backed, Faithful, Closable, [Next]_vars
             PROVE  Closable'
  OBVIOUS
<1> QED
  BY StepCases, ClosableStutter, ClosableCrash, ClosableAccept, ClosableCreate,
     ClosableChiron, ClosableSaveItem, ClosableSaves

\* While no two passes overlap, no answer of Chiron is lost and the node does
\* not stop, each bug that is filed for a site error gets its job for the
\* auto-closer: it has it, or its pass has it in hand.
THEOREM FiledGetsJob == Spec => []FiledIsClosable
<1>1. Closable => FiledIsClosable
  BY DEF Closable, FiledIsClosable
<1> QED
  BY <1>1, TypedInit, TypedNext, BackedInit, BackedNext, FaithfulInit, FaithfulNext,
     ClosableInit, ClosableNext, PTL DEF Spec

-----------------------------------------------------------------------------
(***************************************************************************)
(* What an audit records.                                                  *)
(***************************************************************************)
Heard == faults \cap {"chironThrows", "yuvaThrows"} = {}

AuditsRecord ==
  \A audit \in audits : \A b \in Buckets :
    \/ b \in failures
    \/ b \in filed /\ [bucket |-> b, bug |-> b] \in audit.attributes

AccountsFor(t) ==
  /\ thread[t].yuva
  /\ thread[t].at \notin {"idle", "end"} => \A b \in Buckets : Accounted(t, b)

LEMMA RecordedIs ==
  Recorded <=> (Heard => \A t \in Threads : running = {t} => AuditsRecord /\ AccountsFor(t))
  BY DEF Recorded, NothingLost, Alone, Heard, AuditsRecord, AccountsFor

LEMMA RecordedInit == Init => Recorded
<1> SUFFICES ASSUME Init, NEW t \in Threads PROVE AuditsRecord /\ AccountsFor(t)
  BY RecordedIs
<1> QED BY DEF Init, AuditsRecord, AccountsFor, IdleThread

LEMMA RecordedStep ==
  ASSUME Recorded, NEW t \in Threads, t \in running,
         running' = running, faults' = faults,
         Heard /\ running = {t} /\ AuditsRecord /\ AccountsFor(t) =>
           AuditsRecord' /\ AccountsFor(t)'
  PROVE  Recorded'
<1>1. \A u \in Threads : running = {u} => u = t  OBVIOUS
<1>2. Heard' => \A u \in Threads : running' = {u} => AuditsRecord' /\ AccountsFor(u)'
  BY <1>1, RecordedIs DEF Heard
<1>3. Recorded' <=> (Heard' => \A u \in Threads : running' = {u} =>
                                 AuditsRecord' /\ AccountsFor(u)')
  BY DEF Recorded, NothingLost, Alone, Heard, AuditsRecord, AccountsFor
<1> QED BY <1>2, <1>3

\* What an earlier audit records stays so.
LEMMA RecordsStay ==
  ASSUME AuditsRecord, failures \subseteq failures', filed \subseteq filed',
         audits' = audits
  PROVE  AuditsRecord'
  BY DEF AuditsRecord

LEMMA RecordedAccept ==
  ASSUME Typed, Recorded, NEW t \in Threads, Accept(t) PROVE Recorded'
<1>1. UNCHANGED <<given, docs, filed, bean>> /\ t \in running
  BY DEF Accept
<1> SUFFICES ASSUME Heard, running = {t}, AuditsRecord, AccountsFor(t)
             PROVE  AuditsRecord' /\ AccountsFor(t)'
  BY <1>1, RecordedStep DEF given
<1>2. /\ thread'[t].todo = {b \in Buckets : buckets[b].thread = t}
      /\ thread'[t].yuva
  BY AcceptSteps DEF Typed, Heard
<1>3. \A b \in Buckets : b \in thread'[t].todo
  BY <1>2 DEF Typed, Handling
<1>4. AuditsRecord'  BY <1>1, RecordsStay DEF docs
<1> QED BY <1>2, <1>3, <1>4 DEF AccountsFor, Accounted

LEMMA RecordedCreate ==
  ASSUME Typed, Recorded, NEW t \in Threads, NEW b \in Buckets, Create(t, b)
  PROVE  Recorded'
<1>1. /\ UNCHANGED <<given, docs, filed, step>> /\ thread[t].at = "next"
      /\ b \in thread[t].todo /\ t \in running
  BY InHandTyped DEF Create
<1> SUFFICES ASSUME Heard, running = {t}, AuditsRecord, AccountsFor(t)
             PROVE  AuditsRecord' /\ AccountsFor(t)'
  BY <1>1, RecordedStep DEF given
<1>2. /\ thread'[t].todo = thread[t].todo \ {b} /\ thread'[t].yuva
      /\ thread'[t].at = "create" /\ thread'[t].bucket = b
      /\ thread'[t].attributes = thread[t].attributes
  BY CreateSteps DEF Typed, AccountsFor
<1>3. AuditsRecord'  BY <1>1, RecordsStay DEF docs
<1>4. failures' = failures  BY <1>1 DEF docs
<1>5. ASSUME NEW c \in Buckets PROVE Accounted(t, c)'
  <2>1. Accounted(t, c)  BY <1>1 DEF AccountsFor
  <2> QED BY <1>1, <1>2, <1>4, <2>1 DEF Accounted
<1> QED BY <1>2, <1>3, <1>5 DEF AccountsFor

\* An answer: the bucket is refused, or its bug is in the audit's line.
LEMMA RecordedAnswers ==
  ASSUME Typed, NEW t \in Threads, AuditsRecord, AccountsFor(t),
         thread[t].at \in {"create", "item"},
         NEW answer \in {Refused, thread[t].bucket}, Answers(t, answer),
         failures' = failures, audits' = audits, filed \subseteq filed',
         answer # Refused => answer \in filed'
  PROVE  AuditsRecord' /\ AccountsFor(t)'
<1>1. thread[t].bucket \in Buckets  BY InHandTyped DEF Working
<1>2. /\ thread'[t].bucket = thread[t].bucket /\ thread'[t].todo = thread[t].todo
      /\ thread'[t].yuva = thread[t].yuva
      /\ thread'[t].attributes = Attributes(t, thread[t].bucket, thread'[t].bug)
  BY DEF Answers, KeepsBucket
<1>3. thread[t].attributes \subseteq thread'[t].attributes
  BY <1>2 DEF Attributes
<1>4. AuditsRecord'  BY RecordsStay
<1>5. Accounted(t, thread[t].bucket)'
  <2>1. CASE answer = Refused
    BY <1>2, <2>1 DEF Answers, Accounted
  <2>2. CASE answer # Refused
    <3>1. answer = thread[t].bucket /\ thread'[t].bug = answer
      BY <1>1, <2>2 DEF Answers
    <3>2. [bucket |-> answer, bug |-> answer] \in thread'[t].attributes
      BY <1>2, <3>1 DEF Attributes
    <3> QED BY <1>2, <2>2, <3>1, <3>2 DEF Accounted
  <2> QED BY <2>1, <2>2
<1>6. ASSUME NEW c \in Buckets, c # thread[t].bucket PROVE Accounted(t, c)'
  <2>1. Accounted(t, c)  BY DEF AccountsFor
  <2> QED BY <1>2, <1>3, <1>6, <2>1 DEF Accounted
<1> QED BY <1>2, <1>4, <1>5, <1>6 DEF AccountsFor

LEMMA RecordedResponded ==
  ASSUME Typed, NEW t \in Threads, AuditsRecord, AccountsFor(t),
         thread[t].at = "create",
         NEW answer \in {Refused, thread[t].bucket}, Responded(t, answer),
         UNCHANGED docs, filed \subseteq filed',
         answer # Refused => answer \in filed'
  PROVE  AuditsRecord' /\ AccountsFor(t)'
<1>1. thread[t].bucket \in Buckets /\ bean.bucket \in Buckets /\ TypeOK
  BY InHandTyped DEF Working
<1>2. TakesItem(t, answer) \/ Answers(t, answer)
  BY <1>1, RespondedSteps
<1>3. failures' = failures /\ audits' = audits  BY DEF docs
<1>4. CASE Answers(t, answer)
  BY <1>3, <1>4, RecordedAnswers
<1>5. CASE TakesItem(t, answer)
  <2>1. /\ thread'[t].bucket = thread[t].bucket /\ thread'[t].todo = thread[t].todo
        /\ thread'[t].yuva = thread[t].yuva /\ thread'[t].at = "item"
        /\ thread'[t].attributes = thread[t].attributes
    BY <1>5 DEF TakesItem, KeepsBucket
  <2>2. AuditsRecord'  BY <1>3, RecordsStay
  <2>3. ASSUME NEW c \in Buckets PROVE Accounted(t, c)'
    <3>1. Accounted(t, c)  BY DEF AccountsFor
    <3> QED BY <1>3, <2>1, <3>1 DEF Accounted
  <2> QED BY <2>1, <2>2, <2>3 DEF AccountsFor
<1> QED BY <1>2, <1>4, <1>5

LEMMA RecordedChiron ==
  ASSUME Typed, Recorded, NEW t \in Threads,
         Created(t) \/ CreateRefused(t) \/ CreateThrows(t)
  PROVE  Recorded'
<1>1. /\ thread[t].at = "create" /\ UNCHANGED <<given, docs, step>>
  BY DEF Created, CreateRefused, CreateThrows
<1>2. t \in running /\ thread[t].bucket \in Buckets
  BY <1>1, InHandTyped DEF Working
<1> SUFFICES ASSUME Heard, running = {t}, AuditsRecord, AccountsFor(t)
             PROVE  AuditsRecord' /\ AccountsFor(t)'
  BY <1>1, <1>2, RecordedStep DEF given
<1>3. CASE Created(t)
  BY <1>1, <1>2, <1>3, RecordedResponded DEF Created
<1>4. CASE CreateRefused(t)
  BY <1>1, <1>4, RecordedResponded DEF CreateRefused
<1>5. ~CreateThrows(t)  BY DEF CreateThrows, Heard
<1> QED BY <1>3, <1>4, <1>5

LEMMA RecordedSaveItem ==
  ASSUME Typed, Backed, Faithful, Recorded, NEW t \in Threads, SaveItem(t)
  PROVE  Recorded'
<1>1. /\ thread[t].at = "item" /\ Answered(t, bean.bug)
      /\ UNCHANGED <<given, trackers, jobs, failures, audits, filed, step, bean>>
  BY DEF SaveItem
<1>2. /\ t \in running /\ thread[t].bucket \in Buckets /\ TypeOK
      /\ bean.bug \in Buckets \cup {None, Refused}
  BY <1>1, InHandTyped DEF Working
<1> SUFFICES ASSUME Heard, running = {t}, AuditsRecord, AccountsFor(t)
             PROVE  AuditsRecord' /\ AccountsFor(t)'
  BY <1>1, <1>2, RecordedStep DEF given
<1>3. bean.bug \in {Refused, thread[t].bucket}
  BY <1>1, FaithfulIs DEF OwnFields
<1>4. Answers(t, bean.bug)  BY <1>1, <1>2, AnsweredSteps
<1>5. bean.bug # Refused => bean.bug \in filed
  BY <1>2, <1>3, NoBug DEF Backed
<1> QED BY <1>1, <1>3, <1>4, <1>5, RecordedAnswers

LEMMA RecordedSaves ==
  ASSUME Typed, Recorded, NEW t \in Threads,
         SaveFailure(t) \/ SaveTracker(t) \/ SaveJob(t) \/ SaveAudit(t)
  PROVE  Recorded'
<1>1. /\ UNCHANGED <<given, items, filed, step, bean>>
      /\ failures \subseteq failures'
      /\ thread[t].at \in {"failure", "track", "job", "next"}
      /\ thread[t].at = "failure" => thread[t].bucket \in failures'
  BY DEF SaveFailure, SaveTracker, SaveJob, SaveAudit
<1>2. PICK s \in {"next", "job", "end"} : Move(t, s)
  BY DEF SaveFailure, SaveTracker, SaveJob, SaveAudit, Stage
<1>3. TypeOK /\ t \in running
  BY <1>1, InHandTyped
<1> SUFFICES ASSUME Heard, running = {t}, AuditsRecord, AccountsFor(t)
             PROVE  AuditsRecord' /\ AccountsFor(t)'
  BY <1>1, <1>3, RecordedStep DEF given
<1>4. KeepsRest(t)  BY <1>2, <1>3, Moved
<1>5. \A b \in Buckets : Accounted(t, b)
  BY <1>1 DEF AccountsFor
<1>6. AccountsFor(t)'
  <2>1. ASSUME NEW b \in Buckets PROVE Accounted(t, b)'
    <3>1. Accounted(t, b)  BY <1>5
    <3> QED BY <1>1, <1>4, <3>1 DEF Accounted, KeepsRest, KeepsBucket
  <2> QED BY <1>4, <2>1 DEF AccountsFor, KeepsRest, KeepsBucket
<1>7. AuditsRecord'
  <2>1. CASE SaveAudit(t)
    <3>1. /\ thread[t].at = "next" /\ thread[t].todo = {} /\ failures' = failures
          /\ audits' = audits \cup {[agent |-> step, attributes |-> thread[t].attributes]}
      BY <2>1 DEF SaveAudit
    <3>2. \A b \in Buckets :
            \/ b \in failures
            \/ b \in filed /\ [bucket |-> b, bug |-> b] \in thread[t].attributes
      BY <1>5, <3>1 DEF Accounted
    <3> SUFFICES ASSUME NEW audit \in audits', NEW b \in Buckets
                 PROVE  \/ b \in failures'
                        \/ b \in filed' /\ [bucket |-> b, bug |-> b] \in audit.attributes
      BY DEF AuditsRecord
    <3>3. CASE audit \in audits
      BY <1>1, <3>1, <3>3 DEF AuditsRecord
    <3>4. CASE audit = [agent |-> step, attributes |-> thread[t].attributes]
      BY <1>1, <3>1, <3>2, <3>4
    <3> QED BY <3>1, <3>3, <3>4
  <2>2. CASE ~SaveAudit(t)
    <3>1. audits' = audits
      BY <2>2 DEF SaveFailure, SaveTracker, SaveJob
    <3> QED BY <1>1, <3>1, RecordsStay
  <2> QED BY <2>1, <2>2
<1> QED BY <1>6, <1>7

LEMMA RecordedCrash == ASSUME Typed, Recorded, Crash PROVE Recorded'
<1>1. /\ \A t \in Threads : thread'[t] = [IdleThread EXCEPT !.at = "end"]
      /\ filed \subseteq filed'
  BY CrashSteps DEF Typed
<1>2. UNCHANGED <<given, docs, step, bean>>  BY DEF Crash
<1>3. \A t \in Threads : thread'[t].at = "end" /\ thread'[t].yuva
  BY <1>1 DEF IdleThread
<1>4. AuditsRecord => AuditsRecord'
  BY <1>1, <1>2, RecordsStay DEF docs
<1>5. \A t \in Threads : AccountsFor(t)'
  BY <1>3 DEF AccountsFor
<1>6. Heard' => \A t \in Threads : running' = {t} => AuditsRecord' /\ AccountsFor(t)'
  BY <1>2, <1>4, <1>5, RecordedIs DEF Heard, given
<1>7. Recorded' <=> (Heard' => \A t \in Threads : running' = {t} =>
                                 AuditsRecord' /\ AccountsFor(t)')
  BY DEF Recorded, NothingLost, Alone, Heard, AuditsRecord, AccountsFor
<1> QED BY <1>6, <1>7

LEMMA RecordedStutter == ASSUME Recorded, UNCHANGED vars PROVE Recorded'
  BY DEF Recorded, NothingLost, Alone, Accounted, vars, given, docs

LEMMA RecordedNext ==
  Typed /\ Backed /\ Faithful /\ Recorded /\ [Next]_vars => Recorded'
<1> SUFFICES ASSUME Typed, Backed, Faithful, Recorded, [Next]_vars PROVE Recorded'
  OBVIOUS
<1> QED
  BY StepCases, RecordedStutter, RecordedCrash, RecordedAccept, RecordedCreate,
     RecordedChiron, RecordedSaveItem, RecordedSaves

\* While no two passes overlap, YUVA answers and no call to Chiron throws, an
\* audit is saved only when each bucket of its agent has a bug that the audit
\* names, or is recorded as failed; also when the node stops.
THEOREM AuditsAccount == Spec => []NothingLost
<1>1. Recorded => NothingLost
  BY DEF Recorded, NothingLost
<1> QED
  BY <1>1, TypedInit, TypedNext, BackedInit, BackedNext, FaithfulInit, FaithfulNext,
     RecordedInit, RecordedNext, PTL DEF Spec
=============================================================================
