------------------------- MODULE BucketAnalysisProofs -------------------------
(***************************************************************************)
(* Proofs about BucketAnalysis, for any number of passes, traces and       *)
(* buckets, for every similarity and for every set of faults.              *)
(***************************************************************************)
EXTENDS BucketAnalysis, FiniteSetTheorems, TLAPS

\* A pass asks for a bucket, and saves it, while it is the first of its list.
Typed ==
  /\ TypeOK
  /\ \A t \in Threads : thread[t].at \in {"ask", "save"} => thread[t].todo # <<>>

\* What similar was in the beginning it remains.
Symmetric == \A x, y \in Traces : similar[x, y] => similar[y, x]

\* Also the analysis of a bucket that is not stored yet.
Fitting ==
  /\ Symmetric
  /\ AnalysisFits
  /\ \A t \in Threads : \A d \in thread[t].doc :
       d.details \in Traces => Linked(d.details, d.bucket.trace)

\* What getBucketIfPresent finds for a big bucket.
Findable(e) == e.asked => e.details # None /\ e.bucket.size = "big"

\* The traces t has asked JN for, or is about to, and has not stored.
Wanted(t) ==
  {x \in Traces :
     \/ thread[t].at = "ask" /\ x = Head(thread[t].todo).trace
     \/ thread[t].at = "save" /\ \E d \in thread[t].doc : d.asked /\ x = d.bucket.trace}

Asked == {i \in DOMAIN recent : recent[i].asked}

\* The passes can be made to share what was asked for: no pass has two buckets
\* that are similar, and none wants one more that is similar to one it has.
Shares(f) ==
  /\ \A i, j \in Asked : f[i] = f[j] /\ Similar(i, j) => i = j
  /\ \A t \in Threads : \A x \in Wanted(t), i \in Asked :
       f[i] = t => ~similar[x, recent[i].bucket.trace]

Shared ==
  /\ Symmetric
  /\ \A i \in DOMAIN recent : Findable(recent[i])
  /\ \A t \in Threads :
       /\ thread[t].at # "idle" => t \in running
       /\ \A d \in thread[t].doc : Findable(d)
       /\ thread[t].at = "ask" => Head(thread[t].todo).size = "big"
  /\ \E f \in [Asked -> running] : Shares(f)

-----------------------------------------------------------------------------
(***************************************************************************)
(* What the actions do to the state of their pass.                         *)
(***************************************************************************)
Steps(t) ==
  /\ thread' \in [Threads -> ThreadState]
  /\ \A u \in Threads : u # t => thread'[u] = thread[u]
  /\ UNCHANGED given

LEMMA Becomes ==
  ASSUME TypeOK, NEW t \in Threads, NEW p \in ThreadState,
         thread' = [thread EXCEPT ![t] = p], UNCHANGED given
  PROVE  Steps(t) /\ thread'[t] = p
  BY DEF TypeOK, Steps

LEMMA IdleTyped ==
  /\ IdleThread \in ThreadState
  /\ IdleThread.at = "idle" /\ IdleThread.todo = <<>> /\ IdleThread.doc = {}
  BY DEF IdleThread, ThreadState

LEMMA EndsSteps ==
  ASSUME TypeOK, NEW t \in Threads, Ends(t)
  PROVE  /\ Steps(t) /\ thread'[t].at = "idle" /\ thread'[t].todo = <<>>
         /\ thread'[t].doc = {} /\ recent' = recent
  BY IdleTyped, Becomes DEF Ends

LEMMA AcceptSteps ==
  ASSUME TypeOK, NEW t \in Threads, NEW L \in Lists, Accept(t, L)
  PROVE  /\ Steps(t) /\ t \in running /\ thread'[t].at = "bucket"
         /\ thread'[t].doc = thread[t].doc /\ recent' = recent
<1>1. thread[t] \in ThreadState  BY DEF TypeOK
<1>2. PICK n \in 0 .. MaxList : L \in [1 .. n -> Bucket]  BY DEF Lists
<1>3. MaxList \in Nat  BY Bounds
<1>4. L \in Seq(Bucket)  BY <1>2, <1>3
<1> DEFINE p == [thread[t] EXCEPT !.at = "bucket", !.todo = L]
<1>5. p \in ThreadState /\ p.at = "bucket" /\ p.doc = thread[t].doc
  BY <1>1, <1>4 DEF ThreadState
<1>6. /\ thread' = [thread EXCEPT ![t] = p] /\ UNCHANGED given /\ recent' = recent
      /\ t \in running
  BY DEF Accept
<1> HIDE DEF p
<1> QED BY <1>5, <1>6, Becomes

LEMMA HeadOfTodo ==
  ASSUME TypeOK, NEW t \in Threads, thread[t].todo # <<>>
  PROVE  /\ Head(thread[t].todo) \in Bucket /\ Head(thread[t].todo).trace \in Traces
         /\ Tail(thread[t].todo) \in Seq(Bucket)
<1>1. thread[t].todo \in Seq(Bucket)  BY DEF TypeOK, ThreadState
<1>2. Head(thread[t].todo) \in Bucket /\ Tail(thread[t].todo) \in Seq(Bucket)  BY <1>1
<1> QED BY <1>2 DEF Bucket

LEMMA PutSteps ==
  ASSUME TypeOK, NEW t \in Threads, thread[t].todo # <<>>,
         NEW details \in Traces \cup {None, NotValid}, NEW asked \in BOOLEAN,
         Put(t, details, asked)
  PROVE  /\ Steps(t) /\ recent' = recent
         /\ thread'[t].at = "save" /\ thread'[t].todo = thread[t].todo
         /\ \A d \in thread'[t].doc :
              /\ d.bucket = Head(thread[t].todo) /\ d.details = details
              /\ d.asked = asked
<1>1. thread[t] \in ThreadState  BY DEF TypeOK
<1> DEFINE doc == [bucket |-> Head(thread[t].todo), details |-> details, asked |-> asked]
           p == [thread[t] EXCEPT !.at = "save", !.doc = {doc}]
<1>2. doc \in ErrorBucket  BY HeadOfTodo DEF ErrorBucket
<1>3. doc.bucket = Head(thread[t].todo) /\ doc.details = details /\ doc.asked = asked
  OBVIOUS
<1>4. thread' = [thread EXCEPT ![t] = p] /\ UNCHANGED given /\ recent' = recent
  BY DEF Put
<1> HIDE DEF doc
<1>5. /\ p \in ThreadState /\ p.at = "save" /\ p.todo = thread[t].todo /\ p.doc = {doc}
  BY <1>1, <1>2 DEF ThreadState
<1> HIDE DEF p
<1> QED BY <1>3, <1>4, <1>5, Becomes

LEMMA NoMatchSteps ==
  ASSUME TypeOK, NEW t \in Threads, NoMatch(t)
  PROVE  /\ Steps(t) /\ recent' = recent /\ thread[t].at = "bucket"
         /\ thread[t].todo # <<>> /\ Head(thread[t].todo).size = "big"
         /\ Matches(Head(thread[t].todo)) = {}
         /\ thread'[t].at = "ask" /\ thread'[t].todo = thread[t].todo
         /\ thread'[t].doc = thread[t].doc
<1>1. thread[t] \in ThreadState  BY DEF TypeOK
<1> DEFINE p == [thread[t] EXCEPT !.at = "ask"]
<1>2. /\ p \in ThreadState /\ p.at = "ask" /\ p.todo = thread[t].todo
      /\ p.doc = thread[t].doc
  BY <1>1 DEF ThreadState
<1>3. /\ thread' = [thread EXCEPT ![t] = p] /\ UNCHANGED given /\ recent' = recent
  BY DEF NoMatch
<1>4. /\ thread[t].at = "bucket" /\ thread[t].todo # <<>>
      /\ Head(thread[t].todo).size = "big" /\ Matches(Head(thread[t].todo)) = {}
  BY DEF NoMatch, AtBucket
<1> HIDE DEF p
<1> QED BY <1>2, <1>3, <1>4, Becomes

LEMMA SavedSteps ==
  ASSUME TypeOK, NEW t \in Threads, thread[t].todo # <<>>, NEW R, Saved(t, R)
  PROVE  /\ Steps(t) /\ recent' = R /\ thread'[t].at = "bucket" /\ thread'[t].doc = {}
<1>1. thread[t] \in ThreadState  BY DEF TypeOK
<1> DEFINE rest == Tail(thread[t].todo)
           p == [thread[t] EXCEPT !.at = "bucket", !.doc = {}, !.todo = rest]
<1>2. rest \in Seq(Bucket)  BY HeadOfTodo
<1>3. thread' = [thread EXCEPT ![t] = p] /\ UNCHANGED given /\ recent' = R
  BY DEF Saved
<1> HIDE DEF rest
<1>4. p \in ThreadState /\ p.at = "bucket" /\ p.doc = {}
  BY <1>1, <1>2 DEF ThreadState
<1> HIDE DEF p
<1> QED BY <1>3, <1>4, Becomes

\* The oldest bucket is no more found; the others move up.
LEMMA AgeSteps ==
  ASSUME TypeOK, Age
  PROVE  /\ recent' \in Seq(ErrorBucket) /\ UNCHANGED <<given, thread>>
         /\ \A i \in DOMAIN recent' :
              i + 1 \in DOMAIN recent /\ recent'[i] = recent[i + 1]
<1>1. recent \in Seq(ErrorBucket)  BY DEF TypeOK
<1>2. recent # <<>> /\ recent' = Tail(recent)  BY DEF Age
<1>3. UNCHANGED <<given, thread>>  BY DEF Age
<1> QED BY <1>1, <1>2, <1>3

LEMMA AppendSteps ==
  ASSUME TypeOK, NEW e \in ErrorBucket, recent' = Append(recent, e)
  PROVE  /\ recent' \in Seq(ErrorBucket)
         /\ DOMAIN recent' = DOMAIN recent \cup {Len(recent) + 1}
         /\ Len(recent) + 1 \notin DOMAIN recent
         /\ \A i \in DOMAIN recent : recent'[i] = recent[i]
         /\ recent'[Len(recent) + 1] = e
<1>1. recent \in Seq(ErrorBucket)  BY DEF TypeOK
<1> QED BY <1>1

LEMMA StepCases ==
  ASSUME [Next]_vars
  PROVE  \/ UNCHANGED vars
         \/ Age
         \/ \E t \in Threads, L \in Lists : Accept(t, L)
         \/ \E t \in Threads : TakeOver(t)
         \/ \E t \in Threads : NoMatch(t)
         \/ \E t \in Threads : Ask(t)
         \/ \E t \in Threads : Save(t)
         \/ \E t \in Threads : Ends(t)
  BY DEF Next, ThreadNext, ProcessThrows, HandOver, Crash

\* The details that processBucket finds, or does without.
LEMMA TakeOverSteps ==
  ASSUME TypeOK, NEW t \in Threads, TakeOver(t)
  PROVE  /\ thread[t].at = "bucket" /\ thread[t].todo # <<>>
         /\ \/ \E i \in Matches(Head(thread[t].todo)) : Put(t, recent[i].details, FALSE)
            \/ Put(t, None, FALSE)
  BY DEF TakeOver, AtBucket

LEMMA DetailsTyped ==
  ASSUME TypeOK, NEW i \in DOMAIN recent
  PROVE  /\ recent[i] \in ErrorBucket /\ recent[i].bucket \in Bucket
         /\ recent[i].bucket.trace \in Traces
         /\ recent[i].details \in Traces \cup {None, NotValid}
<1>1. recent[i] \in ErrorBucket  BY DEF TypeOK
<1> QED BY <1>1 DEF ErrorBucket, Bucket

-----------------------------------------------------------------------------
(***************************************************************************)
(* Typing.                                                                 *)
(***************************************************************************)
LEMMA TypedInit == Init => Typed
<1> SUFFICES ASSUME Init PROVE Typed  OBVIOUS
<1>1. thread \in [Threads -> ThreadState] /\ recent \in Seq(ErrorBucket)
  BY IdleTyped DEF Init
<1>2. \A t \in Threads : thread[t].at = "idle"  BY IdleTyped DEF Init
<1>3. /\ faults \subseteq Faults /\ running \subseteq Threads
      /\ similar \in [Traces \X Traces -> BOOLEAN]
  BY DEF Init, Similarities
<1> QED BY <1>1, <1>2, <1>3 DEF Typed, TypeOK

LEMMA TypedStep ==
  ASSUME Typed, NEW t \in Threads, Steps(t), recent' \in Seq(ErrorBucket),
         thread'[t].at \in {"ask", "save"} => thread'[t].todo # <<>>
  PROVE  Typed'
  BY DEF Typed, TypeOK, Steps, given

LEMMA TypedNext == Typed /\ [Next]_vars => Typed'
<1> SUFFICES ASSUME Typed, [Next]_vars PROVE Typed'  OBVIOUS
<1>1. TypeOK /\ recent \in Seq(ErrorBucket)  BY DEF Typed, TypeOK
<1>2. CASE UNCHANGED vars
  BY <1>2 DEF Typed, TypeOK, vars, given
<1>3. CASE Age
  BY <1>1, <1>3, AgeSteps DEF Typed, TypeOK, given
<1>4. ASSUME NEW t \in Threads, NEW L \in Lists, Accept(t, L) PROVE Typed'
  BY <1>1, <1>4, AcceptSteps, TypedStep
<1>5. ASSUME NEW t \in Threads, TakeOver(t) PROVE Typed'
  <2>1. \E details \in Traces \cup {None, NotValid} : Put(t, details, FALSE)
    BY <1>1, <1>5, TakeOverSteps, DetailsTyped DEF Matches
  <2>2. thread[t].todo # <<>>  BY <1>1, <1>5, TakeOverSteps
  <2> QED BY <1>1, <2>1, <2>2, PutSteps, TypedStep
<1>6. ASSUME NEW t \in Threads, NoMatch(t) PROVE Typed'
  BY <1>1, <1>6, NoMatchSteps, TypedStep
<1>7. ASSUME NEW t \in Threads, Ask(t) PROVE Typed'
  <2>1. thread[t].todo # <<>>  BY <1>7 DEF Ask, Typed
  <2>2. \E details \in Traces \cup {None, NotValid} : Put(t, details, TRUE)
    BY <1>1, <1>7, <2>1, HeadOfTodo DEF Ask
  <2> QED BY <1>1, <2>1, <2>2, PutSteps, TypedStep
<1>8. ASSUME NEW t \in Threads, Save(t) PROVE Typed'
  <2>1. thread[t].todo # <<>>  BY <1>8 DEF Save, Typed
  <2>2. ASSUME NEW e \in thread[t].doc, Saved(t, Append(recent, e)) PROVE Typed'
    <3>1. e \in ErrorBucket  BY <1>1, <2>2 DEF TypeOK, ThreadState
    <3>2. recent' = Append(recent, e)  BY <2>2 DEF Saved
    <3> QED BY <1>1, <2>1, <2>2, <3>1, <3>2, SavedSteps, TypedStep
  <2>3. CASE Saved(t, recent)
    BY <1>1, <2>1, <2>3, SavedSteps, TypedStep
  <2> QED BY <1>8, <2>2, <2>3 DEF Save
<1>9. ASSUME NEW t \in Threads, Ends(t) PROVE Typed'
  BY <1>1, <1>9, EndsSteps, TypedStep
<1> QED BY <1>2, <1>3, <1>4, <1>5, <1>6, <1>7, <1>8, <1>9, StepCases

\* For any number of passes, traces and buckets everything has its type.
THEOREM Types == Spec => []TypeOK
<1>1. Typed => TypeOK  BY DEF Typed
<1> QED BY <1>1, TypedInit, TypedNext, PTL DEF Spec
-----------------------------------------------------------------------------
(***************************************************************************)
(* An analysis belongs to the buckets it is stored with.                   *)
(***************************************************************************)
LEMMA FittingInit == Init => Fitting
<1> SUFFICES ASSUME Init PROVE Fitting  OBVIOUS
<1>1. DOMAIN recent = {}  BY DEF Init
<1>2. \A t \in Threads : thread[t].doc = {}  BY IdleTyped DEF Init
<1>3. Symmetric  BY DEF Init, Similarities, Symmetric, IsSymmetric
<1> QED BY <1>1, <1>2, <1>3 DEF Fitting, AnalysisFits

LEMMA LinkedSame ==
  ASSUME NEW x, NEW y, similar' = similar
  PROVE  Linked(x, y)' <=> Linked(x, y)
  BY DEF Linked

\* A chain goes on with a similar trace.
LEMMA LinkedNext ==
  ASSUME Symmetric, NEW x \in Traces, NEW y \in Traces, NEW z \in Traces,
         Linked(x, y), similar[z, y]
  PROVE  Linked(x, z)
  BY DEF Linked, Symmetric

LEMMA FittingStep ==
  ASSUME TypeOK, Fitting, NEW t \in Threads, Steps(t),
         \A i \in DOMAIN recent' :
           \/ i \in DOMAIN recent /\ recent'[i] = recent[i]
           \/ recent'[i] \in thread[t].doc,
         \A d \in thread'[t].doc :
           \/ d \in thread[t].doc
           \/ d.details \in Traces => Linked(d.details, d.bucket.trace)
  PROVE  Fitting'
<1>1. similar' = similar  BY DEF Steps, given
<1>2. Symmetric'  BY <1>1 DEF Fitting, Symmetric
<1>3. ASSUME NEW i \in DOMAIN recent', recent'[i].details \in Traces
      PROVE  Linked(recent'[i].details, recent'[i].bucket.trace)
  BY <1>3 DEF Fitting, AnalysisFits
<1>4. ASSUME NEW u \in Threads, NEW d \in thread'[u].doc, d.details \in Traces
      PROVE  Linked(d.details, d.bucket.trace)
  <2>1. CASE u = t  BY <1>4, <2>1 DEF Fitting
  <2>2. CASE u # t  BY <1>4, <2>2 DEF Fitting, Steps
  <2> QED BY <2>1, <2>2
<1> QED BY <1>1, <1>2, <1>3, <1>4 DEF Fitting, AnalysisFits, Linked

LEMMA FittingNext == Typed /\ Fitting /\ [Next]_vars => Fitting'
<1> SUFFICES ASSUME Typed, Fitting, [Next]_vars PROVE Fitting'  OBVIOUS
<1>1. TypeOK  BY DEF Typed
<1>2. CASE UNCHANGED vars
  BY <1>2 DEF Fitting, Symmetric, AnalysisFits, Linked, vars, given
<1>3. CASE Age
  <2>1. /\ similar' = similar /\ thread' = thread
        /\ \A i \in DOMAIN recent' : i + 1 \in DOMAIN recent /\ recent'[i] = recent[i + 1]
    BY <1>1, <1>3, AgeSteps DEF given
  <2> QED BY <2>1 DEF Fitting, Symmetric, AnalysisFits, Linked
<1>4. ASSUME NEW t \in Threads, NEW L \in Lists, Accept(t, L) PROVE Fitting'
  BY <1>1, <1>4, AcceptSteps, FittingStep
<1>5. ASSUME NEW t \in Threads, TakeOver(t) PROVE Fitting'
  <2> DEFINE b == Head(thread[t].todo)
  <2>1. thread[t].todo # <<>>  BY <1>1, <1>5, TakeOverSteps
  <2>2. b.trace \in Traces  BY <1>1, <2>1, HeadOfTodo
  <2>3. ASSUME NEW i \in Matches(b), Put(t, recent[i].details, FALSE) PROVE Fitting'
    <3>1. i \in DOMAIN recent /\ similar[b.trace, recent[i].bucket.trace]
      BY <2>3 DEF Matches
    <3>2. /\ recent[i].bucket.trace \in Traces
          /\ recent[i].details \in Traces \cup {None, NotValid}
      BY <1>1, <3>1, DetailsTyped
    <3>3. recent[i].details \in Traces => Linked(recent[i].details, b.trace)
      <4> SUFFICES ASSUME recent[i].details \in Traces
                   PROVE  Linked(recent[i].details, b.trace)
        OBVIOUS
      <4>1. Linked(recent[i].details, recent[i].bucket.trace) /\ Symmetric
        BY <3>1 DEF Fitting, AnalysisFits
      <4> HIDE DEF b
      <4> QED BY <2>2, <3>1, <3>2, <4>1, LinkedNext
    <3>4. /\ Steps(t) /\ recent' = recent
          /\ \A d \in thread'[t].doc :
               /\ d.bucket = Head(thread[t].todo) /\ d.details = recent[i].details
               /\ d.asked = FALSE
      BY <1>1, <2>1, <2>3, <3>2, PutSteps
    <3>5. \A d \in thread'[t].doc :
            d.details \in Traces => Linked(d.details, d.bucket.trace)
      BY <3>3, <3>4
    <3> QED BY <1>1, <3>4, <3>5, FittingStep
  <2>4. CASE Put(t, None, FALSE)
    <3>1. /\ Steps(t) /\ recent' = recent
          /\ \A d \in thread'[t].doc : d.details = None
      BY <1>1, <2>1, <2>4, PutSteps
    <3> QED BY <1>1, <3>1, FittingStep, NoAnalysis
  <2> QED BY <1>1, <1>5, <2>3, <2>4, TakeOverSteps
<1>6. ASSUME NEW t \in Threads, NoMatch(t) PROVE Fitting'
  BY <1>1, <1>6, NoMatchSteps, FittingStep
<1>7. ASSUME NEW t \in Threads, Ask(t) PROVE Fitting'
  <2> DEFINE x == Head(thread[t].todo).trace
  <2>1. thread[t].todo # <<>>  BY <1>7 DEF Ask, Typed
  <2>2. x \in Traces  BY <1>1, <2>1, HeadOfTodo
  <2>3. CASE Put(t, x, TRUE)
    <3>1. /\ Steps(t) /\ recent' = recent
          /\ \A d \in thread'[t].doc :
               /\ d.bucket = Head(thread[t].todo) /\ d.details = x
               /\ d.asked = TRUE
      <4>1. x \in Traces \cup {None, NotValid}  BY <2>2
      <4> QED BY <1>1, <2>1, <2>3, <4>1, PutSteps
    <3>2. Linked(x, x)  BY DEF Linked
    <3>3. \A d \in thread'[t].doc :
            d.details \in Traces => Linked(d.details, d.bucket.trace)
      BY <3>1, <3>2
    <3> QED BY <1>1, <3>1, <3>3, FittingStep
  <2>4. CASE Put(t, NotValid, TRUE)
    <3>1. /\ Steps(t) /\ recent' = recent
          /\ \A d \in thread'[t].doc : d.details = NotValid
      BY <1>1, <2>1, <2>4, PutSteps
    <3> QED BY <1>1, <3>1, FittingStep, NoAnalysis
  <2> QED BY <1>7, <2>3, <2>4 DEF Ask
<1>8. ASSUME NEW t \in Threads, Save(t) PROVE Fitting'
  <2>1. thread[t].todo # <<>>  BY <1>8 DEF Save, Typed
  <2>2. ASSUME NEW e \in thread[t].doc, Saved(t, Append(recent, e)) PROVE Fitting'
    <3>1. e \in ErrorBucket  BY <1>1, <2>2 DEF TypeOK, ThreadState
    <3>2. Steps(t) /\ recent' = Append(recent, e) /\ thread'[t].doc = {}
      BY <1>1, <2>1, <2>2, SavedSteps
    <3>3. \A i \in DOMAIN recent' :
            \/ i \in DOMAIN recent /\ recent'[i] = recent[i]
            \/ recent'[i] \in thread[t].doc
      BY <1>1, <2>2, <3>1, <3>2, AppendSteps
    <3> QED BY <1>1, <3>2, <3>3, FittingStep
  <2>3. CASE Saved(t, recent)
    BY <1>1, <2>1, <2>3, SavedSteps, FittingStep
  <2> QED BY <1>8, <2>2, <2>3 DEF Save
<1>9. ASSUME NEW t \in Threads, Ends(t) PROVE Fitting'
  BY <1>1, <1>9, EndsSteps, FittingStep
<1> QED BY <1>2, <1>3, <1>4, <1>5, <1>6, <1>7, <1>8, <1>9, StepCases

\* Whatever passes take over from one another, and whatever fails, the analysis
\* of a stored bucket was asked for one that a chain of similar ones links to it.
THEOREM AnalysesFit == Spec => []AnalysisFits
<1>1. Fitting => AnalysisFits  BY DEF Fitting
<1> QED BY <1>1, TypedInit, TypedNext, FittingInit, FittingNext, PTL DEF Spec
-----------------------------------------------------------------------------
(***************************************************************************)
(* JN is asked once for similar buckets, or once by each of the passes.    *)
(***************************************************************************)
LEMMA SharedInit == Init => Shared
<1> SUFFICES ASSUME Init PROVE Shared  OBVIOUS
<1>1. DOMAIN recent = {}  BY DEF Init
<1>2. \A t \in Threads : thread[t].doc = {} /\ thread[t].at = "idle"
  BY IdleTyped DEF Init
<1>3. Symmetric  BY DEF Init, Similarities, Symmetric, IsSymmetric
<1>4. Asked = {}  BY <1>1 DEF Asked
<1> DEFINE f == [i \in Asked |-> CHOOSE t \in running : TRUE]
<1>5. f \in [Asked -> running] /\ Shares(f)
  BY <1>4 DEF Shares
<1> HIDE DEF f
<1> QED BY <1>1, <1>2, <1>3, <1>5 DEF Shared

LEMMA WantedTyped == \A t \in Threads : Wanted(t) \subseteq Traces
  BY DEF Wanted

\* A step of t that stores nothing t has asked for.
LEMMA SharedStep ==
  ASSUME TypeOK, Shared, NEW t \in Threads, Steps(t), recent' = recent,
         thread[t].at # "idle" \/ thread'[t].at = "idle" \/ t \in running,
         \A d \in thread'[t].doc : Findable(d),
         thread'[t].at = "ask" => Head(thread'[t].todo).size = "big",
         \A x \in Wanted(t)' :
           x \in Wanted(t) \/ \A i \in Asked : ~similar[x, recent[i].bucket.trace]
  PROVE  Shared'
<1>1. similar' = similar /\ running' = running  BY DEF Steps, given
<1>2. Symmetric'  BY <1>1 DEF Shared, Symmetric
<1>3. \A i \in DOMAIN recent' : Findable(recent'[i])  BY DEF Shared
<1>4. ASSUME NEW u \in Threads
      PROVE  /\ thread'[u].at # "idle" => u \in running'
             /\ \A d \in thread'[u].doc : Findable(d)
             /\ thread'[u].at = "ask" => Head(thread'[u].todo).size = "big"
  <2>1. CASE u = t  BY <1>1, <2>1 DEF Shared
  <2>2. CASE u # t
    <3>1. thread'[u] = thread[u]  BY <2>2 DEF Steps
    <3> QED BY <1>1, <3>1 DEF Shared
  <2> QED BY <2>1, <2>2
<1>5. PICK f \in [Asked -> running] : Shares(f)  BY DEF Shared
<1>6. Asked' = Asked  BY DEF Asked
<1>7. \A i, j \in Asked' : f[i] = f[j] /\ Similar(i, j)' => i = j
  BY <1>1, <1>5, <1>6 DEF Shares, Similar
<1>8. ASSUME NEW u \in Threads, NEW x \in Wanted(u)', NEW i \in Asked', f[i] = u
      PROVE  ~similar'[x, recent'[i].bucket.trace]
  <2>1. CASE x \in Wanted(u)  BY <1>1, <1>5, <1>6, <1>8, <2>1 DEF Shares
  <2>2. CASE x \notin Wanted(u)
    <3>1. u = t  BY <1>8, <2>2 DEF Wanted, Steps
    <3> QED BY <1>1, <1>6, <1>8, <2>2, <3>1
  <2> QED BY <2>1, <2>2
<1>9. Shares(f)'
  <2> HIDE DEF Wanted
  <2> QED BY <1>7, <1>8 DEF Shares
<1>10. f \in [Asked' -> running']  BY <1>1, <1>5, <1>6
<1> QED BY <1>2, <1>3, <1>4, <1>9, <1>10 DEF Shared

\* A pass that does not ask, and has asked for nothing that is to be saved.
LEMMA WantsNothing ==
  ASSUME NEW t \in Threads, thread'[t].at # "ask",
         thread'[t].at = "save" => \A d \in thread'[t].doc : d.asked = FALSE
  PROVE  Wanted(t)' = {}
  BY DEF Wanted

LEMMA SharedPut ==
  ASSUME TypeOK, Shared, NEW t \in Threads, thread[t].todo # <<>>,
         thread[t].at # "idle",
         NEW details \in Traces \cup {None, NotValid}, Put(t, details, FALSE)
  PROVE  Shared'
<1>1. /\ Steps(t) /\ recent' = recent /\ thread'[t].at = "save"
      /\ \A d \in thread'[t].doc :
           /\ d.bucket = Head(thread[t].todo) /\ d.details = details
           /\ d.asked = FALSE
  BY PutSteps
<1>2. Wanted(t)' = {}  BY <1>1, WantsNothing
<1>3. \A d \in thread'[t].doc : Findable(d)  BY <1>1 DEF Findable
<1> QED BY <1>1, <1>2, <1>3, SharedStep

LEMMA SharedAsk ==
  ASSUME Typed, Shared, NEW t \in Threads, thread[t].at = "ask",
         NEW details \in Traces \cup {NotValid}, Put(t, details, TRUE)
  PROVE  Shared'
<1>1. TypeOK /\ thread[t].todo # <<>>  BY DEF Typed
<1>2. details \in Traces \cup {None, NotValid}  OBVIOUS
<1>3. /\ Steps(t) /\ recent' = recent /\ thread'[t].at = "save"
      /\ \A d \in thread'[t].doc :
           /\ d.bucket = Head(thread[t].todo) /\ d.details = details
           /\ d.asked = TRUE
  BY <1>1, <1>2, PutSteps
<1>4. ASSUME NEW x \in Wanted(t)' PROVE x \in Wanted(t)
  <2>1. x \in Traces /\ \E d \in thread'[t].doc : x = d.bucket.trace
    BY <1>3, <1>4 DEF Wanted
  <2>2. x = Head(thread[t].todo).trace  BY <1>3, <2>1
  <2> QED BY <2>1, <2>2 DEF Wanted
<1>5. Head(thread[t].todo).size = "big"  BY DEF Shared
<1>6. \A d \in thread'[t].doc : Findable(d)
  BY <1>3, <1>5, NoAnalysis DEF Findable
<1> QED BY <1>1, <1>3, <1>4, <1>6, SharedStep

LEMMA SharedNoMatch ==
  ASSUME TypeOK, Shared, NEW t \in Threads, NoMatch(t)
  PROVE  Shared'
<1> DEFINE b == Head(thread[t].todo)
<1>1. /\ Steps(t) /\ recent' = recent /\ thread[t].at = "bucket"
      /\ b.size = "big" /\ Matches(b) = {} /\ thread'[t].at = "ask"
      /\ thread'[t].todo = thread[t].todo /\ thread'[t].doc = thread[t].doc
  BY NoMatchSteps
<1>2. ASSUME NEW x \in Wanted(t)', NEW i \in Asked
      PROVE  ~similar[x, recent[i].bucket.trace]
  <2>1. x = b.trace  BY <1>1, <1>2 DEF Wanted
  <2>2. i \in DOMAIN recent /\ recent[i].details # None /\ recent[i].bucket.size = "big"
    BY <1>2 DEF Asked, Shared, Findable
  <2> QED BY <1>1, <2>1, <2>2 DEF Matches
<1>3. \A d \in thread'[t].doc : Findable(d)  BY <1>1 DEF Shared
<1> QED BY <1>1, <1>2, <1>3, SharedStep

\* What is asked for becomes the pass' that asked.
LEMMA SharedSave ==
  ASSUME TypeOK, Shared, NEW t \in Threads, thread[t].at = "save",
         thread[t].todo # <<>>, NEW e \in thread[t].doc, Saved(t, Append(recent, e))
  PROVE  Shared'
<1> DEFINE new == Len(recent) + 1
<1>1. e \in ErrorBucket  BY DEF TypeOK, ThreadState
<1>2. /\ Steps(t) /\ recent' = Append(recent, e) /\ thread'[t].at = "bucket"
      /\ thread'[t].doc = {}
  BY SavedSteps
<1>3. /\ DOMAIN recent' = DOMAIN recent \cup {new} /\ new \notin DOMAIN recent
      /\ \A i \in DOMAIN recent : recent'[i] = recent[i]
      /\ recent'[new] = e
  BY <1>1, <1>2, AppendSteps
<1> HIDE DEF new
<1>4. similar' = similar /\ running' = running  BY <1>2 DEF Steps, given
<1>5. Symmetric /\ Symmetric'  BY <1>4 DEF Shared, Symmetric
<1>6. \A i \in DOMAIN recent' : Findable(recent'[i])  BY <1>3 DEF Shared
<1>7. ASSUME NEW u \in Threads
      PROVE  /\ thread'[u].at # "idle" => u \in running'
             /\ \A d \in thread'[u].doc : Findable(d)
             /\ thread'[u].at = "ask" => Head(thread'[u].todo).size = "big"
  <2>1. CASE u = t  BY <1>2, <1>4, <2>1 DEF Shared
  <2>2. CASE u # t
    <3>1. thread'[u] = thread[u]  BY <1>2, <2>2 DEF Steps
    <3> QED BY <1>4, <3>1 DEF Shared
  <2> QED BY <2>1, <2>2
<1>8. PICK f \in [Asked -> running] : Shares(f)  BY DEF Shared
<1>9. t \in running  BY DEF Shared
<1>10. Asked' \subseteq Asked \cup {new} /\ (new \in Asked' => e.asked)
  BY <1>3 DEF Asked
<1>11. \A i \in Asked : i # new /\ recent'[i] = recent[i]  BY <1>3 DEF Asked
<1>12. PICK g \in [Asked' -> running'] :
         \A i \in Asked' : g[i] = IF i = new THEN t ELSE f[i]
  <2> DEFINE h == [i \in Asked' |-> IF i = new THEN t ELSE f[i]]
  <2>1. h \in [Asked' -> running']  BY <1>4, <1>8, <1>9, <1>10
  <2> QED BY <2>1
<1>13. /\ \A i \in Asked' : i # new => i \in Asked /\ g[i] = f[i]
       /\ new \in Asked' => g[new] = t
  BY <1>10, <1>12
<1>14. ASSUME NEW i \in Asked, f[i] = t, e.asked
       PROVE  /\ ~similar[e.bucket.trace, recent[i].bucket.trace]
              /\ ~similar[recent[i].bucket.trace, e.bucket.trace]
  <2>1. e.bucket.trace \in Traces  BY <1>1 DEF ErrorBucket, Bucket
  <2>2. e.bucket.trace \in Wanted(t)  BY <1>14, <2>1 DEF Wanted
  <2>3. ~similar[e.bucket.trace, recent[i].bucket.trace]
    BY <1>8, <1>14, <2>2 DEF Shares
  <2>4. recent[i].bucket.trace \in Traces  BY DetailsTyped DEF Asked
  <2> QED BY <1>5, <2>1, <2>3, <2>4 DEF Symmetric
<1>15. ASSUME NEW i \in Asked', NEW j \in Asked', g[i] = g[j], Similar(i, j)'
       PROVE  i = j
  <2>0. similar[recent'[i].bucket.trace, recent'[j].bucket.trace]
    BY <1>4, <1>15 DEF Similar
  <2>1. CASE i = new /\ j = new  BY <2>1
  <2>2. CASE i = new /\ j # new
    <3>1. j \in Asked /\ f[j] = t /\ e.asked  BY <1>10, <1>13, <1>15, <2>2
    <3> QED BY <1>3, <1>11, <1>14, <2>0, <2>2, <3>1
  <2>3. CASE i # new /\ j = new
    <3>1. i \in Asked /\ f[i] = t /\ e.asked  BY <1>10, <1>13, <1>15, <2>3
    <3> QED BY <1>3, <1>11, <1>14, <2>0, <2>3, <3>1
  <2>4. CASE i # new /\ j # new
    <3>1. i \in Asked /\ j \in Asked /\ f[i] = f[j]  BY <1>13, <1>15, <2>4
    <3>2. Similar(i, j)  BY <1>11, <2>0, <3>1 DEF Similar
    <3> QED BY <1>8, <3>1, <3>2 DEF Shares
  <2> QED BY <2>1, <2>2, <2>3, <2>4
<1>16. ASSUME NEW u \in Threads, NEW x \in Wanted(u)', NEW i \in Asked', g[i] = u
       PROVE  ~similar'[x, recent'[i].bucket.trace]
  <2>1. u # t
    <3>1. Wanted(t)' = {}  BY <1>2, WantsNothing
    <3> QED BY <1>16, <3>1
  <2>2. x \in Wanted(u)  BY <1>2, <1>16, <2>1 DEF Wanted, Steps
  <2>3. i \in Asked /\ f[i] = u  BY <1>13, <1>16, <2>1
  <2>4. ~similar[x, recent[i].bucket.trace]  BY <1>8, <2>2, <2>3 DEF Shares
  <2> QED BY <1>4, <1>11, <2>3, <2>4
<1>17. Shares(g)'
  <2> HIDE DEF Wanted
  <2> QED BY <1>15, <1>16 DEF Shares
<1> QED BY <1>5, <1>6, <1>7, <1>12, <1>17 DEF Shared

LEMMA SharedAge == ASSUME TypeOK, Shared, Age PROVE Shared'
<1>1. /\ UNCHANGED <<given, thread>> /\ recent \in Seq(ErrorBucket)
      /\ \A i \in DOMAIN recent' : i + 1 \in DOMAIN recent /\ recent'[i] = recent[i + 1]
      /\ DOMAIN recent' \subseteq Nat
  BY AgeSteps DEF TypeOK
<1>2. similar' = similar /\ running' = running /\ thread' = thread  BY <1>1 DEF given
<1>3. PICK f \in [Asked -> running] : Shares(f)  BY DEF Shared
<1>4. \A i \in Asked' : i + 1 \in Asked /\ recent'[i] = recent[i + 1] /\ i \in Nat
  BY <1>1 DEF Asked
<1>5. PICK g \in [Asked' -> running'] : \A i \in Asked' : g[i] = f[i + 1]
  <2> DEFINE h == [i \in Asked' |-> f[i + 1]]
  <2>1. h \in [Asked' -> running']  BY <1>2, <1>3, <1>4
  <2> QED BY <2>1
<1>6. ASSUME NEW i \in Asked', NEW j \in Asked', g[i] = g[j], Similar(i, j)'
      PROVE  i = j
  <2>1. similar[recent'[i].bucket.trace, recent'[j].bucket.trace]
    BY <1>2, <1>6 DEF Similar
  <2>2. Similar(i + 1, j + 1)  BY <1>4, <2>1 DEF Similar
  <2>3. i + 1 = j + 1
    BY <1>3, <1>4, <1>5, <1>6, <2>2 DEF Shares
  <2> QED BY <1>4, <2>3
<1>7. ASSUME NEW u \in Threads, NEW x \in Wanted(u)', NEW i \in Asked', g[i] = u
      PROVE  ~similar'[x, recent'[i].bucket.trace]
  <2>1. x \in Wanted(u)  BY <1>2 DEF Wanted
  <2> QED BY <1>2, <1>3, <1>4, <1>5, <1>7, <2>1 DEF Shares
<1>8. Shares(g)'
  <2> HIDE DEF Wanted
  <2> QED BY <1>6, <1>7 DEF Shares
<1>9. Symmetric'  BY <1>2 DEF Shared, Symmetric
<1>10. \A i \in DOMAIN recent' : Findable(recent'[i])  BY <1>1 DEF Shared
<1>11. \A t \in Threads :
         /\ thread'[t].at # "idle" => t \in running'
         /\ \A d \in thread'[t].doc : Findable(d)
         /\ thread'[t].at = "ask" => Head(thread'[t].todo).size = "big"
  BY <1>2 DEF Shared
<1> QED BY <1>5, <1>8, <1>9, <1>10, <1>11 DEF Shared

LEMMA SharedNext == Typed /\ Shared /\ [Next]_vars => Shared'
<1> SUFFICES ASSUME Typed, Shared, [Next]_vars PROVE Shared'  OBVIOUS
<1>1. TypeOK  BY DEF Typed
<1>2. CASE UNCHANGED vars
  <2>1. /\ similar' = similar /\ running' = running /\ recent' = recent
        /\ thread' = thread
    BY <1>2 DEF vars, given
  <2>2. Asked' = Asked /\ Symmetric'
    BY <2>1 DEF Asked, Shared, Symmetric
  <2>3. ASSUME NEW f, Shares(f) PROVE Shares(f)'
    BY <2>1, <2>2, <2>3 DEF Shares, Wanted, Similar
  <2> QED BY <2>1, <2>2, <2>3 DEF Shared
<1>3. ASSUME NEW t \in Threads, NEW L \in Lists, Accept(t, L) PROVE Shared'
  <2>1. /\ Steps(t) /\ t \in running /\ thread'[t].at = "bucket"
        /\ thread'[t].doc = thread[t].doc /\ recent' = recent
    BY <1>1, <1>3, AcceptSteps
  <2>2. Wanted(t)' = {}  BY <2>1, WantsNothing
  <2>3. \A d \in thread'[t].doc : Findable(d)  BY <2>1 DEF Shared
  <2> QED BY <1>1, <2>1, <2>2, <2>3, SharedStep
<1>4. ASSUME NEW t \in Threads, TakeOver(t) PROVE Shared'
  <2>1. \E details \in Traces \cup {None, NotValid} : Put(t, details, FALSE)
    BY <1>1, <1>4, TakeOverSteps, DetailsTyped DEF Matches
  <2>2. thread[t].todo # <<>> /\ thread[t].at # "idle"  BY <1>1, <1>4, TakeOverSteps
  <2> QED BY <1>1, <2>1, <2>2, SharedPut
<1>5. ASSUME NEW t \in Threads, NoMatch(t) PROVE Shared'
  BY <1>1, <1>5, SharedNoMatch
<1>6. ASSUME NEW t \in Threads, Ask(t) PROVE Shared'
  <2>1. thread[t].todo # <<>> /\ thread[t].at = "ask"  BY <1>6 DEF Ask, Typed
  <2>2. \E details \in Traces \cup {NotValid} : Put(t, details, TRUE)
    BY <1>1, <1>6, <2>1, HeadOfTodo DEF Ask
  <2> QED BY <2>1, <2>2, SharedAsk
<1>7. ASSUME NEW t \in Threads, Save(t) PROVE Shared'
  <2>1. thread[t].todo # <<>> /\ thread[t].at = "save"  BY <1>7 DEF Save, Typed
  <2>2. CASE Saved(t, recent)
    <3>1. /\ Steps(t) /\ recent' = recent /\ thread'[t].at = "bucket"
          /\ thread'[t].doc = {}
      BY <1>1, <2>1, <2>2, SavedSteps
    <3>2. Wanted(t)' = {}  BY <3>1, WantsNothing
    <3> QED BY <1>1, <2>1, <3>1, <3>2, SharedStep
  <2> QED BY <1>1, <1>7, <2>1, <2>2, SharedSave DEF Save
<1>8. ASSUME NEW t \in Threads, Ends(t) PROVE Shared'
  <2>1. /\ Steps(t) /\ thread'[t].at = "idle" /\ thread'[t].doc = {} /\ recent' = recent
    BY <1>1, <1>8, EndsSteps
  <2>2. Wanted(t)' = {}  BY <2>1, WantsNothing
  <2> QED BY <1>1, <2>1, <2>2, SharedStep
<1> QED BY <1>1, <1>2, <1>3, <1>4, <1>5, <1>6, <1>7, <1>8, StepCases, SharedAge

\* Of any number of passes that overlap or follow one another, each is to blame
\* for at most one of the similar buckets of a day that JN was asked for.
THEOREM AsksOnce == Spec => []AskedOnceADay
<1>1. TypeOK /\ Shared => AskedOnceADay
  <2> SUFFICES ASSUME TypeOK, Shared, NEW I \in SUBSET Asked,
                      \A i, j \in I : Similar(i, j)
               PROVE  Cardinality(I) <= Cardinality(running)
    BY DEF AskedOnceADay, Asked
  <2>1. PICK f \in [Asked -> running] : Shares(f)  BY DEF Shared
  <2> DEFINE g == [i \in I |-> f[i]]
  <2>2. g \in [I -> running] /\ \A i \in I : g[i] = f[i]  BY <2>1
  <2>3. \A i, j \in I : g[i] = g[j] => i = j  BY <2>1, <2>2 DEF Shares
  <2> HIDE DEF g
  <2>4. g \in Injection(I, running)
    BY <2>2, <2>3 DEF Injection, IsInjective
  <2>5. IsFiniteSet(running)  BY FinitePasses, FS_Subset DEF TypeOK
  <2> QED BY <2>4, <2>5, FS_Injection
<1>2. Typed => TypeOK  BY DEF Typed
<1> QED BY <1>1, <1>2, TypedInit, TypedNext, SharedInit, SharedNext, PTL DEF Spec
=============================================================================
