---------------------------- MODULE BucketAnalysis ----------------------------
(***************************************************************************)
(* Which buckets of failures get an analysis of JN (IssueAnalyzerStep).    *)
(*                                                                         *)
(* A pass of level ONE, see TaskWindows, gathers the failures of a window  *)
(* in buckets, one for each agent, error and stack trace.  For a big one   *)
(* an analysis is asked of JN, unless a similar big one of the last day    *)
(* has an analysis already, which is taken over; a small one takes over    *)
(* that of any similar bucket, or has none.  The buckets are stored with   *)
(* their analysis and handed, agent by agent, to BugFiling.                *)
(*                                                                         *)
(* Passes of the same agents overlap when a window takes long: they share  *)
(* the stored buckets only, the step being a prototype whose proxy makes a *)
(* new one for every call of process.  processBucket is @Async, but called *)
(* on this, so that it has returned before the next bucket.                *)
(*                                                                         *)
(* A trace stands for an agent, an error and a stack trace; two of them    *)
(* are similar if the first two are equal and the cosine of the third is   *)
(* above 0.97, which is symmetric but not transitive.  A bucket has the    *)
(* trace of one of its failures, so that those of one pass may be similar. *)
(***************************************************************************)
EXTENDS Naturals, Sequences, FiniteSets, Functions, Relation

CONSTANTS
  Threads,    \* passes, on any node
  Traces,
  None,       \* no juggernautDetails
  NotValid,   \* the analysis id JuggernautGateway gives when its call fails
  Faults,     \* what may go wrong in the environment, out of FaultKinds
  MaxFaults,  \* bound: kinds of them in one behaviour
  MaxList,    \* bound: buckets of a pass
  MaxBuckets  \* bound: buckets of the passes and of a day, when a pass starts

FaultKinds == {"throws",    \* no analysis, no counter, no stack trace
               "tooLarge",  \* a document MongoDB does not take
               "crash"}     \* the node of a pass stops

ASSUME KnownFaults == Faults \subseteq FaultKinds
ASSUME Bounds == {MaxFaults, MaxList, MaxBuckets} \subseteq Nat
ASSUME FinitePasses == IsFiniteSet(Threads)
ASSUME NoAnalysis == None \notin Traces \cup {NotValid} /\ NotValid \notin Traces

VARIABLES
  faults,   \* those of Faults that happen in this behaviour
  similar,  \* which pairs of traces are
  running,  \* the passes that take place
  recent,   \* collection ErrorBucket: those of the last day, in order
  thread

given == <<faults, similar, running>>
vars == <<given, recent, thread>>

\* big: more than bucketSize items, which is the 10 of triggerJuggernaut.  The
\* buckets of successes are among the small ones.
Bucket == [trace: Traces, size: {"big", "small"}]

\* An analysis goes by the trace it was asked for; asked is a history: JN was
\* asked for this bucket.
ErrorBucket ==
  [bucket: Bucket, details: Traces \cup {None, NotValid}, asked: BOOLEAN]

\* todo: the buckets from the one at hand; doc: what is to be saved of that.
ThreadState ==
  [at: {"idle", "bucket", "ask", "save"}, todo: Seq(Bucket),
   doc: SUBSET ErrorBucket]

IdleThread == [at |-> "idle", todo |-> <<>>, doc |-> {}]

\* Everything has its type.
TypeOK ==
  /\ faults \subseteq Faults
  /\ similar \in [Traces \X Traces -> BOOLEAN]
  /\ running \subseteq Threads
  /\ recent \in Seq(ErrorBucket)
  /\ thread \in [Threads -> ThreadState]

Similarities ==
  {R \in [Traces \X Traces -> BOOLEAN] : IsReflexive(R, Traces) /\ IsSymmetric(R, Traces)}

Init ==
  /\ faults \in {F \in SUBSET Faults : Cardinality(F) <= MaxFaults}
  /\ similar \in Similarities
  /\ running \in SUBSET Threads \ {{}}
  /\ recent = <<>>
  /\ thread = [t \in Threads |-> IdleThread]

-----------------------------------------------------------------------------
\* A day after it was stored getBucketIfPresent finds a bucket no more.
Age ==
  /\ recent # <<>>
  /\ recent' = Tail(recent)
  /\ UNCHANGED <<given, thread>>

\* IssueAggregatorStep has made L of the failures of the window, and
\* generateToken has answered; a pass for which it throws does nothing.
Accept(t, L) ==
  /\ t \in running
  /\ thread[t].at = "idle"
  /\ thread' = [thread EXCEPT ![t] = [@ EXCEPT !.at = "bucket", !.todo = L]]
  /\ UNCHANGED <<given, recent>>

\* An exception ends the pass: its buckets are not forecast.
Ends(t) ==
  /\ thread' = [thread EXCEPT ![t] = IdleThread]
  /\ UNCHANGED <<given, recent>>

\* Mutant: the similarity is not looked at.
MatchesAny(b) ==
  {i \in DOMAIN recent :
     /\ recent[i].details # None
     /\ b.size = "big" => recent[i].bucket.size = "big"}

\* Mutant: only equal traces match.
MatchesEqual(b) ==
  {i \in DOMAIN recent :
     /\ recent[i].details # None
     /\ b.trace = recent[i].bucket.trace
     /\ b.size = "big" => recent[i].bucket.size = "big"}

\* getBucketIfPresent, and those of the list that are similar enough.
Matches(b) ==
  {i \in DOMAIN recent :
     /\ recent[i].details # None
     /\ similar[b.trace, recent[i].bucket.trace]
     /\ b.size = "big" => recent[i].bucket.size = "big"}

AtBucket(t) == thread[t].at = "bucket" /\ thread[t].todo # <<>>

\* The details are put into the bucket, and that is to be saved.
Put(t, details, asked) ==
  /\ LET doc == [bucket |-> Head(thread[t].todo), details |-> details,
                 asked |-> asked]
     IN  thread' = [thread EXCEPT ![t] = [@ EXCEPT !.at = "save", !.doc = {doc}]]
  /\ UNCHANGED <<given, recent>>

\* processBucket for a bucket that JN is not asked for: the details of a match
\* are taken over.  A small one without a match has none, nor has a success,
\* which is not looked up.
TakeOver(t) ==
  /\ AtBucket(t)
  /\ LET b == Head(thread[t].todo)
     IN  \/ \E i \in Matches(b) : Put(t, recent[i].details, FALSE)
         \/ b.size = "small" /\ Put(t, None, FALSE)

\* triggerJuggernaut finds no match for a big one.
NoMatch(t) ==
  /\ AtBucket(t)
  /\ Head(thread[t].todo).size = "big"
  /\ Matches(Head(thread[t].todo)) = {}
  /\ thread' = [thread EXCEPT ![t].at = "ask"]
  /\ UNCHANGED <<given, recent>>

\* The counter, or a similarity, throws.
ProcessThrows(t) ==
  /\ "throws" \in faults
  /\ AtBucket(t)
  /\ Ends(t)

\* Mutant: a failed call leaves the bucket without details.
AskOrNone(t) ==
  /\ thread[t].at = "ask"
  /\ \/ Put(t, Head(thread[t].todo).trace, TRUE)
     \/ "throws" \in faults /\ Put(t, None, TRUE)

\* Mutant: what JN was asked is kept, not the id of its answer.
AskOnly(t) ==
  /\ thread[t].at = "ask"
  /\ \/ Put(t, Head(thread[t].todo), TRUE)
     \/ "throws" \in faults /\ Put(t, NotValid, TRUE)

\* The gateway catches what JN throws, and the id it makes up is kept.
Ask(t) ==
  /\ thread[t].at = "ask"
  /\ \/ Put(t, Head(thread[t].todo).trace, TRUE)
     \/ "throws" \in faults /\ Put(t, NotValid, TRUE)

Saved(t, R) ==
  /\ recent' = R
  /\ LET rest == Tail(thread[t].todo)
     IN  thread' = [thread EXCEPT ![t] = [@ EXCEPT !.at = "bucket", !.doc = {},
                                                   !.todo = rest]]
  /\ UNCHANGED given

\* saveErrorBucket; what it throws is caught.
Save(t) ==
  /\ thread[t].at = "save"
  /\ \/ \E e \in thread[t].doc : Saved(t, Append(recent, e))
     \/ "tooLarge" \in faults /\ Saved(t, recent)

\* All done: the buckets are forecast, see BugFiling.
HandOver(t) ==
  /\ thread[t].at = "bucket"
  /\ thread[t].todo = <<>>
  /\ Ends(t)

Crash(t) ==
  /\ "crash" \in faults
  /\ thread[t].at # "idle"
  /\ Ends(t)

-----------------------------------------------------------------------------
InHand == FoldFunctionOnSet(LAMBDA th, n : n + Len(th.todo), 0, thread, Threads)

\* The buckets a pass may have.
Lists ==
  {L \in UNION {[1 .. n -> Bucket] : n \in 0 .. MaxList} :
     Len(L) + InHand + Len(recent) <= MaxBuckets}

ThreadNext(t) ==
  \/ \E L \in Lists : Accept(t, L)
  \/ TakeOver(t)
  \/ NoMatch(t)
  \/ ProcessThrows(t)
  \/ Ask(t)
  \/ Save(t)
  \/ HandOver(t)
  \/ Crash(t)

Next == Age \/ \E t \in Threads : ThreadNext(t)

Spec == Init /\ [][Next]_vars

-----------------------------------------------------------------------------
(***************************************************************************)
(* Properties.                                                             *)
(***************************************************************************)
Similar(i, j) == similar[recent[i].bucket.trace, recent[j].bucket.trace]

\* JN is not asked more than once for similar buckets that are stored on a day,
\* whether they come in one pass or in later ones, also when its call failed.
\* Each of the passes that overlap may ask once, none of them having stored its
\* bucket when the others look.  What is not stored, too large or lost with its
\* node, does not count: it is asked for again.
AskedOnceADay ==
  \A I \in SUBSET {i \in DOMAIN recent : recent[i].asked} :
    (\A i, j \in I : Similar(i, j)) => Cardinality(I) <= Cardinality(running)

\* A chain of similar traces links x to y: y is in each set of traces that has x
\* and, with a trace, those similar to it.
Linked(x, y) ==
  \A C \in SUBSET Traces :
    (\A u \in C, v \in Traces : similar[u, v] => v \in C) => (x \in C => y \in C)

\* The analysis stored with a bucket was asked for a bucket that similar ones
\* link to it, not always for a similar one: an analysis is taken over again and
\* again, after the bucket it was asked for has aged as well.
AnalysisFits ==
  \A i \in DOMAIN recent :
    recent[i].details \in Traces => Linked(recent[i].details, recent[i].bucket.trace)
=============================================================================
