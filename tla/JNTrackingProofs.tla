-------------------------- MODULE JNTrackingProofs --------------------------
(***************************************************************************)
(* Proofs about JNTracking, for any number of bugs, analyses, threads and  *)
(* nodes and for every set of faults.                                      *)
(***************************************************************************)
EXTENDS JNTracking, TLAPS

-----------------------------------------------------------------------------
(***************************************************************************)
(* Typing.  A plain request uses the bean's bugId unchecked, so typing     *)
(* needs the field to be set for as long as a request of the node is on    *)
(* its way; and what is saved needs an id and a bug at hand.               *)
(***************************************************************************)
PlainStage(s, field) ==
  /\ s.at \in {"idle", "check", "trigger", "tell", "save", "answer"}
  /\ s.at # "idle" => field.bugId \in Bugs
  /\ s.at = "tell" => s.id \in Ids
  /\ s.at = "save" => s.id \in Ids \cup {NotValid}

SynthStage(s) ==
  /\ s.at = "collect" => s.bug \in Bugs
  /\ s.at \in {"tell", "save"} => s.bug \in Bugs /\ s.id \in Ids

Stages ==
  /\ \A r \in Plain : PlainStage(request[r], FieldOf(r))
  /\ \A q \in Synth : SynthStage(request[q])

Typing == TypeOK /\ Stages

StoreTyped ==
  /\ items \in Seq(Item)
  /\ analysis \in [Ids -> Analysis]
  /\ shown \in [Bugs -> Ids \cup {None}]
  /\ attached \in [Bugs \X Ids -> 0 .. 2]
  /\ filed \subseteq Synthetic

\* The states in which threads and beans start are typed.
LEMMA IdleTyped ==
  Idle \in RequestState /\ IdlePoller \in PollerState /\ FreshBean \in Bean
  BY DEF Idle, RequestState, IdlePoller, PollerState, FreshBean, Bean

\* At the start the collection is empty and every thread idle.
LEMMA TypingInit == Init => Typing
<1> SUFFICES ASSUME Init PROVE Typing  OBVIOUS
<1>1. StoreTyped  BY DEF Init, StoreTyped, Analysis
<1>2. /\ bean \in [Nodes -> Bean] /\ request \in [Threads -> RequestState]
      /\ filer \in [Filers -> Entry \cup {None}] /\ poller \in [Pollers -> PollerState]
  BY IdleTyped DEF Init
<1>3. Stages
  BY DEF Init, Stages, PlainStage, SynthStage, Idle, Threads
<1> QED BY <1>1, <1>2, <1>3 DEF Typing, TypeOK, StoreTyped

\* Replacing elements of a sequence gives a sequence of the same elements' type.
LEMMA Mapped ==
  ASSUME NEW S, NEW s \in Seq(S), NEW f, DOMAIN f = DOMAIN s,
         f = [i \in DOMAIN s |-> f[i]], \A i \in DOMAIN s : f[i] \in S
  PROVE  f \in Seq(S)
<1>1. PICK n \in Nat : DOMAIN s = 1 .. n  BY SMT
<1> QED BY <1>1

\* What is saved for a request or a filing leaves a collection of items.
LEMMA ItemsTyped ==
  ASSUME items \in Seq(Item), NEW b \in Bugs, NEW a \in Ids \cup {NotValid},
         Upsert(b, a) \/ Insert(b, a)
  PROVE  items' \in Seq(Item)
<1>1. InProgress(b, a) \in Item  BY DEF InProgress, Item
<1>2. Append(items, InProgress(b, a)) \in Seq(Item)  BY <1>1
<1>3. \A i \in DOMAIN items : items[i] \in Item  OBVIOUS
<1>4. CASE Insert(b, a)  BY <1>2, <1>4 DEF Insert
<1>5. CASE Upsert(b, a)
  <2> DEFINE f == [i \in DOMAIN items |->
                     IF FirstOf(b, i) THEN InProgress(b, a) ELSE items[i]]
  <2>1. f \in Seq(Item)
    <3>1. \A i \in DOMAIN items : f[i] \in Item  BY <1>1, <1>3
    <3> QED BY <3>1, Mapped
  <2> QED BY <1>2, <1>5, <2>1 DEF Upsert
<1> QED BY <1>4, <1>5

\* So does the poller's write, whatever bug it is for.
LEMMA CompletedTyped ==
  ASSUME items \in Seq(Item), NEW b, MarkCompleted(b)
  PROVE  items' \in Seq(Item)
<1> DEFINE f == [i \in DOMAIN items |->
                   IF items[i].bug = b
                   THEN [items[i] EXCEPT !.status = "Completed"]
                   ELSE items[i]]
<1>1. \A i \in DOMAIN items : items[i] \in Item  OBVIOUS
<1>2. \A i \in DOMAIN items : f[i] \in Item  BY <1>1 DEF Item
<1>3. f \in Seq(Item)  BY <1>2, Mapped
<1> QED BY <1>3 DEF MarkCompleted

\* JN starts an analysis.
LEMMA StartTyped ==
  ASSUME analysis \in [Ids -> Analysis], NEW a \in Ids, NEW b \in Bugs,
         NEW c \in BOOLEAN, Start(a, b, c)
  PROVE  analysis' \in [Ids -> Analysis]
  BY DEF Start, Analysis

\* So is what a failed trigger leaves.
LEMMA RefusedTyped ==
  ASSUME Typing, NEW b \in Bugs, Refused(b), UNCHANGED <<items, shown, attached, filed>>
  PROVE  StoreTyped'
<1>1. StoreTyped  BY DEF Typing, TypeOK, StoreTyped
<1>2. analysis' \in [Ids -> Analysis]
  <2>1. CASE UNCHANGED analysis  BY <1>1, <2>1 DEF StoreTyped
  <2>2. CASE \E a \in Ids : Start(a, b, FALSE)
    BY <1>1, <2>2, StartTyped DEF StoreTyped
  <2> QED BY <2>1, <2>2 DEF Refused, Unused
<1> QED BY <1>1, <1>2 DEF StoreTyped

-----------------------------------------------------------------------------
\* A step of thread t that leaves it in state s, and every bugId of a bean
\* that was set a bug.
LEMMA StagesKept ==
  ASSUME Typing, NEW t \in Threads, NEW s \in RequestState,
         request' = [request EXCEPT ![t] = s],
         \A n \in Nodes : bean[n].bugId \in Bugs => bean'[n].bugId \in Bugs,
         t \in Plain => PlainStage(s, bean'[NodeOf[t]]),
         t \in Synth => SynthStage(s)
  PROVE  request' \in [Threads -> RequestState] /\ Stages'
<1>1. request \in [Threads -> RequestState]  BY DEF Typing, TypeOK
<1>2. request' \in [Threads -> RequestState]  BY <1>1
<1>3. ASSUME NEW r \in Plain PROVE PlainStage(request[r], FieldOf(r))'
  <2>1. NodeOf[r] \in Nodes  BY ThreadsOnNodes
  <2>2. CASE r = t  BY <1>1, <2>2 DEF PlainStage, FieldOf
  <2>3. CASE r # t
    <3>1. request'[r] = request[r]  BY <1>1, <2>3 DEF Threads
    <3> QED BY <2>1, <3>1 DEF Typing, Stages, PlainStage, FieldOf
  <2> QED BY <2>2, <2>3
<1>4. ASSUME NEW q \in Synth PROVE SynthStage(request[q])'
  BY <1>1 DEF Typing, Stages, SynthStage, Threads
<1> QED BY <1>2, <1>3, <1>4 DEF Stages

\* Steps that touch no thread's request keep the stages.
LEMMA StagesUntouched ==
  ASSUME Stages, UNCHANGED <<bean, request>>
  PROVE  Stages'
  BY DEF Stages, PlainStage, SynthStage, FieldOf

\* One field of the bean of a node is set.
LEMMA BeanTyped ==
  ASSUME bean \in [Nodes -> Bean], NEW n \in Nodes,
         \/ \E b \in Bugs : bean' = [bean EXCEPT ![n].bugId = b]
         \/ \E x \in Answers : bean' = [bean EXCEPT ![n].requestStatus = x]
         \/ \E b \in Bugs \cup {None} : bean' = [bean EXCEPT ![n].inputBugId = b]
         \/ \E S \in SUBSET Bugs : bean' = [bean EXCEPT ![n].bugs = S]
         \/ \E S \in SUBSET Bugs : bean' = [bean EXCEPT ![n].bugList = S]
         \/ bean' = bean
  PROVE  /\ bean' \in [Nodes -> Bean]
         /\ \A m \in Nodes : bean[m].bugId \in Bugs => bean'[m].bugId \in Bugs
  BY DEF Bean

\* The rest of the type invariant when only threads and beans move.
LEMMA TypingOfThread ==
  ASSUME Typing, StoreTyped', UNCHANGED <<filer, poller>>,
         bean' \in [Nodes -> Bean], request' \in [Threads -> RequestState], Stages'
  PROVE  Typing'
  BY DEF Typing, TypeOK, StoreTyped

\* The store keeps its types when it is left alone.
LEMMA StoreUntouched ==
  ASSUME Typing, UNCHANGED docs
  PROVE  StoreTyped'
  BY DEF Typing, TypeOK, StoreTyped, docs

\* The steps of a plain request.
LEMMA TypingPlain ==
  ASSUME Typing, NEW r \in Plain, PlainNext(r)
  PROVE  Typing'
<1> DEFINE n == NodeOf[r]
<1>1. /\ n \in Nodes /\ r \in Threads /\ r \notin Synth
      /\ request[r] \in RequestState /\ bean \in [Nodes -> Bean]
      /\ request \in [Threads -> RequestState]
      /\ PlainStage(request[r], bean[n])
  BY ThreadsOnNodes, ThreadsDiffer DEF Threads, Typing, TypeOK, Stages, FieldOf
<1>2. request[r].at # "idle" => bean[n].bugId \in Bugs
  BY <1>1 DEF PlainStage
<1>3. StoreTyped  BY DEF Typing, TypeOK, StoreTyped
<1>4. ASSUME NEW s \in RequestState, request' = [request EXCEPT ![r] = s],
             bean' \in [Nodes -> Bean],
             \A m \in Nodes : bean[m].bugId \in Bugs => bean'[m].bugId \in Bugs,
             PlainStage(s, bean'[n]), StoreTyped', UNCHANGED <<filer, poller>>
      PROVE  Typing'
  BY <1>1, <1>4, StagesKept, TypingOfThread
<1>5. CASE \E b \in Bugs \ Synthetic : PlainAccept(r, b)
  <2>1. PICK b \in Bugs \ Synthetic : PlainAccept(r, b)  BY <1>5
  <2> DEFINE s == [Idle EXCEPT !.at = "check", !.bug = b]
  <2>2. s \in RequestState /\ s.at = "check"  BY IdleTyped DEF RequestState, Idle
  <2>3. bean' = [bean EXCEPT ![n].bugId = b]  BY <2>1 DEF PlainAccept
  <2>4. bean'[n].bugId = b  BY <1>1, <2>3 DEF Bean
  <2>5. StoreTyped'  BY <2>1, StoreUntouched DEF PlainAccept
  <2>6. PlainStage(s, bean'[n])  BY <2>2, <2>4 DEF PlainStage
  <2> QED BY <1>1, <1>4, <2>1, <2>2, <2>3, <2>5, <2>6, BeanTyped DEF PlainAccept
<1>6. CASE PlainCheck(r)
  <2>1. PICK x \in {"answer", "trigger"} :
          request' = [request EXCEPT ![r] = [request[r] EXCEPT !.at = x]]
    BY <1>6 DEF PlainCheck, Go
  <2> DEFINE s == [request[r] EXCEPT !.at = x]
  <2>2. s \in RequestState /\ s.at = x  BY <1>1 DEF RequestState
  <2>3. \/ bean' = [bean EXCEPT ![n].requestStatus = "In Progress"]
        \/ bean' = bean
    BY <1>6 DEF PlainCheck
  <2>4. bean'[n].bugId = bean[n].bugId  BY <1>1, <2>3 DEF Bean
  <2>5. StoreTyped'  BY <1>6, StoreUntouched DEF PlainCheck
  <2>6. PlainStage(s, bean'[n])
    BY <1>2, <1>6, <2>2, <2>4 DEF PlainStage, PlainCheck
  <2>7. "In Progress" \in Answers  BY DEF Answers
  <2> QED BY <1>1, <1>4, <1>6, <2>1, <2>2, <2>3, <2>5, <2>6, <2>7, BeanTyped
          DEF PlainCheck
<1>7. CASE \E a \in Ids : PlainTrigger(r, a)
  <2>1. PICK a \in Ids : PlainTrigger(r, a)  BY <1>7
  <2> DEFINE s == [request[r] EXCEPT !.at = "tell", !.id = a]
  <2>2. request' = [request EXCEPT ![r] = s]  BY <1>1, <2>1 DEF PlainTrigger
  <2>3. s \in RequestState /\ s.at = "tell" /\ s.id = a
    BY <1>1 DEF RequestState
  <2>4. bean' = [bean EXCEPT ![n].requestStatus = "Triggered"]
    BY <2>1 DEF PlainTrigger
  <2>5. bean'[n].bugId = bean[n].bugId  BY <1>1, <2>4 DEF Bean
  <2>6. bean[n].bugId \in Bugs  BY <1>2, <2>1 DEF PlainTrigger
  <2>7. PlainStage(s, bean'[n])  BY <2>3, <2>5, <2>6 DEF PlainStage
  <2>8. analysis' \in [Ids -> Analysis]
    BY <1>3, <2>1, <2>6, StartTyped DEF PlainTrigger, StoreTyped, FieldOf
  <2>9. StoreTyped'  BY <1>3, <2>1, <2>8 DEF StoreTyped, PlainTrigger
  <2>10. "Triggered" \in Answers  BY DEF Answers
  <2> QED BY <1>1, <1>4, <2>1, <2>2, <2>3, <2>4, <2>7, <2>9, <2>10, BeanTyped
          DEF PlainTrigger
<1>8. CASE PlainRefused(r)
  <2> DEFINE s == [request[r] EXCEPT !.at = "save", !.id = NotValid]
  <2>1. request' = [request EXCEPT ![r] = s]  BY <1>1, <1>8 DEF PlainRefused
  <2>2. s \in RequestState /\ s.at = "save" /\ s.id = NotValid
    BY <1>1 DEF RequestState
  <2>3. bean' = [bean EXCEPT ![n].requestStatus = "Invalid Request"]
    BY <1>8 DEF PlainRefused
  <2>4. bean'[n].bugId = bean[n].bugId  BY <1>1, <2>3 DEF Bean
  <2>5. PlainStage(s, bean'[n])
    BY <1>2, <1>8, <2>2, <2>4 DEF PlainStage, PlainRefused
  <2>6. StoreTyped'
    <3>1. bean[n].bugId \in Bugs  BY <1>2, <1>8 DEF PlainStage, PlainRefused
    <3> QED BY <1>8, <3>1, RefusedTyped DEF PlainRefused, FieldOf
  <2>7. "Invalid Request" \in Answers  BY DEF Answers
  <2> QED BY <1>1, <1>4, <1>8, <2>1, <2>2, <2>3, <2>5, <2>6, <2>7, BeanTyped
          DEF PlainRefused
<1>9. CASE PlainTell(r) \/ PlainTellThrows(r)
  <2>1. /\ request[r].at = "tell"
        /\ shown' \in {shown, [shown EXCEPT ![bean[n].bugId] = request[r].id]}
        /\ UNCHANGED <<items, analysis, attached, filed, bean, filer, poller>>
    BY <1>9 DEF PlainTell, PlainTellThrows, FieldOf
  <2>2. request[r].id \in Ids  BY <1>1, <2>1 DEF PlainStage
  <2>3. shown' \in [Bugs -> Ids \cup {None}]
    BY <1>2, <1>3, <2>1, <2>2 DEF StoreTyped
  <2>4. StoreTyped'  BY <1>3, <2>1, <2>3 DEF StoreTyped
  <2>5. PICK s \in {[request[r] EXCEPT !.at = "save"],
                    [request[r] EXCEPT !.at = "answer"], Idle} :
          request' = [request EXCEPT ![r] = s]
    BY <1>9 DEF PlainTell, PlainTellThrows, Go
  <2>6. /\ s \in RequestState /\ s.at \in {"save", "answer", "idle"}
        /\ s.at = "save" => s.id = request[r].id
    BY <1>1, <2>5, IdleTyped DEF RequestState, Idle
  <2>7. PlainStage(s, bean'[n])  BY <1>2, <2>1, <2>2, <2>6 DEF PlainStage
  <2> QED BY <1>1, <1>4, <2>1, <2>4, <2>5, <2>6, <2>7
<1>10. CASE PlainSave(r)
  <2> DEFINE s == [request[r] EXCEPT !.at = "answer"]
  <2>1. request' = [request EXCEPT ![r] = s]  BY <1>10 DEF PlainSave, Go
  <2>2. s \in RequestState /\ s.at = "answer"  BY <1>1 DEF RequestState
  <2>3. request[r].id \in Ids \cup {NotValid} /\ bean[n].bugId \in Bugs
    BY <1>1, <1>2, <1>10 DEF PlainStage, PlainSave
  <2>4. items' \in Seq(Item)
    BY <1>3, <1>10, <2>3, ItemsTyped DEF PlainSave, StoreTyped, FieldOf
  <2>5. StoreTyped'  BY <1>3, <1>10, <2>4 DEF StoreTyped, PlainSave
  <2>6. PlainStage(s, bean'[n])
    BY <1>10, <2>2, <2>3 DEF PlainStage, PlainSave
  <2> QED BY <1>1, <1>4, <1>10, <2>1, <2>2, <2>5, <2>6 DEF PlainSave
<1>11. CASE PlainAnswer(r)
  <2>1. PlainStage(Idle, bean'[n])  BY DEF PlainStage, Idle
  <2>2. StoreTyped'  BY <1>11, StoreUntouched DEF PlainAnswer
  <2> QED BY <1>1, <1>4, <1>11, <2>1, <2>2, IdleTyped DEF PlainAnswer
<1> QED BY <1>5, <1>6, <1>7, <1>8, <1>9, <1>10, <1>11 DEF PlainNext

\* The steps of a synthetic request.
LEMMA TypingSynth ==
  ASSUME Typing, NEW q \in Synth, SynthNext(q)
  PROVE  Typing'
<1> DEFINE n == NodeOf[q]
<1> USE SyntheticBugs
<1>1. /\ n \in Nodes /\ q \in Threads /\ q \notin Plain
      /\ request[q] \in RequestState /\ bean \in [Nodes -> Bean]
      /\ request \in [Threads -> RequestState]
      /\ SynthStage(request[q])
      /\ bean[n] \in Bean
  BY ThreadsOnNodes, ThreadsDiffer DEF Threads, Typing, TypeOK, Stages
<1>2. request[q].todo \subseteq Bugs /\ request[q].kept \subseteq Bugs
  BY <1>1 DEF RequestState
<1>3. StoreTyped  BY DEF Typing, TypeOK, StoreTyped
<1>4. ASSUME NEW s \in RequestState, request' = [request EXCEPT ![q] = s],
             \/ \E b \in Bugs \cup {None} : bean' = [bean EXCEPT ![n].inputBugId = b]
             \/ \E S \in SUBSET Bugs : bean' = [bean EXCEPT ![n].bugs = S]
             \/ \E S \in SUBSET Bugs : bean' = [bean EXCEPT ![n].bugList = S]
             \/ bean' = bean,
             SynthStage(s), StoreTyped', UNCHANGED <<filer, poller>>
      PROVE  Typing'
  <2>1. /\ bean' \in [Nodes -> Bean]
        /\ \A m \in Nodes : bean[m].bugId \in Bugs => bean'[m].bugId \in Bugs
    BY <1>1, <1>4, BeanTyped
  <2> QED BY <1>1, <1>4, <2>1, StagesKept, TypingOfThread
<1>5. CASE \E b \in Synthetic \cup {None} : SynthAccept(q, b)
  <2>1. PICK b \in Synthetic \cup {None} : SynthAccept(q, b)  BY <1>5
  <2> DEFINE s == [request[q] EXCEPT !.at = "execute"]
  <2>2. s \in RequestState /\ SynthStage(s)  BY <1>1 DEF RequestState, SynthStage
  <2>3. StoreTyped'  BY <2>1, StoreUntouched DEF SynthAccept
  <2> QED BY <1>4, <2>1, <2>2, <2>3 DEF SynthAccept
<1>6. CASE SynthCollect(q)
  <2> DEFINE s == [request[q] EXCEPT !.at = "collect", !.bug = bean[n].inputBugId]
  <2>1. bean[n].inputBugId \in Bugs  BY <1>1, <1>6 DEF Bean, SynthCollect, FieldOf
  <2>2. s \in RequestState /\ SynthStage(s)
    BY <1>1, <2>1 DEF RequestState, SynthStage
  <2>3. request' = [request EXCEPT ![q] = s]
    BY <1>1, <1>6 DEF SynthCollect, FieldOf
  <2>4. StoreTyped'  BY <1>6, StoreUntouched DEF SynthCollect
  <2> QED BY <1>4, <1>6, <2>2, <2>3, <2>4 DEF SynthCollect
<1>7. CASE SynthFound(q)
  <2> DEFINE s == [Idle EXCEPT !.at = "check"]
  <2>1. s \in RequestState /\ SynthStage(s)
    BY IdleTyped DEF RequestState, SynthStage, Idle
  <2>2. StoreTyped'  BY <1>7, StoreUntouched DEF SynthFound
  <2>3. \E S \in SUBSET Bugs : bean' = [bean EXCEPT ![n].bugs = S]
    <3>1. bean[n].bugs \subseteq Bugs  BY <1>1 DEF Bean
    <3>2. filed \subseteq Bugs  BY <1>3 DEF StoreTyped
    <3> DEFINE S == IF request[q].bug \in filed THEN {request[q].bug} ELSE bean[n].bugs
    <3>3. S \in SUBSET Bugs  BY <3>1, <3>2
    <3>4. bean' = [bean EXCEPT ![n].bugs = S]  BY <1>1, <1>7 DEF SynthFound
    <3> QED BY <3>3, <3>4
  <2> QED BY <1>4, <1>7, <2>1, <2>2, <2>3 DEF SynthFound
<1>8. CASE SynthCollectThrows(q)
  <2>1. PICK x \in {"check", "idle"} :
          request' = [request EXCEPT ![q] = [Idle EXCEPT !.at = x]]
    BY <1>8 DEF SynthCollectThrows
  <2> DEFINE s == [Idle EXCEPT !.at = x]
  <2>2. s \in RequestState /\ SynthStage(s)
    BY IdleTyped DEF RequestState, SynthStage, Idle
  <2>3. StoreTyped'  BY <1>8, StoreUntouched DEF SynthCollectThrows
  <2> QED BY <1>4, <1>8, <2>1, <2>2, <2>3 DEF SynthCollectThrows
<1>9. CASE SynthCheck(q)
  <2>1. PICK x \in {"loop", "idle"} :
          request' = [request EXCEPT ![q] = [request[q] EXCEPT !.at = x]]
    BY <1>9 DEF SynthCheck, Go
  <2> DEFINE s == [request[q] EXCEPT !.at = x]
  <2>2. s \in RequestState /\ SynthStage(s)
    BY <1>1 DEF RequestState, SynthStage
  <2>3. StoreTyped'  BY <1>9, StoreUntouched DEF SynthCheck
  <2>4. {b \in FieldOf(q).bugs : ~AlreadyRunning(b)} \in SUBSET Bugs
    BY <1>1 DEF Bean, FieldOf
  <2>5. \/ \E S \in SUBSET Bugs : bean' = [bean EXCEPT ![n].bugList = S]
        \/ bean' = bean
    BY <1>9, <2>4 DEF SynthCheck
  <2> QED BY <1>4, <1>9, <2>1, <2>2, <2>3, <2>5 DEF SynthCheck
<1>10. CASE \E S \in SUBSET Synthetic : SynthCollectHour(q, S)
  <2>1. PICK S \in SUBSET Synthetic : SynthCollectHour(q, S)  BY <1>10
  <2> DEFINE s == [request[q] EXCEPT !.at = "dedup", !.todo = S]
  <2>2. s \in RequestState /\ SynthStage(s)
    BY <1>1 DEF RequestState, SynthStage
  <2>3. request' = [request EXCEPT ![q] = s]  BY <1>1, <2>1 DEF SynthCollectHour
  <2>4. StoreTyped'  BY <2>1, StoreUntouched DEF SynthCollectHour
  <2> QED BY <1>4, <2>1, <2>2, <2>3, <2>4 DEF SynthCollectHour
<1>11. CASE \E b \in Synthetic : SynthDedup(q, b)
  <2>1. PICK b \in Synthetic : SynthDedup(q, b)  BY <1>11
  <2> DEFINE s == [request[q] EXCEPT !.todo = @ \ {b},
                     !.kept = IF AlreadyRunning(b) THEN @ ELSE @ \cup {b}]
  <2>2. s \in RequestState  BY <1>1, <1>2 DEF RequestState
  <2>3. s.at = "dedup"  BY <1>1, <2>1 DEF RequestState, SynthDedup
  <2>4. request' = [request EXCEPT ![q] = s]  BY <1>1, <2>1 DEF SynthDedup
  <2>5. StoreTyped'  BY <2>1, StoreUntouched DEF SynthDedup
  <2>6. SynthStage(s)  BY <2>3 DEF SynthStage
  <2> QED BY <1>4, <2>1, <2>2, <2>4, <2>5, <2>6 DEF SynthDedup
<1>12. CASE SynthBatch(q)
  <2>1. PICK s \in {[Idle EXCEPT !.at = "loop"], [request[q] EXCEPT !.at = "idle"]} :
          request' = [request EXCEPT ![q] = s]
    BY <1>12 DEF SynthBatch, Go
  <2>2. s \in RequestState /\ s.at \in {"loop", "idle"}
    BY <1>1, <2>1, IdleTyped DEF RequestState, Idle
  <2>3. SynthStage(s)  BY <2>2 DEF SynthStage
  <2>4. StoreTyped'  BY <1>12, StoreUntouched DEF SynthBatch
  <2>5. \/ \E S \in SUBSET Bugs : bean' = [bean EXCEPT ![n].bugList = S]
        \/ bean' = bean
    BY <1>2, <1>12 DEF SynthBatch
  <2> QED BY <1>4, <1>12, <2>1, <2>2, <2>3, <2>4, <2>5 DEF SynthBatch
<1>13. CASE SynthLoop(q)
  <2> DEFINE s == [request[q] EXCEPT !.at = "trigger", !.todo = bean[n].bugList]
  <2>1. bean[n].bugList \subseteq Bugs  BY <1>1 DEF Bean
  <2>2. s \in RequestState /\ SynthStage(s)
    BY <1>1, <2>1 DEF RequestState, SynthStage
  <2>3. request' = [request EXCEPT ![q] = s]  BY <1>1, <1>13 DEF SynthLoop, FieldOf
  <2>4. StoreTyped'  BY <1>13, StoreUntouched DEF SynthLoop
  <2> QED BY <1>4, <1>13, <2>2, <2>3, <2>4 DEF SynthLoop
<1>14. CASE \E b \in Synthetic, a \in Ids : SynthTrigger(q, b, a)
  <2>1. PICK b \in Synthetic, a \in Ids : SynthTrigger(q, b, a)  BY <1>14
  <2> DEFINE s == [request[q] EXCEPT !.at = "tell", !.todo = @ \ {b},
                                     !.bug = b, !.id = a]
  <2>2. s \in RequestState /\ SynthStage(s)
    BY <1>1, <1>2 DEF RequestState, SynthStage
  <2>3. request' = [request EXCEPT ![q] = s]  BY <1>1, <2>1 DEF SynthTrigger
  <2>4. analysis' \in [Ids -> Analysis]
    BY <1>3, <2>1, StartTyped DEF SynthTrigger, StoreTyped
  <2>5. StoreTyped'  BY <1>3, <2>1, <2>4 DEF StoreTyped, SynthTrigger
  <2> QED BY <1>4, <2>1, <2>2, <2>3, <2>5 DEF SynthTrigger
<1>15. CASE \E b \in Synthetic : SynthRefused(q, b)
  <2>1. PICK b \in Synthetic : SynthRefused(q, b)  BY <1>15
  <2> DEFINE s == [request[q] EXCEPT !.todo = @ \ {b}]
  <2>2. s \in RequestState /\ s.at = "trigger"
    BY <1>1, <1>2, <2>1 DEF RequestState, SynthRefused
  <2>3. request' = [request EXCEPT ![q] = s]  BY <1>1, <2>1 DEF SynthRefused
  <2>4. StoreTyped'  BY <2>1, SyntheticBugs, RefusedTyped DEF SynthRefused
  <2>5. SynthStage(s)  BY <2>2 DEF SynthStage
  <2> QED BY <1>4, <2>1, <2>2, <2>3, <2>4, <2>5 DEF SynthRefused
<1>16. CASE SynthTell(q) \/ SynthTellThrows(q)
  <2>1. /\ request[q].at = "tell"
        /\ shown' \in {shown, [shown EXCEPT ![request[q].bug] = request[q].id]}
        /\ UNCHANGED <<items, analysis, attached, filed, bean, filer, poller>>
    BY <1>16 DEF SynthTell, SynthTellThrows
  <2>2. request[q].id \in Ids /\ request[q].bug \in Bugs
    BY <1>1, <2>1 DEF SynthStage
  <2>3. shown' \in [Bugs -> Ids \cup {None}]
    BY <1>3, <2>1, <2>2 DEF StoreTyped
  <2>4. StoreTyped'  BY <1>3, <2>1, <2>3 DEF StoreTyped
  <2>5. PICK s \in {[request[q] EXCEPT !.at = "save"], Idle} :
          request' = [request EXCEPT ![q] = s]
    BY <1>16 DEF SynthTell, SynthTellThrows, Go
  <2>6. /\ s \in RequestState /\ s.at \in {"save", "idle"}
        /\ s.at = "save" => s.id = request[q].id /\ s.bug = request[q].bug
    BY <1>1, <2>5, IdleTyped DEF RequestState, Idle
  <2>7. SynthStage(s)  BY <2>2, <2>6 DEF SynthStage
  <2> QED BY <1>4, <2>1, <2>4, <2>5, <2>6, <2>7
<1>17. CASE SynthSave(q)
  <2> DEFINE s == [Idle EXCEPT !.at = "trigger", !.todo = request[q].todo]
  <2>1. s \in RequestState /\ SynthStage(s)
    BY <1>2, IdleTyped DEF RequestState, Idle, SynthStage
  <2>2. request[q].id \in Ids /\ request[q].bug \in Bugs
    BY <1>1, <1>17 DEF SynthStage, SynthSave
  <2>3. items' \in Seq(Item)
    BY <1>3, <1>17, <2>2, ItemsTyped DEF SynthSave, StoreTyped
  <2>4. StoreTyped'  BY <1>3, <1>17, <2>3 DEF StoreTyped, SynthSave
  <2> QED BY <1>4, <1>17, <2>1, <2>4 DEF SynthSave
<1>18. CASE SynthDone(q)
  <2> DEFINE s == [request[q] EXCEPT !.at = "idle"]
  <2>1. s \in RequestState /\ SynthStage(s)  BY <1>1 DEF RequestState, SynthStage
  <2>2. StoreTyped'  BY <1>18, StoreUntouched DEF SynthDone
  <2> QED BY <1>4, <1>18, <2>1, <2>2 DEF SynthDone, Go
<1> QED BY <1>5, <1>6, <1>7, <1>8, <1>9, <1>10, <1>11, <1>12, <1>13, <1>14, <1>15,
           <1>16, <1>17, <1>18 DEF SynthNext

\* The steps of a filer.
LEMMA TypingFiler ==
  ASSUME Typing, NEW f \in Filers, FilerNext(f)
  PROVE  Typing'
<1>1. StoreTyped /\ filer \in [Filers -> Entry \cup {None}]
  BY DEF Typing, TypeOK, StoreTyped
<1>2. CASE \E b \in Synthetic, a \in Ids \cup {NotValid, None} : FileBug(f, b, a)
  <2>1. PICK b \in Synthetic, a \in Ids \cup {NotValid, None} : FileBug(f, b, a)
    BY <1>2
  <2>2. b \in Bugs  BY SyntheticBugs
  <2>3. filer' \in [Filers -> Entry \cup {None}]
    <3>1. a # None => [bug |-> b, id |-> a] \in Entry  BY <2>2 DEF Entry
    <3> QED BY <1>1, <2>1, <3>1 DEF FileBug
  <2>4. shown' \in [Bugs -> Ids \cup {None}] /\ analysis' \in [Ids -> Analysis]
    <3>1. CASE a \in Ids
      <4>1. analysis[a] \in Analysis  BY <1>1, <3>1 DEF StoreTyped
      <4> DEFINE x == [state |-> IF a \in Unused THEN "running" ELSE analysis[a].state,
                       about |-> analysis[a].about \cup {b},
                       bucket |-> TRUE, told |-> TRUE]
      <4>2. x \in Analysis  BY <2>2, <4>1 DEF Analysis
      <4>3. analysis' = [analysis EXCEPT ![a] = x]
        BY <1>1, <2>1, <3>1 DEF FileBug, StoreTyped
      <4>4. shown' = [shown EXCEPT ![b] = a]  BY <2>1, <3>1 DEF FileBug
      <4> QED BY <1>1, <3>1, <4>2, <4>3, <4>4 DEF StoreTyped
    <3>2. CASE a \notin Ids  BY <1>1, <2>1, <3>2 DEF FileBug, StoreTyped
    <3> QED BY <3>1, <3>2
  <2>5. StoreTyped'  BY <1>1, <2>1, <2>4 DEF FileBug, StoreTyped
  <2>6. Stages'  BY <2>1, StagesUntouched DEF FileBug, Typing
  <2> QED BY <2>1, <2>3, <2>5, <2>6 DEF Typing, TypeOK, StoreTyped, FileBug
<1>3. CASE FileItem(f)
  <2>1. filer[f] \in Entry  BY <1>1, <1>3 DEF FileItem
  <2>2. items' \in Seq(Item)
    BY <1>1, <1>3, <2>1, ItemsTyped DEF FileItem, StoreTyped, Entry
  <2>3. StoreTyped'  BY <1>1, <1>3, <2>2 DEF FileItem, StoreTyped
  <2>4. filer' \in [Filers -> Entry \cup {None}]  BY <1>1, <1>3 DEF FileItem
  <2>5. Stages'  BY <1>3, StagesUntouched DEF FileItem, Typing
  <2> QED BY <1>3, <2>3, <2>4, <2>5 DEF Typing, TypeOK, StoreTyped, FileItem
<1> QED BY <1>2, <1>3 DEF FilerNext

\* The steps of a poller.
LEMMA TypingPoller ==
  ASSUME Typing, NEW p \in Pollers, PollerNext(p)
  PROVE  Typing'
<1>1. /\ StoreTyped /\ poller \in [Pollers -> PollerState]
      /\ poller[p] \in PollerState
  BY DEF Typing, TypeOK, StoreTyped
<1>2. UNCHANGED <<analysis, shown, filed, bean, request, filer>>
  BY DEF PollerNext, PollerStart, PollerSkip, PollerAttach, PollerComment,
     PollerMark, PollerEnd, docs
<1>3. SUFFICES /\ items' \in Seq(Item)
               /\ attached' \in [Bugs \X Ids -> 0 .. 2]
               /\ \E s \in PollerState : poller' = [poller EXCEPT ![p] = s]
  <2>1. Stages'  BY <1>2, StagesUntouched DEF Typing
  <2> QED BY <1>1, <1>2, <1>3, <2>1 DEF Typing, TypeOK, StoreTyped
<1>4. CASE PollerStart(p)
  <2> DEFINE s == [poller[p] EXCEPT !.at = "next", !.list = Triggered]
  <2>1. Triggered \subseteq Entry
    <3>1. \A i \in DOMAIN items : items[i] \in Item  BY <1>1 DEF StoreTyped
    <3> SUFFICES ASSUME NEW i \in DOMAIN items
                 PROVE  [bug |-> items[i].bug, id |-> items[i].id] \in Entry
      BY DEF Triggered
    <3> QED BY <3>1 DEF Entry, Item
  <2>2. s \in PollerState  BY <1>1, <2>1 DEF PollerState
  <2>3. poller' = [poller EXCEPT ![p] = s]  BY <1>1, <1>4 DEF PollerStart
  <2> QED BY <1>1, <1>4, <2>2, <2>3 DEF PollerStart, docs, StoreTyped
<1>5. CASE \E e \in Entry : PollerSkip(p, e)
  <2>1. PICK e \in Entry : PollerSkip(p, e)  BY <1>5
  <2> DEFINE s == [poller[p] EXCEPT !.list = @ \ {e}]
  <2>2. s \in PollerState  BY <1>1 DEF PollerState
  <2>3. poller' = [poller EXCEPT ![p] = s]  BY <1>1, <2>1 DEF PollerSkip
  <2> QED BY <1>1, <2>1, <2>2, <2>3 DEF PollerSkip, docs, StoreTyped
<1>6. CASE \E e \in Entry : PollerAttach(p, e)
  <2>1. PICK e \in Entry : PollerAttach(p, e)  BY <1>6
  <2>2. PICK s \in {[at |-> "comment", list |-> poller[p].list \ {e}, bug |-> e.bug],
                    [poller[p] EXCEPT !.list = @ \ {e}]} :
          poller' = [poller EXCEPT ![p] = s]
    BY <1>1, <2>1 DEF PollerAttach
  <2>3. s \in PollerState  BY <1>1, <2>2 DEF PollerState, Entry
  <2>4. <<e.bug, e.id>> \in Bugs \X Ids  BY <2>1 DEF PollerAttach, HasResult, Entry
  <2>5. attached' \in [Bugs \X Ids -> 0 .. 2]
    BY <1>1, <2>1, <2>4 DEF PollerAttach, Attach, StoreTyped
  <2> QED BY <1>1, <2>1, <2>2, <2>3, <2>5 DEF PollerAttach, StoreTyped
<1>7. CASE PollerComment(p) \/ PollerMark(p)
  <2>1. PICK x \in {"mark", "next"} : poller' = [poller EXCEPT ![p].at = x]
    BY <1>7 DEF PollerComment, PollerMark
  <2> DEFINE s == [poller[p] EXCEPT !.at = x]
  <2>2. s \in PollerState  BY <1>1 DEF PollerState
  <2>3. poller' = [poller EXCEPT ![p] = s]  BY <1>1, <2>1
  <2>4. items' \in Seq(Item)
    <3>1. CASE PollerComment(p)  BY <1>1, <3>1 DEF PollerComment, docs, StoreTyped
    <3>2. CASE PollerMark(p)
      BY <1>1, <3>2, CompletedTyped DEF PollerMark, StoreTyped
    <3> QED BY <1>7, <3>1, <3>2
  <2>5. attached' = attached  BY <1>7 DEF PollerComment, PollerMark, docs
  <2> QED BY <1>1, <2>2, <2>3, <2>4, <2>5 DEF StoreTyped
<1>8. CASE PollerEnd(p)
  BY <1>1, <1>8, IdleTyped DEF PollerEnd, docs, StoreTyped
<1> QED BY <1>4, <1>5, <1>6, <1>7, <1>8 DEF PollerNext

\* JN ends an analysis, a node stops, or nothing happens.
LEMMA TypingOther ==
  ASSUME Typing,
         (\E a \in Ids : JNEnds(a)) \/ (\E n \in Nodes : Crash(n)) \/ UNCHANGED vars
  PROVE  Typing'
<1>1. CASE \E a \in Ids : JNEnds(a)
  <2>1. PICK a \in Ids : JNEnds(a)  BY <1>1
  <2>2. analysis' \in [Ids -> Analysis]
    <3>1. PICK s \in {"completed", "ended"} :
            analysis' = [analysis EXCEPT ![a].state = s]
      BY <2>1 DEF JNEnds
    <3> QED BY <3>1 DEF Typing, TypeOK, Analysis
  <2>3. Stages'  BY <2>1, StagesUntouched DEF JNEnds, Typing
  <2> QED BY <2>1, <2>2, <2>3 DEF JNEnds, Typing, TypeOK
<1>2. CASE \E n \in Nodes : Crash(n)
  <2>1. PICK n \in Nodes : Crash(n)  BY <1>2
  <2>2. StoreTyped'  BY <2>1, StoreUntouched DEF Crash
  <2>3. /\ bean \in [Nodes -> Bean] /\ request \in [Threads -> RequestState]
        /\ filer \in [Filers -> Entry \cup {None}]
        /\ poller \in [Pollers -> PollerState]
    BY DEF Typing, TypeOK
  <2>4. bean' \in [Nodes -> Bean] /\ request' \in [Threads -> RequestState]
    BY <2>1, <2>3, IdleTyped DEF Crash
  <2>5. /\ filer' \in [Filers -> Entry \cup {None}]
        /\ poller' \in [Pollers -> PollerState]
    BY <2>1, <2>3, IdleTyped DEF Crash
  <2>6. ASSUME NEW r \in Plain PROVE PlainStage(request[r], FieldOf(r))'
    <3>1. r \in Threads /\ NodeOf[r] \in Nodes  BY ThreadsOnNodes DEF Threads
    <3>2. CASE NodeOf[r] = n
      BY <2>1, <3>1, <3>2 DEF Crash, PlainStage, Idle
    <3>3. CASE NodeOf[r] # n
      BY <2>1, <2>3, <3>1, <3>3 DEF Crash, PlainStage, FieldOf, Typing, Stages
    <3> QED BY <3>2, <3>3
  <2>7. ASSUME NEW q \in Synth PROVE SynthStage(request[q])'
    <3>1. q \in Threads  BY DEF Threads
    <3>2. request'[q] \in {Idle, request[q]}  BY <2>1, <3>1 DEF Crash
    <3> QED BY <3>2 DEF SynthStage, Idle, Typing, Stages
  <2> QED BY <2>2, <2>4, <2>5, <2>6, <2>7 DEF Typing, TypeOK, Stages, StoreTyped
<1>3. CASE UNCHANGED vars
  BY <1>3 DEF vars, docs, Typing, TypeOK, Stages, PlainStage, SynthStage, FieldOf
<1> QED BY <1>1, <1>2, <1>3

\* Everything always has its type, with any number of threads to a node.
THEOREM TypeCorrect == Spec => []TypeOK
<1>1. Typing /\ [Next]_vars => Typing'
  BY TypingPlain, TypingSynth, TypingFiler, TypingPoller, TypingOther DEF Next
<1>2. Typing => TypeOK  BY DEF Typing
<1> QED BY TypingInit, <1>1, <1>2, PTL DEF Spec

-----------------------------------------------------------------------------
(***************************************************************************)
(* Results go to their bugs.  Wherever a bug and an analysis id are held   *)
(* together, JN was asked about that bug.  For the plain service this      *)
(* needs one request at a time on a node, so that the field bugId is the   *)
(* bug of the request; the synthetic service keeps both in local           *)
(* variables and may have its fields overwritten.                          *)
(***************************************************************************)
Apart == \A r, s \in Plain : NodeOf[r] = NodeOf[s] => r = s

AskedFor(an, b, a) == a \in Ids => b \in an[a].about

PlainOwned(an, s, field) ==
  /\ s.at # "idle" => field.bugId = s.bug
  /\ s.at \in {"check", "trigger"} => s.id \notin Ids
  /\ s.at \in {"tell", "save", "answer"} =>
       /\ AskedFor(an, s.bug, s.id)
       /\ field.requestStatus = "Triggered" => s.id \in Ids

SynthOwned(an, s) == s.at \in {"tell", "save"} => AskedFor(an, s.bug, s.id)

RequestsOwned ==
  /\ \A r \in Plain : PlainOwned(analysis, request[r], FieldOf(r))
  /\ \A q \in Synth : SynthOwned(analysis, request[q])

ItemsOwned ==
  \A i \in DOMAIN items : AskedFor(analysis, items[i].bug, items[i].id)

OthersOwned ==
  /\ \A f \in Filers :
       filer[f] # None => AskedFor(analysis, filer[f].bug, filer[f].id)
  /\ \A p \in Pollers : \A e \in poller[p].list : AskedFor(analysis, e.bug, e.id)

Owned ==
  Typing /\ RequestsOwned /\ ItemsOwned /\ OthersOwned /\ ResultOfItsBug

Grows == \A a \in Ids : analysis[a].about \subseteq analysis'[a].about

\* No analysis changes but one that JN starts and tells nobody of.
NoneTold ==
  \A x \in Ids :
    \/ analysis'[x] = analysis[x]
    \/ /\ x \in Unused /\ x \notin Unused'
       /\ ~analysis'[x].told /\ ~analysis'[x].bucket
       /\ analysis[x].about \subseteq analysis'[x].about

\* At the start nobody holds an id.
LEMMA OwnedInit == Init => Owned
<1> SUFFICES ASSUME Init PROVE Owned  OBVIOUS
<1>1. RequestsOwned
  BY DEF Init, RequestsOwned, PlainOwned, SynthOwned, Idle, Threads
<1>2. ItemsOwned /\ OthersOwned /\ ResultOfItsBug
  BY DEF Init, ItemsOwned, OthersOwned, ResultOfItsBug, IdlePoller
<1> QED BY TypingInit, <1>1, <1>2 DEF Owned

\* JN is asked about more bugs, never about fewer.
LEMMA StartGrows ==
  ASSUME analysis \in [Ids -> Analysis], NEW a \in Ids, NEW b, NEW c, Start(a, b, c)
  PROVE  Grows /\ b \in analysis'[a].about
  BY DEF Start, Grows, Analysis

\* A failed trigger tells nobody of an analysis.
LEMMA RefusedTellsNone ==
  ASSUME analysis \in [Ids -> Analysis], NEW b, Refused(b)
  PROVE  NoneTold
<1>1. CASE UNCHANGED analysis  BY <1>1 DEF NoneTold
<1>2. CASE \E a \in Unused : Start(a, b, FALSE)
  <2>1. PICK a \in Unused : Start(a, b, FALSE)  BY <1>2
  <2>2. a \in Ids  BY DEF Unused
  <2>3. /\ analysis'[a].about = analysis[a].about \cup {b}
        /\ ~analysis'[a].told /\ ~analysis'[a].bucket
        /\ analysis'[a].state # "unknown"
        /\ \A x \in Ids \ {a} : analysis'[x] = analysis[x]
    BY <2>1, <2>2 DEF Start
  <2> QED BY <2>2, <2>3 DEF NoneTold, Unused
<1> QED BY <1>1, <1>2 DEF Refused

\* Nor do the steps that leave JN alone.
LEMMA SameTellsNone == UNCHANGED analysis => NoneTold
  BY DEF NoneTold

LEMMA NoneToldGrows == NoneTold => Grows
  BY DEF NoneTold, Grows

\* What is held stays owned.
LEMMA OthersKept ==
  ASSUME OthersOwned, Grows, UNCHANGED <<filer, poller>>
  PROVE  OthersOwned'
  BY DEF OthersOwned, AskedFor, Grows

\* The items stay owned.
LEMMA ItemsKept ==
  ASSUME ItemsOwned, Grows, items' = items
  PROVE  ItemsOwned'
  BY DEF ItemsOwned, AskedFor, Grows

\* A saved item is owned if its bug and id are.
LEMMA ItemsSaved ==
  ASSUME Typing, ItemsOwned, Grows, NEW b, NEW a, AskedFor(analysis', b, a),
         Upsert(b, a) \/ Insert(b, a)
  PROVE  ItemsOwned'
<1>1. /\ items \in Seq(Item)
      /\ \A i \in DOMAIN items : AskedFor(analysis', items[i].bug, items[i].id)
  BY DEF Typing, TypeOK, ItemsOwned, AskedFor, Grows
<1>2. InProgress(b, a).bug = b /\ InProgress(b, a).id = a  BY DEF InProgress
<1>3. ASSUME items' = Append(items, InProgress(b, a)) PROVE ItemsOwned'
  <2>1. \A i \in DOMAIN items' : \/ i \in DOMAIN items /\ items'[i] = items[i]
                                 \/ items'[i] = InProgress(b, a)
    BY <1>1, <1>3
  <2> QED BY <1>1, <1>2, <2>1 DEF ItemsOwned
<1>4. ASSUME items' = [i \in DOMAIN items |->
                         IF FirstOf(b, i) THEN InProgress(b, a) ELSE items[i]]
      PROVE  ItemsOwned'
  BY <1>1, <1>2, <1>4 DEF ItemsOwned
<1> QED BY <1>3, <1>4 DEF Upsert, Insert

\* Results and shown ids stay those of the bug.
LEMMA ResultsKept ==
  ASSUME Typing, ResultOfItsBug, Grows, UNCHANGED <<shown, attached>>
  PROVE  ResultOfItsBug'
  BY DEF ResultOfItsBug, Grows, Typing, TypeOK

\* An id that is shown for a bug it was asked for.
LEMMA ShownOwned ==
  ASSUME Typing, ResultOfItsBug, Grows, attached' = attached,
         NEW b \in Bugs, NEW a \in Ids, AskedFor(analysis', b, a),
         shown' \in {shown, [shown EXCEPT ![b] = a]}
  PROVE  ResultOfItsBug'
<1>1. shown \in [Bugs -> Ids \cup {None}]  BY DEF Typing, TypeOK
<1>2. \A c \in Bugs : shown'[c] # None => c \in analysis'[shown'[c]].about
  <2> SUFFICES ASSUME NEW c \in Bugs, shown'[c] # None
               PROVE  c \in analysis'[shown'[c]].about
    OBVIOUS
  <2>1. CASE shown'[c] = shown[c]  BY <1>1, <2>1 DEF ResultOfItsBug, Grows
  <2>2. CASE shown'[c] # shown[c]  BY <1>1, <2>2 DEF AskedFor
  <2> QED BY <2>1, <2>2
<1> QED BY <1>2 DEF ResultOfItsBug, Grows

\* A step of a plain request on its node.
LEMMA PlainKept ==
  ASSUME Apart, Typing, RequestsOwned, Grows, NEW r \in Plain,
         NEW s, request' = [request EXCEPT ![r] = s],
         \A m \in Nodes : m # NodeOf[r] => bean'[m] = bean[m],
         PlainOwned(analysis', s, bean'[NodeOf[r]])
  PROVE  RequestsOwned'
<1>1. request \in [Threads -> RequestState]  BY DEF Typing, TypeOK
<1>2. ASSUME NEW x \in Plain PROVE PlainOwned(analysis, request[x], FieldOf(x))'
  <2>1. NodeOf[x] \in Nodes /\ NodeOf[r] \in Nodes /\ x \in Threads /\ r \in Threads
    BY ThreadsOnNodes DEF Threads
  <2>2. CASE x = r  BY <1>1, <2>1, <2>2 DEF FieldOf, PlainOwned
  <2>3. CASE x # r
    <3>1. request'[x] = request[x] /\ bean'[NodeOf[x]] = bean[NodeOf[x]]
      BY <1>1, <2>1, <2>3 DEF Apart
    <3>2. PlainOwned(analysis, request[x], bean[NodeOf[x]])
      BY DEF RequestsOwned, FieldOf
    <3> QED BY <3>1, <3>2 DEF PlainOwned, AskedFor, Grows, FieldOf
  <2> QED BY <2>2, <2>3
<1>3. ASSUME NEW q \in Synth PROVE SynthOwned(analysis, request[q])'
  <2>1. request'[q] = request[q]  BY <1>1, ThreadsDiffer DEF Threads
  <2> QED BY <2>1 DEF RequestsOwned, SynthOwned, AskedFor, Grows
<1> QED BY <1>2, <1>3 DEF RequestsOwned

\* A step of a synthetic request, which leaves the plain service's fields.
LEMMA SynthKept ==
  ASSUME Typing, RequestsOwned, Grows, NEW q \in Synth,
         NEW s, request' = [request EXCEPT ![q] = s],
         \A m \in Nodes : /\ bean'[m].bugId = bean[m].bugId
                          /\ bean'[m].requestStatus = bean[m].requestStatus,
         SynthOwned(analysis', s)
  PROVE  RequestsOwned'
<1>1. request \in [Threads -> RequestState]  BY DEF Typing, TypeOK
<1>2. ASSUME NEW x \in Plain PROVE PlainOwned(analysis, request[x], FieldOf(x))'
  <2>1. request'[x] = request[x] /\ NodeOf[x] \in Nodes
    BY <1>1, ThreadsDiffer, ThreadsOnNodes DEF Threads
  <2> QED BY <2>1 DEF RequestsOwned, PlainOwned, AskedFor, Grows, FieldOf
<1>3. ASSUME NEW x \in Synth PROVE SynthOwned(analysis, request[x])'
  <2>1. request'[x] \in {s, request[x]} /\ (x = q => request'[x] = s)
        /\ (x # q => request'[x] = request[x])
    BY <1>1 DEF Threads
  <2> QED BY <2>1 DEF RequestsOwned, SynthOwned, AskedFor, Grows
<1> QED BY <1>2, <1>3 DEF RequestsOwned

\* Steps of others leave what requests hold.
LEMMA RequestsKept ==
  ASSUME RequestsOwned, Grows, UNCHANGED <<bean, request>>
  PROVE  RequestsOwned'
  BY DEF RequestsOwned, PlainOwned, SynthOwned, AskedFor, Grows, FieldOf

-----------------------------------------------------------------------------
\* The steps of a plain request.
LEMMA OwnedPlain ==
  ASSUME Apart, Owned, NEW r \in Plain, PlainNext(r)
  PROVE  Owned'
<1> DEFINE n == NodeOf[r]
<1>1. /\ Typing /\ RequestsOwned /\ ItemsOwned /\ OthersOwned /\ ResultOfItsBug
      /\ Typing'
  BY TypingPlain DEF Owned
<1>2. /\ n \in Nodes /\ r \in Threads /\ request[r] \in RequestState
      /\ bean \in [Nodes -> Bean] /\ bean[n] \in Bean
      /\ request \in [Threads -> RequestState]
      /\ analysis \in [Ids -> Analysis]
      /\ PlainStage(request[r], bean[n])
      /\ PlainOwned(analysis, request[r], bean[n])
  BY <1>1, ThreadsOnNodes DEF Threads, Typing, TypeOK, Stages, FieldOf, RequestsOwned
<1>4. CASE \E b \in Bugs \ Synthetic : PlainAccept(r, b)
  <2>1. PICK b \in Bugs \ Synthetic : PlainAccept(r, b)  BY <1>4
  <2>2. Grows  BY <2>1 DEF PlainAccept, docs, Grows
  <2> DEFINE s == [Idle EXCEPT !.at = "check", !.bug = b]
  <2>3. s.at = "check" /\ s.bug = b /\ s.id \notin Ids  BY NoneNotData DEF Idle
  <2>4. bean' = [bean EXCEPT ![n].bugId = b]  BY <2>1 DEF PlainAccept
  <2>5. /\ bean'[n].bugId = b
        /\ \A m \in Nodes : m # n => bean'[m] = bean[m]
    BY <1>2, <2>4 DEF Bean
  <2>6. PlainOwned(analysis', s, bean'[n])  BY <2>3, <2>5 DEF PlainOwned
  <2>7. RequestsOwned'  BY <1>1, <2>1, <2>2, <2>5, <2>6, PlainKept DEF PlainAccept
  <2> QED BY <1>1, <2>1, <2>2, <2>7, ItemsKept, OthersKept, ResultsKept
          DEF PlainAccept, docs, Owned
<1>5. CASE PlainCheck(r)
  <2>1. PICK x \in {"answer", "trigger"} :
          /\ request' = [request EXCEPT ![r] = [request[r] EXCEPT !.at = x]]
          /\ \/ x = "answer" /\ bean' = [bean EXCEPT ![n].requestStatus = "In Progress"]
             \/ x = "trigger" /\ bean' = bean
    BY <1>5 DEF PlainCheck, Go
  <2> DEFINE s == [request[r] EXCEPT !.at = x]
  <2>2. s.at = x /\ s.bug = request[r].bug /\ s.id = request[r].id
    BY <1>2 DEF RequestState
  <2>3. Grows  BY <1>5 DEF PlainCheck, docs, Grows
  <2>4. /\ bean'[n].bugId = bean[n].bugId
        /\ x = "answer" => bean'[n].requestStatus = "In Progress"
        /\ \A m \in Nodes : m # n => bean'[m] = bean[m]
    BY <1>2, <2>1 DEF Bean
  <2>5. request[r].id \notin Ids
    BY <1>2, <1>5 DEF PlainCheck, PlainOwned
  <2>6. PlainOwned(analysis', s, bean'[n])
    BY <1>2, <1>5, <2>2, <2>4, <2>5 DEF PlainOwned, PlainCheck, AskedFor
  <2>7. RequestsOwned'  BY <1>1, <2>1, <2>3, <2>4, <2>6, PlainKept
  <2> QED BY <1>1, <1>5, <2>3, <2>7, ItemsKept, OthersKept, ResultsKept
          DEF PlainCheck, docs, Owned
<1>6. CASE \E a \in Ids : PlainTrigger(r, a)
  <2>1. PICK a \in Ids : PlainTrigger(r, a)  BY <1>6
  <2> DEFINE s == [request[r] EXCEPT !.at = "tell", !.id = a]
  <2>2. s.at = "tell" /\ s.bug = request[r].bug /\ s.id = a
    BY <1>2 DEF RequestState
  <2>3. request' = [request EXCEPT ![r] = s]  BY <1>2, <2>1 DEF PlainTrigger
  <2>4. Grows /\ bean[n].bugId \in analysis'[a].about
    BY <1>2, <2>1, StartGrows DEF PlainTrigger, FieldOf
  <2>5. /\ bean'[n].bugId = bean[n].bugId
        /\ \A m \in Nodes : m # n => bean'[m] = bean[m]
    BY <1>2, <2>1 DEF PlainTrigger, Bean
  <2>6. bean[n].bugId = request[r].bug  BY <1>2, <2>1 DEF PlainTrigger, PlainOwned
  <2>7. PlainOwned(analysis', s, bean'[n])
    BY <2>2, <2>4, <2>5, <2>6 DEF PlainOwned, AskedFor
  <2>8. RequestsOwned'  BY <1>1, <2>3, <2>4, <2>5, <2>7, PlainKept
  <2> QED BY <1>1, <2>1, <2>4, <2>8, ItemsKept, OthersKept, ResultsKept
          DEF PlainTrigger, Owned
<1>7. CASE PlainRefused(r)
  <2> DEFINE s == [request[r] EXCEPT !.at = "save", !.id = NotValid]
  <2>1. request' = [request EXCEPT ![r] = s]  BY <1>2, <1>7 DEF PlainRefused
  <2>2. s.at = "save" /\ s.bug = request[r].bug /\ s.id = NotValid
    BY <1>2 DEF RequestState
  <2>3. Grows  BY <1>2, <1>7, RefusedTellsNone, NoneToldGrows DEF PlainRefused
  <2>4. /\ bean'[n].bugId = bean[n].bugId
        /\ bean'[n].requestStatus = "Invalid Request"
        /\ \A m \in Nodes : m # n => bean'[m] = bean[m]
    BY <1>2, <1>7 DEF PlainRefused, Bean
  <2>5. PlainOwned(analysis', s, bean'[n])
    BY <1>2, <1>7, <2>2, <2>4, NotValidIsNoId DEF PlainOwned, PlainRefused, AskedFor
  <2>6. RequestsOwned'  BY <1>1, <2>1, <2>3, <2>4, <2>5, PlainKept
  <2> QED BY <1>1, <1>7, <2>3, <2>6, ItemsKept, OthersKept, ResultsKept
          DEF PlainRefused, Owned
<1>8. CASE PlainTell(r) \/ PlainTellThrows(r)
  <2>1. /\ request[r].at = "tell"
        /\ shown' \in {shown, [shown EXCEPT ![bean[n].bugId] = request[r].id]}
        /\ UNCHANGED <<items, analysis, attached, filed, bean, filer, poller>>
    BY <1>8 DEF PlainTell, PlainTellThrows, FieldOf
  <2>2. Grows  BY <2>1 DEF Grows
  <2>3. request[r].id \in Ids /\ bean[n].bugId \in Bugs
    BY <1>2, <2>1 DEF PlainStage
  <2>4. AskedFor(analysis', bean[n].bugId, request[r].id)
    BY <1>2, <2>1 DEF PlainOwned, AskedFor
  <2>5. ResultOfItsBug'  BY <1>1, <2>1, <2>2, <2>3, <2>4, ShownOwned
  <2>6. PICK s \in {[request[r] EXCEPT !.at = "save"],
                    [request[r] EXCEPT !.at = "answer"], Idle} :
          request' = [request EXCEPT ![r] = s]
    BY <1>8 DEF PlainTell, PlainTellThrows, Go
  <2>7. /\ s.at \in {"idle", "save", "answer"}
        /\ s.at # "idle" => s.bug = request[r].bug /\ s.id = request[r].id
    BY <1>2, <2>6 DEF RequestState, Idle
  <2>8. PlainOwned(analysis', s, bean'[n])
    BY <1>2, <2>1, <2>7 DEF PlainOwned, AskedFor
  <2>9. RequestsOwned'  BY <1>1, <2>1, <2>2, <2>6, <2>8, PlainKept
  <2> QED BY <1>1, <2>1, <2>2, <2>5, <2>9, ItemsKept, OthersKept DEF Owned
<1>9. CASE PlainSave(r)
  <2> DEFINE s == [request[r] EXCEPT !.at = "answer"]
  <2>1. request' = [request EXCEPT ![r] = s]  BY <1>9 DEF PlainSave, Go
  <2>2. s.at = "answer" /\ s.bug = request[r].bug /\ s.id = request[r].id
    BY <1>2 DEF RequestState
  <2>3. Grows  BY <1>9 DEF PlainSave, Grows
  <2>4. AskedFor(analysis', bean[n].bugId, request[r].id)
    BY <1>2, <1>9 DEF PlainOwned, AskedFor, PlainSave
  <2>5. ItemsOwned'
    BY <1>1, <1>9, <2>3, <2>4, ItemsSaved DEF PlainSave, FieldOf
  <2>6. PlainOwned(analysis', s, bean'[n])
    BY <1>2, <1>9, <2>2 DEF PlainOwned, AskedFor, PlainSave
  <2>7. RequestsOwned'  BY <1>1, <1>9, <2>1, <2>3, <2>6, PlainKept DEF PlainSave
  <2> QED BY <1>1, <1>9, <2>3, <2>5, <2>7, OthersKept, ResultsKept DEF PlainSave, Owned
<1>10. CASE PlainAnswer(r)
  <2>1. Grows  BY <1>10 DEF PlainAnswer, docs, Grows
  <2>2. PlainOwned(analysis', Idle, bean'[n])  BY DEF PlainOwned, Idle
  <2>3. RequestsOwned'  BY <1>1, <1>10, <2>1, <2>2, PlainKept DEF PlainAnswer
  <2> QED BY <1>1, <1>10, <2>1, <2>3, ItemsKept, OthersKept, ResultsKept
          DEF PlainAnswer, docs, Owned
<1> QED BY <1>4, <1>5, <1>6, <1>7, <1>8, <1>9, <1>10 DEF PlainNext

\* The steps of a synthetic request that touch no document, in which it gets
\* hold of no id.
SynthFieldStep(q) ==
  \/ \E b \in Synthetic \cup {None} : SynthAccept(q, b)
  \/ SynthCollect(q)
  \/ SynthFound(q)
  \/ SynthCollectThrows(q)
  \/ SynthCheck(q)
  \/ \E S \in SUBSET Synthetic : SynthCollectHour(q, S)
  \/ \E b \in Synthetic : SynthDedup(q, b)
  \/ SynthBatch(q)
  \/ SynthLoop(q)
  \/ \E b \in Synthetic : SynthRefused(q, b)
  \/ SynthDone(q)

\* They leave the plain service's fields and the other requests.
LEMMA SynthFieldFrame ==
  ASSUME Typing, NEW q \in Synth, SynthFieldStep(q)
  PROVE  /\ NoneTold
         /\ UNCHANGED <<items, shown, attached, filed, filer, poller>>
         /\ \A m \in Nodes : /\ bean'[m].bugId = bean[m].bugId
                             /\ bean'[m].requestStatus = bean[m].requestStatus
         /\ request' = [request EXCEPT ![q] = request'[q]]
         /\ request'[q].at \notin {"tell", "save"}
<1> DEFINE n == NodeOf[q]
<1>1. /\ request[q] \in RequestState /\ request \in [Threads -> RequestState]
      /\ bean \in [Nodes -> Bean] /\ q \in Threads /\ n \in Nodes
  BY ThreadsOnNodes DEF Typing, TypeOK, Threads
<1>2. UNCHANGED <<items, shown, attached, filed, filer, poller>>
  BY DEF SynthFieldStep, SynthAccept, SynthCollect, SynthFound, SynthCollectThrows,
     SynthCheck, SynthCollectHour, SynthDedup, SynthBatch, SynthLoop,
     SynthRefused, SynthDone, docs
<1>6. NoneTold
  <2>1. analysis \in [Ids -> Analysis]  BY DEF Typing, TypeOK
  <2>2. CASE \E b \in Synthetic : SynthRefused(q, b)
    BY <2>1, <2>2, RefusedTellsNone DEF SynthRefused
  <2>3. CASE ~\E b \in Synthetic : SynthRefused(q, b)
    <3>1. UNCHANGED analysis
      BY <2>3 DEF SynthFieldStep, SynthAccept, SynthCollect, SynthFound,
         SynthCollectThrows, SynthCheck, SynthCollectHour, SynthDedup, SynthBatch,
         SynthLoop, SynthDone, docs
    <3> QED BY <3>1, SameTellsNone
  <2> QED BY <2>2, <2>3
<1>3. \/ \E x : bean' = [bean EXCEPT ![n].inputBugId = x]
      \/ \E x : bean' = [bean EXCEPT ![n].bugs = x]
      \/ \E x : bean' = [bean EXCEPT ![n].bugList = x]
      \/ bean' = bean
  BY DEF SynthFieldStep, SynthAccept, SynthCollect, SynthFound, SynthCollectThrows,
     SynthCheck, SynthCollectHour, SynthDedup, SynthBatch, SynthLoop,
     SynthRefused, SynthDone
<1>4. \A m \in Nodes : /\ bean'[m].bugId = bean[m].bugId
                       /\ bean'[m].requestStatus = bean[m].requestStatus
  <2> SUFFICES ASSUME NEW m \in Nodes
               PROVE  /\ bean'[m].bugId = bean[m].bugId
                      /\ bean'[m].requestStatus = bean[m].requestStatus
    OBVIOUS
  <2>1. bean[m] \in Bean  BY <1>1
  <2>2. PICK x : bean'[m] \in {bean[m], [bean[m] EXCEPT !.inputBugId = x],
                               [bean[m] EXCEPT !.bugs = x],
                               [bean[m] EXCEPT !.bugList = x]}
    BY <1>1, <1>3
  <2> QED BY <2>1, <2>2 DEF Bean
<1> DEFINE Lands == /\ request' = [request EXCEPT ![q] = request'[q]]
                    /\ request'[q].at \notin {"tell", "save"}
<1>5. Lands
  <2>1. ASSUME NEW x, x \notin {"tell", "save"},
               request' = [request EXCEPT ![q].at = x]
        PROVE  Lands
    BY <1>1, <2>1 DEF RequestState
  <2>2. ASSUME NEW x, x \notin {"tell", "save"}, NEW y,
               \/ request' = [request EXCEPT ![q] =
                     [@ EXCEPT !.at = x, !.bug = y]]
               \/ request' = [request EXCEPT ![q] =
                     [@ EXCEPT !.at = x, !.todo = y]]
        PROVE  Lands
    BY <1>1, <2>2 DEF RequestState
  <2>3. ASSUME NEW x, x \notin {"tell", "save"},
               request' = [request EXCEPT ![q] = [Idle EXCEPT !.at = x]]
        PROVE  Lands
    BY <1>1, <2>3 DEF Idle
  <2>4. CASE \E b \in Synthetic \cup {None} : SynthAccept(q, b)
    BY <2>1, <2>4 DEF SynthAccept
  <2>5. CASE SynthCollect(q)  BY <2>2, <2>5 DEF SynthCollect
  <2>6. CASE SynthFound(q)  BY <2>3, <2>6 DEF SynthFound
  <2>7. CASE SynthCollectThrows(q)  BY <2>3, <2>7 DEF SynthCollectThrows
  <2>8. CASE SynthCheck(q)  BY <2>1, <2>8 DEF SynthCheck, Go
  <2>9. CASE \E S \in SUBSET Synthetic : SynthCollectHour(q, S)
    BY <2>2, <2>9 DEF SynthCollectHour
  <2>10. CASE \E b \in Synthetic : SynthDedup(q, b)
    <3>1. PICK b \in Synthetic : SynthDedup(q, b)  BY <2>10
    <3>2. PICK y, z : request' = [request EXCEPT ![q] =
          [@ EXCEPT !.todo = y, !.kept = z]]
      BY <3>1 DEF SynthDedup
    <3>3. request[q].at = "dedup"  BY <3>1 DEF SynthDedup
    <3> QED BY <1>1, <3>2, <3>3 DEF RequestState
  <2>11. CASE SynthBatch(q)
    <3> DEFINE s == [Idle EXCEPT !.at = "loop", !.todo = {}]
    <3>1. \/ request' = [request EXCEPT ![q] = [Idle EXCEPT !.at = "loop"]]
          \/ request' = [request EXCEPT ![q].at = "idle"]
      BY <2>11 DEF SynthBatch, Go
    <3> QED BY <2>1, <2>3, <3>1
  <2>12. CASE SynthLoop(q)  BY <2>2, <2>12 DEF SynthLoop
  <2>13. CASE \E b \in Synthetic : SynthRefused(q, b)
    <3>1. PICK b \in Synthetic : SynthRefused(q, b)  BY <2>13
    <3>2. PICK y : request' = [request EXCEPT ![q].todo = y]
      BY <3>1 DEF SynthRefused
    <3>3. request[q].at = "trigger"  BY <3>1 DEF SynthRefused
    <3> QED BY <1>1, <3>2, <3>3 DEF RequestState
  <2>14. CASE SynthDone(q)  BY <2>1, <2>14 DEF SynthDone, Go
  <2> QED BY <2>4, <2>5, <2>6, <2>7, <2>8, <2>9, <2>10, <2>11, <2>12, <2>13, <2>14
          DEF SynthFieldStep
<1> QED BY <1>2, <1>4, <1>5, <1>6

\* The steps of a synthetic request.
LEMMA OwnedSynth ==
  ASSUME Owned, NEW q \in Synth, SynthNext(q)
  PROVE  Owned'
<1>1. /\ Typing /\ RequestsOwned /\ ItemsOwned /\ OthersOwned /\ ResultOfItsBug
      /\ Typing'
  BY TypingSynth DEF Owned
<1>2. /\ request[q] \in RequestState /\ request \in [Threads -> RequestState]
      /\ analysis \in [Ids -> Analysis] /\ q \in Threads
      /\ SynthStage(request[q]) /\ SynthOwned(analysis, request[q])
  BY <1>1 DEF Typing, TypeOK, Threads, Stages, RequestsOwned
<1>3. CASE SynthFieldStep(q)
  <2>1. /\ NoneTold
        /\ UNCHANGED <<items, shown, attached, filed, filer, poller>>
        /\ \A m \in Nodes : /\ bean'[m].bugId = bean[m].bugId
                            /\ bean'[m].requestStatus = bean[m].requestStatus
        /\ request' = [request EXCEPT ![q] = request'[q]]
        /\ request'[q].at \notin {"tell", "save"}
    BY <1>1, <1>3, SynthFieldFrame
  <2>2. Grows  BY <2>1, NoneToldGrows
  <2>3. SynthOwned(analysis', request'[q])  BY <2>1 DEF SynthOwned
  <2>4. RequestsOwned'  BY <1>1, <2>1, <2>2, <2>3, SynthKept
  <2>5. items' = items /\ shown' = shown /\ attached' = attached  BY <2>1
  <2> QED BY <1>1, <2>1, <2>2, <2>4, <2>5, ItemsKept, OthersKept, ResultsKept DEF Owned
<1>4. CASE \E b \in Synthetic, a \in Ids : SynthTrigger(q, b, a)
  <2>1. PICK b \in Synthetic, a \in Ids : SynthTrigger(q, b, a)  BY <1>4
  <2> DEFINE s == [request[q] EXCEPT !.at = "tell", !.todo = @ \ {b},
                                     !.bug = b, !.id = a]
  <2>2. s.bug = b /\ s.id = a  BY <1>2 DEF RequestState
  <2>3. request' = [request EXCEPT ![q] = s]  BY <1>2, <2>1 DEF SynthTrigger
  <2>4. Grows /\ b \in analysis'[a].about
    BY <1>2, <2>1, StartGrows DEF SynthTrigger
  <2>5. SynthOwned(analysis', s)  BY <2>2, <2>4 DEF SynthOwned, AskedFor
  <2>6. RequestsOwned'  BY <1>1, <2>1, <2>3, <2>4, <2>5, SynthKept DEF SynthTrigger
  <2> QED BY <1>1, <2>1, <2>4, <2>6, ItemsKept, OthersKept, ResultsKept
          DEF SynthTrigger, Owned
<1>5. CASE SynthTell(q) \/ SynthTellThrows(q)
  <2>1. /\ request[q].at = "tell"
        /\ shown' \in {shown, [shown EXCEPT ![request[q].bug] = request[q].id]}
        /\ UNCHANGED <<items, analysis, attached, filed, bean, filer, poller>>
    BY <1>5 DEF SynthTell, SynthTellThrows
  <2>2. Grows  BY <2>1 DEF Grows
  <2>3. /\ request[q].bug \in Bugs /\ request[q].id \in Ids
        /\ AskedFor(analysis', request[q].bug, request[q].id)
    BY <1>2, <2>1 DEF SynthStage, SynthOwned, AskedFor
  <2>4. ResultOfItsBug'  BY <1>1, <2>1, <2>2, <2>3, ShownOwned
  <2>5. PICK s \in {[request[q] EXCEPT !.at = "save"], Idle} :
          request' = [request EXCEPT ![q] = s]
    BY <1>5 DEF SynthTell, SynthTellThrows, Go
  <2>6. SynthOwned(analysis', s)
    BY <1>2, <2>3, <2>5 DEF SynthOwned, RequestState, Idle
  <2>7. RequestsOwned'  BY <1>1, <2>1, <2>2, <2>5, <2>6, SynthKept
  <2> QED BY <1>1, <2>1, <2>2, <2>4, <2>7, ItemsKept, OthersKept DEF Owned
<1>6. CASE SynthSave(q)
  <2> DEFINE s == [Idle EXCEPT !.at = "trigger", !.todo = request[q].todo]
  <2>1. Grows  BY <1>6 DEF SynthSave, Grows
  <2>2. AskedFor(analysis', request[q].bug, request[q].id)
    BY <1>2, <1>6 DEF SynthSave, SynthOwned
  <2>3. ItemsOwned'  BY <1>1, <1>6, <2>1, <2>2, ItemsSaved DEF SynthSave
  <2>4. SynthOwned(analysis', s)  BY DEF SynthOwned, Idle
  <2>5. RequestsOwned'  BY <1>1, <1>6, <2>1, <2>4, SynthKept DEF SynthSave
  <2> QED BY <1>1, <1>6, <2>1, <2>3, <2>5, OthersKept, ResultsKept DEF SynthSave, Owned
<1> QED BY <1>3, <1>4, <1>5, <1>6 DEF SynthNext, SynthFieldStep

\* Filing: a bug is one more bug the bucket's analysis is about, and only
\* then shows its id and gets its item.
LEMMA OwnedFiler ==
  ASSUME Owned, NEW f \in Filers, FilerNext(f)
  PROVE  Owned'
<1>1. /\ Typing /\ RequestsOwned /\ ItemsOwned /\ OthersOwned /\ ResultOfItsBug
      /\ Typing'
  BY TypingFiler DEF Owned
<1>2. /\ filer \in [Filers -> Entry \cup {None}] /\ analysis \in [Ids -> Analysis]
      /\ shown \in [Bugs -> Ids \cup {None}]
  BY <1>1 DEF Typing, TypeOK
<1>3. CASE \E b \in Synthetic, a \in Ids \cup {NotValid, None} : FileBug(f, b, a)
  <2>1. PICK b \in Synthetic, a \in Ids \cup {NotValid, None} : FileBug(f, b, a)
    BY <1>3
  <2>2. Grows /\ AskedFor(analysis', b, a)
    BY <1>2, <2>1 DEF FileBug, Grows, AskedFor, Analysis
  <2>3. UNCHANGED <<items, attached, bean, request, poller>>  BY <2>1 DEF FileBug
  <2>4. ResultOfItsBug'
    <3>1. CASE a \in Ids
      BY <1>1, <2>1, <2>2, <2>3, <3>1, ShownOwned, SyntheticBugs DEF FileBug
    <3>2. CASE a \notin Ids  BY <1>1, <2>1, <2>2, <2>3, <3>2, ResultsKept DEF FileBug
    <3> QED BY <3>1, <3>2
  <2>5. OthersOwned'
    <3>1. ASSUME NEW g \in Filers, filer'[g] # None
          PROVE  AskedFor(analysis', filer'[g].bug, filer'[g].id)
      <4>1. CASE g = f
        <5>1. filer'[g] = [bug |-> b, id |-> a]  BY <1>2, <2>1, <3>1, <4>1 DEF FileBug
        <5> QED BY <2>2, <5>1
      <4>2. CASE g # f
        <5>1. filer'[g] = filer[g]  BY <1>2, <2>1, <4>2 DEF FileBug
        <5> QED BY <1>1, <2>2, <3>1, <5>1 DEF OthersOwned, AskedFor, Grows
      <4> QED BY <4>1, <4>2
    <3>2. \A p \in Pollers : \A e \in poller'[p].list : AskedFor(analysis', e.bug, e.id)
      BY <1>1, <2>2, <2>3 DEF OthersOwned, AskedFor, Grows
    <3> QED BY <3>1, <3>2 DEF OthersOwned
  <2> QED BY <1>1, <2>2, <2>3, <2>4, <2>5, ItemsKept, RequestsKept DEF Owned
<1>4. CASE FileItem(f)
  <2>1. Grows /\ AskedFor(analysis', filer[f].bug, filer[f].id)
    BY <1>1, <1>4 DEF FileItem, Grows, OthersOwned
  <2>2. ItemsOwned'  BY <1>1, <1>4, <2>1, ItemsSaved DEF FileItem
  <2>3. OthersOwned'  BY <1>1, <1>2, <1>4 DEF FileItem, OthersOwned
  <2> QED BY <1>1, <1>4, <2>1, <2>2, <2>3, RequestsKept, ResultsKept
          DEF FileItem, Owned
<1> QED BY <1>3, <1>4 DEF FilerNext

\* The poller: its list is of owned items, and so is what it attaches.
LEMMA OwnedPoller ==
  ASSUME Owned, NEW p \in Pollers, PollerNext(p)
  PROVE  Owned'
<1>1. /\ Typing /\ RequestsOwned /\ ItemsOwned /\ OthersOwned /\ ResultOfItsBug
      /\ Typing'
  BY TypingPoller DEF Owned
<1>2. /\ poller \in [Pollers -> PollerState] /\ items \in Seq(Item)
      /\ attached \in [Bugs \X Ids -> 0 .. 2]
  BY <1>1 DEF Typing, TypeOK
<1>3. UNCHANGED <<analysis, shown, filed, bean, request, filer>>
  BY DEF PollerNext, PollerStart, PollerSkip, PollerAttach, PollerComment,
     PollerMark, PollerEnd, docs
<1>4. Grows /\ RequestsOwned'  BY <1>1, <1>3, RequestsKept DEF Grows
<1>5. ASSUME NEW l, \A e \in l : AskedFor(analysis, e.bug, e.id),
             poller' = [poller EXCEPT ![p] = poller'[p]], poller'[p].list = l
      PROVE  OthersOwned'
  <2>1. ASSUME NEW x \in Pollers, NEW e \in poller'[x].list
        PROVE  AskedFor(analysis, e.bug, e.id)
    <3>1. CASE x = p  BY <1>5, <2>1, <3>1
    <3>2. CASE x # p
      <4>1. poller'[x] = poller[x]  BY <1>2, <1>5, <3>2
      <4> QED BY <1>1, <2>1, <4>1 DEF OthersOwned
    <3> QED BY <3>1, <3>2
  <2> QED BY <1>1, <1>3, <2>1 DEF OthersOwned
<1>6. poller[p] \in PollerState /\ \A e \in poller[p].list : AskedFor(analysis, e.bug, e.id)
  BY <1>1, <1>2 DEF OthersOwned
<1>7. CASE PollerStart(p)
  <2>1. \A e \in Triggered : AskedFor(analysis, e.bug, e.id)
    <3> SUFFICES ASSUME NEW e \in Triggered PROVE AskedFor(analysis, e.bug, e.id)
      OBVIOUS
    <3>1. PICK i \in DOMAIN items : e = [bug |-> items[i].bug, id |-> items[i].id]
      BY DEF Triggered
    <3>2. e.bug = items[i].bug /\ e.id = items[i].id  BY <3>1
    <3> QED BY <1>1, <3>2 DEF ItemsOwned
  <2>2. poller'[p].list = Triggered /\ poller' = [poller EXCEPT ![p] = poller'[p]]
    BY <1>2, <1>6, <1>7 DEF PollerStart, PollerState
  <2>3. OthersOwned'  BY <1>5, <2>1, <2>2
  <2> QED BY <1>1, <1>4, <1>7, <2>3, ItemsKept, ResultsKept DEF PollerStart, docs, Owned
<1>8. CASE \E e \in Entry : PollerSkip(p, e)
  <2>1. PICK e \in Entry : PollerSkip(p, e)  BY <1>8
  <2>2. /\ poller'[p].list = poller[p].list \ {e}
        /\ poller' = [poller EXCEPT ![p] = poller'[p]]
    BY <1>2, <1>6, <2>1 DEF PollerSkip, PollerState
  <2>3. OthersOwned'  BY <1>5, <1>6, <2>2
  <2> QED BY <1>1, <1>4, <2>1, <2>3, ItemsKept, ResultsKept DEF PollerSkip, docs, Owned
<1>9. CASE \E e \in Entry : PollerAttach(p, e)
  <2>1. PICK e \in Entry : PollerAttach(p, e)  BY <1>9
  <2>2. /\ poller'[p].list = poller[p].list \ {e}
        /\ poller' = [poller EXCEPT ![p] = poller'[p]]
    BY <1>2, <1>6, <2>1 DEF PollerAttach, PollerState
  <2>3. OthersOwned'  BY <1>5, <1>6, <2>2
  <2>4. e.id \in Ids /\ e.bug \in analysis[e.id].about
    BY <1>6, <2>1 DEF PollerAttach, HasResult, AskedFor
  <2>5. ResultOfItsBug'
    <3>1. \A b \in Bugs, a \in Ids :
            attached'[<<b, a>>] > 0 => b \in analysis'[a].about
      <4> SUFFICES ASSUME NEW b \in Bugs, NEW a \in Ids, attached'[<<b, a>>] > 0
                   PROVE  b \in analysis[a].about
        BY <1>3
      <4>1. CASE b = e.bug /\ a = e.id  BY <2>4, <4>1
      <4>2. CASE ~(b = e.bug /\ a = e.id)
        <5>1. <<b, a>> # <<e.bug, e.id>>  BY <4>2
        <5>2. <<b, a>> \in Bugs \X Ids  OBVIOUS
        <5>3. attached'[<<b, a>>] = attached[<<b, a>>]
          BY <1>2, <2>1, <5>1, <5>2 DEF PollerAttach, Attach
        <5> QED BY <1>1, <5>3 DEF ResultOfItsBug
      <4> QED BY <4>1, <4>2
    <3> QED BY <1>1, <1>3, <3>1 DEF ResultOfItsBug
  <2> QED BY <1>1, <1>4, <2>1, <2>3, <2>5, ItemsKept DEF PollerAttach, Owned
<1>10. CASE PollerComment(p)
  <2>1. /\ poller'[p].list = poller[p].list
        /\ poller' = [poller EXCEPT ![p] = poller'[p]]
    BY <1>2, <1>6, <1>10 DEF PollerComment, PollerState
  <2>2. OthersOwned'  BY <1>5, <1>6, <2>1
  <2> QED BY <1>1, <1>4, <1>10, <2>2, ItemsKept, ResultsKept
          DEF PollerComment, docs, Owned
<1>11. CASE PollerMark(p)
  <2>1. /\ poller'[p].list = poller[p].list
        /\ poller' = [poller EXCEPT ![p] = poller'[p]]
    BY <1>2, <1>6, <1>11 DEF PollerMark, PollerState
  <2>2. OthersOwned'  BY <1>5, <1>6, <2>1
  <2>3. ItemsOwned'
    <3>1. \A i \in DOMAIN items : items[i] \in Item  BY <1>2
    <3>2. \A i \in DOMAIN items :
            items'[i].bug = items[i].bug /\ items'[i].id = items[i].id
      BY <1>11, <3>1 DEF PollerMark, MarkCompleted, Item
    <3>3. DOMAIN items' = DOMAIN items  BY <1>11 DEF PollerMark, MarkCompleted
    <3> QED BY <1>1, <1>3, <3>2, <3>3 DEF ItemsOwned
  <2> QED BY <1>1, <1>4, <1>11, <2>2, <2>3, ResultsKept DEF PollerMark, Owned
<1>12. CASE PollerEnd(p)
  <2>1. /\ poller'[p].list = {}
        /\ poller' = [poller EXCEPT ![p] = poller'[p]]
    BY <1>2, <1>12 DEF PollerEnd, IdlePoller
  <2>2. OthersOwned'  BY <1>5, <2>1
  <2> QED BY <1>1, <1>4, <1>12, <2>2, ItemsKept, ResultsKept DEF PollerEnd, docs, Owned
<1> QED BY <1>7, <1>8, <1>9, <1>10, <1>11, <1>12 DEF PollerNext

\* JN's own steps, a crash and a stutter.
LEMMA OwnedOther ==
  ASSUME Apart, Owned,
         (\E a \in Ids : JNEnds(a)) \/ (\E n \in Nodes : Crash(n)) \/ UNCHANGED vars
  PROVE  Owned'
<1>1. /\ Typing /\ RequestsOwned /\ ItemsOwned /\ OthersOwned /\ ResultOfItsBug
      /\ Typing'
  BY TypingOther DEF Owned
<1>2. CASE \E a \in Ids : JNEnds(a)
  <2>1. Grows  BY <1>1, <1>2 DEF JNEnds, Grows, Typing, TypeOK, Analysis
  <2>2. UNCHANGED <<items, shown, attached, bean, request, filer, poller>>
    BY <1>2 DEF JNEnds
  <2> QED BY <1>1, <2>1, <2>2, ItemsKept, OthersKept, ResultsKept, RequestsKept DEF Owned
<1>3. CASE \E n \in Nodes : Crash(n)
  <2>1. PICK n \in Nodes : Crash(n)  BY <1>3
  <2>2. UNCHANGED <<items, analysis, shown, attached, filed>>  BY <2>1 DEF Crash, docs
  <2>3. OthersOwned'  BY <1>1, <2>1, <2>2 DEF Crash, OthersOwned, IdlePoller
  <2>4. RequestsOwned'
    <3>1. bean \in [Nodes -> Bean]  BY <1>1 DEF Typing, TypeOK
    <3>2. ASSUME NEW t \in Threads
          PROVE  \/ request'[t] = Idle
                 \/ request'[t] = request[t] /\ bean'[NodeOf[t]] = bean[NodeOf[t]]
      <4>1. NodeOf[t] \in Nodes  BY ThreadsOnNodes DEF Threads
      <4> QED BY <2>1, <3>1, <4>1 DEF Crash
    <3>3. ASSUME NEW r \in Plain PROVE PlainOwned(analysis', request'[r], bean'[NodeOf[r]])
      <4>1. CASE request'[r] = Idle  BY <4>1 DEF PlainOwned, Idle
      <4>2. CASE request'[r] # Idle
        BY <1>1, <2>2, <3>2, <4>2 DEF RequestsOwned, FieldOf, Threads
      <4> QED BY <4>1, <4>2
    <3>4. ASSUME NEW q \in Synth PROVE SynthOwned(analysis', request'[q])
      <4>1. CASE request'[q] = Idle  BY <4>1 DEF SynthOwned, Idle
      <4>2. CASE request'[q] # Idle
        BY <1>1, <2>2, <3>2, <4>2 DEF RequestsOwned, Threads
      <4> QED BY <4>1, <4>2
    <3> QED BY <3>3, <3>4 DEF RequestsOwned, FieldOf
  <2> QED BY <1>1, <2>2, <2>3, <2>4 DEF ItemsOwned, ResultOfItsBug, Owned
<1>4. CASE UNCHANGED vars
  <2>1. Grows  BY <1>4 DEF vars, docs, Grows
  <2> QED BY <1>1, <1>4, <2>1, ItemsKept, OthersKept, ResultsKept, RequestsKept
          DEF vars, docs, Owned
<1> QED BY <1>2, <1>3, <1>4

\* Every step keeps it.
LEMMA OwnedNext == ASSUME Apart, Owned, [Next]_vars PROVE Owned'
  BY OwnedPlain, OwnedSynth, OwnedFiler, OwnedPoller, OwnedOther DEF Next

\* A result is attached only to a bug JN was asked about, and the id Chiron
\* shows for a bug is one of an analysis of that bug, whatever fails and
\* however the threads interleave, as long as a node works on one request
\* for a plain bug at a time.
THEOREM ResultsOfTheirBugs == ASSUME Apart PROVE Spec => []ResultOfItsBug
<1>1. Init => Owned  BY OwnedInit
<1>2. Owned /\ [Next]_vars => Owned'  BY OwnedNext
<1>3. Owned => ResultOfItsBug  BY DEF Owned
<1> QED BY <1>1, <1>2, <1>3, PTL DEF Spec

\* Under the same condition, "Triggered" is answered only to the request that
\* had JN start an analysis of its bug.
THEOREM TriggeredAsAsked == ASSUME Apart PROVE Spec => AnsweredAsAsked
<1>1. Init => Owned  BY OwnedInit
<1>2. Owned /\ [Next]_vars => Owned'  BY OwnedNext
<1>3. Owned /\ [Next]_vars =>
        [\A r \in Plain :
           PlainAnswer(r) /\ FieldOf(r).requestStatus = "Triggered"
           => /\ request[r].id \in Ids
              /\ request[r].bug \in analysis[request[r].id].about]_vars
  BY DEF Owned, RequestsOwned, PlainOwned, PlainAnswer, AskedFor
<1> QED BY <1>1, <1>2, <1>3, PTL DEF Spec, AnsweredAsAsked
-----------------------------------------------------------------------------
(***************************************************************************)
(* Attached once.  A pair of a bug and an analysis comes to the collection *)
(* once: the id of a request is its own, and a bug is filed once, even if  *)
(* its bucket's analysis is another bucket's too.  With one poller, which  *)
(* does not stop between the attachment and its mark, a pair whose result  *)
(* is attached is no longer on a list.                                     *)
(***************************************************************************)
OnePoller == \A p, q \in Pollers : p = q

\* No failure comes between an attachment and the mark for it.
Marked == Faults \cap {"chironThrows", "crash"} = {}

\* Document i is of bug b and analysis a.
Is(i, b, a) == items[i].bug = b /\ items[i].id = a

\* The pair has come to the collection.
Booked(b, a) ==
  \/ attached[<<b, a>>] > 0
  \/ \E i \in DOMAIN items : Is(i, b, a)
  \/ \E p \in Pollers : [bug |-> b, id |-> a] \in poller[p].list

\* A request has been given the id and has not saved it.
Carries(t, a) == request[t].at \in {"tell", "save"} /\ request[t].id = a

ItemsOnce ==
  \A b \in Bugs, a \in Ids : \A i, j \in DOMAIN items :
    Is(i, b, a) /\ Is(j, b, a) => i = j

RequestsOnce ==
  \A t \in Threads, a \in Ids : Carries(t, a) =>
    /\ a \notin Unused
    /\ ~analysis[a].bucket
    /\ \A b \in Bugs : ~Booked(b, a)
    /\ \A s \in Threads : Carries(s, a) => s = t

FilersOnce ==
  \A f \in Filers, b \in Bugs, a \in Ids : filer[f] = [bug |-> b, id |-> a] =>
    /\ a \notin Unused
    /\ analysis[a].bucket
    /\ b \in filed
    /\ ~Booked(b, a)
    /\ \A g \in Filers : filer[g] = filer[f] => g = f

\* What has not been asked for is not booked: no bug for an unused id, and
\* for a bucket's id no bug that is not filed.
NoneAhead ==
  \A b \in Bugs, a \in Ids :
    a \in Unused \/ (analysis[a].bucket /\ b \notin filed) => ~Booked(b, a)

ListsDue ==
  \A p \in Pollers, b \in Bugs, a \in Ids :
    [bug |-> b, id |-> a] \in poller[p].list => attached[<<b, a>>] = 0

\* An item whose result is attached is still In Progress only while the
\* poller is on its way to mark it.
ItemsDue ==
  \A i \in DOMAIN items : \A b \in Bugs, a \in Ids :
    items[i] = InProgress(b, a) /\ attached[<<b, a>>] > 0
      => \E p \in Pollers : poller[p].at \in {"comment", "mark"} /\ poller[p].bug = b

BookedOnce == ItemsOnce /\ RequestsOnce /\ FilersOnce /\ NoneAhead
Once == Typing /\ BookedOnce /\ ListsDue /\ ItemsDue /\ AttachedOnce

\* At the start nothing is booked.
LEMMA OnceInit == Init => Once
<1> SUFFICES ASSUME Init PROVE Once  OBVIOUS
<1>1. \A b \in Bugs, a \in Ids : ~Booked(b, a)
  BY DEF Init, Booked, IdlePoller
<1>2. ItemsOnce /\ NoneAhead  BY <1>1 DEF Init, ItemsOnce, NoneAhead
<1>3. RequestsOnce  BY DEF Init, RequestsOnce, Carries, Idle
<1>4. FilersOnce
  <2>1. \A b \in Bugs, a \in Ids : [bug |-> b, id |-> a] \in Entry  BY DEF Entry
  <2>2. \A f \in Filers : filer[f] = None  BY DEF Init
  <2> SUFFICES ASSUME NEW f \in Filers, NEW b \in Bugs, NEW a \in Ids,
                      filer[f] = [bug |-> b, id |-> a]
               PROVE  FALSE
    BY DEF FilersOnce
  <2> QED BY <2>1, <2>2, NoneNoEntry
<1>5. ListsDue /\ ItemsDue /\ AttachedOnce
  BY DEF Init, ListsDue, ItemsDue, AttachedOnce, IdlePoller
<1> QED BY TypingInit, <1>2, <1>3, <1>4, <1>5 DEF Once, BookedOnce
\* What an item In Progress says, and says after a step.
LEMMA EntryFields ==
  \A b, a : /\ InProgress(b, a).bug = b
            /\ InProgress(b, a).id = a
            /\ InProgress(b, a).status # "Completed"
<1>1. \A b, a : /\ InProgress(b, a).bug = b
                /\ InProgress(b, a).id = a
                /\ InProgress(b, a).status = "In Progress"
  BY DEF InProgress
<1> QED BY <1>1

LEMMA EntryFixed == \A b, a : InProgress(b, a)' = InProgress(b, a)
  BY DEF InProgress

\* An item is Completed or In Progress.
LEMMA ItemEither ==
  ASSUME items \in Seq(Item), NEW i \in DOMAIN items
  PROVE  /\ items[i].bug \in Bugs /\ items[i].id \in Ids \cup {NotValid}
         /\ items[i].status = "Completed" \/ items[i] = InProgress(items[i].bug, items[i].id)
<1>1. items[i] \in Item  OBVIOUS
<1>2. /\ items[i].bug \in Bugs /\ items[i].id \in Ids \cup {NotValid}
      /\ items[i].status \in {"In Progress", "Completed"}
  BY <1>1 DEF Item
<1>3. ASSUME items[i].status = "In Progress"
      PROVE  items[i] = InProgress(items[i].bug, items[i].id)
  BY <1>1, <1>3 DEF Item, InProgress
<1> QED BY <1>2, <1>3

\* What has come to the collection stays the same when documents and lists do.
LEMMA BookedSame ==
  ASSUME UNCHANGED <<items, attached, poller>>
  PROVE  \A b \in Bugs, a \in Ids : Booked(b, a)' <=> Booked(b, a)
  BY DEF Booked, Is

\* What the lists and the items owe when documents and lists stay the same.
LEMMA DueSame ==
  ASSUME ListsDue, ItemsDue, AttachedOnce, UNCHANGED <<items, attached, poller>>
  PROVE  ListsDue' /\ ItemsDue' /\ AttachedOnce'
<1>1. items' = items /\ attached' = attached /\ poller' = poller  OBVIOUS
<1>2. ListsDue' /\ AttachedOnce'  BY <1>1 DEF ListsDue, AttachedOnce
<1>3. ItemsDue'  BY <1>1, EntryFixed DEF ItemsDue
<1> QED BY <1>2, <1>3

\* A saved item is new or takes the place of one of the bug's.
LEMMA Saved ==
  ASSUME items \in Seq(Item), NEW b \in Bugs, NEW a \in Ids \cup {NotValid},
         Upsert(b, a) \/ Insert(b, a)
  PROVE  \E k : /\ k \in DOMAIN items' => items'[k] = InProgress(b, a)
                /\ \A i \in DOMAIN items' :
                     i # k => i \in DOMAIN items /\ items'[i] = items[i]
<1>1. PICK n \in Nat : n = Len(items) /\ DOMAIN items = 1 .. n  OBVIOUS
<1>2. CASE items' = Append(items, InProgress(b, a))
  <2>1. /\ items'[n + 1] = InProgress(b, a) /\ DOMAIN items' = 1 .. n + 1
        /\ \A i \in 1 .. n : items'[i] = items[i]
    BY <1>1, <1>2
  <2> WITNESS n + 1
  <2> QED BY <1>1, <2>1
<1>3. CASE items' = [i \in DOMAIN items |->
                       IF FirstOf(b, i) THEN InProgress(b, a) ELSE items[i]]
  <2>1. CASE \E k \in DOMAIN items : FirstOf(b, k)
    <3>1. PICK k \in DOMAIN items : FirstOf(b, k)  BY <2>1
    <3>2. \A i \in DOMAIN items : FirstOf(b, i) => i = k
      BY <1>1, <3>1 DEF FirstOf
    <3> WITNESS k
    <3> QED BY <1>3, <3>1, <3>2
  <2>2. CASE \A k \in DOMAIN items : ~FirstOf(b, k)
    <3>1. 0 \notin DOMAIN items'  BY <1>1, <1>3
    <3> WITNESS 0
    <3> QED BY <1>3, <2>2, <3>1
  <2> QED BY <2>1, <2>2
<1> QED BY <1>2, <1>3 DEF Upsert, Insert

\* A step of a request that changes no document it is about: no id is gained,
\* though JN may have started an analysis.
Moves(t, s) ==
  /\ request' = [request EXCEPT ![t] = s]
  /\ \A a \in Ids : s.at \in {"tell", "save"} /\ s.id = a => Carries(t, a)
  /\ NoneTold
  /\ UNCHANGED <<items, attached, filed, filer, poller>>

\* One in which JN starts an analysis for it, and tells it.
Obtains(t, s, b, a) ==
  /\ request' = [request EXCEPT ![t] = s]
  /\ s.at = "tell" /\ s.id = a
  /\ a \in Unused
  /\ Start(a, b, TRUE)
  /\ UNCHANGED <<items, attached, filed, filer, poller>>

\* One in which it saves what it was given.
Deposits(t, s, b) ==
  /\ request[t].at = "save"
  /\ Upsert(b, request[t].id) \/ Insert(b, request[t].id)
  /\ request' = [request EXCEPT ![t] = s]
  /\ s.at \notin {"tell", "save"}
  /\ UNCHANGED <<analysis, attached, filed, filer, poller>>

LEMMA OnceMoves ==
  ASSUME Once, Typing', NEW t \in Threads, NEW s, Moves(t, s)
  PROVE  Once'
<1>1. request \in [Threads -> RequestState]  BY DEF Once, Typing, TypeOK
<1>2. \A b \in Bugs, a \in Ids : Booked(b, a)' <=> Booked(b, a)
  BY BookedSame DEF Moves
<1>3. \A u \in Threads, a \in Ids : Carries(u, a)' => Carries(u, a)
  BY <1>1 DEF Moves, Carries
<1>4. \A a \in Ids : /\ a \in Unused' => a \in Unused
                     /\ a \notin Unused => a \notin Unused' /\ analysis'[a] = analysis[a]
  BY DEF Moves, NoneTold, Unused
<1>5. RequestsOnce'
  BY <1>2, <1>3, <1>4 DEF Once, BookedOnce, RequestsOnce
<1>6. FilersOnce' /\ NoneAhead'
  BY <1>2, <1>4 DEF Once, BookedOnce, FilersOnce, NoneAhead, Moves
<1>7. ItemsOnce'  BY DEF Once, BookedOnce, ItemsOnce, Is, Moves
<1>8. ListsDue' /\ ItemsDue' /\ AttachedOnce'  BY DueSame DEF Once, Moves
<1> QED BY <1>5, <1>6, <1>7, <1>8 DEF Once, BookedOnce

LEMMA OnceObtains ==
  ASSUME Once, Typing', NEW t \in Threads, NEW s, NEW b, NEW a \in Ids,
         Obtains(t, s, b, a)
  PROVE  Once'
<1>1. /\ request \in [Threads -> RequestState]
      /\ analysis \in [Ids -> Analysis]
  BY DEF Once, Typing, TypeOK
<1>2. \A c \in Bugs, x \in Ids : Booked(c, x)' <=> Booked(c, x)
  BY BookedSame DEF Obtains
<1>3. /\ a \notin Unused' /\ ~analysis'[a].bucket
      /\ \A x \in Ids \ {a} : /\ analysis'[x] = analysis[x]
                              /\ x \in Unused' <=> x \in Unused
  BY <1>1 DEF Obtains, Start, Unused, Analysis
<1>4. \A u \in Threads, x \in Ids : Carries(u, x) => x # a
  BY DEF Once, BookedOnce, RequestsOnce, Obtains
<1>5. \A u \in Threads, x \in Ids :
        Carries(u, x)' <=> (u = t /\ x = a) \/ (u # t /\ Carries(u, x))
  BY <1>1 DEF Obtains, Carries
<1>6. \A c \in Bugs : ~Booked(c, a)
  BY DEF Once, BookedOnce, NoneAhead, Obtains
<1>7. RequestsOnce'
  BY <1>2, <1>3, <1>4, <1>5, <1>6 DEF Once, BookedOnce, RequestsOnce
<1>8. FilersOnce'
  <2>1. filer' = filer /\ filed' = filed  BY DEF Obtains
  <2>2. \A f \in Filers, c \in Bugs, x \in Ids : filer[f] = [bug |-> c, id |-> x] => x # a
    BY DEF Once, BookedOnce, FilersOnce, Obtains
  <2> QED BY <1>2, <1>3, <2>1, <2>2 DEF Once, BookedOnce, FilersOnce
<1>9. NoneAhead'
  <2>1. filed' = filed  BY DEF Obtains
  <2> QED BY <1>2, <1>3, <1>6, <2>1 DEF Once, BookedOnce, NoneAhead
<1>10. ItemsOnce'  BY DEF Once, BookedOnce, ItemsOnce, Is, Obtains
<1>11. ListsDue' /\ ItemsDue' /\ AttachedOnce'  BY DueSame DEF Once, Obtains
<1> QED BY <1>7, <1>8, <1>9, <1>10, <1>11 DEF Once, BookedOnce
\* An id that is saved with its bug for the first time is the one pair more
\* that has come to the collection, and its result is not attached yet.
LEMMA BookedSaved ==
  ASSUME items \in Seq(Item), ItemsOnce, ItemsDue, UNCHANGED <<attached, poller>>,
         NEW b \in Bugs, NEW a \in Ids \cup {NotValid},
         Upsert(b, a) \/ Insert(b, a),
         a \in Ids => ~Booked(b, a)
  PROVE  /\ \A c \in Bugs, x \in Ids :
              Booked(c, x)' => Booked(c, x) \/ (c = b /\ x = a)
         /\ ItemsOnce'
         /\ ItemsDue'
<1>1. PICK k : /\ k \in DOMAIN items' => items'[k] = InProgress(b, a)
               /\ \A i \in DOMAIN items' :
                    i # k => i \in DOMAIN items /\ items'[i] = items[i]
  BY Saved
<1>2. \A i \in DOMAIN items', c \in Bugs, x \in Ids : Is(i, c, x)' =>
        \/ i # k /\ i \in DOMAIN items /\ Is(i, c, x)
        \/ i = k /\ c = b /\ x = a
  BY <1>1, EntryFields DEF Is
<1>3. \A c \in Bugs, x \in Ids : Booked(c, x)' =>
        Booked(c, x) \/ (c = b /\ x = a)
  BY <1>2 DEF Booked
<1>4. ItemsOnce'
  <2> SUFFICES ASSUME NEW c \in Bugs, NEW x \in Ids, NEW i \in DOMAIN items',
                      NEW j \in DOMAIN items', Is(i, c, x)', Is(j, c, x)'
               PROVE  i = j
    BY DEF ItemsOnce
  <2>1. CASE c = b /\ x = a
    <3>1. \A l \in DOMAIN items : ~Is(l, c, x)  BY <2>1 DEF Booked
    <3> QED BY <1>2, <3>1
  <2>2. CASE ~(c = b /\ x = a)  BY <1>2, <2>2 DEF ItemsOnce
  <2> QED BY <2>1, <2>2
<1>5. ItemsDue'
  <2> SUFFICES ASSUME NEW i \in DOMAIN items', NEW c \in Bugs, NEW x \in Ids,
                      items'[i] = InProgress(c, x), attached[<<c, x>>] > 0
               PROVE  \E p \in Pollers : /\ poller[p].at \in {"comment", "mark"}
                                         /\ poller[p].bug = c
    BY EntryFixed DEF ItemsDue
  <2>1. Booked(c, x)  BY DEF Booked
  <2>2. CASE i = k
    <3>1. InProgress(c, x) = InProgress(b, a)  BY <1>1, <2>2
    <3>2. c = b /\ x = a  BY <3>1, EntryFields
    <3> QED BY <2>1, <3>2
  <2>3. CASE i # k
    <3>1. i \in DOMAIN items /\ items[i] = InProgress(c, x)  BY <1>1, <2>3
    <3> QED BY <3>1 DEF ItemsDue
  <2> QED BY <2>2, <2>3
<1> QED BY <1>3, <1>4, <1>5

\* What a request saves is its own, and it has no id then.
LEMMA OnceDeposits ==
  ASSUME Once, Typing', NEW t \in Threads, NEW s, NEW b \in Bugs,
         request[t].id \in Ids \cup {NotValid}, Deposits(t, s, b)
  PROVE  Once'
<1> DEFINE a == request[t].id
<1>1. request \in [Threads -> RequestState] /\ items \in Seq(Item)
  BY DEF Once, Typing, TypeOK
<1>2. a \in Ids => /\ a \notin Unused /\ ~analysis[a].bucket
                   /\ \A c \in Bugs : ~Booked(c, a)
                   /\ \A u \in Threads : Carries(u, a) => u = t
  BY DEF Once, BookedOnce, RequestsOnce, Carries, Deposits
<1>3. /\ \A c \in Bugs, x \in Ids :
           Booked(c, x)' => Booked(c, x) \/ (c = b /\ x = a)
      /\ ItemsOnce' /\ ItemsDue'
  BY <1>1, <1>2, BookedSaved DEF Once, BookedOnce, Deposits
<1>4. \A u \in Threads, x \in Ids : Carries(u, x)' => u # t /\ Carries(u, x)
  BY <1>1 DEF Deposits, Carries
<1>5. Unused' = Unused  BY DEF Deposits, Unused
<1>6. analysis' = analysis /\ filed' = filed /\ filer' = filer
      /\ attached' = attached /\ poller' = poller
  BY DEF Deposits
<1>7. RequestsOnce'
  BY <1>2, <1>3, <1>4, <1>5, <1>6 DEF Once, BookedOnce, RequestsOnce
<1>8. FilersOnce'
  BY <1>2, <1>3, <1>5, <1>6 DEF Once, BookedOnce, FilersOnce
<1>9. NoneAhead'
  BY <1>2, <1>3, <1>5, <1>6 DEF Once, BookedOnce, NoneAhead
<1>10. ListsDue' /\ AttachedOnce'  BY <1>6 DEF Once, ListsDue, AttachedOnce
<1> QED BY <1>3, <1>7, <1>8, <1>9, <1>10 DEF Once, BookedOnce

\* The steps of a plain request.
LEMMA OncePlain ==
  ASSUME Once, NEW r \in Plain, PlainNext(r)
  PROVE  Once'
<1> DEFINE n == NodeOf[r]
<1>1. Typing /\ Typing'  BY TypingPlain DEF Once
<1>2. /\ r \in Threads /\ request[r] \in RequestState
      /\ request \in [Threads -> RequestState]
      /\ PlainStage(request[r], bean[n])
      /\ NotValid \notin Ids
  BY <1>1, NotValidIsNoId DEF Threads, Typing, TypeOK, Stages, FieldOf
<1>3. Idle.at = "idle"  BY DEF Idle
<1>4. CASE \E b \in Bugs \ Synthetic : PlainAccept(r, b)
  <2>1. PICK b \in Bugs \ Synthetic : PlainAccept(r, b)  BY <1>4
  <2> DEFINE s == [Idle EXCEPT !.at = "check", !.bug = b]
  <2>2. s.at = "check"  BY DEF Idle
  <2>3. Moves(r, s)  BY <2>1, <2>2, SameTellsNone DEF PlainAccept, Moves, docs
  <2> QED BY <1>1, <1>2, <2>3, OnceMoves
<1>5. CASE PlainCheck(r)
  <2>1. PICK x \in {"answer", "trigger"} :
          request' = [request EXCEPT ![r] = [request[r] EXCEPT !.at = x]]
    <3>1. (\E y \in {"answer", "trigger"} : Go(r, y))
      BY <1>5 DEF PlainCheck
    <3> QED BY <3>1 DEF Go
  <2> DEFINE s == [request[r] EXCEPT !.at = x]
  <2>2. s.at = x  BY <1>2 DEF RequestState
  <2>3. Moves(r, s)  BY <1>5, <2>1, <2>2, SameTellsNone DEF PlainCheck, Moves, docs
  <2> QED BY <1>1, <1>2, <2>3, OnceMoves
<1>6. CASE \E a \in Ids : PlainTrigger(r, a)
  <2>1. PICK a \in Ids : PlainTrigger(r, a)  BY <1>6
  <2> DEFINE s == [request[r] EXCEPT !.at = "tell", !.id = a]
  <2>2. s.at = "tell" /\ s.id = a  BY <1>2 DEF RequestState
  <2>3. request' = [request EXCEPT ![r] = s]  BY <1>2, <2>1 DEF PlainTrigger
  <2>4. Obtains(r, s, bean[n].bugId, a)
    BY <2>1, <2>2, <2>3 DEF PlainTrigger, Obtains, FieldOf
  <2> QED BY <1>1, <1>2, <2>4, OnceObtains
<1>7. CASE PlainRefused(r)
  <2> DEFINE s == [request[r] EXCEPT !.at = "save", !.id = NotValid]
  <2>1. s.id = NotValid  BY <1>2 DEF RequestState
  <2>2. request' = [request EXCEPT ![r] = s]  BY <1>2, <1>7 DEF PlainRefused
  <2>3. NoneTold  BY <1>1, <1>7, RefusedTellsNone DEF PlainRefused, Typing, TypeOK
  <2>4. Moves(r, s)  BY <1>2, <1>7, <2>1, <2>2, <2>3 DEF PlainRefused, Moves
  <2> QED BY <1>1, <1>2, <2>4, OnceMoves
<1>8. CASE PlainTell(r) \/ PlainTellThrows(r)
  <2>1. /\ request[r].at = "tell"
        /\ UNCHANGED <<items, analysis, attached, filed, bean, filer, poller>>
    BY <1>8 DEF PlainTell, PlainTellThrows
  <2>2. PICK s \in {[request[r] EXCEPT !.at = "save"],
                    [request[r] EXCEPT !.at = "answer"], Idle} :
          request' = [request EXCEPT ![r] = s]
    BY <1>8 DEF PlainTell, PlainTellThrows, Go
  <2>3. s.at \in {"tell", "save"} => s.id = request[r].id
    BY <1>2, <1>3, <2>2 DEF RequestState
  <2>4. Moves(r, s)  BY <2>1, <2>2, <2>3, SameTellsNone DEF Moves, Carries
  <2> QED BY <1>1, <1>2, <2>4, OnceMoves
<1>9. CASE PlainSave(r)
  <2> DEFINE s == [request[r] EXCEPT !.at = "answer"]
  <2>1. request' = [request EXCEPT ![r] = s]  BY <1>9 DEF PlainSave, Go
  <2>2. s.at = "answer"  BY <1>2 DEF RequestState
  <2>3. request[r].id \in Ids \cup {NotValid} /\ bean[n].bugId \in Bugs
    BY <1>2, <1>9 DEF PlainStage, PlainSave
  <2>4. Deposits(r, s, bean[n].bugId)
    BY <1>9, <2>1, <2>2 DEF PlainSave, Deposits, FieldOf
  <2> QED BY <1>1, <1>2, <2>3, <2>4, OnceDeposits
<1>10. CASE PlainAnswer(r)
  <2>1. Moves(r, Idle)  BY <1>3, <1>10, SameTellsNone DEF PlainAnswer, Moves, docs
  <2> QED BY <1>1, <1>2, <2>1, OnceMoves
<1> QED BY <1>4, <1>5, <1>6, <1>7, <1>8, <1>9, <1>10 DEF PlainNext

\* The steps of a synthetic request.
LEMMA OnceSynth ==
  ASSUME Once, NEW q \in Synth, SynthNext(q)
  PROVE  Once'
<1>1. Typing /\ Typing'  BY TypingSynth DEF Once
<1>2. /\ q \in Threads /\ request[q] \in RequestState
      /\ request \in [Threads -> RequestState] /\ SynthStage(request[q])
  BY <1>1 DEF Typing, TypeOK, Threads, Stages
<1>3. CASE SynthFieldStep(q)
  <2>1. Moves(q, request'[q])
    BY <1>1, <1>3, SynthFieldFrame DEF Moves
  <2> QED BY <1>1, <1>2, <2>1, OnceMoves
<1>4. CASE \E b \in Synthetic, a \in Ids : SynthTrigger(q, b, a)
  <2>1. PICK b \in Synthetic, a \in Ids : SynthTrigger(q, b, a)  BY <1>4
  <2> DEFINE s == [request[q] EXCEPT !.at = "tell", !.todo = @ \ {b},
                                     !.bug = b, !.id = a]
  <2>2. s.at = "tell" /\ s.id = a  BY <1>2 DEF RequestState
  <2>3. request' = [request EXCEPT ![q] = s]  BY <1>2, <2>1 DEF SynthTrigger
  <2>4. Obtains(q, s, b, a)  BY <2>1, <2>2, <2>3 DEF SynthTrigger, Obtains
  <2> QED BY <1>1, <1>2, <2>4, OnceObtains
<1>5. CASE SynthTell(q) \/ SynthTellThrows(q)
  <2>1. /\ request[q].at = "tell"
        /\ UNCHANGED <<items, analysis, attached, filed, bean, filer, poller>>
    BY <1>5 DEF SynthTell, SynthTellThrows
  <2>2. PICK s \in {[request[q] EXCEPT !.at = "save"], Idle} :
          request' = [request EXCEPT ![q] = s]
    BY <1>5 DEF SynthTell, SynthTellThrows, Go
  <2>3. s.at \in {"tell", "save"} => s.id = request[q].id
    BY <1>2, <2>2 DEF RequestState, Idle
  <2>4. Moves(q, s)  BY <2>1, <2>2, <2>3, SameTellsNone DEF Moves, Carries
  <2> QED BY <1>1, <1>2, <2>4, OnceMoves
<1>6. CASE SynthSave(q)
  <2> DEFINE s == [Idle EXCEPT !.at = "trigger", !.todo = request[q].todo]
  <2>1. s.at = "trigger"  BY DEF Idle
  <2>2. request[q].id \in Ids /\ request[q].bug \in Bugs
    BY <1>2, <1>6 DEF SynthSave, SynthStage
  <2>3. Deposits(q, s, request[q].bug)  BY <1>6, <2>1 DEF SynthSave, Deposits
  <2> QED BY <1>1, <1>2, <2>2, <2>3, OnceDeposits
<1> QED BY <1>3, <1>4, <1>5, <1>6 DEF SynthNext, SynthFieldStep
\* Filing: the bug is new to its bucket's analysis, which no request holds.
LEMMA OnceFiler ==
  ASSUME Once, NEW f \in Filers, FilerNext(f)
  PROVE  Once'
<1>1. Typing /\ Typing'  BY TypingFiler DEF Once
<1>2. /\ filer \in [Filers -> Entry \cup {None}] /\ analysis \in [Ids -> Analysis]
      /\ items \in Seq(Item)
  BY <1>1 DEF Typing, TypeOK
<1>3. \A b \in Bugs, a \in Ids : [bug |-> b, id |-> a] # None
  BY NoneNoEntry DEF Entry
<1>4. CASE \E b \in Synthetic, a \in Ids \cup {NotValid, None} : FileBug(f, b, a)
  <2>1. PICK b \in Synthetic, a \in Ids \cup {NotValid, None} : FileBug(f, b, a)
    BY <1>4
  <2>2. /\ UNCHANGED <<items, attached, bean, request, poller>>
        /\ b \notin filed /\ filed' = filed \cup {b} /\ filer[f] = None
        /\ a \in Ids => a \in Unused \/ analysis[a].bucket
    BY <2>1 DEF FileBug
  <2>3. \A c \in Bugs, x \in Ids : Booked(c, x)' <=> Booked(c, x)
    BY <2>2, BookedSame
  <2>4. \A t \in Threads, x \in Ids : Carries(t, x)' <=> Carries(t, x)
    BY <2>2 DEF Carries
  <2>5. /\ \A x \in Ids \ {a} : /\ analysis'[x] = analysis[x]
                                /\ x \in Unused' <=> x \in Unused
        /\ a \in Ids => a \notin Unused' /\ analysis'[a].bucket
    BY <1>2, <2>1 DEF FileBug, Unused, Analysis
  <2>6. \A t \in Threads : a \in Ids => ~Carries(t, a)
    BY <2>2 DEF Once, BookedOnce, RequestsOnce
  <2>7. RequestsOnce'
    BY <2>3, <2>4, <2>5, <2>6 DEF Once, BookedOnce, RequestsOnce
  <2>8. NoneAhead'
    BY <2>2, <2>3, <2>5 DEF Once, BookedOnce, NoneAhead
  <2>9. FilersOnce'
    <3>1. \A g \in Filers : /\ g # f => filer'[g] = filer[g]
                            /\ filer'[f] \in {None, [bug |-> b, id |-> a]}
      BY <1>2, <2>1 DEF FileBug
    <3> SUFFICES ASSUME NEW g \in Filers, NEW c \in Bugs, NEW x \in Ids,
                        filer'[g] = [bug |-> c, id |-> x]
                 PROVE  /\ x \notin Unused' /\ analysis'[x].bucket /\ c \in filed'
                        /\ ~Booked(c, x)'
                        /\ \A h \in Filers : filer'[h] = filer'[g] => h = g
      BY DEF FilersOnce
    <3>2. ASSUME NEW h \in Filers, h # f, NEW y \in Ids
          PROVE  filer[h] # [bug |-> b, id |-> y]
      BY <2>2, <3>2, SyntheticBugs DEF Once, BookedOnce, FilersOnce
    <3>3. CASE g = f
      <4>1. c = b /\ x = a  BY <1>3, <3>1, <3>3
      <4>2. ~Booked(c, x)  BY <2>2, <4>1 DEF Once, BookedOnce, NoneAhead
      <4>3. \A h \in Filers : filer'[h] = filer'[g] => h = g
        BY <3>1, <3>2, <3>3, <4>1
      <4> QED BY <2>2, <2>3, <2>5, <4>1, <4>2, <4>3
    <3>4. CASE g # f
      <4>1. filer[g] = [bug |-> c, id |-> x]  BY <3>1, <3>4
      <4>2. /\ x \notin Unused /\ analysis[x].bucket /\ c \in filed
            /\ ~Booked(c, x)
            /\ \A h \in Filers : filer[h] = filer[g] => h = g
        BY <4>1 DEF Once, BookedOnce, FilersOnce
      <4>3. c # b  BY <2>2, <4>2
      <4>4. filer'[f] # filer'[g]  BY <1>3, <3>1, <4>3
      <4>5. \A h \in Filers : filer'[h] = filer'[g] => h = g
        BY <3>1, <3>4, <4>1, <4>2, <4>4
      <4> QED BY <2>2, <2>3, <2>5, <4>2, <4>5
    <3> QED BY <3>3, <3>4
  <2>10. ItemsOnce'  BY <2>2 DEF Once, BookedOnce, ItemsOnce, Is
  <2>11. ListsDue' /\ ItemsDue' /\ AttachedOnce'  BY <2>2, DueSame DEF Once
  <2> QED BY <1>1, <2>7, <2>8, <2>9, <2>10, <2>11 DEF Once, BookedOnce
<1>5. CASE FileItem(f)
  <2> DEFINE b == filer[f].bug
             a == filer[f].id
  <2>1. /\ filer[f] \in Entry /\ b \in Bugs /\ a \in Ids \cup {NotValid}
        /\ filer[f] = [bug |-> b, id |-> a]
    BY <1>2, <1>5 DEF FileItem, Entry
  <2>2. /\ UNCHANGED <<analysis, attached, filed, request, poller>>
        /\ filer' = [filer EXCEPT ![f] = None]
        /\ Insert(b, a)
    BY <1>5 DEF FileItem
  <2>3. a \in Ids => /\ a \notin Unused /\ analysis[a].bucket /\ b \in filed
                     /\ ~Booked(b, a)
                     /\ \A g \in Filers : filer[g] = filer[f] => g = f
    BY <2>1 DEF Once, BookedOnce, FilersOnce
  <2>4. /\ \A c \in Bugs, x \in Ids :
             Booked(c, x)' => Booked(c, x) \/ (c = b /\ x = a)
        /\ ItemsOnce' /\ ItemsDue'
    BY <1>2, <2>1, <2>2, <2>3, BookedSaved DEF Once, BookedOnce
  <2>5. /\ \A t \in Threads, x \in Ids : Carries(t, x)' <=> Carries(t, x)
        /\ Unused' = Unused
    BY <2>2 DEF Carries, Unused
  <2>6. RequestsOnce'
    BY <2>2, <2>4, <2>3, <2>5 DEF Once, BookedOnce, RequestsOnce
  <2>7. FilersOnce'
    <3>1. \A g \in Filers : /\ g # f => filer'[g] = filer[g]
                            /\ g = f => filer'[g] = None
      BY <1>2, <2>2
    <3> SUFFICES ASSUME NEW g \in Filers, NEW c \in Bugs, NEW x \in Ids,
                        filer'[g] = [bug |-> c, id |-> x]
                 PROVE  /\ x \notin Unused' /\ analysis'[x].bucket /\ c \in filed'
                        /\ ~Booked(c, x)'
                        /\ \A h \in Filers : filer'[h] = filer'[g] => h = g
      BY DEF FilersOnce
    <3>2. g # f /\ filer[g] = [bug |-> c, id |-> x]  BY <1>3, <3>1
    <3>3. /\ x \notin Unused /\ analysis[x].bucket /\ c \in filed
          /\ ~Booked(c, x)
          /\ \A h \in Filers : filer[h] = filer[g] => h = g
      BY <3>2 DEF Once, BookedOnce, FilersOnce
    <3>4. ~(c = b /\ x = a)  BY <2>1, <2>3, <3>2
    <3>5. \A h \in Filers : filer'[h] = filer'[g] => h = g
      BY <1>3, <3>1, <3>2, <3>3
    <3> QED BY <2>2, <2>4, <2>5, <3>3, <3>4, <3>5
  <2>8. NoneAhead'
    BY <2>2, <2>4, <2>3, <2>5 DEF Once, BookedOnce, NoneAhead
  <2>9. ListsDue' /\ AttachedOnce'  BY <2>2 DEF Once, ListsDue, AttachedOnce
  <2> QED BY <1>1, <2>4, <2>6, <2>7, <2>8, <2>9 DEF Once, BookedOnce
<1> QED BY <1>4, <1>5 DEF FilerNext
\* The poller: it attaches what its list has, drops that from the list, and
\* marks all items of the bug before it goes on.
LEMMA OncePoller ==
  ASSUME OnePoller, Marked, Once, NEW p \in Pollers, PollerNext(p)
  PROVE  Once'
<1>1. Typing /\ Typing'  BY TypingPoller DEF Once
<1>2. /\ poller \in [Pollers -> PollerState] /\ items \in Seq(Item)
      /\ attached \in [Bugs \X Ids -> 0 .. 2] /\ poller[p] \in PollerState
  BY <1>1 DEF Typing, TypeOK
<1>3. UNCHANGED <<analysis, filed, bean, request, filer>>
  BY DEF PollerNext, PollerStart, PollerSkip, PollerAttach, PollerComment,
     PollerMark, PollerEnd, docs
<1>4. /\ Unused' = Unused
      /\ \A t \in Threads, a \in Ids : Carries(t, a)' <=> Carries(t, a)
  BY <1>3 DEF Unused, Carries
<1>5. \A q \in Pollers : q = p  BY DEF OnePoller
\* It is enough that nothing new comes to the collection.
<1>6. ASSUME \A b \in Bugs, a \in Ids : Booked(b, a)' => Booked(b, a), ItemsOnce',
             ListsDue', ItemsDue', AttachedOnce'
      PROVE  Once'
  <2>1. RequestsOnce'
    BY <1>3, <1>4, <1>6 DEF Once, BookedOnce, RequestsOnce
  <2>2. FilersOnce'
    BY <1>3, <1>4, <1>6 DEF Once, BookedOnce, FilersOnce
  <2>3. NoneAhead'
    BY <1>3, <1>4, <1>6 DEF Once, BookedOnce, NoneAhead
  <2> QED BY <1>1, <1>6, <2>1, <2>2, <2>3 DEF Once, BookedOnce
\* In most steps the documents stay and the list only shrinks.
<1>7. ASSUME items' = items, attached' = attached,
             poller' = [poller EXCEPT ![p] = poller'[p]],
             poller'[p].list \subseteq poller[p].list,
             poller[p].at \in {"comment", "mark"}
               => poller'[p].at \in {"comment", "mark"} /\ poller'[p].bug = poller[p].bug
      PROVE  Once'
  <2>1. \A b \in Bugs, a \in Ids : Booked(b, a)' => Booked(b, a)
    BY <1>5, <1>7 DEF Booked, Is
  <2>2. ItemsOnce'  BY <1>7 DEF Once, BookedOnce, ItemsOnce, Is
  <2>3. ListsDue' /\ AttachedOnce'
    BY <1>5, <1>7 DEF Once, ListsDue, AttachedOnce
  <2>4. ItemsDue'
    BY <1>5, <1>7, EntryFixed DEF Once, ItemsDue
  <2> QED BY <1>6, <2>1, <2>2, <2>3, <2>4
<1>8. CASE PollerStart(p)
  <2>1. /\ items' = items /\ attached' = attached /\ poller[p].at = "idle"
        /\ poller'[p].list = Triggered
    BY <1>2, <1>8 DEF PollerStart, docs, PollerState
  <2>2. \A b \in Bugs, a \in Ids : [bug |-> b, id |-> a] \in Triggered =>
          \E i \in DOMAIN items : Is(i, b, a) /\ items[i] = InProgress(b, a)
    <3> SUFFICES ASSUME NEW b \in Bugs, NEW a \in Ids,
                        [bug |-> b, id |-> a] \in Triggered
                 PROVE  \E i \in DOMAIN items : Is(i, b, a) /\ items[i] = InProgress(b, a)
      OBVIOUS
    <3>1. PICK i \in DOMAIN items :
            /\ items[i].status = "In Progress"
            /\ [bug |-> b, id |-> a] = [bug |-> items[i].bug, id |-> items[i].id]
      BY DEF Triggered
    <3>2. items[i].bug = b /\ items[i].id = a  BY <3>1
    <3>3. items[i] = InProgress(b, a)  BY <1>2, <3>1, <3>2, ItemEither
    <3> QED BY <3>2, <3>3 DEF Is
  <2>3. \A b \in Bugs, a \in Ids : Booked(b, a)' => Booked(b, a)
    BY <1>5, <2>1, <2>2 DEF Booked, Is
  <2>4. ItemsOnce'  BY <2>1 DEF Once, BookedOnce, ItemsOnce, Is
  <2>5. \A i \in DOMAIN items : \A b \in Bugs, a \in Ids :
          items[i] = InProgress(b, a) => ~(attached[<<b, a>>] > 0)
    BY <1>5, <2>1 DEF Once, ItemsDue
  <2>6. ListsDue'
    <3> SUFFICES ASSUME NEW b \in Bugs, NEW a \in Ids,
                        [bug |-> b, id |-> a] \in Triggered
                 PROVE  attached[<<b, a>>] = 0
      BY <1>5, <2>1 DEF ListsDue
    <3>1. ~(attached[<<b, a>>] > 0)  BY <2>2, <2>5
    <3>2. attached[<<b, a>>] \in 0 .. 2  BY <1>2
    <3> QED BY <3>1, <3>2
  <2>7. AttachedOnce'  BY <2>1 DEF Once, AttachedOnce
  <2>8. ItemsDue'
    BY <2>1, <2>5, EntryFixed DEF ItemsDue
  <2> QED BY <1>6, <2>3, <2>4, <2>6, <2>7, <2>8
<1>9. CASE \E e \in Entry : PollerSkip(p, e)
  <2>1. PICK e \in Entry : PollerSkip(p, e)  BY <1>9
  <2>2. /\ poller'[p].list = poller[p].list \ {e} /\ poller[p].at = "next"
        /\ poller' = [poller EXCEPT ![p] = poller'[p]]
        /\ items' = items /\ attached' = attached
    BY <1>2, <2>1 DEF PollerSkip, PollerState, docs
  <2> QED BY <1>7, <2>2
<1>10. CASE \E e \in Entry : PollerAttach(p, e)
  <2>1. PICK e \in Entry : PollerAttach(p, e)  BY <1>10
  <2>2. "chironThrows" \notin Faults  BY DEF Marked
  <2>3. /\ items' = items /\ poller[p].at = "next" /\ e \in poller[p].list
        /\ poller'[p].list = poller[p].list \ {e}
        /\ poller'[p].at = "comment" /\ poller'[p].bug = e.bug
    BY <1>2, <2>1, <2>2 DEF PollerAttach, ChironMayThrow, PollerState
  <2>4. e.bug \in Bugs /\ e.id \in Ids /\ e = [bug |-> e.bug, id |-> e.id]
    BY <2>1 DEF PollerAttach, HasResult, Entry
  <2>5. PICK b \in Bugs : b = e.bug  BY <2>4
  <2>6. PICK a \in Ids : a = e.id  BY <2>4
  <2>7. e = [bug |-> b, id |-> a]  BY <2>4, <2>5, <2>6
  <2>8. attached[<<b, a>>] = 0  BY <2>3, <2>7 DEF Once, ListsDue
  <2>9. /\ attached'[<<b, a>>] = 1
        /\ \A c \in Bugs, x \in Ids :
             ~(c = b /\ x = a) => attached'[<<c, x>>] = attached[<<c, x>>]
    BY <1>2, <2>1, <2>5, <2>6, <2>8 DEF PollerAttach, Attach
  <2>10. \A c \in Bugs, x \in Ids : Booked(c, x)' => Booked(c, x)
    BY <1>5, <2>3, <2>7, <2>9 DEF Booked, Is
  <2>11. ItemsOnce'  BY <2>3 DEF Once, BookedOnce, ItemsOnce, Is
  <2>12. ListsDue'  BY <1>5, <2>3, <2>7, <2>9 DEF Once, ListsDue
  <2>13. AttachedOnce'
    <3> SUFFICES ASSUME NEW c \in Bugs, NEW x \in Ids PROVE attached'[<<c, x>>] < 2
      BY DEF AttachedOnce
    <3>1. CASE c = b /\ x = a  BY <2>9, <3>1
    <3>2. CASE ~(c = b /\ x = a)  BY <2>9, <3>2 DEF Once, AttachedOnce
    <3> QED BY <3>1, <3>2
  <2>14. ItemsDue'
    <3> SUFFICES ASSUME NEW i \in DOMAIN items, NEW c \in Bugs, NEW x \in Ids,
                        items[i] = InProgress(c, x), attached'[<<c, x>>] > 0
                 PROVE  c = b
      BY <2>3, <2>5, EntryFixed DEF ItemsDue
    <3>1. ~(attached[<<c, x>>] > 0)  BY <1>5, <2>3 DEF Once, ItemsDue
    <3> QED BY <2>9, <3>1
  <2> QED BY <1>6, <2>10, <2>11, <2>12, <2>13, <2>14
<1>11. CASE PollerComment(p)
  <2>1. "chironThrows" \notin Faults  BY DEF Marked
  <2>2. /\ poller'[p].list = poller[p].list /\ poller'[p].at = "mark"
        /\ poller'[p].bug = poller[p].bug
        /\ poller' = [poller EXCEPT ![p] = poller'[p]]
        /\ items' = items /\ attached' = attached
    BY <1>2, <1>11, <2>1 DEF PollerComment, ChironMayThrow, PollerState, docs
  <2> QED BY <1>7, <2>2
<1>12. CASE PollerMark(p)
  <2>1. /\ poller'[p].list = poller[p].list /\ attached' = attached
        /\ poller[p].at = "mark"
        /\ DOMAIN items' = DOMAIN items
    BY <1>2, <1>12 DEF PollerMark, PollerState, MarkCompleted
  <2>2. \A i \in DOMAIN items :
          /\ items'[i].bug = items[i].bug /\ items'[i].id = items[i].id
          /\ items[i].bug = poller[p].bug => items'[i].status = "Completed"
          /\ items[i].bug # poller[p].bug => items'[i] = items[i]
    <3>1. \A i \in DOMAIN items : items[i] \in Item  BY <1>2
    <3> QED BY <1>12, <3>1 DEF PollerMark, MarkCompleted, Item
  <2>3. \A b \in Bugs, a \in Ids : Booked(b, a)' => Booked(b, a)
    BY <1>5, <2>1, <2>2 DEF Booked, Is
  <2>4. ItemsOnce'  BY <2>1, <2>2 DEF Once, BookedOnce, ItemsOnce, Is
  <2>5. ListsDue' /\ AttachedOnce'
    BY <1>5, <2>1 DEF Once, ListsDue, AttachedOnce
  <2>6. ItemsDue'
    <3> SUFFICES ASSUME NEW i \in DOMAIN items, NEW b \in Bugs, NEW a \in Ids,
                        items'[i] = InProgress(b, a), attached[<<b, a>>] > 0
                 PROVE  FALSE
      BY <2>1, EntryFixed DEF ItemsDue
    <3>1. items'[i].status # "Completed"  BY EntryFields
    <3>2. items[i] = InProgress(b, a) /\ items[i].bug # poller[p].bug
      BY <2>2, <3>1
    <3>3. poller[p].bug = b  BY <1>5, <3>2 DEF Once, ItemsDue
    <3>4. items[i].bug = b  BY <3>2, EntryFields
    <3> QED BY <3>2, <3>3, <3>4
  <2> QED BY <1>6, <2>3, <2>4, <2>5, <2>6
<1>13. CASE PollerEnd(p)
  <2>1. /\ poller'[p].list = {} /\ poller[p].at = "next"
        /\ poller' = [poller EXCEPT ![p] = poller'[p]]
        /\ items' = items /\ attached' = attached
    BY <1>2, <1>13 DEF PollerEnd, IdlePoller, docs
  <2> QED BY <1>7, <2>1
<1> QED BY <1>8, <1>9, <1>10, <1>11, <1>12, <1>13 DEF PollerNext

\* JN's own steps and a stutter; no node stops.
LEMMA OnceOther ==
  ASSUME Marked, Once,
         (\E a \in Ids : JNEnds(a)) \/ (\E n \in Nodes : Crash(n)) \/ UNCHANGED vars
  PROVE  Once'
<1>1. Typing'  BY TypingOther DEF Once
<1>2. /\ UNCHANGED <<items, attached, filed, request, filer, poller>>
      /\ \A x \in Ids : /\ analysis'[x].bucket = analysis[x].bucket
                        /\ x \in Unused' <=> x \in Unused
  <2>1. CASE \E a \in Ids : JNEnds(a)
    <3>1. PICK a \in Ids : JNEnds(a)  BY <2>1
    <3>2. analysis \in [Ids -> Analysis]  BY DEF Once, Typing, TypeOK
    <3>3. PICK s \in {"completed", "ended"} : analysis' = [analysis EXCEPT ![a].state = s]
      BY <3>1 DEF JNEnds
    <3> QED BY <3>1, <3>2, <3>3 DEF JNEnds, Unused, Analysis
  <2>2. CASE \E n \in Nodes : Crash(n)  BY <2>2 DEF Crash, Marked
  <2>3. CASE UNCHANGED vars  BY <2>3 DEF vars, docs, Unused
  <2> QED BY <2>1, <2>2, <2>3
<1>3. \A b \in Bugs, a \in Ids : Booked(b, a)' <=> Booked(b, a)
  BY <1>2, BookedSame
<1>4. \A t \in Threads, a \in Ids : Carries(t, a)' <=> Carries(t, a)
  BY <1>2 DEF Carries
<1>5. RequestsOnce'  BY <1>2, <1>3, <1>4 DEF Once, BookedOnce, RequestsOnce
<1>6. FilersOnce'  BY <1>2, <1>3 DEF Once, BookedOnce, FilersOnce
<1>7. NoneAhead'  BY <1>2, <1>3 DEF Once, BookedOnce, NoneAhead
<1>8. ItemsOnce'  BY <1>2 DEF Once, BookedOnce, ItemsOnce, Is
<1>9. ListsDue' /\ ItemsDue' /\ AttachedOnce'  BY <1>2, DueSame DEF Once
<1> QED BY <1>1, <1>5, <1>6, <1>7, <1>8, <1>9 DEF Once, BookedOnce

\* Every step keeps it.
LEMMA OnceNext == ASSUME OnePoller, Marked, Once, [Next]_vars PROVE Once'
  BY OncePlain, OnceSynth, OnceFiler, OncePoller, OnceOther DEF Next

\* However many requests and filings there are, of one bug or of many, and
\* whatever JN does: one poller attaches a result once, unless Chiron throws
\* or a node stops.
THEOREM ResultsAttachedOnce ==
  ASSUME OnePoller, Marked PROVE Spec => []AttachedOnce
<1>1. Init => Once  BY OnceInit
<1>2. Once /\ [Next]_vars => Once'  BY OnceNext
<1>3. Once => AttachedOnce  BY DEF Once
<1> QED BY <1>1, <1>2, <1>3, PTL DEF Spec
-----------------------------------------------------------------------------
(***************************************************************************)
(* One document for a bug.  When plain requests come one after the other   *)
(* and none is synthetic, a bug has one document, so that AlreadyRunning   *)
(* looks at the right one, Upsert writes over nothing that is still to be  *)
(* looked at, and a mark completes the item it is for.                     *)
(***************************************************************************)
Alone == OnePoller /\ Synth = {} /\ \A r, s \in Plain : r = s

OneItem == \A i, j \in DOMAIN items : items[i].bug = items[j].bug => i = j

ItemsFiled == \A i \in DOMAIN items : items[i].bug \in Synthetic => items[i].bug \in filed

\* A filing is the first to save an item of its bug.
FilersFirst ==
  \A f \in Filers : filer[f] # None =>
    /\ filer[f].bug \in filed
    /\ \A i \in DOMAIN items : items[i].bug # filer[f].bug
    /\ \A g \in Filers : filer[g] # None /\ filer[g].bug = filer[f].bug => g = f

\* What a pass has on its list is still In Progress.
Listed ==
  \A p \in Pollers : \A e \in poller[p].list :
    \E i \in DOMAIN items : items[i] = InProgress(e.bug, e.id)

\* What it is about to mark is In Progress, its result attached.
Marking ==
  \A p \in Pollers : poller[p].at \in {"comment", "mark"} =>
    /\ \A e \in poller[p].list : e.bug # poller[p].bug
    /\ \E i \in DOMAIN items, a \in Ids :
         /\ items[i] = InProgress(poller[p].bug, a)
         /\ attached[<<poller[p].bug, a>>] > 0

\* A request that goes on finds no item of its bug that JN is at work on, and
\* the analysis it is given is of its bug alone.
PlainFree ==
  \A r \in Plain :
    /\ request[r].at # "idle" => FieldOf(r).bugId \notin Synthetic
    /\ request[r].at \in {"trigger", "tell", "save"} =>
         \A i \in DOMAIN items :
           items[i].bug = FieldOf(r).bugId => items[i].status = "Completed"
    /\ \A a \in Ids : Carries(r, a) =>
         a \notin Unused /\ ~analysis[a].bucket /\ analysis[a].about = {FieldOf(r).bugId}

\* No unused id is one of a bug, and a bucket's id was always told.
Unasked ==
  /\ \A a \in Unused : analysis[a].about = {}
  /\ \A a \in Ids : analysis[a].bucket => analysis[a].told

\* The result is attached, or somebody will see to it.
Remembered(b, a) ==
  \/ attached[<<b, a>>] > 0
  \/ \E t \in Threads : Carries(t, a)
  \/ \E f \in Filers : filer[f] = [bug |-> b, id |-> a]
  \/ \E i \in DOMAIN items : items[i] = InProgress(b, a)

AllRemembered ==
  \A a \in Ids : analysis[a].told => \A b \in analysis[a].about : Remembered(b, a)

Records ==
  OneItem /\ ItemsFiled /\ FilersFirst /\ Listed /\ Marking /\ CompletedIsAttached

Followed == Typing /\ Records /\ PlainFree /\ Unasked /\ AllRemembered

\* At the start JN has been asked nothing.
LEMMA FollowedInit == Init => Followed
<1> SUFFICES ASSUME Init PROVE Followed  OBVIOUS
<1>1. OneItem /\ ItemsFiled /\ CompletedIsAttached
  BY DEF Init, OneItem, ItemsFiled, CompletedIsAttached
<1>2. FilersFirst  BY DEF Init, FilersFirst
<1>3. Listed /\ Marking  BY DEF Init, Listed, Marking, IdlePoller
<1>4. PlainFree  BY DEF Init, PlainFree, Carries, Idle, Threads
<1>5. Unasked /\ AllRemembered  BY DEF Init, Unasked, AllRemembered, Unused
<1> QED BY TypingInit, <1>1, <1>2, <1>3, <1>4, <1>5 DEF Followed, Records

\* The records when documents, filings and lists stay the same.
LEMMA RecordsSame ==
  ASSUME Records, UNCHANGED <<items, attached, filed, filer, poller>>
  PROVE  Records'
<1>1. OneItem' /\ ItemsFiled' /\ FilersFirst' /\ CompletedIsAttached'
  BY DEF Records, OneItem, ItemsFiled, FilersFirst, CompletedIsAttached
<1>2. Listed'  BY EntryFixed DEF Records, Listed
<1>3. Marking'  BY EntryFixed DEF Records, Marking
<1> QED BY <1>1, <1>2, <1>3 DEF Records

\* Nothing is forgotten when nobody lets go of what it holds.
LEMMA RememberedSame ==
  ASSUME UNCHANGED <<items, attached, filer>>,
         \A t \in Threads, a \in Ids : Carries(t, a) => Carries(t, a)'
  PROVE  \A a \in Ids : \A b : Remembered(b, a) => Remembered(b, a)'
  BY EntryFixed DEF Remembered

\* An item that is saved where the bug's item, if any, is Completed: it is
\* the bug's only one, and all others stay.
LEMMA SavedAlone ==
  ASSUME items \in Seq(Item), OneItem, NEW b \in Bugs, NEW a \in Ids \cup {NotValid},
         Upsert(b, a) \/ (Insert(b, a) /\ \A i \in DOMAIN items : items[i].bug # b)
  PROVE  \E k \in DOMAIN items' :
           /\ items'[k] = InProgress(b, a)
           /\ \A i \in DOMAIN items' : i # k =>
                /\ i \in DOMAIN items /\ items'[i] = items[i]
                /\ items[i].bug # b
           /\ \A i \in DOMAIN items : items[i].bug # b =>
                i \in DOMAIN items' /\ items'[i] = items[i]
<1>1. PICK n \in Nat : n = Len(items) /\ DOMAIN items = 1 .. n  OBVIOUS
<1>2. CASE /\ items' = Append(items, InProgress(b, a))
           /\ \A i \in DOMAIN items : items[i].bug # b
  <2>1. /\ items'[n + 1] = InProgress(b, a) /\ DOMAIN items' = 1 .. n + 1
        /\ \A i \in 1 .. n : items'[i] = items[i]
    BY <1>1, <1>2
  <2>2. n + 1 \in DOMAIN items'  BY <1>1, <2>1
  <2> WITNESS n + 1 \in DOMAIN items'
  <2> QED BY <1>1, <1>2, <2>1
<1>3. CASE /\ \E i \in DOMAIN items : items[i].bug = b
           /\ items' = [i \in DOMAIN items |->
                          IF FirstOf(b, i) THEN InProgress(b, a) ELSE items[i]]
  <2>1. PICK k \in DOMAIN items : items[k].bug = b  BY <1>3
  <2>2. \A i \in DOMAIN items : items[i].bug = b => i = k
    BY <2>1 DEF OneItem
  <2>3. \A i \in DOMAIN items : FirstOf(b, i) <=> i = k
    BY <1>1, <2>1, <2>2 DEF FirstOf
  <2>4. k \in DOMAIN items'  BY <1>3
  <2> WITNESS k \in DOMAIN items'
  <2> QED BY <1>3, <2>2, <2>3
<1>4. CASE Insert(b, a) /\ \A i \in DOMAIN items : items[i].bug # b
  BY <1>2, <1>4 DEF Insert
<1>5. CASE Upsert(b, a)  BY <1>2, <1>3, <1>5 DEF Upsert
<1> QED BY <1>4, <1>5

\* Such an item disturbs no list, no mark and no other item.
LEMMA RecordsSaved ==
  ASSUME Typing, Records, NEW b \in Bugs, NEW a \in Ids \cup {NotValid},
         Upsert(b, a) \/ (Insert(b, a) /\ \A i \in DOMAIN items : items[i].bug # b),
         \A i \in DOMAIN items : items[i].bug = b => items[i].status = "Completed",
         UNCHANGED <<attached, filed, poller>>
  PROVE  /\ OneItem' /\ Listed' /\ Marking' /\ CompletedIsAttached'
         /\ \E i \in DOMAIN items' : items'[i] = InProgress(b, a)
         /\ \A i \in DOMAIN items' :
              items'[i].bug = b \/ (i \in DOMAIN items /\ items'[i] = items[i])
         /\ \A c, x : (\E i \in DOMAIN items : items[i] = InProgress(c, x))
                        => \E i \in DOMAIN items' : items'[i] = InProgress(c, x)
<1>1. items \in Seq(Item)  BY DEF Typing, TypeOK
<1>2. PICK k \in DOMAIN items' :
        /\ items'[k] = InProgress(b, a)
        /\ \A i \in DOMAIN items' : i # k =>
             /\ i \in DOMAIN items /\ items'[i] = items[i]
             /\ items[i].bug # b
        /\ \A i \in DOMAIN items : items[i].bug # b =>
             i \in DOMAIN items' /\ items'[i] = items[i]
  BY <1>1, SavedAlone DEF Records
<1>3. items'[k].bug = b /\ items'[k].status # "Completed"  BY <1>2, EntryFields
<1>4. OneItem'  BY <1>2, <1>3 DEF Records, OneItem
<1>5. CompletedIsAttached'
  BY <1>2, <1>3 DEF Records, CompletedIsAttached
<1>6. ASSUME NEW c, NEW x, \E i \in DOMAIN items : items[i] = InProgress(c, x)
      PROVE  \E i \in DOMAIN items' : items'[i] = InProgress(c, x)
  <2>1. PICK i \in DOMAIN items : items[i] = InProgress(c, x)  BY <1>6
  <2>2. items[i].status # "Completed"  BY <2>1, EntryFields
  <2>3. items[i].bug # b  BY <2>2
  <2> QED BY <1>2, <2>1, <2>3
<1>7. Listed'  BY <1>6, EntryFixed DEF Records, Listed
<1>8. Marking'
  <2> SUFFICES ASSUME NEW p \in Pollers, poller[p].at \in {"comment", "mark"}
               PROVE  /\ \A e \in poller[p].list : e.bug # poller[p].bug
                      /\ \E i \in DOMAIN items', x \in Ids :
                           /\ items'[i] = InProgress(poller[p].bug, x)
                           /\ attached[<<poller[p].bug, x>>] > 0
    BY EntryFixed DEF Marking
  <2>1. /\ \A e \in poller[p].list : e.bug # poller[p].bug
        /\ \E i \in DOMAIN items, x \in Ids :
             /\ items[i] = InProgress(poller[p].bug, x)
             /\ attached[<<poller[p].bug, x>>] > 0
    BY DEF Records, Marking
  <2> QED BY <1>6, <2>1
<1>9. \A i \in DOMAIN items' :
        items'[i].bug = b \/ (i \in DOMAIN items /\ items'[i] = items[i])
  BY <1>2, <1>3
<1> QED BY <1>2, <1>4, <1>5, <1>6, <1>7, <1>8, <1>9
\* A bug whose analysis is not running, as the query sees it, has no item
\* In Progress.
LEMMA NotRunning ==
  ASSUME items \in Seq(Item), OneItem, NEW b, ~AlreadyRunning(b)
  PROVE  \A i \in DOMAIN items : items[i].bug = b => items[i].status = "Completed"
<1> SUFFICES ASSUME NEW i \in DOMAIN items, items[i].bug = b
             PROVE  items[i].status = "Completed"
  OBVIOUS
<1>1. PICK n \in Nat : DOMAIN items = 1 .. n  BY SMT
<1>2. FirstOf(b, i)
  <2>1. \A j \in 1 .. i - 1 : j \in DOMAIN items /\ j # i  BY <1>1
  <2> QED BY <2>1 DEF OneItem, FirstOf
<1>3. items[i].status \in {"In Progress", "Completed"}
  <2>1. items[i] \in Item  OBVIOUS
  <2> QED BY <2>1 DEF Item
<1>4. items[i].status # "In Progress"  BY <1>2 DEF AlreadyRunning
<1> QED BY <1>3, <1>4

\* The steps of the plain request.
LEMMA FollowedPlain ==
  ASSUME Alone, Marked, Followed, NEW r \in Plain, PlainNext(r)
  PROVE  Followed'
<1> DEFINE n == NodeOf[r]
           field == bean[n].bugId
<1>1. Typing /\ Typing'  BY TypingPlain DEF Followed
<1>2. /\ r \in Threads /\ n \in Nodes /\ request[r] \in RequestState
      /\ request \in [Threads -> RequestState]
      /\ bean \in [Nodes -> Bean] /\ bean[n] \in Bean
      /\ items \in Seq(Item) /\ analysis \in [Ids -> Analysis]
      /\ PlainStage(request[r], bean[n])
      /\ NotValid \notin Ids
  BY <1>1, ThreadsOnNodes, NotValidIsNoId
  DEF Threads, Typing, TypeOK, Stages, FieldOf
<1>3. /\ \A t \in Threads : t = r
      /\ \A t \in Plain : t = r
      /\ "chironThrows" \notin Faults
  BY DEF Alone, Threads, Marked
<1>4. /\ request[r].at # "idle" => field \notin Synthetic
      /\ request[r].at \in {"trigger", "tell", "save"} =>
           \A i \in DOMAIN items : items[i].bug = field => items[i].status = "Completed"
      /\ \A a \in Ids : Carries(r, a) =>
           a \notin Unused /\ ~analysis[a].bucket /\ analysis[a].about = {field}
  BY DEF Followed, PlainFree, FieldOf
<1>5. Idle.at = "idle"  BY DEF Idle
\* Steps that change no document: what the request carries stays.
<1>6. ASSUME NEW s, request' = [request EXCEPT ![r] = s],
             NoneTold, UNCHANGED <<items, attached, filed, filer, poller>>,
             s.at # "idle" => bean'[n].bugId \notin Synthetic,
             s.at \in {"trigger", "tell", "save"} =>
               \A i \in DOMAIN items :
                 items[i].bug = bean'[n].bugId => items[i].status = "Completed",
             \A a \in Ids :
               (s.at \in {"tell", "save"} /\ s.id = a) <=> Carries(r, a),
             s.at \in {"tell", "save"} => bean'[n].bugId = field
      PROVE  Followed'
  <2>1. request'[r] = s  BY <1>2, <1>6
  <2>2. \A a \in Ids : Carries(r, a)' <=> Carries(r, a)  BY <1>6, <2>1 DEF Carries
  <2>3. \A a \in Ids : /\ a \in Unused' => a \in Unused /\ analysis'[a] = analysis[a]
                       /\ a \notin Unused => a \notin Unused' /\ analysis'[a] = analysis[a]
                       /\ analysis'[a].told \/ analysis'[a].bucket
                            => analysis'[a] = analysis[a]
    BY <1>6 DEF NoneTold, Unused
  <2>4. PlainFree'
    <3> SUFFICES /\ s.at # "idle" => bean'[n].bugId \notin Synthetic
                 /\ s.at \in {"trigger", "tell", "save"} =>
                      \A i \in DOMAIN items :
                        items[i].bug = bean'[n].bugId => items[i].status = "Completed"
                 /\ \A a \in Ids : Carries(r, a)' =>
                      /\ a \notin Unused' /\ ~analysis'[a].bucket
                      /\ analysis'[a].about = {bean'[n].bugId}
      BY <1>3, <1>6, <2>1 DEF PlainFree, FieldOf
    <3>1. \A a \in Ids : Carries(r, a)' => bean'[n].bugId = field
      BY <1>6, <2>1 DEF Carries
    <3> QED BY <1>4, <1>6, <2>2, <2>3, <3>1
  <2>5. Unasked'
    <3>1. \A a \in Unused' : a \in Ids  BY DEF Unused
    <3> QED BY <2>3, <3>1 DEF Followed, Unasked
  <2>6. \A t \in Threads, a \in Ids : Carries(t, a) => Carries(t, a)'
    BY <1>3, <2>2
  <2>7. \A a \in Ids : \A b : Remembered(b, a) => Remembered(b, a)'
    BY <1>6, <2>6, RememberedSame
  <2>8. AllRemembered'  BY <2>3, <2>7 DEF Followed, AllRemembered
  <2>9. Records'  BY <1>6, RecordsSame DEF Followed
  <2> QED BY <1>1, <2>4, <2>5, <2>8, <2>9 DEF Followed
<1>7. CASE \E b \in Bugs \ Synthetic : PlainAccept(r, b)
  <2>1. PICK b \in Bugs \ Synthetic : PlainAccept(r, b)  BY <1>7
  <2> DEFINE s == [Idle EXCEPT !.at = "check", !.bug = b]
  <2>2. s.at = "check"  BY DEF Idle
  <2>3. bean' = [bean EXCEPT ![n].bugId = b]  BY <2>1 DEF PlainAccept
  <2>4. bean'[n].bugId = b  BY <1>2, <2>3 DEF Bean
  <2>5. /\ request[r].at = "idle" /\ request' = [request EXCEPT ![r] = s]
        /\ UNCHANGED <<items, analysis, attached, filed, filer, poller>>
    BY <2>1 DEF PlainAccept, docs
  <2>6. \A a \in Ids : ~Carries(r, a)  BY <2>5 DEF Carries
  <2> HIDE DEF s
  <2> QED BY <1>6, <2>2, <2>4, <2>5, <2>6, SameTellsNone
<1>8. CASE PlainCheck(r)
  <2>1. PICK x \in {"answer", "trigger"} :
          /\ request' = [request EXCEPT ![r] = [request[r] EXCEPT !.at = x]]
          /\ \/ x = "answer" /\ bean' = [bean EXCEPT ![n].requestStatus = "In Progress"]
             \/ x = "trigger" /\ bean' = bean /\ ~AlreadyRunning(field)
    BY <1>8 DEF PlainCheck, Go, FieldOf
  <2> DEFINE s == [request[r] EXCEPT !.at = x]
  <2>2. s.at = x  BY <1>2 DEF RequestState
  <2>3. bean'[n].bugId = field  BY <1>2, <2>1 DEF Bean
  <2>4. /\ request[r].at = "check"
        /\ UNCHANGED <<items, analysis, attached, filed, filer, poller>>
    BY <1>8 DEF PlainCheck, docs
  <2>5. \A a \in Ids : ~Carries(r, a)  BY <2>4 DEF Carries
  <2>6. x = "trigger" =>
          \A i \in DOMAIN items : items[i].bug = field => items[i].status = "Completed"
    BY <1>2, <2>1, NotRunning DEF Followed, Records
  <2>7. request' = [request EXCEPT ![r] = s] /\ x \in {"answer", "trigger"}  BY <2>1
  <2>8. x \notin {"tell", "save"} /\ x # "idle"  BY <2>7
  <2> HIDE DEF s
  <2> QED BY <1>4, <1>6, <2>2, <2>3, <2>4, <2>5, <2>6, <2>7, <2>8, SameTellsNone
<1>9. CASE \E a \in Ids : PlainTrigger(r, a)
  <2>1. PICK a \in Ids : PlainTrigger(r, a)  BY <1>9
  <2> DEFINE s == [request[r] EXCEPT !.at = "tell", !.id = a]
  <2>2. s.at = "tell" /\ s.id = a  BY <1>2 DEF RequestState
  <2>3. /\ request[r].at = "trigger" /\ a \in Unused
        /\ request' = [request EXCEPT ![r] = s]
        /\ UNCHANGED <<items, attached, filed, filer, poller>>
    BY <1>2, <2>1 DEF PlainTrigger
  <2>4. bean'[n].bugId = field  BY <1>2, <2>1 DEF PlainTrigger, Bean
  <2>5. /\ analysis'[a].about = {field} /\ ~analysis'[a].bucket /\ a \notin Unused'
        /\ \A x \in Ids \ {a} : /\ analysis'[x] = analysis[x]
                                /\ x \in Unused' <=> x \in Unused
    <3>1. analysis[a].about = {}  BY <2>3 DEF Followed, Unasked
    <3>2. analysis' = [analysis EXCEPT ![a] =
                         [state |-> "running", about |-> {} \cup {field},
                          bucket |-> FALSE, told |-> TRUE]]
      BY <1>2, <2>1, <3>1 DEF PlainTrigger, Start, FieldOf
    <3> QED BY <1>2, <3>2 DEF Unused, Analysis
  <2>6. /\ request'[r].at = "tell" /\ request'[r].id = a
    BY <1>2, <2>2, <2>3
  <2>7. \A x \in Ids : ~Carries(r, x) /\ (Carries(r, x)' <=> x = a)
    BY <2>3, <2>6 DEF Carries
  <2>8. PlainFree'
    <3>1. \A i \in DOMAIN items' :
            items'[i].bug = field => items'[i].status = "Completed"
      BY <1>4, <2>3
    <3> QED BY <1>3, <1>4, <2>3, <2>4, <2>5, <2>6, <2>7, <3>1 DEF PlainFree, FieldOf
  <2>9. Unasked'  BY <2>5 DEF Followed, Unasked, Unused
  <2>10. \A x \in Ids : \A b : Remembered(b, x) => Remembered(b, x)'
    BY <1>3, <2>3, <2>7, RememberedSame
  <2>11. AllRemembered'
    <3> SUFFICES ASSUME NEW x \in Ids, analysis'[x].told, NEW b \in analysis'[x].about
                 PROVE  Remembered(b, x)'
      BY DEF AllRemembered
    <3>1. CASE x = a
      <4>1. Carries(r, x)'  BY <2>7, <3>1
      <4> QED BY <1>2, <4>1 DEF Remembered
    <3>2. CASE x # a  BY <2>5, <2>10, <3>2 DEF Followed, AllRemembered
    <3> QED BY <3>1, <3>2
  <2>12. Records'  BY <2>3, RecordsSame DEF Followed
  <2> QED BY <1>1, <2>8, <2>9, <2>11, <2>12 DEF Followed
<1>10. CASE PlainRefused(r)
  <2> DEFINE s == [request[r] EXCEPT !.at = "save", !.id = NotValid]
  <2>1. s.at = "save" /\ s.id = NotValid  BY <1>2 DEF RequestState
  <2>2. /\ request[r].at = "trigger" /\ request' = [request EXCEPT ![r] = s]
        /\ UNCHANGED <<items, attached, filed, filer, poller>>
    BY <1>2, <1>10 DEF PlainRefused
  <2>3. bean'[n].bugId = field  BY <1>2, <1>10 DEF PlainRefused, Bean
  <2>4. \A a \in Ids : ~Carries(r, a)  BY <2>2 DEF Carries
  <2>5. \A a \in Ids : (s.at \in {"tell", "save"} /\ s.id = a) <=> Carries(r, a)
    BY <1>2, <2>1, <2>4
  <2>6. /\ bean'[n].bugId \notin Synthetic
        /\ \A i \in DOMAIN items :
             items[i].bug = bean'[n].bugId => items[i].status = "Completed"
    BY <1>4, <2>2, <2>3
  <2>7. NoneTold  BY <1>2, <1>10, RefusedTellsNone DEF PlainRefused
  <2> HIDE DEF s
  <2> QED BY <1>6, <2>2, <2>3, <2>5, <2>6, <2>7
<1>11. CASE PlainTell(r) \/ PlainTellThrows(r)
  <2>1. PlainTell(r)  BY <1>3, <1>11 DEF PlainTellThrows, ChironMayThrow
  <2> DEFINE s == [request[r] EXCEPT !.at = "save"]
  <2>2. s.at = "save" /\ s.id = request[r].id  BY <1>2 DEF RequestState
  <2>3. /\ request[r].at = "tell" /\ request' = [request EXCEPT ![r] = s]
        /\ UNCHANGED <<items, analysis, attached, filed, filer, poller>>
        /\ bean' = bean
    BY <2>1 DEF PlainTell, Go
  <2>4. \A a \in Ids : (s.at \in {"tell", "save"} /\ s.id = a) <=> Carries(r, a)
    BY <2>2, <2>3 DEF Carries
  <2> HIDE DEF s
  <2> QED BY <1>4, <1>6, <2>2, <2>3, <2>4, SameTellsNone
<1>12. CASE PlainSave(r)
  <2> DEFINE s == [request[r] EXCEPT !.at = "answer"]
             a == request[r].id
  <2>1. s.at = "answer"  BY <1>2 DEF RequestState
  <2>2. /\ request[r].at = "save" /\ request' = [request EXCEPT ![r] = s]
        /\ UNCHANGED <<analysis, attached, filed, bean, filer, poller>>
        /\ Upsert(field, a)
    BY <1>12 DEF PlainSave, Go, FieldOf
  <2>3. a \in Ids \cup {NotValid} /\ field \in Bugs /\ field \notin Synthetic
    BY <1>2, <1>4, <2>2 DEF PlainStage
  <2>4. /\ OneItem' /\ Listed' /\ Marking' /\ CompletedIsAttached'
        /\ \E i \in DOMAIN items' : items'[i] = InProgress(field, a)
        /\ \A i \in DOMAIN items' :
             items'[i].bug = field \/ (i \in DOMAIN items /\ items'[i] = items[i])
        /\ \A c, x : (\E i \in DOMAIN items : items[i] = InProgress(c, x))
                       => \E i \in DOMAIN items' : items'[i] = InProgress(c, x)
    BY <1>1, <1>4, <2>2, <2>3, RecordsSaved DEF Followed
  <2>5. ItemsFiled'  BY <2>2, <2>3, <2>4 DEF Followed, Records, ItemsFiled
  <2>6. FilersFirst'
    <3>1. \A f \in Filers : filer[f] # None => filer[f].bug # field
      BY <1>1, <2>3 DEF Followed, Records, FilersFirst, Typing, TypeOK
    <3> QED BY <2>2, <2>4, <3>1 DEF Followed, Records, FilersFirst
  <2>7. Unused' = Unused  BY <2>2 DEF Unused
  <2>8. request'[r].at = "answer"  BY <1>2, <2>1, <2>2
  <2>9. PlainFree'
    <3>1. \A x \in Ids : ~Carries(r, x)'  BY <2>8 DEF Carries
    <3> QED BY <1>3, <2>2, <2>3, <2>8, <3>1 DEF PlainFree, FieldOf
  <2>10. Unasked'  BY <2>2, <2>7 DEF Followed, Unasked
  <2>11. AllRemembered'
    <3> SUFFICES ASSUME NEW x \in Ids, analysis[x].told, NEW b \in analysis[x].about
                 PROVE  Remembered(b, x)'
      BY <2>2 DEF AllRemembered
    <3>1. Remembered(b, x)  BY DEF Followed, AllRemembered
    <3>2. CASE Carries(r, x)
      <4>1. b = field /\ x = a  BY <1>4, <3>2 DEF Carries
      <4> QED BY <2>4, <4>1, EntryFixed DEF Remembered
    <3>3. CASE ~Carries(r, x)
      <4>1. \A t \in Threads : ~Carries(t, x)  BY <1>3, <3>3
      <4> QED BY <2>2, <2>4, <3>1, <4>1, EntryFixed DEF Remembered
    <3> QED BY <3>2, <3>3
  <2> QED BY <1>1, <2>4, <2>5, <2>6, <2>9, <2>10, <2>11 DEF Followed, Records
<1>13. CASE PlainAnswer(r)
  <2>1. /\ request[r].at = "answer" /\ request' = [request EXCEPT ![r] = Idle]
        /\ UNCHANGED <<items, analysis, attached, filed, bean, filer, poller>>
    BY <1>13 DEF PlainAnswer, docs
  <2>2. \A a \in Ids : ~Carries(r, a)  BY <2>1 DEF Carries
  <2> QED BY <1>5, <1>6, <2>1, <2>2, SameTellsNone
<1> QED BY <1>7, <1>8, <1>9, <1>10, <1>11, <1>12, <1>13 DEF PlainNext
\* Filing a bug and saving its item.
LEMMA FollowedFiler ==
  ASSUME Marked, Followed, NEW f \in Filers, FilerNext(f)
  PROVE  Followed'
<1>1. Typing /\ Typing'  BY TypingFiler DEF Followed
<1>2. /\ filer \in [Filers -> Entry \cup {None}] /\ analysis \in [Ids -> Analysis]
      /\ items \in Seq(Item) /\ filed \subseteq Synthetic
  BY <1>1 DEF Typing, TypeOK
<1>3. /\ \A b \in Bugs, a \in Ids : [bug |-> b, id |-> a] # None
      /\ None \notin Ids /\ NotValid \notin Ids
  BY NoneNoEntry, NoneNotData, NotValidIsNoId DEF Entry
<1>4. \A x \in Ids : \A c \in analysis[x].about :
        c \in Bugs /\ (analysis[x].told => Remembered(c, x))
  BY <1>2 DEF Followed, AllRemembered, Analysis
<1>5. CASE \E b \in Synthetic, a \in Ids \cup {NotValid, None} : FileBug(f, b, a)
  <2>1. PICK b \in Synthetic, a \in Ids \cup {NotValid, None} : FileBug(f, b, a)
    BY <1>5
  <2>2. /\ UNCHANGED <<items, attached, bean, request, poller>>
        /\ b \notin filed /\ filed' = filed \cup {b} /\ filer[f] = None
        /\ a \in Ids => a \in Unused \/ analysis[a].bucket
        /\ b \in Bugs
    BY <2>1, SyntheticBugs DEF FileBug
  <2>3. /\ \A g \in Filers \ {f} : filer'[g] = filer[g]
        /\ filer'[f] = IF a = None THEN None ELSE [bug |-> b, id |-> a]
    <3>1. "chironThrows" \notin Faults  BY DEF Marked
    <3> QED BY <1>2, <2>1, <3>1 DEF FileBug, ChironMayThrow
  <2>4. /\ \A x \in Ids \ {a} : /\ analysis'[x] = analysis[x]
                                /\ x \in Unused' <=> x \in Unused
        /\ a \in Ids => /\ a \notin Unused'
                        /\ analysis'[a].about = analysis[a].about \cup {b}
                        /\ analysis'[a].told
    BY <1>2, <2>1 DEF FileBug, Unused, Analysis
  <2>5. PlainFree'
    <3>1. \A r \in Plain, x \in Ids : Carries(r, x) => x # a
      BY <2>2 DEF Followed, PlainFree
    <3>2. \A r \in Plain, x \in Ids : Carries(r, x)' <=> Carries(r, x)
      BY <2>2 DEF Carries
    <3> QED BY <2>2, <2>4, <3>1, <3>2 DEF Followed, PlainFree, FieldOf
  <2>6. Unasked'  BY <2>4 DEF Followed, Unasked, Unused
  <2>7. AllRemembered'
    <3> SUFFICES ASSUME NEW x \in Ids, analysis'[x].told, NEW c \in analysis'[x].about
                 PROVE  Remembered(c, x)'
      BY DEF AllRemembered
    <3>1. CASE x = a /\ c = b
      <4>1. filer'[f] = [bug |-> c, id |-> x]  BY <1>3, <2>3, <3>1
      <4> QED BY <4>1 DEF Remembered
    <3>2. CASE ~(x = a /\ c = b)
      <4>1. c \in Bugs /\ Remembered(c, x)
        <5>1. c \in analysis[x].about  BY <2>4, <3>2
        <5>2. analysis[x].told
          BY <2>2, <2>4, <5>1 DEF Followed, Unasked
        <5> QED BY <1>4, <5>1, <5>2
      <4>2. \A g \in Filers : filer[g] = [bug |-> c, id |-> x] => filer'[g] = filer[g]
        BY <1>3, <2>2, <2>3, <4>1
      <4>3. \A t \in Threads : Carries(t, x)' <=> Carries(t, x)
        BY <2>2 DEF Carries
      <4> QED BY <2>2, <4>1, <4>2, <4>3, EntryFixed DEF Remembered
    <3> QED BY <3>1, <3>2
  <2>8. FilersFirst'
    <3>1. \A i \in DOMAIN items : items[i].bug # b
      BY <2>2 DEF Followed, Records, ItemsFiled
    <3>2. filer'[f] # None => filer'[f].bug = b  BY <2>3
    <3>3. \A g \in Filers \ {f} : filer'[g] # None =>
            filer'[g].bug # b /\ filer'[g] = filer[g]
      BY <2>2, <2>3 DEF Followed, Records, FilersFirst
    <3> SUFFICES ASSUME NEW g \in Filers, filer'[g] # None
                 PROVE  /\ filer'[g].bug \in filed'
                        /\ \A i \in DOMAIN items' : items'[i].bug # filer'[g].bug
                        /\ \A h \in Filers :
                             filer'[h] # None /\ filer'[h].bug = filer'[g].bug => h = g
      BY DEF FilersFirst
    <3>4. CASE g = f  BY <2>2, <3>1, <3>2, <3>3, <3>4
    <3>5. CASE g # f
      BY <2>2, <3>2, <3>3, <3>5 DEF Followed, Records, FilersFirst
    <3> QED BY <3>4, <3>5
  <2>9. OneItem' /\ ItemsFiled' /\ CompletedIsAttached'
    BY <2>2 DEF Followed, Records, OneItem, ItemsFiled, CompletedIsAttached
  <2>10. Listed' /\ Marking'
    BY <2>2, EntryFixed DEF Followed, Records, Listed, Marking
  <2> QED BY <1>1, <2>5, <2>6, <2>7, <2>8, <2>9, <2>10 DEF Followed, Records
<1>6. CASE FileItem(f)
  <2> DEFINE b == filer[f].bug
             a == filer[f].id
  <2>1. /\ filer[f] # None /\ filer[f] \in Entry
        /\ b \in Bugs /\ a \in Ids \cup {NotValid}
        /\ filer[f] = [bug |-> b, id |-> a]
    BY <1>2, <1>6 DEF FileItem, Entry
  <2>2. /\ UNCHANGED <<analysis, attached, filed, bean, request, poller>>
        /\ filer' = [filer EXCEPT ![f] = None]
        /\ Insert(b, a)
    BY <1>6 DEF FileItem
  <2>3. /\ b \in filed /\ b \in Synthetic
        /\ \A i \in DOMAIN items : items[i].bug # b
        /\ \A g \in Filers \ {f} : filer[g] # None => filer[g].bug # b
    BY <1>2, <2>1 DEF Followed, Records, FilersFirst
  <2>4. /\ OneItem' /\ Listed' /\ Marking' /\ CompletedIsAttached'
        /\ \E i \in DOMAIN items' : items'[i] = InProgress(b, a)
        /\ \A i \in DOMAIN items' :
             items'[i].bug = b \/ (i \in DOMAIN items /\ items'[i] = items[i])
        /\ \A c, x : (\E i \in DOMAIN items : items[i] = InProgress(c, x))
                       => \E i \in DOMAIN items' : items'[i] = InProgress(c, x)
    BY <1>1, <2>1, <2>2, <2>3, RecordsSaved DEF Followed
  <2>5. \A g \in Filers : /\ g = f => filer'[g] = None
                          /\ g # f => filer'[g] = filer[g]
    BY <1>2, <2>2
  <2>6. ItemsFiled'  BY <2>2, <2>3, <2>4 DEF Followed, Records, ItemsFiled
  <2>7. FilersFirst'
    BY <2>2, <2>3, <2>4, <2>5 DEF Followed, Records, FilersFirst
  <2>8. Unused' = Unused /\ \A t \in Threads, x \in Ids : Carries(t, x)' <=> Carries(t, x)
    BY <2>2 DEF Unused, Carries
  <2>9. Unasked'  BY <2>2, <2>8 DEF Followed, Unasked
  <2>10. PlainFree'
    <3>1. \A r \in Plain : r \in Threads  BY DEF Threads
    <3> SUFFICES ASSUME NEW r \in Plain
                 PROVE  /\ request[r].at # "idle" => FieldOf(r).bugId \notin Synthetic
                        /\ request[r].at \in {"trigger", "tell", "save"} =>
                             \A i \in DOMAIN items' :
                               items'[i].bug = FieldOf(r).bugId
                                 => items'[i].status = "Completed"
                        /\ \A x \in Ids : Carries(r, x) =>
                             /\ x \notin Unused /\ ~analysis[x].bucket
                             /\ analysis[x].about = {FieldOf(r).bugId}
      BY <2>2, <2>8, <3>1 DEF PlainFree, FieldOf
    <3> QED BY <2>3, <2>4 DEF Followed, PlainFree
  <2>11. AllRemembered'
    <3> SUFFICES ASSUME NEW x \in Ids, analysis[x].told, NEW c \in analysis[x].about
                 PROVE  Remembered(c, x)'
      BY <2>2 DEF AllRemembered
    <3>1. c \in Bugs /\ Remembered(c, x)  BY <1>4
    <3>2. CASE filer[f] = [bug |-> c, id |-> x]
      <4>1. c = b /\ x = a  BY <2>1, <3>2
      <4> QED BY <2>4, <4>1, EntryFixed DEF Remembered
    <3>3. CASE filer[f] # [bug |-> c, id |-> x]
      BY <2>2, <2>4, <2>5, <2>8, <3>1, <3>3, EntryFixed DEF Remembered
    <3> QED BY <3>2, <3>3
  <2> QED BY <1>1, <2>4, <2>6, <2>7, <2>9, <2>10, <2>11 DEF Followed, Records
<1> QED BY <1>5, <1>6 DEF FilerNext

\* The poller.
LEMMA FollowedPoller ==
  ASSUME Alone, Marked, Followed, NEW p \in Pollers, PollerNext(p)
  PROVE  Followed'
<1>1. Typing /\ Typing'  BY TypingPoller DEF Followed
<1>2. /\ poller \in [Pollers -> PollerState] /\ items \in Seq(Item)
      /\ attached \in [Bugs \X Ids -> 0 .. 2] /\ poller[p] \in PollerState
      /\ analysis \in [Ids -> Analysis]
  BY <1>1 DEF Typing, TypeOK
<1>3. UNCHANGED <<analysis, filed, bean, request, filer>>
  BY DEF PollerNext, PollerStart, PollerSkip, PollerAttach, PollerComment,
     PollerMark, PollerEnd, docs
<1>4. /\ Unused' = Unused
      /\ \A t \in Threads, a \in Ids : Carries(t, a)' <=> Carries(t, a)
  BY <1>3 DEF Unused, Carries
<1>5. (\A q \in Pollers : q = p) /\ "chironThrows" \notin Faults
  BY DEF Alone, OnePoller, Marked
<1>6. Unasked'  BY <1>3, <1>4 DEF Followed, Unasked
<1>7. \A a \in Ids : \A b \in analysis[a].about :
        b \in Bugs /\ (analysis[a].told => Remembered(b, a))
  BY <1>2 DEF Followed, AllRemembered, Analysis
\* Steps that leave the documents.
<1>8. ASSUME items' = items,
             \A b \in Bugs, a \in Ids : attached[<<b, a>>] > 0 => attached'[<<b, a>>] > 0,
             Listed', Marking'
      PROVE  Followed'
  <2>1. PlainFree'
    BY <1>3, <1>4, <1>8 DEF Followed, PlainFree, FieldOf, Threads
  <2>2. AllRemembered'
    BY <1>3, <1>4, <1>7, <1>8, EntryFixed DEF AllRemembered, Remembered
  <2>3. OneItem' /\ ItemsFiled' /\ FilersFirst'
    BY <1>3, <1>8 DEF Followed, Records, OneItem, ItemsFiled, FilersFirst
  <2>4. CompletedIsAttached'
    <3>1. \A i \in DOMAIN items : items[i].bug \in Bugs  BY <1>2, ItemEither
    <3> QED BY <1>8, <3>1 DEF Followed, Records, CompletedIsAttached
  <2> QED BY <1>1, <1>6, <1>8, <2>1, <2>2, <2>3, <2>4 DEF Followed, Records
\* Most of them leave what is attached as well, and only shorten the list.
<1>9. ASSUME UNCHANGED <<items, attached>>, poller'[p].list \subseteq poller[p].list,
             poller'[p].at \in {"comment", "mark"} =>
               poller[p].at \in {"comment", "mark"} /\ poller'[p].bug = poller[p].bug
      PROVE  Followed'
  <2>1. Listed'  BY <1>5, <1>9, EntryFixed DEF Followed, Records, Listed
  <2>2. Marking'
    <3> SUFFICES ASSUME poller'[p].at \in {"comment", "mark"}
                 PROVE  /\ \A e \in poller'[p].list : e.bug # poller'[p].bug
                        /\ \E i \in DOMAIN items', a \in Ids :
                             /\ items'[i] = InProgress(poller'[p].bug, a)
                             /\ attached'[<<poller'[p].bug, a>>] > 0
      BY <1>5, EntryFixed DEF Marking
    <3>1. poller[p].at \in {"comment", "mark"} /\ poller'[p].bug = poller[p].bug
      BY <1>9
    <3> QED BY <1>9, <3>1 DEF Followed, Records, Marking
  <2> QED BY <1>8, <1>9, <2>1, <2>2
<1>10. CASE PollerStart(p)
  <2>1. /\ UNCHANGED <<items, attached>> /\ poller'[p].list = Triggered
        /\ poller'[p].at = "next"
    BY <1>2, <1>10 DEF PollerStart, docs, PollerState
  <2>2. \A e \in Triggered : \E i \in DOMAIN items : items[i] = InProgress(e.bug, e.id)
    <3> SUFFICES ASSUME NEW e \in Triggered
                 PROVE  \E i \in DOMAIN items : items[i] = InProgress(e.bug, e.id)
      OBVIOUS
    <3>1. PICK i \in DOMAIN items :
            /\ items[i].status = "In Progress"
            /\ e = [bug |-> items[i].bug, id |-> items[i].id]
      BY DEF Triggered
    <3>2. e.bug = items[i].bug /\ e.id = items[i].id  BY <3>1
    <3>3. items[i].status # "Completed"  BY <3>1
    <3>4. items[i] = InProgress(items[i].bug, items[i].id)  BY <1>2, <3>3, ItemEither
    <3> QED BY <3>2, <3>4
  <2>3. Listed'  BY <1>5, <2>1, <2>2, EntryFixed DEF Listed
  <2>4. Marking'  BY <1>5, <2>1 DEF Marking
  <2> QED BY <1>8, <2>1, <2>3, <2>4
<1>11. CASE \E e \in Entry : PollerSkip(p, e)
  <2>1. PICK e \in Entry : PollerSkip(p, e)  BY <1>11
  <2>2. /\ poller'[p].list = poller[p].list \ {e} /\ poller'[p].at = "next"
        /\ UNCHANGED <<items, attached>>
    BY <1>2, <2>1 DEF PollerSkip, PollerState, docs
  <2> QED BY <1>9, <2>2
<1>12. CASE \E e \in Entry : PollerAttach(p, e)
  <2>1. PICK e \in Entry : PollerAttach(p, e)  BY <1>12
  <2>2. /\ items' = items /\ e \in poller[p].list
        /\ poller'[p].list = poller[p].list \ {e}
        /\ poller'[p].at = "comment" /\ poller'[p].bug = e.bug
    BY <1>2, <1>5, <2>1 DEF PollerAttach, ChironMayThrow, PollerState
  <2>3. e.bug \in Bugs /\ e.id \in Ids
    BY <2>1 DEF PollerAttach, HasResult, Entry
  <2>4. PICK b \in Bugs : b = e.bug  BY <2>3
  <2>5. PICK a \in Ids : a = e.id  BY <2>3
  <2>6. /\ attached'[<<b, a>>] > 0
        /\ \A c \in Bugs, x \in Ids : attached[<<c, x>>] > 0 => attached'[<<c, x>>] > 0
    BY <1>2, <2>1, <2>4, <2>5 DEF PollerAttach, Attach
  <2>7. PICK i \in DOMAIN items : items[i] = InProgress(b, a)
    BY <2>2, <2>4, <2>5 DEF Followed, Records, Listed
  <2>8. \A d \in poller[p].list : d.bug = b => d = e
    <3> SUFFICES ASSUME NEW d \in poller[p].list, d.bug = b PROVE d = e
      OBVIOUS
    <3>1. PICK j \in DOMAIN items : items[j] = InProgress(d.bug, d.id)
      BY DEF Followed, Records, Listed
    <3>2. items[j].bug = items[i].bug  BY <2>7, <3>1, EntryFields
    <3>3. j = i  BY <3>2 DEF Followed, Records, OneItem
    <3>4. d.id = a
      <4>1. items[i].id = a /\ items[j].id = d.id  BY <2>7, <3>1, EntryFields
      <4> QED BY <3>3, <4>1
    <3>5. d \in Entry  BY <1>2 DEF PollerState
    <3> QED BY <2>1, <2>4, <2>5, <3>4, <3>5 DEF Entry
  <2>9. Listed'  BY <1>5, <2>2, EntryFixed DEF Followed, Records, Listed
  <2>10. Marking'
    <3>1. \A d \in poller'[p].list : d.bug # b  BY <2>2, <2>8
    <3> QED BY <1>5, <2>2, <2>4, <2>6, <2>7, <3>1, EntryFixed DEF Marking
  <2> QED BY <1>8, <2>2, <2>6, <2>9, <2>10
<1>13. CASE PollerComment(p)
  <2>1. /\ poller'[p].list = poller[p].list /\ poller'[p].bug = poller[p].bug
        /\ poller[p].at = "comment"
        /\ UNCHANGED <<items, attached>>
    BY <1>2, <1>5, <1>13 DEF PollerComment, ChironMayThrow, PollerState, docs
  <2> QED BY <1>9, <2>1
<1>14. CASE PollerMark(p)
  <2> DEFINE bug == poller[p].bug
  <2>1. /\ poller'[p].list = poller[p].list /\ attached' = attached
        /\ poller[p].at = "mark" /\ poller'[p].at = "next"
        /\ DOMAIN items' = DOMAIN items
    BY <1>2, <1>14 DEF PollerMark, PollerState, MarkCompleted
  <2>2. \A i \in DOMAIN items :
          /\ items'[i].bug = items[i].bug /\ items'[i].id = items[i].id
          /\ items[i].bug = bug => items'[i].status = "Completed"
          /\ items[i].bug # bug => items'[i] = items[i]
    <3>1. \A i \in DOMAIN items : items[i] \in Item  BY <1>2
    <3> QED BY <1>14, <3>1 DEF PollerMark, MarkCompleted, Item
  <2>3. PICK k \in DOMAIN items, a \in Ids :
          items[k] = InProgress(bug, a) /\ attached[<<bug, a>>] > 0
    BY <2>1 DEF Followed, Records, Marking
  <2>4. /\ items[k].bug = bug /\ items[k].id = a
        /\ \A i \in DOMAIN items : items[i].bug = bug => i = k
    BY <2>3, EntryFields DEF Followed, Records, OneItem
  <2>5. OneItem' /\ ItemsFiled' /\ FilersFirst'
    BY <1>3, <2>1, <2>2 DEF Followed, Records, OneItem, ItemsFiled, FilersFirst
  <2>6. CompletedIsAttached'
    BY <2>1, <2>2, <2>3, <2>4 DEF Followed, Records, CompletedIsAttached
  <2>7. Listed'
    <3> SUFFICES ASSUME NEW e \in poller[p].list
                 PROVE  \E i \in DOMAIN items' : items'[i] = InProgress(e.bug, e.id)
      BY <1>5, <2>1, EntryFixed DEF Listed
    <3>1. PICK i \in DOMAIN items : items[i] = InProgress(e.bug, e.id)
      BY DEF Followed, Records, Listed
    <3>2. e.bug # bug  BY <2>1 DEF Followed, Records, Marking
    <3>3. items[i].bug = e.bug  BY <3>1, EntryFields
    <3> QED BY <2>1, <2>2, <3>1, <3>2, <3>3
  <2>8. Marking'  BY <1>5, <2>1 DEF Marking
  <2>9. PlainFree'
    BY <1>3, <1>4, <2>1, <2>2 DEF Followed, PlainFree, FieldOf, Threads
  <2>10. AllRemembered'
    <3> SUFFICES ASSUME NEW x \in Ids, analysis[x].told, NEW b \in analysis[x].about
                 PROVE  Remembered(b, x)'
      BY <1>3 DEF AllRemembered
    <3>1. Remembered(b, x)  BY <1>7
    <3>2. CASE \E i \in DOMAIN items : items[i] = InProgress(b, x)
      <4>1. PICK i \in DOMAIN items : items[i] = InProgress(b, x)  BY <3>2
      <4>2. items[i].bug = b /\ items[i].id = x  BY <4>1, EntryFields
      <4>3. CASE b = bug
        <5>1. x = a  BY <2>4, <4>2, <4>3
        <5> QED BY <2>1, <2>3, <4>3, <5>1 DEF Remembered
      <4>4. CASE b # bug
        <5>1. items'[i] = InProgress(b, x)  BY <2>2, <4>1, <4>2, <4>4
        <5> QED BY <2>1, <5>1, EntryFixed DEF Remembered
      <4> QED BY <4>3, <4>4
    <3>3. CASE ~\E i \in DOMAIN items : items[i] = InProgress(b, x)
      BY <1>3, <1>4, <2>1, <3>1, <3>3 DEF Remembered
    <3> QED BY <3>2, <3>3
  <2> QED BY <1>1, <1>6, <2>5, <2>6, <2>7, <2>8, <2>9, <2>10 DEF Followed, Records
<1>15. CASE PollerEnd(p)
  <2>1. /\ poller'[p].list = {} /\ poller'[p].at = "idle"
        /\ UNCHANGED <<items, attached>>
    BY <1>2, <1>15 DEF PollerEnd, IdlePoller, docs
  <2> QED BY <1>9, <2>1
<1> QED BY <1>10, <1>11, <1>12, <1>13, <1>14, <1>15 DEF PollerNext

\* JN's own steps and a stutter.
LEMMA FollowedOther ==
  ASSUME Marked, Followed,
         (\E a \in Ids : JNEnds(a)) \/ (\E n \in Nodes : Crash(n)) \/ UNCHANGED vars
  PROVE  Followed'
<1>1. Typing'  BY TypingOther DEF Followed
<1>2. /\ UNCHANGED <<items, attached, filed, bean, request, filer, poller>>
      /\ \A x \in Ids : /\ analysis'[x].bucket = analysis[x].bucket
                        /\ analysis'[x].about = analysis[x].about
                        /\ analysis'[x].told = analysis[x].told
                        /\ x \in Unused' <=> x \in Unused
  <2>1. CASE \E a \in Ids : JNEnds(a)
    <3>1. PICK a \in Ids : JNEnds(a)  BY <2>1
    <3>2. analysis \in [Ids -> Analysis]  BY DEF Followed, Typing, TypeOK
    <3>3. PICK s \in {"completed", "ended"} : analysis' = [analysis EXCEPT ![a].state = s]
      BY <3>1 DEF JNEnds
    <3> QED BY <3>1, <3>2, <3>3 DEF JNEnds, Unused, Analysis
  <2>2. CASE \E n \in Nodes : Crash(n)  BY <2>2 DEF Crash, Marked
  <2>3. CASE UNCHANGED vars  BY <2>3 DEF vars, docs, Unused
  <2> QED BY <2>1, <2>2, <2>3
<1>3. \A t \in Threads, a \in Ids : Carries(t, a)' <=> Carries(t, a)
  BY <1>2 DEF Carries
<1>4. Records'  BY <1>2, RecordsSame DEF Followed
<1>5. PlainFree'
  BY <1>2, <1>3 DEF Followed, PlainFree, FieldOf, Threads
<1>6. Unasked'  BY <1>2 DEF Followed, Unasked, Unused
<1>7. \A a \in Ids : \A b : Remembered(b, a) => Remembered(b, a)'
  BY <1>2, <1>3, RememberedSame
<1>8. AllRemembered'  BY <1>2, <1>7 DEF Followed, AllRemembered
<1> QED BY <1>1, <1>4, <1>5, <1>6, <1>8 DEF Followed

\* Every step keeps it; there are no synthetic requests.
LEMMA FollowedNext == ASSUME Alone, Marked, Followed, [Next]_vars PROVE Followed'
<1>1. Synth = {}  BY DEF Alone
<1> QED BY <1>1, FollowedPlain, FollowedFiler, FollowedPoller, FollowedOther DEF Next

\* When no request is synthetic, plain requests come one at a time and one
\* poller looks, for any number of bugs, filings and analyses: what is Completed
\* has its result in Chiron, unless Chiron throws or a node stops.
THEOREM CompletedHasResult ==
  ASSUME Alone, Marked PROVE Spec => []CompletedIsAttached
<1>1. Init => Followed  BY FollowedInit
<1>2. Followed /\ [Next]_vars => Followed'  BY FollowedNext
<1>3. Followed => CompletedIsAttached  BY DEF Followed, Records
<1> QED BY <1>1, <1>2, <1>3, PTL DEF Spec

\* Under the same conditions (no synthetic request, plain ones one at a time,
\* one poller, Chiron does not throw, no node stops) no analysis whose id JN's
\* answer delivered is forgotten, whatever other answers of JN are lost: Upsert
\* and the mark write over nothing that is still to be looked at.
THEOREM NoneForgotten ==
  ASSUME Alone, Marked PROVE Spec => []NothingForgotten
<1>1. Init => Followed  BY FollowedInit
<1>2. Followed /\ [Next]_vars => Followed'  BY FollowedNext
<1>3. Followed => NothingForgotten
  BY DEF Followed, AllRemembered, Remembered, Carries, NothingForgotten
<1> QED BY <1>1, <1>2, <1>3, PTL DEF Spec
=============================================================================
