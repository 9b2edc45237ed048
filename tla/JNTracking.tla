----------------------------- MODULE JNTracking -----------------------------
(***************************************************************************)
(* JN analyses asked for by hand or at filing, and the poller that brings  *)
(* their results into Chiron.                                              *)
(*                                                                         *)
(* The collection JNAnalysisTriggerData has one document per analysis      *)
(* triggered, with no unique key but Mongo's own: items is the sequence of *)
(* its documents in the order they were inserted, which is the order find  *)
(* returns.  Three parties write it:                                       *)
(*   - request threads: /trigger/bug for a bug of Bugzilla ("plain",       *)
(*     JNBugzillaBugAnalysisService) or of Chiron ("synthetic",            *)
(*     JNSyntheticBugAnalysisServiceImpl), the latter also for all bugs    *)
(*     of the last two hours when it is given none;                        *)
(*   - filers: BugCreator, for the analysis of the bucket a bug is filed   *)
(*     for;                                                                *)
(*   - pollers: JuggernautAttachmentStep, every 15 minutes on the master.  *)
(*     Two are live when the master changes during a pass.                 *)
(*                                                                         *)
(* The services and steps are singleton beans, with their inputs and       *)
(* outputs in fields: all threads of a node share the record bean[n].  A   *)
(* step is one access to the collection, one call to JN or Chiron, or the  *)
(* use of a field that another thread of the node may have changed; field  *)
(* accesses with nothing slow between them are one step.                   *)
(***************************************************************************)
EXTENDS Naturals, Sequences

CONSTANTS
  Bugs,
  Synthetic,   \* the bugs of Chiron, the rest are of Bugzilla
  Ids,         \* JN's analysis ids
  NotValid,    \* "Not Valid", what the gateway makes of a failed trigger
  None,        \* null
  Nodes, Plain, Synth, Filers, Pollers,
  NodeOf,      \* the node a request thread is on
  Faults       \* what may go wrong in the environment, out of FaultKinds

FaultKinds == {"chironThrows",  \* a call throws, its effect taken or not
               "jnThrows",      \* JN refuses, or its answer is lost: the
                                \* analysis that was asked for runs, or none
               "noPdf",         \* an analysis ends without a result
               "crash"}         \* the node of a thread stops

ASSUME NoneNotData == None \notin Bugs \cup Ids \cup {NotValid}
ASSUME NotValidIsNoId == NotValid \notin Ids
ASSUME SyntheticBugs == Synthetic \subseteq Bugs
ASSUME ThreadsOnNodes == NodeOf \in [Plain \cup Synth -> Nodes]
ASSUME ThreadsDiffer == Plain \cap Synth = {}
ASSUME KnownFaults == Faults \subseteq FaultKinds

VARIABLES
  items,     \* collection JNAnalysisTriggerData
  analysis,  \* what JN has been asked, and how far it is
  shown,     \* jnAnalysisId of a bug in Chiron
  attached,  \* how often a result was attached to a bug, 2 for "or more"
  filed,     \* the synthetic bugs that exist
  bean,      \* the fields of the beans of a node
  request, filer, poller   \* the threads

docs == <<items, analysis, shown, attached, filed>>
vars == <<docs, bean, request, filer, poller>>

Threads == Plain \cup Synth
Answers == {"Triggered", "In Progress", "Invalid Request"}

Entry == [bug: Bugs, id: Ids \cup {NotValid}]
ASSUME NoneNoEntry == None \notin Entry

Item == [bug: Bugs, id: Ids \cup {NotValid}, status: {"In Progress", "Completed"}]

Analysis == [state: {"unknown", "running", "completed", "ended"},
             about: SUBSET Bugs,    \* the bugs JN was asked about
             bucket: BOOLEAN,       \* asked for a bucket of failures
             told: BOOLEAN]         \* JN's answer, with the id, was read

Bean ==
  [bugId: Bugs \cup {None},             \* JNBugzillaBugAnalysisService
   requestStatus: Answers \cup {None},
   inputBugId: Bugs \cup {None},        \* JNSyntheticBugAnalysisServiceImpl
   bugs: SUBSET Bugs,                   \* BugDetailsCollectorStep
   bugList: SUBSET Bugs]                \* JuggernautAnalyserStep

FreshBean ==
  [bugId |-> None, requestStatus |-> None, inputBugId |-> None,
   bugs |-> {}, bugList |-> {}]

RequestState ==
  [at: {"idle", "execute", "collect", "check", "dedup", "loop", "trigger",
        "tell", "save", "answer"},
   todo: SUBSET Bugs,                   \* rest of the list being iterated
   kept: SUBSET Bugs,                   \* bugListAfterDedup
   bug: Bugs \cup {None},               \* the bug asked for; in a loop, at hand
   id: Ids \cup {NotValid, None}]       \* analysisRequestId

Idle == [at |-> "idle", todo |-> {}, kept |-> {}, bug |-> None, id |-> None]

PollerState == [at: {"idle", "next", "comment", "mark"},
                list: SUBSET Entry,     \* triggeredItemsList
                bug: Bugs \cup {None}]

IdlePoller == [at |-> "idle", list |-> {}, bug |-> None]

\* Everything has its type.
TypeOK ==
  /\ items \in Seq(Item)
  /\ analysis \in [Ids -> Analysis]
  /\ shown \in [Bugs -> Ids \cup {None}]
  /\ attached \in [Bugs \X Ids -> 0 .. 2]
  /\ filed \subseteq Synthetic
  /\ bean \in [Nodes -> Bean]
  /\ request \in [Threads -> RequestState]
  /\ filer \in [Filers -> Entry \cup {None}]
  /\ poller \in [Pollers -> PollerState]

\* Bugs may have been filed before, for buckets without an analysis.
Init ==
  /\ items = <<>>
  /\ analysis = [a \in Ids |-> [state |-> "unknown", about |-> {},
                                bucket |-> FALSE, told |-> FALSE]]
  /\ shown = [b \in Bugs |-> None]
  /\ attached = [e \in Bugs \X Ids |-> 0]
  /\ filed \in SUBSET Synthetic
  /\ bean = [n \in Nodes |-> FreshBean]
  /\ request = [t \in Threads |-> Idle]
  /\ filer = [f \in Filers |-> None]
  /\ poller = [p \in Pollers |-> IdlePoller]

-----------------------------------------------------------------------------
(***************************************************************************)
(* The collection, JuggernautRepository.                                   *)
(***************************************************************************)
FirstOf(b, i) ==
  /\ items[i].bug = b
  /\ \A j \in 1 .. i - 1 : items[j].bug # b

InProgress(b, a) == [bug |-> b, id |-> a, status |-> "In Progress"]

\* Mutant: the wrong status is compared.
AlreadyRunningInverted(b) ==
  \E i \in DOMAIN items : FirstOf(b, i) /\ items[i].status = "Completed"

\* isJNAlreadyRunningForBug looks at the first document of the bug only.
AlreadyRunning(b) ==
  \E i \in DOMAIN items : FirstOf(b, i) /\ items[i].status = "In Progress"

\* Mutant: the query has no criterion; bugId is not among the fields set.
UpsertAnywhere(b, a) ==
  items' = IF items # <<>>
           THEN [items EXCEPT ![1] =
                 [@ EXCEPT !.id = a, !.status = "In Progress"]]
           ELSE Append(items, InProgress(b, a))

\* updateBugStatus: an upsert changes the first match, or inserts.
Upsert(b, a) ==
  items' = IF \E i \in DOMAIN items : items[i].bug = b
           THEN [i \in DOMAIN items |->
                   IF FirstOf(b, i) THEN InProgress(b, a) ELSE items[i]]
           ELSE Append(items, InProgress(b, a))

\* saveAnalyzerId: a new document each time.
Insert(b, a) == items' = Append(items, InProgress(b, a))

\* Mutant: JuggernautAnalysisConstants has another COMPLETED than ConstantsUtils.
MarkCompletedShouting(b) ==
  items' = [i \in DOMAIN items |->
              IF items[i].bug = b
              THEN [items[i] EXCEPT !.status = "COMPLETED"]
              ELSE items[i]]

\* Mutant: the query has no criterion.
MarkCompletedAll(b) ==
  items' = [i \in DOMAIN items |-> [items[i] EXCEPT !.status = "Completed"]]

\* updateJNStatus: updateMulti, every document of the bug.
MarkCompleted(b) ==
  items' = [i \in DOMAIN items |->
              IF items[i].bug = b
              THEN [items[i] EXCEPT !.status = "Completed"]
              ELSE items[i]]

\* Mutant: the query does not ask for the status.
TriggeredAny == {[bug |-> items[i].bug, id |-> items[i].id] : i \in DOMAIN items}

\* Mutant: findOne for find.
TriggeredFirst ==
  {[bug |-> items[i].bug, id |-> items[i].id] :
     i \in {j \in DOMAIN items :
              /\ items[j].status = "In Progress"
              /\ \A k \in 1 .. j - 1 : items[k].status = "Completed"}}

\* getTriggeredBugs.
Triggered ==
  {[bug |-> items[i].bug, id |-> items[i].id] :
     i \in {j \in DOMAIN items : items[j].status = "In Progress"}}

-----------------------------------------------------------------------------
(***************************************************************************)
(* JN.  When the ids of the instance are used up JN refuses.               *)
(***************************************************************************)
Unused == {a \in Ids : analysis[a].state = "unknown"}

\* A request's analysis of b; told: whether the answer of JN is read.
Start(a, b, told) ==
  analysis' = [analysis EXCEPT ![a] =
                 [state |-> "running", about |-> @.about \cup {b},
                  bucket |-> FALSE, told |-> told]]

\* What a trigger that fails leaves with JN: nothing, or, when the call went
\* through and its answer was lost or not read, an analysis whose id nobody
\* has.  getAnalysisRequestId returns "Not Valid" for either.
Refused(b) ==
  \/ UNCHANGED analysis
  \/ /\ "jnThrows" \in Faults
     /\ \E a \in Unused : Start(a, b, FALSE)

MayRefuse == "jnThrows" \in Faults \/ Unused = {}

\* An analysis comes to its end, with a PDF or without.
JNEnds(a) ==
  /\ analysis[a].state = "running"
  /\ \E s \in {"completed"} \cup (IF "noPdf" \in Faults THEN {"ended"} ELSE {}) :
       analysis' = [analysis EXCEPT ![a].state = s]
  /\ UNCHANGED <<items, shown, attached, filed, bean, request, filer, poller>>

\* What a call to Chiron that may throw leaves behind: f applied, and on an
\* exception perhaps not.
ChironMayThrow == "chironThrows" \in Faults

-----------------------------------------------------------------------------
(***************************************************************************)
(* A plain request.  JNBugzillaBugAnalysisService reads its field bugId    *)
(* again at every use.  An exception ends executeImpl; whether             *)
(* ServiceBase.execute, a library, lets it through to the caller or the    *)
(* request goes on to its answer is left open.                             *)
(***************************************************************************)
Go(t, s) == request' = [request EXCEPT ![t].at = s]

FieldOf(t) == bean[NodeOf[t]]

PlainAccept(r, b) ==
  /\ request[r].at = "idle"
  /\ request' = [request EXCEPT ![r] = [Idle EXCEPT !.at = "check", !.bug = b]]
  /\ bean' = [bean EXCEPT ![NodeOf[r]].bugId = b]
  /\ UNCHANGED <<docs, filer, poller>>

PlainCheck(r) ==
  /\ request[r].at = "check"
  /\ IF AlreadyRunning(FieldOf(r).bugId)
     THEN /\ bean' = [bean EXCEPT ![NodeOf[r]].requestStatus = "In Progress"]
          /\ Go(r, "answer")
     ELSE Go(r, "trigger") /\ UNCHANGED bean
  /\ UNCHANGED <<docs, filer, poller>>

PlainTrigger(r, a) ==
  /\ request[r].at = "trigger"
  /\ a \in Unused
  /\ Start(a, FieldOf(r).bugId, TRUE)
  /\ bean' = [bean EXCEPT ![NodeOf[r]].requestStatus = "Triggered"]
  /\ request' = [request EXCEPT ![r] = [@ EXCEPT !.at = "tell", !.id = a]]
  /\ UNCHANGED <<items, shown, attached, filed, filer, poller>>

\* Mutant: the refusal is not recorded in the bean.
PlainRefusedUnsaid(r) ==
  /\ request[r].at = "trigger"
  /\ MayRefuse
  /\ Refused(FieldOf(r).bugId)
  /\ request' = [request EXCEPT ![r] =
        [@ EXCEPT !.at = "save", !.id = NotValid]]
  /\ UNCHANGED <<items, shown, attached, filed, bean, filer, poller>>

\* The "Not Valid" id goes on to be saved like any other.
PlainRefused(r) ==
  /\ request[r].at = "trigger"
  /\ MayRefuse
  /\ Refused(FieldOf(r).bugId)
  /\ bean' = [bean EXCEPT ![NodeOf[r]].requestStatus = "Invalid Request"]
  /\ request' = [request EXCEPT ![r] =
        [@ EXCEPT !.at = "save", !.id = NotValid]]
  /\ UNCHANGED <<items, shown, attached, filed, filer, poller>>

PlainTell(r) ==
  /\ request[r].at = "tell"
  /\ shown' = [shown EXCEPT ![FieldOf(r).bugId] = request[r].id]
  /\ Go(r, "save")
  /\ UNCHANGED <<items, analysis, attached, filed, bean, filer, poller>>

PlainTellThrows(r) ==
  /\ ChironMayThrow
  /\ request[r].at = "tell"
  /\ shown' \in {shown, [shown EXCEPT ![FieldOf(r).bugId] = request[r].id]}
  /\ \/ Go(r, "answer")
     \/ request' = [request EXCEPT ![r] = Idle]
  /\ UNCHANGED <<items, analysis, attached, filed, bean, filer, poller>>

PlainSave(r) ==
  /\ request[r].at = "save"
  /\ Upsert(FieldOf(r).bugId, request[r].id)
  /\ Go(r, "answer")
  /\ UNCHANGED <<analysis, shown, attached, filed, bean, filer, poller>>

\* get() answers with the field requestStatus.
PlainAnswer(r) ==
  /\ request[r].at = "answer"
  /\ request' = [request EXCEPT ![r] = Idle]
  /\ UNCHANGED <<docs, bean, filer, poller>>

-----------------------------------------------------------------------------
(***************************************************************************)
(* A synthetic request, for one bug or (None) for those of two hours.      *)
(***************************************************************************)
SynthAccept(q, b) ==
  /\ request[q].at = "idle"
  /\ request' = [request EXCEPT ![q].at = "execute"]
  /\ bean' = [bean EXCEPT ![NodeOf[q]].inputBugId = b]
  /\ UNCHANGED <<docs, filer, poller>>

\* BugDetailsCollectorStep.accept, before its call to Chiron.
SynthCollect(q) ==
  /\ request[q].at = "execute"
  /\ FieldOf(q).inputBugId # None
  /\ bean' = [bean EXCEPT ![NodeOf[q]].bugs = {}]
  /\ request' = [request EXCEPT ![q] =
        [@ EXCEPT !.at = "collect", !.bug = FieldOf(q).inputBugId]]
  /\ UNCHANGED <<docs, filer, poller>>

\* Chiron answers: the bug, or none.
SynthFound(q) ==
  /\ request[q].at = "collect"
  /\ bean' = [bean EXCEPT ![NodeOf[q]].bugs =
                IF request[q].bug \in filed THEN {request[q].bug} ELSE @]
  /\ request' = [request EXCEPT ![q] = [Idle EXCEPT !.at = "check"]]
  /\ UNCHANGED <<docs, filer, poller>>

\* An exception ends the collector, or with it the service.
SynthCollectThrows(q) ==
  /\ ChironMayThrow
  /\ request[q].at = "collect"
  /\ \E s \in {"check", "idle"} :
       request' = [request EXCEPT ![q] = [Idle EXCEPT !.at = s]]
  /\ UNCHANGED <<docs, bean, filer, poller>>

\* The list found, by whichever thread, its check, and the analyser's accept.
SynthCheck(q) ==
  /\ request[q].at = "check"
  /\ LET free == {b \in FieldOf(q).bugs : ~AlreadyRunning(b)}
     IN  IF free # {}
         THEN /\ bean' = [bean EXCEPT ![NodeOf[q]].bugList = free]
              /\ Go(q, "loop")
         ELSE Go(q, "idle") /\ UNCHANGED bean
  /\ UNCHANGED <<docs, filer, poller>>

\* Without a bug: those filed in the last two hours, S.
SynthCollectHour(q, S) ==
  /\ request[q].at = "execute"
  /\ FieldOf(q).inputBugId = None
  /\ S \subseteq filed
  /\ request' = [request EXCEPT ![q] = [@ EXCEPT !.at = "dedup", !.todo = S]]
  /\ UNCHANGED <<docs, bean, filer, poller>>

SynthDedup(q, b) ==
  /\ request[q].at = "dedup"
  /\ b \in request[q].todo
  /\ request' = [request EXCEPT ![q] =
        [request[q] EXCEPT !.todo = @ \ {b},
                           !.kept = IF AlreadyRunning(b) THEN @ ELSE @ \cup {b}]]
  /\ UNCHANGED <<docs, bean, filer, poller>>

\* The analyser's setInput, unless nothing is left.
SynthBatch(q) ==
  /\ request[q].at = "dedup"
  /\ request[q].todo = {}
  /\ IF request[q].kept # {}
     THEN /\ bean' = [bean EXCEPT ![NodeOf[q]].bugList = request[q].kept]
          /\ request' = [request EXCEPT ![q] = [Idle EXCEPT !.at = "loop"]]
     ELSE Go(q, "idle") /\ UNCHANGED bean
  /\ UNCHANGED <<docs, filer, poller>>

\* JuggernautAnalyserStep.executeImpl takes the iterator of its field.
SynthLoop(q) ==
  /\ request[q].at = "loop"
  /\ request' = [request EXCEPT ![q] =
        [@ EXCEPT !.at = "trigger", !.todo = FieldOf(q).bugList]]
  /\ UNCHANGED <<docs, bean, filer, poller>>

SynthTrigger(q, b, a) ==
  /\ request[q].at = "trigger"
  /\ b \in request[q].todo
  /\ a \in Unused
  /\ Start(a, b, TRUE)
  /\ request' = [request EXCEPT ![q] =
        [request[q] EXCEPT !.at = "tell", !.todo = @ \ {b},
                           !.bug = b, !.id = a]]
  /\ UNCHANGED <<items, shown, attached, filed, bean, filer, poller>>

\* Unlike the plain service, nothing is saved.
SynthRefused(q, b) ==
  /\ request[q].at = "trigger"
  /\ MayRefuse
  /\ b \in request[q].todo
  /\ Refused(b)
  /\ request' = [request EXCEPT ![q].todo = @ \ {b}]
  /\ UNCHANGED <<items, shown, attached, filed, bean, filer, poller>>

SynthTell(q) ==
  /\ request[q].at = "tell"
  /\ shown' = [shown EXCEPT ![request[q].bug] = request[q].id]
  /\ Go(q, "save")
  /\ UNCHANGED <<items, analysis, attached, filed, bean, filer, poller>>

\* The exception ends the analyser's loop, and nothing is saved.
SynthTellThrows(q) ==
  /\ ChironMayThrow
  /\ request[q].at = "tell"
  /\ shown' \in {shown, [shown EXCEPT ![request[q].bug] = request[q].id]}
  /\ request' = [request EXCEPT ![q] = Idle]
  /\ UNCHANGED <<items, analysis, attached, filed, bean, filer, poller>>

SynthSave(q) ==
  /\ request[q].at = "save"
  /\ Insert(request[q].bug, request[q].id)
  /\ request' = [request EXCEPT ![q] =
                   [Idle EXCEPT !.at = "trigger", !.todo = request[q].todo]]
  /\ UNCHANGED <<analysis, shown, attached, filed, bean, filer, poller>>

\* The loop is over; the answer, which changes nothing, follows.
SynthDone(q) ==
  /\ request[q].at = "trigger"
  /\ request[q].todo = {}
  /\ Go(q, "idle")
  /\ UNCHANGED <<docs, bean, filer, poller>>

-----------------------------------------------------------------------------
(***************************************************************************)
(* Filing.  The bucket's analysis is new, or another bucket's of the same  *)
(* failure, or "Not Valid"; or the bucket has none (None).  When createBug *)
(* throws, no item is saved, the bug filed or not.                         *)
(***************************************************************************)
FileBug(f, b, a) ==
  /\ filer[f] = None
  /\ b \in Synthetic \ filed
  /\ a \in Ids => a \in Unused \/ analysis[a].bucket
  /\ filed' = filed \cup {b}
  /\ IF a \in Ids
     THEN /\ shown' = [shown EXCEPT ![b] = a]
          /\ analysis' = [analysis EXCEPT ![a] =
                            [state |-> IF a \in Unused THEN "running" ELSE @.state,
                             about |-> @.about \cup {b},
                             bucket |-> TRUE, told |-> TRUE]]
     ELSE UNCHANGED <<shown, analysis>>
  /\ \E next \in {IF a = None THEN None ELSE [bug |-> b, id |-> a]}
                   \cup (IF ChironMayThrow THEN {None} ELSE {}) :
       filer' = [filer EXCEPT ![f] = next]
  /\ UNCHANGED <<items, attached, bean, request, poller>>

FileItem(f) ==
  /\ filer[f] # None
  /\ Insert(filer[f].bug, filer[f].id)
  /\ filer' = [filer EXCEPT ![f] = None]
  /\ UNCHANGED <<analysis, shown, attached, filed, bean, request, poller>>

-----------------------------------------------------------------------------
(***************************************************************************)
(* The poller.  An entry is dropped from the list of a pass, and its item  *)
(* left In Progress for the next one, when JN has no result or throws,     *)
(* and when Chiron throws.                                                 *)
(***************************************************************************)
PollerStart(p) ==
  /\ poller[p].at = "idle"
  /\ Triggered # {}
  /\ poller' = [poller EXCEPT ![p] =
        [@ EXCEPT !.at = "next", !.list = Triggered]]
  /\ UNCHANGED <<docs, bean, request, filer>>

HasResult(e) == e.id \in Ids /\ analysis[e.id].state = "completed"

PollerSkip(p, e) ==
  /\ poller[p].at = "next"
  /\ e \in poller[p].list
  /\ ~HasResult(e) \/ Faults \cap {"jnThrows", "chironThrows"} # {}
  /\ poller' = [poller EXCEPT ![p].list = @ \ {e}]
  /\ UNCHANGED <<docs, bean, request, filer>>

Attach(e) ==
  attached' = [attached EXCEPT ![<<e.bug, e.id>>] = IF @ = 2 THEN 2 ELSE @ + 1]

\* The result is attached; the answer to that may be lost.
PollerAttach(p, e) ==
  /\ poller[p].at = "next"
  /\ e \in poller[p].list
  /\ HasResult(e)
  /\ Attach(e)
  /\ \/ poller' = [poller EXCEPT ![p] =
                     [at |-> "comment", list |-> @.list \ {e}, bug |-> e.bug]]
     \/ /\ ChironMayThrow
        /\ poller' = [poller EXCEPT ![p].list = @ \ {e}]
  /\ UNCHANGED <<items, analysis, shown, filed, bean, request, filer>>

PollerComment(p) ==
  /\ poller[p].at = "comment"
  /\ \E s \in {"mark"} \cup (IF ChironMayThrow THEN {"next"} ELSE {}) :
       poller' = [poller EXCEPT ![p].at = s]
  /\ UNCHANGED <<docs, bean, request, filer>>

PollerMark(p) ==
  /\ poller[p].at = "mark"
  /\ MarkCompleted(poller[p].bug)
  /\ poller' = [poller EXCEPT ![p].at = "next"]
  /\ UNCHANGED <<analysis, shown, attached, filed, bean, request, filer>>

PollerEnd(p) ==
  /\ poller[p].at = "next"
  /\ poller[p].list = {}
  /\ poller' = [poller EXCEPT ![p] = IdlePoller]
  /\ UNCHANGED <<docs, bean, request, filer>>

-----------------------------------------------------------------------------
\* A node stops.  Its threads and the fields of its beans are gone; the
\* filer or the poller that stops with it is any.
Crash(n) ==
  /\ "crash" \in Faults
  /\ bean' = [bean EXCEPT ![n] = FreshBean]
  /\ request' = [t \in Threads |-> IF NodeOf[t] = n THEN Idle ELSE request[t]]
  /\ \E F \in SUBSET Filers, P \in SUBSET Pollers :
       /\ filer' = [f \in Filers |-> IF f \in F THEN None ELSE filer[f]]
       /\ poller' = [p \in Pollers |-> IF p \in P THEN IdlePoller ELSE poller[p]]
  /\ UNCHANGED docs

PlainNext(r) ==
  \/ \E b \in Bugs \ Synthetic : PlainAccept(r, b)
  \/ PlainCheck(r)
  \/ \E a \in Ids : PlainTrigger(r, a)
  \/ PlainRefused(r)
  \/ PlainTell(r)
  \/ PlainTellThrows(r)
  \/ PlainSave(r)
  \/ PlainAnswer(r)

SynthNext(q) ==
  \/ \E b \in Synthetic \cup {None} : SynthAccept(q, b)
  \/ SynthCollect(q)
  \/ SynthFound(q)
  \/ SynthCollectThrows(q)
  \/ SynthCheck(q)
  \/ \E S \in SUBSET Synthetic : SynthCollectHour(q, S)
  \/ \E b \in Synthetic : SynthDedup(q, b)
  \/ SynthBatch(q)
  \/ SynthLoop(q)
  \/ \E b \in Synthetic, a \in Ids : SynthTrigger(q, b, a)
  \/ \E b \in Synthetic : SynthRefused(q, b)
  \/ SynthTell(q)
  \/ SynthTellThrows(q)
  \/ SynthSave(q)
  \/ SynthDone(q)

FilerNext(f) ==
  \/ \E b \in Synthetic, a \in Ids \cup {NotValid, None} : FileBug(f, b, a)
  \/ FileItem(f)

PollerNext(p) ==
  \/ PollerStart(p)
  \/ \E e \in Entry : PollerSkip(p, e)
  \/ \E e \in Entry : PollerAttach(p, e)
  \/ PollerComment(p)
  \/ PollerMark(p)
  \/ PollerEnd(p)

Next ==
  \/ \E r \in Plain : PlainNext(r)
  \/ \E q \in Synth : SynthNext(q)
  \/ \E f \in Filers : FilerNext(f)
  \/ \E p \in Pollers : PollerNext(p)
  \/ \E a \in Ids : JNEnds(a)
  \/ \E n \in Nodes : Crash(n)

Spec == Init /\ [][Next]_vars

(***************************************************************************)
(* A poller's pass runs to its end and the next one starts, which          *)
(* @Scheduled(fixedDelay) ensures on the node that stays master; and JN,   *)
(* asked again and again about one analysis, answers some time.            *)
(***************************************************************************)
Polls ==
  \A p \in Pollers :
    /\ WF_vars(PollerNext(p))
    /\ \A e \in Entry : SF_vars(PollerAttach(p, e))

PolledSpec == Spec /\ Polls

-----------------------------------------------------------------------------
(***************************************************************************)
(* Properties.                                                             *)
(***************************************************************************)
\* A result is attached to a bug only if JN was asked about that bug, and
\* the id Chiron shows for a bug is one of an analysis of that bug: what a
\* thread takes from a field is never paired with another request's id.
ResultOfItsBug ==
  /\ \A b \in Bugs, a \in Ids : attached[<<b, a>>] > 0 => b \in analysis[a].about
  /\ \A b \in Bugs : shown[b] # None => b \in analysis[shown[b]].about

\* A plain request that is answered "Triggered" has had JN start an analysis
\* of the bug it asked for, and the request's own.
AnsweredAsAsked ==
  [][\A r \in Plain :
       PlainAnswer(r) /\ FieldOf(r).requestStatus = "Triggered"
       => /\ request[r].id \in Ids
          /\ request[r].bug \in analysis[request[r].id].about]_vars

\* An item is Completed only when the result of its analysis is in Chiron,
\* so an item the poller does not look at again is not owed anything.  It
\* takes that a bug has one item: a synthetic request beside a filing saves a
\* second, and the mark that is for one of them completes both.
CompletedIsAttached ==
  \A i \in DOMAIN items :
    items[i].status = "Completed" /\ items[i].id \in Ids
      => attached[<<items[i].bug, items[i].id>>] > 0

\* A poller attaches a result once; not when Chiron throws or the node stops
\* between the attachment and updateJNStatus, which the next pass repeats.
AttachedOnce == \A b \in Bugs, a \in Ids : attached[<<b, a>>] < 2

\* An analysis of a bug whose id JN's answer delivered is not forgotten: its
\* result is attached, a thread is about to save it, or an item has the poller
\* look, also when the bug is asked for again or the answers to other requests
\* are lost.  (One whose answer is lost is found by nothing in the code.)
NothingForgotten ==
  \A a \in Ids : analysis[a].told => \A b \in analysis[a].about :
    \/ attached[<<b, a>>] > 0
    \/ \E t \in Threads : request[t].id = a /\ request[t].at \in {"tell", "save"}
    \/ \E f \in Filers : filer[f] = [bug |-> b, id |-> a]
    \/ \E i \in DOMAIN items : items[i] = InProgress(b, a)

\* The result of an item is attached and the item Completed in the end.
EveryResultAttached ==
  \A b \in Bugs, a \in Ids :
    (InProgress(b, a) \in {items[i] : i \in DOMAIN items} /\ HasResult([id |-> a]))
      ~> /\ attached[<<b, a>>] > 0
         /\ InProgress(b, a) \notin {items[i] : i \in DOMAIN items}
=============================================================================
