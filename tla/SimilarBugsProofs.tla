-------------------------- MODULE SimilarBugsProofs --------------------------
(***************************************************************************)
(* Proofs about SimilarBugs, for any number of bugs, nodes and reports and *)
(* for every set of faults.                                                *)
(*                                                                         *)
(* TypeOK is inductive by itself; Truthful, Kept and Counted next to it.   *)
(***************************************************************************)
EXTENDS SimilarBugs, FiniteSetTheorems, TLAPS

\* A pass that is to mark a bug as told has told JN of it.
Truthful ==
  /\ AnsweredWasTold
  /\ \A n \in Nodes :
       pass[n].at = "mark" /\ pass[n].answer \in {"id", "error"} =>
         \A b \in pass[n].bug : told[b] > 0

\* The bug of the report at i is stored, or a pass has it in its list.
InStore(i) ==
  \/ Tracked(reports[i])
  \/ \E n \in Nodes : pass[n].at = "save" /\ reports[i] \in pass[n].list

\* The dates and windows of the past hold reports that are stored, or will be.
Kept ==
  faults \cap {"late", "crash"} = {} =>
    /\ \A d \in DOMAIN tracker : tracker[d].created <= Len(reports)
    /\ \A n \in Nodes : pass[n].start <= Len(reports) /\ pass[n].created <= Len(reports)
    /\ \A n \in Nodes : pass[n].at = "ask" => pass[n].end = Len(reports)
    /\ \A i \in DOMAIN reports :
         \/ \E d \in DOMAIN tracker : i <= tracker[d].created
         \/ \E n \in Nodes : \/ pass[n].at = "save" /\ i <= pass[n].created
                             \/ pass[n].at = "ask" /\ i <= pass[n].start
         => InStore(i)

\* The entries of b, and those JN is yet to be told of by the pass of n.
Entries(b) == {i \in DOMAIN tracker : tracker[i].report.bug = b}

Due(n, b) ==
  {i \in Entries(b) :
     \/ i \in pass[n].todo
     \/ pass[n].at \notin {"send", "mark"} /\ tracker[i].response = ""}

\* A pass has taken up every pending entry when it comes to send them.
TakenUp(n) ==
  /\ pass[n].at = "send" =>
       \A i \in DOMAIN tracker : tracker[i].response = "" => i \in pass[n].todo
  /\ pass[n].at = "mark" =>
       \A i \in DOMAIN tracker :
         tracker[i].response = "" =>
           i \in pass[n].todo \/ tracker[i].report.bug \in pass[n].bug
  /\ pass[n].at = "mark" =>
       pass[n].answer # "" /\ \A b, c \in pass[n].bug : b = c
  /\ pass[n].at \notin {"send", "mark"} => pass[n].todo = {}

Counted ==
  /\ \A n \in Nodes : pass[n].at # "idle" => n \in running
  /\ \A n \in Nodes : running = {n} /\ faults \subseteq {"late", "jnNoId"} =>
       /\ TakenUp(n)
       /\ \A b \in Bugs :
            told[b] + Cardinality(Due(n, b)) <= Cardinality(Entries(b))

-----------------------------------------------------------------------------
(***************************************************************************)
(* What the actions do to the state of their node and to the collection.   *)
(***************************************************************************)
Steps(n) ==
  /\ pass' \in [Nodes -> PassState]
  /\ \A m \in Nodes : m # n => pass'[m] = pass[m]

\* The pass is over, or was not begun.
IsOver(p) ==
  /\ p.at = "idle" /\ p.start = 0 /\ p.end = 0 /\ p.list = {} /\ p.created = 0
  /\ p.todo = {} /\ p.bug = {} /\ p.answer = ""

Ends(n) == Steps(n) /\ IsOver(pass'[n])

\* A pass has asked JN for the entry at i, and is to mark its bug.
Asks(n, i, a) ==
  /\ Steps(n)
  /\ pass'[n].at = "mark" /\ pass'[n].todo = pass[n].todo \ {i}
  /\ pass'[n].bug = {tracker[i].report.bug} /\ pass'[n].answer = a
  /\ pass'[n].start = pass[n].start /\ pass'[n].created = pass[n].created

\* Entries stay where they are, with their report and date.
SameEntries ==
  /\ tracker' \in Seq(Doc) /\ DOMAIN tracker' = DOMAIN tracker
  /\ \A i \in DOMAIN tracker :
       tracker'[i].report = tracker[i].report /\ tracker'[i].created = tracker[i].created

LEMMA Numbers == MaxReports \in Nat /\ MaxTold \in Nat /\ MaxTold > 0
  BY Bounds

LEMMA OverTyped == IdlePass \in PassState /\ IsOver(IdlePass)
  BY Numbers DEF IdlePass, PassState, Responses, IsOver

\* Replacing a pass by another.
LEMMA Becomes ==
  ASSUME TypeOK, NEW n \in Nodes, NEW p \in PassState, pass' = [pass EXCEPT ![n] = p]
  PROVE  Steps(n) /\ pass'[n] = p
  BY DEF TypeOK, Steps

LEMMA EndSteps == ASSUME TypeOK, NEW n \in Nodes, End(n) PROVE Ends(n)
  BY OverTyped, Becomes DEF End, Ends

LEMMA WindowSteps ==
  ASSUME TypeOK, NEW n \in Nodes, NEW s \in 0 .. MaxReports, Window(n, s)
  PROVE  /\ Steps(n) /\ pass'[n].at = "ask" /\ pass'[n].start = s
         /\ pass'[n].end = Len(reports) /\ pass'[n].created = 0
         /\ pass'[n].list = {} /\ pass'[n].todo = {} /\ pass'[n].bug = {}
<1> DEFINE p == [IdlePass EXCEPT !.at = "ask", !.start = s, !.end = Len(reports)]
<1>1. Len(reports) \in 0 .. MaxReports  BY Numbers DEF TypeOK
<1>2. p \in PassState  BY <1>1, OverTyped DEF PassState
<1>3. /\ p.at = "ask" /\ p.start = s /\ p.end = Len(reports) /\ p.created = 0
      /\ p.list = {} /\ p.todo = {} /\ p.bug = {}
  BY OverTyped DEF PassState, IsOver
<1>4. pass' = [pass EXCEPT ![n] = p]  BY DEF Window
<1> HIDE DEF p
<1> QED BY <1>2, <1>3, <1>4, Becomes

LEMMA SimilarReports ==
  ASSUME TypeOK, NEW s, NEW e PROVE Similar(s, e) \subseteq Report
  BY DEF TypeOK, Similar

LEMMA AskSteps ==
  ASSUME TypeOK, NEW n \in Nodes, Ask(n)
  PROVE  LET similar == Similar(pass[n].start, pass[n].end)
         IN  \/ similar = {} /\ Ends(n)
             \/ /\ Steps(n) /\ pass'[n].at = "save" /\ pass'[n].start = 0
                /\ pass'[n].list = New(similar) /\ pass'[n].created = Len(reports)
                /\ pass'[n].todo = {} /\ pass'[n].bug = {}
<1> DEFINE similar == Similar(pass[n].start, pass[n].end)
           p == [IdlePass EXCEPT !.at = "save", !.list = New(similar),
                                 !.created = Len(reports)]
<1>1. CASE similar = {}
  BY <1>1, EndSteps DEF Ask
<1>2. CASE similar # {}
  <2>1. New(similar) \in SUBSET Report
    BY SimilarReports DEF New
  <2>2. Len(reports) \in 0 .. MaxReports  BY Numbers DEF TypeOK
  <2>3. p \in PassState  BY <2>1, <2>2, OverTyped DEF PassState
  <2>4. /\ p.at = "save" /\ p.start = 0 /\ p.created = Len(reports)
        /\ p.list = New(similar) /\ p.todo = {} /\ p.bug = {}
    BY OverTyped DEF PassState, IsOver
  <2>5. pass' = [pass EXCEPT ![n] = p]  BY <1>2 DEF Ask
  <2> HIDE DEF p
  <2> QED BY <2>3, <2>4, <2>5, Becomes
<1> QED BY <1>1, <1>2

LEMMA SaveSteps ==
  ASSUME TypeOK, NEW n \in Nodes, NEW r \in Report, Save(n, r)
  PROVE  /\ Steps(n) /\ pass[n].at = "save" /\ pass'[n].at = "save" /\ r \in pass[n].list
         /\ pass'[n].list = pass[n].list \ {r} /\ pass'[n].start = pass[n].start
         /\ pass'[n].created = pass[n].created
         /\ pass'[n].todo = pass[n].todo
         /\ tracker' \in Seq(Doc)
         /\ Len(tracker) + 1 \notin DOMAIN tracker
         /\ DOMAIN tracker' = DOMAIN tracker \cup {Len(tracker) + 1}
         /\ \A i \in DOMAIN tracker : tracker'[i] = tracker[i]
         /\ tracker'[Len(tracker) + 1].report = r
         /\ tracker'[Len(tracker) + 1].created = pass[n].created
         /\ tracker'[Len(tracker) + 1].response = ""
<1> DEFINE p == [pass[n] EXCEPT !.list = pass[n].list \ {r}]
           d == [report |-> r, created |-> pass[n].created, response |-> ""]
<1>1. pass[n] \in PassState /\ tracker \in Seq(Doc)  BY DEF TypeOK
<1>2. p \in PassState  BY <1>1 DEF PassState
<1>3. /\ p.at = pass[n].at /\ p.list = pass[n].list \ {r} /\ p.start = pass[n].start
      /\ p.created = pass[n].created /\ p.todo = pass[n].todo
  BY <1>1 DEF PassState
<1>4. /\ pass' = [pass EXCEPT ![n] = p] /\ tracker' = Append(tracker, d)
      /\ pass[n].at = "save" /\ r \in pass[n].list
  BY DEF Save
<1>5. d \in Doc  BY <1>1 DEF Doc, PassState, Responses
<1>8. d.report = r /\ d.created = pass[n].created /\ d.response = ""  OBVIOUS
<1> HIDE DEF p, d
<1>6. Steps(n) /\ pass'[n] = p  BY <1>2, <1>4, Becomes
<1>7. /\ tracker' \in Seq(Doc)
      /\ Len(tracker) + 1 \notin DOMAIN tracker
      /\ DOMAIN tracker' = DOMAIN tracker \cup {Len(tracker) + 1}
      /\ \A i \in DOMAIN tracker : tracker'[i] = tracker[i]
      /\ tracker'[Len(tracker) + 1] = d
  BY <1>1, <1>4, <1>5
<1> QED BY <1>3, <1>4, <1>6, <1>7, <1>8

LEMMA LoadSteps ==
  ASSUME TypeOK, NEW n \in Nodes, Load(n)
  PROVE  /\ Steps(n) /\ pass[n].at = "save" /\ pass[n].list = {}
         /\ pass'[n].at = "send" /\ pass'[n].start = 0 /\ pass'[n].created = 0
         /\ pass'[n].todo = {i \in DOMAIN tracker : tracker[i].response = ""}
<1> DEFINE todo == {i \in DOMAIN tracker : tracker[i].response = ""}
           p == [IdlePass EXCEPT !.at = "send", !.todo = todo]
<1>1. todo \in SUBSET Nat
  <2>1. tracker \in Seq(Doc)  BY DEF TypeOK
  <2>2. DOMAIN tracker \subseteq Nat  BY <2>1
  <2> QED BY <2>2
<1>2. pass' = [pass EXCEPT ![n] = p] /\ pass[n].at = "save" /\ pass[n].list = {}
  BY DEF Load
<1> HIDE DEF todo
<1>3. p \in PassState  BY <1>1, OverTyped DEF PassState
<1>4. p.at = "send" /\ p.start = 0 /\ p.created = 0 /\ p.todo = todo
  BY OverTyped DEF PassState, IsOver
<1> HIDE DEF p
<1> QED BY <1>2, <1>3, <1>4, Becomes DEF todo

LEMMA AnsweredSteps ==
  ASSUME TypeOK, NEW n \in Nodes, NEW i \in DOMAIN tracker, NEW a \in Responses,
         Answered(n, i, a)
  PROVE  Asks(n, i, a)
<1> DEFINE todo == pass[n].todo \ {i}
           p == [pass[n] EXCEPT !.at = "mark", !.todo = todo,
                                !.bug = {tracker[i].report.bug}, !.answer = a]
<1>1. pass[n] \in PassState /\ tracker[i] \in Doc  BY DEF TypeOK
<1>2. tracker[i].report.bug \in Bugs  BY <1>1 DEF Doc, Report
<1>3. p \in PassState  BY <1>1, <1>2 DEF PassState
<1>4. /\ p.at = "mark" /\ p.todo = todo /\ p.bug = {tracker[i].report.bug}
      /\ p.answer = a /\ p.start = pass[n].start /\ p.created = pass[n].created
  BY <1>1 DEF PassState
<1>5. pass' = [pass EXCEPT ![n] = p]  BY DEF Answered
<1> HIDE DEF p
<1> QED BY <1>3, <1>4, <1>5, Becomes DEF Asks

\* Replacing elements of a sequence gives a sequence of the same elements' type.
LEMMA Mapped ==
  ASSUME NEW S, NEW s \in Seq(S), NEW f, DOMAIN f = DOMAIN s,
         f = [i \in DOMAIN s |-> f[i]], \A i \in DOMAIN s : f[i] \in S
  PROVE  f \in Seq(S)
<1>1. PICK k \in Nat : DOMAIN s = 1 .. k  BY SMT
<1> QED BY <1>1

LEMMA RespondSteps ==
  ASSUME TypeOK, NEW b \in Bugs, NEW a \in Responses, Respond(b, a)
  PROVE  /\ SameEntries
         /\ \A i \in DOMAIN tracker :
              tracker'[i].response =
                IF tracker[i].report.bug = b THEN a ELSE tracker[i].response
<1>1. tracker' = [i \in DOMAIN tracker |->
                    IF tracker[i].report.bug = b
                    THEN [tracker[i] EXCEPT !.response = a] ELSE tracker[i]]
  BY DEF Respond
<1>2. ASSUME NEW i \in DOMAIN tracker
      PROVE  /\ tracker'[i] \in Doc
             /\ tracker'[i].report = tracker[i].report
             /\ tracker'[i].created = tracker[i].created
             /\ tracker'[i].response =
                  IF tracker[i].report.bug = b THEN a ELSE tracker[i].response
  <2>1. tracker[i] \in Doc  BY DEF TypeOK
  <2>2. CASE tracker[i].report.bug = b
    BY <1>1, <2>1, <2>2 DEF Doc
  <2>3. CASE tracker[i].report.bug # b
    BY <1>1, <2>1, <2>3
  <2> QED BY <2>2, <2>3
<1>3. DOMAIN tracker' = DOMAIN tracker /\ tracker' = [i \in DOMAIN tracker |-> tracker'[i]]
  BY <1>1
<1>4. tracker' \in Seq(Doc)
  <2>1. tracker \in Seq(Doc)  BY DEF TypeOK
  <2> QED BY <1>2, <1>3, <2>1, Mapped
<1> QED BY <1>2, <1>3, <1>4 DEF SameEntries

LEMMA MarkSteps ==
  ASSUME TypeOK, NEW n \in Nodes, Mark(n)
  PROVE  /\ pass[n].at = "mark" /\ SameEntries /\ UNCHANGED <<Environment, reports, told>>
         /\ \E b \in pass[n].bug : \A i \in DOMAIN tracker :
              tracker'[i].response =
                IF tracker[i].report.bug = b THEN pass[n].answer ELSE tracker[i].response
         /\ \/ pass[n].answer = "error" /\ Ends(n)
            \/ /\ Steps(n) /\ pass'[n].at = "send" /\ pass'[n].todo = pass[n].todo
               /\ pass'[n].start = pass[n].start /\ pass'[n].created = pass[n].created
<1>1. pass[n] \in PassState  BY DEF TypeOK
<1>2. pass[n].at = "mark" /\ UNCHANGED <<Environment, reports, told>>
  BY DEF Mark
<1>3. PICK b \in pass[n].bug : Respond(b, pass[n].answer)  BY DEF Mark
<1>4. b \in Bugs /\ pass[n].answer \in Responses  BY <1>1 DEF PassState
<1>5. CASE pass[n].answer = "error"
  <2>1. Ends(n)  BY <1>5, EndSteps DEF Mark
  <2> QED BY <1>2, <1>3, <1>4, <1>5, <2>1, RespondSteps
<1>6. CASE pass[n].answer # "error"
  <2> DEFINE p == [pass[n] EXCEPT !.at = "send", !.bug = {}, !.answer = ""]
  <2>1. p \in PassState  BY <1>1 DEF PassState, Responses
  <2>2. /\ p.at = "send" /\ p.todo = pass[n].todo /\ p.start = pass[n].start
        /\ p.created = pass[n].created
    BY <1>1 DEF PassState
  <2>3. pass' = [pass EXCEPT ![n] = p]  BY <1>6 DEF Mark
  <2> HIDE DEF p
  <2>4. Steps(n) /\ pass'[n] = p  BY <2>1, <2>3, Becomes
  <2> QED BY <1>2, <1>3, <1>4, <2>2, <2>4, RespondSteps
<1> QED BY <1>5, <1>6

LEMMA ToldSteps ==
  ASSUME TypeOK, NEW b \in Bugs, Told(b)
  PROVE  /\ told' \in [Bugs -> 0 .. MaxTold] /\ told'[b] > 0 /\ told'[b] <= told[b] + 1
         /\ \A c \in Bugs : c # b => told'[c] = told[c]
         /\ \A c \in Bugs : told[c] > 0 => told'[c] > 0
<1> DEFINE k == IF told[b] = MaxTold THEN MaxTold ELSE told[b] + 1
<1>1. told \in [Bugs -> 0 .. MaxTold]  BY DEF TypeOK
<1>2. told' = [told EXCEPT ![b] = k]  BY DEF Told
<1>3. k \in 0 .. MaxTold /\ k > 0 /\ k <= told[b] + 1
  BY <1>1, Numbers
<1> HIDE DEF k
<1>4. told'[b] = k /\ \A c \in Bugs : c # b => told'[c] = told[c]  BY <1>1, <1>2
<1> QED BY <1>1, <1>2, <1>3, <1>4

LEMMA BugOfEntry ==
  ASSUME TypeOK, NEW i \in DOMAIN tracker PROVE tracker[i].report.bug \in Bugs
<1>1. tracker[i] \in Doc  BY DEF TypeOK
<1> QED BY <1>1 DEF Doc, Report

\* An entry is sent, with or without an answer that is heard.
LEMMA SendSteps ==
  ASSUME TypeOK, NEW n \in Nodes, NEW i \in DOMAIN tracker, Send(n, i)
  PROVE  /\ pass[n].at = "send" /\ i \in pass[n].todo
         /\ UNCHANGED <<Environment, reports, tracker>>
         /\ Told(tracker[i].report.bug)
         /\ \E a \in {"id", "error"} : Asks(n, i, a)
<1>1. PICK a \in {"id", "error"} : Answered(n, i, a)  BY DEF Send
<1>2. Asks(n, i, a)  BY <1>1, AnsweredSteps DEF Responses
<1> QED BY <1>2 DEF Send, IsNext

LEMMA SendRefusedSteps ==
  ASSUME TypeOK, NEW n \in Nodes, NEW i \in DOMAIN tracker, SendRefused(n, i)
  PROVE  /\ pass[n].at = "send" /\ "jnRejects" \in faults
         /\ UNCHANGED <<Environment, reports, tracker, told>>
         /\ \E a \in {"refused", ""} : Asks(n, i, a)
<1>1. PICK a \in {"refused", ""} : Answered(n, i, a)  BY DEF SendRefused
<1>2. Asks(n, i, a)  BY <1>1, AnsweredSteps DEF Responses
<1> QED BY <1>2 DEF SendRefused

LEMMA SendThrowsSteps ==
  ASSUME TypeOK, NEW n \in Nodes, NEW i \in DOMAIN tracker, SendThrows(n, i)
  PROVE  /\ pass[n].at = "send" /\ faults \cap {"jnThrows", "chironThrows"} # {}
         /\ UNCHANGED <<Environment, reports, tracker>>
         /\ told' = told \/ Told(tracker[i].report.bug)
         /\ Ends(n)
<1>1. Ends(n)  BY EndSteps DEF SendThrows
<1> QED BY <1>1 DEF SendThrows

\* The three steps that end a pass and do nothing else.
LEMMA StopSteps ==
  ASSUME TypeOK, NEW n \in Nodes, AskThrows(n) \/ Done(n) \/ Crash(n)
  PROVE  /\ Ends(n) /\ UNCHANGED <<Environment, reports, tracker, told>>
         /\ \/ pass[n].at = "ask"
            \/ pass[n].at = "send" /\ pass[n].todo = {}
            \/ "crash" \in faults
  BY EndSteps DEF AskThrows, Done, Crash

LEMMA StepCases ==
  ASSUME [Next]_vars
  PROVE  \/ UNCHANGED vars
         \/ \E k \in Keys, b \in Bugs : ChironReports(k, b)
         \/ \E n \in Nodes, s \in 0 .. MaxReports : Window(n, s)
         \/ \E n \in Nodes : Ask(n)
         \/ \E n \in Nodes, r \in Report : Save(n, r)
         \/ \E n \in Nodes : Load(n)
         \/ \E n \in Nodes, i \in DOMAIN tracker : Send(n, i)
         \/ \E n \in Nodes, i \in DOMAIN tracker : SendRefused(n, i)
         \/ \E n \in Nodes, i \in DOMAIN tracker : SendThrows(n, i)
         \/ \E n \in Nodes : Mark(n)
         \/ \E n \in Nodes : AskThrows(n) \/ Done(n) \/ Crash(n)
  BY DEF Next, PassNext

LEMMA ReportSteps ==
  ASSUME TypeOK, NEW k \in Keys, NEW b \in Bugs, ChironReports(k, b)
  PROVE  /\ reports' \in Seq(Report) /\ Len(reports') = Len(reports) + 1
         /\ Len(reports') <= MaxReports
         /\ \A i \in DOMAIN reports : reports'[i] = reports[i]
         /\ UNCHANGED <<Environment, tracker, told, pass>>
<1>1. reports \in Seq(Report) /\ Len(reports) < MaxReports
  BY DEF ChironReports, TypeOK
<1>2. [key |-> k, bug |-> b] \in Report  BY DEF Report
<1>3. reports' = Append(reports, [key |-> k, bug |-> b])  BY DEF ChironReports
<1> HIDE DEF ChironReports
<1>4. UNCHANGED <<Environment, tracker, told, pass>>  BY DEF ChironReports
<1> QED BY <1>1, <1>2, <1>3, <1>4, Numbers

-----------------------------------------------------------------------------
(***************************************************************************)
(* Typing.                                                                 *)
(***************************************************************************)
LEMMA TypedInit == Init => TypeOK
<1> SUFFICES ASSUME Init PROVE TypeOK  OBVIOUS
<1>1. reports \in Seq(Report) /\ Len(reports) <= MaxReports /\ tracker \in Seq(Doc)
  BY Numbers DEF Init
<1>2. told \in [Bugs -> 0 .. MaxTold]  BY Numbers DEF Init
<1>3. pass \in [Nodes -> PassState]  BY OverTyped DEF Init
<1> QED BY <1>1, <1>2, <1>3 DEF Init, TypeOK

LEMMA TypedStep ==
  ASSUME TypeOK, NEW n \in Nodes, Steps(n), UNCHANGED <<Environment, reports>>,
         tracker' \in Seq(Doc), told' \in [Bugs -> 0 .. MaxTold]
  PROVE  TypeOK'
  BY DEF TypeOK, Steps, Environment

LEMMA TypedNext == TypeOK /\ [Next]_vars => TypeOK'
<1> SUFFICES ASSUME TypeOK, [Next]_vars PROVE TypeOK'  OBVIOUS
<1>1. /\ tracker' = tracker => tracker' \in Seq(Doc)
      /\ told' = told => told' \in [Bugs -> 0 .. MaxTold]
  BY DEF TypeOK
<1>2. CASE UNCHANGED vars
  BY <1>2 DEF TypeOK, vars
<1>3. ASSUME NEW k \in Keys, NEW b \in Bugs, ChironReports(k, b) PROVE TypeOK'
  BY <1>3, ReportSteps DEF TypeOK, Environment
<1>4. ASSUME NEW n \in Nodes, NEW s \in 0 .. MaxReports, Window(n, s) PROVE TypeOK'
  <2>1. UNCHANGED <<Environment, reports, tracker, told>>  BY <1>4 DEF Window
  <2>2. Steps(n)  BY <1>4, WindowSteps
  <2> QED BY <1>1, <2>1, <2>2, TypedStep
<1>5. ASSUME NEW n \in Nodes, Ask(n) PROVE TypeOK'
  <2>1. UNCHANGED <<Environment, reports, tracker, told>>  BY <1>5 DEF Ask
  <2>2. Steps(n)  BY <1>5, AskSteps DEF Ends
  <2> QED BY <1>1, <2>1, <2>2, TypedStep
<1>6. ASSUME NEW n \in Nodes, NEW r \in Report, Save(n, r) PROVE TypeOK'
  <2>1. UNCHANGED <<Environment, reports, told>>  BY <1>6 DEF Save
  <2>2. Steps(n) /\ tracker' \in Seq(Doc)  BY <1>6, SaveSteps
  <2> QED BY <1>1, <2>1, <2>2, TypedStep
<1>7. ASSUME NEW n \in Nodes, Load(n) PROVE TypeOK'
  <2>1. UNCHANGED <<Environment, reports, tracker, told>>  BY <1>7 DEF Load
  <2>2. Steps(n)  BY <1>7, LoadSteps
  <2> QED BY <1>1, <2>1, <2>2, TypedStep
<1>8. ASSUME NEW n \in Nodes, NEW i \in DOMAIN tracker, Send(n, i) PROVE TypeOK'
  <2>1. UNCHANGED <<Environment, reports, tracker>> /\ Steps(n)
    BY <1>8, SendSteps DEF Asks
  <2>2. told' \in [Bugs -> 0 .. MaxTold]
    BY <1>8, SendSteps, ToldSteps, BugOfEntry
  <2> QED BY <1>1, <2>1, <2>2, TypedStep
<1>9. ASSUME NEW n \in Nodes, NEW i \in DOMAIN tracker, SendRefused(n, i) PROVE TypeOK'
  <2>1. UNCHANGED <<Environment, reports, tracker, told>> /\ Steps(n)
    BY <1>9, SendRefusedSteps DEF Asks
  <2> QED BY <1>1, <2>1, TypedStep
<1>10. ASSUME NEW n \in Nodes, NEW i \in DOMAIN tracker, SendThrows(n, i) PROVE TypeOK'
  <2>1. UNCHANGED <<Environment, reports, tracker>> /\ Steps(n)
    BY <1>10, SendThrowsSteps DEF Ends
  <2>2. told' \in [Bugs -> 0 .. MaxTold]
    BY <1>1, <1>10, SendThrowsSteps, ToldSteps, BugOfEntry
  <2> QED BY <1>1, <2>1, <2>2, TypedStep
<1>11. ASSUME NEW n \in Nodes, Mark(n) PROVE TypeOK'
  <2>1. /\ UNCHANGED <<Environment, reports, told>> /\ tracker' \in Seq(Doc)
        /\ Steps(n)
    BY <1>11, MarkSteps DEF SameEntries, Ends
  <2> QED BY <1>1, <2>1, TypedStep
<1>12. ASSUME NEW n \in Nodes, AskThrows(n) \/ Done(n) \/ Crash(n) PROVE TypeOK'
  <2>1. UNCHANGED <<Environment, reports, tracker, told>> /\ Steps(n)
    BY <1>12, StopSteps DEF Ends
  <2> QED BY <1>1, <2>1, TypedStep
<1> QED
  BY <1>2, <1>3, <1>4, <1>5, <1>6, <1>7, <1>8, <1>9, <1>10, <1>11, <1>12, StepCases

\* For any number of bugs, nodes and reports everything has its type.
THEOREM Types == Spec => []TypeOK
<1> QED BY TypedInit, TypedNext, PTL DEF Spec

-----------------------------------------------------------------------------
(***************************************************************************)
(* An answer that is stored is that of the bug it is stored for.           *)
(***************************************************************************)
LEMMA TruthfulInit == Init => Truthful
<1> SUFFICES ASSUME Init PROVE Truthful  OBVIOUS
<1>1. DOMAIN tracker = {}  BY DEF Init
<1>2. \A n \in Nodes : pass[n].at = "idle"  BY OverTyped DEF Init, IsOver
<1> QED BY <1>1, <1>2 DEF Truthful, AnsweredWasTold

\* No bug is untold; an entry gets an answer only of a told bug.
LEMMA TruthfulStep ==
  ASSUME TypeOK, Truthful, NEW n \in Nodes, Steps(n),
         \A b \in Bugs : told[b] > 0 => told'[b] > 0,
         \A i \in DOMAIN tracker' : tracker'[i].response \in {"id", "error"} =>
           \/ told'[tracker'[i].report.bug] > 0
           \/ /\ i \in DOMAIN tracker /\ tracker'[i].report = tracker[i].report
              /\ tracker[i].response = tracker'[i].response,
         pass'[n].at = "mark" /\ pass'[n].answer \in {"id", "error"} =>
           \A b \in pass'[n].bug : told'[b] > 0
  PROVE  Truthful'
<1>1. AnsweredWasTold'
  <2> SUFFICES ASSUME NEW i \in DOMAIN tracker', tracker'[i].response \in {"id", "error"}
               PROVE  told'[tracker'[i].report.bug] > 0
    BY DEF AnsweredWasTold
  <2>1. CASE /\ i \in DOMAIN tracker /\ tracker'[i].report = tracker[i].report
             /\ tracker[i].response = tracker'[i].response
    <3>1. told[tracker[i].report.bug] > 0  BY <2>1 DEF Truthful, AnsweredWasTold
    <3> QED BY <2>1, <3>1, BugOfEntry
  <2> QED BY <2>1
<1>2. ASSUME NEW m \in Nodes, pass'[m].at = "mark", pass'[m].answer \in {"id", "error"},
             NEW b \in pass'[m].bug
      PROVE  told'[b] > 0
  <2>1. CASE m = n  BY <1>2, <2>1
  <2>2. CASE m # n
    <3>1. pass'[m] = pass[m] /\ pass[m] \in PassState
      BY <2>2 DEF Steps, TypeOK
    <3>2. b \in Bugs /\ told[b] > 0  BY <1>2, <3>1 DEF Truthful, PassState
    <3> QED BY <3>2
  <2> QED BY <2>1, <2>2
<1> QED BY <1>1, <1>2 DEF Truthful

LEMMA TruthfulNext == TypeOK /\ Truthful /\ [Next]_vars => Truthful'
<1> SUFFICES ASSUME TypeOK, Truthful, [Next]_vars PROVE Truthful'  OBVIOUS
<1>1. CASE UNCHANGED vars
  BY <1>1 DEF Truthful, AnsweredWasTold, vars
<1>2. ASSUME NEW k \in Keys, NEW b \in Bugs, ChironReports(k, b) PROVE Truthful'
  BY <1>2, ReportSteps DEF Truthful, AnsweredWasTold
<1>3. ASSUME NEW n \in Nodes, NEW s \in 0 .. MaxReports, Window(n, s) PROVE Truthful'
  <2>1. UNCHANGED <<Environment, reports, tracker, told>>  BY <1>3 DEF Window
  <2>2. Steps(n) /\ pass'[n].at = "ask"  BY <1>3, WindowSteps
  <2> QED BY <2>1, <2>2, TruthfulStep
<1>4. ASSUME NEW n \in Nodes, Ask(n) PROVE Truthful'
  <2>1. UNCHANGED <<Environment, reports, tracker, told>>  BY <1>4 DEF Ask
  <2>2. Steps(n) /\ pass'[n].at # "mark"  BY <1>4, AskSteps DEF Ends, IsOver
  <2> QED BY <2>1, <2>2, TruthfulStep
<1>5. ASSUME NEW n \in Nodes, NEW r \in Report, Save(n, r) PROVE Truthful'
  <2>1. UNCHANGED <<Environment, reports, told>>  BY <1>5 DEF Save
  <2>2. /\ Steps(n) /\ pass'[n].at # "mark"
        /\ DOMAIN tracker' = DOMAIN tracker \cup {Len(tracker) + 1}
        /\ \A i \in DOMAIN tracker : tracker'[i] = tracker[i]
        /\ tracker'[Len(tracker) + 1].response = ""
    BY <1>5, SaveSteps
  <2> QED BY <2>1, <2>2, TruthfulStep
<1>6. ASSUME NEW n \in Nodes, Load(n) PROVE Truthful'
  <2>1. UNCHANGED <<Environment, reports, tracker, told>>  BY <1>6 DEF Load
  <2>2. Steps(n) /\ pass'[n].at # "mark"  BY <1>6, LoadSteps
  <2> QED BY <2>1, <2>2, TruthfulStep
<1>7. ASSUME NEW n \in Nodes, NEW i \in DOMAIN tracker, Send(n, i) PROVE Truthful'
  <2>1. /\ UNCHANGED <<Environment, reports, tracker>> /\ Steps(n)
        /\ pass'[n].bug = {tracker[i].report.bug}
    BY <1>7, SendSteps DEF Asks
  <2>2. /\ \A b \in Bugs : told[b] > 0 => told'[b] > 0
        /\ told'[tracker[i].report.bug] > 0
    BY <1>7, SendSteps, ToldSteps, BugOfEntry
  <2> QED BY <2>1, <2>2, TruthfulStep
<1>8. ASSUME NEW n \in Nodes, NEW i \in DOMAIN tracker, SendRefused(n, i) PROVE Truthful'
  <2>1. /\ UNCHANGED <<Environment, reports, tracker, told>> /\ Steps(n)
        /\ pass'[n].answer \in {"refused", ""}
    BY <1>8, SendRefusedSteps DEF Asks
  <2> QED BY <2>1, TruthfulStep
<1>9. ASSUME NEW n \in Nodes, NEW i \in DOMAIN tracker, SendThrows(n, i) PROVE Truthful'
  <2>1. /\ UNCHANGED <<Environment, reports, tracker>> /\ Steps(n)
        /\ pass'[n].at # "mark"
    BY <1>9, SendThrowsSteps DEF Ends, IsOver
  <2>2. \A b \in Bugs : told[b] > 0 => told'[b] > 0
    BY <1>9, SendThrowsSteps, ToldSteps, BugOfEntry
  <2> QED BY <2>1, <2>2, TruthfulStep
<1>10. ASSUME NEW n \in Nodes, Mark(n) PROVE Truthful'
  <2>1. /\ UNCHANGED <<Environment, reports, told>> /\ pass[n].at = "mark"
        /\ Steps(n) /\ pass'[n].at # "mark" /\ SameEntries
    BY <1>10, MarkSteps DEF Ends, IsOver
  <2>2. PICK b \in pass[n].bug : \A i \in DOMAIN tracker :
          tracker'[i].response =
            IF tracker[i].report.bug = b THEN pass[n].answer ELSE tracker[i].response
    BY <1>10, MarkSteps
  <2>3. pass[n].answer \in {"id", "error"} => told[b] > 0
    BY <2>1, <2>2 DEF Truthful
  <2> QED BY <2>1, <2>2, <2>3, TruthfulStep DEF SameEntries
<1>11. ASSUME NEW n \in Nodes, AskThrows(n) \/ Done(n) \/ Crash(n) PROVE Truthful'
  <2>1. /\ UNCHANGED <<Environment, reports, tracker, told>> /\ Steps(n)
        /\ pass'[n].at # "mark"
    BY <1>11, StopSteps DEF Ends, IsOver
  <2> QED BY <2>1, TruthfulStep
<1> QED
  BY <1>1, <1>2, <1>3, <1>4, <1>5, <1>6, <1>7, <1>8, <1>9, <1>10, <1>11, StepCases

\* However many nodes send the same entries and whatever fails, an entry that
\* has JN's id, or says that the id was missing, is of a bug JN was told of.
THEOREM AnswersAreTold == Spec => []AnsweredWasTold
<1>1. Truthful => AnsweredWasTold  BY DEF Truthful
<1> QED BY <1>1, TypedInit, TypedNext, TruthfulInit, TruthfulNext, PTL DEF Spec
-----------------------------------------------------------------------------
(***************************************************************************)
(* What was reported before the newest createdDate is stored, or will be.  *)
(***************************************************************************)
Quiet == faults \cap {"late", "crash"} = {}

LEMMA KeptInit == Init => Kept
<1> SUFFICES ASSUME Init PROVE Kept  OBVIOUS
<1>1. DOMAIN tracker = {} /\ DOMAIN reports = {} /\ Len(reports) = 0  BY DEF Init
<1>2. \A n \in Nodes : pass[n].at = "idle" /\ pass[n].start = 0 /\ pass[n].created = 0
  BY OverTyped DEF Init, IsOver
<1> QED BY <1>1, <1>2 DEF Kept

\* Who is stored remains so, and who leaves a list is stored.
LEMMA StoreStep ==
  ASSUME TypeOK, NEW n \in Nodes, Steps(n), UNCHANGED reports,
         \A i \in DOMAIN tracker :
           i \in DOMAIN tracker' /\ tracker'[i].report = tracker[i].report,
         \A r \in pass[n].list : pass[n].at = "save" =>
           \/ pass'[n].at = "save" /\ r \in pass'[n].list
           \/ \E i \in DOMAIN tracker' : tracker'[i].report = r,
         NEW j \in DOMAIN reports, InStore(j)
  PROVE  InStore(j)'
<1>1. CASE Tracked(reports[j])
  BY <1>1 DEF InStore, Tracked
<1>2. ASSUME NEW m \in Nodes, pass[m].at = "save", reports[j] \in pass[m].list
      PROVE  InStore(j)'
  <2>1. CASE m = n
    BY <1>2, <2>1 DEF InStore, Tracked
  <2>2. CASE m # n
    BY <1>2, <2>2 DEF InStore, Steps
  <2> QED BY <2>1, <2>2
<1> QED BY <1>1, <1>2 DEF InStore

\* A step of n keeps the rest: what is new is the window of n, the date of its
\* list, and an entry with this date.
LEMMA KeptStep ==
  ASSUME TypeOK, Kept, Quiet, NEW n \in Nodes, Steps(n), UNCHANGED reports,
         \A j \in DOMAIN reports : InStore(j) => InStore(j)',
         \A d \in DOMAIN tracker' :
           \/ d \in DOMAIN tracker /\ tracker'[d].created = tracker[d].created
           \/ pass[n].at = "save" /\ tracker'[d].created = pass[n].created,
         pass'[n].start <= Len(reports), pass'[n].created <= Len(reports),
         pass'[n].at = "ask" =>
           /\ pass'[n].end = Len(reports)
           /\ \A j \in DOMAIN reports : j <= pass'[n].start => InStore(j)',
         pass'[n].at = "save" =>
           \A j \in DOMAIN reports : j <= pass'[n].created => InStore(j)'
  PROVE  Kept'
<1>1. /\ \A d \in DOMAIN tracker : tracker[d].created <= Len(reports)
      /\ \A m \in Nodes : pass[m].start <= Len(reports) /\ pass[m].created <= Len(reports)
      /\ \A m \in Nodes : pass[m].at = "ask" => pass[m].end = Len(reports)
  BY DEF Kept, Quiet
<1>2. ASSUME NEW j \in DOMAIN reports
      PROVE  /\ \A d \in DOMAIN tracker : j <= tracker[d].created => InStore(j)
             /\ \A m \in Nodes : pass[m].at = "save" /\ j <= pass[m].created => InStore(j)
             /\ \A m \in Nodes : pass[m].at = "ask" /\ j <= pass[m].start => InStore(j)
  BY <1>2 DEF Kept, Quiet
<1>3. \A d \in DOMAIN tracker' : tracker'[d].created <= Len(reports)
  BY <1>1
<1>4. ASSUME NEW m \in Nodes
      PROVE  /\ pass'[m].start <= Len(reports) /\ pass'[m].created <= Len(reports)
             /\ pass'[m].at = "ask" => pass'[m].end = Len(reports)
  BY <1>1 DEF Steps
<1>5. ASSUME NEW j \in DOMAIN reports,
             \/ \E d \in DOMAIN tracker' : j <= tracker'[d].created
             \/ \E m \in Nodes : \/ pass'[m].at = "save" /\ j <= pass'[m].created
                                 \/ pass'[m].at = "ask" /\ j <= pass'[m].start
      PROVE  InStore(j)'
  <2>1. ASSUME NEW d \in DOMAIN tracker', j <= tracker'[d].created PROVE InStore(j)'
    BY <1>2, <2>1
  <2>2. ASSUME NEW m \in Nodes,
               \/ pass'[m].at = "save" /\ j <= pass'[m].created
               \/ pass'[m].at = "ask" /\ j <= pass'[m].start
        PROVE  InStore(j)'
    <3>1. CASE m = n  BY <2>2, <3>1
    <3>2. CASE m # n
      <4>1. pass'[m] = pass[m]  BY <3>2 DEF Steps
      <4> QED BY <1>2, <2>2, <4>1
    <3> QED BY <3>1, <3>2
  <2> QED BY <1>5, <2>1, <2>2
<1> HIDE DEF InStore
<1> QED BY <1>3, <1>4, <1>5 DEF Kept

LEMMA KeptReport ==
  ASSUME TypeOK, Kept, Quiet, NEW k \in Keys, NEW b \in Bugs, ChironReports(k, b)
  PROVE  Kept'
<1>1. /\ reports' \in Seq(Report) /\ Len(reports') = Len(reports) + 1
      /\ \A i \in DOMAIN reports : reports'[i] = reports[i]
      /\ UNCHANGED <<faults, tracker, pass>>
  BY ReportSteps DEF Environment
<1>2. reports \in Seq(Report) /\ Len(reports) \in Nat /\ DOMAIN reports = 1 .. Len(reports)
      /\ DOMAIN reports' = 1 .. Len(reports')
  BY <1>1 DEF TypeOK
<1>3. /\ \A d \in DOMAIN tracker : tracker[d].created \in Nat
      /\ \A n \in Nodes : pass[n].start \in Nat /\ pass[n].created \in Nat
  <2>1. \A d \in DOMAIN tracker : tracker[d] \in Doc  BY DEF TypeOK
  <2>2. \A n \in Nodes : pass[n] \in PassState  BY DEF TypeOK
  <2> QED BY <2>1, <2>2, Numbers DEF Doc, PassState
<1>4. /\ \A d \in DOMAIN tracker : tracker[d].created <= Len(reports)
      /\ \A n \in Nodes : pass[n].start <= Len(reports) /\ pass[n].created <= Len(reports)
  BY DEF Kept, Quiet
<1>5. \A n \in Nodes : pass[n].at # "ask"
  BY DEF ChironReports, Quiet
<1>6. ASSUME NEW j \in DOMAIN reports',
             \/ \E d \in DOMAIN tracker : j <= tracker[d].created
             \/ \E n \in Nodes : pass[n].at = "save" /\ j <= pass[n].created
      PROVE  InStore(j)'
  <2>1. j <= Len(reports) /\ j \in DOMAIN reports
    BY <1>1, <1>2, <1>3, <1>4, <1>6
  <2>2. InStore(j)  BY <1>6, <2>1 DEF Kept, Quiet
  <2> QED BY <1>1, <2>1, <2>2 DEF InStore, Tracked
<1>7. /\ \A d \in DOMAIN tracker : tracker[d].created <= Len(reports')
      /\ \A n \in Nodes : pass[n].start <= Len(reports') /\ pass[n].created <= Len(reports')
  BY <1>1, <1>2, <1>3, <1>4
<1> HIDE DEF InStore
<1> QED BY <1>1, <1>5, <1>6, <1>7 DEF Kept

LEMMA KeptWindow ==
  ASSUME TypeOK, Kept, Quiet, NEW n \in Nodes, NEW s \in 0 .. MaxReports, Window(n, s)
  PROVE  Kept'
<1>1. UNCHANGED <<faults, reports, tracker, told>> /\ pass[n].at = "idle" /\ IsNewest(s)
  BY DEF Window, Environment
<1>2. /\ Steps(n) /\ pass'[n].at = "ask" /\ pass'[n].start = s
      /\ pass'[n].end = Len(reports) /\ pass'[n].created = 0
  BY WindowSteps
<1>3. \A j \in DOMAIN reports : InStore(j) => InStore(j)'
  BY <1>1, <1>2, StoreStep
<1>4. Len(reports) \in Nat /\ DOMAIN reports = 1 .. Len(reports)  BY DEF TypeOK
<1>5. s <= Len(reports)
  BY <1>1, <1>4 DEF IsNewest, Kept, Quiet
<1>6. ASSUME NEW j \in DOMAIN reports, j <= s PROVE InStore(j)
  <2>1. PICK d \in DOMAIN tracker : tracker[d].created = s
    BY <1>1, <1>4, <1>6 DEF IsNewest
  <2> QED BY <1>6, <2>1 DEF Kept, Quiet
<1> QED BY <1>1, <1>2, <1>3, <1>4, <1>5, <1>6, KeptStep

LEMMA KeptAsk ==
  ASSUME TypeOK, Kept, Quiet, NEW n \in Nodes, Ask(n)
  PROVE  Kept'
<1> DEFINE similar == Similar(pass[n].start, pass[n].end)
<1>1. UNCHANGED <<faults, reports, tracker, told>> /\ pass[n].at = "ask"
  BY DEF Ask, Environment
<1>2. Steps(n)  BY AskSteps DEF Ends
<1>3. \A j \in DOMAIN reports : InStore(j) => InStore(j)'
  BY <1>1, <1>2, StoreStep
<1>4. reports \in Seq(Report) /\ Len(reports) \in Nat /\ DOMAIN reports = 1 .. Len(reports)
  BY DEF TypeOK
<1>5. CASE Ends(n)
  <2>1. pass'[n].at = "idle" /\ pass'[n].start = 0 /\ pass'[n].created = 0
    BY <1>5 DEF Ends, IsOver
  <2> QED BY <1>1, <1>2, <1>3, <1>4, <2>1, KeptStep
<1>6. CASE ~Ends(n)
  <2>1. /\ pass'[n].at = "save" /\ pass'[n].start = 0 /\ pass'[n].list = New(similar)
        /\ pass'[n].created = Len(reports)
    BY <1>6, AskSteps
  <2>2. ASSUME NEW j \in DOMAIN reports PROVE InStore(j)'
    <3>1. CASE j <= pass[n].start
      <4>1. InStore(j)  BY <1>1, <3>1 DEF Kept, Quiet
      <4> QED BY <1>3, <4>1
    <3>2. CASE ~(j <= pass[n].start)
      <4>1. pass[n].start \in Nat
        <5>1. pass[n] \in PassState  BY DEF TypeOK
        <5> QED BY <5>1, Numbers DEF PassState
      <4>2. pass[n].end = Len(reports)  BY <1>1 DEF Kept, Quiet
      <4>3. pass[n].start < j /\ j <= pass[n].end  BY <1>4, <3>2, <4>1, <4>2
      <4>4. reports[j] \in similar  BY <4>3 DEF Similar
      <4>5. Tracked(reports[j]) \/ reports[j] \in pass'[n].list
        BY <2>1, <4>4 DEF New
      <4> HIDE DEF similar
      <4> QED BY <1>1, <2>1, <4>5 DEF InStore, Tracked
    <3> QED BY <3>1, <3>2
  <2> QED BY <1>1, <1>2, <1>3, <1>4, <2>1, <2>2, KeptStep
<1> QED BY <1>5, <1>6

LEMMA KeptSave ==
  ASSUME TypeOK, Kept, Quiet, NEW n \in Nodes, NEW r \in Report, Save(n, r)
  PROVE  Kept'
<1>1. UNCHANGED <<faults, reports, told>>  BY DEF Save, Environment
<1>2. /\ Steps(n) /\ pass[n].at = "save" /\ pass'[n].at = "save"
      /\ pass'[n].list = pass[n].list \ {r} /\ pass'[n].start = pass[n].start
      /\ pass'[n].created = pass[n].created
      /\ DOMAIN tracker' = DOMAIN tracker \cup {Len(tracker) + 1}
      /\ \A i \in DOMAIN tracker : tracker'[i] = tracker[i]
      /\ tracker'[Len(tracker) + 1].report = r
      /\ tracker'[Len(tracker) + 1].created = pass[n].created
  BY SaveSteps
<1>3. \A j \in DOMAIN reports : InStore(j) => InStore(j)'
  BY <1>1, <1>2, StoreStep
<1>4. pass[n].start <= Len(reports) /\ pass[n].created <= Len(reports)
  BY DEF Kept, Quiet
<1>5. \A j \in DOMAIN reports : j <= pass[n].created => InStore(j)
  BY <1>2 DEF Kept, Quiet
<1> QED BY <1>1, <1>2, <1>3, <1>4, <1>5, KeptStep

\* A step that begins no window and no list, and leaves a list only when empty.
LEMMA KeptOther ==
  ASSUME TypeOK, Kept, Quiet, NEW n \in Nodes, Steps(n), UNCHANGED reports,
         SameEntries,
         pass'[n].at \notin {"ask", "save"}, pass[n].at = "save" => pass[n].list = {},
         pass'[n].start \in {0, pass[n].start}, pass'[n].created \in {0, pass[n].created}
  PROVE  Kept'
<1>1. \A j \in DOMAIN reports : InStore(j) => InStore(j)'
  BY StoreStep DEF SameEntries
<1>2. Len(reports) \in Nat  BY DEF TypeOK
<1>3. pass[n].start <= Len(reports) /\ pass[n].created <= Len(reports)
  BY DEF Kept, Quiet
<1>4. pass'[n].start <= Len(reports) /\ pass'[n].created <= Len(reports)
  BY <1>2, <1>3
<1> QED BY <1>1, <1>4, KeptStep DEF SameEntries

LEMMA KeptNext == TypeOK /\ Kept /\ [Next]_vars => Kept'
<1> SUFFICES ASSUME TypeOK, Kept, [Next]_vars PROVE Kept'  OBVIOUS
<1>0. faults' = faults
  BY DEF vars, Next, PassNext, ChironReports, Window, Ask, AskThrows, Save, Load, Send,
         SendRefused, SendThrows, Mark, Done, Crash, Environment
<1>1. CASE ~Quiet
  BY <1>0, <1>1 DEF Quiet, Kept
<1> SUFFICES ASSUME Quiet PROVE Kept'  BY <1>1
<1> HIDE DEF Quiet
<1>2. CASE UNCHANGED vars
  BY <1>2 DEF Kept, InStore, Tracked, vars
<1>3. tracker' = tracker => SameEntries
  BY DEF SameEntries, TypeOK
<1>4. ASSUME NEW n \in Nodes, Load(n) PROVE Kept'
  <2>1. UNCHANGED <<reports, tracker>>  BY <1>4 DEF Load
  <2>2. /\ Steps(n) /\ pass[n].list = {} /\ pass'[n].at = "send"
        /\ pass'[n].start = 0 /\ pass'[n].created = 0
    BY <1>4, LoadSteps
  <2> QED BY <1>3, <2>1, <2>2, KeptOther
<1>5. ASSUME NEW n \in Nodes, NEW i \in DOMAIN tracker, Send(n, i) PROVE Kept'
  <2>1. /\ UNCHANGED <<reports, tracker>> /\ pass[n].at = "send" /\ Steps(n)
        /\ pass'[n].at = "mark" /\ pass'[n].start = pass[n].start
        /\ pass'[n].created = pass[n].created
    BY <1>5, SendSteps DEF Asks
  <2> QED BY <1>3, <2>1, KeptOther
<1>6. ASSUME NEW n \in Nodes, NEW i \in DOMAIN tracker, SendRefused(n, i) PROVE Kept'
  <2>1. /\ UNCHANGED <<reports, tracker>> /\ pass[n].at = "send" /\ Steps(n)
        /\ pass'[n].at = "mark" /\ pass'[n].start = pass[n].start
        /\ pass'[n].created = pass[n].created
    BY <1>6, SendRefusedSteps DEF Asks
  <2> QED BY <1>3, <2>1, KeptOther
<1>7. ASSUME NEW n \in Nodes, NEW i \in DOMAIN tracker, SendThrows(n, i) PROVE Kept'
  <2>1. /\ UNCHANGED <<reports, tracker>> /\ pass[n].at = "send" /\ Steps(n)
        /\ pass'[n].at = "idle" /\ pass'[n].start = 0 /\ pass'[n].created = 0
    BY <1>7, SendThrowsSteps DEF Ends, IsOver
  <2> QED BY <1>3, <2>1, KeptOther
<1>8. ASSUME NEW n \in Nodes, Mark(n) PROVE Kept'
  <2>1. /\ UNCHANGED reports /\ pass[n].at = "mark" /\ SameEntries /\ Steps(n)
        /\ pass'[n].at \in {"idle", "send"} /\ pass'[n].start \in {0, pass[n].start}
        /\ pass'[n].created \in {0, pass[n].created}
    BY <1>8, MarkSteps DEF Ends, IsOver
  <2> QED BY <2>1, KeptOther
<1>9. ASSUME NEW n \in Nodes, AskThrows(n) \/ Done(n) \/ Crash(n) PROVE Kept'
  <2>1. /\ UNCHANGED <<reports, tracker>> /\ pass[n].at \in {"ask", "send"} /\ Steps(n)
        /\ pass'[n].at = "idle" /\ pass'[n].start = 0 /\ pass'[n].created = 0
    BY <1>9, StopSteps DEF Ends, IsOver, Quiet
  <2> QED BY <1>3, <2>1, KeptOther
<1> QED
  BY <1>2, <1>4, <1>5, <1>6, <1>7, <1>8, <1>9, StepCases,
     KeptReport, KeptWindow, KeptAsk, KeptSave

\* Of any number of nodes whose windows overlap, none moves the newest
\* createdDate past a report that is neither stored nor in a list to be stored,
\* as long as Chiron reports nothing while a node asks and no node stops.
THEOREM WindowsMissNothing == Spec => []ReportsTracked
<1>1. Kept => ReportsTracked  BY DEF Kept, ReportsTracked, InStore
<1> QED BY <1>1, TypedInit, TypedNext, KeptInit, KeptNext, PTL DEF Spec
-----------------------------------------------------------------------------
(***************************************************************************)
(* A single node tells JN of an entry once.                                *)
(***************************************************************************)
Single(n) == running = {n} /\ faults \subseteq {"late", "jnNoId"}

\* What the pass of n has done and what it has to do still stay below the entries.
Fits(n) == \A b \in Bugs : told[b] + Cardinality(Due(n, b)) <= Cardinality(Entries(b))

LEMMA Finite ==
  ASSUME TypeOK, NEW n \in Nodes, NEW b \in Bugs
  PROVE  /\ IsFiniteSet(Entries(b)) /\ IsFiniteSet(Due(n, b))
         /\ Cardinality(Entries(b)) \in Nat /\ Cardinality(Due(n, b)) \in Nat
         /\ told[b] \in Nat
<1>1. DOMAIN tracker = 1 .. Len(tracker) /\ Len(tracker) \in Nat  BY DEF TypeOK
<1>2. IsFiniteSet(DOMAIN tracker)  BY <1>1, FS_Interval
<1>3. Entries(b) \in SUBSET DOMAIN tracker /\ Due(n, b) \in SUBSET DOMAIN tracker
  BY DEF Entries, Due
<1>4. IsFiniteSet(Entries(b)) /\ IsFiniteSet(Due(n, b))  BY <1>2, <1>3, FS_Subset
<1>5. told[b] \in Nat  BY Numbers DEF TypeOK
<1> QED BY <1>4, <1>5, FS_CardinalityType

LEMMA CountedInit == Init => Counted
<1> SUFFICES ASSUME Init PROVE Counted  OBVIOUS
<1>1. DOMAIN tracker = {}  BY DEF Init
<1>2. \A n \in Nodes : pass[n].at = "idle" /\ pass[n].todo = {}
  BY OverTyped DEF Init, IsOver
<1>3. \A n \in Nodes, b \in Bugs : Due(n, b) = {} /\ Entries(b) = {}
  BY <1>1 DEF Due, Entries
<1>4. \A b \in Bugs : told[b] = 0  BY DEF Init
<1>5. \A n \in Nodes, b \in Bugs :
        told[b] + Cardinality(Due(n, b)) <= Cardinality(Entries(b))
  BY <1>3, <1>4, FS_EmptySet
<1>6. \A n \in Nodes : TakenUp(n)
  BY <1>2 DEF TakenUp
<1> QED BY <1>2, <1>5, <1>6 DEF Counted

LEMMA CountedStep ==
  ASSUME TypeOK, Counted, NEW n \in Nodes, Steps(n), UNCHANGED Environment,
         pass[n].at # "idle" \/ n \in running,
         Single(n) => TakenUp(n)' /\ Fits(n)'
  PROVE  Counted'
<1>1. n \in running /\ faults' = faults /\ running' = running
  BY DEF Counted, Environment
<1>2. ASSUME NEW m \in Nodes, pass'[m].at # "idle" PROVE m \in running
  BY <1>1, <1>2 DEF Counted, Steps
<1>3. ASSUME NEW m \in Nodes, running = {m}, faults \subseteq {"late", "jnNoId"}
      PROVE  TakenUp(m)' /\ Fits(m)'
  <2>1. m = n /\ Single(n)  BY <1>1, <1>3 DEF Single
  <2> QED BY <2>1
<1> HIDE DEF TakenUp, Due, Entries
<1> QED BY <1>1, <1>2, <1>3 DEF Counted, Fits

LEMMA Fitting ==
  ASSUME Counted, NEW n \in Nodes, Single(n)
  PROVE  TakenUp(n) /\ Fits(n)
  BY DEF Counted, Single, Fits

\* Nothing is told, no entry made, and nothing becomes due.
LEMMA FitsLess ==
  ASSUME TypeOK, NEW n \in Nodes, Fits(n), told' = told,
         \A b \in Bugs : Entries(b)' = Entries(b) /\ Due(n, b)' \subseteq Due(n, b)
  PROVE  Fits(n)'
<1> SUFFICES ASSUME NEW b \in Bugs
             PROVE  told'[b] + Cardinality(Due(n, b)') <= Cardinality(Entries(b)')
  BY DEF Fits
<1>1. told[b] + Cardinality(Due(n, b)) <= Cardinality(Entries(b))  BY DEF Fits
<1>2. /\ Cardinality(Due(n, b)') \in Nat
      /\ Cardinality(Due(n, b)') <= Cardinality(Due(n, b))
  BY Finite, FS_Subset, FS_CardinalityType
<1> QED BY <1>1, <1>2, Finite

\* A pass that neither sends nor marks, before or after its step.
LEMMA CountedBefore ==
  ASSUME TypeOK, Counted, NEW n \in Nodes, Steps(n),
         UNCHANGED <<Environment, tracker, told>>,
         pass[n].at # "idle" \/ n \in running,
         pass[n].at \notin {"send", "mark"}, pass'[n].at \notin {"send", "mark"},
         pass'[n].todo = {}
  PROVE  Counted'
<1>1. ASSUME Single(n) PROVE TakenUp(n)' /\ Fits(n)'
  <2>1. TakenUp(n) /\ Fits(n)  BY <1>1, Fitting
  <2>2. \A b \in Bugs : Entries(b)' = Entries(b) /\ Due(n, b)' \subseteq Due(n, b)
    BY <2>1 DEF Entries, Due
  <2>3. TakenUp(n)'  BY DEF TakenUp
  <2> QED BY <2>1, <2>2, <2>3, FitsLess
<1> QED BY <1>1, CountedStep

LEMMA CountedSave ==
  ASSUME TypeOK, Counted, NEW n \in Nodes, NEW r \in Report, Save(n, r)
  PROVE  Counted'
<1> DEFINE new == Len(tracker) + 1
<1>1. UNCHANGED <<Environment, reports, told>>  BY DEF Save
<1>2. /\ Steps(n) /\ pass[n].at = "save" /\ pass'[n].at = "save"
      /\ pass'[n].todo = pass[n].todo
      /\ new \notin DOMAIN tracker /\ DOMAIN tracker' = DOMAIN tracker \cup {new}
      /\ \A i \in DOMAIN tracker : tracker'[i] = tracker[i]
      /\ tracker'[new].report = r /\ tracker'[new].response = ""
  BY SaveSteps
<1> HIDE DEF new
<1>3. ASSUME Single(n) PROVE TakenUp(n)' /\ Fits(n)'
  <2>1. TakenUp(n) /\ Fits(n) /\ pass[n].todo = {}
    BY <1>2, <1>3, Fitting DEF TakenUp
  <2>2. TakenUp(n)'  BY <1>2, <2>1 DEF TakenUp
  <2>3. ASSUME NEW b \in Bugs
        PROVE  told'[b] + Cardinality(Due(n, b)') <= Cardinality(Entries(b)')
    <3>1. told[b] + Cardinality(Due(n, b)) <= Cardinality(Entries(b))
      BY <2>1 DEF Fits
    <3>2. CASE r.bug = b
      <4>1. /\ Entries(b)' = Entries(b) \cup {new}
            /\ Due(n, b)' = Due(n, b) \cup {new}
            /\ new \notin Entries(b) /\ new \notin Due(n, b)
        BY <1>2, <2>1, <3>2 DEF Entries, Due
      <4>2. /\ Cardinality(Entries(b)') = Cardinality(Entries(b)) + 1
            /\ Cardinality(Due(n, b)') = Cardinality(Due(n, b)) + 1
        BY <4>1, Finite, FS_AddElement
      <4> QED BY <1>1, <3>1, <4>2, Finite
    <3>3. CASE r.bug # b
      <4>1. Entries(b)' = Entries(b) /\ Due(n, b)' = Due(n, b)
        BY <1>2, <2>1, <3>3 DEF Entries, Due
      <4> QED BY <1>1, <3>1, <4>1
    <3> QED BY <3>2, <3>3
  <2> QED BY <2>2, <2>3 DEF Fits
<1> QED BY <1>1, <1>2, <1>3, CountedStep

LEMMA CountedLoad ==
  ASSUME TypeOK, Counted, NEW n \in Nodes, Load(n)
  PROVE  Counted'
<1>1. UNCHANGED <<Environment, reports, tracker, told>>  BY DEF Load
<1>2. /\ Steps(n) /\ pass[n].at = "save" /\ pass'[n].at = "send"
      /\ pass'[n].todo = {i \in DOMAIN tracker : tracker[i].response = ""}
  BY LoadSteps
<1>3. ASSUME Single(n) PROVE TakenUp(n)' /\ Fits(n)'
  <2>1. Fits(n)  BY <1>3, Fitting
  <2>2. \A b \in Bugs : Entries(b)' = Entries(b) /\ Due(n, b)' \subseteq Due(n, b)
    BY <1>1, <1>2 DEF Entries, Due
  <2>3. TakenUp(n)'  BY <1>1, <1>2 DEF TakenUp
  <2> QED BY <1>1, <2>1, <2>2, <2>3, FitsLess
<1> QED BY <1>1, <1>2, <1>3, CountedStep

LEMMA CountedSend ==
  ASSUME TypeOK, Counted, NEW n \in Nodes, NEW i \in DOMAIN tracker, Send(n, i)
  PROVE  Counted'
<1> DEFINE bug == tracker[i].report.bug
<1>1. /\ pass[n].at = "send" /\ i \in pass[n].todo
      /\ UNCHANGED <<Environment, reports, tracker>> /\ Told(bug)
  BY SendSteps
<1>2. /\ Steps(n) /\ pass'[n].at = "mark" /\ pass'[n].todo = pass[n].todo \ {i}
      /\ pass'[n].bug = {bug} /\ pass'[n].answer \in {"id", "error"}
  BY SendSteps DEF Asks
<1>3. bug \in Bugs  BY BugOfEntry
<1>4. /\ told' \in [Bugs -> 0 .. MaxTold] /\ told'[bug] <= told[bug] + 1
      /\ \A c \in Bugs : c # bug => told'[c] = told[c]
  BY <1>1, <1>3, ToldSteps
<1>5. ASSUME Single(n) PROVE TakenUp(n)' /\ Fits(n)'
  <2>1. TakenUp(n) /\ Fits(n)  BY <1>5, Fitting
  <2>2. TakenUp(n)'  BY <1>1, <1>2, <2>1 DEF TakenUp
  <2>3. ASSUME NEW b \in Bugs
        PROVE  told'[b] + Cardinality(Due(n, b)') <= Cardinality(Entries(b)')
    <3>1. told[b] + Cardinality(Due(n, b)) <= Cardinality(Entries(b))
      BY <2>1 DEF Fits
    <3>2. Entries(b)' = Entries(b)  BY <1>1 DEF Entries
    <3>3. CASE bug = b
      <4>1. Due(n, b)' = Due(n, b) \ {i} /\ i \in Due(n, b)
        BY <1>1, <1>2, <3>3 DEF Entries, Due
      <4>2. Cardinality(Due(n, b)') = Cardinality(Due(n, b)) - 1
        BY <4>1, Finite, FS_RemoveElement
      <4>3. told'[b] \in Nat /\ told'[b] <= told[b] + 1  BY <1>4, <3>3, Numbers
      <4> HIDE DEF bug
      <4> QED BY <3>1, <3>2, <4>2, <4>3, Finite
    <3>4. CASE bug # b
      <4>1. Due(n, b)' = Due(n, b)
        BY <1>1, <1>2, <3>4 DEF Entries, Due
      <4> QED BY <1>4, <3>1, <3>2, <3>4, <4>1
    <3> QED BY <3>3, <3>4
  <2> QED BY <2>2, <2>3 DEF Fits
<1> QED BY <1>1, <1>2, <1>5, CountedStep

LEMMA CountedMark ==
  ASSUME TypeOK, Counted, NEW n \in Nodes, Mark(n)
  PROVE  Counted'
<1>1. /\ pass[n].at = "mark" /\ SameEntries /\ UNCHANGED <<Environment, reports, told>>
      /\ Steps(n)
  BY MarkSteps DEF Ends
<1>2. PICK bug \in pass[n].bug : \A i \in DOMAIN tracker :
        tracker'[i].response =
          IF tracker[i].report.bug = bug THEN pass[n].answer ELSE tracker[i].response
  BY MarkSteps
<1>3. ASSUME Single(n) PROVE TakenUp(n)' /\ Fits(n)'
  <2>1. TakenUp(n) /\ Fits(n)  BY <1>3, Fitting
  <2>2. pass[n].answer # "" /\ \A b, c \in pass[n].bug : b = c
    BY <1>1, <2>1 DEF TakenUp
  <2>3. ASSUME NEW i \in DOMAIN tracker, tracker'[i].response = ""
        PROVE  tracker[i].response = "" /\ i \in pass[n].todo
    <3>1. tracker[i].report.bug # bug /\ tracker[i].response = ""
      BY <1>2, <2>2, <2>3
    <3> QED BY <1>1, <1>2, <2>1, <2>2, <3>1 DEF TakenUp
  <2>4. \A b \in Bugs : Entries(b)' = Entries(b)
    BY <1>1 DEF Entries, SameEntries
  <2>5. CASE pass[n].answer = "error" /\ Ends(n)
    <3>1. pass'[n].at = "idle" /\ pass'[n].todo = {}  BY <2>5 DEF Ends, IsOver
    <3>2. TakenUp(n)'  BY <3>1 DEF TakenUp
    <3>3. \A b \in Bugs : Due(n, b)' \subseteq Due(n, b)
      BY <1>1, <2>3, <2>4, <3>1 DEF Due, Entries, SameEntries
    <3> QED BY <1>1, <2>1, <2>4, <3>2, <3>3, FitsLess
  <2>6. CASE pass'[n].at = "send" /\ pass'[n].todo = pass[n].todo
    <3>1. TakenUp(n)'  BY <1>1, <2>3, <2>6 DEF TakenUp, SameEntries
    <3>2. \A b \in Bugs : Due(n, b)' \subseteq Due(n, b)
      BY <1>1, <2>4, <2>6 DEF Due, Entries, SameEntries
    <3> QED BY <1>1, <2>1, <2>4, <3>1, <3>2, FitsLess
  <2> QED BY <2>5, <2>6, MarkSteps
<1> QED BY <1>1, <1>3, CountedStep

\* The end of a pass that has sent all.
LEMMA CountedDone ==
  ASSUME TypeOK, Counted, NEW n \in Nodes, Ends(n), pass[n].at = "send",
         pass[n].todo = {}, UNCHANGED <<Environment, reports, tracker, told>>
  PROVE  Counted'
<1>1. Steps(n) /\ pass'[n].at = "idle" /\ pass'[n].todo = {}
  BY DEF Ends, IsOver
<1>2. ASSUME Single(n) PROVE TakenUp(n)' /\ Fits(n)'
  <2>1. TakenUp(n) /\ Fits(n)  BY <1>2, Fitting
  <2>2. TakenUp(n)'  BY <1>1 DEF TakenUp
  <2>3. \A b \in Bugs : Entries(b)' = Entries(b) /\ Due(n, b)' \subseteq Due(n, b)
    BY <1>1, <2>1 DEF Due, Entries, TakenUp
  <2> QED BY <2>1, <2>2, <2>3, FitsLess
<1> QED BY <1>1, <1>2, CountedStep

LEMMA CountedNext == TypeOK /\ Counted /\ [Next]_vars => Counted'
<1> SUFFICES ASSUME TypeOK, Counted, [Next]_vars PROVE Counted'  OBVIOUS
<1>1. CASE UNCHANGED <<Environment, tracker, told, pass>>
  <2>1. /\ faults' = faults /\ running' = running /\ tracker' = tracker
        /\ told' = told /\ pass' = pass
    BY <1>1 DEF Environment
  <2>2. ASSUME NEW n \in Nodes PROVE TakenUp(n)' = TakenUp(n)
    BY <2>1 DEF TakenUp
  <2>3. ASSUME NEW n \in Nodes, NEW b \in Bugs
        PROVE  Due(n, b)' = Due(n, b) /\ Entries(b)' = Entries(b)
    BY <2>1 DEF Due, Entries
  <2> QED BY <2>1, <2>2, <2>3 DEF Counted
<1>2. ASSUME NEW k \in Keys, NEW b \in Bugs, ChironReports(k, b) PROVE Counted'
  BY <1>1, <1>2, ReportSteps
<1>3. ASSUME NEW n \in Nodes, NEW s \in 0 .. MaxReports, Window(n, s) PROVE Counted'
  <2>1. /\ UNCHANGED <<Environment, tracker, told>> /\ n \in running
        /\ pass[n].at = "idle"
    BY <1>3 DEF Window
  <2>2. Steps(n) /\ pass'[n].at = "ask" /\ pass'[n].todo = {}  BY <1>3, WindowSteps
  <2> QED BY <2>1, <2>2, CountedBefore
<1>4. ASSUME NEW n \in Nodes, Ask(n) PROVE Counted'
  <2>1. UNCHANGED <<Environment, tracker, told>> /\ pass[n].at = "ask"
    BY <1>4 DEF Ask
  <2>2. Steps(n) /\ pass'[n].at \in {"idle", "save"} /\ pass'[n].todo = {}
    BY <1>4, AskSteps DEF Ends, IsOver
  <2> QED BY <2>1, <2>2, CountedBefore
<1>5. ASSUME NEW n \in Nodes, NEW i \in DOMAIN tracker, SendRefused(n, i) PROVE Counted'
  <2>1. /\ pass[n].at = "send" /\ "jnRejects" \in faults /\ UNCHANGED Environment
        /\ Steps(n)
    BY <1>5, SendRefusedSteps DEF Asks
  <2>2. ~Single(n)  BY <2>1 DEF Single
  <2> QED BY <2>1, <2>2, CountedStep
<1>6. ASSUME NEW n \in Nodes, NEW i \in DOMAIN tracker, SendThrows(n, i) PROVE Counted'
  <2>1. /\ pass[n].at = "send" /\ faults \cap {"jnThrows", "chironThrows"} # {}
        /\ UNCHANGED Environment /\ Steps(n)
    BY <1>6, SendThrowsSteps DEF Ends
  <2>2. ~Single(n)  BY <2>1 DEF Single
  <2> QED BY <2>1, <2>2, CountedStep
<1>7. ASSUME NEW n \in Nodes, AskThrows(n) \/ Done(n) \/ Crash(n) PROVE Counted'
  <2>1. /\ Ends(n) /\ UNCHANGED <<Environment, reports, tracker, told>>
        /\ \/ pass[n].at = "ask"
           \/ pass[n].at = "send" /\ pass[n].todo = {}
           \/ "crash" \in faults
    BY <1>7, StopSteps
  <2>2. Steps(n) /\ pass'[n].at = "idle" /\ pass'[n].todo = {}
    BY <2>1 DEF Ends, IsOver
  <2>3. CASE pass[n].at = "ask"
    BY <2>1, <2>2, <2>3, CountedBefore
  <2>4. CASE pass[n].at = "send" /\ pass[n].todo = {}
    BY <2>1, <2>4, CountedDone
  <2>5. CASE "crash" \in faults
    <3>1. ~Single(n)  BY <2>5 DEF Single
    <3>2. CASE pass[n].at # "idle"  BY <2>1, <2>2, <3>1, <3>2, CountedStep
    <3>3. CASE pass[n].at = "idle"
      BY <2>1, <2>2, <2>5, <3>3 DEF Counted, TakenUp, Steps, Environment
    <3> QED BY <3>2, <3>3
  <2> QED BY <2>1, <2>3, <2>4, <2>5
<1>8. UNCHANGED vars => UNCHANGED <<Environment, tracker, told, pass>>
  BY DEF vars, Environment
<1> QED
  BY <1>1, <1>2, <1>3, <1>4, <1>5, <1>6, <1>7, <1>8, StepCases,
     CountedSave, CountedLoad, CountedSend, CountedMark

\* A single node, with any number of reports and some of them late, tells JN of
\* a bug no more often than it has entries, also when JN answers without an id.
THEOREM OncePerEntry == Spec => []ToldPerEntry
<1>1. TypeOK /\ Counted => ToldPerEntry
  <2> SUFFICES ASSUME TypeOK, Counted, NEW n \in Nodes, running = {n},
                      faults \subseteq {"late", "jnNoId"}, NEW b \in Bugs
               PROVE  told[b] <= Cardinality(Entries(b))
    BY DEF ToldPerEntry, Entries
  <2>1. told[b] + Cardinality(Due(n, b)) <= Cardinality(Entries(b))
    BY DEF Counted
  <2> QED BY <2>1, Finite
<1> QED BY <1>1, TypedInit, TypedNext, CountedInit, CountedNext, PTL DEF Spec
=============================================================================
