----------------------------- MODULE SimilarBugs -----------------------------
(***************************************************************************)
(* Bugs of Bugzilla that are similar to a bug closed in Chiron are sent to *)
(* JN for another analysis (JNSchedular, ProcessJNOrphicSimilarBugs).      *)
(*                                                                         *)
(* Every two minutes each node asks Chiron for the similar bugs reported   *)
(* since the newest createdDate of the collection JNChironBugTracker,      *)
(* stores those that are new, and sends JN all that have no response yet.  *)
(* No master is asked, but a node starts a pass only when its last one is  *)
(* over (fixedDelay).                                                      *)
(*                                                                         *)
(* Time only orders a createdDate and the ends of a window among the       *)
(* reports of Chiron: it is the number of reports made so far.  The window *)
(* s, e holds the reports s + 1 .. e.  The nodes' clocks agree, and no     *)
(* report is older than the seven days the first window reaches back.      *)
(***************************************************************************)
EXTENDS Naturals, Sequences, FiniteSets

CONSTANTS
  Keys,        \* synthetic bugs, closed in Chiron
  Bugs,        \* bugs of Bugzilla
  Nodes,
  Faults,      \* what may go wrong in the environment, out of FaultKinds
  MaxFaults,   \* bound: kinds of fault in one behaviour
  MaxReports,  \* bound: reports Chiron makes, one less for each further node
  MaxTold      \* bound: told counts to here, "or more"

FaultKinds == {"late",          \* a report while a node waits for Chiron
               "chironThrows",  \* a call throws, its effect taken or not
               "jnThrows",      \* a call throws, its effect taken or not
               "jnRejects",     \* JN answers with another status than 200
               "jnNoId",        \* JN answers 200 without analysisRequestID
               "crash"}         \* a node stops

ASSUME KnownFaults == Faults \subseteq FaultKinds
ASSUME Bounds == MaxReports \in Nat /\ MaxTold \in Nat \ {0}

VARIABLES
  faults,   \* those of Faults that happen in this behaviour
  running,  \* the nodes that run the scheduler
  reports,  \* Chiron: the similar bugs found, in the order of time
  tracker,  \* collection JNChironBugTracker
  told,     \* how often JN has started an analysis of a bug
  pass      \* the pass of a node

vars == <<faults, running, reports, tracker, told, pass>>

Report == [key: Keys, bug: Bugs]

\* responseMessage: "" when not yet sent, else JN's id, the text of an
\* exception, or the body of a refusal.
Responses == {"", "id", "error", "refused"}

Doc == [report: Report, created: 0 .. MaxReports, response: Responses]

PassState ==
  [at: {"idle", "ask", "save", "send", "mark"},
   start: 0 .. MaxReports, end: 0 .. MaxReports,  \* DateFilter
   list: SUBSET Report,       \* rest of the filtered jnChironBugTrackerList
   created: 0 .. MaxReports,  \* the createdDate of its entries
   todo: SUBSET Nat,          \* places in the tracker of the rest of bugsForJN
   bug: SUBSET Bugs,          \* the bug being sent, or none
   answer: Responses]

IdlePass ==
  [at |-> "idle", start |-> 0, end |-> 0, list |-> {}, created |-> 0,
   todo |-> {}, bug |-> {}, answer |-> ""]

\* Everything has its type.
TypeOK ==
  /\ faults \subseteq Faults
  /\ running \subseteq Nodes
  /\ reports \in Seq(Report) /\ Len(reports) <= MaxReports
  /\ tracker \in Seq(Doc)
  /\ told \in [Bugs -> 0 .. MaxTold]
  /\ pass \in [Nodes -> PassState]

Init ==
  /\ faults \in {F \in SUBSET Faults : Cardinality(F) <= MaxFaults}
  /\ running \in SUBSET Nodes \ {{}}
  /\ reports = <<>>
  /\ tracker = <<>>
  /\ told = [b \in Bugs |-> 0]
  /\ pass = [n \in Nodes |-> IdlePass]

Environment == <<faults, running>>

End(n) == pass' = [pass EXCEPT ![n] = IdlePass]

-----------------------------------------------------------------------------
\* Chiron finds that b is similar to the closed bug k, perhaps once more.
ChironReports(k, b) ==
  /\ Len(reports) < MaxReports
  /\ Len(reports) + Cardinality(running) <= MaxReports
  /\ "late" \notin faults => \A n \in Nodes : pass[n].at # "ask"
  /\ reports' = Append(reports, [key |-> k, bug |-> b])
  /\ UNCHANGED <<Environment, tracker, told, pass>>

\* auditBasedOnCreatedDate looks for the newest createdDate.
IsNewest(s) ==
  IF tracker = <<>> THEN s = 0
  ELSE /\ \E i \in DOMAIN tracker : tracker[i].created = s
       /\ \A i \in DOMAIN tracker : tracker[i].created <= s

Window(n, s) ==
  /\ n \in running
  /\ pass[n].at = "idle"
  /\ IsNewest(s)
  /\ pass' = [pass EXCEPT ![n] = [IdlePass EXCEPT !.at = "ask", !.start = s,
                                                  !.end = Len(reports)]]
  /\ UNCHANGED <<Environment, reports, tracker, told>>

\* Mutant: the window is open at its end.
SimilarOpen(s, e) == {reports[i] : i \in {j \in DOMAIN reports : s < j /\ j < e}}

\* What Chiron answers to a window: a map, so each pair once.
Similar(s, e) == {reports[i] : i \in {j \in DOMAIN reports : s < j /\ j <= e}}

\* The bug of r is stored, under whatever key.
Tracked(r) == \E i \in DOMAIN tracker : tracker[i].report.bug = r.bug

\* Mutant: one bug already stored drops all.
NewOrNothing(R) == IF \A r \in R : ~Tracked(r) THEN R ELSE {}

\* filterDuplicateAndClosedBugs compares with the collection only, so that a
\* bug similar to two closed ones is stored twice.
New(R) == {r \in R : ~Tracked(r)}

\* Chiron answers, entries are made, with a date of their own, and those of
\* bugs already stored are dropped.  An empty answer ends the pass before
\* anything pending is looked for.
Ask(n) ==
  /\ pass[n].at = "ask"
  /\ LET similar == Similar(pass[n].start, pass[n].end)
     IN  IF similar # {}
         THEN pass' = [pass EXCEPT ![n] = [IdlePass EXCEPT
                         !.at = "save", !.list = New(similar),
                         !.created = Len(reports)]]
         ELSE End(n)
  /\ UNCHANGED <<Environment, reports, tracker, told>>

AskThrows(n) ==
  /\ "chironThrows" \in faults
  /\ pass[n].at = "ask"
  /\ End(n)
  /\ UNCHANGED <<Environment, reports, tracker, told>>

\* saveJNChironBugTracker, a document at a time.
Save(n, r) ==
  /\ pass[n].at = "save"
  /\ r \in pass[n].list
  /\ tracker' = Append(tracker, [report |-> r, created |-> pass[n].created,
                                 response |-> ""])
  /\ pass' = [pass EXCEPT ![n].list = @ \ {r}]
  /\ UNCHANGED <<Environment, reports, told>>

\* getBugsBasedOnStatus, in the order of the collection.
Load(n) ==
  /\ pass[n].at = "save"
  /\ pass[n].list = {}
  /\ pass' = [pass EXCEPT ![n] = [IdlePass EXCEPT
                 !.at = "send",
                 !.todo = {i \in DOMAIN tracker : tracker[i].response = ""}]]
  /\ UNCHANGED <<Environment, reports, tracker, told>>

\* The next of the list is the entry at i.
IsNext(n, i) == i \in pass[n].todo /\ \A j \in pass[n].todo : i <= j

Told(b) == told' = [told EXCEPT ![b] = IF @ = MaxTold THEN MaxTold ELSE @ + 1]

Answered(n, i, a) ==
  LET todo == pass[n].todo \ {i}
  IN  pass' = [pass EXCEPT ![n] = [@ EXCEPT !.at = "mark", !.todo = todo,
                     !.bug = {tracker[i].report.bug}, !.answer = a]]

\* JN starts an analysis, and the bug of Bugzilla is commented on; not, at
\* first, when the answer has no id.
Send(n, i) ==
  /\ pass[n].at = "send"
  /\ IsNext(n, i)
  /\ Told(tracker[i].report.bug)
  /\ \E a \in {"id"} \cup (IF "jnNoId" \in faults THEN {"error"} ELSE {}) :
       Answered(n, i, a)
  /\ UNCHANGED <<Environment, reports, tracker>>

\* The body of a refusal is stored as it is, and may be empty.
SendRefused(n, i) ==
  /\ "jnRejects" \in faults
  /\ pass[n].at = "send"
  /\ IsNext(n, i)
  /\ \E a \in {"refused", ""} : Answered(n, i, a)
  /\ UNCHANGED <<Environment, reports, tracker, told>>

\* JN throws, told or not; or it is told and the comment throws.
SendThrows(n, i) ==
  /\ pass[n].at = "send"
  /\ IsNext(n, i)
  /\ \/ faults \cap {"jnThrows", "chironThrows"} # {} /\ Told(tracker[i].report.bug)
     \/ "jnThrows" \in faults /\ UNCHANGED told
  /\ End(n)
  /\ UNCHANGED <<Environment, reports, tracker>>

\* Mutant: a status is stored for the answer.
RespondStatus(b, a) ==
  tracker' = [i \in DOMAIN tracker |->
                IF tracker[i].report.bug = b
                THEN [tracker[i] EXCEPT !.response = "SENT"] ELSE tracker[i]]

\* Mutant: updateFirst for updateMulti.
RespondFirst(b, a) ==
  tracker' = [i \in DOMAIN tracker |->
                IF /\ tracker[i].report.bug = b
                   /\ \A j \in 1 .. i - 1 : tracker[j].report.bug # b
                THEN [tracker[i] EXCEPT !.response = a] ELSE tracker[i]]

\* Mutant: the query has no criterion.
RespondAll(b, a) ==
  tracker' = [i \in DOMAIN tracker |-> [tracker[i] EXCEPT !.response = a]]

\* updateSentToJNStatus: updateMulti, every entry of the bug.
Respond(b, a) ==
  tracker' = [i \in DOMAIN tracker |->
                IF tracker[i].report.bug = b
                THEN [tracker[i] EXCEPT !.response = a] ELSE tracker[i]]

\* After the text of an exception the bug is commented on, and the missing id
\* throws: the pass ends with its other bugs unsent.
Mark(n) ==
  /\ pass[n].at = "mark"
  /\ \E b \in pass[n].bug : Respond(b, pass[n].answer)
  /\ IF pass[n].answer = "error"
     THEN End(n)
     ELSE pass' = [pass EXCEPT ![n] = [@ EXCEPT !.at = "send", !.bug = {},
                                                !.answer = ""]]
  /\ UNCHANGED <<Environment, reports, told>>

Done(n) ==
  /\ pass[n].at = "send"
  /\ pass[n].todo = {}
  /\ End(n)
  /\ UNCHANGED <<Environment, reports, tracker, told>>

Crash(n) ==
  /\ "crash" \in faults
  /\ pass[n] # IdlePass
  /\ End(n)
  /\ UNCHANGED <<Environment, reports, tracker, told>>

-----------------------------------------------------------------------------
PassNext(n) ==
  \/ \E s \in 0 .. MaxReports : Window(n, s)
  \/ Ask(n)
  \/ AskThrows(n)
  \/ \E r \in Report : Save(n, r)
  \/ Load(n)
  \/ \E i \in DOMAIN tracker : Send(n, i)
  \/ \E i \in DOMAIN tracker : SendRefused(n, i)
  \/ \E i \in DOMAIN tracker : SendThrows(n, i)
  \/ Mark(n)
  \/ Done(n)

Next ==
  \/ \E k \in Keys, b \in Bugs : ChironReports(k, b)
  \/ \E n \in Nodes : PassNext(n) \/ Crash(n)

Spec == Init /\ [][Next]_vars

\* A running node starts its passes and ends them.
FairSpec == Spec /\ \A n \in Nodes : WF_vars(PassNext(n))

-----------------------------------------------------------------------------
(***************************************************************************)
(* Properties.                                                             *)
(***************************************************************************)
\* A report older than the next window, whose start is the newest createdDate,
\* is not lost: its bug is stored or about to be, by some node.  Not so when
\* Chiron reports between the end of a window and the date of its entries, or
\* when a node stops between two saves.
ReportsTracked ==
  faults \cap {"late", "crash"} = {} =>
    \A i \in DOMAIN reports, d \in DOMAIN tracker :
      i <= tracker[d].created =>
        \/ Tracked(reports[i])
        \/ \E n \in Nodes : pass[n].at = "save" /\ reports[i] \in pass[n].list

\* An entry with an id, or with the text that says the id was missing, is one
\* of a bug that JN was told of: entries are never marked for another's answer.
AnsweredWasTold ==
  \A i \in DOMAIN tracker :
    tracker[i].response \in {"id", "error"} => told[tracker[i].report.bug] > 0

\* JN is told of a bug no more often than it has entries.  Two nodes may both
\* send an entry, one whose answer is lost is sent again, and a refusal without
\* a text makes all entries of its bug pending again.
ToldPerEntry ==
  ((\E n \in Nodes : running = {n}) /\ faults \subseteq {"late", "jnNoId"})
    => \A b \in Bugs :
         told[b] <= Cardinality({i \in DOMAIN tracker : tracker[i].report.bug = b})

\* When nothing goes wrong JN is told of every bug reported.  Whatever goes
\* wrong leaves entries pending that are sent again only after another report.
EveryReportTold ==
  \A i \in 1 .. MaxReports :
    (faults = {} /\ i <= Len(reports))
      ~> (i <= Len(reports) /\ told[reports[i].bug] > 0)
=============================================================================
