--------------------------- MODULE AuditBeanProofs ---------------------------
(***************************************************************************)
(* Theorems about AuditBean, for any sets of audits, passes and beans.     *)
(***************************************************************************)
EXTENDS AuditBean, TLAPS

\* What a pass takes from the fields of its bean, or holds, is an object.
Held ==
  \A p \in Passes :
    /\ pass[p].pc \in {"load", "ask", "post"} =>
         pass[p].own \in Refs /\ Field(p).audit \in Refs
    /\ pass[p].pc \in {"ask", "post"} => Field(p).job \in Refs
    /\ pass[p].pc \in {"record", "sync", "tell", "flag", "save"} =>
         pass[p].audit \in Refs /\ pass[p].job \in Refs

\* An audit is never READY, so that its status may be told to Chiron.
Decided ==
  /\ \A a \in Audits : audits[a].status \in Verdict
  /\ \A r \in Refs : auditObj[r].status \in Verdict

\* The inductive invariant that types rest on.
Typing == TypeOK /\ Held /\ Decided

LEMMA InitTyping == Init => Typing
<1> SUFFICES ASSUME Init PROVE Typing
  OBVIOUS
<1> USE DEF Init
<1>1. TypeOK
  BY DEF TypeOK, Open, Idle, Audit, Job, Fields, PassState, Status, Verdict, Refs
<1>2. Held
  BY DEF Held, Idle
<1>3. Decided
  BY DEF Decided, Open, Verdict
<1> QED
  BY <1>1, <1>2, <1>3 DEF Typing

\* The three ways a pass moves on from an item.
LEMMA Gone ==
  ASSUME TypeOK, NEW p \in Passes,
         Goes(p, "ask") \/ Goes(p, "sync") \/ Goes(p, "flag") \/ Goes(p, "save")
  PROVE  pass' \in [Passes -> PassState]
<1>1. PICK pc \in {"ask", "sync", "flag", "save"} : Goes(p, pc)
  OBVIOUS
<1> DEFINE s == [pass[p] EXCEPT !.pc = pc]
<1>2. pass[p] \in PassState
  BY DEF TypeOK
<1>3. s \in PassState
  BY <1>2 DEF PassState
<1>4. pass' = [pass EXCEPT ![p] = s]
  BY <1>1 DEF Goes
<1> HIDE DEF s
<1> QED
  BY <1>3, <1>4 DEF TypeOK

LEMMA Continued ==
  ASSUME TypeOK, NEW p \in Passes, Continues(p)
  PROVE  pass' \in [Passes -> PassState]
<1> DEFINE s == [Idle EXCEPT !.pc = "accept", !.todo = pass[p].todo]
<1>1. pass[p] \in PassState
  BY DEF TypeOK
<1>2. s \in PassState
  BY <1>1 DEF Idle, PassState, Verdict
<1>3. pass' = [pass EXCEPT ![p] = s]
  BY DEF Continues
<1> HIDE DEF s
<1> QED
  BY <1>2, <1>3 DEF TypeOK

LEMMA Told ==
  ASSUME TypeOK, NEW p \in Passes, NEW status \in Verdict,
         pass' = [pass EXCEPT ![p] = [@ EXCEPT !.pc = "tell", !.status = status]]
  PROVE  pass' \in [Passes -> PassState]
<1> DEFINE s == [pass[p] EXCEPT !.pc = "tell", !.status = status]
<1>1. pass[p] \in PassState
  BY DEF TypeOK
<1>2. s \in PassState
  BY <1>1 DEF PassState
<1>3. pass' = [pass EXCEPT ![p] = s]
  OBVIOUS
<1> HIDE DEF s
<1> QED
  BY <1>2, <1>3 DEF TypeOK

LEMMA StillHeld ==
  ASSUME TypeOK, Held, UNCHANGED bean, NEW p \in Passes, NEW s,
         pass' = [pass EXCEPT ![p] = s],
         \/ s.pc = "accept"
         \/ /\ pass[p].pc \in {"record", "sync", "tell", "flag"}
            /\ s.pc \in {"sync", "tell", "flag", "save"}
            /\ s.audit = pass[p].audit /\ s.job = pass[p].job
  PROVE  Held'
<1>1. pass'[p] = s /\ \A q \in Passes : q # p => pass'[q] = pass[q]
  BY DEF TypeOK
<1> QED
  BY <1>1 DEF Held, Field

LEMMA StartTyping == ASSUME NEW p \in Passes, Start(p), Typing PROVE Typing'
<1> USE BeanOfAssumption DEF Start, store, Typing
<1> DEFINE W == {a \in Audits : audits[a].status = "INPROGRESS"}
<1>0. W \in SUBSET Audits
  OBVIOUS
<1>a. pass' = [pass EXCEPT ![p] = [@ EXCEPT !.pc = "accept", !.todo = W]]
  OBVIOUS
<1> HIDE DEF W
<1>1. pass' \in [Passes -> PassState]
  <2> DEFINE s == [pass[p] EXCEPT !.pc = "accept", !.todo = W]
  <2>1. pass[p] \in PassState
    BY DEF TypeOK
  <2>2. s \in PassState
    BY <1>0, <2>1 DEF PassState
  <2>3. pass' = [pass EXCEPT ![p] = s]
    BY <1>a
  <2> HIDE DEF s
  <2> QED
    BY <2>2, <2>3 DEF TypeOK
<1>2. bean' \in [Beans -> Fields]
  BY DEF TypeOK, Held, Fields, Refs, PassState
<1>3. audits' \in [Audits -> Audit] /\ auditObj' \in [Refs -> Audit]
  BY DEF TypeOK, Held, Decided, Field, Refs, Audit, Status, Verdict
<1>4. jobs' \in [Audits -> Status] /\ jobObj' \in [Refs -> Job]
  BY DEF TypeOK, Held, Field, Refs, Job, Status
<1>5. approved' \subseteq Audits /\ closed' \subseteq Audits
  BY DEF TypeOK, Held, Field, Refs
<1>6. Held'
  BY <1>0, <1>a DEF TypeOK, Held, Field, PassState
<1>7. Decided'
  BY DEF TypeOK, Decided, Refs, Audit
<1> QED
  BY <1>1, <1>2, <1>3, <1>4, <1>5, <1>6, <1>7 DEF TypeOK

LEMMA AcceptTyping == ASSUME NEW p \in Passes, Accept(p), Typing PROVE Typing'
<1> USE BeanOfAssumption DEF Accept, store, Typing
<1>1. pass' \in [Passes -> PassState]
  <2>1. PICK a \in pass[p].todo :
          pass' = [pass EXCEPT ![p] =
            [pass[p] EXCEPT !.pc = "load", !.todo = @ \ {a}, !.own = <<p, a>>]]
    OBVIOUS
  <2> DEFINE s == [pass[p] EXCEPT !.pc = "load", !.todo = @ \ {a}, !.own = <<p, a>>]
  <2>2. pass[p] \in PassState
    BY DEF TypeOK
  <2>3. <<p, a>> \in Refs
    BY <2>2 DEF PassState, Refs
  <2>4. s \in PassState
    BY <2>2, <2>3 DEF PassState
  <2>5. pass' = [pass EXCEPT ![p] = s]
    BY <2>1
  <2> HIDE DEF s
  <2> QED
    BY <2>4, <2>5 DEF TypeOK
<1>2. bean' \in [Beans -> Fields]
  <2>1. PICK a \in pass[p].todo : bean' = [bean EXCEPT ![BeanOf[p]].audit = <<p, a>>]
    OBVIOUS
  <2>2. <<p, a>> \in Refs
    BY DEF TypeOK, PassState, Refs
  <2> QED
    BY <2>1, <2>2 DEF TypeOK, Fields
<1>3. audits' \in [Audits -> Audit] /\ auditObj' \in [Refs -> Audit]
  BY DEF TypeOK, Held, Decided, Field, Refs, Audit, Status, Verdict
<1>4. jobs' \in [Audits -> Status] /\ jobObj' \in [Refs -> Job]
  BY DEF TypeOK, Held, Field, Refs, Job, Status
<1>5. approved' \subseteq Audits /\ closed' \subseteq Audits
  BY DEF TypeOK, Held, Field, Refs
<1>6. Held'
  <2>1. PICK a \in pass[p].todo :
          /\ pass' = [pass EXCEPT ![p] =
               [pass[p] EXCEPT !.pc = "load", !.todo = @ \ {a}, !.own = <<p, a>>]]
          /\ bean' = [bean EXCEPT ![BeanOf[p]].audit = <<p, a>>]
    OBVIOUS
  <2>2. <<p, a>> \in Refs
    BY DEF TypeOK, PassState, Refs
  <2>3. \A q \in Passes :
          /\ bean'[BeanOf[q]].job = bean[BeanOf[q]].job
          /\ bean'[BeanOf[q]].audit = bean[BeanOf[q]].audit \/ bean'[BeanOf[q]].audit \in Refs
    <3>1. BeanOf[p] \in Beans /\ bean[BeanOf[p]] \in Fields
      BY DEF TypeOK
    <3>2. bean' = [bean EXCEPT ![BeanOf[p]] = [bean[BeanOf[p]] EXCEPT !.audit = <<p, a>>]]
      BY <2>1
    <3>3. bean'[BeanOf[p]] = [bean[BeanOf[p]] EXCEPT !.audit = <<p, a>>]
      BY <3>1, <3>2 DEF TypeOK
    <3>4. bean'[BeanOf[p]].job = bean[BeanOf[p]].job /\ bean'[BeanOf[p]].audit = <<p, a>>
      BY <3>1, <3>3 DEF Fields
    <3>5. \A o \in Beans : o # BeanOf[p] => bean'[o] = bean[o]
      BY <3>2 DEF TypeOK
    <3> QED
      BY <2>2, <3>4, <3>5
  <2>4. pass'[p].pc = "load" /\ pass'[p].own = <<p, a>> /\ bean'[BeanOf[p]].audit = <<p, a>>
    BY <2>1 DEF TypeOK, PassState, Fields
  <2>5. \A q \in Passes : q # p => pass'[q] = pass[q]
    BY <2>1 DEF TypeOK
  <2> QED
    BY <2>2, <2>3, <2>4, <2>5 DEF Held, Field
<1>7. Decided'
  BY <1>3 DEF TypeOK, Held, Decided, Field, Audit, Verdict
<1> QED
  BY <1>1, <1>2, <1>3, <1>4, <1>5, <1>6, <1>7 DEF TypeOK

LEMMA LoadTyping == ASSUME NEW p \in Passes, Load(p), Typing PROVE Typing'
<1> USE BeanOfAssumption DEF Load, Goes, store, Typing
<1>1. pass' \in [Passes -> PassState]
  BY DEF TypeOK, Held, Decided, Field, PassState, Verdict
<1>2. bean' \in [Beans -> Fields]
  BY DEF TypeOK, Held, Fields, Refs, PassState
<1>3. audits' \in [Audits -> Audit] /\ auditObj' \in [Refs -> Audit]
  BY DEF TypeOK, Held, Decided, Field, Refs, Audit, Status, Verdict
<1>4. jobs' \in [Audits -> Status] /\ jobObj' \in [Refs -> Job]
  BY DEF TypeOK, Held, Field, Refs, Job, Status
<1>5. approved' \subseteq Audits /\ closed' \subseteq Audits
  BY DEF TypeOK, Held, Field, Refs
<1>6. Held'
  BY <1>1, <1>2 DEF TypeOK, Held, Field, PassState, Fields
<1>7. Decided'
  BY <1>3 DEF TypeOK, Held, Decided, Field, Audit, Verdict
<1> QED
  BY <1>1, <1>2, <1>3, <1>4, <1>5, <1>6, <1>7 DEF TypeOK

LEMMA AskTyping == ASSUME NEW p \in Passes, Ask(p), Typing PROVE Typing'
<1> USE BeanOfAssumption DEF Ask, store, Typing
<1>1. pass' \in [Passes -> PassState]
  <2>1. PICK cleared \in BOOLEAN :
          pass' = [pass EXCEPT ![p] =
            [@ EXCEPT !.pc = "post", !.cleared = cleared]]
    OBVIOUS
  <2> DEFINE s == [pass[p] EXCEPT !.pc = "post", !.cleared = cleared]
  <2>2. pass[p] \in PassState
    BY DEF TypeOK
  <2>3. s \in PassState
    BY <2>2 DEF PassState
  <2>4. pass' = [pass EXCEPT ![p] = s]
    BY <2>1
  <2> HIDE DEF s
  <2> QED
    BY <2>3, <2>4 DEF TypeOK
<1>2. bean' \in [Beans -> Fields]
  BY DEF TypeOK, Held, Fields, Refs, PassState
<1>3. audits' \in [Audits -> Audit] /\ auditObj' \in [Refs -> Audit]
  BY DEF TypeOK, Held, Decided, Field, Refs, Audit, Status, Verdict
<1>4. jobs' \in [Audits -> Status] /\ jobObj' \in [Refs -> Job]
  BY DEF TypeOK, Held, Field, Refs, Job, Status
<1>5. approved' \subseteq Audits /\ closed' \subseteq Audits
  BY DEF TypeOK, Held, Field, Refs
<1>6. Held'
  BY <1>1, <1>2 DEF TypeOK, Held, Field, PassState, Fields
<1>7. Decided'
  BY <1>3 DEF TypeOK, Held, Decided, Field, Audit, Verdict
<1> QED
  BY <1>1, <1>2, <1>3, <1>4, <1>5, <1>6, <1>7 DEF TypeOK

LEMMA PostTyping == ASSUME NEW p \in Passes, Post(p), Typing PROVE Typing'
<1> USE BeanOfAssumption DEF Post, store, Typing
<1> DEFINE f == Field(p)
<1>0. f.audit \in Refs /\ f.job \in Refs
  BY DEF Held
<1>a. PICK status \in Verdict :
        /\ pass' = [pass EXCEPT ![p] =
              [@ EXCEPT !.pc = "record",
                        !.audit = f.audit,
                        !.job = f.job,
                        !.status = status]]
        /\ auditObj' = [auditObj EXCEPT ![f.audit].status =
                          IF status = "INPROGRESS" THEN @ ELSE status]
  BY DEF Verdict
<1> HIDE DEF f
<1>1. pass' \in [Passes -> PassState]
  <2> DEFINE s == [pass[p] EXCEPT !.pc = "record", !.audit = f.audit,
                                  !.job = f.job, !.status = status]
  <2>1. pass[p] \in PassState
    BY DEF TypeOK
  <2>2. s \in PassState
    BY <1>0, <2>1 DEF PassState
  <2>3. pass' = [pass EXCEPT ![p] = s]
    BY <1>a
  <2> HIDE DEF s
  <2> QED
    BY <2>2, <2>3 DEF TypeOK
<1>2. bean' \in [Beans -> Fields]
  BY DEF TypeOK, Held, Fields, Refs, PassState
<1>3. audits' \in [Audits -> Audit] /\ auditObj' \in [Refs -> Audit]
  BY DEF TypeOK, Held, Decided, Field, Refs, Audit, Status, Verdict
<1>4. jobs' \in [Audits -> Status] /\ jobObj' \in [Refs -> Job]
  BY DEF TypeOK, Held, Field, Refs, Job, Status
<1>5. approved' \subseteq Audits /\ closed' \subseteq Audits
  BY DEF TypeOK, Held, Field, Refs
<1>6. Held'
  BY <1>0, <1>a DEF TypeOK, Held, Field, PassState
<1>7. Decided'
  BY <1>3 DEF TypeOK, Held, Decided, Field, Audit, Verdict
<1> QED
  BY <1>1, <1>2, <1>3, <1>4, <1>5, <1>6, <1>7 DEF TypeOK

LEMMA RecordTyping == ASSUME NEW p \in Passes, Record(p), Typing PROVE Typing'
<1> USE BeanOfAssumption DEF Record, store, Typing
<1>1. pass' \in [Passes -> PassState]
  BY Continued, Gone DEF TypeOK
<1>2. bean' \in [Beans -> Fields]
  BY DEF TypeOK, Held, Fields, Refs, PassState
<1>3. audits' \in [Audits -> Audit] /\ auditObj' \in [Refs -> Audit]
  BY DEF TypeOK, Held, Decided, Field, Refs, Audit, Status, Verdict
<1>4. jobs' \in [Audits -> Status] /\ jobObj' \in [Refs -> Job]
  BY DEF TypeOK, Held, Field, Refs, Job, Status
<1>5. approved' \subseteq Audits /\ closed' \subseteq Audits
  BY DEF TypeOK, Held, Field, Refs
<1>6. Held'
  <2>1. CASE Continues(p)
    <3> DEFINE s == [Idle EXCEPT !.pc = "accept", !.todo = pass[p].todo]
    <3>1. s.pc = "accept"
      BY DEF Idle
    <3>2. pass' = [pass EXCEPT ![p] = s]
      BY <2>1 DEF Continues
    <3> HIDE DEF s
    <3> QED
      BY <3>1, <3>2, StillHeld
  <2>2. CASE Goes(p, "sync")
    <3> DEFINE s == [pass[p] EXCEPT !.pc = "sync"]
    <3>1. s.pc = "sync" /\ s.audit = pass[p].audit /\ s.job = pass[p].job
      BY DEF TypeOK, PassState
    <3>2. pass' = [pass EXCEPT ![p] = s]
      BY <2>2 DEF Goes
    <3> HIDE DEF s
    <3> QED
      BY <3>1, <3>2, StillHeld
  <2> QED
    BY <2>1, <2>2
<1>7. Decided'
  BY <1>3 DEF TypeOK, Held, Decided, Field, Audit, Verdict
<1> QED
  BY <1>1, <1>2, <1>3, <1>4, <1>5, <1>6, <1>7 DEF TypeOK

LEMMA SyncTyping == ASSUME NEW p \in Passes, Sync(p), Typing PROVE Typing'
<1> USE BeanOfAssumption DEF Sync, store, Typing
<1>0. auditObj[pass[p].audit].status \in Verdict
  BY DEF Held, Decided
<1>1. pass' \in [Passes -> PassState]
  BY <1>0, Told, Gone DEF Verdict
<1>2. bean' \in [Beans -> Fields]
  BY DEF TypeOK, Held, Fields, Refs, PassState
<1>3. audits' \in [Audits -> Audit] /\ auditObj' \in [Refs -> Audit]
  BY DEF TypeOK, Held, Decided, Field, Refs, Audit, Status, Verdict
<1>4. jobs' \in [Audits -> Status] /\ jobObj' \in [Refs -> Job]
  BY DEF TypeOK, Held, Job, Status
<1>5. approved' \subseteq Audits /\ closed' \subseteq Audits
  BY DEF TypeOK, Held, Field, Refs
<1>6. Held'
  <2>1. CASE Goes(p, "save")
    <3> DEFINE s == [pass[p] EXCEPT !.pc = "save"]
    <3>1. s.pc = "save" /\ s.audit = pass[p].audit /\ s.job = pass[p].job
      BY DEF TypeOK, PassState
    <3>2. pass' = [pass EXCEPT ![p] = s]
      BY <2>1 DEF Goes
    <3> HIDE DEF s
    <3> QED
      BY <3>1, <3>2, StillHeld
  <2>2. CASE \E status \in Verdict :
               pass' = [pass EXCEPT ![p] = [@ EXCEPT !.pc = "tell", !.status = status]]
    <3>1. PICK status \in Verdict :
            pass' = [pass EXCEPT ![p] = [@ EXCEPT !.pc = "tell", !.status = status]]
      BY <2>2
    <3> DEFINE s == [pass[p] EXCEPT !.pc = "tell", !.status = status]
    <3>2. s.pc = "tell" /\ s.audit = pass[p].audit /\ s.job = pass[p].job
      BY DEF TypeOK, PassState
    <3>3. pass' = [pass EXCEPT ![p] = s]
      BY <3>1
    <3> HIDE DEF s
    <3> QED
      BY <3>2, <3>3, StillHeld
  <2> QED
    BY <1>0, <2>1, <2>2 DEF Verdict
<1>7. Decided'
  BY <1>3 DEF TypeOK, Held, Decided, Field, Audit, Verdict
<1> QED
  BY <1>1, <1>2, <1>3, <1>4, <1>5, <1>6, <1>7 DEF TypeOK

LEMMA TellTyping == ASSUME NEW p \in Passes, Tell(p), Typing PROVE Typing'
<1> USE BeanOfAssumption DEF Tell, store, Typing
<1>1. pass' \in [Passes -> PassState]
  BY Gone
<1>2. bean' \in [Beans -> Fields]
  BY DEF TypeOK, Held, Fields, Refs, PassState
<1>3. audits' \in [Audits -> Audit] /\ auditObj' \in [Refs -> Audit]
  BY DEF TypeOK, Held, Decided, Field, Refs, Audit, Status, Verdict
<1>4. jobs' \in [Audits -> Status] /\ jobObj' \in [Refs -> Job]
  BY DEF TypeOK, Held, Field, Refs, Job, Status
<1>5. approved' \subseteq Audits /\ closed' \subseteq Audits
  BY DEF TypeOK, Held, Field, Refs
<1>6. Held'
  BY DEF Goes, TypeOK, Held, Field, PassState
<1>7. Decided'
  BY <1>3 DEF TypeOK, Held, Decided, Field, Audit, Verdict
<1> QED
  BY <1>1, <1>2, <1>3, <1>4, <1>5, <1>6, <1>7 DEF TypeOK

LEMMA FlagTyping == ASSUME NEW p \in Passes, Flag(p), Typing PROVE Typing'
<1> USE BeanOfAssumption DEF Flag, Goes, store, Typing
<1>1. pass' \in [Passes -> PassState]
  BY DEF TypeOK, Held, Decided, Field, PassState, Verdict
<1>2. bean' \in [Beans -> Fields]
  BY DEF TypeOK, Held, Fields, Refs, PassState
<1>3. audits' \in [Audits -> Audit] /\ auditObj' \in [Refs -> Audit]
  <2>1. pass[p].audit[2] \in Audits
    BY DEF Held, Refs
  <2> QED
    BY <2>1 DEF TypeOK, Audit
<1>4. jobs' \in [Audits -> Status] /\ jobObj' \in [Refs -> Job]
  BY DEF TypeOK, Held, Field, Refs, Job, Status
<1>5. approved' \subseteq Audits /\ closed' \subseteq Audits
  BY DEF TypeOK, Held, Field, Refs
<1>6. Held'
  BY <1>1, <1>2 DEF TypeOK, Held, Field, PassState, Fields
<1>7. Decided'
  BY <1>3 DEF TypeOK, Held, Decided, Field, Audit, Verdict
<1> QED
  BY <1>1, <1>2, <1>3, <1>4, <1>5, <1>6, <1>7 DEF TypeOK

LEMMA SaveTyping == ASSUME NEW p \in Passes, Save(p), Typing PROVE Typing'
<1> USE BeanOfAssumption DEF Save, Continues, Idle, store, Typing
<1>1. pass' \in [Passes -> PassState]
  BY DEF TypeOK, Held, Decided, Field, PassState, Verdict
<1>2. bean' \in [Beans -> Fields]
  BY DEF TypeOK, Held, Fields, Refs, PassState
<1>3. audits' \in [Audits -> Audit] /\ auditObj' \in [Refs -> Audit]
  BY DEF TypeOK, Held, Decided, Field, Refs, Audit, Status, Verdict
<1>4. jobs' \in [Audits -> Status] /\ jobObj' \in [Refs -> Job]
  BY DEF TypeOK, Held, Field, Refs, Job, Status
<1>5. approved' \subseteq Audits /\ closed' \subseteq Audits
  BY DEF TypeOK, Held, Field, Refs
<1>6. Held'
  BY <1>1, <1>2 DEF TypeOK, Held, Field, PassState, Fields
<1>7. Decided'
  BY <1>3 DEF TypeOK, Held, Decided, Field, Audit, Verdict
<1> QED
  BY <1>1, <1>2, <1>3, <1>4, <1>5, <1>6, <1>7 DEF TypeOK

LEMMA StepTyping == Typing /\ [Next]_vars => Typing'
<1> SUFFICES ASSUME Typing, [Next]_vars PROVE Typing'
  OBVIOUS
<1>1. CASE UNCHANGED vars
  BY <1>1 DEF vars, store, Typing, TypeOK, Held, Decided, Field
<1>2. CASE Next
  BY <1>2, StartTyping, AcceptTyping, LoadTyping, AskTyping, PostTyping, RecordTyping,
     SyncTyping, TellTyping, FlagTyping,
     SaveTyping DEF Next
<1> QED
  BY <1>1, <1>2

\* The fields of a bean, the objects and what is stored keep their types, also
\* when passes share a bean.
THEOREM TypeCorrect == Spec => []TypeOK
<1>1. Spec => []Typing
  BY InitTyping, StepTyping, PTL DEF Spec
<1> QED
  BY <1>1, PTL DEF Typing

-----------------------------------------------------------------------------
(***************************************************************************)
(* With a bean for each pass, an answer of JN stays with the audit it was  *)
(* asked for.                                                              *)
(***************************************************************************)
Apart == \A p, q \in Passes : BeanOf[p] = BeanOf[q] => p = q

\* The fields hold what the pass put there, and the objects it goes on with
\* are those of one item; a verdict it holds is one JN gave for that item.
OwnAt(p) ==
  /\ pass[p].pc \in {"load", "ask", "post"} => Field(p).audit = pass[p].own
  /\ pass[p].pc \in {"ask", "post"} => Field(p).job = pass[p].own
  /\ pass[p].pc = "post" /\ pass[p].cleared => pass[p].own[2] \in approved
  /\ pass[p].pc \in {"record", "sync", "tell", "flag", "save"} =>
       /\ pass[p].audit = pass[p].job
       /\ pass[p].status = "SUCCESS" => pass[p].audit[2] \in approved

Own == \A p \in Passes : OwnAt(p)

\* The objects in memory fit as what is stored does.
ObjectsFit ==
  \A r \in Refs :
    /\ jobObj[r].of = r[2]
    /\ auditObj[r].status = "SUCCESS" \/ jobObj[r].status = "SUCCESS" => r[2] \in approved

Owning == Typing /\ Own /\ ObjectsFit /\ VerdictFits /\ ClosedOnlyWhenCleared

LEMMA InitOwning == Init => Owning
<1> SUFFICES ASSUME Init PROVE Owning
  OBVIOUS
<1> USE DEF Init
<1>1. Own
  BY DEF Own, OwnAt, Idle
<1>2. ObjectsFit
  BY DEF ObjectsFit, Open
<1>3. VerdictFits /\ ClosedOnlyWhenCleared
  BY DEF VerdictFits, ClosedOnlyWhenCleared, Open
<1> QED
  BY <1>1, <1>2, <1>3, InitTyping DEF Owning

\* A step of one pass leaves the others as they were.
LEMMA OthersOwn ==
  ASSUME Own, NEW p \in Passes, OwnAt(p)',
         \A q \in Passes : q # p => pass'[q] = pass[q] /\ Field(q)' = Field(q),
         approved \subseteq approved'
  PROVE  Own'
BY DEF Own, OwnAt

LEMMA Alone ==
  ASSUME Typing, Apart, NEW p \in Passes, NEW f,
         bean' = [bean EXCEPT ![BeanOf[p]] = f]
  PROVE  /\ Field(p)' = f
         /\ \A q \in Passes : q # p => Field(q)' = Field(q)
BY BeanOfAssumption DEF Apart, Field, Typing, TypeOK

LEMMA StartOwning ==
  ASSUME NEW p \in Passes, Start(p), Owning PROVE Own' /\ ObjectsFit'
<1> USE DEF Start, store, Owning
<1>1. /\ pass'[p].pc = "accept"
      /\ \A q \in Passes : q # p => pass'[q] = pass[q] /\ Field(q)' = Field(q)
  BY DEF Typing, TypeOK, PassState, Field
<1>2. OwnAt(p)'
  BY <1>1 DEF OwnAt
<1>3. Own'
  BY <1>1, <1>2, OthersOwn
<1>4. \A r \in Refs : auditObj'[r] = auditObj[r] \/ auditObj'[r] = audits[r[2]]
  OBVIOUS
<1>5. ObjectsFit'
  BY <1>4 DEF ObjectsFit, VerdictFits, Refs
<1> QED
  BY <1>3, <1>5

LEMMA AcceptOwning ==
  ASSUME NEW p \in Passes, Accept(p), Owning, Apart PROVE Own' /\ ObjectsFit'
<1> USE DEF Accept, store, Owning
<1>1. PICK a \in pass[p].todo :
        /\ pass' = [pass EXCEPT ![p] =
             [pass[p] EXCEPT !.pc = "load", !.todo = @ \ {a}, !.own = <<p, a>>]]
        /\ bean' = [bean EXCEPT ![BeanOf[p]].audit = <<p, a>>]
  OBVIOUS
<1>2. /\ pass'[p].pc = "load" /\ pass'[p].own = <<p, a>>
      /\ \A q \in Passes : q # p => pass'[q] = pass[q]
  <2> DEFINE s == [pass[p] EXCEPT !.pc = "load", !.todo = @ \ {a}, !.own = <<p, a>>]
  <2>1. pass[p] \in PassState
    BY DEF Typing, TypeOK
  <2>2. s.pc = "load" /\ s.own = <<p, a>>
    BY <2>1 DEF PassState
  <2>3. pass' = [pass EXCEPT ![p] = s]
    BY <1>1
  <2> HIDE DEF s
  <2> QED
    BY <2>2, <2>3 DEF Typing, TypeOK
<1> DEFINE f == [bean[BeanOf[p]] EXCEPT !.audit = <<p, a>>]
<1>3. f.audit = <<p, a>>
  BY BeanOfAssumption DEF Typing, TypeOK, Fields
<1>4. bean' = [bean EXCEPT ![BeanOf[p]] = f]
  BY <1>1
<1> HIDE DEF f
<1>5. Field(p)' = f /\ \A q \in Passes : q # p => Field(q)' = Field(q)
  BY <1>4, Alone
<1>6. OwnAt(p)'
  BY <1>2, <1>3, <1>5 DEF OwnAt
<1>7. Own'
  BY <1>2, <1>5, <1>6, OthersOwn
<1> QED
  BY <1>7 DEF ObjectsFit

LEMMA LoadOwning ==
  ASSUME NEW p \in Passes, Load(p), Owning, Apart PROVE Own' /\ ObjectsFit'
<1> USE DEF Load, Goes, store, Owning
<1>1. /\ pass'[p].pc = "ask" /\ pass'[p].own = pass[p].own
      /\ \A q \in Passes : q # p => pass'[q] = pass[q]
  BY DEF Typing, TypeOK, PassState
<1> DEFINE f == [bean[BeanOf[p]] EXCEPT !.job = pass[p].own]
<1>2. f.audit = Field(p).audit /\ f.job = pass[p].own
  BY BeanOfAssumption DEF Typing, TypeOK, Fields, Field
<1>3. bean' = [bean EXCEPT ![BeanOf[p]] = f]
  OBVIOUS
<1> HIDE DEF f
<1>4. Field(p)' = f /\ \A q \in Passes : q # p => Field(q)' = Field(q)
  BY <1>3, Alone
<1>5. Field(p).audit = pass[p].own /\ pass[p].own \in Refs
  BY DEF Own, OwnAt, Typing, Held
<1>6. OwnAt(p)'
  BY <1>1, <1>2, <1>4, <1>5 DEF OwnAt
<1>7. Own'
  BY <1>1, <1>4, <1>6, OthersOwn
<1>8. \A r \in Refs :
        jobObj'[r] = IF r = pass[p].own THEN [of |-> r[2], status |-> jobs[r[2]]]
                                        ELSE jobObj[r]
  BY <1>5 DEF Typing, TypeOK
<1>9. ObjectsFit'
  <2>1. \A r \in Refs : r[2] \in Audits
    BY DEF Refs
  <2>2. ASSUME NEW r \in Refs
        PROVE  /\ jobObj'[r].of = r[2]
               /\ \/ jobObj'[r].status = jobObj[r].status
                  \/ jobObj'[r].status = jobs[r[2]]
    <3>1. CASE r = pass[p].own
      <4>1. jobObj'[r] = [of |-> r[2], status |-> jobs[r[2]]]
        BY <1>8, <3>1
      <4> QED
        BY <4>1
    <3>2. CASE r # pass[p].own
      <4>1. jobObj'[r] = jobObj[r]
        BY <1>8, <3>2
      <4> QED
        BY <4>1 DEF ObjectsFit
    <3> QED
      BY <3>1, <3>2
  <2> QED
    BY <2>1, <2>2 DEF ObjectsFit, VerdictFits
<1> QED
  BY <1>7, <1>9

LEMMA AskOwning ==
  ASSUME NEW p \in Passes, Ask(p), Owning PROVE Own' /\ ObjectsFit'
<1> USE DEF Ask, Owning
<1>1. PICK cleared \in BOOLEAN :
        /\ pass' = [pass EXCEPT ![p] = [@ EXCEPT !.pc = "post", !.cleared = cleared]]
        /\ approved' = IF cleared THEN approved \cup {Field(p).audit[2]} ELSE approved
  OBVIOUS
<1>2. /\ pass'[p].pc = "post" /\ pass'[p].cleared = cleared /\ pass'[p].own = pass[p].own
      /\ \A q \in Passes : q # p => pass'[q] = pass[q]
  BY <1>1 DEF Typing, TypeOK, PassState
<1>3. Field(p).audit = pass[p].own /\ Field(p).job = pass[p].own
  BY DEF Own, OwnAt
<1>4. \A q \in Passes : Field(q)' = Field(q)
  BY DEF Field
<1>5. approved \subseteq approved'
  BY <1>1
<1>6. OwnAt(p)'
  BY <1>1, <1>2, <1>3, <1>4 DEF OwnAt
<1>7. Own'
  BY <1>2, <1>4, <1>5, <1>6, OthersOwn
<1>8. ObjectsFit'
  BY <1>5 DEF ObjectsFit
<1> QED
  BY <1>7, <1>8

LEMMA PostOwning ==
  ASSUME NEW p \in Passes, Post(p), Owning PROVE Own' /\ ObjectsFit'
<1> USE DEF Post, store, Owning
<1> DEFINE r == pass[p].own
<1>1. Field(p).audit = r /\ Field(p).job = r /\ r \in Refs
  BY DEF Own, OwnAt, Typing, Held
<1>2. PICK status \in Verdict :
        /\ status = "SUCCESS" => pass[p].cleared
        /\ pass' = [pass EXCEPT ![p] =
             [@ EXCEPT !.pc = "record", !.audit = r, !.job = r, !.status = status]]
        /\ auditObj' = [auditObj EXCEPT ![r].status =
                          IF status = "INPROGRESS" THEN @ ELSE status]
  BY <1>1 DEF Verdict
<1>3. status = "SUCCESS" => r[2] \in approved
  BY <1>2 DEF Own, OwnAt
<1> HIDE DEF r
<1>4. /\ pass'[p].pc = "record" /\ pass'[p].audit = r /\ pass'[p].job = r
      /\ pass'[p].status = status
      /\ \A q \in Passes : q # p => pass'[q] = pass[q]
  BY <1>2 DEF Typing, TypeOK, PassState
<1>5. \A q \in Passes : Field(q)' = Field(q)
  BY DEF Field
<1>6. OwnAt(p)'
  BY <1>3, <1>4 DEF OwnAt
<1>7. Own'
  BY <1>4, <1>5, <1>6, OthersOwn
<1>8. \A x \in Refs : \/ auditObj'[x].status = auditObj[x].status
                      \/ x = r /\ auditObj'[x].status = status
  BY <1>1, <1>2 DEF Typing, TypeOK, Audit
<1>9. ObjectsFit'
  BY <1>3, <1>8 DEF ObjectsFit
<1> QED
  BY <1>7, <1>9

\* A pass that keeps its objects and its verdict, or is done with them.
LEMMA StillOwns ==
  ASSUME Owning, UNCHANGED bean, approved \subseteq approved',
         NEW p \in Passes, Goes(p, "sync") \/ Goes(p, "flag") \/ Goes(p, "save") \/ Continues(p),
         pass[p].pc \in {"record", "sync", "tell", "flag", "save"}
  PROVE  Own'
<1> USE DEF Owning
<1>1. \A q \in Passes : q # p => pass'[q] = pass[q] /\ Field(q)' = Field(q)
  BY DEF Goes, Continues, Typing, TypeOK, Field
<1>2. CASE Continues(p)
  <2>1. pass'[p].pc = "accept"
    BY <1>2 DEF Continues, Idle, Typing, TypeOK
  <2>2. OwnAt(p)'
    BY <2>1 DEF OwnAt
  <2> QED
    BY <1>1, <2>2, OthersOwn
<1>3. CASE Goes(p, "sync") \/ Goes(p, "flag") \/ Goes(p, "save")
  <2>1. /\ pass'[p].pc \in {"sync", "flag", "save"}
        /\ pass'[p].audit = pass[p].audit /\ pass'[p].job = pass[p].job
        /\ pass'[p].status = pass[p].status
    BY <1>3 DEF Goes, Typing, TypeOK, PassState
  <2>2. OwnAt(p)'
    BY <2>1 DEF OwnAt, Own
  <2> QED
    BY <1>1, <2>2, OthersOwn
<1> QED
  BY <1>2, <1>3

LEMMA SyncOwning ==
  ASSUME NEW p \in Passes, Sync(p), Owning PROVE Own' /\ ObjectsFit'
<1> USE DEF Sync, store, Owning
<1> DEFINE r == pass[p].audit
<1>1. r \in Refs /\ pass[p].job = r /\ (pass[p].status = "SUCCESS" => r[2] \in approved)
  BY DEF Own, OwnAt, Typing, Held
<1> HIDE DEF r
<1>2. PICK s \in {"SUCCESS", "FAILURE", "READY"} :
        /\ s = "SUCCESS" => pass[p].status = "SUCCESS"
        /\ jobObj' = [jobObj EXCEPT ![r].status = s]
  BY <1>1
<1>3. ObjectsFit'
  <2>1. \A x \in Refs : /\ jobObj'[x].of = jobObj[x].of
                        /\ \/ jobObj'[x].status = jobObj[x].status
                           \/ x = r /\ jobObj'[x].status = s
    BY <1>1, <1>2 DEF Typing, TypeOK, Job
  <2> QED
    BY <1>1, <1>2, <2>1 DEF ObjectsFit
<1>4. Own'
  <2>1. CASE Goes(p, "save")
    BY <2>1, StillOwns
  <2>2. CASE \E t : /\ t = "SUCCESS" => r[2] \in approved
                    /\ pass' = [pass EXCEPT ![p] = [@ EXCEPT !.pc = "tell", !.status = t]]
    <3>1. PICK t : /\ t = "SUCCESS" => r[2] \in approved
                   /\ pass' = [pass EXCEPT ![p] = [@ EXCEPT !.pc = "tell", !.status = t]]
      BY <2>2
    <3>2. /\ pass'[p].pc = "tell" /\ pass'[p].audit = pass[p].audit
          /\ pass'[p].job = pass[p].job /\ pass'[p].status = t
          /\ \A q \in Passes : q # p => pass'[q] = pass[q]
      BY <3>1 DEF Typing, TypeOK, PassState
    <3>3. \A q \in Passes : Field(q)' = Field(q)
      BY DEF Field
    <3>4. OwnAt(p)'
      BY <1>1, <3>1, <3>2 DEF OwnAt, r
    <3> QED
      BY <3>2, <3>3, <3>4, OthersOwn
  <2>3. auditObj[r].status = "SUCCESS" => r[2] \in approved
    BY <1>1 DEF ObjectsFit
  <2> QED
    BY <2>1, <2>2, <2>3 DEF r
<1> QED
  BY <1>3, <1>4

LEMMA StepOwning == Apart /\ Owning /\ [Next]_vars => Owning'
<1> SUFFICES ASSUME Apart, Owning, [Next]_vars PROVE Owning'
  OBVIOUS
<1> USE DEF Owning
<1>1. Typing'
  BY StepTyping
<1>2. CASE UNCHANGED vars
  BY <1>1, <1>2
     DEF vars, store, Own, OwnAt, Field, ObjectsFit, VerdictFits, ClosedOnlyWhenCleared
<1>3. ASSUME NEW p \in Passes,
             \/ Start(p) \/ Accept(p) \/ Load(p) \/ Ask(p) \/ Post(p) \/ Sync(p)
      PROVE  Owning'
  <2>1. Own' /\ ObjectsFit'
    BY <1>3, StartOwning, AcceptOwning, LoadOwning, AskOwning, PostOwning, SyncOwning
  <2>2. UNCHANGED <<audits, jobs, closed>> /\ approved \subseteq approved'
    BY <1>3 DEF Start, Accept, Load, Ask, Post, Sync, store
  <2>3. VerdictFits' /\ ClosedOnlyWhenCleared'
    BY <2>2 DEF VerdictFits, ClosedOnlyWhenCleared
  <2> QED
    BY <1>1, <2>1, <2>3
<1>4. ASSUME NEW p \in Passes, Record(p) PROVE Owning'
  <2>1. pass[p].audit \in Refs
    BY <1>4 DEF Record, Typing, Held
  <2>2. Own'
    BY <1>4, StillOwns DEF Record
  <2>3. VerdictFits'
    BY <1>4, <2>1 DEF Record, VerdictFits, ObjectsFit, Typing, TypeOK, Refs
  <2> QED
    BY <1>1, <1>4, <2>2, <2>3 DEF Record, ObjectsFit, ClosedOnlyWhenCleared
<1>5. ASSUME NEW p \in Passes, Tell(p) PROVE Owning'
  <2>1. Own'
    BY <1>5, StillOwns DEF Tell
  <2>2. ClosedOnlyWhenCleared'
    BY <1>5 DEF Tell, ClosedOnlyWhenCleared, Own, OwnAt
  <2> QED
    BY <1>1, <1>5, <2>1, <2>2 DEF Tell, ObjectsFit, VerdictFits
<1>6. ASSUME NEW p \in Passes, Flag(p) PROVE Owning'
  <2>1. Own'
    BY <1>6, StillOwns DEF Flag
  <2>2. \A a \in Audits : audits'[a].status = audits[a].status
    BY <1>6 DEF Flag, Typing, TypeOK, Audit
  <2> QED
    BY <1>1, <1>6, <2>1, <2>2 DEF Flag, ObjectsFit, VerdictFits, ClosedOnlyWhenCleared
<1>7. ASSUME NEW p \in Passes, Save(p) PROVE Owning'
  <2>1. pass[p].job \in Refs
    BY <1>7 DEF Save, Typing, Held
  <2>2. Own'
    BY <1>7, StillOwns DEF Save
  <2>3. VerdictFits'
    BY <1>7, <2>1 DEF Save, VerdictFits, ObjectsFit, Typing, TypeOK, Refs
  <2> QED
    BY <1>1, <1>7, <2>2, <2>3 DEF Save, ObjectsFit, ClosedOnlyWhenCleared
<1> QED
  BY <1>2, <1>3, <1>4, <1>5, <1>6, <1>7 DEF Next

LEMMA SpecOwning == ASSUME Apart PROVE Spec => []Owning
BY InitOwning, StepOwning, PTL DEF Spec

\* However many passes run on however many nodes, no bug is closed that JN has
\* not cleared, as long as no two passes are at work on one bean.
THEOREM NoneClosedUncleared == ASSUME Apart PROVE Spec => []ClosedOnlyWhenCleared
<1>1. Spec => []Owning
  BY SpecOwning
<1> QED
  BY <1>1, PTL DEF Owning

\* And no verdict is stored for a bug that JN did not give for it.
THEOREM VerdictsKept == ASSUME Apart PROVE Spec => []VerdictFits
<1>1. Spec => []Owning
  BY SpecOwning
<1> QED
  BY <1>1, PTL DEF Owning
=============================================================================
