------------------------ MODULE ControlSurface_proofs ------------------------
(***************************************************************************)
(* Proofs about the control surface, for any plans, inputs, case commands  *)
(* and number of polls in flight: a submission starts at most one run, and *)
(* no page of a run or of a case shows what never was.                     *)
(***************************************************************************)
EXTENDS ControlSurface, FiniteOrders, SequenceTheorems, TLAPS

-----------------------------------------------------------------------------
(* The inductive invariant *)

DbFields == {"plans", "runs", "attempts", "receipts", "events", "cases", "objects", "lineage", "ledger", "demo"}
RunFields == {"runId", "idempotencyKey", "planDigest", "input", "status", "attempt", "currentNodeId",
              "errorCode", "intent"}
RunPages == {"run", "runs", "overview", "system"}

\* The shapes of the records that steps update, and the pages.
ShapeOK ==
  /\ page \in {"harness", "case"} \cup RunPages
  /\ DOMAIN db = DbFields
  /\ DOMAIN drawer = {"open", "opening", "key", "planDigest", "input", "waiting", "sent", "demo"}
  /\ DOMAIN drawer.input = {"text", "caseId"}
  /\ drawer.opening \in Nat /\ drawer.key \in 0 .. drawer.opening
  /\ \A q \in wire : /\ DOMAIN q = {"n", "key", "intent", "planDigest", "input", "served", "run"}
                     /\ q.key \in Nat /\ q.intent \in Nat
  /\ DOMAIN polls = PollSlots

\* Only the harness page, or the run page its drawer opened, has requests on the
\* wire; that run page polls nothing; every page of a run is about a run there is.
PagesAreApart ==
  /\ page # "harness" /\ asked = {} => wire = {}
  /\ asked # {} => page = "run" /\ data = {} /\ \A p \in PollSlots : polls[p] = <<>>
  /\ page \in RunPages => \E r \in db.runs : r.runId = target
  /\ page \in RunPages /\ asked = {} =>
       \E plan \in RunPlans : db.plans = <<plan>> /\ \A r \in db.runs : r.planDigest = plan.planDigest

\* Identifiers number the runs and keys are theirs alone.
RunsAreKeyed ==
  /\ IsFiniteSet(db.runs)
  /\ \A r \in db.runs :
       /\ DOMAIN r = RunFields
       /\ r.runId \in 1 .. Cardinality(db.runs)
       /\ r.attempt \in 0 .. MaxAttempt
       /\ r.intent # 0 => r.idempotencyKey = r.intent
       /\ \A t \in db.runs : r.runId = t.runId \/ r.idempotencyKey = t.idempotencyKey => r = t

\* A request carries its opening's key as its intent; the run it was answered
\* with has its plan and its input.
RunOf(q, id) == \E r \in db.runs : r.runId = id /\ r.planDigest = q.planDigest /\ r.input = q.input
RequestsAreAnsweredTruly ==
  /\ \A q \in wire : (q.intent # 0 => q.key = q.intent) /\ \A id \in q.run : RunOf(q, id)
  /\ \A q \in asked : RunOf(q, target)

\* A case identifier in a form, a request or a run is one of a demo case that has
\* its subject.
HasSubject(input) == \A c \in input.caseId : [caseId |-> c, subject |-> TRUE] \in db.demo
DemoCasesAreWhole ==
  /\ \A d \in db.demo : d.caseId = DemoCaseId
  /\ drawer.demo = "subject" => [caseId |-> DemoCaseId, subject |-> TRUE] \in db.demo
  /\ HasSubject(drawer.input)
  /\ \A q \in wire : HasSubject(q.input)
  /\ \A r \in db.runs : HasSubject(r.input)

\* What a single state of the databases holds.
AttemptOK(a) == /\ DOMAIN a = {"runId", "nodeId", "attempt", "status"}
                /\ a.attempt \in 0 .. MaxAttempt /\ a.status \in {"running", "completed", "failed"}
ReceiptOK(x) == /\ DOMAIN x = {"runId", "nodeId", "attempt", "decision", "effect", "finished"}
                /\ x.decision = "allowed"
Entries == [caseSequence : Nat, id : {"case"} \cup {command.id : command \in ToSet(CaseCommands)}]
CaseRowOK(s) == \E c \in s.cases : /\ s.cases = {c} /\ DOMAIN c = {"caseId", "status", "caseSequence"}
                                    /\ c.caseSequence = Len(s.ledger)
SnapshotOK(s) ==
  /\ \A a \in s.attempts : AttemptOK(a)
  /\ IsFiniteSet(s.receipts) /\ \A x \in s.receipts : ReceiptOK(x)
  /\ s.ledger \in Seq(Entries) /\ \A i \in 1 .. Len(s.ledger) : s.ledger[i].caseSequence = i
  /\ \A o \in s.objects : o.table \in Tables /\ o.caseSequence \subseteq 1 .. Len(s.ledger)
  /\ page = "case" => CaseRowOK(s)

\* What a later state keeps of an earlier one.  A receipt stays once its result is in
\* it; one that was only reserved may be gone.
KeepsRuns(s, t) == \A r \in s.runs : r.status \in Terminal =>
                     \E x \in t.runs : x.runId = r.runId /\ x.status = r.status
KeepsAttempts(s, t) == \A a \in s.attempts : \E b \in t.attempts : b.runId = a.runId /\ b.nodeId = a.nodeId
KeepsFinished(s, t) == \A x \in s.receipts : x.finished => x \in t.receipts
Before(s, t) ==
  /\ KeepsRuns(s, t) /\ KeepsAttempts(s, t) /\ KeepsFinished(s, t)
  /\ s.objects \subseteq t.objects /\ Len(s.ledger) <= Len(t.ledger)

\* The window of a poll is a history of the databases up to now.
HistoryOf(w) ==
  /\ w \in Seq(ToSet(w))
  /\ \A i \in 1 .. Len(w) : /\ SnapshotOK(w[i]) /\ Before(w[i], db)
                            /\ \A j \in i .. Len(w) : Before(w[i], w[j])
WindowsAreHistories == SnapshotOK(db) /\ \A p \in PollSlots : HistoryOf(polls[p])

\* What the page shown says, without looking at the page.
RunShown(d) ==
  /\ d.view.summary.status \in Terminal => \E r \in db.runs : r.runId = target /\ r.status = d.view.summary.status
  /\ \A n \in DOMAIN d.view.nodes :
       /\ d.view.nodes[n].state \in {"completed", "failed"} => d.view.nodes[n].state \in d.window.nodes[n].latest
       /\ d.view.nodes[n].state = "not_reached" /\ d.window.nodes[n].begun => "attempts" \in d.lost
  /\ \A f \in d.view.failure :
       /\ f.externalEffectOccurred => d.window.reserved
       /\ ~f.externalEffectOccurred /\ d.window.finished => "receipts" \in d.lost \/ d.window.cut
RunPageShown == page = "run" => \A d \in data : RunShown(d)

IInv ==
  /\ ShapeOK
  /\ PagesAreApart
  /\ RunsAreKeyed
  /\ RequestsAreAnsweredTruly
  /\ DemoCasesAreWhole
  /\ WindowsAreHistories
  /\ RunPageShown
  /\ CasePagesAreGrounded

-----------------------------------------------------------------------------
(* Lemmas about sets of numbers and windows *)

\* An option's member.
LEMMA TheIsMember ==
  ASSUME NEW S, S # {}
  PROVE  The(S) \in S
BY DEF The

\* Appending to a window keeps what it held and adds one state.
LEMMA WindowAppend ==
  ASSUME NEW w, w \in Seq(ToSet(w)), NEW s
  PROVE  /\ Append(w, s) \in Seq(ToSet(Append(w, s)))
         /\ Len(w) \in Nat /\ Len(Append(w, s)) = Len(w) + 1
         /\ \A i \in 1 .. Len(w) : Append(w, s)[i] = w[i]
         /\ Append(w, s)[Len(w) + 1] = s
<1> DEFINE S == ToSet(w) \cup {s}
<1>1. w \in Seq(S) /\ s \in S
  <2>1. ToSet(w) \subseteq S
    OBVIOUS
  <2> HIDE DEF S
  <2>2. DOMAIN w = 1 .. Len(w) /\ Len(w) \in Nat /\ \A i \in 1 .. Len(w) : w[i] \in ToSet(w)
    OBVIOUS
  <2>3. w = [i \in 1 .. Len(w) |-> w[i]]
    OBVIOUS
  <2>4. w \in Seq(S)
    BY <2>1, <2>2, <2>3
  <2> QED
    BY <2>4 DEF S
<1> HIDE DEF S
<1>2. /\ Append(w, s) \in Seq(S) /\ Len(w) \in Nat /\ Len(Append(w, s)) = Len(w) + 1
      /\ \A i \in 1 .. Len(w) : Append(w, s)[i] = w[i]
      /\ Append(w, s)[Len(w) + 1] = s
  BY <1>1
<1>3. Append(w, s) \in Seq(ToSet(Append(w, s)))
  <2> DEFINE v == Append(w, s)
  <2>1. v \in Seq(S) /\ Len(v) \in Nat
    BY <1>2
  <2> HIDE DEF v
  <2>2. v = [i \in 1 .. Len(v) |-> v[i]] /\ DOMAIN v = 1 .. Len(v)
    BY <2>1
  <2>3. \A i \in 1 .. Len(v) : v[i] \in ToSet(v)
    BY <2>2 DEF ToSet
  <2>4. v \in Seq(ToSet(v))
    BY <2>1, <2>2, <2>3
  <2> QED
    BY <2>4 DEF v
<1> QED
  BY <1>2, <1>3

LEMMA BeforeReflexive ==
  ASSUME NEW s, s.ledger \in Seq(Entries)
  PROVE  Before(s, s)
<1>1. Len(s.ledger) \in Nat
  OBVIOUS
<1> QED
  BY <1>1 DEF Before, KeepsRuns, KeepsAttempts, KeepsFinished

LEMMA BeforeTransitive ==
  ASSUME NEW s, NEW t, NEW u, Before(s, t), Before(t, u),
         s.ledger \in Seq(Entries), t.ledger \in Seq(Entries), u.ledger \in Seq(Entries)
  PROVE  Before(s, u)
<1>1. Len(s.ledger) \in Nat /\ Len(t.ledger) \in Nat /\ Len(u.ledger) \in Nat
  OBVIOUS
<1>2. KeepsRuns(s, u)
  BY DEF Before, KeepsRuns
<1>3. KeepsAttempts(s, u)
  BY DEF Before, KeepsAttempts
<1>4. KeepsFinished(s, u)
  BY DEF Before, KeepsFinished
<1> QED
  BY <1>1, <1>2, <1>3, <1>4 DEF Before

\* A commit of a sound state that keeps what was there leaves every window a history.
Committed == polls' = [p \in PollSlots |-> IF polls[p] = <<>> THEN <<>> ELSE Append(polls[p], db')]

LEMMA CommitKeepsHistories ==
  ASSUME WindowsAreHistories, DOMAIN polls = PollSlots, UNCHANGED <<page, asked>>,
         Committed, SnapshotOK(db)', Before(db, db')
  PROVE  WindowsAreHistories' /\ DOMAIN polls' = PollSlots
<1>1. PICK new : new = db'
  OBVIOUS
<1>2. /\ db' = new /\ polls' = [p \in PollSlots |-> IF polls[p] = <<>> THEN <<>> ELSE Append(polls[p], new)]
      /\ Before(db, new) /\ SnapshotOK(new)
  <2>1. SnapshotOK(new)
    BY <1>1 DEF SnapshotOK, CaseRowOK
  <2> QED
    BY <1>1, <2>1 DEF Committed
<1>3. SnapshotOK(db)' /\ db.ledger \in Seq(Entries) /\ new.ledger \in Seq(Entries)
  BY <1>2 DEF WindowsAreHistories, SnapshotOK, CaseRowOK
<1>4. ASSUME NEW p \in PollSlots
      PROVE  HistoryOf(polls[p])'
  <2>1. HistoryOf(polls[p])
    BY DEF WindowsAreHistories
  <2>2. CASE polls[p] = <<>>
    <3>1. polls'[p] = <<>> /\ Len(<<>>) = 0
      BY <1>2, <2>2
    <3> QED
      BY <3>1 DEF HistoryOf, ToSet
  <2>3. CASE polls[p] # <<>>
    <3> DEFINE w == polls[p]
               v == Append(w, new)
    <3>1. polls'[p] = v
      BY <1>2, <2>3
    <3>2. /\ w \in Seq(ToSet(w))
          /\ \A i \in 1 .. Len(w) : /\ SnapshotOK(w[i]) /\ Before(w[i], db)
                                    /\ \A j \in i .. Len(w) : Before(w[i], w[j])
      BY <2>1 DEF HistoryOf
    <3> HIDE DEF w
    <3>3. /\ v \in Seq(ToSet(v)) /\ Len(w) \in Nat /\ Len(v) = Len(w) + 1
          /\ \A i \in 1 .. Len(w) : v[i] = w[i]
          /\ v[Len(w) + 1] = new
      BY <3>2, WindowAppend
    <3> HIDE DEF v
    <3>4. \A i \in 1 .. Len(w) : Before(w[i], new)
      <4> SUFFICES ASSUME NEW i \in 1 .. Len(w) PROVE Before(w[i], new)
        OBVIOUS
      <4>1. Before(w[i], db) /\ w[i].ledger \in Seq(Entries)
        BY <3>2 DEF SnapshotOK
      <4> QED
        BY <4>1, <1>2, <1>3, BeforeTransitive
    <3>5. Before(new, new)
      BY <1>3, BeforeReflexive
    <3>6. ASSUME NEW i \in 1 .. Len(v)
          PROVE  /\ SnapshotOK(v[i]) /\ Before(v[i], new)
                 /\ \A j \in i .. Len(v) : Before(v[i], v[j])
      <4>1. CASE i \in 1 .. Len(w)
        <5>1. SnapshotOK(v[i]) /\ Before(v[i], new)
          BY <4>1, <3>2, <3>3, <3>4
        <5>2. ASSUME NEW j \in i .. Len(v) PROVE Before(v[i], v[j])
          <6>1. j \in i .. Len(w) \/ j = Len(w) + 1
            BY <3>3, <4>1
          <6> QED
            BY <6>1, <4>1, <3>2, <3>3, <3>4
        <5> QED
          BY <5>1, <5>2
      <4>2. CASE i = Len(w) + 1
        <5>1. \A j \in i .. Len(v) : j = i
          BY <4>2, <3>3
        <5> QED
          BY <5>1, <4>2, <1>2, <3>3, <3>5
      <4> QED
        BY <4>1, <4>2, <3>3
    <3>7. ASSUME NEW i \in 1 .. Len(v)
          PROVE  SnapshotOK(polls[p][i])'
      <4>1. SnapshotOK(v[i]) /\ polls'[p][i] = v[i]
        BY <3>1, <3>6
      <4> QED
        BY <4>1 DEF SnapshotOK, CaseRowOK
    <3>8. ASSUME NEW i \in 1 .. Len(v)
          PROVE  Before(polls[p][i], db)' /\ \A j \in i .. Len(v) : Before(polls[p][i], polls[p][j])'
      <4>1. /\ Before(v[i], new) /\ polls'[p][i] = v[i]
            /\ \A j \in i .. Len(v) : Before(v[i], v[j]) /\ polls'[p][j] = v[j]
        BY <3>1, <3>6
      <4> QED
        BY <4>1, <1>2
    <3> QED
      BY <3>1, <3>3, <3>7, <3>8 DEF HistoryOf
  <2> QED
    BY <2>2, <2>3
<1> QED
  BY <1>2, <1>3, <1>4 DEF WindowsAreHistories

-----------------------------------------------------------------------------
(* The effects of what other actors write *)

\* A transaction of another actor leaves the tab, the drawer and the wire alone.
OnlyCommits == Committed /\ UNCHANGED <<page, target, data, flags, drawer, wire, asked>>

\* The run shown is updated: it was not final, and stays the run it is.
RunUpdated(r, x) ==
  /\ r \in db.runs /\ r.runId = target /\ r.status \notin Terminal
  /\ DOMAIN x = RunFields /\ x.attempt \in 0 .. MaxAttempt
  /\ x.runId = r.runId /\ x.idempotencyKey = r.idempotencyKey /\ x.intent = r.intent
  /\ x.planDigest = r.planDigest /\ x.input = r.input
  /\ db' = [db EXCEPT !.runs = (db.runs \ {r}) \cup {x}]

\* Node attempts are added or finished, never dropped.
AttemptsWritten(new) ==
  /\ \A a \in new : AttemptOK(a)
  /\ \A a \in db.attempts : \E b \in new : b.runId = a.runId /\ b.nodeId = a.nodeId
  /\ db' = [db EXCEPT !.attempts = new]

\* Receipts are reserved, completed or abandoned; one with its result stays.
ReceiptsWritten(new) ==
  /\ IsFiniteSet(new) /\ \A x \in new : ReceiptOK(x)
  /\ \A x \in db.receipts : x.finished => x \in new
  /\ db' = [db EXCEPT !.receipts = new]

EventsWritten(new) == db' = [db EXCEPT !.events = new]

WorkerEffect ==
  \/ \E r, x : RunUpdated(r, x)
  \/ \E new : AttemptsWritten(new)
  \/ \E new : ReceiptsWritten(new)
  \/ \E new : EventsWritten(new)

LEMMA WorkerEffects ==
  ASSUME IInv, WorkerStep
  PROVE  OnlyCommits /\ WorkerEffect /\ page \in RunPages /\ asked = {}
<1> DEFINE r == TheRun
<1>1. page \in RunPages /\ asked = {} /\ target # NoRun
  BY DEF WorkerStep, Watching, RunPages
<1> SUFFICES OnlyCommits /\ WorkerEffect
  BY <1>1
<1>2. r \in db.runs /\ r.runId = target
  <2>1. getRun(db, target) # {}
    BY <1>1 DEF IInv, PagesAreApart, getRun
  <2> QED
    BY <2>1, TheIsMember DEF TheRun, getRun
<1>3. DOMAIN r = RunFields /\ r.attempt \in 0 .. MaxAttempt /\ MaxAttempt \in Nat
  BY <1>2, SurfaceAssumption DEF IInv, RunsAreKeyed
<1>4. /\ \A a \in db.attempts : AttemptOK(a)
      /\ IsFiniteSet(db.receipts) /\ \A x \in db.receipts : ReceiptOK(x)
  BY DEF IInv, WindowsAreHistories, SnapshotOK
<1> HIDE DEF r
<1>5. ASSUME NEW x, r.status \notin Terminal, OnlyCommits, db' = [db EXCEPT !.runs = (db.runs \ {r}) \cup {x}],
             DOMAIN x = RunFields, x.attempt \in 0 .. MaxAttempt,
             x.runId = r.runId, x.idempotencyKey = r.idempotencyKey, x.intent = r.intent,
             x.planDigest = r.planDigest, x.input = r.input
      PROVE  OnlyCommits /\ WorkerEffect
  <2>1. RunUpdated(r, x)
    BY <1>2, <1>5 DEF RunUpdated
  <2> QED
    BY <1>5, <2>1 DEF WorkerEffect, RunUpdated
<1>6. CASE claimRun(r)
  <2> DEFINE x == [r EXCEPT !.status = "running", !.attempt = @ + 1]
  <2>1. DOMAIN x = RunFields /\ r.status \notin Terminal
    BY <1>3, <1>6 DEF claimRun, Active, Terminal
  <2>2. x.attempt = r.attempt + 1 /\ x.attempt \in 0 .. MaxAttempt
    BY <1>3, <1>6 DEF claimRun, RunFields
  <2>3. /\ x.runId = r.runId /\ x.idempotencyKey = r.idempotencyKey /\ x.intent = r.intent
        /\ x.planDigest = r.planDigest /\ x.input = r.input
    BY <1>3 DEF RunFields
  <2>4. OnlyCommits /\ db' = [db EXCEPT !.runs = (db.runs \ {r}) \cup {x}]
    BY <1>6 DEF claimRun, OtherWrites, Commit, OnlyCommits, Committed, SetRun
  <2> HIDE DEF x
  <2> QED
    BY <1>5, <2>1, <2>2, <2>3, <2>4
<1>7. CASE \E n \in planNodes(PlanOf(r)) : updateRunNode(r, n.id)
  <2>1. PICK n \in planNodes(PlanOf(r)) : updateRunNode(r, n.id)
    BY <1>7
  <2> DEFINE x == [r EXCEPT !.currentNodeId = {n.id}]
  <2>2. DOMAIN x = RunFields /\ r.status \notin Terminal
    BY <1>3, <2>1 DEF updateRunNode, Terminal
  <2>3. /\ x.runId = r.runId /\ x.idempotencyKey = r.idempotencyKey /\ x.intent = r.intent
        /\ x.planDigest = r.planDigest /\ x.input = r.input /\ x.attempt = r.attempt
    BY <1>3 DEF RunFields
  <2>4. OnlyCommits /\ db' = [db EXCEPT !.runs = (db.runs \ {r}) \cup {x}]
    BY <2>1 DEF updateRunNode, OtherWrites, Commit, OnlyCommits, Committed, SetRun
  <2> HIDE DEF x
  <2> QED
    BY <1>3, <1>5, <2>2, <2>3, <2>4
<1>8. CASE scheduleRunRetry(r)
  <2> DEFINE x == [r EXCEPT !.status = "retrying", !.errorCode = {"transient"}]
  <2>1. DOMAIN x = RunFields /\ r.status \notin Terminal
    BY <1>3, <1>8 DEF scheduleRunRetry, Terminal
  <2>2. /\ x.runId = r.runId /\ x.idempotencyKey = r.idempotencyKey /\ x.intent = r.intent
        /\ x.planDigest = r.planDigest /\ x.input = r.input /\ x.attempt = r.attempt
    BY <1>3 DEF RunFields
  <2>3. OnlyCommits /\ db' = [db EXCEPT !.runs = (db.runs \ {r}) \cup {x}]
    BY <1>8 DEF scheduleRunRetry, OtherWrites, Commit, OnlyCommits, Committed, SetRun
  <2> HIDE DEF x
  <2> QED
    BY <1>3, <1>5, <2>1, <2>2, <2>3
<1>9. CASE \E status \in {"completed", "denied"} : completeRun(r, status)
  <2>1. PICK status \in {"completed", "denied"} : completeRun(r, status)
    BY <1>9
  <2> DEFINE code == IF status = "completed" THEN {} ELSE {"final"}
             x == [r EXCEPT !.status = status, !.errorCode = code]
  <2>2. DOMAIN x = RunFields /\ r.status \notin Terminal
    BY <1>3, <2>1 DEF completeRun, Terminal
  <2>3. /\ x.runId = r.runId /\ x.idempotencyKey = r.idempotencyKey /\ x.intent = r.intent
        /\ x.planDigest = r.planDigest /\ x.input = r.input /\ x.attempt = r.attempt
    BY <1>3 DEF RunFields
  <2>4. OnlyCommits /\ db' = [db EXCEPT !.runs = (db.runs \ {r}) \cup {x}]
    BY <2>1 DEF completeRun, OtherWrites, Commit, OnlyCommits, Committed, SetRun
  <2> HIDE DEF x
  <2> QED
    BY <1>3, <1>5, <2>2, <2>3, <2>4
<1>10. ASSUME NEW new, OnlyCommits, db' = [db EXCEPT !.attempts = new], \A a \in new : AttemptOK(a),
              \A a \in db.attempts : \E b \in new : b.runId = a.runId /\ b.nodeId = a.nodeId
       PROVE  OnlyCommits /\ WorkerEffect
  <2>1. AttemptsWritten(new)
    BY <1>10 DEF AttemptsWritten
  <2> QED
    BY <1>10, <2>1 DEF WorkerEffect, AttemptsWritten
<1>11. CASE beginNodeAttempt(r)
  <2> DEFINE row == [runId |-> r.runId, nodeId |-> The(r.currentNodeId), attempt |-> r.attempt, status |-> "running"]
             new == db.attempts \cup {row}
  <2>1. AttemptOK(row)
    BY <1>3 DEF AttemptOK
  <2>2. OnlyCommits /\ db' = [db EXCEPT !.attempts = new]
    BY <1>11 DEF beginNodeAttempt, OtherWrites, Commit, OnlyCommits, Committed
  <2> HIDE DEF row
  <2>3. /\ \A a \in new : AttemptOK(a)
        /\ \A a \in db.attempts : \E b \in new : b.runId = a.runId /\ b.nodeId = a.nodeId
    BY <1>4, <2>1
  <2> HIDE DEF new
  <2> QED
    BY <1>10, <2>2, <2>3
<1>12. CASE \E a \in listNodeAttempts(db, target) :
              \E status \in {"completed", "failed"} : finishNodeAttempt(a, status)
  <2>1. PICK a \in db.attempts, status \in {"completed", "failed"} : finishNodeAttempt(a, status)
    BY <1>12 DEF listNodeAttempts
  <2> DEFINE row == [a EXCEPT !.status = status]
             new == (db.attempts \ {a}) \cup {row}
  <2>2. AttemptOK(row) /\ row.runId = a.runId /\ row.nodeId = a.nodeId
    BY <1>4 DEF AttemptOK
  <2>3. OnlyCommits /\ db' = [db EXCEPT !.attempts = new]
    BY <2>1 DEF finishNodeAttempt, OtherWrites, Commit, OnlyCommits, Committed
  <2> HIDE DEF row
  <2>4. /\ \A b \in new : AttemptOK(b)
        /\ \A b \in db.attempts : \E c \in new : c.runId = b.runId /\ c.nodeId = b.nodeId
    BY <1>4, <2>2
  <2> HIDE DEF new
  <2> QED
    BY <1>10, <2>3, <2>4
<1>13. CASE appendEvent(r)
  <2> DEFINE new == Append(db.events, [runId |-> r.runId, sequence |-> Len(db.events) + 1])
  <2>1. OtherWrites([db EXCEPT !.events = new])
    BY <1>13 DEF appendEvent
  <2> HIDE DEF new
  <2>2. OnlyCommits /\ EventsWritten(new)
    BY <2>1 DEF OtherWrites, Commit, OnlyCommits, Committed, EventsWritten
  <2> QED
    BY <2>2 DEF WorkerEffect, EventsWritten
<1>14. ASSUME NEW new, OtherWrites([db EXCEPT !.receipts = new]), IsFiniteSet(new), \A x \in new : ReceiptOK(x),
              \A x \in db.receipts : x.finished => x \in new
       PROVE  OnlyCommits /\ WorkerEffect
  <2>1. OnlyCommits /\ ReceiptsWritten(new)
    BY <1>14 DEF OtherWrites, Commit, OnlyCommits, Committed, ReceiptsWritten
  <2> QED
    BY <2>1 DEF WorkerEffect, ReceiptsWritten
<1>15. CASE \E a \in listNodeAttempts(db, target) : \E effect \in NodeEffects(r, a.nodeId) : reserveGatewayReceipt(a, effect)
  <2>1. PICK a, effect : reserveGatewayReceipt(a, effect)
    BY <1>15
  <2> DEFINE row == [runId |-> a.runId, nodeId |-> a.nodeId, attempt |-> a.attempt,
                     decision |-> "allowed", effect |-> effect, finished |-> FALSE]
             new == db.receipts \cup {row}
  <2>2. OtherWrites([db EXCEPT !.receipts = new]) /\ ReceiptOK(row)
    BY <2>1 DEF reserveGatewayReceipt, ReceiptOK
  <2> HIDE DEF row
  <2>3. IsFiniteSet(new)
    BY <1>4, FS_AddElement
  <2> QED
    BY <1>4, <1>14, <2>2, <2>3
<1>16. CASE \E x \in db.receipts : completeGatewayReceipt(x)
  <2>1. PICK x \in db.receipts : completeGatewayReceipt(x)
    BY <1>16
  <2> DEFINE row == [x EXCEPT !.finished = TRUE]
             new == (db.receipts \ {x}) \cup {row}
  <2>2. OtherWrites([db EXCEPT !.receipts = new]) /\ ~x.finished
    BY <2>1 DEF completeGatewayReceipt
  <2>3. ReceiptOK(row)
    BY <1>4 DEF ReceiptOK
  <2> HIDE DEF row
  <2>4. IsFiniteSet(new)
    BY <1>4, FS_RemoveElement, FS_AddElement
  <2> QED
    BY <1>4, <1>14, <2>2, <2>3, <2>4
<1>17. CASE \E x \in db.receipts : abandonGatewayReceipt(x)
  <2>1. PICK x \in db.receipts : abandonGatewayReceipt(x)
    BY <1>17
  <2> DEFINE new == db.receipts \ {x}
  <2>2. OtherWrites([db EXCEPT !.receipts = new]) /\ ~x.finished
    BY <2>1 DEF abandonGatewayReceipt
  <2>3. IsFiniteSet(new)
    BY <1>4, FS_RemoveElement
  <2> QED
    BY <1>4, <1>14, <2>2, <2>3
<1> QED
  BY <1>1, <1>6, <1>7, <1>8, <1>9, <1>11, <1>12, <1>13, <1>15, <1>16, <1>17 DEF WorkerStep, r

-----------------------------------------------------------------------------
(* A worker's step preserves the invariant *)

\* What an update of the run shown leaves: the same runs, by identifier and key.
LEMMA RunUpdateKeepsRuns ==
  ASSUME IInv, NEW r, NEW x, RunUpdated(r, x)
  PROVE  /\ db'.runs = (db.runs \ {r}) \cup {x}
         /\ RunsAreKeyed'
         /\ \A t \in db.runs : \E u \in db'.runs : /\ u.runId = t.runId /\ u.planDigest = t.planDigest
                                                   /\ u.input = t.input
                                                   /\ t.status \in Terminal => u.status = t.status
         /\ \A u \in db'.runs : \E t \in db.runs : u.planDigest = t.planDigest /\ u.input = t.input
<1>1. DOMAIN db = DbFields /\ RunsAreKeyed
  BY DEF IInv, ShapeOK
<1>2. db'.runs = (db.runs \ {r}) \cup {x}
  BY <1>1 DEF RunUpdated, DbFields
<1>3. /\ r \in db.runs /\ r.status \notin Terminal
      /\ DOMAIN x = RunFields /\ x.attempt \in 0 .. MaxAttempt
      /\ x.runId = r.runId /\ x.idempotencyKey = r.idempotencyKey /\ x.intent = r.intent
      /\ x.planDigest = r.planDigest /\ x.input = r.input
  BY DEF RunUpdated
<1>4. IsFiniteSet(db'.runs) /\ Cardinality(db'.runs) = Cardinality(db.runs)
  <2>1. /\ IsFiniteSet(db.runs \ {r}) /\ Cardinality(db.runs \ {r}) = Cardinality(db.runs) - 1
        /\ Cardinality(db.runs) \in Nat
    BY <1>1, <1>3, FS_RemoveElement, FS_CardinalityType DEF RunsAreKeyed
  <2>2. x \notin db.runs \ {r}
    BY <1>1, <1>3 DEF RunsAreKeyed
  <2>3. IsFiniteSet((db.runs \ {r}) \cup {x}) /\ Cardinality((db.runs \ {r}) \cup {x}) = Cardinality(db.runs)
    BY <2>1, <2>2, FS_AddElement
  <2> QED
    BY <1>2, <2>3
<1>5. RunsAreKeyed'
  <2>1. ASSUME NEW u \in db'.runs
        PROVE  /\ DOMAIN u = RunFields
               /\ u.runId \in 1 .. Cardinality(db'.runs)
               /\ u.attempt \in 0 .. MaxAttempt
               /\ u.intent # 0 => u.idempotencyKey = u.intent
               /\ \A t \in db'.runs : u.runId = t.runId \/ u.idempotencyKey = t.idempotencyKey => u = t
    BY <1>1, <1>2, <1>3, <1>4 DEF RunsAreKeyed
  <2> QED
    BY <1>4, <2>1 DEF RunsAreKeyed
<1> QED
  BY <1>2, <1>3, <1>5

LEMMA WorkerStepInv ==
  ASSUME IInv, WorkerStep
  PROVE  IInv'
<1>1. /\ OnlyCommits /\ WorkerEffect /\ page \in RunPages /\ asked = {} /\ page # "case"
      /\ UNCHANGED <<page, target, data, flags, drawer, wire, asked>>
  BY WorkerEffects DEF OnlyCommits, RunPages
<1>2. /\ ShapeOK /\ PagesAreApart /\ RunsAreKeyed /\ RequestsAreAnsweredTruly /\ DemoCasesAreWhole
      /\ WindowsAreHistories /\ RunPageShown /\ CasePagesAreGrounded /\ DOMAIN db = DbFields
      /\ wire = {} /\ db.ledger \in Seq(Entries) /\ Len(db.ledger) \in Nat
  <2>1. db.ledger \in Seq(Entries)
    BY DEF IInv, WindowsAreHistories, SnapshotOK
  <2> QED
    BY <1>1, <2>1 DEF IInv, ShapeOK, PagesAreApart, RunPages
<1>3. ASSUME DOMAIN db' = DbFields,
             db'.plans = db.plans, db'.demo = db.demo, db'.objects = db.objects, db'.ledger = db.ledger,
             RunsAreKeyed',
             \A t \in db.runs : \E u \in db'.runs : /\ u.runId = t.runId /\ u.planDigest = t.planDigest
                                                    /\ u.input = t.input
                                                    /\ t.status \in Terminal => u.status = t.status,
             \A u \in db'.runs : \E t \in db.runs : u.planDigest = t.planDigest /\ u.input = t.input,
             \A a \in db'.attempts : AttemptOK(a),
             \A a \in db.attempts : \E b \in db'.attempts : b.runId = a.runId /\ b.nodeId = a.nodeId,
             IsFiniteSet(db'.receipts), \A x \in db'.receipts : ReceiptOK(x),
             \A x \in db.receipts : x.finished => x \in db'.receipts
      PROVE  IInv'
  <2>1. SnapshotOK(db)'
    <3>1. SnapshotOK(db)
      BY <1>1, <1>2 DEF WindowsAreHistories, SnapshotOK
    <3> QED
      BY <1>1, <1>3, <3>1 DEF SnapshotOK
  <2>2. Before(db, db')
    BY <1>2, <1>3 DEF Before, KeepsRuns, KeepsAttempts, KeepsFinished
  <2>3. WindowsAreHistories' /\ DOMAIN polls' = PollSlots
    BY <1>1, <1>2, <2>1, <2>2, CommitKeepsHistories DEF OnlyCommits, ShapeOK
  <2>4. ShapeOK'
    BY <1>1, <1>2, <1>3, <2>3 DEF ShapeOK
  <2>5. PagesAreApart'
    BY <1>1, <1>2, <1>3 DEF PagesAreApart
  <2>6. RequestsAreAnsweredTruly'
    BY <1>1, <1>2 DEF RequestsAreAnsweredTruly
  <2>7. DemoCasesAreWhole'
    BY <1>1, <1>2, <1>3 DEF DemoCasesAreWhole, HasSubject
  <2>8. RunPageShown'
    <3> SUFFICES ASSUME page = "run", NEW d \in data PROVE RunShown(d)'
      BY <1>1 DEF RunPageShown
    <3>1. RunShown(d)
      BY <1>2 DEF RunPageShown
    <3>2. d.view.summary.status \in Terminal => \E r \in db'.runs : r.runId = target /\ r.status = d.view.summary.status
      BY <1>3, <3>1 DEF RunShown
    <3> QED
      BY <1>1, <3>1, <3>2 DEF RunShown
  <2>9. CasePagesAreGrounded'
    BY <1>1 DEF CasePagesAreGrounded
  <2> QED
    BY <1>3, <2>3, <2>4, <2>5, <2>6, <2>7, <2>8, <2>9 DEF IInv
<1>4. /\ \A a \in db.attempts : AttemptOK(a)
      /\ IsFiniteSet(db.receipts) /\ \A x \in db.receipts : ReceiptOK(x)
  BY <1>2 DEF WindowsAreHistories, SnapshotOK
<1>5. CASE \E r, x : RunUpdated(r, x)
  <2>1. PICK r, x : RunUpdated(r, x)
    BY <1>5
  <2>2. /\ DOMAIN db' = DbFields
        /\ db'.plans = db.plans /\ db'.demo = db.demo /\ db'.objects = db.objects /\ db'.ledger = db.ledger
        /\ db'.attempts = db.attempts /\ db'.receipts = db.receipts
    BY <1>2, <2>1 DEF RunUpdated, DbFields
  <2> QED
    BY <1>3, <1>4, <2>1, <2>2, RunUpdateKeepsRuns
<1>6. CASE \E new : AttemptsWritten(new)
  <2>1. PICK new : AttemptsWritten(new)
    BY <1>6
  <2>2. /\ DOMAIN db' = DbFields
        /\ db'.plans = db.plans /\ db'.demo = db.demo /\ db'.objects = db.objects /\ db'.ledger = db.ledger
        /\ db'.attempts = new /\ db'.receipts = db.receipts /\ db'.runs = db.runs
    BY <1>2, <2>1 DEF AttemptsWritten, DbFields
  <2>3. RunsAreKeyed'
    BY <1>2, <2>2 DEF RunsAreKeyed
  <2> QED
    BY <1>3, <1>4, <2>1, <2>2, <2>3 DEF AttemptsWritten
<1>7. CASE \E new : ReceiptsWritten(new)
  <2>1. PICK new : ReceiptsWritten(new)
    BY <1>7
  <2>2. /\ DOMAIN db' = DbFields
        /\ db'.plans = db.plans /\ db'.demo = db.demo /\ db'.objects = db.objects /\ db'.ledger = db.ledger
        /\ db'.attempts = db.attempts /\ db'.receipts = new /\ db'.runs = db.runs
    BY <1>2, <2>1 DEF ReceiptsWritten, DbFields
  <2>3. RunsAreKeyed'
    BY <1>2, <2>2 DEF RunsAreKeyed
  <2> QED
    BY <1>3, <1>4, <2>1, <2>2, <2>3 DEF ReceiptsWritten
<1>8. CASE \E new : EventsWritten(new)
  <2>1. PICK new : EventsWritten(new)
    BY <1>8
  <2>2. /\ DOMAIN db' = DbFields
        /\ db'.plans = db.plans /\ db'.demo = db.demo /\ db'.objects = db.objects /\ db'.ledger = db.ledger
        /\ db'.attempts = db.attempts /\ db'.receipts = db.receipts /\ db'.runs = db.runs
    BY <1>2, <2>1 DEF EventsWritten, DbFields
  <2>3. RunsAreKeyed'
    BY <1>2, <2>2 DEF RunsAreKeyed
  <2> QED
    BY <1>3, <1>4, <2>2, <2>3
<1> QED
  BY <1>1, <1>5, <1>6, <1>7, <1>8 DEF WorkerEffect

-----------------------------------------------------------------------------
(* A command on the case preserves the invariant *)

LEMMA CaseCommandInv ==
  ASSUME IInv, CaseCommand
  PROVE  IInv'
<1> DEFINE n == Cardinality(db.objects) + 1
           command == CaseCommands[n]
           seq == Len(db.ledger) + 1
           object == [id |-> command.id, table |-> command.table, refs |-> command.refs,
                      caseSequence |-> IF command.table = "evidence" THEN {} ELSE {seq}]
           entry == [caseSequence |-> seq, id |-> command.id]
           stored == [db EXCEPT !.objects = @ \cup {object}]
           written == [stored EXCEPT
                         !.cases = {[c EXCEPT !.caseSequence = seq] : c \in @},
                         !.lineage = @ \cup {[from |-> r, to |-> command.id] : r \in command.derivedFrom},
                         !.ledger = Append(@, entry)]
<1>1. /\ page = "case" /\ n \in DOMAIN CaseCommands
      /\ OtherWrites(IF command.table = "evidence" THEN stored ELSE written)
  BY DEF CaseCommand
<1>2. /\ ShapeOK /\ PagesAreApart /\ RunsAreKeyed /\ RequestsAreAnsweredTruly /\ DemoCasesAreWhole
      /\ WindowsAreHistories /\ RunPageShown /\ CasePagesAreGrounded /\ DOMAIN db = DbFields /\ SnapshotOK(db)
  BY DEF IInv, ShapeOK, WindowsAreHistories
<1>3. db.ledger \in Seq(Entries) /\ Len(db.ledger) \in Nat
  BY <1>2 DEF SnapshotOK
<1>4. /\ n \in 1 .. Len(CaseCommands) /\ Len(CaseCommands) \in Nat
      /\ command \in ToSet(CaseCommands) /\ command.table \in Tables
  <2>1. DOMAIN CaseCommands = 1 .. Len(CaseCommands) /\ Len(CaseCommands) \in Nat
    BY SurfaceAssumption
  <2> QED
    BY <1>1, <2>1 DEF Tables, ToSet
<1>5. entry \in Entries /\ entry.caseSequence = seq
  BY <1>3, <1>4 DEF Entries
<1>6. object.table = command.table /\ object.caseSequence = IF command.table = "evidence" THEN {} ELSE {seq}
  OBVIOUS
<1>7. OnlyCommits /\ db' = IF command.table = "evidence" THEN stored ELSE written
  <2> HIDE DEF stored, written, command
  <2> QED
    BY <1>1 DEF OtherWrites, Commit, OnlyCommits, Committed
<1> DEFINE ledger == IF command.table = "evidence" THEN db.ledger ELSE Append(db.ledger, entry)
           cases == IF command.table = "evidence" THEN db.cases ELSE {[c EXCEPT !.caseSequence = seq] : c \in db.cases}
<1>8. /\ DOMAIN db' = DbFields
      /\ db'.plans = db.plans /\ db'.runs = db.runs /\ db'.demo = db.demo
      /\ db'.attempts = db.attempts /\ db'.receipts = db.receipts
      /\ db'.objects = db.objects \cup {object}
      /\ db'.ledger = ledger /\ db'.cases = cases
  <2> HIDE DEF n, command, object, entry
  <2>1. CASE command.table = "evidence"
    BY <1>2, <1>7, <2>1 DEF DbFields
  <2>2. CASE command.table # "evidence"
    <3>1. DOMAIN stored = DbFields
      BY <1>2
    <3> QED
      BY <1>2, <1>7, <2>2, <3>1 DEF DbFields
  <2> QED
    BY <2>1, <2>2
<1> HIDE DEF n, command, object, entry, ledger, cases
<1>9. /\ ledger \in Seq(Entries) /\ \A i \in 1 .. Len(ledger) : ledger[i].caseSequence = i
      /\ Len(ledger) \in Nat /\ Len(db.ledger) <= Len(ledger)
      /\ command.table = "evidence" => Len(ledger) = Len(db.ledger)
      /\ command.table # "evidence" => Len(ledger) = seq
  <2>1. \A i \in 1 .. Len(db.ledger) : db.ledger[i].caseSequence = i
    BY <1>2 DEF SnapshotOK
  <2>2. CASE command.table = "evidence"
    BY <1>3, <2>1, <2>2 DEF ledger
  <2>3. CASE command.table # "evidence"
    <3>1. /\ ledger = Append(db.ledger, entry) /\ Len(ledger) = Len(db.ledger) + 1
          /\ ledger \in Seq(Entries)
          /\ \A i \in 1 .. Len(db.ledger) : ledger[i] = db.ledger[i]
          /\ ledger[Len(db.ledger) + 1] = entry
      BY <1>3, <1>5, <2>3 DEF ledger
    <3> QED
      BY <1>3, <1>5, <2>1, <2>3, <3>1
  <2> QED
    BY <2>2, <2>3
<1>10. SnapshotOK(db)'
  <2>1. page' = "case" /\ UNCHANGED asked
    BY <1>1, <1>7 DEF OnlyCommits
  <2>3. ASSUME NEW o \in db'.objects PROVE o.table \in Tables /\ o.caseSequence \subseteq 1 .. Len(ledger)
    <3>1. CASE o \in db.objects
      BY <1>2, <1>3, <1>9, <3>1 DEF SnapshotOK
    <3>2. CASE o = object
      BY <1>3, <1>4, <1>6, <1>9, <3>2
    <3> QED
      BY <1>8, <3>1, <3>2
  <2>4. CaseRowOK(db)'
    <3>1. PICK c \in db.cases : /\ db.cases = {c} /\ DOMAIN c = {"caseId", "status", "caseSequence"}
                                /\ c.caseSequence = Len(db.ledger)
      BY <1>1, <1>2 DEF SnapshotOK, CaseRowOK
    <3>2. CASE command.table = "evidence"
      BY <1>8, <3>1, <3>2 DEF CaseRowOK, cases, ledger
    <3>3. CASE command.table # "evidence"
      <4> DEFINE d == [c EXCEPT !.caseSequence = seq]
      <4>1. db'.cases = {d} /\ DOMAIN d = {"caseId", "status", "caseSequence"} /\ d.caseSequence = seq
        BY <1>8, <3>1, <3>3 DEF cases
      <4> HIDE DEF d
      <4> QED
        BY <1>8, <1>9, <3>3, <4>1 DEF CaseRowOK
    <3> QED
      BY <3>2, <3>3
  <2>5. /\ \A a \in db.attempts : AttemptOK(a)
        /\ IsFiniteSet(db.receipts) /\ \A x \in db.receipts : ReceiptOK(x)
    BY <1>2 DEF SnapshotOK
  <2> QED
    BY <1>8, <1>9, <2>1, <2>3, <2>4, <2>5 DEF SnapshotOK
<1>11. Before(db, db')
  BY <1>3, <1>8, <1>9 DEF Before, KeepsRuns, KeepsAttempts, KeepsFinished
<1>12. WindowsAreHistories' /\ DOMAIN polls' = PollSlots
  BY <1>2, <1>7, <1>10, <1>11, CommitKeepsHistories DEF OnlyCommits, ShapeOK
<1>13. /\ UNCHANGED <<page, target, data, flags, drawer, wire, asked>> /\ asked = {} /\ wire = {}
       /\ page \notin RunPages
  BY <1>1, <1>2, <1>7 DEF OnlyCommits, PagesAreApart, RunPages
<1>14. ShapeOK'
  BY <1>2, <1>8, <1>12, <1>13 DEF ShapeOK
<1>15. PagesAreApart' /\ RunsAreKeyed'
  BY <1>2, <1>8, <1>13 DEF PagesAreApart, RunsAreKeyed
<1>16. RequestsAreAnsweredTruly'
  BY <1>13 DEF RequestsAreAnsweredTruly
<1>17. DemoCasesAreWhole'
  BY <1>2, <1>8, <1>13 DEF DemoCasesAreWhole, HasSubject
<1>18. RunPageShown' /\ CasePagesAreGrounded'
  BY <1>1, <1>2, <1>13 DEF RunPageShown, CasePagesAreGrounded
<1> QED
  BY <1>12, <1>14, <1>15, <1>16, <1>17, <1>18 DEF IInv

-----------------------------------------------------------------------------
(* Polls preserve the invariant *)

\* A poll that starts sees the databases as they are; one that ends sees nothing.
LEMMA PollWindow ==
  ASSUME IInv, NEW p \in PollSlots, NEW w, w \in {<<>>, <<db>>},
         polls' = [polls EXCEPT ![p] = w], UNCHANGED <<page, db, asked>>
  PROVE  WindowsAreHistories' /\ DOMAIN polls' = PollSlots /\ polls'[p] = w
<1>1. /\ DOMAIN polls = PollSlots /\ WindowsAreHistories /\ SnapshotOK(db) /\ db.ledger \in Seq(Entries)
  BY DEF IInv, ShapeOK, WindowsAreHistories, SnapshotOK
<1>2. SnapshotOK(db)'
  BY <1>1 DEF SnapshotOK, CaseRowOK
<1>3. ASSUME NEW q \in PollSlots
      PROVE  HistoryOf(polls[q])'
  <2>1. HistoryOf(polls[q])
    BY <1>1 DEF WindowsAreHistories
  <2>2. CASE q # p
    <3>1. polls'[q] = polls[q]
      BY <2>2
    <3>2. /\ polls[q] \in Seq(ToSet(polls[q]))
          /\ \A i \in 1 .. Len(polls[q]) : /\ SnapshotOK(polls[q][i]) /\ Before(polls[q][i], db)
                                           /\ \A j \in i .. Len(polls[q]) : Before(polls[q][i], polls[q][j])
      BY <2>1 DEF HistoryOf
    <3>3. ASSUME NEW i \in 1 .. Len(polls[q])
          PROVE  SnapshotOK(polls[q][i])'
      <4>1. SnapshotOK(polls[q][i]) /\ polls'[q][i] = polls[q][i]
        BY <3>1, <3>2
      <4> QED
        BY <4>1 DEF SnapshotOK, CaseRowOK
    <3> QED
      BY <3>1, <3>2, <3>3 DEF HistoryOf
  <2>3. CASE q = p /\ w = <<>>
    <3>1. polls'[q] = <<>> /\ Len(<<>>) = 0
      BY <1>1, <2>3
    <3>2. <<>> \in Seq(ToSet(<<>>))
      BY DEF ToSet
    <3>3. polls'[q] \in Seq(ToSet(polls'[q]))
      BY <3>1, <3>2, Zenon
    <3>4. Len(polls'[q]) = 0
      BY <3>1, Zenon
    <3>5. \A i \in 1 .. 0 : FALSE
      OBVIOUS
    <3> QED
      BY <3>3, <3>4, <3>5 DEF HistoryOf
  <2>4. CASE q = p /\ w = <<db>>
    <3>1. polls'[q] = <<db>> /\ Len(<<db>>) = 1 /\ <<db>>[1] = db
      BY <1>1, <2>4
    <3>2. <<db>> \in Seq(ToSet(<<db>>))
      BY DEF ToSet
    <3>3. Before(db, db)
      BY <1>1, BeforeReflexive
    <3>4. ASSUME NEW i \in 1 .. 1
          PROVE  SnapshotOK(polls[q][i])'
      BY <1>1, <3>1 DEF SnapshotOK, CaseRowOK
    <3>5. /\ polls'[q] \in Seq(ToSet(polls'[q])) /\ Len(polls'[q]) = 1
          /\ \A i \in 1 .. 1 : Before(polls'[q][i], db') /\ \A j \in i .. 1 : Before(polls'[q][i], polls'[q][j])
      <4>1. \A i \in 1 .. 1 : i = 1 /\ \A j \in i .. 1 : j = 1
        OBVIOUS
      <4> QED
        BY <3>1, <3>2, <3>3, <4>1
    <3> QED
      BY <3>4, <3>5 DEF HistoryOf
  <2> QED
    BY <2>2, <2>3, <2>4
<1> QED
  BY <1>1, <1>2, <1>3 DEF WindowsAreHistories

\* A step that touches polls, flags and data only.
LEMMA PollFrame ==
  ASSUME IInv, UNCHANGED <<page, target, db, drawer, wire, asked>>, asked = {},
         WindowsAreHistories', DOMAIN polls' = PollSlots, RunPageShown', CasePagesAreGrounded'
  PROVE  IInv'
<1>1. /\ ShapeOK /\ PagesAreApart /\ RunsAreKeyed /\ RequestsAreAnsweredTruly /\ DemoCasesAreWhole
  BY DEF IInv
<1>2. ShapeOK' /\ PagesAreApart'
  BY <1>1 DEF ShapeOK, PagesAreApart
<1>3. RunsAreKeyed' /\ RequestsAreAnsweredTruly' /\ DemoCasesAreWhole'
  BY <1>1 DEF RunsAreKeyed, RequestsAreAnsweredTruly, RunOf, DemoCasesAreWhole, HasSubject
<1> QED
  BY <1>2, <1>3 DEF IInv

LEMMA StartPollInv ==
  ASSUME IInv, NEW p \in PollSlots, NEW manual \in BOOLEAN, StartPoll(p, manual)
  PROVE  IInv'
<1>1. /\ polls' = [polls EXCEPT ![p] = <<db>>] /\ asked = {}
      /\ UNCHANGED <<page, target, db, data, drawer, wire, asked>>
  BY DEF StartPoll, FetchData
<1>2. WindowsAreHistories' /\ DOMAIN polls' = PollSlots
  BY <1>1, PollWindow
<1>3. RunPageShown' /\ CasePagesAreGrounded'
  BY <1>1 DEF IInv, RunPageShown, RunShown, CasePagesAreGrounded
<1> QED
  BY <1>1, <1>2, <1>3, PollFrame

LEMMA PollFailsInv ==
  ASSUME IInv, NEW p \in PollSlots, PollFails(p)
  PROVE  IInv'
<1>1. /\ polls' = [polls EXCEPT ![p] = <<>>] /\ asked = {}
      /\ UNCHANGED <<page, target, db, data, drawer, wire, asked>>
  BY DEF PollFails, IInv, PagesAreApart
<1>2. WindowsAreHistories' /\ DOMAIN polls' = PollSlots
  BY <1>1, PollWindow
<1>3. RunPageShown' /\ CasePagesAreGrounded'
  BY <1>1 DEF IInv, RunPageShown, RunShown, CasePagesAreGrounded
<1> QED
  BY <1>1, <1>2, <1>3, PollFrame

-----------------------------------------------------------------------------
(* The answer of a case poll *)

\* Whatever moments the statements of a case view were made at, the events asked
\* for afterwards hold an entry for each object read, up to their limit.
LEMMA CaseAnswerIsGrounded ==
  ASSUME IInv, page = "case", NEW p \in PollSlots, NEW answer \in caseDetails(polls[p])
  PROVE  /\ \A o \in answer.view.objects : \A seq \in o.caseSequence :
              seq <= EventLimit => \E event \in ToSet(answer.view.activities) : event.caseSequence = seq
         /\ answer.view.caseSequence <= answer.view.latestSequence \/ answer.view.latestSequence = EventLimit
         /\ \A e \in answer.view.graph.edges : {e.from, e.to} \subseteq answer.view.graph.nodes
<1> DEFINE w == polls[p]
<1>1. /\ w \in Seq(ToSet(w))
      /\ \A i \in 1 .. Len(w) : SnapshotOK(w[i]) /\ \A j \in i .. Len(w) : Before(w[i], w[j])
  BY DEF IInv, WindowsAreHistories, HistoryOf
<1>2. DOMAIN w = 1 .. Len(w) /\ Len(w) \in Nat
  BY <1>1 DEF w
<1> DEFINE Detail(row, at, e) ==
             Complete(caseDetail(The(w[row].cases), {o \in db.objects : o \in w[at[o.table]].objects},
                                 w[at["lineage"]].lineage, listCaseEvents(w[e])))
           ByEvents(row, at) == {Detail(row, at, e) : e \in Latest(at) .. Len(w)}
           ByMoments(row) == UNION {ByEvents(row, at) : at \in [Tables -> row .. Len(w)]}
<1>3. answer \in UNION {ByMoments(row) : row \in DOMAIN w}
  BY DEF caseDetails, eventsReadFrom
<1> HIDE DEF w
<1> HIDE DEF ByMoments
<1>4. PICK row \in DOMAIN w : answer \in ByMoments(row)
  BY <1>3
<1> HIDE DEF ByEvents
<1>5. PICK at \in [Tables -> row .. Len(w)] : answer \in ByEvents(row, at)
  BY <1>4 DEF ByMoments
<1> HIDE DEF Detail
<1>6. PICK e \in Latest(at) .. Len(w) : answer = Detail(row, at, e)
  BY <1>5 DEF ByEvents
<1>7. answer = Complete(caseDetail(The(w[row].cases), {o \in db.objects : o \in w[at[o.table]].objects},
                                   w[at["lineage"]].lineage, listCaseEvents(w[e])))
  BY <1>6 DEF Detail
<1> DEFINE objects == {o \in db.objects : o \in w[at[o.table]].objects}
           events == listCaseEvents(w[e])
           view == caseDetail(The(w[row].cases), objects, w[at["lineage"]].lineage, events)
<1>8. answer.view = view
  BY <1>7 DEF Complete
<1>9. row \in 1 .. Len(w) /\ \A t \in Tables : at[t] \in row .. Len(w)
  BY <1>2, <1>4, <1>5
<1>10. Latest(at) \in row .. Len(w) /\ \A t \in Tables : at[t] <= Latest(at)
  <2> DEFINE T == {at[t] : t \in Tables}
  <2>1. T \subseteq 0 .. Len(w) /\ at["lineage"] \in T
    BY <1>2, <1>9 DEF Tables
  <2> HIDE DEF T
  <2>2. \E m \in T : \A k \in T : k <= m
    BY <1>2, <2>1, GreatestExists
  <2>3. \E m \in T : \A t \in Tables : at[t] <= m
    BY <2>2 DEF T
  <2>4. Latest(at) \in T /\ \A t \in Tables : at[t] <= Latest(at)
    BY <2>3 DEF Latest, T
  <2> QED
    BY <1>9, <2>4 DEF T
<1>11. e \in row .. Len(w) /\ e \in 1 .. Len(w) /\ \A t \in Tables : at[t] \in 1 .. Len(w) /\ e \in at[t] .. Len(w)
  BY <1>2, <1>6, <1>9, <1>10
<1>12. /\ SnapshotOK(w[e]) /\ SnapshotOK(w[row]) /\ Before(w[row], w[e])
      /\ \A t \in Tables : Before(w[at[t]], w[e])
  BY <1>1, <1>9, <1>11
<1> DEFINE ledger == w[e].ledger
           n == IF Len(ledger) > EventLimit THEN EventLimit ELSE Len(ledger)
<1>13. /\ ledger \in Seq(Entries) /\ Len(ledger) \in Nat /\ Len(w[row].ledger) \in Nat
       /\ \A i \in 1 .. Len(ledger) : ledger[i].caseSequence = i
       /\ EventLimit \in Nat \ {0} /\ n \in 0 .. Len(ledger)
  <2>1. ledger \in Seq(Entries) /\ w[row].ledger \in Seq(Entries)
    BY <1>12 DEF SnapshotOK
  <2>2. \A i \in 1 .. Len(ledger) : ledger[i].caseSequence = i
    BY <1>12 DEF SnapshotOK
  <2>3. EventLimit \in Nat \ {0}
    BY SurfaceAssumption
  <2> HIDE DEF ledger
  <2>4. Len(ledger) \in Nat /\ Len(w[row].ledger) \in Nat
    BY <2>1
  <2> QED
    BY <2>1, <2>2, <2>3, <2>4
<1>14. /\ events \in Seq(Entries) /\ Len(events) = n
       /\ \A i \in 1 .. n : events[i].caseSequence = i
  <2>1. events = SubSeq(ledger, 1, n)
    BY DEF listCaseEvents
  <2> HIDE DEF ledger, n, events
  <2>2. n \in Nat /\ \A i \in 1 .. n : ledger[i] \in Entries /\ ledger[i].caseSequence = i
    BY <1>13
  <2>3. /\ SubSeq(ledger, 1, n) \in Seq(Entries)
        /\ Len(SubSeq(ledger, 1, n)) = IF 1 <= n THEN n - 1 + 1 ELSE 0
        /\ \A i \in 1 .. n - 1 + 1 : SubSeq(ledger, 1, n)[i] = ledger[1 + i - 1]
    BY <2>2, SubSeqProperties
  <2> QED
    BY <2>1, <2>2, <2>3
<1>15. The(w[row].cases).caseSequence = Len(w[row].ledger)
  BY <1>12 DEF SnapshotOK, CaseRowOK, The
<1>16. \A o \in objects : o.caseSequence \subseteq 1 .. Len(ledger)
  <2> SUFFICES ASSUME NEW o \in objects PROVE o.caseSequence \subseteq 1 .. Len(ledger)
    OBVIOUS
  <2>1. o.table \in Tables
    BY DEF IInv, WindowsAreHistories, SnapshotOK
  <2>2. o \in w[e].objects
    BY <1>12, <2>1 DEF Before
  <2> QED
    BY <1>12, <2>2 DEF SnapshotOK
<1>17. \A i \in 1 .. n : \E event \in ToSet(events) : event.caseSequence = i
  <2> SUFFICES ASSUME NEW i \in 1 .. n
               PROVE  \E event \in ToSet(events) : event.caseSequence = i
    OBVIOUS
  <2> HIDE DEF events, n
  <2>1. events[i] \in ToSet(events)
    BY <1>14 DEF ToSet
  <2> QED
    BY <1>14, <2>1
<1>18. /\ view.objects = objects /\ view.activities = events
       /\ view.caseSequence = The(w[row].cases).caseSequence
       /\ view.latestSequence = IF events = <<>> THEN 0 ELSE Last(events).caseSequence
       /\ view.graph = buildCaseGraph(The(w[row].cases).caseId, objects, w[at["lineage"]].lineage)
  <2> HIDE DEF objects, events
  <2> QED
    BY DEF caseDetail
<1>19. view.latestSequence = n
  <2> HIDE DEF events, n, view
  <2>1. CASE events = <<>>
    <3>1. Len(events) = 0
      BY <2>1, EmptySeq
    <3> QED
      BY <1>14, <1>18, <2>1, <3>1
  <2>2. CASE events # <<>>
    <3>1. n \in 1 .. n
      BY <1>13, <1>14, <2>2, EmptySeq
    <3> QED
      BY <1>14, <1>18, <2>2, <3>1 DEF Last
  <2> QED
    BY <2>1, <2>2
<1>20. \A x \in view.graph.edges : {x.from, x.to} \subseteq view.graph.nodes
  <2> HIDE DEF objects
  <2> QED
    BY <1>18 DEF buildCaseGraph, addEdges
<1> HIDE DEF view, objects, events
<1>21. view.caseSequence <= view.latestSequence \/ view.latestSequence = EventLimit
  <2>1. Len(w[row].ledger) <= Len(ledger)
    BY <1>12 DEF Before
  <2> QED
    BY <1>13, <1>15, <1>18, <1>19, <2>1
<1>22. ASSUME NEW o \in view.objects, NEW k \in o.caseSequence, k <= EventLimit
       PROVE  \E event \in ToSet(view.activities) : event.caseSequence = k
  <2>1. k \in 1 .. Len(ledger)
    BY <1>16, <1>18
  <2>2. k \in 1 .. n
    BY <1>13, <1>22, <2>1
  <2> QED
    BY <1>17, <1>18, <2>2
<1> QED
  BY <1>8, <1>20, <1>21, <1>22

-----------------------------------------------------------------------------
(* The answer of a run poll *)

\* The attempts read in a state are those its window ghost looks at: a row that is
\* the latest of its node in the view is the latest in that state.
LEMMA LatestIsTrue ==
  ASSUME NEW s, \A a \in s.attempts : AttemptOK(a), NEW n,
         NEW a \in latestAttempt(n, listNodeAttempts(s, target))
  PROVE  a.status \in LatestIn(s, n)
<1> DEFINE rows == {x \in s.attempts : x.runId = target /\ x.nodeId = n}
           above == {y \in rows : y.attempt > a.attempt}
<1>1. a \in rows /\ \A b \in rows : b.attempt <= a.attempt
  BY DEF latestAttempt, listNodeAttempts
<1>2. above = {}
  <2>1. MaxAttempt \in Nat
    BY SurfaceAssumption
  <2>2. \A b \in rows : b.attempt \in 0 .. MaxAttempt
    BY DEF AttemptOK
  <2> QED
    BY <1>1, <2>1, <2>2
<1>3. Cardinality(above) = 0
  BY <1>2, FS_EmptySet
<1> QED
  BY <1>1, <1>3 DEF LatestIn

\* A node with a row in a state has a latest row in it.
LEMMA LatestIsThere ==
  ASSUME NEW s, \A a \in s.attempts : AttemptOK(a), NEW n,
         NEW b \in s.attempts, b.runId = target, b.nodeId = n
  PROVE  latestAttempt(n, listNodeAttempts(s, target)) # {}
<1> DEFINE rows == {x \in s.attempts : x.runId = target /\ x.nodeId = n}
           T == {x.attempt : x \in rows}
<1>1. MaxAttempt \in Nat /\ T \subseteq 0 .. MaxAttempt /\ b.attempt \in T
  BY SurfaceAssumption DEF AttemptOK
<1> HIDE DEF T
<1>2. PICK m \in T : \A k \in T : k <= m
  BY <1>1, GreatestExists
<1>3. PICK x \in rows : m = x.attempt
  BY <1>2 DEF T
<1>4. \A y \in rows : y.attempt <= x.attempt
  BY <1>2, <1>3 DEF T
<1>5. x \in latestAttempt(n, listNodeAttempts(s, target))
  BY <1>3, <1>4 DEF latestAttempt, listNodeAttempts
<1> QED
  BY <1>5

\* On a page of a run there is one plan, its own.
LEMMA OnePlan ==
  ASSUME IInv, page \in RunPages, asked = {}
  PROVE  listPlanRecords(db) = {PlanOf(TheRun)}
<1>1. PICK plan \in RunPlans : db.plans = <<plan>> /\ \A r \in db.runs : r.planDigest = plan.planDigest
  BY DEF IInv, PagesAreApart
<1>2. TheRun \in db.runs
  <2>1. getRun(db, target) # {}
    BY DEF IInv, PagesAreApart, getRun
  <2> QED
    BY <2>1, TheIsMember DEF TheRun, getRun
<1>3. ToSet(<<plan>>) = {plan}
  BY DEF ToSet
<1>4. getPlan(db, TheRun.planDigest) = {plan}
  BY <1>1, <1>2, <1>3 DEF getPlan
<1>5. PlanOf(TheRun) = mapPlan(plan)
  BY <1>4 DEF PlanOf, The
<1>6. listPlanRecords(db) = {mapPlan(plan)}
  <2>1. Len(db.plans) = 1 /\ PlanLimit \in Nat /\ PlanLimit >= 1
    BY <1>1, SurfaceAssumption
  <2>2. ToSet(SubSeq(db.plans, 1, Len(db.plans))) = {plan}
    <3>1. <<plan>> \in Seq({plan})
      OBVIOUS
    <3> QED
      BY <1>1, <1>3, <3>1, SubSeqFull
  <2>3. listPlanRecords(db) = {mapPlan(raw) : raw \in ToSet(SubSeq(db.plans, 1, Len(db.plans)))}
    BY <2>1 DEF listPlanRecords
  <2> QED
    BY <2>2, <2>3
<1> QED
  BY <1>5, <1>6

\* Whatever moments its reads were made at, the view of a run invents nothing.
LEMMA RunAnswerIsTrue ==
  ASSUME IInv, page = "run", NEW p \in PollSlots, polls[p] # <<>>, NEW answer \in runDetails(polls[p])
  PROVE  RunShown([view |-> answer.view, lost |-> answer.lost, window |-> Truths(polls[p])])
<1> DEFINE w == polls[p]
<1>1. /\ w \in Seq(ToSet(w))
      /\ \A i \in 1 .. Len(w) : /\ SnapshotOK(w[i]) /\ Before(w[i], db)
                                /\ \A j \in i .. Len(w) : Before(w[i], w[j])
  BY DEF IInv, WindowsAreHistories, HistoryOf
<1>2. asked = {} /\ page \in RunPages
  BY DEF IInv, PagesAreApart, RunPages
<1>3. PICK s \in ToSet(w), events \in eventReads(w), attempts \in attemptReads(w), receipts \in receiptReads(w) :
        answer \in runViews(getRun(s, target), events, attempts, receipts, listPlanRecords(db))
  BY DEF runDetails, runReads
<1> DEFINE only == PlanOf(TheRun)
<1>4. Truths(w) = [nodes |-> [n \in {m.id : m \in planNodes(only)} |->
                               [begun |-> LatestIn(w[1], n) # {}, latest |-> UNION {LatestIn(t, n) : t \in ToSet(w)}]],
                   finished |-> \E x \in Effectful(w[1]) : x.finished,
                   reserved |-> \E t \in ToSet(w) : Effectful(t) # {},
                   cut |-> \E t \in ToSet(w) : Cardinality({x \in t.receipts : x.runId = target}) > ReceiptLimit]
  BY DEF Truths
<1>5. /\ ToSet(w) = {w[i] : i \in 1 .. Len(w)} /\ Len(w) \in Nat /\ 1 \in 1 .. Len(w)
  <2>1. DOMAIN w = 1 .. Len(w) /\ Len(w) \in Nat
    BY <1>1
  <2>2. Len(w) # 0
    BY <1>1, EmptySeq
  <2> QED
    BY <2>1, <2>2 DEF ToSet
<1> HIDE DEF w, only
<1>6. \A t \in ToSet(w) : SnapshotOK(t) /\ Before(t, db) /\ Before(w[1], t)
  BY <1>1, <1>5
<1>7. PICK v \in runDetail(getRun(s, target), events, attempts, receipts, {only}, Mode) :
        answer = [view |-> v, lost |-> (IF attempts = {} THEN {"attempts"} ELSE {})
                                         \cup (IF receipts = {} THEN {"receipts"} ELSE {})]
  BY <1>2, <1>3, OnePlan DEF runViews, only
<1>8. PICK pair \in {q \in getRun(s, target) \X {only} : q[1].planDigest = q[2].planDigest} :
        v = [summary |-> summarizeRun(pair[1], pair[2], Mode, Orelse(events, <<>>)),
             nodes |-> [id \in {n.id : n \in planNodes(pair[2])} |->
                          nodeAttempt(CHOOSE n \in planNodes(pair[2]) : n.id = id, pair[1], UNION attempts, UNION receipts)],
             failure |-> failureInfo(pair[1], UNION receipts),
             events |-> Orelse(events, <<>>)]
  BY <1>7 DEF runDetail
<1> DEFINE plan == pair[2]
           r == pair[1]
           node(id) == CHOOSE n \in planNodes(plan) : n.id = id
           ids == {n.id : n \in planNodes(plan)}
           nodes == [id \in ids |-> nodeAttempt(node(id), r, UNION attempts, UNION receipts)]
<1>9. /\ v = [summary |-> summarizeRun(r, plan, Mode, Orelse(events, <<>>)), nodes |-> nodes,
               failure |-> failureInfo(r, UNION receipts), events |-> Orelse(events, <<>>)]
       /\ r \in getRun(s, target) /\ plan = only
  BY <1>8
<1> HIDE DEF plan, r
<1>10. v.summary.status = r.status /\ v.nodes = nodes /\ v.failure = failureInfo(r, UNION receipts)
  <2> HIDE DEF nodes
  <2> QED
    BY <1>9 DEF summarizeRun
<1>11. r.status \in Terminal => \E x \in db.runs : x.runId = target /\ x.status = r.status
  <2>1. r \in s.runs /\ r.runId = target
    BY <1>9 DEF getRun
  <2> QED
    BY <1>3, <1>6, <2>1 DEF Before, KeepsRuns
<1>12. /\ attempts = {} \/ \E t \in ToSet(w) : attempts = {listNodeAttempts(t, target)}
       /\ receipts = {} \/ \E t \in ToSet(w) : \E listed \in listGatewayReceipts(t, target) : receipts = {listed}
  BY <1>3 DEF attemptReads, receiptReads, optionalJson
<1>13. ASSUME NEW n \in ids
       PROVE  LET state == nodes[n].state
              IN /\ state \in {"completed", "failed"} => state \in UNION {LatestIn(t, n) : t \in ToSet(w)}
                 /\ state = "not_reached" /\ LatestIn(w[1], n) # {} => attempts = {}
  <2> DEFINE state == nodes[n].state
             rows == UNION attempts
             latest == {a.status : a \in latestAttempt(n, rows)}
  <2>1. node(n).id = n
    BY DEF ids
  <2>2. state = nodeState(n, r, rows)
    <3> HIDE DEF node
    <3> QED
      BY <2>1 DEF nodeAttempt
  <2> HIDE DEF nodes, state, rows
  <2>3. /\ state = "completed" => "completed" \in latest
        /\ state = "failed" => "failed" \in latest
        /\ state = "not_reached" => latest \cap {"running", "completed", "failed"} = {}
    <3>1. state = CASE "running" \in latest -> "executing"
                    [] "completed" \in latest -> "completed"
                    [] "failed" \in latest -> "failed"
                    [] r.currentNodeId = {n} /\ r.status \in {"retrying", "denied"} -> r.status
                    [] r.currentNodeId = {n} /\ r.status = "running" -> "executing"
                    [] OTHER -> "not_reached"
      BY <2>2 DEF nodeState
    <3> HIDE DEF latest
    <3> QED
      BY <3>1
  <2>4. CASE attempts = {}
    <3>1. latest = {}
      BY <2>4 DEF rows, latestAttempt
    <3> QED
      BY <2>3, <2>4, <3>1 DEF state
  <2>5. CASE attempts # {}
    <3>1. PICK t \in ToSet(w) : rows = listNodeAttempts(t, target)
      BY <1>12, <2>5 DEF rows
    <3>2. \A a \in t.attempts : AttemptOK(a)
      BY <1>6, <3>1 DEF SnapshotOK
    <3>3. \A a \in latestAttempt(n, rows) : a.status \in LatestIn(t, n)
      BY <3>1, <3>2, LatestIsTrue
    <3>4. state \in {"completed", "failed"} => state \in LatestIn(t, n)
      BY <2>3, <3>3
    <3>5. ASSUME state = "not_reached", LatestIn(w[1], n) # {}
          PROVE  FALSE
      <4>1. PICK b \in w[1].attempts : b.runId = target /\ b.nodeId = n
        BY <3>5 DEF LatestIn
      <4>2. PICK c \in t.attempts : c.runId = target /\ c.nodeId = n
        BY <1>6, <3>1, <4>1 DEF Before, KeepsAttempts
      <4>3. PICK a \in latestAttempt(n, rows) : TRUE
        BY <3>1, <3>2, <4>2, LatestIsThere
      <4>4. a \in t.attempts
        BY <3>1, <4>3 DEF latestAttempt, listNodeAttempts
      <4>5. a.status \in latest /\ a.status \in {"running", "completed", "failed"}
        BY <3>2, <4>3, <4>4 DEF AttemptOK
      <4> QED
        BY <2>3, <3>5, <4>5
    <3> QED
      BY <3>1, <3>4, <3>5 DEF state
  <2> QED
    BY <2>4, <2>5 DEF state
<1>14. ASSUME NEW f \in v.failure
       PROVE  /\ f.externalEffectOccurred => \E t \in ToSet(w) : Effectful(t) # {}
              /\ ~f.externalEffectOccurred /\ (\E x \in Effectful(w[1]) : x.finished) /\ receipts # {}
                   => \E t \in ToSet(w) : Cardinality({x \in t.receipts : x.runId = target}) > ReceiptLimit
  <2>1. f.externalEffectOccurred <=> \E x \in UNION receipts : x.decision = "allowed" /\ x.effect \notin {"none", "read"}
    BY <1>10 DEF failureInfo
  <2>2. ASSUME f.externalEffectOccurred
        PROVE  \E t \in ToSet(w) : Effectful(t) # {}
    <3>1. PICK x \in UNION receipts : x.effect \notin {"none", "read"}
      BY <2>1, <2>2
    <3>2. PICK t \in ToSet(w) : x \in t.receipts /\ x.runId = target
      BY <1>12, <3>1 DEF listGatewayReceipts, Newest
    <3> QED
      BY <3>1, <3>2 DEF Effectful
  <2>3. ASSUME ~f.externalEffectOccurred, NEW x \in Effectful(w[1]), x.finished, receipts # {}
        PROVE  \E t \in ToSet(w) : Cardinality({y \in t.receipts : y.runId = target}) > ReceiptLimit
    <3>1. PICK t \in ToSet(w) : \E listed \in listGatewayReceipts(t, target) : receipts = {listed}
      BY <1>12, <2>3
    <3> DEFINE rows == {y \in t.receipts : y.runId = target}
    <3>2. PICK listed \in Newest(rows, ReceiptLimit) : receipts = {listed}
      BY <3>1 DEF listGatewayReceipts
    <3>3. IsFiniteSet(rows)
      <4>1. IsFiniteSet(t.receipts)
        BY <1>6 DEF SnapshotOK
      <4> QED
        BY <4>1, FS_Subset
    <3>4. x \in rows /\ x.decision = "allowed" /\ x.effect \notin {"none", "read"}
      <4>1. x \in w[1].receipts /\ x.runId = target /\ x.effect \notin {"none", "read"}
        BY <2>3 DEF Effectful
      <4>2. x \in t.receipts
        BY <1>6, <2>3, <4>1 DEF Before, KeepsFinished
      <4> QED
        BY <1>6, <4>1, <4>2 DEF SnapshotOK, ReceiptOK
    <3> HIDE DEF rows
    <3>5. listed # rows
      BY <2>1, <2>3, <3>2, <3>4
    <3>6. Cardinality(rows) > ReceiptLimit
      BY <3>2, <3>3, <3>5, FS_Subset DEF Newest
    <3> QED
      BY <3>6 DEF rows
  <2> QED
    BY <2>2, <2>3
<1> DEFINE d == [view |-> answer.view, lost |-> answer.lost, window |-> Truths(w)]
<1>15. /\ d.view = v /\ d.lost = (IF attempts = {} THEN {"attempts"} ELSE {}) \cup (IF receipts = {} THEN {"receipts"} ELSE {})
       /\ d.window = Truths(w)
  BY <1>7
<1>16. DOMAIN v.nodes = ids
  BY <1>10
<1> HIDE DEF nodes
<1>17. ASSUME NEW n \in ids
       PROVE  /\ v.nodes[n].state \in {"completed", "failed"} => v.nodes[n].state \in d.window.nodes[n].latest
              /\ v.nodes[n].state = "not_reached" /\ d.window.nodes[n].begun => "attempts" \in d.lost
  <2>1. /\ Truths(w).nodes[n].latest = UNION {LatestIn(t, n) : t \in ToSet(w)}
        /\ Truths(w).nodes[n].begun = (LatestIn(w[1], n) # {})
    BY <1>4, <1>9 DEF ids
  <2> QED
    BY <1>10, <1>13, <1>15, <2>1
<1>18. ASSUME NEW f \in v.failure
       PROVE  /\ f.externalEffectOccurred => d.window.reserved
              /\ ~f.externalEffectOccurred /\ d.window.finished => "receipts" \in d.lost \/ d.window.cut
  <2>1. /\ Truths(w).finished = (\E x \in Effectful(w[1]) : x.finished)
        /\ Truths(w).reserved = (\E t \in ToSet(w) : Effectful(t) # {})
        /\ Truths(w).cut = (\E t \in ToSet(w) : Cardinality({x \in t.receipts : x.runId = target}) > ReceiptLimit)
    BY <1>4
  <2> HIDE DEF d
  <2> QED
    BY <1>14, <1>15, <2>1
<1> HIDE DEF d
<1>19. RunShown(d)
  BY <1>10, <1>11, <1>15, <1>16, <1>17, <1>18 DEF RunShown
<1> QED
  BY <1>19 DEF d, w

LEMMA AnswerPollInv ==
  ASSUME IInv, NEW p \in PollSlots, AnswerPoll(p)
  PROVE  IInv'
<1>1. /\ polls[p] # <<>> /\ polls' = [polls EXCEPT ![p] = <<>>]
      /\ UNCHANGED <<page, target, db, drawer, wire, asked>>
  BY DEF AnswerPoll
<1>2. asked = {}
  BY <1>1 DEF IInv, PagesAreApart
<1>3. PICK answer \in Answers(polls[p]) :
        data' = {[view |-> answer.view, lost |-> answer.lost, window |-> Truths(polls[p])]}
  BY DEF AnswerPoll
<1>4. PICK d : d = [view |-> answer.view, lost |-> answer.lost, window |-> Truths(polls[p])]
  OBVIOUS
<1>5. data' = {d} /\ d.view = answer.view
  BY <1>3, <1>4
<1>6. WindowsAreHistories' /\ DOMAIN polls' = PollSlots
  BY <1>1, PollWindow
<1>7. RunPageShown'
  <2> SUFFICES ASSUME page = "run" PROVE RunShown(d)'
    <3>1. \A x \in data' : x = d
      BY <1>5
    <3> QED
      BY <1>1, <3>1 DEF RunPageShown, RunShown
  <2>1. answer \in runDetails(polls[p])
    BY <1>3 DEF Answers
  <2>2. RunShown(d)
    BY <1>1, <1>4, <2>1, RunAnswerIsTrue
  <2> QED
    BY <1>1, <2>2 DEF RunShown
<1>8. CasePagesAreGrounded'
  <2> SUFFICES ASSUME page = "case", NEW x \in data' PROVE
                 /\ \A o \in x.view.objects : \A seq \in o.caseSequence :
                      seq <= EventLimit => \E event \in ToSet(x.view.activities) : event.caseSequence = seq
                 /\ x.view.caseSequence <= x.view.latestSequence \/ x.view.latestSequence = EventLimit
                 /\ \A e \in x.view.graph.edges : {e.from, e.to} \subseteq x.view.graph.nodes
    BY <1>1 DEF CasePagesAreGrounded
  <2>1. answer \in caseDetails(polls[p])
    BY <1>3 DEF Answers
  <2>2. x.view = answer.view
    BY <1>5
  <2> QED
    BY <2>1, <2>2, CaseAnswerIsGrounded
<1> QED
  BY <1>1, <1>2, <1>6, <1>7, <1>8, PollFrame

-----------------------------------------------------------------------------
(* The drawers preserve the invariant *)

DrawerFields == {"open", "opening", "key", "planDigest", "input", "waiting", "sent", "demo"}
RequestFields == {"n", "key", "intent", "planDigest", "input", "served", "run"}
FormOK == /\ DOMAIN drawer = DrawerFields /\ DOMAIN drawer.input = {"text", "caseId"}
          /\ drawer.opening \in Nat /\ drawer.key \in 0 .. drawer.opening

\* Windows depend on the databases, the polls, the page and who opened it only.
LEMMA PollSame ==
  ASSUME WindowsAreHistories, UNCHANGED <<page, db, polls, asked>>
  PROVE  WindowsAreHistories'
<1>1. SnapshotOK(db)'
  BY DEF WindowsAreHistories, SnapshotOK, CaseRowOK
<1>2. ASSUME NEW p \in PollSlots
      PROVE  HistoryOf(polls[p])'
  <2>1. HistoryOf(polls[p]) /\ polls'[p] = polls[p]
    BY DEF WindowsAreHistories
  <2>2. ASSUME NEW i \in 1 .. Len(polls[p])
        PROVE  SnapshotOK(polls[p][i])'
    <3>1. SnapshotOK(polls[p][i])
      BY <2>1 DEF HistoryOf
    <3> QED
      BY <2>1, <3>1 DEF SnapshotOK, CaseRowOK
  <2> QED
    BY <2>1, <2>2 DEF HistoryOf
<1> QED
  BY <1>1, <1>2 DEF WindowsAreHistories

\* A step of the start-run drawer: it may add a request that no run answered yet.
LEMMA FormInv ==
  ASSUME IInv, page = "harness", UNCHANGED <<page, target, db, polls, data, flags, asked>>, FormOK',
         drawer'.demo = "subject" => drawer.demo = "subject",
         \A c \in drawer'.input.caseId : [caseId |-> c, subject |-> TRUE] \in db.demo,
         \A q \in wire' : q \in wire \/ /\ DOMAIN q = RequestFields /\ q.key \in Nat /\ q.intent \in Nat
                                        /\ q.intent # 0 => q.key = q.intent
                                        /\ q.run = {}
                                        /\ \A c \in q.input.caseId : [caseId |-> c, subject |-> TRUE] \in db.demo
  PROVE  IInv'
<1>1. ShapeOK /\ PagesAreApart /\ RunsAreKeyed /\ RequestsAreAnsweredTruly /\ DemoCasesAreWhole
  BY DEF IInv
<1>2. ShapeOK'
  BY <1>1 DEF ShapeOK, FormOK, DrawerFields, RequestFields
<1>3. PagesAreApart' /\ RunsAreKeyed'
  BY <1>1 DEF PagesAreApart, RunsAreKeyed
<1>4. RequestsAreAnsweredTruly'
  BY <1>1 DEF RequestsAreAnsweredTruly, RunOf
<1>5. DemoCasesAreWhole'
  BY <1>1 DEF DemoCasesAreWhole, HasSubject
<1>6. WindowsAreHistories'
  BY PollSame DEF IInv
<1>7. RunPageShown' /\ CasePagesAreGrounded'
  BY DEF RunPageShown, CasePagesAreGrounded
<1> QED
  BY <1>2, <1>3, <1>4, <1>5, <1>6, <1>7 DEF IInv

\* A commit to the plans or to the demo case by the page that has the drawers.
LEMMA HarnessCommitInv ==
  ASSUME IInv, page = "harness", Committed, UNCHANGED <<page, target, data, flags, wire, asked>>,
         DOMAIN db' = DbFields, db'.runs = db.runs, db'.attempts = db.attempts, db'.receipts = db.receipts,
         db'.objects = db.objects, db'.ledger = db.ledger,
         FormOK', DemoCasesAreWhole'
  PROVE  IInv'
<1>1. /\ ShapeOK /\ PagesAreApart /\ RunsAreKeyed /\ RequestsAreAnsweredTruly
      /\ WindowsAreHistories /\ SnapshotOK(db) /\ db.ledger \in Seq(Entries)
  BY DEF IInv, WindowsAreHistories, SnapshotOK
<1>2. SnapshotOK(db)'
  BY <1>1 DEF SnapshotOK, RunPages
<1>3. Before(db, db')
  <2>1. Len(db.ledger) \in Nat
    BY <1>1
  <2> QED
    BY <2>1 DEF Before, KeepsRuns, KeepsAttempts, KeepsFinished
<1>4. WindowsAreHistories' /\ DOMAIN polls' = PollSlots
  BY <1>1, <1>2, <1>3, CommitKeepsHistories DEF ShapeOK
<1>5. ShapeOK'
  BY <1>1, <1>4 DEF ShapeOK, FormOK, DrawerFields
<1>6. asked = {}
  BY <1>1 DEF PagesAreApart
<1>7. PagesAreApart' /\ RunsAreKeyed'
  BY <1>1, <1>6 DEF PagesAreApart, RunsAreKeyed, RunPages
<1>8. RequestsAreAnsweredTruly'
  BY <1>1 DEF RequestsAreAnsweredTruly, RunOf
<1>9. RunPageShown' /\ CasePagesAreGrounded'
  BY DEF RunPageShown, CasePagesAreGrounded
<1> QED
  BY <1>4, <1>5, <1>7, <1>8, <1>9 DEF IInv

\* The steps that touch the form alone, and the submission.
LEMMA DrawerFormInv ==
  ASSUME IInv, page = "harness",
         \/ \E digest \in Listed : OpenDrawer(digest)
         \/ CloseDrawer
         \/ \E text \in Inputs : EditInput(text)
         \/ \E key \in 0 .. drawer.opening : EditKey(key)
         \/ Submit \/ SubmissionFails \/ DemoCaseReady \/ DemoCaseFails
  PROVE  IInv'
<1>1. /\ DOMAIN drawer = DrawerFields /\ DOMAIN drawer.input = {"text", "caseId"}
      /\ drawer.opening \in Nat /\ drawer.key \in 0 .. drawer.opening
  BY DEF IInv, ShapeOK, DrawerFields
<1>2. \A c \in drawer.input.caseId : [caseId |-> c, subject |-> TRUE] \in db.demo
  BY DEF IInv, DemoCasesAreWhole, HasSubject
<1>3. ASSUME NEW new, drawer' = new, UNCHANGED <<page, target, db, polls, data, flags, wire, asked>>,
             DOMAIN new = DrawerFields, DOMAIN new.input = {"text", "caseId"},
             new.opening \in Nat, new.key \in 0 .. new.opening,
             new.demo = "subject" => drawer.demo = "subject",
             \A c \in new.input.caseId : [caseId |-> c, subject |-> TRUE] \in db.demo
      PROVE  IInv'
  BY <1>3, FormInv DEF FormOK
<1>4. CASE \E digest \in Listed : OpenDrawer(digest)
  <2>1. PICK digest \in Listed : OpenDrawer(digest)
    BY <1>4
  <2>2. PICK new : new = [drawer EXCEPT !.open = TRUE, !.opening = @ + 1, !.key = drawer.opening + 1,
                                        !.planDigest = digest, !.input = Shut.input]
    OBVIOUS
  <2>3. /\ DOMAIN new = DrawerFields /\ new.input = [text |-> Blank, caseId |-> {}]
        /\ new.opening = drawer.opening + 1 /\ new.key = drawer.opening + 1 /\ new.demo = drawer.demo
    BY <1>1, <2>2 DEF DrawerFields, Shut
  <2>4. drawer' = new /\ UNCHANGED <<page, target, db, polls, data, flags, wire, asked>>
    BY <2>1, <2>2 DEF OpenDrawer, Drawer
  <2> QED
    BY <1>1, <1>3, <2>3, <2>4
<1>5. CASE CloseDrawer
  <2>1. PICK new : new = [drawer EXCEPT !.open = FALSE]
    OBVIOUS
  <2>2. /\ DOMAIN new = DrawerFields /\ new.input = drawer.input
        /\ new.opening = drawer.opening /\ new.key = drawer.key /\ new.demo = drawer.demo
    BY <1>1, <2>1 DEF DrawerFields
  <2>3. drawer' = new /\ UNCHANGED <<page, target, db, polls, data, flags, wire, asked>>
    BY <1>5, <2>1 DEF CloseDrawer, Drawer
  <2> QED
    BY <1>1, <1>2, <1>3, <2>2, <2>3
<1>6. CASE \E text \in Inputs : EditInput(text)
  <2>1. PICK text \in Inputs : EditInput(text)
    BY <1>6
  <2>2. PICK new : new = [drawer EXCEPT !.input.text = text]
    OBVIOUS
  <2>3. /\ DOMAIN new = DrawerFields /\ new.input = [drawer.input EXCEPT !.text = text]
        /\ new.opening = drawer.opening /\ new.key = drawer.key /\ new.demo = drawer.demo
    BY <1>1, <2>2 DEF DrawerFields
  <2>4. DOMAIN new.input = {"text", "caseId"} /\ new.input.caseId = drawer.input.caseId
    BY <1>1, <2>3
  <2>5. drawer' = new /\ UNCHANGED <<page, target, db, polls, data, flags, wire, asked>>
    BY <2>1, <2>2 DEF EditInput, Drawer
  <2> QED
    BY <1>1, <1>2, <1>3, <2>3, <2>4, <2>5
<1>7. CASE \E key \in 0 .. drawer.opening : EditKey(key)
  <2>1. PICK key \in 0 .. drawer.opening : EditKey(key)
    BY <1>7
  <2>2. PICK new : new = [drawer EXCEPT !.key = key]
    OBVIOUS
  <2>3. /\ DOMAIN new = DrawerFields /\ new.input = drawer.input
        /\ new.opening = drawer.opening /\ new.key = key /\ new.demo = drawer.demo
    BY <1>1, <2>2 DEF DrawerFields
  <2>4. drawer' = new /\ UNCHANGED <<page, target, db, polls, data, flags, wire, asked>>
    BY <2>1, <2>2 DEF EditKey, Drawer
  <2> QED
    BY <1>1, <1>2, <1>3, <2>1, <2>3, <2>4
<1>8. CASE SubmissionFails
  <2>1. PICK new : new = [drawer EXCEPT !.waiting = {}]
    OBVIOUS
  <2>2. /\ DOMAIN new = DrawerFields /\ new.input = drawer.input
        /\ new.opening = drawer.opening /\ new.key = drawer.key /\ new.demo = drawer.demo
    BY <1>1, <2>1 DEF DrawerFields
  <2>3. drawer' = new /\ UNCHANGED <<page, target, db, polls, data, flags, wire, asked>>
    BY <1>8, <2>1 DEF SubmissionFails, Drawer
  <2> QED
    BY <1>1, <1>2, <1>3, <2>2, <2>3
<1>9. CASE DemoCaseReady
  <2>1. PICK new : new = [drawer EXCEPT !.demo = "none", !.input.caseId = {DemoCaseId}]
    OBVIOUS
  <2>2. /\ DOMAIN new = DrawerFields /\ new.input = [drawer.input EXCEPT !.caseId = {DemoCaseId}]
        /\ new.opening = drawer.opening /\ new.key = drawer.key /\ new.demo = "none"
    BY <1>1, <2>1 DEF DrawerFields
  <2>3. DOMAIN new.input = {"text", "caseId"} /\ new.input.caseId = {DemoCaseId}
    BY <1>1, <2>2
  <2>4. [caseId |-> DemoCaseId, subject |-> TRUE] \in db.demo
    BY <1>9 DEF DemoCaseReady, IInv, DemoCasesAreWhole
  <2>5. drawer' = new /\ UNCHANGED <<page, target, db, polls, data, flags, wire, asked>>
    BY <1>9, <2>1 DEF DemoCaseReady, Drawer
  <2> QED
    BY <1>1, <1>3, <2>2, <2>3, <2>4, <2>5
<1>10. CASE DemoCaseFails
  <2>1. PICK new : new = [drawer EXCEPT !.demo = "none"]
    OBVIOUS
  <2>2. /\ DOMAIN new = DrawerFields /\ new.input = drawer.input
        /\ new.opening = drawer.opening /\ new.key = drawer.key /\ new.demo = "none"
    BY <1>1, <2>1 DEF DrawerFields
  <2>3. drawer' = new /\ UNCHANGED <<page, target, db, polls, data, flags, wire, asked>>
    BY <1>10, <2>1 DEF DemoCaseFails, Drawer
  <2> QED
    BY <1>1, <1>2, <1>3, <2>2, <2>3
<1>11. CASE Submit
  <2>1. PICK new : new = [drawer EXCEPT !.sent = @ + 1, !.waiting = {drawer.sent + 1}]
    OBVIOUS
  <2>2. /\ DOMAIN new = DrawerFields /\ new.input = drawer.input
        /\ new.opening = drawer.opening /\ new.key = drawer.key /\ new.demo = drawer.demo
    BY <1>1, <2>1 DEF DrawerFields
  <2>3. PICK q : q = [n |-> drawer.sent + 1, key |-> drawer.key,
                      intent |-> IF drawer.key = drawer.opening THEN drawer.opening ELSE 0,
                      planDigest |-> drawer.planDigest, input |-> drawer.input,
                      served |-> FALSE, run |-> {}]
    OBVIOUS
  <2>4. /\ DOMAIN q = RequestFields /\ q.key \in Nat /\ q.intent \in Nat
        /\ q.intent # 0 => q.key = q.intent
        /\ q.run = {} /\ q.input = drawer.input
    BY <1>1, <2>3 DEF RequestFields
  <2>5. drawer' = new /\ wire' = wire \cup {q} /\ UNCHANGED <<page, target, db, polls, data, flags, asked>>
    BY <1>11, <2>1, <2>3 DEF Submit, Drawer
  <2>6. FormOK'
    BY <1>1, <2>2, <2>5 DEF FormOK
  <2>7. \A x \in wire' : x \in wire \/ /\ DOMAIN x = RequestFields /\ x.key \in Nat /\ x.intent \in Nat
                                       /\ x.intent # 0 => x.key = x.intent
                                       /\ x.run = {}
                                       /\ \A c \in x.input.caseId : [caseId |-> c, subject |-> TRUE] \in db.demo
    BY <1>2, <2>4, <2>5
  <2> QED
    BY <1>2, <2>2, <2>5, <2>6, <2>7, FormInv
<1> QED
  BY <1>4, <1>5, <1>6, <1>7, <1>8, <1>9, <1>10, <1>11

\* The admit drawer and the demo case commit.
LEMMA HarnessWritesInv ==
  ASSUME IInv, page = "harness",
         (\E doc \in Documents : AdmitPlan(doc)) \/ CreateDemoCase \/ AddDemoSubject
  PROVE  IInv'
<1>1. /\ DOMAIN drawer = DrawerFields /\ DOMAIN drawer.input = {"text", "caseId"}
      /\ drawer.opening \in Nat /\ drawer.key \in 0 .. drawer.opening
      /\ DOMAIN db = DbFields /\ DemoCasesAreWhole
  BY DEF IInv, ShapeOK, DrawerFields
<1> DEFINE whole == [caseId |-> DemoCaseId, subject |-> TRUE]
           bare == [caseId |-> DemoCaseId, subject |-> FALSE]
<1>2. CASE \E doc \in Documents : AdmitPlan(doc)
  <2>1. PICK doc \in Documents : AdmitPlan(doc)
    BY <1>2
  <2>2. UNCHANGED <<page, target, data, flags, drawer, wire, asked>>
    BY <2>1 DEF AdmitPlan
  <2>3. CASE ~admitPlan(db, doc).created
    <3>1. UNCHANGED <<db, polls>>
      BY <2>1, <2>3 DEF AdmitPlan
    <3> QED
      BY <1>1, <2>2, <3>1, FormInv DEF FormOK, DemoCasesAreWhole, HasSubject
  <2>4. CASE admitPlan(db, doc).created
    <3>1. PICK new : new = [db EXCEPT !.plans = admitPlan(db, doc).plans]
      OBVIOUS
    <3>2. db' = new /\ Committed
      BY <2>1, <2>4, <3>1 DEF AdmitPlan, Commit, Committed
    <3>3. /\ DOMAIN new = DbFields /\ new.runs = db.runs /\ new.attempts = db.attempts
          /\ new.receipts = db.receipts /\ new.objects = db.objects /\ new.ledger = db.ledger
          /\ new.demo = db.demo
      BY <1>1, <3>1 DEF DbFields
    <3>4. FormOK' /\ DemoCasesAreWhole'
      BY <1>1, <2>2, <3>2, <3>3 DEF FormOK, DemoCasesAreWhole, HasSubject
    <3> QED
      BY <2>2, <3>2, <3>3, <3>4, HarnessCommitInv
  <2> QED
    BY <2>3, <2>4
<1>3. ASSUME NEW d, d.caseId = DemoCaseId, NEW new, new = [db EXCEPT !.demo = {d}], db' = new,
             NEW stage, drawer' = [drawer EXCEPT !.demo = stage], stage = "subject" => d = whole,
             Committed, UNCHANGED <<page, target, data, flags, wire, asked>>,
             whole \in db.demo => d = whole
      PROVE  IInv'
  <2>1. /\ DOMAIN new = DbFields /\ new.runs = db.runs /\ new.attempts = db.attempts
        /\ new.receipts = db.receipts /\ new.objects = db.objects /\ new.ledger = db.ledger
        /\ new.demo = {d}
    BY <1>1, <1>3 DEF DbFields
  <2>2. /\ DOMAIN drawer' = DrawerFields /\ drawer'.input = drawer.input /\ drawer'.opening = drawer.opening
        /\ drawer'.key = drawer.key /\ drawer'.demo = stage
    BY <1>1, <1>3 DEF DrawerFields
  <2>3. FormOK'
    BY <1>1, <2>2 DEF FormOK
  <2>4. ASSUME NEW c, [caseId |-> c, subject |-> TRUE] \in db.demo
        PROVE  [caseId |-> c, subject |-> TRUE] \in db'.demo
    <3>1. [caseId |-> c, subject |-> TRUE].caseId = DemoCaseId
      BY <1>1, <2>4 DEF DemoCasesAreWhole
    <3>2. [caseId |-> c, subject |-> TRUE] = whole
      BY <3>1
    <3> QED
      BY <1>3, <2>1, <2>4, <3>2
  <2>5. DemoCasesAreWhole'
    <3>1. /\ \A x \in db'.demo : x.caseId = DemoCaseId
          /\ stage = "subject" => whole \in db'.demo
      BY <1>3, <2>1
    <3> QED
      BY <1>1, <1>3, <2>1, <2>2, <2>4, <3>1 DEF DemoCasesAreWhole, HasSubject
  <2> QED
    BY <1>3, <2>1, <2>3, <2>5, HarnessCommitInv
<1>4. CASE CreateDemoCase
  <2>1. PICK new : new = [db EXCEPT !.demo = {bare}]
    OBVIOUS
  <2>2. /\ db' = new /\ Committed /\ drawer' = [drawer EXCEPT !.demo = "case"] /\ db.demo = {}
        /\ UNCHANGED <<page, target, data, flags, wire, asked>>
    BY <1>4, <2>1 DEF CreateDemoCase, Commit, Committed, Drawer
  <2>3. bare.caseId = DemoCaseId
    OBVIOUS
  <2> HIDE DEF whole, bare
  <2> QED
    BY <1>3, <2>1, <2>2, <2>3
<1>5. CASE AddDemoSubject
  <2>1. PICK new : new = [db EXCEPT !.demo = {whole}]
    OBVIOUS
  <2>2. /\ db' = new /\ Committed /\ drawer' = [drawer EXCEPT !.demo = "subject"]
        /\ UNCHANGED <<page, target, data, flags, wire, asked>>
    BY <1>5, <2>1 DEF AddDemoSubject, Commit, Committed, Drawer
  <2>3. whole.caseId = DemoCaseId
    OBVIOUS
  <2> HIDE DEF whole
  <2> QED
    BY <1>3, <2>1, <2>2, <2>3
<1> QED
  BY <1>2, <1>4, <1>5

\* The answer to a submission opens the page of the run it names, or none.
LEMMA ReceiveStartedInv ==
  ASSUME IInv, page = "harness", NEW q \in wire, ReceiveStarted(q)
  PROVE  IInv'
<1>1. /\ DOMAIN drawer = DrawerFields /\ DOMAIN drawer.input = {"text", "caseId"}
      /\ drawer.opening \in Nat /\ drawer.key \in 0 .. drawer.opening
      /\ ShapeOK /\ RunsAreKeyed /\ DemoCasesAreWhole /\ WindowsAreHistories /\ SnapshotOK(db)
  BY DEF IInv, ShapeOK, DrawerFields, WindowsAreHistories
<1>2. wire' = wire \ {q} /\ db' = db
  BY DEF ReceiveStarted
<1>3. CASE q.run = {}
  <2>1. drawer' = [drawer EXCEPT !.waiting = {}] /\ UNCHANGED <<page, target, polls, data, flags, asked>>
    BY <1>3 DEF ReceiveStarted, Drawer
  <2>2. /\ DOMAIN drawer' = DrawerFields /\ drawer'.input = drawer.input /\ drawer'.opening = drawer.opening
        /\ drawer'.key = drawer.key /\ drawer'.demo = drawer.demo
    BY <1>1, <2>1 DEF DrawerFields
  <2> QED
    BY <1>1, <1>2, <2>1, <2>2, FormInv DEF FormOK, DemoCasesAreWhole, HasSubject
<1>4. CASE q.run # {}
  <2>1. /\ page' = "run" /\ target' = The(q.run) /\ asked' = {q}
        /\ data' = {} /\ polls' = [p \in PollSlots |-> <<>>] /\ drawer' = Shut
    BY <1>4 DEF ReceiveStarted
  <2>2. RunOf(q, target')
    <3>1. target' \in q.run
      BY <1>4, <2>1, TheIsMember
    <3> QED
      BY <3>1 DEF IInv, RequestsAreAnsweredTruly
  <2>3. ShapeOK'
    <3>1. /\ DOMAIN Shut = DrawerFields /\ Shut.input = [text |-> Blank, caseId |-> {}]
          /\ Shut.opening = 0 /\ Shut.key = 0
      BY DEF Shut, DrawerFields
    <3>2. FormOK'
      BY <2>1, <3>1 DEF FormOK
    <3> QED
      BY <1>1, <1>2, <2>1, <3>2 DEF ShapeOK, FormOK, DrawerFields, RunPages
  <2>4. PagesAreApart'
    <3>1. \E r \in db.runs : r.runId = target'
      BY <2>2 DEF RunOf
    <3> QED
      BY <1>2, <2>1, <3>1 DEF PagesAreApart
  <2>5. RunsAreKeyed'
    BY <1>1, <1>2 DEF RunsAreKeyed
  <2>6. RequestsAreAnsweredTruly'
    <3>1. \A x \in wire : (x.intent # 0 => x.key = x.intent) /\ \A id \in x.run : RunOf(x, id)
      BY DEF IInv, RequestsAreAnsweredTruly
    <3> QED
      BY <1>2, <2>1, <2>2, <3>1 DEF RequestsAreAnsweredTruly, RunOf
  <2>7. DemoCasesAreWhole'
    <3>1. Shut.demo = "none" /\ Shut.input.caseId = {}
      BY DEF Shut
    <3> QED
      BY <1>1, <1>2, <2>1, <3>1 DEF DemoCasesAreWhole, HasSubject
  <2>8. WindowsAreHistories'
    <3>1. SnapshotOK(db)'
      BY <1>1, <1>2, <2>1 DEF SnapshotOK
    <3>2. ASSUME NEW p \in PollSlots
          PROVE  HistoryOf(polls[p])'
      <4>1. polls'[p] = <<>>
        BY <2>1
      <4>2. <<>> \in Seq(ToSet(<<>>)) /\ Len(<<>>) = 0
        BY DEF ToSet
      <4>3. polls'[p] \in Seq(ToSet(polls'[p]))
        BY <4>1, <4>2, Zenon
      <4>4. Len(polls'[p]) = 0
        BY <4>1, <4>2, Zenon
      <4>5. \A i \in 1 .. 0 : FALSE
        OBVIOUS
      <4> QED
        BY <4>3, <4>4, <4>5 DEF HistoryOf
    <3> QED
      BY <3>1, <3>2 DEF WindowsAreHistories
  <2>9. RunPageShown' /\ CasePagesAreGrounded'
    BY <2>1 DEF RunPageShown, CasePagesAreGrounded
  <2> QED
    BY <2>3, <2>4, <2>5, <2>6, <2>7, <2>8, <2>9 DEF IInv
<1> QED
  BY <1>3, <1>4

-----------------------------------------------------------------------------
(* Serving a submission preserves the invariant *)

LEMMA ServeStartInv ==
  ASSUME IInv, NEW q \in wire, NEW instant \in 1 .. 2, ServeStart(q, instant)
  PROVE  IInv'
<1> DEFINE key == IF q.key = 0 THEN -instant ELSE q.key
           same == {r \in db.runs : r.idempotencyKey = key}
           id == Cardinality(db.runs) + 1
           fresh == NewRun(id, key, q.planDigest, q.input, q.intent)
           started == createRun(db, key, q.planDigest, q.input, q.intent)
           answered == [q EXCEPT !.served = TRUE, !.run = started.run]
<1>1. /\ ShapeOK /\ PagesAreApart /\ RunsAreKeyed /\ RequestsAreAnsweredTruly /\ DemoCasesAreWhole
      /\ WindowsAreHistories /\ RunPageShown /\ CasePagesAreGrounded
      /\ SnapshotOK(db) /\ DOMAIN db = DbFields /\ db.ledger \in Seq(Entries)
  BY DEF IInv, ShapeOK, WindowsAreHistories, SnapshotOK
<1>2. /\ IF started.runs = db.runs THEN UNCHANGED <<db, polls>> ELSE Commit([db EXCEPT !.runs = started.runs])
      /\ wire' = (wire \ {q}) \cup {answered}
      /\ UNCHANGED <<page, target, data, flags, drawer, asked>>
  BY DEF ServeStart
<1>3. /\ page # "case" /\ ~(page \in RunPages /\ asked = {})
  BY <1>1 DEF PagesAreApart, RunPages
<1>4. /\ DOMAIN q = RequestFields /\ q.key \in Nat /\ q.intent \in Nat
      /\ q.intent # 0 => q.key = q.intent
      /\ HasSubject(q.input)
  BY <1>1 DEF ShapeOK, RequestsAreAnsweredTruly, DemoCasesAreWhole, RequestFields
<1>5. /\ IsFiniteSet(db.runs) /\ Cardinality(db.runs) \in Nat /\ id \in Nat
      /\ \A r \in db.runs : r.runId \in 1 .. Cardinality(db.runs) /\ r.runId # id
  BY <1>1, FS_CardinalityType DEF RunsAreKeyed
<1>6. /\ DOMAIN answered = RequestFields /\ answered.run = started.run
      /\ answered.key = q.key /\ answered.intent = q.intent
      /\ answered.planDigest = q.planDigest /\ answered.input = q.input
  <2> HIDE DEF started
  <2> QED
    BY <1>4 DEF RequestFields
<1>7. /\ DOMAIN fresh = RunFields /\ fresh.runId = id /\ fresh.idempotencyKey = key
      /\ fresh.planDigest = q.planDigest /\ fresh.input = q.input /\ fresh.intent = q.intent
      /\ fresh.attempt = 0 /\ fresh.status = "queued"
  BY DEF NewRun, RunFields
<1>8. fresh.intent # 0 => fresh.idempotencyKey = fresh.intent
  BY <1>4, <1>7
<1>9. /\ same = {} => started.runs = db.runs \cup {fresh} /\ started.run = {id}
      /\ same # {} => /\ started.runs = db.runs
                      /\ started.run = {r.runId : r \in {x \in same : x.planDigest = q.planDigest /\ x.input = q.input}}
  <2> HIDE DEF key
  <2> QED
    BY DEF createRun
<1> HIDE DEF started, answered, fresh, key
<1>10. /\ DOMAIN db' = DbFields /\ db'.runs = started.runs
       /\ db'.plans = db.plans /\ db'.attempts = db.attempts /\ db'.receipts = db.receipts
       /\ db'.objects = db.objects /\ db'.ledger = db.ledger /\ db'.demo = db.demo
  <2>1. CASE started.runs = db.runs
    <3>1. db' = db
      BY <1>2, <2>1
    <3> QED
      BY <1>1, <2>1, <3>1
  <2>2. CASE started.runs # db.runs
    <3>1. db' = [db EXCEPT !.runs = started.runs]
      BY <1>2, <2>2 DEF Commit
    <3> QED
      BY <1>1, <3>1 DEF DbFields
  <2> QED
    BY <2>1, <2>2
<1>11. db'.runs = IF same = {} THEN db.runs \cup {fresh} ELSE db.runs
  BY <1>9, <1>10
<1>12. RunsAreKeyed'
  <2>1. CASE same # {}
    BY <1>1, <1>11, <2>1 DEF RunsAreKeyed
  <2>2. CASE same = {}
    <3>1. db'.runs = db.runs \cup {fresh} /\ fresh \notin db.runs
      BY <1>5, <1>7, <1>11, <2>2
    <3>2. IsFiniteSet(db'.runs) /\ Cardinality(db'.runs) = id
      BY <1>5, <3>1, FS_AddElement
    <3>3. 0 \in 0 .. MaxAttempt
      BY SurfaceAssumption
    <3>4. \A r \in db.runs : r.idempotencyKey # fresh.idempotencyKey /\ r.runId # fresh.runId
      BY <1>5, <1>7, <2>2
    <3>5. ASSUME NEW u \in db'.runs
          PROVE  /\ DOMAIN u = RunFields
                 /\ u.runId \in 1 .. Cardinality(db'.runs)
                 /\ u.attempt \in 0 .. MaxAttempt
                 /\ u.intent # 0 => u.idempotencyKey = u.intent
      <4>1. CASE u = fresh
        BY <1>5, <1>7, <1>8, <3>2, <3>3, <4>1
      <4>2. CASE u \in db.runs
        BY <1>1, <1>5, <3>2, <4>2 DEF RunsAreKeyed
      <4> QED
        BY <3>1, <4>1, <4>2
    <3>6. ASSUME NEW u \in db'.runs, NEW t \in db'.runs,
                 u.runId = t.runId \/ u.idempotencyKey = t.idempotencyKey
          PROVE  u = t
      <4>1. CASE u \in db.runs /\ t \in db.runs
        BY <1>1, <3>6, <4>1 DEF RunsAreKeyed
      <4>2. CASE ~(u \in db.runs /\ t \in db.runs)
        BY <3>1, <3>4, <3>6, <4>2
      <4> QED
        BY <4>1, <4>2
    <3> QED
      BY <3>2, <3>5, <3>6 DEF RunsAreKeyed
  <2> QED
    BY <2>1, <2>2
<1>13. db.runs \subseteq db'.runs
  BY <1>11
<1>14. \A i \in answered.run : \E r \in db'.runs : r.runId = i /\ r.planDigest = q.planDigest /\ r.input = q.input
  <2>1. CASE same = {}
    BY <1>6, <1>7, <1>9, <1>11, <2>1
  <2>2. CASE same # {}
    BY <1>6, <1>9, <1>13, <2>2
  <2> QED
    BY <2>1, <2>2
<1>15. RequestsAreAnsweredTruly'
  <2>1. ASSUME NEW x, NEW i, RunOf(x, i)
        PROVE  \E r \in db'.runs : r.runId = i /\ r.planDigest = x.planDigest /\ r.input = x.input
    BY <1>13, <2>1 DEF RunOf
  <2>2. \A x \in asked : \E r \in db'.runs : r.runId = target /\ r.planDigest = x.planDigest /\ r.input = x.input
    BY <1>1, <2>1 DEF RequestsAreAnsweredTruly
  <2>3. ASSUME NEW x \in wire'
        PROVE  /\ x.intent # 0 => x.key = x.intent
               /\ \A i \in x.run : \E r \in db'.runs : r.runId = i /\ r.planDigest = x.planDigest /\ r.input = x.input
    <3>1. CASE x \in wire
      BY <1>1, <2>1, <3>1 DEF RequestsAreAnsweredTruly
    <3>2. CASE x = answered
      BY <1>4, <1>6, <1>14, <3>2
    <3> QED
      BY <1>2, <3>1, <3>2
  <2> QED
    BY <1>2, <2>2, <2>3 DEF RequestsAreAnsweredTruly, RunOf
<1>16. DemoCasesAreWhole'
  <2>1. \A x \in wire' : x \in wire \/ x.input = q.input
    BY <1>2, <1>6
  <2>2. \A r \in db'.runs : r \in db.runs \/ r.input = q.input
    BY <1>7, <1>11
  <2> QED
    BY <1>1, <1>2, <1>4, <1>10, <2>1, <2>2 DEF DemoCasesAreWhole, HasSubject
<1>17. WindowsAreHistories' /\ DOMAIN polls' = PollSlots
  <2>1. CASE started.runs = db.runs
    BY <1>1, <1>2, <2>1, PollSame DEF ShapeOK
  <2>2. CASE started.runs # db.runs
    <3>1. Committed
      BY <1>2, <2>2 DEF Commit, Committed
    <3>2. SnapshotOK(db)'
      <4>1. SnapshotOK(db)
        BY <1>1
      <4> QED
        BY <1>2, <1>3, <1>10, <4>1 DEF SnapshotOK
    <3>3. Before(db, db')
      <4>1. Len(db.ledger) \in Nat
        BY <1>1
      <4> QED
        BY <1>10, <1>13, <4>1 DEF Before, KeepsRuns, KeepsAttempts, KeepsFinished
    <3> QED
      BY <1>1, <1>2, <3>1, <3>2, <3>3, CommitKeepsHistories DEF ShapeOK
  <2> QED
    BY <2>1, <2>2
<1>18. ShapeOK'
  BY <1>1, <1>2, <1>4, <1>6, <1>10, <1>17 DEF ShapeOK, RequestFields
<1>19. PagesAreApart'
  <2>1. asked # {} => \A p \in PollSlots : polls'[p] = <<>>
    <3> SUFFICES ASSUME asked # {} PROVE \A p \in PollSlots : polls'[p] = <<>>
      OBVIOUS
    <3>1. \A p \in PollSlots : polls[p] = <<>>
      BY <1>1 DEF PagesAreApart
    <3> QED
      BY <1>2, <3>1 DEF Commit
  <2>2. page # "harness" => asked # {}
    BY <1>1 DEF PagesAreApart
  <2> QED
    BY <1>1, <1>2, <1>3, <1>13, <2>1, <2>2 DEF PagesAreApart, RunPages
<1>20. RunPageShown' /\ CasePagesAreGrounded'
  <2>1. page = "run" => data = {}
    BY <1>1, <1>3 DEF PagesAreApart, RunPages
  <2> QED
    BY <1>2, <1>3, <2>1 DEF RunPageShown, CasePagesAreGrounded
<1> QED
  BY <1>12, <1>15, <1>16, <1>17, <1>18, <1>19, <1>20 DEF IInv

-----------------------------------------------------------------------------
(* The invariant is inductive *)

\* The inductive invariant holds initially,
LEMMA InvInit == Init => IInv
<1> SUFFICES ASSUME Init PROVE IInv
  OBVIOUS
<1>1. /\ polls = [p \in PollSlots |-> <<>>] /\ data = {} /\ drawer = Shut /\ wire = {} /\ asked = {}
  BY DEF Init
<1>2. PICK s : s = EmptyDb
  OBVIOUS
<1>3. /\ DOMAIN s = DbFields /\ s.runs = {} /\ s.attempts = {} /\ s.receipts = {}
      /\ s.objects = {} /\ s.ledger = <<>> /\ s.demo = {}
  BY <1>2 DEF EmptyDb, DbFields
<1>4. /\ DOMAIN db = DbFields /\ db.attempts = {} /\ db.receipts = {} /\ db.objects = {} /\ db.demo = {}
      /\ \/ /\ page = "harness" /\ db.runs = {} /\ db.ledger = <<>>
         \/ /\ page \in RunPages /\ target = 1 /\ db.ledger = <<>>
            /\ \E plan \in RunPlans : /\ db.plans = <<plan>>
                                      /\ db.runs = {NewRun(1, -1, plan.planDigest, Shut.input, 0)}
         \/ /\ page = "case" /\ db.runs = {}
            /\ db.cases = {[caseId |-> "case", status |-> "DRAFT", caseSequence |-> 1]}
            /\ db.ledger = <<[caseSequence |-> 1, id |-> "case"]>>
  <2>1. CASE page = "harness" /\ db = [s EXCEPT !.plans = <<FirstPlan>>]
    BY <1>3, <2>1 DEF DbFields
  <2>2. CASE /\ page \in RunPages /\ target = 1
             /\ \E plan \in RunPlans :
                  db = [s EXCEPT !.plans = <<plan>>, !.runs = {NewRun(1, -1, plan.planDigest, Shut.input, 0)}]
    <3>1. PICK plan \in RunPlans :
                  db = [s EXCEPT !.plans = <<plan>>, !.runs = {NewRun(1, -1, plan.planDigest, Shut.input, 0)}]
      BY <2>2
    <3>2. PICK runs : runs = {NewRun(1, -1, plan.planDigest, Shut.input, 0)}
      OBVIOUS
    <3>3. db = [s EXCEPT !.plans = <<plan>>, !.runs = runs]
      BY <3>1, <3>2
    <3>4. /\ DOMAIN db = DbFields /\ db.plans = <<plan>> /\ db.runs = runs /\ db.attempts = {} /\ db.receipts = {}
          /\ db.objects = {} /\ db.demo = {} /\ db.ledger = <<>>
      BY <1>3, <3>3 DEF DbFields
    <3> QED
      BY <2>2, <3>2, <3>4
  <2>3. CASE /\ page = "case"
             /\ db = [s EXCEPT !.cases = {[caseId |-> "case", status |-> "DRAFT", caseSequence |-> 1]},
                               !.ledger = <<[caseSequence |-> 1, id |-> "case"]>>]
    BY <1>3, <2>3 DEF DbFields
  <2> QED
    BY <1>2, <2>1, <2>2, <2>3 DEF Init, RunPages
<1>5. ShapeOK
  <2>1. /\ DOMAIN Shut = DrawerFields /\ Shut.input = [text |-> Blank, caseId |-> {}]
        /\ Shut.opening = 0 /\ Shut.key = 0
    BY DEF Shut, DrawerFields
  <2>2. DOMAIN Shut.input = {"text", "caseId"} /\ Shut.opening \in Nat /\ Shut.key \in 0 .. Shut.opening
    BY <2>1
  <2>3. page \in {"harness", "case"} \cup RunPages /\ DOMAIN polls = PollSlots
    BY <1>1, <1>4
  <2> QED
    BY <1>1, <1>4, <2>1, <2>2, <2>3 DEF ShapeOK, DrawerFields
<1>6. PICK plan : db.runs # {} => /\ page \in RunPages /\ target = 1
                                   /\ plan \in RunPlans /\ db.plans = <<plan>>
                                   /\ db.runs = {NewRun(1, -1, plan.planDigest, Shut.input, 0)}
  <2>1. CASE db.runs = {}
    BY <2>1
  <2>2. CASE db.runs # {}
    BY <1>4, <2>2
  <2> QED
    BY <2>1, <2>2
<1>7. PICK run : run = NewRun(1, -1, plan.planDigest, Shut.input, 0)
  OBVIOUS
<1>8. /\ DOMAIN run = RunFields /\ run.runId = 1 /\ run.planDigest = plan.planDigest
      /\ run.input.caseId = {} /\ run.intent = 0 /\ run.attempt = 0
  BY <1>7 DEF NewRun, RunFields, Shut
<1>9. PagesAreApart
  <2>1. page \in RunPages => db.runs # {} /\ db.runs = {run} /\ plan \in RunPlans /\ db.plans = <<plan>> /\ target = 1
    BY <1>4, <1>6, <1>7 DEF RunPages
  <2> QED
    BY <1>1, <1>8, <2>1 DEF PagesAreApart
<1>10. RunsAreKeyed
  <2>1. IsFiniteSet({}) /\ Cardinality({}) = 0
    BY FS_EmptySet
  <2>2. IsFiniteSet({run}) /\ Cardinality({run}) = 1
    BY FS_Singleton
  <2>3. 0 \in 0 .. MaxAttempt
    BY SurfaceAssumption
  <2>4. CASE db.runs = {}
    BY <2>1, <2>4 DEF RunsAreKeyed
  <2>5. CASE db.runs # {}
    <3>1. db.runs = {run} /\ 1 .. 1 = {1}
      BY <1>6, <1>7, <2>5
    <3>2. IsFiniteSet(db.runs) /\ Cardinality(db.runs) = 1
      BY <2>2, <3>1
    <3> QED
      BY <1>8, <2>3, <3>1, <3>2 DEF RunsAreKeyed
  <2> QED
    BY <2>4, <2>5
<1>11. RequestsAreAnsweredTruly
  BY <1>1 DEF RequestsAreAnsweredTruly
<1>12. DemoCasesAreWhole
  <2>1. Shut.input.caseId = {} /\ Shut.demo = "none"
    BY DEF Shut
  <2> QED
    BY <1>1, <1>4, <1>6, <1>7, <1>8, <2>1 DEF DemoCasesAreWhole, HasSubject
<1>13. SnapshotOK(db)
  <2>1. IsFiniteSet(db.receipts)
    BY <1>4, FS_EmptySet
  <2>2. /\ db.ledger \in Seq(Entries) /\ Len(db.ledger) <= 1
        /\ \A i \in 1 .. Len(db.ledger) : db.ledger[i].caseSequence = i
    <3>1. CASE db.ledger = <<>>
      <4>1. Len(<<>>) = 0 /\ \A i \in 1 .. 0 : FALSE
        OBVIOUS
      <4> QED
        BY <3>1, <4>1
    <3>2. CASE db.ledger = <<[caseSequence |-> 1, id |-> "case"]>>
      <4>1. PICK e : e = [caseSequence |-> 1, id |-> "case"]
        OBVIOUS
      <4>2. e \in Entries /\ e.caseSequence = 1
        BY <4>1 DEF Entries
      <4>3. db.ledger = <<e>>
        BY <3>2, <4>1
      <4> QED
        BY <4>2, <4>3
    <3> QED
      BY <1>4, <3>1, <3>2
  <2>3. page = "case" => CaseRowOK(db)
    <3> SUFFICES ASSUME page = "case" PROVE CaseRowOK(db)
      OBVIOUS
    <3>1. PICK c : c = [caseId |-> "case", status |-> "DRAFT", caseSequence |-> 1]
      OBVIOUS
    <3>2. /\ DOMAIN c = {"caseId", "status", "caseSequence"} /\ c.caseSequence = 1
          /\ db.cases = {c} /\ Len(db.ledger) = 1
      BY <1>4, <3>1 DEF RunPages
    <3> QED
      BY <3>2 DEF CaseRowOK
  <2> QED
    BY <1>4, <2>1, <2>2, <2>3 DEF SnapshotOK
<1>14. WindowsAreHistories
  <2>1. ASSUME NEW p \in PollSlots
        PROVE  HistoryOf(polls[p])
    <3>1. polls[p] = <<>>
      BY <1>1
    <3>2. <<>> \in Seq(ToSet(<<>>)) /\ Len(<<>>) = 0
      BY DEF ToSet
    <3>3. polls[p] \in Seq(ToSet(polls[p]))
      BY <3>1, <3>2, Zenon
    <3>4. Len(polls[p]) = 0
      BY <3>1, <3>2, Zenon
    <3>5. \A i \in 1 .. 0 : FALSE
      OBVIOUS
    <3> QED
      BY <3>3, <3>4, <3>5 DEF HistoryOf
  <2> QED
    BY <1>13, <2>1 DEF WindowsAreHistories
<1>15. RunPageShown /\ CasePagesAreGrounded
  BY <1>1 DEF RunPageShown, CasePagesAreGrounded
<1> QED
  BY <1>5, <1>9, <1>10, <1>11, <1>12, <1>14, <1>15 DEF IInv

\* and every step preserves it.
LEMMA InvStep == IInv /\ [Next]_vars => IInv'
<1> SUFFICES ASSUME IInv, [Next]_vars PROVE IInv'
  OBVIOUS
<1>1. CASE WorkerStep
  BY <1>1, WorkerStepInv
<1>2. CASE CaseCommand
  BY <1>2, CaseCommandInv
<1>3. ASSUME NEW p \in PollSlots, NEW manual \in BOOLEAN, StartPoll(p, manual)
      PROVE  IInv'
  BY <1>3, StartPollInv
<1>4. ASSUME NEW p \in PollSlots, AnswerPoll(p)
      PROVE  IInv'
  BY <1>4, AnswerPollInv
<1>5. ASSUME NEW p \in PollSlots, PollFails(p)
      PROVE  IInv'
  BY <1>5, PollFailsInv
<1>6. CASE page = "harness" /\ DrawerStep
  <2>1. CASE (\E doc \in Documents : AdmitPlan(doc)) \/ CreateDemoCase \/ AddDemoSubject
    BY <1>6, <2>1, HarnessWritesInv
  <2>2. CASE \E q \in wire : ReceiveStarted(q)
    BY <1>6, <2>2, ReceiveStartedInv
  <2>3. CASE \/ \E digest \in Listed : OpenDrawer(digest)
             \/ CloseDrawer
             \/ \E text \in Inputs : EditInput(text)
             \/ \E key \in 0 .. drawer.opening : EditKey(key)
             \/ Submit \/ SubmissionFails \/ DemoCaseReady \/ DemoCaseFails
    BY <1>6, <2>3, DrawerFormInv
  <2> QED
    BY <1>6, <2>1, <2>2, <2>3 DEF DrawerStep
<1>7. ASSUME NEW q \in wire, NEW instant \in 1 .. 2, ServeStart(q, instant)
      PROVE  IInv'
  BY <1>7, ServeStartInv
<1>8. CASE UNCHANGED vars
  <2>1. UNCHANGED <<page, target, db, polls, data, flags, drawer, wire, asked>>
    BY <1>8 DEF vars
  <2>2. WindowsAreHistories'
    BY <2>1, PollSame DEF IInv
  <2>3. ShapeOK' /\ PagesAreApart' /\ RunsAreKeyed'
    BY <2>1 DEF IInv, ShapeOK, PagesAreApart, RunsAreKeyed
  <2>4. RequestsAreAnsweredTruly' /\ DemoCasesAreWhole'
    BY <2>1 DEF IInv, RequestsAreAnsweredTruly, RunOf, DemoCasesAreWhole, HasSubject
  <2>5. RunPageShown' /\ CasePagesAreGrounded'
    BY <2>1 DEF IInv, RunPageShown, RunShown, CasePagesAreGrounded
  <2> QED
    BY <2>2, <2>3, <2>4, <2>5 DEF IInv
<1> QED
  BY <1>1, <1>2, <1>3, <1>4, <1>5, <1>6, <1>7, <1>8 DEF Next

-----------------------------------------------------------------------------
(* Theorems *)

\* The inductive invariant holds throughout: every poll's window is a history of
\* sound states of the databases, identifiers and keys are those of one run, and
\* requests and pages say no more than the databases did.
THEOREM Invariance == Spec => []IInv
BY InvInit, InvStep, PTL DEF Spec

\* Submissions that fail, are repeated, edited or served late start at most one run
\* per opening of the drawer under its key; the run page opened is the one asked
\* for; a run about a demo case is about one that has its subject.
THEOREM OneIntentOneRun == Spec => []SubmissionsStartOneRun
<1>1. IInv => SubmissionsStartOneRun
  <2> SUFFICES ASSUME IInv PROVE SubmissionsStartOneRun
    OBVIOUS
  <2>1. \A r \in db.runs, t \in db.runs : r.intent = t.intent /\ r.intent # 0 => r.runId = t.runId
    BY DEF IInv, RunsAreKeyed
  <2>2. ASSUME NEW q \in asked
        PROVE  TheRun.planDigest = q.planDigest /\ TheRun.input = q.input
    <3>1. PICK r \in db.runs : r.runId = target /\ r.planDigest = q.planDigest /\ r.input = q.input
      BY DEF IInv, RequestsAreAnsweredTruly, RunOf
    <3>2. TheRun \in db.runs /\ TheRun.runId = target
      <4>1. getRun(db, target) # {}
        BY <3>1 DEF getRun
      <4> QED
        BY <4>1, TheIsMember DEF TheRun, getRun
    <3>3. TheRun = r
      BY <3>1, <3>2 DEF IInv, RunsAreKeyed
    <3> QED
      BY <3>1, <3>3
  <2>3. \A r \in db.runs : \A c \in r.input.caseId : [caseId |-> c, subject |-> TRUE] \in db.demo
    BY DEF IInv, DemoCasesAreWhole, HasSubject
  <2> QED
    BY <2>1, <2>2, <2>3 DEF SubmissionsStartOneRun
<1> QED
  BY <1>1, Invariance, PTL

\* A run page assembled from reads of any moments of its request, by polls that may
\* overtake each other: its final status is the run's, its finished nodes were finished
\* and its external effect was reserved within the request; what had begun or had been
\* done before the request is missing only with a read that failed or was cut off.
THEOREM RunPagesAreTrue == Spec => []RunPagesInventNothing
<1>1. IInv => RunPagesInventNothing
  <2> SUFFICES ASSUME IInv, page = "run", NEW d \in data
               PROVE  /\ d.view.summary.status \in Terminal => d.view.summary.status = TheRun.status
                      /\ \A n \in DOMAIN d.view.nodes :
                           /\ d.view.nodes[n].state \in {"completed", "failed"}
                                => d.view.nodes[n].state \in d.window.nodes[n].latest
                           /\ d.view.nodes[n].state = "not_reached" /\ d.window.nodes[n].begun
                                => "attempts" \in d.lost
                      /\ \A f \in d.view.failure :
                           /\ f.externalEffectOccurred => d.window.reserved
                           /\ ~f.externalEffectOccurred /\ d.window.finished => "receipts" \in d.lost \/ d.window.cut
    BY DEF RunPagesInventNothing
  <2>1. RunShown(d)
    BY DEF IInv, RunPageShown
  <2>2. ASSUME d.view.summary.status \in Terminal
        PROVE  d.view.summary.status = TheRun.status
    <3>1. PICK r \in db.runs : r.runId = target /\ r.status = d.view.summary.status
      BY <2>1, <2>2 DEF RunShown
    <3>2. TheRun \in db.runs /\ TheRun.runId = target
      <4>1. getRun(db, target) # {}
        BY <3>1 DEF getRun
      <4> QED
        BY <4>1, TheIsMember DEF TheRun, getRun
    <3>3. TheRun = r
      BY <3>1, <3>2 DEF IInv, RunsAreKeyed
    <3> QED
      BY <3>1, <3>3
  <2> QED
    BY <2>1, <2>2 DEF RunShown
<1> QED
  BY <1>1, Invariance, PTL

\* A case page assembled from the statements of getCaseView, each of its own moment,
\* and the events asked for afterwards, lacks no entry for an object it shows among
\* the EventLimit entries that one answer lists, however long the case is.
THEOREM CasePagesStand == Spec => []CasePagesAreGrounded
<1>1. IInv => CasePagesAreGrounded
  BY DEF IInv
<1> QED
  BY <1>1, Invariance, PTL
=============================================================================
