-------------------------- MODULE Authoring_proofs --------------------------
(***************************************************************************)
(* Proofs about the author plane, for any number of handlers and requests  *)
(* and any registries: what publication admits, what an edit replaces, who *)
(* may approve, whom the audit trail names, what an import leaves, and     *)
(* that what a plan refers to is in it.                                    *)
(***************************************************************************)
EXTENDS Authoring, FiniteOrders

-----------------------------------------------------------------------------
(* The inductive invariant.  What a handler holds is stated of its record   *)
(* and the parts of the state it depends on, as a constant operator.        *)

Fields == {"pc", "op", "actor", "person", "expected", "arg", "bundle", "todo", "seen", "base",
           "plan", "event", "next", "before"}

Tables == {"draft", "agents", "skills", "capabilities"}

Routes == Edits \cup {"create", "compile", "evaluate", "approve", "publish", "import"}

\* The events an operation may still have to insert.
EventsOf(op) ==
  CASE op = "create"   -> {"draft.created"}
    [] op \in Edits    -> {"draft.updated"}
    [] op = "compile"  -> {"draft.updated", "draft.compiled"}
    [] op = "evaluate" -> {"draft.evaluated"}
    [] op = "approve"  -> {"draft.approved"}
    [] op = "publish"  -> {"draft.published"}
    [] OTHER           -> {}

\* The operations that come to a statement.
Visits(pc) ==
  CASE pc = "insert"       -> {"create"}
    [] pc = "read"         -> {"attach", "caseWrites", "compile", "evaluate", "publish"}
    [] pc = "update"       -> Edits \cup {"compile"}
    [] pc = "admit"        -> {"publish"}
    [] pc = "contributors" -> {"approve", "publish"}
    [] pc = "lifecycle"    -> {"compile", "evaluate", "approve", "publish"}
    [] pc = "event"        -> Routes \ {"import"}
    [] pc = "import"       -> {"import"}
    [] OTHER               -> {}

Flow(l) ==
  /\ l.op \in Visits(l.pc)
  /\ l.pc = "event" => l.event \in EventsOf(l.op)

\* A handler that decides on a draft has read one; publish reads nothing else.
Reads(l) ==
  l.pc = "read" =>
    /\ DOMAIN l.seen = Tables
    /\ l.seen["draft"] = {} => "draft" \in l.todo
    /\ l.op = "publish" => l.todo = {"draft"}

\* Whoever was answered before this handler began is among the contributors it
\* reads, and after that check its actor is none of them.
Duties(l, authors) ==
  /\ l.before \subseteq authors
  /\ l.pc = "lifecycle" /\ l.op \in {"approve", "publish"} => l.actor \notin l.before

\* What publish is about to admit was approved.
Admissible(l, approved) == l.pc = "admit" => l.plan \subseteq approved

\* A draft a handler has read is the row of its revision, and the sources an
\* edit was computed from are those of the revision it expects.
Based(l, r) ==
  /\ l.expected \in Nat /\ l.expected <= r.revision
  /\ l.op \notin {"create", "import"} => r.revision > 0
  /\ l.pc = "read" => \A d \in l.seen["draft"] :
       /\ d.revision \in Nat /\ l.expected <= d.revision /\ d.revision <= r.revision
       /\ d.revision = r.revision => d.sources = r.sources
  /\ l.pc = "update" /\ l.op # "update" /\ l.expected = r.revision => l.base = {r.sources}

\* The skills of an agent being imported are registered or still to come.
Supplied(l, skillIds) ==
  l.pc = "import" =>
    /\ {"agent", "skills"} \subseteq DOMAIN l.bundle
    /\ l.bundle.agent.skillIds \subseteq skillIds \cup {k.id : k \in l.bundle.skills}

Consistent(l, r, authors, approved, skillIds) ==
  \/ l = Idle
  \/ /\ DOMAIN l = Fields
     /\ Flow(l)
     /\ Reads(l)
     /\ Duties(l, authors)
     /\ Admissible(l, approved)
     /\ Based(l, r)
     /\ Supplied(l, skillIds)

HandlersAreConsistent ==
  \A h \in Handlers :
    Consistent(local[h], row, authoringContributors, approvedPlans, DOMAIN registry.skills)

\* There is no row before revision 1, and an approved row holds a plan that is
\* on record as approved.
RowIsConsistent ==
  /\ DOMAIN row = DOMAIN NoRow
  /\ row.revision \in Nat
  /\ row.revision = 0 => row = NoRow
  /\ row.status = "APPROVED" => row.plan \subseteq approvedPlans

\* One handler at most is about to insert the draft, and nobody has.
InsertComesFirst ==
  \A h \in Handlers : local[h].pc = "insert" =>
    row = NoRow /\ \A g \in Handlers : local[g].pc = "insert" => g = h

RegistryShape == DOMAIN registry = {"agents", "skills", "capabilities"}

IInv ==
  /\ DOMAIN local = Handlers
  /\ HandlersAreConsistent
  /\ RowIsConsistent
  /\ InsertComesFirst
  /\ RegistryShape
  /\ acknowledged \subseteq authoringContributors
  /\ OnlyApprovedPlansAreAdmitted
  /\ ImportedAgentsAreComplete

-----------------------------------------------------------------------------
(* Lemmas about records and requests *)

\* An authorized request is one of the requests, with its route, for the
\* principal the guard resolved.
LEMMA RequestFacts ==
  ASSUME NEW q \in AuthorizedRequests
  PROVE  /\ q.op \in Routes
         /\ \E s \in Requests : /\ q.person = s.person /\ q.op = s.op
                                /\ \E p \in requirePrincipal(s, PlatformAction(s.op)) :
                                     q.actor = p.subject
<1>1. PICK s \in Requests : \E p \in requirePrincipal(s, PlatformAction(s.op)) :
        q = [op |-> s.op, arg |-> s.arg, person |-> s.person, actor |-> p.subject]
  BY DEF AuthorizedRequests
<1>2. s.op \in Routes
  BY RequestAssumption DEF Routes, Edits
<1> QED
  BY <1>1, <1>2

\* A handler that works on something has all its fields.
LEMMA BusyFields ==
  ASSUME NEW l, NEW r, NEW a, NEW p, NEW s, Consistent(l, r, a, p, s), l.pc # "idle"
  PROVE  /\ DOMAIN l = Fields
         /\ Flow(l) /\ Reads(l) /\ Duties(l, a) /\ Admissible(l, p) /\ Based(l, r)
         /\ Supplied(l, s)
  BY DEF Consistent, Idle

\* What a handler holds stays true while others work: contributors, approved
\* plans and skills only grow, and the row keeps its sources or its revision
\* grows.
LEMMA Monotone ==
  ASSUME NEW l, NEW r, NEW r2, NEW a, NEW a2, NEW p, NEW p2, NEW s, NEW s2,
         Consistent(l, r, a, p, s),
         a \subseteq a2, p \subseteq p2, s \subseteq s2,
         r.revision \in Nat, r2.revision \in Nat,
         r2.revision > r.revision \/ (r2.revision = r.revision /\ r2.sources = r.sources)
  PROVE  Consistent(l, r2, a2, p2, s2)
<1>1. CASE l = Idle
  BY <1>1 DEF Consistent
<1>2. CASE l # Idle
  <2>1. /\ DOMAIN l = Fields
        /\ Flow(l) /\ Reads(l) /\ Duties(l, a) /\ Admissible(l, p) /\ Based(l, r)
        /\ Supplied(l, s)
    BY <1>2 DEF Consistent
  <2>2. Duties(l, a2)
    BY <2>1 DEF Duties
  <2>3. Admissible(l, p2)
    BY <2>1 DEF Admissible
  <2>4. Based(l, r2)
    BY <2>1 DEF Based
  <2>5. Supplied(l, s2)
    BY <2>1 DEF Supplied
  <2> QED
    BY <2>1, <2>2, <2>3, <2>4, <2>5 DEF Consistent
<1> QED
  BY <1>1, <1>2

\* Contributors are read from events, and events are only inserted.
LEMMA ContributorsGrow ==
  ASSUME events \subseteq events'
  PROVE  authoringContributors \subseteq authoringContributors'
  BY DEF authoringContributors

\* One handler moves, the others stay: what is left to show is its own record.
LEMMA OneMoves ==
  ASSUME IInv, NEW h \in Handlers, NEW m, local' = [local EXCEPT ![h] = m],
         events \subseteq events', approvedPlans \subseteq approvedPlans',
         DOMAIN registry.skills \subseteq DOMAIN registry'.skills,
         row'.revision \in Nat,
         row'.revision > row.revision \/ (row'.revision = row.revision /\ row'.sources = row.sources),
         Consistent(m, row', authoringContributors', approvedPlans', DOMAIN registry'.skills)
  PROVE  DOMAIN local' = Handlers /\ HandlersAreConsistent'
<1>1. DOMAIN local' = Handlers
  BY DEF IInv
<1>2. ASSUME NEW g \in Handlers
      PROVE  Consistent(local'[g], row', authoringContributors', approvedPlans',
                        DOMAIN registry'.skills)
  <2>1. CASE g = h
    BY <2>1 DEF IInv
  <2>2. CASE g # h
    <3>1. local'[g] = local[g]
      BY <2>2 DEF IInv
    <3>2. Consistent(local[g], row, authoringContributors, approvedPlans, DOMAIN registry.skills)
      BY DEF IInv, HandlersAreConsistent
    <3>3. row.revision \in Nat
      BY DEF IInv, RowIsConsistent
    <3> QED
      BY <3>1, <3>2, <3>3, Monotone, ContributorsGrow
  <2> QED
    BY <2>1, <2>2
<1> QED
  BY <1>1, <1>2 DEF HandlersAreConsistent

\* A handler moves on without touching row, registries or approvals.
LEMMA QuietMove ==
  ASSUME IInv, NEW h \in Handlers, NEW m, local' = [local EXCEPT ![h] = m], m.pc # "insert",
         UNCHANGED <<row, registry, approvedPlans>>, events \subseteq events',
         acknowledged' \subseteq authoringContributors', plans' \subseteq approvedPlans,
         Consistent(m, row, authoringContributors', approvedPlans, DOMAIN registry.skills)
  PROVE  IInv'
<1>1. DOMAIN local' = Handlers /\ HandlersAreConsistent'
  BY OneMoves DEF IInv, RowIsConsistent
<1>2. RowIsConsistent' /\ RegistryShape'
  BY DEF IInv, RowIsConsistent, RegistryShape
<1>3. InsertComesFirst'
  <2>1. \A g \in Handlers : local'[g].pc = "insert" => local[g].pc = "insert"
    BY DEF IInv
  <2> QED
    BY <2>1 DEF IInv, InsertComesFirst
<1>4. OnlyApprovedPlansAreAdmitted' /\ ImportedAgentsAreComplete'
  BY DEF IInv, OnlyApprovedPlansAreAdmitted, ImportedAgentsAreComplete
<1> QED
  BY <1>1, <1>2, <1>3, <1>4 DEF IInv

LEMMA IdleConsistent ==
  ASSUME NEW r, NEW a, NEW p, NEW s
  PROVE  Consistent(Idle, r, a, p, s) /\ Idle.pc # "insert"
  BY DEF Consistent, Idle

\* What setting fields of a handler's record does to it.
LEMMA DecidedFields ==
  ASSUME NEW l, DOMAIN l = Fields, NEW pc, NEW base, NEW next, NEW plan
  PROVE  LET m == Decided(l, pc, base, next, plan)
         IN /\ DOMAIN m = Fields
            /\ m.pc = pc /\ m.base = base /\ m.plan = plan
            /\ m.op = l.op /\ m.actor = l.actor /\ m.person = l.person
            /\ m.before = l.before /\ m.expected = l.expected
  BY DEF Decided, Fields

\* The steps at which a handler that has decided goes on.
LEMMA DecidedConsistent ==
  ASSUME NEW l, NEW r, NEW a, NEW p, NEW s, NEW pc \in {"update", "lifecycle", "admit"},
         NEW base, NEW next, NEW plan, NEW m,
         DOMAIN l = Fields, Flow(l), Duties(l, a), Based(l, r),
         m = Decided(l, pc, base, next, plan),
         l.op \in Visits(pc),
         pc = "lifecycle" => l.op \notin {"approve", "publish"},
         pc = "admit" => plan \subseteq p,
         pc = "update" /\ l.expected = r.revision => base = {r.sources}
  PROVE  Consistent(m, r, a, p, s) /\ m.pc # "insert"
<1>1. /\ DOMAIN m = Fields
      /\ m.pc = pc /\ m.base = base /\ m.plan = plan
      /\ m.op = l.op /\ m.actor = l.actor /\ m.before = l.before /\ m.expected = l.expected
  BY DecidedFields
<1>2. Flow(m)
  BY <1>1 DEF Flow
<1>3. Reads(m) /\ Supplied(m, s) /\ Admissible(m, p)
  BY <1>1 DEF Reads, Supplied, Admissible
<1>4. Duties(m, a)
  BY <1>1 DEF Duties
<1>5. Based(m, r)
  BY <1>1 DEF Based
<1> QED
  BY <1>1, <1>2, <1>3, <1>4, <1>5 DEF Consistent

\* An edit goes on to its update with the sources it was computed from.
LEMMA EditDecided ==
  ASSUME NEW l, NEW r, NEW a, NEW p, NEW s, NEW base, NEW next,
         DOMAIN l = Fields, Flow(l), Duties(l, a), Based(l, r),
         l.op \in Visits("update"), l.expected = r.revision => base = {r.sources}
  PROVE  LET m == Decided(l, "update", base, next, {})
         IN Consistent(m, r, a, p, s) /\ m.pc # "insert"
<1> DEFINE m == Decided(l, "update", base, next, {})
<1>1. m = Decided(l, "update", base, next, {})
  OBVIOUS
<1> HIDE DEF m
<1>2. Consistent(m, r, a, p, s) /\ m.pc # "insert"
  BY <1>1, DecidedConsistent
<1> QED
  BY <1>2 DEF m

-----------------------------------------------------------------------------
(* The steps *)

LEMMA InitHolds == Init => IInv
<1> SUFFICES ASSUME Init PROVE IInv
  OBVIOUS
<1>1. HandlersAreConsistent /\ InsertComesFirst
  BY IdleConsistent DEF Init, HandlersAreConsistent, InsertComesFirst
<1>2. RowIsConsistent
  BY DEF Init, RowIsConsistent, NoRow
<1> QED
  BY <1>1, <1>2 DEF IInv, Init, RegistryShape, OnlyApprovedPlansAreAdmitted, ImportedAgentsAreComplete

\* A request comes in.
LEMMA ReceiveStep ==
  ASSUME IInv, NEW h \in Handlers, Receive(h)
  PROVE  IInv'
<1> SUFFICES ASSUME NEW q \in AuthorizedRequests,
                    NEW expected \in Revisions(q), NEW bundle \in Bundles(q),
                    q.op = "create" => row = NoRow /\ \A g \in Handlers : local[g].pc # "insert",
                    q.op \notin {"create", "import"} => row # NoRow,
                    local' = [local EXCEPT ![h] = Started(q, expected, bundle)]
             PROVE  IInv'
  BY Zenon DEF Receive
<1> DEFINE m == Started(q, expected, bundle)
<1>1. q.op \in Routes
  BY RequestFacts
<1>2. /\ local' = [local EXCEPT ![h] = m]
      /\ DOMAIN m = Fields
      /\ m.pc = FirstStep(q.op) /\ m.op = q.op /\ m.expected = expected /\ m.bundle = bundle
      /\ m.todo = FirstReads(q.op) /\ m.seen = NotRead /\ m.before \subseteq acknowledged
  BY DEF Fields, Started
<1> HIDE DEF m
<1>3. /\ UNCHANGED <<row, registry, approvedPlans, plans, acknowledged, events>>
      /\ authoringContributors' = authoringContributors
  BY DEF Receive, shared, authoringContributors
<1>4. Flow(m)
  BY <1>1, <1>2 DEF Flow, Visits, FirstStep, Routes, Edits
<1>5. Reads(m)
  BY <1>1, <1>2 DEF Reads, FirstReads, FirstStep, NotRead, Tables, Routes, Edits
<1>6. Duties(m, authoringContributors)
  BY <1>1, <1>2 DEF Duties, IInv, FirstStep, Routes, Edits
<1>7. Based(m, row)
  <2>1. row.revision \in Nat /\ (row # NoRow => row.revision > 0)
    BY DEF IInv, RowIsConsistent
  <2>2. expected \in Nat /\ expected <= row.revision
    BY <2>1 DEF Revisions
  <2>3. m.seen["draft"] = {}
    BY <1>2 DEF NotRead
  <2>4. m.pc = "update" => m.op = "update"
    BY <1>1, <1>2 DEF FirstStep, Routes, Edits
  <2> QED
    BY <1>2, <2>1, <2>2, <2>3, <2>4 DEF Based
<1>8. Supplied(m, DOMAIN registry.skills)
  <2>1. CASE q.op = "import"
    <3>1. bundle \in importAgentBundle(q.arg.repo)
      BY <2>1 DEF Bundles
    <3>2. /\ bundle.agent.skillIds = {k.id : k \in bundle.skills}
          /\ {"agent", "skills"} \subseteq DOMAIN bundle
      BY <3>1 DEF importAgentBundle, buildAgentBundleFromFiles
    <3> QED
      BY <1>2, <3>2 DEF Supplied
  <2>2. CASE q.op # "import"
    BY <1>1, <1>2, <2>2 DEF Supplied, FirstStep, Routes, Edits
  <2> QED
    BY <2>1, <2>2
<1>9. Admissible(m, approvedPlans)
  BY <1>1, <1>2 DEF Admissible, FirstStep, Routes, Edits
<1>10. Consistent(m, row, authoringContributors, approvedPlans, DOMAIN registry.skills)
  BY <1>2, <1>4, <1>5, <1>6, <1>7, <1>8, <1>9 DEF Consistent
<1>11. CASE q.op # "create"
  <2>1. m.pc # "insert"
    BY <1>1, <1>2, <1>11 DEF FirstStep, Routes, Edits
  <2> QED
    BY <1>2, <1>3, <1>10, <2>1, QuietMove DEF IInv, OnlyApprovedPlansAreAdmitted
<1>12. CASE q.op = "create"
  <2>1. DOMAIN local' = Handlers /\ HandlersAreConsistent'
    BY <1>2, <1>3, <1>10, OneMoves DEF IInv, RowIsConsistent
  <2>2. InsertComesFirst'
    <3>1. row' = NoRow
      BY <1>3, <1>12
    <3>2. \A g \in Handlers : local'[g].pc = "insert" => g = h
      BY <1>2, <1>12 DEF IInv
    <3> QED
      BY <3>1, <3>2 DEF InsertComesFirst
  <2> QED
    BY <1>3, <2>1, <2>2 DEF IInv, RowIsConsistent, RegistryShape, OnlyApprovedPlansAreAdmitted,
       ImportedAgentsAreComplete
<1> QED
  BY <1>11, <1>12

\* The draft a handler decides on is one it has read.
LEMMA SeenDraft ==
  ASSUME NEW l, l.seen["draft"] # {}
  PROVE  Seen(l, "draft") \in l.seen["draft"]
  BY DEF Seen

\* Each operation's decision, from what it has read: it gives up, reads on, or
\* goes to its next statement with what that needs.
LEMMA DecisionConsistent ==
  ASSUME NEW l, NEW r, NEW a, NEW p, NEW s, DOMAIN l = Fields, Flow(l), Duties(l, a), Based(l, r),
         l.pc = "read", DOMAIN l.seen = Tables, l.seen["draft"] # {},
         l.op = "publish" => l.seen["draft"] = {r},
         r.status = "APPROVED" => r.plan \subseteq p
  PROVE  Consistent(AfterReads(l), r, a, p, s) /\ AfterReads(l).pc # "insert"
<1> DEFINE d == Seen(l, "draft")
<1>1. /\ d.revision \in Nat /\ l.expected <= d.revision /\ d.revision <= r.revision
      /\ d.revision = r.revision => d.sources = r.sources
  BY SeenDraft DEF Based
<1>2. l.expected \in Nat /\ (l.expected = r.revision => d.sources = r.sources)
  BY <1>1 DEF Based
<1> HIDE DEF d
<1>3. l.op \in {"attach", "caseWrites", "compile", "evaluate", "publish"}
  BY DEF Flow, Visits
<1>4. CASE l.op = "attach"
  <2>1. AfterReads(l) = afterAttach(l)
    BY <1>4 DEF AfterReads
  <2>2. \/ AfterReads(l) = Idle
        \/ \E next : AfterReads(l) = Decided(l, "update", {d.sources}, next, {})
    BY <2>1, Zenon DEF afterAttach, d
  <2>3. ASSUME NEW next, AfterReads(l) = Decided(l, "update", {d.sources}, next, {})
        PROVE  Consistent(AfterReads(l), r, a, p, s) /\ AfterReads(l).pc # "insert"
    <3>1. l.op \in Visits("update") /\ (l.expected = r.revision => {d.sources} = {r.sources})
      BY <1>2, <1>4 DEF Visits, Edits
    <3> QED
      BY <2>3, <3>1, EditDecided
  <2> QED
    BY <2>2, <2>3, IdleConsistent
<1>5. CASE l.op = "caseWrites"
  <2>1. AfterReads(l) = afterCaseWrites(l)
    BY <1>5 DEF AfterReads
  <2>2. \/ AfterReads(l) = Idle
        \/ \E next : AfterReads(l) = Decided(l, "update", {d.sources}, next, {})
    BY <2>1, Zenon DEF afterCaseWrites, d
  <2>3. ASSUME NEW next, AfterReads(l) = Decided(l, "update", {d.sources}, next, {})
        PROVE  Consistent(AfterReads(l), r, a, p, s) /\ AfterReads(l).pc # "insert"
    <3>1. l.op \in Visits("update") /\ (l.expected = r.revision => {d.sources} = {r.sources})
      BY <1>2, <1>5 DEF Visits, Edits
    <3> QED
      BY <2>3, <3>1, EditDecided
  <2> QED
    BY <2>2, <2>3, IdleConsistent
<1>6. CASE l.op = "compile"
  <2>1. AfterReads(l) = afterCompile(l)
    BY <1>6 DEF AfterReads
  <2>2. \/ AfterReads(l) = Idle
        \/ AfterReads(l) = [l EXCEPT !.todo = {"agents", "skills", "capabilities"}]
        \/ \E pc \in {"update", "lifecycle"} : \E next, plan :
             AfterReads(l) = [Decided(l, pc, {d.sources}, next, plan) EXCEPT !.expected = d.revision]
    BY <2>1, Zenon DEF afterCompile, d
  <2>3. ASSUME AfterReads(l) = [l EXCEPT !.todo = {"agents", "skills", "capabilities"}]
        PROVE  Consistent(AfterReads(l), r, a, p, s) /\ AfterReads(l).pc # "insert"
    <3> DEFINE m == AfterReads(l)
    <3>1. /\ DOMAIN m = Fields
          /\ m.pc = "read" /\ m.op = "compile" /\ m.seen = l.seen /\ m.expected = l.expected
          /\ m.before = l.before
      BY <1>6, <2>3 DEF Fields
    <3> HIDE DEF m
    <3>2. Flow(m) /\ Reads(m) /\ Duties(m, a) /\ Admissible(m, p) /\ Based(m, r) /\ Supplied(m, s)
      BY <1>6, <3>1 DEF Flow, Reads, Duties, Admissible, Based, Supplied, Visits
    <3> QED
      BY <3>1, <3>2 DEF Consistent, m
  <2>4. ASSUME NEW pc \in {"update", "lifecycle"}, NEW next, NEW plan,
               AfterReads(l) = [Decided(l, pc, {d.sources}, next, plan) EXCEPT !.expected = d.revision]
        PROVE  Consistent(AfterReads(l), r, a, p, s) /\ AfterReads(l).pc # "insert"
    <3> DEFINE n == Decided(l, pc, {d.sources}, next, plan)
               m == AfterReads(l)
    <3>1. /\ DOMAIN n = Fields /\ n.pc = pc /\ n.base = {d.sources} /\ n.op = "compile"
          /\ n.before = l.before
      BY <1>6, DecidedFields
    <3>2. m = [n EXCEPT !.expected = d.revision]
      BY <2>4
    <3> HIDE DEF m, n
    <3>3. /\ DOMAIN m = Fields /\ m.pc = pc /\ m.base = {d.sources} /\ m.op = "compile"
          /\ m.before = l.before /\ m.expected = d.revision
      BY <3>1, <3>2 DEF Fields
    <3>4. Flow(m) /\ Reads(m) /\ Duties(m, a) /\ Admissible(m, p) /\ Supplied(m, s)
      BY <3>3 DEF Flow, Reads, Duties, Admissible, Supplied, Visits
    <3>5. Based(m, r)
      BY <1>1, <1>6, <3>3 DEF Based
    <3> QED
      BY <3>3, <3>4, <3>5 DEF Consistent, m
  <2> QED
    BY <2>2, <2>3, <2>4, IdleConsistent
<1>7. CASE l.op = "evaluate"
  <2>1. AfterReads(l) = afterEvaluate(l)
    BY <1>7 DEF AfterReads
  <2>2. AfterReads(l) = Idle \/ AfterReads(l) = Decided(l, "lifecycle", {}, {}, d.plan)
    BY <2>1, Zenon DEF afterEvaluate, d
  <2>3. ASSUME AfterReads(l) = Decided(l, "lifecycle", {}, {}, d.plan)
        PROVE  Consistent(AfterReads(l), r, a, p, s) /\ AfterReads(l).pc # "insert"
    BY <1>7, <2>3, DecidedConsistent DEF Visits
  <2> QED
    BY <2>2, <2>3, IdleConsistent
<1>8. CASE l.op = "publish"
  <2>1. AfterReads(l) = afterPublish(l)
    BY <1>8 DEF AfterReads
  <2>2. \/ AfterReads(l) = Idle
        \/ d.status = "APPROVED" /\ AfterReads(l) = Decided(l, "admit", {}, {}, d.plan)
    BY <2>1, Zenon DEF afterPublish, d
  <2>3. d = r
    BY <1>8, SeenDraft DEF d
  <2>4. ASSUME d.status = "APPROVED", AfterReads(l) = Decided(l, "admit", {}, {}, d.plan)
        PROVE  Consistent(AfterReads(l), r, a, p, s) /\ AfterReads(l).pc # "insert"
    <3>1. l.op \in Visits("admit") /\ d.plan \subseteq p
      BY <1>8, <2>3, <2>4 DEF Visits
    <3>2. \A n : n = Decided(l, "admit", {}, {}, d.plan) =>
                  Consistent(n, r, a, p, s) /\ n.pc # "insert"
      BY <3>1, DecidedConsistent
    <3> QED
      BY <2>4, <3>2
  <2> QED
    BY <2>2, <2>4, IdleConsistent
<1> QED
  BY <1>3, <1>4, <1>5, <1>6, <1>7, <1>8

\* A handler reads a table and, if it was the last one, decides.
LEMMA ReadStep ==
  ASSUME IInv, NEW h \in Handlers, NEW table \in Tables, Read(h, table)
  PROVE  IInv'
<1> DEFINE l == [local[h] EXCEPT !.seen[table] = {Table(table)}, !.todo = @ \ {table}]
           m == IF l.todo = {} THEN AfterReads(l) ELSE l
<1>1. /\ local[h].pc = "read" /\ table \in local[h].todo
      /\ local' = [local EXCEPT ![h] = m]
      /\ UNCHANGED <<row, registry, approvedPlans, plans, acknowledged, events>>
  BY DEF Read, shared
<1>2. authoringContributors' = authoringContributors
  BY <1>1 DEF authoringContributors
<1>3. /\ DOMAIN local[h] = Fields
      /\ Flow(local[h]) /\ Reads(local[h]) /\ Duties(local[h], authoringContributors)
      /\ Based(local[h], row)
  BY <1>1, BusyFields DEF IInv, HandlersAreConsistent
<1>4. /\ DOMAIN l = Fields /\ l.pc = "read" /\ l.op = local[h].op /\ l.before = local[h].before
      /\ l.expected = local[h].expected /\ l.actor = local[h].actor
      /\ l.todo = local[h].todo \ {table}
      /\ l.seen = [local[h].seen EXCEPT ![table] = {Table(table)}]
  BY <1>1, <1>3 DEF Fields
<1> HIDE DEF l
<1>5. /\ DOMAIN l.seen = Tables
      /\ l.seen["draft"] = IF table = "draft" THEN {row} ELSE local[h].seen["draft"]
  BY <1>1, <1>3, <1>4 DEF Reads, Tables, Table
<1>6. Flow(l) /\ Duties(l, authoringContributors)
  BY <1>1, <1>3, <1>4 DEF Flow, Duties
<1>7. l.seen["draft"] = {} => "draft" \in l.todo
  BY <1>1, <1>3, <1>4, <1>5 DEF Reads
<1>8. Based(l, row)
  BY <1>1, <1>3, <1>4, <1>5 DEF Based, IInv, RowIsConsistent
<1>9. Consistent(m, row, authoringContributors, approvedPlans, DOMAIN registry.skills)
        /\ m.pc # "insert"
  <2>1. CASE l.todo # {}
    <3>1. Admissible(l, approvedPlans) /\ Supplied(l, DOMAIN registry.skills)
      BY <1>4 DEF Admissible, Supplied
    <3>2. l.op # "publish"
      BY <1>1, <1>3, <1>4, <2>1 DEF Reads
    <3>3. Reads(l)
      BY <1>5, <1>7, <3>2 DEF Reads
    <3>4. Consistent(l, row, authoringContributors, approvedPlans, DOMAIN registry.skills)
      BY <1>4, <1>6, <1>8, <3>1, <3>3 DEF Consistent
    <3> QED
      BY <1>4, <2>1, <3>4
  <2>2. CASE l.todo = {}
    <3>1. l.seen["draft"] # {}
      BY <1>7, <2>2
    <3>2. l.op = "publish" => l.seen["draft"] = {row}
      BY <1>1, <1>3, <1>4, <1>5 DEF Reads
    <3> QED
      BY <1>4, <1>5, <1>6, <1>8, <2>2, <3>1, <3>2, DecisionConsistent DEF IInv, RowIsConsistent
  <2> QED
    BY <2>1, <2>2
<1> HIDE DEF m
<1> QED
  BY <1>1, <1>2, <1>9, QuietMove DEF IInv, OnlyApprovedPlansAreAdmitted

\* A handler gives up, and leaves what it wrote.
LEMMA RefuseStep ==
  ASSUME IInv, NEW h \in Handlers, Refuse(h), UNCHANGED shared
  PROVE  IInv'
<1>1. authoringContributors' = authoringContributors
  BY DEF shared, authoringContributors
<1> QED
  BY <1>1, IdleConsistent, QuietMove DEF Refuse, shared, IInv, OnlyApprovedPlansAreAdmitted

\* A handler whose update matched goes on to insert the event.
LEMMA EventNext ==
  ASSUME NEW l, DOMAIN l = Fields, NEW r, NEW a, NEW p, NEW s, NEW type,
         l.before \subseteq a, l.op \in Visits("event"), type \in EventsOf(l.op),
         l.expected \in Nat, l.expected <= r.revision, r.revision > 0,
         NEW m, m = [l EXCEPT !.pc = "event", !.event = type]
  PROVE  Consistent(m, r, a, p, s) /\ m.pc # "insert"
<1>1. /\ DOMAIN m = Fields /\ m.pc = "event" /\ m.event = type /\ m.op = l.op
      /\ m.before = l.before /\ m.expected = l.expected
  BY DEF Fields
<1>2. Flow(m)
  BY <1>1 DEF Flow
<1>3. Reads(m) /\ Duties(m, a) /\ Admissible(m, p) /\ Based(m, r) /\ Supplied(m, s)
  BY <1>1 DEF Reads, Duties, Admissible, Based, Supplied
<1> QED
  BY <1>1, <1>2, <1>3 DEF Consistent

\* A handler writes the row.
LEMMA RowMove ==
  ASSUME IInv, NEW h \in Handlers, NEW m, local' = [local EXCEPT ![h] = m], m.pc # "insert",
         \A g \in Handlers : local[g].pc = "insert" => g = h,
         UNCHANGED <<events, registry, plans, acknowledged>>,
         approvedPlans \subseteq approvedPlans', RowIsConsistent',
         row'.revision > row.revision \/ (row'.revision = row.revision /\ row'.sources = row.sources),
         Consistent(m, row', authoringContributors, approvedPlans', DOMAIN registry.skills)
  PROVE  IInv'
<1>1. authoringContributors' = authoringContributors
  BY DEF authoringContributors
<1>2. DOMAIN local' = Handlers /\ HandlersAreConsistent'
  BY <1>1, OneMoves DEF RowIsConsistent
<1>3. InsertComesFirst'
  <2>1. \A g \in Handlers : local'[g].pc # "insert"
    BY DEF IInv
  <2> QED
    BY <2>1 DEF InsertComesFirst
<1>4. RegistryShape' /\ OnlyApprovedPlansAreAdmitted' /\ ImportedAgentsAreComplete'
  BY DEF IInv, RegistryShape, OnlyApprovedPlansAreAdmitted, ImportedAgentsAreComplete
<1> QED
  BY <1>1, <1>2, <1>3, <1>4 DEF IInv

\* Setting two fields of one handler's record sets that record.
LEMMA TwoFields ==
  ASSUME NEW h \in Handlers, DOMAIN local = Handlers, NEW type, ThenEvent(h, type)
  PROVE  local' = [local EXCEPT ![h] = [local[h] EXCEPT !.pc = "event", !.event = type]]
  BY DEF ThenEvent

LEMMA InsertStep ==
  ASSUME IInv, NEW h \in Handlers, createAuthoringDraft(h)
  PROVE  IInv'
<1> DEFINE l == local[h]
           m == [l EXCEPT !.pc = "event", !.event = "draft.created"]
<1>1. l.pc = "insert" /\ row = NoRow /\ \A g \in Handlers : local[g].pc = "insert" => g = h
  BY DEF createAuthoringDraft, IInv, InsertComesFirst
<1>2. DOMAIN l = Fields /\ Flow(l) /\ Duties(l, authoringContributors) /\ Based(l, row)
  BY <1>1, BusyFields DEF IInv, HandlersAreConsistent
<1>3. /\ DOMAIN row' = DOMAIN NoRow /\ row'.revision = 1 /\ row'.status = "DRAFT"
      /\ UNCHANGED <<events, registry, plans, acknowledged, approvedPlans>>
  BY DEF createAuthoringDraft, NoRow
<1>4. local' = [local EXCEPT ![h] = m]
  BY TwoFields DEF createAuthoringDraft, IInv
<1>5. l.op = "create" /\ l.before \subseteq authoringContributors /\ l.expected = 0
  BY <1>1, <1>2 DEF Flow, Visits, Duties, Based, NoRow
<1>6. Consistent(m, row', authoringContributors, approvedPlans', DOMAIN registry.skills)
        /\ m.pc # "insert"
  <2>1. l.op \in Visits("event") /\ "draft.created" \in EventsOf(l.op)
    BY <1>5 DEF Visits, EventsOf, Routes, Edits
  <2>2. l.expected \in Nat /\ l.expected <= row'.revision /\ row'.revision > 0
    BY <1>3, <1>5
  <2> QED
    BY <1>2, <1>5, <2>1, <2>2, EventNext
<1>7. RowIsConsistent' /\ row.revision = 0
  BY <1>1, <1>3 DEF RowIsConsistent, NoRow
<1>8. row'.revision > row.revision
  BY <1>3, <1>7
<1> HIDE DEF l, m
<1> QED
  BY <1>1, <1>3, <1>4, <1>6, <1>7, <1>8, RowMove

LEMMA UpdateStep ==
  ASSUME IInv, NEW h \in Handlers, updateAuthoringSources(h)
  PROVE  IInv'
<1>1. CASE UpdateMatches(h)
  <2> DEFINE l == local[h]
             m == [l EXCEPT !.pc = "event", !.event = "draft.updated"]
  <2>1. l.pc = "update"
    BY DEF updateAuthoringSources
  <2>2. DOMAIN l = Fields /\ Flow(l) /\ Duties(l, authoringContributors) /\ Based(l, row)
    BY <2>1, BusyFields DEF IInv, HandlersAreConsistent
  <2>3. /\ DOMAIN row' = DOMAIN NoRow /\ row'.revision = row.revision + 1 /\ row'.status = "DRAFT"
        /\ UNCHANGED <<events, registry, plans, acknowledged, approvedPlans>>
    BY <1>1 DEF updateAuthoringSources, NoRow
  <2>4. local' = [local EXCEPT ![h] = m]
    BY <1>1, TwoFields DEF updateAuthoringSources, IInv
  <2>5. l.op \in Edits \cup {"compile"} /\ l.before \subseteq authoringContributors
    BY <2>1, <2>2 DEF Flow, Visits, Duties
  <2>6. /\ row.revision \in Nat /\ row.revision > 0
        /\ l.expected \in Nat /\ l.expected <= row'.revision
    BY <2>2, <2>3, <2>5 DEF Based, IInv, RowIsConsistent, Edits
  <2>7. \A g \in Handlers : local[g].pc # "insert"
    BY <2>6 DEF IInv, InsertComesFirst, NoRow
  <2>8. Consistent(m, row', authoringContributors, approvedPlans', DOMAIN registry.skills)
          /\ m.pc # "insert"
    <3>1. l.op \in Visits("event") /\ "draft.updated" \in EventsOf(l.op)
      BY <2>5 DEF Visits, EventsOf, Routes, Edits
    <3>2. row'.revision > 0
      BY <2>3, <2>6
    <3> QED
      BY <2>2, <2>5, <2>6, <3>1, <3>2, EventNext
  <2>9. RowIsConsistent'
    BY <2>3, <2>6 DEF RowIsConsistent
  <2>10. row'.revision > row.revision
    BY <2>3, <2>6
  <2> HIDE DEF l, m
  <2> QED
    BY <2>3, <2>4, <2>7, <2>8, <2>9, <2>10, RowMove
<1>2. CASE ~UpdateMatches(h)
  BY <1>2, RefuseStep DEF updateAuthoringSources, shared
<1> QED
  BY <1>1, <1>2

LEMMA CheckDutiesStep ==
  ASSUME IInv, NEW h \in Handlers, CheckDuties(h)
  PROVE  IInv'
<1>1. CASE local[h].actor \in authoringContributors
  BY <1>1, RefuseStep DEF CheckDuties
<1>2. CASE local[h].actor \notin authoringContributors
  <2> DEFINE l == local[h]
             m == [l EXCEPT !.pc = "lifecycle"]
  <2>1. /\ l.pc = "contributors" /\ local' = [local EXCEPT ![h] = m]
        /\ UNCHANGED <<row, registry, approvedPlans, plans, acknowledged, events>>
    BY <1>2 DEF CheckDuties, shared
  <2>2. authoringContributors' = authoringContributors
    BY <2>1 DEF authoringContributors
  <2>3. DOMAIN l = Fields /\ Flow(l) /\ Duties(l, authoringContributors) /\ Based(l, row)
    BY <2>1, BusyFields DEF IInv, HandlersAreConsistent
  <2>4. /\ DOMAIN m = Fields /\ m.pc = "lifecycle" /\ m.op = l.op /\ m.before = l.before
        /\ m.actor = l.actor /\ m.expected = l.expected
    BY <2>3 DEF Fields
  <2> HIDE DEF m
  <2>5. Flow(m)
    BY <2>1, <2>3, <2>4 DEF Flow, Visits
  <2>6. Duties(m, authoringContributors)
    BY <1>2, <2>3, <2>4 DEF Duties
  <2>7. Reads(m) /\ Admissible(m, approvedPlans) /\ Based(m, row) /\ Supplied(m, DOMAIN registry.skills)
    BY <2>3, <2>4 DEF Reads, Admissible, Based, Supplied
  <2>8. Consistent(m, row, authoringContributors, approvedPlans, DOMAIN registry.skills)
    BY <2>4, <2>5, <2>6, <2>7 DEF Consistent
  <2> QED
    BY <2>1, <2>2, <2>4, <2>8, QuietMove DEF IInv, OnlyApprovedPlansAreAdmitted
<1> QED
  BY <1>1, <1>2

LEMMA AdmitStep ==
  ASSUME IInv, NEW h \in Handlers, AdmitPlan(h)
  PROVE  IInv'
<1> DEFINE l == local[h]
           m == [l EXCEPT !.pc = "contributors"]
<1>1. /\ l.pc = "admit" /\ local' = [local EXCEPT ![h] = m] /\ plans' = plans \cup l.plan
      /\ UNCHANGED <<row, registry, approvedPlans, acknowledged, events>>
  BY DEF AdmitPlan
<1>2. authoringContributors' = authoringContributors
  BY <1>1 DEF authoringContributors
<1>3. /\ DOMAIN l = Fields /\ Flow(l) /\ Duties(l, authoringContributors) /\ Based(l, row)
      /\ Admissible(l, approvedPlans)
  BY <1>1, BusyFields DEF IInv, HandlersAreConsistent
<1>4. plans' \subseteq approvedPlans
  BY <1>1, <1>3 DEF Admissible, IInv, OnlyApprovedPlansAreAdmitted
<1>5. /\ DOMAIN m = Fields /\ m.pc = "contributors" /\ m.op = l.op /\ m.before = l.before
      /\ m.expected = l.expected
  BY <1>3 DEF Fields
<1> HIDE DEF m
<1>6. Flow(m)
  BY <1>1, <1>3, <1>5 DEF Flow, Visits
<1>7. /\ Duties(m, authoringContributors) /\ Reads(m) /\ Admissible(m, approvedPlans)
      /\ Based(m, row) /\ Supplied(m, DOMAIN registry.skills)
  BY <1>3, <1>5 DEF Duties, Reads, Admissible, Based, Supplied
<1>8. Consistent(m, row, authoringContributors, approvedPlans, DOMAIN registry.skills)
  BY <1>5, <1>6, <1>7 DEF Consistent
<1> QED
  BY <1>1, <1>2, <1>4, <1>5, <1>8, QuietMove DEF IInv

LEMMA LifecycleStep ==
  ASSUME IInv, NEW h \in Handlers, setAuthoringLifecycle(h)
  PROVE  IInv'
<1> DEFINE l == local[h]
           t == Transition(l.op)
           m == [l EXCEPT !.pc = "event", !.event = t.event]
<1>1. CASE row.status = t.from /\ (l.op = "compile" => l.plan # {})
  <2>1. /\ l.pc = "lifecycle" /\ row' = Transitioned(h) /\ ThenEvent(h, t.event)
        /\ approvedPlans' = IF l.op = "approve" THEN approvedPlans \cup row.plan ELSE approvedPlans
        /\ UNCHANGED <<registry, plans, acknowledged, events>>
    BY <1>1 DEF setAuthoringLifecycle
  <2>2. DOMAIN l = Fields /\ Flow(l) /\ Duties(l, authoringContributors) /\ Based(l, row)
    BY <2>1, BusyFields DEF IInv, HandlersAreConsistent
  <2>3. l.op \in {"compile", "evaluate", "approve", "publish"}
    BY <2>1, <2>2 DEF Flow, Visits
  <2>4. t.to = "APPROVED" => l.op = "approve"
    BY <2>3 DEF Transition
  <2>5. row.revision \in Nat /\ row.revision > 0 /\ DOMAIN row = DOMAIN NoRow
    BY <2>2, <2>3 DEF Based, IInv, RowIsConsistent
  <2>6. /\ DOMAIN row' = DOMAIN NoRow /\ row'.revision = row.revision /\ row'.sources = row.sources
        /\ row'.status = t.to
        /\ l.op = "approve" => row'.plan = row.plan
    BY <2>1, <2>5 DEF Transitioned, NoRow
  <2>7. local' = [local EXCEPT ![h] = m]
    BY <2>1, TwoFields DEF IInv
  <2>8. \A g \in Handlers : local[g].pc = "insert" => g = h
    BY <2>5 DEF IInv, InsertComesFirst, NoRow
  <2>9. Consistent(m, row', authoringContributors, approvedPlans', DOMAIN registry.skills)
          /\ m.pc # "insert"
    <3>1. l.op \in Visits("event") /\ l.before \subseteq authoringContributors
      BY <2>2, <2>3 DEF Visits, Routes, Edits, Duties
    <3>2. t.event \in EventsOf(l.op)
      BY <2>3 DEF Transition, EventsOf, Edits
    <3>3. l.expected \in Nat /\ l.expected <= row'.revision /\ row'.revision > 0
      BY <2>2, <2>5, <2>6 DEF Based
    <3> HIDE DEF l, t
    <3> QED
      BY <2>2, <3>1, <3>2, <3>3, EventNext DEF l
  <2>10. RowIsConsistent'
    <3>1. row'.status = "APPROVED" => row'.plan \subseteq approvedPlans'
      BY <2>1, <2>4, <2>6
    <3> QED
      BY <2>5, <2>6, <3>1 DEF RowIsConsistent
  <2>11. approvedPlans \subseteq approvedPlans'
    BY <2>1
  <2> HIDE DEF l, t, m
  <2> QED
    BY <2>1, <2>6, <2>7, <2>8, <2>9, <2>10, <2>11, RowMove
<1>2. CASE ~(row.status = t.from /\ (l.op = "compile" => l.plan # {}))
  BY <1>2, RefuseStep DEF setAuthoringLifecycle, shared
<1> QED
  BY <1>1, <1>2

\* The event that names the actor; after it a contributor may be answered.
LEMMA EventStep ==
  ASSUME IInv, NEW h \in Handlers, InsertEvent(h)
  PROVE  IInv'
<1> DEFINE l == local[h]
           goesOn == l.op = "compile" /\ l.event = "draft.updated"
           m == IF goesOn THEN [l EXCEPT !.pc = "lifecycle", !.event = ""] ELSE Idle
           e == [type |-> l.event, actor |-> l.actor, person |-> l.person]
<1>1. /\ l.pc = "event" /\ events' = events \cup {e} /\ local' = [local EXCEPT ![h] = m]
      /\ acknowledged' = IF ~goesOn /\ l.op \notin {"evaluate", "approve", "publish"}
                         THEN acknowledged \cup {l.actor} ELSE acknowledged
      /\ UNCHANGED <<row, registry, plans, approvedPlans>>
  BY DEF InsertEvent
<1>2. DOMAIN l = Fields /\ Flow(l) /\ Duties(l, authoringContributors) /\ Based(l, row)
  BY <1>1, BusyFields DEF IInv, HandlersAreConsistent
<1>3. authoringContributors \subseteq authoringContributors'
  BY <1>1, ContributorsGrow
<1>4. acknowledged' \subseteq authoringContributors'
  <2>1. CASE ~goesOn /\ l.op \notin {"evaluate", "approve", "publish"}
    <3>1. l.event \in {"draft.created", "draft.updated", "draft.compiled"}
      BY <1>1, <1>2, <2>1 DEF Flow, Visits, EventsOf, Routes, Edits
    <3>2. e \in events' /\ e.type = l.event /\ e.actor = l.actor
      BY <1>1
    <3>3. l.actor \in authoringContributors'
      BY <3>1, <3>2 DEF authoringContributors
    <3> QED
      BY <1>1, <1>3, <2>1, <3>3 DEF IInv
  <2>2. CASE ~(~goesOn /\ l.op \notin {"evaluate", "approve", "publish"})
    BY <1>1, <1>3, <2>2 DEF IInv
  <2> QED
    BY <2>1, <2>2
<1>5. Consistent(m, row, authoringContributors', approvedPlans, DOMAIN registry.skills)
        /\ m.pc # "insert"
  <2>1. CASE goesOn
    <3>1. /\ DOMAIN m = Fields /\ m.pc = "lifecycle" /\ m.op = "compile" /\ m.before = l.before
          /\ m.expected = l.expected
      BY <1>2, <2>1 DEF Fields
    <3> HIDE DEF m
    <3>2. Flow(m)
      BY <3>1 DEF Flow, Visits
    <3>3. /\ Duties(m, authoringContributors') /\ Reads(m) /\ Admissible(m, approvedPlans)
          /\ Based(m, row) /\ Supplied(m, DOMAIN registry.skills)
      BY <1>2, <1>3, <2>1, <3>1 DEF Duties, Reads, Admissible, Based, Supplied
    <3> QED
      BY <3>1, <3>2, <3>3 DEF Consistent
  <2>2. CASE ~goesOn
    BY <2>2, IdleConsistent
  <2> QED
    BY <2>1, <2>2
<1> HIDE DEF m
<1> QED
  BY <1>1, <1>4, <1>5, QuietMove DEF IInv, OnlyApprovedPlansAreAdmitted

\* A skill of an import is registered: it leaves the bundle for the registry.
LEMMA ImportSkillStep ==
  ASSUME IInv, NEW h \in Handlers, ImportSkill(h)
  PROVE  IInv'
<1> DEFINE l == local[h]
<1>1. PICK k \in l.bundle.skills :
        /\ registry' = [registry EXCEPT !["skills"] = With(@, k)]
        /\ local' = [local EXCEPT ![h].bundle.skills = @ \ {k}]
  BY Zenon DEF ImportSkill, Register
<1> DEFINE b == [l.bundle EXCEPT !.skills = @ \ {k}]
           m == [l EXCEPT !.bundle = b]
<1>2. /\ l.pc = "import" /\ local' = [local EXCEPT ![h] = m]
      /\ UNCHANGED <<row, events, plans, approvedPlans, acknowledged>>
  BY <1>1 DEF ImportSkill
<1>3. authoringContributors' = authoringContributors
  BY <1>2 DEF authoringContributors
<1>4. /\ DOMAIN l = Fields /\ Flow(l) /\ Duties(l, authoringContributors) /\ Based(l, row)
      /\ Supplied(l, DOMAIN registry.skills)
  BY <1>2, BusyFields DEF IInv, HandlersAreConsistent
<1>5. /\ DOMAIN registry' = DOMAIN registry /\ registry'.agents = registry.agents
      /\ DOMAIN registry'.skills = DOMAIN registry.skills \cup {k.id}
  BY <1>1 DEF IInv, RegistryShape, With
<1>6. /\ DOMAIN b = DOMAIN l.bundle /\ b.agent = l.bundle.agent /\ b.skills = l.bundle.skills \ {k}
  BY <1>2, <1>4 DEF Supplied
<1>7. /\ DOMAIN m = Fields /\ m.pc = "import" /\ m.op = l.op /\ m.before = l.before
      /\ m.expected = l.expected /\ m.bundle = b
  BY <1>2, <1>4 DEF Fields
<1> HIDE DEF m, b
<1>8. Supplied(m, DOMAIN registry'.skills)
  BY <1>2, <1>4, <1>5, <1>6, <1>7 DEF Supplied
<1>9. /\ Flow(m) /\ Duties(m, authoringContributors) /\ Reads(m) /\ Admissible(m, approvedPlans)
      /\ Based(m, row)
  BY <1>2, <1>4, <1>7 DEF Flow, Duties, Reads, Admissible, Based
<1>10. Consistent(m, row', authoringContributors', approvedPlans', DOMAIN registry'.skills)
  BY <1>2, <1>3, <1>7, <1>8, <1>9 DEF Consistent
<1>11. DOMAIN local' = Handlers /\ HandlersAreConsistent'
  BY <1>2, <1>5, <1>10, OneMoves DEF IInv, RowIsConsistent
<1>12. InsertComesFirst'
  <2>1. \A g \in Handlers : local'[g].pc = "insert" => local[g].pc = "insert"
    BY <1>2, <1>7 DEF IInv
  <2> QED
    BY <1>2, <2>1 DEF IInv, InsertComesFirst
<1> QED
  BY <1>2, <1>3, <1>5, <1>11, <1>12 DEF IInv, RowIsConsistent, RegistryShape,
     OnlyApprovedPlansAreAdmitted, ImportedAgentsAreComplete

\* The agent of an import is registered last.
LEMMA ImportAgentStep ==
  ASSUME IInv, NEW h \in Handlers, ImportAgent(h)
  PROVE  IInv'
<1> DEFINE agent == local[h].bundle.agent
<1>1. /\ local[h].pc = "import" /\ local[h].bundle.skills = {}
      /\ local' = [local EXCEPT ![h] = Idle]
      /\ registry' = [registry EXCEPT !["agents"] = With(@, agent)]
      /\ UNCHANGED <<row, events, plans, approvedPlans, acknowledged>>
  BY DEF ImportAgent, Register
<1>2. authoringContributors' = authoringContributors
  BY <1>1 DEF authoringContributors
<1>3. agent.skillIds \subseteq DOMAIN registry.skills
  BY <1>1, BusyFields DEF IInv, HandlersAreConsistent, Supplied
<1>4. /\ DOMAIN registry' = DOMAIN registry /\ registry'.skills = registry.skills
      /\ registry'.agents = With(registry.agents, agent)
  BY <1>1 DEF IInv, RegistryShape
<1>5. ImportedAgentsAreComplete'
  <2> SUFFICES ASSUME NEW id \in DOMAIN registry'.agents,
                      registry'.agents[id] \notin Registrations.agents
               PROVE  registry'.agents[id].skillIds \subseteq DOMAIN registry'.skills
    BY DEF ImportedAgentsAreComplete
  <2>1. registry'.agents[id] = IF id = agent.id THEN agent ELSE registry.agents[id]
    BY <1>4 DEF With
  <2>2. id = agent.id \/ id \in DOMAIN registry.agents
    BY <1>4 DEF With
  <2> QED
    BY <1>3, <1>4, <2>1, <2>2 DEF IInv, ImportedAgentsAreComplete
<1>6. DOMAIN local' = Handlers /\ HandlersAreConsistent'
  BY <1>1, <1>2, <1>4, IdleConsistent, OneMoves DEF IInv, RowIsConsistent
<1>7. InsertComesFirst'
  <2>1. \A g \in Handlers : local'[g].pc = "insert" => local[g].pc = "insert"
    BY <1>1, IdleConsistent DEF IInv
  <2> QED
    BY <1>1, <2>1 DEF IInv, InsertComesFirst
<1> QED
  BY <1>1, <1>2, <1>4, <1>5, <1>6, <1>7 DEF IInv, RowIsConsistent, RegistryShape,
     OnlyApprovedPlansAreAdmitted

\* A contract is registered by itself.
LEMMA RegisterStep ==
  ASSUME IInv, NEW table \in {"agents", "skills", "capabilities"}, RegisterOne(table)
  PROVE  IInv'
<1>1. PICK item \in Registrations[table] : registry' = [registry EXCEPT ![table] = With(@, item)]
  BY DEF RegisterOne, Register
<1>2. UNCHANGED <<row, events, plans, local, approvedPlans, acknowledged>>
  BY DEF RegisterOne
<1>3. authoringContributors' = authoringContributors
  BY <1>2 DEF authoringContributors
<1>4. /\ DOMAIN registry' = DOMAIN registry /\ DOMAIN registry.skills \subseteq DOMAIN registry'.skills
      /\ registry'.agents = IF table = "agents" THEN With(registry.agents, item) ELSE registry.agents
  BY <1>1 DEF IInv, RegistryShape, With
<1>5. ImportedAgentsAreComplete'
  <2> SUFFICES ASSUME NEW id \in DOMAIN registry'.agents,
                      registry'.agents[id] \notin Registrations.agents
               PROVE  registry'.agents[id].skillIds \subseteq DOMAIN registry'.skills
    BY DEF ImportedAgentsAreComplete
  <2>1. id \in DOMAIN registry.agents /\ registry'.agents[id] = registry.agents[id]
    BY <1>1, <1>4 DEF With
  <2> QED
    BY <1>4, <2>1 DEF IInv, ImportedAgentsAreComplete
<1>6. HandlersAreConsistent'
  BY <1>2, <1>3, <1>4, Monotone DEF IInv, HandlersAreConsistent, RowIsConsistent
<1> QED
  BY <1>2, <1>3, <1>4, <1>5, <1>6 DEF IInv, RowIsConsistent, InsertComesFirst, RegistryShape,
     OnlyApprovedPlansAreAdmitted

LEMMA StepHolds == IInv /\ [Next]_vars => IInv'
<1> SUFFICES ASSUME IInv, [Next]_vars PROVE IInv'
  OBVIOUS
<1>1. ASSUME NEW h \in Handlers, Receive(h) PROVE IInv'
  BY <1>1, ReceiveStep
<1>2. ASSUME NEW h \in Handlers, NEW table \in Tables, Read(h, table) PROVE IInv'
  BY <1>2, ReadStep
<1>3. ASSUME NEW h \in Handlers, createAuthoringDraft(h) PROVE IInv'
  BY <1>3, InsertStep
<1>4. ASSUME NEW h \in Handlers, updateAuthoringSources(h) PROVE IInv'
  BY <1>4, UpdateStep
<1>5. ASSUME NEW h \in Handlers, CheckDuties(h) PROVE IInv'
  BY <1>5, CheckDutiesStep
<1>6. ASSUME NEW h \in Handlers, AdmitPlan(h) PROVE IInv'
  BY <1>6, AdmitStep
<1>7. ASSUME NEW h \in Handlers, setAuthoringLifecycle(h) PROVE IInv'
  BY <1>7, LifecycleStep
<1>8. ASSUME NEW h \in Handlers, CompilerFails(h) \/ Abort(h) PROVE IInv'
  BY <1>8, RefuseStep DEF CompilerFails, Abort
<1>9. ASSUME NEW h \in Handlers, InsertEvent(h) PROVE IInv'
  BY <1>9, EventStep
<1>10. ASSUME NEW h \in Handlers, ImportSkill(h) PROVE IInv'
  BY <1>10, ImportSkillStep
<1>11. ASSUME NEW h \in Handlers, ImportAgent(h) PROVE IInv'
  BY <1>11, ImportAgentStep
<1>12. ASSUME NEW table \in {"agents", "skills", "capabilities"}, RegisterOne(table) PROVE IInv'
  BY <1>12, RegisterStep
<1>13. ASSUME UNCHANGED vars PROVE IInv'
  <2>1. authoringContributors' = authoringContributors
    BY <1>13 DEF vars, authoringContributors
  <2>2. UNCHANGED <<local, row, events, plans, registry, approvedPlans, acknowledged>>
    BY <1>13 DEF vars
  <2> QED
    BY <2>1, <2>2 DEF IInv, HandlersAreConsistent, RowIsConsistent, InsertComesFirst, RegistryShape,
       OnlyApprovedPlansAreAdmitted, ImportedAgentsAreComplete
<1> QED
  BY <1>1, <1>2, <1>3, <1>4, <1>5, <1>6, <1>7, <1>8, <1>9, <1>10, <1>11, <1>12, <1>13
     DEF Next, Tables

-----------------------------------------------------------------------------
(* The theorems *)

\* The inductive invariant holds throughout: the handlers, each between two
\* statements, stay consistent with the row and the registries they share.
THEOREM Invariance == Spec => []IInv
  BY InitHolds, StepHolds, PTL DEF Spec

\* Publication admits plans before duties and status are checked, and yet only
\* plans an approver approved: whatever was read as APPROVED was approved then,
\* and approvals are not taken back.
THEOREM AdmissionsWereApproved == Spec => []OnlyApprovedPlansAreAdmitted
<1>1. IInv => OnlyApprovedPlansAreAdmitted
  BY DEF IInv
<1> QED
  BY <1>1, Invariance, PTL

\* importAgentBundle registers the agent only when every skill is in: however
\* imports interleave with each other and with single registrations, and
\* wherever they die, an imported agent finds its skills.
THEOREM ImportsArriveComplete == Spec => []ImportedAgentsAreComplete
<1>1. IInv => ImportedAgentsAreComplete
  BY DEF IInv
<1> QED
  BY <1>1, Invariance, PTL

\* A handler's record changes only by a statement of that handler.
LEMMA OwnStatements ==
  ASSUME IInv, [Next]_vars, NEW h \in Handlers, local'[h] # local[h]
  PROVE  \/ Receive(h) \/ \E table \in Tables : Read(h, table)
         \/ createAuthoringDraft(h) \/ updateAuthoringSources(h)
         \/ CheckDuties(h) \/ AdmitPlan(h) \/ setAuthoringLifecycle(h) \/ CompilerFails(h)
         \/ InsertEvent(h) \/ ImportSkill(h) \/ ImportAgent(h) \/ Abort(h)
<1>1. local' # local
  OBVIOUS
<1>2. PICK g \in Handlers :
         \/ Receive(g) \/ \E table \in Tables : Read(g, table)
         \/ createAuthoringDraft(g) \/ updateAuthoringSources(g)
         \/ CheckDuties(g) \/ AdmitPlan(g) \/ setAuthoringLifecycle(g) \/ CompilerFails(g)
         \/ InsertEvent(g) \/ ImportSkill(g) \/ ImportAgent(g) \/ Abort(g)
  BY <1>1 DEF Next, vars, RegisterOne, Tables
<1>3. \E m : local' = [local EXCEPT ![g] = m]
  BY <1>2 DEF Receive, Read, createAuthoringDraft, updateAuthoringSources, CheckDuties, AdmitPlan,
     setAuthoringLifecycle, CompilerFails, InsertEvent, ImportSkill, ImportAgent, Abort, Refuse,
     ThenEvent
<1>4. g = h
  BY <1>3
<1> QED
  BY <1>2, <1>4

\* Nobody's edit is lost under another's: when updateAuthoringSources matches,
\* the row still holds the sources the new ones were computed from.
THEOREM EditsReplaceTheirBase == Spec => EditsBuildOnTheirBase
<1> DEFINE A == \A h \in Handlers :
                  local[h].pc = "update" /\ local[h].op # "update" /\ row'.revision > row.revision
                    /\ local'[h].pc = "event" => local[h].base = {row.sources}
<1>1. IInv /\ [Next]_vars => [A]_vars
  <2> SUFFICES ASSUME IInv, [Next]_vars, NEW h \in Handlers,
                      local[h].pc = "update", local[h].op # "update", local'[h].pc = "event"
               PROVE  local[h].base = {row.sources}
    OBVIOUS
  <2>1. updateAuthoringSources(h)
    <3>1. local'[h] # local[h]
      OBVIOUS
    <3>2. ~Receive(h) /\ ~\E table \in Tables : Read(h, table)
      BY DEF Receive, Idle, Read
    <3>3. /\ ~createAuthoringDraft(h) /\ ~CheckDuties(h) /\ ~AdmitPlan(h)
          /\ ~setAuthoringLifecycle(h) /\ ~CompilerFails(h) /\ ~InsertEvent(h)
          /\ ~ImportSkill(h) /\ ~ImportAgent(h) /\ ~Abort(h)
      BY DEF createAuthoringDraft, CheckDuties, AdmitPlan, setAuthoringLifecycle, CompilerFails,
         InsertEvent, ImportSkill, ImportAgent, Abort
    <3> QED
      BY <3>1, <3>2, <3>3, OwnStatements
  <2>2. UpdateMatches(h)
    BY <2>1 DEF updateAuthoringSources, Refuse, Idle, IInv
  <2>3. Based(local[h], row)
    BY BusyFields DEF IInv, HandlersAreConsistent
  <2> QED
    BY <2>2, <2>3 DEF Based, UpdateMatches
<1> QED
  BY <1>1, Invariance, PTL DEF Spec, EditsBuildOnTheirBase

\* Whoever approves or publishes had no part in the draft when the request came
\* in, as far as the answers they could know of go.
THEOREM DutiesAreSeparated == Spec => DutiesStaySeparate
<1> DEFINE A == \A h \in Handlers :
                  local[h].pc = "lifecycle" /\ local[h].op \in {"approve", "publish"}
                    /\ local'[h].pc = "event" => local[h].actor \notin local[h].before
<1>1. IInv => A
  BY BusyFields DEF IInv, HandlersAreConsistent, Duties
<1>2. IInv /\ [Next]_vars => [A]_vars
  BY <1>1
<1> QED
  BY <1>2, Invariance, PTL DEF Spec, DutiesStaySeparate

-----------------------------------------------------------------------------
(* Whom the audit trail names.  The edge resolves the person from the       *)
(* credential, replaces the headers that name an actor by its own, and the  *)
(* control API believes them.                                               *)

\* Everybody signs in with a token: the local headers and the automatic login are off.
SignInRequired == identityProvider = "entra" /\ (isAzureMode \/ ~LocalAutologin)

\* A token that is accepted names the person who sends it.
TokensNameTheirHolder ==
  \A q \in Requests : \A t \in q.bearer : EntraAccepts(t) => t.subject \subseteq {q.person}

\* Whoever guard.require lets a handler run for is named, roles included, by an
\* accepted token of the request, whatever headers the request itself carried.
THEOREM GuardNamesTheTokensSubject ==
  ASSUME SignInRequired, NEW q \in Requests, NEW action, NEW p \in requirePrincipal(q, action)
  PROVE  \E t \in q.bearer : /\ EntraAccepts(t) /\ p.subject \in t.subject /\ p.roles = t.roles
                             /\ action \in actionsForRoles(t.roles)
<1>1. PICK f \in proxy(q) : \E e \in edgeHeaders(f) : p \in DelegatedPrincipal(serviceGrantsFromEnv, e)
  BY DEF requirePrincipal
<1>2. PICK e \in edgeHeaders(f) : p \in DelegatedPrincipal(serviceGrantsFromEnv, e)
  BY <1>1
<1>3. PICK i \in f.internal : e.actor = {i.subject} /\ e.roles = i.roles
  BY <1>2 DEF edgeHeaders
<1>4. p.subject = i.subject /\ p.roles = i.roles
  BY <1>2, <1>3 DEF DelegatedPrincipal
<1>5. PICK a \in EntraPrincipal(q) : i.subject = a.subject /\ i.roles = a.roles
  <2>1. localAutomaticPrincipal(q) = {} /\ createPrincipalResolverFromEnv(q) = EntraPrincipal(q)
    BY DEF SignInRequired, localAutomaticPrincipal, createPrincipalResolverFromEnv
  <2>2. PICK a \in EntraPrincipal(q) :
          f = [q EXCEPT !.internal = {[subject |-> a.subject, tenant |-> a.tenant,
                                       roles |-> a.roles]}]
    BY <1>1, <2>1 DEF proxy
  <2>3. f.internal = {[subject |-> a.subject, tenant |-> a.tenant, roles |-> a.roles]}
    BY <2>2, RequestAssumption
  <2> QED
    BY <1>3, <2>3
<1>6. PICK t \in q.bearer : EntraAccepts(t) /\ a.subject \in t.subject /\ a.roles = t.roles
  BY DEF EntraPrincipal
<1>7. action \in actionsForRoles(p.roles)
  BY DEF requirePrincipal, evaluate
<1> QED
  BY <1>4, <1>5, <1>6, <1>7

\* Who may compile may write: both are the author's.
LEMMA AuthorsWrite ==
  ASSUME NEW roles, "draft.compile" \in actionsForRoles(roles)
  PROVE  "draft.write" \in actionsForRoles(roles)
<1>1. PICK role \in roles : "draft.compile" \in ROLE_ACTIONS(role)
  BY DEF actionsForRoles
<1>2. role = "Harness.Author"
  BY <1>1 DEF ROLE_ACTIONS, READ_ACTIONS
<1>3. "draft.write" \in ROLE_ACTIONS(role)
  BY <1>2 DEF ROLE_ACTIONS
<1> QED
  BY <1>1, <1>3 DEF actionsForRoles

\* A handler runs for the person who signed in, whose roles allow its operation.
ActsFor(l) ==
  /\ l.actor = l.person
  /\ \E c \in Credentials : /\ c.person = l.person
                            /\ PlatformAction(l.op) \in actionsForRoles(c.token.roles)

HandlersActForTheirPerson == \A h \in Handlers : local[h] # Idle => ActsFor(local[h])

LEMMA AuthorizedActs ==
  ASSUME SignInRequired, TokensNameTheirHolder, NEW q \in AuthorizedRequests
  PROVE  ActsFor(q)
<1>1. PICK s \in Requests : \E p \in requirePrincipal(s, PlatformAction(s.op)) :
        q.person = s.person /\ q.op = s.op /\ q.actor = p.subject
  BY RequestFacts
<1>2. PICK p \in requirePrincipal(s, PlatformAction(s.op)) :
        q.person = s.person /\ q.op = s.op /\ q.actor = p.subject
  BY <1>1
<1>3. PICK t \in s.bearer : /\ EntraAccepts(t) /\ p.subject \in t.subject
                           /\ PlatformAction(s.op) \in actionsForRoles(t.roles)
  BY GuardNamesTheTokensSubject
<1>4. q.actor = q.person
  BY <1>2, <1>3 DEF TokensNameTheirHolder
<1>5. [person |-> s.person, token |-> t] \in Credentials
  BY DEF Credentials
<1> QED
  BY <1>2, <1>3, <1>4, <1>5 DEF ActsFor

SameRequest(m, l) == m.op = l.op /\ m.actor = l.actor /\ m.person = l.person

\* A decision ends the request or leaves it the same.
LEMMA DecisionKeepsRequest ==
  ASSUME NEW l, DOMAIN l = Fields, l.op \in {"attach", "caseWrites", "compile", "evaluate", "publish"},
         AfterReads(l) # Idle
  PROVE  SameRequest(AfterReads(l), l)
<1>1. ASSUME NEW pc, NEW base, NEW next, NEW plan
      PROVE  SameRequest(Decided(l, pc, base, next, plan), l)
  BY DecidedFields DEF SameRequest
<1>2. SameRequest([l EXCEPT !.todo = {"agents", "skills", "capabilities"}], l)
  BY DEF SameRequest
<1>3. CASE l.op = "attach"
  <2>1. \E base, next : AfterReads(l) = Decided(l, "update", base, next, {})
    BY <1>3, Zenon DEF AfterReads, afterAttach
  <2> QED
    BY <1>1, <2>1
<1>4. CASE l.op = "caseWrites"
  <2>1. \E base, next : AfterReads(l) = Decided(l, "update", base, next, {})
    BY <1>4, Zenon DEF AfterReads, afterCaseWrites
  <2> QED
    BY <1>1, <2>1
<1>5. CASE l.op = "compile"
  <2>1. \/ AfterReads(l) = [l EXCEPT !.todo = {"agents", "skills", "capabilities"}]
        \/ \E pc, base, next, plan, expected :
             AfterReads(l) = [Decided(l, pc, base, next, plan) EXCEPT !.expected = expected]
    BY <1>5, Zenon DEF AfterReads, afterCompile
  <2>2. CASE AfterReads(l) = [l EXCEPT !.todo = {"agents", "skills", "capabilities"}]
    BY <1>2, <2>2
  <2>3. CASE \E pc, base, next, plan, expected :
               AfterReads(l) = [Decided(l, pc, base, next, plan) EXCEPT !.expected = expected]
    <3>1. PICK pc, base, next, plan, expected :
            AfterReads(l) = [Decided(l, pc, base, next, plan) EXCEPT !.expected = expected]
      BY <2>3
    <3> DEFINE n == Decided(l, pc, base, next, plan)
    <3>2. DOMAIN n = Fields /\ SameRequest(n, l)
      BY DecidedFields DEF SameRequest
    <3> HIDE DEF n
    <3>3. AfterReads(l) = [n EXCEPT !.expected = expected]
      BY <3>1 DEF n
    <3> QED
      BY <3>2, <3>3 DEF SameRequest, Fields
  <2> QED
    BY <2>1, <2>2, <2>3
<1>6. CASE l.op \in {"evaluate", "publish"}
  <2>1. \E pc, plan : AfterReads(l) = Decided(l, pc, {}, {}, plan)
    BY <1>6, Zenon DEF AfterReads, afterEvaluate, afterPublish
  <2> QED
    BY <1>1, <2>1
<1> QED
  BY <1>3, <1>4, <1>5, <1>6

\* A step of a handler starts it on an authorized request, ends it, or leaves
\* it with the one it has.
LEMMA RequestIsKept ==
  ASSUME IInv, [Next]_vars, NEW h \in Handlers, local'[h] # Idle
  PROVE  \/ \E q \in AuthorizedRequests : SameRequest(local'[h], q)
         \/ local[h] # Idle /\ SameRequest(local'[h], local[h])
<1> DEFINE l == local[h]
           m == local'[h]
<1>1. CASE m = l
  BY <1>1 DEF SameRequest
<1>2. CASE Receive(h)
  <2>1. PICK q \in AuthorizedRequests : \E expected, bundle : m = Started(q, expected, bundle)
    BY <1>2 DEF Receive, IInv
  <2>2. PICK expected, bundle : m = Started(q, expected, bundle)
    BY <2>1
  <2>3. SameRequest(Started(q, expected, bundle), q)
    <3> HIDE DEF m
    <3> QED
      BY DEF Started, SameRequest
  <2> QED
    BY <2>2, <2>3
<1>3. ASSUME NEW table \in Tables, Read(h, table)
      PROVE  l # Idle /\ SameRequest(m, l)
  <2> DEFINE k == [l EXCEPT !.seen[table] = {Table(table)}, !.todo = @ \ {table}]
  <2>1. l.pc = "read" /\ m = IF k.todo = {} THEN AfterReads(k) ELSE k
    BY <1>3 DEF Read, IInv
  <2>2. DOMAIN l = Fields /\ Flow(l)
    BY <2>1, BusyFields DEF IInv, HandlersAreConsistent
  <2>3. DOMAIN k = Fields /\ SameRequest(k, l)
    BY <2>2 DEF Fields, SameRequest
  <2>4. k.op \in {"attach", "caseWrites", "compile", "evaluate", "publish"}
    BY <2>1, <2>2, <2>3 DEF Flow, Visits, SameRequest
  <2> HIDE DEF k
  <2>5. SameRequest(m, k)
    BY <2>1, <2>3, <2>4, DecisionKeepsRequest DEF SameRequest
  <2>6. l # Idle
    BY <2>1 DEF Idle
  <2> QED
    BY <2>3, <2>5, <2>6 DEF SameRequest
<1>4. ASSUME \/ createAuthoringDraft(h) \/ updateAuthoringSources(h) \/ setAuthoringLifecycle(h)
      PROVE  l # Idle /\ SameRequest(m, l)
  <2>1. l.pc # "idle"
    BY <1>4 DEF createAuthoringDraft, updateAuthoringSources, setAuthoringLifecycle
  <2>2. \E type : m = [l EXCEPT !.pc = "event", !.event = type]
    BY <1>4 DEF createAuthoringDraft, updateAuthoringSources, setAuthoringLifecycle, Refuse, ThenEvent,
       IInv
  <2>3. l # Idle /\ DOMAIN l = Fields
    BY <2>1, BusyFields DEF Idle, IInv, HandlersAreConsistent
  <2> QED
    BY <2>2, <2>3 DEF SameRequest, Fields
<1>5. ASSUME CheckDuties(h) \/ AdmitPlan(h) \/ InsertEvent(h) \/ ImportSkill(h)
      PROVE  l # Idle /\ SameRequest(m, l)
  <2>1. l.pc # "idle"
    BY <1>5 DEF CheckDuties, AdmitPlan, InsertEvent, ImportSkill
  <2>6. l # Idle /\ DOMAIN l = Fields
    BY <2>1, BusyFields DEF Idle, IInv, HandlersAreConsistent
  <2>2. CASE CheckDuties(h)
    BY <2>2, <2>6 DEF CheckDuties, Refuse, IInv, SameRequest, Fields
  <2>3. CASE AdmitPlan(h)
    BY <2>3, <2>6 DEF AdmitPlan, IInv, SameRequest, Fields
  <2>4. CASE InsertEvent(h)
    BY <2>4, <2>6 DEF InsertEvent, IInv, SameRequest, Fields
  <2>5. CASE ImportSkill(h)
    BY <2>5, <2>6 DEF ImportSkill, IInv, SameRequest, Fields
  <2> QED
    BY <1>5, <2>6, <2>2, <2>3, <2>4, <2>5, <2>6
<1>6. ~CompilerFails(h) /\ ~ImportAgent(h) /\ ~Abort(h)
  BY DEF CompilerFails, ImportAgent, Abort, Refuse, IInv
<1> QED
  BY <1>1, <1>2, <1>3, <1>4, <1>5, <1>6, OwnStatements

\* Every event is inserted by the handler whose operation it is about.
LEMMA EventsComeFromHandlers ==
  ASSUME IInv, [Next]_vars, NEW e \in events', e \notin events
  PROVE  \E h \in Handlers : /\ local[h] # Idle
                            /\ e.type \in EventsOf(local[h].op)
                            /\ e.actor = local[h].actor /\ e.person = local[h].person
<1>1. PICK h \in Handlers : InsertEvent(h)
  <2>1. events' # events
    OBVIOUS
  <2> QED
    BY <2>1 DEF Next, vars, shared, Receive, Read, createAuthoringDraft, updateAuthoringSources,
       CheckDuties, AdmitPlan, setAuthoringLifecycle, CompilerFails, ImportSkill, ImportAgent, Abort,
       RegisterOne
<1>2. /\ local[h].pc = "event"
      /\ e = [type |-> local[h].event, actor |-> local[h].actor, person |-> local[h].person]
  BY <1>1 DEF InsertEvent
<1>3. local[h].event \in EventsOf(local[h].op) /\ local[h] # Idle
  BY <1>2, BusyFields DEF IInv, HandlersAreConsistent, Flow, Idle
<1> QED
  BY <1>2, <1>3

\* What allowed the operation allows what its event says was done.
LEMMA EventIsAllowed ==
  ASSUME NEW op, NEW type \in EventsOf(op), NEW roles, PlatformAction(op) \in actionsForRoles(roles)
  PROVE  EventAction(type) \in actionsForRoles(roles)
<1>1. \/ EventAction(type) = PlatformAction(op)
      \/ EventAction(type) = "draft.write" /\ PlatformAction(op) = "draft.compile"
  <2>1. op \in {"create", "compile", "evaluate", "approve", "publish"} \cup Edits
    BY DEF EventsOf
  <2>2. CASE op \in Edits \cup {"create"}
    <3>1. type \in {"draft.created", "draft.updated"}
      BY <2>2 DEF EventsOf, Edits
    <3>2. EventAction(type) = "draft.write" /\ PlatformAction(op) = "draft.write"
      BY <2>2, <3>1 DEF EventAction, PlatformAction, Edits
    <3> QED
      BY <3>2
  <2>3. CASE op = "compile"
    <3>1. type \in {"draft.updated", "draft.compiled"} /\ PlatformAction(op) = "draft.compile"
      BY <2>3 DEF EventsOf, PlatformAction, Edits
    <3>2. EventAction(type) \in {"draft.write", "draft.compile"}
      BY <3>1 DEF EventAction
    <3> QED
      BY <3>1, <3>2
  <2>4. CASE op = "evaluate"
    <3>1. type = "draft.evaluated" /\ PlatformAction(op) = "draft.evaluate"
      BY <2>4 DEF EventsOf, PlatformAction, Edits
    <3> QED
      BY <3>1 DEF EventAction
  <2>5. CASE op = "approve"
    <3>1. type = "draft.approved" /\ PlatformAction(op) = "draft.approve"
      BY <2>5 DEF EventsOf, PlatformAction, Edits
    <3> QED
      BY <3>1 DEF EventAction
  <2>6. CASE op = "publish"
    <3>1. type = "draft.published" /\ PlatformAction(op) = "draft.publish"
      BY <2>6 DEF EventsOf, PlatformAction, Edits
    <3> QED
      BY <3>1 DEF EventAction
  <2> QED
    BY <2>1, <2>2, <2>3, <2>4, <2>5, <2>6
<1> QED
  BY <1>1, AuthorsWrite

\* The audit trail can be trusted where people sign in with tokens: the actor of
\* each event is the person whose token the edge accepted, and the roles of that
\* token allow what the event says was done, whatever headers requests carry.
THEOREM EventsAreAttributed ==
  ASSUME SignInRequired, TokensNameTheirHolder
  PROVE  Spec => []EventsNameTheirActor
<1>1. Init => HandlersActForTheirPerson /\ EventsNameTheirActor
  BY DEF Init, HandlersActForTheirPerson, EventsNameTheirActor
<1>2. IInv /\ HandlersActForTheirPerson /\ EventsNameTheirActor /\ [Next]_vars
        => HandlersActForTheirPerson' /\ EventsNameTheirActor'
  <2> SUFFICES ASSUME IInv, HandlersActForTheirPerson, EventsNameTheirActor, [Next]_vars
               PROVE  HandlersActForTheirPerson' /\ EventsNameTheirActor'
    OBVIOUS
  <2>1. ASSUME NEW h \in Handlers, local'[h] # Idle
        PROVE  ActsFor(local'[h])
    <3>1. ASSUME NEW q, ActsFor(q), SameRequest(local'[h], q)
          PROVE  ActsFor(local'[h])
      BY <3>1 DEF ActsFor, SameRequest
    <3> QED
      BY <2>1, <3>1, RequestIsKept, AuthorizedActs DEF HandlersActForTheirPerson
  <2>2. ASSUME NEW e \in events', e \notin events
        PROVE  /\ e.actor = e.person
               /\ \E c \in Credentials : c.person = e.person
                                       /\ EventAction(e.type) \in actionsForRoles(c.token.roles)
    <3>1. PICK h \in Handlers : /\ local[h] # Idle
                              /\ e.type \in EventsOf(local[h].op)
                              /\ e.actor = local[h].actor /\ e.person = local[h].person
      BY <2>2, EventsComeFromHandlers
    <3>2. PICK c \in Credentials : /\ c.person = local[h].person
                                  /\ PlatformAction(local[h].op) \in actionsForRoles(c.token.roles)
      BY <3>1 DEF HandlersActForTheirPerson, ActsFor
    <3>3. EventAction(e.type) \in actionsForRoles(c.token.roles)
      BY <3>1, <3>2, EventIsAllowed
    <3>4. local[h].actor = local[h].person
      BY <3>1 DEF HandlersActForTheirPerson, ActsFor
    <3> QED
      BY <3>1, <3>2, <3>3, <3>4
  <2> QED
    BY <2>1, <2>2 DEF HandlersActForTheirPerson, EventsNameTheirActor
<1> QED
  BY <1>1, <1>2, Invariance, PTL DEF Spec

-----------------------------------------------------------------------------
(* topologicalOrder *)

LEMMA ListFacts ==
  ASSUME NEW x, IsList(x)
  PROVE  /\ Len(x) \in Nat /\ DOMAIN x = 1 .. Len(x)
         /\ IsFiniteSet(DOMAIN x) /\ DOMAIN x \subseteq Nat /\ Cardinality(DOMAIN x) = Len(x)
<1>1. Len(x) \in Nat /\ DOMAIN x = 1 .. Len(x)
  BY DEF IsList
<1>2. \A n \in Nat : IsFiniteSet(1 .. n) /\ Cardinality(1 .. n) = n
  BY FS_Interval
<1> QED
  BY <1>1, <1>2

\* A function on an initial segment of the naturals is a list.
LEMMA SegmentIsList ==
  ASSUME NEW n \in Nat, NEW x, x = [i \in 1 .. n |-> x[i]]
  PROVE  IsList(x) /\ DOMAIN x = 1 .. n /\ Len(x) = n
<1>1. DOMAIN x = 1 .. n
  OBVIOUS
<1>2. x \in [1 .. n -> ToSet(x)]
  BY <1>1 DEF ToSet
<1>3. x \in Seq(ToSet(x)) /\ Len(x) = n
  BY <1>2
<1> QED
  BY <1>1, <1>3 DEF IsList

LEMMA SequenceIsList ==
  ASSUME NEW S, NEW x \in Seq(S)
  PROVE  IsList(x)
<1>1. Len(x) \in Nat /\ x = [i \in 1 .. Len(x) |-> x[i]]
  OBVIOUS
<1> QED
  BY <1>1, SegmentIsList

LEMMA ConcatFacts ==
  ASSUME NEW p, NEW q, IsList(p), IsList(q)
  PROVE  /\ IsList(p \o q) /\ DOMAIN (p \o q) = 1 .. (Len(p) + Len(q)) /\ Len(p \o q) = Len(p) + Len(q)
         /\ \A k \in 1 .. (Len(p) + Len(q)) : (p \o q)[k] = IF k <= Len(p) THEN p[k] ELSE q[k - Len(p)]
<1> DEFINE S == ToSet(p) \cup ToSet(q)
<1>1. p \in Seq(S) /\ q \in Seq(S)
  <2>1. p \in Seq(ToSet(p)) /\ q \in Seq(ToSet(q))
    BY DEF IsList
  <2>2. ToSet(p) \subseteq S /\ ToSet(q) \subseteq S
    OBVIOUS
  <2> HIDE DEF S
  <2> QED
    BY <2>1, <2>2
<1> HIDE DEF S
<1>2. p \o q \in Seq(S)
  BY <1>1
<1>3. Len(p \o q) = Len(p) + Len(q)
  BY <1>1
<1>4. \A k \in 1 .. (Len(p) + Len(q)) : (p \o q)[k] = IF k <= Len(p) THEN p[k] ELSE q[k - Len(p)]
  BY <1>1
<1>5. DOMAIN (p \o q) = 1 .. (Len(p) + Len(q))
  BY <1>2, <1>3
<1> QED
  BY <1>2, <1>3, <1>4, <1>5, SequenceIsList

\* The edges into a node whose source is not in the order yet.
Waiting(edges, order, id) == {i \in DOMAIN edges : edges[i].to = id /\ edges[i].from \notin ToSet(order)}

\* Every node in the order is there once and comes after the sources of its edges; a node on the
\* queue waits for none; the counts are those of the edges still waiting.
Sorted(nodes, edges, s) ==
  /\ IsList(s.order) /\ ToSet(s.order) \subseteq Ids(nodes)
  /\ IsList(s.queue) /\ ToSet(s.queue) \subseteq Ids(nodes)
  /\ DOMAIN s.incoming = Ids(nodes)
  /\ \A id \in Ids(nodes) : s.incoming[id] = Cardinality(Waiting(edges, s.order, id))
  /\ \A i, j \in DOMAIN s.order : s.order[i] = s.order[j] => i = j
  /\ \A i, j \in DOMAIN s.queue : s.queue[i] = s.queue[j] => i = j
  /\ \A i \in DOMAIN s.order, j \in DOMAIN s.queue : s.order[i] # s.queue[j]
  /\ \A j \in DOMAIN s.queue : Waiting(edges, s.order, s.queue[j]) = {}
  /\ \A i \in DOMAIN edges, j \in DOMAIN s.order :
       edges[i].to = s.order[j] => \E k \in 1 .. (j - 1) : s.order[k] = edges[i].from

\* The ids of nodes differ, and every edge joins two of them.
IsGraph(nodes, edges) ==
  /\ IsList(nodes) /\ IsList(edges)
  /\ \A i, k \in DOMAIN nodes : nodes[i].id = nodes[k].id => i = k
  /\ \A i \in DOMAIN edges : edges[i].from \in Ids(nodes) /\ edges[i].to \in Ids(nodes)

LEMMA StartIsSorted ==
  ASSUME NEW nodes, NEW edges, IsGraph(nodes, edges)
  PROVE  Sorted(nodes, edges, start(nodes, edges))
<1> DEFINE I    == {i \in DOMAIN nodes : EdgesInto(edges, DOMAIN edges, nodes[i].id) = {}}
           free == Subsequence(nodes, I)
           s    == start(nodes, edges)
<1>1. KnownEdges(nodes, edges) = DOMAIN edges
  BY DEF KnownEdges, IsGraph
<1>2. /\ s.incoming = [id \in Ids(nodes) |-> Cardinality(EdgesInto(edges, DOMAIN edges, id))]
      /\ s.queue = [k \in DOMAIN free |-> free[k].id]
      /\ s.order = <<>>
  BY <1>1 DEF start
<1>3. /\ DOMAIN free = 1 .. Cardinality(I) /\ Cardinality(I) \in Nat
      /\ \A k \in DOMAIN free : \E i \in I : Rank(I, i) = k /\ free[k] = nodes[i]
  <2>1. I \in SUBSET Nat /\ IsFiniteSet(I)
    BY ListFacts, FS_Subset DEF IsGraph
  <2> HIDE DEF I
  <2> QED
    BY <2>1, SubsequencePicks, FS_CardinalityType
<1>4. \A id : Waiting(edges, s.order, id) = EdgesInto(edges, DOMAIN edges, id)
  BY <1>2 DEF Waiting, EdgesInto, ToSet
<1> HIDE DEF free, s
<1>5. \A k \in DOMAIN s.queue : \E i \in I : Rank(I, i) = k /\ s.queue[k] = nodes[i].id
  <2> HIDE DEF I
  <2>1. DOMAIN s.queue = DOMAIN free /\ \A k \in DOMAIN free : s.queue[k] = free[k].id
    BY <1>2
  <2> QED
    BY <1>3, <2>1
<1>6. IsList(s.queue)
  BY <1>2, <1>3, SegmentIsList
<1>7. ToSet(s.queue) \subseteq Ids(nodes)
  BY <1>5 DEF ToSet, Ids
<1>8. IsList(s.order) /\ DOMAIN s.order = {} /\ ToSet(s.order) = {}
  BY <1>2 DEF IsList, ToSet
<1>9. \A i, j \in DOMAIN s.queue : s.queue[i] = s.queue[j] => i = j
  BY <1>5 DEF IsGraph
<1>10. \A j \in DOMAIN s.queue : Waiting(edges, s.order, s.queue[j]) = {}
  BY <1>4, <1>5
<1> QED
  BY <1>2, <1>4, <1>6, <1>7, <1>8, <1>9, <1>10 DEF Sorted, s

\* Taking the node at the head of the queue.
LEMMA ReleaseKeepsSorted ==
  ASSUME NEW nodes, NEW edges, IsGraph(nodes, edges), NEW s, Sorted(nodes, edges, s), s.queue # <<>>
  PROVE  Sorted(nodes, edges, release(edges, DOMAIN edges, s))
<1> DEFINE E     == DOMAIN edges
           id    == Head(s.queue)
           out   == EdgesFrom(edges, E, id)
           Up(i) == {j \in EdgesInto(edges, out, edges[i].to) : j <= i}
           last  == {i \in out : s.incoming[edges[i].to] = Cardinality(Up(i))}
           freed == Subsequence(edges, last)
           more  == [k \in DOMAIN freed |-> freed[k].to]
           t     == release(edges, E, s)
<1>1. /\ t.incoming = [n \in DOMAIN s.incoming |-> s.incoming[n] - Cardinality(EdgesInto(edges, out, n))]
      /\ t.queue = Tail(s.queue) \o more
      /\ t.order = Append(s.order, id)
  BY DEF release
<1> HIDE DEF t
<1>2. /\ Len(s.queue) \in Nat \ {0} /\ DOMAIN s.queue = 1 .. Len(s.queue) /\ id = s.queue[1]
      /\ Len(s.order) \in Nat /\ DOMAIN s.order = 1 .. Len(s.order)
      /\ DOMAIN Tail(s.queue) = 1 .. (Len(s.queue) - 1)
      /\ \A k \in 1 .. (Len(s.queue) - 1) : Tail(s.queue)[k] = s.queue[k + 1]
      /\ IsList(Tail(s.queue)) /\ Len(Tail(s.queue)) = Len(s.queue) - 1
  <2>1. s.queue \in Seq(ToSet(s.queue)) /\ s.order \in Seq(ToSet(s.order))
    BY DEF Sorted, IsList
  <2>2. /\ Len(s.queue) \in Nat \ {0} /\ DOMAIN s.queue = 1 .. Len(s.queue) /\ id = s.queue[1]
        /\ Len(s.order) \in Nat /\ DOMAIN s.order = 1 .. Len(s.order)
    BY <2>1
  <2>3. Tail(s.queue) = [k \in 1 .. (Len(s.queue) - 1) |-> s.queue[k + 1]]
    BY <2>1, <2>2
  <2>4. \A q : q = [k \in 1 .. (Len(s.queue) - 1) |-> s.queue[k + 1]] =>
                 /\ IsList(q) /\ DOMAIN q = 1 .. (Len(s.queue) - 1) /\ Len(q) = Len(s.queue) - 1
    BY <2>2, SegmentIsList
  <2> QED
    BY <2>2, <2>3, <2>4
<1> HIDE DEF id
<1>3. /\ id \in Ids(nodes) /\ id \notin ToSet(s.order) /\ Waiting(edges, s.order, id) = {}
      /\ \A j \in DOMAIN s.order : s.order[j] # id
  <2>1. 1 \in DOMAIN s.queue
    BY <1>2
  <2>2. id \in ToSet(s.queue)
    BY <1>2, <2>1 DEF ToSet
  <2>3. /\ Waiting(edges, s.order, id) = {}
        /\ \A j \in DOMAIN s.order : s.order[j] # id
    BY <1>2, <2>1 DEF Sorted
  <2>4. id \notin ToSet(s.order)
    BY <2>3 DEF ToSet
  <2> QED
    BY <2>2, <2>3, <2>4 DEF Sorted
\* The order with the node taken.
<1>4. /\ DOMAIN t.order = 1 .. (Len(s.order) + 1) /\ IsList(t.order)
      /\ t.order[Len(s.order) + 1] = id
      /\ \A j \in 1 .. Len(s.order) : t.order[j] = s.order[j]
      /\ ToSet(t.order) = ToSet(s.order) \cup {id}
  <2>1. Append(s.order, id) = [j \in 1 .. (Len(s.order) + 1) |-> IF j <= Len(s.order) THEN s.order[j] ELSE id]
    BY DEF Sorted, IsList
  <2>2. t.order = [j \in 1 .. (Len(s.order) + 1) |-> IF j <= Len(s.order) THEN s.order[j] ELSE id]
    BY <1>1, <2>1
  <2>3. /\ DOMAIN t.order = 1 .. (Len(s.order) + 1)
        /\ t.order[Len(s.order) + 1] = id
        /\ \A j \in 1 .. Len(s.order) : t.order[j] = s.order[j]
    BY <1>2, <2>2
  <2>4. IsList(t.order)
    BY <1>2, <2>2, <2>3, SegmentIsList
  <2>5. \A j \in 1 .. (Len(s.order) + 1) : j \in 1 .. Len(s.order) \/ j = Len(s.order) + 1
    BY <1>2
  <2>6. ToSet(t.order) = ToSet(s.order) \cup {id}
    <3>1. \A x \in ToSet(t.order) : x \in ToSet(s.order) \cup {id}
      BY <1>2, <2>3, <2>5 DEF ToSet
    <3>2. \A x \in ToSet(s.order) : x \in ToSet(t.order)
      <4> SUFFICES ASSUME NEW j \in DOMAIN s.order PROVE s.order[j] \in ToSet(t.order)
        BY DEF ToSet
      <4>1. j \in DOMAIN t.order /\ t.order[j] = s.order[j]
        BY <1>2, <2>3
      <4> QED
        BY <4>1 DEF ToSet
    <3>3. Len(s.order) + 1 \in DOMAIN t.order
      BY <1>2, <2>3
    <3>4. id \in ToSet(t.order)
      BY <2>3, <3>3 DEF ToSet
    <3> QED
      BY <3>1, <3>2, <3>4
  <2> QED
    BY <2>3, <2>4, <2>6
<1>5. \A n : /\ Waiting(edges, t.order, n) = Waiting(edges, s.order, n) \ EdgesInto(edges, out, n)
             /\ EdgesInto(edges, out, n) \subseteq Waiting(edges, s.order, n)
             /\ IsFiniteSet(Waiting(edges, s.order, n))
  <2>1. IsFiniteSet(E)
    BY ListFacts DEF IsGraph
  <2>2. \A n : Waiting(edges, s.order, n) \in SUBSET E
    BY DEF Waiting
  <2>3. \A n : IsFiniteSet(Waiting(edges, s.order, n))
    BY <2>1, <2>2, FS_Subset
  <2>4. \A n : EdgesInto(edges, out, n) \subseteq Waiting(edges, s.order, n)
    BY <1>3 DEF EdgesInto, EdgesFrom, Waiting
  <2>5. \A n : Waiting(edges, t.order, n) = Waiting(edges, s.order, n) \ EdgesInto(edges, out, n)
    BY <1>4 DEF EdgesInto, EdgesFrom, Waiting
  <2> QED
    BY <2>3, <2>4, <2>5
<1>6. \A n \in Ids(nodes) : t.incoming[n] = Cardinality(Waiting(edges, t.order, n))
  <2> SUFFICES ASSUME NEW n \in Ids(nodes)
               PROVE  t.incoming[n] = Cardinality(Waiting(edges, t.order, n))
    OBVIOUS
  <2> DEFINE W == Waiting(edges, s.order, n)
             D == EdgesInto(edges, out, n)
  <2>1. t.incoming[n] = Cardinality(W) - Cardinality(D)
    BY <1>1 DEF Sorted
  <2>2. IsFiniteSet(W) /\ W \cap D = D /\ Waiting(edges, t.order, n) = W \ D
    BY <1>5
  <2> HIDE DEF W, D
  <2>3. Cardinality(W \ D) = Cardinality(W) - Cardinality(D)
    BY <2>2, FS_Difference
  <2> QED
    BY <2>1, <2>2, <2>3
\* An edge that frees its target is the last one the target waited for.
<1>7. ASSUME NEW i \in last
      PROVE  /\ edges[i].to \in Ids(nodes) /\ i \in E /\ edges[i].from = id
             /\ i \in Waiting(edges, s.order, edges[i].to)
             /\ Waiting(edges, s.order, edges[i].to) = Up(i)
             /\ Waiting(edges, t.order, edges[i].to) = {}
  <2> DEFINE n == edges[i].to
             W == Waiting(edges, s.order, n)
  <2>1. i \in E /\ edges[i].from = id /\ n \in Ids(nodes)
    BY DEF EdgesFrom, IsGraph
  <2>2. Up(i) \subseteq EdgesInto(edges, out, n) /\ EdgesInto(edges, out, n) \subseteq W
    BY <1>5
  <2>3. Cardinality(W) = Cardinality(Up(i))
    BY <2>1 DEF Sorted
  <2>4. W = Up(i)
    <3>1. IsFiniteSet(W) /\ Up(i) \in SUBSET W
      BY <1>5, <2>2
    <3> HIDE DEF W, Up
    <3> QED
      BY <2>3, <3>1, FS_Subset
  <2>5. i \in W
    BY <1>3, <2>1 DEF Waiting
  <2>6. Waiting(edges, t.order, n) = {}
    <3>1. W \subseteq EdgesInto(edges, out, n)
      BY <2>2, <2>4
    <3> QED
      BY <1>5, <3>1
  <2> QED
    BY <2>1, <2>4, <2>5, <2>6
<1>8. \A i, k \in last : edges[i].to = edges[k].to => i = k
  <2> SUFFICES ASSUME NEW i \in last, NEW k \in last, edges[i].to = edges[k].to
               PROVE  i = k
    OBVIOUS
  <2>1. i \in Up(k) /\ k \in Up(i)
    BY <1>7
  <2>2. i \in Nat /\ k \in Nat /\ i <= k /\ k <= i
    BY <1>7, <2>1, ListFacts DEF IsGraph
  <2> QED
    BY <2>2
<1>9. /\ DOMAIN more = 1 .. Cardinality(last) /\ Cardinality(last) \in Nat /\ IsList(more)
      /\ Len(more) = Cardinality(last)
      /\ \A k \in DOMAIN more : \E i \in last : Rank(last, i) = k /\ more[k] = edges[i].to
  <2>1. last \in SUBSET Nat /\ IsFiniteSet(last)
    <3>1. last \in SUBSET E
      BY <1>7
    <3> QED
      BY <3>1, ListFacts, FS_Subset DEF IsGraph
  <2> HIDE DEF last
  <2>2. /\ DOMAIN freed = 1 .. Cardinality(last) /\ Cardinality(last) \in Nat
        /\ \A k \in DOMAIN freed : \E i \in last : Rank(last, i) = k /\ freed[k] = edges[i]
    BY <2>1, SubsequencePicks, FS_CardinalityType
  <2> HIDE DEF freed
  <2>3. IsList(more) /\ Len(more) = Cardinality(last)
    BY <2>2, SegmentIsList
  <2> QED
    BY <2>2, <2>3
<1> HIDE DEF more, last, Up, out
<1>10. \A i, k \in DOMAIN more : more[i] = more[k] => i = k
  BY <1>8, <1>9
<1>11. \A k \in DOMAIN more : /\ more[k] \in Ids(nodes)
                              /\ Waiting(edges, s.order, more[k]) # {}
                              /\ Waiting(edges, t.order, more[k]) = {}
  BY <1>7, <1>9
\* Who is in the order waited for nobody outside it.
<1>12. \A j \in DOMAIN s.order : Waiting(edges, s.order, s.order[j]) = {}
  <2> SUFFICES ASSUME NEW j \in DOMAIN s.order, NEW i \in Waiting(edges, s.order, s.order[j])
               PROVE  FALSE
    OBVIOUS
  <2>1. i \in E /\ edges[i].to = s.order[j] /\ edges[i].from \notin ToSet(s.order)
    BY DEF Waiting
  <2>2. PICK k \in 1 .. (j - 1) : s.order[k] = edges[i].from
    BY <2>1 DEF Sorted
  <2>3. k \in DOMAIN s.order
    BY <1>2, <2>2
  <2> QED
    BY <2>1, <2>2, <2>3 DEF ToSet
<1> DEFINE m == Len(s.queue) - 1
<1>13. /\ DOMAIN t.queue = 1 .. (m + Cardinality(last)) /\ IsList(t.queue) /\ m \in Nat
       /\ \A k \in 1 .. m : t.queue[k] = s.queue[k + 1]
       /\ \A k \in 1 .. (m + Cardinality(last)) : k \notin 1 .. m =>
            k - m \in DOMAIN more /\ t.queue[k] = more[k - m]
  <2>1. Len(Tail(s.queue)) = m /\ Len(more) = Cardinality(last)
    BY <1>2, <1>9
  <2>2. /\ DOMAIN t.queue = 1 .. (m + Cardinality(last)) /\ IsList(t.queue)
        /\ \A k \in 1 .. (m + Cardinality(last)) :
             t.queue[k] = IF k <= m THEN Tail(s.queue)[k] ELSE more[k - m]
    <3> DEFINE p == Tail(s.queue)
    <3>1. IsList(p) /\ IsList(more) /\ Len(p) = m /\ Len(more) = Cardinality(last) /\ t.queue = p \o more
      BY <1>1, <1>2, <1>9, <2>1
    <3> HIDE DEF m, p
    <3>2. /\ IsList(p \o more) /\ DOMAIN (p \o more) = 1 .. (Len(p) + Len(more))
          /\ \A k \in 1 .. (Len(p) + Len(more)) : (p \o more)[k] = IF k <= Len(p) THEN p[k] ELSE more[k - Len(p)]
      BY <3>1, ConcatFacts
    <3>3. /\ DOMAIN t.queue = 1 .. (m + Cardinality(last)) /\ IsList(t.queue)
          /\ \A k \in 1 .. (m + Cardinality(last)) : t.queue[k] = IF k <= m THEN p[k] ELSE more[k - m]
      BY <3>1, <3>2
    <3> QED
      BY <3>3 DEF p
  <2>3. m \in Nat
    BY <1>2
  <2> HIDE DEF m
  <2>4. /\ \A k \in 1 .. m : k \in 1 .. (m + Cardinality(last)) /\ k <= m
        /\ \A k \in 1 .. (m + Cardinality(last)) : k \notin 1 .. m =>
             k - m \in 1 .. Cardinality(last) /\ ~(k <= m)
    BY <1>9, <2>3
  <2> QED
    BY <1>2, <1>9, <2>2, <2>3, <2>4 DEF m
<1>14. \A k \in 1 .. m : k + 1 \in DOMAIN s.queue /\ k + 1 # 1
  BY <1>2, <1>13
<1>15. ToSet(t.queue) \subseteq Ids(nodes)
  <2>1. \A k \in DOMAIN s.queue : s.queue[k] \in Ids(nodes)
    BY DEF Sorted, ToSet
  <2>2. \A k \in DOMAIN t.queue : t.queue[k] \in Ids(nodes)
    BY <1>11, <1>13, <1>14, <2>1
  <2> QED
    BY <2>2 DEF ToSet
<1>16. \A j \in DOMAIN t.queue : Waiting(edges, t.order, t.queue[j]) = {}
  <2>1. \A j \in DOMAIN s.queue : Waiting(edges, t.order, s.queue[j]) = {}
    BY <1>5 DEF Sorted
  <2> QED
    BY <1>11, <1>13, <1>14, <2>1
<1>17. \A i, j \in DOMAIN t.queue : t.queue[i] = t.queue[j] => i = j
  <2> SUFFICES ASSUME NEW i \in DOMAIN t.queue, NEW j \in DOMAIN t.queue, t.queue[i] = t.queue[j]
               PROVE  i = j
    OBVIOUS
  <2>1. \A k \in DOMAIN s.queue : Waiting(edges, s.order, s.queue[k]) = {}
    BY DEF Sorted
  <2>2. CASE i \in 1 .. m /\ j \in 1 .. m
    <3>1. i + 1 = j + 1
      BY <1>13, <1>14, <2>2 DEF Sorted
    <3> QED
      BY <2>2, <3>1
  <2>3. CASE i \notin 1 .. m /\ j \notin 1 .. m
    <3>1. i - m = j - m
      BY <1>10, <1>13, <2>3
    <3> QED
      BY <1>9, <1>13, <3>1
  <2>4. \A k \in DOMAIN t.queue :
          /\ k \in 1 .. m => Waiting(edges, s.order, t.queue[k]) = {}
          /\ k \notin 1 .. m => Waiting(edges, s.order, t.queue[k]) # {}
    <3>1. \A k \in 1 .. m : Waiting(edges, s.order, t.queue[k]) = {}
      BY <1>13, <1>14, <2>1
    <3>2. \A k \in DOMAIN t.queue : k \notin 1 .. m => Waiting(edges, s.order, t.queue[k]) # {}
      BY <1>11, <1>13
    <3> QED
      BY <3>1, <3>2
  <2> QED
    BY <2>2, <2>3, <2>4
<1>18. \A i \in DOMAIN t.order, j \in DOMAIN t.queue : t.order[i] # t.queue[j]
  <2> SUFFICES ASSUME NEW i \in DOMAIN t.order, NEW j \in DOMAIN t.queue
               PROVE  t.order[i] # t.queue[j]
    OBVIOUS
  <2>1. CASE j \in 1 .. m
    <3>1. t.queue[j] = s.queue[j + 1] /\ j + 1 \in DOMAIN s.queue /\ j + 1 # 1
      BY <1>13, <1>14, <2>1
    <3>2. s.queue[j + 1] # id
      BY <1>2, <3>1 DEF Sorted
    <3>3. i \in DOMAIN s.order \/ t.order[i] = id
      BY <1>2, <1>4
    <3> QED
      BY <1>2, <1>4, <3>1, <3>2, <3>3 DEF Sorted
  <2>2. CASE j \notin 1 .. m
    <3>1. Waiting(edges, s.order, t.queue[j]) # {}
      BY <1>11, <1>13, <2>2
    <3>2. t.order[i] = id \/ \E k \in DOMAIN s.order : t.order[i] = s.order[k]
      BY <1>2, <1>4
    <3> QED
      BY <1>3, <1>12, <3>1, <3>2
  <2> QED
    BY <2>1, <2>2
<1>19. \A i, j \in DOMAIN t.order : t.order[i] = t.order[j] => i = j
  <2> SUFFICES ASSUME NEW i \in DOMAIN t.order, NEW j \in DOMAIN t.order, t.order[i] = t.order[j]
               PROVE  i = j
    OBVIOUS
  <2>1. /\ i \in DOMAIN s.order \/ i = Len(s.order) + 1
        /\ j \in DOMAIN s.order \/ j = Len(s.order) + 1
    BY <1>2, <1>4
  <2> QED
    BY <1>2, <1>3, <1>4, <2>1 DEF Sorted
<1>20. ASSUME NEW i \in E, NEW j \in DOMAIN t.order, edges[i].to = t.order[j]
       PROVE  \E k \in 1 .. (j - 1) : t.order[k] = edges[i].from
  <2>1. CASE j \in DOMAIN s.order
    <3>1. PICK k \in 1 .. (j - 1) : s.order[k] = edges[i].from
      BY <1>2, <1>4, <1>20, <2>1 DEF Sorted
    <3>2. k \in 1 .. Len(s.order)
      BY <1>2, <2>1
    <3> QED
      BY <1>4, <3>1, <3>2
  <2>2. CASE j = Len(s.order) + 1
    <3>1. edges[i].from \in ToSet(s.order)
      BY <1>3, <1>4, <1>20, <2>2 DEF Waiting
    <3>2. PICK k \in 1 .. Len(s.order) : s.order[k] = edges[i].from
      BY <1>2, <3>1 DEF ToSet
    <3>3. k \in 1 .. (j - 1)
      BY <1>2, <2>2
    <3> QED
      BY <1>4, <3>2, <3>3
  <2> QED
    BY <1>2, <1>4, <2>1, <2>2
<1>21. ToSet(t.order) \subseteq Ids(nodes) /\ DOMAIN t.incoming = Ids(nodes)
  BY <1>1, <1>3, <1>4 DEF Sorted
<1> QED
  BY <1>4, <1>6, <1>13, <1>15, <1>16, <1>17, <1>18, <1>19, <1>20, <1>21 DEF Sorted, t

\* A step of the loop.
Taken(nodes, edges, s) == IF s.queue = <<>> THEN s ELSE release(edges, KnownEdges(nodes, edges), s)

\* The loop's states, one after the other.
LEMMA OrderingUnfolds ==
  ASSUME NEW nodes, NEW edges, Len(nodes) \in Nat
  PROVE  /\ ordering(nodes, edges)[0] = start(nodes, edges)
         /\ \A k \in 1 .. Len(nodes) :
              ordering(nodes, edges)[k] = Taken(nodes, edges, ordering(nodes, edges)[k - 1])
<1> DEFINE Then(s)    == Taken(nodes, edges, s)
           first      == start(nodes, edges)
           Runs(f, m) == f = [k \in 0 .. m |-> IF k = 0 THEN first ELSE Then(f[k - 1])]
           n          == Len(nodes)
           o          == ordering(nodes, edges)
<1>1. o = CHOOSE f : Runs(f, n)
  BY DEF ordering, Taken
<1> HIDE DEF Then, first, o
<1>2. \A m \in Nat : \E f : Runs(f, m)
  <2> DEFINE T == {m \in Nat : ~\E f : Runs(f, m)}
  <2> SUFFICES ASSUME T # {} PROVE FALSE
    OBVIOUS
  <2>1. PICK m \in T : \A k \in T : m <= k
    <3> HIDE DEF T
    <3>1. T \in SUBSET Nat
      BY DEF T
    <3> QED
      BY <3>1, LeastExists
  <2>2. CASE m = 0
    <3> DEFINE g == [k \in 0 .. m |-> first]
    <3>1. Runs(g, m)
      BY <2>2
    <3> QED
      BY <2>1, <3>1
  <2>3. CASE m # 0
    <3>1. m - 1 \in Nat /\ m - 1 \notin T
      <4>1. m \in Nat
        OBVIOUS
      <4> HIDE DEF T
      <4> QED
        BY <2>1, <2>3, <4>1
    <3>2. PICK f : Runs(f, m - 1)
      BY <3>1
    <3> DEFINE g == [k \in 0 .. m |-> IF k < m THEN f[k] ELSE Then(f[m - 1])]
    <3>3. \A k \in 0 .. m : g[k] = IF k = 0 THEN first ELSE Then(g[k - 1])
      <4> SUFFICES ASSUME NEW k \in 0 .. m
                   PROVE  g[k] = IF k = 0 THEN first ELSE Then(g[k - 1])
        OBVIOUS
      <4>1. CASE k = 0
        BY <2>3, <3>1, <3>2, <4>1
      <4>2. CASE k # 0 /\ k < m
        <5>1. k \in 0 .. (m - 1) /\ k - 1 \in 0 .. m /\ k - 1 < m
          BY <3>1, <4>2
        <5>2. g[k] = f[k] /\ g[k - 1] = f[k - 1]
          BY <4>2, <5>1
        <5>3. f[k] = Then(f[k - 1])
          BY <3>2, <4>2, <5>1
        <5> QED
          BY <4>2, <5>2, <5>3
      <4>3. CASE k = m
        <5>1. k - 1 \in 0 .. m /\ k - 1 < m /\ k # 0
          BY <2>3, <3>1, <4>3
        <5>2. g[k] = Then(f[m - 1]) /\ g[k - 1] = f[m - 1]
          BY <4>3, <5>1
        <5> QED
          BY <5>1, <5>2
      <4> QED
        BY <3>1, <4>1, <4>2, <4>3
    <3>4. g = [k \in 0 .. m |-> g[k]]
      OBVIOUS
    <3> HIDE DEF g
    <3>5. Runs(g, m)
      BY <3>3, <3>4
    <3> QED
      BY <2>1, <3>5
  <2> QED
    BY <2>2, <2>3
<1>3. Runs(o, n)
  <2> HIDE DEF Runs
  <2>1. \E f : Runs(f, n)
    BY <1>2
  <2> QED
    BY <1>1, <2>1
<1> HIDE DEF n
<1>4. n \in Nat
  BY DEF n
<1>5. o[0] = first /\ \A k \in 1 .. n : o[k] = Then(o[k - 1])
  <2>1. 0 \in 0 .. n /\ \A k \in 1 .. n : k \in 0 .. n /\ k # 0
    BY <1>4
  <2> QED
    BY <1>3, <2>1
<1> QED
  BY <1>5 DEF o, first, Then, n

\* What topologicalOrder returns for any graph: no node twice, and each after the sources of its
\* edges; if it is as long as the graph, every node is in it.
LEMMA OrderIsTopological ==
  ASSUME NEW nodes, NEW edges, IsGraph(nodes, edges)
  PROVE  LET order == topologicalOrder(nodes, edges)
         IN /\ IsList(order) /\ ToSet(order) \subseteq Ids(nodes)
            /\ \A i \in DOMAIN edges, j \in DOMAIN order :
                 edges[i].to = order[j] => \E k \in 1 .. (j - 1) : order[k] = edges[i].from
            /\ Len(order) = Len(nodes) => ToSet(order) = Ids(nodes)
<1> DEFINE n == Len(nodes)
           o == ordering(nodes, edges)
           order == topologicalOrder(nodes, edges)
<1>1. n \in Nat
  BY ListFacts DEF IsGraph
<1>2. o[0] = start(nodes, edges) /\ \A k \in 1 .. n : o[k] = Taken(nodes, edges, o[k - 1])
  BY <1>1, OrderingUnfolds
<1>3. order = o[n].order
  BY DEF topologicalOrder
<1> HIDE DEF o, n, order
<1>4. KnownEdges(nodes, edges) = DOMAIN edges
  BY DEF KnownEdges, IsGraph
<1>5. \A k \in 0 .. n : Sorted(nodes, edges, o[k])
  <2> DEFINE T == {k \in 0 .. n : ~Sorted(nodes, edges, o[k])}
  <2> SUFFICES ASSUME T # {} PROVE FALSE
    OBVIOUS
  <2>1. PICK m \in T : \A k \in T : m <= k
    <3>1. T \in SUBSET Nat
      BY <1>1
    <3> HIDE DEF T
    <3> QED
      BY <3>1, LeastExists
  <2>2. m # 0
    BY <1>2, <2>1, StartIsSorted
  <2>3. m \in 1 .. n /\ m - 1 \in 0 .. n /\ m - 1 \notin T
    BY <1>1, <2>1, <2>2
  <2>4. Sorted(nodes, edges, o[m - 1]) /\ o[m] = Taken(nodes, edges, o[m - 1])
    BY <1>2, <2>3
  <2>5. Sorted(nodes, edges, o[m])
    BY <1>4, <2>4, ReleaseKeepsSorted DEF Taken
  <2> QED
    BY <2>1, <2>5
<1>6. Sorted(nodes, edges, o[n])
  BY <1>1, <1>5
<1>7. /\ IsList(order) /\ ToSet(order) \subseteq Ids(nodes)
      /\ \A i, j \in DOMAIN order : order[i] = order[j] => i = j
      /\ \A i \in DOMAIN edges, j \in DOMAIN order :
           edges[i].to = order[j] => \E k \in 1 .. (j - 1) : order[k] = edges[i].from
  BY <1>3, <1>6 DEF Sorted
<1>8. ASSUME Len(order) = n
      PROVE  ToSet(order) = Ids(nodes)
  <2>1. DOMAIN order = 1 .. n /\ DOMAIN nodes = 1 .. n /\ IsFiniteSet(1 .. n) /\ Cardinality(1 .. n) = n
    BY <1>1, <1>7, <1>8, ListFacts, FS_Interval DEF IsGraph, n
  <2>2. ExistsBijection(1 .. n, Ids(nodes))
    <3> DEFINE f == [i \in 1 .. n |-> nodes[i].id]
    <3>1. f \in Bijection(1 .. n, Ids(nodes))
      BY <2>1 DEF IsGraph, Ids, Bijection, Injection, Surjection, IsInjective
    <3> QED
      BY <3>1 DEF ExistsBijection
  <2>3. ExistsBijection(1 .. n, ToSet(order))
    <3> DEFINE f == [i \in 1 .. n |-> order[i]]
    <3>1. f \in Bijection(1 .. n, ToSet(order))
      BY <1>7, <2>1 DEF ToSet, Bijection, Injection, Surjection, IsInjective
    <3> QED
      BY <3>1 DEF ExistsBijection
  <2>4. IsFiniteSet(Ids(nodes)) /\ Cardinality(Ids(nodes)) = n /\ Cardinality(ToSet(order)) = n
    BY <2>1, <2>2, <2>3, FS_Bijection
  <2> QED
    BY <1>7, <2>4, FS_Subset
<1> QED
  BY <1>7, <1>8 DEF n, order

-----------------------------------------------------------------------------
(* filter and the lists the edits build *)

\* What picking from a list leaves.
LEMMA PickedFacts ==
  ASSUME NEW items, IsList(items), NEW I \in SUBSET (DOMAIN items)
  PROVE  LET sub == Subsequence(items, I)
         IN /\ IsList(sub)
            /\ ToSet(sub) = {items[i] : i \in I}
            /\ Ids(sub) = {items[i].id : i \in I}
<1> DEFINE sub == Subsequence(items, I)
<1>1. I \in SUBSET Nat /\ IsFiniteSet(I)
  BY ListFacts, FS_Subset
<1>2. /\ sub \in Seq({items[i] : i \in I})
      /\ \A i \in I : Rank(I, i) \in DOMAIN sub /\ sub[Rank(I, i)] = items[i]
      /\ \A k \in DOMAIN sub : \E i \in I : Rank(I, i) = k /\ sub[k] = items[i]
  BY <1>1, SubsequencePicks
<1> HIDE DEF sub
<1>3. IsList(sub)
  BY <1>2, SequenceIsList
<1>4. ToSet(sub) = {items[i] : i \in I}
  BY <1>2 DEF ToSet
<1>5. Ids(sub) = {items[i].id : i \in I}
  BY <1>2 DEF Ids
<1> QED
  BY <1>3, <1>4, <1>5 DEF sub

LEMMA IdsOfMembers ==
  ASSUME NEW items
  PROVE  Ids(items) = {x.id : x \in ToSet(items)}
  BY DEF Ids, ToSet

LEMMA GoodContractsFacts ==
  ASSUME NEW items, IsList(items)
  PROVE  ToSet(GoodContracts(items)) = {x \in ToSet(items) : x.ok}
<1> DEFINE I == {i \in DOMAIN items : items[i].ok}
<1>1. GoodContracts(items) = Subsequence(items, I)
  BY DEF GoodContracts, filter
<1>2. I \in SUBSET (DOMAIN items)
  OBVIOUS
<1> HIDE DEF I
<1>3. ToSet(GoodContracts(items)) = {items[i] : i \in I}
  BY <1>1, <1>2, PickedFacts
<1> QED
  BY <1>3 DEF I, ToSet

LEMMA UpsertIsList ==
  ASSUME NEW items, NEW additions, IsList(items), IsList(additions)
  PROVE  IsList(upsertById(items, additions))
<1> DEFINE I == {i \in DOMAIN items : items[i].id \notin Ids(additions)}
<1>1. upsertById(items, additions) = Subsequence(items, I) \o additions
  BY DEF upsertById, filter
<1>2. I \in SUBSET (DOMAIN items)
  OBVIOUS
<1> HIDE DEF I
<1>3. IsList(Subsequence(items, I))
  BY <1>2, PickedFacts
<1> QED
  BY <1>1, <1>3, ConcatFacts

\* A list made item by item from another.
LEMMA MappedIsList ==
  ASSUME NEW items, IsList(items), NEW x, x = [i \in DOMAIN items |-> x[i]]
  PROVE  IsList(x)
<1>1. Len(items) \in Nat /\ DOMAIN items = 1 .. Len(items)
  BY ListFacts
<1> QED
  BY <1>1, SegmentIsList

LEMMA InsertedIsList ==
  ASSUME NEW items, IsList(items), NEW at \in DOMAIN items, NEW x
  PROVE  IsList(InsertAt(items, at + 1, x))
<1> DEFINE S == ToSet(items) \cup {x}
<1>1. items \in Seq(S) /\ x \in S /\ Len(items) \in Nat /\ at \in 1 .. Len(items)
  <2>1. items \in Seq(ToSet(items)) /\ ToSet(items) \subseteq S
    BY DEF IsList
  <2>2. Len(items) \in Nat /\ DOMAIN items = 1 .. Len(items)
    BY ListFacts
  <2> HIDE DEF S
  <2>3. items \in Seq(S)
    BY <2>1
  <2> QED
    BY <2>2, <2>3 DEF S
<1> HIDE DEF S
<1>2. SubSeq(items, 1, at) \in Seq(S) /\ SubSeq(items, at + 1, Len(items)) \in Seq(S)
  BY <1>1
<1>3. SubSeq(items, 1, at) \o <<x>> \o SubSeq(items, at + 1, Len(items)) \in Seq(S)
  BY <1>1, <1>2
<1>4. InsertAt(items, at + 1, x) = SubSeq(items, 1, at) \o <<x>> \o SubSeq(items, at + 1, Len(items))
  <2>1. InsertAt(items, at + 1, x) = SubSeq(items, 1, (at + 1) - 1) \o <<x>> \o SubSeq(items, at + 1, Len(items))
    BY Zenon DEF InsertAt
  <2>2. (at + 1) - 1 = at
    BY <1>1
  <2> QED
    BY <2>1, <2>2, Zenon
<1>5. InsertAt(items, at + 1, x) \in Seq(S)
  BY <1>3, <1>4, Zenon
<1> QED
  BY <1>5, SequenceIsList

LEMMA AppendedIsList ==
  ASSUME NEW items, IsList(items), NEW x
  PROVE  IsList(Append(items, x))
<1> DEFINE S == ToSet(items) \cup {x}
<1>1. items \in Seq(S) /\ x \in S
  <2>1. items \in Seq(ToSet(items)) /\ ToSet(items) \subseteq S
    BY DEF IsList
  <2> HIDE DEF S
  <2>2. items \in Seq(S)
    BY <2>1
  <2> QED
    BY <2>2 DEF S
<1> HIDE DEF S
<1>2. Append(items, x) \in Seq(S)
  BY <1>1
<1> QED
  BY <1>2, SequenceIsList

-----------------------------------------------------------------------------
(* A compiled plan *)

\* Sources that compiled, whatever capabilities were registered then.
Resolved(s) ==
  /\ IsSources(s)
  /\ \E capabilities : ~HasError(compileDiagnostics(s, capabilities))

\* What the compiler has looked at when it reports no error.
LEMMA NoErrors ==
  ASSUME NEW s, IsSources(s), NEW capabilities, ~HasError(compileDiagnostics(s, capabilities))
  PROVE  /\ \A i, k \in DOMAIN s.nodes : s.nodes[i].id = s.nodes[k].id => i = k
         /\ \A e \in ToSet(s.edges) : e.from \in Ids(s.nodes) /\ e.to \in Ids(s.nodes)
         /\ Len(topologicalOrder(s.nodes, s.edges)) = Len(s.nodes)
         /\ \A a \in ToSet(s.agents) : a.ok /\ a.skillIds \subseteq Ids(s.skills)
         /\ \A n \in ToSet(s.nodes) : n.kind \in {"agent", "evaluate"} => n.agentRef \subseteq Ids(s.agents)
         /\ DOMAIN s.bindings \subseteq Ids(s.nodes)
         /\ \A id \in DOMAIN s.bindings : s.bindings[id] \in Ids(s.capabilities)
<1> DEFINE D == compileDiagnostics(s, capabilities)
           A == analyzeAuthoringSources(s)
<1>1. \A code, at : errorAt(code, at) \notin D
  BY DEF HasError, errorAt, Diagnostic
<1>2. A \subseteq D
  BY DEF compileDiagnostics
<1>3. /\ nodeDiagnostics(s.nodes) \subseteq A /\ edgeDiagnostics(s.nodes, s.edges) \subseteq A
      /\ graphDiagnostics(s.nodes, s.edges) \subseteq A /\ contractDiagnostics(s.agents) \subseteq A
      /\ referenceDiagnostics(s) \subseteq A
  BY DEF analyzeAuthoringSources
<1>4. IsList(s.nodes) /\ IsList(s.agents) /\ IsList(s.skills) /\ IsList(s.capabilities)
  BY DEF IsSources
<1>5. \A items : IsList(items) => Ids(GoodContracts(items)) \subseteq Ids(items)
  BY GoodContractsFacts, IdsOfMembers
<1>6. \A code, at : errorAt(code, at) \notin A
  BY <1>1, <1>2
<1>7. ASSUME NEW i \in DOMAIN s.nodes, NEW k \in DOMAIN s.nodes, s.nodes[i].id = s.nodes[k].id
      PROVE  i = k
  <2>1. \A m \in DOMAIN s.nodes : \A j \in 1 .. (m - 1) : s.nodes[j].id # s.nodes[m].id
    <3> SUFFICES ASSUME NEW m \in DOMAIN s.nodes, NEW j \in 1 .. (m - 1), s.nodes[j].id = s.nodes[m].id
                 PROVE  FALSE
      OBVIOUS
    <3>1. errorAt("author.node_id_invalid", s.nodes[m].id) \in nodeDiagnostics(s.nodes)
      BY DEF nodeDiagnostics
    <3> QED
      BY <1>3, <1>6, <3>1
  <2>2. i \in Nat \ {0} /\ k \in Nat \ {0}
    BY <1>4, ListFacts
  <2>3. i \in 1 .. (k - 1) \/ k \in 1 .. (i - 1) \/ i = k
    BY <2>2
  <2> QED
    BY <1>7, <2>1, <2>3
<1>8. ASSUME NEW e \in ToSet(s.edges)
      PROVE  e.from \in Ids(s.nodes) /\ e.to \in Ids(s.nodes)
  <2> SUFFICES ASSUME ~({e.from, e.to} \subseteq Ids(s.nodes)) PROVE FALSE
    OBVIOUS
  <2>1. errorAt("author.edge_reference_missing", "edges") \in edgeDiagnostics(s.nodes, s.edges)
    BY DEF edgeDiagnostics
  <2> QED
    BY <1>3, <1>6, <2>1
<1>9. Len(topologicalOrder(s.nodes, s.edges)) = Len(s.nodes)
  <2> SUFFICES ASSUME Len(topologicalOrder(s.nodes, s.edges)) # Len(s.nodes) PROVE FALSE
    OBVIOUS
  <2>1. errorAt("author.graph_cycle", "edges") \in graphDiagnostics(s.nodes, s.edges)
    BY DEF graphDiagnostics
  <2> QED
    BY <1>3, <1>6, <2>1
<1>10. \A a \in ToSet(s.agents) : a.ok
  <2> SUFFICES ASSUME NEW i \in DOMAIN s.agents, ~s.agents[i].ok PROVE FALSE
    BY DEF ToSet
  <2>1. errorAt("author.contract_invalid", s.agents[i].id) \in contractDiagnostics(s.agents)
    BY DEF contractDiagnostics
  <2> QED
    BY <1>3, <1>6, <2>1
<1>11. ToSet(GoodContracts(s.agents)) = ToSet(s.agents)
  BY <1>4, <1>10, GoodContractsFacts
<1>12. ASSUME NEW a \in ToSet(s.agents)
       PROVE  a.skillIds \subseteq Ids(s.skills)
  <2> SUFFICES ASSUME NEW id \in a.skillIds, id \notin Ids(s.skills) PROVE FALSE
    OBVIOUS
  <2>1. id \notin Ids(GoodContracts(s.skills))
    BY <1>4, <1>5
  <2> DEFINE missing == (UNION {b.skillIds : b \in ToSet(GoodContracts(s.agents))}) \ Ids(GoodContracts(s.skills))
  <2>2. id \in missing
    BY <1>11, <2>1
  <2>3. {errorAt("author.agent_skill_missing", x) : x \in missing} \subseteq referenceDiagnostics(s)
    BY Zenon DEF referenceDiagnostics
  <2> HIDE DEF missing
  <2>4. errorAt("author.agent_skill_missing", id) \in referenceDiagnostics(s)
    BY <2>2, <2>3
  <2> QED
    BY <1>3, <1>6, <2>4
<1>13. ASSUME NEW n \in ToSet(s.nodes), n.kind \in {"agent", "evaluate"}
       PROVE  n.agentRef \subseteq Ids(s.agents)
  <2> SUFFICES ASSUME NEW id \in n.agentRef, id \notin Ids(s.agents) PROVE FALSE
    OBVIOUS
  <2>1. id \notin Ids(GoodContracts(s.agents))
    BY <1>4, <1>5
  <2> DEFINE missing == (UNION {m.agentRef : m \in {m \in ToSet(s.nodes) : m.kind \in {"agent", "evaluate"}}})
                          \ Ids(GoodContracts(s.agents))
  <2>2. id \in missing
    BY <1>13, <2>1
  <2>3. {errorAt("author.node_agent_missing", x) : x \in missing} \subseteq referenceDiagnostics(s)
    BY Zenon DEF referenceDiagnostics
  <2> HIDE DEF missing
  <2>4. errorAt("author.node_agent_missing", id) \in referenceDiagnostics(s)
    BY <2>2, <2>3
  <2> QED
    BY <1>3, <1>6, <2>4
<1>14. ASSUME NEW id \in DOMAIN s.bindings
       PROVE  id \in Ids(s.nodes)
  <2> SUFFICES ASSUME id \notin Ids(s.nodes) PROVE FALSE
    OBVIOUS
  <2>1. errorAt("author.binding_node_missing", id) \in referenceDiagnostics(s)
    BY DEF referenceDiagnostics
  <2> QED
    BY <1>3, <1>6, <2>1
<1>15. ASSUME NEW id \in DOMAIN s.bindings
       PROVE  s.bindings[id] \in Ids(s.capabilities)
  <2> DEFINE embedded == Ids(GoodContracts(s.capabilities))
             resolvable == embedded \cup Ids(capabilities)
  <2>1. s.bindings[id] \in resolvable
    <3> SUFFICES ASSUME s.bindings[id] \notin resolvable PROVE FALSE
      OBVIOUS
    <3>1. errorAt("compiler.capability_unresolved", id) \in D
      BY DEF compileDiagnostics
    <3> QED
      BY <1>1, <3>1
  <2>2. s.bindings[id] \notin resolvable \ embedded
    <3> SUFFICES ASSUME s.bindings[id] \in resolvable \ embedded PROVE FALSE
      OBVIOUS
    <3>1. errorAt("compiler.capability_not_embedded", id) \in D
      BY DEF compileDiagnostics
    <3> QED
      BY <1>1, <3>1
  <2>3. s.bindings[id] \in embedded
    BY <2>1, <2>2
  <2> QED
    BY <1>4, <1>5, <2>3
<1> HIDE DEF D, A
<1> QED
  BY <1>7, <1>8, <1>9, <1>10, <1>12, <1>13, <1>14, <1>15

LEMMA PlanResolves ==
  ASSUME NEW s, Resolved(s)
  PROVE  LET p == compile(s)
         IN /\ ToSet(p.nodeOrder) = Ids(p.nodes)
            /\ \A e \in ToSet(p.edges) : \E i, j \in DOMAIN p.nodeOrder :
                 i < j /\ p.nodeOrder[i] = e.from /\ p.nodeOrder[j] = e.to
            /\ {e.nodeId : e \in p.permissionEnvelopes} = DOMAIN s.bindings
            /\ {e.capability : e \in p.permissionEnvelopes} = Ids(p.capabilities)
            /\ UNION {n.agentRef : n \in AgentNodes(p)} \subseteq Ids(p.agents)
            /\ UNION {a.skillIds : a \in ToSet(p.agents)} \subseteq Ids(p.skills)
<1> DEFINE p == compile(s)
           order == topologicalOrder(s.nodes, s.edges)
           bound == {s.bindings[id] : id \in DOMAIN s.bindings}
<1>1. PICK capabilities : ~HasError(compileDiagnostics(s, capabilities))
  BY DEF Resolved
<1>2. IsSources(s)
  BY DEF Resolved
<1>3. /\ \A i, k \in DOMAIN s.nodes : s.nodes[i].id = s.nodes[k].id => i = k
      /\ \A e \in ToSet(s.edges) : e.from \in Ids(s.nodes) /\ e.to \in Ids(s.nodes)
      /\ Len(order) = Len(s.nodes)
      /\ \A a \in ToSet(s.agents) : a.ok /\ a.skillIds \subseteq Ids(s.skills)
      /\ \A n \in ToSet(s.nodes) : n.kind \in {"agent", "evaluate"} => n.agentRef \subseteq Ids(s.agents)
      /\ DOMAIN s.bindings \subseteq Ids(s.nodes)
      /\ \A id \in DOMAIN s.bindings : s.bindings[id] \in Ids(s.capabilities)
  BY <1>1, <1>2, NoErrors
<1>4. IsGraph(s.nodes, s.edges)
  BY <1>2, <1>3 DEF IsGraph, IsSources, ToSet
<1>5. /\ IsList(order)
      /\ \A i \in DOMAIN s.edges, j \in DOMAIN order :
           s.edges[i].to = order[j] => \E k \in 1 .. (j - 1) : order[k] = s.edges[i].from
      /\ ToSet(order) = Ids(s.nodes)
  BY <1>3, <1>4, OrderIsTopological
<1> HIDE DEF order
<1>6. /\ p.edges = s.edges /\ p.nodeOrder = order /\ p.agents = s.agents /\ p.skills = s.skills
      /\ DOMAIN p.nodes = DOMAIN s.nodes
      /\ \A i \in DOMAIN s.nodes : /\ p.nodes[i].id = s.nodes[i].id
                                   /\ p.nodes[i].kind = s.nodes[i].kind
                                   /\ p.nodes[i].agentRef = s.nodes[i].agentRef
      /\ p.capabilities = Subsequence(s.capabilities, {i \in DOMAIN s.capabilities : s.capabilities[i].id \in bound})
      /\ p.permissionEnvelopes = {[nodeId |-> id, capability |-> s.bindings[id],
                                   effect |-> Find(s.capabilities, s.bindings[id]).effect]
                                    : id \in DOMAIN s.bindings \cap Ids(s.nodes)}
  BY DEF compile, filter, order
<1> HIDE DEF p
<1>7. Ids(p.nodes) = Ids(s.nodes)
  BY <1>6 DEF Ids
<1>8. ASSUME NEW e \in ToSet(s.edges)
      PROVE  \E i, j \in DOMAIN order : i < j /\ order[i] = e.from /\ order[j] = e.to
  <2>1. PICK x \in DOMAIN s.edges : e = s.edges[x]
    BY DEF ToSet
  <2>2. PICK j \in DOMAIN order : order[j] = e.to
    BY <1>3, <1>5 DEF ToSet
  <2>3. PICK i \in 1 .. (j - 1) : order[i] = e.from
    BY <1>5, <2>1, <2>2
  <2>4. Len(order) \in Nat /\ DOMAIN order = 1 .. Len(order)
    BY <1>5, ListFacts
  <2>5. i \in DOMAIN order /\ i < j
    BY <2>2, <2>3, <2>4
  <2> QED
    BY <2>2, <2>3, <2>5
<1> DEFINE envelope(id) == [nodeId |-> id, capability |-> s.bindings[id],
                            effect |-> Find(s.capabilities, s.bindings[id]).effect]
<1>9. {e.nodeId : e \in p.permissionEnvelopes} = DOMAIN s.bindings
  <2>1. p.permissionEnvelopes = {envelope(id) : id \in DOMAIN s.bindings}
    BY <1>3, <1>6
  <2>2. \A id : envelope(id).nodeId = id
    OBVIOUS
  <2> HIDE DEF envelope
  <2> QED
    BY <2>1, <2>2
<1>10. {e.capability : e \in p.permissionEnvelopes} = bound
  <2>1. p.permissionEnvelopes = {envelope(id) : id \in DOMAIN s.bindings}
    BY <1>3, <1>6
  <2>2. \A id : envelope(id).capability = s.bindings[id]
    OBVIOUS
  <2> HIDE DEF envelope
  <2> QED
    BY <2>1, <2>2
<1>11. Ids(p.capabilities) = bound
  <2> DEFINE I == {i \in DOMAIN s.capabilities : s.capabilities[i].id \in bound}
  <2>1. IsList(s.capabilities) /\ I \in SUBSET (DOMAIN s.capabilities) /\ p.capabilities = Subsequence(s.capabilities, I)
    BY <1>2, <1>6 DEF IsSources
  <2> HIDE DEF I, bound
  <2>2. Ids(p.capabilities) = {s.capabilities[i].id : i \in I}
    BY <2>1, PickedFacts
  <2>3. \A c \in bound : \E i \in DOMAIN s.capabilities : s.capabilities[i].id = c
    BY <1>3 DEF Ids, bound
  <2> QED
    BY <2>2, <2>3 DEF I
<1>12. \A n \in AgentNodes(p) : n.agentRef \subseteq Ids(s.agents)
  <2> SUFFICES ASSUME NEW i \in DOMAIN s.nodes, p.nodes[i].kind \in {"agent", "evaluate"}
               PROVE  p.nodes[i].agentRef \subseteq Ids(s.agents)
    BY <1>6 DEF AgentNodes, ToSet
  <2>1. s.nodes[i] \in ToSet(s.nodes) /\ s.nodes[i].kind \in {"agent", "evaluate"}
    BY <1>6 DEF ToSet
  <2> QED
    BY <1>3, <1>6, <2>1
<1>13. UNION {n.agentRef : n \in AgentNodes(p)} \subseteq Ids(p.agents)
  BY <1>6, <1>12
<1>14. UNION {a.skillIds : a \in ToSet(p.agents)} \subseteq Ids(p.skills)
  BY <1>3, <1>6
<1> QED
  BY <1>5, <1>6, <1>7, <1>8, <1>9, <1>10, <1>11, <1>13, <1>14 DEF p

-----------------------------------------------------------------------------
(* Edits keep sources lists *)

LEMMA ShortLists ==
  /\ IsList(<<>>)
  /\ \A a : IsList(<<a>>)
  /\ \A a, b : IsList(<<a, b>>)
<1>1. \A S : <<>> \in Seq(S)
  OBVIOUS
<1>2. ASSUME NEW a PROVE <<a>> \in Seq({a})
  OBVIOUS
<1>3. ASSUME NEW a, NEW b PROVE <<a, b>> \in Seq({a, b})
  OBVIOUS
<1> QED
  BY <1>1, <1>2, <1>3, SequenceIsList

LEMMA DefaultIsSources == IsSources(defaultAuthoringSources)
  BY ShortLists DEF defaultAuthoringSources, IsSources

LEMMA IndexOfFacts ==
  ASSUME NEW nodes, IsList(nodes), NEW id \in Ids(nodes)
  PROVE  IndexOf(nodes, id) \in DOMAIN nodes
<1> DEFINE T == {i \in DOMAIN nodes : nodes[i].id = id}
<1>1. T \in SUBSET Nat /\ T # {}
  BY ListFacts DEF Ids
<1>2. PICK m \in T : \A n \in T : m <= n
  <2> HIDE DEF T
  <2> QED
    BY <1>1, LeastExists
<1>3. Len(nodes) \in Nat /\ DOMAIN nodes = 1 .. Len(nodes)
  BY ListFacts
<1>4. m \in DOMAIN nodes /\ nodes[m].id = id
  OBVIOUS
<1>5. \A k \in 1 .. (m - 1) : nodes[k].id # id
  <2> SUFFICES ASSUME NEW k \in 1 .. (m - 1), nodes[k].id = id PROVE FALSE
    OBVIOUS
  <2>1. k \in DOMAIN nodes /\ m \in Nat /\ k \in Nat /\ k < m
    BY <1>3, <1>4
  <2>2. k \in T
    BY <2>1
  <2> HIDE DEF T
  <2> QED
    BY <1>2, <2>1, <2>2
<1> HIDE DEF T
<1> QED
  BY <1>4, <1>5, Zenon DEF IndexOf

LEMMA AttachKeepsLists ==
  ASSUME NEW s, IsSources(s), NEW agent, NEW skills, IsList(skills), NEW nodeId, NEW mode, NEW newNodeId,
         CanAttach(s, agent, skills, nodeId, mode, newNodeId)
  PROVE  IsSources(applyAgentToAuthoringSources(s, agent, skills, nodeId, mode, newNodeId))
<1> DEFINE at == IndexOf(s.nodes, nodeId)
           attached == IF mode = "replace" THEN nodeId ELSE newNodeId
           node == agentNode(IF mode = "replace" THEN s.nodes[at] ELSE emptyNode, agent, attached)
           rewired == [i \in DOMAIN s.edges |->
                         IF s.edges[i].from = nodeId THEN [s.edges[i] EXCEPT !.from = attached]
                         ELSE s.edges[i]]
           I == {i \in DOMAIN skills : skills[i].id \in agent.skillIds}
           wanted == Subsequence(skills, I)
           more == [i \in DOMAIN wanted |-> Compiled(wanted[i])]
           r == applyAgentToAuthoringSources(s, agent, skills, nodeId, mode, newNodeId)
<1>1. /\ {"nodes", "edges", "agents", "skills", "capabilities"} \subseteq DOMAIN s
      /\ IsList(s.nodes) /\ IsList(s.edges)
      /\ IsList(s.agents) /\ IsList(s.skills) /\ IsList(s.capabilities)
  BY DEF IsSources
<1>2. /\ DOMAIN r = DOMAIN s
      /\ r.nodes = IF mode = "replace" THEN [s.nodes EXCEPT ![at] = node] ELSE InsertAt(s.nodes, at + 1, node)
      /\ r.edges = IF mode = "replace" THEN s.edges
                   ELSE Append(rewired, [from |-> nodeId, to |-> attached])
      /\ r.agents = upsertById(s.agents, <<Compiled(agent)>>)
      /\ r.skills = upsertById(s.skills, more)
      /\ r.capabilities = s.capabilities
  BY <1>1 DEF applyAgentToAuthoringSources, filter
<1>3. at \in DOMAIN s.nodes
  BY <1>1, IndexOfFacts DEF CanAttach
<1>4. I \in SUBSET (DOMAIN skills)
  OBVIOUS
<1> HIDE DEF r, node, at, attached, I
<1>5. IsList(wanted)
  BY <1>4, PickedFacts
<1> HIDE DEF wanted
<1>6. IsList(more)
  BY <1>5, MappedIsList
<1>7. IsList(rewired)
  BY <1>1, MappedIsList
<1> HIDE DEF more, rewired
<1>8. IsList(r.nodes)
  <2>1. IsList([s.nodes EXCEPT ![at] = node])
    BY <1>1, MappedIsList
  <2>2. IsList(InsertAt(s.nodes, at + 1, node))
    BY <1>1, <1>3, InsertedIsList
  <2> QED
    BY <1>2, <2>1, <2>2
<1>9. IsList(r.edges)
  <2>1. IsList(Append(rewired, [from |-> nodeId, to |-> attached]))
    BY <1>7, AppendedIsList
  <2> QED
    BY <1>1, <1>2, <2>1
<1>10. IsList(r.agents) /\ IsList(r.skills)
  BY <1>1, <1>2, <1>6, ShortLists, UpsertIsList
<1> QED
  BY <1>1, <1>2, <1>8, <1>9, <1>10 DEF IsSources, r

LEMMA CaseWritesKeepLists ==
  ASSUME NEW s, IsSources(s), NEW nodeId, NEW writes
  PROVE  IsSources(updateNodeCaseWrites(s, nodeId, writes))
<1> DEFINE at == IndexOf(s.nodes, nodeId)
           x == [s.nodes EXCEPT ![at] = [s.nodes[at] EXCEPT !.caseWrites = {writes}]]
           r == updateNodeCaseWrites(s, nodeId, writes)
<1>1. r = [s EXCEPT !.nodes = x]
  BY DEF updateNodeCaseWrites
<1>2. IsList(x)
  <2>1. x = [i \in DOMAIN s.nodes |-> x[i]]
    OBVIOUS
  <2> HIDE DEF x
  <2> QED
    BY <2>1, MappedIsList DEF IsSources
<1> HIDE DEF x, r
<1> QED
  BY <1>1, <1>2 DEF IsSources, r

LEMMA AgentContractsKeepLists ==
  ASSUME NEW s, IsSources(s), NEW agents, NEW skills, IsList(agents), IsList(skills)
  PROVE  IsSources(materializeAgentContracts(s, agents, skills))
<1> DEFINE someAgents == [i \in DOMAIN agents |-> Compiled(agents[i])]
           someSkills == [i \in DOMAIN skills |-> Compiled(skills[i])]
           nodes == [i \in DOMAIN s.nodes |-> fillNode(s.nodes[i], agents)]
           r == materializeAgentContracts(s, agents, skills)
<1>1. /\ {"nodes", "edges", "agents", "skills", "capabilities"} \subseteq DOMAIN s
      /\ IsList(s.nodes) /\ IsList(s.edges)
      /\ IsList(s.agents) /\ IsList(s.skills) /\ IsList(s.capabilities)
  BY DEF IsSources
<1>2. /\ DOMAIN r = DOMAIN s
      /\ r.agents = upsertById(s.agents, someAgents) /\ r.skills = upsertById(s.skills, someSkills)
      /\ r.nodes = nodes /\ r.edges = s.edges /\ r.capabilities = s.capabilities
  BY <1>1 DEF materializeAgentContracts
<1>3. IsList(someAgents) /\ IsList(someSkills) /\ IsList(nodes)
  BY <1>1, MappedIsList
<1> HIDE DEF someAgents, someSkills, nodes, r
<1>4. IsList(r.agents) /\ IsList(r.skills)
  BY <1>1, <1>2, <1>3, UpsertIsList
<1> QED
  BY <1>1, <1>2, <1>3, <1>4 DEF IsSources, r

LEMMA MaterializedKeepsLists ==
  ASSUME NEW s, IsSources(s), NEW agents, NEW skills, NEW capabilities,
         IsList(agents), IsList(skills), IsList(capabilities)
  PROVE  IsSources(materializeRegisteredContracts(s, agents, skills, capabilities))
<1> DEFINE newAgents == MissingAgents(s, agents)
           newSkills == MissingSkills(s, agents, skills)
           settled == IF newAgents = <<>> /\ newSkills = <<>> THEN s
                      ELSE materializeAgentContracts(s, newAgents, newSkills)
           bound == {settled.bindings[id] : id \in DOMAIN settled.bindings}
           I == {i \in DOMAIN capabilities : capabilities[i].id \in bound \ Ids(s.capabilities)}
           new == Subsequence(capabilities, I)
           more == [i \in DOMAIN new |-> Compiled(new[i])]
           r == materializeRegisteredContracts(s, agents, skills, capabilities)
<1>1. r = [settled EXCEPT !.capabilities = upsertById(settled.capabilities, more)]
  BY Zenon DEF materializeRegisteredContracts, filter
<1>2. IsList(newAgents) /\ IsList(newSkills)
  BY PickedFacts DEF MissingAgents, MissingSkills, filter
<1>3. I \in SUBSET (DOMAIN capabilities)
  OBVIOUS
<1> HIDE DEF r, newAgents, newSkills
<1>4. IsSources(settled)
  BY <1>2, AgentContractsKeepLists
<1> HIDE DEF I, settled
<1>5. IsList(new)
  BY <1>3, PickedFacts
<1> HIDE DEF new
<1>6. IsList(more)
  BY <1>5, MappedIsList
<1> HIDE DEF more
<1>7. IsList(upsertById(settled.capabilities, more))
  BY <1>4, <1>6, UpsertIsList DEF IsSources
<1> QED
  BY <1>1, <1>4, <1>7 DEF IsSources, r

\* A registry table is read as a list of its rows.
LEMMA RowsAreAList ==
  ASSUME NEW table, IsFiniteSet(DOMAIN table)
  PROVE  IsList(Rows(table))
<1> DEFINE S == {table[id] : id \in DOMAIN table}
           f == [id \in DOMAIN table |-> table[id]]
<1>1. f \in Surjection(DOMAIN table, S)
  BY DEF Surjection
<1> HIDE DEF f
<1>2. IsFiniteSet(S)
  BY <1>1, FS_Surjection
<1> HIDE DEF S
<1>3. Cardinality(S) \in Nat /\ \E g \in [1 .. Cardinality(S) -> S] : IsInjective(g)
  BY <1>2, FS_CardinalityType DEF ExistsBijection, Bijection, Injection
<1>4. SetToSeq(S) \in [1 .. Cardinality(S) -> S]
  BY <1>3 DEF SetToSeq
<1>5. SetToSeq(S) \in Seq(S)
  BY <1>3, <1>4
<1> QED
  BY <1>5, SequenceIsList DEF Rows, S

LEMMA ActiveIsList ==
  ASSUME NEW items, IsList(items)
  PROVE  IsList(Active(items))
<1> DEFINE I == {i \in DOMAIN items : items[i].status = "active"}
<1>1. Active(items) = Subsequence(items, I)
  BY DEF Active, filter
<1>2. I \in SUBSET (DOMAIN items)
  OBVIOUS
<1> HIDE DEF I
<1> QED
  BY <1>1, <1>2, PickedFacts

-----------------------------------------------------------------------------
(* Stored plans *)

Registries == {"agents", "skills", "capabilities"}

\* The row as it stands: its sources are lists, the plan in it compiled without an error.
Stored(r) == IsSources(r.sources) /\ \A s \in r.plan : Resolved(s)

\* What a handler has read so far.  Attach decides on all its tables; compile on the draft alone
\* first, and later on all the registries.
Gathered(l) ==
  /\ \A d \in l.seen["draft"] : Stored(d)
  /\ \A t \in Registries : \A x \in l.seen[t] : IsList(x)
  /\ l.op = "attach" => "skills" \in l.todo \/ l.seen["skills"] # {}
  /\ l.op = "compile" /\ ("agents" \in l.todo \/ l.seen["agents"] # {}) =>
       \A t \in Registries : t \in l.todo \/ l.seen[t] # {}

\* The plan a handler holds compiled without an error, the sources it will write are lists.
Sound(l) ==
  l.pc # "idle" =>
    /\ \A s \in l.plan : Resolved(s)
    /\ l.pc \in {"insert", "update"} => \E s : l.next = {s} /\ IsSources(s)
    /\ l.pc = "read" => Gathered(l)

PlansAreSound ==
  /\ Stored(row)
  /\ \A s \in plans : Resolved(s)
  /\ \A h \in Handlers : Sound(local[h])
  /\ \A t \in Registries : IsFiniteSet(DOMAIN registry[t])

\* One handler moves on; what it holds stays its own.
LEMMA SoundMove ==
  ASSUME IInv, PlansAreSound, NEW h \in Handlers, NEW m, local' = [local EXCEPT ![h] = m], Sound(m)
  PROVE  \A g \in Handlers : Sound(local'[g])
<1>1. ASSUME NEW g \in Handlers PROVE local'[g] = IF g = h THEN m ELSE local[g]
  BY DEF IInv
<1> QED
  BY <1>1 DEF PlansAreSound

LEMMA IdleSound == Sound(Idle)
  BY DEF Sound, Idle

\* Past its reads and its updates a handler carries only its plan.
LEMMA CarriesPlan ==
  ASSUME NEW l, Sound(l), l.pc # "idle", NEW m, m.plan = l.plan, m.pc \notin {"insert", "update", "read"}
  PROVE  Sound(m)
  BY DEF Sound

LEMMA DecidedSound ==
  ASSUME NEW l, DOMAIN l = Fields, NEW pc, NEW base, NEW next, NEW plan, pc # "read",
         \A s \in plan : Resolved(s),
         pc \in {"insert", "update"} => \E s : next = {s} /\ IsSources(s)
  PROVE  Sound(Decided(l, pc, base, next, plan))
<1> DEFINE m == Decided(l, pc, base, next, plan)
<1>1. m.pc = pc /\ m.plan = plan /\ m.next = next
  BY DEF Decided, Fields
<1> HIDE DEF m
<1>2. Sound(m)
  BY <1>1 DEF Sound
<1> QED
  BY <1>2 DEF m

\* What is read of a table that was read.
LEMMA SeenTable ==
  ASSUME NEW l, NEW t, l.seen[t] # {}
  PROVE  Seen(l, t) \in l.seen[t]
  BY DEF Seen

\* What each operation decides, once nothing is left to read.
LEMMA DecisionSound ==
  ASSUME NEW l, DOMAIN l = Fields, Flow(l), l.pc = "read", DOMAIN l.seen = Tables,
         l.seen["draft"] # {}, l.todo = {}, Gathered(l), \A s \in l.plan : Resolved(s)
  PROVE  Sound(AfterReads(l))
<1> DEFINE d == Seen(l, "draft")
<1>1. Stored(d)
  BY SeenTable DEF Gathered
<1>2. l.op \in {"attach", "caseWrites", "compile", "evaluate", "publish"}
  BY DEF Flow, Visits
<1> HIDE DEF d
<1>3. \A t \in Registries : l.seen[t] # {} => IsList(Seen(l, t))
  BY SeenTable DEF Gathered
<1>4. CASE l.op = "attach"
  <2>1. AfterReads(l) = afterAttach(l)
    BY <1>4 DEF AfterReads
  <2> DEFINE skills == Seen(l, "skills")
             agents == filter(Seen(l, "agents"), LAMBDA a : a.id = l.arg.agent)
             next == applyAgentToAuthoringSources(d.sources, agents[1], skills, l.arg.node,
                                                  l.arg.mode, l.arg.newNode)
  <2>2. \/ AfterReads(l) = Idle
        \/ /\ CanAttach(d.sources, agents[1], skills, l.arg.node, l.arg.mode, l.arg.newNode)
           /\ AfterReads(l) = Decided(l, "update", {d.sources}, {next}, {})
    BY <2>1, Zenon DEF afterAttach, d
  <2>3. IsList(skills)
    BY <1>3, <1>4 DEF Gathered, Registries
  <2> HIDE DEF skills, agents
  <2>4. CanAttach(d.sources, agents[1], skills, l.arg.node, l.arg.mode, l.arg.newNode) => IsSources(next)
    BY <1>1, <2>3, AttachKeepsLists DEF Stored
  <2> HIDE DEF next
  <2>5. IsSources(next) => Sound(Decided(l, "update", {d.sources}, {next}, {}))
    BY DecidedSound
  <2> QED
    BY <2>2, <2>4, <2>5, IdleSound
<1>5. CASE l.op = "caseWrites"
  <2>1. AfterReads(l) = afterCaseWrites(l)
    BY <1>5 DEF AfterReads
  <2> DEFINE next == updateNodeCaseWrites(d.sources, l.arg.node, l.arg.writes)
  <2>2. \/ AfterReads(l) = Idle
        \/ AfterReads(l) = Decided(l, "update", {d.sources}, {next}, {})
    BY <2>1, Zenon DEF afterCaseWrites, d
  <2>3. IsSources(next)
    BY <1>1, CaseWritesKeepLists DEF Stored
  <2> HIDE DEF next
  <2>4. Sound(Decided(l, "update", {d.sources}, {next}, {}))
    BY <2>3, DecidedSound
  <2> QED
    BY <2>2, <2>4, IdleSound
<1>6. CASE l.op = "compile"
  <2>1. AfterReads(l) = afterCompile(l)
    BY <1>6 DEF AfterReads
  <2> DEFINE capabilities == Active(Seen(l, "capabilities"))
             agents == Active(Seen(l, "agents"))
             skills == Active(Seen(l, "skills"))
             s == materializeRegisteredContracts(d.sources, agents, skills, capabilities)
             plan == compileAuthoringDraft(s, capabilities)
             pc == IF s # d.sources THEN "update" ELSE "lifecycle"
  <2>2. \/ AfterReads(l) = Idle
        \/ /\ l.seen.agents = {}
           /\ AfterReads(l) = [l EXCEPT !.todo = {"agents", "skills", "capabilities"}]
        \/ /\ l.seen.agents # {}
           /\ AfterReads(l) = [Decided(l, pc, {d.sources}, {s}, plan) EXCEPT !.expected = d.revision]
    BY <2>1, Zenon DEF afterCompile, d
  <2>3. ASSUME AfterReads(l) = [l EXCEPT !.todo = {"agents", "skills", "capabilities"}]
        PROVE  Sound(AfterReads(l))
    <3> DEFINE m == AfterReads(l)
    <3>1. /\ m.pc = "read" /\ m.op = "compile" /\ m.seen = l.seen /\ m.plan = l.plan
          /\ m.todo = Registries
      BY <1>6, <2>3 DEF Fields, Registries
    <3> HIDE DEF m
    <3>2. Gathered(m)
      BY <3>1 DEF Gathered
    <3> QED
      BY <3>1, <3>2 DEF Sound, m
  <2>4. ASSUME l.seen.agents # {},
               AfterReads(l) = [Decided(l, pc, {d.sources}, {s}, plan) EXCEPT !.expected = d.revision]
        PROVE  Sound(AfterReads(l))
    <3>1. \A t \in Registries : l.seen[t] # {}
      BY <1>6, <2>4 DEF Gathered, Registries
    <3>2. IsList(capabilities) /\ IsList(agents) /\ IsList(skills)
      BY <1>3, <3>1, ActiveIsList DEF Registries
    <3> HIDE DEF capabilities, agents, skills
    <3>3. IsSources(s)
      BY <1>1, <3>2, MaterializedKeepsLists DEF Stored
    <3> HIDE DEF s
    <3>4. \A x \in plan : Resolved(x)
      BY <3>3 DEF compileAuthoringDraft, Resolved
    <3> DEFINE n == Decided(l, pc, {d.sources}, {s}, plan)
               m == AfterReads(l)
    <3> HIDE DEF plan
    <3>5. n.pc = pc /\ n.plan = plan /\ n.next = {s} /\ DOMAIN n = Fields
      BY DEF Decided, Fields
    <3> HIDE DEF n
    <3>6. m.pc = pc /\ m.plan = plan /\ m.next = {s}
      BY <2>4, <3>5 DEF n, Fields
    <3> HIDE DEF m
    <3>7. m.pc # "read"
      BY <3>6
    <3>8. Sound(m)
      BY <3>3, <3>4, <3>6, <3>7 DEF Sound
    <3> QED
      BY <3>8 DEF m
  <2> QED
    BY <2>2, <2>3, <2>4, IdleSound
<1>7. CASE l.op = "evaluate"
  <2>1. AfterReads(l) = afterEvaluate(l)
    BY <1>7 DEF AfterReads
  <2>2. AfterReads(l) = Idle \/ AfterReads(l) = Decided(l, "lifecycle", {}, {}, d.plan)
    BY <2>1, Zenon DEF afterEvaluate, d
  <2>3. Sound(Decided(l, "lifecycle", {}, {}, d.plan))
    BY <1>1, DecidedSound DEF Stored
  <2> QED
    BY <2>2, <2>3, IdleSound
<1>8. CASE l.op = "publish"
  <2>1. AfterReads(l) = afterPublish(l)
    BY <1>8 DEF AfterReads
  <2>2. AfterReads(l) = Idle \/ AfterReads(l) = Decided(l, "admit", {}, {}, d.plan)
    BY <2>1, Zenon DEF afterPublish, d
  <2>3. Sound(Decided(l, "admit", {}, {}, d.plan))
    BY <1>1, DecidedSound DEF Stored
  <2> QED
    BY <2>2, <2>3, IdleSound
<1> QED
  BY <1>2, <1>4, <1>5, <1>6, <1>7, <1>8

LEMMA SoundReceive ==
  ASSUME IInv, PlansAreSound, NEW h \in Handlers, Receive(h)
  PROVE  \A g \in Handlers : Sound(local'[g])
<1> SUFFICES ASSUME NEW q \in AuthorizedRequests, NEW expected, NEW bundle,
                    local' = [local EXCEPT ![h] = Started(q, expected, bundle)]
             PROVE  \A g \in Handlers : Sound(local'[g])
  BY Zenon DEF Receive
<1> DEFINE m == Started(q, expected, bundle)
<1>1. PICK x \in Requests : q.op = x.op /\ q.arg = x.arg
  BY DEF AuthorizedRequests
<1>2. q.op \in Routes
  BY RequestFacts
<1>3. q.op \in {"create", "update"} => IsSources(q.arg.sources)
  BY <1>1, RequestAssumption
<1>4. /\ m.pc = FirstStep(q.op) /\ m.op = q.op /\ m.todo = FirstReads(q.op) /\ m.seen = NotRead
      /\ m.plan = {}
      /\ m.next = IF q.op \in {"create", "update"} THEN {q.arg.sources} ELSE {}
  BY DEF Started
<1> HIDE DEF m
<1>5. m.pc \in {"insert", "update"} => q.op \in {"create", "update"}
  BY <1>2, <1>4 DEF FirstStep, Routes, Edits
<1>6. Gathered(m)
  BY <1>4 DEF Gathered, FirstReads, NotRead, Registries
<1>7. Sound(m)
  BY <1>3, <1>4, <1>5, <1>6 DEF Sound
<1> QED
  BY <1>7, SoundMove DEF m

LEMMA SoundRead ==
  ASSUME IInv, PlansAreSound, NEW h \in Handlers, NEW table \in Tables, Read(h, table)
  PROVE  \A g \in Handlers : Sound(local'[g])
<1> DEFINE l == [local[h] EXCEPT !.seen[table] = {Table(table)}, !.todo = @ \ {table}]
           m == IF l.todo = {} THEN AfterReads(l) ELSE l
<1>1. /\ local[h].pc = "read" /\ table \in local[h].todo
      /\ local' = [local EXCEPT ![h] = m]
  BY DEF Read
<1>2. DOMAIN local[h] = Fields /\ Flow(local[h]) /\ Reads(local[h])
  BY <1>1, BusyFields DEF IInv, HandlersAreConsistent
<1>3. /\ DOMAIN l = Fields /\ l.pc = "read" /\ l.op = local[h].op /\ l.plan = local[h].plan
      /\ l.todo = local[h].todo \ {table}
      /\ l.seen = [local[h].seen EXCEPT ![table] = {Table(table)}]
  BY <1>1, <1>2 DEF Fields
<1> HIDE DEF l
<1>4. /\ DOMAIN l.seen = Tables
      /\ \A t \in Tables : l.seen[t] = IF t = table THEN {Table(table)} ELSE local[h].seen[t]
  BY <1>1, <1>2, <1>3 DEF Reads
<1>5. Gathered(local[h]) /\ \A s \in local[h].plan : Resolved(s)
  BY <1>1 DEF PlansAreSound, Sound
<1>6. Gathered(l)
  <2>1. table = "draft" => Stored(Table(table))
    BY DEF PlansAreSound, Table
  <2>2. table \in Registries => IsList(Table(table))
    <3>1. table \in Registries => IsList(Rows(registry[table]))
      BY RowsAreAList DEF PlansAreSound
    <3> QED
      BY <3>1 DEF Table, Registries
  <2>3. Tables = Registries \cup {"draft"} /\ "draft" \notin Registries
    BY DEF Tables, Registries
  <2>4. \A d \in l.seen["draft"] : Stored(d)
    BY <1>4, <1>5, <2>1, <2>3 DEF Gathered
  <2>5. \A t \in Registries : \A x \in l.seen[t] : IsList(x)
    BY <1>4, <1>5, <2>2, <2>3 DEF Gathered
  <2>6. \A t \in Tables : t \in local[h].todo \/ local[h].seen[t] # {} <=> t \in l.todo \/ l.seen[t] # {}
    BY <1>1, <1>3, <1>4
  <2>7. /\ l.op = "attach" => "skills" \in l.todo \/ l.seen["skills"] # {}
        /\ l.op = "compile" /\ ("agents" \in l.todo \/ l.seen["agents"] # {}) =>
             \A t \in Registries : t \in l.todo \/ l.seen[t] # {}
    BY <1>3, <1>5, <2>3, <2>6 DEF Gathered, Registries
  <2> QED
    BY <2>4, <2>5, <2>7 DEF Gathered
<1>7. Sound(m)
  <2>1. CASE l.todo # {}
    BY <1>3, <1>5, <1>6, <2>1 DEF Sound
  <2>2. CASE l.todo = {}
    <3>1. l.seen["draft"] # {}
      BY <1>1, <1>2, <1>3, <1>4, <2>2 DEF Reads, Tables
    <3>2. Flow(l)
      BY <1>1, <1>2, <1>3 DEF Flow
    <3> QED
      BY <1>3, <1>4, <1>5, <1>6, <2>2, <3>1, <3>2, DecisionSound
  <2> QED
    BY <2>1, <2>2
<1> HIDE DEF m
<1> QED
  BY <1>1, <1>7, SoundMove

\* A handler whose statement matched goes on to its event, with the plan it held.
LEMMA SoundEvent ==
  ASSUME IInv, PlansAreSound, NEW h \in Handlers, local[h].pc # "idle", NEW type, ThenEvent(h, type)
  PROVE  \A g \in Handlers : Sound(local'[g])
<1> DEFINE m == [local[h] EXCEPT !.pc = "event", !.event = type]
<1>1. local' = [local EXCEPT ![h] = m]
  BY TwoFields DEF IInv
<1>2. DOMAIN local[h] = Fields
  BY BusyFields DEF IInv, HandlersAreConsistent
<1>3. m.pc = "event" /\ m.plan = local[h].plan
  BY <1>2 DEF Fields
<1> HIDE DEF m
<1>4. Sound(m)
  BY <1>3, CarriesPlan DEF PlansAreSound
<1> QED
  BY <1>1, <1>4, SoundMove

\* A handler goes on to the next statement with the plan it holds.
LEMMA SoundGoOn ==
  ASSUME IInv, PlansAreSound, NEW h \in Handlers, local[h].pc # "idle", NEW m,
         local' = [local EXCEPT ![h] = m], m.plan = local[h].plan, m.pc \notin {"insert", "update", "read"}
  PROVE  \A g \in Handlers : Sound(local'[g])
<1>1. Sound(m)
  BY CarriesPlan DEF PlansAreSound
<1> QED
  BY <1>1, SoundMove

LEMMA SoundRefuse ==
  ASSUME IInv, PlansAreSound, NEW h \in Handlers, Refuse(h)
  PROVE  \A g \in Handlers : Sound(local'[g])
  BY IdleSound, SoundMove DEF Refuse

\* A registry grows by one contract.
LEMMA RegisteredFinite ==
  ASSUME IInv, PlansAreSound, NEW table \in Registries, NEW item, Register(table, item)
  PROVE  \A t \in Registries : IsFiniteSet(DOMAIN registry'[t])
<1>1. ASSUME NEW t \in Registries
      PROVE  registry'[t] = IF t = table THEN With(registry[t], item) ELSE registry[t]
  BY DEF Register, IInv, RegistryShape, Registries
<1>2. ASSUME NEW t \in Registries
      PROVE  IsFiniteSet(DOMAIN registry[t]) /\ DOMAIN With(registry[t], item) = DOMAIN registry[t] \cup {item.id}
  BY DEF PlansAreSound, With
<1>3. \A t \in Registries : IsFiniteSet(DOMAIN registry[t] \cup {item.id})
  BY <1>2, FS_AddElement
<1> QED
  BY <1>1, <1>2, <1>3

LEMMA SoundInit == Init => PlansAreSound
<1> SUFFICES ASSUME Init PROVE PlansAreSound
  OBVIOUS
<1>1. Stored(row)
  BY DefaultIsSources DEF Init, NoRow, Stored
<1>2. \A t \in Registries : DOMAIN registry[t] = {}
  BY DEF Init, Registries
<1>3. \A h \in Handlers : Sound(local[h])
  BY IdleSound DEF Init
<1> QED
  BY <1>1, <1>2, <1>3, FS_EmptySet DEF PlansAreSound, Init

LEMMA SoundStep == IInv /\ PlansAreSound /\ [Next]_vars => PlansAreSound'
<1> SUFFICES ASSUME IInv, PlansAreSound, [Next]_vars PROVE PlansAreSound'
  OBVIOUS
<1>1. ASSUME NEW h \in Handlers, Receive(h) PROVE PlansAreSound'
  BY <1>1, SoundReceive DEF Receive, shared, PlansAreSound
<1>2. ASSUME NEW h \in Handlers, NEW table \in Tables, Read(h, table) PROVE PlansAreSound'
  BY <1>2, SoundRead DEF Read, shared, PlansAreSound
<1>3. ASSUME NEW h \in Handlers, createAuthoringDraft(h) PROVE PlansAreSound'
  <2>1. /\ local[h].pc = "insert" /\ ThenEvent(h, "draft.created") /\ UNCHANGED <<registry, plans>>
        /\ row' = [NoRow EXCEPT !.status = "DRAFT", !.revision = 1,
                                !.sources = CHOOSE s \in local[h].next : TRUE]
    BY <1>3 DEF createAuthoringDraft
  <2>2. PICK s : local[h].next = {s} /\ IsSources(s)
    BY <2>1 DEF PlansAreSound, Sound
  <2>3. Stored(row')
    BY <2>1, <2>2 DEF NoRow, Stored
  <2> QED
    BY <2>1, <2>3, SoundEvent DEF PlansAreSound
<1>4. ASSUME NEW h \in Handlers, updateAuthoringSources(h) PROVE PlansAreSound'
  <2>1. local[h].pc = "update" /\ UNCHANGED <<registry, plans>>
    BY <1>4 DEF updateAuthoringSources
  <2>2. CASE UpdateMatches(h)
    <3>1. /\ ThenEvent(h, "draft.updated")
          /\ row' = [NoRow EXCEPT !.status = "DRAFT", !.revision = row.revision + 1,
                                  !.sources = CHOOSE s \in local[h].next : TRUE]
      BY <1>4, <2>2 DEF updateAuthoringSources
    <3>2. PICK s : local[h].next = {s} /\ IsSources(s)
      BY <2>1 DEF PlansAreSound, Sound
    <3>3. Stored(row')
      BY <3>1, <3>2 DEF NoRow, Stored
    <3> QED
      BY <2>1, <3>1, <3>3, SoundEvent DEF PlansAreSound
  <2>3. CASE ~UpdateMatches(h)
    BY <1>4, <2>1, <2>3, SoundRefuse DEF updateAuthoringSources, PlansAreSound
  <2> QED
    BY <2>2, <2>3
<1>5. ASSUME NEW h \in Handlers, CheckDuties(h) PROVE PlansAreSound'
  <2> DEFINE m == [local[h] EXCEPT !.pc = "lifecycle"]
  <2>1. local[h].pc = "contributors" /\ UNCHANGED <<row, registry, plans>>
    BY <1>5 DEF CheckDuties, shared
  <2>2. DOMAIN local[h] = Fields
    BY <2>1, BusyFields DEF IInv, HandlersAreConsistent
  <2>3. m.pc = "lifecycle" /\ m.plan = local[h].plan
    BY <2>2 DEF Fields
  <2>4. Refuse(h) \/ local' = [local EXCEPT ![h] = m]
    BY <1>5 DEF CheckDuties
  <2> HIDE DEF m
  <2>5. \A g \in Handlers : Sound(local'[g])
    BY <2>1, <2>3, <2>4, SoundRefuse, SoundGoOn
  <2> QED
    BY <2>1, <2>5 DEF PlansAreSound
<1>6. ASSUME NEW h \in Handlers, AdmitPlan(h) PROVE PlansAreSound'
  <2> DEFINE m == [local[h] EXCEPT !.pc = "contributors"]
  <2>1. local[h].pc = "admit" /\ UNCHANGED <<row, registry>> /\ plans' = plans \cup local[h].plan
    BY <1>6 DEF AdmitPlan
  <2>2. DOMAIN local[h] = Fields
    BY <2>1, BusyFields DEF IInv, HandlersAreConsistent
  <2>3. m.pc = "contributors" /\ m.plan = local[h].plan
    BY <2>2 DEF Fields
  <2>4. local' = [local EXCEPT ![h] = m]
    BY <1>6 DEF AdmitPlan
  <2> HIDE DEF m
  <2>5. \A g \in Handlers : Sound(local'[g])
    BY <2>1, <2>3, <2>4, SoundGoOn
  <2>6. \A s \in plans' : Resolved(s)
    BY <2>1 DEF PlansAreSound, Sound
  <2> QED
    BY <2>1, <2>5, <2>6 DEF PlansAreSound
<1>7. ASSUME NEW h \in Handlers, setAuthoringLifecycle(h) PROVE PlansAreSound'
  <2>1. local[h].pc = "lifecycle" /\ UNCHANGED <<registry, plans>>
    BY <1>7 DEF setAuthoringLifecycle
  <2>2. \/ row' = Transitioned(h) /\ ThenEvent(h, Transition(local[h].op).event)
        \/ Refuse(h) /\ UNCHANGED row
    BY <1>7 DEF setAuthoringLifecycle
  <2>3. \A g \in Handlers : Sound(local'[g])
    BY <2>1, <2>2, SoundRefuse, SoundEvent
  <2>4. Stored(row')
    <3>1. CASE UNCHANGED row
      BY <3>1 DEF PlansAreSound
    <3>2. CASE row' = Transitioned(h)
      <4>1. row'.sources = row.sources /\ row'.plan \in {row.plan, local[h].plan}
        BY <3>2 DEF Transitioned, IInv, RowIsConsistent, NoRow
      <4>2. \A s \in local[h].plan : Resolved(s)
        BY <2>1 DEF PlansAreSound, Sound
      <4> QED
        BY <4>1, <4>2 DEF PlansAreSound, Stored
    <3> QED
      BY <2>2, <3>1, <3>2
  <2> QED
    BY <2>1, <2>3, <2>4 DEF PlansAreSound
<1>8. ASSUME NEW h \in Handlers, CompilerFails(h) \/ Abort(h) PROVE PlansAreSound'
  BY <1>8, SoundRefuse DEF CompilerFails, Abort, shared, PlansAreSound
<1>9. ASSUME NEW h \in Handlers, InsertEvent(h) PROVE PlansAreSound'
  <2> DEFINE l == local[h]
             m == [l EXCEPT !.pc = "lifecycle", !.event = ""]
  <2>1. l.pc = "event" /\ UNCHANGED <<row, registry, plans>>
    BY <1>9 DEF InsertEvent
  <2>2. DOMAIN l = Fields
    BY <2>1, BusyFields DEF IInv, HandlersAreConsistent
  <2>3. m.pc = "lifecycle" /\ m.plan = l.plan
    BY <2>2 DEF Fields
  <2>4. Refuse(h) \/ local' = [local EXCEPT ![h] = m]
    BY <1>9 DEF InsertEvent, Refuse
  <2> HIDE DEF m
  <2>5. \A g \in Handlers : Sound(local'[g])
    BY <2>1, <2>3, <2>4, SoundRefuse, SoundGoOn
  <2> QED
    BY <2>1, <2>5 DEF PlansAreSound
<1>10. ASSUME NEW h \in Handlers, ImportSkill(h) PROVE PlansAreSound'
  <2> DEFINE l == local[h]
  <2>1. l.pc = "import" /\ UNCHANGED <<row, plans>>
    BY <1>10 DEF ImportSkill
  <2>2. PICK k \in l.bundle.skills : /\ Register("skills", k)
                                     /\ local' = [local EXCEPT ![h].bundle.skills = @ \ {k}]
    BY <1>10, Zenon DEF ImportSkill
  <2> DEFINE m == [l EXCEPT !.bundle = [l.bundle EXCEPT !.skills = @ \ {k}]]
  <2>3. local' = [local EXCEPT ![h] = m]
    BY <2>2
  <2>4. DOMAIN l = Fields
    BY <2>1, BusyFields DEF IInv, HandlersAreConsistent
  <2>5. m.pc = "import" /\ m.plan = l.plan
    BY <2>1, <2>4 DEF Fields
  <2> HIDE DEF m
  <2>6. \A g \in Handlers : Sound(local'[g])
    BY <2>1, <2>3, <2>5, SoundGoOn
  <2>7. \A t \in Registries : IsFiniteSet(DOMAIN registry'[t])
    BY <2>2, RegisteredFinite DEF Registries
  <2> QED
    BY <2>1, <2>6, <2>7 DEF PlansAreSound
<1>11. ASSUME NEW h \in Handlers, ImportAgent(h) PROVE PlansAreSound'
  <2>1. /\ UNCHANGED <<row, plans>> /\ Refuse(h)
        /\ Register("agents", local[h].bundle.agent)
    BY <1>11 DEF ImportAgent, Refuse
  <2>2. \A t \in Registries : IsFiniteSet(DOMAIN registry'[t])
    BY <2>1, RegisteredFinite DEF Registries
  <2> QED
    BY <2>1, <2>2, SoundRefuse DEF PlansAreSound
<1>12. ASSUME NEW table \in {"agents", "skills", "capabilities"}, RegisterOne(table) PROVE PlansAreSound'
  <2>1. UNCHANGED <<row, plans, local>> /\ \E item : Register(table, item)
    BY <1>12 DEF RegisterOne
  <2>2. \A t \in Registries : IsFiniteSet(DOMAIN registry'[t])
    BY <2>1, RegisteredFinite DEF Registries
  <2> QED
    BY <2>1, <2>2 DEF PlansAreSound
<1>13. ASSUME UNCHANGED vars PROVE PlansAreSound'
  BY <1>13 DEF vars, PlansAreSound
<1> QED
  BY <1>1, <1>2, <1>3, <1>4, <1>5, <1>6, <1>7, <1>8, <1>9, <1>10, <1>11, <1>12, <1>13
     DEF Next, Tables

\* Whatever the registries held when it was compiled and whoever edited in between, a plan that
\* is stored or admitted is executable on its own: its order holds every node after the nodes
\* it depends on, and every binding, agent and skill it refers to is embedded.
THEOREM StoredPlansResolve == Spec => []CompiledPlansResolve
<1>1. PlansAreSound => CompiledPlansResolve
  BY PlanResolves DEF PlansAreSound, Stored, CompiledPlansResolve
<1>2. Init => IInv /\ PlansAreSound
  BY InitHolds, SoundInit
<1>3. IInv /\ PlansAreSound /\ [Next]_vars => (IInv /\ PlansAreSound)'
  BY StepHolds, SoundStep
<1> QED
  BY <1>1, <1>2, <1>3, PTL DEF Spec
=============================================================================
