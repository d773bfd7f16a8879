--------------------------- MODULE ControlSurface ---------------------------
(***************************************************************************)
(* The control surface (apps/control-ui) against the APIs it reads and     *)
(* writes.  One browser tab shows one page, which polls its view           *)
(* (lib/use-polled-resource.ts): polls overlap, may fail, and may be       *)
(* answered out of order.  A view is assembled from several reads that     *)
(* are separate statements of the databases, so each sees the state of its *)
(* own moment between request and answer.  The harness page has the drawer *)
(* that admits a plan and the drawer that starts a run (drawers.tsx).      *)
(*                                                                         *)
(* A poll in flight carries its window, the committed states of the        *)
(* databases since its request: a read made for it returns what one of     *)
(* them held.                                                              *)
(***************************************************************************)
EXTENDS SurfaceViews

CONSTANTS
  FirstPlan,       \* the plan admitted when the harness page is opened
  RunPlans,        \* the plans a page about a run may be opened with
  Documents,       \* texts an operator may paste into the admit drawer
  Inputs,          \* run inputs an operator may type; Blank lacks a required field
  Blank,
  CaseCommands,    \* commands and evidence registrations of other actors, in this order
  PlanLimit,       \* listPlanRecords returns this many plans (100 in the code)
  EventLimit,      \* listCaseEvents returns this many events (1000 in the code)
  ReceiptLimit,    \* listGatewayReceipts returns this many receipts (100 in the code)
  RunLimit,        \* listRuns returns this many runs (100 in the code)
  PollSlots,       \* polls of one page in flight at a time
  MaxAttempt,      \* bound: attempts of the run shown
  MaxOpenings,     \* bound: openings of the start-run drawer
  MaxSubmissions,  \* bound: submissions of the start-run drawer
  MaxWindow,       \* bound: states committed while one poll of each page is in flight
  MaxPolls,        \* bound: polls of each page
  Endless          \* the pages without that bound

ASSUME SurfaceAssumption ==
  /\ Blank \in Inputs
  /\ \A n \in {PlanLimit, EventLimit, ReceiptLimit, RunLimit, MaxAttempt, MaxOpenings, MaxSubmissions} : n \in Nat \ {0}
  /\ CaseCommands \in Seq(ToSet(CaseCommands))

VARIABLES
  page,        \* the page shown
  target,      \* the run the run page is about
  db,          \* the databases
  polls,       \* PollSlots -> the window of the poll in flight, <<>>: none
  data,        \* option: the view shown; ghosts: which reads of it failed, its window
  flags,       \* isLoadingInitial, isRefreshing, hasRefreshError; begun: polls so far
  drawer,      \* the start-run drawer
  wire,        \* start requests on their way, answered or not
  asked        \* ghost: option, the request whose answer opened the run page

vars == <<page, target, db, polls, data, flags, drawer, wire, asked>>

\* A transaction commits: every poll in flight may read the state it leaves.
Commit(new) ==
  /\ db' = new
  /\ \A p \in PollSlots : Len(polls[p]) <= MaxWindow[page]
  /\ polls' = [p \in PollSlots |-> IF polls[p] = <<>> THEN <<>> ELSE Append(polls[p], new)]

(***************************** the databases ********************************)

NoRun == 0
\* intent is a ghost: the drawer opening whose own key the request carried, or 0.
NewRun(id, key, digest, input, intent) ==
  [runId |-> id, idempotencyKey |-> key, planDigest |-> digest, input |-> input, status |-> "queued",
   attempt |-> 0, currentNodeId |-> {}, errorCode |-> {}, intent |-> intent]

\* listPlanRecords: the newest PlanLimit plans of the tenant.
listPlanRecords(s) ==
  LET oldest == IF Len(s.plans) > PlanLimit THEN Len(s.plans) - PlanLimit + 1 ELSE 1
  IN {mapPlan(raw) : raw \in ToSet(SubSeq(s.plans, oldest, Len(s.plans)))}
getPlan(s, digest) == {raw \in ToSet(s.plans) : raw.planDigest = digest}
getRun(s, id) == {r \in s.runs : r.runId = id}
listNodeAttempts(s, id) == {a \in s.attempts : a.runId = id}

\* The newest of them: creation and update times are left out, so any n rows may be.
Newest(rows, n) == {some \in SUBSET rows : Cardinality(some) = IF Cardinality(rows) > n THEN n ELSE Cardinality(rows)}
listGatewayReceipts(s, id) == Newest({r \in s.receipts : r.runId = id}, ReceiptLimit)
newestRuns(s) == Newest(s.runs, RunLimit)
listEvents(s, id) == SelectSeq(s.events, LAMBDA e : e.runId = id)
listCaseEvents(s) == SubSeq(s.ledger, 1, IF Len(s.ledger) > EventLimit THEN EventLimit ELSE Len(s.ledger))

\* Mutant: the conflict clause loses its request_digest condition.
createRunForAnyRequest(s, key, digest, input, intent) ==
  LET same == {r \in s.runs : r.idempotencyKey = key}
  IN IF same = {}
     THEN [runs |-> s.runs \cup {NewRun(Cardinality(s.runs) + 1, key, digest, input, intent)},
           run |-> {Cardinality(s.runs) + 1}]
     ELSE [runs |-> s.runs, run |-> {r.runId : r \in same}]

\* insert ... on conflict (tenant, key): the row with the same request digest is
\* returned, another request under the key is refused.
createRun(s, key, digest, input, intent) ==
  LET same == {r \in s.runs : r.idempotencyKey = key}
  IN IF same = {}
     THEN [runs |-> s.runs \cup {NewRun(Cardinality(s.runs) + 1, key, digest, input, intent)},
           run |-> {Cardinality(s.runs) + 1}]
     ELSE [runs |-> s.runs,
           run |-> {r.runId : r \in {x \in same : x.planDigest = digest /\ x.input = input}}]

\* admitPlan: verifies the digest, then inserts unless the digest is there.
admitPlan(s, doc) ==
  IF ~doc.digestVerifies THEN [plans |-> s.plans, ok |-> FALSE, created |-> FALSE]
  ELSE IF getPlan(s, doc.plan.planDigest) # {} THEN [plans |-> s.plans, ok |-> TRUE, created |-> FALSE]
  ELSE [plans |-> Append(s.plans, doc.plan), ok |-> TRUE, created |-> TRUE]

(***************************** other actors' writes *************************)

\* What the page open can show is what other actors write meanwhile: the run's
\* rows (RunDispatch and RunAuthority say who may write them), or the case.
\* A run page that a drawer opened is not followed further: pages of a run have
\* initial states of their own.
Watching == page \in {"run", "runs", "overview", "system"} /\ asked = {}
TheRun == The(getRun(db, target))
PlanOf(run) == mapPlan(The(getPlan(db, run.planDigest)))
SetRun(run, new) == (db.runs \ {run}) \cup {new}
Rows(run) == {a \in listNodeAttempts(db, run.runId) : a.attempt = run.attempt}
OtherWrites(new) == Commit(new) /\ UNCHANGED <<page, target, data, flags, drawer, wire, asked>>

\* claimRun: a waiting run, or a running one whose lease expired.
claimRun(r) ==
  /\ r.status \in Active /\ r.attempt < MaxAttempt
  /\ OtherWrites([db EXCEPT !.runs = SetRun(r, [r EXCEPT !.status = "running", !.attempt = @ + 1])])

\* nodeStarted is two statements: the run's current node, then the attempt row.
\* The worker invokes the runtime once it has recorded run.started.
updateRunNode(r, n) ==
  /\ r.status = "running" /\ r.currentNodeId # {n} /\ db.events # <<>>
  /\ OtherWrites([db EXCEPT !.runs = SetRun(r, [r EXCEPT !.currentNodeId = {n}])])
beginNodeAttempt(r) ==
  /\ r.status = "running" /\ r.currentNodeId # {} /\ \A a \in Rows(r) : {a.nodeId} # r.currentNodeId
  /\ OtherWrites([db EXCEPT !.attempts = @ \cup {[runId |-> r.runId, nodeId |-> The(r.currentNodeId),
                                                  attempt |-> r.attempt, status |-> "running"]}])

\* nodeFinished names its own attempt and may arrive after the next one began.
finishNodeAttempt(a, status) ==
  /\ a.status = "running"
  /\ OtherWrites([db EXCEPT !.attempts = (@ \ {a}) \cup {[a EXCEPT !.status = status]}])

\* Bound: the journal holds run.started only.
appendEvent(r) ==
  /\ r.attempt > 0 /\ r.currentNodeId = {} /\ db.events = <<>>
  /\ OtherWrites([db EXCEPT !.events = Append(@, [runId |-> r.runId, sequence |-> Len(@) + 1])])

\* A node calls the capability it is bound to.  The gateway inserts the receipt before
\* it asks the provider, whatever became of the node's attempt; an invocation that
\* repeats an earlier attempt's input finds that one's receipt and writes nothing.
NodeEffects(r, n) ==
  LET raw == The(getPlan(db, r.planDigest))
      bound == UNION {node.capabilityId : node \in {x \in ToSet(raw.nodes) : x.id = n}}
  IN {c.effect : c \in {x \in raw.capabilities : x.id \in bound}}
reserveGatewayReceipt(a, effect) ==
  /\ \A x \in db.receipts : x.nodeId # a.nodeId \/ x.attempt # a.attempt
  /\ OtherWrites([db EXCEPT !.receipts = @ \cup {[runId |-> a.runId, nodeId |-> a.nodeId, attempt |-> a.attempt,
                                                  decision |-> "allowed", effect |-> effect, finished |-> FALSE]}])

\* The provider answered, and the receipt keeps its result.
completeGatewayReceipt(x) ==
  /\ ~x.finished
  /\ OtherWrites([db EXCEPT !.receipts = (@ \ {x}) \cup {[x EXCEPT !.finished = TRUE]}])

\* Mutant: the deletion loses its condition on the result.
abandonAnyReceipt(x) == OtherWrites([db EXCEPT !.receipts = @ \ {x}])

\* The provider failed: the receipt is deleted while it has no result.
abandonGatewayReceipt(x) ==
  /\ ~x.finished
  /\ OtherWrites([db EXCEPT !.receipts = @ \ {x}])

scheduleRunRetry(r) ==
  /\ r.status = "running"
  /\ OtherWrites([db EXCEPT !.runs = SetRun(r, [r EXCEPT !.status = "retrying", !.errorCode = {"transient"}])])

completeRun(r, status) ==
  /\ r.status = "running"
  /\ OtherWrites([db EXCEPT !.runs = SetRun(r, [r EXCEPT !.status = status,
                                      !.errorCode = IF status = "completed" THEN {} ELSE {"final"}])])

WorkerStep ==
  /\ Watching /\ target # NoRun
  /\ LET r == TheRun
     IN \/ claimRun(r)
        \/ /\ page = "run"
           /\ \/ \E n \in planNodes(PlanOf(r)) : updateRunNode(r, n.id)
              \/ beginNodeAttempt(r)
              \/ \E a \in listNodeAttempts(db, target) :
                   \/ \E status \in {"completed", "failed"} : finishNodeAttempt(a, status)
                   \/ \E effect \in NodeEffects(r, a.nodeId) : reserveGatewayReceipt(a, effect)
              \/ \E x \in db.receipts : completeGatewayReceipt(x) \/ abandonGatewayReceipt(x)
              \/ appendEvent(r)
        \/ scheduleRunRetry(r)
        \/ \E status \in {"completed", "denied"} : completeRun(r, status)

\* One command commits the case row, its object, its lineage and its event in
\* one transaction (CaseLedger and CaseAggregate have the detail); registering
\* evidence commits its object only, with no event.
CaseCommand ==
  LET n == Cardinality(db.objects) + 1
      command == CaseCommands[n]
      seq == Len(db.ledger) + 1
      object == [id |-> command.id, table |-> command.table, refs |-> command.refs,
                 caseSequence |-> IF command.table = "evidence" THEN {} ELSE {seq}]
      stored == [db EXCEPT !.objects = @ \cup {object}]
  IN /\ page = "case" /\ n \in DOMAIN CaseCommands
     /\ OtherWrites(IF command.table = "evidence" THEN stored
                    ELSE [stored EXCEPT
                            !.cases = {[c EXCEPT !.caseSequence = seq] : c \in @},
                            !.lineage = @ \cup {[from |-> r, to |-> command.id] : r \in command.derivedFrom},
                            !.ledger = Append(@, [caseSequence |-> seq, id |-> command.id])])

(***************************** what a poll may read *************************)

\* optionalJson: one of what the states of the window held, or nothing.
optionalJson(held) == {{}} \cup {{x} : x \in held}

\* Ghost: what the states of a window said.  Of each node its attempt rows; of the calls
\* beyond reading whether one had finished at the request, or was reserved at some
\* moment; and whether the receipts were more than one answer lists.
LatestIn(s, n) ==
  LET rows == {a \in s.attempts : a.runId = target /\ a.nodeId = n}
  IN {a.status : a \in {x \in rows : Cardinality({y \in rows : y.attempt > x.attempt}) = 0}}
Effectful(s) == {x \in s.receipts : x.runId = target /\ x.effect \notin {"none", "read"}}
Truths(w) ==
  IF page # "run" THEN [nodes |-> <<>>, finished |-> FALSE, reserved |-> FALSE, cut |-> FALSE]
  ELSE [nodes |-> [n \in {m.id : m \in planNodes(PlanOf(TheRun))} |->
                     [begun |-> LatestIn(w[1], n) # {}, latest |-> UNION {LatestIn(s, n) : s \in ToSet(w)}]],
        finished |-> \E x \in Effectful(w[1]) : x.finished,
        reserved |-> \E s \in ToSet(w) : Effectful(s) # {},
        cut |-> \E s \in ToSet(w) : Cardinality({x \in s.receipts : x.runId = target}) > ReceiptLimit]

Mode == "Recorded"
Services == {{"Ready"}, {"Ready", "Unavailable"}}
Complete(view) == [view |-> view, lost |-> {}]
RunsOf(s, f) == {listRuns(runs, listPlanRecords(s), Mode, f) : runs \in newestRuns(s)}

\* The views a request with window w may be answered with, each with the reads
\* that failed.  A read that must succeed and fails is PollFails below.
runReads(w) == {getRun(s, target) : s \in ToSet(w)}
eventReads(w) == optionalJson({listEvents(s, target) : s \in ToSet(w)})
attemptReads(w) == optionalJson({listNodeAttempts(s, target) : s \in ToSet(w)})
receiptReads(w) == optionalJson(UNION {listGatewayReceipts(s, target) : s \in ToSet(w)})
runViews(run, events, attempts, receipts, plans) ==
  {[view |-> v, lost |-> (IF attempts = {} THEN {"attempts"} ELSE {}) \cup (IF receipts = {} THEN {"receipts"} ELSE {})]
     : v \in runDetail(run, events, attempts, receipts, plans, Mode)}
runDetails(w) ==
  LET plans == listPlanRecords(db)
  IN UNION {runViews(run, events, attempts, receipts, plans)
              : run \in runReads(w), events \in eventReads(w), attempts \in attemptReads(w), receipts \in receiptReads(w)}

\* The overview reads the runs for its summaries and again for its list; the
\* system page reads the overview and then the runs once more.
summaries(w) ==
  UNION {{listHarnessSummaries(listPlanRecords(s), runs) : runs \in newestRuns(t)} : s \in ToSet(w), t \in ToSet(w)}
overviews(w) ==
  {Complete(overview(harnessViews, runs, Mode, services))
     : harnessViews \in summaries(w), runs \in UNION {RunsOf(t, NoFilter) : t \in ToSet(w)}, services \in Services}
systems(w) ==
  UNION {{Complete(systemStatus(overview({}, before, Mode, services), runs))
           : before \in RunsOf(w[i], NoFilter), runs \in UNION {RunsOf(w[j], NoFilter) : j \in i .. Len(w)},
             services \in Services} : i \in DOMAIN w}
runLists(w) ==
  {Complete(runs) : runs \in UNION {RunsOf(s, [NoFilter EXCEPT !.onlyNeedsAttention = only])
                                       : s \in ToSet(w), only \in BOOLEAN}}
harnesses(w) == {Complete(view) : view \in summaries(w)}

\* getCaseView reads the case row and then every table in a statement of its
\* own; getCaseDetail asks for the events when that answer is there.
Tables == {CaseCommands[i].table : i \in DOMAIN CaseCommands} \cup {"lineage"}
Latest(at) == CHOOSE m \in {at[t] : t \in Tables} : \A t \in Tables : at[t] <= m
\* Mutant: view and events are requested together.
eventsReadTogether(at) == 1

eventsReadFrom(at) == Latest(at)

caseDetails(w) ==
  UNION {UNION {{Complete(caseDetail(The(w[row].cases), {o \in db.objects : o \in w[at[o.table]].objects},
                                     w[at["lineage"]].lineage, listCaseEvents(w[e])))
                   : e \in eventsReadFrom(at) .. Len(w)}
                : at \in [Tables -> row .. Len(w)]}
         : row \in DOMAIN w}

Answers(w) == CASE page = "run"      -> runDetails(w)
                [] page = "runs"     -> runLists(w)
                [] page = "overview" -> overviews(w)
                [] page = "system"   -> systems(w)
                [] page = "harness"  -> harnesses(w)
                [] page = "case"     -> caseDetails(w)

(***************************** the polled resource **************************)

Loading == [isLoadingInitial |-> TRUE, isRefreshing |-> FALSE, hasRefreshError |-> FALSE, begun |-> 0]
Settled(error) == [flags EXCEPT !.isLoadingInitial = FALSE, !.isRefreshing = FALSE, !.hasRefreshError = error]

FetchData(p, manual) ==
  LET begun == IF page \in Endless THEN 0 ELSE flags.begun + 1
  IN /\ polls[p] = <<>> /\ begun <= MaxPolls[page] /\ asked = {}
     /\ polls' = [polls EXCEPT ![p] = <<db>>]
     /\ flags' = IF data # {} \/ manual THEN [flags EXCEPT !.isRefreshing = TRUE, !.begun = begun]
                                        ELSE [flags EXCEPT !.isLoadingInitial = TRUE, !.begun = begun]
     /\ UNCHANGED <<page, target, db, data, drawer, wire, asked>>

\* Mutant: the interval ends with the first answer.
PollUntilShown(p, manual) == (manual \/ data = {}) /\ FetchData(p, manual)

\* fetchData up to its fetch; the first by a timer of zero, later ones by the
\* interval (a tick of a hidden tab does nothing) or by the operator.
StartPoll(p, manual) == FetchData(p, manual)

\* The answer of any poll in flight replaces what is shown.
AnswerPoll(p) ==
  /\ polls[p] # <<>>
  /\ LET truths == Truths(polls[p])
     IN \E answer \in Answers(polls[p]) :
          data' = {[view |-> answer.view, lost |-> answer.lost, window |-> truths]}
  /\ polls' = [polls EXCEPT ![p] = <<>>]
  /\ flags' = Settled(FALSE)
  /\ UNCHANGED <<page, target, db, drawer, wire, asked>>

\* The request, or a read it cannot do without, failed: what is shown stays.
PollFails(p) ==
  /\ polls[p] # <<>>
  /\ polls' = [polls EXCEPT ![p] = <<>>]
  /\ flags' = Settled(TRUE)
  /\ UNCHANGED <<page, target, db, data, drawer, wire, asked>>

(***************************** the drawers **********************************)

Listed == UNION {{h.planDigest : h \in d.view} : d \in data}

\* What the admit drawer lets through, from the text and the digests listed.
canAdmit(doc) ==
  /\ doc.json /\ doc.contract /\ doc.digestShaped
  /\ doc.plan.planDigest \notin Listed
  /\ doc.plan.nodes # <<>>

\* The document reaches POST /v1/plans; whether its answer comes back changes
\* only the drawer's message, and a repeated submission finds the plan there.
AdmitPlan(doc) ==
  /\ page = "harness" /\ data # {} /\ canAdmit(doc)
  /\ LET admitted == admitPlan(db, doc)
     IN IF admitted.created THEN Commit([db EXCEPT !.plans = admitted.plans]) ELSE UNCHANGED <<db, polls>>
  /\ UNCHANGED <<page, target, data, flags, drawer, wire, asked>>

Shut == [open |-> FALSE, opening |-> 0, key |-> 0, planDigest |-> "none",
         input |-> [text |-> Blank, caseId |-> {}], waiting |-> {}, sent |-> 0, demo |-> "none"]
Drawer(new) == drawer' = new /\ UNCHANGED <<page, target, data, flags, asked>>

\* Opening the drawer resets the form and picks a key that stays until the drawer is closed.
OpenDrawer(digest) ==
  /\ page = "harness" /\ ~drawer.open /\ drawer.opening < MaxOpenings
  /\ Drawer([drawer EXCEPT !.open = TRUE, !.opening = @ + 1, !.key = drawer.opening + 1, !.planDigest = digest,
                           !.input = Shut.input])
  /\ UNCHANGED <<db, polls, wire>>

\* Escape; a submission under way goes on.
CloseDrawer == /\ drawer.open
               /\ Drawer([drawer EXCEPT !.open = FALSE]) /\ UNCHANGED <<db, polls, wire>>

EditInput(text) == /\ drawer.open /\ text # drawer.input.text
                   /\ Drawer([drawer EXCEPT !.input.text = text]) /\ UNCHANGED <<db, polls, wire>>

\* The key is a field under Advanced: the operator may clear it or type an earlier one.
EditKey(key) == /\ drawer.open /\ key # drawer.key
                /\ Drawer([drawer EXCEPT !.key = key]) /\ UNCHANGED <<db, polls, wire>>

\* validateAndSubmit up to its fetch; a missing required field stops it here.
Submit ==
  /\ drawer.open /\ drawer.waiting = {} /\ drawer.sent < MaxSubmissions
  /\ drawer.input.text # Blank
  /\ Drawer([drawer EXCEPT !.sent = @ + 1, !.waiting = {drawer.sent + 1}])
  /\ wire' = wire \cup {[n |-> drawer.sent + 1, key |-> drawer.key,
                         intent |-> IF drawer.key = drawer.opening THEN drawer.opening ELSE 0,
                         planDigest |-> drawer.planDigest, input |-> drawer.input,
                         served |-> FALSE, run |-> {}]}
  /\ UNCHANGED <<db, polls>>

\* POST /v1/runs of the surface and of the control API; an empty key becomes the
\* clock's milliseconds, which two requests may share.
ServeStart(q, instant) ==
  /\ ~q.served
  /\ LET key == IF q.key = 0 THEN -instant ELSE q.key
         started == createRun(db, key, q.planDigest, q.input, q.intent)
     IN /\ getPlan(db, q.planDigest) # {}
        /\ IF started.runs = db.runs THEN UNCHANGED <<db, polls>> ELSE Commit([db EXCEPT !.runs = started.runs])
        /\ wire' = (wire \ {q}) \cup {[q EXCEPT !.served = TRUE, !.run = started.run]}
  /\ UNCHANGED <<page, target, data, flags, drawer, asked>>

\* The answer: onRunStarted opens the run page; a refusal is shown and the key kept.
ReceiveStarted(q) ==
  /\ q.served /\ drawer.waiting = {q.n}
  /\ wire' = wire \ {q}
  /\ IF q.run = {}
     THEN Drawer([drawer EXCEPT !.waiting = {}]) /\ UNCHANGED polls
     ELSE /\ page' = "run" /\ target' = The(q.run) /\ asked' = {q}
          /\ data' = {} /\ polls' = [p \in PollSlots |-> <<>>] /\ flags' = Loading
          /\ drawer' = Shut
  /\ UNCHANGED db

\* The submission fails on the way; the request may have been served or be served yet.
SubmissionFails ==
  /\ drawer.waiting # {}
  /\ Drawer([drawer EXCEPT !.waiting = {}]) /\ UNCHANGED <<db, polls, wire>>

\* createFreshDemoCase: the case is created, then its subject, and only then
\* does the form take the patch; a failure in between leaves the case behind.
DemoCaseId == "demo"
CreateDemoCase ==
  /\ drawer.open /\ drawer.waiting = {} /\ drawer.demo = "none" /\ db.demo = {}
  /\ Commit([db EXCEPT !.demo = {[caseId |-> DemoCaseId, subject |-> FALSE]}])
  /\ Drawer([drawer EXCEPT !.demo = "case"]) /\ UNCHANGED wire
AddDemoSubject ==
  /\ drawer.demo = "case"
  /\ Commit([db EXCEPT !.demo = {[caseId |-> DemoCaseId, subject |-> TRUE]}])
  /\ Drawer([drawer EXCEPT !.demo = "subject"]) /\ UNCHANGED wire
DemoCaseReady ==
  /\ drawer.demo = "subject"
  /\ Drawer([drawer EXCEPT !.demo = "none", !.input.caseId = {DemoCaseId}]) /\ UNCHANGED <<db, polls, wire>>
DemoCaseFails ==
  /\ drawer.demo # "none"
  /\ Drawer([drawer EXCEPT !.demo = "none"]) /\ UNCHANGED <<db, polls, wire>>

(***************************** the specification ****************************)

EmptyDb == [plans |-> <<>>, runs |-> {}, attempts |-> {}, receipts |-> {}, events |-> <<>>, cases |-> {},
            objects |-> {}, lineage |-> {}, ledger |-> <<>>, demo |-> {}]

\* The pages an operator may have open: the harness page with one plan admitted,
\* a page about a run that was just created, or the page of a new case.
Init ==
  /\ \/ /\ page = "harness" /\ target = NoRun
        /\ db = [EmptyDb EXCEPT !.plans = <<FirstPlan>>]
     \/ /\ page \in {"run", "runs", "overview", "system"} /\ target = 1
        /\ \E plan \in RunPlans :
             db = [EmptyDb EXCEPT !.plans = <<plan>>, !.runs = {NewRun(1, -1, plan.planDigest, Shut.input, 0)}]
     \/ /\ page = "case" /\ target = NoRun
        /\ db = [EmptyDb EXCEPT !.cases = {[caseId |-> "case", status |-> "DRAFT", caseSequence |-> 1]},
                                !.ledger = <<[caseSequence |-> 1, id |-> "case"]>>]
  /\ polls = [p \in PollSlots |-> <<>>] /\ data = {} /\ flags = Loading
  /\ drawer = Shut /\ wire = {} /\ asked = {}

DrawerStep ==
  \/ \E doc \in Documents : AdmitPlan(doc)
  \/ \E digest \in Listed : OpenDrawer(digest)
  \/ CloseDrawer
  \/ \E text \in Inputs : EditInput(text)
  \/ \E key \in 0 .. drawer.opening : EditKey(key)
  \/ Submit
  \/ \E q \in wire : ReceiveStarted(q)
  \/ SubmissionFails
  \/ CreateDemoCase \/ AddDemoSubject \/ DemoCaseReady \/ DemoCaseFails

Next ==
  \/ WorkerStep \/ CaseCommand
  \/ \E p \in PollSlots : \/ \E manual \in BOOLEAN : StartPoll(p, manual)
                          \/ AnswerPoll(p) \/ PollFails(p)
  \/ page = "harness" /\ DrawerStep
  \/ \E q \in wire, instant \in 1 .. 2 : ServeStart(q, instant)

Spec == Init /\ [][Next]_vars

\* The interval of a visible tab keeps firing, every request is answered or fails, and
\* not all of them fail.
Polling ==
  /\ WF_vars(page \in Endless /\ \E p \in PollSlots : StartPoll(p, FALSE))
  /\ \A p \in PollSlots : WF_vars(page \in Endless /\ (AnswerPoll(p) \/ PollFails(p)))
  /\ SF_vars(page \in Endless /\ \E p \in PollSlots : AnswerPoll(p))
FairSpec == Spec /\ Polling

(***************************** properties ***********************************)

\* A start-run drawer is an intent: although submissions fail on the way, are
\* repeated, edited and served late, the ones made under the key an opening chose
\* start at most one run; the run page opened is of the plan and the input that
\* were submitted; and a run about a demo case is about one that has its subject.
\* (drawers.tsx idempotencyKey, createRun's conflict clause, createDemoKycCase)
SubmissionsStartOneRun ==
  /\ \A r \in db.runs, t \in db.runs : r.intent = t.intent /\ r.intent # 0 => r.runId = t.runId
  /\ \A q \in asked : TheRun.planDigest = q.planDigest /\ TheRun.input = q.input
  /\ \A r \in db.runs : \A c \in r.input.caseId : [caseId |-> c, subject |-> TRUE] \in db.demo

\* A page of a run is put together from reads of different moments, and a slow
\* poll may overwrite a newer one, but it invents nothing and hides nothing that had
\* happened when it was requested: a final status it shows is the run's status for good;
\* a node it shows as completed or failed was so, by its latest attempt, at a moment of
\* the request; an external effect it reports was reserved at a moment of the request
\* (the gateway deletes the receipt when the provider fails); a node that had begun
\* before the request is shown as not reached only when the read of the attempts failed,
\* and a failure banner denies the effect of a call that had returned before the request
\* only when the read of the receipts failed or was cut off at its limit.
\* (getRunDetail, nodeState, usePolledResource, abandonGatewayReceipt)
Terminal == {"completed", "denied", "failed", "cancelled", "manual_review"}
RunPagesInventNothing ==
  page = "run" => \A d \in data :
    /\ d.view.summary.status \in Terminal => d.view.summary.status = TheRun.status
    /\ \A n \in DOMAIN d.view.nodes :
         /\ d.view.nodes[n].state \in {"completed", "failed"}
              => d.view.nodes[n].state \in d.window.nodes[n].latest
         /\ d.view.nodes[n].state = "not_reached" /\ d.window.nodes[n].begun
              => "attempts" \in d.lost
    /\ \A f \in d.view.failure :
         /\ f.externalEffectOccurred => d.window.reserved
         /\ ~f.externalEffectOccurred /\ d.window.finished => "receipts" \in d.lost \/ d.window.cut

\* Polls overlap, fail, and are answered out of order: an older answer may replace a
\* newer one on the screen.  Not for ever: once a run is over, the run list, the overview
\* and the system page come to show it as over, and then stay.
\* (usePolledResource, listRuns, getOverview, getSystemStatus)
ShownAsOver(view) ==
  CASE page = "runs"     -> \A s \in view : s.status = TheRun.status
    [] page = "overview" -> view.active = {}
    [] page = "system"   -> {view.ready, view.leased, view.retrying} = {0}
FinishedRunsShowAsOver ==
  <>[](page \in Endless /\ TheRun.status \in Terminal => \E d \in data : ShownAsOver(d.view))

\* A case page counts and draws what fifteen statements and a second request
\* returned, yet every object a command wrote has its ledger entry on it, the case
\* row is no newer than the ledger shown, and every edge joins two objects drawn;
\* entries are missing only beyond the EventLimit that one answer lists.
\* (getCaseView, getCaseDetail, listCaseEvents, buildCaseGraph)
CasePagesAreGrounded ==
  page = "case" => \A d \in data :
    /\ \A o \in d.view.objects : \A seq \in o.caseSequence :
         seq <= EventLimit => \E event \in ToSet(d.view.activities) : event.caseSequence = seq
    /\ d.view.caseSequence <= d.view.latestSequence \/ d.view.latestSequence = EventLimit
    /\ \A e \in d.view.graph.edges : {e.from, e.to} \subseteq d.view.graph.nodes
=============================================================================
