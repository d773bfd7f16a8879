# A TLA+ model of the Executable Harness Framework

The repository runs compiled agent plans ("harnesses") on behalf of regulated
cases: a control API admits plans and starts runs, dispatchers lease runs and
execute them, a capability gateway is the only way to a model or tool, and a
case service keeps the canonical case record with an event ledger and an outbox.
All coordination goes through PostgreSQL rows; there is no lock service and no
message bus inside. What can go wrong therefore goes wrong **between two SQL
statements**, and that is the grain of these modules: one action per statement
or explicit transaction of the source.

## 1. Inventory

| Part (under `src/`) | State it keeps | Operations | Hard because |
|---|---|---|---|
| Run ledger: `packages/persistence/src/index.ts` | row per run: status, lease owner and expiry, fencing epoch, attempt, cancellation mark, `available_at`; journal; trace link | create, claim, renew, retry, complete, cancel, two sweeps, append event | several dispatchers, leases expire under live workers, cancellation at any moment |
| Dispatcher: `apps/runtime-worker/src/worker.ts` | per slot: the claimed run, its epoch and attempt, two abort signals | slot loop, heartbeat, failure handling | dies between statements; its two heartbeat statements race; journal is written after the row and unfenced |
| Capability gateway: `apps/capability-gateway/src/app.ts` | receipts; call and cost counters of the run | authorize, reserve, call, complete, bill, abandon | duplicate and concurrent deliveries, a call whose outcome is unknown, budgets at their limit, fence checked earlier than used |
| Case ledger: `packages/case-store/src/index.ts` | case sequence, events, chain head, receipts, outbox | create case, submit command, verify | retries under another key, stale preconditions, digests of rendered values |
| Case aggregate: same file, `applyMutation` | status, evidence, claims, facts, findings, contradictions, recommendations, gates, dispositions | eighteen commands and evidence registration | long legal sequences; no constraint but the status graph forbids a second decision |
| Outbox relay: `packages/case-store/src/outbox-relay.ts` | claim id and time per row, published mark | claim, publish, mark, release, purge | claims time out under live relays; the sink may accept and fail |
| Case API: `apps/case-api` | none | envelope and actor check, routes to the case store | authority is the envelope's signature and lifetime, no fence |
| Envelope broker, runtime state routes: `apps/control-api`, `packages/runtime-state` | node rows, journal, checkpoint | issue envelope, node started/finished, event, checkpoint | fence is checked in one statement and the write made in another; a request that timed out is still handled |
| Authoring: `apps/control-api/src/app.ts`, `authoring*.ts`, `agent-import.ts` | draft: revision, status, plan, approver; contributor events; agent, skill and capability registries | edit, attach, compile, evaluate, approve, publish, register, import | read, long computation, then an update that compares status only; the event is a later statement |
| Harness compiler: `crates/harness-compiler`, `authoring.ts` | none | analyze, materialize contracts, compile | a plan must stand without the registries it was compiled from |
| Graph runtime: `packages/runtime-core`, `runtime-langgraph` | channels (values, settlements) saved per thread | lower, superstep, join, settle, route | branches that fail or settle, branches of different depth, a thread two attempts share |
| Runtime host, providers: `apps/runtime-host`, `packages/runtime-provider` | table of executions in flight | accept, execute, status, cancel, forget | lost answers, a table that forgets |
| Identity: `packages/identity`, `apps/control-ui/src/proxy.ts` | none | resolve a principal, authorize an action | two modes; headers one service sets and the next trusts |
| Control surface: `apps/control-ui` | data of the page shown, drawer, polls in flight | poll, admit, start a run, demo case | views of several reads, answers out of order, repeated submissions |
| Adapters, telemetry, contracts | none that others share | HTTP, tracing, schemas | - |

Interaction: the dispatcher and the control API share the run row; the gateway
reads the run's fence and writes its counters; the graph runtime calls the
gateway and posts case commands; the case transaction fills the outbox the relay
drains. The author plane produces the plans the ledger runs; the host executes
them for the dispatcher; the control surface reads from every service. The fence
is the thread through all of it: `claimRun` and `requestRunCancellation` move it,
the others compare it.

What makes each part correct:

* run ledger and dispatcher - one executor per attempt, no late worker has the
  last word, a cancellation is final and takes effect, attempts are bounded, the
  journal tells the truth, runs settle;
* gateway - a result is produced once and kept, calls stay within budget, costs
  are not billed twice;
* case ledger - a logical command applies once, on the state it was built on;
  everything a transaction writes agrees; the chain verifies;
* case aggregate - a case is decided once and by authority; facts rest on evidence;
* outbox - nothing marked that was not delivered, nothing left for ever,
  duplicates only where the code says so;
* author plane - no edit lost unseen, nothing published but what was approved, by
  someone who did not write it; a stored plan needs no registry;
* authority - a superseded attempt moves nothing that belongs to the current one;
* graph runtime - a join sees what its branches did, a completed run has no hole;
* control surface - one intent starts one run, no page shows what never was, and a
  run that is over comes to be shown as over.

`PROJECT.json` lists the hazards line by line with the properties that cover them.

## 2. Modules

| Module | Models | State and actions |
|---|---|---|
| `RunDispatch` | run ledger and dispatcher | a row per run, a program counter and remembered values per slot; every statement an action; lease expiry, backoff, crash, restart and failing statements interleave freely |
| `RunLifecycle` | what the ledger promises | stage, stop requests and attempts used; no leases, fences or workers |
| `RunDispatch_proofs` | - | theorems about `RunDispatch`, the refinement included |
| `CapabilityGateway` | `POST /v1/invoke` for the invocations of one run | receipts, counters, and a program counter per concurrent handler |
| `CapabilityGateway_proofs` | - | theorems about it |
| `CaseLedger` | command path of one case | sequence, events, head, receipts, outbox; clients that read, post, lose the answer and post again |
| `CaseAggregate` | what the commands do to one case | one action per command; a step is a whole transaction |
| `OutboxRelay` | relays over the two outbox tables | claims with ids and timeouts; a program counter per relay |
| `Identity` | principals, roles, proxy and edge headers | pure operators called by `Authoring` and `RunAuthority` |
| `PlanCompiler` | sources to plan | pure operators called by `Authoring` |
| `Authoring` | the author plane over one draft and its registries | the draft's row, events, registries, admitted plans, a program counter and the values read per request; one action per statement |
| `RunAuthority` | what the runtimes of a run's attempts may still do | run row, grants, envelopes, node rows, journal, case commands; requests in flight, each checked and written in separate steps |
| `PlanGraph` | the shape of a plan: joins, starts, what `lowerHarnessPlan` refuses, plans that run in layers | operators over one plan, called by `GraphExecution` |
| `Subsequences` | picking out of a sequence without recursion | operators called by `PlanCompiler`, `PlanGraph` and `RuntimeValues` |
| `RuntimeValues` | values on a plan's edges, `runtime-core`'s pure functions | operators called by `GraphExecution` |
| `GraphExecution` | one plan executed as a graph, the host and its provider | saved channels, an invocation per attempt with its tasks, journal, receipts, the host's table |
| `SurfaceViews` | the views of `runtime-service.ts` | operators called by `ControlSurface` |
| `ControlSurface` | one browser tab over the APIs | databases, page, polls with the committed states since their request, drawer, requests on the wire |
| `Authoring_proofs`, `RunAuthority_proofs`, `GraphExecution_proofs`, `ControlSurface_proofs` | - | theorems about the module they are named for |
| `CaseServices_proofs` | - | theorems about `CaseLedger`, `CaseAggregate` and `OutboxRelay` |
| `FiniteOrders` | - | lemmas the proofs share: least and greatest members, what a subsequence keeps, finite linear orders |
| `MC*` | - | small instances: plans, requests, roles |

Composition. `Authoring` extends `Identity` and `PlanCompiler`; `RunAuthority`
extends `Identity`; `GraphExecution` extends `RuntimeValues` and uses `PlanGraph`
for the plan it runs; `ControlSurface` extends `SurfaceViews`. The run ledger appears in full in `RunDispatch` and
reduced to what others read in `RunAuthority` (status, owner, epoch, attempt,
mark; a claim at any time stands for an expired lease) and in `CapabilityGateway`
(a fence that may move at any time).

Definitions keep the source's names. Definitions whose comment begins with
"Mutant" are deliberately wrong variants of the definition that follows; no
specification uses them. They exist to show that each property notices a
plausible bug.

How values are abstracted:

* Time is not counted. A valid lease may expire, a backoff elapse and an outbox
  claim go stale at any moment; this includes every real timing.
* `provider.invoke` is its outcome: completed, a failed result, or a rejection,
  with the class of the error code (`retryable`, fatal, denied). An error the
  database raises is classed retryable because its message is outside the
  list `retryable` excludes (worker.ts 58-68).
* Abort signals raised after the catch block has read them change nothing and
  are left out.
* A digest is the value it is computed from, so equal digests mean equal input.
  In `CaseLedger` the rendering of `occurredAt` is kept (absent, with or without
  milliseconds), because verification renders it again.
* Refused requests that write nothing are left out, except where the refusal
  itself is the point (conflicts in `CapabilityGateway` and `CaseLedger`).
* An optional value is a set with at most one member; text is a token, and where
  the code compares or sorts it, the order is a parameter.
* LangGraph is external: tasks of a superstep run side by side, their writes are
  applied together, a task that throws ends the invocation while its siblings
  run on, and an attempt starts again at START with the thread's saved channels.
* A read of the control surface returns what one of the states committed between
  its request and its answer held, each read its own.
* `CaseLedger` sees a command as accepted or refused; `CaseAggregate` sees only
  accepted ones. Both hold the case's row lock for the whole command, so the two
  views compose without further interleaving.

## 3. Runs

Bounds in parentheses. Distinct states are those of the complete search.

| Run | Instance | Shows |
|---|---|---|
| `dispatch_protocol` | 1 run, 2 slots, limit 2, 1 crash, epochs to 3 (48 k) | `OneExecutorPerAttempt`, `FenceImpliesAuthority`, `CancellationIsFinal`, `JournalAgreesWithRow`, `OnlyAuthoritySettles`, refinement of `RunLifecycle`; under fairness `CancellationTakesEffect`, `RunSettlesOrStrands` |
| `dispatch_stranded` | 1 slot, no crash | violation: a run is left `running` for ever |
| `gateway_receipts` | 2 handlers, 3 invocations, 2 digests, tight budgets (957 k, symmetric) | one result per invocation, no repeated call, call budgets and bounded cost overshoot, billing |
| `outbox_delivery` | 2 relays, 2 + 1 rows, batch 2, 1 fault (95 k) | delivery, explained duplicates; under fairness every event is published |
| `ledger_safety` | 2 attempts and 2 interactive posts (886 k) | applied once, no lost update, whole transactions, true answers, verifiable chain |
| `ledger_verify`, `ledger_retry` | same clients | violations, see below |
| `case_decision` | 2 recommendations, 1 gate, 2 dispositions, one of every other object (1.9 M, symmetric) | decided once and by authority; lineage of facts |
| `authoring_safety` | 1 draft, 2 requests in flight, 3 people, 2 revisions, 1 fault (1.2 M) | edits, approval, separation of duties, audit trail, self-contained plans, imports |
| `authority_safety` | 2 attempts, 1 worker, 1 fault, other callers (543 k) | fenced moves, granted entries, completed means written |
| `graph_safety` | 18 plans of up to 10 nodes, 2 attempts, 1 fault (289 k) | joins, whole runs, host status, values |
| `surface_safety` | 2 polls in flight, windows of 2 states (3 on the case page), 2 run plans, 2 attempts, 2 openings, 2 submissions, 4 case commands (731 k) | one run per intent, run pages, case pages; under fairness finished runs come to be shown as over |

Why the bounds are enough. Two slots are the least number with a superseded and
a current executor, and two attempts the least with a retry and a last attempt;
larger dispatch instances add nothing that the theorems of section 4 do not cover.
`MaxEpoch` only stops repeated cancellation requests once the fence is past every
claim. Two handlers meet at each statement of a receipt; a third would repeat one
of the two roles. The outbox instance has both tables, a batch of two, and one
fault, so a claim can be lost and taken over. Two attempts plus two interactive
posts give every pair of same command / same key that the code tells apart. The
decision instance has a second recommendation and disposition, one more than a
decision uses. In `authoring_safety` one request walks the lifecycle while another
edits, approves or imports (`Ops1`, `Ops2`); the sources bring an agent node with
a registered capability, and two revisions allow an edit between any two statements. Two
attempts are enough for a superseded and an owning runtime, and one fault for the
request that is handled late. The plans of `graph_safety` are chosen for their
shapes: settled and voted branches, branches of different depth into both kinds
of join, each transform and aggregator, and the plans `lowerHarnessPlan` refuses.
Two polls suffice for an older answer to arrive after a newer one, and a window of
two states for a view whose reads disagree (three for the case page, whose events are
asked for after the tables). What a run page shows is judged by the window of its own
poll, so the instance polls it once, at every moment of the run; the case page is polled
twice, and the list, overview and system pages (`Endless`) without bound, as the
liveness property needs. Of the two plans of a run page one calls a capability with an
external effect, the other one that only reads. The limits of lists are 1 (plans, runs,
receipts) and 3 (events), below what the run writes, so lists are cut off. A theorem
covers each of these bounds but the liveness.

Symmetry is used for the gateway's handlers, invocations and digests, for
recommendations and dispositions, in runs that check no liveness. `CHECK_DEADLOCK FALSE`
stands where a finite instance may stop: a closed case whose ids are used up, a draft whose
revisions are, a run that settled, an invocation that ended, a tab whose bounded
polls are spent.

Fairness (`FairSpec` of `RunDispatch`, `OutboxRelay` and `ControlSurface`): the clock runs; a
slot's or relay's loop goes on because every await settles (an invoke carries
an abort timeout, pool statements resolve or reject) and timers fire; a stopped
process is restarted by its supervisor. Strong fairness is assumed of the claim
and the sweeps, and of the relay's claim: row locks and statement errors pass,
so a claim that is possible again and again succeeds once. Nothing is assumed of
operators, heartbeats, crashes or of a sink that keeps failing (failures of the
relay are bounded). Of the control surface (`Polling`): the interval of a visible tab
fires again and again, each request settles, and not all of them fail for ever; a tab
that is hidden, or whose every request fails, keeps what it shows. Nothing is assumed
of the order in which requests settle, nor of the worker.

### Where the code and its documentation disagree

1. `dispatch_stranded`. A run whose *last* permitted attempt loses its worker (a
   crash, or a failing statement before the try) is `running` with an expired
   lease and `attempt = attempt_limit`. `claimRun` wants an attempt left,
   `failExhaustedRuns` looks at waiting rows only. The comment there says such runs
   are terminal. `RunSettlesOrStrands` shows this is the only way to get stuck.
2. `ledger_verify`. An `occurredAt` without milliseconds is hashed as written and
   verified as rendered: an untouched ledger is reported invalid.
3. `ledger_retry`. A later attempt repeats an accepted case write under another
   idempotency key and is refused by the receipts' primary key, which fails the
   node on every further attempt.

Other divergences and limits show in the models and have no run of their own.

*Gateway.* The fence is compared in a statement of its own before the reservation
(app.ts 233, 276): a cancellation between the two does not stop the call. The
cost budget admits every call in flight (`BudgetsHold` states the bound that
holds; implementation-plan.md:271 allows one). An identical duplicate is told
"conflict" when the first delivery gives up between the duplicate's insert and
its select (`InspectReceipt` without a row; agent-runtime-capability-gateway.md:362).

*Case.* A finding's fact references are not looked up (`RecordScreeningFinding`;
canonical-case-ledger-evidence-store.md:18). A gate evaluated before the record
changed still authorizes a disposition (`GateAuthorizes`; line 262 there).
Verification reads one page of 1000 events (case-store index.ts 1155). The case
API asks an envelope's signature and lifetime only, so a superseded attempt's
commands pass until it expires; `AgentEntriesAreGranted` is what remains true.

*Authoring.* Contributors are read in one statement and the approval made in
another, so someone may contribute between them; `DutiesStaySeparate` therefore
counts contributions answered before the approving request read. Compilation stores its plan where the status is still
`DRAFT`, whatever the revision (app.ts 308): an edit in between is kept beside the plan
of the older text, and evaluation and approval look at that plan. The editor page
sends the revision of its latest poll with the text of an older one
(author/[draftId]/page.tsx 79): an edit saved in between is overwritten although
the server's check passes.

*Graph and host.* A retry starts at START with the values an earlier attempt left
in the thread. A node that is no join and has two incoming edges of different
depth runs once per superstep in which a predecessor ran. Siblings of a failed
task run on. A cancelled invocation is reported as failed by the host.

*Control surface.* `getRunDetail` takes a failed read for an empty one, so a run
page may show a begun node as not reached and a missing effect
(docs/plans/poc-control-surface-ui-spec.md:576 and :671 want stale data kept);
`RunPagesInventNothing` makes that exception explicit. The failure banner
stays while a retried run runs (`claimRun` leaves `error_code`). It counts a call as an
effect from its reservation on, and the gateway deletes the receipt when the provider
fails (`abandonGatewayReceipt`), so an effect reported once may be gone from the next
view; what the banner denies had not returned when the page was asked for. Lists end at
100 plans, runs and receipts and at 1000 events: a longer case shows objects without
their entries, and a run with more receipts may deny an effect. An answer that arrives late
replaces a newer one until another poll is answered (`FinishedRunsShowAsOver`).

## 4. Proofs

The theorems hold for every value of the constants (any number of runs, slots,
handlers, invocations, clients, relays, requests, attempts, polls), under the
named assumptions on constants that TLC evaluates on every run. Each component
has an inductive invariant, named `IInv` or after the component (`GatewayInv`,
`BudgetInv`, `LedgerInv`, `AggregateInv`, `RelayInv`, `GraphInv`, `LayersInv`,
`PlansAreSound`), and a theorem or lemma that it holds throughout. The other theorems
follow from it. Below: what the invariant adds to the properties, and why it is needed.

*RunDispatch_proofs.* That passing the fence implies authority needs to know that
what a slot remembers is never ahead of the row (`HeldIsPast`), and that whoever
remembers the current epoch also remembers the current attempt of an unmarked run
(`FenceIsLatest`), which holds since claim and cancellation both move the epoch.
The journal's honesty needs, per program counter, what the slot has already made
true (`PhaseFacts`), and that terminal rows do not change. Lemmas first reduce the
many actions to a few facts about their effects (`RowEffects`, `ClaimEffects`,
`JournalEffects`), so each conjunct is proved from effects. From `IInv` follow
`TypeCorrect`, `FencingIsSound`, `AttemptsAreNotShared`, `CancellationWins`,
`NoExhaustedRunWaits`, `JournalIsHonest`, the action properties `TerminalStays` and
`AuthoritySettles`, and `RefinesLifecycle`: every step is a step of `RunLifecycle` or
a stutter of it. The theorems cover several runs, where the sweeps take many rows
at once; the TLC instance has one.

*CapabilityGateway_proofs.* `GatewayInv` says that a handler between reservation
and completion owns its receipt alone (`OneOwner`), that the owned receipt is
unfinished and no result has been produced before the call returned
(`OwnedReceipts`), and that a produced result pins the receipt
(`ResultsHaveReceipts`). From it: at most one result per invocation, stored
results stay, an answered invocation is never called again. `BudgetInv` is the
bookkeeping behind `BudgetsAreKept` and `ChargesAreBilledOnce`: calls made and calls
reserved are counted (`CallsAreCounted`), each handler that may still charge has
room for one charge (`ChargesAreBounded`), and what the providers charged covers
what is recorded and what is outstanding (`ChargesAreCovered`). The sums are
`MapThenSumSet`, whose recursion has a solution over a finite set and moves with one
member's value (`TotalIsAdded`, `TotalMoves`); both are shown by taking a least
counterexample, and need `FiniteAssumption`: finitely many requests at a time and
finitely many invocations of a run. The proof also corrected the property: with a
cost limit of 0, which the plan schema allows, and free calls the cost is not
*below* its bound but 0, so `BudgetsHold` now speaks of a cost above 0.

*CaseServices_proofs, the relay.* A relay that may mark has delivered its batch
(`MarkFollowsDelivery`), claims are on unpublished rows and known to their holders
(`ClaimsAreOnPending`, `HoldersHaveClaims`), deliveries made and still to be made are
within `publish_attempts` (`DeliveriesAreCharged`), and an attempt beyond the first
needs a claim that timed out or was released (`AttemptsAreReopenings`). Hence `MarkedRowsWereDelivered` and
`DeliveriesAreBounded`. `RelayAssumption`: finitely many relays.

*The ledger.* A receipt names the event of its own command and the request it
was issued for (`ReceiptsNameTheirEvents`), a client that posts has read a case that
exists (`ViewsAreOfTheCase`), and every digest covers its predecessor's (`ChainHolds`). Hence `CommandsApplyOnce`, `TransactionsAreWhole`,
`NoLostUpdate`, `AnswersAreReceipts`, and `ChainIsUnbroken`, the hash chain as it was
written. `MillisLedgersVerify` proves `HonestLedgerVerifies` under the hypothesis that no
client writes `occurredAt` without milliseconds; `ledger_verify` shows that the
hypothesis is needed.

*The aggregate.* Claims rest on linked evidence (`ClaimsRestOnEvidence`), gates
judge recommendations somebody submitted (`GatesJudgeRecommendations`), and the status
graph leads from a decided status to `CLOSED` alone.
Hence `OneDisposition`, `DispositionsAreAuthorized`, `LineageIsSound`, `DecisionStays`.
`NullAssumption` keeps the empty markers apart from gate results and dispositions.

*Authoring_proofs.* What a handler has read is related to the row by revision and
status: an equal revision means equal sources, an approved status read means an
approval made, a bundle being registered has its earlier skills in. Hence
`AdmissionsWereApproved`, `EditsReplaceTheirBase`, `DutiesAreSeparated`,
`ImportsArriveComplete`. `RequestAssumption` says which requests the routes have.
`GuardNamesTheTokensSubject` and `EventsAreAttributed` carry two hypotheses:
`SignInRequired` (the identity provider is Entra, and Azure mode or the absence of
local autologin keeps the proxy from signing everybody in as the local developer) and, for the events, `TokensNameTheirHolder` (a
token the edge accepts was issued to who sends it).

`StoredPlansResolve` proves `CompiledPlansResolve` for sources of any size. It has two
halves. The first is about the compiler: sources without an error diagnostic compile to a
plan that resolves (`PlanResolves`). `NoErrors` collects what the diagnostics have looked
at. What is left is the order: `topologicalOrder` is a recursive function of the number of
nodes taken, `OrderingUnfolds` shows by a least counterexample that the recursion has a solution,
and `Sorted` holds after each of its steps: nothing is ordered twice, whatever is on the
queue or in the order waits for no edge from outside the order, and the counts are those of
the edges still waited for (`StartIsSorted`, `ReleaseKeepsSorted`). So an order as long as the
graph holds every node, each after the sources of its edges (`OrderIsTopological`). The second half is
`PlansAreSound`: sources in the row and in every request in flight are lists, which the edits
and the materialization of registered contracts keep (`AttachKeepsLists`,
`MaterializedKeepsLists`), a compiling request decides only when it has read all three registries,
and every plan held, stored or admitted came out of a compilation without errors. It does
not matter that registries and sources moved on since. The new part of `RequestAssumption`
is that a request brings parsed sources (what is not an array is read as an empty one).

*RunAuthority_proofs.* Envelopes come from grants of claimed attempts
(`EnvelopesAreGranted`), epochs grow with attempts (`FencesGrow`), and the requests of a
node, some of them timed out, keep its program order (`ProgramOrder`): what a later
one presupposes has been accepted. Hence `AgentsWriteUnderGrants`,
`CompletedNodesWrote` and the action property `OnlyTheOwnerMoves`.

*ControlSurface_proofs.* The window of every poll is a history of sound snapshots,
each keeping of the ones before it the final statuses, the nodes that began, the
receipts with a result, the objects and the ledger (`WindowsAreHistories`). A receipt
without a result may go, so what a banner reports is true of a moment of its window and
not of the state at the answer; `RunPageShown` keeps that verdict with the view.
Runs and requests are keyed (`RunsAreKeyed`, `RequestsAreAnsweredTruly`). Hence
`OneIntentOneRun`, `RunPagesAreTrue`, `CasePagesStand`. `SurfaceAssumption` asks that
limits and bounds are positive and that `Blank` is an input; the number of commands of a
case is free, so `CasePagesStand` speaks of the entries one answer can list.

*GraphExecution_proofs.* `GraphInv` holds for every plan: only the tasks of the superstep
are at work, a task that returned is journaled, a settled one feeds an all-settled join,
and a value about to be journaled is the node's function of its input. Hence
`StatusIsKnown` and `JournalsAreWhole` (a completed run has no node that returned and is not
journaled), and `ValuesAreMeant`: an elected value has a plurality, deduplication leaves one
item per key, a sort is stable, whatever the input. Its hypothesis `AllReadLists` says that
arrays and the keys of objects are sequences and that the comparator orders the items sorted;
that every value a run can produce is of this kind is induction over data. It is a
hypothesis: no run lists it either. `graph_safety` checks `ValuesMeetTheirMeaning` without it.
The theorems about joins and outputs are about plans that run in layers (`PlanGraph`:
`Layering`, `Concluding`): every node but a join is one superstep deeper than each of its
predecessors, and a join waits for branches that are sure to run and bring different keys.
`LayersInv` says that in such a plan each node runs in the superstep of its depth, in this
attempt, and that the channels hold what the branches of a pending join left there in this
attempt rather than in an earlier one of the same thread. Hence `JoinsSeeTheirBranches`
and `CompletedRunsAreWhole` (exactly one output has run, and its value is the run's).
The hypotheses are not empty: `RegularPlans`, an assumption TLC evaluates, finds the layers of
thirteen of the eighteen plans of the instance. The other five are four that `lowerHarnessPlan`
refuses and one with two outputs in a superstep, which LangGraph refuses at run time; TLC checks
the properties on them. Plans in which a node that is no join has predecessors of
different depth are in neither.

Type invariants, `ResultIsPermanent`, `WaitingRunHasBudget`, `TerminalIsFinal`, `ChainHolds`,
`DecisionIsFinal` and `GuardNamesTheTokensSubject` are stated by theorems only.

Only model-checked: the liveness properties (fairness and ENABLED are outside the
prover's reach); `RepeatedOperationIsAnswered` and `EveryRunSettles`, which are violated.
Every other invariant and action property of a passing run is stated by a theorem.

## 5. Not modelled, and what could come next

Not modelled: adapters and telemetry (I/O), contracts (types); in the
control surface the layout, the drawing of graphs and the editor's page state; in the
compiler parsing, rendering and digests; in the runtime prompts and the parsing
of model output; in the services start-up, drain and the routes that only list.
`GraphExecution` gives the gateway's answer to a repeated invocation as its receipt,
the property `CapabilityGateway` establishes.

What would extend the project: `JoinSeesEveryBranch` for plans whose branches differ in depth,
which needs to know which of a node's repeated runs a join reads; `AllReadLists` from the
operators of `RuntimeValues`; and the editor's page state beside `ControlSurface`.
