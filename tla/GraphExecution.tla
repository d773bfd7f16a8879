--------------------------- MODULE GraphExecution ---------------------------
(***************************************************************************)
(* Execution of one run's plan as a graph: lowerHarnessPlan of             *)
(* packages/runtime-langgraph, the executor and the invocation table of    *)
(* apps/runtime-host, and the provider through which the dispatcher calls  *)
(* the host (packages/runtime-provider).                                   *)
(*                                                                         *)
(* LangGraph is external: the tasks of a superstep run side by side, their *)
(* writes are applied together when the last one returns, a task that      *)
(* throws ends the invocation at once while the others run on, and the     *)
(* channels are saved after every superstep under the run's thread.  An    *)
(* attempt is a new invocation with an input: it loads the saved channels  *)
(* and starts again at START.  The gateway is external too: it answers an  *)
(* invocation it has a receipt for with the receipt's result.              *)
(***************************************************************************)
EXTENDS RuntimeValues

CONSTANTS
  Plans,           \* the plans a run may have been admitted with
  Input,           \* the run's input
  Results,         \* what each node's capability may return or throw
  MaxAttempts,
  MaxFaults        \* bound on faults: failed journal writes, lost answers, aborts

ASSUME GraphAssumption == MaxAttempts \in Nat /\ MaxFaults \in Nat
\* A plan has finitely many nodes, by their ids, and its edges in an order.
ASSUME PlanAssumption ==
  \A p \in Plans : IsFiniteSet(DOMAIN p.nodes) /\ p.edges \in Seq({p.edges[i] : i \in DOMAIN p.edges})

Attempts == 1..MaxAttempts

VARIABLES
  plan,
  thread,      \* the channels in the checkpoint store
  inv,         \* per attempt: phase, superstep, its tasks' nodes and its channels
  task,        \* per attempt and node: stage and value
  journal,     \* node_attempts: the status recorded per attempt and node
  receipts,    \* results the gateway holds
  host,        \* the host's inFlight table
  answer,      \* what the dispatcher got for its call of invoke
  faults

vars == <<plan, thread, inv, task, journal, receipts, host, answer, faults>>

INSTANCE PlanGraph

----------------------------------------------------------------------------
(* What a node reads. *)

Value(m, n) == IF n \in DOMAIN m.values THEN m.values[n] ELSE Undefined

Fulfilled(v)   == Obj(<<"status", "value">>, [status |-> Str("fulfilled"), value |-> v])
Rejected(code) == Obj(<<"status", "reason">>, [status |-> Str("rejected"), reason |-> Str(code)])

allSettledInput(n, m) ==
  LET in == Incoming(n)
      settled(e) == IF e.from \in DOMAIN m.settlements THEN m.settlements[e.from]
                    ELSE Fulfilled(getPath(Value(m, e.from), e.sourcePath))
  IN FromEntries([i \in DOMAIN in |-> <<in[i].targetKey, settled(in[i])>>])

\* {...root, evidence: state.values}; the order of the values' keys is not used.
WithEvidence(m) ==
  LET root == IF IsObject(Input) THEN Entries(Input) ELSE <<<<"input", Input>>>>
  IN FromEntries(Append(root, <<"evidence", Obj(<<>>, m.values)>>))

CapabilityKinds == {"agent", "tool", "evaluate"}

nodeInput(n, m) ==
  LET in == Incoming(n) IN
  IF in = <<>> THEN Input
  ELSE IF n \in AllSettledJoins THEN allSettledInput(n, m)
  ELSE IF Kind(n) \in CapabilityKinds THEN WithEvidence(m)
  ELSE IF Len(in) = 1 THEN getPath(Value(m, in[1].from), in[1].sourcePath)
  ELSE FromEntries([i \in DOMAIN in |->
                      <<in[i].targetKey, getPath(Value(m, in[i].from), in[i].sourcePath)>>])

\* {...state, ...state.values}, as far as the plans' expressions look.
StateView(m) ==
  Obj(<<>>, [k \in {"input"} \cup DOMAIN m.values |-> IF k \in DOMAIN m.values THEN m.values[k] ELSE Input])

\* edge.condition === String(routedValue) || evaluateCondition(edge.condition, ...)
Matches(n, e, m) ==
  \/ Config(n).expression # <<>> /\ Str(e.condition.text) = getPath(StateView(m), Config(n).expression)
  \/ evaluateCondition(e.condition, StateView(m))

\* The target of the first control edge that matches; none is END.
routeFor(n, m) ==
  LET hits == {i \in DOMAIN plan.edges : plan.edges[i] \in Controls(n) /\ Matches(n, plan.edges[i], m)}
  IN IF hits = {} THEN {} ELSE {plan.edges[Min(hits)].to}

\* Mutant: the edge of a branch to its join is added beside the join's own edge from all of them.
TargetsAndJoins(n, m) ==
  IF Controls(n) # {} THEN routeFor(n, m)
  ELSE IF Kind(n) = "output" THEN {}
  ELSE {e.to : e \in Outgoing(n)}

\* The edges added to the graph: where a node that returned leads.
Targets(n, m) ==
  IF Controls(n) # {} THEN routeFor(n, m)
  ELSE IF Kind(n) = "output" THEN {}
  ELSE {e.to : e \in Outgoing(n)} \ barrierTargets

\* What the node's function computes from its input, capability calls aside.
Compute(n, x) ==
  CASE Kind(n) = "input" -> Input
    [] Kind(n) \in {"output", "condition", "join"} -> x
    [] Kind(n) = "transform"  -> transformValue(Config(n), x)
    [] Kind(n) = "aggregator" -> aggregateValue(Config(n), x)
    [] OTHER -> Thrown("node_kind_unsupported")

----------------------------------------------------------------------------
Channels == [values |-> [n \in {} |-> Undefined], settlements |-> [n \in {} |-> Undefined],
             output |-> Undefined, seen |-> {}]

Idle   == [phase |-> "none", step |-> 0, active |-> {}, mem |-> Channels, aborted |-> FALSE]
NoTask == [stage |-> "none", value |-> Undefined]

Init ==
  /\ plan \in Plans
  /\ thread = Channels
  /\ inv = [a \in Attempts |-> Idle]
  /\ task = [a \in Attempts |-> [n \in Nodes |-> NoTask]]
  /\ journal = [a \in Attempts |-> [n \in Nodes |-> "none"]]
  /\ receipts = {}
  /\ host = [a \in Attempts |-> "none"]
  /\ answer = [a \in Attempts |-> "none"]
  /\ faults = 0

Started(a) == inv[a].phase # "none"
Running(a) == inv[a].phase = "running"
Ended(a)   == inv[a].phase \in {"completed", "failed", "denied", "threw"}

\* The fence of the run is that of its latest attempt.
Current(a) == \A b \in Attempts : Started(b) => b <= a

Fault == faults < MaxFaults /\ faults' = faults + 1

\* The outcomes of a journal write followed by its event: both are stored, only the row is, or
\* nothing is.  The control API refuses a superseded attempt.
Journals(a, n, status, ok) ==
  \/ /\ Current(a) /\ ok
     /\ journal' = [journal EXCEPT ![a][n] = status]
     /\ UNCHANGED faults
  \/ /\ ~ok /\ Fault
     /\ journal' \in {journal, [journal EXCEPT ![a][n] = status]}
  \/ /\ ~ok /\ ~Current(a)
     /\ UNCHANGED <<journal, faults>>

\* Mutant: the catch of every node records a settlement.
CaughtAlways(n, code) == [stage |-> "settled", value |-> Thrown(code)]

\* A graph node's catch: a settled source's error becomes a settlement, any other is thrown.
Caught(n, code) == [stage |-> IF n \in settledSourceIds THEN "settled" ELSE "error", value |-> Thrown(code)]

----------------------------------------------------------------------------
(* The host and the executor around the graph. *)

\* executeRuntimeInvocation has returned or thrown; the host's handler notes which.
Finish(a, phase) ==
  /\ inv' = [inv EXCEPT ![a].phase = phase]
  /\ host' = [host EXCEPT ![a] =
       CASE phase = "completed" -> "completed"
         [] phase = "threw" /\ inv[a].aborted -> "cancelled"
         [] OTHER -> "failed"]

\* The dispatcher's next attempt: one whose call failed, or whose answer it never got.
MayStart(a) ==
  /\ ~Started(a)
  /\ a <= plan.attemptLimit
  /\ a > 1 => answer[a - 1] \in {"failed", "threw", "lost"}

Tasks(a, ns) == [task EXCEPT ![a] = [n \in Nodes |->
                   IF n \in ns THEN [stage |-> "starting", value |-> Undefined] ELSE @[n]]]

\* POST /invocations, the executor's lowering and compiled.invoke on the run's thread:
\* input replaces input, and values: {} adds nothing to the values saved.
Invoke(a) ==
  /\ MayStart(a)
  /\ Lowers
  /\ inv' = [inv EXCEPT ![a] = [Idle EXCEPT !.phase = "running", !.step = 1, !.active = Starts, !.mem = thread]]
  /\ task' = Tasks(a, Starts)
  /\ host' = [host EXCEPT ![a] = "running"]
  /\ UNCHANGED <<plan, thread, journal, receipts, answer, faults>>

\* The plan cannot be lowered, or its deadline has passed.
Refuse(a) ==
  /\ MayStart(a)
  /\ (~Lowers /\ UNCHANGED faults) \/ Fault
  /\ Finish(a, "threw")
  /\ UNCHANGED <<plan, thread, task, journal, receipts, answer>>

\* The task that threw decides the result; its siblings run on.
GraphFails(a) ==
  /\ Running(a)
  /\ \E n \in inv[a].active :
       /\ task[a][n].stage = "error"
       /\ Finish(a, IF task[a][n].value = Thrown("denied") THEN "denied" ELSE "failed")
  /\ UNCHANGED <<plan, thread, task, journal, receipts, answer, faults>>

\* The deadline's or the cancellation's signal ends the invocation, not its tasks.
Stop(a) ==
  /\ Running(a)
  /\ (inv[a].aborted /\ UNCHANGED faults) \/ Fault
  /\ Finish(a, "failed")
  /\ UNCHANGED <<plan, thread, task, journal, receipts, answer>>

\* markCheckpoint and the result.
MarkCheckpoint(a) ==
  /\ inv[a].phase = "marking"
  /\ \/ Current(a) /\ Finish(a, "completed") /\ UNCHANGED faults
     \/ ~Current(a) /\ Finish(a, "failed") /\ UNCHANGED faults
     \/ Fault /\ Finish(a, "failed")
  /\ UNCHANGED <<plan, thread, task, journal, receipts, answer>>

\* The dispatcher has its answer, or has lost the connection or the lease.
Respond(a) ==
  /\ Started(a) /\ answer[a] = "none"
  /\ \/ Ended(a) /\ answer' = [answer EXCEPT ![a] = inv[a].phase] /\ UNCHANGED faults
     \/ answer' = [answer EXCEPT ![a] = "lost"] /\ Fault
  /\ UNCHANGED <<plan, thread, inv, task, journal, receipts, host>>

\* POST cancel: a host without the entry answers 404, which the provider accepts.
Cancel(a) ==
  /\ Started(a) /\ ~inv[a].aborted
  /\ Fault
  /\ inv' = [inv EXCEPT ![a].aborted = @ \/ host[a] # "none"]
  /\ UNCHANGED <<plan, thread, task, journal, receipts, host, answer>>

\* The timer of an ended invocation drops its entry.
Forget(a) ==
  /\ Ended(a) /\ host[a] # "none"
  /\ host' = [host EXCEPT ![a] = "none"]
  /\ UNCHANGED <<plan, thread, inv, task, journal, receipts, answer, faults>>

\* Mutant: an invocation the host has no record of is reported as failed.
StatusGuessed(a) == IF host[a] = "none" THEN "failed" ELSE host[a]

\* GET /invocations/:invocationId
Status(a) == IF host[a] = "none" THEN "unknown" ELSE host[a]

\* getStatus of the provider: without a proper answer of the host the outcome is unknown.
GetStatus(a) == {Status(a), "unknown"}

----------------------------------------------------------------------------
(* executeObservedNode, for the task of node n. *)

Stage(a, n, stage) == Started(a) /\ task[a][n].stage = stage

\* nodeStarted and the node.started event, before the try block.
StartNode(a, n) ==
  /\ Stage(a, n, "starting")
  /\ \/ Journals(a, n, "running", TRUE) /\ task' = [task EXCEPT ![a][n].stage = "executing"]
     \/ Journals(a, n, "running", FALSE) /\ task' = [task EXCEPT ![a][n] = Caught(n, "journal")]
  /\ UNCHANGED <<plan, thread, inv, receipts, host, answer>>

\* What invokeCapability may return or throw for this input.
Outcomes(n, x) ==
  LET held == {r \in receipts : r.node = n /\ r.input = stableDigest(x)} IN
  IF held # {} THEN {r.value : r \in held} ELSE Results[n]

\* The node's work and its case writes, which may be refused.
Execute(a, n) ==
  /\ Stage(a, n, "executing")
  /\ LET x == nodeInput(n, inv[a].mem) IN
     \E v \in IF Kind(n) \in CapabilityKinds THEN Outcomes(n, x) ELSE {Compute(n, x)} :
       /\ receipts' = IF Kind(n) \in CapabilityKinds /\ ~IsThrown(v)
                      THEN receipts \cup {[node |-> n, input |-> stableDigest(x), value |-> v]}
                      ELSE receipts
       /\ \/ task' = [task EXCEPT ![a][n] =
                        [stage |-> IF IsThrown(v) THEN "failing" ELSE "finishing", value |-> v]]
             /\ UNCHANGED faults
          \/ /\ ~IsThrown(v) /\ Fault
             /\ task' = [task EXCEPT ![a][n] = [stage |-> "failing", value |-> Thrown("case")]]
  /\ UNCHANGED <<plan, thread, inv, journal, host, answer>>

\* nodeFinished and node.completed; an error there goes to the catch block too.
CompleteNode(a, n) ==
  /\ Stage(a, n, "finishing")
  /\ \/ Journals(a, n, "completed", TRUE) /\ task' = [task EXCEPT ![a][n].stage = "done"]
     \/ /\ Journals(a, n, "completed", FALSE)
        /\ task' = [task EXCEPT ![a][n] = [stage |-> "failing", value |-> Thrown("journal")]]
  /\ UNCHANGED <<plan, thread, inv, receipts, host, answer>>

\* The catch block: nodeFinished, node.failed and the error; an error there replaces it.
FailNode(a, n) ==
  /\ Stage(a, n, "failing")
  /\ \/ Journals(a, n, "failed", TRUE) /\ task' = [task EXCEPT ![a][n] = Caught(n, task[a][n].value.v)]
     \/ Journals(a, n, "failed", FALSE) /\ task' = [task EXCEPT ![a][n] = Caught(n, "journal")]
  /\ UNCHANGED <<plan, thread, inv, receipts, host, answer>>

----------------------------------------------------------------------------
(* The end of a superstep. *)

Returned(a) == {n \in inv[a].active : task[a][n].stage = "done"}
Settled(a)  == {n \in inv[a].active : task[a][n].stage = "settled"}

\* The reducer of the channels of records: {...current, ...update}.
Reduced(current, update) ==
  [n \in DOMAIN current \cup DOMAIN update |-> IF n \in DOMAIN update THEN update[n] ELSE current[n]]

\* The channels m with what the tasks of ns returned: values, settlements or both.
Written(a, ns, m) ==
  LET done    == ns \cap Returned(a)
      settled == ns \cap Settled(a)
      outputs == {n \in done : Kind(n) = "output"}
  IN [values |-> Reduced(m.values, [n \in done |-> task[a][n].value]),
      settlements |-> Reduced(m.settlements,
        [n \in settled \cup (done \cap settledSourceIds) |->
           IF n \in settled THEN Rejected(task[a][n].value.v) ELSE Fulfilled(task[a][n].value)]),
      output |-> IF outputs = {} THEN m.output ELSE task[a][CHOOSE n \in outputs : TRUE].value,
      seen |-> m.seen]

\* The output channel takes one value per superstep: a second ends the invocation with an error.
Conflicts(a) == \E n, k \in Returned(a) : n # k /\ Kind(n) = "output" /\ Kind(k) = "output"

\* The branches that have reached their joins, the joins they release and the next superstep.
Seen(a)      == inv[a].mem.seen \cup {p \in inv[a].active \X barrierTargets : p[1] \in Sources(p[2])}
Released(a)  == {j \in barrierTargets : \A s \in Sources(j) : <<s, j>> \in Seen(a)}
Following(a) == (UNION {Targets(n, Written(a, {n}, inv[a].mem)) : n \in inv[a].active}) \cup Released(a)
Saved(a)     == [Written(a, inv[a].active, inv[a].mem) EXCEPT !.seen = {p \in Seen(a) : p[2] \notin Released(a)}]

EndSuperstep(a) ==
  /\ Running(a)
  /\ inv[a].active = Returned(a) \cup Settled(a)
  /\ IF Conflicts(a)
     THEN Finish(a, "failed") /\ UNCHANGED <<thread, task>>
     ELSE /\ thread' = Saved(a)
          /\ \/ /\ Following(a) = {}
                /\ inv' = [inv EXCEPT ![a] = [@ EXCEPT !.phase = "marking", !.active = {}, !.mem = Saved(a)]]
                /\ UNCHANGED <<task, host>>
             \/ /\ Following(a) # {} /\ inv[a].step < plan.maxTransitions
                /\ inv' = [inv EXCEPT ![a] = [@ EXCEPT !.step = inv[a].step + 1, !.active = Following(a), !.mem = Saved(a)]]
                /\ task' = Tasks(a, Following(a))
                /\ UNCHANGED host
             \/ /\ Following(a) # {} /\ inv[a].step = plan.maxTransitions
                /\ Finish(a, "failed")
                /\ UNCHANGED task
  /\ UNCHANGED <<plan, journal, receipts, answer, faults>>

Next ==
  \E a \in Attempts :
    \/ Invoke(a) \/ Refuse(a) \/ GraphFails(a) \/ Stop(a) \/ MarkCheckpoint(a)
    \/ Respond(a) \/ Cancel(a) \/ Forget(a) \/ EndSuperstep(a)
    \/ \E n \in Nodes : StartNode(a, n) \/ Execute(a, n) \/ CompleteNode(a, n) \/ FailNode(a, n)

Spec == Init /\ [][Next]_vars

----------------------------------------------------------------------------
(* Properties. *)

Ran(a, n) == task[a][n].stage \in {"done", "settled"}

\* What node n contributed to its attempt, and what join j has of it.
Outcome(a, n, e) ==
  LET v == task[a][n].value IN
  IF e.to \notin AllSettledJoins THEN getPath(v, e.sourcePath)
  ELSE IF task[a][n].stage = "settled" THEN Rejected(v.v) ELSE Fulfilled(v)
Entry(a, j, e) ==
  LET v == task[a][j].value IN
  IF j \in AllSettledJoins \/ Len(Incoming(j)) > 1 THEN v.v[e.targetKey] ELSE v

\* A join has run only after every one of its branches, and each entry of its value is what
\* that branch did in this attempt, never what an earlier attempt left in the thread
\* (addEdge(sources, join) and allSettledInput).
JoinSeesEveryBranch ==
  \A a \in Attempts : \A j \in Nodes :
    Kind(j) = "join" /\ task[a][j].stage \in {"finishing", "done"} =>
      \A i \in DOMAIN Incoming(j) :
        LET e == Incoming(j)[i] IN Ran(a, e.from) /\ Entry(a, j, e) = Outcome(a, e.from, e)

\* A completed invocation leaves no hole: each node it ran is journaled as completed unless an
\* all-settled join answers for it, and it ran one output node, whose value is the output.
CompletedRunIsWhole ==
  \A a \in Attempts : inv[a].phase = "completed" =>
    /\ \A n \in Nodes : task[a][n].stage # "none" =>
         journal[a][n] = "completed" \/ \E e \in Outgoing(n) : e.to \in AllSettledJoins
    /\ \E n \in Nodes :
         /\ Kind(n) = "output" /\ task[a][n].stage = "done" /\ task[a][n].value = inv[a].mem.output
         /\ \A k \in Nodes : Kind(k) = "output" /\ k # n => task[a][k].stage = "none"

\* A dispatcher that lost its call is never told failed about an invocation that completed or
\* still runs: after the host has forgotten it the status is unknown, which licenses no retry
\* (apps/runtime-host/src/app.ts).
StatusIsNeverGuessed ==
  \A a \in Attempts : Started(a) /\ "failed" \in GetStatus(a) => inv[a].phase \in {"failed", "denied", "threw"}

Votes(xs, path, v) == Cardinality({i \in DOMAIN xs : stableDigest(OrNull(getPath(xs[i], path))) = stableDigest(v)})

\* A vote returns a ballot no other ballot outnumbers; a sort its input's items, none before one
\* the direction puts first and equal ones in their old order; a deduplication one item of every
\* key (aggregateValue, transformValue).
ValuesMeetTheirMeaning ==
  \A a \in Attempts : \A n \in Nodes :
    task[a][n].stage = "finishing" =>
      LET x == nodeInput(n, inv[a].mem)
          v == task[a][n].value
          c == Config(n)
      IN
      /\ Kind(n) = "aggregator" /\ c.operation = "vote" =>
           LET xs == collectedValues(x) IN
           \A i \in DOMAIN xs : Votes(xs, c.path, OrNull(getPath(xs[i], c.path))) <= Votes(xs, c.path, v)
      /\ Kind(n) = "transform" /\ c.operation = "deduplicate" =>
           \A i \in DOMAIN x.v : Votes(v.v, c.path, OrNull(getPath(x.v[i], c.path))) = 1
      /\ Kind(n) = "transform" /\ c.operation = "sort" =>
           \E p \in Bijection(DOMAIN x.v, DOMAIN x.v) :
             /\ v.v = [i \in DOMAIN x.v |-> x.v[p[i]]]
             /\ \A i, j \in DOMAIN x.v : i < j =>
                  LET d == Compare(getPath(v.v[i], c.path), getPath(v.v[j], c.path))
                  IN IF d = 0 THEN p[i] < p[j] ELSE (d < 0) = (c.direction # "desc")
============================================================================
