----------------------- MODULE GraphExecution_proofs -----------------------
(***************************************************************************)
(* Proofs about the execution of plans, for any number of attempts and     *)
(* faults and any plan: what the host answers about an invocation, what a  *)
(* completed run leaves behind and, for plans that run in layers, that a   *)
(* join sees what every branch did in its own attempt.                     *)
(***************************************************************************)
EXTENDS GraphExecution, FiniteOrders, TLAPS

-----------------------------------------------------------------------------
(* The invariant of every plan *)

Phases == {"none", "running", "marking", "completed", "failed", "denied", "threw"}
Working == {"starting", "executing", "finishing", "failing", "error"}
Stages == Working \cup {"none", "done", "settled"}

InvocationShape(r) ==
  /\ r = [phase |-> r.phase, step |-> r.step, active |-> r.active, mem |-> r.mem, aborted |-> r.aborted]
  /\ r.phase \in Phases /\ r.step \in Nat /\ r.aborted \in BOOLEAN
TaskShape(r) == r = [stage |-> r.stage, value |-> r.value] /\ r.stage \in Stages

\* What the variables hold, as far as the data of the run leaves it open.
GraphShape ==
  /\ plan \in Plans
  /\ inv = [a \in Attempts |-> inv[a]] /\ \A a \in Attempts : InvocationShape(inv[a])
  /\ task = [a \in Attempts |-> [n \in Nodes |-> task[a][n]]] /\ \A a \in Attempts, n \in Nodes : TaskShape(task[a][n])
  /\ journal \in [Attempts -> [Nodes -> {"none", "running", "completed", "failed"}]]
  /\ host \in [Attempts -> {"none", "running", "completed", "cancelled", "failed"}]
  /\ answer \in [Attempts -> {"none", "completed", "failed", "denied", "threw", "lost"}]
  /\ faults \in 0 .. MaxFaults

\* Only the tasks of the superstep are at work, and an attempt that is done has none.
TasksAreActive(a) ==
  /\ \A n \in Nodes : task[a][n].stage \in Working => n \in inv[a].active
  /\ inv[a].phase \in {"marking", "completed"} => inv[a].active = {}
  /\ inv[a].phase = "none" => inv[a] = Idle /\ \A n \in Nodes : task[a][n].stage = "none"
  /\ Running(a) => inv[a].active # {} /\ inv[a].step >= 1
  /\ inv[a].active # {} => Lowers

\* The host's entry follows its invocation.
HostFollows(a) == host[a] = "failed" => inv[a].phase \in {"failed", "denied", "threw"}

\* A task that returned is journaled; one that settled feeds an all-settled join.
TasksLeaveRecords(a) ==
  \A n \in Nodes : /\ task[a][n].stage = "done" => journal[a][n] = "completed"
                   /\ task[a][n].stage = "settled" => n \in settledSourceIds

\* A value about to be journaled is the node's function of its input.
ValuesAreComputed(a) ==
  \A n \in Nodes : task[a][n].stage = "finishing" /\ Kind(n) \notin CapabilityKinds =>
    task[a][n].value = Compute(n, nodeInput(n, inv[a].mem)) /\ ~IsThrown(task[a][n].value)

AttemptInv(a) == TasksAreActive(a) /\ HostFollows(a) /\ TasksLeaveRecords(a) /\ ValuesAreComputed(a)
GraphInv == GraphShape /\ \A a \in Attempts : AttemptInv(a)

-----------------------------------------------------------------------------
(* What an action leaves alone *)

USE GraphAssumption, PlanAssumption

\* The plan of a run is fixed, and with it what its shape decides.
LEMMA PlanIsFixed ==
  ASSUME plan' = plan
  PROVE  /\ Nodes' = Nodes /\ Edges' = Edges /\ Starts' = Starts /\ barrierTargets' = barrierTargets
         /\ settledSourceIds' = settledSourceIds /\ AllSettledJoins' = AllSettledJoins
         /\ Lowers' = Lowers
BY DEF Nodes, Edges, Starts, barrierTargets, settledSourceIds, AllSettledJoins, Incoming, Kind, Config,
       Lowers, HasMixedFanout, EdgeTargetsExist, Outgoing, Controls

\* Ending an invocation changes its phase and the host's entry.
LEMMA FinishFrame ==
  ASSUME GraphShape, NEW a \in Attempts, NEW p \in Phases, Finish(a, p)
  PROVE  /\ inv' = [b \in Attempts |-> inv'[b]]
         /\ inv'[a] = [inv[a] EXCEPT !.phase = p]
         /\ \A b \in Attempts : InvocationShape(inv[b])' /\ inv'[b].step = inv[b].step
                                /\ inv'[b].active = inv[b].active /\ inv'[b].mem = inv[b].mem
         /\ inv'[a].phase = p
         /\ \A b \in Attempts \ {a} : inv'[b] = inv[b] /\ host'[b] = host[b]
         /\ host' \in [Attempts -> {"none", "running", "completed", "cancelled", "failed"}]
         /\ host'[a] = "failed" => p # "completed"
<1>1. inv' = [b \in Attempts |-> IF b = a THEN [inv[a] EXCEPT !.phase = p] ELSE inv[b]]
  BY DEF GraphShape, Finish
<1>2. inv'[a] = [phase |-> p, step |-> inv[a].step, active |-> inv[a].active, mem |-> inv[a].mem,
                 aborted |-> inv[a].aborted]
  BY <1>1 DEF GraphShape, InvocationShape
<1>3. ASSUME NEW b \in Attempts
      PROVE  /\ InvocationShape(inv[b])' /\ inv'[b].step = inv[b].step
             /\ inv'[b].active = inv[b].active /\ inv'[b].mem = inv[b].mem
  <2>1. CASE b = a
    BY <1>2, <2>1 DEF GraphShape, InvocationShape
  <2>2. CASE b # a
    BY <1>1, <2>2 DEF GraphShape, InvocationShape
  <2> QED
    BY <2>1, <2>2
<1>4. \A b \in Attempts \ {a} : inv'[b] = inv[b] /\ host'[b] = host[b]
  BY <1>1 DEF GraphShape, Finish
<1>5. /\ host' \in [Attempts -> {"none", "running", "completed", "cancelled", "failed"}]
      /\ host'[a] = "failed" => p # "completed"
  BY DEF GraphShape, Finish
<1> QED
  BY <1>1, <1>2, <1>3, <1>4, <1>5

LEMMA InvocationUpdate ==
  ASSUME GraphShape, NEW a \in Attempts
  PROVE  /\ [inv[a] EXCEPT !.phase = "marking", !.active = {}, !.mem = Saved(a)]
              = [phase |-> "marking", step |-> inv[a].step, active |-> {}, mem |-> Saved(a), aborted |-> inv[a].aborted]
         /\ [inv[a] EXCEPT !.step = inv[a].step + 1, !.active = Following(a), !.mem = Saved(a)]
              = [phase |-> inv[a].phase, step |-> inv[a].step + 1, active |-> Following(a), mem |-> Saved(a),
                 aborted |-> inv[a].aborted]
<1> DEFINE r == inv[a]
           k == inv[a].step + 1
           none == {}
           ns == Following(a)
           m == Saved(a)
           u == [r EXCEPT !.phase = "marking", !.active = none, !.mem = m]
           w == [r EXCEPT !.step = k, !.active = ns, !.mem = m]
           Fields == {"phase", "step", "active", "mem", "aborted"}
<1>1. DOMAIN r = Fields
  <2>1. r = [phase |-> r.phase, step |-> r.step, active |-> r.active, mem |-> r.mem, aborted |-> r.aborted]
    BY DEF GraphShape, InvocationShape
  <2> QED
    BY <2>1
<1> HIDE DEF r, k, none, ns, m
<1>2. u = [f \in Fields |-> u[f]] /\ w = [f \in Fields |-> w[f]]
  BY <1>1
<1>3. u.phase = "marking" /\ u.step = r.step /\ u.active = none /\ u.mem = m /\ u.aborted = r.aborted
  BY <1>1
<1>4. w.phase = r.phase /\ w.step = k /\ w.active = ns /\ w.mem = m /\ w.aborted = r.aborted
  BY <1>1
<1> QED
  <2> HIDE DEF u, w
  <2>1. u = [phase |-> "marking", step |-> r.step, active |-> none, mem |-> m, aborted |-> r.aborted]
    BY <1>2, <1>3
  <2>2. w = [phase |-> r.phase, step |-> k, active |-> ns, mem |-> m, aborted |-> r.aborted]
    BY <1>2, <1>4
  <2> QED
    BY <2>1, <2>2 DEF u, w, r, k, none, ns, m

\* The ways a superstep ends: the attempt is over, marks its checkpoint or goes on.
LEMMA SuperstepEnds ==
  ASSUME GraphShape, NEW a \in Attempts, EndSuperstep(a)
  PROVE  /\ Running(a) /\ inv[a].active = Returned(a) \cup Settled(a)
         /\ UNCHANGED <<plan, journal, receipts, answer, faults>>
         /\ \/ Conflicts(a) /\ Finish(a, "failed") /\ UNCHANGED <<thread, task>>
            \/ ~Conflicts(a) /\ Finish(a, "failed") /\ thread' = Saved(a) /\ UNCHANGED task
            \/ /\ ~Conflicts(a) /\ Following(a) = {} /\ thread' = Saved(a)
               /\ inv' = [b \in Attempts |-> IF b # a THEN inv[b]
                            ELSE [phase |-> "marking", step |-> inv[a].step, active |-> {}, mem |-> Saved(a),
                                  aborted |-> inv[a].aborted]]
               /\ UNCHANGED <<task, host>>
            \/ /\ ~Conflicts(a) /\ Following(a) # {} /\ thread' = Saved(a)
               /\ inv' = [b \in Attempts |-> IF b # a THEN inv[b]
                            ELSE [phase |-> "running", step |-> inv[a].step + 1, active |-> Following(a),
                                  mem |-> Saved(a), aborted |-> inv[a].aborted]]
               /\ task' = Tasks(a, Following(a)) /\ UNCHANGED host
<1>1. CASE Conflicts(a)
  BY <1>1 DEF EndSuperstep
<1>2. CASE ~Conflicts(a) /\ Following(a) = {}
  <2>1. inv[a] = [phase |-> "running", step |-> inv[a].step, active |-> inv[a].active, mem |-> inv[a].mem,
                  aborted |-> inv[a].aborted] /\ inv = [b \in Attempts |-> inv[b]]
    BY DEF EndSuperstep, Running, GraphShape, InvocationShape
  <2>2. inv' = [inv EXCEPT ![a] = [inv[a] EXCEPT !.phase = "marking", !.active = {}, !.mem = Saved(a)]]
    BY <1>2 DEF EndSuperstep
  <2>3. [inv[a] EXCEPT !.phase = "marking", !.active = {}, !.mem = Saved(a)]
          = [phase |-> "marking", step |-> inv[a].step, active |-> {}, mem |-> Saved(a), aborted |-> inv[a].aborted]
    BY <2>1, InvocationUpdate DEF Running
  <2>4. inv' = [b \in Attempts |-> IF b # a THEN inv[b]
                 ELSE [phase |-> "marking", step |-> inv[a].step, active |-> {}, mem |-> Saved(a),
                       aborted |-> inv[a].aborted]]
    BY <2>1, <2>2, <2>3
  <2> QED
    BY <1>2, <2>4 DEF EndSuperstep
<1>3. CASE ~Conflicts(a) /\ Following(a) # {}
  <2>1. inv[a] = [phase |-> "running", step |-> inv[a].step, active |-> inv[a].active, mem |-> inv[a].mem,
                  aborted |-> inv[a].aborted] /\ inv = [b \in Attempts |-> inv[b]]
    BY DEF EndSuperstep, Running, GraphShape, InvocationShape
  <2>2. \/ Finish(a, "failed") /\ task' = task
        \/ /\ inv' = [inv EXCEPT ![a] = [inv[a] EXCEPT !.step = inv[a].step + 1, !.active = Following(a), !.mem = Saved(a)]]
           /\ task' = Tasks(a, Following(a)) /\ host' = host
    BY <1>3 DEF EndSuperstep
  <2>3. CASE Finish(a, "failed") /\ task' = task
    BY <1>3, <2>3 DEF EndSuperstep
  <2>4. CASE /\ inv' = [inv EXCEPT ![a] = [inv[a] EXCEPT !.step = inv[a].step + 1, !.active = Following(a), !.mem = Saved(a)]]
             /\ task' = Tasks(a, Following(a)) /\ host' = host
    <3>1. [inv[a] EXCEPT !.step = inv[a].step + 1, !.active = Following(a), !.mem = Saved(a)]
            = [phase |-> inv[a].phase, step |-> inv[a].step + 1, active |-> Following(a), mem |-> Saved(a),
               aborted |-> inv[a].aborted]
      BY InvocationUpdate
    <3>2. inv[a].phase = "running"
      BY DEF EndSuperstep, Running
    <3>3. inv' = [b \in Attempts |-> IF b # a THEN inv[b]
                   ELSE [phase |-> "running", step |-> inv[a].step + 1, active |-> Following(a),
                         mem |-> Saved(a), aborted |-> inv[a].aborted]]
      BY <2>1, <2>4, <3>1, <3>2
    <3> QED
      BY <1>3, <2>4, <3>3 DEF EndSuperstep
  <2> QED
    BY <2>2, <2>3, <2>4
<1> QED
  BY <1>1, <1>2, <1>3

\* The tasks of a new superstep replace what its nodes had.
LEMMA TasksFrame ==
  ASSUME GraphShape, NEW a \in Attempts, NEW ns, task' = Tasks(a, ns)
  PROVE  /\ task' = [b \in Attempts |-> [n \in Nodes |-> task'[b][n]]]
         /\ \A b \in Attempts \ {a} : task'[b] = task[b]
         /\ \A n \in Nodes : task'[a][n] = IF n \in ns THEN [stage |-> "starting", value |-> Undefined] ELSE task[a][n]
         /\ \A b \in Attempts, n \in Nodes : TaskShape(task'[b][n])
<1> DEFINE fresh == [stage |-> "starting", value |-> Undefined]
           row == [n \in Nodes |-> IF n \in ns THEN fresh ELSE task[a][n]]
<1>1. TaskShape(fresh)
  BY DEF TaskShape, Stages, Working
<1> HIDE DEF fresh
<1>2. task = [b \in Attempts |-> [n \in Nodes |-> task[b][n]]]
  BY DEF GraphShape
<1>3. task' = [task EXCEPT ![a] = row]
  BY DEF Tasks, fresh
<1>4. task' = [b \in Attempts |-> IF b = a THEN row ELSE task[b]]
  BY <1>2, <1>3
<1>5. \A b \in Attempts \ {a} : task'[b] = task[b]
  BY <1>4
<1>6. \A n \in Nodes : task'[a][n] = IF n \in ns THEN fresh ELSE task[a][n]
  BY <1>4
<1>7. \A b \in Attempts, n \in Nodes : TaskShape(task'[b][n])
  BY <1>1, <1>5, <1>6 DEF GraphShape
<1>8. task' = [b \in Attempts |-> [n \in Nodes |-> task'[b][n]]]
  <2>1. \A b \in Attempts : task'[b] = [n \in Nodes |-> task'[b][n]]
    <3>1. task'[a] = [n \in Nodes |-> task'[a][n]]
      BY <1>4
    <3>2. \A b \in Attempts \ {a} : task[b] = [n \in Nodes |-> task[b][n]]
      BY <1>2
    <3> QED
      BY <3>1, <3>2, <1>5
  <2>2. task' = [b \in Attempts |-> task'[b]]
    BY <1>4
  <2> QED
    BY <2>1, <2>2
<1> QED
  BY <1>5, <1>6, <1>7, <1>8 DEF fresh

\* A task's own action changes its entry and leaves the invocation alone.
TaskMove(a, n) ==
  /\ UNCHANGED <<plan, thread, inv, host, answer>>
  /\ task' = [b \in Attempts |-> [k \in Nodes |-> task'[b][k]]]
  /\ \A b \in Attempts, k \in Nodes : <<b, k>> # <<a, n>> => task'[b][k] = task[b][k]
  /\ TaskShape(task'[a][n])
  /\ \/ task[a][n].stage = "starting"  /\ task'[a][n].stage \in {"executing", "settled", "error"}
     \/ task[a][n].stage = "executing" /\ task'[a][n].stage \in {"finishing", "failing"}
     \/ task[a][n].stage = "finishing" /\ task'[a][n].stage \in {"done", "failing"}
     \/ task[a][n].stage = "failing"   /\ task'[a][n].stage \in {"settled", "error"}
  /\ task'[a][n].stage = "done" => task'[a][n].value = task[a][n].value /\ journal'[a][n] = "completed"
  /\ task'[a][n].stage = "settled" => n \in settledSourceIds
  /\ task'[a][n].stage = "finishing" /\ Kind(n) \notin CapabilityKinds =>
       task'[a][n].value = Compute(n, nodeInput(n, inv[a].mem)) /\ ~IsThrown(task'[a][n].value)
  /\ journal' \in [Attempts -> [Nodes -> {"none", "running", "completed", "failed"}]]
  /\ \A b \in Attempts, k \in Nodes : <<b, k>> # <<a, n>> => journal'[b][k] = journal[b][k]
  /\ faults' \in 0 .. MaxFaults

LEMMA JournalsFrame ==
  ASSUME GraphShape, NEW a \in Attempts, NEW n \in Nodes, NEW status \in {"running", "completed", "failed"},
         NEW ok \in BOOLEAN, Journals(a, n, status, ok)
  PROVE  /\ journal' \in [Attempts -> [Nodes -> {"none", "running", "completed", "failed"}]]
         /\ \A b \in Attempts, k \in Nodes : <<b, k>> # <<a, n>> => journal'[b][k] = journal[b][k]
         /\ ok => journal'[a][n] = status
         /\ faults' \in 0 .. MaxFaults
<1>1. faults' \in 0 .. MaxFaults
  BY DEF GraphShape, Journals, Fault
<1>2. journal' = journal \/ journal' = [journal EXCEPT ![a][n] = status]
  BY DEF Journals
<1>3. ok => journal' = [journal EXCEPT ![a][n] = status]
  BY DEF Journals
<1>4. journal \in [Attempts -> [Nodes -> {"none", "running", "completed", "failed"}]]
  BY DEF GraphShape
<1>5. CASE journal' = journal
  BY <1>1, <1>3, <1>4, <1>5
<1>6. CASE journal' = [journal EXCEPT ![a][n] = status]
  BY <1>1, <1>4, <1>6
<1> QED
  BY <1>2, <1>5, <1>6

LEMMA CaughtFrame ==
  ASSUME NEW n, NEW code
  PROVE  /\ TaskShape(Caught(n, code)) /\ Caught(n, code).stage \in {"settled", "error"}
         /\ Caught(n, code).stage = "settled" => n \in settledSourceIds
BY DEF Caught, TaskShape, Stages, Working

\* Writing one task's entry.
Enters(a, n, t) == task' = [task EXCEPT ![a][n] = t]

LEMMA TaskFrame ==
  ASSUME GraphShape, NEW a \in Attempts, NEW n \in Nodes, NEW t, Enters(a, n, t)
  PROVE  /\ task'[a][n] = t
         /\ \A b \in Attempts, k \in Nodes : <<b, k>> # <<a, n>> => task'[b][k] = task[b][k]
         /\ task' = [b \in Attempts |-> [k \in Nodes |-> task'[b][k]]]
<1>1. task = [b \in Attempts |-> [k \in Nodes |-> task[b][k]]]
  BY DEF GraphShape
<1>2. task' = [b \in Attempts |-> IF b = a THEN [task[a] EXCEPT ![n] = t] ELSE task[b]]
  BY <1>1 DEF Enters
<1>3. [task[a] EXCEPT ![n] = t] = [k \in Nodes |-> IF k = n THEN t ELSE task[a][k]]
  BY <1>1
<1>4. /\ task'[a][n] = t
      /\ \A b \in Attempts, k \in Nodes : <<b, k>> # <<a, n>> => task'[b][k] = task[b][k]
  BY <1>2, <1>3
<1>5. task' = [b \in Attempts |-> [k \in Nodes |-> task'[b][k]]]
  <2>1. \A b \in Attempts : task'[b] = [k \in Nodes |-> task'[b][k]]
    BY <1>1, <1>2, <1>3
  <2>2. task' = [b \in Attempts |-> task'[b]]
    BY <1>2
  <2> QED
    BY <2>1, <2>2
<1> QED
  BY <1>4, <1>5

LEMMA StageUpdate ==
  ASSUME GraphShape, NEW a \in Attempts, NEW n \in Nodes, NEW s, task' = [task EXCEPT ![a][n].stage = s]
  PROVE  Enters(a, n, [stage |-> s, value |-> task[a][n].value])
<1>1. task[a][n] = [stage |-> task[a][n].stage, value |-> task[a][n].value]
  BY DEF GraphShape, TaskShape
<1>2. [task[a][n] EXCEPT !.stage = s] = [stage |-> s, value |-> task[a][n].value]
  <2> DEFINE r == task[a][n]
             u == [r EXCEPT !.stage = s]
  <2>1. DOMAIN r = {"stage", "value"}
    BY <1>1
  <2> HIDE DEF r
  <2>2. u = [f \in {"stage", "value"} |-> u[f]] /\ u.stage = s /\ u.value = r.value
    BY <2>1
  <2> HIDE DEF u
  <2>3. u = [stage |-> s, value |-> r.value]
    BY <2>2
  <2> QED
    BY <2>3 DEF u, r
<1>3. task' = [task EXCEPT ![a][n] = [task[a][n] EXCEPT !.stage = s]]
  OBVIOUS
<1> QED
  BY <1>2, <1>3 DEF Enters

LEMMA StartMoves ==
  ASSUME GraphShape, NEW a \in Attempts, NEW n \in Nodes, StartNode(a, n)
  PROVE  TaskMove(a, n)
<1>1. task[a][n].stage = "starting" /\ UNCHANGED <<plan, thread, inv, receipts, host, answer>>
  BY DEF StartNode, Stage
<1>2. PICK ok \in BOOLEAN : Journals(a, n, "running", ok)
  BY DEF StartNode
<1>3. PICK t : /\ Enters(a, n, t) /\ TaskShape(t)
               /\ t.stage \in {"executing", "settled", "error"}
               /\ t.stage = "settled" => n \in settledSourceIds
  <2>1. CASE task' = [task EXCEPT ![a][n].stage = "executing"]
    <3> DEFINE t == [stage |-> "executing", value |-> task[a][n].value]
    <3>1. Enters(a, n, t)
      BY <2>1, StageUpdate
    <3>2. TaskShape(t) /\ t.stage = "executing"
      BY DEF TaskShape, Stages, Working
    <3> HIDE DEF t
    <3> QED
      BY <3>1, <3>2
  <2>2. CASE task' = [task EXCEPT ![a][n] = Caught(n, "journal")]
    BY <2>2, CaughtFrame DEF Enters
  <2> QED
    BY <2>1, <2>2 DEF StartNode
<1>4. task'[a][n] = t
  BY <1>3, TaskFrame
<1> QED
  BY <1>1, <1>2, <1>3, <1>4, TaskFrame, JournalsFrame DEF TaskMove

LEMMA ExecuteMoves ==
  ASSUME GraphShape, NEW a \in Attempts, NEW n \in Nodes, Execute(a, n)
  PROVE  TaskMove(a, n)
<1>1. task[a][n].stage = "executing" /\ UNCHANGED <<plan, thread, inv, journal, host, answer>>
  BY DEF Execute, Stage
<1>2. PICK t : /\ Enters(a, n, t) /\ TaskShape(t)
               /\ t.stage \in {"finishing", "failing"}
               /\ t.stage = "finishing" /\ Kind(n) \notin CapabilityKinds =>
                    t.value = Compute(n, nodeInput(n, inv[a].mem)) /\ ~IsThrown(t.value)
  <2> DEFINE x == nodeInput(n, inv[a].mem)
  <2>1. PICK v \in IF Kind(n) \in CapabilityKinds THEN Outcomes(n, x) ELSE {Compute(n, x)} :
          \/ task' = [task EXCEPT ![a][n] = [stage |-> IF IsThrown(v) THEN "failing" ELSE "finishing", value |-> v]]
          \/ task' = [task EXCEPT ![a][n] = [stage |-> "failing", value |-> Thrown("case")]]
    BY DEF Execute
  <2>2. Kind(n) \notin CapabilityKinds => v = Compute(n, x)
    BY <2>1
  <2> HIDE DEF x
  <2>3. CASE task' = [task EXCEPT ![a][n] = [stage |-> IF IsThrown(v) THEN "failing" ELSE "finishing", value |-> v]]
    <3> DEFINE t == [stage |-> IF IsThrown(v) THEN "failing" ELSE "finishing", value |-> v]
    <3>1. TaskShape(t) /\ t.value = v /\ t.stage = (IF IsThrown(v) THEN "failing" ELSE "finishing")
      BY DEF TaskShape, Stages, Working
    <3>2. Enters(a, n, t)
      BY <2>3 DEF Enters
    <3>3. t.stage \in {"finishing", "failing"} /\ (t.stage = "finishing" => ~IsThrown(t.value))
      <4> HIDE DEF t
      <4> QED
        BY <3>1
    <3>4. Kind(n) \notin CapabilityKinds => t.value = Compute(n, nodeInput(n, inv[a].mem))
      <4> HIDE DEF t
      <4> QED
        BY <2>2, <3>1 DEF x
    <3> HIDE DEF t
    <3> QED
      BY <3>1, <3>2, <3>3, <3>4
  <2>4. CASE task' = [task EXCEPT ![a][n] = [stage |-> "failing", value |-> Thrown("case")]]
    <3> DEFINE t == [stage |-> "failing", value |-> Thrown("case")]
    <3>1. TaskShape(t) /\ t.stage = "failing"
      BY DEF TaskShape, Stages, Working
    <3>2. Enters(a, n, t)
      BY <2>4 DEF Enters
    <3> HIDE DEF t
    <3> QED
      BY <3>1, <3>2
  <2> QED
    BY <2>1, <2>3, <2>4
<1>3. task'[a][n] = t
  BY <1>2, TaskFrame
<1>4. faults' \in 0 .. MaxFaults
  <2>1. UNCHANGED faults \/ Fault
    BY DEF Execute
  <2> QED
    BY <2>1 DEF Fault, GraphShape
<1> QED
  BY <1>1, <1>2, <1>3, <1>4, TaskFrame DEF TaskMove, GraphShape

LEMMA CompleteMoves ==
  ASSUME GraphShape, NEW a \in Attempts, NEW n \in Nodes, CompleteNode(a, n)
  PROVE  TaskMove(a, n)
<1>1. task[a][n].stage = "finishing" /\ UNCHANGED <<plan, thread, inv, receipts, host, answer>>
  BY DEF CompleteNode, Stage
<1>2. CASE Journals(a, n, "completed", TRUE) /\ task' = [task EXCEPT ![a][n].stage = "done"]
  <2> DEFINE t == [stage |-> "done", value |-> task[a][n].value]
  <2>1. Enters(a, n, t)
    BY <1>2, StageUpdate
  <2>2. TaskShape(t) /\ t.stage = "done" /\ t.value = task[a][n].value
    BY DEF TaskShape, Stages, Working
  <2> HIDE DEF t
  <2>3. task'[a][n] = t
    BY <2>1, TaskFrame
  <2>4. journal'[a][n] = "completed"
    BY <1>2, JournalsFrame
  <2>5. /\ journal' \in [Attempts -> [Nodes -> {"none", "running", "completed", "failed"}]]
        /\ \A b \in Attempts, k \in Nodes : <<b, k>> # <<a, n>> => journal'[b][k] = journal[b][k]
        /\ faults' \in 0 .. MaxFaults
    BY <1>2, JournalsFrame
  <2>6. /\ task' = [b \in Attempts |-> [k \in Nodes |-> task'[b][k]]]
        /\ \A b \in Attempts, k \in Nodes : <<b, k>> # <<a, n>> => task'[b][k] = task[b][k]
    BY <2>1, TaskFrame
  <2> QED
    BY <1>1, <2>2, <2>3, <2>4, <2>5, <2>6 DEF TaskMove
<1>3. CASE /\ Journals(a, n, "completed", FALSE)
           /\ task' = [task EXCEPT ![a][n] = [stage |-> "failing", value |-> Thrown("journal")]]
  <2> DEFINE t == [stage |-> "failing", value |-> Thrown("journal")]
  <2>1. TaskShape(t) /\ t.stage = "failing"
    BY DEF TaskShape, Stages, Working
  <2>2. Enters(a, n, t)
    BY <1>3 DEF Enters
  <2> HIDE DEF t
  <2>3. task'[a][n] = t
    BY <2>2, TaskFrame
  <2>4. /\ journal' \in [Attempts -> [Nodes -> {"none", "running", "completed", "failed"}]]
        /\ \A b \in Attempts, k \in Nodes : <<b, k>> # <<a, n>> => journal'[b][k] = journal[b][k]
        /\ faults' \in 0 .. MaxFaults
    BY <1>3, JournalsFrame
  <2>5. /\ task' = [b \in Attempts |-> [k \in Nodes |-> task'[b][k]]]
        /\ \A b \in Attempts, k \in Nodes : <<b, k>> # <<a, n>> => task'[b][k] = task[b][k]
    BY <2>2, TaskFrame
  <2> QED
    BY <1>1, <2>1, <2>3, <2>4, <2>5 DEF TaskMove
<1> QED
  BY <1>2, <1>3 DEF CompleteNode

LEMMA FailMoves ==
  ASSUME GraphShape, NEW a \in Attempts, NEW n \in Nodes, FailNode(a, n)
  PROVE  TaskMove(a, n)
<1>1. task[a][n].stage = "failing" /\ UNCHANGED <<plan, thread, inv, receipts, host, answer>>
  BY DEF FailNode, Stage
<1>2. PICK ok \in BOOLEAN : Journals(a, n, "failed", ok)
  BY DEF FailNode
<1>3. PICK code : task' = [task EXCEPT ![a][n] = Caught(n, code)]
  BY DEF FailNode
<1>4. Enters(a, n, Caught(n, code)) /\ task'[a][n] = Caught(n, code)
  BY <1>3, TaskFrame DEF Enters
<1> QED
  BY <1>1, <1>2, <1>4, TaskFrame, JournalsFrame, CaughtFrame DEF TaskMove

-----------------------------------------------------------------------------
(* The invariant of every plan is inductive *)

\* What a node reads and computes depends on the plan and the channels.
LEMMA InputsAreFixed ==
  ASSUME plan' = plan
  PROVE  /\ \A n : Kind(n)' = Kind(n)
         /\ \A n, m : nodeInput(n, m)' = nodeInput(n, m)
         /\ \A n, x : Compute(n, x)' = Compute(n, x)
BY DEF nodeInput, Compute, allSettledInput, Incoming, Kind, Config, AllSettledJoins, Nodes, Value

\* An attempt keeps its invariant when nothing of it changes but a phase that ends it.
LEMMA AttemptKept ==
  ASSUME GraphInv, NEW b \in Attempts, plan' = plan, task'[b] = task[b], journal'[b] = journal[b],
         inv'[b].active = inv[b].active, inv'[b].mem = inv[b].mem, inv'[b].step = inv[b].step,
         \/ inv'[b] = inv[b]
         \/ inv[b].phase # "none" /\ inv'[b].phase = inv[b].phase
         \/ inv'[b].phase \in {"failed", "denied", "threw"}
         \/ inv'[b].phase = "completed" /\ inv[b].phase = "marking",
         host'[b] = "failed" => inv'[b].phase \in {"failed", "denied", "threw"}
  PROVE  AttemptInv(b)'
<1>1. AttemptInv(b) /\ Nodes' = Nodes /\ settledSourceIds' = settledSourceIds /\ Lowers' = Lowers
  BY PlanIsFixed DEF GraphInv
<1>2. TasksAreActive(b)'
  BY <1>1 DEF AttemptInv, TasksAreActive, Running, Idle
<1>3. HostFollows(b)'
  BY DEF HostFollows
<1>4. TasksLeaveRecords(b)'
  BY <1>1 DEF AttemptInv, TasksLeaveRecords
<1>5. ValuesAreComputed(b)'
  BY <1>1, InputsAreFixed DEF AttemptInv, ValuesAreComputed
<1> QED
  BY <1>2, <1>3, <1>4, <1>5 DEF AttemptInv

LEMMA TaskMoveKeepsGraphInv ==
  ASSUME GraphInv, NEW a \in Attempts, NEW n \in Nodes, TaskMove(a, n)
  PROVE  GraphInv'
<1>1. Nodes' = Nodes /\ settledSourceIds' = settledSourceIds /\ Lowers' = Lowers /\ GraphShape
  BY PlanIsFixed DEF GraphInv, TaskMove
<1>2. \A b \in Attempts, k \in Nodes : <<b, k>> # <<a, n>> => task'[b][k] = task[b][k] /\ journal'[b][k] = journal[b][k]
  BY DEF TaskMove
<1>3. GraphShape'
  <2>1. /\ plan' \in Plans
        /\ inv' = [b \in Attempts |-> inv'[b]] /\ \A b \in Attempts : InvocationShape(inv[b])'
        /\ host' \in [Attempts -> {"none", "running", "completed", "cancelled", "failed"}]
        /\ answer' \in [Attempts -> {"none", "completed", "failed", "denied", "threw", "lost"}]
    BY <1>1 DEF GraphShape, TaskMove, InvocationShape
  <2>2. \A b \in Attempts, k \in Nodes : TaskShape(task'[b][k])
    BY <1>1, <1>2 DEF GraphShape, TaskMove
  <2>3. \A b \in Attempts, k \in Nodes' : TaskShape(task[b][k])'
    BY <1>1, <2>2 DEF TaskShape
  <2>4. /\ journal' \in [Attempts -> [Nodes' -> {"none", "running", "completed", "failed"}]]
        /\ task' = [b \in Attempts |-> [k \in Nodes' |-> task'[b][k]]]
        /\ faults' \in 0 .. MaxFaults
    BY <1>1 DEF TaskMove
  <2> QED
    BY <2>1, <2>3, <2>4 DEF GraphShape
<1>4. ASSUME NEW b \in Attempts
      PROVE  AttemptInv(b)'
  <2>1. AttemptInv(b)
    BY DEF GraphInv
  <2>2. inv' = inv /\ host' = host /\ plan' = plan
    BY DEF TaskMove
  <2>3. TasksAreActive(b)'
    <3>1. \A k \in Nodes : task'[b][k].stage \in Working => task[b][k].stage \in Working
      BY <1>2 DEF TaskMove, Working
    <3>2. ~(\A k \in Nodes : task[a][k].stage = "none")
      BY DEF TaskMove
    <3>3. inv[b].phase = "none" => \A k \in Nodes : task'[b][k].stage = "none"
      BY <1>2, <2>1, <3>2 DEF AttemptInv, TasksAreActive
    <3> QED
      BY <1>1, <2>1, <2>2, <3>1, <3>3 DEF AttemptInv, TasksAreActive, Running, Idle
  <2>4. HostFollows(b)'
    BY <2>1, <2>2 DEF AttemptInv, HostFollows
  <2>5. TasksLeaveRecords(b)'
    BY <1>1, <1>2, <2>1 DEF AttemptInv, TasksLeaveRecords, TaskMove
  <2>6. ValuesAreComputed(b)'
    BY <1>1, <1>2, <2>1, <2>2, InputsAreFixed DEF AttemptInv, ValuesAreComputed, TaskMove
  <2> QED
    BY <2>3, <2>4, <2>5, <2>6 DEF AttemptInv
<1> QED
  BY <1>3, <1>4 DEF GraphInv

\* The shape of the tasks and the journal stays when neither changes.
LEMMA ShapeKept ==
  ASSUME GraphShape, UNCHANGED <<plan, task, journal>>,
         inv' = [b \in Attempts |-> inv'[b]], \A b \in Attempts : InvocationShape(inv[b])',
         host' \in [Attempts -> {"none", "running", "completed", "cancelled", "failed"}],
         answer' \in [Attempts -> {"none", "completed", "failed", "denied", "threw", "lost"}],
         faults' \in 0 .. MaxFaults
  PROVE  GraphShape'
<1>1. Nodes' = Nodes
  BY PlanIsFixed
<1>2. \A b \in Attempts, n \in Nodes' : TaskShape(task[b][n])'
  BY <1>1 DEF GraphShape, TaskShape
<1> QED
  BY <1>1, <1>2 DEF GraphShape

LEMMA EndKeepsGraphInv ==
  ASSUME GraphInv, NEW a \in Attempts, NEW p \in Phases, Finish(a, p), UNCHANGED <<plan, task, journal, answer>>,
         faults' \in 0 .. MaxFaults,
         p \in {"failed", "denied", "threw"} \/ (p = "completed" /\ inv[a].phase = "marking")
  PROVE  GraphInv'
<1>1. GraphShape /\ \A b \in Attempts : AttemptInv(b)
  BY DEF GraphInv
<1>2. GraphShape'
  BY <1>1, FinishFrame, ShapeKept DEF GraphShape
<1>3. ASSUME NEW b \in Attempts
      PROVE  AttemptInv(b)'
  <2>1. inv'[b].active = inv[b].active /\ inv'[b].mem = inv[b].mem /\ inv'[b].step = inv[b].step
    BY <1>1, FinishFrame
  <2>2. CASE b = a
    <3>1. inv'[b].phase = p /\ (host'[b] = "failed" => p # "completed")
      BY <1>1, <2>2, FinishFrame
    <3> QED
      BY <2>1, <2>2, <3>1, AttemptKept
  <2>3. CASE b # a
    <3>1. inv'[b] = inv[b] /\ host'[b] = host[b] /\ HostFollows(b)
      BY <1>1, <2>3, FinishFrame DEF AttemptInv
    <3> QED
      BY <2>1, <3>1, AttemptKept DEF HostFollows
  <2> QED
    BY <2>2, <2>3
<1> QED
  BY <1>2, <1>3 DEF GraphInv

LEMMA RefuseKeepsGraphInv ==
  ASSUME GraphInv, NEW a \in Attempts, Refuse(a)
  PROVE  GraphInv'
<1>1. /\ Finish(a, "threw") /\ UNCHANGED <<plan, task, journal, answer>>
      /\ UNCHANGED faults \/ Fault
  BY DEF Refuse
<1>2. faults' \in 0 .. MaxFaults
  BY <1>1 DEF Fault, GraphInv, GraphShape
<1> QED
  BY <1>1, <1>2, EndKeepsGraphInv DEF Phases

LEMMA GraphFailsKeepsGraphInv ==
  ASSUME GraphInv, NEW a \in Attempts, GraphFails(a)
  PROVE  GraphInv'
<1>1. PICK p \in {"denied", "failed"} : Finish(a, p) /\ UNCHANGED <<plan, task, journal, answer, faults>>
  BY DEF GraphFails
<1>2. faults' \in 0 .. MaxFaults /\ p \in Phases
  BY <1>1 DEF GraphInv, GraphShape, Phases
<1> QED
  BY <1>1, <1>2, EndKeepsGraphInv

LEMMA StopKeepsGraphInv ==
  ASSUME GraphInv, NEW a \in Attempts, Stop(a)
  PROVE  GraphInv'
<1>1. /\ Finish(a, "failed") /\ UNCHANGED <<plan, task, journal, answer>>
      /\ UNCHANGED faults \/ Fault
  BY DEF Stop
<1>2. faults' \in 0 .. MaxFaults
  BY <1>1 DEF Fault, GraphInv, GraphShape
<1> QED
  BY <1>1, <1>2, EndKeepsGraphInv DEF Phases

LEMMA MarkKeepsGraphInv ==
  ASSUME GraphInv, NEW a \in Attempts, MarkCheckpoint(a)
  PROVE  GraphInv'
<1>1. PICK p \in {"completed", "failed"} : Finish(a, p) /\ UNCHANGED <<plan, task, journal, answer>>
  BY DEF MarkCheckpoint
<1>2. faults' \in 0 .. MaxFaults /\ p \in Phases
  <2>1. UNCHANGED faults \/ Fault
    BY DEF MarkCheckpoint
  <2> QED
    BY <2>1 DEF Fault, GraphInv, GraphShape, Phases
<1>3. inv[a].phase = "marking"
  BY DEF MarkCheckpoint
<1> QED
  BY <1>1, <1>2, <1>3, EndKeepsGraphInv

LEMMA RespondKeepsGraphInv ==
  ASSUME GraphInv, NEW a \in Attempts, Respond(a)
  PROVE  GraphInv'
<1>1. UNCHANGED <<plan, thread, inv, task, journal, receipts, host>>
  BY DEF Respond
<1>2. faults' \in 0 .. MaxFaults
  <2>1. UNCHANGED faults \/ Fault
    BY DEF Respond
  <2> QED
    BY <2>1 DEF Fault, GraphInv, GraphShape
<1>3. answer' \in [Attempts -> {"none", "completed", "failed", "denied", "threw", "lost"}]
  <2>1. CASE Ended(a) /\ answer' = [answer EXCEPT ![a] = inv[a].phase]
    BY <2>1 DEF Ended, GraphInv, GraphShape
  <2>2. CASE answer' = [answer EXCEPT ![a] = "lost"]
    BY <2>2 DEF GraphInv, GraphShape
  <2> QED
    BY <2>1, <2>2 DEF Respond
<1>4. GraphShape'
  BY <1>1, <1>2, <1>3, ShapeKept DEF GraphInv, GraphShape, InvocationShape
<1>5. ASSUME NEW b \in Attempts
      PROVE  AttemptInv(b)'
  BY <1>1, AttemptKept DEF GraphInv, AttemptInv, HostFollows
<1> QED
  BY <1>4, <1>5 DEF GraphInv

LEMMA ForgetKeepsGraphInv ==
  ASSUME GraphInv, NEW a \in Attempts, Forget(a)
  PROVE  GraphInv'
<1>1. /\ UNCHANGED <<plan, thread, inv, task, journal, receipts, answer, faults>>
      /\ host' = [host EXCEPT ![a] = "none"]
  BY DEF Forget
<1>2. GraphShape'
  BY <1>1, ShapeKept DEF GraphInv, GraphShape, InvocationShape
<1>3. ASSUME NEW b \in Attempts
      PROVE  AttemptInv(b)'
  <2>1. host'[b] = "failed" => host[b] = "failed"
    BY <1>1 DEF GraphInv, GraphShape
  <2> QED
    BY <1>1, <2>1, AttemptKept DEF GraphInv, AttemptInv, HostFollows
<1> QED
  BY <1>2, <1>3 DEF GraphInv

LEMMA CancelKeepsGraphInv ==
  ASSUME GraphInv, NEW a \in Attempts, Cancel(a)
  PROVE  GraphInv'
<1> DEFINE r == [phase |-> inv[a].phase, step |-> inv[a].step, active |-> inv[a].active, mem |-> inv[a].mem,
                 aborted |-> inv[a].aborted \/ host[a] # "none"]
<1>1. /\ UNCHANGED <<plan, thread, task, journal, receipts, host, answer>> /\ Started(a) /\ Fault
      /\ inv' = [inv EXCEPT ![a].aborted = inv[a].aborted \/ host[a] # "none"]
  BY DEF Cancel
<1>2. /\ inv = [b \in Attempts |-> inv[b]]
      /\ inv[a] = [phase |-> inv[a].phase, step |-> inv[a].step, active |-> inv[a].active, mem |-> inv[a].mem,
                   aborted |-> inv[a].aborted]
  BY DEF GraphInv, GraphShape, InvocationShape
<1>3. inv' = [b \in Attempts |-> IF b = a THEN r ELSE inv[b]]
  BY <1>1, <1>2
<1>4. \A b \in Attempts : InvocationShape(inv[b])'
  BY <1>3 DEF GraphInv, GraphShape, InvocationShape
<1>5. GraphShape'
  <2>1. inv' = [b \in Attempts |-> inv'[b]]
    BY <1>3
  <2>2. faults' \in 0 .. MaxFaults
    BY <1>1 DEF GraphInv, GraphShape, Fault
  <2> QED
    BY <1>1, <1>4, <2>1, <2>2, ShapeKept DEF GraphInv, GraphShape
<1>6. ASSUME NEW b \in Attempts
      PROVE  AttemptInv(b)'
  <2>1. /\ inv'[b].active = inv[b].active /\ inv'[b].mem = inv[b].mem /\ inv'[b].step = inv[b].step
        /\ inv'[b].phase = inv[b].phase /\ (b # a => inv'[b] = inv[b])
    BY <1>3
  <2>2. inv'[b] = inv[b] \/ inv[b].phase # "none"
    BY <1>1, <2>1 DEF Started
  <2>3. HostFollows(b) /\ host' = host
    BY <1>1 DEF GraphInv, AttemptInv
  <2> QED
    BY <1>1, <2>1, <2>2, <2>3, AttemptKept DEF HostFollows
<1> QED
  BY <1>5, <1>6 DEF GraphInv

\* A new superstep, of a new attempt or of one whose tasks are over.
NextSuperstep(a, k, ns, m, ab) ==
  /\ inv' = [b \in Attempts |-> IF b # a THEN inv[b]
               ELSE [phase |-> "running", step |-> k, active |-> ns, mem |-> m, aborted |-> ab]]
  /\ task' = Tasks(a, ns)
  /\ ns # {} /\ k \in Nat \ {0} /\ ab \in BOOLEAN /\ Lowers
  /\ \A n \in Nodes : task[a][n].stage \in {"none", "done", "settled"}
  /\ host' \in [Attempts -> {"none", "running", "completed", "cancelled", "failed"}]
  /\ host'[a] # "failed" /\ \A b \in Attempts \ {a} : host'[b] = host[b]
  /\ UNCHANGED <<plan, journal, receipts, answer, faults>>

LEMMA NextSuperstepKeepsGraphInv ==
  ASSUME GraphInv, NEW a \in Attempts, NEW k, NEW ns, NEW m, NEW ab, NextSuperstep(a, k, ns, m, ab)
  PROVE  GraphInv'
<1>1. Nodes' = Nodes /\ settledSourceIds' = settledSourceIds /\ Lowers' = Lowers /\ plan' = plan /\ GraphShape
  BY PlanIsFixed DEF GraphInv, NextSuperstep
<1>2. inv'[a] = [phase |-> "running", step |-> k, active |-> ns, mem |-> m, aborted |-> ab]
  BY DEF NextSuperstep
<1>3. \A b \in Attempts \ {a} : inv'[b] = inv[b]
  BY DEF NextSuperstep
<1>4. /\ task' = [b \in Attempts |-> [n \in Nodes |-> task'[b][n]]]
      /\ \A b \in Attempts \ {a} : task'[b] = task[b]
      /\ \A n \in Nodes : task'[a][n] = IF n \in ns THEN [stage |-> "starting", value |-> Undefined] ELSE task[a][n]
      /\ \A b \in Attempts, n \in Nodes : TaskShape(task'[b][n])
  <2>1. task' = Tasks(a, ns)
    BY DEF NextSuperstep
  <2> QED
    BY <1>1, <2>1, TasksFrame
<1>5. GraphShape'
  <2>1. \A b \in Attempts : InvocationShape(inv[b])'
    <3>1. InvocationShape(inv[a])'
      BY <1>2 DEF InvocationShape, Phases, NextSuperstep
    <3>2. \A b \in Attempts \ {a} : InvocationShape(inv[b])'
      BY <1>1, <1>3 DEF GraphShape, InvocationShape
    <3> QED
      BY <3>1, <3>2
  <2>2. inv' = [b \in Attempts |-> inv'[b]]
    BY DEF NextSuperstep
  <2>3. \A b \in Attempts, n \in Nodes' : TaskShape(task[b][n])'
    BY <1>1, <1>4 DEF TaskShape
  <2>4. task' = [b \in Attempts |-> [n \in Nodes' |-> task'[b][n]]]
    BY <1>1, <1>4
  <2>5. /\ journal' \in [Attempts -> [Nodes' -> {"none", "running", "completed", "failed"}]]
        /\ host' \in [Attempts -> {"none", "running", "completed", "cancelled", "failed"}]
        /\ answer' \in [Attempts -> {"none", "completed", "failed", "denied", "threw", "lost"}]
        /\ faults' \in 0 .. MaxFaults /\ plan' \in Plans
    BY <1>1 DEF NextSuperstep, GraphShape
  <2> QED
    BY <2>1, <2>2, <2>3, <2>4, <2>5 DEF GraphShape
<1>6. AttemptInv(a)'
  <2>1. AttemptInv(a)
    BY DEF GraphInv
  <2>2. TasksAreActive(a)'
    <3>1. ns # {} /\ k >= 1 /\ Lowers
      BY DEF NextSuperstep
    <3>2. \A n \in Nodes : task'[a][n].stage \in Working => n \in ns
      BY <1>4 DEF NextSuperstep, Working
    <3> QED
      BY <1>1, <1>2, <3>1, <3>2 DEF TasksAreActive, Running
  <2>3. HostFollows(a)'
    BY DEF HostFollows, NextSuperstep
  <2>4. TasksLeaveRecords(a)'
    BY <1>1, <1>4, <2>1 DEF TasksLeaveRecords, AttemptInv, NextSuperstep
  <2>5. ValuesAreComputed(a)'
    <3>1. \A n \in Nodes : task'[a][n].stage # "finishing"
      BY <1>4 DEF NextSuperstep
    <3> QED
      BY <1>1, <3>1 DEF ValuesAreComputed
  <2> QED
    BY <2>2, <2>3, <2>4, <2>5 DEF AttemptInv
<1>7. ASSUME NEW b \in Attempts, b # a
      PROVE  AttemptInv(b)'
  <2>1. HostFollows(b) /\ host'[b] = host[b] /\ journal' = journal
    BY <1>7 DEF GraphInv, AttemptInv, NextSuperstep
  <2> QED
    BY <1>1, <1>3, <1>4, <1>7, <2>1, AttemptKept DEF HostFollows
<1> QED
  BY <1>5, <1>6, <1>7 DEF GraphInv

LEMMA InvokeIsNextSuperstep ==
  ASSUME GraphInv, NEW a \in Attempts, Invoke(a)
  PROVE  NextSuperstep(a, 1, Starts, thread, FALSE)
<1>1. GraphShape /\ TasksAreActive(a)
  BY DEF GraphInv, AttemptInv
<1>2. inv' = [inv EXCEPT ![a] = [Idle EXCEPT !.phase = "running", !.step = 1, !.active = Starts, !.mem = thread]]
  BY DEF Invoke
<1>3. [Idle EXCEPT !.phase = "running", !.step = 1, !.active = Starts, !.mem = thread]
        = [phase |-> "running", step |-> 1, active |-> Starts, mem |-> thread, aborted |-> FALSE]
  <2> DEFINE u == [Idle EXCEPT !.phase = "running", !.step = 1, !.active = Starts, !.mem = thread]
             Fields == {"phase", "step", "active", "mem", "aborted"}
  <2>1. DOMAIN Idle = Fields /\ Idle.aborted = FALSE
    BY DEF Idle
  <2>2. /\ u = [f \in Fields |-> u[f]]
        /\ u.phase = "running" /\ u.step = 1 /\ u.active = Starts /\ u.mem = thread /\ u.aborted = FALSE
    BY <2>1
  <2> HIDE DEF u
  <2>3. u = [phase |-> "running", step |-> 1, active |-> Starts, mem |-> thread, aborted |-> FALSE]
    BY <2>2
  <2> QED
    BY <2>3 DEF u
<1>4. inv' = [b \in Attempts |-> IF b # a THEN inv[b]
               ELSE [phase |-> "running", step |-> 1, active |-> Starts, mem |-> thread, aborted |-> FALSE]]
  BY <1>1, <1>2, <1>3 DEF GraphShape
<1>5. Starts # {}
  <2>1. Cardinality(Starts) = 1
    BY DEF Invoke, Lowers
  <2> QED
    BY <2>1, FS_EmptySet
<1>6. \A n \in Nodes : task[a][n].stage \in {"none", "done", "settled"}
  <2>1. inv[a].phase = "none"
    BY DEF Invoke, MayStart, Started
  <2> QED
    BY <1>1, <2>1 DEF TasksAreActive
<1>7. /\ host' \in [Attempts -> {"none", "running", "completed", "cancelled", "failed"}]
      /\ host'[a] # "failed" /\ \A b \in Attempts \ {a} : host'[b] = host[b]
  BY <1>1 DEF Invoke, GraphShape
<1>8. task' = Tasks(a, Starts) /\ Lowers /\ UNCHANGED <<plan, journal, receipts, answer, faults>>
  BY DEF Invoke
<1>9. FALSE \in BOOLEAN /\ 1 \in Nat \ {0}
  OBVIOUS
<1> QED
  BY <1>4, <1>5, <1>6, <1>7, <1>8, <1>9 DEF NextSuperstep

\* When a superstep ends, all tasks are over.
LEMMA TasksAreOver ==
  ASSUME GraphInv, NEW a \in Attempts, inv[a].active = Returned(a) \cup Settled(a)
  PROVE  \A n \in Nodes : task[a][n].stage \in {"none", "done", "settled"}
<1>1. GraphShape /\ TasksAreActive(a)
  BY DEF GraphInv, AttemptInv
<1> SUFFICES ASSUME NEW n \in Nodes PROVE task[a][n].stage \in {"none", "done", "settled"}
  OBVIOUS
<1>2. task[a][n].stage \in Working => n \in inv[a].active
  BY <1>1 DEF TasksAreActive
<1>3. n \in inv[a].active => task[a][n].stage \in {"done", "settled"}
  BY DEF Returned, Settled
<1>4. task[a][n].stage \in Stages
  BY <1>1 DEF GraphShape, TaskShape
<1> QED
  BY <1>2, <1>3, <1>4 DEF Stages, Working

LEMMA EndSuperstepKeepsGraphInv ==
  ASSUME GraphInv, NEW a \in Attempts, EndSuperstep(a)
  PROVE  GraphInv'
<1>1. GraphShape /\ AttemptInv(a) /\ faults \in 0 .. MaxFaults
  BY DEF GraphInv, GraphShape
<1>2. /\ Running(a) /\ inv[a].active = Returned(a) \cup Settled(a)
      /\ UNCHANGED <<plan, journal, receipts, answer, faults>>
  BY <1>1, SuperstepEnds
<1>3. CASE Finish(a, "failed") /\ UNCHANGED task
  BY <1>1, <1>2, <1>3, EndKeepsGraphInv DEF Phases
<1>4. CASE /\ inv' = [b \in Attempts |-> IF b # a THEN inv[b]
                        ELSE [phase |-> "marking", step |-> inv[a].step, active |-> {}, mem |-> Saved(a),
                              aborted |-> inv[a].aborted]]
           /\ UNCHANGED <<task, host>>
  <2>1. inv'[a] = [phase |-> "marking", step |-> inv[a].step, active |-> {}, mem |-> Saved(a), aborted |-> inv[a].aborted]
    BY <1>4
  <2>2. \A b \in Attempts \ {a} : inv'[b] = inv[b]
    BY <1>4
  <2>3. GraphShape'
    <3>1. \A b \in Attempts : InvocationShape(inv[b])'
      <4>1. InvocationShape(inv[a])'
        BY <1>1, <2>1 DEF InvocationShape, Phases, GraphShape
      <4>2. \A b \in Attempts \ {a} : InvocationShape(inv[b])'
        BY <1>1, <2>2 DEF GraphShape, InvocationShape
      <4> QED
        BY <4>1, <4>2
    <3>2. inv' = [b \in Attempts |-> inv'[b]]
      BY <1>4
    <3> QED
      BY <1>1, <1>2, <1>4, <3>1, <3>2, ShapeKept DEF GraphShape
  <2>4. AttemptInv(a)'
    <3>1. Nodes' = Nodes /\ settledSourceIds' = settledSourceIds
      BY <1>2, PlanIsFixed
    <3>2. \A n \in Nodes : task'[a][n].stage \in {"none", "done", "settled"}
      BY <1>2, <1>4, TasksAreOver
    <3>3. TasksAreActive(a)'
      BY <2>1, <3>1, <3>2 DEF TasksAreActive, Working, Running
    <3>4. HostFollows(a)'
      BY <1>1, <1>2, <1>4, <2>1 DEF HostFollows, AttemptInv, Running
    <3>5. TasksLeaveRecords(a)'
      BY <1>1, <1>2, <1>4, <3>1 DEF TasksLeaveRecords, AttemptInv
    <3>6. ValuesAreComputed(a)'
      BY <3>1, <3>2 DEF ValuesAreComputed
    <3> QED
      BY <3>3, <3>4, <3>5, <3>6 DEF AttemptInv
  <2>5. ASSUME NEW b \in Attempts, b # a
        PROVE  AttemptInv(b)'
    BY <1>2, <1>4, <2>2, <2>5, AttemptKept DEF GraphInv, AttemptInv, HostFollows
  <2> QED
    BY <2>3, <2>4, <2>5 DEF GraphInv
<1>5. CASE /\ Following(a) # {}
           /\ inv' = [b \in Attempts |-> IF b # a THEN inv[b]
                        ELSE [phase |-> "running", step |-> inv[a].step + 1, active |-> Following(a),
                              mem |-> Saved(a), aborted |-> inv[a].aborted]]
           /\ task' = Tasks(a, Following(a)) /\ UNCHANGED host
  <2>1. \A n \in Nodes : task[a][n].stage \in {"none", "done", "settled"}
    BY <1>2, TasksAreOver
  <2>2. host[a] # "failed" /\ Lowers
    BY <1>1, <1>2 DEF AttemptInv, HostFollows, TasksAreActive, Running
  <2>3. inv[a].step + 1 \in Nat \ {0} /\ inv[a].aborted \in BOOLEAN
    BY <1>1 DEF GraphShape, InvocationShape
  <2>4. NextSuperstep(a, inv[a].step + 1, Following(a), Saved(a), inv[a].aborted)
    BY <1>1, <1>2, <1>5, <2>1, <2>2, <2>3 DEF NextSuperstep, GraphShape
  <2> QED
    BY <2>4, NextSuperstepKeepsGraphInv
<1> QED
  BY <1>1, <1>3, <1>4, <1>5, SuperstepEnds

LEMMA InitGraphInv == Init => GraphInv
<1> SUFFICES ASSUME Init PROVE GraphInv
  OBVIOUS
<1>1. GraphShape
  <2>1. inv = [a \in Attempts |-> inv[a]] /\ \A a \in Attempts : InvocationShape(inv[a])
    BY DEF Init, InvocationShape, Idle, Phases
  <2>2. /\ task = [a \in Attempts |-> [n \in Nodes |-> task[a][n]]]
        /\ \A a \in Attempts, n \in Nodes : TaskShape(task[a][n])
    BY DEF Init, TaskShape, NoTask, Stages, Working
  <2> QED
    BY <2>1, <2>2 DEF GraphShape, Init
<1>2. ASSUME NEW a \in Attempts
      PROVE  AttemptInv(a)
  <2>1. inv[a] = Idle /\ Idle.phase = "none" /\ Idle.active = {} /\ \A n \in Nodes : task[a][n].stage = "none"
    BY DEF Init, NoTask, Idle
  <2>2. host[a] = "none"
    BY DEF Init
  <2> QED
    BY <2>1, <2>2
       DEF AttemptInv, TasksAreActive, HostFollows, TasksLeaveRecords, ValuesAreComputed, Working, Running
<1> QED
  BY <1>1, <1>2 DEF GraphInv

LEMMA NextGraphInv == GraphInv /\ [Next]_vars => GraphInv'
<1> SUFFICES ASSUME GraphInv, [Next]_vars PROVE GraphInv'
  OBVIOUS
<1>1. CASE UNCHANGED vars
  <2>1. GraphShape'
    BY <1>1, ShapeKept DEF vars, GraphInv, GraphShape, InvocationShape
  <2>2. \A b \in Attempts : AttemptInv(b)'
    BY <1>1, AttemptKept DEF vars, GraphInv, AttemptInv, HostFollows
  <2> QED
    BY <2>1, <2>2 DEF GraphInv
<1>2. ASSUME NEW a \in Attempts, Invoke(a) PROVE GraphInv'
  BY <1>2, InvokeIsNextSuperstep, NextSuperstepKeepsGraphInv
<1>3. ASSUME NEW a \in Attempts, NEW n \in Nodes,
             StartNode(a, n) \/ Execute(a, n) \/ CompleteNode(a, n) \/ FailNode(a, n)
      PROVE  GraphInv'
  <2>1. TaskMove(a, n)
    BY <1>3, StartMoves, ExecuteMoves, CompleteMoves, FailMoves DEF GraphInv
  <2> QED
    BY <2>1, TaskMoveKeepsGraphInv
<1>4. CASE Next
  BY <1>2, <1>3, <1>4, RefuseKeepsGraphInv, GraphFailsKeepsGraphInv, StopKeepsGraphInv, MarkKeepsGraphInv,
     RespondKeepsGraphInv, CancelKeepsGraphInv, ForgetKeepsGraphInv, EndSuperstepKeepsGraphInv DEF Next
<1> QED
  BY <1>1, <1>4

\* The inductive invariant of attempts, tasks, journal and host table, for any plan.
THEOREM GraphInvariance == Spec => []GraphInv
<1>1. Init => GraphInv
  BY InitGraphInv
<1>2. GraphInv /\ [Next]_vars => GraphInv'
  BY NextGraphInv
<1> QED
  BY <1>1, <1>2, PTL DEF Spec

\* The host never answers failed for an invocation that completed or still runs
\* (GET /invocations/:invocationId, fetchStatus).
THEOREM StatusIsKnown == Spec => []StatusIsNeverGuessed
<1>1. GraphInv => StatusIsNeverGuessed
  BY DEF GraphInv, AttemptInv, HostFollows, StatusIsNeverGuessed, GetStatus, Status
<1> QED
  BY <1>1, GraphInvariance, PTL

-----------------------------------------------------------------------------
(* The invariant of a layered plan *)

\* The tasks of a superstep are those of its layer.
InLayer(depth, a) == \A n \in inv[a].active : n \in Nodes /\ depth[n] = inv[a].step

\* Nothing has run that lies deeper, and what lies in the layer runs in its superstep.
NoneDeeper(depth, a) ==
  \A n \in Nodes : task[a][n].stage # "none" =>
    depth[n] <= inv[a].step /\ (Running(a) /\ depth[n] = inv[a].step => n \in inv[a].active)

\* The sure nodes of the layer run in its superstep and those of the layers above have run.
SureHaveRun(depth, sure, a) ==
  Running(a) => \A n \in sure : /\ depth[n] = inv[a].step => n \in inv[a].active
                                /\ depth[n] < inv[a].step => Ran(a, n)

\* A join that has heard of a branch of its last layer has been released: what is left of an
\* earlier attempt can release none.
LateBranches(depth, seen) ==
  \A p \in seen : p[2] \in barrierTargets /\ p[1] \in Sources(p[2]) /\ depth[p[1]] + 1 < depth[p[2]]

\* A join that has yet to run has heard of every branch above the layer.
EarlyBranches(depth, a) ==
  Running(a) => \A j \in barrierTargets : \A s \in Sources(j) :
    depth[s] < inv[a].step /\ inv[a].step < depth[j] => <<s, j>> \in inv[a].mem.seen

\* A join has a task only after each of its branches has run.
BranchesFirst(a) ==
  \A j \in Nodes : Kind(j) = "join" /\ task[a][j].stage # "none" => \A s \in Sources(j) : Ran(a, s)

\* The channels m hold what node n left in this attempt.
Holds(a, n, m) ==
  LET v == task[a][n].value IN
  /\ task[a][n].stage = "done" => n \in DOMAIN m.values /\ m.values[n] = v
  /\ n \in settledSourceIds =>
       /\ n \in DOMAIN m.settlements
       /\ m.settlements[n] = IF task[a][n].stage = "settled" THEN Rejected(v.v) ELSE Fulfilled(v)

\* So they do for the nodes of the earlier supersteps.
Remembered(a) == \A n \in Nodes \ inv[a].active : Ran(a, n) => Holds(a, n, inv[a].mem)

\* JoinSeesEveryBranch, of one attempt.
SeesBranches(a) ==
  \A j \in Nodes :
    Kind(j) = "join" /\ task[a][j].stage \in {"finishing", "done"} =>
      \A i \in DOMAIN Incoming(j) :
        LET e == Incoming(j)[i] IN Ran(a, e.from) /\ Entry(a, j, e) = Outcome(a, e.from, e)

LayerInv(depth, sure, a) ==
  /\ InLayer(depth, a) /\ NoneDeeper(depth, a) /\ SureHaveRun(depth, sure, a)
  /\ LateBranches(depth, inv[a].mem.seen) /\ EarlyBranches(depth, a)
  /\ BranchesFirst(a) /\ Remembered(a) /\ SeesBranches(a)

\* An attempt that is over or marks its checkpoint ran one output, whose value is the run's.
OneOutput(a) ==
  inv[a].phase \in {"marking", "completed"} =>
    \E n \in Nodes : /\ Kind(n) = "output" /\ task[a][n].stage = "done" /\ task[a][n].value = inv[a].mem.output
                     /\ \A k \in Nodes : Kind(k) = "output" /\ k # n => task[a][k].stage = "none"

LayersInv ==
  \A depth \in Depths, sure \in SUBSET Nodes : Layering(depth, sure) =>
    /\ LateBranches(depth, thread.seen)
    /\ \A a \in Attempts : LayerInv(depth, sure, a)
    /\ Concluding(depth) => \A a \in Attempts : OneOutput(a)

-----------------------------------------------------------------------------
(* Lemmas about plans and their values *)

\* Incoming lists the edges into a node that are no control edges.
LEMMA IncomingIs ==
  ASSUME plan \in Plans, NEW n
  PROVE  /\ Len(Incoming(n)) \in Nat /\ DOMAIN Incoming(n) = 1 .. Len(Incoming(n))
         /\ \A i \in DOMAIN Incoming(n) :
              Incoming(n)[i] \in Edges /\ Incoming(n)[i].to = n /\ Incoming(n)[i].kind # "control"
         /\ \A e \in Edges : e.to = n /\ e.kind # "control" => \E i \in DOMAIN Incoming(n) : Incoming(n)[i] = e
<1> DEFINE I == {i \in DOMAIN plan.edges : plan.edges[i].to = n /\ plan.edges[i].kind # "control"}
           q == Subsequence(plan.edges, I)
<1>1. DOMAIN plan.edges = 1 .. Len(plan.edges) /\ Len(plan.edges) \in Nat
  <2>1. plan.edges \in Seq({plan.edges[i] : i \in DOMAIN plan.edges})
    OBVIOUS
  <2> QED
    BY <2>1
<1>2. I \in SUBSET Nat /\ IsFiniteSet(I)
  <2>1. I \subseteq 1 .. Len(plan.edges) /\ I \in SUBSET Nat
    BY <1>1
  <2>2. IsFiniteSet(1 .. Len(plan.edges))
    BY <1>1, FS_Interval
  <2> HIDE DEF I
  <2> QED
    BY <2>1, <2>2, FS_Subset
<1>3. \A i \in I : plan.edges[i] \in Edges /\ plan.edges[i].to = n /\ plan.edges[i].kind # "control"
  BY DEF Edges
<1>4. \A e \in Edges : e.to = n /\ e.kind # "control" => \E i \in I : plan.edges[i] = e
  BY DEF Edges
<1>5. Incoming(n) = q
  BY DEF Incoming
<1> HIDE DEF I
<1>6. /\ Len(q) \in Nat /\ DOMAIN q = 1 .. Len(q)
      /\ \A i \in I : \E k \in DOMAIN q : q[k] = plan.edges[i]
      /\ \A k \in DOMAIN q : \E i \in I : q[k] = plan.edges[i]
  BY <1>2, SubsequencePicks, FS_CardinalityType
<1> HIDE DEF q
<1> QED
  BY <1>3, <1>4, <1>5, <1>6

\* An object built from entries of different keys has each entry at its key.
LEMMA EntriesAreKept ==
  ASSUME NEW entries, NEW n \in Nat, DOMAIN entries = 1 .. n,
         \A i, k \in 1 .. n : entries[i][1] = entries[k][1] => i = k
  PROVE  \A i \in 1 .. n : FromEntries(entries).v[entries[i][1]] = entries[i][2]
<1> DEFINE key == [i \in DOMAIN entries |-> entries[i][1]]
           At(k) == {i \in DOMAIN key : key[i] = k}
           f == [k \in {key[i] : i \in DOMAIN key} |-> entries[Max(At(k))][2]]
<1>1. FromEntries(entries).v = f
  BY DEF FromEntries, Obj
<1> SUFFICES ASSUME NEW i \in 1 .. n
             PROVE  FromEntries(entries).v[entries[i][1]] = entries[i][2]
  OBVIOUS
<1>2. At(key[i]) = {i}
  OBVIOUS
<1>3. Max({i}) = i
  BY DEF Max
<1>4. key[i] = entries[i][1] /\ key[i] \in {key[k] : k \in DOMAIN key}
  OBVIOUS
<1> HIDE DEF key
<1>5. f[key[i]] = entries[i][2]
  BY <1>2, <1>3, <1>4
<1> QED
  BY <1>1, <1>4, <1>5

\* What a plan's shape decides about layers does not change.
LEMMA LayeringIsFixed ==
  ASSUME plan' = plan
  PROVE  /\ \A depth, sure : Layering(depth, sure)' = Layering(depth, sure)
         /\ \A depth : Concluding(depth)' = Concluding(depth)
         /\ Depths' = Depths
         /\ \A n : Sources(n)' = Sources(n) /\ Incoming(n)' = Incoming(n)
BY DEF Concluding, Layering, Depths, Nodes, Edges, Starts, barrierTargets, settledSourceIds, AllSettledJoins,
       Incoming, Kind, Config, Sources, Controls, Outgoing

\* The value with which a join leaves its task has for each branch what the branch did.
LEMMA JoinReads ==
  ASSUME GraphInv, NEW depth \in Depths, NEW sure \in SUBSET Nodes, Layering(depth, sure),
         NEW a \in Attempts, LayerInv(depth, sure, a),
         NEW j \in Nodes, Kind(j) = "join", task[a][j].stage = "executing",
         NEW v, v = nodeInput(j, inv[a].mem), NEW i \in DOMAIN Incoming(j)
  PROVE  LET e == Incoming(j)[i] IN
         /\ e.from \in Nodes /\ Ran(a, e.from)
         /\ (IF j \in AllSettledJoins \/ Len(Incoming(j)) > 1 THEN v.v[e.targetKey] ELSE v) = Outcome(a, e.from, e)
<1> DEFINE in == Incoming(j)
           m == inv[a].mem
           e == in[i]
<1>1. GraphShape /\ AttemptInv(a) /\ plan \in Plans
  BY DEF GraphInv, GraphShape
<1>2. /\ Len(in) \in Nat /\ DOMAIN in = 1 .. Len(in)
      /\ \A k \in DOMAIN in : in[k] \in Edges /\ in[k].to = j /\ in[k].kind # "control"
  BY <1>1, IncomingIs
<1>3. \A k \in DOMAIN in : in[k].from \in Nodes /\ in[k].from \in Sources(j) /\ Ran(a, in[k].from)
  <2> SUFFICES ASSUME NEW k \in DOMAIN in
               PROVE  in[k].from \in Nodes /\ in[k].from \in Sources(j) /\ Ran(a, in[k].from)
    OBVIOUS
  <2>1. in[k].from \in Nodes /\ in[k].from \in Sources(j)
    BY <1>2 DEF Layering, Sources
  <2>2. BranchesFirst(a)
    BY DEF LayerInv
  <2> QED
    BY <2>1, <2>2 DEF BranchesFirst
<1>4. \A k \in DOMAIN in : in[k].from \notin inv[a].active
  <2> SUFFICES ASSUME NEW k \in DOMAIN in PROVE in[k].from \notin inv[a].active
    OBVIOUS
  <2>1. j \in inv[a].active
    BY <1>1 DEF AttemptInv, TasksAreActive, Working
  <2>2. depth[j] = inv[a].step /\ (in[k].from \in inv[a].active => depth[in[k].from] = inv[a].step)
    BY <2>1 DEF LayerInv, InLayer
  <2>3. depth[in[k].from] < depth[j]
    <3>1. depth[in[k].from] \in Nat /\ depth[j] \in Nat
      BY <1>3 DEF Depths
    <3>2. CASE j \in barrierTargets
      BY <1>3, <3>2 DEF Layering
    <3>3. CASE j \notin barrierTargets
      <4>1. depth[j] = depth[in[k].from] + 1
        BY <1>2, <3>3 DEF Layering
      <4> QED
        BY <3>1, <4>1
    <3> QED
      BY <3>2, <3>3
  <2>4. depth[j] \in Nat
    BY DEF Depths
  <2> QED
    BY <2>2, <2>3, <2>4
<1>5. \A k \in DOMAIN in :
        /\ task[a][in[k].from].stage = "done" =>
             in[k].from \in DOMAIN m.values /\ m.values[in[k].from] = task[a][in[k].from].value
        /\ in[k].from \in settledSourceIds =>
             /\ in[k].from \in DOMAIN m.settlements
             /\ m.settlements[in[k].from] = IF task[a][in[k].from].stage = "settled"
                                            THEN Rejected(task[a][in[k].from].value.v)
                                            ELSE Fulfilled(task[a][in[k].from].value)
  BY <1>3, <1>4 DEF LayerInv, Remembered, Holds
<1>6. \A k, l \in DOMAIN in : in[k].targetKey = in[l].targetKey => k = l
  BY DEF Layering
<1>7. in # <<>>
  BY <1>2
<1>8. CASE j \in AllSettledJoins
  <2> DEFINE settled(f) == IF f.from \in DOMAIN m.settlements THEN m.settlements[f.from]
                           ELSE Fulfilled(getPath(Value(m, f.from), f.sourcePath))
             entries == [k \in DOMAIN in |-> <<in[k].targetKey, settled(in[k])>>]
  <2>1. v = FromEntries(entries)
    BY <1>7, <1>8 DEF nodeInput, allSettledInput
  <2>2. /\ DOMAIN entries = 1 .. Len(in)
        /\ \A k \in 1 .. Len(in) : entries[k][1] = in[k].targetKey /\ entries[k][2] = settled(in[k])
    BY <1>2
  <2> HIDE DEF entries
  <2>3. v.v[e.targetKey] = settled(e)
    <3> HIDE DEF settled
    <3>1. Len(in) \in Nat /\ DOMAIN in = 1 .. Len(in) /\ i \in 1 .. Len(in)
      BY <1>2
    <3>2. \A k, l \in 1 .. Len(in) : entries[k][1] = entries[l][1] => k = l
      BY ONLY <1>6, <2>2, <3>1
    <3>3. FromEntries(entries).v[entries[i][1]] = entries[i][2]
      BY ONLY <2>2, <3>1, <3>2, EntriesAreKept
    <3>4. entries[i][1] = e.targetKey /\ entries[i][2] = settled(e)
      BY <2>2, <3>1
    <3> QED
      BY <2>1, <3>3, <3>4, Zenon
  <2>4. e.from \in settledSourceIds
    BY <1>2, <1>8 DEF settledSourceIds
  <2>5. settled(e) = Outcome(a, e.from, e)
    BY <1>2, <1>5, <1>8, <2>4 DEF Outcome
  <2> QED
    BY <1>3, <1>8, <2>3, <2>5
<1>9. CASE j \notin AllSettledJoins
  <2>1. \A k \in DOMAIN in : task[a][in[k].from].stage = "done"
    <3> SUFFICES ASSUME NEW k \in DOMAIN in PROVE task[a][in[k].from].stage = "done"
      OBVIOUS
    <3>1. ~HasMixedFanout
      <4>1. j \in inv[a].active
        BY <1>1 DEF AttemptInv, TasksAreActive, Working
      <4>2. inv[a].active # {}
        BY <4>1
      <4> QED
        BY <1>1, <4>2 DEF AttemptInv, TasksAreActive, Lowers
    <3>2. in[k].from \notin settledSourceIds
      BY <1>2, <1>9, <3>1 DEF HasMixedFanout
    <3>3. task[a][in[k].from].stage # "settled"
      BY <1>1, <1>3, <3>2 DEF AttemptInv, TasksLeaveRecords
    <3> QED
      BY <1>3, <3>3 DEF Ran
  <2> DEFINE read(f) == getPath(Value(m, f.from), f.sourcePath)
  <2>2. \A k \in DOMAIN in : read(in[k]) = Outcome(a, in[k].from, in[k])
    BY <1>2, <1>5, <1>9, <2>1 DEF Outcome, Value
  <2>3. Kind(j) \notin CapabilityKinds
    BY DEF CapabilityKinds
  <2>4. CASE Len(in) = 1
    <3>1. v = read(in[1]) /\ i = 1
      BY <1>2, <1>7, <1>9, <2>3, <2>4 DEF nodeInput
    <3> QED
      BY <1>3, <1>9, <2>2, <2>4, <3>1
  <2>5. CASE Len(in) # 1
    <3> DEFINE entries == [k \in DOMAIN in |-> <<in[k].targetKey, read(in[k])>>]
    <3>1. v = FromEntries(entries)
      BY <1>7, <1>9, <2>3, <2>5 DEF nodeInput
    <3>2. /\ DOMAIN entries = 1 .. Len(in)
          /\ \A k \in 1 .. Len(in) : entries[k][1] = in[k].targetKey /\ entries[k][2] = read(in[k])
      BY <1>2
    <3> HIDE DEF entries
    <3>3. v.v[e.targetKey] = read(e)
      <4> HIDE DEF read
      <4>1. Len(in) \in Nat /\ DOMAIN in = 1 .. Len(in) /\ i \in 1 .. Len(in)
        BY <1>2
      <4>2. \A k, l \in 1 .. Len(in) : entries[k][1] = entries[l][1] => k = l
        BY ONLY <1>6, <3>2, <4>1
      <4>3. FromEntries(entries).v[entries[i][1]] = entries[i][2]
        BY ONLY <3>2, <4>1, <4>2, EntriesAreKept
      <4>4. entries[i][1] = e.targetKey /\ entries[i][2] = read(e)
        BY <3>2, <4>1
      <4> QED
        BY <3>1, <4>3, <4>4, Zenon
    <3>4. Len(in) > 1
      BY <1>2, <2>5
    <3> QED
      BY <1>3, <2>2, <3>3, <3>4
  <2> QED
    BY <2>4, <2>5
<1> QED
  BY <1>8, <1>9

-----------------------------------------------------------------------------
(* The invariant of a layered plan is inductive *)

\* An attempt keeps its layers when its tasks and channels stay and it does not start to run.
LEMMA LayersKept ==
  ASSUME NEW depth, NEW sure, NEW b \in Attempts, LayerInv(depth, sure, b),
         plan' = plan, task'[b] = task[b],
         inv'[b].active = inv[b].active, inv'[b].mem = inv[b].mem, inv'[b].step = inv[b].step,
         inv'[b].phase = "running" => inv[b].phase = "running"
  PROVE  LayerInv(depth, sure, b)'
<1>1. /\ Nodes' = Nodes /\ barrierTargets' = barrierTargets /\ settledSourceIds' = settledSourceIds
      /\ AllSettledJoins' = AllSettledJoins
      /\ \A n : Sources(n)' = Sources(n) /\ Incoming(n)' = Incoming(n) /\ Kind(n)' = Kind(n)
  BY PlanIsFixed, LayeringIsFixed, InputsAreFixed
<1>2. \A n : Ran(b, n)' <=> Ran(b, n)
  BY DEF Ran
<1>3. InLayer(depth, b)' /\ NoneDeeper(depth, b)'
  BY <1>1 DEF LayerInv, InLayer, NoneDeeper, Running
<1>4. SureHaveRun(depth, sure, b)'
  BY <1>2 DEF LayerInv, SureHaveRun, Running
<1>5. LateBranches(depth, inv[b].mem.seen)' /\ EarlyBranches(depth, b)'
  BY <1>1 DEF LayerInv, LateBranches, EarlyBranches, Running
<1>6. BranchesFirst(b)'
  BY <1>1, <1>2 DEF LayerInv, BranchesFirst
<1>7. Remembered(b)'
  BY <1>1, <1>2 DEF LayerInv, Remembered, Holds
<1>8. SeesBranches(b)'
  BY <1>1, <1>2 DEF LayerInv, SeesBranches, Entry, Outcome
<1> QED
  BY <1>3, <1>4, <1>5, <1>6, <1>7, <1>8 DEF LayerInv

LEMMA TaskMoveKeepsLayers ==
  ASSUME GraphInv, NEW depth \in Depths, NEW sure \in SUBSET Nodes, Layering(depth, sure),
         NEW a \in Attempts, NEW n \in Nodes, TaskMove(a, n), LayerInv(depth, sure, a)
  PROVE  LayerInv(depth, sure, a)'
<1>1. /\ Nodes' = Nodes /\ barrierTargets' = barrierTargets /\ settledSourceIds' = settledSourceIds
      /\ AllSettledJoins' = AllSettledJoins
      /\ \A k : Sources(k)' = Sources(k) /\ Incoming(k)' = Incoming(k) /\ Kind(k)' = Kind(k)
  BY PlanIsFixed, LayeringIsFixed, InputsAreFixed DEF TaskMove
<1>2. inv' = inv
  BY DEF TaskMove
<1>3. /\ \A k \in Nodes : k # n => task'[a][k] = task[a][k]
      /\ task[a][n].stage \in Working /\ ~Ran(a, n) /\ task'[a][n].stage # "none"
  BY DEF TaskMove, Ran, Working
<1>4. \A k \in Nodes : Ran(a, k) => Ran(a, k)' /\ task'[a][k] = task[a][k]
  BY <1>3 DEF Ran
<1>5. \A k \in Nodes : task'[a][k].stage # "none" <=> task[a][k].stage # "none"
  BY <1>3 DEF Working
<1>6. n \in inv[a].active
  BY <1>3 DEF GraphInv, AttemptInv, TasksAreActive
<1>7. InLayer(depth, a)' /\ NoneDeeper(depth, a)'
  BY <1>1, <1>2, <1>5 DEF LayerInv, InLayer, NoneDeeper, Running
<1>8. SureHaveRun(depth, sure, a)'
  BY <1>2, <1>4 DEF LayerInv, SureHaveRun, Running
<1>9. LateBranches(depth, inv[a].mem.seen)' /\ EarlyBranches(depth, a)'
  BY <1>1, <1>2 DEF LayerInv, LateBranches, EarlyBranches, Running
<1>10. \A j \in Nodes : Sources(j) \subseteq Nodes
  BY DEF Layering, Sources
<1>11. BranchesFirst(a)'
  BY <1>1, <1>4, <1>5, <1>10 DEF LayerInv, BranchesFirst
<1>12. Remembered(a)'
  <2>1. \A k \in Nodes \ inv[a].active : task'[a][k] = task[a][k]
    BY <1>3, <1>6
  <2> QED
    BY <1>1, <1>2, <2>1 DEF LayerInv, Remembered, Holds, Ran
<1>13. SeesBranches(a)'
  <2> SUFFICES ASSUME NEW j \in Nodes, Kind(j) = "join", task'[a][j].stage \in {"finishing", "done"},
                      NEW i \in DOMAIN Incoming(j)
               PROVE  LET e == Incoming(j)[i] IN Ran(a, e.from)' /\ Entry(a, j, e)' = Outcome(a, e.from, e)'
    BY <1>1 DEF SeesBranches
  <2> DEFINE e == Incoming(j)[i]
  <2>1. e.from \in Nodes
    BY IncomingIs DEF Layering, GraphInv, GraphShape
  <2>2. ASSUME Ran(a, e.from)
        PROVE  Ran(a, e.from)' /\ Outcome(a, e.from, e)' = Outcome(a, e.from, e)
    BY <1>1, <1>4, <2>1, <2>2 DEF Outcome
  <2>3. CASE task[a][j].stage \in {"finishing", "done"}
    <3>1. task'[a][j].value = task[a][j].value
      BY <1>3, <2>3 DEF TaskMove
    <3>2. Ran(a, e.from) /\ Entry(a, j, e) = Outcome(a, e.from, e)
      BY <2>3 DEF LayerInv, SeesBranches
    <3>3. Entry(a, j, e)' = Entry(a, j, e)
      BY <1>1, <3>1 DEF Entry
    <3> QED
      BY <2>2, <3>2, <3>3
  <2>4. CASE task[a][j].stage \notin {"finishing", "done"}
    <3>1. j = n /\ task[a][n].stage = "executing" /\ task'[a][n].stage = "finishing"
      BY <1>3, <2>4 DEF TaskMove
    <3> DEFINE v == task'[a][j].value
    <3>2. v = nodeInput(j, inv[a].mem)
      <4>1. v = Compute(j, nodeInput(j, inv[a].mem))
        BY <3>1 DEF TaskMove, CapabilityKinds
      <4> QED
        BY <4>1 DEF Compute
    <3>3. Ran(a, e.from)
          /\ (IF j \in AllSettledJoins \/ Len(Incoming(j)) > 1 THEN v.v[e.targetKey] ELSE v) = Outcome(a, e.from, e)
      <4> HIDE DEF v
      <4> QED
        BY <3>1, <3>2, JoinReads
    <3>4. Entry(a, j, e)' = (IF j \in AllSettledJoins \/ Len(Incoming(j)) > 1 THEN v.v[e.targetKey] ELSE v)
      BY <1>1 DEF Entry
    <3> QED
      BY <2>2, <3>3, <3>4
  <2> QED
    BY <2>3, <2>4
<1> QED
  BY <1>7, <1>8, <1>9, <1>11, <1>12, <1>13 DEF LayerInv

\* A node leads along its edges, and in a layered plan never to a barrier.
LEMMA TargetsFollowEdges ==
  ASSUME plan \in Plans, NEW depth, NEW sure, Layering(depth, sure), NEW n, NEW m, NEW k \in Targets(n, m)
  PROVE  k \notin barrierTargets /\ \E e \in Edges : e.from = n /\ e.to = k
<1>1. CASE Controls(n) # {}
  <2> DEFINE hits == {i \in DOMAIN plan.edges : plan.edges[i] \in Controls(n) /\ Matches(n, plan.edges[i], m)}
  <2>1. k \in routeFor(n, m)
    BY <1>1 DEF Targets
  <2>2. hits # {} /\ k = plan.edges[Min(hits)].to
    BY <2>1 DEF routeFor
  <2>3. hits \in SUBSET Nat
    <3>1. plan.edges \in Seq({plan.edges[i] : i \in DOMAIN plan.edges})
      OBVIOUS
    <3>2. DOMAIN plan.edges = 1 .. Len(plan.edges)
      BY <3>1
    <3> QED
      BY <3>2
  <2> HIDE DEF hits
  <2>4. Min(hits) \in hits
    BY <2>2, <2>3, LeastExists DEF Min
  <2>5. plan.edges[Min(hits)] \in Controls(n)
    BY <2>4 DEF hits
  <2>6. plan.edges[Min(hits)] \in Edges /\ plan.edges[Min(hits)].from = n /\ plan.edges[Min(hits)].kind = "control"
    BY <2>5 DEF Controls, Outgoing
  <2>7. Kind(k) # "join"
    BY <2>2, <2>6 DEF Layering
  <2> QED
    BY <2>2, <2>6, <2>7 DEF barrierTargets
<1>2. CASE Controls(n) = {}
  BY <1>2 DEF Targets, Outgoing
<1> QED
  BY <1>1, <1>2

\* What follows a superstep, member by member.
LEMMA FollowingIs ==
  ASSUME NEW a, NEW n
  PROVE  n \in Following(a) <=>
           n \in Released(a) \/ \E f \in inv[a].active : n \in Targets(f, Written(a, {f}, inv[a].mem))
<1> DEFINE T(f) == Targets(f, Written(a, {f}, inv[a].mem))
<1>1. \A active, R : n \in (UNION {T(f) : f \in active}) \cup R <=> n \in R \/ \E f \in active : n \in T(f)
  <2> HIDE DEF T
  <2> QED
    BY Zenon
<1> QED
  BY <1>1, Zenon DEF Following

\* What a superstep of a layered plan that is over leads to.
LEMMA NextLayer ==
  ASSUME GraphInv, NEW depth \in Depths, NEW sure \in SUBSET Nodes, Layering(depth, sure),
         NEW a \in Attempts, LayerInv(depth, sure, a), Running(a), inv[a].active = Returned(a) \cup Settled(a)
  PROVE  LET k == inv[a].step IN
         /\ \A n \in Following(a) : n \in Nodes /\ depth[n] = k + 1
         /\ \A n \in sure : depth[n] = k + 1 => n \in Following(a)
         /\ \A n \in sure : depth[n] <= k => Ran(a, n)
         /\ LateBranches(depth, Saved(a).seen)
         /\ \A j \in barrierTargets : \A s \in Sources(j) :
              depth[s] < k + 1 /\ k + 1 < depth[j] => <<s, j>> \in Saved(a).seen
         /\ \A j \in Following(a) : Kind(j) = "join" => \A s \in Sources(j) : Ran(a, s)
<1> DEFINE k == inv[a].step
           active == inv[a].active
<1>1. GraphShape /\ TasksAreActive(a) /\ plan \in Plans /\ k \in Nat /\ k >= 1
  BY DEF GraphInv, GraphShape, AttemptInv, TasksAreActive, InvocationShape
<1>2. \A n \in Nodes : depth[n] \in Nat /\ depth[n] >= 1
  BY DEF Depths
<1>3. \A n \in active : n \in Nodes /\ depth[n] = k /\ Ran(a, n)
  BY DEF LayerInv, InLayer, Ran, Returned, Settled
<1>4. \A n \in sure : (depth[n] = k => n \in active) /\ (depth[n] < k => Ran(a, n))
  BY DEF LayerInv, SureHaveRun
<1>5. \A n \in sure : depth[n] <= k => Ran(a, n)
  BY <1>1, <1>2, <1>3, <1>4
<1>6. \A j \in barrierTargets : j \in Nodes /\ Kind(j) = "join" /\ Sources(j) \subseteq sure
                                /\ \A s \in Sources(j) : s \in Nodes /\ depth[s] < depth[j]
  BY DEF Layering, barrierTargets
<1>7. \A j \in barrierTargets : depth[j] = k + 1 => j \in Released(a)
  <2> SUFFICES ASSUME NEW j \in barrierTargets, depth[j] = k + 1, NEW s \in Sources(j)
               PROVE  <<s, j>> \in Seen(a)
    BY DEF Released
  <2>1. s \in sure /\ s \in Nodes /\ depth[s] <= k
    BY <1>1, <1>2, <1>6
  <2>2. CASE depth[s] = k
    <3>1. s \in active
      BY <1>4, <2>1, <2>2
    <3> QED
      BY <3>1 DEF Seen
  <2>3. CASE depth[s] < k
    <3>1. <<s, j>> \in inv[a].mem.seen
      BY <1>1, <2>3 DEF LayerInv, EarlyBranches
    <3> QED
      BY <3>1 DEF Seen
  <2> QED
    BY <1>1, <1>2, <2>1, <2>2, <2>3
<1>8. \A p \in inv[a].mem.seen : p[2] \in barrierTargets /\ p[1] \in Sources(p[2]) /\ depth[p[1]] + 1 < depth[p[2]]
  BY DEF LayerInv, LateBranches
<1>9. \A j \in Released(a) : j \in barrierTargets /\ depth[j] = k + 1
  <2> SUFFICES ASSUME NEW j \in Released(a)
               PROVE  j \in barrierTargets /\ depth[j] = k + 1
    OBVIOUS
  <2>1. j \in barrierTargets /\ \A s \in Sources(j) : <<s, j>> \in Seen(a)
    BY DEF Released
  <2>2. PICK s \in Sources(j) : depth[s] + 1 = depth[j]
    BY <2>1 DEF Layering
  <2>3. <<s, j>> \notin inv[a].mem.seen
    <3>1. s \in Nodes /\ depth[s] \in Nat /\ depth[j] \in Nat
      BY <1>2, <1>6, <2>1
    <3>2. ASSUME <<s, j>> \in inv[a].mem.seen PROVE FALSE
      <4> DEFINE p == <<s, j>>
      <4>1. depth[p[1]] + 1 < depth[p[2]]
        BY <1>8, <3>2
      <4>2. p[1] = s /\ p[2] = j
        OBVIOUS
      <4> QED
        BY <2>2, <3>1, <4>1, <4>2
    <3> QED
      BY <3>2
  <2>4. s \in active
    BY <2>1, <2>3 DEF Seen
  <2> QED
    BY <1>3, <2>1, <2>2, <2>4
<1>10. \A n \in Following(a) :
         n \in Released(a) \/ (n \notin barrierTargets /\ \E e \in Edges : e.from \in active /\ e.to = n)
  <2> SUFFICES ASSUME NEW n \in Following(a), n \notin Released(a)
               PROVE  n \notin barrierTargets /\ \E e \in Edges : e.from \in active /\ e.to = n
    OBVIOUS
  <2>1. PICK f \in active : n \in Targets(f, Written(a, {f}, inv[a].mem))
    BY FollowingIs
  <2>2. n \notin barrierTargets /\ \E e \in Edges : e.from = f /\ e.to = n
    <3> DEFINE m == Written(a, {f}, inv[a].mem)
    <3> HIDE DEF m
    <3>1. n \in Targets(f, m)
      BY <2>1 DEF m
    <3> QED
      BY <1>1, <3>1, TargetsFollowEdges
  <2> QED
    BY <2>2
<1>11. \A n \in Following(a) : n \in Nodes /\ depth[n] = k + 1
  <2> SUFFICES ASSUME NEW n \in Following(a) PROVE n \in Nodes /\ depth[n] = k + 1
    OBVIOUS
  <2>1. CASE n \in Released(a)
    BY <1>6, <1>9, <2>1
  <2>2. CASE n \notin barrierTargets /\ \E e \in Edges : e.from \in active /\ e.to = n
    BY <1>3, <2>2 DEF Layering
  <2> QED
    BY <1>10, <2>1, <2>2
<1>12. \A n \in sure : depth[n] = k + 1 => n \in Following(a)
  <2> SUFFICES ASSUME NEW n \in sure, depth[n] = k + 1 PROVE n \in Following(a)
    OBVIOUS
  <2>1. CASE n \in barrierTargets
    BY <1>7, <2>1, FollowingIs
  <2>2. CASE n \notin barrierTargets
    <3>1. n \notin Starts
      BY <1>1 DEF Layering
    <3>2. PICK e \in Edges : e.to = n /\ e.from \in sure /\ Controls(e.from) = {} /\ Kind(e.from) # "output"
      BY <2>2, <3>1 DEF Layering
    <3>3. e.from \in Nodes /\ depth[e.from] = k
      <4>1. e.from \in Nodes /\ depth[n] = depth[e.from] + 1
        BY <2>2, <3>2 DEF Layering
      <4> QED
        BY <1>1, <1>2, <4>1
    <3>4. e.from \in active
      BY <1>4, <3>2, <3>3
    <3>5. n \in Targets(e.from, Written(a, {e.from}, inv[a].mem))
      BY <2>2, <3>2 DEF Targets, Outgoing
    <3> QED
      BY <3>4, <3>5, FollowingIs
  <2> QED
    BY <2>1, <2>2
<1>13. Saved(a).seen = {p \in Seen(a) : p[2] \notin Released(a)}
  BY DEF Saved, Written
<1>14. LateBranches(depth, Saved(a).seen)
  <2> SUFFICES ASSUME NEW p \in Seen(a), p[2] \notin Released(a)
               PROVE  p[2] \in barrierTargets /\ p[1] \in Sources(p[2]) /\ depth[p[1]] + 1 < depth[p[2]]
    BY <1>13 DEF LateBranches
  <2>1. CASE p \in inv[a].mem.seen
    BY <1>8, <2>1
  <2>2. CASE p \in active \X barrierTargets /\ p[1] \in Sources(p[2])
    <3>1. p[1] \in active /\ p[2] \in barrierTargets
      BY <2>2
    <3>2. depth[p[1]] = k /\ depth[p[1]] < depth[p[2]] /\ depth[p[2]] # k + 1 /\ depth[p[2]] \in Nat
      BY <1>2, <1>3, <1>6, <1>7, <2>2, <3>1
    <3> QED
      BY <1>1, <2>2, <3>1, <3>2
  <2> QED
    BY <2>1, <2>2 DEF Seen
<1>15. \A j \in barrierTargets : \A s \in Sources(j) :
         depth[s] < k + 1 /\ k + 1 < depth[j] => <<s, j>> \in Saved(a).seen
  <2> SUFFICES ASSUME NEW j \in barrierTargets, NEW s \in Sources(j), depth[s] < k + 1, k + 1 < depth[j]
               PROVE  <<s, j>> \in Saved(a).seen
    OBVIOUS
  <2>1. s \in sure /\ s \in Nodes /\ depth[s] \in Nat /\ depth[j] \in Nat
    BY <1>2, <1>6
  <2>2. j \notin Released(a)
    BY <1>1, <1>9, <2>1
  <2>3. <<s, j>> \in Seen(a)
    <3>1. CASE depth[s] = k
      BY <1>4, <2>1, <3>1 DEF Seen
    <3>2. CASE depth[s] < k
      <4>1. k < depth[j]
        BY <1>1, <2>1
      <4>2. <<s, j>> \in inv[a].mem.seen
        BY <3>2, <4>1 DEF LayerInv, EarlyBranches
      <4> QED
        BY <4>2 DEF Seen
    <3> QED
      BY <1>1, <2>1, <3>1, <3>2
  <2> QED
    BY <1>13, <2>2, <2>3
<1>16. \A j \in Following(a) : Kind(j) = "join" => \A s \in Sources(j) : Ran(a, s)
  <2> SUFFICES ASSUME NEW j \in Following(a), Kind(j) = "join", NEW s \in Sources(j)
               PROVE  Ran(a, s)
    OBVIOUS
  <2>1. CASE j \in Released(a)
    <3>1. s \in sure /\ s \in Nodes /\ depth[s] < k + 1
      BY <1>6, <1>9, <2>1
    <3>2. depth[s] <= k
      BY <1>1, <1>2, <3>1
    <3> QED
      BY <1>5, <3>1, <3>2
  <2>2. CASE j \notin barrierTargets /\ \E e \in Edges : e.from \in active /\ e.to = j
    <3>1. PICK e \in Edges : e.from \in active /\ e.to = j
      BY <2>2
    <3>2. e.kind # "control" /\ j \in Nodes
      BY <3>1 DEF Layering
    <3>3. PICK f \in Edges : f.to = j /\ f.kind # "control" /\ f.from = s
      BY DEF Sources
    <3>4. f = e
      <4> DEFINE in == Incoming(j)
      <4>0. \A g \in Edges : g.to = j /\ g.kind # "control" => \E i \in DOMAIN in : in[i] = g
        BY <1>1, IncomingIs
      <4> HIDE DEF in
      <4>1. PICK i \in DOMAIN in : in[i] = e
        BY <3>1, <3>2, <4>0
      <4>2. PICK l \in DOMAIN in : in[l] = f
        BY <3>3, <4>0
      <4>3. Len(in) \in Nat /\ DOMAIN in = 1 .. Len(in) /\ ~(Len(in) > 1)
        BY <1>1, <2>2, <3>2, IncomingIs DEF barrierTargets, in
      <4>4. i = l
        BY <4>1, <4>2, <4>3
      <4> QED
        BY <4>1, <4>2, <4>4
    <3> QED
      BY <1>3, <3>1, <3>3, <3>4
  <2> QED
    BY <1>10, <2>1, <2>2
<1> QED
  BY <1>5, <1>11, <1>12, <1>14, <1>15, <1>16

\* What is saved at the end of a superstep holds what all nodes of the attempt have left.
LEMMA SavedHolds ==
  ASSUME NEW a \in Attempts, Remembered(a), inv[a].active = Returned(a) \cup Settled(a),
         NEW n \in Nodes, Ran(a, n)
  PROVE  Holds(a, n, Saved(a))
<1> DEFINE m == inv[a].mem
           done == inv[a].active \cap Returned(a)
           settled == inv[a].active \cap Settled(a)
           values == [k \in done |-> task[a][k].value]
           settlements == [k \in settled \cup (done \cap settledSourceIds) |->
             IF k \in settled THEN Rejected(task[a][k].value.v) ELSE Fulfilled(task[a][k].value)]
<1>1. Saved(a).values = Reduced(m.values, values) /\ Saved(a).settlements = Reduced(m.settlements, settlements)
  BY DEF Saved, Written
<1>2. n \in done <=> n \in inv[a].active /\ task[a][n].stage = "done"
  BY DEF Returned
<1>3. n \in settled <=> n \in inv[a].active /\ task[a][n].stage = "settled"
  BY DEF Settled
<1>4. ASSUME task[a][n].stage = "done"
      PROVE  n \in DOMAIN Saved(a).values /\ Saved(a).values[n] = task[a][n].value
  <2>1. CASE n \in inv[a].active
    BY <1>1, <1>2, <1>4, <2>1 DEF Reduced
  <2>2. CASE n \notin inv[a].active
    <3>1. n \in DOMAIN m.values /\ m.values[n] = task[a][n].value
      BY <1>4, <2>2 DEF Remembered, Holds
    <3> QED
      BY <1>1, <1>2, <2>2, <3>1 DEF Reduced
  <2> QED
    BY <2>1, <2>2
<1>5. ASSUME n \in settledSourceIds
      PROVE  /\ n \in DOMAIN Saved(a).settlements
             /\ Saved(a).settlements[n] = IF task[a][n].stage = "settled" THEN Rejected(task[a][n].value.v)
                                          ELSE Fulfilled(task[a][n].value)
  <2>1. CASE n \in inv[a].active
    <3>1. n \in DOMAIN settlements
      BY <1>2, <1>3, <1>5, <2>1 DEF Ran
    <3>2. settlements[n] = IF task[a][n].stage = "settled" THEN Rejected(task[a][n].value.v)
                           ELSE Fulfilled(task[a][n].value)
      BY <1>2, <1>3, <1>5, <2>1 DEF Ran
    <3> HIDE DEF settlements
    <3> QED
      BY <1>1, <3>1, <3>2 DEF Reduced
  <2>2. CASE n \notin inv[a].active
    <3>1. /\ n \in DOMAIN m.settlements
          /\ m.settlements[n] = IF task[a][n].stage = "settled" THEN Rejected(task[a][n].value.v)
                                ELSE Fulfilled(task[a][n].value)
      BY <1>5, <2>2 DEF Remembered, Holds
    <3>2. n \notin DOMAIN settlements
      BY <1>2, <1>3, <2>2
    <3> HIDE DEF settlements
    <3> QED
      BY <1>1, <3>1, <3>2 DEF Reduced
  <2> QED
    BY <2>1, <2>2
<1> QED
  BY <1>4, <1>5 DEF Holds

\* A superstep whose nodes are those of a layer keeps the layers.
LEMMA NextSuperstepKeepsLayers ==
  ASSUME GraphInv, NEW depth \in Depths, NEW sure \in SUBSET Nodes, Layering(depth, sure),
         NEW a \in Attempts, NEW k, NEW ns, NEW m, NEW ab, NextSuperstep(a, k, ns, m, ab),
         BranchesFirst(a), SeesBranches(a), LateBranches(depth, m.seen),
         \A n \in ns : n \in Nodes /\ depth[n] = k,
         \A n \in Nodes : task[a][n].stage # "none" => depth[n] < k,
         \A n \in sure : depth[n] = k => n \in ns,
         \A n \in sure : depth[n] < k => Ran(a, n),
         \A j \in barrierTargets : \A s \in Sources(j) : depth[s] < k /\ k < depth[j] => <<s, j>> \in m.seen,
         \A j \in ns : Kind(j) = "join" => \A s \in Sources(j) : Ran(a, s),
         \A n \in Nodes : Ran(a, n) => Holds(a, n, m)
  PROVE  LayerInv(depth, sure, a)'
<1>1. /\ Nodes' = Nodes /\ barrierTargets' = barrierTargets /\ settledSourceIds' = settledSourceIds
      /\ AllSettledJoins' = AllSettledJoins
      /\ \A n : Sources(n)' = Sources(n) /\ Incoming(n)' = Incoming(n) /\ Kind(n)' = Kind(n)
  BY PlanIsFixed, LayeringIsFixed, InputsAreFixed DEF NextSuperstep
<1>2. inv'[a] = [phase |-> "running", step |-> k, active |-> ns, mem |-> m, aborted |-> ab]
  BY DEF NextSuperstep
<1>3. \A n \in Nodes : task'[a][n] = IF n \in ns THEN [stage |-> "starting", value |-> Undefined] ELSE task[a][n]
  BY TasksFrame DEF NextSuperstep, GraphInv
<1>4. k \in Nat /\ \A n \in Nodes : depth[n] \in Nat
  BY DEF NextSuperstep, Depths
<1>5. \A n \in Nodes : Ran(a, n) => n \notin ns /\ task'[a][n] = task[a][n] /\ Ran(a, n)'
  BY <1>3, <1>4 DEF Ran
<1>6. \A n \in Nodes : n \notin ns /\ Ran(a, n)' => Ran(a, n)
  BY <1>3 DEF Ran
<1>7. \A n \in Nodes : Sources(n) \subseteq Nodes
  BY DEF Layering, Sources
<1>8. InLayer(depth, a)' /\ NoneDeeper(depth, a)'
  BY <1>1, <1>2, <1>3, <1>4 DEF InLayer, NoneDeeper
<1>9. SureHaveRun(depth, sure, a)'
  BY <1>2, <1>5 DEF SureHaveRun
<1>10. LateBranches(depth, inv[a].mem.seen)' /\ EarlyBranches(depth, a)'
  BY <1>1, <1>2 DEF LateBranches, EarlyBranches
<1>11. BranchesFirst(a)'
  <2> SUFFICES ASSUME NEW j \in Nodes, Kind(j) = "join", task'[a][j].stage # "none", NEW s \in Sources(j)
               PROVE  Ran(a, s)'
    BY <1>1 DEF BranchesFirst
  <2>1. Ran(a, s)
    BY <1>3 DEF BranchesFirst
  <2> QED
    BY <1>5, <1>7, <2>1
<1>12. Remembered(a)'
  <2> SUFFICES ASSUME NEW n \in Nodes \ ns, Ran(a, n)'
               PROVE  Holds(a, n, m)'
    BY <1>1, <1>2 DEF Remembered
  <2>1. task'[a][n] = task[a][n] /\ Holds(a, n, m)
    BY <1>5, <1>6
  <2> QED
    BY <1>1, <2>1 DEF Holds
<1>13. SeesBranches(a)'
  <2> SUFFICES ASSUME NEW j \in Nodes, Kind(j) = "join", task'[a][j].stage \in {"finishing", "done"},
                      NEW i \in DOMAIN Incoming(j)
               PROVE  LET e == Incoming(j)[i] IN Ran(a, e.from)' /\ Entry(a, j, e)' = Outcome(a, e.from, e)'
    BY <1>1 DEF SeesBranches
  <2> DEFINE e == Incoming(j)[i]
  <2>1. e.from \in Nodes
    BY IncomingIs DEF Layering, GraphInv, GraphShape
  <2>2. task'[a][j] = task[a][j]
    BY <1>3
  <2>3. Ran(a, e.from) /\ Entry(a, j, e) = Outcome(a, e.from, e)
    BY <2>2 DEF SeesBranches
  <2>4. Ran(a, e.from)' /\ task'[a][e.from] = task[a][e.from]
    BY <1>5, <2>1, <2>3, <1>1 DEF Ran
  <2> QED
    BY <1>1, <2>2, <2>3, <2>4 DEF Entry, Outcome
<1> QED
  BY <1>8, <1>9, <1>10, <1>11, <1>12, <1>13 DEF LayerInv

\* Steps that leave the tasks and the channels of every attempt alone and let none start to
\* run or to mark its checkpoint.
Quiet ==
  /\ plan' = plan /\ task' = task
  /\ \A b \in Attempts :
       /\ inv'[b].active = inv[b].active /\ inv'[b].mem = inv[b].mem /\ inv'[b].step = inv[b].step
       /\ inv'[b].phase = "running" => inv[b].phase = "running"
       /\ inv'[b].phase \in {"marking", "completed"} => inv[b].phase \in {"marking", "completed"}

LEMMA FinishIsQuiet ==
  ASSUME GraphShape, NEW a \in Attempts, NEW p \in Phases, Finish(a, p), UNCHANGED <<plan, task>>,
         p \in {"failed", "denied", "threw"} \/ (p = "completed" /\ inv[a].phase = "marking")
  PROVE  Quiet
<1> SUFFICES ASSUME NEW b \in Attempts
             PROVE  /\ inv'[b].active = inv[b].active /\ inv'[b].mem = inv[b].mem /\ inv'[b].step = inv[b].step
                    /\ inv'[b].phase = "running" => inv[b].phase = "running"
                    /\ inv'[b].phase \in {"marking", "completed"} => inv[b].phase \in {"marking", "completed"}
  BY DEF Quiet
<1>1. inv'[b].active = inv[b].active /\ inv'[b].mem = inv[b].mem /\ inv'[b].step = inv[b].step
  BY FinishFrame
<1>2. CASE b = a
  <2>1. inv'[b].phase = p
    BY <1>2, FinishFrame
  <2> QED
    BY <1>1, <1>2, <2>1
<1>3. CASE b # a
  <2>1. \A c \in Attempts \ {a} : inv'[c] = inv[c]
    BY FinishFrame
  <2> QED
    BY <1>1, <1>3, <2>1
<1> QED
  BY <1>2, <1>3

LEMMA ControlStepsAreQuiet ==
  ASSUME GraphInv, NEW a \in Attempts,
         Refuse(a) \/ GraphFails(a) \/ Stop(a) \/ MarkCheckpoint(a) \/ Respond(a) \/ Cancel(a) \/ Forget(a)
  PROVE  Quiet /\ thread' = thread
<1>1. GraphShape
  BY DEF GraphInv
<1>2. CASE Refuse(a)
  <2>1. Finish(a, "threw") /\ UNCHANGED <<plan, task, thread>>
    BY <1>2 DEF Refuse
  <2> QED
    BY <1>1, <2>1, FinishIsQuiet DEF Phases
<1>3. CASE GraphFails(a)
  <2>1. PICK p \in {"denied", "failed"} : Finish(a, p) /\ UNCHANGED <<plan, task, thread>>
    BY <1>3 DEF GraphFails
  <2>2. p \in Phases
    BY DEF Phases
  <2> QED
    BY <1>1, <2>1, <2>2, FinishIsQuiet
<1>4. CASE Stop(a)
  <2>1. Finish(a, "failed") /\ UNCHANGED <<plan, task, thread>>
    BY <1>4 DEF Stop
  <2> QED
    BY <1>1, <2>1, FinishIsQuiet DEF Phases
<1>5. CASE MarkCheckpoint(a)
  <2>1. PICK p \in {"completed", "failed"} : Finish(a, p) /\ UNCHANGED <<plan, task, thread>>
    BY <1>5 DEF MarkCheckpoint
  <2>2. p \in Phases /\ inv[a].phase = "marking"
    BY <1>5 DEF Phases, MarkCheckpoint
  <2> QED
    BY <1>1, <2>1, <2>2, FinishIsQuiet
<1>6. CASE Respond(a) \/ Forget(a)
  BY <1>6 DEF Respond, Forget, Quiet
<1>7. CASE Cancel(a)
  <2> DEFINE r == [phase |-> inv[a].phase, step |-> inv[a].step, active |-> inv[a].active, mem |-> inv[a].mem,
                   aborted |-> inv[a].aborted \/ host[a] # "none"]
  <2>1. /\ UNCHANGED <<plan, thread, task>>
        /\ inv' = [inv EXCEPT ![a].aborted = inv[a].aborted \/ host[a] # "none"]
    BY <1>7 DEF Cancel
  <2>2. /\ inv = [b \in Attempts |-> inv[b]]
        /\ inv[a] = [phase |-> inv[a].phase, step |-> inv[a].step, active |-> inv[a].active, mem |-> inv[a].mem,
                     aborted |-> inv[a].aborted]
    BY <1>1 DEF GraphShape, InvocationShape
  <2>3. inv' = [b \in Attempts |-> IF b = a THEN r ELSE inv[b]]
    BY <2>1, <2>2
  <2> QED
    BY <2>1, <2>3 DEF Quiet
<1> QED
  BY <1>2, <1>3, <1>4, <1>5, <1>6, <1>7

\* An attempt keeps its one output when its tasks and channels stay.
LEMMA OutputKept ==
  ASSUME NEW b \in Attempts, OneOutput(b), plan' = plan, task'[b] = task[b], inv'[b].mem = inv[b].mem,
         inv'[b].phase \in {"marking", "completed"} => inv[b].phase \in {"marking", "completed"}
  PROVE  OneOutput(b)'
BY PlanIsFixed, InputsAreFixed DEF OneOutput

LEMMA TaskMoveKeepsOutput ==
  ASSUME NEW a \in Attempts, NEW n \in Nodes, TaskMove(a, n), NEW b \in Attempts, OneOutput(b)
  PROVE  OneOutput(b)'
<1>1. plan' = plan /\ inv' = inv /\ Nodes' = Nodes /\ \A k : Kind(k)' = Kind(k)
  BY PlanIsFixed, InputsAreFixed DEF TaskMove
<1>2. \A k \in Nodes : task[b][k].stage \in {"none", "done"} => task'[b][k] = task[b][k]
  BY DEF TaskMove
<1> QED
  BY <1>1, <1>2 DEF OneOutput

\* The invocation starts in layer one, on what the thread holds.
LEMMA InvokeKeepsLayers ==
  ASSUME GraphInv, NEW depth \in Depths, NEW sure \in SUBSET Nodes, Layering(depth, sure),
         NEW a \in Attempts, Invoke(a), LayerInv(depth, sure, a), LateBranches(depth, thread.seen)
  PROVE  LayerInv(depth, sure, a)'
<1>1. NextSuperstep(a, 1, Starts, thread, FALSE)
  BY InvokeIsNextSuperstep
<1>2. \A n \in Nodes : task[a][n].stage = "none"
  <2>1. inv[a].phase = "none"
    BY DEF Invoke, MayStart, Started
  <2> QED
    BY <2>1 DEF GraphInv, AttemptInv, TasksAreActive
<1>3. \A n \in Nodes : depth[n] \in Nat /\ depth[n] >= 1
  BY DEF Depths
<1>4. \A n \in Starts : n \in Nodes /\ depth[n] = 1
  BY DEF Layering, Starts
<1>5. \A n \in sure : depth[n] = 1 => n \in Starts
  <2> SUFFICES ASSUME NEW n \in sure, n \notin Starts PROVE depth[n] # 1
    OBVIOUS
  <2>1. CASE n \in barrierTargets
    <3>1. PICK s \in Sources(n) : s \in sure /\ depth[s] + 1 = depth[n]
      BY <2>1 DEF Layering
    <3> QED
      BY <1>3, <3>1
  <2>2. CASE n \notin barrierTargets
    <3>1. PICK e \in Edges : e.to = n /\ e.from \in sure
      BY <2>2 DEF Layering
    <3>2. depth[n] = depth[e.from] + 1
      BY <2>2, <3>1 DEF Layering
    <3> QED
      BY <1>3, <3>1, <3>2
  <2> QED
    BY <2>1, <2>2
<1>6. \A j \in barrierTargets : \A s \in Sources(j) : ~(depth[s] < 1)
  <2>1. \A j \in barrierTargets : \A s \in Sources(j) : s \in Nodes
    BY DEF Layering
  <2> QED
    BY <1>3, <2>1
<1>7. \A j \in Starts : Sources(j) = {}
  BY DEF Starts, Sources
<1>8. \A n \in sure : ~(depth[n] < 1)
  BY <1>3
<1>9. \A n \in Nodes : ~Ran(a, n)
  BY <1>2 DEF Ran
<1>10. BranchesFirst(a) /\ SeesBranches(a)
  BY DEF LayerInv
<1> HIDE DEF Layering
<1> QED
  BY <1>1, <1>2, <1>4, <1>5, <1>6, <1>7, <1>8, <1>9, <1>10, NextSuperstepKeepsLayers

\* A superstep that goes on enters the next layer.
LEMMA AdvanceKeepsLayers ==
  ASSUME GraphInv, NEW depth \in Depths, NEW sure \in SUBSET Nodes, Layering(depth, sure),
         NEW a \in Attempts, LayerInv(depth, sure, a), Running(a), inv[a].active = Returned(a) \cup Settled(a),
         NextSuperstep(a, inv[a].step + 1, Following(a), Saved(a), inv[a].aborted)
  PROVE  LayerInv(depth, sure, a)'
<1> DEFINE k == inv[a].step
<1>1. /\ \A n \in Following(a) : n \in Nodes /\ depth[n] = k + 1
      /\ \A n \in sure : depth[n] = k + 1 => n \in Following(a)
      /\ \A n \in sure : depth[n] <= k => Ran(a, n)
      /\ LateBranches(depth, Saved(a).seen)
      /\ \A j \in barrierTargets : \A s \in Sources(j) :
           depth[s] < k + 1 /\ k + 1 < depth[j] => <<s, j>> \in Saved(a).seen
      /\ \A j \in Following(a) : Kind(j) = "join" => \A s \in Sources(j) : Ran(a, s)
  BY NextLayer
<1>2. k \in Nat /\ \A n \in Nodes : depth[n] \in Nat
  BY DEF Depths, GraphInv, GraphShape, InvocationShape
<1>3. \A n \in Nodes : task[a][n].stage # "none" => depth[n] < k + 1
  BY <1>2 DEF LayerInv, NoneDeeper
<1>4. \A n \in sure : depth[n] < k + 1 => Ran(a, n)
  BY <1>1, <1>2
<1>5. \A n \in Nodes : Ran(a, n) => Holds(a, n, Saved(a))
  BY SavedHolds DEF LayerInv
<1>6. BranchesFirst(a) /\ SeesBranches(a)
  BY DEF LayerInv
<1> HIDE DEF k
<1>7. NextSuperstep(a, k + 1, Following(a), Saved(a), inv[a].aborted)
  BY DEF k
<1> QED
  BY <1>1, <1>3, <1>4, <1>5, <1>6, <1>7, NextSuperstepKeepsLayers

\* A superstep that nothing follows leaves the attempt without tasks.
LEMMA MarkingKeepsLayers ==
  ASSUME GraphInv, NEW depth \in Depths, NEW sure \in SUBSET Nodes, Layering(depth, sure),
         NEW a \in Attempts, LayerInv(depth, sure, a), Running(a), inv[a].active = Returned(a) \cup Settled(a),
         plan' = plan, task' = task, NEW ab,
         inv'[a] = [phase |-> "marking", step |-> inv[a].step, active |-> {}, mem |-> Saved(a), aborted |-> ab]
  PROVE  LayerInv(depth, sure, a)'
<1>1. /\ Nodes' = Nodes /\ barrierTargets' = barrierTargets /\ settledSourceIds' = settledSourceIds
      /\ AllSettledJoins' = AllSettledJoins
      /\ \A n : Sources(n)' = Sources(n) /\ Incoming(n)' = Incoming(n) /\ Kind(n)' = Kind(n)
  BY PlanIsFixed, LayeringIsFixed, InputsAreFixed
<1>2. \A n : Ran(a, n)' <=> Ran(a, n)
  BY DEF Ran
<1>3. /\ inv'[a].phase = "marking" /\ inv'[a].step = inv[a].step /\ inv'[a].active = {} /\ inv'[a].mem = Saved(a)
  OBVIOUS
<1>4. InLayer(depth, a)' /\ SureHaveRun(depth, sure, a)' /\ EarlyBranches(depth, a)'
  BY <1>3 DEF InLayer, SureHaveRun, EarlyBranches, Running
<1>5. NoneDeeper(depth, a)'
  BY <1>1, <1>3 DEF LayerInv, NoneDeeper, Running
<1>6. LateBranches(depth, inv[a].mem.seen)'
  <2>1. LateBranches(depth, Saved(a).seen)
    BY NextLayer
  <2> QED
    BY <1>1, <1>3, <2>1 DEF LateBranches
<1>7. BranchesFirst(a)' /\ SeesBranches(a)'
  BY <1>1, <1>2 DEF LayerInv, BranchesFirst, SeesBranches, Entry, Outcome
<1>8. Remembered(a)'
  <2> SUFFICES ASSUME NEW n \in Nodes, Ran(a, n)'
               PROVE  Holds(a, n, inv[a].mem)'
    BY <1>1 DEF Remembered
  <2>1. Holds(a, n, Saved(a))
    BY <1>2, SavedHolds DEF LayerInv
  <2> QED
    BY <1>1, <1>3, <2>1 DEF Holds
<1> QED
  BY <1>4, <1>5, <1>6, <1>7, <1>8 DEF LayerInv

\* A sure node below the layer has a sure node in the next layer above it or is one.
LEMMA SureNodesAreDense ==
  ASSUME plan \in Plans, NEW depth \in Depths, NEW sure \in SUBSET Nodes, Layering(depth, sure),
         NEW k \in Nat, k >= 1, NEW n \in sure, depth[n] >= k + 1
  PROVE  \E t \in sure : depth[t] = k + 1
<1> DEFINE D == {depth[t] : t \in {u \in sure : depth[u] >= k + 1}}
<1>1. \A t \in Nodes : depth[t] \in Nat
  BY DEF Depths
<1>2. D \in SUBSET Nat /\ D # {}
  BY <1>1
<1>3. PICK d \in D : \A c \in D : d <= c
  <2> HIDE DEF D
  <2> QED
    BY <1>2, LeastExists
<1>4. PICK t \in sure : depth[t] = d /\ depth[t] >= k + 1
  BY <1>3
<1>5. \A s \in sure : depth[s] >= k + 1 => depth[t] <= depth[s]
  BY <1>3, <1>4
<1>6. \E s \in sure : depth[s] + 1 = depth[t]
  <2>1. t \notin Starts
    <3>1. depth[t] # 1
      BY <1>1, <1>4
    <3> QED
      BY <3>1 DEF Layering
  <2>2. CASE t \in barrierTargets
    BY <2>2 DEF Layering
  <2>3. CASE t \notin barrierTargets
    <3>1. PICK e \in Edges : e.to = t /\ e.from \in sure
      BY <2>1, <2>3 DEF Layering
    <3>2. depth[t] = depth[e.from] + 1
      BY <2>3, <3>1 DEF Layering
    <3> QED
      BY <3>1, <3>2
  <2> QED
    BY <2>2, <2>3
<1>7. PICK s \in sure : depth[s] + 1 = depth[t]
  BY <1>6
<1>8. ~(depth[s] >= k + 1)
  BY <1>1, <1>5, <1>7
<1>9. depth[t] = k + 1
  BY <1>1, <1>4, <1>7, <1>8
<1> QED
  BY <1>9

\* A node that is no output leads on, or a join it feeds waits in a deeper layer.
LEMMA OthersLeadOn ==
  ASSUME plan \in Plans, NEW depth \in Depths, NEW sure \in SUBSET Nodes, Layering(depth, sure), Concluding(depth),
         NEW n \in Nodes, Kind(n) # "output", NEW m
  PROVE  Targets(n, m) # {} \/ \E j \in barrierTargets : n \in Sources(j)
<1>1. CASE Controls(n) = {}
  <2>1. PICK e \in Edges : e.from = n
    BY <1>1 DEF Concluding, Outgoing
  <2>2. CASE e.to \in barrierTargets
    <3>1. e.kind # "control"
      BY <2>1, <2>2 DEF Layering, barrierTargets
    <3> QED
      BY <2>1, <2>2, <3>1 DEF Sources
  <2>3. CASE e.to \notin barrierTargets
    <3>1. e.to \in Targets(n, m)
      BY <1>1, <2>1, <2>3 DEF Targets, Outgoing
    <3> QED
      BY <3>1
  <2> QED
    BY <2>2, <2>3
<1>2. CASE Controls(n) # {}
  <2> DEFINE hits == {i \in DOMAIN plan.edges : plan.edges[i] \in Controls(n) /\ Matches(n, plan.edges[i], m)}
  <2>1. PICK e \in Controls(n) : e.condition.op = "always"
    BY <1>2 DEF Concluding
  <2>2. PICK i \in DOMAIN plan.edges : plan.edges[i] = e
    BY <2>1 DEF Controls, Outgoing, Edges
  <2>3. Matches(n, e, m)
    BY <2>1 DEF Matches, evaluateCondition
  <2>4. i \in hits
    BY <2>1, <2>2, <2>3
  <2>5. Targets(n, m) = {plan.edges[Min(hits)].to}
    <3>1. hits # {}
      BY <2>4
    <3> QED
      BY <1>2, <3>1 DEF Targets, routeFor
  <2> QED
    BY <2>5
<1> QED
  BY <1>1, <1>2

\* Where nothing follows, the superstep ran the plan's outputs; one of them, as they conflict.
LEMMA NothingFollows ==
  ASSUME GraphInv, NEW depth \in Depths, NEW sure \in SUBSET Nodes, Layering(depth, sure), Concluding(depth),
         NEW a \in Attempts, LayerInv(depth, sure, a), Running(a), inv[a].active = Returned(a) \cup Settled(a),
         ~Conflicts(a), Following(a) = {}
  PROVE  \E n \in Nodes : /\ Kind(n) = "output" /\ task[a][n].stage = "done" /\ task[a][n].value = Saved(a).output
                          /\ \A k \in Nodes : Kind(k) = "output" /\ k # n => task[a][k].stage = "none"
<1> DEFINE step == inv[a].step
           active == inv[a].active
<1>1. /\ plan \in Plans /\ step \in Nat /\ step >= 1 /\ active # {}
      /\ \A n \in active : n \in Nodes /\ depth[n] = step
      /\ \A n \in Nodes : depth[n] \in Nat
  BY DEF GraphInv, GraphShape, AttemptInv, TasksAreActive, InvocationShape, LayerInv, InLayer, Depths
<1>2. \A t \in sure : depth[t] # step + 1
  BY NextLayer
<1>3. \A t \in sure : ~(depth[t] >= step + 1)
  <2> HIDE DEF step
  <2> QED
    BY <1>1, <1>2, SureNodesAreDense
<1>4. \A j \in barrierTargets : \A s \in Sources(j) : s \notin active
  <2> SUFFICES ASSUME NEW j \in barrierTargets, NEW s \in Sources(j), s \in active PROVE FALSE
    OBVIOUS
  <2>1. depth[s] = step /\ depth[s] < depth[j] /\ j \in Nodes
    BY <1>1 DEF Layering, barrierTargets
  <2>2. CASE depth[j] = step + 1
    <3>1. \A t \in Sources(j) : t \in sure /\ t \in Nodes /\ depth[t] < step + 1
      BY <2>2 DEF Layering
    <3>2. \A t \in Sources(j) : <<t, j>> \in Seen(a)
      <4> SUFFICES ASSUME NEW t \in Sources(j) PROVE <<t, j>> \in Seen(a)
        OBVIOUS
      <4>1. CASE depth[t] = step
        <5>1. t \in active
          BY <3>1, <4>1 DEF LayerInv, SureHaveRun
        <5> QED
          BY <5>1 DEF Seen
      <4>2. CASE depth[t] < step
        <5>1. step < depth[j]
          BY <1>1, <2>1
        <5>2. <<t, j>> \in inv[a].mem.seen
          BY <4>2, <5>1 DEF LayerInv, EarlyBranches
        <5> QED
          BY <5>2 DEF Seen
      <4> QED
        BY <1>1, <3>1, <4>1, <4>2
    <3>3. j \in Released(a)
      BY <3>2 DEF Released
    <3> QED
      BY <3>3, FollowingIs
  <2>3. CASE depth[j] # step + 1
    <3>1. PICK t \in Sources(j) : t \in sure /\ depth[t] + 1 = depth[j]
      BY DEF Layering
    <3>2. t \in Nodes /\ depth[t] >= step + 1
      BY <1>1, <2>1, <2>3, <3>1
    <3> QED
      BY <1>3, <3>1, <3>2
  <2> QED
    BY <2>2, <2>3
<1>5. \A n \in active : Kind(n) = "output"
  <2> SUFFICES ASSUME NEW n \in active, Kind(n) # "output" PROVE FALSE
    OBVIOUS
  <2> DEFINE m == Written(a, {n}, inv[a].mem)
  <2>1. Targets(n, m) # {}
    <3> HIDE DEF m
    <3> QED
      BY <1>1, <1>4, OthersLeadOn
  <2>2. PICK t \in Targets(n, m) : TRUE
    BY <2>1
  <2>3. t \in Following(a)
    BY <2>2, FollowingIs
  <2> QED
    BY <2>3
<1>6. PICK n \in active : TRUE
  BY <1>1
<1>7. n \in Nodes /\ Kind(n) = "output"
  BY <1>1, <1>5
<1>8. n \in Returned(a)
  <2>1. n \notin settledSourceIds
    <3>1. Outgoing(n) = {}
      BY <1>7 DEF Concluding
    <3> QED
      BY <3>1 DEF settledSourceIds, Outgoing
  <2>2. n \notin Settled(a)
    BY <1>7, <2>1 DEF Settled, GraphInv, AttemptInv, TasksLeaveRecords
  <2> QED
    BY <2>2
<1>9. \A k \in Returned(a) : k \in active /\ k = n
  BY <1>5, <1>7, <1>8 DEF Conflicts, Returned
<1>10. Saved(a).output = task[a][n].value
  <2> DEFINE done == active \cap Returned(a)
             outputs == {k \in done : Kind(k) = "output"}
  <2>1. outputs = {n}
    BY <1>7, <1>8, <1>9
  <2>2. Saved(a).output = IF outputs = {} THEN inv[a].mem.output ELSE task[a][CHOOSE k \in outputs : TRUE].value
    BY DEF Saved, Written
  <2> HIDE DEF outputs
  <2> QED
    BY <2>1, <2>2
<1>11. ASSUME NEW k \in Nodes, Kind(k) = "output", k # n
       PROVE  task[a][k].stage = "none"
  <2>1. depth[k] = step
    BY <1>1, <1>7, <1>11 DEF Concluding
  <2>2. k \notin active
    <3> SUFFICES ASSUME k \in active PROVE FALSE
      OBVIOUS
    <3>1. k \notin Returned(a)
      BY <1>9, <1>11
    <3>2. k \in settledSourceIds
      BY <1>11, <3>1 DEF Settled, GraphInv, AttemptInv, TasksLeaveRecords
    <3>3. Outgoing(k) = {}
      BY <1>11 DEF Concluding
    <3> QED
      BY <3>2, <3>3 DEF settledSourceIds, Outgoing
  <2> QED
    BY <2>1, <2>2 DEF LayerInv, NoneDeeper
<1> QED
  BY <1>7, <1>8, <1>10, <1>11 DEF Returned

\* Steps after which every attempt still has its layers, for one layering of the plan.
LEMMA EndSuperstepKeepsLayers ==
  ASSUME GraphInv, NEW depth \in Depths, NEW sure \in SUBSET Nodes, Layering(depth, sure),
         NEW a \in Attempts, EndSuperstep(a), LateBranches(depth, thread.seen),
         \A b \in Attempts : LayerInv(depth, sure, b),
         Concluding(depth) => \A b \in Attempts : OneOutput(b)
  PROVE  /\ LateBranches(depth, thread.seen)' /\ \A b \in Attempts : LayerInv(depth, sure, b)'
         /\ Concluding(depth) => \A b \in Attempts : OneOutput(b)'
<1>1. /\ Running(a) /\ inv[a].active = Returned(a) \cup Settled(a) /\ UNCHANGED <<plan, journal, receipts, answer, faults>>
      /\ GraphShape
  BY SuperstepEnds DEF GraphInv
<1>2. LateBranches(depth, thread.seen)'
  <2>1. LateBranches(depth, Saved(a).seen)
    BY <1>1, NextLayer
  <2>2. thread' = thread \/ thread' = Saved(a)
    BY <1>1, SuperstepEnds
  <2>3. barrierTargets' = barrierTargets /\ \A n : Sources(n)' = Sources(n)
    BY <1>1, PlanIsFixed, LayeringIsFixed
  <2> QED
    BY <2>1, <2>2, <2>3 DEF LateBranches
<1>3. CASE Finish(a, "failed") /\ UNCHANGED task
  <2>1. Quiet
    BY <1>1, <1>3, FinishIsQuiet DEF Phases
  <2> QED
    BY <1>2, <2>1, LayersKept, OutputKept DEF Quiet
<1>4. CASE /\ ~Conflicts(a) /\ Following(a) = {}
           /\ inv' = [b \in Attempts |-> IF b # a THEN inv[b]
                        ELSE [phase |-> "marking", step |-> inv[a].step, active |-> {}, mem |-> Saved(a),
                              aborted |-> inv[a].aborted]]
           /\ UNCHANGED <<task, host>>
  <2>1. inv'[a] = [phase |-> "marking", step |-> inv[a].step, active |-> {}, mem |-> Saved(a), aborted |-> inv[a].aborted]
    BY <1>4
  <2>2. \A b \in Attempts \ {a} : inv'[b] = inv[b]
    BY <1>4
  <2>3. LayerInv(depth, sure, a)'
    BY <1>1, <1>4, <2>1, MarkingKeepsLayers
  <2>4. \A b \in Attempts \ {a} : LayerInv(depth, sure, b)'
    BY <1>1, <1>4, <2>2, LayersKept
  <2>5. ASSUME Concluding(depth)
        PROVE  \A b \in Attempts : OneOutput(b)'
    <3>1. OneOutput(a)'
      <4>1. \E n \in Nodes : /\ Kind(n) = "output" /\ task[a][n].stage = "done" /\ task[a][n].value = Saved(a).output
                             /\ \A k \in Nodes : Kind(k) = "output" /\ k # n => task[a][k].stage = "none"
        BY <1>1, <1>4, <2>5, NothingFollows
      <4>2. Nodes' = Nodes /\ (\A k : Kind(k)' = Kind(k)) /\ task' = task /\ inv'[a].mem = Saved(a)
        BY <1>1, <1>4, <2>1, PlanIsFixed, InputsAreFixed
      <4> QED
        BY <4>1, <4>2 DEF OneOutput
    <3>2. \A b \in Attempts \ {a} : OneOutput(b)'
      BY <1>1, <1>4, <2>2, <2>5, OutputKept
    <3> QED
      BY <3>1, <3>2
  <2> QED
    BY <1>2, <2>3, <2>4, <2>5
<1>5. CASE /\ Following(a) # {}
           /\ inv' = [b \in Attempts |-> IF b # a THEN inv[b]
                        ELSE [phase |-> "running", step |-> inv[a].step + 1, active |-> Following(a),
                              mem |-> Saved(a), aborted |-> inv[a].aborted]]
           /\ task' = Tasks(a, Following(a)) /\ UNCHANGED host
  <2>1. NextSuperstep(a, inv[a].step + 1, Following(a), Saved(a), inv[a].aborted)
    <3>1. \A n \in Nodes : task[a][n].stage \in {"none", "done", "settled"}
      BY <1>1, TasksAreOver
    <3>2. host[a] # "failed" /\ Lowers
      BY <1>1 DEF GraphInv, AttemptInv, HostFollows, TasksAreActive, Running
    <3>3. inv[a].step + 1 \in Nat \ {0} /\ inv[a].aborted \in BOOLEAN
      BY <1>1 DEF GraphShape, InvocationShape
    <3> QED
      BY <1>1, <1>5, <3>1, <3>2, <3>3 DEF NextSuperstep, GraphShape
  <2>2. /\ inv'[a].phase = "running"
        /\ \A b \in Attempts \ {a} : inv'[b] = inv[b] /\ task'[b] = task[b]
    BY <1>1, <1>5, TasksFrame
  <2>3. LayerInv(depth, sure, a)'
    BY <1>1, <2>1, AdvanceKeepsLayers
  <2>4. \A b \in Attempts \ {a} : LayerInv(depth, sure, b)'
    BY <1>1, <2>2, LayersKept
  <2>5. ASSUME Concluding(depth)
        PROVE  \A b \in Attempts : OneOutput(b)'
    <3>1. OneOutput(a)'
      BY <2>2 DEF OneOutput
    <3>2. \A b \in Attempts \ {a} : OneOutput(b)'
      BY <1>1, <2>2, <2>5, OutputKept
    <3> QED
      BY <3>1, <3>2
  <2> QED
    BY <1>2, <2>3, <2>4, <2>5
<1> QED
  BY <1>1, <1>3, <1>4, <1>5, SuperstepEnds

LEMMA InvokeKeepsAllLayers ==
  ASSUME GraphInv, NEW depth \in Depths, NEW sure \in SUBSET Nodes, Layering(depth, sure),
         NEW a \in Attempts, Invoke(a), LateBranches(depth, thread.seen),
         \A b \in Attempts : LayerInv(depth, sure, b),
         Concluding(depth) => \A b \in Attempts : OneOutput(b)
  PROVE  /\ LateBranches(depth, thread.seen)' /\ \A b \in Attempts : LayerInv(depth, sure, b)'
         /\ Concluding(depth) => \A b \in Attempts : OneOutput(b)'
<1>1. plan' = plan /\ thread' = thread /\ task' = Tasks(a, Starts) /\ GraphShape
  BY DEF Invoke, GraphInv
<1>2. /\ inv'[a].phase = "running"
      /\ \A b \in Attempts \ {a} : inv'[b] = inv[b] /\ task'[b] = task[b]
  BY <1>1, InvokeIsNextSuperstep, TasksFrame DEF NextSuperstep
<1>3. LateBranches(depth, thread.seen)'
  BY <1>1, PlanIsFixed, LayeringIsFixed DEF LateBranches
<1>4. LayerInv(depth, sure, a)'
  BY InvokeKeepsLayers
<1>5. \A b \in Attempts \ {a} : LayerInv(depth, sure, b)'
  BY <1>1, <1>2, LayersKept
<1>6. ASSUME Concluding(depth)
      PROVE  \A b \in Attempts : OneOutput(b)'
  <2>1. OneOutput(a)'
    BY <1>2 DEF OneOutput
  <2>2. \A b \in Attempts \ {a} : OneOutput(b)'
    BY <1>1, <1>2, <1>6, OutputKept
  <2> QED
    BY <2>1, <2>2
<1> QED
  BY <1>3, <1>4, <1>5, <1>6

LEMMA InitLayersInv == Init => LayersInv
<1> SUFFICES ASSUME Init PROVE LayersInv
  OBVIOUS
<1>1. thread.seen = {}
  BY DEF Init, Channels
<1>2. ASSUME NEW a \in Attempts
      PROVE  /\ inv[a].phase = "none" /\ inv[a].active = {} /\ inv[a].mem.seen = {}
             /\ \A n \in Nodes : task[a][n].stage = "none"
  BY DEF Init, Idle, Channels, NoTask
<1>3. ASSUME NEW depth, NEW sure, NEW a \in Attempts
      PROVE  LayerInv(depth, sure, a) /\ OneOutput(a)
  BY <1>2 DEF LayerInv, InLayer, NoneDeeper, SureHaveRun, LateBranches, EarlyBranches, BranchesFirst, Remembered,
              SeesBranches, OneOutput, Running, Ran
<1>4. \A depth : LateBranches(depth, thread.seen)
  BY <1>1 DEF LateBranches
<1> QED
  BY <1>3, <1>4 DEF LayersInv

LEMMA NextLayersInv == GraphInv /\ LayersInv /\ [Next]_vars => LayersInv'
<1> SUFFICES ASSUME GraphInv, LayersInv, [Next]_vars PROVE LayersInv'
  OBVIOUS
<1>1. plan' = plan
  <2>1. \A a : Invoke(a) \/ Refuse(a) \/ GraphFails(a) \/ Stop(a) \/ MarkCheckpoint(a) \/ Respond(a) => plan' = plan
    BY DEF Invoke, Refuse, GraphFails, Stop, MarkCheckpoint, Respond
  <2>2. \A a : Cancel(a) \/ Forget(a) \/ EndSuperstep(a) => plan' = plan
    BY DEF Cancel, Forget, EndSuperstep
  <2>3. \A a, n : StartNode(a, n) \/ Execute(a, n) \/ CompleteNode(a, n) \/ FailNode(a, n) => plan' = plan
    BY DEF StartNode, Execute, CompleteNode, FailNode
  <2> QED
    BY <2>1, <2>2, <2>3 DEF Next, vars
<1>2. /\ Nodes' = Nodes /\ Depths' = Depths /\ \A depth, sure : Layering(depth, sure)' = Layering(depth, sure)
      /\ \A depth : Concluding(depth)' = Concluding(depth)
  BY <1>1, PlanIsFixed, LayeringIsFixed
<1> SUFFICES ASSUME NEW depth \in Depths, NEW sure \in SUBSET Nodes, Layering(depth, sure)
             PROVE  /\ LateBranches(depth, thread.seen)' /\ \A b \in Attempts : LayerInv(depth, sure, b)'
                    /\ Concluding(depth) => \A b \in Attempts : OneOutput(b)'
  BY <1>2 DEF LayersInv
<1>3. /\ LateBranches(depth, thread.seen) /\ \A b \in Attempts : LayerInv(depth, sure, b)
      /\ Concluding(depth) => \A b \in Attempts : OneOutput(b)
  BY DEF LayersInv
<1>4. ASSUME Quiet, thread' = thread
      PROVE  /\ LateBranches(depth, thread.seen)' /\ \A b \in Attempts : LayerInv(depth, sure, b)'
             /\ Concluding(depth) => \A b \in Attempts : OneOutput(b)'
  <2>1. LateBranches(depth, thread.seen)'
    BY <1>1, <1>3, <1>4, PlanIsFixed, LayeringIsFixed DEF LateBranches
  <2> QED
    BY <1>3, <1>4, <2>1, LayersKept, OutputKept DEF Quiet
<1>5. CASE UNCHANGED vars
  <2>1. Quiet /\ thread' = thread
    BY <1>5 DEF vars, Quiet
  <2> QED
    BY <1>4, <2>1
<1>6. ASSUME NEW a \in Attempts, NEW n \in Nodes,
             StartNode(a, n) \/ Execute(a, n) \/ CompleteNode(a, n) \/ FailNode(a, n)
      PROVE  /\ LateBranches(depth, thread.seen)' /\ \A b \in Attempts : LayerInv(depth, sure, b)'
             /\ Concluding(depth) => \A b \in Attempts : OneOutput(b)'
  <2>1. TaskMove(a, n)
    BY <1>6, StartMoves, ExecuteMoves, CompleteMoves, FailMoves DEF GraphInv
  <2>2. thread' = thread /\ inv' = inv /\ \A b \in Attempts \ {a} : task'[b] = task[b]
    <3>1. \A b \in Attempts \ {a}, k \in Nodes : task'[b][k] = task[b][k]
      BY <2>1 DEF TaskMove
    <3>2. \A b \in Attempts : task'[b] = [k \in Nodes |-> task'[b][k]] /\ task[b] = [k \in Nodes |-> task[b][k]]
      BY <2>1 DEF TaskMove, GraphInv, GraphShape
    <3>3. \A b \in Attempts \ {a} : [k \in Nodes |-> task'[b][k]] = [k \in Nodes |-> task[b][k]]
      BY <3>1
    <3> QED
      BY <2>1, <3>2, <3>3 DEF TaskMove
  <2>3. LateBranches(depth, thread.seen)'
    BY <1>1, <1>3, <2>2, PlanIsFixed, LayeringIsFixed DEF LateBranches
  <2>4. LayerInv(depth, sure, a)'
    BY <1>3, <2>1, TaskMoveKeepsLayers
  <2>5. \A b \in Attempts \ {a} : LayerInv(depth, sure, b)'
    BY <1>1, <1>3, <2>2, LayersKept
  <2>6. Concluding(depth) => \A b \in Attempts : OneOutput(b)'
    BY <1>3, <2>1, TaskMoveKeepsOutput
  <2> QED
    BY <2>3, <2>4, <2>5, <2>6
<1>7. ASSUME NEW a \in Attempts,
             \/ Refuse(a) \/ GraphFails(a) \/ Stop(a) \/ MarkCheckpoint(a) \/ Respond(a) \/ Cancel(a) \/ Forget(a)
      PROVE  /\ LateBranches(depth, thread.seen)' /\ \A b \in Attempts : LayerInv(depth, sure, b)'
             /\ Concluding(depth) => \A b \in Attempts : OneOutput(b)'
  BY <1>4, <1>7, ControlStepsAreQuiet
<1>8. CASE Next
  BY <1>3, <1>6, <1>7, <1>8, InvokeKeepsAllLayers, EndSuperstepKeepsLayers DEF Next
<1> QED
  BY <1>5, <1>8

-----------------------------------------------------------------------------
(* The theorems about layered plans *)

\* In every plan that runs in layers, each layer's nodes run in their superstep, a join runs
\* after its branches and finds in the channels what they left in this very attempt.
THEOREM LayersInvariance == Spec => []LayersInv
<1>1. Init => LayersInv
  BY InitLayersInv
<1>2. GraphInv /\ LayersInv /\ [Next]_vars => LayersInv'
  BY NextLayersInv
<1> QED
  BY <1>1, <1>2, GraphInvariance, PTL DEF Spec

\* A join of a layered plan reads what each of its branches did in the same attempt, whatever
\* was retried, settled or left in the thread before (addEdge(sources, join), allSettledInput).
THEOREM JoinsSeeTheirBranches == Spec => [](Layered => JoinSeesEveryBranch)
<1>1. LayersInv => (Layered => JoinSeesEveryBranch)
  BY DEF LayersInv, LayerInv, Layered, SeesBranches, JoinSeesEveryBranch
<1> QED
  BY <1>1, LayersInvariance, PTL

\* In any plan, a completed run has journaled every node it started as completed, or a join
\* of all settled branches answers for it (executeObservedNode, settledSourceIds).
CompletedNodesAreJournaled ==
  \A a \in Attempts : inv[a].phase = "completed" =>
    \A n \in Nodes : task[a][n].stage # "none" =>
      journal[a][n] = "completed" \/ \E e \in Outgoing(n) : e.to \in AllSettledJoins

LEMMA JournalIsWhole == GraphInv => CompletedNodesAreJournaled
<1> SUFFICES ASSUME GraphInv, NEW a \in Attempts, inv[a].phase = "completed",
                    NEW n \in Nodes, task[a][n].stage # "none"
             PROVE  journal[a][n] = "completed" \/ \E e \in Outgoing(n) : e.to \in AllSettledJoins
  BY DEF CompletedNodesAreJournaled
<1>1. task[a][n].stage \in Stages /\ AttemptInv(a)
  BY DEF GraphInv, GraphShape, TaskShape
<1>2. task[a][n].stage \in {"done", "settled"}
  BY <1>1 DEF Stages, AttemptInv, TasksAreActive
<1>3. n \in settledSourceIds => \E e \in Outgoing(n) : e.to \in AllSettledJoins
  BY DEF settledSourceIds, Outgoing
<1> QED
  BY <1>1, <1>2, <1>3 DEF AttemptInv, TasksLeaveRecords

\* A completed run leaves no hole in the journal, whatever the plan.
THEOREM JournalsAreWhole == Spec => []CompletedNodesAreJournaled
BY JournalIsWhole, GraphInvariance, PTL

\* A completed run of a plan layered to its end has, besides, run exactly one output node,
\* whose value is the run's output.
THEOREM CompletedRunsAreWhole == Spec => [](LayeredToTheEnd => CompletedRunIsWhole)
<1>1. GraphInv /\ LayersInv => (LayeredToTheEnd => CompletedRunIsWhole)
  BY JournalIsWhole DEF LayersInv, OneOutput, LayeredToTheEnd, CompletedRunIsWhole, CompletedNodesAreJournaled
<1> QED
  BY <1>1, GraphInvariance, LayersInvariance, PTL

-----------------------------------------------------------------------------
(* What the values mean *)

\* s is a sequence.
Listed(s) == Len(s) \in Nat /\ DOMAIN s = 1 .. Len(s)

\* The comparator orders the items: equal to themselves, and the same whichever comes first.
Comparable(xs, path) ==
  LET compare(i, j) == Compare(getPath(xs[i], path), getPath(xs[j], path)) IN
  /\ \A i, j \in DOMAIN xs : compare(i, j) = -compare(j, i)
  /\ \A i, j, k \in DOMAIN xs : compare(i, j) <= 0 /\ compare(j, k) <= 0 => compare(i, k) <= 0

\* Something comes for a first time.
LEMMA FirstExists ==
  ASSUME NEW s, Listed(s), NEW i \in DOMAIN s
  PROVE  \E f \in Firsts(s) : s[f] = s[i]
<1> DEFINE T == {k \in DOMAIN s : s[k] = s[i]}
<1>1. T \in SUBSET Nat /\ T # {}
  BY DEF Listed
<1>2. PICK f \in T : \A k \in T : f <= k
  <2> HIDE DEF T
  <2> QED
    BY <1>1, LeastExists
<1>3. \A k \in 1 .. (f - 1) : s[k] # s[f]
  <2> SUFFICES ASSUME NEW k \in 1 .. (f - 1), s[k] = s[f] PROVE FALSE
    OBVIOUS
  <2>1. k \in T /\ ~(f <= k)
    BY <1>2 DEF Listed
  <2> QED
    BY <1>2, <2>1
<1> QED
  BY <1>2, <1>3 DEF Firsts

\* A vote returns a ballot that no other outnumbers.
LEMMA VoteElects ==
  ASSUME NEW xs, Listed(xs), NEW path, NEW i \in DOMAIN xs
  PROVE  Votes(xs, path, OrNull(getPath(xs[i], path))) <= Votes(xs, path, vote(xs, path))
<1> DEFINE ballots == [k \in DOMAIN xs |-> Ballot(xs, path, k)]
           first == Firsts(ballots)
           best(k) == \A j \in first : k = j \/ preferred(xs, path, k, j)
           won == CHOOSE k \in first : best(k)
<1>1. Listed(ballots) /\ DOMAIN ballots = DOMAIN xs
  <2>1. ballots \in Seq({Ballot(xs, path, k) : k \in DOMAIN xs}) /\ DOMAIN ballots = 1 .. Len(xs)
    BY DEF Listed
  <2> QED
    BY <2>1 DEF Listed
<1>2. first \subseteq DOMAIN xs /\ DOMAIN xs \in SUBSET Nat /\ IsFiniteSet(DOMAIN xs)
  <2>1. DOMAIN xs = 1 .. Len(xs) /\ Len(xs) \in Nat
    BY DEF Listed
  <2>2. IsFiniteSet(1 .. Len(xs))
    BY <2>1, FS_Interval
  <2> QED
    BY <1>1, <2>1, <2>2 DEF Firsts
<1>3. \A k \in DOMAIN xs : Count(xs, path, k) \in 0 .. Cardinality(DOMAIN xs)
  <2> SUFFICES ASSUME NEW k \in DOMAIN xs PROVE Count(xs, path, k) \in 0 .. Cardinality(DOMAIN xs)
    OBVIOUS
  <2> DEFINE same == {j \in DOMAIN xs : Ballot(xs, path, j) = Ballot(xs, path, k)}
  <2>1. IsFiniteSet(same) /\ Cardinality(same) <= Cardinality(DOMAIN xs)
    BY <1>2, FS_Subset
  <2>2. Cardinality(same) \in Nat /\ Cardinality(DOMAIN xs) \in Nat
    BY <1>2, <2>1, FS_CardinalityType
  <2>3. Count(xs, path, k) = Cardinality(same)
    BY DEF Count
  <2> HIDE DEF same
  <2> QED
    BY <2>1, <2>2, <2>3
<1>4. \A k \in DOMAIN xs : \E f \in first : Ballot(xs, path, f) = Ballot(xs, path, k)
  <2> SUFFICES ASSUME NEW k \in DOMAIN xs PROVE \E f \in first : Ballot(xs, path, f) = Ballot(xs, path, k)
    OBVIOUS
  <2>1. PICK f \in first : ballots[f] = ballots[k]
    <3> HIDE DEF ballots
    <3> QED
      BY <1>1, FirstExists
  <2> QED
    BY <1>2, <2>1
<1> HIDE DEF first
<1>5. \E k \in first : best(k)
  <2> DEFINE counts == {Count(xs, path, k) : k \in first}
  <2>1. counts \subseteq 0 .. Cardinality(DOMAIN xs) /\ counts # {} /\ Cardinality(DOMAIN xs) \in Nat
    BY <1>2, <1>3, <1>4, FS_CardinalityType
  <2>2. PICK m \in counts : \A n \in counts : n <= m
    <3> HIDE DEF counts
    <3> QED
      BY <2>1, GreatestExists
  <2> DEFINE top == {k \in first : Count(xs, path, k) = m}
  <2>3. top \in SUBSET Nat /\ top # {}
    BY <1>2, <2>2
  <2>4. PICK k \in top : \A j \in top : k <= j
    <3> HIDE DEF top
    <3> QED
      BY <2>3, LeastExists
  <2>5. ASSUME NEW j \in first
        PROVE  preferred(xs, path, k, j)
    <3>1. Count(xs, path, j) <= m /\ Count(xs, path, k) = m /\ Count(xs, path, j) \in Nat /\ m \in Nat
      BY <1>2, <1>3, <2>2
    <3>2. Count(xs, path, j) = m => k <= j
      BY <2>4
    <3> QED
      BY <3>1, <3>2 DEF preferred
  <2> QED
    BY <2>5
<1>6. won \in first /\ best(won)
  <2> HIDE DEF best
  <2> QED
    BY <1>5
<1>7. vote(xs, path) = OrNull(getPath(xs[won], path))
  <2>1. xs # <<>>
    BY DEF Listed
  <2> QED
    BY <2>1 DEF vote, first
<1> HIDE DEF won
<1>8. \A k \in DOMAIN xs : Votes(xs, path, OrNull(getPath(xs[k], path))) = Count(xs, path, k)
  BY DEF Votes, Count, Ballot
<1>9. PICK f \in first : Ballot(xs, path, f) = Ballot(xs, path, i)
  BY <1>4
<1>10. Count(xs, path, f) = Count(xs, path, i)
  BY <1>9 DEF Count
<1>11. Count(xs, path, f) <= Count(xs, path, won)
  <2>1. Count(xs, path, f) \in Nat /\ Count(xs, path, won) \in Nat
    BY <1>2, <1>3, <1>6
  <2>2. won = f \/ preferred(xs, path, won, f)
    BY <1>6
  <2> QED
    BY <2>1, <2>2 DEF preferred
<1> QED
  BY <1>2, <1>6, <1>7, <1>8, <1>10, <1>11

\* A deduplication keeps one item of every key.
LEMMA DeduplicateKeepsOne ==
  ASSUME NEW xs, Listed(xs), NEW path, NEW i \in DOMAIN xs
  PROVE  Votes(deduplicate(xs, path), path, OrNull(getPath(xs[i], path))) = 1
<1> DEFINE key(x) == stableDigest(OrNull(getPath(x, path)))
           keys == [k \in DOMAIN xs |-> key(xs[k])]
           I == Firsts(keys)
           q == Subsequence(xs, I)
<1>1. Listed(keys) /\ DOMAIN keys = DOMAIN xs
  <2>1. keys \in Seq({key(xs[k]) : k \in DOMAIN xs}) /\ DOMAIN keys = 1 .. Len(xs)
    BY DEF Listed
  <2> QED
    BY <2>1 DEF Listed
<1>2. I \subseteq DOMAIN xs /\ DOMAIN xs = 1 .. Len(xs) /\ Len(xs) \in Nat
  BY <1>1 DEF Firsts, Listed
<1>3. I \in SUBSET Nat /\ IsFiniteSet(I)
  <2>1. IsFiniteSet(1 .. Len(xs)) /\ 1 .. Len(xs) \subseteq Nat
    BY <1>2, FS_Interval
  <2> HIDE DEF I
  <2> QED
    BY <1>2, <2>1, FS_Subset
<1>4. \A j, k \in I : key(xs[j]) = key(xs[k]) => j = k
  <2> SUFFICES ASSUME NEW j \in I, NEW k \in I, key(xs[j]) = key(xs[k]) PROVE j = k
    OBVIOUS
  <2>1. j \in Nat /\ k \in Nat /\ j >= 1 /\ k >= 1 /\ keys[j] = keys[k]
    BY <1>2
  <2>2. (\A l \in 1 .. (j - 1) : keys[l] # keys[j]) /\ (\A l \in 1 .. (k - 1) : keys[l] # keys[k])
    BY DEF Firsts
  <2>3. ~(j < k) /\ ~(k < j)
    <3> HIDE DEF keys
    <3> QED
      BY <2>1, <2>2
  <2> QED
    BY <2>1, <2>3
<1>5. PICK f \in I : key(xs[f]) = key(xs[i])
  <2>1. PICK f \in I : keys[f] = keys[i]
    <3> HIDE DEF keys
    <3> QED
      BY <1>1, FirstExists
  <2> QED
    BY <1>2, <2>1
<1> HIDE DEF I, keys
<1>6. /\ \A j \in I : Rank(I, j) \in DOMAIN q /\ q[Rank(I, j)] = xs[j]
      /\ \A k \in DOMAIN q : \E j \in I : Rank(I, j) = k /\ q[k] = xs[j]
  <2> HIDE DEF q
  <2> QED
    BY <1>3, SubsequencePicks DEF q
<1>7. deduplicate(xs, path) = q
  BY DEF deduplicate, I, keys
<1> HIDE DEF q
<1>8. {k \in DOMAIN q : key(q[k]) = key(xs[i])} = {Rank(I, f)}
  <2>1. Rank(I, f) \in DOMAIN q /\ key(q[Rank(I, f)]) = key(xs[i])
    BY <1>5, <1>6
  <2>2. ASSUME NEW k \in DOMAIN q, key(q[k]) = key(xs[i])
        PROVE  k = Rank(I, f)
    <3>1. PICK j \in I : Rank(I, j) = k /\ q[k] = xs[j]
      BY <1>6
    <3>2. j = f
      BY <1>4, <1>5, <2>2, <3>1
    <3> QED
      BY <3>1, <3>2
  <2> HIDE DEF key
  <2> QED
    BY <2>1, <2>2
<1>9. Votes(q, path, OrNull(getPath(xs[i], path))) = Cardinality({k \in DOMAIN q : key(q[k]) = key(xs[i])})
  BY DEF Votes
<1> QED
  BY <1>7, <1>8, <1>9, FS_Singleton

\* A sort returns its input's items, none before one the direction puts first, equal ones in
\* their old order.
LEMMA SortSorts ==
  ASSUME NEW xs, Listed(xs), NEW path, Comparable(xs, path), NEW direction \in {-1, 1}
  PROVE  \E p \in Bijection(DOMAIN xs, DOMAIN xs) :
           /\ sort(xs, path, direction) = [i \in DOMAIN xs |-> xs[p[i]]]
           /\ \A i, j \in DOMAIN xs : i < j =>
                LET d == Compare(getPath(xs[p[i]], path), getPath(xs[p[j]], path))
                IN IF d = 0 THEN p[i] < p[j] ELSE (d < 0) = (direction = 1)
<1> DEFINE S == DOMAIN xs
           c(i, j) == Compare(getPath(xs[i], path), getPath(xs[j], path))
           order(i, j) == c(i, j) * direction
           R == {r \in S \X S : order(r[1], r[2]) < 0 \/ (order(r[1], r[2]) = 0 /\ r[1] <= r[2])}
           p == [k \in S |-> CHOOSE i \in S : Place(S, R, i) = k]
<1>1. \A i, j \in S : c(i, j) \in {-1, 0, 1}
  BY DEF Compare
<1>2. /\ \A i, j \in S : c(i, j) = -c(j, i)
      /\ \A i, j, k \in S : c(i, j) <= 0 /\ c(j, k) <= 0 => c(i, k) <= 0
  BY DEF Comparable
<1>3. S = 1 .. Len(xs) /\ Len(xs) \in Nat
  BY DEF Listed
<1>4. IsFiniteSet(S) /\ Cardinality(S) = Len(xs) /\ \A i \in S : i \in Nat
  <2>1. \A n \in Nat : IsFiniteSet(1 .. n) /\ Cardinality(1 .. n) = n
    BY FS_Interval
  <2> QED
    BY <1>3, <2>1
<1> HIDE DEF S, c
<1>5. \A i, j \in S : <<i, j>> \in R <=> order(i, j) < 0 \/ (order(i, j) = 0 /\ i <= j)
  OBVIOUS
<1>6. /\ \A i, j \in S : order(i, j) \in {-1, 0, 1} /\ order(i, j) = -order(j, i)
      /\ \A i, j, k \in S : order(i, j) <= 0 /\ order(j, k) <= 0 => order(i, k) <= 0
  <2>1. \A i, j \in S : order(i, j) = IF direction = 1 THEN c(i, j) ELSE -c(i, j)
    BY <1>1
  <2>2. \A i, j \in S : order(i, j) \in {-1, 0, 1} /\ order(i, j) = -order(j, i)
    <3> HIDE DEF order
    <3> QED
      BY <1>1, <1>2, <2>1
  <2>3. ASSUME NEW i \in S, NEW j \in S, NEW k \in S, order(i, j) <= 0, order(j, k) <= 0
        PROVE  order(i, k) <= 0
    <3>1. c(i, k) = -c(k, i) /\ c(i, j) = -c(j, i) /\ c(j, k) = -c(k, j)
      BY <1>2
    <3>2. /\ c(i, k) \in {-1, 0, 1} /\ c(k, i) \in {-1, 0, 1} /\ c(i, j) \in {-1, 0, 1}
          /\ c(j, i) \in {-1, 0, 1} /\ c(j, k) \in {-1, 0, 1} /\ c(k, j) \in {-1, 0, 1}
      BY <1>1
    <3>3. (c(i, j) <= 0 /\ c(j, k) <= 0 => c(i, k) <= 0) /\ (c(k, j) <= 0 /\ c(j, i) <= 0 => c(k, i) <= 0)
      BY <1>2
    <3>4. /\ order(i, j) = IF direction = 1 THEN c(i, j) ELSE -c(i, j)
          /\ order(j, k) = IF direction = 1 THEN c(j, k) ELSE -c(j, k)
          /\ order(i, k) = IF direction = 1 THEN c(i, k) ELSE -c(i, k)
      BY <2>1
    <3> HIDE DEF order
    <3> QED
      BY <2>3, <3>1, <3>2, <3>3, <3>4
  <2> HIDE DEF order
  <2> QED
    BY <2>2, <2>3
<1>7. sort(xs, path, direction) = [k \in S |-> xs[p[k]]]
  <2>1. \A i \in S : Cardinality({j \in S : order(j, i) < 0 \/ (order(j, i) = 0 /\ j <= i)}) = Place(S, R, i)
    BY <1>5 DEF Place
  <2> DEFINE up(i) == Cardinality({j \in S : order(j, i) < 0 \/ (order(j, i) = 0 /\ j <= i)})
  <2>2. sort(xs, path, direction) = [k \in S |-> xs[CHOOSE i \in S : up(i) = k]]
    BY DEF sort, S, c
  <2>3. \A i \in S : up(i) = Place(S, R, i)
    BY <2>1
  <2> HIDE DEF up, R
  <2>4. \A k \in S : (CHOOSE i \in S : up(i) = k) = p[k]
    BY <2>3
  <2> QED
    BY <2>2, <2>4
<1> HIDE DEF order
<1>8. /\ \A i, j \in S : <<i, j>> \in R \/ <<j, i>> \in R
      /\ \A i, j \in S : <<i, j>> \in R /\ <<j, i>> \in R => i = j
      /\ \A i, j, k \in S : <<i, j>> \in R /\ <<j, k>> \in R => <<i, k>> \in R
  <2> SUFFICES ASSUME NEW i \in S, NEW j \in S, NEW k \in S
               PROVE  /\ <<i, j>> \in R \/ <<j, i>> \in R
                      /\ <<i, j>> \in R /\ <<j, i>> \in R => i = j
                      /\ <<i, j>> \in R /\ <<j, k>> \in R => <<i, k>> \in R
    OBVIOUS
  <2>1. /\ i \in Nat /\ j \in Nat /\ k \in Nat
        /\ order(i, j) \in {-1, 0, 1} /\ order(i, j) = -order(j, i) /\ order(j, i) \in {-1, 0, 1}
        /\ order(j, k) \in {-1, 0, 1} /\ order(j, k) = -order(k, j) /\ order(k, j) \in {-1, 0, 1}
        /\ order(i, k) \in {-1, 0, 1} /\ order(i, k) = -order(k, i) /\ order(k, i) \in {-1, 0, 1}
    BY <1>4, <1>6
  <2>2. /\ order(i, j) <= 0 /\ order(j, k) <= 0 => order(i, k) <= 0
        /\ order(j, k) <= 0 /\ order(k, i) <= 0 => order(j, i) <= 0
        /\ order(k, i) <= 0 /\ order(i, j) <= 0 => order(k, j) <= 0
    BY <1>6
  <2>3. /\ <<i, j>> \in R <=> order(i, j) < 0 \/ (order(i, j) = 0 /\ i <= j)
        /\ <<j, i>> \in R <=> order(j, i) < 0 \/ (order(j, i) = 0 /\ j <= i)
        /\ <<j, k>> \in R <=> order(j, k) < 0 \/ (order(j, k) = 0 /\ j <= k)
        /\ <<i, k>> \in R <=> order(i, k) < 0 \/ (order(i, k) = 0 /\ i <= k)
    BY <1>5
  <2> HIDE DEF R
  <2>4. /\ <<i, j>> \in R \/ <<j, i>> \in R
        /\ <<i, j>> \in R /\ <<j, i>> \in R => i = j
    BY <2>1, <2>3
  <2>5. <<i, j>> \in R /\ <<j, k>> \in R => <<i, k>> \in R
    BY <2>1, <2>2, <2>3
  <2> QED
    BY <2>4, <2>5
<1> HIDE DEF R
<1>9. /\ \A i \in S : Place(S, R, i) \in 1 .. Cardinality(S)
      /\ \A i, j \in S : <<i, j>> \in R /\ i # j => Place(S, R, i) < Place(S, R, j)
      /\ \A k \in 1 .. Cardinality(S) : \E i \in S : Place(S, R, i) = k
  BY <1>4, <1>8, PlacesNumber
<1>10. \A k \in S : p[k] \in S /\ Place(S, R, p[k]) = k
  BY <1>3, <1>4, <1>9
<1>11. \A i \in S : \E k \in S : p[k] = i
  <2> SUFFICES ASSUME NEW i \in S PROVE \E k \in S : p[k] = i
    OBVIOUS
  <2> DEFINE k == Place(S, R, i)
             m == p[k]
  <2>1. k \in S /\ k \in Nat
    BY <1>3, <1>4, <1>9
  <2>2. m \in S /\ Place(S, R, m) = k
    BY <1>10, <2>1
  <2> HIDE DEF m
  <2>3. m = i
    <3>1. ~(Place(S, R, m) < Place(S, R, i)) /\ ~(Place(S, R, i) < Place(S, R, m))
      BY <2>1, <2>2
    <3> QED
      BY <1>8, <1>9, <2>2, <3>1
  <2> QED
    BY <2>1, <2>3 DEF m
<1> HIDE DEF p
<1>12. p \in Bijection(S, S)
  <2>1. p \in [S -> S]
    BY <1>10 DEF p
  <2>2. \A k, l \in S : p[k] = p[l] => k = l
    BY <1>10
  <2> QED
    BY <1>11, <2>1, <2>2 DEF Bijection, Injection, Surjection, IsInjective
<1>13. ASSUME NEW i \in S, NEW j \in S, i < j
       PROVE  LET d == c(p[i], p[j]) IN IF d = 0 THEN p[i] < p[j] ELSE (d < 0) = (direction = 1)
  <2> DEFINE u == p[i]
             w == p[j]
  <2>1. u \in S /\ w \in S /\ Place(S, R, u) = i /\ Place(S, R, w) = j /\ i \in Nat /\ j \in Nat
    BY <1>4, <1>10
  <2> HIDE DEF u, w
  <2>2. <<u, w>> \in R /\ u # w
    <3>1. u # w
      BY <1>13, <2>1
    <3>2. ~(Place(S, R, w) < Place(S, R, u))
      BY <1>13, <2>1
    <3> QED
      BY <1>8, <1>9, <2>1, <3>1, <3>2
  <2>3. order(u, w) < 0 \/ (order(u, w) = 0 /\ u <= w)
    BY <1>5, <2>1, <2>2
  <2>4. c(u, w) \in {-1, 0, 1} /\ u \in Nat /\ w \in Nat /\ order(u, w) = IF direction = 1 THEN c(u, w) ELSE -c(u, w)
    BY <1>1, <1>4, <2>1 DEF order
  <2>5. IF c(u, w) = 0 THEN u < w ELSE (c(u, w) < 0) = (direction = 1)
    BY <2>2, <2>3, <2>4
  <2> QED
    BY <2>5 DEF u, w
<1> QED
  BY <1>7, <1>12, <1>13 DEF S, c

\* What an aggregator or a transform reads is JSON, and its comparator orders what it sorts.
ReadsLists(a, n) ==
  LET x == nodeInput(n, inv[a].mem)
      c == Config(n)
  IN /\ IsArray(x) => Listed(x.v)
     /\ IsObject(x) => Listed(x.keys)
     /\ Kind(n) = "transform" /\ c.operation = "sort" /\ IsArray(x) => Comparable(x.v, c.path)

AllReadLists == \A a \in Attempts : \A n \in Nodes : task[a][n].stage = "finishing" => ReadsLists(a, n)

\* A vote elects a plurality, a deduplication keeps one item per key and a sort sorts stably,
\* whatever the attempts, faults and orders that led to their inputs (aggregateValue,
\* transformValue).
THEOREM ValuesAreMeant == Spec => [](AllReadLists => ValuesMeetTheirMeaning)
<1>1. GraphInv => (AllReadLists => ValuesMeetTheirMeaning)
  <2> SUFFICES ASSUME GraphInv, AllReadLists, NEW a \in Attempts, NEW n \in Nodes, task[a][n].stage = "finishing"
               PROVE  LET x == nodeInput(n, inv[a].mem)
                          v == task[a][n].value
                          c == Config(n)
                      IN
                      /\ Kind(n) = "aggregator" /\ c.operation = "vote" =>
                           LET xs == collectedValues(x) IN
                           \A i \in DOMAIN xs : Votes(xs, c.path, OrNull(getPath(xs[i], c.path))) <= Votes(xs, c.path, v)
                      /\ Kind(n) = "transform" /\ c.operation = "deduplicate" =>
                           \A i \in DOMAIN x.v : Votes(v.v, c.path, OrNull(getPath(x.v[i], c.path))) = 1
                      /\ Kind(n) = "transform" /\ c.operation = "sort" =>
                           \E p \in Bijection(DOMAIN x.v, DOMAIN x.v) :
                             /\ v.v = [i \in DOMAIN x.v |-> x.v[p[i]]]
                             /\ \A i, j \in DOMAIN x.v : i < j =>
                                  LET d == Compare(getPath(v.v[i], c.path), getPath(v.v[j], c.path))
                                  IN IF d = 0 THEN p[i] < p[j] ELSE (d < 0) = (c.direction # "desc")
    BY DEF ValuesMeetTheirMeaning
  <2> DEFINE x == nodeInput(n, inv[a].mem)
             v == task[a][n].value
             c == Config(n)
  <2>1. /\ IsArray(x) => Listed(x.v)
        /\ IsObject(x) => Listed(x.keys)
        /\ Kind(n) = "transform" /\ c.operation = "sort" /\ IsArray(x) => Comparable(x.v, c.path)
    BY DEF AllReadLists, ReadsLists
  <2>2. Kind(n) \in {"aggregator", "transform"} => v = Compute(n, x) /\ ~IsThrown(v)
    BY DEF GraphInv, AttemptInv, ValuesAreComputed, CapabilityKinds
  <2> HIDE DEF x, v, c
  <2>3. ASSUME Kind(n) = "aggregator", c.operation = "vote"
        PROVE  LET xs == collectedValues(x) IN
               \A i \in DOMAIN xs : Votes(xs, c.path, OrNull(getPath(xs[i], c.path))) <= Votes(xs, c.path, v)
    <3> DEFINE xs == collectedValues(x)
    <3>1. v = vote(xs, c.path)
      BY <2>2, <2>3 DEF Compute, aggregateValue, c
    <3>2. Listed(xs)
      <4>1. CASE IsArray(x)
        BY <2>1, <4>1 DEF collectedValues
      <4>2. CASE ~IsArray(x) /\ IsObject(x)
        <5>1. Listed(x.keys) /\ xs = [i \in DOMAIN x.keys |-> x.v[x.keys[i]]]
          BY <2>1, <4>2 DEF collectedValues
        <5>2. xs \in Seq({x.v[x.keys[i]] : i \in DOMAIN x.keys})
          BY <5>1 DEF Listed
        <5> HIDE DEF xs
        <5> QED
          BY <5>2 DEF Listed
      <4>3. CASE ~IsArray(x) /\ ~IsObject(x)
        <5>1. xs = <<x>>
          BY <4>3 DEF collectedValues
        <5> QED
          BY <5>1 DEF Listed
      <4> QED
        BY <4>1, <4>2, <4>3
    <3> HIDE DEF xs
    <3>3. \A i \in DOMAIN xs : Votes(xs, c.path, OrNull(getPath(xs[i], c.path))) <= Votes(xs, c.path, v)
      BY <3>1, <3>2, VoteElects
    <3> QED
      BY <3>3 DEF xs
  <2>4. ASSUME Kind(n) = "transform", c.operation = "deduplicate"
        PROVE  \A i \in DOMAIN x.v : Votes(v.v, c.path, OrNull(getPath(x.v[i], c.path))) = 1
    <3>1. v = IF IsArray(x) THEN Arr(deduplicate(x.v, c.path)) ELSE Thrown("deduplicate_array_required")
      BY <2>2, <2>4 DEF Compute, transformValue, c
    <3>2. IsArray(x) /\ v.v = deduplicate(x.v, c.path)
      BY <2>2, <2>4, <3>1 DEF Arr, Thrown, IsThrown
    <3> QED
      BY <2>1, <3>2, DeduplicateKeepsOne
  <2>5. ASSUME Kind(n) = "transform", c.operation = "sort"
        PROVE  \E p \in Bijection(DOMAIN x.v, DOMAIN x.v) :
                 /\ v.v = [i \in DOMAIN x.v |-> x.v[p[i]]]
                 /\ \A i, j \in DOMAIN x.v : i < j =>
                      LET d == Compare(getPath(v.v[i], c.path), getPath(v.v[j], c.path))
                      IN IF d = 0 THEN p[i] < p[j] ELSE (d < 0) = (c.direction # "desc")
    <3> DEFINE direction == IF c.direction = "desc" THEN -1 ELSE 1
               xs == x.v
    <3>1. v = IF IsArray(x) THEN Arr(sort(xs, c.path, direction)) ELSE Thrown("sort_array_required")
      BY <2>2, <2>5 DEF Compute, transformValue, c
    <3>2. IsArray(x) /\ v.v = sort(xs, c.path, direction)
      BY <2>2, <2>5, <3>1 DEF Arr, Thrown, IsThrown
    <3>3. Listed(xs) /\ Comparable(xs, c.path) /\ direction \in {-1, 1}
      BY <2>1, <2>5, <3>2
    <3>4. (direction = 1) = (c.direction # "desc")
      OBVIOUS
    <3> HIDE DEF direction, xs
    <3>5. PICK p \in Bijection(DOMAIN xs, DOMAIN xs) :
            /\ sort(xs, c.path, direction) = [i \in DOMAIN xs |-> xs[p[i]]]
            /\ \A i, j \in DOMAIN xs : i < j =>
                 LET d == Compare(getPath(xs[p[i]], c.path), getPath(xs[p[j]], c.path))
                 IN IF d = 0 THEN p[i] < p[j] ELSE (d < 0) = (direction = 1)
      BY <3>3, SortSorts
    <3>6. \A i \in DOMAIN xs : v.v[i] = xs[p[i]]
      BY <3>2, <3>5
    <3>7. \A i, j \in DOMAIN xs : i < j =>
            LET d == Compare(getPath(v.v[i], c.path), getPath(v.v[j], c.path))
            IN IF d = 0 THEN p[i] < p[j] ELSE (d < 0) = (c.direction # "desc")
      BY <3>4, <3>5, <3>6
    <3> QED
      BY <3>2, <3>5, <3>7 DEF xs
  <2> QED
    BY <2>3, <2>4, <2>5 DEF x, v, c
<1> QED
  BY <1>1, GraphInvariance, PTL
=============================================================================
