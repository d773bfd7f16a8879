------------------------------ MODULE PlanGraph ------------------------------
(***************************************************************************)
(* What the shape of a plan decides: lowerHarnessPlan of                   *)
(* packages/runtime-langgraph, before any run.                             *)
(***************************************************************************)
EXTENDS Subsequences

\* [adapterVersion, maxTransitions, attemptLimit, nodes: id -> [kind, config], edges]
CONSTANT plan

Nodes    == DOMAIN plan.nodes
Edges    == {plan.edges[i] : i \in DOMAIN plan.edges}
Kind(n)  == plan.nodes[n].kind
Config(n) == plan.nodes[n].config

AllSettledJoins == {n \in Nodes : Kind(n) = "join" /\ Config(n).operation = "allSettled"}

settledSourceIds == {e.from : e \in {f \in Edges : f.to \in AllSettledJoins /\ f.kind # "control"}}

HasMixedFanout == \E e \in Edges : e.from \in settledSourceIds /\ e.to \notin AllSettledJoins

Starts == {n \in Nodes : \A e \in Edges : e.to # n}

\* incoming.filter keeps the order of plan.graph.edges.
Incoming(n) ==
  Subsequence(plan.edges, {i \in DOMAIN plan.edges : plan.edges[i].to = n /\ plan.edges[i].kind # "control"})

Sources(j) == {e.from : e \in {f \in Edges : f.to = j /\ f.kind # "control"}}

barrierTargets == {j \in Nodes : Kind(j) = "join" /\ Len(Incoming(j)) > 1}

Outgoing(n) == {e \in Edges : e.from = n}
Controls(n) == {e \in Outgoing(n) : e.kind = "control"}

\* The loop over a node's edges; for control edges, LangGraph's compile.
EdgeTargetsExist ==
  \A n \in Nodes : \A e \in Outgoing(n) :
    e.to \notin Nodes => IF Controls(n) # {} THEN e.kind # "control" ELSE Kind(n) = "output"

\* lowerHarnessPlan throws unless.
Lowers ==
  /\ plan.adapterVersion = "harness-langgraph-v1"
  /\ ~HasMixedFanout
  /\ Cardinality(Starts) = 1
  /\ EdgeTargetsExist

----------------------------------------------------------------------------
(* Plans that run in layers: what the theorems about joins and outputs ask of a plan. *)

\* A node runs in the superstep of its depth.  Whatever the routes taken, the nodes in sure run;
\* the branches of a join are among them, bring different keys and end at its last layer.
Layering(depth, sure) ==
  /\ \A e \in Edges : /\ e.from \in Nodes /\ e.to \in Nodes
                      /\ e.to \notin barrierTargets => depth[e.to] = depth[e.from] + 1
                      /\ Kind(e.to) = "join" => e.kind # "control"
  /\ \A n \in Starts : n \in sure /\ depth[n] = 1
  /\ \A n \in sure \ (Starts \cup barrierTargets) :
       \E e \in Edges : e.to = n /\ e.from \in sure /\ Controls(e.from) = {} /\ Kind(e.from) # "output"
  /\ \A j \in barrierTargets : /\ \A s \in Sources(j) : s \in sure /\ depth[s] < depth[j]
                               /\ \E s \in Sources(j) : depth[s] + 1 = depth[j]
  /\ \A j \in Nodes : Kind(j) = "join" =>
       \A i, k \in DOMAIN Incoming(j) : Incoming(j)[i].targetKey = Incoming(j)[k].targetKey => i = k

\* Its outputs are the end of it and lie in one layer; every other node leads on.
Concluding(depth) ==
  /\ \A n \in Nodes :
       IF Kind(n) = "output" THEN Outgoing(n) = {}
       ELSE IF Controls(n) = {} THEN Outgoing(n) # {}
       ELSE \E e \in Controls(n) : e.condition.op = "always"
  /\ \A n, k \in Nodes : Kind(n) = "output" /\ Kind(k) = "output" => depth[n] = depth[k]

Depths == [Nodes -> Nat \ {0}]
Layered == \E depth \in Depths, sure \in SUBSET Nodes : Layering(depth, sure)
LayeredToTheEnd == \E depth \in Depths, sure \in SUBSET Nodes : Layering(depth, sure) /\ Concluding(depth)
============================================================================
