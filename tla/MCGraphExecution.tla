-------------------------- MODULE MCGraphExecution --------------------------
(***************************************************************************)
(* Plans for GraphExecution: branches settled and voted on, branches of    *)
(* different depth joined, and plans that must not be lowered.             *)
(***************************************************************************)
EXTENDS GraphExecution

MCTextLess(a, b) == a.t = "string" /\ b.t = "string" /\ a.v = "no" /\ b.v = "yes"

MCInput   == Obj(<<"name">>, [name |-> Str("acme")])
Answer(s) == Obj(<<"value">>, [value |-> Str(s)])
Either    == {Answer("yes"), Answer("no")}
MCResults == [t1 |-> Either \cup {Thrown("denied")}, t2 |-> Either \cup {Thrown("failed")}, t3 |-> Either,
              a |-> {Answer("yes"), Thrown("failed")}, b |-> Either \cup {Thrown("denied")}, c |-> Either]

NoConfig == [operation |-> "none", path |-> <<>>, expression |-> <<>>, direction |-> "asc",
             fields |-> <<"value", "absent">>, start |-> -1, end |-> 5]
Node(kind) == [kind |-> kind, config |-> NoConfig]
NodeWith(kind, operation, path) == [kind |-> kind, config |-> [NoConfig EXCEPT !.operation = operation, !.path = path]]

Always == [op |-> "always", path |-> <<>>, text |-> "", expected |-> Undefined]
\* A bare word is both a label and a path.
Label(s) == [op |-> "path", path |-> <<s>>, text |-> s, expected |-> Undefined]

Data(from, to) == [from |-> from, to |-> to, kind |-> "data", sourcePath |-> <<>>, targetKey |-> from, condition |-> Always]
Control(from, to, c) == [Data(from, to) EXCEPT !.kind = "control", !.condition = c]

Plan(nodes, edges) ==
  [adapterVersion |-> "harness-langgraph-v1", maxTransitions |-> 8, attemptLimit |-> 2, nodes |-> nodes, edges |-> edges]

\* Three tools, voted on, and one of two outputs, in a run of one attempt.
Settling == [
  Plan([in |-> Node("input"), t1 |-> Node("tool"), t2 |-> Node("tool"), t3 |-> Node("tool"),
        j |-> NodeWith("join", "allSettled", <<>>), v |-> NodeWith("aggregator", "vote", <<"value", "value">>),
        c |-> [kind |-> "condition", config |-> [NoConfig EXCEPT !.expression = <<"v">>]],
        o1 |-> Node("output"), o2 |-> Node("output")],
       <<Data("in", "t1"), Data("in", "t2"), Data("in", "t3"), Data("t1", "j"), Data("t2", "j"), Data("t3", "j"),
         Data("j", "v"), Data("v", "c"), Control("c", "o1", Label("yes")), Control("c", "o2", Always)>>)
  EXCEPT !.attemptLimit = 1]

\* Two branches of different depth into an all-settled join.
Uneven ==
  Plan([in |-> Node("input"), a |-> Node("tool"), b |-> Node("tool"), c |-> Node("tool"),
        j |-> NodeWith("join", "allSettled", <<>>), o |-> Node("output")],
       <<Data("in", "a"), Data("a", "b"), Data("in", "c"), Data("b", "j"), Data("c", "j"), Data("j", "o")>>)

\* Two branches of different depth into a join of all, aggregated and transformed.
Shaping(aggregator, transform, path) == [
  Plan([in |-> Node("input"), a |-> Node("tool"), x |-> NodeWith("transform", "identity", <<>>), b |-> Node("tool"),
        j |-> NodeWith("join", "all", <<>>), g |-> NodeWith("aggregator", aggregator, <<>>),
        s |-> NodeWith("transform", transform, path), o |-> Node("output")],
       <<Data("in", "a"), Data("a", "x"), Data("in", "b"), Data("x", "j"), Data("b", "j"),
         Data("j", "g"), Data("g", "s"), Data("s", "o")>>)
  EXCEPT !.attemptLimit = 1]

Sorting    == Shaping("collect", "sort", <<"value">>)
Descending == [Sorting EXCEPT !.nodes.s.config.direction = "desc"]
Shapes == {Sorting, Descending, Shaping("collect", "deduplicate", <<"value">>), Shaping("collect", "slice", <<>>),
           Shaping("collect", "merge", <<>>), Shaping("merge", "project", <<>>), Shaping("vote", "select", <<"value">>),
           Shaping("concat", "identity", <<>>)}

\* A join of one branch.
Lone == [
  Plan([in |-> Node("input"), j |-> NodeWith("join", "all", <<>>), k |-> NodeWith("join", "allSettled", <<>>),
        o |-> Node("output")],
       <<Data("in", "j"), Data("j", "k"), Data("k", "o")>>)
  EXCEPT !.attemptLimit = 1]

\* Two outputs in one superstep.
Forked == [Plan([in |-> Node("input"), o1 |-> Node("output"), o2 |-> Node("output")],
                <<Data("in", "o1"), Data("in", "o2")>>)
           EXCEPT !.attemptLimit = 1]

\* As Uneven, with an edge past the join.
MixedFanout == [Uneven EXCEPT !.edges = Append(@, Data("c", "o"))]
TwoEntries  == Plan([in |-> Node("input"), a |-> Node("tool"), o |-> Node("output")], <<Data("in", "o")>>)
NoTarget    == Plan([in |-> Node("input"), o |-> Node("output")], <<Data("in", "o"), Data("in", "gone")>>)
OldAdapter  == [NoTarget EXCEPT !.adapterVersion = "harness-langgraph-v0", !.edges = <<Data("in", "o")>>]
TooLong     == [Uneven EXCEPT !.maxTransitions = 3, !.attemptLimit = 1]
Unsupported == Plan([in |-> Node("input"), m |-> Node("mystery"), o |-> Node("output")],
                    <<Data("in", "m"), Data("m", "o")>>)

Regular == Shapes \cup {Settling, Uneven, Lone, TooLong, Unsupported}
MCPlans == Regular \cup {Forked, MixedFanout, TwoEntries, NoTarget, OldAdapter}

\* The regular plans are layered to the end, by the longest path to a node.
At(p) == INSTANCE PlanGraph WITH plan <- p
DepthIn(p) ==
  LET depth[n \in DOMAIN p.nodes] ==
        1 + Max({0} \cup {depth[p.edges[i].from] : i \in {i \in DOMAIN p.edges : p.edges[i].to = n}})
  IN depth
SureIn(p) == {n \in DOMAIN p.nodes : \A i \in DOMAIN p.edges : p.edges[i].to = n => p.edges[i].kind # "control"}
ASSUME RegularPlans ==
  \A p \in Regular : At(p)!Layering(DepthIn(p), SureIn(p)) /\ At(p)!Concluding(DepthIn(p))
============================================================================
