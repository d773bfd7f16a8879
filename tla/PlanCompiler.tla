---------------------------- MODULE PlanCompiler ----------------------------
(***************************************************************************)
(* From authoring sources to a plan: analysis, the edits the editor makes, *)
(* materialization of registered contracts and compilation                 *)
(* (apps/control-api/src/{authoring,authoring-agents,harnessc}.ts and      *)
(* crates/harness-compiler/src/main.rs).  Pure operators.                  *)
(*                                                                         *)
(* Sources are package.yaml and workflow.yaml after parsing, abstracted to *)
(* what the compiler looks at:                                             *)
(*   yaml      - they are objects with a spec (text that does not parse    *)
(*               never gets past the request)                              *)
(*   flaws     - which of "package", "metadata", "workflow" is unsupported *)
(*   nodes     - sequence of [id, kind, op, agentRef, skillRefs,           *)
(*               caseWrites, target, profile, capability] (config flattened)*)
(*   edges     - sequence of [from, to]                                    *)
(*   agents, skills, capabilities - sequences of embedded contracts        *)
(*   bindings  - function from some node ids to capability ids             *)
(*   profiles  - modelProfiles        calls - budgets.maxCapabilityCalls   *)
(* An optional value is a set with at most one member.  A case write is    *)
(* the set of its parts ("command", "payload", "schema") that are valid.   *)
(***************************************************************************)
EXTENDS Integers, Sequences, FiniteSets, SequencesExt, Subsequences

CONSTANT ModelProfiles     \* ids configured in model-profiles.json

Ids(items) == {items[i].id : i \in DOMAIN items}

Diagnostic(code, at, severity) == [code |-> code, at |-> at, severity |-> severity]
errorAt(code, at) == Diagnostic(code, at, "error")

\* items.filter(test)
filter(items, Test(_)) == Subsequence(items, {i \in DOMAIN items : Test(items[i])})

\* A list of some length; the parts of sources that are read as lists (what is none is read as empty).
IsList(x) == x \in Seq(ToSet(x))
IsSources(s) ==
  /\ {"nodes", "edges", "agents", "skills", "capabilities"} \subseteq DOMAIN s
  /\ IsList(s.nodes) /\ IsList(s.edges)
  /\ IsList(s.agents) /\ IsList(s.skills) /\ IsList(s.capabilities)

HasError(diagnostics) == \E d \in diagnostics : d.severity = "error"

----------------------------------------------------------------------------
(* topologicalOrder: Kahn's algorithm, one node taken off the queue a step. *)

\* Edges are counted by their index; one with an unknown end is skipped.
KnownEdges(nodes, edges) == {i \in DOMAIN edges : {edges[i].from, edges[i].to} \subseteq Ids(nodes)}
EdgesFrom(edges, I, id)  == {i \in I : edges[i].from = id}
EdgesInto(edges, I, id)  == {i \in I : edges[i].to = id}

start(nodes, edges) ==
  LET known == KnownEdges(nodes, edges)
      free  == Subsequence(nodes, {i \in DOMAIN nodes : EdgesInto(edges, known, nodes[i].id) = {}})
  IN [incoming |-> [id \in Ids(nodes) |-> Cardinality(EdgesInto(edges, known, id))],
      queue    |-> [k \in DOMAIN free |-> free[k].id],
      order    |-> <<>>]

\* The loop over the targets of the node taken: the edge that brings a target's count to zero
\* puts it on the queue.
release(edges, known, s) ==
  LET out   == EdgesFrom(edges, known, Head(s.queue))
      last  == {i \in out : s.incoming[edges[i].to] =
                              Cardinality({j \in EdgesInto(edges, out, edges[i].to) : j <= i})}
      freed == Subsequence(edges, last)
  IN [incoming |-> [t \in DOMAIN s.incoming |-> s.incoming[t] - Cardinality(EdgesInto(edges, out, t))],
      queue    |-> Tail(s.queue) \o [k \in DOMAIN freed |-> freed[k].to],
      order    |-> Append(s.order, Head(s.queue))]

\* The loop, after each of its steps; it ends when the queue is empty.
ordering(nodes, edges) ==
  LET after[k \in 0 .. Len(nodes)] ==
        IF k = 0 THEN start(nodes, edges)
        ELSE LET s == after[k - 1]
             IN IF s.queue = <<>> THEN s ELSE release(edges, KnownEdges(nodes, edges), s)
  IN after

topologicalOrder(nodes, edges) == ordering(nodes, edges)[Len(nodes)].order

----------------------------------------------------------------------------
(* analyzeAuthoringSources *)

NodeKinds == {"input", "output", "agent", "tool", "transform", "condition", "evaluate", "join",
              "aggregator"}
Operations(kind) ==
  CASE kind = "transform"  -> {"identity", "select", "project", "merge", "deduplicate", "sort",
                               "slice"}
    [] kind = "aggregator" -> {"collect", "merge", "concat", "vote"}
    [] kind = "join"       -> {"all", "allSettled"}

\* An absent operation is a supported default of the kind.
validatePrimitiveConfig(node) ==
  IF node.kind \in {"transform", "aggregator", "join"} /\ ~(node.op \subseteq Operations(node.kind))
  THEN {errorAt("author.operation_unsupported", node.id)} ELSE {}

validateCaseWrites(node) ==
  {errorAt("author.case_write_invalid", node.id) :
     w \in {w \in node.caseWrites : \E i \in DOMAIN w : w[i] # {"command", "payload", "schema"}}}

nodeDiagnostics(nodes) ==
  (UNION {validatePrimitiveConfig(nodes[i]) \cup validateCaseWrites(nodes[i]) : i \in DOMAIN nodes})
  \cup {errorAt("author.node_id_invalid", nodes[i].id) :
          i \in {i \in DOMAIN nodes : \E k \in 1 .. i - 1 : nodes[k].id = nodes[i].id}}
  \cup {errorAt("author.node_kind_unsupported", nodes[i].id) :
          i \in {i \in DOMAIN nodes : nodes[i].kind \notin NodeKinds}}

edgeDiagnostics(nodes, edges) ==
  {errorAt("author.edge_reference_missing", "edges") :
     e \in {e \in ToSet(edges) : ~({e.from, e.to} \subseteq Ids(nodes))}}
  \cup {errorAt("author.edge_self_reference", "edges") :
          e \in {e \in ToSet(edges) : e.from = e.to}}

RuntimeTargets == {"local_http", "azure_foundry"}

targetDiagnostics(nodes) ==
  LET targets == UNION {nodes[i].target : i \in DOMAIN nodes}
  IN {errorAt("author.runtime_target_invalid", t) : t \in targets \ RuntimeTargets}
     \cup {errorAt("author.runtime_target_mixed", "nodes") :
             n \in {Cardinality(targets \cap RuntimeTargets)} \ {0, 1}}

graphDiagnostics(nodes, edges) ==
  {errorAt("author.graph_cycle", "edges") :
     n \in {Len(topologicalOrder(nodes, edges))} \ {Len(nodes)}}
  \cup {errorAt("author.kind_missing", kind) :
          kind \in {"input", "output"} \ {nodes[i].kind : i \in DOMAIN nodes}}

\* A contract that fails its schema is reported and gives no id; a repeated one is reported.
GoodContracts(items) == filter(items, LAMBDA c : c.ok)

contractDiagnostics(items) ==
  {errorAt("author.contract_invalid", items[i].id) : i \in {i \in DOMAIN items : ~items[i].ok}}
  \cup {errorAt("author.contract_duplicate", items[i].id) :
          i \in {i \in DOMAIN items : items[i].ok /\ \E k \in 1 .. i - 1 :
                                        items[k].ok /\ items[k].id = items[i].id}}

\* Mutant: the skills an agent names are not looked up.
referenceDiagnosticsOfNodes(s) ==
  {errorAt("author.node_agent_missing", id) :
     id \in (UNION {n.agentRef : n \in ToSet(s.nodes)}) \ Ids(GoodContracts(s.agents))}

referenceDiagnostics(s) ==
  LET skillIds == Ids(GoodContracts(s.skills))
      agentIds == Ids(GoodContracts(s.agents))
  IN {errorAt("author.agent_skill_missing", id) :
        id \in (UNION {a.skillIds : a \in ToSet(GoodContracts(s.agents))}) \ skillIds}
     \cup {errorAt("author.node_agent_missing", id) :
             id \in (UNION {n.agentRef : n \in {n \in ToSet(s.nodes) :
                                                 n.kind \in {"agent", "evaluate"}}}) \ agentIds}
     \cup {errorAt("author.node_skill_missing", id) :
             id \in (UNION {UNION n.skillRefs : n \in ToSet(s.nodes)}) \ skillIds}
     \cup {errorAt("author.binding_node_missing", id) : id \in DOMAIN s.bindings \ Ids(s.nodes)}
     \cup {Diagnostic("author.binding_capability_external", id, "warning") :
             id \in {id \in DOMAIN s.bindings : s.bindings[id] \notin Ids(s.capabilities)}}

analyzeAuthoringSources(s) ==
  {errorAt("author.contract_unsupported", part) : part \in s.flaws}
  \cup nodeDiagnostics(s.nodes) \cup edgeDiagnostics(s.nodes, s.edges)
  \cup targetDiagnostics(s.nodes) \cup graphDiagnostics(s.nodes, s.edges)
  \cup {d \in contractDiagnostics(s.capabilities) : d.code = "author.contract_invalid"}
  \cup contractDiagnostics(s.skills) \cup contractDiagnostics(s.agents)
  \cup referenceDiagnostics(s)

----------------------------------------------------------------------------
(* Edits the editor asks for. *)

\* compiledAgent, compiledSkill, compiledCapability: a registration without its registry fields.
Compiled(registration) == [f \in DOMAIN registration \ {"status"} |-> registration[f]]

upsertById(items, additions) ==
  filter(items, LAMBDA c : c.id \notin Ids(additions)) \o additions

Find(items, id) == CHOOSE c \in ToSet(items) : c.id = id

IndexOf(nodes, id) ==
  CHOOSE i \in DOMAIN nodes : nodes[i].id = id /\ \A k \in 1 .. i - 1 : nodes[k].id # id

agentNode(base, agent, id) ==
  [base EXCEPT !.id = id, !.kind = "evaluate",
               !.caseWrites = IF @ = {} THEN {agent.caseWrites} ELSE @,
               !.agentRef = {agent.id}, !.skillRefs = {agent.skillIds},
               !.profile = {agent.profile}, !.target = {agent.target}]

emptyNode == [id |-> "", kind |-> "", op |-> {}, agentRef |-> {}, skillRefs |-> {},
              caseWrites |-> {}, target |-> {}, profile |-> {}, capability |-> {}]

\* The early returns of applyAgentToAuthoringSources: without them it throws.
CanAttach(s, agent, skills, nodeId, mode, newNodeId) ==
  /\ s.yaml
  /\ nodeId \in Ids(s.nodes)
  /\ LET kind == s.nodes[IndexOf(s.nodes, nodeId)].kind
     IN kind # "output" /\ ~(kind = "input" /\ mode = "replace")
  /\ mode = "insert-after" => newNodeId \notin Ids(s.nodes)
  /\ agent.skillIds \subseteq Ids(skills)

applyAgentToAuthoringSources(s, agent, skills, nodeId, mode, newNodeId) ==
  LET at == IndexOf(s.nodes, nodeId)
      attached == IF mode = "replace" THEN nodeId ELSE newNodeId
      node == agentNode(IF mode = "replace" THEN s.nodes[at] ELSE emptyNode, agent, attached)
      rewired == [i \in DOMAIN s.edges |->
                    IF s.edges[i].from = nodeId THEN [s.edges[i] EXCEPT !.from = attached]
                    ELSE s.edges[i]]
      wanted == filter(skills, LAMBDA k : k.id \in agent.skillIds)
  IN [s EXCEPT
       !.nodes = IF mode = "replace" THEN [@ EXCEPT ![at] = node] ELSE InsertAt(@, at + 1, node),
       !.edges = IF mode = "replace" THEN @
                 ELSE Append(rewired, [from |-> nodeId, to |-> attached]),
       !.profiles = @ \cup {agent.profile},
       !.skills = upsertById(@, [i \in DOMAIN wanted |-> Compiled(wanted[i])]),
       !.agents = upsertById(@, <<Compiled(agent)>>),
       !.bindings = IF agent.capability = {} THEN @
                    ELSE [n \in DOMAIN @ \cup {attached} |->
                            IF n = attached THEN (CHOOSE c \in agent.capability : TRUE) ELSE @[n]]]

updateNodeCaseWrites(s, nodeId, writes) ==
  [s EXCEPT !.nodes[IndexOf(s.nodes, nodeId)].caseWrites = {writes}]

----------------------------------------------------------------------------
(* materializeRegisteredContracts: contracts a source refers to and does   *)
(* not carry are copied into it.  Order within the package is abstracted.  *)

MissingAgents(s, agents) ==
  filter(agents, LAMBDA a : a.id \in (UNION {n.agentRef : n \in ToSet(s.nodes)}) \ Ids(s.agents))

MissingSkills(s, agents, skills) ==
  LET required == (UNION {UNION n.skillRefs : n \in ToSet(s.nodes)})
                  \cup UNION {a.skillIds : a \in ToSet(MissingAgents(s, agents))}
  IN filter(skills, LAMBDA k : k.id \in required \ Ids(s.skills))

\* A node of a copied agent takes from it what it does not declare itself.
fillNode(node, agents) ==
  IF ~(node.agentRef # {} /\ node.agentRef \subseteq Ids(agents)) THEN node
  ELSE LET a == Find(agents, CHOOSE id \in node.agentRef : TRUE)
       IN [node EXCEPT !.caseWrites = IF @ = {} THEN {a.caseWrites} ELSE @,
                       !.skillRefs = IF @ = {} THEN {a.skillIds} ELSE @,
                       !.profile = IF @ = {} THEN {a.profile} ELSE @,
                       !.target = IF @ = {} THEN {a.target} ELSE @]

materializeAgentContracts(s, agents, skills) ==
  LET bound == {n \in ToSet(s.nodes) :
                  /\ n.agentRef # {} /\ n.agentRef \subseteq Ids(agents)
                  /\ Find(agents, CHOOSE id \in n.agentRef : TRUE).capability # {}
                  /\ n.id \notin DOMAIN s.bindings}
      primary(id) == LET n == CHOOSE n \in bound : n.id = id
                         a == Find(agents, CHOOSE r \in n.agentRef : TRUE)
                     IN CHOOSE c \in a.capability : TRUE
  IN [s EXCEPT !.agents = upsertById(@, [i \in DOMAIN agents |-> Compiled(agents[i])]),
               !.skills = upsertById(@, [i \in DOMAIN skills |-> Compiled(skills[i])]),
               !.profiles = @ \cup {a.profile : a \in ToSet(agents)},
               !.nodes = [i \in DOMAIN @ |-> fillNode(@[i], agents)],
               !.bindings = [id \in DOMAIN @ \cup {n.id : n \in bound} |->
                               IF id \in DOMAIN @ THEN @[id] ELSE primary(id)]]

materializeRegisteredContracts(s, agents, skills, capabilities) ==
  LET newAgents == MissingAgents(s, agents)
      newSkills == MissingSkills(s, agents, skills)
      settled == IF newAgents = <<>> /\ newSkills = <<>> THEN s
                 ELSE materializeAgentContracts(s, newAgents, newSkills)
      bound == {settled.bindings[id] : id \in DOMAIN settled.bindings}
      newCapabilities == filter(capabilities,
                                   LAMBDA c : c.id \in bound \ Ids(s.capabilities))
  IN [settled EXCEPT !.capabilities =
        upsertById(@, [i \in DOMAIN newCapabilities |-> Compiled(newCapabilities[i])])]

----------------------------------------------------------------------------
(* compileAuthoringDraft and harnessc *)

compileDiagnostics(s, capabilities) ==
  LET embedded == Ids(GoodContracts(s.capabilities))
      resolvable == embedded \cup Ids(capabilities)
  IN analyzeAuthoringSources(s)
     \cup {errorAt("compiler.capability_unresolved", id) :
             id \in {id \in DOMAIN s.bindings : s.bindings[id] \notin resolvable}}
     \cup {errorAt("compiler.capability_not_embedded", id) :
             id \in {id \in DOMAIN s.bindings : s.bindings[id] \in resolvable \ embedded}}
     \cup {errorAt("compiler.skill_capability_unresolved", c) :
             c \in (UNION {k.allowed : k \in ToSet(GoodContracts(s.skills))}) \ resolvable}
     \cup {errorAt("compiler.agent_capability_unresolved", c) :
             c \in (UNION {a.capability : a \in ToSet(GoodContracts(s.agents))}) \ resolvable}
     \cup {errorAt("compiler.model_profile_missing", id) : id \in s.profiles \ ModelProfiles}

\* Of a node the plan's readers look at these fields; merge_extension_config keeps what the author
\* wrote in its config, and a binding sets its capability.  Compilation is deterministic and covers the
\* package's digest, so elsewhere the sources stand for the digest of the plan they compile to.
compile(s) ==
  LET bound == {s.bindings[id] : id \in DOMAIN s.bindings}
      capability(n) == IF n.id \in DOMAIN s.bindings THEN {s.bindings[n.id]} ELSE n.capability
      compiled(n) == [id |-> n.id, kind |-> n.kind, agentRef |-> n.agentRef,
                      skillRefs |-> n.skillRefs, capability |-> capability(n)]
  IN [nodes |-> [i \in DOMAIN s.nodes |-> compiled(s.nodes[i])],
      edges |-> s.edges,
      nodeOrder |-> topologicalOrder(s.nodes, s.edges),
      agents |-> s.agents, skills |-> s.skills,
      capabilities |-> filter(s.capabilities, LAMBDA c : c.id \in bound),
      permissionEnvelopes |-> {[nodeId |-> id, capability |-> s.bindings[id],
                                effect |-> Find(s.capabilities, s.bindings[id]).effect]
                                 : id \in DOMAIN s.bindings \cap Ids(s.nodes)},
      calls |-> s.calls]

\* The digest of the compiled plan, if there is one.
compileAuthoringDraft(s, capabilities) ==
  IF HasError(compileDiagnostics(s, capabilities)) THEN {} ELSE {s}

AgentNodes(plan) == {n \in ToSet(plan.nodes) : n.kind \in {"agent", "evaluate"}}

evaluateCompiledPlan(plan) ==
  /\ Len(plan.nodeOrder) = Len(plan.nodes)
  /\ Cardinality(plan.permissionEnvelopes)
       = Cardinality({i \in DOMAIN plan.nodes : plan.nodes[i].capability # {}})
  /\ \A n \in AgentNodes(plan) : n.agentRef # {} /\ n.agentRef \subseteq Ids(plan.agents)
  /\ \A n \in AgentNodes(plan) : UNION n.skillRefs \subseteq Ids(plan.skills)
  /\ plan.calls >= Len(plan.capabilities)

defaultAuthoringSources ==
  LET node(id, kind) == [emptyNode EXCEPT !.id = id, !.kind = kind, !.caseWrites = {<<>>}]
  IN [yaml |-> TRUE, flaws |-> {}, nodes |-> <<node("intake", "input"), node("result", "output")>>,
      edges |-> <<[from |-> "intake", to |-> "result"]>>,
      agents |-> <<>>, skills |-> <<>>, capabilities |-> <<>>, bindings |-> [id \in {} |-> ""],
      profiles |-> {"model.standard.v1"}, calls |-> 4]

----------------------------------------------------------------------------
(* importAgentBundle.  A repository is its manifest, if it has one, and a  *)
(* skill per SKILL.md; files the host does not deliver are left out.       *)

MaxImportFiles == 30

\* A manifest's model profile is kept when its name is portable ("model.*").
buildAgentBundleFromFiles(repo, manifest, skills) ==
  LET m == IF manifest = {} THEN repo.defaults ELSE CHOOSE m \in manifest : TRUE
  IN [skills |-> skills,
      agent |-> [id |-> m.id, ok |-> TRUE, status |-> "active", skillIds |-> {k.id : k \in skills},
                 capability |-> m.capability, caseWrites |-> m.caseWrites,
                 profile |-> IF m.portable THEN m.profile ELSE "model.standard.v1",
                 target |-> IF m.target = "azure_foundry" THEN m.target ELSE "local_http"]]

\* Every bundle an import may build, for each subset of the files that arrives.
importAgentBundle(repo) ==
  {buildAgentBundleFromFiles(repo, m, k) :
     m \in SUBSET repo.manifest,
     k \in {k \in SUBSET repo.skills : Cardinality(k) <= MaxImportFiles}}
=============================================================================
