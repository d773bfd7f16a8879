---------------------------- MODULE MCAuthoring ----------------------------
(***************************************************************************)
(* A small author plane for TLC: ann writes and could approve, cy only     *)
(* approves, rex only reads; a repository with one agent and its skills.   *)
(***************************************************************************)
EXTENDS Authoring

CONSTANTS
  h1, h2,
  Ops1, Ops2,     \* what each handler is used for
  Edited          \* the sources an update may bring

MCRoles(person) ==
  CASE person = "ann" -> {"Harness.Author", "Harness.Approver"}
    [] person = "cy"  -> {"Harness.Approver"}
    [] person = "rex" -> {"Harness.Reader"}

MCToken(person) == [verified |-> TRUE, tid |-> {"entra"}, client |-> {"control-surface"},
                    subject |-> {person}, app |-> FALSE, roles |-> MCRoles(person)]

MCCopy == [subject |-> "cy", tenant |-> "tenant_demo", roles |-> {"Harness.Approver"}]

MCWrite == {"command", "payload", "schema"}

\* What an agent imported without a manifest gets.
MCDefaults == [id |-> "a1", capability |-> {}, caseWrites |-> <<>>, portable |-> TRUE,
               profile |-> "model.standard.v1", target |-> "local_http"]

MCSkill(id) == [id |-> id, ok |-> TRUE, allowed |-> {"c1"}, status |-> "active"]

MCRepo == [defaults |-> MCDefaults, manifest |-> {}, skills |-> {MCSkill("k1")}]

MCNode(id, kind) == [emptyNode EXCEPT !.id = id, !.kind = kind]

\* An agent node whose agent and capability resolve from the registries, and a tool that names a capability unbound.
MCReview == [defaultAuthoringSources EXCEPT
  !.nodes = <<@[1], [MCNode("review", "evaluate") EXCEPT !.agentRef = {"a1"}], @[2]>>,
  !.edges = <<[from |-> "intake", to |-> "review"], [from |-> "review", to |-> "result"]>>,
  !.bindings = [id \in {"review"} |-> "c1"]]

MCUnbound == [defaultAuthoringSources EXCEPT
  !.nodes = <<@[1], [MCNode("lookup", "tool") EXCEPT !.capability = {"c1"}], @[2]>>,
  !.edges = <<[from |-> "intake", to |-> "lookup"], [from |-> "lookup", to |-> "result"]>>]

MCCycle == [defaultAuthoringSources EXCEPT
  !.edges = @ \o <<[from |-> "result", to |-> "intake"]>>]

MCSources(name) ==
  CASE name = "review" -> MCReview [] name = "unbound" -> MCUnbound [] name = "cycle" -> MCCycle

MCArgs(op) ==
  CASE op = "create" -> {[sources |-> defaultAuthoringSources]}
    [] op = "update" -> {[sources |-> MCSources(name)] : name \in Edited}
    [] op = "attach" -> {[agent |-> "a1", node |-> "intake", mode |-> "insert-after",
                          newNode |-> "intake-a1"]}
    [] op = "caseWrites" -> {[node |-> "result", writes |-> w] : w \in {<<MCWrite>>}}
    [] op = "import" -> {[repo |-> MCRepo]}
    [] OTHER -> {[none |-> TRUE]}

MCRequests ==
  UNION {{[person |-> p, bearer |-> {MCToken(p)}, actor |-> {}, roles |-> {}, tenant |-> {},
           type |-> "human", internal |-> i, action |-> PlatformAction(op), op |-> op, arg |-> a]
            : p \in {"ann", "cy", "rex"}, a \in MCArgs(op), i \in {{}, {MCCopy}}} : op \in Ops1 \cup Ops2}

MCRegistrations == [agents |-> {}, skills |-> {},
                    capabilities |-> {[id |-> "c1", ok |-> TRUE, effect |-> "read",
                                       status |-> "active"]}]
MCServes == [h \in {h1, h2} |-> IF h = h1 THEN Ops1 ELSE Ops2]
=============================================================================
