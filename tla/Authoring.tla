----------------------------- MODULE Authoring -----------------------------
(***************************************************************************)
(* The author plane: the /v1/authoring routes of apps/control-api/src/app  *)
(* over one draft, with the registries they read, one database statement   *)
(* per step (packages/persistence: createAuthoringDraft ... listAuthoring- *)
(* Skills).  No handler holds a transaction: between two of its statements *)
(* any other handler may run, and the process may die.                     *)
(*                                                                         *)
(* A draft goes DRAFT -> COMPILED -> EVALUATED -> APPROVED -> PUBLISHED;   *)
(* every edit takes it back to DRAFT.  Edits are guarded by the revision   *)
(* the client last saw, lifecycle transitions by the status alone.  The    *)
(* event that names the actor is a statement of its own, after the update. *)
(***************************************************************************)
EXTENDS Identity, PlanCompiler

CONSTANTS
  Handlers,       \* requests in flight
  Serves,         \* bound: the operations each handler is used for (the code takes any)
  Requests,       \* what browsers send: a credential, headers, an operation and its body
  Registrations,  \* contracts that may be registered one by one, per registry
  MaxRevision,    \* bound on the revision of the draft
  MaxFaults       \* bound on requests that die between two statements

\* A request comes in on a route, and may carry copies of the edge's headers; the sources it
\* brings are parsed.
ASSUME RequestAssumption ==
  \A q \in Requests :
    /\ q.op \in {"create", "update", "attach", "caseWrites", "compile", "evaluate", "approve",
                 "publish", "import"}
    /\ "internal" \in DOMAIN q
    /\ q.op \in {"create", "update"} => IsSources(q.arg.sources)

VARIABLES
  row,            \* authoring_drafts
  events,         \* authoring_events
  registry,       \* agent_registry, skill_registry, capability_registry
  plans,          \* plans admitted by publication
  local,          \* where each handler stands
  faults,
  approvedPlans,  \* history: compiled_plan of the row when it became APPROVED
  contributed,    \* history: who changed or compiled the content of the draft
  acknowledged    \* history: those whose contributing request was answered

vars == <<row, events, registry, plans, local, faults, approvedPlans, contributed, acknowledged>>
shared == <<row, events, registry, plans, approvedPlans, contributed, acknowledged>>

Idle == [pc |-> "idle"]

NoRow == [status |-> "NONE", revision |-> 0, sources |-> defaultAuthoringSources, plan |-> {},
          report |-> {}, approvedBy |-> {}, publishedDigest |-> {}]

Rows(table) == SetToSeq({table[id] : id \in DOMAIN table})
Active(items) == filter(items, LAMBDA c : c.status = "active")
With(table, item) == [id \in DOMAIN table \cup {item.id} |->
                        IF id = item.id THEN item ELSE table[id]]

Init ==
  /\ assertPlatformInvariants(controlApiInvariants)
  /\ row = NoRow
  /\ events = {}
  /\ registry = [agents |-> [id \in {} |-> {}], skills |-> [id \in {} |-> {}],
                 capabilities |-> [id \in {} |-> {}]]
  /\ plans = {}
  /\ local = [h \in Handlers |-> Idle]
  /\ faults = 0
  /\ approvedPlans = {} /\ contributed = {} /\ acknowledged = {}

----------------------------------------------------------------------------
(* A request arrives: guard.require, then the checks on its body.          *)

PlatformAction(op) ==
  CASE op \in {"create", "update", "attach", "caseWrites"} -> "draft.write"
    [] op = "compile"  -> "draft.compile"
    [] op = "evaluate" -> "draft.evaluate"
    [] op = "approve"  -> "draft.approve"
    [] op = "publish"  -> "draft.publish"
    [] op = "import"   -> "agent.register"

\* The tables a handler reads before it decides, the draft ahead of the registries in compile.
FirstReads(op) ==
  CASE op = "attach" -> {"draft", "agents", "skills"}
    [] op \in {"caseWrites", "compile", "evaluate", "publish"} -> {"draft"}
    [] OTHER -> {}

FirstStep(op) ==
  CASE op = "create" -> "insert"
    [] op = "update" -> "update"
    [] op = "approve" -> "contributors"
    [] op = "import" -> "import"
    [] OTHER -> "read"

NotRead == [draft |-> {}, agents |-> {}, skills |-> {}, capabilities |-> {}]

\* The requests guard.require lets in, each with the actor its handler runs for.
AuthorizedRequests ==
  UNION {{[op |-> q.op, arg |-> q.arg, person |-> q.person, actor |-> p.subject]
            : p \in requirePrincipal(q, PlatformAction(q.op))} : q \in Requests}

Edits == {"update", "attach", "caseWrites"}

\* The handler of an accepted request: who is answered already matters to approve and publish.
Started(q, expected, bundle) ==
  [pc |-> FirstStep(q.op), op |-> q.op, actor |-> q.actor, person |-> q.person,
   expected |-> expected, arg |-> q.arg, bundle |-> bundle, todo |-> FirstReads(q.op),
   seen |-> NotRead, base |-> {}, plan |-> {}, event |-> "",
   next |-> IF q.op \in {"create", "update"} THEN {q.arg.sources} ELSE {},
   before |-> IF q.op \in {"approve", "publish"} THEN acknowledged ELSE {}]

\* The revision the client of an edit names is one it has read.
Revisions(q) == IF q.op \in Edits THEN 1 .. row.revision ELSE {0}

Bundles(q) == IF q.op = "import" THEN importAgentBundle(q.arg.repo) ELSE {[skills |-> {}]}

Receive(h) ==
  /\ local[h] = Idle
  /\ \E q \in AuthorizedRequests :
       /\ q.op \in Serves[h]
       /\ q.op = "create" => row = NoRow /\ \A g \in Handlers : local[g].pc # "insert"
       /\ q.op \notin {"create", "import"} => row # NoRow
       /\ q.op \in Edits => row.revision < MaxRevision
       /\ \E expected \in Revisions(q), bundle \in Bundles(q) :
            local' = [local EXCEPT ![h] = Started(q, expected, bundle)]
  /\ UNCHANGED <<shared, faults>>

----------------------------------------------------------------------------
(* Reads, and what the handler decides when it has them all.               *)

Table(table) ==
  IF table = "draft" THEN row ELSE Rows(registry[table])

Seen(l, table) == CHOOSE x \in l.seen[table] : TRUE

\* The handler goes on with the sources it read, the ones it will write and the plan it holds;
\* nothing else it read is used again.
Decided(l, pc, base, next, plan) ==
  [l EXCEPT !.pc = pc, !.base = base, !.next = next, !.plan = plan, !.seen = NotRead,
            !.arg = [none |-> TRUE]]

afterAttach(l) ==
  LET d == Seen(l, "draft")
      agents == filter(Seen(l, "agents"), LAMBDA a : a.id = l.arg.agent)
      skills == Seen(l, "skills")
  IN IF d = NoRow \/ agents = <<>> THEN Idle
     ELSE IF ~CanAttach(d.sources, agents[1], skills, l.arg.node, l.arg.mode, l.arg.newNode)
     THEN Idle
     ELSE Decided(l, "update", {d.sources},
                  {applyAgentToAuthoringSources(d.sources, agents[1], skills, l.arg.node,
                                                l.arg.mode, l.arg.newNode)}, {})

afterCaseWrites(l) ==
  LET d == Seen(l, "draft")
  IN IF d = NoRow \/ ~d.sources.yaml \/ l.arg.node \notin Ids(d.sources.nodes) THEN Idle
     ELSE LET s == updateNodeCaseWrites(d.sources, l.arg.node, l.arg.writes)
          IN IF \E e \in analyzeAuthoringSources(s) :
                  e.code = "author.case_write_invalid" /\ e.at = l.arg.node
             THEN Idle
             ELSE Decided(l, "update", {d.sources}, {s}, {})

\* Compile reads the draft, then the registries.  What it materializes is stored before harnessc
\* runs; both work on the sources this handler read.
afterCompile(l) ==
  LET d == Seen(l, "draft")
      capabilities == Active(Seen(l, "capabilities"))
      s == materializeRegisteredContracts(d.sources, Active(Seen(l, "agents")),
                                          Active(Seen(l, "skills")), capabilities)
  IN IF d.status # "DRAFT" \/ ~d.sources.yaml THEN Idle
     ELSE IF l.seen.agents = {} THEN [l EXCEPT !.todo = {"agents", "skills", "capabilities"}]
     ELSE [Decided(l, IF s # d.sources THEN "update" ELSE "lifecycle", {d.sources}, {s},
                   compileAuthoringDraft(s, capabilities)) EXCEPT !.expected = d.revision]

afterEvaluate(l) ==
  LET d == Seen(l, "draft")
  IN IF \E s \in d.plan : evaluateCompiledPlan(compile(s))
     THEN Decided(l, "lifecycle", {}, {}, d.plan) ELSE Idle

\* Mutant: any compiled draft may be published.
afterPublishAnyStatus(l) ==
  LET d == Seen(l, "draft")
  IN IF d.plan # {} THEN Decided(l, "admit", {}, {}, d.plan) ELSE Idle

afterPublish(l) ==
  LET d == Seen(l, "draft")
  IN IF d.plan # {} /\ d.status = "APPROVED" THEN Decided(l, "admit", {}, {}, d.plan) ELSE Idle

AfterReads(l) ==
  CASE l.op = "attach"     -> afterAttach(l)
    [] l.op = "caseWrites" -> afterCaseWrites(l)
    [] l.op = "compile"    -> afterCompile(l)
    [] l.op = "evaluate"   -> afterEvaluate(l)
    [] l.op = "publish"    -> afterPublish(l)

Read(h, table) ==
  /\ local[h].pc = "read"
  /\ table \in local[h].todo
  /\ LET l == [local[h] EXCEPT !.seen[table] = {Table(table)}, !.todo = @ \ {table}]
     IN local' = [local EXCEPT ![h] = IF l.todo = {} THEN AfterReads(l) ELSE l]
  /\ UNCHANGED <<shared, faults>>

----------------------------------------------------------------------------
(* Writes.  Each is one statement; a statement that matches no row refuses *)
(* the request.                                                            *)

Refuse(h) == local' = [local EXCEPT ![h] = Idle]

\* The next statement inserts the event naming the actor.
ThenEvent(h, type) == local' = [local EXCEPT ![h].pc = "event", ![h].event = type]

createAuthoringDraft(h) ==
  /\ local[h].pc = "insert"
  /\ row' = [NoRow EXCEPT !.status = "DRAFT", !.revision = 1,
                         !.sources = CHOOSE s \in local[h].next : TRUE]
  /\ contributed' = contributed \cup {local[h].actor}
  /\ ThenEvent(h, "draft.created")
  /\ UNCHANGED <<events, registry, plans, faults, approvedPlans, acknowledged>>

\* Mutant: the revision is not compared.
UpdateMatchesAnyRevision(h) == row.status # "PUBLISHED"

\* The where clause of updateAuthoringSources.
UpdateMatches(h) == row.revision = local[h].expected /\ row.status # "PUBLISHED"

updateAuthoringSources(h) ==
  /\ local[h].pc = "update"
  /\ IF UpdateMatches(h)
     THEN /\ row' = [NoRow EXCEPT !.status = "DRAFT", !.revision = row.revision + 1,
                                 !.sources = CHOOSE s \in local[h].next : TRUE]
          /\ contributed' = contributed \cup {local[h].actor}
          /\ ThenEvent(h, "draft.updated")
     ELSE Refuse(h) /\ UNCHANGED <<row, contributed>>
  /\ UNCHANGED <<events, registry, plans, faults, approvedPlans, acknowledged>>

\* Mutant: saving the sources is not authorship.
compilersOnly == {e.actor : e \in {e \in events : e.type = "draft.compiled"}}

\* Actors of the events that shaped the content.
authoringContributors ==
  {e.actor : e \in {e \in events : e.type \in {"draft.created", "draft.updated", "draft.compiled"}}}

CheckDuties(h) ==
  /\ local[h].pc = "contributors"
  /\ IF local[h].actor \in authoringContributors THEN Refuse(h)
     ELSE local' = [local EXCEPT ![h].pc = "lifecycle"]
  /\ UNCHANGED <<shared, faults>>

\* publish admits the plan it read before duties and status are checked.
AdmitPlan(h) ==
  /\ local[h].pc = "admit"
  /\ plans' = plans \cup local[h].plan
  /\ local' = [local EXCEPT ![h].pc = "contributors"]
  /\ UNCHANGED <<row, events, registry, faults, approvedPlans, contributed, acknowledged>>

Transition(op) ==
  CASE op = "compile"  -> [from |-> "DRAFT",     to |-> "COMPILED",  event |-> "draft.compiled"]
    [] op = "evaluate" -> [from |-> "COMPILED",  to |-> "EVALUATED", event |-> "draft.evaluated"]
    [] op = "approve"  -> [from |-> "EVALUATED", to |-> "APPROVED",  event |-> "draft.approved"]
    [] op = "publish"  -> [from |-> "APPROVED",  to |-> "PUBLISHED", event |-> "draft.published"]

\* The row after the update, its plan, report and digest set by the operation that has one.
Transitioned(h) ==
  LET l == local[h]
  IN [row EXCEPT !.status = Transition(l.op).to,
                 !.plan = IF l.op = "compile" THEN l.plan ELSE @,
                 !.report = IF l.op = "evaluate" THEN l.plan ELSE @,
                 !.approvedBy = IF l.op = "approve" THEN {l.actor} ELSE @,
                 !.publishedDigest = IF l.op = "publish" THEN l.plan ELSE @]

setAuthoringLifecycle(h) ==
  /\ local[h].pc = "lifecycle"
  /\ IF row.status = Transition(local[h].op).from /\ (local[h].op = "compile" => local[h].plan # {})
     THEN /\ row' = Transitioned(h)
          /\ contributed' = IF local[h].op = "compile" THEN contributed \cup {local[h].actor}
                            ELSE contributed
          /\ approvedPlans' = IF local[h].op = "approve" THEN approvedPlans \cup row.plan
                              ELSE approvedPlans
          /\ ThenEvent(h, Transition(local[h].op).event)
     ELSE Refuse(h) /\ UNCHANGED <<row, contributed, approvedPlans>>
  /\ UNCHANGED <<events, registry, plans, faults, acknowledged>>

\* harnessc is missing, times out or rejects the workflow: compile answers 422.
CompilerFails(h) ==
  /\ local[h].pc = "lifecycle" /\ local[h].op = "compile"
  /\ Refuse(h)
  /\ UNCHANGED <<shared, faults>>

\* The last statement of a handler, except that compile goes on after storing what it materialized.
InsertEvent(h) ==
  LET l == local[h]
      goesOn == l.op = "compile" /\ l.event = "draft.updated"
  IN /\ l.pc = "event"
     /\ events' = events \cup {[type |-> l.event, actor |-> l.actor, person |-> l.person]}
     /\ local' = [local EXCEPT ![h] = IF goesOn THEN [l EXCEPT !.pc = "lifecycle", !.event = ""]
                                     ELSE Idle]
     /\ acknowledged' = IF ~goesOn /\ l.op \notin {"evaluate", "approve", "publish"}
                        THEN acknowledged \cup {l.actor} ELSE acknowledged
     /\ UNCHANGED <<row, registry, plans, faults, approvedPlans, contributed>>

----------------------------------------------------------------------------
(* Registries.  An import registers its skills in parallel, then the agent. *)

\* registerAuthoringAgent, registerAuthoringSkill, registerCapability
Register(table, item) ==
  registry' = [registry EXCEPT ![table] = With(@, item)]

\* Registering is open to whoever the guard lets through.
RegisterActions ==
  {a \in {"capability.register", "agent.register"} : \E q \in Requests : requirePrincipal(q, a) # {}}

RegisterAction(table) == IF table = "capabilities" THEN "capability.register" ELSE "agent.register"

RegisterOne(table) ==
  /\ RegisterAction(table) \in RegisterActions
  /\ \E item \in Registrations[table] :
       /\ item.id \in DOMAIN registry[table] => registry[table][item.id] # item
       /\ Register(table, item)
  /\ UNCHANGED <<row, events, plans, local, faults, approvedPlans, contributed, acknowledged>>

ImportSkill(h) ==
  /\ local[h].pc = "import"
  /\ \E k \in local[h].bundle.skills :
       /\ Register("skills", k)
       /\ local' = [local EXCEPT ![h].bundle.skills = @ \ {k}]
  /\ UNCHANGED <<row, events, plans, faults, approvedPlans, contributed, acknowledged>>

\* Mutant: the agent is registered while its skills still are.
ImportAgentEarly(h) ==
  /\ local[h].pc = "import"
  /\ Register("agents", local[h].bundle.agent)
  /\ local' = [local EXCEPT ![h] = Idle]
  /\ UNCHANGED <<row, events, plans, faults, approvedPlans, contributed, acknowledged>>

ImportAgent(h) ==
  /\ local[h].pc = "import"
  /\ local[h].bundle.skills = {}
  /\ Register("agents", local[h].bundle.agent)
  /\ local' = [local EXCEPT ![h] = Idle]
  /\ UNCHANGED <<row, events, plans, faults, approvedPlans, contributed, acknowledged>>

\* The process dies, or the connection is lost, between two statements of a handler.  One that
\* has written nothing yet leaves no trace, so only the others are looked at.
Abort(h) ==
  /\ \/ local[h].pc \in {"event", "import"}
     \/ local[h].pc \in {"contributors", "lifecycle"} /\ local[h].op = "publish"
     \/ local[h].pc = "lifecycle" /\ local[h].op = "compile"
  /\ faults < MaxFaults
  /\ faults' = faults + 1
  /\ Refuse(h)
  /\ UNCHANGED shared

Next ==
  \/ \E h \in Handlers :
       \/ Receive(h)
       \/ \E table \in {"draft", "agents", "skills", "capabilities"} : Read(h, table)
       \/ createAuthoringDraft(h) \/ updateAuthoringSources(h)
       \/ CheckDuties(h) \/ AdmitPlan(h) \/ setAuthoringLifecycle(h) \/ CompilerFails(h)
       \/ InsertEvent(h) \/ ImportSkill(h) \/ ImportAgent(h) \/ Abort(h)
  \/ \E table \in {"agents", "skills", "capabilities"} : RegisterOne(table)

Spec == Init /\ [][Next]_vars

----------------------------------------------------------------------------
(* Properties *)

\* An edit that lands was computed from the sources it replaces: attach, case-writes and the
\* materialization of compile read the draft in one statement and write in another, and the
\* revision each client names keeps an edit in between from being overwritten unseen.
EditsBuildOnTheirBase ==
  [][\A h \in Handlers :
       local[h].pc = "update" /\ local[h].op # "update" /\ row'.revision > row.revision
         /\ local'[h].pc = "event"
       => local[h].base = {row.sources}]_vars

\* Publication admits a plan that some approver approved, whatever edits, compilations and
\* refused publications ran in between.
OnlyApprovedPlansAreAdmitted == plans \subseteq approvedPlans

\* Nobody approves or publishes a draft after the answer to a request with which the same
\* person changed or compiled it (SeparationOfDutiesError).
DutiesStaySeparate ==
  [][\A h \in Handlers :
       local[h].pc = "lifecycle" /\ local[h].op \in {"approve", "publish"} /\ local'[h].pc = "event"
       => local[h].actor \notin local[h].before]_vars

Credentials == UNION {{[person |-> q.person, token |-> t] : t \in q.bearer} : q \in Requests}

EventAction(type) ==
  CASE type \in {"draft.created", "draft.updated"} -> "draft.write"
    [] type = "draft.compiled"  -> "draft.compile"
    [] type = "draft.evaluated" -> "draft.evaluate"
    [] type = "draft.approved"  -> "draft.approve"
    [] type = "draft.published" -> "draft.publish"

\* The audit trail names who signed in at the edge, and that person's roles allow the operation.
EventsNameTheirActor ==
  \A e \in events :
    /\ e.actor = e.person
    /\ \E c \in Credentials : c.person = e.person
                            /\ EventAction(e.type) \in actionsForRoles(c.token.roles)

\* Whatever the registries held when it was compiled, a stored plan is executable on its own:
\* an acyclic graph, every binding backed by an embedded capability and a permission envelope,
\* every agent node's contract and the skills of each contract embedded.
CompiledPlansResolve ==
  \A s \in plans \cup row.plan :
    LET p == compile(s)
    IN /\ ToSet(p.nodeOrder) = Ids(p.nodes)
       /\ \A e \in ToSet(p.edges) : \E i, j \in DOMAIN p.nodeOrder :
            i < j /\ p.nodeOrder[i] = e.from /\ p.nodeOrder[j] = e.to
       /\ {e.nodeId : e \in p.permissionEnvelopes} = DOMAIN s.bindings
       /\ {e.capability : e \in p.permissionEnvelopes} = Ids(p.capabilities)
       /\ UNION {n.agentRef : n \in AgentNodes(p)} \subseteq Ids(p.agents)
       /\ UNION {a.skillIds : a \in ToSet(p.agents)} \subseteq Ids(p.skills)

\* An agent an import registered finds its skills registered, however far the import got.
ImportedAgentsAreComplete ==
  \A id \in DOMAIN registry.agents :
    registry.agents[id] \notin Registrations.agents
      => registry.agents[id].skillIds \subseteq DOMAIN registry.skills
=============================================================================
