---------------------------- MODULE SurfaceViews ----------------------------
(***************************************************************************)
(* The views the control surface computes from what it reads               *)
(* (apps/control-ui/src/lib/runtime-service.ts): plans, run summaries, the *)
(* run page, the overview and system pages, and the case page with its     *)
(* graph.  Every operator is a pure function of raw rows.  Timestamps,     *)
(* digests, layout and wording are left out; an optional value is a set    *)
(* with at most one element.                                               *)
(***************************************************************************)
EXTENDS Integers, Sequences, FiniteSets, SequencesExt

The(option) == CHOOSE x \in option : TRUE
Orelse(option, default) == IF option = {} THEN default ELSE The(option)

(***************************** plans ****************************************)

primitive(kind, capability) ==
  CASE kind \in {"agent", "condition", "evaluate", "aggregator"} -> kind
    [] \E c \in capability : c.kind = "model"                     -> "model"
    [] kind \in {"input", "output", "tool", "transform", "join"}  -> kind
    [] OTHER                                                      -> "transform"

effectClass(capability) ==
  CASE \A c \in capability : c.effect = "none" -> "none"
    [] \A c \in capability : c.effect = "read" -> "read_only"
    [] OTHER                                   -> "external_mutation"

\* A node the plan page and the run page show; nodes follow nodeOrder, and a
\* name in it that is no node is dropped.  A plan without an order shows its
\* nodes as they are stored.
nodeView(raw, node) ==
  LET capability == {c \in raw.capabilities : c.id \in node.capabilityId}
  IN [id           |-> node.id,
      primitive    |-> primitive(node.kind, capability),
      modelTier    |-> {c.tier : c \in {d \in capability : d.tier # "none"}},
      capabilityId |-> node.capabilityId,
      effectClass  |-> effectClass(capability),
      maxRetries   |-> Orelse({c.maxAttempts - 1 : c \in capability}, 0)]

orderedNodes(raw) ==
  LET known == SelectSeq(raw.nodeOrder, LAMBDA id : \E n \in ToSet(raw.nodes) : n.id = id)
  IN IF raw.nodeOrder = <<>> THEN raw.nodes
     ELSE [i \in DOMAIN known |-> CHOOSE n \in ToSet(raw.nodes) : n.id = known[i]]

mapPlan(raw) ==
  LET ordered == orderedNodes(raw)
  IN [planDigest |-> raw.planDigest, domain |-> raw.domain,
      nodes |-> [i \in DOMAIN ordered |-> nodeView(raw, ordered[i])]]

planNodes(plan) == ToSet(plan.nodes)
modelTiers(plan) == UNION {n.modelTier : n \in planNodes(plan)}

(***************************** runs *****************************************)

Active == {"queued", "running", "retrying"}
NeedsAttention == {"failed", "denied", "retrying", "manual_review"}

\* recentEventsPreview: the last three events, newest first.
preview(events) == Reverse(SubSeq(events, IF Len(events) > 3 THEN Len(events) - 2 ELSE 1, Len(events)))

summarizeRun(run, plan, mode, events) ==
  [runId |-> run.runId, planDigest |-> run.planDigest, domain |-> plan.domain,
   status |-> run.status, currentNodeId |-> run.currentNodeId, attempt |-> run.attempt,
   modelTiers |-> modelTiers(plan), fixture |-> mode = "Recorded",
   needsAttention |-> run.status \in NeedsAttention, recent |-> preview(events)]

\* A filter of the run list: every criterion it sets must hold.
passesFilter(f, s) ==
  /\ f.status # {} => s.status \in f.status
  /\ f.planDigest # {} => s.planDigest \in f.planDigest
  /\ f.domain # {} => s.domain \in f.domain
  /\ f.modelTier # {} => f.modelTier \cap s.modelTiers # {}
  /\ f.onlyNeedsAttention => s.needsAttention
NoFilter == [status |-> {}, planDigest |-> {}, domain |-> {}, modelTier |-> {}, onlyNeedsAttention |-> FALSE]

\* A run whose plan is not among the records read is left out of the list.
listRuns(runs, plans, mode, f) ==
  {s \in {summarizeRun(pair[1], pair[2], mode, <<>>) :
            pair \in {q \in runs \X plans : q[1].planDigest = q[2].planDigest}} : passesFilter(f, s)}

harnessSummary(plan, runs) ==
  LET matches == {r \in runs : r.planDigest = plan.planDigest}
      completed == {r \in matches : r.status = "completed"}
  IN [planDigest |-> plan.planDigest, domain |-> plan.domain, nodeCount |-> Len(plan.nodes),
      modelTiers |-> modelTiers(plan),
      capabilityCount |-> Cardinality({n \in planNodes(plan) : n.capabilityId # {}}),
      effectful |-> Cardinality({n \in planNodes(plan) : n.effectClass = "external_mutation"}),
      runs |-> Cardinality(matches), completedRuns |-> Cardinality(completed),
      completionRatePct |-> IF matches = {} THEN {} ELSE {(200 * Cardinality(completed) + Cardinality(matches))
                                                             \div (2 * Cardinality(matches))}]

listHarnessSummaries(plans, runs) == {harnessSummary(p, runs) : p \in plans}

(***************************** run page *************************************)

\* The row of the highest attempt decides; without one, the run row does.
latestAttempt(nodeId, attempts) ==
  {a \in attempts : a.nodeId = nodeId /\ \A b \in attempts : b.nodeId = nodeId => b.attempt <= a.attempt}

\* Mutant: toSorted((a, b) => a.attempt - b.attempt) picks the first attempt.
nodeStateOfFirstAttempt(nodeId, run, attempts) ==
  LET first == {a.status : a \in {x \in attempts : x.nodeId = nodeId
                   /\ \A b \in attempts : b.nodeId = nodeId => x.attempt <= b.attempt}}
  IN CASE "running" \in first   -> "executing"
       [] "completed" \in first -> "completed"
       [] "failed" \in first    -> "failed"
       [] OTHER                 -> "not_reached"

nodeState(nodeId, run, attempts) ==
  LET latest == {a.status : a \in latestAttempt(nodeId, attempts)}
  IN CASE "running" \in latest                                               -> "executing"
       [] "completed" \in latest                                             -> "completed"
       [] "failed" \in latest                                                -> "failed"
       [] run.currentNodeId = {nodeId} /\ run.status \in {"retrying", "denied"} -> run.status
       [] run.currentNodeId = {nodeId} /\ run.status = "running"              -> "executing"
       [] OTHER                                                              -> "not_reached"

nodeAttempt(node, run, attempts, receipts) ==
  LET latest == latestAttempt(node.id, attempts)
      calls == {r \in receipts : r.nodeId = node.id}
  IN [state |-> nodeState(node.id, run, attempts),
      attempt |-> Orelse({a.attempt : a \in latest}, run.attempt),
      outputValid |-> {a.status = "completed" : a \in latest},
      scope |-> node.capabilityId,
      calls |-> calls]

\* The failure banner: there when the run row carries an error code.
failureInfo(run, receipts) ==
  {[failingNode |-> run.currentNodeId,
    externalEffectOccurred |-> \E r \in receipts : r.decision = "allowed" /\ r.effect \notin {"none", "read"}]
     : code \in run.errorCode}

\* The page of a run from seven reads; an optional read that failed is {} and
\* counts as nothing.  No page without the run and its plan.
runDetail(runRead, eventsRead, attemptsRead, receiptsRead, plans, mode) ==
  LET attempts == UNION attemptsRead
      receipts == UNION receiptsRead
      events == Orelse(eventsRead, <<>>)
  IN {[summary |-> summarizeRun(pair[1], pair[2], mode, events),
       nodes |-> [id \in {n.id : n \in planNodes(pair[2])} |->
                    nodeAttempt(CHOOSE n \in planNodes(pair[2]) : n.id = id, pair[1], attempts, receipts)],
       failure |-> failureInfo(pair[1], receipts),
       events |-> events]
        : pair \in {q \in runRead \X plans : q[1].planDigest = q[2].planDigest}}

(***************************** overview and system **************************)

countOf(runs, statuses) == Cardinality({r \in runs : r.status \in statuses})

overview(summaries, runs, mode, services) ==
  [harnesses |-> Cardinality(summaries),
   active |-> {r \in runs : r.status \in Active},
   issues |-> {r \in runs : r.needsAttention},
   needsAttentionCount |-> countOf(runs, {"failed", "denied", "retrying"}),
   fixture |-> mode = "Recorded",
   globalReadiness |-> IF "Unavailable" \in services THEN "Degraded" ELSE "Ready"]

\* The system page reads the overview and then the runs once more.
systemStatus(over, runs) ==
  [globalReadiness |-> over.globalReadiness,
   ready |-> countOf(runs, {"queued"}), leased |-> countOf(runs, {"running"}),
   retrying |-> countOf(runs, {"retrying"}),
   activeWorkers |-> IF countOf(runs, {"running"}) > 0 THEN 1 ELSE 0]

(***************************** case page ************************************)

\* An edge is added once, and only between two nodes of the graph.
addEdges(candidates, ids) == {e \in candidates : e.from \in ids /\ e.to \in ids}

\* The graph: the case itself, every object read, the lineage edges read, and
\* the references that objects carry (a subject or a work item hangs on the case).
buildCaseGraph(caseId, objects, lineage) ==
  LET ids == {caseId} \cup {o.id : o \in objects}
      hangs == {[from |-> caseId, to |-> o.id] : o \in {x \in objects : x.table \in {"subjects", "workItems", "executionRefs"}}}
      refs == UNION {{IF o.table = "workItems" THEN [from |-> o.id, to |-> r] ELSE [from |-> r, to |-> o.id]
                        : r \in o.refs} : o \in objects}
  IN [nodes |-> ids, edges |-> addEdges(lineage \cup hangs \cup refs, ids)]

caseDetail(caseRow, objects, lineage, events) ==
  [caseSequence |-> caseRow.caseSequence, status |-> caseRow.status,
   objects |-> objects,
   graph |-> buildCaseGraph(caseRow.caseId, objects, lineage),
   activities |-> events,
   latestSequence |-> IF events = <<>> THEN 0 ELSE Last(events).caseSequence]
=============================================================================
