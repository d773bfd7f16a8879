-------------------------- MODULE MCControlSurface --------------------------
(* A small instance of ControlSurface for TLC. *)
EXTENDS ControlSurface

MCPages == {"harness", "run", "runs", "overview", "system", "case"}
MCEndless == {"runs", "overview", "system"}
MCMaxPolls == [p \in MCPages |-> IF p = "case" THEN 2 ELSE 1]
MCMaxWindow == [p \in MCPages |-> IF p = "case" THEN 2 ELSE 1]

Capability(id, kind, effect, tier) == [id |-> id, kind |-> kind, effect |-> effect, tier |-> tier, maxAttempts |-> 2]
Node(id, kind, cap) == [id |-> id, kind |-> kind, capabilityId |-> cap]

\* One node that calls an effectful tool or a model, two names in the order that are no node.
Plan(digest, capability) ==
  [planDigest |-> digest, domain |-> "kyc", nodeOrder |-> <<"n1", "gone", "n2">>,
   nodes |-> <<Node("n1", "agent", {capability})>>,
   capabilities |-> {Capability("ask", "model", "read", "fast"), Capability("send", "tool", "external", "none")}]
PlanA == Plan("A", "send")
MCRunPlans == {PlanA, Plan("R", "ask")}
PlanB == [planDigest |-> "B", domain |-> "kyc", nodeOrder |-> <<>>,
          nodes |-> <<Node("m1", "tool", {})>>, capabilities |-> {}]

Document(plan, json, contract, shaped, verifies) ==
  [plan |-> plan, json |-> json, contract |-> contract, digestShaped |-> shaped, digestVerifies |-> verifies]
MCDocuments == {Document(PlanA, TRUE, TRUE, TRUE, TRUE), Document(PlanB, TRUE, TRUE, TRUE, TRUE),
                Document([PlanB EXCEPT !.planDigest = "C"], TRUE, TRUE, TRUE, FALSE)}

\* A subject, evidence about it, a claim derived from the evidence, and a work item
\* that produced the claim.
MCCaseCommands ==
  <<[id |-> "s", table |-> "subjects",  refs |-> {},    derivedFrom |-> {}],
    [id |-> "e", table |-> "evidence",  refs |-> {"s"}, derivedFrom |-> {}],
    [id |-> "c", table |-> "claims",    refs |-> {},    derivedFrom |-> {"e"}],
    [id |-> "w", table |-> "workItems", refs |-> {"c"}, derivedFrom |-> {}]>>
=============================================================================
