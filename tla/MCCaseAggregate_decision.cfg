CONSTANTS
  Evidence = {"e1"}
  Claims = {"c1"}
  Facts = {"f1"}
  Findings = {"g1"}
  Contradictions = {"x1"}
  WorkItems = {"w1"}
  Recommendations = {r1, r2}
  Gates = {"k1"}
  Dispositions = {d1, d2}
  Notes = {"n1"}
  Principals = {agent, analyst}
  Reviewers = {analyst}
  RequireScan = FALSE
  Nobody = Nobody
  NoGate = NoGate
  NoDisposition = NoDisposition
SYMMETRY DecisionSymmetry
SPECIFICATION AggregateSpec
CHECK_DEADLOCK FALSE
INVARIANT StatusMatchesDisposition
INVARIANT DispositionIsAuthorized
INVARIANT FactsRestOnEvidence
