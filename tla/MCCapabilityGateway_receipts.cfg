CONSTANTS
  Handlers = {h1, h2}
  Invocations = {tool, model, other}
  ModelInvocations = {model}
  Digests = {d1, d2}
  MaxCapabilityCalls = 3
  MaxModelCalls = 1
  MaxCostUsd = 1
  CallCosts = {1}
  NoCost = NoCost
  MaxFence = 2
  NoInvocation = NoInvocation
  NoDigest = NoDigest
SYMMETRY GatewaySymmetry
SPECIFICATION Spec
INVARIANT OneResultPerInvocation
INVARIANT BudgetsHold
INVARIANT BilledAtMostOnce
PROPERTY NoRepeatAfterReturn
