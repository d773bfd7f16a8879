CONSTANTS
  Runs = {r1}
  Slots = {w1, w2}
  SweepSlots = {w1}
  AttemptLimit = 2
  MaxEpoch = 3
  MaxCrashes = 1
  NoRun = NoRun
  NoSlot = NoSlot
SPECIFICATION FairSpec
PROPERTY CancellationTakesEffect
PROPERTY RunSettlesOrStrands
INVARIANT OneExecutorPerAttempt
INVARIANT FenceImpliesAuthority
INVARIANT CancellationIsFinal
INVARIANT JournalAgreesWithRow
PROPERTY OnlyAuthoritySettles
PROPERTY ImplementsLifecycle
