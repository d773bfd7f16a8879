CONSTANTS
  Runs = {r1}
  Slots = {w1}
  SweepSlots = {w1}
  AttemptLimit = 2
  MaxEpoch = 3
  MaxCrashes = 0
  NoRun = NoRun
  NoSlot = NoSlot
SPECIFICATION FairSpec
PROPERTY EveryRunSettles
