CONSTANTS
  Relays = {a, b}
  CaseRows = {1, 2}
  EvidenceRows = {3}
  BatchSize = 2
  MaxFaults = 1
  NoClaim = NoClaim
SPECIFICATION RelayFairSpec
INVARIANT MarkedMeansDelivered
INVARIANT ExtraDeliveriesExplained
PROPERTY EveryEventPublished
