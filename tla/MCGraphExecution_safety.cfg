CONSTANTS
  TextLess <- MCTextLess
  Plans <- MCPlans
  Input <- MCInput
  Results <- MCResults
  MaxAttempts = 2
  MaxFaults = 1

SPECIFICATION Spec

INVARIANTS
  JoinSeesEveryBranch
  CompletedRunIsWhole
  StatusIsNeverGuessed
  ValuesMeetTheirMeaning

CHECK_DEADLOCK FALSE
