CONSTANTS
  FirstPlan <- PlanA
  RunPlans <- MCRunPlans
  Documents <- MCDocuments
  Inputs = {"blank", "x", "y"}
  Blank = "blank"
  CaseCommands <- MCCaseCommands
  PlanLimit = 1
  EventLimit = 3
  ReceiptLimit = 1
  RunLimit = 1
  PollSlots = {p1, p2}
  MaxAttempt = 2
  MaxOpenings = 2
  MaxSubmissions = 2
  MaxWindow <- MCMaxWindow
  MaxPolls <- MCMaxPolls
  Endless <- MCEndless
SPECIFICATION FairSpec
INVARIANT SubmissionsStartOneRun
INVARIANT RunPagesInventNothing
INVARIANT CasePagesAreGrounded
PROPERTY FinishedRunsShowAsOver
CHECK_DEADLOCK FALSE
