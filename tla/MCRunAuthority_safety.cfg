CONSTANTS
  PLATFORM_MODE = "local"
  IDENTITY_PROVIDER = {}
  Environment = {"EDGE_SERVICE_TOKEN", "RUNTIME_SERVICE_TOKEN"}
  UnsafeUrls = {}
  LocalAutologin = FALSE
  AutomatedApproval = FALSE
  AllowedClients = {}
  MaxAttempts = 2
  Workers = {"w1"}
  PlanWrites = {"RecordClaim"}
  CommandTypes = {"RecordClaim", "RecordFact"}
  Permitted = TRUE
  MaxFaults = 1
  CaseRequests <- MCCaseRequests
SPECIFICATION Spec
CHECK_DEADLOCK FALSE
INVARIANT AgentEntriesAreGranted
INVARIANT CompletedMeansWritten
PROPERTY OnlyOwnerMovesTheRun
