CONSTANTS
  PLATFORM_MODE = "azure"
  IDENTITY_PROVIDER = {}
  Environment = {"ENTRA_TENANT_ID", "ENTRA_API_AUDIENCE", "PLATFORM_TENANT_ID", "EXECUTION_ENVELOPE_PRIVATE_KEY_PEM", "RUNTIME_GRANT_PUBLIC_KEY_PEM"}
  UnsafeUrls = {}
  LocalAutologin = TRUE
  AutomatedApproval = TRUE
  AllowedClients = {"control-surface"}
  ModelProfiles = {"model.standard.v1"}
  Handlers = {h1, h2}
  h1 = h1
  h2 = h2
  Serves <- MCServes
  Ops1 = {"create", "attach", "caseWrites", "compile", "evaluate", "approve", "publish"}
  Ops2 = {"update", "approve", "import"}
  Edited = {"review"}
  Requests <- MCRequests
  Registrations <- MCRegistrations
  MaxRevision = 2
  MaxFaults = 1
SPECIFICATION Spec
CHECK_DEADLOCK FALSE
INVARIANT OnlyApprovedPlansAreAdmitted
INVARIANT EventsNameTheirActor
INVARIANT CompiledPlansResolve
INVARIANT ImportedAgentsAreComplete
PROPERTY EditsBuildOnTheirBase
PROPERTY DutiesStaySeparate
