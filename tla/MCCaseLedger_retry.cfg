CONSTANTS
  Clients <- Client
  CommandOf <- Command
  KeyOf <- Key
  CreateCommand = "create"
  CreateKey = "create"
  OccurredForms = {"absent"}
  NoDigest = NoDigest
SPECIFICATION Spec
INVARIANT RepeatedOperationIsAnswered
