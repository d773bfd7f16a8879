CONSTANTS
  Clients <- Client
  CommandOf <- Command
  KeyOf <- Key
  CreateCommand = "create"
  CreateKey = "create"
  OccurredForms = {"absent", "seconds"}
  NoDigest = NoDigest
SPECIFICATION Spec
INVARIANT HonestLedgerVerifies
