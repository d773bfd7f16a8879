CONSTANTS
  Clients <- Client
  CommandOf <- Command
  KeyOf <- Key
  CreateCommand = "create"
  CreateKey = "create"
  OccurredForms = {"absent", "millis"}
  NoDigest = NoDigest
SPECIFICATION Spec
INVARIANT AppliedOnce
INVARIANT TransactionIsWhole
INVARIANT BuiltOnPredecessor
INVARIANT AnswersAreTrue
INVARIANT HonestLedgerVerifies
