----------------------------- MODULE CaseLedger -----------------------------
(***************************************************************************)
(* How commands reach a case and its ledger                                *)
(* (packages/case-store/src/index.ts: createKycCase, submitBusinessCommand,*)
(* appendCaseEvent, writeReceipt, verifyCaseLedger), for one case.         *)
(*                                                                         *)
(* A client reads the case sequence, builds a command on it and posts it.  *)
(* The runtime's executeCaseWrites names a write by run, node and index,   *)
(* so every attempt of a run sends the same commandId, each under its own  *)
(* idempotency key: two attempts are two clients with one command.  An     *)
(* interactive client has its own command and key and may post again.      *)
(*                                                                         *)
(* Every post is one transaction under the row lock of the case.  What the *)
(* command does to the case is CaseAggregate's business; here it is either *)
(* accepted or refused.  A digest is the value it is computed from.        *)
(***************************************************************************)
EXTENDS Naturals, Sequences

CONSTANTS
  Clients,
  CommandOf,     \* [Clients -> commands]: commandId
  KeyOf,         \* [Clients -> keys]: idempotencyKey
  CreateCommand, \* command of the CreateCase receipt
  CreateKey,
  OccurredForms, \* how occurredAt may be written: "absent", "millis", "seconds"
  NoDigest

ASSUME FormAssumption == OccurredForms \subseteq {"absent", "millis", "seconds"}
ASSUME CreateAssumption ==
  \A c \in Clients : CommandOf[c] # CreateCommand /\ KeyOf[c] # CreateKey

VARIABLES
  sequence,  \* cases.case_sequence; 0 while there is no case
  ledger,    \* case_events, in the order of their sequence
  head,      \* event_chain_heads.event_digest
  receipts,  \* command_receipts
  outbox,    \* case_sequence of the outbox rows
  step,      \* what a client does next
  view,      \* the sequence it read
  form,      \* how it writes occurredAt
  reply,     \* the answer to its last post
  replySeq   \* caseSequence of an accepting answer

caseVars   == <<sequence, ledger, head, receipts, outbox>>
clientVars == <<step, view, form, reply, replySeq>>
vars       == <<caseVars, clientVars>>

Commands == {CommandOf[c] : c \in Clients} \cup {CreateCommand}
Keys     == {KeyOf[c] : c \in Clients} \cup {CreateKey}
Replies  == {"none", "accepted", "replayed", "idempotency_conflict", "sequence_conflict",
             "refused", "command_conflict"}

TypeOK ==
  /\ sequence \in Nat
  /\ \A n \in 1..Len(ledger) : ledger[n].command \in Commands /\ ledger[n].sequence = n
  /\ \A x \in receipts : x.command \in Commands /\ x.key \in Keys /\ x.sequence \in 1..sequence
  /\ outbox \subseteq 1..sequence
  /\ step \in [Clients -> {"start", "ready", "answered"}]
  /\ view \in [Clients -> Nat]
  /\ form \in [Clients -> OccurredForms \cup {"absent"}]
  /\ reply \in [Clients -> Replies]
  /\ replySeq \in [Clients -> Nat]

Init ==
  /\ sequence = 0
  /\ ledger = <<>>
  /\ head = NoDigest
  /\ receipts = {}
  /\ outbox = {}
  /\ step = [c \in Clients |-> "start"]
  /\ view = [c \in Clients |-> 0]
  /\ form = [c \in Clients |-> "absent"]
  /\ reply = [c \in Clients |-> "none"]
  /\ replySeq = [c \in Clients |-> 0]

-----------------------------------------------------------------------------
(* What one transaction writes *)

\* The envelope holds occurredAt as the client wrote it, or recordedAt, which
\* toISOString writes with milliseconds.
Written(f) == IF f = "absent" THEN "millis" ELSE f

Envelope(n, command, occurred, previous) ==
  [sequence |-> n, command |-> command, occurred |-> occurred, previous |-> previous]

\* Mutant: the chain head stays where it was.
AppendWithoutHead(n, command, occurred, previous) ==
  LET digest == Envelope(n, command, occurred, previous)
  IN /\ ledger' = Append(ledger, [sequence |-> n, command |-> command,
                                  previous |-> previous, digest |-> digest])
     /\ UNCHANGED head
     /\ outbox' = outbox \cup {n}

\* appendCaseEvent: event, chain head and outbox row.  The column is a
\* timestamp, so the text of occurredAt survives only in the digest.
AppendCaseEvent(n, command, occurred, previous) ==
  LET digest == Envelope(n, command, occurred, previous)
  IN /\ ledger' = Append(ledger, [sequence |-> n, command |-> command,
                                  previous |-> previous, digest |-> digest])
     /\ head' = digest
     /\ outbox' = outbox \cup {n}

\* Mutant: no receipt is written.
SkipReceipt(command, key, request, n) == UNCHANGED receipts

WriteReceipt(command, key, request, n) ==
  receipts' = receipts \cup
    {[command |-> command, key |-> key, request |-> request, sequence |-> n]}

-----------------------------------------------------------------------------
(* createKycCase.  Case and command ids are digests of the key, so a second  *)
(* post finds the receipt and is answered from it.                           *)

CreateKycCase ==
  /\ sequence = 0
  /\ sequence' = 1
  /\ AppendCaseEvent(1, CreateCommand, "millis", NoDigest)
  /\ WriteReceipt(CreateCommand, CreateKey, <<CreateCommand>>, 1)
  /\ UNCHANGED clientVars

-----------------------------------------------------------------------------
(* Clients *)

\* currentCaseSequence, then the command is built on what was read.
ReadCase(c, f) ==
  /\ step[c] = "start"
  /\ sequence > 0
  /\ step' = [step EXCEPT ![c] = "ready"]
  /\ view' = [view EXCEPT ![c] = sequence]
  /\ form' = [form EXCEPT ![c] = f]
  /\ UNCHANGED <<caseVars, reply, replySeq>>

\* The answer is lost or the caller tries again: the same request once more, or
\* a new one, built on a new read, under the same key.
PostAgain(c) ==
  /\ step[c] = "answered"
  /\ \/ /\ step' = [step EXCEPT ![c] = "ready"]
        /\ UNCHANGED <<view, form>>
     \/ /\ step' = [step EXCEPT ![c] = "start"]
        /\ view' = [view EXCEPT ![c] = 0]
        /\ form' = [form EXCEPT ![c] = "absent"]
  /\ reply' = [reply EXCEPT ![c] = "none"]
  /\ replySeq' = [replySeq EXCEPT ![c] = 0]
  /\ UNCHANGED caseVars

RequestDigest(c) == <<CommandOf[c], KeyOf[c], view[c], form[c]>>

Answer(c, r, n) ==
  /\ step' = [step EXCEPT ![c] = "answered"]
  /\ reply' = [reply EXCEPT ![c] = r]
  /\ replySeq' = [replySeq EXCEPT ![c] = n]
  /\ UNCHANGED <<view, form>>

-----------------------------------------------------------------------------
(* submitBusinessCommand *)

Known(c) == {x \in receipts : x.key = KeyOf[c]}

\* Mutant: the request digest of the receipt is not compared.
ReplayAnyRequest(c) ==
  /\ step[c] = "ready"
  /\ \E x \in Known(c) : Answer(c, "replayed", x.sequence)
  /\ UNCHANGED caseVars

\* The key was accepted before: the recorded response, if it is the same request.
Replay(c) ==
  /\ step[c] = "ready"
  /\ \E x \in Known(c) :
       IF x.request = RequestDigest(c) THEN Answer(c, "replayed", x.sequence)
                                       ELSE Answer(c, "idempotency_conflict", 0)
  /\ UNCHANGED caseVars

\* Mutant: the precondition on the sequence is not compared.
AnySequence(c) == TRUE

Current(c) == view[c] = sequence

SequenceConflict(c) ==
  /\ step[c] = "ready"
  /\ Known(c) = {}
  /\ ~Current(c)
  /\ Answer(c, "sequence_conflict", 0)
  /\ UNCHANGED caseVars

\* Authority mismatch, invalid payload, or a domain condition: rolled back.
RefuseCommand(c) ==
  /\ step[c] = "ready"
  /\ Known(c) = {}
  /\ Current(c)
  /\ Answer(c, "refused", 0)
  /\ UNCHANGED caseVars

\* The receipt's primary key is the commandId: a unique violation rolls back.
CommandConflict(c) ==
  /\ step[c] = "ready"
  /\ Known(c) = {}
  /\ Current(c)
  /\ \E x \in receipts : x.command = CommandOf[c]
  /\ Answer(c, "command_conflict", 0)
  /\ UNCHANGED caseVars

\* Mutant: the receipts' primary key does not hold the commandId.
AcceptAgain(c) ==
  /\ step[c] = "ready"
  /\ Known(c) = {}
  /\ Current(c)
  /\ sequence' = sequence + 1
  /\ AppendCaseEvent(sequence + 1, CommandOf[c], Written(form[c]), head)
  /\ WriteReceipt(CommandOf[c], KeyOf[c], RequestDigest(c), sequence + 1)
  /\ Answer(c, "accepted", sequence + 1)

AcceptCommand(c) ==
  /\ step[c] = "ready"
  /\ Known(c) = {}
  /\ Current(c)
  /\ \A x \in receipts : x.command # CommandOf[c]
  /\ sequence' = sequence + 1
  /\ AppendCaseEvent(sequence + 1, CommandOf[c], Written(form[c]), head)
  /\ WriteReceipt(CommandOf[c], KeyOf[c], RequestDigest(c), sequence + 1)
  /\ Answer(c, "accepted", sequence + 1)

-----------------------------------------------------------------------------
ClientStep(c) ==
  \/ \E f \in OccurredForms : ReadCase(c, f)
  \/ PostAgain(c) \/ Replay(c) \/ SequenceConflict(c) \/ RefuseCommand(c)
  \/ CommandConflict(c) \/ AcceptCommand(c)

Next ==
  \/ CreateKycCase
  \/ \E c \in Clients : ClientStep(c)

Spec == Init /\ [][Next]_vars

-----------------------------------------------------------------------------
(* verifyCaseLedger: recompute each digest from the stored row and compare   *)
(* the chain.  listCaseEvents renders occurred_at with milliseconds.         *)

LedgerVerifies ==
  \A n \in 1..Len(ledger) :
    /\ ledger[n].previous = IF n = 1 THEN NoDigest ELSE ledger[n - 1].digest
    /\ ledger[n].digest = Envelope(ledger[n].sequence, ledger[n].command, "millis",
                                   ledger[n].previous)

-----------------------------------------------------------------------------
(* Properties *)

\* One logical command changes the case at most once, whatever attempts, stale
\* workers and repeated posts send it (index.ts 989-997 and the receipts' keys).
AppliedOnce ==
  \A m, n \in 1..Len(ledger) : ledger[m].command = ledger[n].command => m = n

\* Aggregate, ledger, chain head, receipts and outbox never disagree: each
\* sequence number has one event, one outbox row and one receipt.
TransactionIsWhole ==
  /\ sequence = Len(ledger)
  /\ outbox = 1..sequence
  /\ sequence > 0 => head = ledger[sequence].digest
  /\ \A n \in 1..sequence : \E x \in receipts : x.sequence = n /\ x.command = ledger[n].command
  /\ \A x, y \in receipts : x.sequence = y.sequence \/ x.key = y.key => x = y

\* No lost update: every accepted command was built on the case as its
\* predecessor in the ledger left it.
BuiltOnPredecessor ==
  \A c \in Clients : reply[c] = "accepted" => replySeq[c] = view[c] + 1

\* Every accepting answer, first or replayed, is the receipt of exactly the
\* request the client sent, and names the event of its own command.
AnswersAreTrue ==
  \A c \in Clients : reply[c] \in {"accepted", "replayed"} =>
    /\ \E x \in receipts : x.sequence = replySeq[c] /\ x.request = RequestDigest(c)
    /\ ledger[replySeq[c]].command = CommandOf[c]

\* case-store-poc.md:25: ledger:verify recomputes digests and chain; a ledger
\* that only these operations wrote is reported valid.
HonestLedgerVerifies == LedgerVerifies

\* canonical-case-ledger-evidence-store.md:21: "Idempotency is based on semantic
\* business operation, not delivery attempt", so an operation that was already
\* accepted is answered from its receipt when another attempt repeats it.
RepeatedOperationIsAnswered ==
  \A c \in Clients : reply[c] # "command_conflict"
=============================================================================
