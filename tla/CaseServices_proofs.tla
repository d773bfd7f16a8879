------------------------ MODULE CaseServices_proofs -------------------------
(***************************************************************************)
(* Proofs about the services that keep a case: its ledger and command      *)
(* path, the aggregate the commands change, and the relay that publishes   *)
(* the outbox, for any number of clients, requests, records and relays.    *)
(* Each part has an inductive invariant of its own; the parts share no     *)
(* variables.                                                              *)
(***************************************************************************)
EXTENDS CaseLedger, CaseAggregate, OutboxRelay, FiniteSetTheorems, SequenceTheorems, TLAPS

(***************************************************************************)
(* The ledger and the command path                                         *)
(***************************************************************************)

USE FormAssumption, CreateAssumption

-----------------------------------------------------------------------------
(* The inductive invariant *)

Recorded == {ledger[n] : n \in 1..Len(ledger)}

LedgerIsSequence == ledger \in Seq(Recorded)

\* A receipt names the event of its own command, and the request it was issued
\* for carries that command.
ReceiptsNameTheirEvents ==
  \A x \in receipts :
    /\ ledger[x.sequence].command = x.command
    /\ x.key # CreateKey => \E k, v, f : x.request = <<x.command, k, v, f>>

\* A client that is reading or about to post has no answer to its last post.
OnlyTheAnsweredReply == \A c \in Clients : reply[c] # "none" => step[c] = "answered"

\* A client that has built a command has read a case that exists.
ViewsAreOfTheCase ==
  \A c \in Clients : step[c] # "start" => view[c] > 0

\* Each event names the digest of its predecessor and its own digest covers it,
\* with occurredAt in one of the ways it may be written.
WrittenForms == {Written(f) : f \in OccurredForms \cup {"absent"}}

ChainHolds ==
  \A n \in 1..Len(ledger) :
    /\ ledger[n].previous = IF n = 1 THEN NoDigest ELSE ledger[n - 1].digest
    /\ \E f \in WrittenForms :
         ledger[n].digest = Envelope(n, ledger[n].command, f, ledger[n].previous)

LedgerInv ==
  /\ TypeOK
  /\ LedgerIsSequence
  /\ TransactionIsWhole
  /\ AppliedOnce
  /\ ReceiptsNameTheirEvents
  /\ OnlyTheAnsweredReply
  /\ ViewsAreOfTheCase
  /\ AnswersAreTrue
  /\ BuiltOnPredecessor
  /\ ChainHolds

-----------------------------------------------------------------------------
(* What appendCaseEvent does to the ledger *)

\* The events before stay what they are, and the new one comes last.
LEMMA AppendFacts ==
  ASSUME LedgerIsSequence, NEW x, ledger' = Append(ledger, x)
  PROVE  /\ LedgerIsSequence'
         /\ Len(ledger) \in Nat
         /\ Len(ledger') = Len(ledger) + 1
         /\ \A n \in 1..Len(ledger) : ledger'[n] = ledger[n]
         /\ ledger'[Len(ledger) + 1] = x
<1> DEFINE All == Recorded \cup {x}
<1>1. Len(ledger) \in Nat
  BY LenProperties DEF LedgerIsSequence
<1>2. ledger \in Seq(All)
  BY SeqMonotonic DEF LedgerIsSequence
<1>3. /\ ledger' \in Seq(All)
      /\ Len(ledger') = Len(ledger) + 1
      /\ \A n \in 1..Len(ledger) : ledger'[n] = ledger[n]
      /\ ledger'[Len(ledger) + 1] = x
  <2> x \in All
    OBVIOUS
  <2> HIDE DEF All
  <2> QED
    BY <1>1, <1>2
<1>4. ledger' \in [1..Len(ledger') -> All]
  BY <1>3, LenProperties
<1>5. ledger' \in [1..Len(ledger') -> Recorded']
  BY <1>4 DEF Recorded
<1>6. LedgerIsSequence'
  <2>1. Len(ledger') \in Nat
    BY <1>1, <1>3
  <2>2. ledger' \in UNION {[1..n -> Recorded'] : n \in Nat}
    BY <1>5, <2>1
  <2> QED
    BY <2>2, SeqDef DEF LedgerIsSequence
<1> QED
  BY <1>1, <1>3, <1>6

\* One accepted transaction keeps aggregate, ledger, chain, receipts and outbox
\* together, whoever's command it was.
LEMMA TransactionStep ==
  ASSUME LedgerInv, NEW command \in Commands, NEW key \in Keys, NEW request, NEW f \in WrittenForms,
         \A x \in receipts : x.command # command /\ x.key # key,
         key # CreateKey => \E k, v, g : request = <<command, k, v, g>>,
         sequence' = sequence + 1,
         NEW previous, previous = IF sequence = 0 THEN NoDigest ELSE head,
         AppendCaseEvent(sequence + 1, command, f, previous),
         WriteReceipt(command, key, request, sequence + 1)
  PROVE  /\ LedgerIsSequence'
         /\ TransactionIsWhole'
         /\ AppliedOnce'
         /\ ReceiptsNameTheirEvents'
         /\ ChainHolds'
         /\ \A n \in 1..sequence : ledger'[n] = ledger[n]
         /\ ledger'[sequence + 1].command = command
         /\ \A n \in 1..Len(ledger') : ledger'[n].command \in Commands /\ ledger'[n].sequence = n
         /\ \A x \in receipts' : x.command \in Commands /\ x.key \in Keys /\ x.sequence \in 1..sequence'
         /\ outbox' \subseteq 1..sequence'
<1> DEFINE digest == Envelope(sequence + 1, command, f, previous)
           event == [sequence |-> sequence + 1, command |-> command,
                     previous |-> previous, digest |-> digest]
           receipt == [command |-> command, key |-> key, request |-> request,
                       sequence |-> sequence + 1]
<1>1. /\ ledger' = Append(ledger, event)
      /\ head' = digest
      /\ outbox' = outbox \cup {sequence + 1}
      /\ receipts' = receipts \cup {receipt}
  BY DEF AppendCaseEvent, WriteReceipt
<1>2. /\ event.sequence = sequence + 1 /\ event.command = command
      /\ event.previous = previous /\ event.digest = digest
      /\ receipt.sequence = sequence + 1 /\ receipt.command = command
      /\ receipt.key = key /\ receipt.request = request
  OBVIOUS
<1> HIDE DEF event, receipt, digest
<1>3. sequence \in Nat /\ sequence = Len(ledger)
  BY DEF LedgerInv, TypeOK, TransactionIsWhole
<1>4. /\ LedgerIsSequence'
      /\ Len(ledger') = sequence + 1
      /\ \A n \in 1..sequence : ledger'[n] = ledger[n]
      /\ ledger'[sequence + 1] = event
  BY <1>1, <1>3, AppendFacts DEF LedgerInv
<1>5. \A n \in 1..Len(ledger') : ledger'[n].command \in Commands /\ ledger'[n].sequence = n
  BY <1>2, <1>3, <1>4 DEF LedgerInv, TypeOK
<1>6. \A x \in receipts' : x.command \in Commands /\ x.key \in Keys /\ x.sequence \in 1..sequence'
  BY <1>1, <1>2, <1>3 DEF LedgerInv, TypeOK
<1>7. TransactionIsWhole'
  <2>1. sequence' = Len(ledger') /\ outbox' = 1..sequence' /\ head' = ledger'[sequence'].digest
    BY <1>1, <1>2, <1>3, <1>4 DEF LedgerInv, TransactionIsWhole
  <2>2. \A n \in 1..sequence' : \E x \in receipts' : x.sequence = n /\ x.command = ledger'[n].command
    BY <1>1, <1>2, <1>3, <1>4 DEF LedgerInv, TransactionIsWhole
  <2>3. \A x, y \in receipts' : x.sequence = y.sequence \/ x.key = y.key => x = y
    <3>1. \A x \in receipts : x.sequence # receipt.sequence /\ x.key # receipt.key
      BY <1>2, <1>3 DEF LedgerInv, TypeOK
    <3> QED
      BY <1>1, <3>1 DEF LedgerInv, TransactionIsWhole
  <2> QED
    BY <2>1, <2>2, <2>3 DEF TransactionIsWhole
<1>8. AppliedOnce'
  <2>1. \A n \in 1..sequence : ledger[n].command # command
    BY <1>3 DEF LedgerInv, TransactionIsWhole
  <2> QED
    BY <1>2, <1>3, <1>4, <2>1 DEF LedgerInv, AppliedOnce
<1>9. ReceiptsNameTheirEvents'
  BY <1>1, <1>2, <1>3, <1>4 DEF LedgerInv, TypeOK, ReceiptsNameTheirEvents
<1>10. ChainHolds'
  <2> SUFFICES ASSUME NEW n \in 1..(sequence + 1)
               PROVE  /\ ledger'[n].previous = IF n = 1 THEN NoDigest ELSE ledger'[n - 1].digest
                      /\ \E g \in WrittenForms : ledger'[n].digest
                           = Envelope(n, ledger'[n].command, g, ledger'[n].previous)
    BY <1>4 DEF ChainHolds, WrittenForms, Written, Envelope
  <2>1. CASE n = sequence + 1
    <3>1. ledger'[n].previous = IF n = 1 THEN NoDigest ELSE ledger'[n - 1].digest
      BY <1>2, <1>3, <1>4, <2>1 DEF LedgerInv, TransactionIsWhole
    <3>2. ledger'[n].digest = Envelope(n, ledger'[n].command, f, ledger'[n].previous)
      BY <1>2, <1>4, <2>1 DEF digest
    <3> QED
      BY <3>1, <3>2
  <2>2. CASE n # sequence + 1
    <3>1. n \in 1..Len(ledger) /\ ledger'[n] = ledger[n] /\ (n # 1 => ledger'[n - 1] = ledger[n - 1])
      BY <1>3, <1>4, <2>2
    <3> QED
      BY <3>1 DEF LedgerInv, ChainHolds
  <2> QED
    BY <2>1, <2>2
<1>11. outbox' \subseteq 1..sequence'
  BY <1>7 DEF TransactionIsWhole
<1>12. ledger'[sequence + 1].command = command
  BY <1>2, <1>4
<1> QED
  BY <1>4, <1>5, <1>6, <1>7, <1>8, <1>9, <1>10, <1>11, <1>12

-----------------------------------------------------------------------------
(* The steps *)

LEMMA LedgerInitHolds == Init => LedgerInv
<1> SUFFICES ASSUME Init PROVE LedgerInv
  OBVIOUS
<1>1. Len(ledger) = 0 /\ LedgerIsSequence
  BY EmptySeq DEF Init, LedgerIsSequence
<1> QED
  BY <1>1 DEF Init, LedgerInv, TypeOK, Replies, TransactionIsWhole, AppliedOnce, ReceiptsNameTheirEvents,
     OnlyTheAnsweredReply, ViewsAreOfTheCase, AnswersAreTrue, BuiltOnPredecessor, ChainHolds

\* The case is created: the first event, the first receipt.
LEMMA CreateStep ==
  ASSUME LedgerInv, CreateKycCase
  PROVE  LedgerInv'
<1> USE DEF CreateKycCase, clientVars
<1>1. receipts = {} /\ Len(ledger) = 0
  BY DEF LedgerInv, TypeOK, TransactionIsWhole
<1>2. CreateCommand \in Commands /\ CreateKey \in Keys /\ "millis" \in WrittenForms
  BY DEF Commands, Keys, WrittenForms, Written
<1>3. sequence' = 1 /\ sequence + 1 = 1
  BY DEF LedgerInv, TypeOK
<1>4. /\ LedgerIsSequence' /\ TransactionIsWhole' /\ AppliedOnce' /\ ReceiptsNameTheirEvents'
      /\ ChainHolds'
      /\ \A n \in 1..Len(ledger') : ledger'[n].command \in Commands /\ ledger'[n].sequence = n
      /\ \A x \in receipts' : x.command \in Commands /\ x.key \in Keys /\ x.sequence \in 1..sequence'
      /\ outbox' \subseteq 1..sequence'
  BY <1>1, <1>2, <1>3, TransactionStep
<1>5. TypeOK'
  BY <1>3, <1>4 DEF LedgerInv, TypeOK
<1>6. AnswersAreTrue'
  BY <1>1 DEF LedgerInv, AnswersAreTrue
<1>7. OnlyTheAnsweredReply' /\ BuiltOnPredecessor' /\ ViewsAreOfTheCase'
  BY DEF LedgerInv, OnlyTheAnsweredReply, BuiltOnPredecessor, ViewsAreOfTheCase
<1> QED
  BY <1>4, <1>5, <1>6, <1>7 DEF LedgerInv

\* submitBusinessCommand accepts: one transaction, and the answer to the client.
LEMMA AcceptStep ==
  ASSUME LedgerInv, NEW c \in Clients, AcceptCommand(c)
  PROVE  LedgerInv'
<1> USE DEF AcceptCommand
<1>1. sequence \in Nat /\ form[c] \in OccurredForms \cup {"absent"}
  BY DEF LedgerInv, TypeOK
<1>2. /\ CommandOf[c] \in Commands /\ KeyOf[c] \in Keys /\ Written(form[c]) \in WrittenForms
      /\ KeyOf[c] # CreateKey
  BY <1>1 DEF Commands, Keys, WrittenForms
<1>3. \A x \in receipts : x.command # CommandOf[c] /\ x.key # KeyOf[c]
  BY DEF Known
<1>4. \E k, v, g : RequestDigest(c) = <<CommandOf[c], k, v, g>>
  BY DEF RequestDigest
<1>5. sequence > 0
  BY DEF LedgerInv, ViewsAreOfTheCase, Current
<1>6. /\ LedgerIsSequence' /\ TransactionIsWhole' /\ AppliedOnce' /\ ReceiptsNameTheirEvents'
      /\ ChainHolds'
      /\ \A n \in 1..sequence : ledger'[n] = ledger[n]
      /\ ledger'[sequence + 1].command = CommandOf[c]
      /\ \A n \in 1..Len(ledger') : ledger'[n].command \in Commands /\ ledger'[n].sequence = n
      /\ \A x \in receipts' : x.command \in Commands /\ x.key \in Keys /\ x.sequence \in 1..sequence'
      /\ outbox' \subseteq 1..sequence'
  BY <1>1, <1>2, <1>3, <1>4, <1>5, TransactionStep
<1>7. TypeOK'
  BY <1>1, <1>6 DEF LedgerInv, TypeOK, Answer, Replies
<1>8. AnswersAreTrue'
  <2> SUFFICES ASSUME NEW d \in Clients, reply'[d] \in {"accepted", "replayed"}
               PROVE  /\ \E x \in receipts' : x.sequence = replySeq'[d] /\ x.request = RequestDigest(d)'
                      /\ ledger'[replySeq'[d]].command = CommandOf[d]
    BY DEF AnswersAreTrue
  <2>1. RequestDigest(d)' = RequestDigest(d)
    BY DEF RequestDigest, Answer
  <2>2. CASE d = c
    <3>1. replySeq'[d] = sequence + 1
      BY <2>2 DEF LedgerInv, TypeOK, Answer
    <3>2. \E x \in receipts' : x.sequence = sequence + 1 /\ x.request = RequestDigest(c)
      <4> DEFINE receipt == [command |-> CommandOf[c], key |-> KeyOf[c],
                             request |-> RequestDigest(c), sequence |-> sequence + 1]
      <4>1. receipt \in receipts'
        BY DEF WriteReceipt
      <4>2. receipt.sequence = sequence + 1 /\ receipt.request = RequestDigest(c)
        OBVIOUS
      <4> HIDE DEF receipt
      <4> QED
        BY <4>1, <4>2
    <3>3. \E x \in receipts' : x.sequence = replySeq'[d] /\ x.request = RequestDigest(d)'
      BY <2>1, <2>2, <3>1, <3>2 DEF RequestDigest
    <3> QED
      BY <1>6, <2>2, <3>1, <3>3
  <2>3. CASE d # c
    <3>1. reply'[d] = reply[d] /\ replySeq'[d] = replySeq[d] /\ receipts \subseteq receipts'
      BY <2>3 DEF LedgerInv, TypeOK, Answer, WriteReceipt
    <3>2. PICK x \in receipts : x.sequence = replySeq[d] /\ x.request = RequestDigest(d)
      BY <3>1 DEF LedgerInv, AnswersAreTrue
    <3>3. ledger[replySeq[d]].command = CommandOf[d]
      BY <3>1 DEF LedgerInv, AnswersAreTrue
    <3>4. replySeq[d] \in 1..sequence
      BY <3>2 DEF LedgerInv, TypeOK
    <3> QED
      BY <1>6, <2>1, <3>1, <3>2, <3>3, <3>4
  <2> QED
    BY <2>2, <2>3
<1>9. OnlyTheAnsweredReply' /\ BuiltOnPredecessor' /\ ViewsAreOfTheCase'
  BY <1>1 DEF LedgerInv, TypeOK, OnlyTheAnsweredReply, BuiltOnPredecessor, ViewsAreOfTheCase, Answer, Current
<1> QED
  BY <1>6, <1>7, <1>8, <1>9 DEF LedgerInv

\* A step that leaves the case alone keeps what is about the case.
LEMMA QuietStep ==
  ASSUME LedgerInv, UNCHANGED caseVars, TypeOK', OnlyTheAnsweredReply', AnswersAreTrue',
         BuiltOnPredecessor', ViewsAreOfTheCase'
  PROVE  LedgerInv'
<1>1. LedgerIsSequence'
  BY DEF LedgerInv, caseVars, LedgerIsSequence, Recorded
<1> QED
  BY <1>1 DEF LedgerInv, caseVars, TransactionIsWhole, AppliedOnce, ReceiptsNameTheirEvents, ChainHolds

\* A refusing answer is true of nothing and wrong about nothing.
LEMMA RefusingStep ==
  ASSUME LedgerInv, NEW c \in Clients, step[c] = "ready",
         NEW r \in Replies \ {"none", "accepted", "replayed"}, Answer(c, r, 0), UNCHANGED caseVars
  PROVE  LedgerInv'
<1>1. TypeOK'
  BY DEF LedgerInv, TypeOK, Answer, caseVars
<1>2. OnlyTheAnsweredReply' /\ BuiltOnPredecessor' /\ ViewsAreOfTheCase'
  BY DEF LedgerInv, TypeOK, OnlyTheAnsweredReply, BuiltOnPredecessor, ViewsAreOfTheCase, Answer, caseVars
<1>3. AnswersAreTrue'
  BY DEF LedgerInv, TypeOK, AnswersAreTrue, Answer, caseVars, RequestDigest
<1> QED
  BY <1>1, <1>2, <1>3, QuietStep

\* A known key is answered from its receipt, if the request is the same.
LEMMA ReplayStep ==
  ASSUME LedgerInv, NEW c \in Clients, Replay(c)
  PROVE  LedgerInv'
<1>1. PICK x \in Known(c) : IF x.request = RequestDigest(c)
                            THEN Answer(c, "replayed", x.sequence)
                            ELSE Answer(c, "idempotency_conflict", 0)
  BY DEF Replay
<1>2. step[c] = "ready" /\ UNCHANGED caseVars
  BY DEF Replay
<1>3. CASE x.request # RequestDigest(c)
  BY <1>1, <1>2, <1>3, RefusingStep DEF Replies
<1>4. CASE x.request = RequestDigest(c)
  <2>1. x \in receipts /\ x.key # CreateKey /\ Answer(c, "replayed", x.sequence)
    BY <1>1, <1>4 DEF Known
  <2>2. ledger[x.sequence].command = CommandOf[c]
    <3>1. PICK k, v, f : x.request = <<x.command, k, v, f>>
      BY <2>1 DEF LedgerInv, ReceiptsNameTheirEvents
    <3>2. x.command = CommandOf[c]
      BY <1>4, <3>1 DEF RequestDigest
    <3> QED
      BY <2>1, <3>2 DEF LedgerInv, ReceiptsNameTheirEvents
  <2>3. x.sequence \in Nat
    BY <2>1 DEF LedgerInv, TypeOK
  <2>4. TypeOK'
    BY <1>2, <2>1, <2>3 DEF LedgerInv, TypeOK, Answer, caseVars, Replies
  <2>5. OnlyTheAnsweredReply' /\ BuiltOnPredecessor' /\ ViewsAreOfTheCase'
    BY <1>2, <2>1 DEF LedgerInv, TypeOK, OnlyTheAnsweredReply, BuiltOnPredecessor, ViewsAreOfTheCase,
       Answer, caseVars
  <2>6. AnswersAreTrue'
    BY <1>2, <1>4, <2>1, <2>2 DEF LedgerInv, TypeOK, AnswersAreTrue, Answer, caseVars, RequestDigest
  <2> QED
    BY <1>2, <2>4, <2>5, <2>6, QuietStep
<1> QED
  BY <1>3, <1>4

\* A client reads the sequence, or starts over.
LEMMA ClientStepHolds ==
  ASSUME LedgerInv, NEW c \in Clients, (\E f \in OccurredForms : ReadCase(c, f)) \/ PostAgain(c)
  PROVE  LedgerInv'
<1>1. UNCHANGED caseVars
  BY DEF ReadCase, PostAgain
<1>2. TypeOK' /\ OnlyTheAnsweredReply' /\ BuiltOnPredecessor'
  <2> USE <1>1 DEF LedgerInv, TypeOK, OnlyTheAnsweredReply, BuiltOnPredecessor, Replies, caseVars
  <2>1. CASE PostAgain(c)
    <3>1. TypeOK'
      <4>1. step' \in [Clients -> {"start", "ready", "answered"}]
        BY <2>1 DEF PostAgain
      <4>2. \/ UNCHANGED <<view, form>>
            \/ view' = [view EXCEPT ![c] = 0] /\ form' = [form EXCEPT ![c] = "absent"]
        BY <2>1 DEF PostAgain
      <4>3. view' \in [Clients -> Nat]
        BY <4>2
      <4>4. form' \in [Clients -> OccurredForms \cup {"absent"}]
        BY <4>2
      <4>5. reply' \in [Clients -> Replies] /\ replySeq' \in [Clients -> Nat]
        BY <2>1 DEF PostAgain
      <4> QED
        BY <4>1, <4>3, <4>4, <4>5
    <3>2. OnlyTheAnsweredReply' /\ BuiltOnPredecessor'
      BY <2>1 DEF PostAgain
    <3> QED
      BY <3>1, <3>2
  <2>2. ASSUME NEW f \in OccurredForms, ReadCase(c, f)
        PROVE  TypeOK' /\ OnlyTheAnsweredReply' /\ BuiltOnPredecessor'
    <3>1. TypeOK'
      BY <2>2 DEF ReadCase
    <3> QED
      BY <2>2, <3>1 DEF ReadCase
  <2> QED
    BY <2>1, <2>2
<1>3. ViewsAreOfTheCase'
  BY DEF LedgerInv, TypeOK, ViewsAreOfTheCase, ReadCase, PostAgain
<1>4. AnswersAreTrue'
  <2> SUFFICES ASSUME NEW d \in Clients, reply'[d] \in {"accepted", "replayed"}
               PROVE  /\ \E x \in receipts' : x.sequence = replySeq'[d] /\ x.request = RequestDigest(d)'
                      /\ ledger'[replySeq'[d]].command = CommandOf[d]
    BY DEF AnswersAreTrue
  <2>1. d # c /\ reply'[d] = reply[d] /\ replySeq'[d] = replySeq[d]
    BY DEF LedgerInv, TypeOK, OnlyTheAnsweredReply, ReadCase, PostAgain
  <2>2. RequestDigest(d)' = RequestDigest(d)
    BY <2>1 DEF LedgerInv, TypeOK, RequestDigest, ReadCase, PostAgain
  <2> QED
    BY <1>1, <2>1, <2>2 DEF LedgerInv, AnswersAreTrue, caseVars
<1> QED
  BY <1>1, <1>2, <1>3, <1>4, QuietStep

LEMMA LedgerStepHolds == LedgerInv /\ [Next]_vars => LedgerInv'
<1> SUFFICES ASSUME LedgerInv, [Next]_vars PROVE LedgerInv'
  OBVIOUS
<1>1. CASE CreateKycCase
  BY <1>1, CreateStep
<1>2. ASSUME NEW c \in Clients, (\E f \in OccurredForms : ReadCase(c, f)) \/ PostAgain(c)
      PROVE  LedgerInv'
  BY <1>2, ClientStepHolds
<1>3. ASSUME NEW c \in Clients, Replay(c)
      PROVE  LedgerInv'
  BY <1>3, ReplayStep
<1>4. ASSUME NEW c \in Clients, SequenceConflict(c) \/ RefuseCommand(c) \/ CommandConflict(c)
      PROVE  LedgerInv'
  BY <1>4, RefusingStep DEF SequenceConflict, RefuseCommand, CommandConflict, Replies
<1>5. ASSUME NEW c \in Clients, AcceptCommand(c)
      PROVE  LedgerInv'
  BY <1>5, AcceptStep
<1>6. CASE UNCHANGED vars
  <2>1. AnswersAreTrue'
    BY <1>6 DEF LedgerInv, AnswersAreTrue, RequestDigest, vars, caseVars, clientVars
  <2> QED
    BY <1>6, <2>1, QuietStep DEF vars, caseVars, clientVars, LedgerInv, TypeOK, OnlyTheAnsweredReply,
       BuiltOnPredecessor, ViewsAreOfTheCase
<1> QED
  BY <1>1, <1>2, <1>3, <1>4, <1>5, <1>6 DEF Next, ClientStep

-----------------------------------------------------------------------------
(* The theorems *)

\* The inductive invariant of ledger, receipts and clients holds in every
\* reachable state, whatever commands and keys the clients share.
THEOREM LedgerInvariance == Spec => []LedgerInv
  BY LedgerInitHolds, LedgerStepHolds, PTL DEF Spec

\* Every row and every answer stays in its range.
THEOREM LedgerTypeCorrect == Spec => []TypeOK
<1>1. LedgerInv => TypeOK
  BY DEF LedgerInv
<1> QED
  BY <1>1, LedgerInvariance, PTL

\* The receipts' keys keep a command from being appended to the ledger twice,
\* whichever attempt or client sends it and however often.
THEOREM CommandsApplyOnce == Spec => []AppliedOnce
<1>1. LedgerInv => AppliedOnce
  BY DEF LedgerInv
<1> QED
  BY <1>1, LedgerInvariance, PTL

\* Aggregate sequence, ledger, chain head, receipts and outbox rows of the case
\* transactions never disagree.
THEOREM TransactionsAreWhole == Spec => []TransactionIsWhole
<1>1. LedgerInv => TransactionIsWhole
  BY DEF LedgerInv
<1> QED
  BY <1>1, LedgerInvariance, PTL

\* expectedCaseSequence excludes lost updates.
THEOREM NoLostUpdate == Spec => []BuiltOnPredecessor
<1>1. LedgerInv => BuiltOnPredecessor
  BY DEF LedgerInv
<1> QED
  BY <1>1, LedgerInvariance, PTL

\* An accepting answer, replayed or not, is the receipt of the very request and
\* names the event of the client's own command.
THEOREM AnswersAreReceipts == Spec => []AnswersAreTrue
<1>1. LedgerInv => AnswersAreTrue
  BY DEF LedgerInv
<1> QED
  BY <1>1, LedgerInvariance, PTL

\* Whatever form occurredAt is written in, each event's digest covers its
\* predecessor's: the hash chain of appendCaseEvent is unbroken.
THEOREM ChainIsUnbroken == Spec => []ChainHolds
<1>1. LedgerInv => ChainHolds
  BY DEF LedgerInv
<1> QED
  BY <1>1, LedgerInvariance, PTL

\* verifyCaseLedger accepts every ledger these operations wrote, provided that
\* no client writes occurredAt without milliseconds: the digest covers the text
\* as written, and the verification renders the stored timestamp.
THEOREM MillisLedgersVerify ==
  ASSUME "seconds" \notin OccurredForms
  PROVE  Spec => []HonestLedgerVerifies
<1>1. LedgerInv => HonestLedgerVerifies
  <2>1. WrittenForms = {"millis"}
    BY DEF WrittenForms, Written
  <2> QED
    BY <2>1 DEF LedgerInv, TypeOK, ChainHolds, HonestLedgerVerifies, LedgerVerifies
<1> QED
  BY <1>1, LedgerInvariance, PTL

(***************************************************************************)
(* The case aggregate                                                      *)
(***************************************************************************)

USE PrincipalAssumption, ScanAssumption, NullAssumption

-----------------------------------------------------------------------------
(* The inductive invariant *)

\* A claim on record was proposed on some linked evidence.
ClaimsRestOnEvidence ==
  \A c \in Claims : claim[c] # "none" => claimBasis[c] # {} /\ claimBasis[c] \subseteq linked

\* Gates are evaluated on recommendations somebody submitted.
GatesJudgeRecommendations == \A k \in JudgedGates : author[gate[k].recommendation] # Nobody

AggregateInv ==
  /\ AggregateTypeOK
  /\ ClaimsRestOnEvidence
  /\ FactsRestOnEvidence
  /\ GatesJudgeRecommendations
  /\ StatusMatchesDisposition
  /\ DispositionIsAuthorized

-----------------------------------------------------------------------------
(* The status graph *)

\* From an outcome only CLOSED is reached, and from CLOSED nothing.
LEMMA FinalStatuses ==
  /\ allowedTransitions["APPROVED"] = {"CLOSED"}
  /\ allowedTransitions["DECLINED"] = {"CLOSED"}
  /\ allowedTransitions["CLOSED"] = {}
  BY DEF allowedTransitions

LEMMA StatusNames ==
  /\ "INTAKE" \in Statuses /\ "HUMAN_REVIEW" \in Statuses
  /\ Outcomes \subseteq Statuses
  BY DEF Statuses, Outcomes, allowedTransitions

-----------------------------------------------------------------------------
(* The steps *)

\* The case service creates a case with nothing but its status.
LEMMA AggregateInitHolds == AggregateInit => AggregateInv
<1> SUFFICES ASSUME AggregateInit PROVE AggregateInv
  OBVIOUS
<1>1. AggregateTypeOK
  BY StatusNames DEF AggregateInit, AggregateTypeOK
<1>2. JudgedGates = {} /\ Decided = {}
  BY DEF AggregateInit, JudgedGates, Decided
<1>3. status \notin Outcomes
  BY DEF AggregateInit, Outcomes
<1> QED
  BY <1>1, <1>2, <1>3 DEF AggregateInv, AggregateInit, ClaimsRestOnEvidence, FactsRestOnEvidence,
     GatesJudgeRecommendations, StatusMatchesDisposition, DispositionIsAuthorized

\* A command about the record (evidence, claims, facts, findings, contradictions,
\* work items, notes) leaves decision and status alone.
LEMMA RecordStepIsApart == RecordStep => UNCHANGED <<status, decisionVars>>
  BY DEF RecordStep, RegisterEvidence, LinkEvidence, ProposeClaim, AcceptClaimAsFact,
     RecordScreeningFinding, RaiseContradiction, ResolveContradiction, ProposeWorkItem,
     CompleteWorkItem, AddSubject, RecordAssumption, RecordReview, LinkExecution, InsertRow

\* And a command about the decision leaves the record alone.
LEMMA DecisionStepIsApart ==
  DecisionStep => UNCHANGED <<evidenceVars, recordVars, workItem, rows>>
  BY DEF DecisionStep, SubmitDecisionRecommendation, RecordQAResult, RecordGateResult,
     RequestHumanReview, TransitionCaseStatus, FinalizeDisposition

LEMMA DecisionKept ==
  ASSUME GatesJudgeRecommendations, StatusMatchesDisposition, DispositionIsAuthorized,
         UNCHANGED <<status, decisionVars>>
  PROVE  GatesJudgeRecommendations' /\ StatusMatchesDisposition' /\ DispositionIsAuthorized'
  BY DEF decisionVars, GatesJudgeRecommendations, StatusMatchesDisposition,
     DispositionIsAuthorized, Decided, JudgedGates, GateAuthorizes

LEMMA RecordKept ==
  ASSUME ClaimsRestOnEvidence, FactsRestOnEvidence, UNCHANGED <<evidenceVars, recordVars>>
  PROVE  ClaimsRestOnEvidence' /\ FactsRestOnEvidence'
  BY DEF evidenceVars, recordVars, ClaimsRestOnEvidence, FactsRestOnEvidence

\* The lineage of facts through each command about the record.
LEMMA RecordStepHolds ==
  ASSUME AggregateInv, RecordStep
  PROVE  AggregateTypeOK' /\ ClaimsRestOnEvidence' /\ FactsRestOnEvidence'
<1> DEFINE Goal == AggregateTypeOK' /\ ClaimsRestOnEvidence' /\ FactsRestOnEvidence'
<1> USE DEF AggregateInv, AggregateTypeOK, ClaimsRestOnEvidence, FactsRestOnEvidence,
            evidenceVars, recordVars, decisionVars
<1>1. ASSUME NEW e \in Evidence, RegisterEvidence(e) PROVE Goal
  BY <1>1 DEF RegisterEvidence
<1>2. ASSUME NEW e \in Evidence, LinkEvidence(e) PROVE Goal
  BY <1>2 DEF LinkEvidence
<1>3. ASSUME NEW c \in Claims, NEW refs \in SUBSET Evidence, ProposeClaim(c, refs) PROVE Goal
  <2>1. AggregateTypeOK'
    BY <1>3 DEF ProposeClaim
  <2>2. ClaimsRestOnEvidence'
    BY <1>3 DEF ProposeClaim, EnsureLinkedEvidence
  <2>3. FactsRestOnEvidence'
    <3>1. \A f \in Facts : \A b \in factBasis[f] : b \in Claims /\ b # c
      BY <1>3 DEF ProposeClaim
    <3> QED
      BY <1>3, <3>1 DEF ProposeClaim
  <2> QED
    BY <2>1, <2>2, <2>3
<1>4. ASSUME NEW f \in Facts, NEW refs \in SUBSET Claims, AcceptClaimAsFact(f, refs) PROVE Goal
  <2>1. AggregateTypeOK'
    BY <1>4 DEF AcceptClaimAsFact
  <2>2. ClaimsRestOnEvidence'
    BY <1>4 DEF AcceptClaimAsFact
  <2>3. FactsRestOnEvidence'
    <3>1. \A c \in Claims : claim[c] = "ACCEPTED" => claim'[c] = "ACCEPTED"
      BY <1>4 DEF AcceptClaimAsFact
    <3>2. \A c \in refs : /\ claim'[c] = "ACCEPTED"
                          /\ claimBasis[c] # {} /\ claimBasis[c] \subseteq linked
      BY <1>4 DEF AcceptClaimAsFact
    <3>3. \A g \in Facts : factBasis'[g] = IF g = f THEN refs ELSE factBasis[g]
      BY <1>4 DEF AcceptClaimAsFact
    <3> QED
      BY <1>4, <3>1, <3>2, <3>3 DEF AcceptClaimAsFact
  <2> QED
    BY <2>1, <2>2, <2>3
<1>5. ASSUME NEW g \in Findings, NEW refs \in SUBSET Evidence, NEW factRefs \in SUBSET Facts,
             RecordScreeningFinding(g, refs, factRefs)
      PROVE  Goal
  <2>1. AggregateTypeOK'
    BY <1>5 DEF RecordScreeningFinding
  <2>2. ClaimsRestOnEvidence' /\ FactsRestOnEvidence'
    BY <1>5 DEF RecordScreeningFinding, EnsureLinkedEvidence
  <2> QED
    BY <2>1, <2>2
<1>6. ASSUME NEW x \in Contradictions,
             ResolveContradiction(x) \/ \E s \in Open : RaiseContradiction(x, s)
      PROVE  Goal
  BY <1>6 DEF ResolveContradiction, RaiseContradiction
<1>7. ASSUME NEW w \in WorkItems, ProposeWorkItem(w) \/ CompleteWorkItem(w) PROVE Goal
  BY <1>7 DEF ProposeWorkItem, CompleteWorkItem
<1>8. ASSUME NEW n \in Notes,
             AddSubject(n) \/ RecordAssumption(n) \/ RecordReview(n) \/ LinkExecution(n)
      PROVE  Goal
  BY <1>8 DEF AddSubject, RecordAssumption, RecordReview, LinkExecution, InsertRow
<1> QED
  BY <1>1, <1>2, <1>3, <1>4, <1>5, <1>6, <1>7, <1>8 DEF RecordStep

\* The decision through each command about it.
LEMMA DecisionStepHolds ==
  ASSUME AggregateInv, DecisionStep
  PROVE  AggregateTypeOK' /\ GatesJudgeRecommendations' /\ StatusMatchesDisposition'
         /\ DispositionIsAuthorized'
<1> DEFINE Goal == AggregateTypeOK' /\ GatesJudgeRecommendations' /\ StatusMatchesDisposition'
                   /\ DispositionIsAuthorized'
<1> USE DEF AggregateInv, AggregateTypeOK, evidenceVars, recordVars, decisionVars
<1>1. \A d \in Decided : disposition[d] \in FinalDispositions
  BY DEF Decided
<1>2. \A k \in JudgedGates : gate[k] \in GateResults
  BY DEF JudgedGates
<1>3. ASSUME NEW r \in Recommendations, NEW p \in Principals, SubmitDecisionRecommendation(r, p)
      PROVE  Goal
  <2>1. AggregateTypeOK'
    BY <1>3 DEF SubmitDecisionRecommendation
  <2>2. \A q \in Recommendations : author[q] # Nobody => author'[q] # Nobody
    BY <1>3 DEF SubmitDecisionRecommendation
  <2>3. GatesJudgeRecommendations'
    BY <1>2, <1>3, <2>2
    DEF SubmitDecisionRecommendation, GatesJudgeRecommendations, JudgedGates, GateResults
  <2>4. StatusMatchesDisposition'
    BY <1>3 DEF SubmitDecisionRecommendation, StatusMatchesDisposition, Decided
  <2>5. DispositionIsAuthorized'
    BY <1>1, <1>3, <2>2
    DEF SubmitDecisionRecommendation, DispositionIsAuthorized, Decided, GateAuthorizes,
        FinalDispositions
  <2> QED
    BY <2>1, <2>3, <2>4, <2>5
<1>4. ASSUME NEW r \in Recommendations, NEW p \in Principals, RecordQAResult(r, p)
      PROVE  Goal
  <2>1. AggregateTypeOK'
    BY <1>4 DEF RecordQAResult
  <2>2. UNCHANGED <<status, author, gate, disposition>>
    BY <1>4 DEF RecordQAResult
  <2> QED
    BY <2>1, <2>2 DEF GatesJudgeRecommendations, StatusMatchesDisposition, DispositionIsAuthorized,
       Decided, JudgedGates, GateAuthorizes
<1>5. ASSUME NEW k \in Gates, NEW r \in Recommendations, NEW d \in {"AUTHORIZED", "DENIED"},
             RecordGateResult(k, r, d)
      PROVE  Goal
  <2>1. [recommendation |-> r, decision |-> d] \in GateResults
    BY DEF GateResults
  <2>2. \A j \in Gates : gate'[j] = IF j = k THEN [recommendation |-> r, decision |-> d] ELSE gate[j]
    BY <1>5 DEF RecordGateResult
  <2>3. AggregateTypeOK'
    BY <1>5, <2>1 DEF RecordGateResult
  <2>4. GatesJudgeRecommendations'
    BY <1>5, <2>2 DEF RecordGateResult, GatesJudgeRecommendations, JudgedGates
  <2>5. StatusMatchesDisposition'
    BY <1>5 DEF RecordGateResult, StatusMatchesDisposition, Decided
  <2>6. DispositionIsAuthorized'
    <3> SUFFICES ASSUME NEW e \in Decided
                 PROVE  /\ GateAuthorizes(disposition[e].gate, disposition[e].recommendation)'
                        /\ author[disposition[e].recommendation] # Nobody
                        /\ disposition[e].actor \in Reviewers
      BY <1>5 DEF RecordGateResult, DispositionIsAuthorized, Decided, GateAuthorizes
    <3>1. /\ gate[disposition[e].gate]
               = [recommendation |-> disposition[e].recommendation, decision |-> "AUTHORIZED"]
          /\ author[disposition[e].recommendation] # Nobody
          /\ disposition[e].actor \in Reviewers
          /\ disposition[e].gate \in Gates /\ disposition[e].recommendation \in Recommendations
      BY <1>1 DEF DispositionIsAuthorized, GateAuthorizes, FinalDispositions
    <3>2. disposition[e].gate # k
      <4>1. gate[disposition[e].gate] \in GateResults
        BY <3>1 DEF GateResults
      <4> QED
        BY <1>5, <4>1 DEF RecordGateResult
    <3>3. disposition' = disposition /\ gate'[disposition[e].gate] = gate[disposition[e].gate]
      BY <1>5, <2>2, <3>1, <3>2 DEF RecordGateResult
    <3> QED
      BY <3>1, <3>3 DEF GateAuthorizes
  <2> QED
    BY <2>3, <2>4, <2>5, <2>6
<1>6. ASSUME NEW s \in Statuses \ Outcomes, s \in allowedTransitions[status], status' = s,
             UNCHANGED decisionVars, UNCHANGED <<evidenceVars, recordVars, workItem, rows>>
      PROVE  Goal
  <2>1. AggregateTypeOK'
    BY <1>6
  <2>2. GatesJudgeRecommendations' /\ DispositionIsAuthorized'
    BY <1>6 DEF GatesJudgeRecommendations, DispositionIsAuthorized, Decided, JudgedGates, GateAuthorizes
  <2>3. Decided # {} => status' = "CLOSED"
    BY <1>1, <1>6, FinalStatuses DEF StatusMatchesDisposition, FinalDispositions, Outcomes
  <2>4. StatusMatchesDisposition'
    BY <1>6, <2>3 DEF StatusMatchesDisposition, Decided
  <2> QED
    BY <2>1, <2>2, <2>4
<1>7. CASE RequestHumanReview
  BY <1>6, <1>7, StatusNames DEF RequestHumanReview, Outcomes
<1>8. ASSUME NEW s \in Statuses, TransitionCaseStatus(s)
      PROVE  Goal
  BY <1>6, <1>8 DEF TransitionCaseStatus
<1>9. ASSUME NEW d \in Dispositions, NEW outcome \in Outcomes, NEW r \in Recommendations,
             NEW k \in Gates, NEW p \in Principals, FinalizeDisposition(d, outcome, r, k, p)
      PROVE  Goal
  <2> DEFINE decision == [outcome |-> outcome, recommendation |-> r, gate |-> k, actor |-> p]
  <2>1. /\ decision \in FinalDispositions
        /\ decision.outcome = outcome /\ decision.recommendation = r
        /\ decision.gate = k /\ decision.actor = p
    BY DEF FinalDispositions
  <2>2. /\ status = "HUMAN_REVIEW" /\ status' = outcome
        /\ disposition' = [disposition EXCEPT ![d] = decision]
        /\ UNCHANGED <<author, gate>>
        /\ p \in Reviewers
        /\ GateAuthorizes(k, r)
    BY <1>9 DEF FinalizeDisposition
  <2> HIDE DEF decision
  <2>3. AggregateTypeOK'
    BY <1>9, <2>1, <2>2, StatusNames DEF FinalizeDisposition
  <2>4. GatesJudgeRecommendations'
    BY <2>2 DEF GatesJudgeRecommendations, JudgedGates
  <2>5. Decided = {}
    BY <1>1, <2>2 DEF StatusMatchesDisposition, FinalDispositions, Outcomes
  <2>6. Decided' = {d} /\ disposition'[d] = decision
    BY <2>1, <2>2, <2>5 DEF Decided
  <2>7. StatusMatchesDisposition'
    BY <2>1, <2>2, <2>6 DEF StatusMatchesDisposition
  <2>8. author[r] # Nobody
    <3>1. k \in JudgedGates /\ gate[k].recommendation = r
      <4>1. gate[k] \in GateResults
        BY <2>2 DEF GateAuthorizes, GateResults
      <4> QED
        BY <2>2, <4>1 DEF JudgedGates, GateAuthorizes
    <3> QED
      BY <3>1 DEF GatesJudgeRecommendations
  <2>9. DispositionIsAuthorized'
    BY <2>1, <2>2, <2>6, <2>8 DEF DispositionIsAuthorized, GateAuthorizes
  <2> QED
    BY <2>3, <2>4, <2>7, <2>9
<1> QED
  BY <1>3, <1>4, <1>5, <1>7, <1>8, <1>9 DEF DecisionStep

LEMMA AggregateStepHolds == AggregateInv /\ [AggregateNext]_aggregateVars => AggregateInv'
<1> SUFFICES ASSUME AggregateInv, [AggregateNext]_aggregateVars PROVE AggregateInv'
  OBVIOUS
<1>1. CASE RecordStep
  BY <1>1, RecordStepHolds, RecordStepIsApart, DecisionKept DEF AggregateInv
<1>2. CASE DecisionStep
  BY <1>2, DecisionStepHolds, DecisionStepIsApart, RecordKept DEF AggregateInv
<1>3. CASE UNCHANGED aggregateVars
  <2>1. AggregateTypeOK'
    BY <1>3 DEF AggregateInv, AggregateTypeOK, aggregateVars, evidenceVars, recordVars, decisionVars
  <2> QED
    BY <1>3, <2>1, RecordKept, DecisionKept DEF AggregateInv, aggregateVars
<1> QED
  BY <1>1, <1>2, <1>3 DEF AggregateNext

-----------------------------------------------------------------------------
(* The theorems *)

\* The inductive invariant of a case holds after any commands.
THEOREM AggregateInvariance == AggregateSpec => []AggregateInv
  BY AggregateInitHolds, AggregateStepHolds, PTL DEF AggregateSpec

\* Every row of the case stays in its range.
THEOREM AggregateTypeCorrect == AggregateSpec => []AggregateTypeOK
<1>1. AggregateInv => AggregateTypeOK
  BY DEF AggregateInv
<1> QED
  BY <1>1, AggregateInvariance, PTL

\* finalizeDisposition: one disposition per case, and the status tells the same
\* outcome until the case is closed, over every walk through the status graph.
THEOREM OneDisposition == AggregateSpec => []StatusMatchesDisposition
<1>1. AggregateInv => StatusMatchesDisposition
  BY DEF AggregateInv
<1> QED
  BY <1>1, AggregateInvariance, PTL

\* A disposition rests on an authorizing gate of its own recommendation and on a
\* human reviewer, for as long as the case exists.
THEOREM DispositionsAreAuthorized == AggregateSpec => []DispositionIsAuthorized
<1>1. AggregateInv => DispositionIsAuthorized
  BY DEF AggregateInv
<1> QED
  BY <1>1, AggregateInvariance, PTL

\* Accepted facts rest on claims proposed on evidence that is registered and
\* linked, and findings cite linked evidence.
THEOREM LineageIsSound == AggregateSpec => []FactsRestOnEvidence
<1>1. AggregateInv => FactsRestOnEvidence
  BY DEF AggregateInv
<1> QED
  BY <1>1, AggregateInvariance, PTL

\* A decided case is never reopened.
THEOREM DecisionStays == AggregateSpec => DecisionIsFinal
<1>1. AggregateInv /\ [AggregateNext]_aggregateVars => (Decided # {} => status' \in {status, "CLOSED"})
  <2> SUFFICES ASSUME AggregateInv, [AggregateNext]_aggregateVars, Decided # {}
               PROVE  status' \in {status, "CLOSED"}
    OBVIOUS
  <2>1. status \in Outcomes \cup {"CLOSED"}
    <3>1. PICK d \in Decided : TRUE
      OBVIOUS
    <3>2. disposition[d] \in FinalDispositions /\ status \in {disposition[d].outcome, "CLOSED"}
      BY <3>1 DEF AggregateInv, AggregateTypeOK, StatusMatchesDisposition, Decided
    <3> QED
      BY <3>2 DEF FinalDispositions
  <2>2. status' # status => "HUMAN_REVIEW" = status \/ status' \in allowedTransitions[status]
    BY RecordStepIsApart DEF AggregateNext, DecisionStep, SubmitDecisionRecommendation, RecordQAResult,
       RecordGateResult, RequestHumanReview, TransitionCaseStatus, FinalizeDisposition, aggregateVars
  <2> QED
    BY <2>1, <2>2, FinalStatuses DEF Outcomes
<1>2. AggregateInv /\ [AggregateNext]_aggregateVars => [Decided # {} => status' \in {status, "CLOSED"}]_aggregateVars
  BY <1>1
<1> QED
  BY <1>2, AggregateInvariance, PTL DEF AggregateSpec, DecisionIsFinal

(***************************************************************************)
(* The outbox relay                                                        *)
(***************************************************************************)

USE RowAssumption, ClaimAssumption, FaultAssumption

-----------------------------------------------------------------------------
(* The inductive invariant *)

\* A relay past its claim has a claim id.
HoldersHaveClaims ==
  \A r \in Relays : at[r] \in {"publish", "mark", "release"} => claimId[r] \in Nat

\* Only an unpublished row is claimed, and only a claim grows stale.
ClaimsAreOnPending ==
  /\ \A e \in Rows : publishClaim[e] # NoClaim => row[e] = "pending"
  /\ \A e \in stale : publishClaim[e] # NoClaim

\* A relay about to mark has had its whole batch accepted.
MarkFollowsDelivery ==
  \A r \in Relays, e \in Rows : at[r] = "mark" /\ e \in batch[r] => delivered[e] > 0

\* The relays that have claimed row e and not yet handed it to the sink.
Carrying(e) == {r \in Relays : at[r] = "publish" /\ e \in batch[r]}

\* Every claim is used for one delivery at most: those made and those still to
\* come are within the attempts counted on the row.
DeliveriesAreCharged ==
  \A e \in Rows : delivered[e] + Cardinality(Carrying(e)) <= attempts[e]

\* A claim beyond the first needs a reopening, and a row that may be claimed
\* has a reopening (or its first claim) unused.
AttemptsAreReopenings ==
  \A e \in Rows :
    /\ row[e] = "absent" => attempts[e] = 0
    /\ attempts[e] <= 1 + reopened[e]
    /\ Claimable(e) => attempts[e] <= reopened[e]

RelayInv ==
  /\ RelayTypeOK
  /\ HoldersHaveClaims
  /\ ClaimsAreOnPending
  /\ MarkFollowsDelivery
  /\ MarkedMeansDelivered
  /\ DeliveriesAreCharged
  /\ AttemptsAreReopenings

-----------------------------------------------------------------------------
(* What a step does to the set of carrying relays *)

\* One more relay carries a row at most.
LEMMA OneMoreCarrier ==
  ASSUME NEW e, NEW r \in Relays, Carrying(e)' \subseteq Carrying(e) \cup {r}
  PROVE  /\ Cardinality(Carrying(e)) \in Nat
         /\ Cardinality(Carrying(e)') \in Nat
         /\ Cardinality(Carrying(e)') <= Cardinality(Carrying(e)) + 1
<1>1. IsFiniteSet(Carrying(e))
  BY RelayAssumption, FS_Subset DEF Carrying
<1>2. /\ IsFiniteSet(Carrying(e) \cup {r})
      /\ Cardinality(Carrying(e) \cup {r}) <= Cardinality(Carrying(e)) + 1
  <2>1. Cardinality(Carrying(e)) \in Nat
    BY <1>1, FS_CardinalityType
  <2>2. IsFiniteSet(Carrying(e) \cup {r})
    BY <1>1, FS_AddElement
  <2>3. Cardinality(Carrying(e) \cup {r})
          = IF r \in Carrying(e) THEN Cardinality(Carrying(e)) ELSE Cardinality(Carrying(e)) + 1
    BY <1>1, FS_AddElement
  <2> QED
    BY <2>1, <2>2, <2>3
<1>3. /\ IsFiniteSet(Carrying(e)')
      /\ Cardinality(Carrying(e)') <= Cardinality(Carrying(e) \cup {r})
  BY <1>2, FS_Subset
<1> QED
  BY <1>1, <1>2, <1>3, FS_CardinalityType

\* No more relays carry a row than before.
LEMMA NoMoreCarriers ==
  ASSUME NEW e, Carrying(e)' \subseteq Carrying(e)
  PROVE  /\ Cardinality(Carrying(e)) \in Nat
         /\ Cardinality(Carrying(e)') \in Nat
         /\ Cardinality(Carrying(e)') <= Cardinality(Carrying(e))
<1>1. IsFiniteSet(Carrying(e))
  BY RelayAssumption, FS_Subset DEF Carrying
<1> QED
  BY <1>1, FS_Subset, FS_CardinalityType

\* A relay that leaves the carriers of a row makes them one fewer.
LEMMA OneCarrierLess ==
  ASSUME NEW e, NEW r \in Carrying(e), Carrying(e)' \subseteq Carrying(e) \ {r}
  PROVE  /\ Cardinality(Carrying(e)) \in Nat
         /\ Cardinality(Carrying(e)') \in Nat
         /\ Cardinality(Carrying(e)') + 1 <= Cardinality(Carrying(e))
<1>1. IsFiniteSet(Carrying(e))
  BY RelayAssumption, FS_Subset DEF Carrying
<1>2. /\ IsFiniteSet(Carrying(e) \ {r})
      /\ Cardinality(Carrying(e) \ {r}) = Cardinality(Carrying(e)) - 1
  BY <1>1, FS_RemoveElement
<1> QED
  BY <1>1, <1>2, FS_Subset, FS_CardinalityType

-----------------------------------------------------------------------------
(* The steps *)

LEMMA RelayInitHolds == RelayInit => RelayInv
<1> SUFFICES ASSUME RelayInit PROVE RelayInv
  OBVIOUS
<1>1. \A e \in Rows : Carrying(e) = {}
  BY DEF RelayInit, Carrying
<1>2. DeliveriesAreCharged
  <2>1. \A e \in Rows : Cardinality(Carrying(e)) = 0
    BY <1>1, FS_EmptySet, Zenon
  <2> QED
    BY <2>1 DEF RelayInit, DeliveriesAreCharged
<1> QED
  BY <1>2 DEF RelayInit, RelayInv, RelayTypeOK, RowState, Statement, Table, HoldersHaveClaims,
     ClaimsAreOnPending, MarkFollowsDelivery, MarkedMeansDelivered, AttemptsAreReopenings, Claimable

\* A transaction's outbox row appears.
LEMMA CommitEventStep ==
  ASSUME RelayInv, NEW f \in Rows, CommitEvent(f)
  PROVE  RelayInv'
<1> USE DEF RelayInv, RelayTypeOK, CommitEvent, relayVars
<1>1. RelayTypeOK'
  BY DEF RowState
<1>2. DeliveriesAreCharged'
  BY NoMoreCarriers DEF DeliveriesAreCharged, Carrying
<1>3. AttemptsAreReopenings'
  BY DEF AttemptsAreReopenings, Claimable
<1> QED
  BY <1>1, <1>2, <1>3 DEF HoldersHaveClaims, ClaimsAreOnPending, MarkFollowsDelivery,
     MarkedMeansDelivered

\* A claim reaches its timeout: the row is claimable, at the price of a reopening.
LEMMA ClaimTimesOutStep ==
  ASSUME RelayInv, NEW f \in Rows, ClaimTimesOut(f)
  PROVE  RelayInv'
<1> USE DEF RelayInv, RelayTypeOK, ClaimTimesOut, relayVars
<1>1. RelayTypeOK'
  OBVIOUS
<1>2. DeliveriesAreCharged'
  BY NoMoreCarriers DEF DeliveriesAreCharged, Carrying
<1>3. AttemptsAreReopenings'
  BY DEF AttemptsAreReopenings, Claimable
<1> QED
  BY <1>1, <1>2, <1>3 DEF HoldersHaveClaims, ClaimsAreOnPending, MarkFollowsDelivery,
     MarkedMeansDelivered

\* A pass that goes on with its batch leaves the rows alone; it comes to mark or
\* to release from the statements before them only.
LEMMA KeepBatch ==
  ASSUME RelayInv, NEW r \in Relays, NEW s \in Statement \ {"publish", "mark"}, Proceed(r, s),
         s = "release" => at[r] = "mark",
         UNCHANGED <<rowVars, nextClaim, delivered, reopened>>, faults' \in 0..MaxFaults
  PROVE  RelayInv'
<1> USE DEF RelayInv, RelayTypeOK, Proceed, Enter, rowVars
<1>1. RelayTypeOK'
  OBVIOUS
<1>2. HoldersHaveClaims'
  BY DEF HoldersHaveClaims
<1>3. MarkFollowsDelivery'
  BY DEF MarkFollowsDelivery
<1>4. DeliveriesAreCharged'
  <2> SUFFICES ASSUME NEW e \in Rows
               PROVE  delivered'[e] + Cardinality(Carrying(e)') <= attempts'[e]
    BY DEF DeliveriesAreCharged
  <2>1. Carrying(e)' \subseteq Carrying(e)
    BY DEF Carrying
  <2> QED
    BY <2>1, NoMoreCarriers DEF DeliveriesAreCharged
<1> QED
  BY <1>1, <1>2, <1>3, <1>4 DEF ClaimsAreOnPending, MarkedMeansDelivered,
     AttemptsAreReopenings, Claimable

\* So does a pass that goes on without one.
LEMMA DropBatch ==
  ASSUME RelayInv, NEW r \in Relays, NEW s \in {"idle", "claim", "purge"}, NEW t \in Table,
         Enter(r, s, t, {}, NoClaim),
         UNCHANGED <<rowVars, nextClaim, delivered, reopened>>, faults' \in 0..MaxFaults
  PROVE  RelayInv'
<1> USE DEF RelayInv, RelayTypeOK, Enter, rowVars
<1>1. RelayTypeOK'
  BY DEF Statement
<1>2. HoldersHaveClaims'
  BY DEF HoldersHaveClaims
<1>3. MarkFollowsDelivery'
  BY DEF MarkFollowsDelivery
<1>4. DeliveriesAreCharged'
  <2> SUFFICES ASSUME NEW e \in Rows
               PROVE  delivered'[e] + Cardinality(Carrying(e)') <= attempts'[e]
    BY DEF DeliveriesAreCharged
  <2>1. Carrying(e)' \subseteq Carrying(e)
    BY DEF Carrying
  <2> QED
    BY <2>1, NoMoreCarriers DEF DeliveriesAreCharged
<1> QED
  BY <1>1, <1>2, <1>3, <1>4 DEF ClaimsAreOnPending, MarkedMeansDelivered,
     AttemptsAreReopenings, Claimable

\* The claim statement: one attempt and one carrier more for every chosen row.
LEMMA ClaimBatchStep ==
  ASSUME RelayInv, NEW r \in Relays, NEW locked, ClaimBatch(r, locked)
  PROVE  RelayInv'
<1> USE DEF RelayInv, RelayTypeOK
<1> DEFINE chosen == Oldest({e \in RowsOf(table[r]) : Claimable(e)} \ locked)
<1>1. chosen \subseteq Rows /\ \A e \in chosen : Claimable(e)
  BY DEF Oldest, RowsOf, Rows
<1>2. /\ at[r] = "claim"
      /\ publishClaim' = [e \in Rows |-> IF e \in chosen THEN nextClaim ELSE publishClaim[e]]
      /\ stale' = stale \ chosen
      /\ attempts' = [e \in Rows |-> IF e \in chosen THEN attempts[e] + 1 ELSE attempts[e]]
      /\ at' = [at EXCEPT ![r] = "publish"]
      /\ table' = [table EXCEPT ![r] = table[r]]
      /\ batch' = [batch EXCEPT ![r] = chosen]
      /\ claimId' = [claimId EXCEPT ![r] = nextClaim]
      /\ nextClaim' = nextClaim + 1
      /\ UNCHANGED <<row, faults, delivered, reopened>>
  BY DEF ClaimBatch, Enter
<1> HIDE DEF chosen
<1>3. RelayTypeOK'
  BY <1>1, <1>2 DEF Statement
<1>4. HoldersHaveClaims' /\ MarkFollowsDelivery'
  BY <1>1, <1>2 DEF HoldersHaveClaims, MarkFollowsDelivery
<1>5. ClaimsAreOnPending'
  BY <1>1, <1>2 DEF ClaimsAreOnPending, Claimable
<1>6. DeliveriesAreCharged'
  <2> SUFFICES ASSUME NEW e \in Rows
               PROVE  delivered'[e] + Cardinality(Carrying(e)') <= attempts'[e]
    BY DEF DeliveriesAreCharged
  <2>1. CASE e \in chosen
    <3>1. Carrying(e)' \subseteq Carrying(e) \cup {r}
      BY <1>2 DEF Carrying
    <3> QED
      BY <1>2, <2>1, <3>1, OneMoreCarrier DEF DeliveriesAreCharged
  <2>2. CASE e \notin chosen
    <3>1. Carrying(e)' \subseteq Carrying(e)
      BY <1>2, <2>2 DEF Carrying
    <3> QED
      BY <1>2, <2>2, <3>1, NoMoreCarriers DEF DeliveriesAreCharged
  <2> QED
    BY <2>1, <2>2
<1>7. AttemptsAreReopenings'
  BY <1>1, <1>2 DEF AttemptsAreReopenings, Claimable
<1> QED
  BY <1>2, <1>3, <1>4, <1>5, <1>6, <1>7 DEF MarkedMeansDelivered

\* The sink accepts some of the batch; only all of it lets the relay mark.
LEMMA SinkStep ==
  ASSUME RelayInv, NEW r \in Relays, NEW accepted \in SUBSET batch[r], NEW s \in {"mark", "release"},
         at[r] = "publish", s = "mark" => accepted = batch[r],
         Deliver(accepted), Proceed(r, s),
         UNCHANGED <<rowVars, nextClaim, reopened>>, faults' \in 0..MaxFaults
  PROVE  RelayInv'
<1> USE DEF RelayInv, RelayTypeOK, rowVars
<1>1. /\ delivered' = [e \in Rows |-> IF e \in accepted THEN delivered[e] + 1 ELSE delivered[e]]
      /\ at' = [at EXCEPT ![r] = s]
      /\ table' = table /\ batch' = batch /\ claimId' = claimId
  BY DEF Deliver, Proceed, Enter
<1>2. RelayTypeOK'
  BY <1>1 DEF Statement
<1>3. HoldersHaveClaims' /\ ClaimsAreOnPending'
  BY <1>1 DEF HoldersHaveClaims, ClaimsAreOnPending
<1>4. MarkFollowsDelivery' /\ MarkedMeansDelivered'
  BY <1>1 DEF MarkFollowsDelivery, MarkedMeansDelivered
<1>5. DeliveriesAreCharged'
  <2> SUFFICES ASSUME NEW e \in Rows
               PROVE  delivered'[e] + Cardinality(Carrying(e)') <= attempts'[e]
    BY DEF DeliveriesAreCharged
  <2>1. CASE e \in accepted
    <3>1. r \in Carrying(e) /\ Carrying(e)' \subseteq Carrying(e) \ {r}
      BY <1>1, <2>1 DEF Carrying
    <3> QED
      BY <1>1, <2>1, <3>1, OneCarrierLess DEF DeliveriesAreCharged
  <2>2. CASE e \notin accepted
    <3>1. Carrying(e)' \subseteq Carrying(e)
      BY <1>1 DEF Carrying
    <3> QED
      BY <1>1, <2>2, <3>1, NoMoreCarriers DEF DeliveriesAreCharged
  <2> QED
    BY <2>1, <2>2
<1>6. AttemptsAreReopenings'
  BY <1>1 DEF AttemptsAreReopenings, Claimable
<1> QED
  BY <1>2, <1>3, <1>4, <1>5, <1>6

\* The marking update, of the rows that still carry the relay's claim.
LEMMA MarkPublishedStep ==
  ASSUME RelayInv, NEW r \in Relays, MarkPublished(r)
  PROVE  RelayInv'
<1> USE DEF RelayInv, RelayTypeOK
<1>1. /\ at[r] = "mark"
      /\ row' = [e \in Rows |-> IF Mine(r, e) THEN "published" ELSE row[e]]
      /\ publishClaim' = [e \in Rows |-> IF Mine(r, e) THEN NoClaim ELSE publishClaim[e]]
      /\ stale' = {e \in stale : ~Mine(r, e)}
      /\ UNCHANGED <<attempts, nextClaim, faults, delivered, reopened>>
      /\ \E s \in {"claim", "purge"}, t \in Table : Enter(r, s, t, {}, NoClaim)
  BY DEF MarkPublished, NextTable, Table
<1>2. PICK s \in {"claim", "purge"}, t \in Table : Enter(r, s, t, {}, NoClaim)
  BY <1>1
<1>3. claimId[r] # NoClaim
  BY <1>1 DEF HoldersHaveClaims
<1>4. RelayTypeOK'
  BY <1>1, <1>2 DEF Enter, Statement, RowState
<1>5. HoldersHaveClaims' /\ MarkFollowsDelivery'
  BY <1>1, <1>2 DEF HoldersHaveClaims, MarkFollowsDelivery, Enter
<1>6. ClaimsAreOnPending'
  BY <1>1 DEF ClaimsAreOnPending
<1>7. MarkedMeansDelivered'
  BY <1>1 DEF MarkedMeansDelivered, MarkFollowsDelivery, Mine
<1>8. DeliveriesAreCharged'
  <2> SUFFICES ASSUME NEW e \in Rows
               PROVE  delivered'[e] + Cardinality(Carrying(e)') <= attempts'[e]
    BY DEF DeliveriesAreCharged
  <2>1. Carrying(e)' \subseteq Carrying(e)
    BY <1>1, <1>2 DEF Carrying, Enter
  <2> QED
    BY <1>1, <2>1, NoMoreCarriers DEF DeliveriesAreCharged
<1>9. AttemptsAreReopenings'
  BY <1>1, <1>3 DEF AttemptsAreReopenings, Claimable, Mine, ClaimsAreOnPending
<1> QED
  BY <1>4, <1>5, <1>6, <1>7, <1>8, <1>9

\* The catch block gives the rows back, each at the price of a reopening.
LEMMA ReleaseClaimStep ==
  ASSUME RelayInv, NEW r \in Relays, ReleaseClaim(r)
  PROVE  RelayInv'
<1> USE DEF RelayInv, RelayTypeOK
<1>1. /\ publishClaim' = [e \in Rows |-> IF publishClaim[e] = claimId[r] THEN NoClaim ELSE publishClaim[e]]
      /\ stale' = {e \in stale : publishClaim[e] # claimId[r]}
      /\ reopened' = [e \in Rows |-> IF publishClaim[e] = claimId[r] /\ e \notin stale
                                     THEN reopened[e] + 1 ELSE reopened[e]]
      /\ UNCHANGED <<row, attempts, nextClaim, faults, delivered>>
      /\ Enter(r, "idle", "case", {}, NoClaim)
  BY DEF ReleaseClaim, EndPass
<1>2. claimId[r] # NoClaim
  BY DEF HoldersHaveClaims, ReleaseClaim
<1>3. RelayTypeOK'
  BY <1>1 DEF Enter, Statement, Table
<1>4. HoldersHaveClaims' /\ MarkFollowsDelivery' /\ MarkedMeansDelivered'
  BY <1>1 DEF HoldersHaveClaims, MarkFollowsDelivery, MarkedMeansDelivered, Enter
<1>5. ClaimsAreOnPending'
  BY <1>1 DEF ClaimsAreOnPending
<1>6. DeliveriesAreCharged'
  <2> SUFFICES ASSUME NEW e \in Rows
               PROVE  delivered'[e] + Cardinality(Carrying(e)') <= attempts'[e]
    BY DEF DeliveriesAreCharged
  <2>1. Carrying(e)' \subseteq Carrying(e)
    BY <1>1 DEF Carrying, Enter
  <2> QED
    BY <1>1, <2>1, NoMoreCarriers DEF DeliveriesAreCharged
<1>7. AttemptsAreReopenings'
  BY <1>1, <1>2 DEF AttemptsAreReopenings, Claimable, ClaimsAreOnPending
<1> QED
  BY <1>3, <1>4, <1>5, <1>6, <1>7

\* Published rows are aged out.
LEMMA PurgePublishedStep ==
  ASSUME RelayInv, NEW r \in Relays, NEW aged, PurgePublished(r, aged)
  PROVE  RelayInv'
<1> USE DEF RelayInv, RelayTypeOK
<1>1. /\ \A e \in aged : row[e] = "published"
      /\ row' = [e \in Rows |-> IF e \in aged THEN "purged" ELSE row[e]]
      /\ UNCHANGED <<publishClaim, stale, attempts, nextClaim, faults, delivered, reopened>>
      /\ \E s \in {"idle", "purge"}, t \in Table : Enter(r, s, t, {}, NoClaim)
  BY DEF PurgePublished, EndPass, Table
<1>2. PICK s \in {"idle", "purge"}, t \in Table : Enter(r, s, t, {}, NoClaim)
  BY <1>1
<1>3. RelayTypeOK'
  BY <1>1, <1>2 DEF Enter, Statement, RowState
<1>4. HoldersHaveClaims' /\ MarkFollowsDelivery'
  BY <1>1, <1>2 DEF HoldersHaveClaims, MarkFollowsDelivery, Enter
<1>5. ClaimsAreOnPending' /\ MarkedMeansDelivered'
  BY <1>1 DEF ClaimsAreOnPending, MarkedMeansDelivered
<1>6. DeliveriesAreCharged'
  <2> SUFFICES ASSUME NEW e \in Rows
               PROVE  delivered'[e] + Cardinality(Carrying(e)') <= attempts'[e]
    BY DEF DeliveriesAreCharged
  <2>1. Carrying(e)' \subseteq Carrying(e)
    BY <1>1, <1>2 DEF Carrying, Enter
  <2> QED
    BY <1>1, <2>1, NoMoreCarriers DEF DeliveriesAreCharged
<1>7. AttemptsAreReopenings'
  BY <1>1 DEF AttemptsAreReopenings, Claimable
<1> QED
  BY <1>3, <1>4, <1>5, <1>6, <1>7

LEMMA RelayStepHolds == RelayInv /\ [RelayNext]_allRelayVars => RelayInv'
<1> SUFFICES ASSUME RelayInv, [RelayNext]_allRelayVars PROVE RelayInv'
  OBVIOUS
<1>1. ASSUME NEW e \in Rows, CommitEvent(e) \/ ClaimTimesOut(e)
      PROVE  RelayInv'
  BY <1>1, CommitEventStep, ClaimTimesOutStep
<1>2. ASSUME NEW r \in Relays, StartPass(r)
      PROVE  RelayInv'
  BY <1>2, KeepBatch DEF StartPass, RelayInv, RelayTypeOK, Statement
<1>3. ASSUME NEW r \in Relays, NEW locked \in SUBSET Rows, ClaimBatch(r, locked)
      PROVE  RelayInv'
  BY <1>3, ClaimBatchStep
<1>4. ASSUME NEW r \in Relays, NEW locked \in SUBSET Rows, NothingToClaim(r, locked)
      PROVE  RelayInv'
  <2>1. UNCHANGED <<rowVars, nextClaim, delivered, reopened>> /\ faults' \in 0..MaxFaults
    BY <1>4 DEF NothingToClaim, RelayInv, RelayTypeOK
  <2>2. CASE table[r] = "case"
    <3>1. Enter(r, "claim", "evidence", {}, NoClaim)
      BY <1>4, <2>2 DEF NothingToClaim, NextTable
    <3> QED
      BY <2>1, <3>1, DropBatch DEF Table
  <2>3. CASE table[r] # "case"
    <3>1. Enter(r, "purge", "case", {}, NoClaim)
      BY <1>4, <2>3 DEF NothingToClaim, NextTable
    <3> QED
      BY <2>1, <3>1, DropBatch DEF Table
  <2> QED
    BY <2>2, <2>3
<1>5. ASSUME NEW r \in Relays, PublishBatch(r)
      PROVE  RelayInv'
  BY <1>5, SinkStep DEF PublishBatch, RelayInv, RelayTypeOK
<1>6. ASSUME NEW r \in Relays, MarkPublished(r) \/ ReleaseClaim(r)
      PROVE  RelayInv'
  BY <1>6, MarkPublishedStep, ReleaseClaimStep
<1>7. ASSUME NEW r \in Relays, NEW aged \in SUBSET Rows, PurgePublished(r, aged)
      PROVE  RelayInv'
  BY <1>7, PurgePublishedStep
<1>8. ASSUME NEW r \in Relays, NEW accepted \in SUBSET Rows, PublishFails(r, accepted)
      PROVE  RelayInv'
  <2>1. faults' \in 0..MaxFaults
    BY <1>8 DEF PublishFails, Fault, RelayInv, RelayTypeOK
  <2> QED
    BY <1>8, <2>1, SinkStep DEF PublishFails
<1>9. ASSUME NEW r \in Relays, MarkFails(r)
      PROVE  RelayInv'
  <2>1. faults' \in 0..MaxFaults
    BY <1>9 DEF MarkFails, Fault, RelayInv, RelayTypeOK
  <2> QED
    BY <1>9, <2>1, KeepBatch DEF MarkFails, Statement
<1>10. ASSUME NEW r \in Relays, PassAborts(r)
       PROVE  RelayInv'
  <2>1. faults' \in 0..MaxFaults
    BY <1>10 DEF PassAborts, Fault, RelayInv, RelayTypeOK
  <2> QED
    <3>1. Enter(r, "idle", "case", {}, NoClaim) /\ UNCHANGED <<rowVars, nextClaim, delivered, reopened>>
      BY <1>10 DEF PassAborts, EndPass
    <3> QED
      BY <2>1, <3>1, DropBatch DEF Table
<1>11. CASE UNCHANGED allRelayVars
  <2> USE <1>11 DEF allRelayVars, rowVars, relayVars, RelayInv
  <2>1. DeliveriesAreCharged'
    BY DEF DeliveriesAreCharged, Carrying
  <2> QED
    BY <2>1 DEF RelayTypeOK, HoldersHaveClaims, ClaimsAreOnPending, MarkFollowsDelivery,
       MarkedMeansDelivered, AttemptsAreReopenings, Claimable
<1> QED
  BY <1>1, <1>2, <1>3, <1>4, <1>5, <1>6, <1>7, <1>8, <1>9, <1>10, <1>11
  DEF RelayNext, RelayStep, LockedStep, FaultStep

-----------------------------------------------------------------------------
(* The theorems *)

\* The inductive invariant of relays and tables holds in every reachable state,
\* for any number of relays, rows, faults and any batch size.
THEOREM RelayInvariance == RelaySpec => []RelayInv
  BY RelayInitHolds, RelayStepHolds, PTL DEF RelaySpec

\* Relays and outbox rows stay in their ranges.
THEOREM RelayTypeCorrect == RelaySpec => []RelayTypeOK
<1>1. RelayInv => RelayTypeOK
  BY DEF RelayInv
<1> QED
  BY <1>1, RelayInvariance, PTL

\* markPublished and purgePublished touch only rows the sink has accepted,
\* however many relays overtake each other and wherever a pass fails.
THEOREM MarkedRowsWereDelivered == RelaySpec => []MarkedMeansDelivered
<1>1. RelayInv => MarkedMeansDelivered
  BY DEF RelayInv
<1> QED
  BY <1>1, RelayInvariance, PTL

\* A row is delivered no more often than publish_attempts says and, beyond the
\* first time, no more often than its claim timed out or was given back.
THEOREM DeliveriesAreBounded == RelaySpec => []ExtraDeliveriesExplained
<1>1. RelayInv => ExtraDeliveriesExplained
  <2> SUFFICES ASSUME RelayInv, NEW e \in Rows
               PROVE  delivered[e] <= 1 + reopened[e] /\ delivered[e] <= attempts[e]
    BY DEF ExtraDeliveriesExplained
  <2>1. Cardinality(Carrying(e)) \in Nat
    BY RelayAssumption, FS_Subset, FS_CardinalityType DEF Carrying
  <2>2. /\ delivered[e] + Cardinality(Carrying(e)) <= attempts[e]
        /\ attempts[e] <= 1 + reopened[e]
        /\ delivered[e] \in Nat /\ attempts[e] \in Nat /\ reopened[e] \in Nat
    BY DEF RelayInv, RelayTypeOK, DeliveriesAreCharged, AttemptsAreReopenings
  <2> QED
    BY <2>1, <2>2
<1> QED
  BY <1>1, RelayInvariance, PTL
=============================================================================
