------------------------ MODULE RunAuthority_proofs ------------------------
(***************************************************************************)
(* Proofs about what a runtime may still do, for any number of attempts    *)
(* and workers, any plan and any other callers of the case API: who moves  *)
(* the run, under what an agent's command was accepted, and what a node    *)
(* journaled as completed has behind it.                                   *)
(***************************************************************************)
EXTENDS RunAuthority, TLAPS

-----------------------------------------------------------------------------
(* Types *)

Ends == {"none", "completed", "failed"}

Stages == {"received", "read", "authorized", "moved"}

Posts == [attempt : Attempts, op : Requests, stage : Stages]

Envelopes == [attempt : Attempts, epoch : Nat, caseWrites : {declaredCaseWrites}]

\* The commands there are: the node's own, and those of other callers.
Submitted == {caseWrite} \cup {q.command : q \in CaseRequests}

Entries == {[id |-> c.id, type |-> c.type, actor |-> c.actor, token |-> t]
              : c \in Submitted, t \in SUBSET Envelopes}

RunTypeOK ==
  /\ run \in [status : {"waiting", "running", "completed", "failed", "cancelled"}, epoch : Nat,
              attempt : 0 .. MaxAttempts, owner : SUBSET Workers, node : SUBSET {"node"},
              checkpoint : BOOLEAN, cancel : BOOLEAN]
  /\ grant \in [Attempts -> [worker : SUBSET Workers, epoch : Nat]]

ProgramTypeOK ==
  /\ at \in [Attempts -> Requests \cup Ends]
  /\ posts \subseteq Posts

TokenTypeOK ==
  /\ envelope \in [Attempts -> SUBSET Envelopes]
  /\ envelopes \subseteq Envelopes
  /\ expired \subseteq Grants \cup Envelopes
  /\ faults \in 0 .. MaxFaults

JournalTypeOK ==
  /\ row \in [Attempts -> [status : {"none", "running", "completed", "failed"}, epoch : Nat]]
  /\ events \subseteq Attempts \X Requests

CaseTypeOK ==
  /\ sequence \in [Attempts -> Nat]
  /\ evidence \subseteq Attempts
  /\ commands \in Seq(Entries)

TypeOK == RunTypeOK /\ ProgramTypeOK /\ TokenTypeOK /\ JournalTypeOK /\ CaseTypeOK

-----------------------------------------------------------------------------
(* The inductive invariant *)

\* Only attempts that were claimed act: what they send and what they were
\* given is theirs.
OnlyClaimedAct ==
  /\ \A a \in Attempts : at[a] # "none" => a <= run.attempt
  /\ \A p \in posts : p.attempt <= run.attempt
  /\ \A e \in envelopes : e.attempt <= run.attempt

\* Every claim takes a new fence, and a cancellation takes one nobody holds.
FencesGrow ==
  /\ \A a \in 1 .. run.attempt : grant[a].epoch <= run.epoch
  /\ \A a, b \in 1 .. run.attempt : a < b => grant[a].epoch < grant[b].epoch
  /\ run.cancel => \A a \in 1 .. run.attempt : grant[a].epoch < run.epoch

EnvelopesAreGranted == \A e \in envelopes : e.epoch = grant[e.attempt].epoch

\* The requests a runtime sends only once its evidence, and its command, were accepted.
AfterCommand == {"event-write", "finish-completed", "event-completed", "checkpoint", "completed"}

AfterEvidence == {"sequence", "command"} \cup AfterCommand

Behind(a, op) ==
  /\ op \in AfterEvidence => a \in evidence
  /\ op \in AfterCommand => Accepted(caseWrite.id)

\* A request that timed out is still handled; one that was sent had its
\* predecessors answered.
ProgramOrder ==
  /\ \A a \in Attempts : Behind(a, at[a])
  /\ \A p \in posts : Behind(p.attempt, p.op)

IInv ==
  /\ TypeOK
  /\ OnlyClaimedAct
  /\ FencesGrow
  /\ EnvelopesAreGranted
  /\ ProgramOrder
  /\ AgentEntriesAreGranted
  /\ CompletedMeansWritten

-----------------------------------------------------------------------------
(* Lemmas about the runtime's program *)

LEMMA Steps ==
  /\ DOMAIN Program = 1 .. 10
  /\ Program[1] = "node-started"
  /\ Program[2] = "event-started"
  /\ Program[3] = "envelope"
  /\ Program[4] = "evidence"
  /\ Program[5] = "sequence"
  /\ Program[6] = "command"
  /\ Program[7] = "event-write"
  /\ Program[8] = "finish-completed"
  /\ Program[9] = "event-completed"
  /\ Program[10] = "checkpoint"
  BY DEF Program

LEMMA RequestNames ==
  Requests = {"node-started", "event-started", "envelope", "evidence", "sequence", "command",
              "event-write", "finish-completed", "event-completed", "checkpoint",
              "finish-failed", "event-failed"}
<1>1. {Program[i] : i \in DOMAIN Program}
        = {"node-started", "event-started", "envelope", "evidence", "sequence", "command",
           "event-write", "finish-completed", "event-completed", "checkpoint"}
  BY Steps
<1> QED
  BY <1>1 DEF Requests

\* The requests are distinct: the one after a request is the next of the program.
LEMMA Successor ==
  ASSUME NEW k \in 1 .. 9
  PROVE  After(Program[k]) = Program[k + 1]
<1>1. (CHOOSE i \in DOMAIN Program : Program[i] = Program[k]) = k
  <2>1. \A i \in DOMAIN Program : Program[i] = Program[k] => i = k
    BY Steps
  <2>2. k \in DOMAIN Program
    BY Steps
  <2> QED
    BY <2>1, <2>2
<1>2. Program[k] \notin {"finish-failed", "event-failed", "checkpoint"}
  BY Steps
<1> QED
  BY <1>1, <1>2 DEF After

LEMMA AfterFacts ==
  /\ After("node-started") = "event-started"
  /\ After("event-started") = "envelope"
  /\ After("envelope") = "evidence"
  /\ After("evidence") = "sequence"
  /\ After("sequence") = "command"
  /\ After("command") = "event-write"
  /\ After("event-write") = "finish-completed"
  /\ After("finish-completed") = "event-completed"
  /\ After("event-completed") = "checkpoint"
  /\ After("checkpoint") = "completed"
  /\ After("finish-failed") = "event-failed" /\ After("event-failed") = "failed"
  BY Steps, Successor DEF After

LEMMA AfterType ==
  ASSUME NEW op \in Requests
  PROVE  /\ After(op) \in Requests \cup Ends /\ OnError(op) \in Requests \cup Ends
         /\ OnError(op) \notin AfterEvidence
         /\ After(op) # "none" /\ OnError(op) # "none"
  BY AfterFacts, RequestNames DEF Ends, OnError, AfterEvidence, AfterCommand

\* What keeps the runtimes' side of the invariant: claimed attempts only, in
\* the order of the program.
RuntimesInOrder == ProgramTypeOK /\ OnlyClaimedAct /\ ProgramOrder

\* Evidence and commands are only added to.
LEMMA BehindStays ==
  ASSUME NEW a, NEW op, Behind(a, op), evidence \subseteq evidence',
         Accepted(caseWrite.id) => Accepted(caseWrite.id)'
  PROVE  Behind(a, op)'
  BY DEF Behind

LEMMA SentType ==
  ASSUME NEW a \in Attempts, NEW op
  PROVE  /\ Sent(a, op) \subseteq Posts
         /\ \A p \in Sent(a, op) : p.attempt = a /\ p.op = op
  BY DEF Sent, Posts, Stages

\* A service answers a runtime, which goes on to its next request if it still waits.
LEMMA AnswerKeepsOrder ==
  ASSUME RuntimesInOrder, NEW p \in posts, NEW next \in (Requests \cup Ends) \ {"none"},
         Answered(p, next), Behind(p.attempt, next)',
         run'.attempt = run.attempt, evidence \subseteq evidence',
         Accepted(caseWrite.id) => Accepted(caseWrite.id)',
         \A e \in envelopes' : e \in envelopes \/ e.attempt = p.attempt
  PROVE  RuntimesInOrder'
<1> DEFINE a == p.attempt
<1>1. a \in Attempts /\ a <= run.attempt
  BY DEF RuntimesInOrder, ProgramTypeOK, Posts, OnlyClaimedAct
<1>2. /\ at' \in [Attempts -> Requests \cup Ends]
      /\ \A b \in Attempts : at'[b] = at[b] \/ (b = a /\ at'[b] = next)
  BY <1>1 DEF Answered, RuntimesInOrder, ProgramTypeOK
<1>3. posts' \subseteq posts \cup Sent(a, next)
  BY DEF Answered
<1>4. /\ posts' \subseteq Posts
      /\ \A q \in posts' : q \in posts \/ (q.attempt = a /\ q.op = next)
  BY <1>1, <1>3, SentType DEF RuntimesInOrder, ProgramTypeOK
<1>5. OnlyClaimedAct'
  BY <1>1, <1>2, <1>4 DEF RuntimesInOrder, OnlyClaimedAct
<1>6. ASSUME NEW b \in Attempts PROVE Behind(b, at[b])'
  <2>1. CASE at'[b] = at[b]
    <3>1. Behind(b, at[b])
      BY DEF RuntimesInOrder, ProgramOrder
    <3> QED
      BY <2>1, <3>1 DEF Behind
  <2>2. CASE b = a /\ at'[b] = next
    BY <2>2 DEF Behind
  <2> QED
    BY <1>2, <2>1, <2>2
<1>7. ASSUME NEW q \in posts' PROVE Behind(q.attempt, q.op)'
  <2>1. CASE q \in posts
    <3>1. Behind(q.attempt, q.op)
      BY <2>1 DEF RuntimesInOrder, ProgramOrder
    <3> QED
      BY <3>1, BehindStays
  <2>2. CASE q.attempt = a /\ q.op = next
    BY <2>2 DEF Behind
  <2> QED
    BY <1>4, <2>1, <2>2
<1> QED
  BY <1>2, <1>4, <1>5, <1>6, <1>7 DEF RuntimesInOrder, ProgramTypeOK, ProgramOrder

\* A service goes on to its next statement.
LEMMA AdvanceKeepsOrder ==
  ASSUME RuntimesInOrder, NEW p \in posts, NEW stage \in Stages, Advance(p, stage),
         run'.attempt = run.attempt, UNCHANGED <<evidence, commands, envelopes>>
  PROVE  RuntimesInOrder'
<1> DEFINE q == [p EXCEPT !.stage = stage]
<1>1. p \in Posts
  BY DEF RuntimesInOrder, ProgramTypeOK
<1>2. q \in Posts /\ q.attempt = p.attempt /\ q.op = p.op
  BY <1>1 DEF Posts
<1> HIDE DEF q
<1>3. posts' = (posts \ {p}) \cup {q} /\ UNCHANGED at
  BY DEF Advance, q
<1>4. Accepted(caseWrite.id)' <=> Accepted(caseWrite.id)
  BY DEF Accepted
<1>5. ASSUME NEW x \in posts' PROVE Behind(x.attempt, x.op)'
  <2>1. PICK y \in posts : x.attempt = y.attempt /\ x.op = y.op
    BY <1>2, <1>3
  <2>2. Behind(x.attempt, x.op)
    BY <2>1 DEF RuntimesInOrder, ProgramOrder
  <2> QED
    BY <1>4, <2>2, BehindStays
<1>6. ASSUME NEW b \in Attempts PROVE Behind(b, at[b])'
  BY <1>3, <1>4, <1>6 DEF RuntimesInOrder, ProgramOrder, Behind
<1> QED
  BY <1>2, <1>3, <1>5, <1>6 DEF RuntimesInOrder, ProgramTypeOK, OnlyClaimedAct, ProgramOrder

\* A request is refused: the runtime journals the failure or gives up.
LEMMA RefuseKeepsOrder ==
  ASSUME RuntimesInOrder, NEW p \in posts, Refuse(p),
         run'.attempt = run.attempt, UNCHANGED <<evidence, commands, envelopes>>
  PROVE  RuntimesInOrder'
<1>1. /\ p.op \in Requests /\ OnError(p.op) \in (Requests \cup Ends) \ {"none"}
      /\ OnError(p.op) \notin AfterEvidence
  BY AfterType DEF RuntimesInOrder, ProgramTypeOK, Posts
<1>2. Behind(p.attempt, OnError(p.op))'
  BY <1>1 DEF Behind, AfterEvidence
<1>3. Accepted(caseWrite.id)' <=> Accepted(caseWrite.id)
  BY DEF Accepted
<1> QED
  BY <1>1, <1>2, <1>3, AnswerKeepsOrder DEF Refuse

\* A request succeeds.
LEMMA OkKeepsOrder ==
  ASSUME RuntimesInOrder, NEW p \in posts, Ok(p), run'.attempt = run.attempt,
         evidence \subseteq evidence', Accepted(caseWrite.id) => Accepted(caseWrite.id)',
         p.op = "evidence" => p.attempt \in evidence',
         p.op = "command" => Accepted(caseWrite.id)',
         \A e \in envelopes' : e \in envelopes \/ e.attempt = p.attempt
  PROVE  RuntimesInOrder'
<1>1. /\ p.op \in Requests /\ After(p.op) \in (Requests \cup Ends) \ {"none"}
  BY AfterType DEF RuntimesInOrder, ProgramTypeOK, Posts
<1>2. Behind(p.attempt, After(p.op))'
  <2>1. Behind(p.attempt, p.op)
    BY DEF RuntimesInOrder, ProgramOrder
  <2> QED
    BY <1>1, <2>1, AfterFacts, RequestNames DEF Behind, AfterEvidence, AfterCommand
<1> QED
  BY <1>1, <1>2, AnswerKeepsOrder DEF Ok

-----------------------------------------------------------------------------
(* Lemmas about the case and the journal *)

\* A command that is accepted is on record from then on; an agent's has an
\* envelope the broker signed.
LEMMA SubmitKeepsGrants ==
  ASSUME IInv, NEW request, NEW token \in SUBSET Envelopes, NEW c \in Submitted, NEW n,
         AuthorizedCommand(request, token, c), submitBusinessCommand(token, c, n),
         UNCHANGED <<grant, envelopes>>
  PROVE  /\ commands' \in Seq(Entries)
         /\ AgentEntriesAreGranted'
         /\ Accepted(c.id)'
         /\ Accepted(caseWrite.id) => Accepted(caseWrite.id)'
<1> DEFINE entry == [id |-> c.id, type |-> c.type, actor |-> c.actor, token |-> token]
<1>1. commands \in Seq(Entries) /\ entry \in Entries /\ commands' = Append(commands, entry)
  <2>1. commands \in Seq(Entries)
    BY DEF IInv, TypeOK, CaseTypeOK
  <2>2. entry \in Entries
    BY DEF Entries
  <2>3. commands' = Append(commands, entry)
    BY DEF submitBusinessCommand
  <2> QED
    BY <2>1, <2>2, <2>3
<1>2. c.actor = "AGENT" => \E e \in token : /\ e \in envelopes /\ c.type \in e.caseWrites
  BY DEF AuthorizedCommand, assertActorTypePermitted, verifyCaseWriteAuthority,
     assertCommandWithinEnvelope
<1>3. \A e \in envelopes : e.caseWrites = declaredCaseWrites /\ e.epoch = grant[e.attempt].epoch
  BY DEF IInv, TypeOK, TokenTypeOK, Envelopes, EnvelopesAreGranted
<1>4. entry.id = c.id /\ entry.actor = c.actor /\ entry.type = c.type /\ entry.token = token
  OBVIOUS
<1> HIDE DEF entry
<1>5. /\ commands' \in Seq(Entries) /\ Len(commands') = Len(commands) + 1
      /\ \A i \in 1 .. Len(commands) : commands'[i] = commands[i]
      /\ commands'[Len(commands) + 1] = entry
      /\ DOMAIN commands = 1 .. Len(commands) /\ DOMAIN commands' = 1 .. Len(commands) + 1
      /\ Len(commands) \in Nat
  BY <1>1
<1>6. AgentEntriesAreGranted'
  <2> SUFFICES ASSUME NEW i \in DOMAIN commands', commands'[i].actor = "AGENT"
               PROVE  \E e \in commands'[i].token :
                        /\ e \in envelopes /\ e.epoch = grant[e.attempt].epoch
                        /\ commands'[i].type \in declaredCaseWrites
    BY DEF AgentEntriesAreGranted
  <2>1. CASE i \in DOMAIN commands
    BY <1>5, <2>1 DEF IInv, AgentEntriesAreGranted
  <2>2. CASE i = Len(commands) + 1
    <3>1. commands'[i] = entry
      BY <1>5, <2>2
    <3> QED
      BY <1>2, <1>3, <1>4, <3>1
  <2> QED
    BY <1>5, <2>1, <2>2
<1>7. Accepted(c.id)'
  BY <1>4, <1>5 DEF Accepted
<1>8. Accepted(caseWrite.id) => Accepted(caseWrite.id)'
  BY <1>5 DEF Accepted
<1> QED
  BY <1>5, <1>6, <1>7, <1>8

\* A step of a service that leaves tokens and case alone.
LEMMA JournalFrame ==
  ASSUME IInv, RuntimesInOrder', RunTypeOK', JournalTypeOK', CompletedMeansWritten',
         run'.attempt = run.attempt, run'.epoch = run.epoch, run'.cancel = run.cancel,
         UNCHANGED <<grant, envelope, sequence, envelopes, expired, caseVars, faults>>
  PROVE  IInv'
<1>1. FencesGrow' /\ EnvelopesAreGranted' /\ AgentEntriesAreGranted'
  BY DEF IInv, FencesGrow, EnvelopesAreGranted, AgentEntriesAreGranted, caseVars
<1>2. TokenTypeOK' /\ CaseTypeOK'
  BY DEF IInv, TypeOK, TokenTypeOK, CaseTypeOK, caseVars
<1> QED
  BY <1>1, <1>2 DEF IInv, TypeOK, RuntimesInOrder

LEMMA QuietFrame ==
  ASSUME IInv, RuntimesInOrder',
         UNCHANGED <<run, grant, envelope, sequence, journalVars, envelopes, expired, caseVars, faults>>
  PROVE  IInv'
<1>1. JournalTypeOK' /\ CompletedMeansWritten' /\ RunTypeOK'
  BY DEF IInv, TypeOK, RunTypeOK, JournalTypeOK, CompletedMeansWritten, Accepted, journalVars, caseVars
<1> QED
  BY <1>1, JournalFrame

\* The case accepts something; the run, its tokens and its journal stay.
LEMMA CaseFrame ==
  ASSUME IInv, RuntimesInOrder', CaseTypeOK', AgentEntriesAreGranted',
         evidence \subseteq evidence', Accepted(caseWrite.id) => Accepted(caseWrite.id)',
         UNCHANGED <<run, grant, envelope, journalVars, envelopes, expired, faults>>
  PROVE  IInv'
<1>1. FencesGrow' /\ EnvelopesAreGranted'
  BY DEF IInv, FencesGrow, EnvelopesAreGranted
<1>2. RunTypeOK' /\ TokenTypeOK' /\ JournalTypeOK'
  BY DEF IInv, TypeOK, RunTypeOK, TokenTypeOK, JournalTypeOK, journalVars
<1>3. CompletedMeansWritten'
  BY DEF IInv, CompletedMeansWritten, journalVars
<1> QED
  BY <1>1, <1>2, <1>3 DEF IInv, TypeOK, RuntimesInOrder

LEMMA InOrder ==
  ASSUME IInv PROVE RuntimesInOrder
  BY DEF IInv, TypeOK, RuntimesInOrder

-----------------------------------------------------------------------------
(* The steps *)

LEMMA InitHolds == Init => IInv
<1> SUFFICES ASSUME Init PROVE IInv
  OBVIOUS
<1>1. RunTypeOK
  BY AttemptAssumption DEF Init, RunTypeOK, NoGrant
<1>2. ProgramTypeOK /\ TokenTypeOK /\ JournalTypeOK
  BY AttemptAssumption DEF Init, ProgramTypeOK, TokenTypeOK, JournalTypeOK, Ends
<1>3. CaseTypeOK
  BY DEF Init, CaseTypeOK
<1>4. OnlyClaimedAct /\ FencesGrow /\ EnvelopesAreGranted
  BY DEF Init, OnlyClaimedAct, FencesGrow, EnvelopesAreGranted
<1>5. ProgramOrder
  BY DEF Init, ProgramOrder, Behind, AfterEvidence, AfterCommand
<1>6. AgentEntriesAreGranted /\ CompletedMeansWritten
  BY DEF Init, AgentEntriesAreGranted, CompletedMeansWritten
<1> QED
  BY <1>1, <1>2, <1>3, <1>4, <1>5, <1>6 DEF IInv, TypeOK

\* The checks before a statement change nothing but where the request is.
LEMMA CheckStep ==
  ASSUME IInv, NEW p \in posts, ReadRun(p) \/ ReadFence(p)
  PROVE  IInv'
<1>1. UNCHANGED <<run, grant, envelope, sequence, journalVars, envelopes, expired, caseVars, faults>>
  BY DEF ReadRun, ReadFence
<1>2. Advance(p, "read") \/ Advance(p, "authorized") \/ Refuse(p)
  BY DEF ReadRun, ReadFence
<1>3. RuntimesInOrder'
  BY <1>1, <1>2, InOrder, AdvanceKeepsOrder, RefuseKeepsOrder DEF Stages, caseVars
<1> QED
  BY <1>1, <1>3, QuietFrame

\* The broker signs an envelope with the epoch of the grant it checked.
LEMMA IssueStep ==
  ASSUME IInv, NEW p \in posts, issueExecutionEnvelope(p)
  PROVE  IInv'
<1> DEFINE a == p.attempt
           e == [attempt |-> a, epoch |-> grant[a].epoch, caseWrites |-> declaredCaseWrites]
<1>1. /\ UNCHANGED <<run, grant, sequence, journalVars, expired, caseVars, faults>>
      /\ p.op = "envelope"
  BY DEF issueExecutionEnvelope
<1>2. CASE ~Permitted
  <2>1. Refuse(p) /\ UNCHANGED <<envelopes, envelope>>
    BY <1>2 DEF issueExecutionEnvelope
  <2>2. RuntimesInOrder'
    BY <1>1, <2>1, InOrder, RefuseKeepsOrder DEF caseVars
  <2> QED
    BY <1>1, <2>1, <2>2, QuietFrame
<1>3. CASE Permitted
  <2>1. /\ envelopes' = envelopes \cup {e} /\ Ok(p)
        /\ envelope' = IF at[a] = p.op THEN [envelope EXCEPT ![a] = {e}] ELSE envelope
    BY <1>3 DEF issueExecutionEnvelope
  <2>2. a \in Attempts /\ a <= run.attempt /\ e \in Envelopes
    BY DEF IInv, TypeOK, ProgramTypeOK, RunTypeOK, Posts, OnlyClaimedAct, Envelopes
  <2>3. e.attempt = a /\ e.epoch = grant[a].epoch
    OBVIOUS
  <2> HIDE DEF e
  <2>4. RuntimesInOrder'
    <3>1. \A x \in envelopes' : x \in envelopes \/ x.attempt = a
      BY <2>1, <2>3
    <3> QED
      BY <1>1, <2>1, <3>1, InOrder, OkKeepsOrder DEF caseVars, Accepted
  <2>5. TokenTypeOK'
    BY <1>1, <2>1, <2>2 DEF IInv, TypeOK, TokenTypeOK
  <2>6. EnvelopesAreGranted'
    BY <1>1, <2>1, <2>3 DEF IInv, EnvelopesAreGranted
  <2>7. AgentEntriesAreGranted'
    BY <1>1, <2>1 DEF IInv, AgentEntriesAreGranted, caseVars
  <2>8. /\ RunTypeOK' /\ JournalTypeOK' /\ CaseTypeOK' /\ FencesGrow' /\ CompletedMeansWritten'
    BY <1>1 DEF IInv, TypeOK, RunTypeOK, JournalTypeOK, CaseTypeOK, FencesGrow,
       CompletedMeansWritten, Accepted, caseVars, journalVars
  <2> QED
    BY <2>4, <2>5, <2>6, <2>7, <2>8 DEF IInv, TypeOK, RuntimesInOrder
<1> QED
  BY <1>2, <1>3

\* The fenced update of the run's node and checkpoint.
LEMMA MoveStep ==
  ASSUME IInv, NEW p \in posts, MoveRun(p)
  PROVE  IInv'
<1>1. UNCHANGED <<grant, envelope, sequence, journalVars, envelopes, expired, caseVars, faults>>
  BY DEF MoveRun
<1>2. /\ run'.attempt = run.attempt /\ run'.epoch = run.epoch /\ run'.cancel = run.cancel
      /\ RunTypeOK'
  BY <1>1 DEF MoveRun, updateRunNode, IInv, TypeOK, RunTypeOK
<1>3. (Ok(p) /\ p.op = "checkpoint") \/ Advance(p, "moved") \/ Refuse(p)
  BY DEF MoveRun
<1>4. RuntimesInOrder'
  <2>1. CASE Ok(p) /\ p.op = "checkpoint"
    BY <1>1, <1>2, <2>1, InOrder, OkKeepsOrder DEF caseVars, Accepted
  <2>2. CASE Advance(p, "moved")
    BY <1>1, <1>2, <2>2, InOrder, AdvanceKeepsOrder DEF Stages, caseVars
  <2>3. CASE Refuse(p)
    BY <1>1, <1>2, <2>3, InOrder, RefuseKeepsOrder DEF caseVars
  <2> QED
    BY <1>3, <2>1, <2>2, <2>3
<1>5. JournalTypeOK' /\ CompletedMeansWritten'
  BY <1>1 DEF IInv, TypeOK, JournalTypeOK, CompletedMeansWritten, Accepted, journalVars, caseVars
<1> QED
  BY <1>1, <1>2, <1>4, <1>5, JournalFrame

\* Rows and events of the node.  "Completed" is written by a request the
\* runtime sends only once its command was accepted.
LEMMA JournalStep ==
  ASSUME IInv, NEW p \in posts, nodeStarted(p) \/ nodeFinished(p) \/ appendEvent(p)
  PROVE  IInv'
<1> DEFINE a == p.attempt
<1>1. UNCHANGED <<run, grant, envelope, sequence, envelopes, expired, caseVars, faults>>
  BY DEF nodeStarted, nodeFinished, appendEvent
<1>2. a \in Attempts /\ p.op \in Requests /\ Behind(a, p.op)
  BY DEF IInv, TypeOK, ProgramTypeOK, Posts, ProgramOrder
<1>3. Ok(p) /\ p.op \notin {"evidence", "command"}
  BY DEF nodeStarted, nodeFinished, appendEvent
<1>4. RuntimesInOrder'
  BY <1>1, <1>3, InOrder, OkKeepsOrder DEF caseVars, Accepted
<1>5. JournalTypeOK'
  BY <1>2 DEF nodeStarted, nodeFinished, appendEvent, IInv, TypeOK, JournalTypeOK, RunTypeOK
<1>6. ASSUME NEW b \in Attempts, row'[b].status = "completed" \/ <<b, "event-completed">> \in events'
      PROVE  Accepted(caseWrite.id) /\ b \in evidence
  <2>1. CASE row[b].status = "completed" \/ <<b, "event-completed">> \in events
    BY <2>1 DEF IInv, CompletedMeansWritten
  <2>2. CASE ~(row[b].status = "completed" \/ <<b, "event-completed">> \in events)
    <3>1. b = a /\ p.op \in {"finish-completed", "event-completed"}
      BY <1>2, <1>6, <2>2 DEF nodeStarted, nodeFinished, appendEvent, IInv, TypeOK, JournalTypeOK
    <3> QED
      BY <1>2, <3>1 DEF Behind, AfterEvidence, AfterCommand
  <2> QED
    BY <2>1, <2>2
<1>7. CompletedMeansWritten' /\ RunTypeOK'
  BY <1>1, <1>6 DEF CompletedMeansWritten, Accepted, caseVars, IInv, TypeOK, RunTypeOK
<1> QED
  BY <1>1, <1>4, <1>5, <1>7, JournalFrame

\* The case API answers the runtime.
LEMMA CaseStep ==
  ASSUME IInv, NEW p \in posts, registerEvidence(p) \/ currentCaseSequence(p) \/ CaseCommand(p)
  PROVE  IInv'
<1>1. UNCHANGED <<run, grant, envelope, journalVars, envelopes, expired, faults>>
  BY DEF registerEvidence, currentCaseSequence, CaseCommand
<1>2. p.attempt \in Attempts /\ envelope[p.attempt] \in SUBSET Envelopes
  BY DEF IInv, TypeOK, ProgramTypeOK, TokenTypeOK, Posts
<1>3. CASE registerEvidence(p)
  <2>1. UNCHANGED <<commands, sequence>> /\ p.op = "evidence"
    BY <1>3 DEF registerEvidence
  <2>2. \/ evidence' = evidence \cup {p.attempt} /\ Ok(p)
        \/ Refuse(p) /\ UNCHANGED evidence
    BY <1>3 DEF registerEvidence
  <2>3. RuntimesInOrder' /\ evidence \subseteq evidence' /\ evidence' \subseteq Attempts
    BY <1>1, <1>2, <2>1, <2>2, InOrder, OkKeepsOrder, RefuseKeepsOrder
       DEF Accepted, IInv, TypeOK, CaseTypeOK
  <2>4. CaseTypeOK' /\ AgentEntriesAreGranted' /\ (Accepted(caseWrite.id) => Accepted(caseWrite.id)')
    BY <1>1, <2>1, <2>3 DEF IInv, TypeOK, CaseTypeOK, AgentEntriesAreGranted, Accepted
  <2> QED
    BY <1>1, <2>3, <2>4, CaseFrame
<1>4. CASE currentCaseSequence(p)
  <2>1. UNCHANGED caseVars /\ p.op = "sequence"
    BY <1>4 DEF currentCaseSequence
  <2>2. /\ Ok(p) \/ Refuse(p)
        /\ sequence' = [sequence EXCEPT ![p.attempt] = Len(commands)] \/ sequence' = sequence
    BY <1>4 DEF currentCaseSequence
  <2>3. RuntimesInOrder'
    <3>1. CASE Ok(p)
      BY <1>1, <2>1, <3>1, InOrder, OkKeepsOrder DEF Accepted, caseVars
    <3>2. CASE Refuse(p)
      BY <1>1, <2>1, <3>2, InOrder, RefuseKeepsOrder DEF caseVars
    <3> QED
      BY <2>2, <3>1, <3>2
  <2>4. CaseTypeOK'
    <3>1. Len(commands) \in Nat
      BY DEF IInv, TypeOK, CaseTypeOK
    <3> QED
      BY <1>2, <2>1, <2>2, <3>1 DEF IInv, TypeOK, CaseTypeOK, caseVars
  <2>5. AgentEntriesAreGranted' /\ (Accepted(caseWrite.id) => Accepted(caseWrite.id)')
    BY <1>1, <2>1 DEF IInv, AgentEntriesAreGranted, Accepted, caseVars
  <2> QED
    BY <1>1, <2>1, <2>3, <2>4, <2>5, CaseFrame DEF caseVars
<1>5. CASE CaseCommand(p)
  <2>1. UNCHANGED <<evidence, sequence>> /\ p.op = "command"
    BY <1>5 DEF CaseCommand
  <2>2. CASE Refuse(p) /\ UNCHANGED commands
    <3>1. RuntimesInOrder'
      BY <1>1, <2>1, <2>2, InOrder, RefuseKeepsOrder
    <3> QED
      BY <1>1, <2>1, <2>2, <3>1, QuietFrame DEF caseVars
  <2>3. CASE /\ AuthorizedCommand(runtimeRequest, envelope[p.attempt], caseWrite)
             /\ submitBusinessCommand(envelope[p.attempt], caseWrite, sequence[p.attempt])
             /\ Ok(p)
    <3>1. caseWrite \in Submitted
      BY DEF Submitted
    <3>2. /\ commands' \in Seq(Entries) /\ AgentEntriesAreGranted' /\ Accepted(caseWrite.id)'
      BY <1>1, <1>2, <2>3, <3>1, SubmitKeepsGrants
    <3>3. RuntimesInOrder'
      BY <1>1, <2>1, <2>3, <3>2, InOrder, OkKeepsOrder
    <3>4. CaseTypeOK'
      BY <2>1, <3>2 DEF IInv, TypeOK, CaseTypeOK
    <3> QED
      BY <1>1, <2>1, <3>2, <3>3, <3>4, CaseFrame
  <2> QED
    BY <1>5, <2>2, <2>3 DEF CaseCommand
<1> QED
  BY <1>3, <1>4, <1>5

\* Another caller's command.
LEMMA OtherStep ==
  ASSUME IInv, NEW q \in CaseRequests, NEW token \in {{}} \cup {{e} : e \in envelopes},
         OtherCommand(q, token)
  PROVE  IInv'
<1>1. UNCHANGED <<run, runtimeVars, posts, journalVars, envelopes, expired, evidence, faults>>
  BY DEF OtherCommand
<1>2. PICK request \in q.requests : /\ AuthorizedCommand(request, token, q.command)
                                   /\ submitBusinessCommand(token, q.command, Len(commands))
  BY DEF OtherCommand
<1>3. q.command \in Submitted /\ token \in SUBSET Envelopes
  BY DEF Submitted, IInv, TypeOK, TokenTypeOK
<1>4. /\ commands' \in Seq(Entries) /\ AgentEntriesAreGranted'
      /\ Accepted(caseWrite.id) => Accepted(caseWrite.id)'
  BY <1>1, <1>2, <1>3, SubmitKeepsGrants DEF runtimeVars
<1>5. RuntimesInOrder'
  <2>1. ProgramTypeOK' /\ OnlyClaimedAct'
    BY <1>1 DEF IInv, TypeOK, ProgramTypeOK, OnlyClaimedAct, runtimeVars
  <2>2. ProgramOrder'
    BY <1>1, <1>4 DEF IInv, ProgramOrder, Behind, runtimeVars
  <2> QED
    BY <2>1, <2>2 DEF RuntimesInOrder
<1>6. CaseTypeOK'
  BY <1>1, <1>4 DEF IInv, TypeOK, CaseTypeOK, runtimeVars
<1> QED
  BY <1>1, <1>4, <1>5, <1>6, CaseFrame DEF runtimeVars

\* A request times out: the runtime goes to its catch block, the service goes on.
LEMMA TimeoutStep ==
  ASSUME IInv, NEW a \in Attempts, Timeout(a)
  PROVE  IInv'
<1> DEFINE next == OnError(at[a])
<1>1. /\ at[a] \in Requests /\ at' = [at EXCEPT ![a] = next] /\ posts' = posts \cup Sent(a, next)
      /\ faults' = faults + 1 /\ faults < MaxFaults
      /\ UNCHANGED <<run, grant, envelope, sequence, journalVars, envelopes, expired, caseVars>>
  BY DEF Timeout, Waits
<1>2. next \in Requests \cup Ends /\ next # "none" /\ next \notin AfterEvidence
  BY <1>1, AfterType
<1> HIDE DEF next
<1>3. ProgramTypeOK' /\ \A p \in posts' : p \in posts \/ (p.attempt = a /\ p.op = next)
  BY <1>1, <1>2, SentType DEF IInv, TypeOK, ProgramTypeOK
<1>4. OnlyClaimedAct'
  <2>1. a <= run.attempt
    BY <1>1, RequestNames DEF IInv, OnlyClaimedAct
  <2> QED
    BY <1>1, <1>3, <2>1 DEF IInv, OnlyClaimedAct, TypeOK, ProgramTypeOK
<1>5. ProgramOrder'
  <2>1. \A b, op : Behind(b, op)' <=> Behind(b, op)
    BY <1>1 DEF Behind, Accepted, caseVars
  <2>2. \A b : Behind(b, next)
    BY <1>2 DEF Behind, AfterEvidence
  <2>3. \A b \in Attempts : at'[b] = at[b] \/ at'[b] = next
    BY <1>1 DEF IInv, TypeOK, ProgramTypeOK
  <2>4. \A b \in Attempts : Behind(b, at'[b])
    BY <2>2, <2>3 DEF IInv, ProgramOrder
  <2>5. \A p \in posts' : Behind(p.attempt, p.op)
    BY <1>3, <2>2 DEF IInv, ProgramOrder
  <2> QED
    BY <1>1, <2>4, <2>5 DEF ProgramOrder, Behind, Accepted, caseVars
<1>6. RunTypeOK' /\ TokenTypeOK' /\ JournalTypeOK' /\ CaseTypeOK'
  BY <1>1, AttemptAssumption DEF IInv, TypeOK, RunTypeOK, TokenTypeOK, JournalTypeOK, CaseTypeOK, journalVars, caseVars
<1>7. FencesGrow' /\ EnvelopesAreGranted' /\ AgentEntriesAreGranted' /\ CompletedMeansWritten'
  BY <1>1 DEF IInv, FencesGrow, EnvelopesAreGranted, AgentEntriesAreGranted, CompletedMeansWritten,
     Accepted, journalVars, caseVars
<1> QED
  BY <1>3, <1>4, <1>5, <1>6, <1>7 DEF IInv, TypeOK

\* A worker claims the run: a new attempt, a new fence, a new runtime.
LEMMA ClaimStep ==
  ASSUME IInv, NEW w \in Workers, Claim(w)
  PROVE  IInv'
<1> DEFINE a == run.attempt + 1
<1>1. /\ a \in Attempts /\ ~run.cancel
      /\ run' = [run EXCEPT !.status = "running", !.owner = {w}, !.epoch = @ + 1, !.attempt = a]
      /\ grant' = [grant EXCEPT ![a] = [worker |-> {w}, epoch |-> run.epoch + 1]]
      /\ at' = [at EXCEPT ![a] = Program[1]]
      /\ posts' = posts \cup Sent(a, Program[1])
      /\ UNCHANGED <<envelope, sequence, journalVars, envelopes, expired, caseVars, faults>>
  BY AttemptAssumption DEF Claim, Attempts, IInv, TypeOK, RunTypeOK
<1>2. /\ run.attempt \in Nat /\ run.epoch \in Nat
      /\ run'.attempt = a /\ run'.epoch = run.epoch + 1 /\ ~run'.cancel
      /\ RunTypeOK'
  <2>1. RunTypeOK
    BY DEF IInv, TypeOK
  <2>2. run'.attempt = a /\ run'.epoch = run.epoch + 1 /\ ~run'.cancel
    BY <1>1, <2>1 DEF RunTypeOK
  <2>3. RunTypeOK'
    <3>1. a \in 0 .. MaxAttempts /\ {w} \in SUBSET Workers /\ run.epoch + 1 \in Nat
      BY <1>1, <2>1, AttemptAssumption DEF Attempts, RunTypeOK
    <3>2. a \in Attempts /\ [worker |-> {w}, epoch |-> run.epoch + 1]
                              \in [worker : SUBSET Workers, epoch : Nat]
      BY <1>1, <3>1
    <3> HIDE DEF a
    <3>3. grant' \in [Attempts -> [worker : SUBSET Workers, epoch : Nat]]
      BY <1>1, <2>1, <3>2 DEF RunTypeOK
    <3> QED
      BY <1>1, <2>1, <3>1, <3>3 DEF RunTypeOK
  <2> QED
    BY <2>1, <2>2, <2>3 DEF RunTypeOK
<1>3. \A b \in 1 .. run.attempt : grant'[b] = grant[b] /\ b \in Attempts /\ b # a
  BY <1>1, <1>2, AttemptAssumption DEF IInv, TypeOK, RunTypeOK, Attempts
<1>4. Program[1] = "node-started" /\ "node-started" \in Requests
  BY Steps, RequestNames
<1>5. ProgramTypeOK' /\ \A p \in posts' : p \in posts \/ (p.attempt = a /\ p.op = "node-started")
  BY <1>1, <1>4, SentType DEF IInv, TypeOK, ProgramTypeOK
<1>6. OnlyClaimedAct'
  BY <1>1, <1>2, <1>5 DEF IInv, OnlyClaimedAct, TypeOK, ProgramTypeOK, Posts, Attempts, TokenTypeOK, Envelopes
<1>7. ProgramOrder'
  <2>1. \A b, op : Behind(b, op)' <=> Behind(b, op)
    BY <1>1 DEF Behind, Accepted, caseVars
  <2>2. \A b : Behind(b, "node-started")
    BY DEF Behind, AfterEvidence, AfterCommand
  <2>3. \A b \in Attempts : Behind(b, at'[b])
    BY <1>1, <1>4, <2>2 DEF IInv, ProgramOrder, TypeOK, ProgramTypeOK
  <2>4. \A p \in posts' : Behind(p.attempt, p.op)
    BY <1>5, <2>2 DEF IInv, ProgramOrder
  <2> QED
    BY <1>1, <2>3, <2>4 DEF ProgramOrder, Behind, Accepted, caseVars
<1>8. FencesGrow'
  <2>1. grant'[a].epoch = run.epoch + 1
    BY <1>1 DEF IInv, TypeOK, RunTypeOK
  <2>2. \A b \in 1 .. run.attempt : grant'[b].epoch \in Nat /\ grant'[b].epoch <= run.epoch
    BY <1>3 DEF IInv, TypeOK, RunTypeOK, FencesGrow
  <2>3. \A b \in 1 .. run'.attempt : b \in 1 .. run.attempt \/ b = a
    BY <1>2
  <2>4. \A b \in 1 .. run'.attempt : grant'[b].epoch <= run'.epoch
    BY <1>2, <2>1, <2>2, <2>3
  <2>5. ASSUME NEW b \in 1 .. run'.attempt, NEW c \in 1 .. run'.attempt, b < c
        PROVE  grant'[b].epoch < grant'[c].epoch
    <3>1. b \in 1 .. run.attempt
      BY <1>2, <2>5
    <3>2. CASE c = a
      BY <1>2, <2>1, <2>2, <3>1, <3>2
    <3>3. CASE c \in 1 .. run.attempt
      BY <1>3, <2>5, <3>1, <3>3 DEF IInv, FencesGrow
    <3> QED
      BY <2>3, <3>2, <3>3
  <2> QED
    BY <1>2, <2>4, <2>5 DEF FencesGrow
<1>9. /\ \A e \in envelopes : grant'[e.attempt] = grant[e.attempt]
      /\ EnvelopesAreGranted'
  <2>1. \A e \in envelopes : e.attempt \in 1 .. run.attempt
    BY DEF IInv, OnlyClaimedAct, TypeOK, TokenTypeOK, Envelopes, Attempts, RunTypeOK
  <2> QED
    BY <1>1, <1>3, <2>1 DEF IInv, EnvelopesAreGranted
<1>10. AgentEntriesAreGranted'
  BY <1>1, <1>9 DEF IInv, AgentEntriesAreGranted, caseVars
<1>11. CompletedMeansWritten' /\ TokenTypeOK' /\ JournalTypeOK' /\ CaseTypeOK'
  BY <1>1 DEF IInv, TypeOK, TokenTypeOK, JournalTypeOK, CaseTypeOK, CompletedMeansWritten, Accepted,
     journalVars, caseVars
<1> QED
  BY <1>2, <1>5, <1>6, <1>7, <1>8, <1>9, <1>10, <1>11 DEF IInv, TypeOK

\* The run is settled, cancelled, or asked to stop, which takes a fence.
LEMMA RunStep ==
  ASSUME IInv, \/ \E a \in Attempts, s \in {"waiting", "completed", "failed"} : Settle(a, s)
               \/ RequestCancellation \/ CompleteCancelled
  PROVE  IInv'
<1>1. UNCHANGED <<runtimeVars, posts, journalVars, envelopes, expired, caseVars, faults>>
  BY DEF Settle, RequestCancellation, CompleteCancelled
<1>2. /\ run'.attempt = run.attempt /\ RunTypeOK'
      /\ \/ run'.epoch = run.epoch /\ run'.cancel = run.cancel
         \/ run'.epoch = run.epoch + 1
  <2>1. RunTypeOK /\ grant' = grant
    BY <1>1 DEF IInv, TypeOK, runtimeVars
  <2>2. CASE \E a \in Attempts, s \in {"waiting", "completed", "failed"} : Settle(a, s)
    BY <2>1, <2>2 DEF Settle, RunTypeOK
  <2>3. CASE RequestCancellation
    <3> DEFINE s == IF run.status = "waiting" THEN "cancelled" ELSE run.status
    <3>1. run' = [run EXCEPT !.cancel = TRUE, !.epoch = run.epoch + 1, !.status = s]
      BY <2>1, <2>3 DEF RequestCancellation, RunTypeOK
    <3>2. s \in {"waiting", "running", "completed", "failed", "cancelled"} /\ run.epoch + 1 \in Nat
      BY <2>1 DEF RunTypeOK
    <3> HIDE DEF s
    <3> QED
      BY <2>1, <3>1, <3>2 DEF RunTypeOK
  <2>4. CASE CompleteCancelled
    BY <2>1, <2>4 DEF CompleteCancelled, RunTypeOK
  <2> QED
    BY <2>2, <2>3, <2>4
<1>3. FencesGrow'
  <2>1. \A a \in 1 .. run.attempt : grant[a].epoch \in Nat /\ grant'[a] = grant[a]
    BY <1>1, AttemptAssumption DEF IInv, TypeOK, RunTypeOK, Attempts, runtimeVars
  <2>2. run.epoch \in Nat
    BY DEF IInv, TypeOK, RunTypeOK
  <2> QED
    BY <1>2, <2>1, <2>2 DEF IInv, FencesGrow
<1>4. OnlyClaimedAct' /\ EnvelopesAreGranted' /\ ProgramOrder'
  BY <1>1, <1>2 DEF IInv, OnlyClaimedAct, EnvelopesAreGranted, ProgramOrder, Behind, Accepted,
     runtimeVars, caseVars
<1>5. AgentEntriesAreGranted' /\ CompletedMeansWritten'
  BY <1>1 DEF IInv, AgentEntriesAreGranted, CompletedMeansWritten, Accepted, runtimeVars, journalVars, caseVars
<1>6. ProgramTypeOK' /\ TokenTypeOK' /\ JournalTypeOK' /\ CaseTypeOK'
  BY <1>1 DEF IInv, TypeOK, ProgramTypeOK, TokenTypeOK, JournalTypeOK, CaseTypeOK, runtimeVars,
     journalVars, caseVars
<1> QED
  BY <1>2, <1>3, <1>4, <1>5, <1>6 DEF IInv, TypeOK

LEMMA ExpireStep ==
  ASSUME IInv, NEW token \in Grants \cup envelopes, Expire(token)
  PROVE  IInv'
<1>1. /\ expired' = expired \cup {token} /\ faults < MaxFaults /\ faults' = faults + 1
      /\ UNCHANGED <<run, runtimeVars, posts, journalVars, envelopes, caseVars>>
  BY DEF Expire
<1>2. TokenTypeOK'
  BY <1>1, AttemptAssumption DEF IInv, TypeOK, TokenTypeOK, runtimeVars
<1>3. RunTypeOK' /\ ProgramTypeOK' /\ JournalTypeOK' /\ CaseTypeOK'
  BY <1>1 DEF IInv, TypeOK, RunTypeOK, ProgramTypeOK, JournalTypeOK, CaseTypeOK, runtimeVars,
     journalVars, caseVars
<1>4. OnlyClaimedAct' /\ EnvelopesAreGranted' /\ ProgramOrder' /\ FencesGrow'
  BY <1>1 DEF IInv, OnlyClaimedAct, EnvelopesAreGranted, ProgramOrder, FencesGrow, Behind, Accepted,
     runtimeVars, caseVars
<1>5. AgentEntriesAreGranted' /\ CompletedMeansWritten'
  BY <1>1 DEF IInv, AgentEntriesAreGranted, CompletedMeansWritten, Accepted, runtimeVars, journalVars, caseVars
<1> QED
  BY <1>2, <1>3, <1>4, <1>5 DEF IInv, TypeOK

LEMMA StepHolds == IInv /\ [Next]_vars => IInv'
<1> SUFFICES ASSUME IInv, [Next]_vars PROVE IInv'
  OBVIOUS
<1>1. ASSUME NEW w \in Workers, Claim(w) PROVE IInv'
  BY <1>1, ClaimStep
<1>2. ASSUME NEW a \in Attempts, Timeout(a) PROVE IInv'
  BY <1>2, TimeoutStep
<1>3. ASSUME \/ \E a \in Attempts, s \in {"waiting", "completed", "failed"} : Settle(a, s)
             \/ RequestCancellation \/ CompleteCancelled
      PROVE  IInv'
  BY <1>3, RunStep
<1>4. ASSUME NEW token \in Grants \cup envelopes, Expire(token) PROVE IInv'
  BY <1>4, ExpireStep
<1>5. ASSUME NEW p \in posts, Service(p) PROVE IInv'
  BY <1>5, CheckStep, IssueStep, MoveStep, JournalStep, CaseStep DEF Service
<1>6. ASSUME NEW q \in CaseRequests, NEW token \in {{}} \cup {{e} : e \in envelopes},
             OtherCommand(q, token)
      PROVE  IInv'
  BY <1>6, OtherStep
<1>7. ASSUME UNCHANGED vars PROVE IInv'
  <2>1. RuntimesInOrder'
    BY <1>7 DEF vars, runtimeVars, caseVars, IInv, TypeOK, RuntimesInOrder, ProgramTypeOK,
       OnlyClaimedAct, ProgramOrder, Behind, Accepted
  <2> QED
    BY <1>7, <2>1, QuietFrame DEF vars, runtimeVars
<1> QED
  BY <1>1, <1>2, <1>3, <1>4, <1>5, <1>6, <1>7 DEF Next

-----------------------------------------------------------------------------
(* The theorems *)

\* The inductive invariant holds throughout.
THEOREM Invariance == Spec => []IInv
  BY InitHolds, StepHolds, PTL DEF Spec

\* Every variable keeps its type.
THEOREM TypeCorrect == Spec => []TypeOK
<1>1. IInv => TypeOK
  BY DEF IInv
<1> QED
  BY <1>1, Invariance, PTL

\* The case API never reads the run, and yet a command it records as an agent's
\* came under an envelope the broker signed for a claimed attempt and its fence,
\* of a type the plan declares.
THEOREM AgentsWriteUnderGrants == Spec => []AgentEntriesAreGranted
<1>1. IInv => AgentEntriesAreGranted
  BY DEF IInv
<1> QED
  BY <1>1, Invariance, PTL

\* A node is journaled as completed only with its evidence and its case write
\* accepted, whichever requests timed out and were applied late.
THEOREM CompletedNodesWrote == Spec => []CompletedMeansWritten
<1>1. IInv => CompletedMeansWritten
  BY DEF IInv
<1> QED
  BY <1>1, Invariance, PTL

\* A fence that still matches is the last attempt's, and nobody asked the run to stop.
LEMMA FenceIsTheOwners ==
  ASSUME IInv, NEW a \in Attempts, a <= run.attempt, Fenced(a)
  PROVE  a = run.attempt /\ ~run.cancel
<1>1. run.attempt \in Nat /\ run.epoch \in Nat /\ run.cancel \in BOOLEAN
  BY DEF IInv, TypeOK, RunTypeOK
<1>2. a \in 1 .. run.attempt /\ run.attempt \in 1 .. run.attempt /\ run.attempt \in Attempts
  BY <1>1, AttemptAssumption DEF Attempts, IInv, TypeOK, RunTypeOK
<1>3. grant[a].epoch \in Nat /\ grant[run.attempt].epoch \in Nat /\ run.epoch = grant[a].epoch
  BY <1>2 DEF Fenced, IInv, TypeOK, RunTypeOK
<1>4. ~run.cancel
  BY <1>1, <1>2, <1>3 DEF IInv, FencesGrow
<1>5. ~(a < run.attempt)
  BY <1>1, <1>2, <1>3 DEF IInv, FencesGrow
<1> QED
  BY <1>1, <1>2, <1>4, <1>5

\* A runtime moves the run's node or checkpoint only while its attempt is the
\* last and the run is not being cancelled, however old the check its route made.
THEOREM OnlyTheOwnerMoves == Spec => OnlyOwnerMovesTheRun
<1> DEFINE A == \A p \in posts \ posts' :
                  run'.node # run.node \/ run'.checkpoint # run.checkpoint
                    => p.attempt = run.attempt /\ ~run.cancel
<1>1. IInv /\ [Next]_vars => [A]_vars
  <2> SUFFICES ASSUME IInv, [Next]_vars, NEW p \in posts, p \notin posts',
                      run'.node # run.node \/ run'.checkpoint # run.checkpoint
               PROVE  p.attempt = run.attempt /\ ~run.cancel
    OBVIOUS
  <2>1. ~UNCHANGED vars /\ ~UNCHANGED posts
    BY DEF vars
  <2>2. PICK q \in posts : Service(q)
    BY <2>1 DEF Next, Claim, Timeout, Settle, RequestCancellation, CompleteCancelled, Expire, OtherCommand
  <2>3. MoveRun(q)
    BY <2>2 DEF Service, ReadRun, ReadFence, issueExecutionEnvelope, nodeStarted, nodeFinished,
       appendEvent, registerEvidence, currentCaseSequence, CaseCommand
  <2>4. Fenced(q.attempt)
    BY <2>3 DEF MoveRun, updateRunNode
  <2>5. p = q
    BY <2>3 DEF MoveRun, Ok, Refuse, Answered, Advance
  <2>6. q.attempt \in Attempts /\ q.attempt <= run.attempt
    BY DEF IInv, TypeOK, ProgramTypeOK, Posts, OnlyClaimedAct
  <2> QED
    BY <2>4, <2>5, <2>6, FenceIsTheOwners
<1> QED
  BY <1>1, Invariance, PTL DEF Spec, OnlyOwnerMovesTheRun
=============================================================================
