---------------------------- MODULE RunAuthority ----------------------------
(***************************************************************************)
(* What a runtime may still do: one run, the runtimes of its attempts, and *)
(* the three services that check their authority at every request.  The    *)
(* envelope broker and the state routes of the control API                 *)
(* (apps/control-api) re-read status and fence; the case API               *)
(* (apps/case-api) goes by the signed envelope alone.                      *)
(*                                                                         *)
(* A runtime executes one node of the plan, the way executeObservedNode    *)
(* and executeCaseWrites of packages/runtime-core do: a fixed program of   *)
(* requests, each sent when the one before is answered.  A request that    *)
(* times out is still handled, next to whatever the runtime sends then.    *)
(* The ledger side of the run is reduced to what the services read; see    *)
(* RunDispatch for the dispatcher itself and CapabilityGateway for the     *)
(* capability call, which is not among the requests here.                  *)
(***************************************************************************)
EXTENDS Identity, Sequences

CONSTANTS
  MaxAttempts,     \* attempt_limit
  Workers,
  PlanWrites,      \* commandType of the node's config.caseWrites, valid or not
  CommandTypes,    \* businessCommandTypeSchema
  Permitted,       \* the plan has a permission envelope for the node
  CaseRequests,    \* requests other callers send to the case API
  MaxFaults        \* bound on timed-out requests and expired tokens

ASSUME AttemptAssumption == MaxAttempts \in Nat /\ MaxFaults \in Nat
ASSUME PlanAssumption == Permitted \in BOOLEAN

Attempts == 1..MaxAttempts

VARIABLES
  run,         \* the row of runs: status, epoch, attempt, owner, node, checkpoint, cancel
  grant,       \* the grant minted for each attempt: worker and fencing_epoch
  at,          \* the request each runtime waits for, or how it ended
  envelope,    \* the envelope each runtime holds, if any
  sequence,    \* the caseSequence each runtime read
  posts,       \* requests the services are handling
  row,         \* node_attempts of the node, by attempt
  events,      \* run_events of the node: attempt and key
  envelopes,   \* history: envelopes the broker signed
  expired,     \* grants (by attempt) and envelopes whose exp has passed
  evidence,    \* evidence registered, by idempotency key
  commands,    \* commands the case accepted, in order
  faults

runtimeVars == <<grant, at, envelope, sequence>>
journalVars == <<row, events>>
caseVars    == <<evidence, commands>>
vars == <<run, runtimeVars, posts, journalVars, envelopes, expired, caseVars, faults>>

NoGrant == [worker |-> {}, epoch |-> 0]

Init ==
  /\ run = [status |-> "waiting", epoch |-> 0, attempt |-> 0, owner |-> {}, node |-> {},
            checkpoint |-> FALSE, cancel |-> FALSE]
  /\ grant = [a \in Attempts |-> NoGrant]
  /\ at = [a \in Attempts |-> "none"]
  /\ envelope = [a \in Attempts |-> {}]
  /\ sequence = [a \in Attempts |-> 0]
  /\ posts = {}
  /\ row = [a \in Attempts |-> [status |-> "none", epoch |-> 0]]
  /\ events = {}
  /\ envelopes = {}
  /\ expired = {}
  /\ evidence = {}
  /\ commands = <<>>
  /\ faults = 0

----------------------------------------------------------------------------
(* The runtime's program. *)

\* Mutant: the node is journaled as completed before its case writes.
ProgramFinishingEarly ==
  <<"node-started", "event-started", "finish-completed", "event-completed", "envelope", "evidence",
    "sequence", "command", "event-write", "checkpoint">>

Program ==
  <<"node-started", "event-started", "envelope", "evidence", "sequence", "command",
    "event-write", "finish-completed", "event-completed", "checkpoint">>

\* Inside executeObservedNode's try block.
Guarded == {"envelope", "evidence", "sequence", "command", "event-write", "finish-completed",
            "event-completed"}

Requests == {Program[i] : i \in DOMAIN Program} \cup {"finish-failed", "event-failed"}

After(op) ==
  CASE op = "finish-failed" -> "event-failed"
    [] op = "event-failed"  -> "failed"
    [] op = "checkpoint"    -> "completed"
    [] OTHER -> Program[(CHOOSE i \in DOMAIN Program : Program[i] = op) + 1]

\* The catch block journals the failure; an error there replaces the first.
OnError(op) == IF op \in Guarded THEN "finish-failed" ELSE "failed"

Waits(a) == at[a] \in Requests

\* The runtime goes on to op, which it sends at once.
Sent(a, op) == IF op \in Requests THEN {[attempt |-> a, op |-> op, stage |-> "received"]} ELSE {}

\* The service is done with p; a runtime that no longer waits for it ignores the answer.
Answered(p, next) ==
  IF at[p.attempt] = p.op
  THEN /\ at' = [at EXCEPT ![p.attempt] = next]
       /\ posts' = (posts \ {p}) \cup Sent(p.attempt, next)
  ELSE /\ posts' = posts \ {p}
       /\ UNCHANGED at

Ok(p)     == Answered(p, After(p.op))
Refuse(p) == Answered(p, OnError(p.op))

Advance(p, stage) ==
  /\ posts' = (posts \ {p}) \cup {[p EXCEPT !.stage = stage]}
  /\ UNCHANGED at

\* AbortSignal.timeout of the request, or its connection is lost.
Timeout(a) ==
  /\ Waits(a)
  /\ faults < MaxFaults
  /\ faults' = faults + 1
  /\ at' = [at EXCEPT ![a] = OnError(@)]
  /\ posts' = posts \cup Sent(a, OnError(at[a]))
  /\ UNCHANGED <<run, grant, envelope, sequence, journalVars, envelopes, expired, caseVars>>

----------------------------------------------------------------------------
(* The dispatcher, as far as the services see it. *)

Fenced(a) ==
  /\ run.status = "running"
  /\ run.owner = grant[a].worker
  /\ run.epoch = grant[a].epoch

\* claimRun of a waiting run or of one whose lease ran out, mintRuntimeGrant and the
\* invocation of a runtime.
Claim(w) ==
  /\ run.status \in {"waiting", "running"}
  /\ ~run.cancel
  /\ run.attempt < MaxAttempts
  /\ LET a == run.attempt + 1 IN
       /\ run' = [run EXCEPT !.status = "running", !.owner = {w}, !.epoch = @ + 1, !.attempt = a]
       /\ grant' = [grant EXCEPT ![a] = [worker |-> {w}, epoch |-> run.epoch + 1]]
       /\ at' = [at EXCEPT ![a] = Program[1]]
       /\ posts' = posts \cup Sent(a, Program[1])
  /\ UNCHANGED <<envelope, sequence, journalVars, envelopes, expired, caseVars, faults>>

\* completeRun with the runtime's result; a deadline, an abort or an error of the graph
\* ends the invocation while the runtime's node may still be going on.
Settle(a, status) ==
  /\ Fenced(a)
  /\ status = "completed" => at[a] = "completed"
  /\ status = "waiting" => run.attempt < MaxAttempts
  /\ run' = [run EXCEPT !.status = status, !.owner = {}]
  /\ UNCHANGED <<runtimeVars, posts, journalVars, envelopes, expired, caseVars, faults>>

RequestCancellation ==
  /\ run.status \in {"waiting", "running"}
  /\ ~run.cancel
  /\ run' = [run EXCEPT !.cancel = TRUE, !.epoch = @ + 1,
                        !.status = IF @ = "waiting" THEN "cancelled" ELSE @]
  /\ UNCHANGED <<runtimeVars, posts, journalVars, envelopes, expired, caseVars, faults>>

CompleteCancelled ==
  /\ run.status = "running" /\ run.cancel
  /\ run' = [run EXCEPT !.status = "cancelled", !.owner = {}]
  /\ UNCHANGED <<runtimeVars, posts, journalVars, envelopes, expired, caseVars, faults>>

Grants == {[grant |-> a] : a \in Attempts}

\* Tokens are verified against the clock: exp has passed.
Expire(token) ==
  /\ faults < MaxFaults
  /\ faults' = faults + 1
  /\ expired' = expired \cup {token}
  /\ UNCHANGED <<run, runtimeVars, posts, journalVars, envelopes, caseVars>>

----------------------------------------------------------------------------
(* Control API: broker and state routes.  Each reads the run, then the     *)
(* fence, then acts, in statements of its own.                             *)

StateOps == {"node-started", "event-started", "event-write", "finish-completed", "event-completed",
             "finish-failed", "event-failed", "checkpoint"}

runtimeRequest == [bearer |-> {"RUNTIME_SERVICE_TOKEN"}, actor |-> {}, roles |-> {}, tenant |-> {},
                   type |-> "workload"]

\* verifyRuntimeGrant and the comparison of its claims with the request.
GrantHolds(p) ==
  /\ requireWorkload(runtimeRequest,
       IF p.op = "envelope" THEN "envelope.mint" ELSE "runtime.state.write") # {}
  /\ [grant |-> p.attempt] \notin expired

ReadRun(p) ==
  /\ p.op \in StateOps \cup {"envelope"} /\ p.stage = "received"
  /\ IF GrantHolds(p) /\ run.status = "running" THEN Advance(p, "read") ELSE Refuse(p)
  /\ UNCHANGED <<run, grant, envelope, sequence, journalVars, envelopes, expired, caseVars, faults>>

currentFencingEpoch == IF run.status = "running" THEN {run.epoch} ELSE {}

ReadFence(p) ==
  /\ p.op \in StateOps \cup {"envelope"} /\ p.stage = "read"
  /\ IF currentFencingEpoch = {grant[p.attempt].epoch} THEN Advance(p, "authorized") ELSE Refuse(p)
  /\ UNCHANGED <<run, grant, envelope, sequence, journalVars, envelopes, expired, caseVars, faults>>

declaredCaseWrites == PlanWrites \cap CommandTypes

\* The plan's permission envelope for the node, then mintExecutionEnvelope.
issueExecutionEnvelope(p) ==
  /\ p.op = "envelope" /\ p.stage = "authorized"
  /\ LET e == [attempt |-> p.attempt, epoch |-> grant[p.attempt].epoch,
               caseWrites |-> declaredCaseWrites] IN
       IF Permitted
       THEN /\ envelopes' = envelopes \cup {e}
            /\ envelope' = IF at[p.attempt] = p.op THEN [envelope EXCEPT ![p.attempt] = {e}]
                           ELSE envelope
            /\ Ok(p)
       ELSE Refuse(p) /\ UNCHANGED <<envelopes, envelope>>
  /\ UNCHANGED <<run, grant, sequence, journalVars, expired, caseVars, faults>>

\* Mutant: the statement trusts the check the route made before it.
updateRunNodeUnfenced(a, node) ==
  /\ run.status = "running"
  /\ run' = [run EXCEPT !.node = node, !.checkpoint = @ \/ node = {}]

updateRunNode(a, node) ==
  /\ Fenced(a)
  /\ run' = [run EXCEPT !.node = node, !.checkpoint = @ \/ node = {}]

\* nodeStarted is two statements: the fenced update, then the insert.
MoveRun(p) ==
  /\ p.op \in {"node-started", "checkpoint"} /\ p.stage = "authorized"
  /\ \/ /\ updateRunNode(p.attempt, IF p.op = "checkpoint" THEN {} ELSE {"node"})
        /\ IF p.op = "checkpoint" THEN Ok(p) ELSE Advance(p, "moved")
     \/ /\ ~Fenced(p.attempt)
        /\ Refuse(p)
        /\ UNCHANGED run
  /\ UNCHANGED <<grant, envelope, sequence, journalVars, envelopes, expired, caseVars, faults>>

nodeStarted(p) ==
  /\ p.op = "node-started" /\ p.stage = "moved"
  /\ row' = IF row[p.attempt].status # "none" THEN row
            ELSE [row EXCEPT ![p.attempt] = [status |-> "running", epoch |-> grant[p.attempt].epoch]]
  /\ Ok(p)
  /\ UNCHANGED <<run, grant, envelope, sequence, events, envelopes, expired, caseVars, faults>>

\* Keyed by run, node and attempt, and not fenced: of no effect without a row.
nodeFinished(p) ==
  /\ p.op \in {"finish-completed", "finish-failed"} /\ p.stage = "authorized"
  /\ row' = IF row[p.attempt].status = "none" THEN row
            ELSE [row EXCEPT ![p.attempt].status =
                    IF p.op = "finish-completed" THEN "completed" ELSE "failed"]
  /\ Ok(p)
  /\ UNCHANGED <<run, grant, envelope, sequence, events, envelopes, expired, caseVars, faults>>

\* A second event with the same key is dropped.
appendEvent(p) ==
  /\ p.op \in {"event-started", "event-write", "event-completed", "event-failed"}
  /\ p.stage = "authorized"
  /\ events' = events \cup {<<p.attempt, p.op>>}
  /\ Ok(p)
  /\ UNCHANGED <<run, grant, envelope, sequence, row, envelopes, expired, caseVars, faults>>

----------------------------------------------------------------------------
(* Case API. *)

caseApiGrants ==
  {g \in {[token |-> "EDGE_SERVICE_TOKEN", subject |-> "control-surface-edge",
           roles |-> {"Edge.Delegate"}],
          [token |-> "RUNTIME_SERVICE_TOKEN", subject |-> "harness-runtime",
           roles |-> {"Case.Api.Access"}]} : g.token \in Environment}

\* A request with x-actor-id is a person's, through the edge; any other is a workload's.
caseAuthorize(request, action) ==
  {p \in IF request.actor # {} THEN DelegatedPrincipal(caseApiGrants, request)
                               ELSE WorkloadPrincipal(caseApiGrants, request) :
     evaluate({p}, action, request.tenant)}

isWorkload(principal) == principal.type = "workload"

\* Signature and dates: nothing is read from the run.
verifyCaseWriteAuthority(token) == (token \cap envelopes) \ expired

assertCommandWithinEnvelope(command, claims) ==
  /\ command.type \in claims.caseWrites
  /\ command.plan = "plan"
  /\ command.permission = "permission"
  /\ command.actor = "AGENT" => command.execution \subseteq {"run"}

\* Mutant: a person's command may name any actor.
anyActorTypePermitted(command, principal) == TRUE

assertActorTypePermitted(command, principal) == isWorkload(principal) \/ command.actor # "AGENT"

AuthorizedCommand(request, token, command) ==
  \E principal \in caseAuthorize(request, "case.write") :
    IF isWorkload(principal)
    THEN \E claims \in verifyCaseWriteAuthority(token) : assertCommandWithinEnvelope(command, claims)
    ELSE assertActorTypePermitted(command, principal)

Accepted(id) == \E i \in DOMAIN commands : commands[i].id = id

\* submitBusinessCommand: the receipt's primary key is the command's id, and the
\* precondition is the sequence of the case; its own digests must be the case's.
submitBusinessCommand(token, command, expected) ==
  /\ ~Accepted(command.id)
  /\ expected = Len(commands)
  /\ command.plan = "plan"
  /\ commands' = Append(commands, [id |-> command.id, type |-> command.type,
                                   actor |-> command.actor, token |-> token])

\* commandId names run, node and index but not the attempt.
caseWrite == [id |-> "cmd_run_node_0", type |-> CHOOSE t \in PlanWrites : TRUE, actor |-> "AGENT",
              plan |-> "plan", permission |-> "permission", execution |-> {"run"}]

\* evidence:register; the idempotency key names the attempt.
registerEvidence(p) ==
  /\ p.op = "evidence"
  /\ IF /\ caseAuthorize(runtimeRequest, "evidence.write") # {}
        /\ verifyCaseWriteAuthority(envelope[p.attempt]) # {}
     THEN evidence' = evidence \cup {p.attempt} /\ Ok(p)
     ELSE Refuse(p) /\ UNCHANGED evidence
  /\ UNCHANGED <<run, grant, envelope, sequence, journalVars, envelopes, expired, commands, faults>>

currentCaseSequence(p) ==
  /\ p.op = "sequence"
  /\ IF caseAuthorize(runtimeRequest, "case.read") # {}
     THEN /\ sequence' = IF at[p.attempt] = p.op
                         THEN [sequence EXCEPT ![p.attempt] = Len(commands)] ELSE sequence
          /\ Ok(p)
     ELSE Refuse(p) /\ UNCHANGED sequence
  /\ UNCHANGED <<run, grant, envelope, journalVars, envelopes, expired, caseVars, faults>>

CaseCommand(p) ==
  /\ p.op = "command"
  /\ LET authorized == AuthorizedCommand(runtimeRequest, envelope[p.attempt], caseWrite) IN
     \/ /\ authorized
        /\ submitBusinessCommand(envelope[p.attempt], caseWrite, sequence[p.attempt])
        /\ Ok(p)
     \/ /\ ~authorized \/ Accepted(caseWrite.id) \/ sequence[p.attempt] # Len(commands)
        /\ Refuse(p)
        /\ UNCHANGED commands
  /\ UNCHANGED <<run, grant, envelope, sequence, journalVars, envelopes, expired, evidence, faults>>

\* Another caller: people through the edge, and workloads with or without an envelope.
OtherCommand(q, token) ==
  /\ \E request \in q.requests :
       /\ AuthorizedCommand(request, token, q.command)
       /\ submitBusinessCommand(token, q.command, Len(commands))
  /\ UNCHANGED <<run, runtimeVars, posts, journalVars, envelopes, expired, evidence, faults>>

----------------------------------------------------------------------------
Service(p) ==
  \/ ReadRun(p) \/ ReadFence(p) \/ issueExecutionEnvelope(p) \/ MoveRun(p)
  \/ nodeStarted(p) \/ nodeFinished(p) \/ appendEvent(p)
  \/ registerEvidence(p) \/ currentCaseSequence(p) \/ CaseCommand(p)

Next ==
  \/ \E w \in Workers : Claim(w)
  \/ \E a \in Attempts : \/ Timeout(a)
                         \/ \E s \in {"waiting", "completed", "failed"} : Settle(a, s)
  \/ RequestCancellation
  \/ CompleteCancelled
  \/ \E token \in Grants : Expire(token)
  \/ \E token \in envelopes : Expire(token)
  \/ \E p \in posts : Service(p)
  \/ \E q \in CaseRequests : \E token \in {{}} \cup {{e} : e \in envelopes} : OtherCommand(q, token)

Spec == Init /\ [][Next]_vars

----------------------------------------------------------------------------
(* Properties *)

\* The run's current node and checkpoint are only ever moved on behalf of the attempt
\* that owns the run, however long ago the route checked the writer's fence
\* (persistence index.ts 403-415 behind runtime-state-routes.ts 27-51).
OnlyOwnerMovesTheRun ==
  [][\A p \in posts \ posts' :
       run'.node # run.node \/ run'.checkpoint # run.checkpoint
         => p.attempt = run.attempt /\ ~run.cancel]_vars

\* Every command the case records as an agent's was made under an envelope the broker
\* signed, for an attempt and the fence it was claimed with, and of a type the plan
\* declares for the node (case-api app.ts 160-178, execution-authority.ts 23-77).
AgentEntriesAreGranted ==
  \A i \in DOMAIN commands :
    commands[i].actor = "AGENT" =>
      \E e \in commands[i].token :
        /\ e \in envelopes
        /\ e.epoch = grant[e.attempt].epoch
        /\ commands[i].type \in declaredCaseWrites

\* A node whose attempt row or event says completed has had its case write accepted, in
\* whatever order timed-out requests were applied (runtime-core index.ts 300-485).
CompletedMeansWritten ==
  \A a \in Attempts :
    row[a].status = "completed" \/ <<a, "event-completed">> \in events
      => Accepted(caseWrite.id) /\ a \in evidence
=============================================================================
