---------------------------- MODULE RunDispatch ----------------------------
(***************************************************************************)
(* The run ledger (packages/persistence/src/index.ts, table                *)
(* harness_runtime.runs) and the dispatcher that works on it               *)
(* (apps/runtime-worker/src/worker.ts).                                    *)
(*                                                                         *)
(* Every SQL statement, or explicit transaction, of the source is one      *)
(* action; what a dispatcher slot remembers between two of them is in the  *)
(* slot's own variables, so the slots, the cancelling operator, the clock  *)
(* (lease expiry, retry backoff) and crashes interleave between any two    *)
(* statements.  Time is not counted: a lease that is valid may expire and  *)
(* a backoff that is pending may elapse at any moment.                     *)
(***************************************************************************)
EXTENDS Naturals, FiniteSets

CONSTANTS
  Runs,          \* run ids
  Slots,         \* dispatcher slots: `${workerId}:${slot}`
  SweepSlots,    \* the slots numbered 0 of their process: only they sweep
  AttemptLimit,  \* runs.attempt_limit (column default 3)
  MaxEpoch,      \* bound: no cancellation request once a fence is this high
  MaxCrashes,    \* bound: number of slot crashes in a behaviour
  NoRun,         \* the job of a slot that has claimed nothing
  NoSlot         \* lease_owner IS NULL

ASSUME AttemptLimitAssumption == AttemptLimit \in Nat \ {0}
ASSUME BoundsAssumption == MaxEpoch \in Nat /\ MaxCrashes \in Nat
ASSUME NoRunAssumption == NoRun \notin Runs
ASSUME NoSlotAssumption == NoSlot \notin Slots
ASSUME SweepSlotsAssumption == SweepSlots \subseteq Slots

VARIABLES
  \* one row of harness_runtime.runs per run
  status,       \* "absent" until the row is inserted
  owner,        \* lease_owner
  lease,        \* lease_expires_at, as seen from now()
  epoch,        \* fencing_epoch
  attempt,      \* attempt
  cancelMark,   \* cancellation_requested_at IS NOT NULL
  backoff,      \* available_at > now()
  journal,      \* run_events of the run: <<attempt, code>> is the event key
  traceLink,    \* attempts with a row in observability.trace_link
  \* what a dispatcher slot holds in memory
  phase,        \* the statement it executes next
  job,          \* the claimed run
  heldEpoch,    \* claimedRun.fencingEpoch
  heldAttempt,  \* claimedRun.attempt
  inCatch,      \* workOnce is inside its catch block
  failure,      \* class of the error code being handled
  leaseLost,    \* leaseLost.signal.aborted
  cancelSeen,   \* cancelled.signal.aborted
  crashes       \* number of crashes so far

rowVars  == <<status, owner, lease, epoch, attempt, cancelMark, backoff>>
logVars  == <<journal, traceLink>>
slotVars == <<phase, job, heldEpoch, heldAttempt, inCatch, failure, leaseLost, cancelSeen>>
vars     == <<rowVars, logVars, slotVars, crashes>>

-----------------------------------------------------------------------------
(* Types *)

Waiting  == {"queued", "retrying"}
Terminal == {"completed", "failed", "denied", "cancelled"}
Status   == {"absent", "running"} \cup Waiting \cup Terminal
Attempts == 0..AttemptLimit

\* retryable(code) splits error codes in three: worth another attempt, a fault
\* that would only repeat (stale fence, plan, contract), and a gateway denial.
FailureClass == {"retryable", "fatal", "denied"}
EventCode    == {"started", "completed", "retrying", "failed", "cancelled"}

\* The body of workOnce that runs under the heartbeat.
TryPhase == {"invoking", "succeeded", "completedEvent", "failing", "terminal",
             "retryEvent", "failEvent", "cancelling", "cancelEvent"}
BusyPhase == {"claimed", "bound"} \cup TryPhase
Phase     == {"idle", "sweep", "sweepCancelled", "down"} \cup BusyPhase

RowTypeOK ==
  /\ status \in [Runs -> Status]
  /\ owner \in [Runs -> Slots \cup {NoSlot}]
  /\ lease \in [Runs -> {"none", "valid", "expired"}]
  /\ epoch \in [Runs -> Nat]
  /\ attempt \in [Runs -> Attempts]
  /\ cancelMark \subseteq Runs
  /\ backoff \subseteq Runs

LogTypeOK ==
  /\ journal \in [Runs -> SUBSET (Attempts \X EventCode)]
  /\ traceLink \in [Runs -> SUBSET Attempts]

SlotTypeOK ==
  /\ phase \in [Slots -> Phase]
  /\ job \in [Slots -> Runs \cup {NoRun}]
  /\ heldEpoch \in [Slots -> Nat]
  /\ heldAttempt \in [Slots -> Attempts]
  /\ inCatch \subseteq Slots
  /\ failure \in [Slots -> FailureClass]
  /\ leaseLost \subseteq Slots
  /\ cancelSeen \subseteq Slots

\* Every variable of ledger and dispatcher stays in its range; in particular no
\* run is ever attempted more than attempt_limit times (index.ts 189-231).
TypeOK ==
  /\ RowTypeOK
  /\ LogTypeOK
  /\ SlotTypeOK
  /\ crashes \in Nat

Init ==
  /\ status = [r \in Runs |-> "absent"]
  /\ owner = [r \in Runs |-> NoSlot]
  /\ lease = [r \in Runs |-> "none"]
  /\ epoch = [r \in Runs |-> 0]
  /\ attempt = [r \in Runs |-> 0]
  /\ cancelMark = {}
  /\ backoff = {}
  /\ journal = [r \in Runs |-> {}]
  /\ traceLink = [r \in Runs |-> {}]
  /\ phase = [w \in Slots |-> "idle"]
  /\ job = [w \in Slots |-> NoRun]
  /\ heldEpoch = [w \in Slots |-> 0]
  /\ heldAttempt = [w \in Slots |-> 0]
  /\ inCatch = {}
  /\ failure = [w \in Slots |-> "fatal"]
  /\ leaseLost = {}
  /\ cancelSeen = {}
  /\ crashes = 0

-----------------------------------------------------------------------------
(* Control API: the statements an operator's request executes *)

\* A repeated POST with the same key returns the row, and one with another
\* request digest is refused: neither changes it, so a run is created once.
CreateRun(r) ==
  /\ status[r] = "absent"
  /\ status' = [status EXCEPT ![r] = "queued"]
  /\ UNCHANGED <<owner, lease, epoch, attempt, cancelMark, backoff, logVars, slotVars, crashes>>

\* Mutant: marking a running run leaves its fence where it was.
RequestCancellationKeepingFence(r) ==
  /\ status[r] \in Waiting \cup {"running"}
  /\ cancelMark' = cancelMark \cup {r}
  /\ status' = [status EXCEPT ![r] = IF @ = "running" THEN @ ELSE "cancelled"]
  /\ UNCHANGED <<owner, lease, epoch, attempt, backoff, logVars, slotVars, crashes>>

\* One transaction under a row lock.  A run that no worker executes becomes
\* terminal at once; a running one keeps its lease and only loses its fence.
RequestRunCancellation(r) ==
  /\ status[r] \in Waiting \cup {"running"}
  /\ epoch[r] < MaxEpoch
  /\ cancelMark' = cancelMark \cup {r}
  /\ epoch' = [epoch EXCEPT ![r] = @ + 1]
  /\ \/ /\ status[r] = "running"
        /\ UNCHANGED <<status, owner, lease>>
     \/ /\ status[r] \in Waiting
        /\ status' = [status EXCEPT ![r] = "cancelled"]
        /\ owner' = [owner EXCEPT ![r] = NoSlot]
        /\ lease' = [lease EXCEPT ![r] = "none"]
  /\ UNCHANGED <<attempt, backoff, logVars, slotVars, crashes>>

-----------------------------------------------------------------------------
(* Clock *)

LeaseExpires(r) ==
  /\ lease[r] = "valid"
  /\ lease' = [lease EXCEPT ![r] = "expired"]
  /\ UNCHANGED <<status, owner, epoch, attempt, cancelMark, backoff, logVars, slotVars, crashes>>

BackoffElapses(r) ==
  /\ r \in backoff
  /\ backoff' = backoff \ {r}
  /\ UNCHANGED <<status, owner, lease, epoch, attempt, cancelMark, logVars, slotVars, crashes>>

-----------------------------------------------------------------------------
(* How a slot leaves workOnce *)

ClearSlot(w) ==
  /\ job' = [job EXCEPT ![w] = NoRun]
  /\ heldEpoch' = [heldEpoch EXCEPT ![w] = 0]
  /\ heldAttempt' = [heldAttempt EXCEPT ![w] = 0]
  /\ inCatch' = inCatch \ {w}
  /\ failure' = [failure EXCEPT ![w] = "fatal"]
  /\ leaseLost' = leaseLost \ {w}
  /\ cancelSeen' = cancelSeen \ {w}

GoTo(w, p) == phase' = [phase EXCEPT ![w] = p]

\* workOnce returned true: the loop claims again without sweeping.
Worked(w) == GoTo(w, "idle") /\ ClearSlot(w)

\* workOnce returned false or threw: slot 0 sweeps before it sleeps.
NotWorked(w) ==
  /\ GoTo(w, IF w \in SweepSlots THEN "sweep" ELSE "idle")
  /\ ClearSlot(w)

\* An exception under workOnce's try.  The catch block looks at the two abort
\* signals first, cancellation before lease loss; an exception raised inside
\* the catch block leaves workOnce.
Throw(w, code) ==
  \/ /\ w \in inCatch
     /\ NotWorked(w)
  \/ /\ w \notin inCatch
     /\ w \in cancelSeen
     /\ GoTo(w, "cancelling")
     /\ inCatch' = inCatch \cup {w}
     /\ UNCHANGED <<job, heldEpoch, heldAttempt, failure, leaseLost, cancelSeen>>
  \/ /\ w \notin inCatch
     /\ w \notin cancelSeen
     /\ w \in leaseLost
     /\ Worked(w)
  \/ /\ w \notin inCatch
     /\ w \notin cancelSeen
     /\ w \notin leaseLost
     /\ GoTo(w, "failing")
     /\ inCatch' = inCatch \cup {w}
     /\ failure' = [failure EXCEPT ![w] = code]
     /\ UNCHANGED <<job, heldEpoch, heldAttempt, leaseLost, cancelSeen>>

\* The slot moves on to its next statement and remembers what it did before.
Proceed(w, p) ==
  /\ GoTo(w, p)
  /\ UNCHANGED <<job, heldEpoch, heldAttempt, inCatch, failure, leaseLost, cancelSeen>>

\* The WHERE clause every write of an executing slot carries.
Fenced(w) ==
  /\ job[w] \in Runs
  /\ status[job[w]] = "running"
  /\ owner[job[w]] = w
  /\ epoch[job[w]] = heldEpoch[w]

\* appendEvent: not fenced, and a second event with the same key is dropped.
AppendEvent(w, code) ==
  /\ journal' = [journal EXCEPT ![job[w]] = @ \cup {<<heldAttempt[w], code>>}]
  /\ UNCHANGED <<rowVars, traceLink, crashes>>

-----------------------------------------------------------------------------
(* Claiming *)

\* Mutants of the claim's WHERE clause: the cancellation mark is not looked at; an
\* expired lease is not reclaimed.
ClaimableThoughCancelled(r) ==
  /\ \/ status[r] \in Waiting /\ r \notin backoff
     \/ status[r] = "running" /\ lease[r] = "expired"
  /\ attempt[r] < AttemptLimit

ClaimableIfWaiting(r) ==
  /\ status[r] \in Waiting /\ r \notin backoff
  /\ r \notin cancelMark
  /\ attempt[r] < AttemptLimit

Claimable(r) ==
  /\ \/ status[r] \in Waiting /\ r \notin backoff
     \/ status[r] = "running" /\ lease[r] = "expired"
  /\ r \notin cancelMark
  /\ attempt[r] < AttemptLimit

\* Mutant: the claim takes over the run without moving its fence.
ClaimKeepingFence(w, r) ==
  /\ phase[w] = "idle"
  /\ Claimable(r)
  /\ status' = [status EXCEPT ![r] = "running"]
  /\ owner' = [owner EXCEPT ![r] = w]
  /\ lease' = [lease EXCEPT ![r] = "valid"]
  /\ attempt' = [attempt EXCEPT ![r] = @ + 1]
  /\ backoff' = backoff \ {r}
  /\ GoTo(w, "claimed")
  /\ job' = [job EXCEPT ![w] = r]
  /\ heldEpoch' = [heldEpoch EXCEPT ![w] = epoch[r]]
  /\ heldAttempt' = [heldAttempt EXCEPT ![w] = attempt[r] + 1]
  /\ UNCHANGED <<epoch, cancelMark, logVars, inCatch, failure, leaseLost, cancelSeen, crashes>>

ClaimRun(w, r) ==
  /\ phase[w] = "idle"
  /\ Claimable(r)
  /\ status' = [status EXCEPT ![r] = "running"]
  /\ owner' = [owner EXCEPT ![r] = w]
  /\ lease' = [lease EXCEPT ![r] = "valid"]
  /\ epoch' = [epoch EXCEPT ![r] = @ + 1]
  /\ attempt' = [attempt EXCEPT ![r] = @ + 1]
  /\ backoff' = backoff \ {r}
  /\ GoTo(w, "claimed")
  /\ job' = [job EXCEPT ![w] = r]
  /\ heldEpoch' = [heldEpoch EXCEPT ![w] = epoch[r] + 1]
  /\ heldAttempt' = [heldAttempt EXCEPT ![w] = attempt[r] + 1]
  /\ UNCHANGED <<cancelMark, logVars, inCatch, failure, leaseLost, cancelSeen, crashes>>

\* claimRun found nothing, skipped locked rows, or failed.
ClaimNothing(w) ==
  /\ phase[w] = "idle"
  /\ w \in SweepSlots
  /\ NotWorked(w)
  /\ UNCHANGED <<rowVars, logVars, crashes>>

-----------------------------------------------------------------------------
(* Executing a claimed run *)

\* Superseded or cancelled between the claim and this statement: the throw is
\* outside the try, so the run is left to its lease.
BindRunTrace(w) ==
  /\ phase[w] = "claimed"
  /\ \/ /\ Fenced(w)
        /\ attempt[job[w]] = heldAttempt[w]
        /\ traceLink' = [traceLink EXCEPT ![job[w]] = @ \cup {heldAttempt[w]}]
        /\ Proceed(w, "bound")
     \/ /\ ~(Fenced(w) /\ attempt[job[w]] = heldAttempt[w])
        /\ NotWorked(w)
        /\ UNCHANGED traceLink
  /\ UNCHANGED <<rowVars, journal, crashes>>

RecordStarted(w) ==
  /\ phase[w] = "bound"
  /\ AppendEvent(w, "started")
  /\ Proceed(w, "invoking")

\* provider.invoke settles: a completed result, a result with another status,
\* or a rejection (transport error, deadline, one of the abort signals).
InvokeCompletes(w) ==
  /\ phase[w] = "invoking"
  /\ Proceed(w, "succeeded")
  /\ UNCHANGED <<rowVars, logVars, crashes>>

InvokeFails(w, code) ==
  /\ phase[w] = "invoking"
  /\ GoTo(w, "failing")
  /\ failure' = [failure EXCEPT ![w] = code]
  /\ UNCHANGED <<rowVars, logVars, crashes,
                 job, heldEpoch, heldAttempt, inCatch, leaseLost, cancelSeen>>

InvokeRejects(w, code) ==
  /\ phase[w] = "invoking"
  /\ Throw(w, code)
  /\ UNCHANGED <<rowVars, logVars, crashes>>

\* The fenced UPDATE of completeRun.
WriteTerminal(w, outcome) ==
  /\ status' = [status EXCEPT ![job[w]] = outcome]
  /\ owner' = [owner EXCEPT ![job[w]] = NoSlot]
  /\ lease' = [lease EXCEPT ![job[w]] = "none"]
  /\ UNCHANGED <<epoch, attempt, cancelMark, backoff>>

\* Mutant: the row count of the fenced UPDATE is not checked.
CompleteRunUnchecked(w) ==
  /\ phase[w] = "succeeded"
  /\ IF Fenced(w) THEN WriteTerminal(w, "completed") ELSE UNCHANGED rowVars
  /\ Proceed(w, "completedEvent")
  /\ UNCHANGED <<logVars, crashes>>

\* completeRun throws runtime.stale_fence, a fatal code, when no row matched.
CompleteRun(w) ==
  /\ phase[w] = "succeeded"
  /\ \/ /\ Fenced(w)
        /\ WriteTerminal(w, "completed")
        /\ Proceed(w, "completedEvent")
     \/ /\ ~Fenced(w)
        /\ Throw(w, "fatal")
        /\ UNCHANGED rowVars
  /\ UNCHANGED <<logVars, crashes>>

RecordCompleted(w) ==
  /\ phase[w] = "completedEvent"
  /\ AppendEvent(w, "completed")
  /\ Worked(w)

-----------------------------------------------------------------------------
(* handleFailure *)

\* Mutant: the retry's WHERE clause does not look at the fence.
RetryUnfenced(w) == attempt[job[w]] < AttemptLimit

RetryAllowed(w) == Fenced(w) /\ attempt[job[w]] < AttemptLimit

ScheduleRunRetry(w) ==
  /\ phase[w] = "failing"
  /\ failure[w] = "retryable"
  /\ RetryAllowed(w)
  /\ status' = [status EXCEPT ![job[w]] = "retrying"]
  /\ owner' = [owner EXCEPT ![job[w]] = NoSlot]
  /\ lease' = [lease EXCEPT ![job[w]] = "none"]
  /\ backoff' = backoff \cup {job[w]}
  /\ Proceed(w, "retryEvent")
  /\ UNCHANGED <<epoch, attempt, cancelMark, logVars, crashes>>

\* A denial or a fatal code skips the statement; otherwise it matched no row.
NoRetry(w) ==
  /\ phase[w] = "failing"
  /\ failure[w] # "retryable" \/ ~RetryAllowed(w)
  /\ Proceed(w, "terminal")
  /\ UNCHANGED <<rowVars, logVars, crashes>>

RecordRetrying(w) ==
  /\ phase[w] = "retryEvent"
  /\ AppendEvent(w, "retrying")
  /\ Worked(w)

RecordTerminalFailure(w) ==
  /\ phase[w] = "terminal"
  /\ \/ /\ Fenced(w)
        /\ WriteTerminal(w, IF failure[w] = "denied" THEN "denied" ELSE "failed")
        /\ Proceed(w, "failEvent")
     \/ /\ ~Fenced(w)
        /\ Throw(w, "fatal")
        /\ UNCHANGED rowVars
  /\ UNCHANGED <<logVars, crashes>>

RecordFailed(w) ==
  /\ phase[w] = "failEvent"
  /\ AppendEvent(w, "failed")
  /\ Worked(w)

-----------------------------------------------------------------------------
(* Cancellation, as the worker acknowledges it *)

CompleteCancelledRun(w) ==
  /\ phase[w] = "cancelling"
  /\ LET r == job[w]
         matched == status[r] = "running" /\ r \in cancelMark
     IN /\ status' = [status EXCEPT ![r] = IF matched THEN "cancelled" ELSE @]
        /\ owner' = [owner EXCEPT ![r] = IF matched THEN NoSlot ELSE @]
        /\ lease' = [lease EXCEPT ![r] = IF matched THEN "none" ELSE @]
  /\ Proceed(w, "cancelEvent")
  /\ UNCHANGED <<epoch, attempt, cancelMark, backoff, logVars, crashes>>

RecordCancelled(w) ==
  /\ phase[w] = "cancelEvent"
  /\ AppendEvent(w, "cancelled")
  /\ Worked(w)

-----------------------------------------------------------------------------
(* Heartbeat: two independent statements on every beat.  The signals they   *)
(* raise are read once, on entry to the catch block, so raising one later  *)
(* changes nothing and is left out.                                        *)

RenewLease(w) ==
  /\ phase[w] \in TryPhase
  /\ \/ /\ Fenced(w)
        /\ lease' = [lease EXCEPT ![job[w]] = "valid"]
        /\ UNCHANGED leaseLost
     \/ /\ ~Fenced(w)
        /\ w \notin inCatch
        /\ leaseLost' = leaseLost \cup {w}
        /\ UNCHANGED lease
  /\ UNCHANGED <<status, owner, epoch, attempt, cancelMark, backoff, logVars, crashes,
                 phase, job, heldEpoch, heldAttempt, inCatch, failure, cancelSeen>>

ReadCancellation(w) ==
  /\ phase[w] \in TryPhase
  /\ w \notin inCatch
  /\ job[w] \in cancelMark
  /\ cancelSeen' = cancelSeen \cup {w}
  /\ UNCHANGED <<rowVars, logVars, crashes,
                 phase, job, heldEpoch, heldAttempt, inCatch, failure, leaseLost>>

-----------------------------------------------------------------------------
(* Sweeps of an idle slot 0: two statements, each over the whole table *)

FailExhaustedRuns(w) ==
  /\ phase[w] = "sweep"
  /\ LET exhausted(r) == status[r] \in Waiting /\ attempt[r] >= AttemptLimit
     IN /\ status' = [r \in Runs |-> IF exhausted(r) THEN "failed" ELSE status[r]]
        /\ owner' = [r \in Runs |-> IF exhausted(r) THEN NoSlot ELSE owner[r]]
        /\ lease' = [r \in Runs |-> IF exhausted(r) THEN "none" ELSE lease[r]]
  /\ Proceed(w, "sweepCancelled")
  /\ UNCHANGED <<epoch, attempt, cancelMark, backoff, logVars, crashes>>

\* Mutant: the sweep cancels every run whose lease is over, asked for or not.
LeaseIsOver(r) == status[r] = "running" /\ lease[r] # "valid"

Abandoned(r) == status[r] = "running" /\ r \in cancelMark /\ lease[r] # "valid"

\* Mutant: the sweep passes over abandoned cancellations.
FinalizeNothing(w) ==
  /\ phase[w] = "sweepCancelled"
  /\ Proceed(w, "idle")
  /\ UNCHANGED <<rowVars, logVars, crashes>>

FinalizeAbandonedCancellations(w) ==
  /\ phase[w] = "sweepCancelled"
  /\ status' = [r \in Runs |-> IF Abandoned(r) THEN "cancelled" ELSE status[r]]
  /\ owner' = [r \in Runs |-> IF Abandoned(r) THEN NoSlot ELSE owner[r]]
  /\ lease' = [r \in Runs |-> IF Abandoned(r) THEN "none" ELSE lease[r]]
  /\ Proceed(w, "idle")
  /\ UNCHANGED <<epoch, attempt, cancelMark, backoff, logVars, crashes>>

-----------------------------------------------------------------------------
(* Faults *)

\* A statement rejects (connection, database, plan or provider set-up).  Before
\* the try it leaves workOnce; in a sweep it is swallowed until the next poll.
StatementFails(w) ==
  /\ \/ /\ phase[w] \in {"claimed", "bound"}
        /\ NotWorked(w)
     \/ /\ phase[w] \in TryPhase \ {"invoking"}
        /\ Throw(w, "retryable")
     \/ /\ phase[w] \in {"sweep", "sweepCancelled"}
        /\ Worked(w)
  /\ UNCHANGED <<rowVars, logVars, crashes>>

\* The process dies, or is stopped between two iterations.
Crash(w) ==
  /\ phase[w] # "down"
  /\ crashes < MaxCrashes
  /\ crashes' = crashes + 1
  /\ GoTo(w, "down")
  /\ ClearSlot(w)
  /\ UNCHANGED <<rowVars, logVars>>

Restart(w) ==
  /\ phase[w] = "down"
  /\ Worked(w)
  /\ UNCHANGED <<rowVars, logVars, crashes>>

-----------------------------------------------------------------------------
(* Specification *)

ClaimAny(w) == \E r \in Runs : ClaimRun(w, r)

\* The steps by which a slot moves through its loop.
SlotStep(w) ==
  \/ ClaimAny(w) \/ ClaimNothing(w)
  \/ BindRunTrace(w) \/ RecordStarted(w)
  \/ InvokeCompletes(w)
  \/ \E code \in FailureClass : InvokeFails(w, code) \/ InvokeRejects(w, code)
  \/ CompleteRun(w) \/ RecordCompleted(w)
  \/ ScheduleRunRetry(w) \/ NoRetry(w) \/ RecordRetrying(w)
  \/ RecordTerminalFailure(w) \/ RecordFailed(w)
  \/ CompleteCancelledRun(w) \/ RecordCancelled(w)
  \/ FailExhaustedRuns(w) \/ FinalizeAbandonedCancellations(w)
  \/ StatementFails(w)

Heartbeat(w) == RenewLease(w) \/ ReadCancellation(w)

RunStep(r) ==
  \/ CreateRun(r) \/ RequestRunCancellation(r)
  \/ LeaseExpires(r) \/ BackoffElapses(r)

Next ==
  \/ \E r \in Runs : RunStep(r)
  \/ \E w \in Slots : SlotStep(w) \/ Heartbeat(w) \/ Crash(w) \/ Restart(w)

Spec == Init /\ [][Next]_vars

(***************************************************************************)
(* Fairness.  A slot's loop never blocks: provider.invoke carries an abort *)
(* timeout, so every await settles.  The clock runs.  A stopped process is *)
(* restarted by its supervisor.  Row locks and statement errors come and   *)
(* go, so a claim or sweep that is possible again and again succeeds.      *)
(* Nothing is assumed of operators, heartbeats or crashes.                 *)
(***************************************************************************)
Fairness ==
  /\ \A r \in Runs : WF_vars(LeaseExpires(r)) /\ WF_vars(BackoffElapses(r))
  /\ \A w \in Slots :
       /\ WF_vars(SlotStep(w))
       /\ WF_vars(Restart(w))
       /\ SF_vars(ClaimAny(w))
       /\ SF_vars(FailExhaustedRuns(w))
       /\ SF_vars(FinalizeAbandonedCancellations(w))

FairSpec == Spec /\ Fairness

-----------------------------------------------------------------------------
(* Properties *)

\* Two slots that believe they execute the same run hold different attempts and
\* different fences, so an event key `run:${attempt}:...` (worker.ts) belongs to
\* one executor and appendEvent's deduplication never drops another one's event.
OneExecutorPerAttempt ==
  \A w, v \in Slots :
    w # v /\ job[w] = job[v] /\ job[w] # NoRun
      => heldAttempt[w] # heldAttempt[v] /\ heldEpoch[w] # heldEpoch[v]

\* Passing the fence (lease_owner, fencing_epoch, status in each WHERE clause)
\* means executing the latest attempt of a run nobody has asked to cancel.
FenceImpliesAuthority ==
  \A w \in Slots :
    Fenced(w) => heldAttempt[w] = attempt[job[w]] /\ job[w] \notin cancelMark

\* Once requestRunCancellation has returned, the run is cancelled or still being
\* stopped: no worker, however late, completes it, fails it or requeues it.
CancellationIsFinal ==
  \A r \in Runs : r \in cancelMark => status[r] \in {"running", "cancelled"}

\* failExhaustedRuns (index.ts 269-279) never finds a row: a run that waits for
\* an attempt always has one left.
WaitingRunHasBudget ==
  \A r \in Runs : status[r] \in Waiting => attempt[r] < AttemptLimit

\* The journal, which is appended to after the row and without a fence, never
\* tells another outcome than the row, and tells only attempts with a trace.
JournalAgreesWithRow ==
  \A r \in Runs : \A e \in journal[r] :
    /\ e[2] = "completed" => status[r] = "completed"
    /\ e[2] = "failed"    => status[r] \in {"failed", "denied"}
    /\ e[2] = "cancelled" => status[r] = "cancelled"
    /\ e[1] \in traceLink[r]

\* A terminal run keeps its status, attempt, fence and cancellation mark: no
\* late worker, retry, sweep or operator request reopens or relabels it.
TerminalIsFinal ==
  [][\A r \in Runs : status[r] \in Terminal =>
       /\ status'[r] = status[r]
       /\ attempt'[r] = attempt[r]
       /\ epoch'[r] = epoch[r]
       /\ (r \in cancelMark') <=> (r \in cancelMark)]_vars

\* A run leaves "running" only through the slot that holds its fence, or by
\* being cancelled after a request; in particular an expired lease alone never
\* changes its status.
OnlyAuthoritySettles ==
  [][\A r \in Runs : status[r] = "running" /\ status'[r] # "running" =>
       \/ r \in cancelMark /\ status'[r] = "cancelled"
       \/ \E w \in Slots : job[w] = r /\ Fenced(w) /\ phase'[w] # phase[w]]_vars

\* The ledger implements the lifecycle it promises: RunLifecycle, reading the
\* row's status, mark and attempt counter.
StageOf(s) == IF s \in Waiting THEN "waiting" ELSE IF s = "running" THEN "executing" ELSE s

Lifecycle == INSTANCE RunLifecycle WITH
  stage <- [r \in Runs |-> StageOf(status[r])],
  stopRequested <- cancelMark,
  attemptsUsed <- attempt

\* Every step of ledger and dispatcher is a step of RunLifecycle or invisible
\* there (leases, fences, journal, heartbeats, crashes).
ImplementsLifecycle == Lifecycle!LifecycleSpec

\* A cancellation request is eventually effective, even if the worker that runs
\* the run dies, misses the mark or only notices the lost lease.
CancellationTakesEffect ==
  \A r \in Runs : r \in cancelMark ~> status[r] = "cancelled"

\* The state claimRun, failExhaustedRuns and finalizeAbandonedCancellations all
\* pass over: the last permitted attempt lost its worker and its lease.
Stranded(r) ==
  /\ status[r] = "running"
  /\ lease[r] = "expired"
  /\ attempt[r] = AttemptLimit
  /\ r \notin cancelMark
  /\ \A w \in Slots : ~(job[w] = r /\ Fenced(w))

\* A submitted run reaches a terminal status, unless it is stranded on its last
\* attempt: nothing else (backoff, lost leases, crashes, lost acknowledgements)
\* can hold it up forever.
RunSettlesOrStrands ==
  \A r \in Runs : status[r] = "queued" ~> status[r] \in Terminal \/ Stranded(r)

\* What index.ts:269 and worker.ts:311-314 say of an exhausted attempt budget:
\* the run becomes terminal.
EveryRunSettles ==
  \A r \in Runs : status[r] = "queued" ~> status[r] \in Terminal

-----------------------------------------------------------------------------
(* The inductive invariant behind the theorems of RunDispatch_proofs *)

\* A slot is busy exactly when it has a job, and what it remembers of the row is
\* not from the future.
HeldIsPast ==
  \A w \in Slots :
    /\ phase[w] \in BusyPhase <=> job[w] # NoRun
    /\ job[w] # NoRun =>
         /\ heldEpoch[w] <= epoch[job[w]]
         /\ heldAttempt[w] <= attempt[job[w]]

\* Claiming and cancelling both move the fence past everybody who is working.
FenceIsLatest ==
  \A w \in Slots : job[w] # NoRun /\ heldEpoch[w] = epoch[job[w]] =>
    /\ heldAttempt[w] = attempt[job[w]]
    /\ job[w] \notin cancelMark

\* What a slot that is about to execute a statement has already made true.
PhaseFacts ==
  \A w \in Slots :
    /\ phase[w] \in TryPhase \cup {"bound"} => heldAttempt[w] \in traceLink[job[w]]
    /\ w \in cancelSeen \/ phase[w] \in {"cancelling", "cancelEvent"} =>
         job[w] # NoRun /\ job[w] \in cancelMark
    /\ phase[w] = "completedEvent" => status[job[w]] = "completed"
    /\ phase[w] = "failEvent" => status[job[w]] \in {"failed", "denied"}
    /\ phase[w] = "cancelEvent" => status[job[w]] = "cancelled"

\* A row that was never inserted has used nothing.
AbsentIsFresh ==
  \A r \in Runs : status[r] = "absent" => attempt[r] = 0

IInv ==
  /\ TypeOK
  /\ HeldIsPast
  /\ FenceIsLatest
  /\ AbsentIsFresh
  /\ CancellationIsFinal
  /\ WaitingRunHasBudget
  /\ OneExecutorPerAttempt
  /\ PhaseFacts
  /\ JournalAgreesWithRow
=============================================================================
