---------------------------- MODULE RunLifecycle ----------------------------
(***************************************************************************)
(* What the run ledger promises to whoever starts, watches or cancels a    *)
(* run, with no leases, fences, workers or statements: a run is attempted  *)
(* a bounded number of times, settles once, and after a cancellation       *)
(* request the only thing that can still happen to it is to be cancelled.  *)
(***************************************************************************)
EXTENDS Naturals

CONSTANTS Runs, AttemptLimit

VARIABLES stage, stopRequested, attemptsUsed

lifecycleVars == <<stage, stopRequested, attemptsUsed>>

Outcome == {"completed", "failed", "denied"}
Stage   == {"absent", "waiting", "executing", "cancelled"} \cup Outcome

LifecycleInit ==
  /\ stage = [r \in Runs |-> "absent"]
  /\ stopRequested = {}
  /\ attemptsUsed = [r \in Runs |-> 0]

Submit(r) ==
  /\ stage[r] = "absent"
  /\ stage' = [stage EXCEPT ![r] = "waiting"]
  /\ UNCHANGED <<stopRequested, attemptsUsed>>

\* A first attempt, a retry, or the takeover of an attempt whose worker is lost.
StartAttempt(r) ==
  /\ stage[r] \in {"waiting", "executing"}
  /\ r \notin stopRequested
  /\ attemptsUsed[r] < AttemptLimit
  /\ stage' = [stage EXCEPT ![r] = "executing"]
  /\ attemptsUsed' = [attemptsUsed EXCEPT ![r] = @ + 1]
  /\ UNCHANGED stopRequested

ReleaseForRetry(r) ==
  /\ stage[r] = "executing"
  /\ r \notin stopRequested
  /\ attemptsUsed[r] < AttemptLimit
  /\ stage' = [stage EXCEPT ![r] = "waiting"]
  /\ UNCHANGED <<stopRequested, attemptsUsed>>

Settle(r) ==
  /\ stage[r] = "executing"
  /\ r \notin stopRequested
  /\ \E outcome \in Outcome : stage' = [stage EXCEPT ![r] = outcome]
  /\ UNCHANGED <<stopRequested, attemptsUsed>>

RequestStop(r) ==
  /\ stage[r] \in {"waiting", "executing"}
  /\ stopRequested' = stopRequested \cup {r}
  /\ stage' = [stage EXCEPT ![r] = IF @ = "waiting" THEN "cancelled" ELSE @]
  /\ UNCHANGED attemptsUsed

\* Acknowledged by a worker for its run, or by a sweep for several at once.
AcknowledgeStops(S) ==
  /\ \A r \in S : stage[r] = "executing" /\ r \in stopRequested
  /\ stage' = [r \in Runs |-> IF r \in S THEN "cancelled" ELSE stage[r]]
  /\ UNCHANGED <<stopRequested, attemptsUsed>>

LifecycleNext ==
  \/ \E r \in Runs : \/ Submit(r) \/ StartAttempt(r) \/ ReleaseForRetry(r)
                     \/ Settle(r) \/ RequestStop(r)
  \/ \E S \in SUBSET Runs : AcknowledgeStops(S)

LifecycleSpec == LifecycleInit /\ [][LifecycleNext]_lifecycleVars
=============================================================================
