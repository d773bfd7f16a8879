------------------------- MODULE CapabilityGateway -------------------------
(***************************************************************************)
(* POST /v1/invoke of the capability gateway                               *)
(* (apps/capability-gateway/src/app.ts) over its receipts and the budget   *)
(* counters of the run (packages/persistence/src/index.ts), for the        *)
(* invocations of one run.                                                 *)
(*                                                                         *)
(* Requests are handled concurrently; a handler can be interrupted by any  *)
(* other one between two database statements and around the provider call. *)
(* A request the gateway refuses before it touches the database (envelope, *)
(* capability, effect or permission mismatch) changes nothing and is left  *)
(* out; the fence it compares is the dispatcher's and moves at any time.   *)
(***************************************************************************)
EXTENDS Naturals, FiniteSets, FiniteSetsExt

CONSTANTS
  Handlers,            \* requests being handled at one time
  Invocations,         \* invocation ids of the run (stable across attempts)
  ModelInvocations,    \* those whose capability.kind is "model"
  Digests,             \* stableDigest(request)
  MaxCapabilityCalls,  \* plan.budgets
  MaxModelCalls,
  MaxCostUsd,
  CallCosts,           \* what a provider may charge for one call
  NoCost,              \* usage.costUsd = null
  MaxFence,            \* bound on the fencing epoch
  NoInvocation, NoDigest

ASSUME BudgetAssumption ==
  /\ MaxCapabilityCalls \in Nat
  /\ MaxModelCalls \in Nat
  /\ MaxCostUsd \in Nat
  /\ CallCosts \subseteq Nat
  /\ MaxFence \in Nat
ASSUME NullAssumption ==
  /\ NoCost \notin Nat
  /\ NoInvocation \notin Invocations
  /\ NoDigest \notin Digests
ASSUME FiniteAssumption ==
  /\ IsFiniteSet(Handlers)
  /\ IsFiniteSet(Invocations)
  /\ ModelInvocations \subseteq Invocations

VARIABLES
  receipt,      \* request_digest of the invocation's row, NoDigest without one
  stored,       \* the row's result, numbered; 0 is NULL
  calls,        \* runs.capability_calls
  modelCalls,   \* runs.model_calls
  cost,         \* runs.cost_usd
  costComplete, \* runs.cost_complete
  fence,        \* currentFencingEpoch of the run
  step,         \* what each handler does next
  inv,          \* the invocation a handler works on
  digest,       \* its request digest
  heldFence,    \* fencing_epoch claim of its envelope
  heldResult,   \* number of the provider result it holds, 0 before one
  heldCost,     \* what the provider charged for it
  reply,        \* how its last request was answered
  produced,     \* history: results the providers returned, by invocation
  dispatched,   \* history: provider calls made, by invocation
  spent         \* history: total the providers charged

rowVars     == <<receipt, stored, calls, modelCalls, cost, costComplete>>
handlerVars == <<step, inv, digest, heldFence, heldResult, heldCost, reply>>
historyVars == <<produced, dispatched, spent>>
vars        == <<rowVars, fence, handlerVars, historyVars>>

Step  == {"idle", "authorized", "inspecting", "reserved", "calling", "returned",
          "billing", "abandoning"}
Reply == {"none", "result", "in_progress", "conflict", "budget_denied", "error"}

TypeOK ==
  /\ receipt \in [Invocations -> Digests \cup {NoDigest}]
  /\ stored \in [Invocations -> Nat]
  /\ calls \in Nat
  /\ modelCalls \in Nat
  /\ cost \in Nat
  /\ costComplete \in BOOLEAN
  /\ fence \in Nat
  /\ step \in [Handlers -> Step]
  /\ inv \in [Handlers -> Invocations \cup {NoInvocation}]
  /\ digest \in [Handlers -> Digests \cup {NoDigest}]
  /\ heldFence \in [Handlers -> Nat]
  /\ heldResult \in [Handlers -> Nat]
  /\ heldCost \in [Handlers -> CallCosts \cup {NoCost}]
  /\ reply \in [Handlers -> Reply]
  /\ produced \in [Invocations -> Nat]
  /\ dispatched \in [Invocations -> Nat]
  /\ spent \in Nat

Init ==
  /\ receipt = [i \in Invocations |-> NoDigest]
  /\ stored = [i \in Invocations |-> 0]
  /\ calls = 0
  /\ modelCalls = 0
  /\ cost = 0
  /\ costComplete = TRUE
  /\ fence = 1
  /\ step = [h \in Handlers |-> "idle"]
  /\ inv = [h \in Handlers |-> NoInvocation]
  /\ digest = [h \in Handlers |-> NoDigest]
  /\ heldFence = [h \in Handlers |-> 0]
  /\ heldResult = [h \in Handlers |-> 0]
  /\ heldCost = [h \in Handlers |-> NoCost]
  /\ reply = [h \in Handlers |-> "none"]
  /\ produced = [i \in Invocations |-> 0]
  /\ dispatched = [i \in Invocations |-> 0]
  /\ spent = 0

-----------------------------------------------------------------------------
(* Handler bookkeeping *)

GoTo(h, s) == step' = [step EXCEPT ![h] = s]

\* The request is answered and the handler's locals are gone.
Answer(h, r) ==
  /\ GoTo(h, "idle")
  /\ inv' = [inv EXCEPT ![h] = NoInvocation]
  /\ digest' = [digest EXCEPT ![h] = NoDigest]
  /\ heldFence' = [heldFence EXCEPT ![h] = 0]
  /\ heldResult' = [heldResult EXCEPT ![h] = 0]
  /\ heldCost' = [heldCost EXCEPT ![h] = NoCost]
  /\ reply' = [reply EXCEPT ![h] = r]

Proceed(h, s) ==
  /\ GoTo(h, s)
  /\ UNCHANGED <<inv, digest, heldFence, heldResult, heldCost, reply>>

-----------------------------------------------------------------------------
(* The handler *)

\* Authorization: the envelope's epoch is compared with currentFencingEpoch in
\* a statement of its own, before anything is reserved.
Authorize(h, i, d) ==
  /\ step[h] = "idle"
  /\ GoTo(h, "authorized")
  /\ inv' = [inv EXCEPT ![h] = i]
  /\ digest' = [digest EXCEPT ![h] = d]
  /\ heldFence' = [heldFence EXCEPT ![h] = fence]
  /\ reply' = [reply EXCEPT ![h] = "none"]
  /\ UNCHANGED <<rowVars, fence, heldResult, heldCost, historyVars>>

\* Mutant of the budget's WHERE clause: the call counter is tested off by one.
WithinBudgetPlusOne(i) ==
  /\ calls <= MaxCapabilityCalls
  /\ i \in ModelInvocations => modelCalls < MaxModelCalls
  /\ cost < MaxCostUsd

WithinBudget(i) ==
  /\ calls < MaxCapabilityCalls
  /\ i \in ModelInvocations => modelCalls < MaxModelCalls
  /\ cost < MaxCostUsd

\* reserveGatewayReceipt: insert and budget update are one transaction.
Reserve(h) ==
  /\ step[h] = "authorized"
  /\ receipt[inv[h]] = NoDigest
  /\ WithinBudget(inv[h])
  /\ receipt' = [receipt EXCEPT ![inv[h]] = digest[h]]
  /\ calls' = calls + 1
  /\ modelCalls' = IF inv[h] \in ModelInvocations THEN modelCalls + 1 ELSE modelCalls
  /\ Proceed(h, "reserved")
  /\ UNCHANGED <<stored, cost, costComplete, fence, historyVars>>

DenyBudget(h) ==
  /\ step[h] = "authorized"
  /\ receipt[inv[h]] = NoDigest
  /\ ~WithinBudget(inv[h])
  /\ Answer(h, "budget_denied")
  /\ UNCHANGED <<rowVars, fence, historyVars>>

\* The insert met an existing row; the row is read by a second statement of the
\* transaction, which (read committed) sees what others commit in between.
ReceiptExists(h) ==
  /\ step[h] = "authorized"
  /\ receipt[inv[h]] # NoDigest
  /\ Proceed(h, "inspecting")
  /\ UNCHANGED <<rowVars, fence, historyVars>>

\* Mutant: a replayed result is charged to the run like a new one.
InspectAndBill(h) ==
  /\ step[h] = "inspecting"
  /\ \/ /\ receipt[inv[h]] # digest[h]
        /\ Answer(h, "conflict")
        /\ UNCHANGED cost
     \/ /\ receipt[inv[h]] = digest[h]
        /\ Answer(h, IF stored[inv[h]] > 0 THEN "result" ELSE "in_progress")
        /\ \E c \in CallCosts : cost' = IF stored[inv[h]] > 0 THEN cost + c ELSE cost
  /\ UNCHANGED <<receipt, stored, calls, modelCalls, costComplete, fence, historyVars>>

InspectReceipt(h) ==
  /\ step[h] = "inspecting"
  /\ \/ /\ receipt[inv[h]] # digest[h]
        /\ Answer(h, "conflict")
     \/ /\ receipt[inv[h]] = digest[h]
        /\ Answer(h, IF stored[inv[h]] > 0 THEN "result" ELSE "in_progress")
  /\ UNCHANGED <<rowVars, fence, historyVars>>

CallProvider(h) ==
  /\ step[h] = "reserved"
  /\ dispatched' = [dispatched EXCEPT ![inv[h]] = @ + 1]
  /\ Proceed(h, "calling")
  /\ UNCHANGED <<rowVars, fence, produced, spent>>

\* The adapter answers; from here on providerReturned is true.
ProviderReturns(h, c) ==
  /\ step[h] = "calling"
  /\ produced' = [produced EXCEPT ![inv[h]] = @ + 1]
  /\ spent' = IF c = NoCost THEN spent ELSE spent + c
  /\ heldResult' = [heldResult EXCEPT ![h] = produced[inv[h]] + 1]
  /\ heldCost' = [heldCost EXCEPT ![h] = c]
  /\ GoTo(h, "returned")
  /\ UNCHANGED <<rowVars, fence, inv, digest, heldFence, reply, dispatched>>

\* The adapter throws: missing profile, provider error, timeout.
ProviderRejects(h) ==
  /\ step[h] = "calling"
  /\ Proceed(h, "abandoning")
  /\ UNCHANGED <<rowVars, fence, historyVars>>

CompleteGatewayReceipt(h) ==
  /\ step[h] = "returned"
  /\ stored' = [stored EXCEPT ![inv[h]] = IF receipt[inv[h]] = NoDigest THEN @ ELSE heldResult[h]]
  /\ Proceed(h, "billing")
  /\ UNCHANGED <<receipt, calls, modelCalls, cost, costComplete, fence, historyVars>>

RecordCapabilityCost(h) ==
  /\ step[h] = "billing"
  /\ cost' = IF heldCost[h] = NoCost THEN cost ELSE cost + heldCost[h]
  /\ costComplete' = (costComplete /\ heldCost[h] # NoCost)
  /\ Answer(h, "result")
  /\ UNCHANGED <<receipt, stored, calls, modelCalls, fence, historyVars>>

\* Only a receipt without a result is deleted; the budget is not refunded.
AbandonGatewayReceipt(h) ==
  /\ step[h] = "abandoning"
  /\ receipt' = [receipt EXCEPT ![inv[h]] = IF stored[inv[h]] = 0 THEN NoDigest ELSE @]
  /\ Answer(h, "error")
  /\ UNCHANGED <<stored, calls, modelCalls, cost, costComplete, fence, historyVars>>

-----------------------------------------------------------------------------
(* Faults and the dispatcher *)

\* Mutant of the catch block: the claim is released whether or not the provider
\* has returned.
StatementFailsReleasing(h) ==
  /\ step[h] \in {"returned", "billing", "abandoning"}
  /\ receipt' = [receipt EXCEPT ![inv[h]] = IF stored[inv[h]] = 0 THEN NoDigest ELSE @]
  /\ Answer(h, "error")
  /\ UNCHANGED <<stored, calls, modelCalls, cost, costComplete, fence, historyVars>>

\* A statement rejects (a transaction is rolled back).  The catch block abandons
\* the claim only before the provider returned; a failing clean-up is logged.
StatementFails(h) ==
  /\ step[h] \in {"authorized", "inspecting", "returned", "billing", "abandoning"}
  /\ Answer(h, "error")
  /\ UNCHANGED <<rowVars, fence, historyVars>>

\* The gateway process dies with everything it holds in memory.
GatewayCrashes ==
  /\ \E h \in Handlers : step[h] # "idle"
  /\ step' = [h \in Handlers |-> "idle"]
  /\ inv' = [h \in Handlers |-> NoInvocation]
  /\ digest' = [h \in Handlers |-> NoDigest]
  /\ heldFence' = [h \in Handlers |-> 0]
  /\ heldResult' = [h \in Handlers |-> 0]
  /\ heldCost' = [h \in Handlers |-> NoCost]
  /\ reply' = [h \in Handlers |-> "none"]
  /\ UNCHANGED <<rowVars, fence, historyVars>>

\* The run is claimed again or its cancellation is requested (RunDispatch).
FenceMoves ==
  /\ fence < MaxFence
  /\ fence' = fence + 1
  /\ UNCHANGED <<rowVars, handlerVars, historyVars>>

HandlerStep(h) ==
  \/ \E i \in Invocations, d \in Digests : Authorize(h, i, d)
  \/ Reserve(h) \/ DenyBudget(h) \/ ReceiptExists(h) \/ InspectReceipt(h)
  \/ CallProvider(h) \/ ProviderRejects(h)
  \/ \E c \in CallCosts \cup {NoCost} : ProviderReturns(h, c)
  \/ CompleteGatewayReceipt(h) \/ RecordCapabilityCost(h)
  \/ AbandonGatewayReceipt(h) \/ StatementFails(h)

Next ==
  \/ \E h \in Handlers : HandlerStep(h)
  \/ GatewayCrashes
  \/ FenceMoves

Spec == Init /\ [][Next]_vars

-----------------------------------------------------------------------------
(* Properties *)

\* However often the runtime retries an invocation, over crashes, rejections and
\* concurrent requests, providers return at most one result for it: the receipt
\* is kept once providerReturned is set (app.ts 362-373).
OneResultPerInvocation ==
  \A i \in Invocations : produced[i] <= 1

\* A stored result is never replaced or deleted, and is the one returned to the
\* handler that called: every replay answers with the same result.
ResultIsPermanent ==
  [][\A i \in Invocations : stored[i] > 0
       => receipt'[i] = receipt[i] /\ stored'[i] = stored[i]]_vars

\* An invocation whose provider has answered is never called again, even if its
\* receipt could not be completed: it stays reserved (fail closed).
NoRepeatAfterReturn ==
  [][\A i \in Invocations : produced[i] > 0 => dispatched'[i] = dispatched[i]]_vars

Total(f, S) == MapThenSumSet(LAMBDA x : f[x], S)
CallsMade(M) == [i \in M |-> dispatched[i]]

\* Every provider call is paid for by a reservation, so no interleaving makes
\* more calls, or more model calls, than the plan's budget; the cost is tested
\* before a call and added after it (index.ts 710), so it may overshoot, but by
\* less than one call for each handler.
BudgetsHold ==
  /\ Total(CallsMade(Invocations), Invocations) <= MaxCapabilityCalls
  /\ Total(CallsMade(ModelInvocations), ModelInvocations) <= MaxModelCalls
  /\ \A c \in CallCosts : (\A d \in CallCosts : d <= c) /\ cost > 0 =>
       cost < MaxCostUsd + Cardinality(Handlers) * c

\* No result is billed twice: the run's recorded cost never exceeds what the
\* providers charged (it may be lower: a crash or a failed statement between
\* completeGatewayReceipt and recordCapabilityCost loses the charge).
BilledAtMostOnce == cost <= spent

-----------------------------------------------------------------------------
(* The inductive invariant behind the theorems of CapabilityGateway_proofs *)

\* The steps in which a handler owns the unfinished receipt of its invocation.
Owning == {"reserved", "calling", "returned", "abandoning"}

BusyHandlers ==
  \A h \in Handlers : step[h] # "idle" => inv[h] \in Invocations /\ digest[h] \in Digests

OwnedReceipts ==
  \A h \in Handlers : step[h] \in Owning =>
    /\ receipt[inv[h]] # NoDigest
    /\ stored[inv[h]] = 0
    /\ produced[inv[h]] = IF step[h] = "returned" THEN 1 ELSE 0
    /\ step[h] = "returned" => heldResult[h] = 1

OneOwner ==
  \A h, g \in Handlers :
    step[h] \in Owning /\ step[g] \in Owning /\ inv[h] = inv[g] => h = g

\* A produced result pins the receipt, and a stored result was produced.
ResultsHaveReceipts ==
  \A i \in Invocations :
    /\ receipt[i] = NoDigest => produced[i] = 0
    /\ stored[i] <= produced[i]

GatewayInv ==
  /\ TypeOK
  /\ BusyHandlers
  /\ OwnedReceipts
  /\ OneOwner
  /\ ResultsHaveReceipts
  /\ OneResultPerInvocation

\* Each call made and each call about to be made was counted by a reservation
\* within the budget.
ReservedFor(M) == {h \in Handlers : step[h] = "reserved" /\ inv[h] \in M}

Counted(M, n) == Total(CallsMade(M), M) + Cardinality(ReservedFor(M)) <= n

CallsAreCounted ==
  /\ Counted(Invocations, calls) /\ calls <= MaxCapabilityCalls
  /\ Counted(ModelInvocations, modelCalls) /\ modelCalls <= MaxModelCalls

\* The handlers that may still add a charge started below the limit.
Charging == {h \in Handlers : step[h] \in {"reserved", "calling", "returned", "billing"}}

ChargesAreBounded ==
  \A c \in CallCosts : (\A d \in CallCosts : d <= c) /\ (cost > 0 \/ Charging # {}) =>
    cost + Cardinality(Charging) * c < MaxCostUsd + Cardinality(Handlers) * c

\* What the providers charged covers what is recorded and what is still to be.
Outstanding ==
  [h \in Handlers |-> IF step[h] \in {"returned", "billing"} /\ heldCost[h] # NoCost
                      THEN heldCost[h] ELSE 0]
ChargesAreCovered == cost + Total(Outstanding, Handlers) <= spent

BudgetInv == CallsAreCounted /\ ChargesAreBounded /\ ChargesAreCovered
=============================================================================
