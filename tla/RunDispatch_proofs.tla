------------------------ MODULE RunDispatch_proofs -------------------------
(***************************************************************************)
(* Proofs about the run ledger and its dispatcher, for any number of runs, *)
(* slots and crashes and any attempt limit: the inductive invariant, what  *)
(* the fence guarantees, that cancellation wins, that terminal runs stay   *)
(* terminal, and that RunDispatch implements RunLifecycle.                 *)
(***************************************************************************)
EXTENDS RunDispatch, TLAPS

USE AttemptLimitAssumption, BoundsAssumption, NoRunAssumption, NoSlotAssumption

\* The ways a slot can move on keep its variables typed.
LEMMA ThrowType ==
  ASSUME SlotTypeOK, NEW w \in Slots, NEW code \in FailureClass, Throw(w, code)
  PROVE  SlotTypeOK'
BY DEF SlotTypeOK, Phase, BusyPhase, TryPhase, Throw, NotWorked, Worked, GoTo, ClearSlot, FailureClass, Attempts

\* Moving on to the next statement keeps them typed too.
LEMMA ProceedType ==
  ASSUME SlotTypeOK, NEW w \in Slots, NEW p \in Phase, Proceed(w, p)
  PROVE  SlotTypeOK'
BY DEF SlotTypeOK, Proceed, GoTo

\* So does leaving workOnce.
LEMMA LeaveType ==
  ASSUME SlotTypeOK, NEW w \in Slots, Worked(w) \/ NotWorked(w)
  PROVE  SlotTypeOK'
BY DEF SlotTypeOK, Phase, NotWorked, Worked, GoTo, ClearSlot, FailureClass, Attempts

\* An event appended to the journal is one of the run's attempts and codes.
LEMMA AppendEventType ==
  ASSUME TypeOK, NEW w \in Slots, NEW code \in EventCode, AppendEvent(w, code)
  PROVE  RowTypeOK' /\ LogTypeOK' /\ crashes' \in Nat
<1>1. <<heldAttempt[w], code>> \in Attempts \X EventCode
  BY DEF TypeOK, SlotTypeOK
<1>2. journal' \in [Runs -> SUBSET (Attempts \X EventCode)]
  BY <1>1 DEF TypeOK, LogTypeOK, AppendEvent
<1> QED
  BY <1>2 DEF TypeOK, LogTypeOK, RowTypeOK, AppendEvent, rowVars

\* The fenced UPDATE of completeRun keeps the row typed.
LEMMA WriteTerminalType ==
  ASSUME RowTypeOK, NEW w \in Slots, NEW outcome \in Terminal, WriteTerminal(w, outcome)
  PROVE  RowTypeOK'
BY DEF RowTypeOK, WriteTerminal, Status

\* Every step keeps the type invariant.
LEMMA TypeStep == TypeOK /\ [Next]_vars => TypeOK'
<1> SUFFICES ASSUME TypeOK, [Next]_vars PROVE TypeOK'
  OBVIOUS
<1> USE DEF TypeOK, rowVars, logVars, slotVars
<1>1. ASSUME NEW r \in Runs, RunStep(r) PROVE TypeOK'
  <2>1. CASE CreateRun(r)
    BY <2>1 DEF CreateRun, RowTypeOK, LogTypeOK, SlotTypeOK, Status, Waiting
  <2>2. CASE RequestRunCancellation(r)
    BY <2>2 DEF RequestRunCancellation, RowTypeOK, LogTypeOK, SlotTypeOK, Status, Terminal
  <2>3. CASE LeaseExpires(r)
    BY <2>3 DEF LeaseExpires, RowTypeOK, LogTypeOK, SlotTypeOK
  <2>4. CASE BackoffElapses(r)
    BY <2>4 DEF BackoffElapses, RowTypeOK, LogTypeOK, SlotTypeOK
  <2> QED
    BY <1>1, <2>1, <2>2, <2>3, <2>4 DEF RunStep
<1>2. ASSUME NEW w \in Slots, SlotStep(w) PROVE TypeOK'
  <2> USE LeaveType, ProceedType, ThrowType, AppendEventType, WriteTerminalType
  <2>1. ASSUME NEW r \in Runs, ClaimRun(w, r) PROVE TypeOK'
    BY <2>1 DEF ClaimRun, Claimable, GoTo, RowTypeOK, LogTypeOK, SlotTypeOK, Status,
                Attempts, Phase, BusyPhase
  <2>2. CASE ClaimNothing(w)
    BY <2>2 DEF ClaimNothing, RowTypeOK, LogTypeOK
  <2>3. CASE BindRunTrace(w)
    <3>1. heldAttempt[w] \in Attempts
      BY DEF SlotTypeOK
    <3>2. LogTypeOK'
      BY <2>3, <3>1 DEF BindRunTrace, LogTypeOK
    <3> QED
      BY <2>3, <3>2 DEF BindRunTrace, RowTypeOK, Phase, BusyPhase
  <2>4. CASE RecordStarted(w)
    BY <2>4 DEF RecordStarted, EventCode, Phase, BusyPhase, TryPhase
  <2>5. CASE InvokeCompletes(w)
    BY <2>5 DEF InvokeCompletes, RowTypeOK, LogTypeOK, Phase, BusyPhase, TryPhase
  <2>6. ASSUME NEW code \in FailureClass, InvokeFails(w, code) PROVE TypeOK'
    BY <2>6 DEF InvokeFails, GoTo, RowTypeOK, LogTypeOK, SlotTypeOK, Phase, BusyPhase, TryPhase
  <2>7. ASSUME NEW code \in FailureClass, InvokeRejects(w, code) PROVE TypeOK'
    BY <2>7 DEF InvokeRejects, RowTypeOK, LogTypeOK
  <2>8. CASE CompleteRun(w)
    BY <2>8 DEF CompleteRun, RowTypeOK, LogTypeOK, Terminal, FailureClass, Phase, BusyPhase, TryPhase
  <2>9. CASE RecordCompleted(w)
    BY <2>9 DEF RecordCompleted, EventCode
  <2>10. CASE ScheduleRunRetry(w)
    <3>1. job[w] \in Runs
      BY <2>10 DEF ScheduleRunRetry, RetryAllowed, Fenced
    <3>2. RowTypeOK' /\ LogTypeOK' /\ crashes' \in Nat
      BY <2>10, <3>1 DEF ScheduleRunRetry, RowTypeOK, LogTypeOK, Status, Waiting
    <3> QED
      BY <2>10, <3>2 DEF ScheduleRunRetry, Phase, BusyPhase, TryPhase
  <2>11. CASE NoRetry(w)
    BY <2>11 DEF NoRetry, RowTypeOK, LogTypeOK, Phase, BusyPhase, TryPhase
  <2>12. CASE RecordRetrying(w)
    BY <2>12 DEF RecordRetrying, EventCode
  <2>13. CASE RecordTerminalFailure(w)
    BY <2>13 DEF RecordTerminalFailure, RowTypeOK, LogTypeOK, Terminal, FailureClass,
                 Phase, BusyPhase, TryPhase
  <2>14. CASE RecordFailed(w)
    BY <2>14 DEF RecordFailed, EventCode
  <2>15. CASE CompleteCancelledRun(w)
    <3>1. RowTypeOK' /\ LogTypeOK' /\ crashes' \in Nat
      BY <2>15 DEF CompleteCancelledRun, RowTypeOK, LogTypeOK, Status, Terminal
    <3> QED
      BY <2>15, <3>1 DEF CompleteCancelledRun, Phase, BusyPhase, TryPhase
  <2>16. CASE RecordCancelled(w)
    BY <2>16 DEF RecordCancelled, EventCode
  <2>17. CASE FailExhaustedRuns(w)
    <3>1. RowTypeOK' /\ LogTypeOK' /\ crashes' \in Nat
      BY <2>17 DEF FailExhaustedRuns, RowTypeOK, LogTypeOK, Status, Terminal
    <3> QED
      BY <2>17, <3>1 DEF FailExhaustedRuns, Phase
  <2>18. CASE FinalizeAbandonedCancellations(w)
    <3>1. RowTypeOK' /\ LogTypeOK' /\ crashes' \in Nat
      BY <2>18 DEF FinalizeAbandonedCancellations, RowTypeOK, LogTypeOK, Status, Terminal
    <3> QED
      BY <2>18, <3>1 DEF FinalizeAbandonedCancellations, Phase
  <2>19. CASE StatementFails(w)
    BY <2>19 DEF StatementFails, RowTypeOK, LogTypeOK, FailureClass
  <2> QED
    BY <1>2, <2>1, <2>2, <2>3, <2>4, <2>5, <2>6, <2>7, <2>8, <2>9, <2>10, <2>11,
       <2>12, <2>13, <2>14, <2>15, <2>16, <2>17, <2>18, <2>19
    DEF SlotStep, ClaimAny
<1>3. ASSUME NEW w \in Slots, Heartbeat(w) PROVE TypeOK'
  <2>1. CASE RenewLease(w)
    BY <1>3, <2>1 DEF RenewLease, RowTypeOK, LogTypeOK, SlotTypeOK
  <2>2. CASE ReadCancellation(w)
    BY <1>3, <2>2 DEF ReadCancellation, RowTypeOK, LogTypeOK, SlotTypeOK
  <2> QED
    BY <1>3, <2>1, <2>2 DEF Heartbeat
<1>4. ASSUME NEW w \in Slots, Crash(w) PROVE TypeOK'
  BY <1>4 DEF Crash, GoTo, ClearSlot, RowTypeOK, LogTypeOK, SlotTypeOK, Phase, FailureClass, Attempts
<1>5. ASSUME NEW w \in Slots, Restart(w) PROVE TypeOK'
  BY <1>5, LeaveType DEF Restart, RowTypeOK, LogTypeOK
<1>6. CASE UNCHANGED vars
  BY <1>6 DEF vars, RowTypeOK, LogTypeOK, SlotTypeOK
<1> QED
  BY <1>1, <1>2, <1>3, <1>4, <1>5, <1>6 DEF Next

\* Every variable stays in its range, so no run is attempted more often than
\* attempt_limit allows, whatever the number of runs, slots, crashes and requests.
THEOREM TypeCorrect == Spec => []TypeOK
<1>1. Init => TypeOK
  BY DEF Init, TypeOK, RowTypeOK, LogTypeOK, SlotTypeOK, Status, Attempts, Phase, FailureClass
<1> QED
  BY <1>1, TypeStep, PTL DEF Spec

-----------------------------------------------------------------------------
(* What one step may do to one row, and to the claims the slots hold.  The   *)
(* invariants below are proved from these eight effects, not from the        *)
(* twenty-seven actions.                                                     *)

SameMark(r) == (r \in cancelMark') <=> (r \in cancelMark)
SameCounters(r) == epoch'[r] = epoch[r] /\ attempt'[r] = attempt[r] /\ SameMark(r)

RowKept(r)    == status'[r] = status[r] /\ SameCounters(r)
RowCreated(r) == status[r] = "absent" /\ status'[r] = "queued" /\ SameCounters(r)
RowClaimed(r) ==
  /\ Claimable(r)
  /\ status'[r] = "running"
  /\ epoch'[r] = epoch[r] + 1
  /\ attempt'[r] = attempt[r] + 1
  /\ SameMark(r)
RowRequested(r) ==
  /\ status[r] \in Waiting \cup {"running"}
  /\ status'[r] = IF status[r] = "running" THEN "running" ELSE "cancelled"
  /\ epoch'[r] = epoch[r] + 1
  /\ attempt'[r] = attempt[r]
  /\ r \in cancelMark'
RowSettled(r) ==
  /\ \E w \in Slots : job[w] = r /\ Fenced(w) /\ phase'[w] # phase[w]
  /\ status'[r] \in {"completed", "failed", "denied"}
  /\ SameCounters(r)
RowReleased(r) ==
  /\ \E w \in Slots : job[w] = r /\ Fenced(w) /\ phase'[w] # phase[w]
  /\ status'[r] = "retrying"
  /\ attempt[r] < AttemptLimit
  /\ SameCounters(r)
RowAcknowledged(r) ==
  /\ status[r] = "running"
  /\ r \in cancelMark
  /\ status'[r] = "cancelled"
  /\ SameCounters(r)
RowExhausted(r) ==
  /\ status[r] \in Waiting
  /\ attempt[r] >= AttemptLimit
  /\ status'[r] = "failed"
  /\ SameCounters(r)

RowEffect(r) ==
  \/ RowKept(r) \/ RowCreated(r) \/ RowClaimed(r) \/ RowRequested(r)
  \/ RowSettled(r) \/ RowReleased(r) \/ RowAcknowledged(r) \/ RowExhausted(r)

ClaimKept(w) ==
  /\ job'[w] = job[w]
  /\ heldEpoch'[w] = heldEpoch[w]
  /\ heldAttempt'[w] = heldAttempt[w]
ClaimDropped(w) == job'[w] = NoRun
ClaimTaken(w) ==
  \E r \in Runs :
    /\ job'[w] = r
    /\ heldEpoch'[w] = epoch[r] + 1
    /\ heldAttempt'[w] = attempt[r] + 1
    /\ RowClaimed(r)
    /\ \A v \in Slots \ {w} : ClaimKept(v)

ClaimEffect(w) == ClaimKept(w) \/ ClaimDropped(w) \/ ClaimTaken(w)

\* Every step has one of the eight effects on each row.
LEMMA RowEffects ==
  ASSUME TypeOK, [Next]_vars, NEW r \in Runs
  PROVE  RowEffect(r)
<1> USE DEF TypeOK, RowTypeOK, SlotTypeOK, rowVars, logVars, slotVars, Waiting,
            RowEffect, SameMark, SameCounters, RowKept, RowCreated, RowClaimed, RowRequested,
            RowSettled, RowReleased, RowAcknowledged, RowExhausted
<1>1. ASSUME NEW q \in Runs, CreateRun(q) PROVE RowEffect(r)
  BY <1>1 DEF CreateRun
<1>2. ASSUME NEW q \in Runs, RequestRunCancellation(q) PROVE RowEffect(r)
  BY <1>2 DEF RequestRunCancellation
<1>3. ASSUME NEW q \in Runs, LeaseExpires(q) PROVE RowEffect(r)
  BY <1>3 DEF LeaseExpires
<1>4. ASSUME NEW q \in Runs, BackoffElapses(q) PROVE RowEffect(r)
  BY <1>4 DEF BackoffElapses
<1>5. ASSUME NEW w \in Slots, NEW q \in Runs, ClaimRun(w, q) PROVE RowEffect(r)
  BY <1>5 DEF ClaimRun, Claimable, GoTo
<1>6. ASSUME NEW w \in Slots, ClaimNothing(w) PROVE RowEffect(r)
  BY <1>6 DEF ClaimNothing, NotWorked, GoTo, ClearSlot
<1>7. ASSUME NEW w \in Slots, BindRunTrace(w) PROVE RowEffect(r)
  BY <1>7 DEF BindRunTrace, NotWorked, GoTo, ClearSlot, Proceed, Fenced
<1>8. ASSUME NEW w \in Slots, RecordStarted(w) PROVE RowEffect(r)
  BY <1>8 DEF RecordStarted, AppendEvent, Proceed, GoTo
<1>9. ASSUME NEW w \in Slots, InvokeCompletes(w) PROVE RowEffect(r)
  BY <1>9 DEF InvokeCompletes, Proceed, GoTo
<1>10. ASSUME NEW w \in Slots, NEW code \in FailureClass, InvokeFails(w, code) PROVE RowEffect(r)
  BY <1>10 DEF InvokeFails, GoTo
<1>11. ASSUME NEW w \in Slots, NEW code \in FailureClass, InvokeRejects(w, code) PROVE RowEffect(r)
  BY <1>11 DEF InvokeRejects, Throw, NotWorked, Worked, GoTo, ClearSlot
<1>12. ASSUME NEW w \in Slots, CompleteRun(w) PROVE RowEffect(r)
  BY <1>12 DEF CompleteRun, WriteTerminal, Fenced, Proceed, Throw, NotWorked, Worked, GoTo, ClearSlot
<1>13. ASSUME NEW w \in Slots, RecordCompleted(w) PROVE RowEffect(r)
  BY <1>13 DEF RecordCompleted, AppendEvent, Worked, GoTo, ClearSlot
<1>14. ASSUME NEW w \in Slots, ScheduleRunRetry(w) PROVE RowEffect(r)
  BY <1>14 DEF ScheduleRunRetry, RetryAllowed, Fenced, Proceed, GoTo
<1>15. ASSUME NEW w \in Slots, NoRetry(w) PROVE RowEffect(r)
  BY <1>15 DEF NoRetry, Proceed, GoTo
<1>16. ASSUME NEW w \in Slots, RecordRetrying(w) PROVE RowEffect(r)
  BY <1>16 DEF RecordRetrying, AppendEvent, Worked, GoTo, ClearSlot
<1>17. ASSUME NEW w \in Slots, RecordTerminalFailure(w) PROVE RowEffect(r)
  BY <1>17 DEF RecordTerminalFailure, WriteTerminal, Fenced, Proceed, Throw, NotWorked, Worked, GoTo, ClearSlot
<1>18. ASSUME NEW w \in Slots, RecordFailed(w) PROVE RowEffect(r)
  BY <1>18 DEF RecordFailed, AppendEvent, Worked, GoTo, ClearSlot
<1>19. ASSUME NEW w \in Slots, CompleteCancelledRun(w) PROVE RowEffect(r)
  BY <1>19 DEF CompleteCancelledRun, Proceed, GoTo
<1>20. ASSUME NEW w \in Slots, RecordCancelled(w) PROVE RowEffect(r)
  BY <1>20 DEF RecordCancelled, AppendEvent, Worked, GoTo, ClearSlot
<1>21. ASSUME NEW w \in Slots, FailExhaustedRuns(w) PROVE RowEffect(r)
  BY <1>21 DEF FailExhaustedRuns, Proceed, GoTo
<1>22. ASSUME NEW w \in Slots, FinalizeAbandonedCancellations(w) PROVE RowEffect(r)
  BY <1>22 DEF FinalizeAbandonedCancellations, Abandoned, Proceed, GoTo
<1>23. ASSUME NEW w \in Slots, StatementFails(w) PROVE RowEffect(r)
  BY <1>23 DEF StatementFails, Throw, NotWorked, Worked, GoTo, ClearSlot
<1>24. ASSUME NEW w \in Slots, RenewLease(w) PROVE RowEffect(r)
  BY <1>24 DEF RenewLease, Fenced
<1>25. ASSUME NEW w \in Slots, ReadCancellation(w) PROVE RowEffect(r)
  BY <1>25 DEF ReadCancellation
<1>26. ASSUME NEW w \in Slots, Crash(w) PROVE RowEffect(r)
  BY <1>26 DEF Crash, GoTo, ClearSlot
<1>27. ASSUME NEW w \in Slots, Restart(w) PROVE RowEffect(r)
  BY <1>27 DEF Restart, Worked, GoTo, ClearSlot
<1>28. CASE UNCHANGED vars
  BY <1>28 DEF vars
<1> QED
  BY <1>1, <1>2, <1>3, <1>4, <1>5, <1>6, <1>7, <1>8, <1>9, <1>10, <1>11, <1>12, <1>13, <1>14, <1>15, <1>16, <1>17, <1>18, <1>19, <1>20, <1>21, <1>22, <1>23, <1>24, <1>25, <1>26, <1>27, <1>28
  DEF Next, RunStep, SlotStep, ClaimAny, Heartbeat

\* Every step keeps, drops or takes the claim of each slot.
LEMMA ClaimEffects ==
  ASSUME TypeOK, [Next]_vars, NEW v \in Slots
  PROVE  ClaimEffect(v)
<1> USE DEF TypeOK, RowTypeOK, SlotTypeOK, rowVars, logVars, slotVars,
            ClaimEffect, ClaimKept, ClaimDropped
<1>1. ASSUME NEW q \in Runs, CreateRun(q) PROVE ClaimEffect(v)
  BY <1>1 DEF CreateRun
<1>2. ASSUME NEW q \in Runs, RequestRunCancellation(q) PROVE ClaimEffect(v)
  BY <1>2 DEF RequestRunCancellation
<1>3. ASSUME NEW q \in Runs, LeaseExpires(q) PROVE ClaimEffect(v)
  BY <1>3 DEF LeaseExpires
<1>4. ASSUME NEW q \in Runs, BackoffElapses(q) PROVE ClaimEffect(v)
  BY <1>4 DEF BackoffElapses
<1>5. ASSUME NEW w \in Slots, NEW q \in Runs, ClaimRun(w, q) PROVE ClaimEffect(v)
  BY <1>5 DEF ClaimRun, Claimable, GoTo, ClaimTaken, RowClaimed, SameMark
<1>6. ASSUME NEW w \in Slots, ClaimNothing(w) PROVE ClaimEffect(v)
  BY <1>6 DEF ClaimNothing, NotWorked, GoTo, ClearSlot
<1>7. ASSUME NEW w \in Slots, BindRunTrace(w) PROVE ClaimEffect(v)
  BY <1>7 DEF BindRunTrace, NotWorked, GoTo, ClearSlot, Proceed, Fenced
<1>8. ASSUME NEW w \in Slots, RecordStarted(w) PROVE ClaimEffect(v)
  BY <1>8 DEF RecordStarted, AppendEvent, Proceed, GoTo
<1>9. ASSUME NEW w \in Slots, InvokeCompletes(w) PROVE ClaimEffect(v)
  BY <1>9 DEF InvokeCompletes, Proceed, GoTo
<1>10. ASSUME NEW w \in Slots, NEW code \in FailureClass, InvokeFails(w, code) PROVE ClaimEffect(v)
  BY <1>10 DEF InvokeFails, GoTo
<1>11. ASSUME NEW w \in Slots, NEW code \in FailureClass, InvokeRejects(w, code) PROVE ClaimEffect(v)
  BY <1>11 DEF InvokeRejects, Throw, NotWorked, Worked, GoTo, ClearSlot
<1>12. ASSUME NEW w \in Slots, CompleteRun(w) PROVE ClaimEffect(v)
  BY <1>12 DEF CompleteRun, WriteTerminal, Fenced, Proceed, Throw, NotWorked, Worked, GoTo, ClearSlot
<1>13. ASSUME NEW w \in Slots, RecordCompleted(w) PROVE ClaimEffect(v)
  BY <1>13 DEF RecordCompleted, AppendEvent, Worked, GoTo, ClearSlot
<1>14. ASSUME NEW w \in Slots, ScheduleRunRetry(w) PROVE ClaimEffect(v)
  BY <1>14 DEF ScheduleRunRetry, RetryAllowed, Fenced, Proceed, GoTo
<1>15. ASSUME NEW w \in Slots, NoRetry(w) PROVE ClaimEffect(v)
  BY <1>15 DEF NoRetry, Proceed, GoTo
<1>16. ASSUME NEW w \in Slots, RecordRetrying(w) PROVE ClaimEffect(v)
  BY <1>16 DEF RecordRetrying, AppendEvent, Worked, GoTo, ClearSlot
<1>17. ASSUME NEW w \in Slots, RecordTerminalFailure(w) PROVE ClaimEffect(v)
  BY <1>17 DEF RecordTerminalFailure, WriteTerminal, Fenced, Proceed, Throw, NotWorked, Worked, GoTo, ClearSlot
<1>18. ASSUME NEW w \in Slots, RecordFailed(w) PROVE ClaimEffect(v)
  BY <1>18 DEF RecordFailed, AppendEvent, Worked, GoTo, ClearSlot
<1>19. ASSUME NEW w \in Slots, CompleteCancelledRun(w) PROVE ClaimEffect(v)
  BY <1>19 DEF CompleteCancelledRun, Proceed, GoTo
<1>20. ASSUME NEW w \in Slots, RecordCancelled(w) PROVE ClaimEffect(v)
  BY <1>20 DEF RecordCancelled, AppendEvent, Worked, GoTo, ClearSlot
<1>21. ASSUME NEW w \in Slots, FailExhaustedRuns(w) PROVE ClaimEffect(v)
  BY <1>21 DEF FailExhaustedRuns, Proceed, GoTo
<1>22. ASSUME NEW w \in Slots, FinalizeAbandonedCancellations(w) PROVE ClaimEffect(v)
  BY <1>22 DEF FinalizeAbandonedCancellations, Abandoned, Proceed, GoTo
<1>23. ASSUME NEW w \in Slots, StatementFails(w) PROVE ClaimEffect(v)
  BY <1>23 DEF StatementFails, Throw, NotWorked, Worked, GoTo, ClearSlot
<1>24. ASSUME NEW w \in Slots, RenewLease(w) PROVE ClaimEffect(v)
  BY <1>24 DEF RenewLease, Fenced
<1>25. ASSUME NEW w \in Slots, ReadCancellation(w) PROVE ClaimEffect(v)
  BY <1>25 DEF ReadCancellation
<1>26. ASSUME NEW w \in Slots, Crash(w) PROVE ClaimEffect(v)
  BY <1>26 DEF Crash, GoTo, ClearSlot
<1>27. ASSUME NEW w \in Slots, Restart(w) PROVE ClaimEffect(v)
  BY <1>27 DEF Restart, Worked, GoTo, ClearSlot
<1>28. CASE UNCHANGED vars
  BY <1>28 DEF vars
<1> QED
  BY <1>1, <1>2, <1>3, <1>4, <1>5, <1>6, <1>7, <1>8, <1>9, <1>10, <1>11, <1>12, <1>13, <1>14, <1>15, <1>16, <1>17, <1>18, <1>19, <1>20, <1>21, <1>22, <1>23, <1>24, <1>25, <1>26, <1>27, <1>28
  DEF Next, RunStep, SlotStep, ClaimAny, Heartbeat

-----------------------------------------------------------------------------
(* The inductive invariant *)

\* What a slot holds is never ahead of the row: counters only grow.
LEMMA HeldStep == IInv /\ [Next]_vars =>
  \A w \in Slots : job'[w] # NoRun =>
    heldEpoch'[w] <= epoch'[job'[w]] /\ heldAttempt'[w] <= attempt'[job'[w]]
<1> SUFFICES ASSUME IInv, [Next]_vars, NEW w \in Slots, job'[w] # NoRun
             PROVE  heldEpoch'[w] <= epoch'[job'[w]] /\ heldAttempt'[w] <= attempt'[job'[w]]
  OBVIOUS
<1> USE DEF IInv, TypeOK, RowTypeOK, SlotTypeOK, Attempts
<1>1. ClaimEffect(w)
  BY ClaimEffects
<1>2. CASE ClaimKept(w)
  <2>1. RowEffect(job[w]) /\ job[w] \in Runs
    BY <1>2, RowEffects DEF ClaimKept
  <2>2. epoch[job[w]] <= epoch'[job[w]] /\ attempt[job[w]] <= attempt'[job[w]]
    BY <2>1 DEF RowEffect, RowKept, RowCreated, RowClaimed, RowRequested, RowSettled,
                RowReleased, RowAcknowledged, RowExhausted, SameCounters
  <2>3. epoch'[job[w]] \in Nat /\ attempt'[job[w]] \in Nat
    BY <2>1, TypeStep
  <2> QED
    BY <1>2, <2>1, <2>2, <2>3 DEF ClaimKept, HeldIsPast
<1>3. CASE ClaimTaken(w)
  BY <1>3 DEF ClaimTaken, RowClaimed
<1> QED
  BY <1>1, <1>2, <1>3 DEF ClaimEffect, ClaimDropped

\* A slot is busy exactly when it has a job.
LEMMA BusyStep == IInv /\ [Next]_vars =>
  \A w \in Slots : phase'[w] \in BusyPhase <=> job'[w] # NoRun
<1> SUFFICES ASSUME IInv, [Next]_vars, NEW v \in Slots
             PROVE  phase'[v] \in BusyPhase <=> job'[v] # NoRun
  OBVIOUS
<1> USE DEF IInv, TypeOK, SlotTypeOK, rowVars, logVars, slotVars, HeldIsPast, BusyPhase, TryPhase
<1>1. ASSUME NEW q \in Runs, CreateRun(q) PROVE phase'[v] \in BusyPhase <=> job'[v] # NoRun
  BY <1>1 DEF CreateRun
<1>2. ASSUME NEW q \in Runs, RequestRunCancellation(q) PROVE phase'[v] \in BusyPhase <=> job'[v] # NoRun
  BY <1>2 DEF RequestRunCancellation
<1>3. ASSUME NEW q \in Runs, LeaseExpires(q) PROVE phase'[v] \in BusyPhase <=> job'[v] # NoRun
  BY <1>3 DEF LeaseExpires
<1>4. ASSUME NEW q \in Runs, BackoffElapses(q) PROVE phase'[v] \in BusyPhase <=> job'[v] # NoRun
  BY <1>4 DEF BackoffElapses
<1>5. ASSUME NEW w \in Slots, NEW q \in Runs, ClaimRun(w, q) PROVE phase'[v] \in BusyPhase <=> job'[v] # NoRun
  BY <1>5 DEF ClaimRun, Claimable, GoTo
<1>6. ASSUME NEW w \in Slots, ClaimNothing(w) PROVE phase'[v] \in BusyPhase <=> job'[v] # NoRun
  BY <1>6 DEF ClaimNothing, NotWorked, GoTo, ClearSlot
<1>7. ASSUME NEW w \in Slots, BindRunTrace(w) PROVE phase'[v] \in BusyPhase <=> job'[v] # NoRun
  BY <1>7 DEF BindRunTrace, NotWorked, GoTo, ClearSlot, Proceed, Fenced
<1>8. ASSUME NEW w \in Slots, RecordStarted(w) PROVE phase'[v] \in BusyPhase <=> job'[v] # NoRun
  BY <1>8 DEF RecordStarted, AppendEvent, Proceed, GoTo
<1>9. ASSUME NEW w \in Slots, InvokeCompletes(w) PROVE phase'[v] \in BusyPhase <=> job'[v] # NoRun
  BY <1>9 DEF InvokeCompletes, Proceed, GoTo
<1>10. ASSUME NEW w \in Slots, NEW code \in FailureClass, InvokeFails(w, code) PROVE phase'[v] \in BusyPhase <=> job'[v] # NoRun
  BY <1>10 DEF InvokeFails, GoTo
<1>11. ASSUME NEW w \in Slots, NEW code \in FailureClass, InvokeRejects(w, code) PROVE phase'[v] \in BusyPhase <=> job'[v] # NoRun
  BY <1>11 DEF InvokeRejects, Throw, NotWorked, Worked, GoTo, ClearSlot
<1>12. ASSUME NEW w \in Slots, CompleteRun(w) PROVE phase'[v] \in BusyPhase <=> job'[v] # NoRun
  BY <1>12 DEF CompleteRun, WriteTerminal, Fenced, Proceed, Throw, NotWorked, Worked, GoTo, ClearSlot
<1>13. ASSUME NEW w \in Slots, RecordCompleted(w) PROVE phase'[v] \in BusyPhase <=> job'[v] # NoRun
  BY <1>13 DEF RecordCompleted, AppendEvent, Worked, GoTo, ClearSlot
<1>14. ASSUME NEW w \in Slots, ScheduleRunRetry(w) PROVE phase'[v] \in BusyPhase <=> job'[v] # NoRun
  BY <1>14 DEF ScheduleRunRetry, RetryAllowed, Fenced, Proceed, GoTo
<1>15. ASSUME NEW w \in Slots, NoRetry(w) PROVE phase'[v] \in BusyPhase <=> job'[v] # NoRun
  BY <1>15 DEF NoRetry, Proceed, GoTo
<1>16. ASSUME NEW w \in Slots, RecordRetrying(w) PROVE phase'[v] \in BusyPhase <=> job'[v] # NoRun
  BY <1>16 DEF RecordRetrying, AppendEvent, Worked, GoTo, ClearSlot
<1>17. ASSUME NEW w \in Slots, RecordTerminalFailure(w) PROVE phase'[v] \in BusyPhase <=> job'[v] # NoRun
  BY <1>17 DEF RecordTerminalFailure, WriteTerminal, Fenced, Proceed, Throw, NotWorked, Worked, GoTo, ClearSlot
<1>18. ASSUME NEW w \in Slots, RecordFailed(w) PROVE phase'[v] \in BusyPhase <=> job'[v] # NoRun
  BY <1>18 DEF RecordFailed, AppendEvent, Worked, GoTo, ClearSlot
<1>19. ASSUME NEW w \in Slots, CompleteCancelledRun(w) PROVE phase'[v] \in BusyPhase <=> job'[v] # NoRun
  BY <1>19 DEF CompleteCancelledRun, Proceed, GoTo
<1>20. ASSUME NEW w \in Slots, RecordCancelled(w) PROVE phase'[v] \in BusyPhase <=> job'[v] # NoRun
  BY <1>20 DEF RecordCancelled, AppendEvent, Worked, GoTo, ClearSlot
<1>21. ASSUME NEW w \in Slots, FailExhaustedRuns(w) PROVE phase'[v] \in BusyPhase <=> job'[v] # NoRun
  BY <1>21 DEF FailExhaustedRuns, Proceed, GoTo
<1>22. ASSUME NEW w \in Slots, FinalizeAbandonedCancellations(w) PROVE phase'[v] \in BusyPhase <=> job'[v] # NoRun
  BY <1>22 DEF FinalizeAbandonedCancellations, Abandoned, Proceed, GoTo
<1>23. ASSUME NEW w \in Slots, StatementFails(w) PROVE phase'[v] \in BusyPhase <=> job'[v] # NoRun
  BY <1>23 DEF StatementFails, Throw, NotWorked, Worked, GoTo, ClearSlot
<1>24. ASSUME NEW w \in Slots, RenewLease(w) PROVE phase'[v] \in BusyPhase <=> job'[v] # NoRun
  BY <1>24 DEF RenewLease, Fenced
<1>25. ASSUME NEW w \in Slots, ReadCancellation(w) PROVE phase'[v] \in BusyPhase <=> job'[v] # NoRun
  BY <1>25 DEF ReadCancellation
<1>26. ASSUME NEW w \in Slots, Crash(w) PROVE phase'[v] \in BusyPhase <=> job'[v] # NoRun
  BY <1>26 DEF Crash, GoTo, ClearSlot
<1>27. ASSUME NEW w \in Slots, Restart(w) PROVE phase'[v] \in BusyPhase <=> job'[v] # NoRun
  BY <1>27 DEF Restart, Worked, GoTo, ClearSlot
<1>28. CASE UNCHANGED vars
  BY <1>28 DEF vars
<1> QED
  BY <1>1, <1>2, <1>3, <1>4, <1>5, <1>6, <1>7, <1>8, <1>9, <1>10, <1>11, <1>12, <1>13, <1>14, <1>15, <1>16, <1>17, <1>18, <1>19, <1>20, <1>21, <1>22, <1>23, <1>24, <1>25, <1>26, <1>27, <1>28
  DEF Next, RunStep, SlotStep, ClaimAny, Heartbeat

\* Claiming and cancelling advance the fence past every other holder.
LEMMA FenceStep == IInv /\ [Next]_vars => FenceIsLatest'
<1> SUFFICES ASSUME IInv, [Next]_vars, NEW w \in Slots, job'[w] # NoRun,
                    heldEpoch'[w] = epoch'[job'[w]]
             PROVE  heldAttempt'[w] = attempt'[job'[w]] /\ job'[w] \notin cancelMark'
  BY DEF FenceIsLatest
<1> USE DEF IInv, TypeOK, RowTypeOK, SlotTypeOK, Attempts
<1>1. ClaimEffect(w)
  BY ClaimEffects
<1>2. CASE ClaimKept(w)
  <2>1. RowEffect(job[w]) /\ job[w] \in Runs
    BY <1>2, RowEffects DEF ClaimKept
  <2>2. heldEpoch[w] <= epoch[job[w]] /\ heldEpoch[w] = epoch'[job[w]]
    BY <1>2 DEF ClaimKept, HeldIsPast
  <2>3. SameCounters(job[w])
    BY <2>1, <2>2 DEF RowEffect, RowKept, RowCreated, RowClaimed, RowRequested, RowSettled,
                      RowReleased, RowAcknowledged, RowExhausted
  <2> QED
    BY <1>2, <2>2, <2>3 DEF ClaimKept, SameCounters, SameMark, FenceIsLatest
<1>3. CASE ClaimTaken(w)
  BY <1>3 DEF ClaimTaken, RowClaimed, SameMark, Claimable
<1> QED
  BY <1>1, <1>2, <1>3 DEF ClaimEffect, ClaimDropped

\* The fence in the WHERE clauses is enough to carry authority.
LEMMA FenceAuthority == IInv => FenceImpliesAuthority
BY DEF IInv, FenceIsLatest, FenceImpliesAuthority, Fenced

\* The row facts: a fresh row is unused, cancellation wins, waiting runs have budget.
LEMMA RowStep == IInv /\ [Next]_vars =>
  AbsentIsFresh' /\ CancellationIsFinal' /\ WaitingRunHasBudget'
<1> SUFFICES ASSUME IInv, [Next]_vars, NEW r \in Runs
             PROVE  /\ status'[r] = "absent" => attempt'[r] = 0
                    /\ r \in cancelMark' => status'[r] \in {"running", "cancelled"}
                    /\ status'[r] \in Waiting => attempt'[r] < AttemptLimit
  BY DEF AbsentIsFresh, CancellationIsFinal, WaitingRunHasBudget
<1> USE DEF IInv, TypeOK, RowTypeOK, Attempts, Status, Waiting, Terminal,
            AbsentIsFresh, CancellationIsFinal, WaitingRunHasBudget, SameCounters, SameMark
<1>1. RowEffect(r)
  BY RowEffects
<1>2. \A w \in Slots : job[w] = r /\ Fenced(w) => r \notin cancelMark /\ status[r] = "running"
  BY FenceAuthority DEF FenceImpliesAuthority, Fenced
<1>3. CASE RowKept(r) \/ RowCreated(r)
  BY <1>3 DEF RowKept, RowCreated
<1>4. CASE RowClaimed(r)
  BY <1>4 DEF RowClaimed, Claimable
<1>5. CASE RowRequested(r)
  BY <1>5 DEF RowRequested
<1>6. CASE RowSettled(r) \/ RowReleased(r)
  BY <1>2, <1>6 DEF RowSettled, RowReleased
<1>7. CASE RowAcknowledged(r)
  BY <1>7 DEF RowAcknowledged
<1>8. CASE RowExhausted(r)
  BY <1>8 DEF RowExhausted
<1> QED
  BY <1>1, <1>3, <1>4, <1>5, <1>6, <1>7, <1>8 DEF RowEffect

\* Two slots never hold the same attempt: a claim takes a number nobody holds.
LEMMA ExecutorStep == IInv /\ [Next]_vars => OneExecutorPerAttempt'
<1> SUFFICES ASSUME IInv, [Next]_vars, NEW w \in Slots, NEW v \in Slots, w # v,
                    job'[w] = job'[v], job'[w] # NoRun
             PROVE  heldAttempt'[w] # heldAttempt'[v] /\ heldEpoch'[w] # heldEpoch'[v]
  BY DEF OneExecutorPerAttempt
<1> USE DEF IInv, TypeOK, RowTypeOK, SlotTypeOK, Attempts, HeldIsPast
<1>1. ClaimEffect(w) /\ ClaimEffect(v)
  BY ClaimEffects
<1>2. CASE ClaimKept(w) /\ ClaimKept(v)
  BY <1>2 DEF ClaimKept, OneExecutorPerAttempt
<1>3. CASE ClaimTaken(w)
  <2>1. PICK r \in Runs : /\ job'[w] = r
                          /\ heldEpoch'[w] = epoch[r] + 1
                          /\ heldAttempt'[w] = attempt[r] + 1
    BY <1>3 DEF ClaimTaken
  <2>2. ClaimKept(v)
    BY <1>3 DEF ClaimTaken
  <2>3. heldEpoch[v] <= epoch[r] /\ heldAttempt[v] <= attempt[r]
    BY <2>1, <2>2 DEF ClaimKept
  <2> QED
    BY <2>1, <2>2, <2>3 DEF ClaimKept
<1>4. CASE ClaimTaken(v)
  <2>1. PICK r \in Runs : /\ job'[v] = r
                          /\ heldEpoch'[v] = epoch[r] + 1
                          /\ heldAttempt'[v] = attempt[r] + 1
    BY <1>4 DEF ClaimTaken
  <2>2. ClaimKept(w)
    BY <1>4 DEF ClaimTaken
  <2>3. heldEpoch[w] <= epoch[r] /\ heldAttempt[w] <= attempt[r]
    BY <2>1, <2>2 DEF ClaimKept
  <2> QED
    BY <2>1, <2>2, <2>3 DEF ClaimKept
<1> QED
  BY <1>1, <1>2, <1>3, <1>4 DEF ClaimEffect, ClaimDropped

\* No effect but the empty one applies to a terminal row.
LEMMA TerminalStep ==
  ASSUME IInv, [Next]_vars, NEW r \in Runs, status[r] \in Terminal
  PROVE  RowKept(r)
<1>1. RowEffect(r)
  BY RowEffects DEF IInv
<1> QED
  BY <1>1 DEF RowEffect, RowCreated, RowClaimed, RowRequested, RowSettled, RowReleased,
              RowAcknowledged, RowExhausted, Claimable, Waiting, Terminal, Fenced

\* Cancellation marks and trace links are never removed.
LEMMA LogsGrow ==
  ASSUME IInv, [Next]_vars
  PROVE  cancelMark \subseteq cancelMark' /\ \A r \in Runs : traceLink[r] \subseteq traceLink'[r]
<1>1. cancelMark \subseteq cancelMark'
  <2> SUFFICES ASSUME NEW r \in Runs, r \in cancelMark PROVE r \in cancelMark'
    BY DEF IInv, TypeOK, RowTypeOK
  <2>1. RowEffect(r)
    BY RowEffects DEF IInv
  <2> QED
    BY <2>1 DEF RowEffect, RowKept, RowCreated, RowClaimed, RowRequested, RowSettled,
                RowReleased, RowAcknowledged, RowExhausted, SameCounters, SameMark
<1>2. ASSUME NEW r \in Runs, NEW w \in Slots, BindRunTrace(w) PROVE traceLink[r] \subseteq traceLink'[r]
  BY <1>2 DEF BindRunTrace, IInv, TypeOK, LogTypeOK
<1>3. (\A w \in Slots : ~BindRunTrace(w)) => UNCHANGED traceLink
  BY DEF Next, RunStep, SlotStep, ClaimAny, Heartbeat, vars, logVars,
         CreateRun, RequestRunCancellation, LeaseExpires, BackoffElapses, ClaimRun, ClaimNothing,
         RecordStarted, InvokeCompletes, InvokeFails, InvokeRejects, CompleteRun, RecordCompleted,
         ScheduleRunRetry, NoRetry, RecordRetrying, RecordTerminalFailure, RecordFailed,
         CompleteCancelledRun, RecordCancelled, FailExhaustedRuns, FinalizeAbandonedCancellations,
         StatementFails, RenewLease, ReadCancellation, Crash, Restart, AppendEvent
<1> QED
  BY <1>1, <1>2, <1>3

\* PhaseFacts for one slot.
PhaseFactsOf(w) ==
  /\ phase[w] \in TryPhase \cup {"bound"} => heldAttempt[w] \in traceLink[job[w]]
  /\ w \in cancelSeen \/ phase[w] \in {"cancelling", "cancelEvent"} =>
       job[w] # NoRun /\ job[w] \in cancelMark
  /\ phase[w] = "completedEvent" => status[job[w]] = "completed"
  /\ phase[w] = "failEvent" => status[job[w]] \in {"failed", "denied"}
  /\ phase[w] = "cancelEvent" => status[job[w]] = "cancelled"

\* What a slot has made true before a statement stays true until it executes it.
LEMMA PhaseStep == IInv /\ [Next]_vars => PhaseFacts'
<1> SUFFICES ASSUME IInv, [Next]_vars, NEW v \in Slots PROVE PhaseFactsOf(v)'
  BY DEF PhaseFacts, PhaseFactsOf
<1>0. /\ job[v] \in Runs /\ status[job[v]] \in Terminal => status'[job[v]] = status[job[v]]
      /\ cancelMark \subseteq cancelMark'
      /\ job[v] \in Runs => traceLink[job[v]] \subseteq traceLink'[job[v]]
      /\ phase[v] \in BusyPhase <=> job[v] \in Runs
  BY TerminalStep, LogsGrow DEF RowKept, IInv, TypeOK, SlotTypeOK, HeldIsPast
<1> USE <1>0 DEF IInv, TypeOK, RowTypeOK, LogTypeOK, SlotTypeOK, rowVars, logVars, slotVars,
                 PhaseFacts, PhaseFactsOf, BusyPhase, TryPhase, Terminal
<1>1. ASSUME NEW q \in Runs, CreateRun(q) PROVE PhaseFactsOf(v)'
  BY <1>1 DEF CreateRun
<1>2. ASSUME NEW q \in Runs, RequestRunCancellation(q) PROVE PhaseFactsOf(v)'
  BY <1>2 DEF RequestRunCancellation
<1>3. ASSUME NEW q \in Runs, LeaseExpires(q) PROVE PhaseFactsOf(v)'
  BY <1>3 DEF LeaseExpires
<1>4. ASSUME NEW q \in Runs, BackoffElapses(q) PROVE PhaseFactsOf(v)'
  BY <1>4 DEF BackoffElapses
<1>5. ASSUME NEW w \in Slots, NEW q \in Runs, ClaimRun(w, q) PROVE PhaseFactsOf(v)'
  BY <1>5 DEF ClaimRun, Claimable, GoTo
<1>6. ASSUME NEW w \in Slots, ClaimNothing(w) PROVE PhaseFactsOf(v)'
  BY <1>6 DEF ClaimNothing, NotWorked, GoTo, ClearSlot
<1>7. ASSUME NEW w \in Slots, BindRunTrace(w) PROVE PhaseFactsOf(v)'
  BY <1>7 DEF BindRunTrace, NotWorked, GoTo, ClearSlot, Proceed, Fenced
<1>8. ASSUME NEW w \in Slots, RecordStarted(w) PROVE PhaseFactsOf(v)'
  BY <1>8 DEF RecordStarted, AppendEvent, Proceed, GoTo
<1>9. ASSUME NEW w \in Slots, InvokeCompletes(w) PROVE PhaseFactsOf(v)'
  BY <1>9 DEF InvokeCompletes, Proceed, GoTo
<1>10. ASSUME NEW w \in Slots, NEW code \in FailureClass, InvokeFails(w, code) PROVE PhaseFactsOf(v)'
  BY <1>10 DEF InvokeFails, GoTo
<1>11. ASSUME NEW w \in Slots, NEW code \in FailureClass, InvokeRejects(w, code) PROVE PhaseFactsOf(v)'
  BY <1>11 DEF InvokeRejects, Throw, NotWorked, Worked, GoTo, ClearSlot
<1>12. ASSUME NEW w \in Slots, CompleteRun(w) PROVE PhaseFactsOf(v)'
  BY <1>12 DEF CompleteRun, WriteTerminal, Fenced, Proceed, Throw, NotWorked, Worked, GoTo, ClearSlot
<1>13. ASSUME NEW w \in Slots, RecordCompleted(w) PROVE PhaseFactsOf(v)'
  BY <1>13 DEF RecordCompleted, AppendEvent, Worked, GoTo, ClearSlot
<1>14. ASSUME NEW w \in Slots, ScheduleRunRetry(w) PROVE PhaseFactsOf(v)'
  BY <1>14 DEF ScheduleRunRetry, RetryAllowed, Fenced, Proceed, GoTo
<1>15. ASSUME NEW w \in Slots, NoRetry(w) PROVE PhaseFactsOf(v)'
  BY <1>15 DEF NoRetry, Proceed, GoTo
<1>16. ASSUME NEW w \in Slots, RecordRetrying(w) PROVE PhaseFactsOf(v)'
  BY <1>16 DEF RecordRetrying, AppendEvent, Worked, GoTo, ClearSlot
<1>17. ASSUME NEW w \in Slots, RecordTerminalFailure(w) PROVE PhaseFactsOf(v)'
  BY <1>17 DEF RecordTerminalFailure, WriteTerminal, Fenced, Proceed, Throw, NotWorked, Worked, GoTo, ClearSlot
<1>18. ASSUME NEW w \in Slots, RecordFailed(w) PROVE PhaseFactsOf(v)'
  BY <1>18 DEF RecordFailed, AppendEvent, Worked, GoTo, ClearSlot
<1>19. ASSUME NEW w \in Slots, CompleteCancelledRun(w) PROVE PhaseFactsOf(v)'
  BY <1>19 DEF CompleteCancelledRun, Proceed, GoTo, CancellationIsFinal
<1>20. ASSUME NEW w \in Slots, RecordCancelled(w) PROVE PhaseFactsOf(v)'
  BY <1>20 DEF RecordCancelled, AppendEvent, Worked, GoTo, ClearSlot
<1>21. ASSUME NEW w \in Slots, FailExhaustedRuns(w) PROVE PhaseFactsOf(v)'
  BY <1>21 DEF FailExhaustedRuns, Proceed, GoTo
<1>22. ASSUME NEW w \in Slots, FinalizeAbandonedCancellations(w) PROVE PhaseFactsOf(v)'
  BY <1>22 DEF FinalizeAbandonedCancellations, Abandoned, Proceed, GoTo
<1>23. ASSUME NEW w \in Slots, StatementFails(w) PROVE PhaseFactsOf(v)'
  BY <1>23 DEF StatementFails, Throw, NotWorked, Worked, GoTo, ClearSlot
<1>24. ASSUME NEW w \in Slots, RenewLease(w) PROVE PhaseFactsOf(v)'
  BY <1>24 DEF RenewLease, Fenced
<1>25. ASSUME NEW w \in Slots, ReadCancellation(w) PROVE PhaseFactsOf(v)'
  BY <1>25 DEF ReadCancellation
<1>26. ASSUME NEW w \in Slots, Crash(w) PROVE PhaseFactsOf(v)'
  BY <1>26 DEF Crash, GoTo, ClearSlot
<1>27. ASSUME NEW w \in Slots, Restart(w) PROVE PhaseFactsOf(v)'
  BY <1>27 DEF Restart, Worked, GoTo, ClearSlot
<1>28. CASE UNCHANGED vars
  BY <1>28 DEF vars
<1> QED
  BY <1>1, <1>2, <1>3, <1>4, <1>5, <1>6, <1>7, <1>8, <1>9, <1>10, <1>11, <1>12, <1>13, <1>14, <1>15, <1>16, <1>17, <1>18, <1>19, <1>20, <1>21, <1>22, <1>23, <1>24, <1>25, <1>26, <1>27, <1>28
  DEF Next, RunStep, SlotStep, ClaimAny, Heartbeat

\* The event a slot in each of the five recording phases appends.
Appends(w, e) ==
  /\ e[1] = heldAttempt[w]
  /\ \/ phase[w] = "bound" /\ e[2] = "started"
     \/ phase[w] = "completedEvent" /\ e[2] = "completed"
     \/ phase[w] = "retryEvent" /\ e[2] = "retrying"
     \/ phase[w] = "failEvent" /\ e[2] = "failed"
     \/ phase[w] = "cancelEvent" /\ e[2] = "cancelled"

\* A step adds to a journal only the event its slot's phase calls for.
LEMMA JournalEffects ==
  ASSUME IInv, [Next]_vars, NEW r \in Runs, NEW e \in journal'[r]
  PROVE  e \in journal[r] \/ \E w \in Slots : job[w] = r /\ Appends(w, e)
<1> DEFINE Recorded == e \in journal[r] \/ \E w \in Slots : job[w] = r /\ Appends(w, e)
<1> SUFFICES Recorded
  OBVIOUS
<1>1. ASSUME NEW w \in Slots, NEW code \in EventCode, AppendEvent(w, code)
      PROVE  e \in journal[r] \/ (job[w] = r /\ e = <<heldAttempt[w], code>>)
  BY <1>1 DEF AppendEvent, IInv, TypeOK, LogTypeOK
<1>2. ASSUME NEW w \in Slots, RecordStarted(w) PROVE Recorded
  BY <1>1, <1>2 DEF RecordStarted, Appends, EventCode
<1>3. ASSUME NEW w \in Slots, RecordCompleted(w) PROVE Recorded
  BY <1>1, <1>3 DEF RecordCompleted, Appends, EventCode
<1>4. ASSUME NEW w \in Slots, RecordRetrying(w) PROVE Recorded
  BY <1>1, <1>4 DEF RecordRetrying, Appends, EventCode
<1>5. ASSUME NEW w \in Slots, RecordFailed(w) PROVE Recorded
  BY <1>1, <1>5 DEF RecordFailed, Appends, EventCode
<1>6. ASSUME NEW w \in Slots, RecordCancelled(w) PROVE Recorded
  BY <1>1, <1>6 DEF RecordCancelled, Appends, EventCode
<1>7. \/ UNCHANGED journal
      \/ \E w \in Slots : \/ RecordStarted(w) \/ RecordCompleted(w) \/ RecordRetrying(w)
                          \/ RecordFailed(w) \/ RecordCancelled(w)
  BY DEF Next, RunStep, SlotStep, ClaimAny, Heartbeat, vars, logVars,
         CreateRun, RequestRunCancellation, LeaseExpires, BackoffElapses, ClaimRun, ClaimNothing,
         BindRunTrace, InvokeCompletes, InvokeFails, InvokeRejects, CompleteRun,
         ScheduleRunRetry, NoRetry, RecordTerminalFailure,
         CompleteCancelledRun, FailExhaustedRuns, FinalizeAbandonedCancellations,
         StatementFails, RenewLease, ReadCancellation, Crash, Restart
<1> QED
  BY <1>2, <1>3, <1>4, <1>5, <1>6, <1>7

\* So the journal keeps telling what the row says.
LEMMA JournalStep == IInv /\ [Next]_vars => JournalAgreesWithRow'
<1> SUFFICES ASSUME IInv, [Next]_vars, NEW r \in Runs, NEW e \in journal'[r]
             PROVE  /\ e[2] = "completed" => status'[r] = "completed"
                    /\ e[2] = "failed"    => status'[r] \in {"failed", "denied"}
                    /\ e[2] = "cancelled" => status'[r] = "cancelled"
                    /\ e[1] \in traceLink'[r]
  BY DEF JournalAgreesWithRow
<1>1. status[r] \in Terminal => status'[r] = status[r]
  BY TerminalStep DEF RowKept
<1>2. traceLink[r] \subseteq traceLink'[r]
  BY LogsGrow
<1>3. CASE e \in journal[r]
  BY <1>1, <1>2, <1>3 DEF IInv, JournalAgreesWithRow, Terminal
<1>4. CASE \E w \in Slots : job[w] = r /\ Appends(w, e)
  <2>1. PICK w \in Slots : job[w] = r /\ Appends(w, e)
    BY <1>4
  <2> QED
    BY <1>1, <1>2, <2>1 DEF Appends, IInv, PhaseFacts, Terminal, TryPhase
<1> QED
  BY <1>3, <1>4, JournalEffects

\* The inductive invariant holds initially,
LEMMA InvInit == Init => IInv
<1> SUFFICES ASSUME Init PROVE IInv
  OBVIOUS
<1>1. TypeOK
  BY DEF Init, TypeOK, RowTypeOK, LogTypeOK, SlotTypeOK, Status, Attempts, Phase, FailureClass
<1> QED
  BY <1>1 DEF Init, IInv, HeldIsPast, FenceIsLatest, AbsentIsFresh, CancellationIsFinal,
              WaitingRunHasBudget, OneExecutorPerAttempt, PhaseFacts, JournalAgreesWithRow,
              BusyPhase, TryPhase, Waiting

\* and every step preserves it.
LEMMA InvStep == IInv /\ [Next]_vars => IInv'
<1> SUFFICES ASSUME IInv, [Next]_vars PROVE IInv'
  OBVIOUS
<1>1. TypeOK'
  BY TypeStep DEF IInv
<1>2. HeldIsPast'
  BY HeldStep, BusyStep DEF HeldIsPast
<1> QED
  BY <1>1, <1>2, FenceStep, RowStep, ExecutorStep, PhaseStep, JournalStep DEF IInv

-----------------------------------------------------------------------------
(* Theorems *)

\* The inductive invariant holds throughout: what slots remember is never ahead of
\* the row, an equal fence means the latest attempt of an uncancelled run, and the
\* row and journal facts that follow.
THEOREM Invariance == Spec => []IInv
BY InvInit, InvStep, PTL DEF Spec

\* Whoever passes the fence of a run executes its latest attempt, and nobody has
\* asked to cancel the run.
THEOREM FencingIsSound == Spec => []FenceImpliesAuthority
<1>1. IInv => FenceImpliesAuthority
  BY FenceAuthority DEF IInv
<1> QED
  BY <1>1, Invariance, PTL

\* Two slots never execute the same attempt of a run, although leases expire while
\* their holders go on, and claims are raced and retried.
THEOREM AttemptsAreNotShared == Spec => []OneExecutorPerAttempt
<1>1. IInv => OneExecutorPerAttempt
  BY DEF IInv
<1> QED
  BY <1>1, Invariance, PTL

\* After a cancellation request a run is running or cancelled, for ever.
THEOREM CancellationWins == Spec => []CancellationIsFinal
<1>1. IInv => CancellationIsFinal
  BY DEF IInv
<1> QED
  BY <1>1, Invariance, PTL

\* failExhaustedRuns has no run to act on.
THEOREM NoExhaustedRunWaits == Spec => []WaitingRunHasBudget
<1>1. IInv => WaitingRunHasBudget
  BY DEF IInv
<1> QED
  BY <1>1, Invariance, PTL

\* The unfenced journal never contradicts the fenced row.
THEOREM JournalIsHonest == Spec => []JournalAgreesWithRow
<1>1. IInv => JournalAgreesWithRow
  BY DEF IInv
<1> QED
  BY <1>1, Invariance, PTL

\* No step reopens or relabels a terminal run.
THEOREM TerminalStays == Spec => TerminalIsFinal
<1>1. IInv /\ [Next]_vars =>
        [\A r \in Runs : status[r] \in Terminal =>
           /\ status'[r] = status[r]
           /\ attempt'[r] = attempt[r]
           /\ epoch'[r] = epoch[r]
           /\ (r \in cancelMark') <=> (r \in cancelMark)]_vars
  BY TerminalStep DEF RowKept, SameCounters, SameMark
<1> QED
  BY <1>1, Invariance, PTL DEF Spec, TerminalIsFinal

\* Only the slot that holds the fence, or a requested cancellation, ends the
\* execution of a run.
THEOREM AuthoritySettles == Spec => OnlyAuthoritySettles
<1>1. IInv /\ [Next]_vars =>
        [\A r \in Runs : status[r] = "running" /\ status'[r] # "running" =>
           \/ r \in cancelMark /\ status'[r] = "cancelled"
           \/ \E w \in Slots : job[w] = r /\ Fenced(w) /\ phase'[w] # phase[w]]_vars
  <2> SUFFICES ASSUME IInv, [Next]_vars, NEW r \in Runs, status[r] = "running", status'[r] # "running"
               PROVE  \/ r \in cancelMark /\ status'[r] = "cancelled"
                      \/ \E w \in Slots : job[w] = r /\ Fenced(w) /\ phase'[w] # phase[w]
    OBVIOUS
  <2>1. RowEffect(r)
    BY RowEffects DEF IInv
  <2> QED
    BY <2>1 DEF RowEffect, RowKept, RowCreated, RowClaimed, RowRequested, RowSettled, RowReleased,
                RowAcknowledged, RowExhausted, Waiting
<1> QED
  BY <1>1, Invariance, PTL DEF Spec, OnlyAuthoritySettles

-----------------------------------------------------------------------------
(* Refinement of RunLifecycle *)

OneRowChanges == \E r \in Runs : \A q \in Runs \ {r} : RowKept(q)
SweepEffect   == \A r \in Runs : RowKept(r) \/ RowAcknowledged(r)

\* A step changes one row, or is a sweep of abandoned cancellations.
LEMMA StepShape ==
  ASSUME IInv, [Next]_vars
  PROVE  OneRowChanges \/ SweepEffect
<1> DEFINE Shape == OneRowChanges \/ SweepEffect
<1> SUFFICES Shape
  OBVIOUS
<1> USE DEF IInv, TypeOK, RowTypeOK, SlotTypeOK, rowVars, logVars, slotVars, OneRowChanges, SweepEffect,
            RowKept, RowAcknowledged, SameCounters, SameMark
<1>1. ASSUME NEW q \in Runs, CreateRun(q) PROVE Shape
  BY <1>1 DEF CreateRun
<1>2. ASSUME NEW q \in Runs, RequestRunCancellation(q) PROVE Shape
  BY <1>2 DEF RequestRunCancellation
<1>3. ASSUME NEW q \in Runs, LeaseExpires(q) PROVE Shape
  BY <1>3 DEF LeaseExpires
<1>4. ASSUME NEW q \in Runs, BackoffElapses(q) PROVE Shape
  BY <1>4 DEF BackoffElapses
<1>5. ASSUME NEW w \in Slots, NEW q \in Runs, ClaimRun(w, q) PROVE Shape
  BY <1>5 DEF ClaimRun, Claimable, GoTo
<1>6. ASSUME NEW w \in Slots, ClaimNothing(w) PROVE Shape
  BY <1>6 DEF ClaimNothing, NotWorked, GoTo, ClearSlot
<1>7. ASSUME NEW w \in Slots, BindRunTrace(w) PROVE Shape
  BY <1>7 DEF BindRunTrace, NotWorked, GoTo, ClearSlot, Proceed, Fenced
<1>8. ASSUME NEW w \in Slots, RecordStarted(w) PROVE Shape
  BY <1>8 DEF RecordStarted, AppendEvent, Proceed, GoTo
<1>9. ASSUME NEW w \in Slots, InvokeCompletes(w) PROVE Shape
  BY <1>9 DEF InvokeCompletes, Proceed, GoTo
<1>10. ASSUME NEW w \in Slots, NEW code \in FailureClass, InvokeFails(w, code) PROVE Shape
  BY <1>10 DEF InvokeFails, GoTo
<1>11. ASSUME NEW w \in Slots, NEW code \in FailureClass, InvokeRejects(w, code) PROVE Shape
  BY <1>11 DEF InvokeRejects, Throw, NotWorked, Worked, GoTo, ClearSlot
<1>12. ASSUME NEW w \in Slots, CompleteRun(w) PROVE Shape
  BY <1>12 DEF CompleteRun, WriteTerminal, Fenced, Proceed, Throw, NotWorked, Worked, GoTo, ClearSlot
<1>13. ASSUME NEW w \in Slots, RecordCompleted(w) PROVE Shape
  BY <1>13 DEF RecordCompleted, AppendEvent, Worked, GoTo, ClearSlot
<1>14. ASSUME NEW w \in Slots, ScheduleRunRetry(w) PROVE Shape
  BY <1>14 DEF ScheduleRunRetry, RetryAllowed, Fenced, Proceed, GoTo
<1>15. ASSUME NEW w \in Slots, NoRetry(w) PROVE Shape
  BY <1>15 DEF NoRetry, Proceed, GoTo
<1>16. ASSUME NEW w \in Slots, RecordRetrying(w) PROVE Shape
  BY <1>16 DEF RecordRetrying, AppendEvent, Worked, GoTo, ClearSlot
<1>17. ASSUME NEW w \in Slots, RecordTerminalFailure(w) PROVE Shape
  BY <1>17 DEF RecordTerminalFailure, WriteTerminal, Fenced, Proceed, Throw, NotWorked, Worked, GoTo, ClearSlot
<1>18. ASSUME NEW w \in Slots, RecordFailed(w) PROVE Shape
  BY <1>18 DEF RecordFailed, AppendEvent, Worked, GoTo, ClearSlot
<1>19. ASSUME NEW w \in Slots, CompleteCancelledRun(w) PROVE Shape
  BY <1>19 DEF CompleteCancelledRun, Proceed, GoTo
<1>20. ASSUME NEW w \in Slots, RecordCancelled(w) PROVE Shape
  BY <1>20 DEF RecordCancelled, AppendEvent, Worked, GoTo, ClearSlot
<1>21. ASSUME NEW w \in Slots, FailExhaustedRuns(w) PROVE Shape
  BY <1>21 DEF FailExhaustedRuns, Proceed, GoTo, WaitingRunHasBudget, Attempts
<1>22. ASSUME NEW w \in Slots, FinalizeAbandonedCancellations(w) PROVE Shape
  BY <1>22 DEF FinalizeAbandonedCancellations, Abandoned, Proceed, GoTo
<1>23. ASSUME NEW w \in Slots, StatementFails(w) PROVE Shape
  BY <1>23 DEF StatementFails, Throw, NotWorked, Worked, GoTo, ClearSlot
<1>24. ASSUME NEW w \in Slots, RenewLease(w) PROVE Shape
  BY <1>24 DEF RenewLease, Fenced
<1>25. ASSUME NEW w \in Slots, ReadCancellation(w) PROVE Shape
  BY <1>25 DEF ReadCancellation
<1>26. ASSUME NEW w \in Slots, Crash(w) PROVE Shape
  BY <1>26 DEF Crash, GoTo, ClearSlot
<1>27. ASSUME NEW w \in Slots, Restart(w) PROVE Shape
  BY <1>27 DEF Restart, Worked, GoTo, ClearSlot
<1>28. CASE UNCHANGED vars
  BY <1>28 DEF vars
<1> QED
  BY <1>1, <1>2, <1>3, <1>4, <1>5, <1>6, <1>7, <1>8, <1>9, <1>10, <1>11, <1>12, <1>13, <1>14, <1>15, <1>16, <1>17, <1>18, <1>19, <1>20, <1>21, <1>22, <1>23, <1>24, <1>25, <1>26, <1>27, <1>28
  DEF Next, RunStep, SlotStep, ClaimAny, Heartbeat

\* Every step is a step of RunLifecycle under the mapping, or a stutter.
LEMMA LifecycleStep ==
  ASSUME IInv, [Next]_vars
  PROVE  [Lifecycle!LifecycleNext]_(Lifecycle!lifecycleVars)
<1> DEFINE stage == [r \in Runs |-> StageOf(status[r])]
<1>0. /\ cancelMark \subseteq Runs /\ cancelMark' \subseteq Runs
      /\ attempt \in [Runs -> Nat] /\ attempt' \in [Runs -> Nat]
      /\ stage' = [r \in Runs |-> StageOf(status'[r])]
      /\ \A r \in Runs : stage[r] = StageOf(status[r])
      /\ \A r \in Runs : stage'[r] = StageOf(status'[r])
  BY TypeStep DEF IInv, TypeOK, RowTypeOK, Attempts
<1>1. CASE SweepEffect
  <2> DEFINE S == {r \in Runs : status[r] = "running" /\ status'[r] = "cancelled"}
  <2>1. \A r \in S : stage[r] = "executing" /\ r \in cancelMark
    BY <1>1, <1>0 DEF SweepEffect, RowKept, RowAcknowledged, StageOf, Waiting
  <2>2. stage' = [r \in Runs |-> IF r \in S THEN "cancelled" ELSE stage[r]]
    BY <1>1, <1>0 DEF SweepEffect, RowKept, RowAcknowledged, StageOf, Waiting
  <2>3. cancelMark' = cancelMark /\ attempt' = attempt
    BY <1>1, <1>0 DEF SweepEffect, RowKept, RowAcknowledged, SameCounters, SameMark
  <2>4. S \in SUBSET Runs
    OBVIOUS
  <2>5. Lifecycle!AcknowledgeStops(S)
    BY <2>1, <2>2, <2>3 DEF Lifecycle!AcknowledgeStops
  <2> QED
    BY <2>4, <2>5 DEF Lifecycle!LifecycleNext
<1>2. CASE OneRowChanges
  <2>1. PICK r \in Runs : \A q \in Runs \ {r} : RowKept(q)
    BY <1>2 DEF OneRowChanges
  <2>2. RowEffect(r)
    BY RowEffects DEF IInv
  <2>3. \A q \in Runs \ {r} :
          /\ stage'[q] = stage[q]
          /\ attempt'[q] = attempt[q]
          /\ (q \in cancelMark') <=> (q \in cancelMark)
    BY <2>1, <1>0 DEF RowKept, SameCounters, SameMark
  <2>4. \A x : stage'[r] = x => stage' = [stage EXCEPT ![r] = x]
    BY <2>3, <1>0
  <2>5. SameCounters(r) => cancelMark' = cancelMark /\ attempt' = attempt
    BY <2>3, <1>0 DEF SameCounters, SameMark
  <2>6. CASE RowKept(r)
    <3>1. stage' = stage
      BY <2>3, <2>6, <1>0 DEF RowKept
    <3> QED
      BY <2>5, <2>6, <3>1 DEF RowKept, Lifecycle!lifecycleVars
  <2>7. CASE RowCreated(r)
    <3>1. stage[r] = "absent" /\ stage' = [stage EXCEPT ![r] = "waiting"]
      BY <2>4, <2>7, <1>0 DEF RowCreated, StageOf, Waiting
    <3>2. Lifecycle!Submit(r)
      BY <2>5, <2>7, <3>1 DEF RowCreated, Lifecycle!Submit
    <3> QED
      BY <3>2 DEF Lifecycle!LifecycleNext
  <2>8. CASE RowClaimed(r)
    <3>1. stage[r] \in {"waiting", "executing"} /\ stage' = [stage EXCEPT ![r] = "executing"]
      BY <2>4, <2>8, <1>0 DEF RowClaimed, Claimable, StageOf, Waiting
    <3>2. cancelMark' = cancelMark /\ attempt' = [attempt EXCEPT ![r] = @ + 1]
      BY <2>3, <2>8, <1>0 DEF RowClaimed, SameMark
    <3>3. Lifecycle!StartAttempt(r)
      BY <2>8, <3>1, <3>2 DEF RowClaimed, Claimable, Lifecycle!StartAttempt
    <3> QED
      BY <3>3 DEF Lifecycle!LifecycleNext
  <2>9. CASE RowRequested(r)
    <3>1. stage[r] \in {"waiting", "executing"}
          /\ stage' = [stage EXCEPT ![r] = IF @ = "waiting" THEN "cancelled" ELSE @]
      BY <2>4, <2>9, <1>0 DEF RowRequested, StageOf, Waiting
    <3>2. cancelMark' = cancelMark \cup {r} /\ attempt' = attempt
      BY <2>3, <2>9, <1>0 DEF RowRequested
    <3>3. Lifecycle!RequestStop(r)
      BY <3>1, <3>2 DEF Lifecycle!RequestStop
    <3> QED
      BY <3>3 DEF Lifecycle!LifecycleNext
  <2>10. ASSUME NEW w \in Slots, job[w] = r, Fenced(w)
         PROVE  stage[r] = "executing" /\ r \notin cancelMark
    BY <2>10, <1>0, FenceAuthority DEF FenceImpliesAuthority, Fenced, StageOf, Waiting
  <2>11. CASE RowSettled(r)
    <3>1. stage[r] = "executing" /\ r \notin cancelMark
      BY <2>10, <2>11 DEF RowSettled
    <3>2. PICK outcome \in {"completed", "failed", "denied"} : status'[r] = outcome
      BY <2>11 DEF RowSettled
    <3>3. stage' = [stage EXCEPT ![r] = outcome]
      BY <2>4, <3>2, <1>0 DEF StageOf, Waiting
    <3>4. Lifecycle!Settle(r)
      BY <2>5, <2>11, <3>1, <3>3 DEF RowSettled, Lifecycle!Settle, Lifecycle!Outcome
    <3> QED
      BY <3>4 DEF Lifecycle!LifecycleNext
  <2>12. CASE RowReleased(r)
    <3>1. stage[r] = "executing" /\ r \notin cancelMark
      BY <2>10, <2>12 DEF RowReleased
    <3>2. stage' = [stage EXCEPT ![r] = "waiting"]
      BY <2>4, <2>12, <1>0 DEF RowReleased, StageOf, Waiting
    <3>3. Lifecycle!ReleaseForRetry(r)
      BY <2>5, <2>12, <3>1, <3>2 DEF RowReleased, Lifecycle!ReleaseForRetry
    <3> QED
      BY <3>3 DEF Lifecycle!LifecycleNext
  <2>13. CASE RowAcknowledged(r)
    <3>1. SweepEffect
      BY <2>1, <2>13 DEF SweepEffect
    <3> QED
      BY <1>1, <3>1
  <2>14. CASE RowExhausted(r)
    BY <2>14 DEF RowExhausted, IInv, WaitingRunHasBudget, TypeOK, RowTypeOK, Attempts
  <2> QED
    BY <2>2, <2>6, <2>7, <2>8, <2>9, <2>11, <2>12, <2>13, <2>14 DEF RowEffect
<1> QED
  BY <1>1, <1>2, StepShape

\* The ledger with its fences, leases, dispatchers, heartbeats, sweeps and
\* crashes implements the run lifecycle: bounded attempts, one outcome, and
\* cancellation that nothing overtakes.
THEOREM RefinesLifecycle == Spec => ImplementsLifecycle
<1>1. Init => Lifecycle!LifecycleInit
  BY DEF Init, Lifecycle!LifecycleInit, StageOf, Waiting
<1>2. IInv /\ [Next]_vars => [Lifecycle!LifecycleNext]_(Lifecycle!lifecycleVars)
  BY LifecycleStep
<1> QED
  BY <1>1, <1>2, Invariance, PTL DEF Spec, ImplementsLifecycle, Lifecycle!LifecycleSpec
=============================================================================
