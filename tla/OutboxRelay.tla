----------------------------- MODULE OutboxRelay -----------------------------
(***************************************************************************)
(* The outbox relays of the case service                                   *)
(* (packages/case-store/src/outbox-relay.ts, started by every case-api     *)
(* process) over the two outbox tables that case transactions fill.        *)
(*                                                                         *)
(* A relay's pass is a sequence of statements: claim a batch, hand it to   *)
(* the sink outside any transaction, mark it, first for the case table and *)
(* then for the evidence table; then age out published rows.  Other relays *)
(* run between any two of them, and a claim becomes eligible again when it *)
(* is older than claimTimeoutMs, whether or not its relay is still alive.  *)
(* Rows are numbered in the order of created_at.                           *)
(***************************************************************************)
EXTENDS Naturals, FiniteSets

CONSTANTS
  Relays,
  CaseRows,       \* rows of the ledger's outbox, numbered by created_at
  EvidenceRows,   \* rows of the evidence outbox
  BatchSize,
  MaxFaults,      \* bound on failures, crashes and claims overtaken by their timeout
  NoClaim

ASSUME RowAssumption ==
  /\ CaseRows \subseteq Nat
  /\ EvidenceRows \subseteq Nat
  /\ CaseRows \cap EvidenceRows = {}
ASSUME BatchAssumption == BatchSize \in Nat \ {0}
\* Every case-api process starts one relay.
ASSUME RelayAssumption == IsFiniteSet(Relays)
ASSUME FaultAssumption == MaxFaults \in Nat
ASSUME ClaimAssumption == NoClaim \notin Nat

Rows == CaseRows \cup EvidenceRows

VARIABLES
  row,        \* "absent", "pending", "published" or "purged"
  publishClaim, \* publish_claim_id
  stale,      \* rows whose publish_claimed_at is older than the timeout
  attempts,   \* publish_attempts
  nextClaim,  \* randomUUID: never handed out twice
  at,         \* the statement a relay executes next
  table,      \* the table its pass is at
  batch,      \* the records it holds
  claimId,    \* the id it claimed them with
  faults,
  delivered,  \* history: how often the sink accepted a row
  reopened    \* history: how often a claimed row became claimable again

rowVars   == <<row, publishClaim, stale, attempts>>
relayVars == <<at, table, batch, claimId>>
allRelayVars == <<rowVars, nextClaim, relayVars, faults, delivered, reopened>>

RowState  == {"absent", "pending", "published", "purged"}
Statement == {"idle", "claim", "publish", "mark", "release", "purge"}
Table     == {"case", "evidence"}

RowsOf(t) == IF t = "case" THEN CaseRows ELSE EvidenceRows

RelayTypeOK ==
  /\ row \in [Rows -> RowState]
  /\ publishClaim \in [Rows -> Nat \cup {NoClaim}]
  /\ stale \subseteq Rows
  /\ attempts \in [Rows -> Nat]
  /\ nextClaim \in Nat
  /\ at \in [Relays -> Statement]
  /\ table \in [Relays -> Table]
  /\ batch \in [Relays -> SUBSET Rows]
  /\ claimId \in [Relays -> Nat \cup {NoClaim}]
  /\ faults \in 0..MaxFaults
  /\ delivered \in [Rows -> Nat]
  /\ reopened \in [Rows -> Nat]

RelayInit ==
  /\ row = [e \in Rows |-> "absent"]
  /\ publishClaim = [e \in Rows |-> NoClaim]
  /\ stale = {}
  /\ attempts = [e \in Rows |-> 0]
  /\ nextClaim = 0
  /\ at = [r \in Relays |-> "idle"]
  /\ table = [r \in Relays |-> "case"]
  /\ batch = [r \in Relays |-> {}]
  /\ claimId = [r \in Relays |-> NoClaim]
  /\ faults = 0
  /\ delivered = [e \in Rows |-> 0]
  /\ reopened = [e \in Rows |-> 0]

-----------------------------------------------------------------------------
(* The case service and the clock *)

\* A case or evidence transaction commits its outbox row; created_at was taken
\* earlier, so rows may appear in another order than theirs.
CommitEvent(e) ==
  /\ row[e] = "absent"
  /\ row' = [row EXCEPT ![e] = "pending"]
  /\ UNCHANGED <<publishClaim, stale, attempts, nextClaim, relayVars, faults, delivered, reopened>>

Held(e) == \E r \in Relays : at[r] # "idle" /\ e \in batch[r] /\ claimId[r] = publishClaim[e]

\* The bound counts only the claims that overtake a relay still at work.
ClaimTimesOut(e) ==
  /\ publishClaim[e] # NoClaim
  /\ e \notin stale
  /\ Held(e) => faults < MaxFaults
  /\ faults' = IF Held(e) THEN faults + 1 ELSE faults
  /\ stale' = stale \cup {e}
  /\ reopened' = [reopened EXCEPT ![e] = @ + 1]
  /\ UNCHANGED <<row, publishClaim, attempts, nextClaim, relayVars, delivered>>

-----------------------------------------------------------------------------
(* One pass of a relay *)

Enter(r, s, t, b, c) ==
  /\ at' = [at EXCEPT ![r] = s]
  /\ table' = [table EXCEPT ![r] = t]
  /\ batch' = [batch EXCEPT ![r] = b]
  /\ claimId' = [claimId EXCEPT ![r] = c]

Proceed(r, s) == Enter(r, s, table[r], batch[r], claimId[r])

\* The loop over the two tables, then purgePublished over the same two.
NextTable(r) ==
  IF table[r] = "case" THEN Enter(r, "claim", "evidence", {}, NoClaim)
                       ELSE Enter(r, "purge", "case", {}, NoClaim)

EndPass(r) == Enter(r, "idle", "case", {}, NoClaim)

\* The interval timer fires; `draining` keeps a relay to one pass at a time.
StartPass(r) ==
  /\ at[r] = "idle"
  /\ Proceed(r, "claim")
  /\ UNCHANGED <<rowVars, nextClaim, faults, delivered, reopened>>

\* Mutants of the claim's WHERE clause: claims are not looked at; claims never
\* time out.
ClaimableThoughClaimed(e) == row[e] = "pending"
ClaimableIfFree(e) == row[e] = "pending" /\ publishClaim[e] = NoClaim

Claimable(e) == row[e] = "pending" /\ (publishClaim[e] = NoClaim \/ e \in stale)

Oldest(S) == {e \in S : Cardinality({f \in S : f < e}) < BatchSize}

\* The oldest eligible rows that no other statement has locked.
ClaimBatch(r, locked) ==
  /\ at[r] = "claim"
  /\ LET chosen == Oldest({e \in RowsOf(table[r]) : Claimable(e)} \ locked)
     IN /\ chosen # {}
        /\ publishClaim' = [e \in Rows |-> IF e \in chosen THEN nextClaim ELSE publishClaim[e]]
        /\ stale' = stale \ chosen
        /\ attempts' = [e \in Rows |-> IF e \in chosen THEN attempts[e] + 1 ELSE attempts[e]]
        /\ Enter(r, "publish", table[r], chosen, nextClaim)
  /\ nextClaim' = nextClaim + 1
  /\ UNCHANGED <<row, faults, delivered, reopened>>

NothingToClaim(r, locked) ==
  /\ at[r] = "claim"
  /\ {e \in RowsOf(table[r]) : Claimable(e)} \subseteq locked
  /\ NextTable(r)
  /\ UNCHANGED <<rowVars, nextClaim, faults, delivered, reopened>>

Deliver(S) == delivered' = [e \in Rows |-> IF e \in S THEN delivered[e] + 1 ELSE delivered[e]]

PublishBatch(r) ==
  /\ at[r] = "publish"
  /\ Deliver(batch[r])
  /\ Proceed(r, "mark")
  /\ UNCHANGED <<rowVars, nextClaim, faults, reopened>>

Mine(r, e) == e \in batch[r] /\ publishClaim[e] = claimId[r]

MarkPublished(r) ==
  /\ at[r] = "mark"
  /\ row' = [e \in Rows |-> IF Mine(r, e) THEN "published" ELSE row[e]]
  /\ publishClaim' = [e \in Rows |-> IF Mine(r, e) THEN NoClaim ELSE publishClaim[e]]
  /\ stale' = {e \in stale : ~Mine(r, e)}
  /\ NextTable(r)
  /\ UNCHANGED <<attempts, nextClaim, faults, delivered, reopened>>

\* The catch block gives the claim back and the pass ends with the error: the
\* evidence table is not visited when the case table's batch failed.
ReleaseClaim(r) ==
  /\ at[r] = "release"
  /\ publishClaim' = [e \in Rows |-> IF publishClaim[e] = claimId[r] THEN NoClaim ELSE publishClaim[e]]
  /\ stale' = {e \in stale : publishClaim[e] # claimId[r]}
  /\ reopened' = [e \in Rows |-> IF publishClaim[e] = claimId[r] /\ e \notin stale
                                 THEN reopened[e] + 1 ELSE reopened[e]]
  /\ EndPass(r)
  /\ UNCHANGED <<row, attempts, nextClaim, faults, delivered>>

\* Which published rows are older than retentionDays is left open, so this
\* covers retention switched off (none) as well.
PurgePublished(r, aged) ==
  /\ at[r] = "purge"
  /\ aged \subseteq {e \in RowsOf(table[r]) : row[e] = "published"}
  /\ row' = [e \in Rows |-> IF e \in aged THEN "purged" ELSE row[e]]
  /\ IF table[r] = "case" THEN Enter(r, "purge", "evidence", {}, NoClaim) ELSE EndPass(r)
  /\ UNCHANGED <<publishClaim, stale, attempts, nextClaim, faults, delivered, reopened>>

-----------------------------------------------------------------------------
(* Faults *)

Fault == faults < MaxFaults /\ faults' = faults + 1

\* Mutant: the sink's rejection is swallowed and the batch is marked.
PublishFailsUnnoticed(r, accepted) ==
  /\ at[r] = "publish"
  /\ Fault
  /\ accepted \subseteq batch[r]
  /\ Deliver(accepted)
  /\ Proceed(r, "mark")
  /\ UNCHANGED <<rowVars, nextClaim, reopened>>

\* The sink rejects after it may have accepted some of the records.
PublishFails(r, accepted) ==
  /\ at[r] = "publish"
  /\ Fault
  /\ accepted \subseteq batch[r]
  /\ Deliver(accepted)
  /\ Proceed(r, "release")
  /\ UNCHANGED <<rowVars, nextClaim, reopened>>

\* The mark rejects although the sink accepted the batch.
MarkFails(r) ==
  /\ at[r] = "mark"
  /\ Fault
  /\ Proceed(r, "release")
  /\ UNCHANGED <<rowVars, nextClaim, delivered, reopened>>

\* Any other statement rejects, the release included, or the process dies: the
\* rows keep their claim until it times out.
PassAborts(r) ==
  /\ at[r] # "idle"
  /\ Fault
  /\ EndPass(r)
  /\ UNCHANGED <<rowVars, nextClaim, delivered, reopened>>

-----------------------------------------------------------------------------
RelayStep(r) ==
  \/ StartPass(r)
  \/ ClaimBatch(r, {}) \/ NothingToClaim(r, {})
  \/ PublishBatch(r) \/ MarkPublished(r) \/ ReleaseClaim(r)
  \/ \E aged \in SUBSET Rows : PurgePublished(r, aged)

\* Rows another statement has locked are skipped.
LockedStep(r) ==
  \E locked \in SUBSET Rows \ {{}} : ClaimBatch(r, locked) \/ NothingToClaim(r, locked)

FaultStep(r) ==
  \/ MarkFails(r) \/ PassAborts(r)
  \/ \E accepted \in SUBSET Rows : PublishFails(r, accepted)

RelayNext ==
  \/ \E e \in Rows : CommitEvent(e) \/ ClaimTimesOut(e)
  \/ \E r \in Relays : RelayStep(r) \/ LockedStep(r) \/ FaultStep(r)

RelaySpec == RelayInit /\ [][RelayNext]_allRelayVars

\* Timers fire, statements and the sink settle, and the clock runs; a lock is
\* held for one statement, so a claim that meets none comes round again.
RelayFairSpec ==
  /\ RelaySpec
  /\ \A r \in Relays : WF_allRelayVars(RelayStep(r)) /\ SF_allRelayVars(ClaimBatch(r, {}))
  /\ \A e \in Rows : WF_allRelayVars(ClaimTimesOut(e))

-----------------------------------------------------------------------------
(* Properties *)

\* At least once: a row is marked, and so may be aged out, only if the sink has
\* accepted it, however claims time out and relays overtake each other.
MarkedMeansDelivered ==
  \A e \in Rows : row[e] \in {"published", "purged"} => delivered[e] > 0

\* At most once but for the reasons the code names: every delivery beyond the
\* first is paid for by a claim that timed out or was given back.
ExtraDeliveriesExplained ==
  \A e \in Rows : delivered[e] <= 1 + reopened[e] /\ delivered[e] <= attempts[e]

\* Every committed event is published, over crashes, refusals, lost marks and
\* overtaken claims.
EveryEventPublished ==
  \A e \in Rows : row[e] = "pending" ~> row[e] \in {"published", "purged"}
=============================================================================
