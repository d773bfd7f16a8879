--------------------------- MODULE CaseAggregate ---------------------------
(***************************************************************************)
(* What a KYC case is and what each BusinessCommand does to it:            *)
(* applyMutation and registerEvidence of packages/case-store/src/index.ts, *)
(* for one case.                                                           *)
(*                                                                         *)
(* Every command is one transaction under the row lock of the case (see    *)
(* CaseLedger for how it gets there), so a step is a whole command; a      *)
(* refused command changes nothing and is left out.  Rows are never        *)
(* deleted, and an id is used once (primary key).  No command but the ones *)
(* with a status guard below looks at the status of the case.              *)
(***************************************************************************)
EXTENDS Naturals, FiniteSets

CONSTANTS
  Evidence, Claims, Facts, Findings, Contradictions, WorkItems,
  Recommendations, Gates, Dispositions,
  Notes,          \* ids of rows no command reads: subjects, assumptions, reviews, runs
  Principals,
  Reviewers,      \* HUMAN principals with the role KYC.Analyst or KYC.SeniorReviewer
  RequireScan,    \* CASE_EVIDENCE_REQUIRE_SCAN
  Nobody, NoGate, NoDisposition

ASSUME PrincipalAssumption == Reviewers \subseteq Principals /\ Nobody \notin Principals
ASSUME ScanAssumption == RequireScan \in BOOLEAN

VARIABLES
  status,         \* cases.status
  registered,     \* evidence_objects
  linked,         \* case_evidence_refs
  claim,          \* case_claims.status, "none" without a row
  claimBasis,     \* case_claims.evidence_refs
  factBasis,      \* case_facts.basis_claim_refs, empty without a row
  findingBasis,   \* evidence_refs and fact_refs of a finding, empty without a row
  contradiction,  \* case_contradictions
  workItem,       \* case_work_items.status
  author,         \* created_by of a recommendation
  gate,           \* case_gate_results
  qa,             \* SEMANTIC_QA reviews: recommendation and reviewer
  disposition,    \* case_final_dispositions
  rows            \* rows no command reads

decisionVars == <<author, gate, qa, disposition>>
evidenceVars == <<registered, linked>>
recordVars   == <<claim, claimBasis, factBasis, findingBasis, contradiction>>
aggregateVars == <<status, evidenceVars, recordVars, workItem, decisionVars, rows>>

allowedTransitions == [
  INTAKE             |-> {"VALIDATING", "NEEDS_INFORMATION", "SUSPENDED"},
  VALIDATING         |-> {"SCREENING", "NEEDS_INFORMATION", "SUSPENDED"},
  SCREENING          |-> {"INVESTIGATING", "READY_FOR_DECISION", "NEEDS_INFORMATION", "SUSPENDED"},
  INVESTIGATING      |-> {"SCREENING", "READY_FOR_DECISION", "NEEDS_INFORMATION", "HUMAN_REVIEW",
                          "SUSPENDED"},
  READY_FOR_DECISION |-> {"QA_REVIEW", "HUMAN_REVIEW", "INVESTIGATING", "SUSPENDED"},
  QA_REVIEW          |-> {"HUMAN_REVIEW", "READY_FOR_DECISION", "INVESTIGATING", "SUSPENDED"},
  HUMAN_REVIEW       |-> {"APPROVED", "DECLINED", "INVESTIGATING", "NEEDS_INFORMATION", "SUSPENDED"},
  NEEDS_INFORMATION  |-> {"VALIDATING", "SCREENING", "INVESTIGATING", "SUSPENDED"},
  SUSPENDED          |-> {"VALIDATING", "SCREENING", "INVESTIGATING", "HUMAN_REVIEW", "CLOSED"},
  APPROVED           |-> {"CLOSED"},
  DECLINED           |-> {"CLOSED"},
  CLOSED             |-> {}]

Statuses == DOMAIN allowedTransitions
Outcomes == {"APPROVED", "DECLINED"}
Open     == {"open_material", "open_minor"}

GateResults == [recommendation : Recommendations, decision : {"AUTHORIZED", "DENIED"}]
FinalDispositions ==
  [outcome : Outcomes, recommendation : Recommendations, gate : Gates, actor : Principals]

ASSUME NullAssumption == NoGate \notin GateResults /\ NoDisposition \notin FinalDispositions

AggregateTypeOK ==
  /\ status \in Statuses
  /\ registered \subseteq Evidence
  /\ linked \subseteq Evidence
  /\ claim \in [Claims -> {"none", "PROPOSED", "ACCEPTED"}]
  /\ claimBasis \in [Claims -> SUBSET Evidence]
  /\ factBasis \in [Facts -> SUBSET Claims]
  /\ findingBasis \in [Findings -> SUBSET (Evidence \cup Facts)]
  /\ contradiction \in [Contradictions -> {"none", "closed"} \cup Open]
  /\ workItem \in [WorkItems -> {"none", "OPEN", "COMPLETED"}]
  /\ author \in [Recommendations -> Principals \cup {Nobody}]
  /\ gate \in [Gates -> GateResults \cup {NoGate}]
  /\ qa \subseteq Recommendations \X Principals
  /\ disposition \in [Dispositions -> FinalDispositions \cup {NoDisposition}]
  /\ rows \subseteq {"subject", "assumption", "review", "execution"} \X Notes

\* createKycCase inserts the case in INTAKE.
AggregateInit ==
  /\ status = "INTAKE"
  /\ registered = {}
  /\ linked = {}
  /\ claim = [c \in Claims |-> "none"]
  /\ claimBasis = [c \in Claims |-> {}]
  /\ factBasis = [f \in Facts |-> {}]
  /\ findingBasis = [g \in Findings |-> {}]
  /\ contradiction = [x \in Contradictions |-> "none"]
  /\ workItem = [w \in WorkItems |-> "none"]
  /\ author = [r \in Recommendations |-> Nobody]
  /\ gate = [k \in Gates |-> NoGate]
  /\ qa = {}
  /\ disposition = [d \in Dispositions |-> NoDisposition]
  /\ rows = {}

JudgedGates == {k \in Gates : gate[k] # NoGate}

-----------------------------------------------------------------------------
(* Evidence *)

\* registerEvidence, in a transaction of its own; a repeated key is answered
\* from its receipt.  Content is stored under its digest, not scanned.
RegisterEvidence(e) ==
  /\ e \notin registered
  /\ registered' = registered \cup {e}
  /\ UNCHANGED <<status, linked, recordVars, workItem, decisionVars, rows>>

\* Mutant: the evidence object is not looked up before it is linked.
LinkUnregistered(e) ==
  /\ linked' = linked \cup {e}
  /\ UNCHANGED <<status, registered, recordVars, workItem, decisionVars, rows>>

\* Linking twice is accepted and keeps the first link.
LinkEvidence(e) ==
  /\ e \in registered
  /\ ~RequireScan
  /\ linked' = linked \cup {e}
  /\ UNCHANGED <<status, registered, recordVars, workItem, decisionVars, rows>>

-----------------------------------------------------------------------------
(* Claims, facts, findings, contradictions *)

EnsureLinkedEvidence(refs) == refs \subseteq linked

ProposeClaim(c, refs) ==
  /\ claim[c] = "none"
  /\ refs # {}
  /\ EnsureLinkedEvidence(refs)
  /\ claim' = [claim EXCEPT ![c] = "PROPOSED"]
  /\ claimBasis' = [claimBasis EXCEPT ![c] = refs]
  /\ UNCHANGED <<status, evidenceVars, factBasis, findingBasis, contradiction, workItem,
                 decisionVars, rows>>

\* The claims must exist; their status is not looked at.
AcceptClaimAsFact(f, refs) ==
  /\ factBasis[f] = {}
  /\ refs # {}
  /\ \A c \in refs : claim[c] # "none"
  /\ factBasis' = [factBasis EXCEPT ![f] = refs]
  /\ claim' = [c \in Claims |-> IF c \in refs THEN "ACCEPTED" ELSE claim[c]]
  /\ UNCHANGED <<status, evidenceVars, claimBasis, findingBasis, contradiction, workItem,
                 decisionVars, rows>>

\* Evidence must be linked; fact references are stored as they come.
RecordScreeningFinding(g, evidenceRefs, factRefs) ==
  /\ findingBasis[g] = {}
  /\ evidenceRefs \cup factRefs # {}
  /\ EnsureLinkedEvidence(evidenceRefs)
  /\ findingBasis' = [findingBasis EXCEPT ![g] = evidenceRefs \cup factRefs]
  /\ UNCHANGED <<status, evidenceVars, claim, claimBasis, factBasis, contradiction, workItem,
                 decisionVars, rows>>

RaiseContradiction(x, s) ==
  /\ contradiction[x] = "none"
  /\ contradiction' = [contradiction EXCEPT ![x] = s]
  /\ UNCHANGED <<status, evidenceVars, claim, claimBasis, factBasis, findingBasis, workItem,
                 decisionVars, rows>>

ResolveContradiction(x) ==
  /\ contradiction[x] \in Open
  /\ contradiction' = [contradiction EXCEPT ![x] = "closed"]
  /\ UNCHANGED <<status, evidenceVars, claim, claimBasis, factBasis, findingBasis, workItem,
                 decisionVars, rows>>

-----------------------------------------------------------------------------
(* Work items and rows nothing reads *)

ProposeWorkItem(w) ==
  /\ workItem[w] = "none"
  /\ workItem' = [workItem EXCEPT ![w] = "OPEN"]
  /\ UNCHANGED <<status, evidenceVars, recordVars, decisionVars, rows>>

CompleteWorkItem(w) ==
  /\ workItem[w] = "OPEN"
  /\ workItem' = [workItem EXCEPT ![w] = "COMPLETED"]
  /\ UNCHANGED <<status, evidenceVars, recordVars, decisionVars, rows>>

InsertRow(kind, n) ==
  /\ rows' = rows \cup {<<kind, n>>}
  /\ UNCHANGED <<status, evidenceVars, recordVars, workItem, decisionVars>>

AddSubject(n)       == <<"subject", n>> \notin rows /\ InsertRow("subject", n)
RecordAssumption(n) == <<"assumption", n>> \notin rows /\ InsertRow("assumption", n)
RecordReview(n)     == <<"review", n>> \notin rows /\ InsertRow("review", n)
LinkExecution(n)    == InsertRow("execution", n)

-----------------------------------------------------------------------------
(* The decision *)

\* Needs some finding or evidence reference, which are stored as they come.
SubmitDecisionRecommendation(r, p) ==
  /\ author[r] = Nobody
  /\ author' = [author EXCEPT ![r] = p]
  /\ UNCHANGED <<status, evidenceVars, recordVars, workItem, gate, qa, disposition, rows>>

RecordGateResult(k, r, d) ==
  /\ gate[k] = NoGate
  /\ author[r] # Nobody
  /\ gate' = [gate EXCEPT ![k] = [recommendation |-> r, decision |-> d]]
  /\ UNCHANGED <<status, evidenceVars, recordVars, workItem, author, qa, disposition, rows>>

RecordQAResult(r, p) ==
  /\ author[r] \notin {Nobody, p}
  /\ qa' = qa \cup {<<r, p>>}
  /\ UNCHANGED <<status, evidenceVars, recordVars, workItem, author, gate, disposition, rows>>

RequestHumanReview ==
  /\ "HUMAN_REVIEW" \in allowedTransitions[status]
  /\ status' = "HUMAN_REVIEW"
  /\ UNCHANGED <<evidenceVars, recordVars, workItem, decisionVars, rows>>

\* Mutant: the general transition also reaches the outcomes.
TransitionToAny(s) ==
  /\ s \in allowedTransitions[status]
  /\ status' = s
  /\ UNCHANGED <<evidenceVars, recordVars, workItem, decisionVars, rows>>

TransitionCaseStatus(s) ==
  /\ s \in allowedTransitions[status]
  /\ s \notin Outcomes
  /\ status' = s
  /\ UNCHANGED <<evidenceVars, recordVars, workItem, decisionVars, rows>>

GateAuthorizes(k, r) == gate[k] = [recommendation |-> r, decision |-> "AUTHORIZED"]

NoMaterialContradiction == \A x \in Contradictions : contradiction[x] # "open_material"

\* Mutant: the gate must authorize, but not this recommendation.
FinalizeOnAnyGate(d, outcome, r, k, p) ==
  /\ p \in Reviewers
  /\ status = "HUMAN_REVIEW"
  /\ author[r] # Nobody
  /\ gate[k] # NoGate
  /\ gate[k].decision = "AUTHORIZED"
  /\ NoMaterialContradiction
  /\ disposition[d] = NoDisposition
  /\ disposition' = [disposition EXCEPT ![d] =
       [outcome |-> outcome, recommendation |-> r, gate |-> k, actor |-> p]]
  /\ status' = outcome
  /\ UNCHANGED <<evidenceVars, recordVars, workItem, author, gate, qa, rows>>

FinalizeDisposition(d, outcome, r, k, p) ==
  /\ p \in Reviewers
  /\ status = "HUMAN_REVIEW"
  /\ GateAuthorizes(k, r)
  /\ NoMaterialContradiction
  /\ disposition[d] = NoDisposition
  /\ disposition' = [disposition EXCEPT ![d] =
       [outcome |-> outcome, recommendation |-> r, gate |-> k, actor |-> p]]
  /\ status' = outcome
  /\ UNCHANGED <<evidenceVars, recordVars, workItem, author, gate, qa, rows>>

-----------------------------------------------------------------------------
RecordStep ==
  \/ \E e \in Evidence : RegisterEvidence(e) \/ LinkEvidence(e)
  \/ \E c \in Claims, refs \in SUBSET Evidence : ProposeClaim(c, refs)
  \/ \E f \in Facts, refs \in SUBSET Claims : AcceptClaimAsFact(f, refs)
  \/ \E g \in Findings, refs \in SUBSET Evidence, factRefs \in SUBSET Facts :
       RecordScreeningFinding(g, refs, factRefs)
  \/ \E x \in Contradictions :
       ResolveContradiction(x) \/ \E s \in Open : RaiseContradiction(x, s)
  \/ \E w \in WorkItems : ProposeWorkItem(w) \/ CompleteWorkItem(w)
  \/ \E n \in Notes : AddSubject(n) \/ RecordAssumption(n) \/ RecordReview(n) \/ LinkExecution(n)

DecisionStep ==
  \/ \E r \in Recommendations, p \in Principals :
       SubmitDecisionRecommendation(r, p) \/ RecordQAResult(r, p)
  \/ \E k \in Gates, r \in Recommendations, d \in {"AUTHORIZED", "DENIED"} : RecordGateResult(k, r, d)
  \/ RequestHumanReview
  \/ \E s \in Statuses : TransitionCaseStatus(s)
  \/ \E d \in Dispositions, outcome \in Outcomes, r \in Recommendations, k \in Gates, p \in Principals :
       FinalizeDisposition(d, outcome, r, k, p)

AggregateNext == RecordStep \/ DecisionStep

AggregateSpec == AggregateInit /\ [][AggregateNext]_aggregateVars

-----------------------------------------------------------------------------
(* Properties *)

Decided == {d \in Dispositions : disposition[d] # NoDisposition}

\* Status and disposition tell the same: an outcome has its disposition, a decided
\* case shows that outcome or is closed, and no walk through reopenings, suspensions
\* and further recommendations leads to a second final disposition (there is no
\* unique constraint; only the lifecycle prevents it).
StatusMatchesDisposition ==
  /\ status \in Outcomes => \E d \in Decided : disposition[d].outcome = status
  /\ \A d \in Decided : status \in {disposition[d].outcome, "CLOSED"}
  /\ \A d, e \in Decided : d = e

\* Every disposition rests on an authorizing gate for its own recommendation and
\* on a reviewer, for as long as the case exists.
DispositionIsAuthorized ==
  \A d \in Decided :
    /\ GateAuthorizes(disposition[d].gate, disposition[d].recommendation)
    /\ author[disposition[d].recommendation] # Nobody
    /\ disposition[d].actor \in Reviewers

\* Down the lineage of a fact: claims accepted for it, each proposed on evidence
\* that is registered and linked to this case, as is what a finding cites.  (Of
\* the facts a finding cites nothing is known: index.ts 609-611 never looks.)
FactsRestOnEvidence ==
  /\ \A f \in Facts : \A c \in factBasis[f] :
       claim[c] = "ACCEPTED" /\ claimBasis[c] # {} /\ claimBasis[c] \subseteq linked
  /\ \A g \in Findings : findingBasis[g] \subseteq linked \cup Facts
  /\ linked \subseteq registered

\* A decided case is never reopened: what remains is to close it.
DecisionIsFinal ==
  [][Decided # {} => status' \in {status, "CLOSED"}]_aggregateVars
=============================================================================
