---------------------- MODULE CapabilityGateway_proofs ----------------------
(***************************************************************************)
(* Proofs about the capability gateway, for any number of handlers,        *)
(* invocations and retries: a provider result is produced at most once per *)
(* invocation and, once stored, is permanent; calls stay within budget and *)
(* no charge is billed twice.                                              *)
(***************************************************************************)
EXTENDS CapabilityGateway, FiniteOrders, TLAPS

-----------------------------------------------------------------------------
(* Totals over finite sets *)

\* The recursion MapThenSumSet folds with: which member is added next, and what
\* a set adds up to.
Pick(s) == CHOOSE x \in s : TRUE
Added(iter, f, s) == IF s = {} THEN 0 ELSE f[Pick(s)] + iter[s \ {Pick(s)}]
Adds(iter, f, S) == iter = [s \in SUBSET S |-> Added(iter, f, s)]

LEMMA PickIsMember ==
  ASSUME NEW s, s # {}
  PROVE  Pick(s) \in s
BY DEF Pick

\* The recursion of MapThenFoldSet has a solution over the subsets of a finite set.
LEMMA AddsExists ==
  ASSUME NEW S, IsFiniteSet(S), NEW f \in [S -> Nat]
  PROVE  \E iter : Adds(iter, f, S)
<1> DEFINE UpTo(g, n) == \A s \in SUBSET S : Cardinality(s) <= n => g[s] = Added(g, f, s)
           Bad == {n \in Nat : ~ \E g \in [SUBSET S -> Nat] : UpTo(g, n)}
<1>1. \A s \in SUBSET S : IsFiniteSet(s) /\ Cardinality(s) \in Nat /\ Cardinality(s) <= Cardinality(S)
  BY FS_Subset, FS_CardinalityType
<1>2. Cardinality(S) \in Nat
  BY FS_CardinalityType
<1>3. Bad = {}
  <2> SUFFICES ASSUME Bad # {} PROVE FALSE
    OBVIOUS
  <2>1. PICK m \in Bad : \A n \in Bad : m <= n
    <3>1. Bad \in SUBSET Nat
      OBVIOUS
    <3> HIDE DEF Bad
    <3> QED
      BY <3>1, LeastExists
  <2>2. CASE m = 0
    <3> DEFINE zero == [s \in SUBSET S |-> 0]
    <3>1. ASSUME NEW s \in SUBSET S, Cardinality(s) <= 0
          PROVE  s = {}
      BY <1>1, <3>1, FS_EmptySet
    <3>2. zero \in [SUBSET S -> Nat] /\ UpTo(zero, 0)
      BY <3>1 DEF Added
    <3> HIDE DEF zero
    <3> QED
      BY <2>1, <2>2, <3>2
  <2>3. CASE m # 0
    <3>1. m \in Nat /\ m - 1 \in Nat /\ m - 1 \notin Bad
      <4>1. m \in Nat /\ m - 1 \in Nat /\ ~(m <= m - 1)
        BY <2>3
      <4> HIDE DEF Bad
      <4> QED
        BY <2>1, <4>1
    <3>2. PICK g \in [SUBSET S -> Nat] : UpTo(g, m - 1)
      BY <3>1
    <3> DEFINE h == [s \in SUBSET S |-> Added(g, f, s)]
    <3>3. \A s \in SUBSET S : Added(g, f, s) \in Nat
      BY PickIsMember DEF Added
    <3>4. h \in [SUBSET S -> Nat]
      BY <3>3
    <3>5. ASSUME NEW s \in SUBSET S, Cardinality(s) <= m
          PROVE  h[s] = Added(h, f, s)
      <4>1. CASE s = {}
        BY <4>1 DEF Added
      <4>2. CASE s # {}
        <5>1. PICK x : x = Pick(s)
          OBVIOUS
        <5>2. x \in s /\ s \ {x} \in SUBSET S
          BY <4>2, <5>1, PickIsMember
        <5>3. Cardinality(s \ {x}) <= m - 1
          BY <1>1, <3>1, <3>5, <5>2, FS_RemoveElement
        <5>4. h[s \ {x}] = g[s \ {x}]
          BY <3>2, <5>2, <5>3
        <5> QED
          BY <4>2, <5>1, <5>2, <5>4 DEF Added
      <4> QED
        BY <4>1, <4>2
    <3>6. UpTo(h, m)
      BY <3>5
    <3> HIDE DEF h
    <3> QED
      BY <2>1, <3>4, <3>6
  <2> QED
    BY <2>2, <2>3
<1>4. PICK g \in [SUBSET S -> Nat] : UpTo(g, Cardinality(S))
  BY <1>2, <1>3
<1>5. Adds(g, f, S)
  BY <1>1, <1>4 DEF Adds
<1> QED
  BY <1>5

\* So a total is what the chosen solution has for the whole set, a natural number.
LEMMA TotalIsAdded ==
  ASSUME NEW S, IsFiniteSet(S), NEW f \in [S -> Nat]
  PROVE  \E iter \in [SUBSET S -> Nat] :
           /\ \A s \in SUBSET S : iter[s] = Added(iter, f, s)
           /\ Total(f, S) = iter[S]
<1>1. PICK iter : iter = CHOOSE g : Adds(g, f, S)
  OBVIOUS
<1>2. Adds(iter, f, S)
  BY <1>1, AddsExists
<1>3. DOMAIN iter = SUBSET S /\ \A s \in SUBSET S : iter[s] = Added(iter, f, s)
  BY <1>2 DEF Adds
<1>4. Total(f, S) = iter[S]
  BY <1>1 DEF Total, MapThenSumSet, MapThenFoldSet, Adds, Added, Pick
<1> DEFINE Bad == {s \in SUBSET S : iter[s] \notin Nat}
<1>5. Bad = {}
  <2> SUFFICES ASSUME Bad # {} PROVE FALSE
    OBVIOUS
  <2>1. PICK s \in Bad : \A x \in s : s \ {x} \notin Bad
    <3>1. Bad \in SUBSET (SUBSET S)
      OBVIOUS
    <3> HIDE DEF Bad
    <3> QED
      BY <3>1, SmallestExists
  <2>2. s # {}
    BY <1>3 DEF Added
  <2>3. PICK x : x = Pick(s) /\ x \in s
    BY <2>2, PickIsMember
  <2>4. iter[s \ {x}] \in Nat /\ f[x] \in Nat
    BY <2>1, <2>3
  <2> QED
    BY <1>3, <2>1, <2>2, <2>3, <2>4 DEF Added
<1>6. iter = [s \in SUBSET S |-> iter[s]]
  BY <1>2 DEF Adds
<1> QED
  BY <1>3, <1>4, <1>5, <1>6

\* A total moves with one member's value.
LEMMA TotalMoves ==
  ASSUME NEW S, IsFiniteSet(S), NEW f \in [S -> Nat], NEW g \in [S -> Nat], NEW h,
         \A x \in S : x # h => f[x] = g[x]
  PROVE  /\ Total(f, S) \in Nat /\ Total(g, S) \in Nat
         /\ h \in S => Total(g, S) + f[h] = Total(f, S) + g[h]
         /\ h \notin S => Total(g, S) = Total(f, S)
<1>1. PICK F \in [SUBSET S -> Nat] : /\ \A s \in SUBSET S : F[s] = Added(F, f, s)
                                     /\ Total(f, S) = F[S]
  BY TotalIsAdded
<1>2. PICK G \in [SUBSET S -> Nat] : /\ \A s \in SUBSET S : G[s] = Added(G, g, s)
                                     /\ Total(g, S) = G[S]
  BY TotalIsAdded
<1> DEFINE At(u, s) == IF h \in s THEN u[h] ELSE 0
           Bad == {s \in SUBSET S : G[s] + At(f, s) # F[s] + At(g, s)}
<1>3. Bad = {}
  <2> SUFFICES ASSUME Bad # {} PROVE FALSE
    OBVIOUS
  <2>1. PICK s \in Bad : \A x \in s : s \ {x} \notin Bad
    <3>1. Bad \in SUBSET (SUBSET S)
      OBVIOUS
    <3> HIDE DEF Bad
    <3> QED
      BY <3>1, SmallestExists
  <2>2. s # {}
    BY <1>1, <1>2 DEF Added
  <2>3. PICK x : x = Pick(s) /\ x \in s
    BY <2>2, PickIsMember
  <2>4. G[s \ {x}] + At(f, s \ {x}) = F[s \ {x}] + At(g, s \ {x})
    BY <2>1, <2>3
  <2>5. G[s] = g[x] + G[s \ {x}] /\ F[s] = f[x] + F[s \ {x}]
    BY <1>1, <1>2, <2>2, <2>3 DEF Added
  <2>6. s \in SUBSET S /\ s \ {x} \in SUBSET S /\ x \in S
    BY <2>3
  <2>7. /\ G[s \ {x}] \in Nat /\ F[s \ {x}] \in Nat /\ f[x] \in Nat /\ g[x] \in Nat
        /\ h \in s => f[h] \in Nat /\ g[h] \in Nat
    BY <2>6
  <2>8. G[s] + At(f, s) = F[s] + At(g, s)
    <3>1. CASE h = x
      BY <2>3, <2>4, <2>5, <2>7, <3>1
    <3>2. CASE h # x
      <4>1. f[x] = g[x]
        BY <2>6, <3>2
      <4>2. h \in s <=> h \in s \ {x}
        BY <3>2
      <4> QED
        BY <2>4, <2>5, <2>7, <4>1, <4>2
    <3> QED
      BY <3>1, <3>2
  <2> QED
    BY <2>1, <2>8
<1>4. G[S] + At(f, S) = F[S] + At(g, S) /\ F[S] \in Nat /\ G[S] \in Nat
  <2>1. S \in SUBSET S
    OBVIOUS
  <2> QED
    BY <1>3, <2>1
<1> QED
  BY <1>1, <1>2, <1>4

\* Nothing adds up to nothing.
LEMMA TotalOfZero ==
  ASSUME NEW S, IsFiniteSet(S)
  PROVE  Total([x \in S |-> 0], S) = 0
<1> DEFINE zero == [x \in S |-> 0]
<1>1. zero \in [S -> Nat] /\ \A x \in S : zero[x] = 0
  OBVIOUS
<1> HIDE DEF zero
<1>2. PICK F \in [SUBSET S -> Nat] : /\ \A s \in SUBSET S : F[s] = Added(F, zero, s)
                                     /\ Total(zero, S) = F[S]
  BY <1>1, TotalIsAdded
<1> DEFINE Bad == {s \in SUBSET S : F[s] # 0}
<1>3. Bad = {}
  <2> SUFFICES ASSUME Bad # {} PROVE FALSE
    OBVIOUS
  <2>1. PICK s \in Bad : \A x \in s : s \ {x} \notin Bad
    <3>1. Bad \in SUBSET (SUBSET S)
      OBVIOUS
    <3> HIDE DEF Bad
    <3> QED
      BY <3>1, SmallestExists
  <2>2. s # {}
    BY <1>2 DEF Added
  <2>3. PICK x : x = Pick(s) /\ x \in s
    BY <2>2, PickIsMember
  <2>4. F[s \ {x}] = 0 /\ zero[x] = 0
    BY <1>1, <2>1, <2>3
  <2> QED
    BY <1>2, <2>1, <2>2, <2>3, <2>4 DEF Added
<1>4. S \in SUBSET S
  OBVIOUS
<1> QED
  BY <1>2, <1>3, <1>4 DEF zero

-----------------------------------------------------------------------------
(* Receipts *)

USE BudgetAssumption, NullAssumption

\* A step keeps the type invariant; that a busy handler has an invocation is
\* needed wherever a row is addressed by it.
LEMMA TypeStep == TypeOK /\ BusyHandlers /\ [Next]_vars => TypeOK'
<1> SUFFICES ASSUME TypeOK, BusyHandlers, [Next]_vars PROVE TypeOK'
  OBVIOUS
<1> USE DEF TypeOK, Step, Reply, rowVars, handlerVars, historyVars
<1>1. ASSUME NEW h \in Handlers, NEW i \in Invocations,
            NEW d \in Digests, Authorize(h, i, d)
     PROVE  TypeOK'
  BY <1>1 DEF Authorize, GoTo
<1>2. ASSUME NEW h \in Handlers, Reserve(h)
     PROVE  TypeOK'
  <2>1. inv[h] \in Invocations /\ digest[h] \in Digests
    BY <1>2 DEF BusyHandlers, Reserve
  <2>2. receipt' \in [Invocations -> Digests \cup {NoDigest}]
    BY <1>2, <2>1 DEF Reserve
  <2>3. calls' \in Nat /\ modelCalls' \in Nat
    BY <1>2 DEF Reserve
  <2>4. step' \in [Handlers -> Step]
    BY <1>2 DEF Reserve, Proceed, GoTo
  <2> QED
    BY <1>2, <2>2, <2>3, <2>4 DEF Reserve, Proceed
<1>3. ASSUME NEW h \in Handlers, DenyBudget(h)
     PROVE  TypeOK'
  BY <1>3 DEF DenyBudget, Answer, GoTo
<1>4. ASSUME NEW h \in Handlers, ReceiptExists(h)
     PROVE  TypeOK'
  BY <1>4 DEF ReceiptExists, Proceed, GoTo
<1>5. ASSUME NEW h \in Handlers, InspectReceipt(h)
     PROVE  TypeOK'
  BY <1>5 DEF InspectReceipt, Answer, GoTo
<1>6. ASSUME NEW h \in Handlers, CallProvider(h)
     PROVE  TypeOK'
  <2>1. inv[h] \in Invocations /\ digest[h] \in Digests
    BY <1>6 DEF BusyHandlers, CallProvider
  <2>2. dispatched' \in [Invocations -> Nat]
    BY <1>6, <2>1 DEF CallProvider
  <2>3. step' \in [Handlers -> Step]
    BY <1>6 DEF CallProvider, Proceed, GoTo
  <2> QED
    BY <1>6, <2>2, <2>3 DEF CallProvider, Proceed
<1>7. ASSUME NEW h \in Handlers, ProviderRejects(h)
     PROVE  TypeOK'
  BY <1>7 DEF ProviderRejects, Proceed, GoTo
<1>8. ASSUME NEW h \in Handlers, NEW c \in CallCosts \cup {NoCost}, ProviderReturns(h, c)
     PROVE  TypeOK'
  <2>1. inv[h] \in Invocations /\ digest[h] \in Digests
    BY <1>8 DEF BusyHandlers, ProviderReturns
  <2>2. c # NoCost => c \in Nat
    OBVIOUS
  <2>3. spent' \in Nat
    BY <1>8, <2>2 DEF ProviderReturns
  <2>4. produced' \in [Invocations -> Nat]
    BY <1>8, <2>1 DEF ProviderReturns
  <2>5. heldResult' \in [Handlers -> Nat] /\ heldCost' \in [Handlers -> CallCosts \cup {NoCost}]
    BY <1>8, <2>1 DEF ProviderReturns
  <2>6. step' \in [Handlers -> Step]
    BY <1>8 DEF ProviderReturns, GoTo
  <2> QED
    BY <1>8, <2>3, <2>4, <2>5, <2>6 DEF ProviderReturns
<1>9. ASSUME NEW h \in Handlers, CompleteGatewayReceipt(h)
     PROVE  TypeOK'
  <2>1. inv[h] \in Invocations /\ digest[h] \in Digests
    BY <1>9 DEF BusyHandlers, CompleteGatewayReceipt
  <2>2. stored' \in [Invocations -> Nat]
    BY <1>9, <2>1 DEF CompleteGatewayReceipt
  <2>3. step' \in [Handlers -> Step]
    BY <1>9 DEF CompleteGatewayReceipt, Proceed, GoTo
  <2> QED
    BY <1>9, <2>2, <2>3 DEF CompleteGatewayReceipt, Proceed
<1>10. ASSUME NEW h \in Handlers, RecordCapabilityCost(h)
     PROVE  TypeOK'
  <2>1. heldCost[h] # NoCost => heldCost[h] \in Nat
    OBVIOUS
  <2>2. cost' \in Nat
    BY <1>10, <2>1 DEF RecordCapabilityCost
  <2>3. costComplete' \in BOOLEAN
    BY <1>10, Zenon DEF RecordCapabilityCost
  <2> QED
    BY <1>10, <2>2, <2>3 DEF RecordCapabilityCost, Answer, GoTo
<1>11. ASSUME NEW h \in Handlers, AbandonGatewayReceipt(h)
     PROVE  TypeOK'
  <2>1. inv[h] \in Invocations /\ digest[h] \in Digests
    BY <1>11 DEF BusyHandlers, AbandonGatewayReceipt
  <2>2. receipt' \in [Invocations -> Digests \cup {NoDigest}]
    BY <1>11, <2>1 DEF AbandonGatewayReceipt
  <2> QED
    BY <1>11, <2>2 DEF AbandonGatewayReceipt, Answer, GoTo
<1>12. ASSUME NEW h \in Handlers, StatementFails(h)
     PROVE  TypeOK'
  BY <1>12 DEF StatementFails, Answer, GoTo
<1>13. CASE GatewayCrashes
  BY <1>13 DEF GatewayCrashes
<1>14. CASE FenceMoves
  BY <1>14 DEF FenceMoves
<1>15. CASE UNCHANGED vars
  BY <1>15 DEF vars
<1> QED
  BY <1>1, <1>2, <1>3, <1>4, <1>5, <1>6, <1>7, <1>8, <1>9,
     <1>10, <1>11, <1>12, <1>13, <1>14, <1>15
  DEF Next, HandlerStep

\* Only Authorize takes a handler out of "idle", and it sets its invocation.
LEMMA BusyStep == GatewayInv /\ [Next]_vars => BusyHandlers'
<1> DEFINE Set(g) == inv'[g] \in Invocations /\ digest'[g] \in Digests
<1> SUFFICES ASSUME GatewayInv, [Next]_vars, NEW g \in Handlers, step'[g] # "idle"
             PROVE  Set(g)
  BY DEF BusyHandlers
<1> USE DEF GatewayInv, TypeOK, BusyHandlers, rowVars, handlerVars, historyVars
<1>1. ASSUME NEW h \in Handlers, NEW i \in Invocations,
            NEW d \in Digests, Authorize(h, i, d)
     PROVE  Set(g)
  BY <1>1 DEF Authorize, GoTo
<1>2. ASSUME NEW h \in Handlers, Reserve(h)
     PROVE  Set(g)
  BY <1>2 DEF Reserve, Proceed, GoTo
<1>3. ASSUME NEW h \in Handlers, DenyBudget(h)
     PROVE  Set(g)
  BY <1>3 DEF DenyBudget, Answer, GoTo
<1>4. ASSUME NEW h \in Handlers, ReceiptExists(h)
     PROVE  Set(g)
  BY <1>4 DEF ReceiptExists, Proceed, GoTo
<1>5. ASSUME NEW h \in Handlers, InspectReceipt(h)
     PROVE  Set(g)
  BY <1>5 DEF InspectReceipt, Answer, GoTo
<1>6. ASSUME NEW h \in Handlers, CallProvider(h)
     PROVE  Set(g)
  BY <1>6 DEF CallProvider, Proceed, GoTo
<1>7. ASSUME NEW h \in Handlers, ProviderRejects(h)
     PROVE  Set(g)
  BY <1>7 DEF ProviderRejects, Proceed, GoTo
<1>8. ASSUME NEW h \in Handlers, NEW c \in CallCosts \cup {NoCost}, ProviderReturns(h, c)
     PROVE  Set(g)
  BY <1>8 DEF ProviderReturns, GoTo
<1>9. ASSUME NEW h \in Handlers, CompleteGatewayReceipt(h)
     PROVE  Set(g)
  BY <1>9 DEF CompleteGatewayReceipt, Proceed, GoTo
<1>10. ASSUME NEW h \in Handlers, RecordCapabilityCost(h)
     PROVE  Set(g)
  BY <1>10 DEF RecordCapabilityCost, Answer, GoTo
<1>11. ASSUME NEW h \in Handlers, AbandonGatewayReceipt(h)
     PROVE  Set(g)
  BY <1>11 DEF AbandonGatewayReceipt, Answer, GoTo
<1>12. ASSUME NEW h \in Handlers, StatementFails(h)
     PROVE  Set(g)
  BY <1>12 DEF StatementFails, Answer, GoTo
<1>13. CASE GatewayCrashes
  BY <1>13 DEF GatewayCrashes
<1>14. CASE FenceMoves
  BY <1>14 DEF FenceMoves
<1>15. CASE UNCHANGED vars
  BY <1>15 DEF vars
<1> QED
  BY <1>1, <1>2, <1>3, <1>4, <1>5, <1>6, <1>7, <1>8, <1>9,
     <1>10, <1>11, <1>12, <1>13, <1>14, <1>15
  DEF Next, HandlerStep

\* What an owner knows of its receipt: nobody else touches it meanwhile.
LEMMA OwnedStep == GatewayInv /\ [Next]_vars => OwnedReceipts'
<1> SUFFICES ASSUME GatewayInv, [Next]_vars, NEW g \in Handlers, step'[g] \in Owning
             PROVE  /\ receipt'[inv'[g]] # NoDigest
                    /\ stored'[inv'[g]] = 0
                    /\ produced'[inv'[g]] = IF step'[g] = "returned" THEN 1 ELSE 0
                    /\ step'[g] = "returned" => heldResult'[g] = 1
  BY DEF OwnedReceipts
<1> DEFINE Owned == /\ receipt'[inv'[g]] # NoDigest
                    /\ stored'[inv'[g]] = 0
                    /\ produced'[inv'[g]] = IF step'[g] = "returned" THEN 1 ELSE 0
                    /\ step'[g] = "returned" => heldResult'[g] = 1
<1> USE DEF GatewayInv, TypeOK, BusyHandlers, OwnedReceipts, OneOwner, ResultsHaveReceipts,
            Owning, rowVars, handlerVars, historyVars
<1>1. ASSUME NEW h \in Handlers, NEW i \in Invocations,
            NEW d \in Digests, Authorize(h, i, d)
     PROVE  Owned
  BY <1>1 DEF Authorize, GoTo
<1>2. ASSUME NEW h \in Handlers, Reserve(h)
     PROVE  Owned
  BY <1>2 DEF Reserve, Proceed, GoTo
<1>3. ASSUME NEW h \in Handlers, DenyBudget(h)
     PROVE  Owned
  BY <1>3 DEF DenyBudget, Answer, GoTo
<1>4. ASSUME NEW h \in Handlers, ReceiptExists(h)
     PROVE  Owned
  BY <1>4 DEF ReceiptExists, Proceed, GoTo
<1>5. ASSUME NEW h \in Handlers, InspectReceipt(h)
     PROVE  Owned
  BY <1>5 DEF InspectReceipt, Answer, GoTo
<1>6. ASSUME NEW h \in Handlers, CallProvider(h)
     PROVE  Owned
  BY <1>6 DEF CallProvider, Proceed, GoTo
<1>7. ASSUME NEW h \in Handlers, ProviderRejects(h)
     PROVE  Owned
  BY <1>7 DEF ProviderRejects, Proceed, GoTo
<1>8. ASSUME NEW h \in Handlers, NEW c \in CallCosts \cup {NoCost}, ProviderReturns(h, c)
     PROVE  Owned
  BY <1>8 DEF ProviderReturns, GoTo
<1>9. ASSUME NEW h \in Handlers, CompleteGatewayReceipt(h)
     PROVE  Owned
  BY <1>9 DEF CompleteGatewayReceipt, Proceed, GoTo
<1>10. ASSUME NEW h \in Handlers, RecordCapabilityCost(h)
     PROVE  Owned
  BY <1>10 DEF RecordCapabilityCost, Answer, GoTo
<1>11. ASSUME NEW h \in Handlers, AbandonGatewayReceipt(h)
     PROVE  Owned
  BY <1>11 DEF AbandonGatewayReceipt, Answer, GoTo
<1>12. ASSUME NEW h \in Handlers, StatementFails(h)
     PROVE  Owned
  BY <1>12 DEF StatementFails, Answer, GoTo
<1>13. CASE GatewayCrashes
  BY <1>13 DEF GatewayCrashes
<1>14. CASE FenceMoves
  BY <1>14 DEF FenceMoves
<1>15. CASE UNCHANGED vars
  BY <1>15 DEF vars
<1> QED
  BY <1>1, <1>2, <1>3, <1>4, <1>5, <1>6, <1>7, <1>8, <1>9,
     <1>10, <1>11, <1>12, <1>13, <1>14, <1>15
  DEF Next, HandlerStep

\* A receipt has one owner: reserving needs the row to be absent, and every
\* owner's row is present.
LEMMA OneOwnerStep == GatewayInv /\ [Next]_vars => OneOwner'
<1> SUFFICES ASSUME GatewayInv, [Next]_vars, NEW f \in Handlers, NEW g \in Handlers,
                    step'[f] \in Owning, step'[g] \in Owning, inv'[f] = inv'[g]
             PROVE  f = g
  BY DEF OneOwner
<1> USE DEF GatewayInv, TypeOK, BusyHandlers, OwnedReceipts, OneOwner,
            Owning, rowVars, handlerVars, historyVars
<1>1. ASSUME NEW h \in Handlers, NEW i \in Invocations,
            NEW d \in Digests, Authorize(h, i, d)
     PROVE  f = g
  BY <1>1 DEF Authorize, GoTo
<1>2. ASSUME NEW h \in Handlers, Reserve(h)
     PROVE  f = g
  BY <1>2 DEF Reserve, Proceed, GoTo
<1>3. ASSUME NEW h \in Handlers, DenyBudget(h)
     PROVE  f = g
  BY <1>3 DEF DenyBudget, Answer, GoTo
<1>4. ASSUME NEW h \in Handlers, ReceiptExists(h)
     PROVE  f = g
  BY <1>4 DEF ReceiptExists, Proceed, GoTo
<1>5. ASSUME NEW h \in Handlers, InspectReceipt(h)
     PROVE  f = g
  BY <1>5 DEF InspectReceipt, Answer, GoTo
<1>6. ASSUME NEW h \in Handlers, CallProvider(h)
     PROVE  f = g
  BY <1>6 DEF CallProvider, Proceed, GoTo
<1>7. ASSUME NEW h \in Handlers, ProviderRejects(h)
     PROVE  f = g
  BY <1>7 DEF ProviderRejects, Proceed, GoTo
<1>8. ASSUME NEW h \in Handlers, NEW c \in CallCosts \cup {NoCost}, ProviderReturns(h, c)
     PROVE  f = g
  BY <1>8 DEF ProviderReturns, GoTo
<1>9. ASSUME NEW h \in Handlers, CompleteGatewayReceipt(h)
     PROVE  f = g
  BY <1>9 DEF CompleteGatewayReceipt, Proceed, GoTo
<1>10. ASSUME NEW h \in Handlers, RecordCapabilityCost(h)
     PROVE  f = g
  BY <1>10 DEF RecordCapabilityCost, Answer, GoTo
<1>11. ASSUME NEW h \in Handlers, AbandonGatewayReceipt(h)
     PROVE  f = g
  BY <1>11 DEF AbandonGatewayReceipt, Answer, GoTo
<1>12. ASSUME NEW h \in Handlers, StatementFails(h)
     PROVE  f = g
  BY <1>12 DEF StatementFails, Answer, GoTo
<1>13. CASE GatewayCrashes
  BY <1>13 DEF GatewayCrashes
<1>14. CASE FenceMoves
  BY <1>14 DEF FenceMoves
<1>15. CASE UNCHANGED vars
  BY <1>15 DEF vars
<1> QED
  BY <1>1, <1>2, <1>3, <1>4, <1>5, <1>6, <1>7, <1>8, <1>9,
     <1>10, <1>11, <1>12, <1>13, <1>14, <1>15
  DEF Next, HandlerStep

\* A receipt is deleted only by an owner whose provider has not answered, and
\* what is stored is the number of a result the provider produced.
LEMMA ResultsStep ==
  GatewayInv /\ [Next]_vars => ResultsHaveReceipts' /\ OneResultPerInvocation'
<1> SUFFICES ASSUME GatewayInv, [Next]_vars, NEW j \in Invocations
             PROVE  /\ receipt'[j] = NoDigest => produced'[j] = 0
                    /\ stored'[j] <= produced'[j]
                    /\ produced'[j] <= 1
  BY DEF ResultsHaveReceipts, OneResultPerInvocation
<1> DEFINE Kept == /\ receipt'[j] = NoDigest => produced'[j] = 0
                   /\ stored'[j] <= produced'[j]
                   /\ produced'[j] <= 1
<1> USE DEF GatewayInv, TypeOK, BusyHandlers, OwnedReceipts, OneOwner, ResultsHaveReceipts,
            OneResultPerInvocation, Owning, rowVars, handlerVars, historyVars
<1>1. ASSUME NEW h \in Handlers, NEW i \in Invocations,
            NEW d \in Digests, Authorize(h, i, d)
     PROVE  Kept
  BY <1>1 DEF Authorize, GoTo
<1>2. ASSUME NEW h \in Handlers, Reserve(h)
     PROVE  Kept
  BY <1>2 DEF Reserve, Proceed, GoTo
<1>3. ASSUME NEW h \in Handlers, DenyBudget(h)
     PROVE  Kept
  BY <1>3 DEF DenyBudget, Answer, GoTo
<1>4. ASSUME NEW h \in Handlers, ReceiptExists(h)
     PROVE  Kept
  BY <1>4 DEF ReceiptExists, Proceed, GoTo
<1>5. ASSUME NEW h \in Handlers, InspectReceipt(h)
     PROVE  Kept
  BY <1>5 DEF InspectReceipt, Answer, GoTo
<1>6. ASSUME NEW h \in Handlers, CallProvider(h)
     PROVE  Kept
  BY <1>6 DEF CallProvider, Proceed, GoTo
<1>7. ASSUME NEW h \in Handlers, ProviderRejects(h)
     PROVE  Kept
  BY <1>7 DEF ProviderRejects, Proceed, GoTo
<1>8. ASSUME NEW h \in Handlers, NEW c \in CallCosts \cup {NoCost}, ProviderReturns(h, c)
     PROVE  Kept
  BY <1>8 DEF ProviderReturns, GoTo
<1>9. ASSUME NEW h \in Handlers, CompleteGatewayReceipt(h)
     PROVE  Kept
  BY <1>9 DEF CompleteGatewayReceipt, Proceed, GoTo
<1>10. ASSUME NEW h \in Handlers, RecordCapabilityCost(h)
     PROVE  Kept
  BY <1>10 DEF RecordCapabilityCost, Answer, GoTo
<1>11. ASSUME NEW h \in Handlers, AbandonGatewayReceipt(h)
     PROVE  Kept
  BY <1>11 DEF AbandonGatewayReceipt, Answer, GoTo
<1>12. ASSUME NEW h \in Handlers, StatementFails(h)
     PROVE  Kept
  BY <1>12 DEF StatementFails, Answer, GoTo
<1>13. CASE GatewayCrashes
  BY <1>13 DEF GatewayCrashes
<1>14. CASE FenceMoves
  BY <1>14 DEF FenceMoves
<1>15. CASE UNCHANGED vars
  BY <1>15 DEF vars
<1> QED
  BY <1>1, <1>2, <1>3, <1>4, <1>5, <1>6, <1>7, <1>8, <1>9,
     <1>10, <1>11, <1>12, <1>13, <1>14, <1>15
  DEF Next, HandlerStep

\* The inductive invariant holds throughout: each receipt without a result has
\* at most one owner, and a produced result pins its receipt.
THEOREM Invariance == Spec => []GatewayInv
<1>1. Init => GatewayInv
  <2> SUFFICES ASSUME Init PROVE GatewayInv
    OBVIOUS
  <2>1. TypeOK
    BY DEF Init, TypeOK, Step, Reply
  <2> QED
    BY <2>1 DEF Init, GatewayInv, BusyHandlers, OwnedReceipts, OneOwner, Owning,
                ResultsHaveReceipts, OneResultPerInvocation
<1>2. GatewayInv /\ [Next]_vars => GatewayInv'
  BY TypeStep, BusyStep, OwnedStep, OneOwnerStep, ResultsStep DEF GatewayInv
<1> QED
  BY <1>1, <1>2, PTL DEF Spec

\* The handlers' locals, the rows and the history keep their types.
THEOREM TypeCorrect == Spec => []TypeOK
<1>1. GatewayInv => TypeOK
  BY DEF GatewayInv
<1> QED
  BY Invariance, <1>1, PTL

\* However an invocation is retried, providers return at most one result for it.
THEOREM AtMostOneResult == Spec => []OneResultPerInvocation
<1>1. GatewayInv => OneResultPerInvocation
  BY DEF GatewayInv
<1> QED
  BY Invariance, <1>1, PTL

\* A stored result is never deleted or replaced, so every replay answers alike.
THEOREM StoredResultStays == Spec => ResultIsPermanent
<1> DEFINE Same(j) == receipt'[j] = receipt[j] /\ stored'[j] = stored[j]
<1>1. GatewayInv /\ [Next]_vars
        => [\A i \in Invocations : stored[i] > 0
              => receipt'[i] = receipt[i] /\ stored'[i] = stored[i]]_vars
  <2> SUFFICES ASSUME GatewayInv, [Next]_vars, NEW j \in Invocations, stored[j] > 0
               PROVE  Same(j)
    OBVIOUS
  <2> USE DEF GatewayInv, TypeOK, BusyHandlers, OwnedReceipts, ResultsHaveReceipts, Owning,
              rowVars, handlerVars, historyVars
  <2>1. ASSUME NEW h \in Handlers, NEW i \in Invocations,
              NEW d \in Digests, Authorize(h, i, d)
       PROVE  Same(j)
      BY <2>1 DEF Authorize, GoTo
  <2>2. ASSUME NEW h \in Handlers, Reserve(h)
       PROVE  Same(j)
      BY <2>2 DEF Reserve, Proceed, GoTo
  <2>3. ASSUME NEW h \in Handlers, DenyBudget(h)
       PROVE  Same(j)
      BY <2>3 DEF DenyBudget, Answer, GoTo
  <2>4. ASSUME NEW h \in Handlers, ReceiptExists(h)
       PROVE  Same(j)
      BY <2>4 DEF ReceiptExists, Proceed, GoTo
  <2>5. ASSUME NEW h \in Handlers, InspectReceipt(h)
       PROVE  Same(j)
      BY <2>5 DEF InspectReceipt, Answer, GoTo
  <2>6. ASSUME NEW h \in Handlers, CallProvider(h)
       PROVE  Same(j)
      BY <2>6 DEF CallProvider, Proceed, GoTo
  <2>7. ASSUME NEW h \in Handlers, ProviderRejects(h)
       PROVE  Same(j)
      BY <2>7 DEF ProviderRejects, Proceed, GoTo
  <2>8. ASSUME NEW h \in Handlers, NEW c \in CallCosts \cup {NoCost}, ProviderReturns(h, c)
       PROVE  Same(j)
      BY <2>8 DEF ProviderReturns, GoTo
  <2>9. ASSUME NEW h \in Handlers, CompleteGatewayReceipt(h)
       PROVE  Same(j)
      BY <2>9 DEF CompleteGatewayReceipt, Proceed, GoTo
  <2>10. ASSUME NEW h \in Handlers, RecordCapabilityCost(h)
       PROVE  Same(j)
      BY <2>10 DEF RecordCapabilityCost, Answer, GoTo
  <2>11. ASSUME NEW h \in Handlers, AbandonGatewayReceipt(h)
       PROVE  Same(j)
      BY <2>11 DEF AbandonGatewayReceipt, Answer, GoTo
  <2>12. ASSUME NEW h \in Handlers, StatementFails(h)
       PROVE  Same(j)
      BY <2>12 DEF StatementFails, Answer, GoTo
  <2>13. CASE GatewayCrashes
      BY <2>13 DEF GatewayCrashes
  <2>14. CASE FenceMoves
      BY <2>14 DEF FenceMoves
  <2>15. CASE UNCHANGED vars
      BY <2>15 DEF vars
  <2> QED
      BY <2>1, <2>2, <2>3, <2>4, <2>5, <2>6, <2>7, <2>8, <2>9,
       <2>10, <2>11, <2>12, <2>13, <2>14, <2>15
    DEF Next, HandlerStep
<1> QED
  BY <1>1, Invariance, PTL DEF Spec, ResultIsPermanent

\* A provider that has answered an invocation is never called for it again.
THEOREM NoRepeatedCall == Spec => NoRepeatAfterReturn
<1> DEFINE Same(j) == dispatched'[j] = dispatched[j]
<1>1. GatewayInv /\ [Next]_vars
        => [\A i \in Invocations : produced[i] > 0 => dispatched'[i] = dispatched[i]]_vars
  <2> SUFFICES ASSUME GatewayInv, [Next]_vars, NEW j \in Invocations, produced[j] > 0
               PROVE  Same(j)
    OBVIOUS
  <2> USE DEF GatewayInv, TypeOK, BusyHandlers, OwnedReceipts, ResultsHaveReceipts, Owning,
              rowVars, handlerVars, historyVars
  <2>1. ASSUME NEW h \in Handlers, NEW i \in Invocations,
              NEW d \in Digests, Authorize(h, i, d)
       PROVE  Same(j)
      BY <2>1 DEF Authorize, GoTo
  <2>2. ASSUME NEW h \in Handlers, Reserve(h)
       PROVE  Same(j)
      BY <2>2 DEF Reserve, Proceed, GoTo
  <2>3. ASSUME NEW h \in Handlers, DenyBudget(h)
       PROVE  Same(j)
      BY <2>3 DEF DenyBudget, Answer, GoTo
  <2>4. ASSUME NEW h \in Handlers, ReceiptExists(h)
       PROVE  Same(j)
      BY <2>4 DEF ReceiptExists, Proceed, GoTo
  <2>5. ASSUME NEW h \in Handlers, InspectReceipt(h)
       PROVE  Same(j)
      BY <2>5 DEF InspectReceipt, Answer, GoTo
  <2>6. ASSUME NEW h \in Handlers, CallProvider(h)
       PROVE  Same(j)
      BY <2>6 DEF CallProvider, Proceed, GoTo
  <2>7. ASSUME NEW h \in Handlers, ProviderRejects(h)
       PROVE  Same(j)
      BY <2>7 DEF ProviderRejects, Proceed, GoTo
  <2>8. ASSUME NEW h \in Handlers, NEW c \in CallCosts \cup {NoCost}, ProviderReturns(h, c)
       PROVE  Same(j)
      BY <2>8 DEF ProviderReturns, GoTo
  <2>9. ASSUME NEW h \in Handlers, CompleteGatewayReceipt(h)
       PROVE  Same(j)
      BY <2>9 DEF CompleteGatewayReceipt, Proceed, GoTo
  <2>10. ASSUME NEW h \in Handlers, RecordCapabilityCost(h)
       PROVE  Same(j)
      BY <2>10 DEF RecordCapabilityCost, Answer, GoTo
  <2>11. ASSUME NEW h \in Handlers, AbandonGatewayReceipt(h)
       PROVE  Same(j)
      BY <2>11 DEF AbandonGatewayReceipt, Answer, GoTo
  <2>12. ASSUME NEW h \in Handlers, StatementFails(h)
       PROVE  Same(j)
      BY <2>12 DEF StatementFails, Answer, GoTo
  <2>13. CASE GatewayCrashes
      BY <2>13 DEF GatewayCrashes
  <2>14. CASE FenceMoves
      BY <2>14 DEF FenceMoves
  <2>15. CASE UNCHANGED vars
      BY <2>15 DEF vars
  <2> QED
      BY <2>1, <2>2, <2>3, <2>4, <2>5, <2>6, <2>7, <2>8, <2>9,
       <2>10, <2>11, <2>12, <2>13, <2>14, <2>15
    DEF Next, HandlerStep
<1> QED
  BY <1>1, Invariance, PTL DEF Spec, NoRepeatAfterReturn

-----------------------------------------------------------------------------
(* Budgets *)

\* Sizes of the sets of handlers the invariant counts.
LEMMA HandlerCounts ==
  ASSUME NEW S \in SUBSET Handlers
  PROVE  IsFiniteSet(S) /\ Cardinality(S) \in Nat /\ Cardinality(S) <= Cardinality(Handlers)
BY FiniteAssumption, FS_Subset, FS_CardinalityType

\* What a step does to the calls made and reserved: a reservation is added, turned
\* into a call, or handlers give theirs up.
LEMMA CallEffects ==
  ASSUME TypeOK, BusyHandlers, [Next]_vars
  PROVE  \/ \E h \in Handlers : Reserve(h)
         \/ \E h \in Handlers : CallProvider(h)
         \/ /\ UNCHANGED <<calls, modelCalls, dispatched>>
            /\ \A M \in SUBSET Invocations : ReservedFor(M)' \subseteq ReservedFor(M)
<1> DEFINE Kept == /\ UNCHANGED <<calls, modelCalls, dispatched>>
                   /\ \A g \in Handlers : step'[g] = "reserved" => step[g] = "reserved" /\ inv'[g] = inv[g]
<1> USE DEF TypeOK, rowVars, handlerVars, historyVars
<1>1. ASSUME NEW h \in Handlers, NEW i \in Invocations, NEW d \in Digests, Authorize(h, i, d)
      PROVE  Kept
  BY <1>1 DEF Authorize, GoTo
<1>2. ASSUME NEW h \in Handlers, DenyBudget(h) \/ StatementFails(h)
      PROVE  Kept
  BY <1>2 DEF DenyBudget, StatementFails, Answer, GoTo
<1>3. ASSUME NEW h \in Handlers, ReceiptExists(h) \/ ProviderRejects(h)
      PROVE  Kept
  BY <1>3 DEF ReceiptExists, ProviderRejects, Proceed, GoTo
<1>4. ASSUME NEW h \in Handlers, InspectReceipt(h)
      PROVE  Kept
  BY <1>4 DEF InspectReceipt, Answer, GoTo
<1>5. ASSUME NEW h \in Handlers, NEW c \in CallCosts \cup {NoCost}, ProviderReturns(h, c)
      PROVE  Kept
  BY <1>5 DEF ProviderReturns, GoTo
<1>6. ASSUME NEW h \in Handlers, CompleteGatewayReceipt(h)
      PROVE  Kept
  BY <1>6 DEF CompleteGatewayReceipt, Proceed, GoTo
<1>7. ASSUME NEW h \in Handlers, RecordCapabilityCost(h)
      PROVE  Kept
  BY <1>7 DEF RecordCapabilityCost, Answer, GoTo
<1>8. ASSUME NEW h \in Handlers, AbandonGatewayReceipt(h)
      PROVE  Kept
  BY <1>8 DEF AbandonGatewayReceipt, Answer, GoTo
<1>9. ASSUME GatewayCrashes
      PROVE  Kept
  BY <1>9 DEF GatewayCrashes
<1>10. ASSUME FenceMoves \/ UNCHANGED vars
       PROVE  Kept
  BY <1>10 DEF FenceMoves, vars
<1>11. Kept => \A M \in SUBSET Invocations : ReservedFor(M)' \subseteq ReservedFor(M)
  BY DEF ReservedFor
<1> QED
  BY <1>1, <1>2, <1>3, <1>4, <1>5, <1>6, <1>7, <1>8, <1>9, <1>10, <1>11 DEF Next, HandlerStep

\* reserveGatewayReceipt counts a call before it is made, in the statement that
\* tests the budget; making the call turns the reservation into the call.
LEMMA CallsStep == TypeOK /\ BusyHandlers /\ CallsAreCounted /\ [Next]_vars => CallsAreCounted'
<1> SUFFICES ASSUME TypeOK, BusyHandlers, CallsAreCounted, [Next]_vars PROVE CallsAreCounted'
  OBVIOUS
<1>1. TypeOK'
  BY TypeStep
<1>2. calls \in Nat /\ modelCalls \in Nat
  BY DEF TypeOK
<1>3. ASSUME NEW M \in SUBSET Invocations
      PROVE  /\ IsFiniteSet(M) /\ CallsMade(M) \in [M -> Nat] /\ CallsMade(M)' \in [M -> Nat]
             /\ ReservedFor(M) \in SUBSET Handlers /\ ReservedFor(M)' \in SUBSET Handlers
             /\ Total(CallsMade(M), M) \in Nat
             /\ Total(CallsMade(M), M)' = Total(CallsMade(M)', M)
  <2>1. IsFiniteSet(M)
    BY FiniteAssumption, FS_Subset
  <2>2. CallsMade(M) \in [M -> Nat] /\ CallsMade(M)' \in [M -> Nat]
    BY <1>1 DEF CallsMade, TypeOK
  <2>3. Total(CallsMade(M), M) \in Nat
    BY <2>1, <2>2, TotalMoves
  <2>4. ReservedFor(M) \in SUBSET Handlers /\ ReservedFor(M)' \in SUBSET Handlers
    BY DEF ReservedFor
  <2> QED
    BY <2>1, <2>2, <2>3, <2>4 DEF Total, MapThenSumSet, MapThenFoldSet
<1>4. CASE \E h \in Handlers : Reserve(h)
  <2>1. PICK h \in Handlers : Reserve(h)
    BY <1>4
  <2>2. inv[h] \in Invocations
    BY <2>1 DEF Reserve, BusyHandlers
  <2>3. ASSUME NEW M \in SUBSET Invocations, NEW n \in Nat, Counted(M, n)
        PROVE  Total(CallsMade(M), M)' + Cardinality(ReservedFor(M))' <= IF inv[h] \in M THEN n + 1 ELSE n
    <3>1. CallsMade(M)' = CallsMade(M)
      BY <2>1 DEF Reserve, CallsMade, historyVars
    <3>2. ReservedFor(M)' = IF inv[h] \in M THEN ReservedFor(M) \cup {h} ELSE ReservedFor(M)
      BY <2>1 DEF Reserve, Proceed, GoTo, ReservedFor, TypeOK
    <3>3. h \notin ReservedFor(M)
      BY <2>1 DEF Reserve, ReservedFor
    <3>4. Cardinality(ReservedFor(M))' =
            IF inv[h] \in M THEN Cardinality(ReservedFor(M)) + 1 ELSE Cardinality(ReservedFor(M))
      BY <1>3, <3>2, <3>3, HandlerCounts, FS_AddElement
    <3> QED
      BY <1>3, <2>3, <3>1, <3>4, HandlerCounts DEF Counted
  <2>4. /\ calls' = calls + 1 /\ calls < MaxCapabilityCalls
        /\ modelCalls' = IF inv[h] \in ModelInvocations THEN modelCalls + 1 ELSE modelCalls
        /\ inv[h] \in ModelInvocations => modelCalls < MaxModelCalls
    BY <2>1 DEF Reserve, WithinBudget
  <2>5. Counted(Invocations, calls)'
    BY <1>2, <2>2, <2>3, <2>4 DEF CallsAreCounted, Counted
  <2>6. Counted(ModelInvocations, modelCalls)'
    BY <1>2, <2>3, <2>4, FiniteAssumption DEF CallsAreCounted, Counted
  <2>7. calls' <= MaxCapabilityCalls /\ modelCalls' <= MaxModelCalls
    BY <1>2, <2>4 DEF CallsAreCounted
  <2> QED
    BY <2>5, <2>6, <2>7 DEF CallsAreCounted
<1>5. CASE \E h \in Handlers : CallProvider(h)
  <2>1. PICK h \in Handlers : CallProvider(h)
    BY <1>5
  <2>2. inv[h] \in Invocations
    BY <2>1 DEF CallProvider, BusyHandlers
  <2>3. ASSUME NEW M \in SUBSET Invocations, NEW n \in Nat, Counted(M, n)
        PROVE  Total(CallsMade(M), M)' + Cardinality(ReservedFor(M))' <= n
    <3>1. /\ \A i \in M : i # inv[h] => CallsMade(M)'[i] = CallsMade(M)[i]
          /\ inv[h] \in M => CallsMade(M)'[inv[h]] = CallsMade(M)[inv[h]] + 1
      BY <2>1 DEF CallProvider, CallsMade, TypeOK
    <3>2. /\ Total(CallsMade(M)', M) \in Nat
          /\ inv[h] \in M => Total(CallsMade(M)', M) = Total(CallsMade(M), M) + 1
          /\ inv[h] \notin M => Total(CallsMade(M)', M) = Total(CallsMade(M), M)
      <4>1. PICK f \in [M -> Nat] : f = CallsMade(M)
        BY <1>3
      <4>2. PICK g \in [M -> Nat] : g = CallsMade(M)'
        BY <1>3
      <4>3. PICK i : i = inv[h]
        OBVIOUS
      <4>4. /\ Total(f, M) \in Nat /\ Total(g, M) \in Nat
            /\ i \in M => Total(g, M) + f[i] = Total(f, M) + g[i]
            /\ i \notin M => Total(g, M) = Total(f, M)
        BY <1>3, <3>1, <4>1, <4>2, <4>3, TotalMoves
      <4>5. i \in M => f[i] \in Nat /\ g[i] = f[i] + 1
        BY <3>1, <4>1, <4>2, <4>3
      <4>6. i \in M => Total(g, M) = Total(f, M) + 1
        BY <4>4, <4>5
      <4> QED
        BY <4>1, <4>2, <4>3, <4>4, <4>6
    <3>3. ReservedFor(M)' = ReservedFor(M) \ {h}
      BY <2>1 DEF CallProvider, Proceed, GoTo, ReservedFor, TypeOK
    <3>4. inv[h] \in M <=> h \in ReservedFor(M)
      BY <2>1 DEF CallProvider, ReservedFor
    <3>5. Cardinality(ReservedFor(M))' =
            IF inv[h] \in M THEN Cardinality(ReservedFor(M)) - 1 ELSE Cardinality(ReservedFor(M))
      BY <1>3, <3>3, <3>4, HandlerCounts, FS_RemoveElement
    <3> QED
      BY <1>3, <2>3, <3>2, <3>5, HandlerCounts DEF Counted
  <2>4. UNCHANGED <<calls, modelCalls>>
    BY <2>1 DEF CallProvider, rowVars
  <2>5. Counted(Invocations, calls)' /\ Counted(ModelInvocations, modelCalls)'
    BY <1>2, <2>3, <2>4, FiniteAssumption DEF CallsAreCounted, Counted
  <2> QED
    BY <2>4, <2>5 DEF CallsAreCounted
<1>6. CASE /\ UNCHANGED <<calls, modelCalls, dispatched>>
           /\ \A M \in SUBSET Invocations : ReservedFor(M)' \subseteq ReservedFor(M)
  <2>1. ASSUME NEW M \in SUBSET Invocations, NEW n \in Nat, Counted(M, n)
        PROVE  Total(CallsMade(M), M)' + Cardinality(ReservedFor(M))' <= n
    <3>1. CallsMade(M)' = CallsMade(M)
      BY <1>6 DEF CallsMade
    <3>2. /\ Cardinality(ReservedFor(M)') <= Cardinality(ReservedFor(M))
          /\ Cardinality(ReservedFor(M)') \in Nat /\ Cardinality(ReservedFor(M)) \in Nat
      BY <1>3, <1>6, HandlerCounts, FS_Subset
    <3> QED
      BY <1>3, <2>1, <3>1, <3>2 DEF Counted
  <2>2. Counted(Invocations, calls)' /\ Counted(ModelInvocations, modelCalls)'
    BY <1>2, <1>6, <2>1, FiniteAssumption DEF CallsAreCounted, Counted
  <2> QED
    BY <1>6, <2>2 DEF CallsAreCounted
<1> QED
  BY <1>4, <1>5, <1>6, CallEffects

\* What a step does to the run's cost and the handlers that may still add to it.
LEMMA CostEffects ==
  ASSUME TypeOK, BusyHandlers, [Next]_vars
  PROVE  \/ \E h \in Handlers : Reserve(h)
         \/ \E h \in Handlers : RecordCapabilityCost(h)
         \/ cost' = cost /\ Charging' \subseteq Charging
<1> DEFINE In == {"reserved", "calling", "returned", "billing"}
           Kept == /\ cost' = cost
                   /\ \A g \in Handlers : step'[g] \in In => step[g] \in In
<1> USE DEF TypeOK, rowVars, handlerVars, historyVars
<1>1. ASSUME NEW h \in Handlers, NEW i \in Invocations, NEW d \in Digests, Authorize(h, i, d)
      PROVE  Kept
  BY <1>1 DEF Authorize, GoTo
<1>2. ASSUME NEW h \in Handlers, DenyBudget(h) \/ StatementFails(h)
      PROVE  Kept
  BY <1>2 DEF DenyBudget, StatementFails, Answer, GoTo
<1>3. ASSUME NEW h \in Handlers, ReceiptExists(h) \/ ProviderRejects(h)
      PROVE  Kept
  BY <1>3 DEF ReceiptExists, ProviderRejects, Proceed, GoTo
<1>4. ASSUME NEW h \in Handlers, InspectReceipt(h)
      PROVE  Kept
  BY <1>4 DEF InspectReceipt, Answer, GoTo
<1>5. ASSUME NEW h \in Handlers, NEW c \in CallCosts \cup {NoCost}, ProviderReturns(h, c)
      PROVE  Kept
  BY <1>5 DEF ProviderReturns, GoTo
<1>6. ASSUME NEW h \in Handlers, CompleteGatewayReceipt(h)
      PROVE  Kept
  BY <1>6 DEF CompleteGatewayReceipt, Proceed, GoTo
<1>7. ASSUME NEW h \in Handlers, CallProvider(h)
      PROVE  Kept
  BY <1>7 DEF CallProvider, Proceed, GoTo
<1>8. ASSUME NEW h \in Handlers, AbandonGatewayReceipt(h)
      PROVE  Kept
  BY <1>8 DEF AbandonGatewayReceipt, Answer, GoTo
<1>9. ASSUME GatewayCrashes
      PROVE  Kept
  BY <1>9 DEF GatewayCrashes
<1>10. ASSUME FenceMoves \/ UNCHANGED vars
       PROVE  Kept
  BY <1>10 DEF FenceMoves, vars
<1>11. Kept => cost' = cost /\ Charging' \subseteq Charging
  BY DEF Charging
<1> QED
  BY <1>1, <1>2, <1>3, <1>4, <1>5, <1>6, <1>7, <1>8, <1>9, <1>10, <1>11 DEF Next, HandlerStep

\* Multiples of a charge.
LEMMA Multiples ==
  ASSUME NEW c \in Nat, NEW m \in Nat, NEW n \in Nat
  PROVE  /\ m * c \in Nat
         /\ (m + 1) * c = m * c + c
         /\ m <= n => m * c <= n * c
<1>1. (m + 1) * c = m * c + c /\ m * c \in Nat
  OBVIOUS
<1>2. ASSUME m <= n PROVE m * c <= n * c
  <2>1. n - m \in Nat /\ (n - m) * c \in Nat
    BY <1>2
  <2>2. n * c = m * c + (n - m) * c
    OBVIOUS
  <2>3. n * c \in Nat /\ m * c \in Nat
    OBVIOUS
  <2> QED
    BY <2>1, <2>2, <2>3
<1> QED
  BY <1>1, <1>2

\* A recorded charge takes no more than the room its handler held.
LEMMA ChargeMoves ==
  ASSUME NEW before \in Nat, NEW after \in Nat, NEW c \in Nat, NEW rest \in Nat, NEW room \in Nat,
         NEW limit \in Nat, NEW over \in Nat,
         room = rest + c, after <= before + c, before + room < limit + over
  PROVE  after + rest < limit + over
OBVIOUS

\* The cost is tested when a handler reserves and added when it has its answer: in
\* between it holds room for one charge.
LEMMA BoundStep == TypeOK /\ BusyHandlers /\ ChargesAreBounded /\ [Next]_vars => ChargesAreBounded'
<1> SUFFICES ASSUME TypeOK, BusyHandlers, ChargesAreBounded, [Next]_vars,
                    NEW c \in CallCosts, \A d \in CallCosts : d <= c,
                    cost' > 0 \/ Charging' # {}
             PROVE  cost' + Cardinality(Charging)' * c < MaxCostUsd + Cardinality(Handlers) * c
  BY DEF ChargesAreBounded
<1>1. c \in Nat /\ cost \in Nat /\ MaxCostUsd \in Nat
  BY DEF TypeOK
<1>2. Charging \in SUBSET Handlers /\ Charging' \in SUBSET Handlers /\ Handlers \in SUBSET Handlers
  BY DEF Charging
<1>3. PICK k \in Nat : k = Cardinality(Charging)
  BY <1>2, HandlerCounts
<1>4. PICK l \in Nat : l = Cardinality(Charging)'
  BY <1>2, HandlerCounts
<1>5. PICK n \in Nat : n = Cardinality(Handlers)
  BY <1>2, HandlerCounts
<1>6. k <= n /\ l <= n
  BY <1>2, <1>3, <1>4, <1>5, HandlerCounts
<1>7. PICK kc \in Nat : kc = k * c
  BY <1>1, Multiples
<1>8. PICK lc \in Nat : lc = l * c
  BY <1>1, Multiples
<1>9. PICK nc \in Nat : nc = n * c
  BY <1>1, Multiples
<1>10. cost > 0 \/ Charging # {} => cost + kc < MaxCostUsd + nc
  BY <1>3, <1>5, <1>7, <1>9 DEF ChargesAreBounded
<1>11. cost' + lc < MaxCostUsd + nc
  <2>1. CASE \E h \in Handlers : Reserve(h)
    <3>1. cost' = cost /\ cost < MaxCostUsd
      BY <2>1 DEF Reserve, WithinBudget
    <3>2. lc <= nc
      BY <1>1, <1>6, <1>8, <1>9, Multiples
    <3> QED
      BY <1>1, <3>1, <3>2
  <2>2. CASE \E h \in Handlers : RecordCapabilityCost(h)
    <3>1. PICK h \in Handlers : RecordCapabilityCost(h)
      BY <2>2
    <3>2. h \in Charging /\ Charging' = Charging \ {h}
      BY <3>1 DEF RecordCapabilityCost, Answer, GoTo, Charging, TypeOK
    <3>3. k = l + 1
      BY <1>2, <1>3, <1>4, <3>2, HandlerCounts, FS_RemoveElement
    <3>4. kc = lc + c
      BY <1>1, <1>7, <1>8, <3>3, Multiples
    <3>5. cost' <= cost + c /\ cost' \in Nat
      <4>1. heldCost[h] = NoCost \/ (heldCost[h] \in CallCosts /\ heldCost[h] \in Nat /\ heldCost[h] <= c)
        BY DEF TypeOK
      <4>2. cost' = IF heldCost[h] = NoCost THEN cost ELSE cost + heldCost[h]
        BY <3>1 DEF RecordCapabilityCost
      <4> QED
        BY <1>1, <4>1, <4>2
    <3>6. cost + kc < MaxCostUsd + nc
      BY <1>10, <3>2
    <3> QED
      BY <1>1, <3>4, <3>5, <3>6, ChargeMoves
  <2>3. CASE cost' = cost /\ Charging' \subseteq Charging
    <3>1. l <= k
      BY <1>2, <1>3, <1>4, <2>3, HandlerCounts, FS_Subset
    <3>2. lc <= kc
      BY <1>1, <1>7, <1>8, <3>1, Multiples
    <3>3. cost > 0 \/ Charging # {}
      BY <2>3
    <3> QED
      BY <1>1, <1>10, <2>3, <3>2, <3>3
  <2> QED
    BY <2>1, <2>2, <2>3, CostEffects
<1> QED
  BY <1>4, <1>5, <1>8, <1>9, <1>11

\* What a step does to charges: a provider charges, a charge is recorded, or
\* charges are lost with the handlers that held them.
LEMMA ChargeEffects ==
  ASSUME TypeOK, BusyHandlers, [Next]_vars
  PROVE  \/ \E h \in Handlers, c \in CallCosts \cup {NoCost} : ProviderReturns(h, c)
         \/ \E h \in Handlers : RecordCapabilityCost(h)
         \/ GatewayCrashes
         \/ /\ UNCHANGED <<cost, spent>>
            /\ \E h : \A g \in Handlers : /\ g # h => Outstanding'[g] = Outstanding[g]
                                         /\ Outstanding'[g] <= Outstanding[g]
<1> DEFINE Kept == /\ UNCHANGED <<cost, spent>>
                   /\ \E h : \A g \in Handlers : /\ g # h => Outstanding'[g] = Outstanding[g]
                                                /\ Outstanding'[g] <= Outstanding[g]
<1>1. ASSUME NEW g \in Handlers
      PROVE  /\ Outstanding[g] \in Nat
             /\ step'[g] = step[g] /\ heldCost'[g] = heldCost[g] => Outstanding'[g] = Outstanding[g]
             /\ step'[g] \notin {"returned", "billing"} => Outstanding'[g] = 0
  BY DEF Outstanding, TypeOK
<1>2. ASSUME NEW h \in Handlers, UNCHANGED <<cost, spent>>, step'[h] \notin {"returned", "billing"},
             \A g \in Handlers \ {h} : step'[g] = step[g] /\ heldCost'[g] = heldCost[g]
      PROVE  Kept
  <2>1. \A g \in Handlers : /\ g # h => Outstanding'[g] = Outstanding[g]
                            /\ Outstanding'[g] <= Outstanding[g]
    BY <1>1, <1>2
  <2> QED
    BY <1>2, <2>1
<1> USE DEF TypeOK, rowVars, handlerVars, historyVars
<1>3. ASSUME NEW h \in Handlers, NEW i \in Invocations, NEW d \in Digests, Authorize(h, i, d)
      PROVE  Kept
  <2>1. /\ UNCHANGED <<cost, spent>> /\ step'[h] \notin {"returned", "billing"}
        /\ \A g \in Handlers \ {h} : step'[g] = step[g] /\ heldCost'[g] = heldCost[g]
    BY <1>3 DEF Authorize, GoTo
  <2> QED
    BY <1>2, <2>1
<1>4. ASSUME NEW h \in Handlers, DenyBudget(h) \/ StatementFails(h) \/ InspectReceipt(h) \/ AbandonGatewayReceipt(h)
      PROVE  Kept
  <2>1. /\ UNCHANGED <<cost, spent>> /\ step'[h] \notin {"returned", "billing"}
        /\ \A g \in Handlers \ {h} : step'[g] = step[g] /\ heldCost'[g] = heldCost[g]
    BY <1>4 DEF DenyBudget, StatementFails, InspectReceipt, AbandonGatewayReceipt, Answer, GoTo
  <2> QED
    BY <1>2, <2>1
<1>5. ASSUME NEW h \in Handlers, Reserve(h) \/ ReceiptExists(h) \/ CallProvider(h) \/ ProviderRejects(h)
      PROVE  Kept
  <2>1. /\ UNCHANGED <<cost, spent>> /\ step'[h] \notin {"returned", "billing"}
        /\ \A g \in Handlers \ {h} : step'[g] = step[g] /\ heldCost'[g] = heldCost[g]
    BY <1>5 DEF Reserve, ReceiptExists, CallProvider, ProviderRejects, Proceed, GoTo
  <2> QED
    BY <1>2, <2>1
<1>6. ASSUME NEW h \in Handlers, CompleteGatewayReceipt(h)
      PROVE  Kept
  <2>1. UNCHANGED <<cost, spent, heldCost>>
    BY <1>6 DEF CompleteGatewayReceipt, Proceed
  <2>2. \A g \in Handlers : step'[g] \in {"returned", "billing"} <=> step[g] \in {"returned", "billing"}
    BY <1>6 DEF CompleteGatewayReceipt, Proceed, GoTo
  <2>3. Outstanding' = Outstanding
    BY <2>1, <2>2 DEF Outstanding
  <2> QED
    BY <1>1, <2>1, <2>3
<1>7. ASSUME FenceMoves \/ UNCHANGED vars
      PROVE  Kept
  <2>1. UNCHANGED <<cost, spent, step, heldCost>>
    BY <1>7 DEF FenceMoves, vars
  <2>2. Outstanding' = Outstanding
    BY <2>1 DEF Outstanding
  <2> QED
    BY <1>1, <2>1, <2>2
<1> QED
  BY <1>3, <1>4, <1>5, <1>6, <1>7 DEF Next, HandlerStep

\* A charge is outstanding from the provider's answer until it is recorded once.
LEMMA CoveredStep == TypeOK /\ BusyHandlers /\ ChargesAreCovered /\ [Next]_vars => ChargesAreCovered'
<1> SUFFICES ASSUME TypeOK, BusyHandlers, ChargesAreCovered, [Next]_vars PROVE ChargesAreCovered'
  OBVIOUS
<1>1. cost \in Nat /\ spent \in Nat /\ cost' \in Nat /\ spent' \in Nat
  BY TypeStep DEF TypeOK
<1>2. PICK f \in [Handlers -> Nat] : f = Outstanding
  BY DEF Outstanding, TypeOK
<1>3. PICK g \in [Handlers -> Nat] : g = Outstanding'
  BY TypeStep DEF Outstanding, TypeOK
<1>4. /\ Total(f, Handlers) \in Nat /\ Total(g, Handlers) \in Nat
      /\ \A h \in Handlers : (\A x \in Handlers : x # h => f[x] = g[x]) =>
           Total(g, Handlers) + f[h] = Total(f, Handlers) + g[h]
      /\ \A h : h \notin Handlers /\ (\A x \in Handlers : x # h => f[x] = g[x]) =>
           Total(g, Handlers) = Total(f, Handlers)
  BY FiniteAssumption, TotalMoves
<1>5. cost + Total(f, Handlers) <= spent
  BY <1>2 DEF ChargesAreCovered
<1>6. cost' + Total(g, Handlers) <= spent'
  <2>1. CASE \E h \in Handlers, c \in CallCosts \cup {NoCost} : ProviderReturns(h, c)
    <3>1. PICK h \in Handlers, c \in CallCosts \cup {NoCost} : ProviderReturns(h, c)
      BY <2>1
    <3>2. \A x \in Handlers : x # h => f[x] = g[x]
      BY <1>2, <1>3, <3>1 DEF ProviderReturns, GoTo, Outstanding, TypeOK
    <3>3. f[h] = 0 /\ g[h] = IF c = NoCost THEN 0 ELSE c
      BY <1>2, <1>3, <3>1 DEF ProviderReturns, GoTo, Outstanding, TypeOK
    <3>4. cost' = cost /\ spent' = spent + g[h]
      BY <1>1, <3>1, <3>3 DEF ProviderReturns, rowVars
    <3>5. Total(g, Handlers) = Total(f, Handlers) + g[h] /\ g[h] \in Nat
      BY <1>4, <3>2, <3>3
    <3> QED
      BY <1>1, <1>4, <1>5, <3>4, <3>5
  <2>2. CASE \E h \in Handlers : RecordCapabilityCost(h)
    <3>1. PICK h \in Handlers : RecordCapabilityCost(h)
      BY <2>2
    <3>2. \A x \in Handlers : x # h => f[x] = g[x]
      BY <1>2, <1>3, <3>1 DEF RecordCapabilityCost, Answer, GoTo, Outstanding, TypeOK
    <3>3. g[h] = 0 /\ f[h] = IF heldCost[h] = NoCost THEN 0 ELSE heldCost[h]
      BY <1>2, <1>3, <3>1 DEF RecordCapabilityCost, Answer, GoTo, Outstanding, TypeOK
    <3>4. cost' = cost + f[h] /\ spent' = spent
      BY <1>1, <3>1, <3>3 DEF RecordCapabilityCost, historyVars
    <3>5. Total(f, Handlers) = Total(g, Handlers) + f[h] /\ f[h] \in Nat
      BY <1>4, <3>2, <3>3
    <3> QED
      BY <1>1, <1>4, <1>5, <3>4, <3>5
  <2>3. CASE GatewayCrashes
    <3>1. g = [h \in Handlers |-> 0]
      BY <1>3, <2>3 DEF GatewayCrashes, Outstanding
    <3>2. Total(g, Handlers) = 0
      BY <3>1, FiniteAssumption, TotalOfZero
    <3>3. cost' = cost /\ spent' = spent
      BY <2>3 DEF GatewayCrashes, rowVars, historyVars
    <3> QED
      BY <1>1, <1>4, <1>5, <3>2, <3>3
  <2>4. CASE /\ UNCHANGED <<cost, spent>>
             /\ \E h : \A x \in Handlers : /\ x # h => Outstanding'[x] = Outstanding[x]
                                          /\ Outstanding'[x] <= Outstanding[x]
    <3>1. PICK h : \A x \in Handlers : (x # h => g[x] = f[x]) /\ g[x] <= f[x]
      BY <1>2, <1>3, <2>4
    <3>2. CASE h \in Handlers
      <4>1. Total(g, Handlers) + f[h] = Total(f, Handlers) + g[h] /\ f[h] \in Nat /\ g[h] \in Nat /\ g[h] <= f[h]
        BY <1>4, <3>1, <3>2
      <4> QED
        BY <1>1, <1>4, <1>5, <2>4, <4>1
    <3>3. CASE h \notin Handlers
      <4>1. Total(g, Handlers) = Total(f, Handlers)
        BY <1>4, <3>1, <3>3
      <4> QED
        BY <1>5, <2>4, <4>1
    <3> QED
      BY <3>2, <3>3
  <2> QED
    BY <2>1, <2>2, <2>3, <2>4, ChargeEffects
<1>7. Total(Outstanding, Handlers)' = Total(g, Handlers)
  BY <1>3 DEF Total, MapThenSumSet, MapThenFoldSet
<1> QED
  BY <1>6, <1>7 DEF ChargesAreCovered

\* Calls and charges are accounted for throughout: every call, made or about to
\* be, was counted, every handler has room for its charge, and what is recorded
\* was charged.
THEOREM BudgetInvariance == Spec => []BudgetInv
<1>1. Init => BudgetInv
  <2> SUFFICES ASSUME Init PROVE BudgetInv
    OBVIOUS
  <2>1. ASSUME NEW M \in SUBSET Invocations
        PROVE  Counted(M, 0)
    <3>1. CallsMade(M) = [i \in M |-> 0] /\ ReservedFor(M) = {} /\ IsFiniteSet(M)
      BY FiniteAssumption, FS_Subset DEF Init, CallsMade, ReservedFor
    <3>2. Total(CallsMade(M), M) = 0 /\ Cardinality(ReservedFor(M)) = 0
      BY <3>1, TotalOfZero, FS_EmptySet
    <3> QED
      BY <3>2 DEF Counted
  <2>2. CallsAreCounted
    BY <2>1, FiniteAssumption DEF Init, CallsAreCounted
  <2>3. ChargesAreBounded
    <3>1. cost = 0 /\ Charging = {}
      BY DEF Init, Charging
    <3> QED
      BY <3>1 DEF ChargesAreBounded
  <2>4. ChargesAreCovered
    <3>1. Outstanding = [h \in Handlers |-> 0]
      BY DEF Init, Outstanding
    <3>2. Total(Outstanding, Handlers) = 0
      BY <3>1, FiniteAssumption, TotalOfZero
    <3> QED
      BY <3>2 DEF Init, ChargesAreCovered
  <2> QED
    BY <2>2, <2>3, <2>4 DEF BudgetInv
<1>2. GatewayInv /\ BudgetInv /\ [Next]_vars => BudgetInv'
  BY CallsStep, BoundStep, CoveredStep DEF GatewayInv, BudgetInv
<1> QED
  BY <1>1, <1>2, Invariance, PTL DEF Spec

\* Providers are never called more often than the plan's budgets allow, for tools
\* and for models, and the recorded cost overshoots its limit by less than one
\* charge for each request that can be in flight.
THEOREM BudgetsAreKept == Spec => []BudgetsHold
<1>1. GatewayInv /\ BudgetInv => BudgetsHold
  <2> SUFFICES ASSUME GatewayInv, BudgetInv PROVE BudgetsHold
    OBVIOUS
  <2>1. calls \in Nat /\ modelCalls \in Nat /\ cost \in Nat
    BY DEF GatewayInv, TypeOK
  <2>2. ASSUME NEW M \in SUBSET Invocations, NEW n \in Nat, NEW m \in Nat, Counted(M, n), n <= m
        PROVE  Total(CallsMade(M), M) <= m
    <3>1. IsFiniteSet(M) /\ CallsMade(M) \in [M -> Nat] /\ ReservedFor(M) \in SUBSET Handlers
      BY FiniteAssumption, FS_Subset DEF CallsMade, ReservedFor, GatewayInv, TypeOK
    <3>2. Total(CallsMade(M), M) \in Nat /\ Cardinality(ReservedFor(M)) \in Nat
      BY <3>1, TotalMoves, HandlerCounts
    <3> QED
      BY <2>2, <3>2 DEF Counted
  <2>3. /\ Total(CallsMade(Invocations), Invocations) <= MaxCapabilityCalls
        /\ Total(CallsMade(ModelInvocations), ModelInvocations) <= MaxModelCalls
    BY <2>1, <2>2, FiniteAssumption DEF BudgetInv, CallsAreCounted
  <2>4. ASSUME NEW c \in CallCosts, \A d \in CallCosts : d <= c, cost > 0
        PROVE  cost < MaxCostUsd + Cardinality(Handlers) * c
    <3>1. Charging \in SUBSET Handlers /\ Handlers \in SUBSET Handlers
      BY DEF Charging
    <3>2. Cardinality(Charging) \in Nat /\ Cardinality(Handlers) \in Nat /\ c \in Nat
      BY <3>1, HandlerCounts
    <3>3. Cardinality(Charging) * c \in Nat /\ Cardinality(Handlers) * c \in Nat
      BY <3>2, Multiples
    <3>4. cost + Cardinality(Charging) * c < MaxCostUsd + Cardinality(Handlers) * c
      BY <2>4 DEF BudgetInv, ChargesAreBounded
    <3> QED
      BY <2>1, <3>3, <3>4
  <2> QED
    BY <2>3, <2>4 DEF BudgetsHold
<1> QED
  BY <1>1, Invariance, BudgetInvariance, PTL

\* No result is billed twice, over replays, crashes and failed statements.
THEOREM ChargesAreBilledOnce == Spec => []BilledAtMostOnce
<1>1. GatewayInv /\ BudgetInv => BilledAtMostOnce
  <2> SUFFICES ASSUME GatewayInv, BudgetInv PROVE BilledAtMostOnce
    OBVIOUS
  <2>1. cost \in Nat /\ spent \in Nat
    BY DEF GatewayInv, TypeOK
  <2>2. Outstanding \in [Handlers -> Nat]
    BY DEF Outstanding, GatewayInv, TypeOK
  <2>3. Total(Outstanding, Handlers) \in Nat
    BY <2>2, FiniteAssumption, TotalMoves
  <2> QED
    BY <2>1, <2>3 DEF BudgetInv, ChargesAreCovered, BilledAtMostOnce
<1> QED
  BY <1>1, Invariance, BudgetInvariance, PTL
=============================================================================
