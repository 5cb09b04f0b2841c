---------------------------- MODULE BudgetsProofs ----------------------------
(***************************************************************************)
(* Theorems of Budgets, for any number of requests, callers and caps.      *)
(***************************************************************************)
EXTENDS Budgets, FiniteSetTheorems, WellFoundedInduction, TLAPS

-----------------------------------------------------------------------------
(* Types *)

LEMMA WindowStartBelow ==
    ASSUME NEW t \in Nat, NEW window \in Nat
    PROVE  /\ WindowStart(t, window) \in Int
           /\ WindowStart(t, window) <= t
           /\ window > 0 => WindowStart(t, window) > t - window
<1>1. CASE window = 0
  BY <1>1 DEF WindowStart
<1>2. CASE window > 0
  <2>1. t % window \in 0 .. window - 1
    BY <1>2
  <2>2. WindowStart(t, window) = t - (t % window)
    BY <1>2 DEF WindowStart
  <2> QED BY <2>1, <2>2
<1> QED BY <1>1, <1>2

LEMMA NoRequestTyped == NoRequest \in Request
<1>1. 0 \in Seconds
  BY BudgetAssumption DEF Seconds
<1>2. /\ (CHOOSE c \in Callers : TRUE) \in Callers
      /\ (CHOOSE m \in Models : TRUE) \in Models
  BY BudgetAssumption
<1> QED BY <1>1, <1>2 DEF NoRequest, Request, Phases, Kinds

LEMMA GoTyped ==
    ASSUME TypeOK, NEW r \in Requests, NEW phase \in Phases, Go(r, phase)
    PROVE  req' \in [Requests -> Request]
<1>1. req[r] \in Request
  BY DEF TypeOK
<1>2. [req[r] EXCEPT !.pc = phase] \in Request
  BY <1>1 DEF Request
<1> QED BY <1>2 DEF Go, TypeOK

LEMMA GoOnTyped ==
    ASSUME TypeOK, NEW r \in Requests, NEW phase \in Phases, GoOn(r, phase)
    PROVE  req' \in [Requests -> Request]
<1>1. req[r] \in Request /\ 0 \in Seconds
  BY BudgetAssumption DEF TypeOK, Seconds
<1>2. [[[req[r] EXCEPT !.pc = phase] EXCEPT !.at = 0] EXCEPT !.cost = 0] \in Request
  BY <1>1 DEF Request
<1> QED BY <1>2 DEF GoOn, TypeOK

LEMMA EndTyped ==
    ASSUME TypeOK, NEW r \in Requests, End(r)
    PROVE  req' \in [Requests -> Request]
BY NoRequestTyped DEF End, TypeOK

LEMMA HandRowTyped ==
    ASSUME TypeOK, NEW r \in Requests, HandRow(r)
    PROVE  rows' \in [Requests -> Nat]
BY DEF HandRow, TypeOK

LEMMA FailTyped ==
    ASSUME TypeOK, NEW r \in Requests, FailWithRow(r)
    PROVE  TypeOK'
<1>1. req' \in [Requests -> Request]
  BY EndTyped DEF FailWithRow
<1>2. rows' \in [Requests -> Nat]
  BY HandRowTyped DEF FailWithRow
<1> QED BY <1>1, <1>2 DEF FailWithRow, TypeOK

LEMMA PricedTyped ==
    ASSUME TypeOK, NEW r \in Requests, NEW c \in Costs, Priced(r, c)
    PROVE  TypeOK'
<1>1. req[r] \in Request /\ now \in Seconds /\ c \in Nat
  BY BudgetAssumption DEF TypeOK
<1>2. [[[req[r] EXCEPT !.pc = "row"] EXCEPT !.cost = c] EXCEPT !.at = now] \in Request
  BY <1>1 DEF Request, Phases
<1>3. req' \in [Requests -> Request]
  BY <1>2 DEF Priced, TypeOK
<1> QED BY <1>3 DEF Priced, TypeOK

LEMMA ChargedTyped ==
    ASSUME NEW table \in [Callers -> [Seconds -> Nat]], NEW r \in Requests,
           req[r] \in Request
    PROVE  Charged(table, r) \in [Callers -> [Seconds -> Nat]]
BY DEF Charged, Request

LEMMA KeptTyped ==
    ASSUME NEW table \in [Callers -> [Seconds -> Nat]], NEW before
    PROVE  Kept(table, before) \in [Callers -> [Seconds -> Nat]]
BY DEF Kept

LEMMA AfterRowTyped ==
    ASSUME TypeOK, NEW r \in Requests, AfterRow(r)
    PROVE  req' \in [Requests -> Request]
<1>1. "seed" \in Phases
  BY DEF Phases
<1> QED BY <1>1, GoOnTyped, EndTyped DEF AfterRow

LEMMA StepTyped ==
    ASSUME TypeOK, NEW r \in Requests, Step(r)
    PROVE  TypeOK'
<1>0. req[r] \in Request /\ now \in Seconds
  BY DEF TypeOK
<1>p. /\ "org" \in Phases /\ "key" \in Phases /\ "admitted" \in Phases
      /\ "upstream" \in Phases /\ "streaming" \in Phases
  BY DEF Phases
<1>1. ASSUME NEW c \in Callers, NEW m \in Models,
             NEW k \in UsedKinds, Begin(r, c, m, k)
      PROVE  TypeOK'
  <2>1. 0 \in Seconds
    BY BudgetAssumption DEF Seconds
  <2>2. [pc |-> "enforce", caller |-> c, model |-> m, kind |-> k,
         at |-> 0, cost |-> 0] \in Request
    BY <2>1, BudgetAssumption DEF Request, Phases, Kinds
  <2> QED BY <1>1, <2>2 DEF Begin, TypeOK
<1>2. CASE DenyAccess(r) \/ RejectOverCap(r) \/ RejectUnchecked(r) \/ Fail(r)
  BY <1>2, FailTyped DEF DenyAccess, RejectOverCap, RejectUnchecked, Fail
<1>3. CASE ReadClock(r)
  <2>1. [[req[r] EXCEPT !.pc = "org"] EXCEPT !.at = now] \in Request
    BY <1>0, <1>p DEF Request
  <2>2. req' \in [Requests -> Request]
    BY <1>3, <2>1 DEF ReadClock, GoWithClock, TypeOK
  <2> QED BY <1>3, <2>2 DEF ReadClock, TypeOK
<1>4. CASE PassOrg(r)
  <2>1. req' \in [Requests -> Request]
    BY <1>4, <1>p, GoTyped DEF PassOrg
  <2> QED BY <1>4, <2>1 DEF PassOrg, TypeOK
<1>5. CASE PassKey(r)
  <2>1. req' \in [Requests -> Request]
    BY <1>5, <1>p, GoOnTyped DEF PassKey
  <2> QED BY <1>5, <2>1 DEF PassKey, TypeOK
<1>6. CASE ServeCached(r)
  <2>1. [[[req[r] EXCEPT !.pc = "row"] EXCEPT !.kind = "hit"] EXCEPT !.at = now] \in Request
    BY <1>0 DEF Request, Phases, Kinds
  <2>2. req' \in [Requests -> Request]
    BY <1>6, <2>1 DEF ServeCached, TypeOK
  <2> QED BY <1>6, <2>2 DEF ServeCached, TypeOK
<1>7. CASE CallRouter(r)
  <2>1. req' \in [Requests -> Request]
    BY <1>7, <1>p, GoTyped DEF CallRouter
  <2> QED BY <1>7, <2>1 DEF CallRouter, TypeOK
<1>8. CASE OpenStream(r)
  <2>1. req' \in [Requests -> Request]
    BY <1>8, <1>p, GoTyped DEF OpenStream
  <2> QED BY <1>8, <2>1 DEF OpenStream, TypeOK
<1>9. ASSUME NEW c \in Costs, Answered(r, c) \/ CloseStream(r, c)
      PROVE  TypeOK'
  BY <1>9, PricedTyped DEF Answered, CloseStream
<1>10. CASE InsertRow(r)
  <2>1. /\ req' \in [Requests -> Request]
        /\ rows' \in [Requests -> Nat]
    BY <1>10, AfterRowTyped, HandRowTyped DEF InsertRow
  <2>2. /\ ledger' \in [Callers -> [Seconds -> Nat]]
        /\ spent' \in [Callers -> [Seconds -> Nat]]
    BY <1>10, <1>0, ChargedTyped DEF InsertRow, TypeOK
  <2> QED BY <1>10, <2>1, <2>2 DEF InsertRow, TypeOK
<1>11. CASE LoseRow(r)
  <2>1. /\ req' \in [Requests -> Request]
        /\ rows' \in [Requests -> Nat]
    BY <1>11, AfterRowTyped, HandRowTyped DEF LoseRow
  <2> QED BY <1>11, <2>1 DEF LoseRow, TypeOK
<1>12. CASE SeedCache(r)
  <2>1. req' \in [Requests -> Request]
    BY <1>12, EndTyped DEF SeedCache
  <2>2. cached' \in SUBSET Models
    BY <1>12, <1>0 DEF SeedCache, TypeOK, Request
  <2> QED BY <1>12, <2>1, <2>2 DEF SeedCache, TypeOK
<1> QED BY <1>1, <1>2, <1>3, <1>4, <1>5, <1>6, <1>7, <1>8, <1>9, <1>10, <1>11,
           <1>12 DEF Step

LEMMA InitTyped ==
    ASSUME Init
    PROVE  TypeOK
<1>1. 0 \in Seconds
  BY BudgetAssumption DEF Seconds
<1> QED BY <1>1, NoRequestTyped DEF Init, TypeOK

LEMMA PurgeTyped ==
    ASSUME TypeOK, NEW before, ledger' = Kept(ledger, before),
           UNCHANGED <<now, req, rows, cached, spent>>
    PROVE  TypeOK'
BY KeptTyped DEF TypeOK

LEMMA NextTyped ==
    ASSUME TypeOK, [Next]_vars
    PROVE  TypeOK'
<1>1. ASSUME NEW r \in Requests, Step(r) PROVE TypeOK'
  BY <1>1, StepTyped
<1>2. CASE Purge
  BY <1>2, PurgeTyped DEF Purge
<1>3. ASSUME NEW period \in Overrides, PurgeOlderThan(period) PROVE TypeOK'
  BY <1>3, PurgeTyped DEF PurgeOlderThan
<1>4. CASE Tick
  BY <1>4, BudgetAssumption DEF Tick, TypeOK, Seconds
<1>5. CASE UNCHANGED vars
  BY <1>5 DEF vars, TypeOK
<1> QED BY <1>1, <1>2, <1>3, <1>4, <1>5 DEF Next

\* Every reachable state of the requests, the log and the cache is well typed.
THEOREM TypeCorrect == Spec => []TypeOK
BY InitTyped, NextTyped, PTL DEF Spec

-----------------------------------------------------------------------------
(* The purge and the windows *)

Periods == Overrides \cup (IF Period > 0 THEN {Period} ELSE {})

\* A purge only deletes what is older than its period.
RetainedRowsAgree ==
    \A c \in Callers, t \in Seconds :
        (\A p \in Periods : t >= now - p) => ledger[c][t] = spent[c][t]

LEMMA OnlyInsertsCharge ==
    ASSUME NEW r \in Requests, Step(r)
    PROVE  InsertRow(r) \/ UNCHANGED <<now, ledger, spent>>
BY DEF Step, Begin, DenyAccess, ReadClock, PassOrg, PassKey, RejectOverCap,
       RejectUnchecked, FailWithRow, ServeCached, CallRouter, OpenStream, Fail,
       Answered, CloseStream, Priced, LoseRow, SeedCache

LEMMA InsertKeepsAgreement ==
    ASSUME TypeOK, RetainedRowsAgree, NEW r \in Requests, InsertRow(r)
    PROVE  RetainedRowsAgree'
<1> DEFINE who == req[r].caller
           second == req[r].at
<1>1. who \in Callers /\ second \in Seconds /\ req[r].cost \in Nat
  BY DEF TypeOK, Request
<1>2. now' = now /\ ledger' = Charged(ledger, r) /\ spent' = Charged(spent, r)
  BY DEF InsertRow
<1> SUFFICES ASSUME NEW c \in Callers, NEW t \in Seconds,
                    \A p \in Periods : t >= now - p
             PROVE  Charged(ledger, r)[c][t] = Charged(spent, r)[c][t]
  BY <1>2 DEF RetainedRowsAgree
<1>3. ledger[c][t] = spent[c][t]
  BY DEF RetainedRowsAgree
<1> QED BY <1>1, <1>3 DEF Charged, TypeOK

LEMMA PurgeKeepsAgreement ==
    ASSUME TypeOK, RetainedRowsAgree, NEW period \in Periods,
           ledger' = Kept(ledger, now - period), UNCHANGED <<now, spent>>
    PROVE  RetainedRowsAgree'
<1>1. now \in Int /\ period \in Int /\ \A t \in Seconds : t \in Int
  BY BudgetAssumption DEF TypeOK, Seconds, Periods
<1> SUFFICES ASSUME NEW c \in Callers, NEW t \in Seconds,
                    \A p \in Periods : t >= now - p
             PROVE  Kept(ledger, now - period)[c][t] = spent[c][t]
  BY DEF RetainedRowsAgree
<1>2. ~(t < now - period)
  BY <1>1
<1>3. Kept(ledger, now - period)[c][t] = ledger[c][t]
  BY <1>2 DEF Kept
<1> QED BY <1>3 DEF RetainedRowsAgree

LEMMA TickKeepsAgreement ==
    ASSUME TypeOK, RetainedRowsAgree, Tick
    PROVE  RetainedRowsAgree'
<1>1. now' = now + 1 /\ ledger' = ledger /\ spent' = spent
  BY DEF Tick
<1>2. now \in Int /\ \A p \in Periods : p \in Int
  BY BudgetAssumption DEF TypeOK, Seconds, Periods
<1>3. \A t \in Seconds : t \in Int
  BY DEF Seconds
<1> SUFFICES ASSUME NEW c \in Callers, NEW t \in Seconds,
                    \A p \in Periods : t >= (now + 1) - p
             PROVE  ledger[c][t] = spent[c][t]
  BY <1>1 DEF RetainedRowsAgree
<1>4. \A p \in Periods : t >= now - p
  BY <1>2, <1>3
<1> QED BY <1>4 DEF RetainedRowsAgree

LEMMA NextKeepsAgreement ==
    ASSUME TypeOK, RetainedRowsAgree, [Next]_vars
    PROVE  RetainedRowsAgree'
<1>1. ASSUME UNCHANGED <<now, ledger, spent>> PROVE RetainedRowsAgree'
  BY <1>1 DEF RetainedRowsAgree
<1>2. ASSUME NEW r \in Requests, Step(r) PROVE RetainedRowsAgree'
  BY <1>1, <1>2, OnlyInsertsCharge, InsertKeepsAgreement
<1>3. CASE Purge
  <2>1. Period \in Periods
    BY <1>3 DEF Purge, Periods
  <2> QED BY <1>3, <2>1, PurgeKeepsAgreement DEF Purge
<1>4. ASSUME NEW period \in Overrides, PurgeOlderThan(period)
      PROVE  RetainedRowsAgree'
  <2>1. period \in Periods
    BY DEF Periods
  <2> QED BY <1>4, <2>1, PurgeKeepsAgreement DEF PurgeOlderThan
<1>5. UNCHANGED vars => UNCHANGED <<now, ledger, spent>>
  BY DEF vars
<1> QED BY <1>1, <1>2, <1>3, <1>4, <1>5, TickKeepsAgreement DEF Next

\* A window that fits begins after everything a purge deletes.
LEMMA WindowIsRetained ==
    ASSUME NEW t \in Nat, NEW window \in Nat, Fits(window), NEW period \in Periods
    PROVE  WindowStart(t, window) >= t - period
<1>1. period \in Nat /\ window > 0 /\ window <= period
  BY BudgetAssumption DEF Fits, FitsRetention, Periods
<1>2. WindowStart(t, window) \in Int /\ WindowStart(t, window) > t - window
  BY <1>1, WindowStartBelow
<1> QED BY <1>1, <1>2

LEMMA AgreementSparesWindows ==
    ASSUME TypeOK, RetainedRowsAgree
    PROVE  PurgeSparesWindows
<1> SUFFICES ASSUME NEW c \in Callers, NEW t \in Seconds,
                    \/ /\ OrgCap > 0 /\ Fits(OrgWindow)
                       /\ t >= WindowStart(now, OrgWindow)
                    \/ /\ KeyCap[c] > 0 /\ Fits(KeyWindow[c])
                       /\ t >= WindowStart(now, KeyWindow[c])
             PROVE  ledger[c][t] = spent[c][t]
  BY DEF PurgeSparesWindows
<1>1. now \in Nat /\ t \in Int /\ \A p \in Periods : p \in Int
  BY BudgetAssumption DEF TypeOK, Seconds, Periods
<1>2. PICK window \in Nat : Fits(window) /\ t >= WindowStart(now, window)
  BY BudgetAssumption
<1>3. /\ WindowStart(now, window) \in Int
      /\ \A p \in Periods : WindowStart(now, window) >= now - p
  BY <1>1, <1>2, WindowStartBelow, WindowIsRetained
<1>4. \A p \in Periods : t >= now - p
  BY <1>1, <1>2, <1>3
<1> QED BY <1>4 DEF RetainedRowsAgree

\* Neither the retention purge nor the purge command deletes a row of the
\* current window of a cap whose window fits their periods.
THEOREM PurgeIsSafe == Spec => []PurgeSparesWindows
<1>1. Init => RetainedRowsAgree
  BY DEF Init, RetainedRowsAgree
<1>2. TypeOK /\ RetainedRowsAgree /\ [Next]_vars => RetainedRowsAgree'
  BY NextKeepsAgreement
<1>3. TypeOK /\ RetainedRowsAgree => PurgeSparesWindows
  BY AgreementSparesWindows
<1> QED BY <1>1, <1>2, <1>3, TypeCorrect, PTL DEF Spec

-----------------------------------------------------------------------------
(* The audit trail *)

\* The rows a request in phase p has handed over.
RowsOf(p) == IF p \in {"idle", "seed"} THEN 1 ELSE 0

\* A step of r leaves the other slots alone, and either hands over no row and
\* keeps r in a phase of its kind, or hands over its row and ends it.
RowsFollow(r) ==
    /\ \A q \in Requests \ {r} : req'[q].pc = req[q].pc /\ rows'[q] = rows[q]
    /\ rows'[r] = RowsOf(req'[r].pc)

LEMMA RowsByPhase ==
    OneRowPerRequest <=> \A r \in Requests : rows[r] = RowsOf(req[r].pc)
BY DEF OneRowPerRequest, RowsOf, At

LEMMA RowsByPhasePrimed ==
    OneRowPerRequest' <=> \A r \in Requests : rows'[r] = RowsOf(req'[r].pc)
BY DEF OneRowPerRequest, RowsOf, At

LEMMA RowsFollowStep ==
    ASSUME TypeOK, OneRowPerRequest, NEW r \in Requests, Step(r)
    PROVE  RowsFollow(r)
<1>t. /\ req \in [Requests -> Request] /\ req[r] \in Request
      /\ rows \in [Requests -> Nat]
      /\ rows[r] = RowsOf(req[r].pc)
  BY RowsByPhase DEF TypeOK
<1>1. ASSUME NEW c \in Callers, NEW m \in Models,
             NEW k \in UsedKinds, Begin(r, c, m, k)
      PROVE  RowsFollow(r)
  BY <1>1, <1>t DEF Begin, RowsFollow, RowsOf
<1>2. ASSUME req[r].pc \notin {"idle", "seed"}, FailWithRow(r)
      PROVE  RowsFollow(r)
  BY <1>2, <1>t DEF FailWithRow, End, HandRow, NoRequest, RowsFollow, RowsOf
<1>3. CASE DenyAccess(r) \/ RejectOverCap(r) \/ RejectUnchecked(r) \/ Fail(r)
  <2>1. req[r].pc \notin {"idle", "seed"} /\ FailWithRow(r)
    BY <1>3 DEF DenyAccess, RejectOverCap, RejectUnchecked, AsksLedger, Fail, At
  <2> QED BY <1>2, <2>1
<1>4. CASE ReadClock(r)
  BY <1>4, <1>t DEF ReadClock, GoWithClock, At, RowsFollow, RowsOf, Request
<1>5. CASE PassOrg(r) \/ PassKey(r) \/ CallRouter(r) \/ OpenStream(r)
  BY <1>5, <1>t DEF PassOrg, PassKey, CallRouter, OpenStream, Go, GoOn, At,
                    RowsFollow, RowsOf, Request
<1>6. CASE ServeCached(r)
  BY <1>6, <1>t DEF ServeCached, At, RowsFollow, RowsOf, Request
<1>7. ASSUME NEW c \in Costs, Answered(r, c) \/ CloseStream(r, c)
      PROVE  RowsFollow(r)
  BY <1>7, <1>t DEF Answered, CloseStream, Priced, At, RowsFollow, RowsOf, Request
<1>8. CASE InsertRow(r) \/ LoseRow(r)
  <2>1. At(r, "row") /\ AfterRow(r) /\ HandRow(r)
    BY <1>8 DEF InsertRow, LoseRow
  <2> QED BY <2>1, <1>t DEF AfterRow, GoOn, End, NoRequest, HandRow, At, RowsFollow,
                             RowsOf, Request
<1>9. CASE SeedCache(r)
  BY <1>9, <1>t DEF SeedCache, End, NoRequest, At, RowsFollow, RowsOf
<1> QED BY <1>1, <1>3, <1>4, <1>5, <1>6, <1>7, <1>8, <1>9 DEF Step

LEMMA NextKeepsRows ==
    ASSUME TypeOK, OneRowPerRequest, [Next]_vars
    PROVE  OneRowPerRequest'
<1>1. ASSUME NEW r \in Requests, Step(r) PROVE OneRowPerRequest'
  <2>1. RowsFollow(r)
    BY <1>1, RowsFollowStep
  <2> QED BY <2>1, RowsByPhase, RowsByPhasePrimed DEF RowsFollow
<1>2. ASSUME UNCHANGED <<req, rows>> PROVE OneRowPerRequest'
  BY <1>2 DEF OneRowPerRequest, At
<1>3. Purge \/ (\E period \in Overrides : PurgeOlderThan(period)) \/ Tick
      \/ UNCHANGED vars => UNCHANGED <<req, rows>>
  BY DEF Purge, PurgeOlderThan, Tick, vars
<1> QED BY <1>1, <1>2, <1>3 DEF Next

\* Every request hands exactly one row to the log, on every path through the
\* handlers.
THEOREM AuditComplete == Spec => []OneRowPerRequest
<1>1. Init => OneRowPerRequest
  BY DEF Init, NoRequest, OneRowPerRequest, At
<1>2. TypeOK /\ OneRowPerRequest /\ [Next]_vars => OneRowPerRequest'
  BY NextKeepsRows
<1> QED BY <1>1, <1>2, TypeCorrect, PTL DEF Spec

-----------------------------------------------------------------------------
(* Sums *)

\* Induction on a set: what holds of 0 and of the next number holds of all.
LEMMA Climb ==
    ASSUME NEW T, 0 \in T, \A n \in Nat : n \in T => n + 1 \in T
    PROVE  \A n \in Nat : n \in T
<1> SUFFICES ASSUME NEW m \in Nat, m \notin T PROVE FALSE
  OBVIOUS
<1> DEFINE Bad == {n \in Nat : n \notin T}
<1>1. Bad \in SUBSET Nat /\ m \in Bad
  OBVIOUS
<1> DEFINE R == OpToRel(<, Nat)
<1>r. IsWellFoundedOn(R, Nat)
  BY NatLessThanWellFounded
<1>2. PICK k \in Bad : \A n \in Bad : ~(<<n, k>> \in R)
  <2> HIDE DEF Bad, R
  <2> QED BY <1>1, <1>r, WFMin
<1>q. \A n \in Bad : ~(n < k)
  BY <1>2 DEF OpToRel
<1>3. k \in Nat /\ k \notin T
  OBVIOUS
<1> HIDE DEF R
<1>4. k # 0 /\ k - 1 \in Nat /\ k - 1 < k /\ (k - 1) + 1 = k
  BY <1>3
<1>5. k - 1 \in T
  BY <1>q, <1>4
<1> QED BY <1>3, <1>4, <1>5

\* iter adds up fun over the subsets of S.
Folds(iter, fun, S) ==
    iter = [s \in SUBSET S |->
               IF s = {} THEN 0
               ELSE fun[CHOOSE x \in s : TRUE] + iter[s \ {CHOOSE x \in s : TRUE}]]

LEMMA FoldsAt ==
    ASSUME NEW iter, NEW fun, NEW S, Folds(iter, fun, S)
    PROVE  /\ iter[{}] = 0
           /\ \A s \in SUBSET S : s # {} =>
                \E c \in s : c = (CHOOSE x \in s : TRUE) /\ iter[s] = fun[c] + iter[s \ {c}]
<1> DEFINE F == [s \in SUBSET S |->
               IF s = {} THEN 0
               ELSE fun[CHOOSE x \in s : TRUE] + iter[s \ {CHOOSE x \in s : TRUE}]]
<1>1. iter = F
  BY DEF Folds
<1>2. F[{}] = 0
  OBVIOUS
<1>3. \A s \in SUBSET S : s # {} => F[s] = fun[CHOOSE x \in s : TRUE] + iter[s \ {CHOOSE x \in s : TRUE}]
  OBVIOUS
<1>4. \A s \in SUBSET S : s # {} => (CHOOSE x \in s : TRUE) \in s
  OBVIOUS
<1> HIDE DEF F
<1> QED BY <1>1, <1>2, <1>3, <1>4

\* Taking one element away.
LEMMA OneLess ==
    ASSUME NEW S, IsFiniteSet(S), NEW s \in SUBSET S, NEW c \in s, NEW n \in Nat,
           Cardinality(s) <= n + 1
    PROVE  s \ {c} \in SUBSET S /\ Cardinality(s \ {c}) \in Nat /\ Cardinality(s \ {c}) <= n
<1>1. IsFiniteSet(s)
  BY FS_Subset
<1>2. Cardinality(s) \in Nat /\ Cardinality(s \ {c}) = Cardinality(s) - 1 /\ IsFiniteSet(s \ {c})
  BY <1>1, FS_CardinalityType, FS_RemoveElement
<1>3. Cardinality(s \ {c}) \in Nat
  BY <1>2, FS_CardinalityType
<1> QED BY <1>2, <1>3

\* A set without elements.
LEMMA NoneLeft ==
    ASSUME NEW S, IsFiniteSet(S), NEW s \in SUBSET S, Cardinality(s) <= 0
    PROVE  s = {}
<1>1. IsFiniteSet(s)
  BY FS_Subset
<1>2. Cardinality(s) \in Nat
  BY <1>1, FS_CardinalityType
<1> QED BY <1>1, <1>2, FS_EmptySet

\* There is such a function.
LEMMA FoldExists ==
    ASSUME NEW S, IsFiniteSet(S), NEW fun, \A x \in S : fun[x] \in Nat
    PROVE  \E iter \in [SUBSET S -> Nat] : Folds(iter, fun, S)
<1> DEFINE Up(iter, s) == IF s = {} THEN 0 ELSE fun[CHOOSE x \in s : TRUE] + iter[s \ {CHOOSE x \in s : TRUE}]
           T == {n \in Nat : \E g \in [SUBSET S -> Nat] :
                    \A s \in SUBSET S : Cardinality(s) <= n => g[s] = Up(g, s)}
<1>1. 0 \in T
  <2> DEFINE g == [s \in SUBSET S |-> 0]
  <2>1. \A s \in SUBSET S : Cardinality(s) <= 0 => g[s] = Up(g, s)
    BY NoneLeft
  <2>2. g \in [SUBSET S -> Nat]
    OBVIOUS
  <2> HIDE DEF g, Up
  <2> QED BY <2>1, <2>2
<1>2. ASSUME NEW n \in Nat, n \in T PROVE n + 1 \in T
  <2>1. PICK g \in [SUBSET S -> Nat] : \A s \in SUBSET S : Cardinality(s) <= n => g[s] = Up(g, s)
    BY <1>2
  <2> DEFINE h == [s \in SUBSET S |-> IF Cardinality(s) <= n THEN g[s] ELSE Up(g, s)]
  <2>2. \A s \in SUBSET S : Up(g, s) \in Nat
    <3> SUFFICES ASSUME NEW s \in SUBSET S PROVE Up(g, s) \in Nat
      OBVIOUS
    <3>1. CASE s = {}
      BY <3>1
    <3>2. CASE s # {}
      <4> DEFINE c == CHOOSE x \in s : TRUE
      <4>1. c \in s
        BY <3>2
      <4> HIDE DEF c
      <4>2. s \ {c} \in SUBSET S /\ fun[c] \in Nat
        BY <4>1
      <4>3. g[s \ {c}] \in Nat
        BY <4>2
      <4>4. Up(g, s) = fun[c] + g[s \ {c}]
        BY <3>2 DEF c
      <4> QED BY <4>2, <4>3, <4>4
    <3> QED BY <3>1, <3>2
  <2>3. h \in [SUBSET S -> Nat]
    <3> HIDE DEF Up
    <3> QED BY <2>2
  <2>4. ASSUME NEW s \in SUBSET S, Cardinality(s) <= n + 1 PROVE Up(h, s) = Up(g, s)
    <3>1. CASE s = {}
      BY <3>1
    <3>2. CASE s # {}
      <4> DEFINE c == CHOOSE x \in s : TRUE
      <4>1. c \in s
        BY <3>2
      <4> HIDE DEF c
      <4>2. s \ {c} \in SUBSET S /\ Cardinality(s \ {c}) <= n
        BY <2>4, <4>1, OneLess
      <4>3. h[s \ {c}] = g[s \ {c}]
        BY <4>2
      <4>4. Up(g, s) = fun[c] + g[s \ {c}] /\ Up(h, s) = fun[c] + h[s \ {c}]
        <5> HIDE DEF h
        <5> QED BY <3>2 DEF c
      <4> QED BY <4>3, <4>4
    <3> QED BY <3>1, <3>2
  <2>5. \A s \in SUBSET S : h[s] = Up(g, s)
    <3> HIDE DEF Up
    <3> QED BY <2>1
  <2>6. \A s \in SUBSET S : Cardinality(s) <= n + 1 => h[s] = Up(h, s)
    <3> HIDE DEF Up, h
    <3> QED BY <2>4, <2>5
  <2> HIDE DEF Up, h
  <2> QED BY <2>3, <2>6
<1>3. \A n \in Nat : n \in T
  <2> HIDE DEF T
  <2> QED BY <1>1, <1>2, Climb
<1>4. Cardinality(S) \in Nat /\ \A s \in SUBSET S : Cardinality(s) <= Cardinality(S)
  BY FS_CardinalityType, FS_Subset
<1>5. PICK g \in [SUBSET S -> Nat] : \A s \in SUBSET S : Cardinality(s) <= Cardinality(S) => g[s] = Up(g, s)
  <2> HIDE DEF Up
  <2> QED BY <1>3, <1>4
<1>6. g = [s \in SUBSET S |-> Up(g, s)]
  <2> HIDE DEF Up
  <2> QED BY <1>4, <1>5
<1> QED BY <1>6 DEF Folds

\* The fold depends on nothing but the values.
LEMMA FoldsAlike ==
    ASSUME NEW S, IsFiniteSet(S), NEW R \in SUBSET S, NEW f, NEW g, NEW F, NEW G,
           \A x \in R : f[x] = g[x], Folds(F, f, S), Folds(G, g, R)
    PROVE  \A s \in SUBSET R : F[s] = G[s]
<1> DEFINE T == {n \in Nat : \A s \in SUBSET R : Cardinality(s) <= n => F[s] = G[s]}
<1>0. IsFiniteSet(R)
  BY FS_Subset
<1>1. 0 \in T
  <2>1. F[{}] = 0 /\ G[{}] = 0
    BY FoldsAt
  <2>2. \A s \in SUBSET R : Cardinality(s) <= 0 => s = {}
    BY <1>0, NoneLeft
  <2> QED BY <2>1, <2>2
<1>2. ASSUME NEW n \in Nat, n \in T PROVE n + 1 \in T
  <2> SUFFICES ASSUME NEW s \in SUBSET R, Cardinality(s) <= n + 1 PROVE F[s] = G[s]
    OBVIOUS
  <2>1. CASE s = {}
    BY <2>1, FoldsAt
  <2>2. CASE s # {}
    <3>1. PICK c \in s : c = (CHOOSE x \in s : TRUE) /\ F[s] = f[c] + F[s \ {c}]
      BY <2>2, FoldsAt
    <3>2. G[s] = g[c] + G[s \ {c}]
      <4>1. PICK d \in s : d = (CHOOSE x \in s : TRUE) /\ G[s] = g[d] + G[s \ {d}]
        BY <2>2, FoldsAt
      <4> QED BY <3>1, <4>1
    <3>3. s \ {c} \in SUBSET R /\ Cardinality(s \ {c}) <= n
      BY <1>0, OneLess
    <3>4. F[s \ {c}] = G[s \ {c}] /\ f[c] = g[c]
      BY <1>2, <3>3
    <3> QED BY <3>1, <3>2, <3>4
  <2> QED BY <2>1, <2>2
<1>3. \A n \in Nat : n \in T
  <2> HIDE DEF T
  <2> QED BY <1>1, <1>2, Climb
<1>4. \A s \in SUBSET R : Cardinality(s) \in Nat
  BY <1>0, FS_Subset, FS_CardinalityType
<1> QED BY <1>3, <1>4

\* In which order does not matter.
LEMMA FoldsAnyway ==
    ASSUME NEW S, IsFiniteSet(S), NEW f, NEW F \in [SUBSET S -> Nat], \A x \in S : f[x] \in Nat,
           Folds(F, f, S), NEW s \in SUBSET S, NEW x \in s
    PROVE  F[s] = f[x] + F[s \ {x}]
<1> DEFINE T == {n \in Nat : \A t \in SUBSET S : Cardinality(t) <= n =>
                                \A y \in t : F[t] = f[y] + F[t \ {y}]}
<1>1. 0 \in T
  BY NoneLeft
<1>2. ASSUME NEW n \in Nat, n \in T PROVE n + 1 \in T
  <2> SUFFICES ASSUME NEW t \in SUBSET S, Cardinality(t) <= n + 1, NEW y \in t
               PROVE  F[t] = f[y] + F[t \ {y}]
    OBVIOUS
  <2>1. PICK c \in t : F[t] = f[c] + F[t \ {c}]
    <3>1. t # {}
      OBVIOUS
    <3> HIDE DEF T
    <3> QED BY <3>1, FoldsAt
  <2>2. CASE y = c
    BY <2>1, <2>2
  <2>3. CASE y # c
    <3> DEFINE sc == t \ {c}
               sx == t \ {y}
               rest == t \ {c, y}
    <3>1. /\ sc \in SUBSET S /\ sx \in SUBSET S /\ Cardinality(sc) <= n /\ Cardinality(sx) <= n
      BY OneLess
    <3>2. y \in sc /\ c \in sx /\ sc \ {y} = rest /\ sx \ {c} = rest /\ rest \in SUBSET S
      BY <2>3
    <3> HIDE DEF sc, sx, rest
    <3>3. F[sc] = f[y] + F[rest] /\ F[sx] = f[c] + F[rest]
      BY <1>2, <3>1, <3>2
    <3>4. f[y] \in Nat /\ f[c] \in Nat /\ F[rest] \in Nat
      BY <3>2
    <3>5. F[t] = f[c] + F[sc]
      BY <2>1 DEF sc
    <3>6. F[t] = f[y] + F[sx]
      BY <3>3, <3>4, <3>5
    <3> QED BY <3>6 DEF sx
  <2> QED BY <2>2, <2>3
<1>3. \A n \in Nat : n \in T
  <2> HIDE DEF T
  <2> QED BY <1>1, <1>2, Climb
<1>4. Cardinality(s) \in Nat
  BY FS_Subset, FS_CardinalityType
<1>5. Cardinality(s) \in T /\ Cardinality(s) \in Nat
  BY <1>3, <1>4
<1> QED BY <1>5

(***************************************************************************)
(* SumFunctionOnSet of the community modules is the sum.                   *)
(***************************************************************************)
LEMMA SumFolds ==
    ASSUME NEW S, IsFiniteSet(S), NEW fun, \A x \in S : fun[x] \in Nat
    PROVE  \E iter \in [SUBSET S -> Nat] : Folds(iter, fun, S) /\ SumFunctionOnSet(fun, S) = iter[S]
<1>1. PICK g \in [SUBSET S -> Nat] : Folds(g, fun, S)
  BY FoldExists
<1> DEFINE h == CHOOSE iter : iter = [s \in SUBSET S |-> IF s = {} THEN 0 ELSE
                    fun[CHOOSE x \in s : TRUE] + iter[s \ {CHOOSE x \in s : TRUE}]]
<1>2. Folds(h, fun, S)
  BY <1>1 DEF Folds
<1>3. SumFunctionOnSet(fun, S) = h[S]
  BY DEF SumFunctionOnSet, FoldFunctionOnSet, MapThenFoldSet
<1> HIDE DEF h
<1>4. h[S] = g[S]
  BY <1>1, <1>2, FoldsAlike
<1> QED BY <1>1, <1>3, <1>4

LEMMA SumType ==
    ASSUME NEW S, IsFiniteSet(S), NEW fun, \A x \in S : fun[x] \in Nat
    PROVE  SumFunctionOnSet(fun, S) \in Nat
<1>1. PICK F \in [SUBSET S -> Nat] : SumFunctionOnSet(fun, S) = F[S]
  BY SumFolds
<1>2. S \in SUBSET S
  OBVIOUS
<1> QED BY <1>1, <1>2

LEMMA SumNone == ASSUME NEW fun PROVE SumFunctionOnSet(fun, {}) = 0
<1>1. PICK iter \in [SUBSET {} -> Nat] : Folds(iter, fun, {}) /\ SumFunctionOnSet(fun, {}) = iter[{}]
  BY SumFolds, FS_EmptySet
<1> QED BY <1>1, FoldsAt

LEMMA SumAlike ==
    ASSUME NEW S, IsFiniteSet(S), NEW f, NEW g, \A x \in S : f[x] \in Nat /\ g[x] = f[x]
    PROVE  SumFunctionOnSet(f, S) = SumFunctionOnSet(g, S)
<1>1. \A x \in S : f[x] \in Nat
  OBVIOUS
<1>2. \A x \in S : g[x] \in Nat
  OBVIOUS
<1>3. PICK F \in [SUBSET S -> Nat] : Folds(F, f, S) /\ SumFunctionOnSet(f, S) = F[S]
  BY <1>1, SumFolds
<1>4. PICK G \in [SUBSET S -> Nat] : Folds(G, g, S) /\ SumFunctionOnSet(g, S) = G[S]
  BY <1>2, SumFolds
<1>5. \A s \in SUBSET S : F[s] = G[s]
  BY <1>3, <1>4, FoldsAlike
<1> QED BY <1>3, <1>4, <1>5

LEMMA SumTake ==
    ASSUME NEW S, IsFiniteSet(S), NEW f, \A x \in S : f[x] \in Nat, NEW x \in S
    PROVE  SumFunctionOnSet(f, S) = f[x] + SumFunctionOnSet(f, S \ {x})
<1>1. PICK F \in [SUBSET S -> Nat] : Folds(F, f, S) /\ SumFunctionOnSet(f, S) = F[S]
  BY SumFolds
<1>6. F[S] = f[x] + F[S \ {x}]
  <2>1. S \in SUBSET S
    OBVIOUS
  <2> QED BY <1>1, <2>1, FoldsAnyway
<1> DEFINE R == S \ {x}
<1>2. R \in SUBSET S /\ IsFiniteSet(R)
  BY FS_Subset
<1>3. PICK G \in [SUBSET R -> Nat] : Folds(G, f, R) /\ SumFunctionOnSet(f, R) = G[R]
  <2>1. \A y \in R : f[y] \in Nat
    OBVIOUS
  <2> HIDE DEF R
  <2> QED BY <1>2, <2>1, SumFolds
<1>4. F[R] = G[R]
  <2> HIDE DEF R
  <2> QED BY <1>1, <1>2, <1>3, FoldsAlike
<1> QED BY <1>1, <1>3, <1>4, <1>6

LEMMA SumAdd ==
    ASSUME NEW S, IsFiniteSet(S), NEW f, \A y \in S : f[y] \in Nat, NEW x, x \notin S,
           f[x] \in Nat
    PROVE  SumFunctionOnSet(f, S \cup {x}) = f[x] + SumFunctionOnSet(f, S)
<1> DEFINE R == S \cup {x}
<1>1. IsFiniteSet(R) /\ x \in R /\ R \ {x} = S /\ \A y \in R : f[y] \in Nat
  BY FS_AddElement
<1> HIDE DEF R
<1>2. SumFunctionOnSet(f, R) = f[x] + SumFunctionOnSet(f, R \ {x})
  BY <1>1, SumTake
<1> QED BY <1>1, <1>2 DEF R

LEMMA SumPart ==
    ASSUME NEW S, IsFiniteSet(S), NEW f, \A x \in S : f[x] \in Nat, NEW R \in SUBSET S
    PROVE  SumFunctionOnSet(f, R) <= SumFunctionOnSet(f, S)
<1> DEFINE T == {n \in Nat : \A s \in SUBSET S : (R \subseteq s /\ Cardinality(s \ R) <= n) =>
                                SumFunctionOnSet(f, R) <= SumFunctionOnSet(f, s)}
<1>0. \A s \in SUBSET S : IsFiniteSet(s) /\ SumFunctionOnSet(f, s) \in Nat
  BY FS_Subset, SumType
<1>1. 0 \in T
  <2>1. \A s \in SUBSET S : (R \subseteq s /\ Cardinality(s \ R) <= 0) => s = R
    <3> SUFFICES ASSUME NEW s \in SUBSET S, R \subseteq s, Cardinality(s \ R) <= 0 PROVE s = R
      OBVIOUS
    <3>1. s \ R = {}
      BY NoneLeft
    <3> QED BY <3>1
  <2> QED BY <1>0, <2>1
<1>2. ASSUME NEW n \in Nat, n \in T PROVE n + 1 \in T
  <2> SUFFICES ASSUME NEW s \in SUBSET S, R \subseteq s, Cardinality(s \ R) <= n + 1
               PROVE  SumFunctionOnSet(f, R) <= SumFunctionOnSet(f, s)
    OBVIOUS
  <2>1. CASE s = R
    BY <1>0, <2>1
  <2>2. CASE s # R
    <3>1. PICK x \in s \ R : TRUE
      BY <2>2
    <3> DEFINE less == s \ {x}
    <3>2. Cardinality((s \ R) \ {x}) <= n
      BY OneLess
    <3>3. less \in SUBSET S /\ R \subseteq less /\ less \ R = (s \ R) \ {x}
      BY <3>1
    <3> HIDE DEF less
    <3>4. SumFunctionOnSet(f, R) <= SumFunctionOnSet(f, less)
      BY <1>2, <3>2, <3>3
    <3>5. SumFunctionOnSet(f, s) = f[x] + SumFunctionOnSet(f, less)
      BY <1>0, SumTake DEF less
    <3>6. f[x] \in Nat /\ SumFunctionOnSet(f, less) \in Nat /\ SumFunctionOnSet(f, R) \in Nat
      BY <1>0, <3>3
    <3> QED BY <3>4, <3>5, <3>6
  <2> QED BY <2>1, <2>2
<1>3. \A n \in Nat : n \in T
  <2> HIDE DEF T
  <2> QED BY <1>1, <1>2, Climb
<1>4. Cardinality(S \ R) \in T
  BY <1>3, FS_Subset, FS_CardinalityType
<1>5. Cardinality(S \ R) \in Nat
  BY FS_Subset, FS_CardinalityType
<1> QED BY <1>4, <1>5

-----------------------------------------------------------------------------
(* Sustained spend *)

\* A table with the same values but for one of them, which is k more.
LEMMA SumOneMore ==
    ASSUME NEW S, IsFiniteSet(S), NEW f, NEW g, NEW x, NEW k \in Nat,
           \A y \in S : f[y] \in Nat,
           \A y \in S : y # x => g[y] = f[y],
           x \in S => g[x] = f[x] + k
    PROVE  /\ SumFunctionOnSet(g, S) <= SumFunctionOnSet(f, S) + k
           /\ x \notin S => SumFunctionOnSet(g, S) = SumFunctionOnSet(f, S)
<1>0. SumFunctionOnSet(f, S) \in Nat
  BY SumType
<1>1. CASE x \notin S
  <2>1. \A y \in S : f[y] \in Nat /\ g[y] = f[y]
    BY <1>1
  <2>2. SumFunctionOnSet(f, S) = SumFunctionOnSet(g, S)
    BY <2>1, SumAlike
  <2> QED BY <1>0, <2>2
<1>2. CASE x \in S
  <2> DEFINE R == S \ {x}
  <2>1. IsFiniteSet(R) /\ \A y \in R : f[y] \in Nat /\ g[y] = f[y]
    BY FS_Subset
  <2>2. \A y \in S : g[y] \in Nat
    BY <1>2
  <2>3. SumFunctionOnSet(f, S) = f[x] + SumFunctionOnSet(f, R)
    BY <1>2, SumTake
  <2>4. SumFunctionOnSet(g, S) = g[x] + SumFunctionOnSet(g, R)
    BY <1>2, <2>2, SumTake
  <2> HIDE DEF R
  <2>5. SumFunctionOnSet(f, R) = SumFunctionOnSet(g, R) /\ SumFunctionOnSet(f, R) \in Nat
    BY <2>1, SumAlike, SumType
  <2>6. f[x] \in Nat /\ g[x] = f[x] + k
    BY <1>2
  <2> QED BY <1>2, <2>3, <2>4, <2>5, <2>6
<1> QED BY <1>1, <1>2

\* Nothing adds up to nothing.
LEMMA SumZero ==
    ASSUME NEW S, IsFiniteSet(S), NEW f, \A x \in S : f[x] = 0
    PROVE  SumFunctionOnSet(f, S) = 0
<1> DEFINE T == {n \in Nat : \A s \in SUBSET S : Cardinality(s) <= n => SumFunctionOnSet(f, s) = 0}
<1>1. 0 \in T
  BY NoneLeft, SumNone
<1>2. ASSUME NEW n \in Nat, n \in T PROVE n + 1 \in T
  <2> SUFFICES ASSUME NEW s \in SUBSET S, Cardinality(s) <= n + 1
               PROVE  SumFunctionOnSet(f, s) = 0
    OBVIOUS
  <2>1. CASE s = {}
    BY <2>1, SumNone
  <2>2. CASE s # {}
    <3>1. PICK x \in s : TRUE
      BY <2>2
    <3>2. IsFiniteSet(s) /\ \A y \in s : f[y] \in Nat
      BY FS_Subset
    <3>3. SumFunctionOnSet(f, s) = f[x] + SumFunctionOnSet(f, s \ {x})
      BY <3>2, SumTake
    <3>4. s \ {x} \in SUBSET S /\ Cardinality(s \ {x}) <= n
      BY OneLess
    <3>5. SumFunctionOnSet(f, s \ {x}) = 0
      BY <1>2, <3>4
    <3> QED BY <3>3, <3>5
  <2> QED BY <2>1, <2>2
<1>3. \A n \in Nat : n \in T
  <2> HIDE DEF T
  <2> QED BY <1>1, <1>2, Climb
<1>4. Cardinality(S) \in Nat /\ S \in SUBSET S
  BY FS_CardinalityType
<1> QED BY <1>3, <1>4

\* The rows a sum is over, and their costs.
RowsSince(cs, since) == cs \X {t \in Seconds : t >= since}

CostOf(table) == [row \in Callers \X Seconds |-> table[row[1]][row[2]]]

Tables == [Callers -> [Seconds -> Nat]]

LEMMA SumCostIsSum ==
    ASSUME NEW table, NEW cs, NEW since
    PROVE  SumCost(table, cs, since) = SumFunctionOnSet(CostOf(table), RowsSince(cs, since))
BY DEF SumCost, CostOf, RowsSince

LEMMA RowsFinite ==
    ASSUME NEW cs \in SUBSET Callers, NEW since \in Int
    PROVE  /\ IsFiniteSet(RowsSince(cs, since))
           /\ RowsSince(cs, since) \subseteq Callers \X Seconds
<1>1. IsFiniteSet(cs)
  BY BudgetAssumption, FS_Subset
<1>2. IsFiniteSet(Seconds)
  BY BudgetAssumption, FS_Interval DEF Seconds
<1>3. IsFiniteSet({t \in Seconds : t >= since})
  BY <1>2, FS_Subset
<1> QED BY <1>1, <1>3, FS_Product DEF RowsSince

LEMMA CostsTyped ==
    ASSUME NEW table \in Tables
    PROVE  \A row \in Callers \X Seconds : CostOf(table)[row] \in Nat
BY DEF CostOf, Tables

LEMMA SumCostType ==
    ASSUME NEW table \in Tables, NEW cs \in SUBSET Callers, NEW since \in Int
    PROVE  SumCost(table, cs, since) \in Nat
<1>1. \A row \in RowsSince(cs, since) : CostOf(table)[row] \in Nat
  BY CostsTyped, RowsFinite
<1> QED BY <1>1, RowsFinite, SumType, SumCostIsSum

\* A later start leaves no more.
LEMMA LaterIsLess ==
    ASSUME NEW table \in Tables, NEW cs \in SUBSET Callers,
           NEW early \in Int, NEW late \in Int, early <= late
    PROVE  SumCost(table, cs, late) <= SumCost(table, cs, early)
<1>1. \A row \in RowsSince(cs, early) : CostOf(table)[row] \in Nat
  BY CostsTyped, RowsFinite
<1>2. \A t \in Seconds : t \in Int
  BY DEF Seconds
<1>3. RowsSince(cs, late) \in SUBSET RowsSince(cs, early)
  BY <1>2 DEF RowsSince
<1> QED BY <1>1, <1>3, RowsFinite, SumPart, SumCostIsSum

\* Tables that agree on the rows give the same sum.
LEMMA AgreeingTables ==
    ASSUME NEW table \in Tables, NEW other \in Tables, NEW cs \in SUBSET Callers,
           NEW since \in Int,
           \A c \in cs, t \in Seconds : t >= since => table[c][t] = other[c][t]
    PROVE  SumCost(table, cs, since) = SumCost(other, cs, since)
<1>1. ASSUME NEW row \in RowsSince(cs, since)
      PROVE  CostOf(table)[row] \in Nat /\ CostOf(other)[row] = CostOf(table)[row]
  <2>1. row \in Callers \X Seconds /\ row[1] \in cs /\ row[2] \in Seconds /\ row[2] >= since
    BY RowsFinite DEF RowsSince
  <2>2. CostOf(table)[row] = table[row[1]][row[2]] /\ CostOf(other)[row] = other[row[1]][row[2]]
    BY <2>1 DEF CostOf
  <2> QED BY <2>1, <2>2, CostsTyped
<1>2. IsFiniteSet(RowsSince(cs, since))
  BY RowsFinite
<1> QED BY <1>1, <1>2, SumAlike, SumCostIsSum

\* A row adds its cost to the sums of its caller and to no others.
LEMMA ChargedSum ==
    ASSUME NEW table \in Tables, NEW r \in Requests, req[r] \in Request,
           NEW cs \in SUBSET Callers, NEW since \in Int
    PROVE  /\ SumCost(Charged(table, r), cs, since) <= SumCost(table, cs, since) + req[r].cost
           /\ req[r].caller \notin cs =>
                  SumCost(Charged(table, r), cs, since) = SumCost(table, cs, since)
<1> DEFINE S == RowsSince(cs, since)
           f == CostOf(table)
           g == CostOf(Charged(table, r))
           x == <<req[r].caller, req[r].at>>
<1>1. req[r].caller \in Callers /\ req[r].at \in Seconds /\ req[r].cost \in Nat
  BY DEF Request
<1>2. IsFiniteSet(S) /\ \A y \in S : f[y] \in Nat
  BY CostsTyped, RowsFinite
<1>3. ASSUME NEW y \in S
      PROVE  (y # x => g[y] = f[y]) /\ (y = x => g[y] = f[y] + req[r].cost)
  <2>1. PICK c \in Callers, t \in Seconds : y = <<c, t>>
    BY RowsFinite
  <2>2. g[y] = Charged(table, r)[c][t] /\ f[y] = table[c][t]
    BY <2>1 DEF CostOf
  <2>3. y = x <=> c = req[r].caller /\ t = req[r].at
    BY <2>1
  <2>4. Charged(table, r)[c][t] =
            IF c = req[r].caller /\ t = req[r].at THEN table[c][t] + req[r].cost ELSE table[c][t]
    BY <1>1 DEF Charged, Tables
  <2> QED BY <2>2, <2>3, <2>4
<1>4. x \in S => req[r].caller \in cs
  BY DEF RowsSince
<1>5. SumCost(table, cs, since) = SumFunctionOnSet(f, S)
      /\ SumCost(Charged(table, r), cs, since) = SumFunctionOnSet(g, S)
  BY SumCostIsSum
<1> HIDE DEF S, f, g, x
<1>6. /\ SumFunctionOnSet(g, S) <= SumFunctionOnSet(f, S) + req[r].cost
      /\ x \notin S => SumFunctionOnSet(g, S) = SumFunctionOnSet(f, S)
  <2>1. \A y \in S : y # x => g[y] = f[y]
    BY <1>3
  <2>2. x \in S => g[x] = f[x] + req[r].cost
    BY <1>3
  <2> DEFINE k == req[r].cost
  <2>3. k \in Nat
    BY <1>1
  <2>4. x \in S => g[x] = f[x] + k
    BY <2>2
  <2> HIDE DEF k
  <2>5. /\ SumFunctionOnSet(g, S) <= SumFunctionOnSet(f, S) + k
        /\ x \notin S => SumFunctionOnSet(g, S) = SumFunctionOnSet(f, S)
    BY ONLY <1>2, <2>1, <2>3, <2>4, SumOneMore
  <2> QED BY <2>5 DEF k
<1> QED BY <1>4, <1>5, <1>6


\* The start of the window only moves forward.
LEMMA Multiples ==
    ASSUME NEW a \in Nat, NEW b \in Nat, NEW w \in Nat, a * w < b * w
    PROVE  a * w + w <= b * w
<1>1. a < b
  OBVIOUS
<1>2. b = a + 1 + (b - a - 1) /\ b - a - 1 \in Nat
  BY <1>1
<1>3. (b - a - 1) * w >= 0
  BY <1>2
<1>4. b * w = a * w + w + (b - a - 1) * w
  BY <1>2
<1> QED BY <1>3, <1>4

LEMMA WindowMovesOn ==
    ASSUME NEW t \in Nat, NEW u \in Nat, NEW window \in Nat, t <= u
    PROVE  WindowStart(t, window) <= WindowStart(u, window)
<1>1. CASE window = 0
  BY <1>1 DEF WindowStart
<1>2. CASE window > 0
  <2> DEFINE a == u \div window
             b == t \div window
  <2>1. /\ a \in Nat /\ b \in Nat
        /\ WindowStart(u, window) = a * window
        /\ WindowStart(t, window) = b * window
    BY <1>2 DEF WindowStart
  <2> HIDE DEF a, b
  <2>2. /\ WindowStart(t, window) \in Int /\ WindowStart(t, window) <= t
        /\ WindowStart(u, window) \in Int /\ WindowStart(u, window) > u - window
    BY <1>2, WindowStartBelow
  <2>3. a * window < b * window => a * window + window <= b * window
    BY <2>1, Multiples
  <2> QED BY <2>1, <2>2, <2>3
<1> QED BY <1>1, <1>2

\* Past the check of a cap, and the requests that are, for the cap of the
\* organisation and for that of a key.
Behind == {"admitted", "upstream", "streaming", "row"}

OrgPassed == {r \in Requests : req[r].pc \in Behind \cup {"key"}}

KeyPassed(c) == {r \in Requests : req[r].pc \in Behind /\ req[r].caller = c}

\* What the requests that are not past the check may already have added: the
\* check counts the rows of those that were ahead of it and are done.
Room(passed) == Cardinality(Requests \ passed) * Max(Costs)

\* A request carries a reading of the clock and the price of one call.
Carried == \A r \in Requests : req[r].at <= now /\ req[r].cost <= Max(Costs)

Within(cs, window, cap, passed) ==
    cap > 0 /\ Fits(window) =>
        SumCost(spent, cs, WindowStart(now, window)) < cap + Room(passed)

\* A cap may be exceeded by what the requests may add that passed its check
\* and are not done.
SpendCovered ==
    /\ Within(Callers, OrgWindow, OrgCap, OrgPassed)
    /\ \A c \in Callers : Within({c}, KeyWindow[c], KeyCap[c], KeyPassed(c))

LEMMA MostIsCost ==
    /\ Max(Costs) \in Nat
    /\ \A c \in Costs : c <= Max(Costs)
<1>1. \E most \in Costs : \A c \in Costs : most >= c
  BY BudgetAssumption
<1>2. Max(Costs) \in Costs /\ \A c \in Costs : Max(Costs) >= c
  BY <1>1 DEF Max
<1> QED BY <1>2, BudgetAssumption

LEMMA TimesMonotone ==
    ASSUME NEW a \in Nat, NEW b \in Nat, NEW m \in Nat, a <= b
    PROVE  a * m <= b * m
OBVIOUS

LEMMA TimesOneMore ==
    ASSUME NEW a \in Nat, NEW m \in Nat
    PROVE  (a + 1) * m = a * m + m
OBVIOUS

LEMMA RoomType ==
    ASSUME NEW passed
    PROVE  Cardinality(Requests \ passed) \in Nat /\ Room(passed) \in Nat
<1>1. IsFiniteSet(Requests \ passed)
  BY BudgetAssumption, FS_Subset
<1>2. Cardinality(Requests \ passed) \in Nat
  BY <1>1, FS_CardinalityType
<1> QED BY <1>2, MostIsCost DEF Room

LEMMA RoomGrows ==
    ASSUME NEW passed, NEW fewer \in SUBSET passed
    PROVE  Room(passed) <= Room(fewer)
<1>1. IsFiniteSet(Requests \ fewer) /\ Requests \ passed \in SUBSET (Requests \ fewer)
  BY BudgetAssumption, FS_Subset
<1>2. Cardinality(Requests \ passed) <= Cardinality(Requests \ fewer)
  BY <1>1, FS_Subset
<1> QED BY <1>2, RoomType, MostIsCost, TimesMonotone DEF Room

LEMMA RoomForOneMore ==
    ASSUME NEW passed, NEW r \in Requests, r \in passed
    PROVE  Room(passed \ {r}) = Room(passed) + Max(Costs)
<1> DEFINE rest == Requests \ passed
<1>1. IsFiniteSet(rest) /\ r \notin rest
  BY BudgetAssumption, FS_Subset
<1>2. Requests \ (passed \ {r}) = rest \cup {r}
  OBVIOUS
<1>3. Cardinality(Requests \ (passed \ {r})) = Cardinality(rest) + 1
  BY <1>1, <1>2, FS_AddElement
<1> QED BY <1>3, RoomType, MostIsCost, TimesOneMore DEF Room


LEMMA StepCarries ==
    ASSUME TypeOK, Carried, NEW r \in Requests, Step(r)
    PROVE  Carried'
<1>t. /\ now \in Nat /\ now' = now
      /\ Max(Costs) \in Nat
      /\ req \in [Requests -> Request] /\ req[r] \in Request
      /\ req[r].at <= now /\ req[r].cost <= Max(Costs)
  BY MostIsCost, OnlyInsertsCharge DEF TypeOK, Seconds, Carried, InsertRow
<1>c. ASSUME NEW at \in Nat, NEW cost \in Nat, at <= now, cost <= Max(Costs),
             req'[r].at = at, req'[r].cost = cost,
             \A q \in Requests : q # r => req'[q] = req[q]
      PROVE  Carried'
  BY <1>c, <1>t DEF Carried
<1>0. req[r].at \in Nat /\ req[r].cost \in Nat
  BY <1>t DEF Request, Seconds
<1>1. ASSUME NEW c \in Callers, NEW m \in Models,
             NEW k \in UsedKinds, Begin(r, c, m, k)
      PROVE  Carried'
  <2>1. /\ req'[r].at = 0 /\ req'[r].cost = 0
        /\ \A q \in Requests : q # r => req'[q] = req[q]
    BY <1>1, <1>t DEF Begin
  <2> QED BY <1>c, <2>1, <1>t
<1>2. ASSUME End(r) PROVE Carried'
  <2>1. /\ req'[r].at = 0 /\ req'[r].cost = 0
        /\ \A q \in Requests : q # r => req'[q] = req[q]
    BY <1>2, <1>t DEF End, NoRequest
  <2> QED BY <1>c, <2>1, <1>t
<1>3. ASSUME NEW phase, GoOn(r, phase) PROVE Carried'
  <2>1. /\ req'[r].at = 0 /\ req'[r].cost = 0
        /\ \A q \in Requests : q # r => req'[q] = req[q]
    BY <1>3, <1>t DEF GoOn, Request
  <2> QED BY <1>c, <2>1, <1>t
<1>4. ASSUME NEW phase, Go(r, phase) PROVE Carried'
  <2>1. /\ req'[r].at = req[r].at /\ req'[r].cost = req[r].cost
        /\ \A q \in Requests : q # r => req'[q] = req[q]
    BY <1>4, <1>t DEF Go, Request
  <2> QED BY <1>c, <2>1, <1>t, <1>0
<1>5. CASE ReadClock(r) \/ ServeCached(r)
  <2>1. /\ req'[r].at = now /\ req'[r].cost = req[r].cost
        /\ \A q \in Requests : q # r => req'[q] = req[q]
    BY <1>5, <1>t DEF ReadClock, GoWithClock, ServeCached, Request
  <2> QED BY <1>c, <2>1, <1>t, <1>0
<1>6. ASSUME NEW c \in Costs, Priced(r, c) PROVE Carried'
  <2>1. /\ req'[r].at = now /\ req'[r].cost = c
        /\ \A q \in Requests : q # r => req'[q] = req[q]
    BY <1>6, <1>t DEF Priced, Request
  <2>2. c \in Nat /\ c <= Max(Costs)
    BY BudgetAssumption, MostIsCost
  <2> QED BY <1>c, <2>1, <2>2, <1>t
<1>7. ASSUME DenyAccess(r) \/ RejectOverCap(r) \/ RejectUnchecked(r) \/ Fail(r)
      PROVE  Carried'
  BY <1>2, <1>7 DEF DenyAccess, RejectOverCap, RejectUnchecked, Fail, FailWithRow
<1>8. ASSUME PassOrg(r) \/ CallRouter(r) \/ OpenStream(r) PROVE Carried'
  BY <1>4, <1>8 DEF PassOrg, CallRouter, OpenStream
<1>9. ASSUME PassKey(r) PROVE Carried'
  BY <1>3, <1>9 DEF PassKey
<1>10. ASSUME NEW c \in Costs, Answered(r, c) \/ CloseStream(r, c) PROVE Carried'
  BY <1>6, <1>10 DEF Answered, CloseStream
<1>11. ASSUME InsertRow(r) \/ LoseRow(r) \/ SeedCache(r) PROVE Carried'
  BY <1>2, <1>3, <1>11 DEF InsertRow, LoseRow, SeedCache, AfterRow
<1> QED BY <1>1, <1>5, <1>7, <1>8, <1>9, <1>10, <1>11 DEF Step

LEMMA NextCarries ==
    ASSUME TypeOK, Carried, [Next]_vars
    PROVE  Carried'
<1>1. ASSUME UNCHANGED req, now' = now \/ now' = now + 1 PROVE Carried'
  BY <1>1 DEF Carried, TypeOK, Seconds, Request
<1>2. Purge \/ (\E period \in Overrides : PurgeOlderThan(period)) \/ Tick
      \/ UNCHANGED vars => UNCHANGED req /\ (now' = now \/ now' = now + 1)
  BY DEF Purge, PurgeOlderThan, Tick, vars
<1> QED BY <1>1, <1>2, StepCarries DEF Next

\* How a step of r changes who is past a check.
Passage(r) ==
    /\ \A q \in Requests : q # r => req'[q] = req[q]
    /\ \/ req'[r].pc \notin Behind \cup {"key"}
       \/ PassOrg(r) /\ req'[r].pc = "key"
       \/ PassKey(r) /\ req'[r].pc = "admitted" /\ req'[r].caller = req[r].caller
       \/ /\ req[r].pc \in Behind
          /\ req'[r].caller = req[r].caller
          /\ req'[r].pc \in Behind

LEMMA StepPasses ==
    ASSUME TypeOK, NEW r \in Requests, Step(r)
    PROVE  Passage(r)
<1>t. req \in [Requests -> Request] /\ req[r] \in Request
  BY DEF TypeOK
<1>1. ASSUME NEW c \in Callers, NEW m \in Models,
             NEW k \in UsedKinds, Begin(r, c, m, k)
      PROVE  Passage(r)
  BY <1>1, <1>t DEF Begin, Passage, Behind
<1>2. ASSUME End(r) PROVE Passage(r)
  BY <1>2, <1>t DEF End, NoRequest, Passage, Behind
<1>3. ASSUME DenyAccess(r) \/ RejectOverCap(r) \/ RejectUnchecked(r) \/ Fail(r)
      PROVE  Passage(r)
  BY <1>2, <1>3 DEF DenyAccess, RejectOverCap, RejectUnchecked, Fail, FailWithRow
<1>4. ASSUME ReadClock(r) PROVE Passage(r)
  BY <1>4, <1>t DEF ReadClock, GoWithClock, Passage, Behind, Request
<1>5. ASSUME PassOrg(r) PROVE Passage(r)
  BY <1>5, <1>t DEF PassOrg, Go, Passage, Request
<1>6. ASSUME PassKey(r) PROVE Passage(r)
  BY <1>6, <1>t DEF PassKey, GoOn, Passage, Request
<1>7. ASSUME ServeCached(r) PROVE Passage(r)
  BY <1>7, <1>t DEF ServeCached, At, Passage, Behind, Request
<1>8. ASSUME CallRouter(r) \/ OpenStream(r) PROVE Passage(r)
  BY <1>8, <1>t DEF CallRouter, OpenStream, Go, At, Passage, Behind, Request
<1>9. ASSUME NEW c \in Costs, Answered(r, c) \/ CloseStream(r, c) PROVE Passage(r)
  BY <1>9, <1>t DEF Answered, CloseStream, Priced, At, Passage, Behind, Request
<1>10. ASSUME GoOn(r, "seed") PROVE Passage(r)
  BY <1>10, <1>t DEF GoOn, Passage, Behind, Request
<1>11. ASSUME InsertRow(r) \/ LoseRow(r) \/ SeedCache(r) PROVE Passage(r)
  BY <1>2, <1>10, <1>11 DEF InsertRow, LoseRow, SeedCache, AfterRow
<1> QED BY <1>1, <1>3, <1>4, <1>5, <1>6, <1>7, <1>8, <1>9, <1>11 DEF Step

\* Who is past the check of the organisation: nobody joins but by the check.
LEMMA OrgPassage ==
    ASSUME NEW r \in Requests, Passage(r)
    PROVE  /\ ~PassOrg(r) => OrgPassed' \subseteq OrgPassed
           /\ req'[r].pc \notin Behind \cup {"key"} => OrgPassed' \subseteq OrgPassed \ {r}
<1>1. PassKey(r) => req[r].pc = "key"
  BY DEF PassKey, At
<1> QED BY <1>1 DEF Passage, OrgPassed, Behind

LEMMA KeyPassage ==
    ASSUME NEW r \in Requests, Passage(r), NEW c
    PROVE  /\ ~(PassKey(r) /\ req[r].caller = c) => KeyPassed(c)' \subseteq KeyPassed(c)
           /\ req'[r].pc \notin Behind \cup {"key"} => KeyPassed(c)' \subseteq KeyPassed(c) \ {r}
BY DEF Passage, KeyPassed, Behind

\* The spend of a window, as the ledger has it, when a check lets r pass.
LEMMA CheckedSpend ==
    ASSUME TypeOK, RetainedRowsAgree, NEW cs \in SUBSET Callers, NEW window \in Nat,
           NEW cap \in Nat, NEW at \in Nat, at <= now, Fits(window),
           SumCost(ledger, cs, WindowStart(at, window)) < cap
    PROVE  SumCost(spent, cs, WindowStart(now, window)) < cap
<1>1. now \in Nat /\ ledger \in Tables /\ spent \in Tables
  BY DEF TypeOK, Tables, Seconds
<1> DEFINE early == WindowStart(at, window)
           late == WindowStart(now, window)
<1>2. early \in Int /\ late \in Int /\ early <= late
  BY <1>1, WindowStartBelow, WindowMovesOn
<1>3. \A p \in Periods : late >= now - p /\ p \in Int
  BY <1>1, WindowIsRetained, BudgetAssumption DEF Periods
<1> HIDE DEF early, late
<1>4. \A c \in cs, t \in Seconds : t >= late => ledger[c][t] = spent[c][t]
  <2> SUFFICES ASSUME NEW c \in cs, NEW t \in Seconds, t >= late
               PROVE  ledger[c][t] = spent[c][t]
    OBVIOUS
  <2>1. t \in Int
    BY DEF Seconds
  <2>2. \A p \in Periods : t >= now - p
    BY <1>1, <1>2, <1>3, <2>1
  <2> QED BY <2>2 DEF RetainedRowsAgree
<1>5. SumCost(ledger, cs, late) = SumCost(spent, cs, late)
  BY <1>1, <1>2, <1>4, AgreeingTables
<1>6. SumCost(ledger, cs, late) <= SumCost(ledger, cs, early)
  BY <1>1, <1>2, LaterIsLess
<1>7. SumCost(ledger, cs, late) \in Nat /\ SumCost(ledger, cs, early) \in Nat
  BY <1>1, <1>2, SumCostType
<1>8. SumCost(ledger, cs, early) < cap
  BY DEF early
<1>9. SumCost(spent, cs, late) < cap
  BY <1>5, <1>6, <1>7, <1>8
<1> QED BY <1>9 DEF late


\* Nothing new was charged: fewer are past the check, time may have moved on.
LEMMA WithinKept ==
    ASSUME TypeOK, NEW cs \in SUBSET Callers, NEW window \in Nat, NEW cap \in Nat,
           NEW passed, NEW fewer \in SUBSET passed, NEW later \in Nat, now <= later,
           Within(cs, window, cap, passed), cap > 0, Fits(window)
    PROVE  SumCost(spent, cs, WindowStart(later, window)) < cap + Room(fewer)
<1>1. now \in Nat /\ spent \in Tables
  BY DEF TypeOK, Tables, Seconds
<1> DEFINE before == WindowStart(now, window)
           after == WindowStart(later, window)
<1>2. before \in Int /\ after \in Int /\ before <= after
  BY <1>1, WindowStartBelow, WindowMovesOn
<1>3. SumCost(spent, cs, before) < cap + Room(passed)
  BY DEF Within
<1> HIDE DEF before, after
<1>4. SumCost(spent, cs, after) <= SumCost(spent, cs, before)
  BY <1>1, <1>2, LaterIsLess
<1>5. SumCost(spent, cs, after) \in Nat /\ SumCost(spent, cs, before) \in Nat
  BY <1>1, <1>2, SumCostType
<1>6. Room(passed) \in Nat /\ Room(fewer) \in Nat /\ Room(passed) <= Room(fewer)
  BY RoomType, RoomGrows
<1>7. SumCost(spent, cs, after) < cap + Room(fewer)
  BY <1>3, <1>4, <1>5, <1>6
<1> QED BY <1>7 DEF after

\* The row of r is charged, and r is no longer past the check.
LEMMA WithinPaid ==
    ASSUME TypeOK, Carried, NEW cs \in SUBSET Callers, NEW window \in Nat,
           NEW cap \in Nat, NEW r \in Requests, NEW passed,
           req[r].caller \in cs => r \in passed, NEW fewer \in SUBSET (passed \ {r}),
           Within(cs, window, cap, passed), cap > 0, Fits(window)
    PROVE  SumCost(Charged(spent, r), cs, WindowStart(now, window)) < cap + Room(fewer)
<1> DEFINE since == WindowStart(now, window)
           cost == req[r].cost
<1>1. /\ now \in Nat /\ spent \in Tables /\ req[r] \in Request
      /\ cost \in Nat /\ cost <= Max(Costs)
  BY DEF TypeOK, Tables, Seconds, Request, Carried
<1>2. since \in Int
  BY <1>1, WindowStartBelow
<1>3. SumCost(spent, cs, since) < cap + Room(passed)
  BY DEF Within
<1>4. /\ SumCost(Charged(spent, r), cs, since) <= SumCost(spent, cs, since) + cost
      /\ req[r].caller \notin cs =>
             SumCost(Charged(spent, r), cs, since) = SumCost(spent, cs, since)
  BY <1>1, <1>2, ChargedSum
<1>5. Charged(spent, r) \in Tables
  BY <1>1, ChargedTyped DEF Tables
<1> HIDE DEF since, cost
<1>6. SumCost(spent, cs, since) \in Nat /\ SumCost(Charged(spent, r), cs, since) \in Nat
  BY <1>1, <1>2, <1>5, SumCostType
<1>7. Room(passed) \in Nat /\ Room(fewer) \in Nat /\ Max(Costs) \in Nat
  BY RoomType, MostIsCost
<1>8. CASE req[r].caller \in cs
  <2>1. Room(passed \ {r}) = Room(passed) + Max(Costs)
    BY <1>8, RoomForOneMore
  <2>2. Room(passed \ {r}) <= Room(fewer)
    BY RoomGrows
  <2>3. SumCost(Charged(spent, r), cs, since) < cap + Room(fewer)
    BY <1>1, <1>3, <1>4, <1>6, <1>7, <2>1, <2>2
  <2> QED BY <2>3 DEF since
<1>9. CASE req[r].caller \notin cs
  <2>1. Room(passed) <= Room(fewer)
    BY RoomGrows
  <2>2. SumCost(Charged(spent, r), cs, since) < cap + Room(fewer)
    BY <1>3, <1>4, <1>6, <1>7, <1>9, <2>1
  <2> QED BY <2>2 DEF since
<1> QED BY <1>8, <1>9

\* r is past the check it has just been let through by.
LEMMA WithinChecked ==
    ASSUME TypeOK, RetainedRowsAgree, Carried, NEW cs \in SUBSET Callers,
           NEW window \in Nat, NEW cap \in Nat, NEW r \in Requests, NEW passed,
           ~(SumCost(ledger, cs, WindowStart(req[r].at, window)) >= cap), Fits(window)
    PROVE  SumCost(spent, cs, WindowStart(now, window)) < cap + Room(passed)
<1> DEFINE at == req[r].at
<1>1. at \in Nat /\ at <= now /\ now \in Nat /\ ledger \in Tables /\ spent \in Tables
  BY DEF TypeOK, Request, Seconds, Carried, Tables
<1>2. WindowStart(at, window) \in Int /\ WindowStart(now, window) \in Int
  BY <1>1, WindowStartBelow
<1>3. SumCost(ledger, cs, WindowStart(at, window)) \in Nat
      /\ SumCost(spent, cs, WindowStart(now, window)) \in Nat
  BY <1>1, <1>2, SumCostType
<1>4. SumCost(ledger, cs, WindowStart(at, window)) < cap
  BY <1>3
<1> HIDE DEF at
<1>5. SumCost(spent, cs, WindowStart(now, window)) < cap
  BY <1>1, <1>4, CheckedSpend
<1>6. Room(passed) \in Nat
  BY RoomType
<1> DEFINE sum == SumCost(spent, cs, WindowStart(now, window))
<1>7. sum \in Nat /\ sum < cap
  BY <1>3, <1>5
<1> HIDE DEF sum
<1>8. sum < cap + Room(passed)
  BY <1>6, <1>7
<1> QED BY <1>8 DEF sum

LEMMA CapsTyped ==
    /\ OrgWindow \in Nat /\ OrgCap \in Nat
    /\ \A c \in Callers : KeyWindow[c] \in Nat /\ KeyCap[c] \in Nat
BY BudgetAssumption

LEMMA StepKeepsOrg ==
    ASSUME TypeOK, RetainedRowsAgree, Carried, NEW r \in Requests, Step(r),
           Within(Callers, OrgWindow, OrgCap, OrgPassed), OrgCap > 0, Fits(OrgWindow)
    PROVE  SumCost(spent', Callers, WindowStart(now', OrgWindow)) < OrgCap + Room(OrgPassed')
<1>1. Passage(r) /\ now \in Nat
  BY StepPasses DEF TypeOK, Seconds
<1>2. CASE InsertRow(r)
  <2>1. /\ req'[r].pc \notin Behind \cup {"key"} /\ req[r].pc = "row"
        /\ now' = now /\ spent' = Charged(spent, r)
    BY <1>2 DEF InsertRow, AfterRow, GoOn, End, At, NoRequest, Behind, TypeOK, Request
  <2>2. r \in OrgPassed /\ OrgPassed' \in SUBSET (OrgPassed \ {r})
    BY <1>1, <2>1, OrgPassage DEF OrgPassed, Behind
  <2> QED BY <2>1, <2>2, WithinPaid, CapsTyped
<1>3. CASE PassOrg(r)
  <2>1. /\ now' = now /\ spent' = spent
        /\ ~(SumCost(ledger, Callers, WindowStart(req[r].at, OrgWindow)) >= OrgCap)
    BY <1>3 DEF PassOrg, OrgAtCap
  <2> QED BY <2>1, WithinChecked, CapsTyped
<1>4. CASE ~InsertRow(r) /\ ~PassOrg(r)
  <2>1. now' = now /\ spent' = spent
    BY <1>4, OnlyInsertsCharge
  <2>2. OrgPassed' \in SUBSET OrgPassed
    BY <1>1, <1>4, OrgPassage
  <2> QED BY <1>1, <2>1, <2>2, WithinKept, CapsTyped
<1> QED BY <1>2, <1>3, <1>4

LEMMA StepKeepsKey ==
    ASSUME TypeOK, RetainedRowsAgree, Carried, NEW r \in Requests, Step(r), NEW c \in Callers,
           Within({c}, KeyWindow[c], KeyCap[c], KeyPassed(c)), KeyCap[c] > 0,
           Fits(KeyWindow[c])
    PROVE  SumCost(spent', {c}, WindowStart(now', KeyWindow[c])) < KeyCap[c] + Room(KeyPassed(c)')
<1>1. Passage(r) /\ now \in Nat /\ {c} \in SUBSET Callers
  BY StepPasses DEF TypeOK, Seconds
<1>2. CASE InsertRow(r)
  <2>1. /\ req'[r].pc \notin Behind \cup {"key"} /\ req[r].pc = "row"
        /\ now' = now /\ spent' = Charged(spent, r)
    BY <1>2 DEF InsertRow, AfterRow, GoOn, End, At, NoRequest, Behind, TypeOK, Request
  <2>2. /\ req[r].caller \in {c} => r \in KeyPassed(c)
        /\ KeyPassed(c)' \in SUBSET (KeyPassed(c) \ {r})
    BY <1>1, <2>1, KeyPassage DEF KeyPassed, Behind
  <2> QED BY <1>1, <2>1, <2>2, WithinPaid, CapsTyped
<1>3. CASE PassKey(r) /\ req[r].caller = c
  <2>1. /\ now' = now /\ spent' = spent
        /\ ~(SumCost(ledger, {c}, WindowStart(req[r].at, KeyWindow[c])) >= KeyCap[c])
    BY <1>3 DEF PassKey, KeyAtCap
  <2> QED BY <1>1, <2>1, WithinChecked, CapsTyped
<1>4. CASE ~InsertRow(r) /\ ~(PassKey(r) /\ req[r].caller = c)
  <2>1. now' = now /\ spent' = spent
    BY <1>4, OnlyInsertsCharge
  <2>2. KeyPassed(c)' \in SUBSET KeyPassed(c)
    BY <1>1, <1>4, KeyPassage
  <2> QED BY <1>1, <2>1, <2>2, WithinKept, CapsTyped
<1> QED BY <1>2, <1>3, <1>4

LEMMA NextKeepsSpend ==
    ASSUME TypeOK, RetainedRowsAgree, Carried, SpendCovered, [Next]_vars
    PROVE  SpendCovered'
<1> USE DEF SpendCovered
<1>1. ASSUME NEW r \in Requests, Step(r) PROVE SpendCovered'
  BY <1>1, StepKeepsOrg, StepKeepsKey DEF Within
<1>2. ASSUME NEW later \in Nat, now <= later, now' = later, UNCHANGED <<req, spent>>
      PROVE  SpendCovered'
  <2>1. OrgPassed' = OrgPassed /\ \A c : KeyPassed(c)' = KeyPassed(c)
    BY <1>2 DEF OrgPassed, KeyPassed
  <2>2. Within(Callers, OrgWindow, OrgCap, OrgPassed)'
    BY <1>2, <2>1, WithinKept, CapsTyped DEF Within
  <2>3. ASSUME NEW c \in Callers
        PROVE  Within({c}, KeyWindow[c], KeyCap[c], KeyPassed(c))'
    <3>1. {c} \in SUBSET Callers
      OBVIOUS
    <3> QED BY <1>2, <2>1, <3>1, WithinKept, CapsTyped DEF Within
  <2> QED BY <2>2, <2>3
<1>3. now \in Nat
  BY DEF TypeOK, Seconds
<1>4. Purge \/ (\E period \in Overrides : PurgeOlderThan(period)) \/ Tick
      \/ UNCHANGED vars => UNCHANGED <<req, spent>> /\ (now' = now \/ now' = now + 1)
  BY DEF Purge, PurgeOlderThan, Tick, vars
<1>5. CASE UNCHANGED <<req, spent>> /\ (now' = now \/ now' = now + 1)
  <2>1. now' \in Nat /\ now <= now'
    BY <1>3, <1>5
  <2> QED BY <1>2, <1>5, <2>1
<1> QED BY <1>1, <1>4, <1>5 DEF Next

LEMMA InitSpend ==
    ASSUME Init
    PROVE  Carried /\ SpendCovered
<1>1. now = 0 /\ spent = [c \in Callers |-> [t \in Seconds |-> 0]]
      /\ req = [r \in Requests |-> NoRequest]
  BY DEF Init
<1>2. Carried
  BY <1>1, MostIsCost DEF NoRequest, Carried
<1>3. ASSUME NEW cs \in SUBSET Callers, NEW window \in Nat, NEW cap \in Nat, NEW passed
      PROVE  Within(cs, window, cap, passed)
  <2> DEFINE since == WindowStart(now, window)
  <2>1. since \in Int
    BY <1>1, WindowStartBelow
  <2>2. IsFiniteSet(RowsSince(cs, since)) /\ RowsSince(cs, since) \subseteq Callers \X Seconds
    BY <2>1, RowsFinite
  <2>3. \A row \in RowsSince(cs, since) : CostOf(spent)[row] = 0
    BY <1>1, <2>2 DEF CostOf
  <2>4. SumCost(spent, cs, since) = 0
    <3> HIDE DEF since
    <3> QED BY <2>2, <2>3, SumZero, SumCostIsSum
  <2>5. Room(passed) \in Nat
    BY RoomType
  <2>6. cap > 0 => 0 < cap + Room(passed)
    BY <2>5
  <2>7. SumCost(spent, cs, WindowStart(now, window)) = 0
    BY <2>4
  <2> QED BY ONLY <2>6, <2>7 DEF Within
<1>4. \A c \in Callers : {c} \in SUBSET Callers
  OBVIOUS
<1> QED BY <1>2, <1>3, <1>4, CapsTyped DEF SpendCovered

LEMMA CoveredIsBounded ==
    ASSUME TypeOK, SpendCovered
    PROVE  SustainedSpendBounded
<1> DEFINE all == Cardinality(Requests) * Max(Costs)
<1>1. ASSUME NEW passed PROVE Room(passed) <= Overshoot
  <2>1. Requests \ {} = Requests /\ {} \in SUBSET passed
    OBVIOUS
  <2> QED BY <2>1, RoomGrows DEF Room, Overshoot
<1>2. Overshoot \in Nat
  <2>1. Requests \ {} = Requests
    OBVIOUS
  <2> QED BY <2>1, RoomType DEF Room, Overshoot
<1>3. ASSUME NEW cs \in SUBSET Callers, NEW window \in Nat, NEW cap \in Nat, NEW passed,
             Within(cs, window, cap, passed), cap > 0, Fits(window)
      PROVE  SumCost(spent, cs, WindowStart(now, window)) < cap + Overshoot
  <2>1. now \in Nat /\ spent \in Tables
    BY DEF TypeOK, Tables, Seconds
  <2>2. SumCost(spent, cs, WindowStart(now, window)) \in Nat
    BY <2>1, WindowStartBelow, SumCostType
  <2>3. Room(passed) \in Nat /\ Room(passed) <= Overshoot
    BY <1>1, RoomType
  <2> QED BY <1>2, <1>3, <2>2, <2>3 DEF Within
<1>4. \A c \in Callers : {c} \in SUBSET Callers
  OBVIOUS
<1> QED BY <1>3, <1>4, CapsTyped DEF SpendCovered, SustainedSpendBounded

\* A cap bounds sustained spend: the rows of the current window, purged or
\* not, exceed it by no more than the requests in flight may cost, for any
\* caps, windows, prices and interleaving of checks, rows and purges.
THEOREM SpendIsBounded == Spec => []SustainedSpendBounded
<1>1. Init => RetainedRowsAgree /\ Carried /\ SpendCovered
  BY InitSpend DEF Init, RetainedRowsAgree
<1>2. TypeOK /\ RetainedRowsAgree /\ Carried /\ SpendCovered /\ [Next]_vars
      => RetainedRowsAgree' /\ Carried' /\ SpendCovered'
  BY NextKeepsAgreement, NextCarries, NextKeepsSpend
<1>3. TypeOK /\ SpendCovered => SustainedSpendBounded
  BY CoveredIsBounded
<1> QED BY <1>1, <1>2, <1>3, TypeCorrect, PTL DEF Spec
=============================================================================
