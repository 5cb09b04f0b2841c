------------------------ MODULE CredentialPoolProofs ------------------------
(***************************************************************************)
(* Theorems of CredentialPool, for any number of credentials, callers and  *)
(* retry hints.                                                            *)
(***************************************************************************)
EXTENDS CredentialPool, WellFoundedInduction, TLAPS

-----------------------------------------------------------------------------
(* Arithmetic of the scan, which wraps around *)

LEMMA Below == \A n \in Nat \ {0}, k \in Nat : k < n => k % n = k
OBVIOUS

LEMMA Wrapped == \A n \in Nat \ {0}, k \in Nat : k < n => (k + n) % n = k
OBVIOUS

LEMMA InRange == \A n \in Nat \ {0}, k \in Nat : k % n \in 0 .. n - 1
OBVIOUS

LEMMA LeastExists ==
    ASSUME NEW S, S \subseteq Nat, S # {}
    PROVE  \E least \in S : \A x \in S : least <= x
<1> DEFINE Less == OpToRel(<, Nat)
<1>1. \E least \in S : \A x \in S : <<x, least>> \notin Less
  BY NatLessThanWellFounded, WFMin
<1>2. \A x, y \in Nat : <<x, y>> \in Less <=> x < y
  BY DEF OpToRel
<1>3. \A x, y \in Nat : <<x, y>> \notin Less => ~(x < y)
  BY <1>2
<1>4. \E least \in S : \A x \in S : ~(x < least)
  BY <1>1, <1>3
<1> QED BY <1>4

-----------------------------------------------------------------------------
(* Types *)

LEMMA SoonestRetryTyped ==
    ASSUME now \in Nat, cooldowns \in [Creds -> Nat]
    PROVE  SoonestRetry \in Nat
<1> DEFINE waits == {cooldowns[c] - now :
                       c \in {d \in Creds : cooldowns[d] > now}}
<1>1. waits \subseteq Nat
  OBVIOUS
<1>2. CASE waits = {}
  BY <1>2 DEF SoonestRetry
<1>3. CASE waits # {}
  <2> DEFINE Shortest(w) == \A v \in waits : w <= v
  <2>1. \E w \in waits : Shortest(w)
    BY <1>1, <1>3, LeastExists
  <2>2. (CHOOSE w \in waits : Shortest(w)) \in waits
    BY <2>1, Zenon
  <2>3. SoonestRetry = CHOOSE w \in waits : Shortest(w)
    BY <1>3 DEF SoonestRetry
  <2> QED BY <1>1, <2>2, <2>3
<1> QED BY <1>2, <1>3

LEMMA TurnTyped ==
    ASSUME TypeOK, NEW p \in Callers
    PROVE  Turn(p) \in Creds
<1>1. N \in Nat \ {0} /\ start[p] + pos[p] \in Nat
  BY PoolAssumption DEF TypeOK, Creds
<1> QED BY <1>1, InRange DEF Turn, Creds

LEMMA EndedTyped ==
    ASSUME TypeOK, NEW p \in Callers, NEW kind \in Kinds, NEW wait \in Nat,
           Ended(p, kind, wait)
    PROVE  /\ phase' \in [Callers -> {"idle", "scanning", "calling", "served"}]
           /\ result' \in [Callers -> [kind : Kinds, wait : Nat]]
           /\ alone' \in [Callers -> BOOLEAN]
BY DEF Ended, TypeOK

LEMMA LeaveTyped ==
    ASSUME TypeOK, NEW p \in Callers, pos[p] < N, Leave(p)
    PROVE  pos' \in [Callers -> 0 .. N]
<1>1. pos[p] + 1 \in 0 .. N
  BY PoolAssumption DEF TypeOK
<1> QED BY <1>1 DEF Leave, TypeOK

LEMMA SpendTyped ==
    ASSUME TypeOK, NEW p \in Callers, Spend(p)
    PROVE  spent' \in [Callers -> SUBSET Creds]
<1>1. spent[p] \cup {Turn(p)} \in SUBSET Creds
  BY TurnTyped DEF TypeOK
<1> QED BY <1>1 DEF Spend, TypeOK

LEMMA CooledTyped ==
    ASSUME TypeOK, NEW c, NEW hint \in Hints
    PROVE  Cooled(c, hint) \in [Creds -> Nat]
<1>1. now + (IF hint > 0 THEN hint ELSE Default) \in Nat
  BY PoolAssumption DEF TypeOK
<1> QED BY <1>1 DEF Cooled, TypeOK

-----------------------------------------------------------------------------
(* The inductive invariant.  A scan has visited the credentials Left(p),   *)
(* and what it found spent are exactly the capable ones of those; only a   *)
(* scan that is not over calls.                                            *)

Left(p) == {(start[p] + i) % N : i \in 0 .. pos[p] - 1}

ScanAccounts ==
    \A p \in Callers :
        phase[p] # "idle" => spent[p] = Left(p) \cap Capable[method[p]]

CallInTurn ==
    \A p \in Callers :
        phase[p] \in {"calling", "served"} =>
            pos[p] < N /\ Turn(p) \in Capable[method[p]]

IInv == TypeOK /\ ScanAccounts /\ CallInTurn /\ ExhaustedOnlyWhenSpent

LEMMA InitIInv == Init => IInv
<1> SUFFICES ASSUME Init PROVE IInv
  OBVIOUS
<1>1. TypeOK
  BY PoolAssumption DEF Init, TypeOK, Creds, Kinds, AllMethods
<1> QED
  BY <1>1 DEF Init, IInv, ScanAccounts, CallInTurn, ExhaustedOnlyWhenSpent

\* One more place of the scan.
LEMMA LeftGrows ==
    ASSUME TypeOK, NEW p \in Callers, start' = start, Leave(p)
    PROVE  /\ Left(p)' = Left(p) \cup {Turn(p)}
           /\ \A q \in Callers \ {p} : Left(q)' = Left(q)
<1>1. pos[p] \in Nat /\ pos'[p] = pos[p] + 1
  BY DEF Leave, TypeOK
<1>2. 0 .. pos'[p] - 1 = (0 .. pos[p] - 1) \cup {pos[p]}
  BY <1>1
<1>3. Left(p)' = Left(p) \cup {Turn(p)}
  BY <1>2 DEF Left, Turn
<1>4. \A q \in Callers \ {p} : pos'[q] = pos[q]
  BY DEF Leave, TypeOK
<1> QED BY <1>3, <1>4 DEF Left

\* A scan of N places has seen every credential.
LEMMA AllSeen ==
    ASSUME TypeOK, NEW p \in Callers, pos[p] = N
    PROVE  Left(p) = Creds
<1>1. N \in Nat \ {0} /\ start[p] \in 0 .. N - 1
  BY PoolAssumption DEF TypeOK, Creds
<1>2. ASSUME NEW i \in 0 .. N - 1
      PROVE  (start[p] + i) % N \in Creds
  <2>1. start[p] + i \in Nat
    BY <1>1
  <2> QED BY <1>1, <2>1, InRange DEF Creds
<1>3. ASSUME NEW c \in Creds
      PROVE  \E i \in 0 .. N - 1 : (start[p] + i) % N = c
  <2>1. c \in Nat /\ c < N
    BY <1>1 DEF Creds
  <2>2. CASE c >= start[p]
    <3>1. c - start[p] \in 0 .. N - 1 /\ start[p] + (c - start[p]) = c
      BY <1>1, <2>1, <2>2
    <3> QED BY <1>1, <2>1, <3>1, Below
  <2>3. CASE c < start[p]
    <3>1. /\ c - start[p] + N \in 0 .. N - 1
          /\ start[p] + (c - start[p] + N) = c + N
      BY <1>1, <2>1, <2>3
    <3> QED BY <1>1, <2>1, <3>1, Wrapped
  <2> QED BY <1>1, <2>1, <2>2, <2>3
<1> QED BY <1>2, <1>3 DEF Left

-----------------------------------------------------------------------------
(* One lemma per kind of step: p ends, p leaves a place behind, p stays.   *)

LEMMA EndedKeeps ==
    ASSUME IInv, NEW p \in Callers, NEW kind \in Kinds, NEW wait \in Nat,
           Ended(p, kind, wait),
           kind = "rate_limit" => spent[p] = Capable[method[p]],
           UNCHANGED <<method, start, pos, spent>>
    PROVE  ScanAccounts' /\ CallInTurn' /\ ExhaustedOnlyWhenSpent'
<1>1. /\ phase' = [phase EXCEPT ![p] = "idle"]
      /\ result' = [result EXCEPT ![p] = [kind |-> kind, wait |-> wait]]
      /\ phase \in [Callers -> {"idle", "scanning", "calling", "served"}]
      /\ result \in [Callers -> [kind : Kinds, wait : Nat]]
  BY DEF Ended, IInv, TypeOK
<1>2. \A q \in Callers : Left(q)' = Left(q) /\ Turn(q)' = Turn(q)
  BY DEF Left, Turn
<1>3. ScanAccounts'
  BY <1>1, <1>2 DEF IInv, ScanAccounts
<1>4. CallInTurn'
  BY <1>1, <1>2 DEF IInv, CallInTurn
<1>5. ExhaustedOnlyWhenSpent'
  BY <1>1 DEF IInv, ExhaustedOnlyWhenSpent
<1> QED BY <1>3, <1>4, <1>5

LEMMA LeavingKeeps ==
    ASSUME IInv, NEW p \in Callers, phase[p] # "idle", Leave(p),
           phase' = [phase EXCEPT ![p] = "scanning"],
           UNCHANGED <<method, start, result>>,
           \/ Turn(p) \in Capable[method[p]] /\ Spend(p)
           \/ Turn(p) \notin Capable[method[p]] /\ UNCHANGED spent
    PROVE  ScanAccounts' /\ CallInTurn' /\ ExhaustedOnlyWhenSpent'
<1>1. /\ phase \in [Callers -> {"idle", "scanning", "calling", "served"}]
      /\ pos \in [Callers -> 0 .. N]
      /\ spent \in [Callers -> SUBSET Creds]
      /\ TypeOK
  BY DEF IInv, TypeOK
<1>2. /\ Left(p)' = Left(p) \cup {Turn(p)}
      /\ \A q \in Callers \ {p} : Left(q)' = Left(q)
  BY <1>1, LeftGrows
<1>3. \A q \in Callers \ {p} :
          /\ phase'[q] = phase[q] /\ pos'[q] = pos[q] /\ spent'[q] = spent[q]
          /\ Turn(q)' = Turn(q)
  BY <1>1 DEF Leave, Spend, Turn
<1>4. phase'[p] = "scanning"
  BY <1>1
<1>5. spent'[p] = Left(p)' \cap Capable[method[p]]
  <2>1. spent[p] = Left(p) \cap Capable[method[p]]
    BY DEF IInv, ScanAccounts
  <2>2. CASE Turn(p) \in Capable[method[p]] /\ Spend(p)
    <3>1. spent'[p] = spent[p] \cup {Turn(p)}
      BY <1>1, <2>2 DEF Spend
    <3> QED BY <1>2, <2>1, <2>2, <3>1
  <2>3. CASE Turn(p) \notin Capable[method[p]] /\ UNCHANGED spent
    BY <1>2, <2>1, <2>3
  <2> QED BY <2>2, <2>3
<1>6. ScanAccounts'
  BY <1>2, <1>3, <1>5 DEF IInv, ScanAccounts
<1>7. CallInTurn'
  BY <1>3, <1>4 DEF IInv, CallInTurn
<1>8. ExhaustedOnlyWhenSpent'
  BY <1>3, <1>4 DEF IInv, ExhaustedOnlyWhenSpent
<1> QED BY <1>6, <1>7, <1>8

LEMMA StayingKeeps ==
    ASSUME IInv, NEW p \in Callers, NEW next \in {"calling", "served"},
           phase[p] # "idle", pos[p] < N, Turn(p) \in Capable[method[p]],
           phase' = [phase EXCEPT ![p] = next],
           UNCHANGED <<method, start, pos, spent, result>>
    PROVE  ScanAccounts' /\ CallInTurn' /\ ExhaustedOnlyWhenSpent'
<1>1. phase \in [Callers -> {"idle", "scanning", "calling", "served"}]
  BY DEF IInv, TypeOK
<1>2. \A q \in Callers : Left(q)' = Left(q) /\ Turn(q)' = Turn(q)
  BY DEF Left, Turn
<1>3. ScanAccounts'
  BY <1>1, <1>2 DEF IInv, ScanAccounts
<1>4. CallInTurn'
  BY <1>1, <1>2 DEF IInv, CallInTurn
<1>5. ExhaustedOnlyWhenSpent'
  BY <1>1 DEF IInv, ExhaustedOnlyWhenSpent
<1> QED BY <1>3, <1>4, <1>5

-----------------------------------------------------------------------------
(* The step *)

LEMMA NextIInv == IInv /\ [Next]_vars => IInv'
<1> SUFFICES ASSUME IInv, [Next]_vars PROVE IInv'
  OBVIOUS
<1> USE DEF Kinds
<1>1. TypeOK
  BY DEF IInv
<1>2. ASSUME NEW p \in Callers, NEW m \in Methods, Begin(p, m)
      PROVE  IInv'
  <2>1. TypeOK'
    <3>1. m \in AllMethods /\ 0 \in 0 .. N
      BY PoolAssumption
    <3>2. alone' \in [Callers -> BOOLEAN]
      BY <1>1, <1>2 DEF Begin, Overlaps, TypeOK
    <3> QED BY <1>1, <1>2, <3>1, <3>2 DEF Begin, TypeOK
  <2>2. /\ phase'[p] = "scanning" /\ pos'[p] = 0 /\ spent'[p] = {}
        /\ \A q \in Callers \ {p} :
               /\ phase'[q] = phase[q] /\ pos'[q] = pos[q]
               /\ start'[q] = start[q] /\ spent'[q] = spent[q]
               /\ method'[q] = method[q] /\ result'[q] = result[q]
    BY <1>1, <1>2 DEF Begin, TypeOK
  <2>3. \A q \in Callers \ {p} : Left(q)' = Left(q) /\ Turn(q)' = Turn(q)
    BY <2>2 DEF Left, Turn
  <2>4. Left(p)' = {}
    <3>1. 0 .. pos'[p] - 1 = {}
      BY <2>2
    <3> QED BY <3>1 DEF Left
  <2>5. ScanAccounts'
    BY <2>2, <2>3, <2>4 DEF IInv, ScanAccounts
  <2>6. CallInTurn'
    BY <2>2, <2>3 DEF IInv, CallInTurn
  <2>7. ExhaustedOnlyWhenSpent'
    BY <2>2 DEF IInv, ExhaustedOnlyWhenSpent
  <2> QED BY <2>1, <2>5, <2>6, <2>7 DEF IInv
<1>3. ASSUME NEW p \in Callers, SkipIncapable(p)
      PROVE  IInv'
  <2>1. TypeOK'
    BY <1>1, <1>3, LeaveTyped DEF SkipIncapable, Scanning, TypeOK
  <2>2. phase' = [phase EXCEPT ![p] = "scanning"]
    BY <1>1, <1>3 DEF SkipIncapable, Scanning, TypeOK
  <2>3. ScanAccounts' /\ CallInTurn' /\ ExhaustedOnlyWhenSpent'
    BY <1>3, <2>2, LeavingKeeps DEF SkipIncapable, Scanning
  <2> QED BY <2>1, <2>3 DEF IInv
<1>4. ASSUME NEW p \in Callers, SkipCooled(p)
      PROVE  IInv'
  <2>1. TypeOK'
    BY <1>1, <1>4, LeaveTyped, SpendTyped DEF SkipCooled, Scanning, TypeOK
  <2>2. phase' = [phase EXCEPT ![p] = "scanning"]
    BY <1>1, <1>4 DEF SkipCooled, Scanning, TypeOK
  <2>3. ScanAccounts' /\ CallInTurn' /\ ExhaustedOnlyWhenSpent'
    BY <1>4, <2>2, LeavingKeeps DEF SkipCooled, Scanning
  <2> QED BY <2>1, <2>3 DEF IInv
<1>5. ASSUME NEW p \in Callers, Call(p)
      PROVE  IInv'
  <2>1. TypeOK'
    BY <1>1, <1>5 DEF Call, TypeOK
  <2>2. ScanAccounts' /\ CallInTurn' /\ ExhaustedOnlyWhenSpent'
    BY <1>5, StayingKeeps DEF Call, Scanning
  <2> QED BY <2>1, <2>2 DEF IInv
<1>6. ASSUME NEW p \in Callers, AnswerServed(p)
      PROVE  IInv'
  <2>1. TypeOK'
    BY <1>1, <1>6 DEF AnswerServed, TypeOK
  <2>2. ScanAccounts' /\ CallInTurn' /\ ExhaustedOnlyWhenSpent'
    <3>1. pos[p] < N /\ Turn(p) \in Capable[method[p]]
      BY <1>6 DEF AnswerServed, IInv, CallInTurn
    <3> QED BY <1>6, <3>1, StayingKeeps DEF AnswerServed
  <2> QED BY <2>1, <2>2 DEF IInv
<1>7. ASSUME NEW p \in Callers, Selected(p)
      PROVE  IInv'
  <2>1. TypeOK'
    BY <1>1, <1>7, EndedTyped, TurnTyped DEF Selected, TypeOK
  <2>2. ScanAccounts' /\ CallInTurn' /\ ExhaustedOnlyWhenSpent'
    BY <1>7, EndedKeeps DEF Selected
  <2> QED BY <2>1, <2>2 DEF IInv
<1>8. ASSUME NEW p \in Callers, NEW hint \in Hints, AnswerLimited(p, hint)
      PROVE  IInv'
  <2>1. pos[p] < N /\ Turn(p) \in Capable[method[p]]
    BY <1>8 DEF AnswerLimited, IInv, CallInTurn
  <2>2. TypeOK'
    BY <1>1, <1>8, <2>1, LeaveTyped, SpendTyped, CooledTyped
       DEF AnswerLimited, TypeOK
  <2>3. ScanAccounts' /\ CallInTurn' /\ ExhaustedOnlyWhenSpent'
    BY <1>8, <2>1, LeavingKeeps DEF AnswerLimited
  <2> QED BY <2>2, <2>3 DEF IInv
<1>9. ASSUME NEW p \in Callers, AnswerUnavailable(p)
      PROVE  IInv'
  <2>1. pos[p] < N /\ Turn(p) \in Capable[method[p]]
    BY <1>9 DEF AnswerUnavailable, IInv, CallInTurn
  <2>2. TypeOK'
    BY <1>1, <1>9, <2>1, LeaveTyped, SpendTyped DEF AnswerUnavailable, TypeOK
  <2>3. ScanAccounts' /\ CallInTurn' /\ ExhaustedOnlyWhenSpent'
    BY <1>9, <2>1, LeavingKeeps DEF AnswerUnavailable
  <2> QED BY <2>2, <2>3 DEF IInv
<1>10. ASSUME NEW p \in Callers, AnswerError(p)
       PROVE  IInv'
  <2>1. TypeOK'
    BY <1>1, <1>10, EndedTyped DEF AnswerError, TypeOK
  <2>2. ScanAccounts' /\ CallInTurn' /\ ExhaustedOnlyWhenSpent'
    BY <1>10, EndedKeeps DEF AnswerError
  <2> QED BY <2>1, <2>2 DEF IInv
<1>11. ASSUME NEW p \in Callers, Exhaust(p)
       PROVE  IInv'
  <2>1. SoonestRetry \in Nat
    BY <1>1, SoonestRetryTyped DEF TypeOK
  <2>2. TypeOK'
    BY <1>1, <1>11, <2>1, EndedTyped DEF Exhaust, TypeOK
  <2>3. spent[p] = Capable[method[p]]
    <3>1. Left(p) = Creds
      BY <1>1, <1>11, AllSeen DEF Exhaust
    <3>2. Capable[method[p]] \subseteq Creds
      BY <1>1, PoolAssumption DEF TypeOK
    <3> QED BY <1>11, <3>1, <3>2 DEF Exhaust, IInv, ScanAccounts
  <2>4. ScanAccounts' /\ CallInTurn' /\ ExhaustedOnlyWhenSpent'
    BY <1>11, <2>1, <2>3, EndedKeeps DEF Exhaust
  <2> QED BY <2>2, <2>4 DEF IInv
<1>12. CASE Tick
  <2>1. TypeOK'
    BY <1>1, <1>12, PoolAssumption DEF Tick, TypeOK
  <2>2. UNCHANGED <<method, phase, start, pos, spent, result>>
    BY <1>12 DEF Tick
  <2> QED BY <2>1, <2>2 DEF IInv, ScanAccounts, CallInTurn, Left, Turn,
                            ExhaustedOnlyWhenSpent
<1>13. CASE UNCHANGED vars
  BY <1>13 DEF vars, IInv, TypeOK, ScanAccounts, CallInTurn, Left, Turn,
               ExhaustedOnlyWhenSpent
<1> QED BY <1>2, <1>3, <1>4, <1>5, <1>6, <1>7, <1>8, <1>9, <1>10, <1>11,
           <1>12, <1>13 DEF Next

-----------------------------------------------------------------------------
(***************************************************************************)
(* Every scan, whatever the other callers and the clock do to the serving  *)
(* credential and the parks meanwhile, keeps an exact account of what it   *)
(* found spent (Complete and its siblings in provider/pool/pool.go).       *)
(***************************************************************************)
THEOREM AlwaysIInv == Spec => []IInv
BY InitIInv, NextIInv, PTL DEF Spec

(***************************************************************************)
(* The state of the pool keeps its types.                                  *)
(***************************************************************************)
THEOREM TypeCorrect == Spec => []TypeOK
<1>1. IInv => TypeOK
  BY DEF IInv
<1> QED BY AlwaysIInv, <1>1, PTL

(***************************************************************************)
(* errAllCooled is returned only after a scan on which every credential    *)
(* that has the method was found parked, limited or unavailable: the       *)
(* wrap-around from a serving credential that others move skips none.      *)
(***************************************************************************)
THEOREM ExhaustionJustified == Spec => []ExhaustedOnlyWhenSpent
<1>1. IInv => ExhaustedOnlyWhenSpent
  BY DEF IInv
<1> QED BY AlwaysIInv, <1>1, PTL

-----------------------------------------------------------------------------
(* Calls that nothing overlaps: everyone else is idle, so the serving      *)
(* credential and the park of the one called are as this call left them.   *)

Undisturbed(p) ==
    /\ \A q \in Callers \ {p} : phase[q] = "idle"
    /\ start[p] = cur
    /\ phase[p] = "calling" => cooldowns[Turn(p)] = 0

Solo == \A p \in Callers : alone[p] /\ phase[p] # "idle" => Undisturbed(p)

\* A step of p alone disturbs only a call that p overlaps already.
LEMMA OwnStepSolo ==
    ASSUME IInv, Solo, NEW p \in Callers, phase[p] # "idle",
           \A q \in Callers \ {p} : phase'[q] = phase[q] /\ alone'[q] = alone[q],
           \/ phase'[p] = "idle"
           \/ /\ alone'[p] = alone[p] /\ UNCHANGED <<start, cur>>
              /\ phase'[p] = "calling" => cooldowns'[Turn(p)'] = 0
    PROVE  Solo'
<1> SUFFICES ASSUME NEW q \in Callers, alone'[q], phase'[q] # "idle"
             PROVE  Undisturbed(q)'
  BY DEF Solo
<1>1. q = p
  <2>1. ASSUME q # p PROVE FALSE
    <3>1. alone[q] /\ phase[q] # "idle"
      BY <2>1
    <3>2. phase[p] = "idle"
      BY <2>1, <3>1 DEF Solo, Undisturbed
    <3> QED BY <3>2
  <2> QED BY <2>1
<1>2. alone[p] /\ Undisturbed(p)
  BY <1>1 DEF Solo
<1> QED BY <1>1, <1>2 DEF Undisturbed

LEMMA NextSolo == IInv /\ Solo /\ [Next]_vars => Solo'
<1> SUFFICES ASSUME IInv, Solo, [Next]_vars PROVE Solo'
  OBVIOUS
<1>1. /\ phase \in [Callers -> {"idle", "scanning", "calling", "served"}]
      /\ alone \in [Callers -> BOOLEAN] /\ start \in [Callers -> Creds]
      /\ cooldowns \in [Creds -> Nat] /\ TypeOK
  BY DEF IInv, TypeOK
<1>2. ASSUME NEW p \in Callers, NEW m \in Methods, Begin(p, m)
      PROVE  Solo'
  <2> DEFINE others == {q \in Callers \ {p} : phase[q] # "idle"}
  <2>1. /\ phase' = [phase EXCEPT ![p] = "scanning"] /\ start' = [start EXCEPT ![p] = cur]
        /\ alone' = [q \in Callers |-> IF q = p THEN others = {} ELSE alone[q] /\ q \notin others]
        /\ UNCHANGED cur
    BY <1>2 DEF Begin, Overlaps
  <2>2. ASSUME NEW q \in Callers \ {p}, alone'[q], phase'[q] # "idle" PROVE FALSE
    <3>1. phase[q] # "idle" /\ q \notin others
      BY <1>1, <2>1, <2>2
    <3> QED BY <3>1
  <2>3. ASSUME alone'[p] PROVE Undisturbed(p)'
    <3>1. others = {}
      BY <2>1, <2>3
    <3> QED BY <1>1, <2>1, <3>1 DEF Undisturbed
  <2> QED BY <2>2, <2>3 DEF Solo
<1>3. ASSUME NEW p \in Callers,
             SkipIncapable(p) \/ SkipCooled(p) \/ AnswerUnavailable(p)
      PROVE  Solo'
  <2>1. /\ phase[p] # "idle" /\ phase'[p] = "scanning"
        /\ \A q \in Callers \ {p} : phase'[q] = phase[q]
        /\ UNCHANGED <<alone, start, cur>>
    BY <1>1, <1>3 DEF SkipIncapable, SkipCooled, Scanning, AnswerUnavailable
  <2> QED BY <2>1, OwnStepSolo
<1>4. ASSUME NEW p \in Callers, Call(p)
      PROVE  Solo'
  <2>1. /\ phase[p] # "idle" /\ phase'[p] = "calling"
        /\ \A q \in Callers \ {p} : phase'[q] = phase[q]
        /\ UNCHANGED <<alone, start, cur>>
    BY <1>1, <1>4 DEF Call, Scanning
  <2>2. cooldowns'[Turn(p)'] = 0
    BY <1>1, <1>4, TurnTyped DEF Call, Turn
  <2> QED BY <2>1, <2>2, OwnStepSolo
<1>5. ASSUME NEW p \in Callers, AnswerServed(p)
      PROVE  Solo'
  <2>1. /\ phase[p] # "idle" /\ phase'[p] = "served"
        /\ \A q \in Callers \ {p} : phase'[q] = phase[q]
        /\ UNCHANGED <<alone, start, cur>>
    BY <1>1, <1>5 DEF AnswerServed
  <2> QED BY <2>1, OwnStepSolo
<1>6. ASSUME NEW p \in Callers, NEW hint \in Hints, AnswerLimited(p, hint)
      PROVE  Solo'
  <2>1. /\ phase[p] # "idle" /\ phase'[p] = "scanning"
        /\ \A q \in Callers \ {p} : phase'[q] = phase[q]
        /\ UNCHANGED <<alone, start, cur>>
    BY <1>1, <1>6 DEF AnswerLimited
  <2> QED BY <2>1, OwnStepSolo
<1>7. ASSUME NEW p \in Callers, Selected(p) \/ AnswerError(p) \/ Exhaust(p)
      PROVE  Solo'
  <2>1. /\ phase[p] # "idle" /\ phase'[p] = "idle"
        /\ \A q \in Callers \ {p} : phase'[q] = phase[q] /\ alone'[q] = alone[q]
    BY <1>1, <1>7 DEF Selected, AnswerError, Exhaust, Ended
  <2> QED BY <2>1, OwnStepSolo
<1>8. CASE Tick \/ UNCHANGED vars
  BY <1>8 DEF Tick, vars, Solo, Undisturbed, Turn
<1> QED BY <1>2, <1>3, <1>4, <1>5, <1>6, <1>7, <1>8 DEF Next

LEMMA AlwaysSolo == Spec => [](IInv /\ Solo)
<1>1. Init => IInv /\ Solo
  BY InitIInv DEF Init, Solo
<1>2. IInv /\ Solo /\ [Next]_vars => (IInv /\ Solo)'
  BY NextIInv, NextSolo
<1> QED BY <1>1, <1>2, PTL DEF Spec

\* A credential has been left behind as soon as the scan is past the first.
LEMMA FirstIsLeft ==
    ASSUME TypeOK, NEW p \in Callers, Turn(p) # start[p]
    PROVE  start[p] \in Left(p)
<1>1. N \in Nat \ {0} /\ start[p] \in Nat /\ start[p] < N /\ pos[p] \in Nat
  BY PoolAssumption DEF TypeOK, Creds
<1>2. start[p] % N = start[p]
  BY <1>1, Below
<1>3. pos[p] # 0
  BY <1>1, <1>2 DEF Turn
<1>4. 0 \in 0 .. pos[p] - 1 /\ (start[p] + 0) % N = start[p]
  BY <1>1, <1>2, <1>3
<1> QED BY <1>4 DEF Left

LEMMA OnlySelectedMoves ==
    ASSUME [Next]_vars, cur' # cur
    PROVE  \E p \in Callers : Selected(p)
BY DEF Next, vars, Begin, SkipIncapable, SkipCooled, Call, AnswerServed, AnswerLimited,
       AnswerUnavailable, AnswerError, Exhaust, Tick

(***************************************************************************)
(* A call that nothing overlaps moves the pool only off a credential it    *)
(* found spent, or that lacks its method (order, selected): the pool keeps *)
(* to the warm prompt cache as long as it can.                             *)
(***************************************************************************)
THEOREM SticksToTheServing == Spec => MovesOnlyOffSpentAlone
<1> DEFINE Excused ==
      \E p \in Callers :
          /\ phase[p] = "served"
          /\ alone[p] /\ cur \in Capable[method[p]] => cur \in spent[p]
<1>1. IInv /\ Solo /\ [Next]_vars => [cur' # cur => Excused]_vars
  <2> SUFFICES ASSUME IInv, Solo, [Next]_vars, cur' # cur PROVE Excused
    OBVIOUS
  <2>1. PICK p \in Callers : Selected(p)
    BY OnlySelectedMoves
  <2>2. phase[p] = "served" /\ Turn(p) # cur
    BY <2>1 DEF Selected
  <2>3. ASSUME alone[p], cur \in Capable[method[p]] PROVE cur \in spent[p]
    <3>1. start[p] = cur
      BY <2>2, <2>3 DEF Solo, Undisturbed
    <3>2. cur \in Left(p)
      BY <2>2, <3>1, FirstIsLeft DEF IInv
    <3> QED BY <2>2, <2>3, <3>2 DEF IInv, ScanAccounts
  <2> QED BY <2>2, <2>3
<1> HIDE DEF Excused
<1>2. Spec => [][cur' # cur => Excused]_vars
  BY <1>1, AlwaysSolo, PTL DEF Spec
<1> QED BY <1>2 DEF Excused, MovesOnlyOffSpentAlone
=============================================================================
