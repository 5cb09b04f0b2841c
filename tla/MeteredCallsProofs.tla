------------------------ MODULE MeteredCallsProofs ------------------------
(***************************************************************************)
(* Proofs about the rate meter and its concurrent callers, for every set   *)
(* of keys and callers and every cap.                                      *)
(***************************************************************************)
EXTENDS MeteredCalls, TLAPS

USE MeterAssumption, CallersAssumption

LEMMA MinuteIsNat ==
    ASSUME NEW t \in Nat
    PROVE  MinuteOf(t) \in Nat
BY DEF MinuteOf

LEMMA MinuteMonotone ==
    ASSUME NEW t \in Nat, NEW u \in Nat, t <= u
    PROVE  MinuteOf(t) <= MinuteOf(u)
BY DEF MinuteOf

\* A clock value within its bound lies in one of the minutes of the history.
LEMMA MinuteInRange ==
    ASSUME NEW t \in 0 .. MaxTime
    PROVE  MinuteOf(t) \in Minutes
BY MinuteIsNat, MinuteMonotone DEF Minutes

\* The minutes of the history are an initial segment of the naturals.
LEMMA MinutesDownClosed ==
    /\ Minutes \subseteq Nat
    /\ 0 \in Minutes
    /\ \A m \in Minutes, s \in Nat : s <= m => s \in Minutes
BY MinuteIsNat DEF Minutes

\* The live window of a key is a window of the minute it is read for.
LEMMA WinType ==
    ASSUME MeterTypeOK, NEW k \in Keys, NEW t \in Nat
    PROVE  Win(k, t) \in Window /\ Win(k, t).start = MinuteOf(t)
BY MinuteIsNat DEF MeterTypeOK, Win, EmptyWindow, Window

\* The counters of a stored window are naturals.
LEMMA WindowFields ==
    ASSUME MeterTypeOK, NEW k \in Keys
    PROVE  /\ windows[k].start \in Nat
           /\ windows[k].requests \in Nat
           /\ windows[k].tokens \in Nat
BY DEF MeterTypeOK, Window

\* What an admission, a rejection and a recording leave in the window.
LEMMA AdmitEffect ==
    ASSUME MeterTypeOK, NEW k \in Keys, NEW t \in Nat, Admit(k, t)
    PROVE  /\ MeterTypeOK'
           /\ windows'[k].start = MinuteOf(t)
           /\ windows'[k].requests = Win(k, t).requests + 1
           /\ windows'[k].tokens = Win(k, t).tokens
           /\ \A j \in Keys : j # k => windows'[j] = windows[j]
<1>1. Win(k, t) \in Window /\ Win(k, t).start = MinuteOf(t)
  BY WinType
<1> DEFINE w == [Win(k, t) EXCEPT !.requests = Win(k, t).requests + 1]
<1>2. /\ w \in Window
      /\ w.start = MinuteOf(t)
      /\ w.requests = Win(k, t).requests + 1
      /\ w.tokens = Win(k, t).tokens
  BY <1>1 DEF Window
<1>3. windows' = [windows EXCEPT ![k] = w]
  BY DEF Admit
<1> HIDE DEF w
<1>4. QED
  BY <1>2, <1>3 DEF MeterTypeOK

LEMMA RejectEffect ==
    ASSUME MeterTypeOK, NEW k \in Keys, NEW t \in Nat, Reject(k, t)
    PROVE  /\ MeterTypeOK'
           /\ windows'[k] = Win(k, t)
           /\ \A j \in Keys : j # k => windows'[j] = windows[j]
BY WinType DEF Reject, MeterTypeOK

LEMMA RecordEffect ==
    ASSUME MeterTypeOK, NEW k \in Keys, NEW t \in Nat, NEW n \in Int, n > 0,
           RecordTokens(k, n, t)
    PROVE  /\ MeterTypeOK'
           /\ windows'[k].start = MinuteOf(t)
           /\ windows'[k].requests = Win(k, t).requests
           /\ windows'[k].tokens = Win(k, t).tokens + n
           /\ \A j \in Keys : j # k => windows'[j] = windows[j]
<1>1. Win(k, t) \in Window /\ Win(k, t).start = MinuteOf(t)
  BY WinType
<1> DEFINE w == [Win(k, t) EXCEPT !.tokens = Win(k, t).tokens + n]
<1>2. /\ w \in Window
      /\ w.start = MinuteOf(t)
      /\ w.requests = Win(k, t).requests
      /\ w.tokens = Win(k, t).tokens + n
  BY <1>1 DEF Window
<1>3. windows' = [windows EXCEPT ![k] = w]
  BY DEF RecordTokens
<1> HIDE DEF w
<1>4. QED
  BY <1>2, <1>3 DEF MeterTypeOK

-----------------------------------------------------------------------------
LEMMA InitTypeOK == Init => TypeOK
<1>1. SUFFICES ASSUME Init PROVE TypeOK
  OBVIOUS
<1>2. MeterTypeOK
  BY <1>1, MinuteIsNat DEF Init, MeterInit, MeterTypeOK, EmptyWindow, Window
<1>3. caller \in [Callers -> Call]
  BY <1>1 DEF Init, Call
<1>4. QED
  BY <1>1, <1>2, <1>3 DEF Init, TypeOK

LEMMA NextTypeOK == TypeOK /\ [Next]_vars => TypeOK'
<1>1. SUFFICES ASSUME TypeOK, [Next]_vars PROVE TypeOK'
  OBVIOUS
<1>2. CASE Tick
  BY <1>1, <1>2 DEF TypeOK, Tick, MeterTypeOK
<1>3. ASSUME NEW c \in Callers, NEW k \in Keys, BeginAcquire(c, k)
      PROVE  TypeOK'
  BY <1>1, <1>3 DEF TypeOK, BeginAcquire, MeterTypeOK, Call
<1>4. ASSUME NEW c \in Callers, AcquireAdmitted(c)
      PROVE  TypeOK'
  <2>1. /\ caller[c].key \in Keys
        /\ caller[c].at \in Nat
        /\ MinuteOf(now) \in Minutes
    BY <1>1, MinuteInRange DEF TypeOK, Call
  <2>3. MeterTypeOK'
    BY <1>1, <1>4, <2>1, AdmitEffect DEF TypeOK, AcquireAdmitted
  <2>4. caller' \in [Callers -> Call]
    BY <1>1, <1>4 DEF TypeOK, AcquireAdmitted, Call
  <2>5. admitted' \in [Keys \X Minutes -> Nat]
    BY <1>1, <1>4, <2>1 DEF TypeOK, AcquireAdmitted
  <2>6. QED
    BY <1>1, <1>4, <2>1, <2>3, <2>4, <2>5 DEF TypeOK, AcquireAdmitted, HoldsOver
<1>5. ASSUME NEW c \in Callers, AcquireRejected(c)
      PROVE  TypeOK'
  <2>1. /\ caller[c].key \in Keys
        /\ caller[c].at \in Nat
        /\ MinuteOf(now) \in Minutes
    BY <1>1, MinuteInRange DEF TypeOK, Call
  <2>2. MeterTypeOK'
    BY <1>1, <1>5, <2>1, RejectEffect DEF TypeOK, AcquireRejected
  <2>3. QED
    BY <1>1, <1>5, <2>1, <2>2 DEF TypeOK, AcquireRejected, Call, HoldsOver
<1>6. ASSUME NEW c \in Callers, CallFails(c)
      PROVE  TypeOK'
  BY <1>1, <1>6 DEF TypeOK, CallFails, MeterTypeOK, Call
<1>7. ASSUME NEW c \in Callers, BeginRecord(c)
      PROVE  TypeOK'
  BY <1>1, <1>7 DEF TypeOK, BeginRecord, MeterTypeOK, Call
<1>8. ASSUME NEW c \in Callers, NEW n \in TokenCounts, Record(c, n)
      PROVE  TypeOK'
  <2>1. /\ caller[c].key \in Keys
        /\ caller[c].at \in Nat
        /\ MinuteOf(now) \in Minutes
    BY <1>1, MinuteInRange DEF TypeOK, Call
  <2>2. n > 0 => MeterTypeOK'
    BY <1>1, <1>8, <2>1, RecordEffect DEF TypeOK, Record
  <2>3. MeterTypeOK'
    BY <1>1, <1>8, <2>2 DEF TypeOK, Record, RecordTokens, MeterTypeOK
  <2>4. caller' \in [Callers -> Call]
    BY <1>1, <1>8 DEF TypeOK, Record, Call
  <2>5. credited' \in [Keys \X Minutes -> Nat]
    BY <1>1, <1>8, <2>1 DEF TypeOK, Record
  <2>6. QED
    BY <1>1, <1>8, <2>1, <2>3, <2>4, <2>5 DEF TypeOK, Record, HoldsOver
<1>9. CASE UNCHANGED vars
  BY <1>1, <1>9 DEF TypeOK, vars, MeterTypeOK
<1>10. QED
  BY <1>1, <1>2, <1>3, <1>4, <1>5, <1>6, <1>7, <1>8, <1>9 DEF Next

(***************************************************************************)
(* Windows, callers and histories keep their types in every behaviour.     *)
(***************************************************************************)
THEOREM TypeCorrect == Spec => []TypeOK
BY InitTypeOK, NextTypeOK, PTL DEF Spec

-----------------------------------------------------------------------------
\* The counters of a window, held against the history of the current minute.
Honest(w, k) ==
    LET km == <<k, MinuteOf(now)>> IN
    /\ w.requests <= admitted[km] /\ w.tokens <= credited[km]
    /\ km \notin heldOver => w.requests = admitted[km] /\ w.tokens = credited[km]

\* With a reading of the current minute the live window is an honest one.
LEMMA WinIsHonest ==
    ASSUME MeterInvariant, NEW k \in Keys, NEW t \in 0 .. MaxTime,
           MinuteOf(t) = MinuteOf(now)
    PROVE  Honest(Win(k, t), k)
<1>1. MinuteOf(now) \in Minutes
  BY MinuteInRange DEF MeterInvariant, TypeOK
<1>2. admitted[<<k, MinuteOf(now)>>] \in Nat /\ credited[<<k, MinuteOf(now)>>] \in Nat
  BY <1>1 DEF MeterInvariant, TypeOK
<1>3. Accounts(k)
  BY DEF MeterInvariant
<1>4. CASE windows[k].start = MinuteOf(now)
  BY <1>3, <1>4 DEF Win, Accounts, Honest
<1>5. CASE windows[k].start # MinuteOf(now)
  <2>1. Win(k, t).requests = 0 /\ Win(k, t).tokens = 0
    BY <1>5 DEF Win, EmptyWindow
  <2> QED BY <1>2, <1>3, <1>5, <2>1 DEF Accounts, Honest
<1> QED BY <1>4, <1>5

\* A reading of another minute is one of an earlier minute.
LEMMA LateIsEarlier ==
    ASSUME MeterInvariant, NEW c \in Callers, Late(c)
    PROVE  MinuteOf(caller[c].at) < MinuteOf(now)
<1>1. caller[c].at \in Nat /\ now \in Nat /\ caller[c].at <= now
  BY DEF MeterInvariant, ReadingsAreOld, TypeOK, Call
<1> QED BY <1>1, MinuteIsNat, MinuteMonotone DEF Late

LEMMA InitInvariant == Init => MeterInvariant
<1> SUFFICES ASSUME Init PROVE MeterInvariant
  OBVIOUS
<1>1. MinuteOf(0) \in Minutes /\ MinuteOf(0) \in Nat /\ now = 0
  BY MinuteInRange, MinuteIsNat DEF Init
<1>2. \A k \in Keys, m \in Minutes :
         admitted[<<k, m>>] = 0 /\ credited[<<k, m>>] = 0 /\ <<k, m>> \notin heldOver
  BY DEF Init
<1>3. ASSUME NEW k \in Keys PROVE windows[k].start <= MinuteOf(now) /\ Accounts(k)
  <2>1. windows[k].start = MinuteOf(0) /\ windows[k].requests = 0 /\ windows[k].tokens = 0
    BY DEF Init, MeterInit, EmptyWindow
  <2> QED BY <1>1, <1>2, <2>1 DEF Accounts
<1>4. ReadingsAreOld
  BY DEF Init, ReadingsAreOld
<1>5. FutureIsBlank
  BY <1>2 DEF FutureIsBlank
<1>6. RequestsWithinCap
  BY <1>2 DEF RequestsWithinCap, MeterAssumption
<1> QED BY <1>3, <1>4, <1>5, <1>6, InitTypeOK DEF MeterInvariant

\* A new minute begins with an empty history, and without a window.
LEMMA TickInvariant ==
    ASSUME MeterInvariant, TypeOK', Tick
    PROVE  MeterInvariant'
<1>1. /\ MinuteOf(now) \in Nat /\ MinuteOf(now') \in Minutes /\ MinuteOf(now') \in Nat
      /\ MinuteOf(now) <= MinuteOf(now')
  BY MinuteIsNat, MinuteMonotone, MinuteInRange DEF MeterInvariant, TypeOK, Tick
<1>2. /\ windows' = windows /\ caller' = caller /\ admitted' = admitted
      /\ credited' = credited /\ heldOver' = heldOver
  BY DEF Tick
<1>3. ASSUME NEW k \in Keys PROVE windows'[k].start <= MinuteOf(now') /\ Accounts(k)'
  <2>1. windows[k].start \in Nat /\ windows[k].start <= MinuteOf(now) /\ Accounts(k)
    BY WindowFields DEF MeterInvariant, TypeOK
  <2>2. CASE MinuteOf(now') = MinuteOf(now)
    BY <1>2, <2>1, <2>2 DEF Accounts
  <2>3. CASE MinuteOf(now') # MinuteOf(now)
    <3>1. MinuteOf(now') > MinuteOf(now) /\ windows[k].start # MinuteOf(now')
      BY <1>1, <2>1, <2>3
    <3>2. admitted[<<k, MinuteOf(now')>>] = 0 /\ credited[<<k, MinuteOf(now')>>] = 0
      BY <1>1, <3>1 DEF MeterInvariant, FutureIsBlank
    <3> QED BY <1>1, <1>2, <2>1, <3>1, <3>2 DEF Accounts
  <2> QED BY <2>2, <2>3
<1>4. FutureIsBlank'
  <2> SUFFICES ASSUME NEW k \in Keys, NEW m \in Minutes, m > MinuteOf(now')
               PROVE  /\ admitted[<<k, m>>] = 0 /\ credited[<<k, m>>] = 0
                      /\ <<k, m>> \notin heldOver
    BY <1>2 DEF FutureIsBlank
  <2>1. m > MinuteOf(now)
    BY <1>1, MinutesDownClosed
  <2> QED BY <2>1 DEF MeterInvariant, FutureIsBlank
<1>5. ReadingsAreOld'
  BY DEF MeterInvariant, ReadingsAreOld, Tick, TypeOK, Call
<1>6. RequestsWithinCap'
  BY <1>2 DEF MeterInvariant, RequestsWithinCap
<1> QED BY <1>3, <1>4, <1>5, <1>6 DEF MeterInvariant

\* What a step under the lock leaves alone: every other key and other minute.
OnlyTouches(k) ==
    LET m == MinuteOf(now) IN
    /\ now' = now
    /\ \A j \in Keys : j # k => windows'[j] = windows[j]
    /\ \A j \in Keys, n \in Minutes :
          <<j, n>> # <<k, m>> => /\ admitted'[<<j, n>>] = admitted[<<j, n>>]
                                 /\ credited'[<<j, n>>] = credited[<<j, n>>]
                                 /\ <<j, n>> \in heldOver' <=> <<j, n>> \in heldOver

\* One key is counted for one minute, and everything else stays.
LEMMA TouchKeeps ==
    ASSUME MeterInvariant, TypeOK', ReadingsAreOld', NEW k \in Keys, OnlyTouches(k),
           windows'[k].start <= MinuteOf(now), Accounts(k)',
           /\ k \in DOMAIN RPM /\ <<k, MinuteOf(now)>> \notin heldOver'
           => admitted'[<<k, MinuteOf(now)>>] <= RPM[k]
    PROVE  MeterInvariant'
<1> DEFINE m == MinuteOf(now)
<1>1. m \in Minutes /\ m \in Nat /\ now' = now
  BY MinuteInRange, MinutesDownClosed DEF MeterInvariant, TypeOK, OnlyTouches
<1>2. ASSUME NEW j \in Keys PROVE windows'[j].start <= MinuteOf(now') /\ Accounts(j)'
  <2>1. CASE j = k
    BY <1>1, <2>1
  <2>2. CASE j # k
    <3>1. /\ windows'[j] = windows[j]
          /\ admitted'[<<j, m>>] = admitted[<<j, m>>]
          /\ credited'[<<j, m>>] = credited[<<j, m>>]
          /\ <<j, m>> \in heldOver' <=> <<j, m>> \in heldOver
      BY <1>1, <2>2 DEF OnlyTouches
    <3>2. windows[j].start <= m /\ Accounts(j)
      BY DEF MeterInvariant
    <3> QED BY <1>1, <3>1, <3>2 DEF Accounts
  <2> QED BY <2>1, <2>2
<1>3. FutureIsBlank'
  <2> SUFFICES ASSUME NEW j \in Keys, NEW n \in Minutes, n > m
               PROVE  /\ admitted'[<<j, n>>] = 0 /\ credited'[<<j, n>>] = 0
                      /\ <<j, n>> \notin heldOver'
    BY <1>1 DEF FutureIsBlank
  <2>1. <<j, n>> # <<k, m>>
    BY <1>1, MinutesDownClosed
  <2> QED BY <2>1 DEF OnlyTouches, MeterInvariant, FutureIsBlank
<1>4. RequestsWithinCap'
  <2> SUFFICES ASSUME NEW j \in DOMAIN RPM, NEW n \in Minutes, <<j, n>> \notin heldOver'
               PROVE  admitted'[<<j, n>>] <= RPM[j]
    BY DEF RequestsWithinCap
  <2>1. CASE <<j, n>> = <<k, m>>
    BY <2>1
  <2>2. CASE <<j, n>> # <<k, m>>
    BY <2>2 DEF OnlyTouches, MeterInvariant, RequestsWithinCap, MeterAssumption
  <2> QED BY <2>1, <2>2
<1> QED BY <1>1, <1>2, <1>3, <1>4 DEF MeterInvariant

\* A call held over leaves a window of an earlier minute, and is on record.
LEMMA LateAccounts ==
    ASSUME MeterInvariant, NEW c \in Callers, NEW k \in Keys, k = caller[c].key,
           Late(c), HoldsOver(c), now' = now,
           windows'[k].start = MinuteOf(caller[c].at)
    PROVE  /\ windows'[k].start <= MinuteOf(now)
           /\ Accounts(k)'
           /\ <<k, MinuteOf(now)>> \in heldOver'
<1>1. caller[c].at \in Nat /\ now \in Nat
  BY DEF MeterInvariant, TypeOK, Call
<1>2. MinuteOf(caller[c].at) < MinuteOf(now)
  BY LateIsEarlier
<1>3. MinuteOf(caller[c].at) \in Nat /\ MinuteOf(now) \in Nat
  BY <1>1, MinuteIsNat
<1>4. <<k, MinuteOf(now)>> \in heldOver'
  BY DEF HoldsOver
<1>5. windows'[k].start # MinuteOf(now') /\ <<k, MinuteOf(now')>> \in heldOver'
  BY <1>2, <1>3, <1>4
<1>6. Accounts(k)'
  BY <1>5 DEF Accounts
<1> QED BY <1>2, <1>3, <1>4, <1>6

LEMMA AdmittedInvariant ==
    ASSUME MeterInvariant, TypeOK', NEW c \in Callers, AcquireAdmitted(c)
    PROVE  MeterInvariant'
<1>0. PICK k \in Keys, t \in 0 .. MaxTime, m \in Minutes :
        k = caller[c].key /\ t = caller[c].at /\ m = MinuteOf(now)
  BY MinuteInRange DEF MeterInvariant, TypeOK, Call
<1>1. /\ t \in Nat /\ m \in Nat
      /\ admitted[<<k, m>>] \in Nat /\ credited[<<k, m>>] \in Nat
  BY MinutesDownClosed DEF MeterInvariant, TypeOK
<1>2. /\ windows'[k].start = MinuteOf(t)
      /\ windows'[k].requests = Win(k, t).requests + 1
      /\ windows'[k].tokens = Win(k, t).tokens
      /\ \A j \in Keys : j # k => windows'[j] = windows[j]
  BY <1>0, <1>1, AdmitEffect DEF AcquireAdmitted, MeterInvariant, TypeOK
<1>3. /\ admitted'[<<k, m>>] = admitted[<<k, m>>] + 1
      /\ \A j \in Keys, n \in Minutes :
            <<j, n>> # <<k, m>> => admitted'[<<j, n>>] = admitted[<<j, n>>]
      /\ credited' = credited /\ now' = now /\ HoldsOver(c)
  BY <1>0, <1>1 DEF AcquireAdmitted, MeterInvariant, TypeOK
<1>4. Win(k, t).requests \in Nat /\ Win(k, t).tokens \in Nat
  BY <1>0, <1>1, WinType DEF MeterInvariant, TypeOK, Window
<1>5. OnlyTouches(k)
  BY <1>0, <1>2, <1>3 DEF OnlyTouches, HoldsOver
<1>6. ReadingsAreOld'
  BY DEF MeterInvariant, ReadingsAreOld, AcquireAdmitted, TypeOK, Call
<1>7. CASE Late(c)
  BY <1>0, <1>1, <1>2, <1>3, <1>5, <1>6, <1>7, LateAccounts, TouchKeeps
<1>8. CASE ~Late(c)
  <2>1. MinuteOf(t) = m /\ heldOver' = heldOver
    BY <1>0, <1>3, <1>8 DEF Late, HoldsOver
  <2>2. Honest(Win(k, t), k)
    BY <1>0, <1>1, <2>1, WinIsHonest
  <2>3. windows'[k].start <= m
    BY <1>0, <1>1, <1>2, <2>1
  <2>4. Accounts(k)'
    BY <1>0, <1>1, <1>2, <1>3, <1>4, <2>1, <2>2 DEF Accounts, Honest
  <2>5. ASSUME k \in DOMAIN RPM, <<k, m>> \notin heldOver'
        PROVE  admitted'[<<k, m>>] <= RPM[k]
    <3>1. Win(k, t).requests < RPM[k] /\ RPM[k] \in Nat
      BY <1>0, <2>5 DEF AcquireAdmitted, Admit, UnderCaps, MeterAssumption
    <3>2. Win(k, t).requests = admitted[<<k, m>>]
      BY <1>0, <2>1, <2>2, <2>5 DEF Honest
    <3> QED BY <1>0, <1>1, <1>3, <3>1, <3>2
  <2> QED BY <1>0, <1>1, <1>5, <1>6, <2>3, <2>4, <2>5, TouchKeeps
<1> QED BY <1>7, <1>8

LEMMA RejectedInvariant ==
    ASSUME MeterInvariant, TypeOK', NEW c \in Callers, AcquireRejected(c)
    PROVE  MeterInvariant'
<1>0. PICK k \in Keys, t \in 0 .. MaxTime, m \in Minutes :
        k = caller[c].key /\ t = caller[c].at /\ m = MinuteOf(now)
  BY MinuteInRange DEF MeterInvariant, TypeOK, Call
<1>1. /\ t \in Nat /\ m \in Nat
      /\ admitted[<<k, m>>] \in Nat /\ credited[<<k, m>>] \in Nat
  BY MinutesDownClosed DEF MeterInvariant, TypeOK
<1>2. /\ windows'[k] = Win(k, t) /\ Win(k, t).start = MinuteOf(t)
      /\ \A j \in Keys : j # k => windows'[j] = windows[j]
  BY <1>0, <1>1, RejectEffect, WinType DEF AcquireRejected, MeterInvariant, TypeOK
<1>3. admitted' = admitted /\ credited' = credited /\ now' = now /\ HoldsOver(c)
  BY <1>0 DEF AcquireRejected
<1>4. OnlyTouches(k)
  BY <1>0, <1>2, <1>3 DEF OnlyTouches, HoldsOver
<1>5. ReadingsAreOld'
  BY DEF MeterInvariant, ReadingsAreOld, AcquireRejected, TypeOK, Call
<1>6. CASE Late(c)
  BY <1>0, <1>1, <1>2, <1>3, <1>4, <1>5, <1>6, LateAccounts, TouchKeeps
<1>7. CASE ~Late(c)
  <2>1. MinuteOf(t) = m /\ heldOver' = heldOver
    BY <1>0, <1>3, <1>7 DEF Late, HoldsOver
  <2>2. Honest(Win(k, t), k)
    BY <1>0, <1>1, <2>1, WinIsHonest
  <2>3. windows'[k].start <= m
    BY <1>0, <1>1, <1>2, <2>1
  <2>4. Accounts(k)'
    BY <1>0, <1>1, <1>2, <1>3, <2>1, <2>2 DEF Accounts, Honest
  <2>5. k \in DOMAIN RPM /\ <<k, m>> \notin heldOver' => admitted'[<<k, m>>] <= RPM[k]
    BY <1>0, <1>1, <1>3, <2>1 DEF MeterInvariant, RequestsWithinCap
  <2> QED BY <1>0, <1>1, <1>4, <1>5, <2>3, <2>4, <2>5, TouchKeeps
<1> QED BY <1>6, <1>7

LEMMA RecordedInvariant ==
    ASSUME MeterInvariant, TypeOK', NEW c \in Callers, NEW n \in TokenCounts,
           Record(c, n)
    PROVE  MeterInvariant'
<1>0. PICK k \in Keys, t \in 0 .. MaxTime, m \in Minutes :
        k = caller[c].key /\ t = caller[c].at /\ m = MinuteOf(now)
  BY MinuteInRange DEF MeterInvariant, TypeOK, Call
<1>1. /\ t \in Nat /\ m \in Nat
      /\ admitted[<<k, m>>] \in Nat /\ credited[<<k, m>>] \in Nat
  BY MinutesDownClosed DEF MeterInvariant, TypeOK
<1>2. ReadingsAreOld'
  BY DEF MeterInvariant, ReadingsAreOld, Record, TypeOK, Call
<1>3. CASE ~(n > 0)
  <2>1. /\ windows' = windows /\ admitted' = admitted /\ now' = now /\ heldOver' = heldOver
        /\ credited' = credited
    BY <1>3 DEF Record, RecordTokens, MeterInvariant, TypeOK
  <2> QED BY <1>0, <1>2, <2>1 DEF MeterInvariant, Accounts, FutureIsBlank, RequestsWithinCap
<1>4. CASE n > 0
  <2>1. /\ windows'[k].start = MinuteOf(t)
        /\ windows'[k].requests = Win(k, t).requests
        /\ windows'[k].tokens = Win(k, t).tokens + n
        /\ \A j \in Keys : j # k => windows'[j] = windows[j]
    BY <1>0, <1>1, <1>4, RecordEffect DEF Record, MeterInvariant, TypeOK
  <2>2. /\ credited'[<<k, m>>] = credited[<<k, m>>] + n
        /\ \A j \in Keys, i \in Minutes :
              <<j, i>> # <<k, m>> => credited'[<<j, i>>] = credited[<<j, i>>]
        /\ admitted' = admitted /\ now' = now /\ HoldsOver(c)
    BY <1>0, <1>1, <1>4 DEF Record, MeterInvariant, TypeOK
  <2>3. OnlyTouches(k)
    BY <1>0, <2>1, <2>2 DEF OnlyTouches, HoldsOver
  <2>4. CASE Late(c)
    BY <1>0, <1>1, <1>2, <2>1, <2>2, <2>3, <2>4, LateAccounts, TouchKeeps
  <2>5. CASE ~Late(c)
    <3>1. MinuteOf(t) = m /\ heldOver' = heldOver
      BY <1>0, <2>2, <2>5 DEF Late, HoldsOver
    <3>2. Honest(Win(k, t), k)
      BY <1>0, <1>1, <3>1, WinIsHonest
    <3>3. Win(k, t).requests \in Nat /\ Win(k, t).tokens \in Nat
      BY <1>0, <1>1, WinType DEF MeterInvariant, TypeOK, Window
    <3>4. windows'[k].start <= m
      BY <1>0, <1>1, <2>1, <3>1
    <3>5. Accounts(k)'
      BY <1>0, <1>1, <1>4, <2>1, <2>2, <3>1, <3>2, <3>3 DEF Accounts, Honest
    <3>6. k \in DOMAIN RPM /\ <<k, m>> \notin heldOver' => admitted'[<<k, m>>] <= RPM[k]
      BY <1>0, <1>1, <2>2, <3>1 DEF MeterInvariant, RequestsWithinCap
    <3> QED BY <1>0, <1>1, <1>2, <2>3, <3>4, <3>5, <3>6, TouchKeeps
  <2> QED BY <2>4, <2>5
<1> QED BY <1>3, <1>4

LEMMA NextInvariant == MeterInvariant /\ [Next]_vars => MeterInvariant'
<1> SUFFICES ASSUME MeterInvariant, [Next]_vars PROVE MeterInvariant'
  OBVIOUS
<1>1. TypeOK'
  BY NextTypeOK DEF MeterInvariant
<1>2. CASE Tick
  BY <1>1, <1>2, TickInvariant
<1>3. ASSUME NEW c \in Callers,
             (\E k \in Keys : BeginAcquire(c, k)) \/ CallFails(c) \/ BeginRecord(c)
      PROVE  MeterInvariant'
  <2>1. UNCHANGED <<windows, now, admitted, credited, heldOver>>
    BY <1>3 DEF BeginAcquire, CallFails, BeginRecord
  <2>2. ASSUME NEW d \in Callers PROVE caller'[d].at <= now
    <3>1. caller \in [Callers -> Call] /\ caller[d].at <= now /\ now \in Nat
      BY DEF MeterInvariant, ReadingsAreOld, TypeOK
    <3>2. CASE \E k \in Keys : BeginAcquire(c, k)
      BY <3>1, <3>2 DEF BeginAcquire
    <3>3. CASE CallFails(c)
      BY <3>1, <3>3 DEF CallFails, Call
    <3>4. CASE BeginRecord(c)
      BY <3>1, <3>4 DEF BeginRecord, Call
    <3> QED BY <1>3, <3>2, <3>3, <3>4
  <2>3. ReadingsAreOld'
    BY <2>1, <2>2 DEF ReadingsAreOld
  <2> QED BY <1>1, <2>1, <2>3
          DEF MeterInvariant, Accounts, FutureIsBlank, RequestsWithinCap
<1>4. ASSUME NEW c \in Callers, AcquireAdmitted(c)
      PROVE  MeterInvariant'
  BY <1>1, <1>4, AdmittedInvariant
<1>5. ASSUME NEW c \in Callers, AcquireRejected(c)
      PROVE  MeterInvariant'
  BY <1>1, <1>5, RejectedInvariant
<1>6. ASSUME NEW c \in Callers, NEW n \in TokenCounts, Record(c, n)
      PROVE  MeterInvariant'
  BY <1>1, <1>6, RecordedInvariant
<1>7. CASE UNCHANGED vars
  BY <1>1, <1>7 DEF MeterInvariant, vars, ReadingsAreOld, Accounts, FutureIsBlank,
                    RequestsWithinCap
<1> QED BY <1>2, <1>3, <1>4, <1>5, <1>6, <1>7 DEF Next

-----------------------------------------------------------------------------
LEMMA InvariantHolds == Spec => []MeterInvariant
BY InitInvariant, NextInvariant, PTL DEF Spec

(***************************************************************************)
(* No interleaving of callers admits a key above its request cap in a      *)
(* minute into which no call was held over (tryAcquire).                   *)
(***************************************************************************)
THEOREM CapRespected == Spec => []RequestsWithinCap
BY InvariantHolds, PTL DEF MeterInvariant

(***************************************************************************)
(* The usage reported for a key is never above that of the minute, and is  *)
(* exactly that of a minute into which no call was held over (usage and    *)
(* win).                                                                   *)
(***************************************************************************)
THEOREM UsageCorrect == Spec => []UsageNeverOverstated
<1>1. MeterInvariant => UsageNeverOverstated
  <2> SUFFICES ASSUME MeterInvariant, NEW k \in Keys
               PROVE  Honest(Usage(k, now), k)
    BY DEF UsageNeverOverstated, Honest
  <2>1. now \in 0 .. MaxTime
    BY DEF MeterInvariant, TypeOK
  <2>2. Honest(Win(k, now), k)
    BY <2>1, WinIsHonest
  <2> QED BY <2>2 DEF Usage, Win, EmptyWindow, Honest
<1> QED BY <1>1, InvariantHolds, PTL

(***************************************************************************)
(* A caller that was not held over itself is rejected only when the minute *)
(* really reached a cap of the key (tryAcquire).                           *)
(***************************************************************************)
THEOREM RejectionJustified == Spec => RejectedOnlyAtCap
<1> DEFINE Justified(c) ==
      LET k == caller[c].key
          m == MinuteOf(now)
      IN  \/ k \in DOMAIN RPM /\ admitted[<<k, m>>] >= RPM[k]
          \/ k \in DOMAIN TPM /\ credited[<<k, m>>] >= TPM[k]
<1>1. ASSUME MeterInvariant, NEW c \in Callers, AcquireRejected(c), ~Late(c)
      PROVE  Justified(c)
  <2> DEFINE k == caller[c].key
             t == caller[c].at
             m == MinuteOf(now)
  <2>1. k \in Keys /\ t \in 0 .. MaxTime /\ t \in Nat /\ m \in Minutes /\ MinuteOf(t) = m
    BY <1>1, MinuteInRange DEF MeterInvariant, TypeOK, Call, Late
  <2>2. Honest(Win(k, t), k)
    BY <1>1, <2>1, WinIsHonest
  <2>3. /\ admitted[<<k, m>>] \in Nat
        /\ credited[<<k, m>>] \in Nat
        /\ k \in DOMAIN RPM => RPM[k] \in Nat
        /\ k \in DOMAIN TPM => TPM[k] \in Nat
        /\ Win(k, t).requests \in Nat /\ Win(k, t).tokens \in Nat
    BY <1>1, <2>1, WinType DEF MeterInvariant, TypeOK, MeterAssumption, Window
  <2>4. ~UnderCaps(k, t)
    BY <1>1 DEF AcquireRejected, Reject
  <2> QED BY <2>2, <2>3, <2>4 DEF UnderCaps, Honest
<1>2. MeterInvariant => [\A c \in Callers :
                           AcquireRejected(c) /\ ~Late(c) => Justified(c)]_vars
  BY <1>1
<1> QED BY <1>2, InvariantHolds, PTL DEF RejectedOnlyAtCap
=============================================================================
