---------------------------- MODULE MeteredCalls ----------------------------
(***************************************************************************)
(* Concurrent callers of the rate meter: Router.acquireRateSlot before a   *)
(* dispatch, Router.RecordTokens after it (router/router.go).  Both read   *)
(* the router's clock while evaluating the arguments of the call, and take *)
(* the meter's mutex inside it, so the minute a call is counted under was  *)
(* chosen before the lock was held.                                        *)
(***************************************************************************)
EXTENDS RateMeter

CONSTANTS
    Callers,      \* goroutines dispatching through the router
    TokenCounts,  \* token totals a response may report
    MaxTime,      \* bound on the clock
    MaxAdmitted   \* bound on the admissions of a key in a minute

ASSUME CallersAssumption ==
    /\ TokenCounts \subseteq Int
    /\ MaxTime \in Nat
    /\ MaxAdmitted \in Nat

VARIABLES
    now,       \* the wall clock
    caller,    \* caller[c]: where the goroutine is, its key and clock reading
    admitted,  \* history: admissions of a key in each minute of the wall clock
    credited,  \* history: tokens recorded for a key in each such minute
    heldOver   \* history: the minutes in which a call with an older clock
               \* reading took the meter's lock, for each key

vars == <<windows, now, caller, admitted, credited, heldOver>>

Minutes == 0 .. MinuteOf(MaxTime)

Call == [phase : {"idle", "acquiring", "serving", "recording"},
         key : Keys, at : 0 .. MaxTime]

TypeOK ==
    /\ MeterTypeOK
    /\ now \in 0 .. MaxTime
    /\ caller \in [Callers -> Call]
    /\ admitted \in [Keys \X Minutes -> Nat]
    /\ credited \in [Keys \X Minutes -> Nat]
    /\ heldOver \subseteq Keys \X Minutes

Init ==
    /\ MeterInit
    /\ now = 0
    /\ caller \in [Callers -> [phase : {"idle"}, key : Keys, at : {0}]]
    /\ admitted = [km \in Keys \X Minutes |-> 0]
    /\ credited = [km \in Keys \X Minutes |-> 0]
    /\ heldOver = {}

\* The scheduler held c over the end of a minute, between reading and lock.
Late(c) == MinuteOf(caller[c].at) # MinuteOf(now)

HoldsOver(c) ==
    heldOver' = IF Late(c) THEN heldOver \cup {<<caller[c].key, MinuteOf(now)>>}
                ELSE heldOver

\* acquireRateSlot: r.now() is read, the lock is still ahead.
BeginAcquire(c, k) ==
    /\ caller[c].phase = "idle"
    /\ admitted[<<k, MinuteOf(now)>>] < MaxAdmitted
    /\ caller' = [caller EXCEPT ![c] =
                    [phase |-> "acquiring", key |-> k, at |-> now]]
    /\ UNCHANGED <<windows, now, admitted, credited, heldOver>>

AcquireAdmitted(c) ==
    LET k == caller[c].key
        t == caller[c].at
    IN  /\ caller[c].phase = "acquiring"
        /\ Admit(k, t)
        /\ caller' = [caller EXCEPT ![c].phase = "serving"]
        /\ admitted' = [admitted EXCEPT ![<<k, MinuteOf(now)>>] = @ + 1]
        /\ HoldsOver(c)
        /\ UNCHANGED <<now, credited>>

AcquireRejected(c) ==
    /\ caller[c].phase = "acquiring"
    /\ Reject(caller[c].key, caller[c].at)
    /\ caller' = [caller EXCEPT ![c].phase = "idle"]
    /\ HoldsOver(c)
    /\ UNCHANGED <<now, admitted, credited>>

\* The dispatched call failed: nothing is refunded, nothing is recorded.
CallFails(c) ==
    /\ caller[c].phase = "serving"
    /\ caller' = [caller EXCEPT ![c].phase = "idle"]
    /\ UNCHANGED <<windows, now, admitted, credited, heldOver>>

\* The response arrived; RecordTokens has read the clock.
BeginRecord(c) ==
    /\ caller[c].phase = "serving"
    /\ caller' = [caller EXCEPT ![c].phase = "recording", ![c].at = now]
    /\ UNCHANGED <<windows, now, admitted, credited, heldOver>>

Record(c, n) ==
    LET k == caller[c].key
        t == caller[c].at
    IN  /\ caller[c].phase = "recording"
        /\ RecordTokens(k, n, t)
        /\ caller' = [caller EXCEPT ![c].phase = "idle"]
        /\ credited' = [credited EXCEPT ![<<k, MinuteOf(now)>>] =
                          IF n > 0 THEN @ + n ELSE @]
        /\ IF n > 0 THEN HoldsOver(c) ELSE UNCHANGED heldOver
        /\ UNCHANGED <<now, admitted>>

Tick ==
    /\ now < MaxTime
    /\ now' = now + 1
    /\ UNCHANGED <<windows, caller, admitted, credited, heldOver>>

Next ==
    \/ Tick
    \/ \E c \in Callers :
         \/ \E k \in Keys : BeginAcquire(c, k)
         \/ AcquireAdmitted(c)
         \/ AcquireRejected(c)
         \/ CallFails(c)
         \/ BeginRecord(c)
         \/ \E n \in TokenCounts : Record(c, n)

Spec == Init /\ [][Next]_vars

-----------------------------------------------------------------------------
(***************************************************************************)
(* The cap the meter exists for: however the callers interleave, a key     *)
(* with a request cap is admitted at most that often in one minute         *)
(* (tryAcquire checks and counts under one lock).  A minute into which a   *)
(* call was held over is excepted: that call rolls the window back, and    *)
(* the count starts again.                                                 *)
(***************************************************************************)
RequestsWithinCap ==
    \A k \in DOMAIN RPM, m \in Minutes :
        <<k, m>> \notin heldOver => admitted[<<k, m>>] <= RPM[k]

(***************************************************************************)
(* The meter never turns a caller away too early: a rejection means that   *)
(* in the current minute the key really was admitted up to its request cap *)
(* or really reported tokens up to its token cap (tryAcquire on the window *)
(* win returns), whatever calls were held over before.  Only a caller held *)
(* over itself is judged by an older minute.                               *)
(***************************************************************************)
RejectedOnlyAtCap ==
    [][\A c \in Callers :
         AcquireRejected(c) /\ ~Late(c) =>
           LET k == caller[c].key
               m == MinuteOf(now)
           IN  \/ k \in DOMAIN RPM /\ admitted[<<k, m>>] >= RPM[k]
               \/ k \in DOMAIN TPM /\ credited[<<k, m>>] >= TPM[k]]_vars

(***************************************************************************)
(* The numbers /v1/limits reports as used (usage) are never above what was *)
(* admitted and recorded in the current minute: a call held over may erase *)
(* counts, never invent them.  In a minute without one they are exact.     *)
(***************************************************************************)
UsageNeverOverstated ==
    \A k \in Keys :
        LET used == Usage(k, now)
            km == <<k, MinuteOf(now)>>
        IN  /\ used.requests <= admitted[km] /\ used.tokens <= credited[km]
            /\ km \notin heldOver =>
                 used.requests = admitted[km] /\ used.tokens = credited[km]

(***************************************************************************)
(* What makes the three properties above inductive: no reading and no      *)
(* window is ahead of the clock, a window of the current minute holds a    *)
(* part of its history, all of it when nothing was held over, and a minute *)
(* without a window so far has no history yet.                             *)
(***************************************************************************)
ReadingsAreOld == \A c \in Callers : caller[c].at <= now

Accounts(k) ==
    LET km == <<k, MinuteOf(now)>> IN
    IF windows[k].start = MinuteOf(now)
    THEN /\ windows[k].requests <= admitted[km]
         /\ windows[k].tokens <= credited[km]
         /\ km \notin heldOver =>
              windows[k].requests = admitted[km] /\ windows[k].tokens = credited[km]
    ELSE km \notin heldOver => admitted[km] = 0 /\ credited[km] = 0

FutureIsBlank ==
    \A k \in Keys, m \in Minutes :
        m > MinuteOf(now) =>
          admitted[<<k, m>>] = 0 /\ credited[<<k, m>>] = 0 /\ <<k, m>> \notin heldOver

MeterInvariant ==
    /\ TypeOK
    /\ ReadingsAreOld
    /\ \A k \in Keys : windows[k].start <= MinuteOf(now) /\ Accounts(k)
    /\ FutureIsBlank
    /\ RequestsWithinCap
=============================================================================
