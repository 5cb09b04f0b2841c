----------------------------- MODULE RateMeter -----------------------------
(***************************************************************************)
(* The per-deployment request and token meter of the router                *)
(* (router/ratemeter.go).  One window per key, aligned to whole minutes;   *)
(* every operation runs under the meter's mutex and is one action here.    *)
(* The clock value t is an argument, as it is in the code: the caller      *)
(* reads it before it takes the lock.                                      *)
(***************************************************************************)
EXTENDS Integers

CONSTANTS
    Keys,    \* the metered identities, "logicalModel:depName"
    RPM,     \* the request cap of a key; a key outside DOMAIN RPM has none
    TPM,     \* the token cap of a key; a key outside DOMAIN TPM has none
    Minute   \* clock ticks in one minute

ASSUME MeterAssumption ==
    /\ Minute \in Nat \ {0}
    /\ DOMAIN RPM \subseteq Keys
    /\ DOMAIN TPM \subseteq Keys
    /\ RPM \in [DOMAIN RPM -> Nat]
    /\ TPM \in [DOMAIN TPM -> Nat]

VARIABLE windows   \* windows[k]: the counters of one minute

Window == [start : Nat, requests : Nat, tokens : Nat]

MinuteOf(t) == t \div Minute

EmptyWindow(t) == [start |-> MinuteOf(t), requests |-> 0, tokens |-> 0]

MeterTypeOK == windows \in [Keys -> Window]

\* A key without a window and a key with an empty window of an old minute
\* are the same to every operation: both roll on first use.
MeterInit == windows = [k \in Keys |-> EmptyWindow(0)]

\* Mutant: the window never rolls over to a new minute.
Win_NeverRolls(k, t) == [windows[k] EXCEPT !.start = MinuteOf(t)]

(***************************************************************************)
(* The live window: the stored one when it is of t's minute, else a new    *)
(* one.  The comparison is for equality, so a window also rolls back.      *)
(***************************************************************************)
Win(k, t) ==
    IF windows[k].start = MinuteOf(t) THEN windows[k] ELSE EmptyWindow(t)

\* Mutant: the boundary of the comparison is off by one.
UnderCaps_AtCap(k, t) ==
    /\ k \in DOMAIN RPM => Win(k, t).requests <= RPM[k]
    /\ k \in DOMAIN TPM => Win(k, t).tokens < TPM[k]

UnderCaps(k, t) ==
    /\ k \in DOMAIN RPM => Win(k, t).requests < RPM[k]
    /\ k \in DOMAIN TPM => Win(k, t).tokens < TPM[k]

Admit(k, t) ==
    /\ UnderCaps(k, t)
    /\ windows' = [windows EXCEPT ![k] =
                     [Win(k, t) EXCEPT !.requests = @ + 1]]

Reject(k, t) ==
    /\ ~UnderCaps(k, t)
    /\ windows' = [windows EXCEPT ![k] = Win(k, t)]

\* Mutant: tokens land in whatever window is stored, also an old one.
RecordTokens_OldWindow(k, n, t) ==
    windows' = IF n <= 0 THEN windows
               ELSE [windows EXCEPT ![k].tokens = @ + n]

\* Mutant: the guard against unusable totals is missing.
RecordTokens_AnyTotal(k, n, t) ==
    windows' = [windows EXCEPT ![k] = [Win(k, t) EXCEPT !.tokens = @ + n]]

RecordTokens(k, n, t) ==
    windows' = IF n <= 0 THEN windows
               ELSE [windows EXCEPT ![k] = [Win(k, t) EXCEPT !.tokens = @ + n]]

\* What GET /v1/limits reports as used; a window of another minute reads 0.
Usage(k, t) ==
    IF windows[k].start = MinuteOf(t)
    THEN [requests |-> windows[k].requests, tokens |-> windows[k].tokens]
    ELSE [requests |-> 0, tokens |-> 0]
=============================================================================
