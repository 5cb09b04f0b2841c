--------------------------- MODULE CredentialPool ---------------------------
(***************************************************************************)
(* A pool of credentials of one provider (provider/pool/pool.go): callers  *)
(* scan the credentials from the one that served last, past the parked     *)
(* ones, and park those that rate-limit.  The pool's mutex is taken for    *)
(* one access at a time, never over a scan, so a step of a caller is one   *)
(* such access or the end of an upstream call.  A pool serves one upstream *)
(* model, so a park is per credential.                                     *)
(***************************************************************************)
EXTENDS Integers, FiniteSets

CONSTANTS
    N,            \* the number of credentials
    Callers,      \* concurrent calls; a caller may call again
    Methods,      \* the methods in use
    Capable,      \* Capable[method]: credentials that implement it
    Default,      \* rateLimitCooldown, the park without a hint
    Hints,        \* retry hints of the upstream; 0 is no hint
    MaxTime       \* bound on the clock

\* Complete, Stream and Embed are alike.
AllMethods == {"chat", "passthrough", "image"}

Creds == 0 .. N - 1

ASSUME PoolAssumption ==
    /\ N \in Nat \ {0}
    /\ Methods \subseteq AllMethods
    /\ Capable \in [AllMethods -> SUBSET Creds]
    /\ Capable["chat"] = Creds
    /\ Default \in Nat \ {0}
    /\ Hints \subseteq Nat
    /\ MaxTime \in Nat

VARIABLES
    now,        \* the clock
    cooldowns,  \* cooldowns[c]: the end of c's park, 0 when not in the map
    cur,        \* the credential that last served
    method,     \* method[p]: what p calls
    phase,      \* phase[p]: where p's scan is
    start,      \* start[p]: the cur that p read
    pos,        \* pos[p]: credentials p has left behind
    spent,      \* spent[p]: of those, the ones parked, limited or unavailable
    result,     \* result[p]: how p's last call ended
    alone       \* history: alone[p], no other call has overlapped p's

vars == <<now, cooldowns, cur, method, phase, start, pos, spent, result, alone>>

Kinds == {"none", "served", "terminal", "rate_limit", "unsupported"}

TypeOK ==
    /\ now \in 0 .. MaxTime
    /\ cooldowns \in [Creds -> Nat]
    /\ cur \in Creds
    /\ method \in [Callers -> AllMethods]
    /\ phase \in [Callers -> {"idle", "scanning", "calling", "served"}]
    /\ start \in [Callers -> Creds]
    /\ pos \in [Callers -> 0 .. N]
    /\ spent \in [Callers -> SUBSET Creds]
    /\ result \in [Callers -> [kind : Kinds, wait : Nat]]
    /\ alone \in [Callers -> BOOLEAN]

\* The credential whose turn it is: order() wraps around.
Turn(p) == (start[p] + pos[p]) % N

IsCooled(c) == cooldowns[c] # 0 /\ now <= cooldowns[c]

Cooled(c, hint) ==
    [cooldowns EXCEPT ![c] = now + IF hint > 0 THEN hint ELSE Default]

\* soonestRetry: the shortest wait of a parked credential, 0 if none waits.
SoonestRetry ==
    LET waits == {cooldowns[c] - now : c \in {d \in Creds : cooldowns[d] > now}}
    IN  IF waits = {} THEN 0 ELSE CHOOSE w \in waits : \A v \in waits : w <= v

Ended(p, kind, wait) ==
    /\ phase' = [phase EXCEPT ![p] = "idle"]
    /\ result' = [result EXCEPT ![p] = [kind |-> kind, wait |-> wait]]
    /\ alone' = [alone EXCEPT ![p] = TRUE]

\* On with the scan.
Leave(p) == pos' = [pos EXCEPT ![p] = @ + 1]

Spend(p) == spent' = [spent EXCEPT ![p] = @ \cup {Turn(p)}]

-----------------------------------------------------------------------------
Init ==
    /\ now = 0
    /\ cooldowns = [c \in Creds |-> 0]
    /\ cur = 0
    /\ method = [p \in Callers |-> "chat"]
    /\ phase = [p \in Callers |-> "idle"]
    /\ start = [p \in Callers |-> 0]
    /\ pos = [p \in Callers |-> 0]
    /\ spent = [p \in Callers |-> {}]
    /\ result = [p \in Callers |-> [kind |-> "none", wait |-> 0]]
    /\ alone = [p \in Callers |-> TRUE]

\* Nobody else is calling; whoever is has company from now on.
Overlaps(p) ==
    LET others == {q \in Callers \ {p} : phase[q] # "idle"}
    IN  alone' = [q \in Callers |-> IF q = p THEN others = {}
                                    ELSE alone[q] /\ q \notin others]

\* order: the serving credential is read once, for the whole scan.
Begin(p, m) ==
    /\ phase[p] = "idle"
    /\ phase' = [phase EXCEPT ![p] = "scanning"]
    /\ method' = [method EXCEPT ![p] = m]
    /\ start' = [start EXCEPT ![p] = cur]
    /\ pos' = [pos EXCEPT ![p] = 0]
    /\ spent' = [spent EXCEPT ![p] = {}]
    /\ result' = [result EXCEPT ![p] = [kind |-> "none", wait |-> 0]]
    /\ Overlaps(p)
    /\ UNCHANGED <<now, cooldowns, cur>>

Scanning(p) == phase[p] = "scanning" /\ pos[p] < N

SkipIncapable(p) ==
    /\ Scanning(p)
    /\ Turn(p) \notin Capable[method[p]]
    /\ Leave(p)
    /\ UNCHANGED <<now, cooldowns, cur, method, phase, start, spent, result,
                   alone>>

SkipCooled(p) ==
    /\ Scanning(p)
    /\ Turn(p) \in Capable[method[p]]
    /\ IsCooled(Turn(p))
    /\ Leave(p)
    /\ Spend(p)
    /\ UNCHANGED <<now, cooldowns, cur, method, phase, start, result, alone>>

\* isCooled drops an expired entry; the credential is called.
Call(p) ==
    /\ Scanning(p)
    /\ Turn(p) \in Capable[method[p]]
    /\ ~IsCooled(Turn(p))
    /\ cooldowns' = [cooldowns EXCEPT ![Turn(p)] = 0]
    /\ phase' = [phase EXCEPT ![p] = "calling"]
    /\ UNCHANGED <<now, cur, method, start, pos, spent, result, alone>>

AnswerServed(p) ==
    /\ phase[p] = "calling"
    /\ phase' = [phase EXCEPT ![p] = "served"]
    /\ UNCHANGED <<now, cooldowns, cur, method, start, pos, spent, result, alone>>

\* Mutant: the next scan starts after the one that served.
Selected_Next(p) ==
    /\ phase[p] = "served"
    /\ cur' = Turn(p) + 1
    /\ Ended(p, "served", 0)
    /\ UNCHANGED <<now, cooldowns, method, start, pos, spent>>

\* selected: the mutex is taken again to remember who served.
Selected(p) ==
    /\ phase[p] = "served"
    /\ cur' = Turn(p)
    /\ Ended(p, "served", 0)
    /\ UNCHANGED <<now, cooldowns, method, start, pos, spent>>

\* A rate limit, as an error or as a 429 response: cool, and on.
AnswerLimited(p, hint) ==
    /\ phase[p] = "calling"
    /\ cooldowns' = Cooled(Turn(p), hint)
    /\ phase' = [phase EXCEPT ![p] = "scanning"]
    /\ Leave(p)
    /\ Spend(p)
    /\ UNCHANGED <<now, cur, method, start, result, alone>>

\* A passthrough provider has no response to give: on, without a park.
AnswerUnavailable(p) ==
    /\ phase[p] = "calling"
    /\ method[p] = "passthrough"
    /\ phase' = [phase EXCEPT ![p] = "scanning"]
    /\ Leave(p)
    /\ Spend(p)
    /\ UNCHANGED <<now, cooldowns, cur, method, start, result, alone>>

\* Any other error is returned at once.
AnswerError(p) ==
    /\ phase[p] = "calling"
    /\ Ended(p, "terminal", 0)
    /\ UNCHANGED <<now, cooldowns, cur, method, start, pos, spent>>

\* Mutant: the scan stops one credential short.
Exhaust_Short(p) ==
    /\ phase[p] = "scanning"
    /\ pos[p] >= N - 1
    /\ Ended(p, IF Capable[method[p]] = {} THEN "unsupported"
                ELSE "rate_limit",
             IF Capable[method[p]] = {} THEN 0 ELSE SoonestRetry)
    /\ UNCHANGED <<now, cooldowns, cur, method, start, pos, spent>>

\* The scan is over: errAllCooled with the soonest wait, or ErrNotSupported.
Exhaust(p) ==
    /\ phase[p] = "scanning"
    /\ pos[p] = N
    /\ IF Capable[method[p]] = {} THEN Ended(p, "unsupported", 0)
       ELSE Ended(p, "rate_limit", SoonestRetry)
    /\ UNCHANGED <<now, cooldowns, cur, method, start, pos, spent>>

Tick ==
    /\ now < MaxTime
    /\ now' = now + 1
    /\ UNCHANGED <<cooldowns, cur, method, phase, start, pos, spent, result,
                   alone>>

Next ==
    \/ \E p \in Callers :
         \/ \E m \in Methods : Begin(p, m)
         \/ SkipIncapable(p) \/ SkipCooled(p) \/ Call(p)
         \/ AnswerServed(p) \/ Selected(p)
         \/ \E hint \in Hints : AnswerLimited(p, hint)
         \/ AnswerUnavailable(p) \/ AnswerError(p) \/ Exhaust(p)
    \/ Tick

Spec == Init /\ [][Next]_vars

-----------------------------------------------------------------------------
(***************************************************************************)
(* The pool reports exhaustion only after every credential with the method *)
(* was found parked, limited or unavailable on this very scan, although    *)
(* the serving credential and the parks change underneath it               *)
(* (errAllCooled: "every credential was either parked or rate-limited on   *)
(* this pass").                                                            *)
(***************************************************************************)
ExhaustedOnlyWhenSpent ==
    \A p \in Callers :
        phase[p] = "idle" /\ result[p].kind = "rate_limit"
        => spent[p] = Capable[method[p]]

(***************************************************************************)
(* A call that nothing overlaps moves traffic to another credential only   *)
(* off one it found spent, or that lacks its method, so the warm prompt     *)
(* cache is kept as long as it can be (order: "Staying put until the       *)
(* current credential actually rate-limits").  With overlapping calls a    *)
(* late success of a credential that has been left moves everyone back.    *)
(***************************************************************************)
MovesOnlyOffSpentAlone ==
    [][cur' # cur =>
         \E p \in Callers :
             /\ phase[p] = "served"
             /\ alone[p] /\ cur \in Capable[method[p]] => cur \in spent[p]]_vars
=============================================================================
