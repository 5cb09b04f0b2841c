------------------------------- MODULE Router -------------------------------
(***************************************************************************)
(* The dispatch walk of the router (router/router.go): concurrent requests *)
(* that share the cooldown map and the rate meter, each trying the         *)
(* deployments of a model in a random order and then its fallback models,  *)
(* depth first, with one set of visited models for the whole walk.         *)
(*                                                                         *)
(* A step of a request is one access to shared state: a cooldown check, an *)
(* attempt to get a rate slot, the answer of a provider with the parking   *)
(* of the deployment.  Everything between two such accesses is local to    *)
(* the goroutine.  The recursion of the code is the stack of frames.       *)
(***************************************************************************)
EXTENDS Catalog

CONSTANTS
    RPM, TPM, Minute,  \* the meter's caps and the ticks of a minute
    Cooldown,     \* router_cooldown; 0 disables parking
    Hints,        \* retry hints an upstream may give; 0 is no hint
    TokenCounts,  \* token totals a response may report
    Requests,     \* request identities, each used once
    UsedModes,    \* the endpoints the requests come from
    BlockedSets,  \* fallback targets a restricted key may be denied
    Timed,        \* deployments whose provider's HTTP client has a timeout
    MaxTime       \* bound on the clock

ASSUME RouterAssumption ==
    /\ Minute \in Nat \ {0}
    /\ DOMAIN RPM \subseteq DepKeys
    /\ DOMAIN TPM \subseteq DepKeys
    /\ RPM \in [DOMAIN RPM -> Nat]
    /\ TPM \in [DOMAIN TPM -> Nat]
    /\ Cooldown \in Nat
    /\ Hints \subseteq Nat
    /\ TokenCounts \subseteq Int
    /\ UsedModes \subseteq Modes
    /\ BlockedSets \subseteq SUBSET Models
    /\ Timed \subseteq Deps
    /\ MaxTime \in Nat

VARIABLES
    now,        \* the clock
    windows,    \* the rate meter's windows
    cooldowns,  \* cooldowns[k]: the end of k's park, 0 when not in the map
    request,    \* request[r]: the entry model, endpoint and blocked models
    phase,      \* phase[r]: where the goroutine of r is
    seen,       \* seen[r]: the walk's visited set, seeded with the blocked models
    stack,      \* stack[r]: the frames of the recursion
    trying,     \* trying[r]: the deployment the top frame is working on
    verdict,    \* verdict[r]: what the walk returned
    called,     \* history: the keys r was dispatched to
    skipped     \* history: the keys r passed over, parked or at their cap

walkVars == <<request, phase, seen, stack, trying, verdict, called, skipped>>
vars == <<now, windows, cooldowns, walkVars>>

Meter == INSTANCE RateMeter WITH Keys <- DepKeys

-----------------------------------------------------------------------------
(***************************************************************************)
(* The retry tracker: the soonest of the waits noted, 0 for none.          *)
(***************************************************************************)
Note(soonest, d) ==
    IF d > 0 /\ (soonest = 0 \/ d < soonest) THEN d ELSE soonest

(***************************************************************************)
(* The cooldown map.  An entry still parks at the very instant it ends;    *)
(* an expired one is deleted by the check that finds it.                   *)
(***************************************************************************)
IsCooled(k) == cooldowns[k] # 0 /\ now <= cooldowns[k]

\* Mutant: the wait is taken from the clock instead of added to it.
Parked_InThePast(k, hint) ==
    IF Cooldown = 0 THEN cooldowns
    ELSE [cooldowns EXCEPT ![k] = now - IF hint > 0 THEN hint ELSE Cooldown]

Parked(k, hint) ==
    IF Cooldown = 0 THEN cooldowns
    ELSE [cooldowns EXCEPT ![k] = now + IF hint > 0 THEN hint ELSE Cooldown]

(***************************************************************************)
(* Frames.                                                                 *)
(***************************************************************************)
Frame == [model : Models, left : SUBSET Deps, fb : Nat \ {0},
          hit : BOOLEAN, soonest : Nat]

NewFrame(m, mode) ==
    [model |-> m, left |-> Candidates(m, mode), fb |-> 1,
     hit |-> FALSE, soonest |-> 0]

Top(r) == stack[r][Len(stack[r])]

SetTop(r, f) == stack' = [stack EXCEPT ![r] = [@ EXCEPT ![Len(@)] = f]]

\* The frame after a candidate that counts as rate limited, w the wait noted.
Limited(f, w) == [f EXCEPT !.hit = TRUE, !.soonest = Note(@, w)]

Key(r) == <<Top(r).model, trying[r]>>

Mode(r) == request[r].mode

(***************************************************************************)
(* The error an exhausted frame returns.  An image request without a       *)
(* capable deployment cannot have been rate limited, so one order of the   *)
(* tests serves every endpoint.                                            *)
(***************************************************************************)
ExhaustedAs(f, mode) ==
    CASE Unconfigured(f.model, mode) -> "no_deployment"
      [] f.hit /\ ~Unconfigured(f.model, mode) -> "rate_limit"
      [] OTHER ->
           IF mode \in {"passthrough", "image"} /\ Candidates(f.model, mode) = {}
           THEN "invalid_request" ELSE "all_failed"

Verdict ==
    [kind : {"none", "served", "terminal", "rate_limit", "all_failed",
             "no_deployment", "invalid_request"},
     key : DepKeys \cup {<<>>}, retryAfter : Nat]

NoVerdict == [kind |-> "none", key |-> <<>>, retryAfter |-> 0]

Served(r) == [kind |-> "served", key |-> Key(r), retryAfter |-> 0]

\* A non-retryable error names the deployment that produced it.
Failed(r) == [kind |-> "terminal", key |-> Key(r), retryAfter |-> 0]

\* Exhaustion over several deployments names none.
Exhausted(kind, soonest) ==
    [kind |-> kind, key |-> <<>>,
     retryAfter |-> IF kind = "rate_limit" THEN soonest ELSE 0]

\* The walk's local state is gone once it has returned.
NoDep == CHOOSE d \in Deps : TRUE

Return(r, v) ==
    /\ verdict' = [verdict EXCEPT ![r] = v]
    /\ seen' = [seen EXCEPT ![r] = {}]
    /\ stack' = [stack EXCEPT ![r] = <<>>]
    /\ trying' = [trying EXCEPT ![r] = NoDep]

-----------------------------------------------------------------------------
Phases == {"idle", "walking", "checked", "calling", "serving", "done"}

TypeOK ==
    /\ now \in 0 .. MaxTime
    /\ Meter!MeterTypeOK
    /\ cooldowns \in [DepKeys -> Nat]
    /\ request \in [Requests -> Query]
    /\ phase \in [Requests -> Phases]
    /\ seen \in [Requests -> SUBSET Models]
    /\ stack \in [Requests -> Seq(Frame)]
    /\ trying \in [Requests -> Deps]
    /\ verdict \in [Requests -> Verdict]
    /\ called \in [Requests -> SUBSET DepKeys]
    /\ skipped \in [Requests -> SUBSET DepKeys]

Init ==
    /\ now = 0
    /\ Meter!MeterInit
    /\ cooldowns = [k \in DepKeys |-> 0]
    /\ request = [r \in Requests |->
         [mode |-> "complete", entry |-> CHOOSE m \in Models : TRUE,
          blocked |-> {}]]
    /\ phase = [r \in Requests |-> "idle"]
    /\ seen = [r \in Requests |-> {}]
    /\ stack = [r \in Requests |-> <<>>]
    /\ trying = [r \in Requests |-> NoDep]
    /\ verdict = [r \in Requests |-> NoVerdict]
    /\ called = [r \in Requests |-> {}]
    /\ skipped = [r \in Requests |-> {}]

\* Mutant: the visited set is not seeded with the blocked models.
Arrive_ForgetsBlocked(r, mode, m, blocked) ==
    /\ phase[r] = "idle"
    /\ m \notin blocked
    /\ request' = [request EXCEPT ![r] =
                     [mode |-> mode, entry |-> m, blocked |-> blocked]]
    /\ phase' = [phase EXCEPT ![r] = "walking"]
    /\ seen' = [seen EXCEPT ![r] = {m}]
    /\ stack' = [stack EXCEPT ![r] = <<NewFrame(m, mode)>>]
    /\ UNCHANGED <<now, windows, cooldowns, trying, verdict, called, skipped>>

(***************************************************************************)
(* CompleteBlocked, StreamBlocked, MessagesPassthroughBlocked, Embed,      *)
(* GenerateImage.  The handlers reject a blocked entry model beforehand.   *)
(***************************************************************************)
Arrive(r, mode, m, blocked) ==
    /\ phase[r] = "idle"
    /\ m \notin blocked
    /\ request' = [request EXCEPT ![r] =
                     [mode |-> mode, entry |-> m, blocked |-> blocked]]
    /\ phase' = [phase EXCEPT ![r] = "walking"]
    /\ seen' = [seen EXCEPT ![r] = blocked \cup {m}]
    /\ stack' = [stack EXCEPT ![r] = <<NewFrame(m, mode)>>]
    /\ UNCHANGED <<now, windows, cooldowns, trying, verdict, called, skipped>>

(***************************************************************************)
(* The next deployment of the weighted shuffle, whose order may be any: it *)
(* is parked, so the loop goes on.                                         *)
(***************************************************************************)
SkipCooled(r, d) ==
    LET f == Top(r)
        k == <<f.model, d>>
    IN  /\ phase[r] = "walking"
        /\ d \in f.left
        /\ Walks(Mode(r))
        /\ IsCooled(k)
        /\ SetTop(r, [Limited(f, cooldowns[k] - now) EXCEPT !.left = @ \ {d}])
        /\ skipped' = [skipped EXCEPT ![r] = @ \cup {k}]
        /\ UNCHANGED <<now, windows, cooldowns, request, phase, seen, trying,
                       verdict, called>>

\* Mutant: the deployment stays in the shuffled order and can be met again.
PassCheck_MeetsAgain(r, d) ==
    LET k == <<Top(r).model, d>>
    IN  /\ phase[r] = "walking"
        /\ d \in Top(r).left
        /\ Walks(Mode(r)) => ~IsCooled(k)
        /\ cooldowns' = IF Walks(Mode(r)) THEN [cooldowns EXCEPT ![k] = 0]
                        ELSE cooldowns
        /\ phase' = [phase EXCEPT ![r] = "checked"]
        /\ trying' = [trying EXCEPT ![r] = d]
        /\ UNCHANGED <<now, windows, request, seen, stack, verdict, called,
                       skipped>>

(***************************************************************************)
(* The next deployment is not parked, or nobody looks; its expired entry   *)
(* leaves the map.  The rate slot is still to be acquired.                 *)
(***************************************************************************)
PassCheck(r, d) ==
    LET f == Top(r)
        k == <<f.model, d>>
    IN  /\ phase[r] = "walking"
        /\ d \in f.left
        /\ Walks(Mode(r)) => ~IsCooled(k)
        /\ cooldowns' = IF Walks(Mode(r)) THEN [cooldowns EXCEPT ![k] = 0]
                        ELSE cooldowns
        /\ phase' = [phase EXCEPT ![r] = "checked"]
        /\ trying' = [trying EXCEPT ![r] = d]
        /\ SetTop(r, [f EXCEPT !.left = @ \ {d}])
        /\ UNCHANGED <<now, windows, request, seen, verdict, called, skipped>>

\* acquireRateSlot refuses: the deployment is at its cap for the minute.
SkipOverCap(r) ==
    /\ phase[r] = "checked"
    /\ Meter!Reject(Key(r), now)
    /\ phase' = [phase EXCEPT ![r] = "walking"]
    /\ SetTop(r, Limited(Top(r), 0))
    /\ skipped' = [skipped EXCEPT ![r] = @ \cup {Key(r)}]
    /\ UNCHANGED <<now, cooldowns, request, seen, trying, verdict, called>>

\* acquireRateSlot admits, and the provider is called.
Dispatch(r) ==
    /\ phase[r] = "checked"
    /\ Meter!Admit(Key(r), now)
    /\ phase' = [phase EXCEPT ![r] = "calling"]
    /\ called' = [called EXCEPT ![r] = @ \cup {Key(r)}]
    /\ UNCHANGED <<now, cooldowns, request, seen, stack, trying, verdict,
                   skipped>>

(***************************************************************************)
(* The provider answers.  A whole response is metered at once; a stream or *)
(* a passthrough response has still to run, see Settle.                    *)
(***************************************************************************)
AnswerWhole(r, n) ==
    /\ phase[r] = "calling"
    /\ Mode(r) \in {"complete", "embed", "image"}
    /\ Meter!RecordTokens(Key(r), n, now)
    /\ phase' = [phase EXCEPT ![r] = "done"]
    /\ Return(r, Served(r))
    /\ UNCHANGED <<now, cooldowns, request, called, skipped>>

AnswerOpen(r) ==
    /\ phase[r] = "calling"
    /\ Mode(r) \in {"stream", "passthrough"}
    /\ phase' = [phase EXCEPT ![r] = "serving"]
    /\ Return(r, Served(r))
    /\ UNCHANGED <<now, windows, cooldowns, request, called, skipped>>

\* Mutant: the tokens count against the model the client asked for.
Settle_CreditsEntry(r, n) ==
    /\ phase[r] = "serving"
    /\ Meter!RecordTokens(<<request[r].entry, verdict[r].key[2]>>, n, now)
    /\ phase' = [phase EXCEPT ![r] = "done"]
    /\ UNCHANGED <<now, cooldowns, request, seen, stack, trying, verdict,
                   called, skipped>>

\* The stream, or the proxied body, ends: its last usage snapshot counts
\* against the key the walk admitted it under (meterStream, RecordTokens).
Settle(r, n) ==
    /\ phase[r] = "serving"
    /\ Meter!RecordTokens(verdict[r].key, n, now)
    /\ phase' = [phase EXCEPT ![r] = "done"]
    /\ UNCHANGED <<now, cooldowns, request, seen, stack, trying, verdict,
                   called, skipped>>

\* A non-retryable error ends the walk, in whatever frame it happens.
AnswerTerminal(r) ==
    /\ phase[r] = "calling"
    /\ phase' = [phase EXCEPT ![r] = "done"]
    /\ Return(r, Failed(r))
    /\ UNCHANGED <<now, windows, cooldowns, request, called, skipped>>

\* A retryable error, or a 429 response: coolDep, and on with the loop.
AnswerRetryable(r, hint) ==
    /\ phase[r] = "calling"
    /\ Walks(Mode(r))
    /\ cooldowns' = Parked(Key(r), hint)
    /\ phase' = [phase EXCEPT ![r] = "walking"]
    /\ SetTop(r, Limited(Top(r), hint))
    /\ UNCHANGED <<now, windows, request, seen, trying, verdict, called,
                   skipped>>

\* The loop goes on and remembers nothing: an embedding or image endpoint
\* failed retryably, or a passthrough provider returned no response.
AnswerForgotten(r) ==
    /\ phase[r] = "calling"
    /\ Mode(r) \in {"embed", "image", "passthrough"}
    /\ phase' = [phase EXCEPT ![r] = "walking"]
    /\ UNCHANGED <<now, windows, cooldowns, request, seen, stack, trying,
                   verdict, called, skipped>>

(***************************************************************************)
(* The deployments of the top frame are used up.                           *)
(***************************************************************************)
LoopDone(r) == phase[r] = "walking" /\ Top(r).left = {}

FallbacksDone(r) ==
    LoopDone(r) /\ Top(r).fb > Len(FallbacksOf(Top(r).model, Mode(r)))

NextFallback(r) == FallbacksOf(Top(r).model, Mode(r))[Top(r).fb]

MoreFallbacks(r) ==
    LoopDone(r) /\ Top(r).fb <= Len(FallbacksOf(Top(r).model, Mode(r)))

\* Mutant: a visited fallback is looked at again and again.
FallbackSeen_Stays(r) ==
    /\ MoreFallbacks(r)
    /\ NextFallback(r) \in seen[r]
    /\ SetTop(r, Top(r))
    /\ UNCHANGED <<now, windows, cooldowns, request, phase, seen, trying,
                   verdict, called, skipped>>

\* The fallback was visited before: ErrAllFailed at once, try the next one.
FallbackSeen(r) ==
    /\ MoreFallbacks(r)
    /\ NextFallback(r) \in seen[r]
    /\ SetTop(r, [Top(r) EXCEPT !.fb = @ + 1])
    /\ UNCHANGED <<now, windows, cooldowns, request, phase, seen, trying,
                   verdict, called, skipped>>

EnterFallback(r) ==
    /\ MoreFallbacks(r)
    /\ NextFallback(r) \notin seen[r]
    /\ seen' = [seen EXCEPT ![r] = @ \cup {NextFallback(r)}]
    /\ stack' = [stack EXCEPT ![r] =
                   Append([@ EXCEPT ![Len(@)] =
                             [Top(r) EXCEPT !.fb = @ + 1]],
                          NewFrame(NextFallback(r), Mode(r)))]
    /\ UNCHANGED <<now, windows, cooldowns, request, phase, trying, verdict,
                   called, skipped>>

\* Mutant: the caller does not note the 429 of its fallback.
ReturnToCaller_DropsLimit(r) ==
    LET n == Len(stack[r])
    IN  /\ FallbacksDone(r)
        /\ n > 1
        /\ ExhaustedAs(Top(r), Mode(r)) # "invalid_request"
        /\ stack' = [stack EXCEPT ![r] = SubSeq(@, 1, n - 1)]
        /\ UNCHANGED <<now, windows, cooldowns, request, phase, seen, trying,
                       verdict, called, skipped>>

\* A fallback frame is exhausted; its caller notes a 429 and goes on.
ReturnToCaller(r) ==
    LET n == Len(stack[r])
        kind == ExhaustedAs(Top(r), Mode(r))
        caller == stack[r][n - 1]
    IN  /\ FallbacksDone(r)
        /\ n > 1
        /\ kind # "invalid_request"
        /\ stack' = [stack EXCEPT ![r] =
             [SubSeq(@, 1, n - 1) EXCEPT ![n - 1] =
                IF kind = "rate_limit" THEN Limited(caller, Top(r).soonest)
                ELSE caller]]
        /\ UNCHANGED <<now, windows, cooldowns, request, phase, seen, trying,
                       verdict, called, skipped>>

\* Mutant: a fallback's 429 ends the walk like a terminal error.
GiveUp_OnFirstLimit(r) ==
    LET kind == ExhaustedAs(Top(r), Mode(r))
    IN  /\ FallbacksDone(r)
        /\ Len(stack[r]) = 1 \/ kind \in {"invalid_request", "rate_limit"}
        /\ phase' = [phase EXCEPT ![r] = "done"]
        /\ Return(r, Exhausted(kind, Top(r).soonest))
        /\ UNCHANGED <<now, windows, cooldowns, request, called, skipped>>

(***************************************************************************)
(* The entry frame is exhausted, or a fallback frame returns an error its  *)
(* callers take for terminal: a capability miss.                           *)
(***************************************************************************)
GiveUp(r) ==
    LET kind == ExhaustedAs(Top(r), Mode(r))
    IN  /\ FallbacksDone(r)
        /\ Len(stack[r]) = 1 \/ kind = "invalid_request"
        /\ phase' = [phase EXCEPT ![r] = "done"]
        /\ Return(r, Exhausted(kind, Top(r).soonest))
        /\ UNCHANGED <<now, windows, cooldowns, request, called, skipped>>

\* DeploymentLimits drops the entries that have ended, those ending right now
\* included.
ReportLimits ==
    /\ cooldowns' = [k \in DepKeys |->
                       IF cooldowns[k] <= now THEN 0 ELSE cooldowns[k]]
    /\ UNCHANGED <<now, windows, walkVars>>

Tick ==
    /\ now < MaxTime
    /\ now' = now + 1
    /\ UNCHANGED <<windows, cooldowns, walkVars>>

Answer(r) ==
    \/ \E n \in TokenCounts : AnswerWhole(r, n)
    \/ AnswerOpen(r)
    \/ AnswerTerminal(r)
    \/ \E hint \in Hints : AnswerRetryable(r, hint)
    \/ AnswerForgotten(r)

Step(r) ==
    \/ \E d \in Deps : SkipCooled(r, d) \/ PassCheck(r, d)
    \/ SkipOverCap(r)
    \/ Dispatch(r)
    \/ FallbackSeen(r)
    \/ EnterFallback(r)
    \/ ReturnToCaller(r)
    \/ GiveUp(r)

Next ==
    \/ \E r \in Requests :
         \/ \E mode \in UsedModes, m \in Models, blocked \in BlockedSets :
              Arrive(r, mode, m, blocked)
         \/ Step(r)
         \/ Answer(r)
         \/ \E n \in TokenCounts : Settle(r, n)
    \/ ReportLimits
    \/ Tick

Spec == Init /\ [][Next]_vars

(***************************************************************************)
(* A goroutine is scheduled again and again.  A call to a deployment in    *)
(* Timed ends, by the timeout of its HTTP client if nothing else does      *)
(* (openai.go, gemini.go, chatgpt.go).  Nothing is assumed of the others:  *)
(* the Anthropic client is http.DefaultClient, which waits for ever.       *)
(***************************************************************************)
AnswerInTime(r) == trying[r] \in Timed /\ Answer(r)

Fairness == \A r \in Requests : WF_vars(Step(r)) /\ WF_vars(AnswerInTime(r))

FairSpec == Spec /\ Fairness

-----------------------------------------------------------------------------
(***************************************************************************)
(* The promise: the walk, with its stack, visited set, cooldowns and       *)
(* meter, only does what Dispatch allows (router.go completeWithSeen,      *)
(* streamWithSeen, messagesPassthroughWithSeen, Embed, GenerateImage).     *)
(***************************************************************************)
Promise == INSTANCE Dispatch WITH
    query <- request,
    status <- [r \in Requests |->
                 CASE phase[r] = "idle" -> "idle"
                   [] phase[r] \in {"serving", "done"} -> "closed"
                   [] OTHER -> "open"],
    current <- [r \in Requests |->
                  IF phase[r] = "calling" THEN Key(r) ELSE <<>>],
    tried <- called,
    passed <- skipped,
    result <- [r \in Requests |->
                 [kind |-> verdict[r].kind, key |-> verdict[r].key]]

KeepsPromise == Promise!Spec

(***************************************************************************)
(* A restricted key is never served by a model outside its allowlist, by   *)
(* way of whatever fallback: no dispatch and no skip ever concerns a       *)
(* deployment of a blocked model (CompleteBlocked, seedSeen).              *)
(***************************************************************************)
BlockedNeverUsed ==
    \A r \in Requests : \A k \in called[r] \cup skipped[r] :
        k[1] \notin request[r].blocked

(***************************************************************************)
(* A request that was told to come back later really found every           *)
(* deployment it may use busy: each one was skipped or called.  The depth- *)
(* first walk with one shared visited set must not lose a branch.          *)
(***************************************************************************)
GivenUp(r) == phase[r] = "done" /\ verdict[r].kind \in
                {"rate_limit", "all_failed", "no_deployment"}

GaveUpOnlyAfterAll ==
    \A r \in Requests :
        GivenUp(r) => Offered(request[r]) = called[r] \cup skipped[r]

(***************************************************************************)
(* A chat request gets the flat 500 or 404 only when no deployment was     *)
(* ever skipped or called; one limit hit anywhere, however deep, turns the *)
(* answer into a 429 (hitRateLimit).                                       *)
(***************************************************************************)
LimitsSurfaceAs429 ==
    \A r \in Requests :
        /\ request[r].mode \in {"complete", "stream"}
        /\ phase[r] = "done"
        /\ verdict[r].kind \in {"all_failed", "no_deployment"}
        => called[r] \cup skipped[r] = {}

(***************************************************************************)
(* Token usage counts against the deployment, and the logical model, the   *)
(* dispatch was admitted under, also when a fallback served (RecordTokens: *)
(* "keyed by the served logical model").                                   *)
(***************************************************************************)
TokensGoToServer ==
    [][\A k \in DepKeys :
         windows'[k].tokens > windows[k].tokens =>
           \E r \in Requests :
               /\ phase[r] # "done" /\ phase'[r] = "done"
               /\ verdict'[r] = [kind |-> "served", key |-> k, retryAfter |-> 0]
               /\ k \in called[r]]_vars

(***************************************************************************)
(* What the documents say and the code does not do.                        *)
(*                                                                         *)
(* A passthrough request that met a limit is told to come back later, also *)
(* when a fallback model has no deployment with the method                 *)
(* (messagesPassthroughWithSeen: "Checked after hitRateLimit so a          *)
(* rate-limited fallback still reports 429").                              *)
(***************************************************************************)
CapabilityMissHidesNoLimit ==
    \A r \in Requests :
        phase[r] = "done" /\ verdict[r].kind = "invalid_request"
        => called[r] \cup skipped[r] = {}

(***************************************************************************)
(* Every walk ends: fallback cycles, busy deployments and the other        *)
(* requests, the ones that hang included, never keep it going.  Only a     *)
(* call of its own without a timeout may hold it, and then for ever.       *)
(***************************************************************************)
Hangs(r) == phase[r] = "calling" /\ trying[r] \notin Timed

EveryWalkEnds ==
    \A r \in Requests :
        phase[r] = "walking"
        ~> phase[r] \in {"serving", "done"} \/ [](Hangs(r))
=============================================================================
