------------------------------ MODULE Budgets ------------------------------
(***************************************************************************)
(* Spending requests against the spend caps and the request log: enforce   *)
(* (api/budget.go), the handlers of the spending endpoints                 *)
(* (api/handlers_*.go), the rows they write and the purge that deletes     *)
(* them (store/sqlite.go, main.go).  A request is authenticated when it    *)
(* starts; what the router does for it is one step with any outcome.       *)
(*                                                                         *)
(* Rows with status error never count, so the ledger keeps, per caller and *)
(* second, the cost of the rows with status ok.  The clock is read before  *)
(* the database is asked, so a check and a row carry a reading that may be *)
(* old when the query runs.                                                *)
(***************************************************************************)
EXTENDS Integers, FiniteSets, FiniteSetsExt, Functions

CONSTANTS
    Requests,     \* request slots: how many requests may be in flight
    Callers,      \* the tokens: virtual keys and the master token
    Models,       \* logical models
    UsedKinds,    \* kinds of requests in use
    Allowed,      \* Allowed[c]: the models c may use
    KeyCap,       \* KeyCap[c]: c's max_budget, 0 without a cap
    KeyWindow,    \* KeyWindow[c]: c's budget_duration, 0 for a lifetime cap
    OrgCap,       \* the same for everyone together
    OrgWindow,
    Costs,        \* what a call may cost
    Period,       \* retention.period, 0 keeps rows forever
    Overrides,    \* periods an operator passes to purge --older-than
    MaxTime       \* bound on the clock

\* A request to another endpoint than chat ("other") does what a chat request
\* does when it misses the cache and its answer is not cached.
Kinds == {"chat", "stream", "other", "hit"}

VARIABLES
    now,      \* the clock
    req,      \* req[r]: the request in slot r
    rows,     \* rows[r]: how many rows it has handed to the log
    cached,   \* models (requests) with an answer in the response cache
    ledger,   \* ledger[c][t]: cost of c's rows of second t that are stored
    spent     \* history: the same with the purged rows

vars == <<now, req, rows, cached, ledger, spent>>

Seconds == 0 .. MaxTime

\* validateBudgetCap: the windows of YAML configuration fit the retention.
\* A key created at run time is not validated, an override of the purge
\* command is not held against any window.
FitsRetention(window) == Period = 0 \/ (window > 0 /\ window <= Period)

Fits(window) ==
    /\ FitsRetention(window)
    /\ \A period \in Overrides : window > 0 /\ window <= period

ASSUME BudgetAssumption ==
    /\ Callers # {}
    /\ Models # {}
    /\ UsedKinds \subseteq Kinds \ {"hit"}
    /\ Allowed \in [Callers -> SUBSET Models]
    /\ KeyCap \in [Callers -> Nat]
    /\ KeyWindow \in [Callers -> Nat]
    /\ OrgCap \in Nat
    /\ OrgWindow \in Nat
    /\ OrgCap > 0 => FitsRetention(OrgWindow)
    /\ Costs \subseteq Nat
    /\ \E most \in Costs : \A c \in Costs : c <= most
    /\ IsFiniteSet(Requests) /\ IsFiniteSet(Callers)
    /\ Period \in Nat
    /\ Overrides \subseteq Nat
    /\ MaxTime \in Nat

Phases ==
    {"idle", "enforce", "org", "key", "admitted", "upstream", "streaming",
     "row", "seed"}

\* caller, model and kind say what is asked for (kind "hit": the cache has
\* answered), at is the clock reading the request carries, cost the price of
\* its usage.
Request ==
    [pc : Phases, caller : Callers, model : Models, kind : Kinds,
     at : Seconds, cost : Nat]

TypeOK ==
    /\ now \in Seconds
    /\ req \in [Requests -> Request]
    /\ rows \in [Requests -> Nat]
    /\ cached \in SUBSET Models
    /\ ledger \in [Callers -> [Seconds -> Nat]]
    /\ spent \in [Callers -> [Seconds -> Nat]]

WindowStart(t, window) == IF window = 0 THEN 0 ELSE t - (t % window)

\* sumCost: no row is too new to count.
SumCost(table, callers, since) ==
    SumFunctionOnSet([row \in Callers \X Seconds |-> table[row[1]][row[2]]],
                     callers \X {t \in Seconds : t >= since})

-----------------------------------------------------------------------------
NoRequest ==
    [pc |-> "idle", caller |-> CHOOSE c \in Callers : TRUE,
     model |-> CHOOSE m \in Models : TRUE, kind |-> "other", at |-> 0, cost |-> 0]

Init ==
    /\ now = 0
    /\ req = [r \in Requests |-> NoRequest]
    /\ rows = [r \in Requests |-> 1]
    /\ cached = {}
    /\ ledger = [c \in Callers |-> [t \in Seconds |-> 0]]
    /\ spent = [c \in Callers |-> [t \in Seconds |-> 0]]

At(r, phase) == req[r].pc = phase

Go(r, phase) == req' = [req EXCEPT ![r].pc = phase]

GoWithClock(r, phase) == req' = [req EXCEPT ![r].pc = phase, ![r].at = now]

\* The reading and the cost are of no more use.
GoOn(r, phase) == req' = [req EXCEPT ![r].pc = phase, ![r].at = 0, ![r].cost = 0]

Begin(r, c, m, k) ==
    /\ At(r, "idle")
    /\ req' = [req EXCEPT ![r] =
                  [pc |-> "enforce", caller |-> c, model |-> m, kind |-> k,
                   at |-> 0, cost |-> 0]]
    /\ rows' = [rows EXCEPT ![r] = 0]
    /\ UNCHANGED <<now, cached, ledger, spent>>

\* The request is over; the slot forgets it.
End(r) == req' = [req EXCEPT ![r] = NoRequest]

HandRow(r) == rows' = [rows EXCEPT ![r] = @ + 1]

\* A row of status error ends the request and adds to nobody's spend.
FailWithRow(r) ==
    /\ End(r)
    /\ HandRow(r)
    /\ UNCHANGED <<now, cached, ledger, spent>>

MayUse(r) == req[r].model \in Allowed[req[r].caller]

\* checkAccess
DenyAccess(r) ==
    /\ At(r, "enforce")
    /\ ~MayUse(r)
    /\ FailWithRow(r)

\* checkBudgets reads the clock once for both caps.
ReadClock(r) ==
    /\ At(r, "enforce")
    /\ MayUse(r)
    /\ GoWithClock(r, "org")
    /\ UNCHANGED <<now, rows, cached, ledger, spent>>

\* checkCap
OrgAtCap(r) ==
    /\ OrgCap > 0
    /\ SumCost(ledger, Callers, WindowStart(req[r].at, OrgWindow)) >= OrgCap

KeyAtCap(r) ==
    LET c == req[r].caller
    IN  /\ KeyCap[c] > 0
        /\ SumCost(ledger, {c}, WindowStart(req[r].at, KeyWindow[c])) >= KeyCap[c]

PassOrg(r) ==
    /\ At(r, "org")
    /\ ~OrgAtCap(r)
    /\ Go(r, "key")
    /\ UNCHANGED <<now, rows, cached, ledger, spent>>

PassKey(r) ==
    /\ At(r, "key")
    /\ ~KeyAtCap(r)
    /\ GoOn(r, "admitted")
    /\ UNCHANGED <<now, rows, cached, ledger, spent>>

RejectOverCap(r) ==
    /\ \/ At(r, "org") /\ OrgAtCap(r)
       \/ At(r, "key") /\ KeyAtCap(r)
    /\ FailWithRow(r)

AsksLedger(r) ==
    \/ At(r, "org") /\ OrgCap > 0
    \/ At(r, "key") /\ KeyCap[req[r].caller] > 0

\* Mutant: an unreadable ledger lets the request through.
RejectUnchecked_FailsOpen(r) ==
    /\ AsksLedger(r)
    /\ Go(r, "admitted")
    /\ UNCHANGED <<now, rows, cached, ledger, spent>>

\* budgetUnavailable: the ledger cannot be read, the check fails closed.
RejectUnchecked(r) ==
    /\ AsksLedger(r)
    /\ FailWithRow(r)

-----------------------------------------------------------------------------
\* handleNonStreamingChat: a hit is logged at no cost.
ServeCached(r) ==
    /\ At(r, "admitted")
    /\ req[r].kind = "chat"
    /\ req[r].model \in cached
    /\ req' = [req EXCEPT ![r].pc = "row", ![r].kind = "hit", ![r].at = now]
    /\ UNCHANGED <<now, rows, cached, ledger, spent>>

\* The cache may have dropped or outlived the answer, so a miss is always
\* possible.
CallRouter(r) ==
    /\ At(r, "admitted")
    /\ Go(r, "upstream")
    /\ UNCHANGED <<now, rows, cached, ledger, spent>>

\* The usage is priced and the row is stamped.
Priced(r, c) ==
    /\ req' = [req EXCEPT ![r].pc = "row", ![r].cost = c, ![r].at = now]
    /\ UNCHANGED <<now, rows, cached, ledger, spent>>

Answered(r, c) ==
    /\ At(r, "upstream")
    /\ req[r].kind # "stream"
    /\ Priced(r, c)

OpenStream(r) ==
    /\ At(r, "upstream")
    /\ req[r].kind = "stream"
    /\ Go(r, "streaming")
    /\ UNCHANGED <<now, rows, cached, ledger, spent>>

\* Mutant: a stream the client has left is not logged.
CloseStream_Unlogged(r, c) ==
    /\ At(r, "streaming")
    /\ End(r)
    /\ UNCHANGED <<now, rows, cached, ledger, spent>>

\* At its end, or when the client is gone, a stream costs what its usage
\* chunks have said so far.
CloseStream(r, c) ==
    /\ At(r, "streaming")
    /\ Priced(r, c)

\* The router gives up, or the stream breaks.
Fail(r) ==
    /\ At(r, "upstream") \/ At(r, "streaming")
    /\ FailWithRow(r)

\* An answered chat request is remembered after its row.
AfterRow(r) == IF req[r].kind = "chat" THEN GoOn(r, "seed") ELSE End(r)

\* Mutant: the cost is taken off.
Charged_Refunds(table, r) ==
    [table EXCEPT ![req[r].caller][req[r].at] = @ - req[r].cost]

Charged(table, r) == [table EXCEPT ![req[r].caller][req[r].at] = @ + req[r].cost]

\* writeRequestLog and LogRequest
InsertRow(r) ==
    /\ At(r, "row")
    /\ AfterRow(r)
    /\ HandRow(r)
    /\ ledger' = Charged(ledger, r)
    /\ spent' = Charged(spent, r)
    /\ UNCHANGED <<now, cached>>

\* A failed insert is ignored.
LoseRow(r) ==
    /\ At(r, "row")
    /\ AfterRow(r)
    /\ HandRow(r)
    /\ UNCHANGED <<now, cached, ledger, spent>>

\* A response without choices is not cached.
SeedCache(r) ==
    /\ At(r, "seed")
    /\ End(r)
    /\ \/ cached' = cached \cup {req[r].model}
       \/ UNCHANGED cached
    /\ UNCHANGED <<now, rows, ledger, spent>>

-----------------------------------------------------------------------------
\* Mutant: the purge takes the two oldest retained seconds too.
Kept_TakesMore(table, before) ==
    [c \in Callers |->
        [t \in Seconds |-> IF t <= before + 1 THEN 0 ELSE table[c][t]]]

Kept(table, before) ==
    [c \in Callers |->
        [t \in Seconds |-> IF t < before THEN 0 ELSE table[c][t]]]

\* startRetentionPurge, and the purge command without an override
Purge ==
    /\ Period > 0
    /\ ledger' = Kept(ledger, now - Period)
    /\ UNCHANGED <<now, req, rows, cached, spent>>

\* agent-model purge --older-than
PurgeOlderThan(period) ==
    /\ period > 0
    /\ ledger' = Kept(ledger, now - period)
    /\ UNCHANGED <<now, req, rows, cached, spent>>

Tick ==
    /\ now < MaxTime
    /\ now' = now + 1
    /\ UNCHANGED <<req, rows, cached, ledger, spent>>

Step(r) ==
    \/ \E c \in Callers, m \in Models, k \in UsedKinds :
           Begin(r, c, m, k)
    \/ DenyAccess(r) \/ ReadClock(r)
    \/ PassOrg(r) \/ PassKey(r) \/ RejectOverCap(r) \/ RejectUnchecked(r)
    \/ ServeCached(r) \/ CallRouter(r) \/ OpenStream(r) \/ Fail(r)
    \/ \E c \in Costs : Answered(r, c) \/ CloseStream(r, c)
    \/ InsertRow(r) \/ LoseRow(r) \/ SeedCache(r)

Next ==
    \/ \E r \in Requests : Step(r)
    \/ Purge
    \/ \E period \in Overrides : PurgeOlderThan(period)
    \/ Tick

Spec == Init /\ [][Next]_vars

-----------------------------------------------------------------------------
\* What the requests that were in flight when a cap was reached may add.
Overshoot == Cardinality(Requests) * Max(Costs)

\* A cap bounds sustained spend (the comment of checkBudgets): what the rows
\* of the current window add up to, purged or not, exceeds the cap by no more
\* than the requests in flight may cost.  Without Fits it fails: validation
\* does not cover the overrides of the purge command.
SustainedSpendBounded ==
    /\ OrgCap > 0 /\ Fits(OrgWindow) =>
           SumCost(spent, Callers, WindowStart(now, OrgWindow)) < OrgCap + Overshoot
    /\ \A c \in Callers :
           KeyCap[c] > 0 /\ Fits(KeyWindow[c]) =>
               SumCost(spent, {c}, WindowStart(now, KeyWindow[c])) < KeyCap[c] + Overshoot

\* No row of a current budget window has been purged: what
\* validateBudgetCap's check of the window against the retention is for.
\* An override shorter than a window breaks it as well.
PurgeSparesWindows ==
    \A c \in Callers, t \in Seconds :
        \/ OrgCap > 0 /\ Fits(OrgWindow) /\ t >= WindowStart(now, OrgWindow)
        \/ KeyCap[c] > 0 /\ Fits(KeyWindow[c]) /\ t >= WindowStart(now, KeyWindow[c])
        => ledger[c][t] = spent[c][t]

\* Every request, however it ends, has handed exactly one row to the log.
OneRowPerRequest ==
    \A r \in Requests :
        rows[r] = IF At(r, "idle") \/ At(r, "seed") THEN 1 ELSE 0
=============================================================================
