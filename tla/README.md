# agent-model, specified in TLA+

TLA+ modules, TLC model checks and TLAPS proofs for `agent-model`, the LLM
gateway of this repository (`src/services/agentmodel`, `src/cmd/agent-model`).
`PROJECT.json` lists, for every definition that models code, the file and lines it
was written from; every run with the properties it checks; a mutant for every
property (a plausible bug of that code that makes the property fail); the hazards
of the code; and the theorems.

## 1. The system

The gateway accepts OpenAI- and Anthropic-shaped requests, authenticates them,
checks access and budget, and lets a *router* dispatch them to deployments of
upstream providers. Paths below are relative to `src/services/agentmodel`.

| Component | State | Operations | Interacts with | What makes it correct |
|---|---|---|---|---|
| rate meter (`router/ratemeter.go`) | one minute window per `model:deployment` | `tryAcquire`, `recordTokens`, `usage` | router calls it around each dispatch | caps hold under concurrency; nobody is turned away early; reported usage is never overstated |
| router walk (`router/router.go`) | cooldown map, meter; per request: visited set, recursion | `Complete`, `Stream`, `MessagesPassthrough`, `Embed`, `GenerateImage`, `RecordTokens`, `DeploymentLimits` | handlers call it, it calls providers and pools | each deployment at most once, none lost, blocked models unused, the right verdict, it ends |
| live model lists (`router.go`) | TTL cache, singleflight | `ValidateDeployments`, `DiscoverModels` | background loop, `/v1/models` | last good list survives failures; fresh means fresh |
| credential pool (`provider/pool`) | parks per credential, the serving credential | the provider methods | router calls it as one provider | exhaustion only after a full scan; sticky; parks as long as hinted |
| authentication (`api/auth.go`, `store/managed_keys.go`) | config keys, managed keys in SQLite | bearer check, create, revoke, delete | every request; key endpoints | master first, fail closed, revocation takes effect |
| budgets and ledger (`api/budget.go`, `store`) | request log rows | `enforce`, `LogRequest`, `SumCost*`, `Purge` | handlers before and after dispatch | a cap bounds sustained spend; what was billed is counted |
| response cache (`cache/`) | L1 LRU with TTL, L2 SQLite | `Get`, `Set` | non-streaming chat handler | never a wrong or outdated answer; bounded |
| OAuth stores (`auth/`) | token cache and lock of each authenticator, `auth.json` | token, `ForceRefresh`, device login | providers before calls and after a 401; login commands in other processes | no spent token replayed; a login is not lost; a retry is worth making |
| content log (`contentlog/`) | active file, backups | `Log`, rotate, compress, retention | handlers | disk bounds, no accepted line lost by a failed rotation |
| messages bridge (`provider/messagesbridge`) | open block, tool index map | chunk to SSE events, translation of requests, answers, usage | router sees it as a passthrough provider | well-nested events whatever the chunk order; nothing lost in translation |
| providers, wire, streaming | per-stream parser state; a conversation's history belongs to the client | translate requests, parse SSE, retry, recover from a 401 | pool and router | answers reassembled exactly, failures told as such, calls matched with results, usage counted once |
| lifecycle (`src/cmd/agent-model/main.go`) | server, tickers | serve, shutdown, purge, revalidate | all of them | shutdown order, one purge rule |

What is hard: the cooldown map, the meter and a pool's parks are shared by all
requests, each access is a short critical section, and the decisions made between
two accesses may be outdated by then; clocks are read before locks are taken; the
recursion over fallback models shares one visited set and has several kinds of
exhaustion that must be combined; the upstream may reject with or without a hint;
a stream is accounted for long after it was admitted; other processes write the
credential files; a ledger row follows the check it belongs to by minutes.

## 2. The modules

    RateMeter <--- MeteredCalls <--- MeteredCallsProofs
        ^               ^
        |               MCMeteredCalls
        |
    Router ---> Dispatch     (Router implements Dispatch, PROPERTY KeepsPromise)
      |  \________ /
      |          Catalog     (constants and pure operators of both)
      |-- MCRouter
      '-- RouterProofs
    CredentialPool <--- MCCredentialPool, CredentialPoolProofs
    Budgets <--- MCBudgets, BudgetsProofs
    ResponseCache <--- MCResponseCache, ResponseCacheProofs
    OAuthStore <--- MCOAuthStore, OAuthStoreProofs
    ContentLog <--- MCContentLog, ContentLogProofs
    Streams <------+--- StreamsProofs
    Conversation <-'
        ^
        MCConversation

**`RateMeter`** is the meter of `ratemeter.go`. `windows[k]` is a
`minuteWindow`; `Admit`/`Reject` are the two outcomes of `tryAcquire`,
`RecordTokens` and `Usage` the other two methods. The mutex makes each of them one
step. The clock is an argument, as in the code. An absent window and a window of an
old minute behave alike, so there is no "absent".

**`MeteredCalls`** is the callers: `Router.acquireRateSlot` and
`Router.RecordTokens` evaluate `r.now()` *before* the meter's lock is taken, so the
reading and the locked operation are two steps (`BeginAcquire` and
`AcquireAdmitted`/`AcquireRejected`, `BeginRecord` and `Record`), and time may pass
between them. A caller held over the end of a minute (`Late`) rolls the window back to an
empty one of the minute before. Two history variables count what really happened per minute
of the wall clock, and `heldOver` keeps the minutes in which such a caller reached the lock.

**`Catalog`** holds the routing configuration: deployments per model, the fallback
map, which deployments have the method an endpoint needs, and which deployments a
request may use at all (`Offered`, by the least set of models closed under
unblocked fallbacks). Deployments are named uniquely within a model. **`Dispatch`**
is the promise to a client, without any walk: each offered deployment is tried or
passed over at most once; a request is concluded by the deployment at work or given
up when nothing is left; a chat request with anything on offer is given up with a 429.

**`Router`** is `completeWithSeen`, `streamWithSeen`,
`messagesPassthroughWithSeen`, `Embed` and `GenerateImage`. The recursion is a
stack of frames; a frame has the deployments its loop has not reached (a set: the
weighted shuffle may produce any order), the next fallback, `hitRateLimit` and
the retry tracker. `seen` is shared by all frames of a request. One step is one access
to shared state:

| Action | Code |
|---|---|
| `Arrive` | entry of the five public methods, `seedSeen`, the first frame |
| `SkipCooled`, `PassCheck` | `isCooledDep` under `coolMu` (the expired entry is deleted), the shuffle's next candidate, the capability test |
| `SkipOverCap`, `Dispatch` | `acquireRateSlot` refuses or admits |
| `AnswerWhole`, `AnswerOpen`, `Settle` | success; a stream (`meterStream`) and a passthrough body are metered when they end |
| `AnswerTerminal`, `AnswerRetryable`, `AnswerForgotten` | the error branches; `coolDep` and `retry.note`; nil responses and the endpoints that park nothing |
| `FallbackSeen`, `EnterFallback`, `ReturnToCaller`, `GiveUp` | the fallback loop and the verdict after it |
| `ReportLimits` | the reaping of expired parks in `DeploymentLimits` |

The three walking endpoints share their control; where they differ (capability
test, nil response, verdict) the guard names the mode. A provider's answer is any
of: a result, a terminal error, a retryable error with or without a hint.
In `Router` the meter's clock reading and lock are one step; the two-step version
is the subject of `MeteredCalls`. When a walk has returned its local state is
cleared, which only removes states that differ in dead variables.

**`CredentialPool`** is `pool.go`: `order` reads the serving credential once,
`isCooled`, `cool`, `selected` and `soonestRetry` are separate critical sections,
and a scan is not one. A pool serves one upstream model (its comment says why), so a
park is per credential. The clock reading and the lock inside `soonestRetry` and
`isCooled` are one step. `ListModels` reads the order and changes nothing.

**`Budgets`** is what surrounds the router: `enforce`, the handlers of the spending
endpoints, the rows they write and the purge of old rows. `req[r]` is a request in
flight with the clock reading it carries. The code reads the clock once before both
caps and stamps the row before it is inserted, so `ReadClock` is apart from the sums
and `Priced` from `InsertRow`; a reading of no more use is forgotten. Each sum is one
SQL query and one step. The router is one step with any outcome and any cost of
`Costs`. The six handlers have one control
skeleton and differ in whether they stream (`kind`), and chat alone asks the response
cache. Rows with status `error` never count in a sum (`sumCost` filters them), so the
`ledger` keeps costs only: per caller and second, what the `ok` rows add up to. `spent` is
the same history without the purge.

| Action | Code |
|---|---|
| `DenyAccess`, `ReadClock`, `PassOrg`, `PassKey`, `RejectOverCap`, `RejectUnchecked` | `enforce`, `checkBudgets`, `checkCap`, `budgetUnavailable` |
| `ServeCached`, `CallRouter`, `Answered`, `OpenStream`, `CloseStream`, `Fail` | the handlers after enforcement; `CloseStream` is a stream that ended or whose client has left, `Fail` one that broke |
| `InsertRow`, `LoseRow` | `writeRequestLog`: the insert, and its error, which is ignored |
| `SeedCache` | the write to the response cache after the client has its answer |
| `Purge`, `PurgeOlderThan` | `startRetentionPurge` and `agent-model purge` |

What is left out of `Budgets`: requests rejected before enforcement (bad JSON, missing
parameters), which no row records; a response writer that cannot flush, which the
server's own writers never are; and what `cached` forgets (every hit may also be a miss).

**`ResponseCache`** is the package `cache` with its caller. The mutex of `memory` and
each SQL statement make one step; a lookup or a write across the two tiers is two. An
answer is represented by the moment it was written, which is what the lifetime
properties compare. `since[k]` is a history: the other keys used since `k` was.
`Restart` is the end of the process and `newSQLite`'s sweep at the next start.

**`OAuthStore`** is the package `auth`'s refreshable stores and their users: any number
of authenticators (a deployment each) over one `auth.json`, the requests that hold them,
login commands of other processes, and the token endpoint. `chatgpt_oauth.go` and
`anthropic_oauth_refreshable.go` have one skeleton; `vendor` marks where they differ. A
token is the number of the grant that minted it. The upstream accepts the refresh tokens in
`live`; `rotates` says whether it replaces one that was used, as upstreams may.

| Action | Code |
|---|---|
| `UseCached`, `AdoptFile`, `BeginRefresh`, `LoginRequired` | `getAccessToken`: the shared-lock path, the second look under the write lock, the file, the refresh, `ErrLoginRequired` |
| `ForceCoalesced`, `ForceBegins` | `ForceRefresh` with its coalescing window |
| `Answered`, `AnswerLost`, `Refused` | the token endpoint, and a rotation whose answer nobody gets |
| `Saved`, `SaveFails` | `writeCreds` (by rename), then the cache; a forced caller applies again |
| `Accepted`, `Rejected`, `RejectedForGood`, `ProbeRejected` | the provider clients: `recoverUnauthorized`, `recoverExpiredToken`, and the usage endpoint, which does not recover |
| `PollStarts`, `PollApproved`, `PollFails` | the gateway's own device login, which holds the write lock until the user decides |
| `CommandWrites`, `Restart`, `Tick` | a login command, which is seen only when it writes; the end of the process; time |

Writing the file takes no time on the model's clock. The ChatGPT store reports every failure
of a refresh as `ErrLoginRequired`; both are an end of the request here. An Anthropic login
without a refresh token is not modelled.

**`Streams`** is one streamed answer from the upstream's events to the client, for the seven
pairs of provider and frontend whose code differs. Everything is pulled by one goroutine, so
`Event` is one upstream event through the provider's parser (`StreamSSE` and `HandleSSE`,
`ConsumeStream`, `GeminiStream`, `OpenAIStream`) and the frontend (`ChatStream` for
`/v1/chat/completions`, `CompleteWhole` for the ChatGPT client's `Complete`,
`MessagesPassthrough` for the bridge, `Verbatimly` for an Anthropic body relayed as it is),
to what the client sees (`view`), the audit row (`row`) and the reassembled answer (`acc`,
which is the content log's accumulator, `Complete`'s, or the assembler of
`api/contentlog_messages.go`). `Retry` and `RetryRefused` are the fresh attempts of the ChatGPT
client, `ClientLeaves` a disconnect. The bridge's writer (`HandleChunk`, `OpenTool`,
`FinishMessage`, `WriteError`) emits Anthropic events, and `Seen` is a client that follows
that protocol. Text and arguments are counted, not spelled: what matters is which fragment
reaches which block or call, and how the stream ended for whom.

An upstream may say text, calls and their fragments in any order, report usage, send an error
object (`error`), something that does not decode (`odd`) or has no known type (`strange`),
close or drop at any moment. `up` is the history of what it said. What becomes of each is the
parser's matter: an error object fails every provider but Gemini, whose `geminiResponse` has
no field for it, so the event counts as a chunk without candidates and is skipped; a
prompt block (`blocked`) fails there. The Responses parser fails on what it cannot decode of a
type it knows and skips what has none. Gemini's chunks either repeat the text so far (`whole`)
or carry fragments. Both go through the same subtraction of the chunk before (`Trimmed`,
`prev` says whether `prevText` is not empty), which a chunk without text resets; `garbled`
marks an answer in which that went wrong: cumulative text after a chunk without any, or a
fragment that begins with the one before (`echo`). An Anthropic body is relayed event by
event, so its `message_stop` reaches the client before the body closes or drops.

**`Conversation`** is the translation of whole requests over several turns. Each request
carries all that was said; the router may send it to any provider, or to another after a
failure (`Send`, `FailOver`); the provider's answer and the client's next message extend the
history (`Reply`); a provider that would lose an image refuses it (`Refuse`,
`ValidateTextOnlyContent`). `PreparePassthroughBody`, `ToAnthropicReq`, `ChatGPTRequest`,
`OpenAIRequest`, `GeminiRequest` and `AnthropicToChatRequest` (the bridge) are the
translations, down to identifiers, cache markers and the order of blocks; `UsageToAnthropic`
and `ToLedger` convert usage, `SessionOf` is what the `session-id` of the ChatGPT backend is
derived from. The system prompt is fixed per conversation; tool definitions, sampling
parameters and thinking are left out. A message on the wire is the translated message; the
tool messages a translation splits off (`ToAnthropicMessage`, `ConvertMessage`) stay in it, in
their order, so that a request and the history it came from go message by message.

**`ContentLog`** is the package `contentlog`: one logger under its mutex, where every
file operation of `rotate`, `compress` and `enforceRetention` is a step of its own, may
fail, and may be the last before the process stops.

| Action | Code |
|---|---|
| `Log`, `Write`, `WriteFails` | `Log`, `rotateNeeded`; a full disk may leave a torn line, which `size` does not count |
| `CloseActive`, `CloseFails`, `Rename`, `RenameFails`, `Reopen`, `ReopenFails` | `rotate`, with the reopening on its error paths |
| `CompressBegins`, `CompressDone`, `CompressFails`, `Unlink`, `UnlinkFails` | `compress`: a twin beside the rotated file, complete before that is removed |
| `EnforceRetention` | `listBackups` and the pruning by age, number and total, each removal of which may fail |
| `Restart` | a crash, and `OpenWithOptions` |

Stamps in names are nanoseconds, so files are ordered by rotation; a file and its twin come
in either order.

## 3. What the runs show

| Run | Instance | Shows |
|---|---|---|
| `meter` | 2 callers, 2 keys (one capped in requests, one in tokens), 2 minutes of 2 ticks | `RequestsWithinCap`, `RejectedOnlyAtCap`, `UsageNeverOverstated`; 2.1 M states |
| `router_walk` | 2 chat requests, 4 models with a cycle and a model without anything, a request cap, one provider with a timeout and one without, fairness | `GaveUpOnlyAfterAll`, `LimitsSurfaceAs429`, `EveryWalkEnds` |
| `router_promise` | 2 requests over 3 models, the four other endpoints, a blocked fallback, a deployment without the optional methods, with and without hints | `KeepsPromise` (refinement), `BlockedNeverUsed`, `TokensGoToServer` |
| `router_capability` | 1 passthrough request | a disagreement, see below |
| `pool` | 2 callers that call again and again, 3 credentials, 3 methods, hints and defaults | `ExhaustedOnlyWhenSpent`, `MovesOnlyOffSpentAlone` |
| `budgets` | 2 requests in flight of a key (cap 1 per window of 2), a key without access and the master token, a cap of 1 per second for all, retention 2, a purge override of 3 | `SustainedSpendBounded`, `PurgeSparesWindows`, `OneRowPerRequest` |
| `cache_tiers` | 2 callers, 3 keys, capacity 2, lifetime 1, both tiers, restarts | `ListMatchesItems`, `RecentlyUsedStays`, `ServedWithinTwoLifetimes` |
| `oauth` | 2 authenticators, 3 callers (one of them the usage endpoint), both vendors, rotating or not, 3 grants, 2 ticks; 1.7 M states | `LoginSurvives`, `ReplayedOnlyAcrossClients`, `RetryCarriesNewToken` |
| `streams` | 7 paths, each upstream attempt with up to 2 texts, 2 calls of 2 fragments, cumulative or not, one retry; 177 k states | `ReassembledExactly`, `CleanEndIsEarned`, `BridgeWellFormed`, `AuditMatchesClient`, `UsageReachesLedger` |
| `streams_failures` | the same | a disagreement, see below |
| `conversation` | 4 providers, both dialects and billing modes, 3 turns of up to 2 calls, 2 markers; 0.9 M states | `ResultsStayMatched`, `NothingLost`, `WithinBreakpoints`, `SessionPinned`, `LedgerCountsOnce` |
| `content_log` | 5 lines of 1 or 4 bytes, files of 3, total 4, 2 backups, 2 faults anywhere; 1 M states | `AcceptedStaysReadable`, `DiskBounded` |

Bounds. `MaxTime` bounds the clock: two minutes are enough for a roll forward and,
by a caller held over, backward; in the router runs the default cooldown is one tick and
hints, where there are any, are two, so that a park may end during a walk and hints
differ from the default.
Two requests suffice for every interplay through the cooldown map and the meter,
which are compared key by key. `MaxAdmitted` bounds the admissions per key and
minute in `MeteredCalls` above the caps, so that an overshoot would show. The
instances of the fallback map have a cycle, a model reached twice and a model with
nothing. In the budget run the clock covers two windows of the key,
each call costs one, and two requests in flight are enough to overshoot a cap; in the
cache runs a capacity below the number of keys forces evictions and four ticks cover an
entry, its promotion and the end of both lifetimes. Requests and callers are
symmetric in the safety runs; `router_walk` checks liveness and has no symmetry. The meter, router, stream,
conversation and content log runs set `CHECK_DEADLOCK FALSE`: every request, turn or line
is used once, or its bound reached, and then the instance is over.

In `oauth` three grants are the login, a refresh and one more by anybody (a sibling, the
other authenticator, a command), which is what it takes to overtake each other; a lifetime of
0 is one the upstream omits, the other ends within the clock by its skew but is longer than
skew and window, as real ones are. Two authenticators suffice, since they meet only in the
file. In `streams` two calls of two fragments are the least that interleave and two texts
surround a call; each event can come at any moment, so every prefix of a longer stream that
differs in kind is there. `conversation` scales the four markers Anthropic accepts to two,
which a client's prompt and one message already use up; three turns are an answer by one
provider, one by another and a request that carries both. In `content_log` three bytes
per file make rotations by size, one tick those by age, and the bounds on number, age
and total each bite; two faults let an error path meet another one or a restart.

Four invariants have exceptions, because the code does: `RequestsWithinCap` leaves out minutes
into which a call was held over, `ReassembledExactly` what `Excused` names (Gemini's parallel
calls and garbled text, calls that interleave through the bridge), and `CleanEndIsEarned` and
`AuditMatchesClient` the error objects Gemini's parser skips and a drop after a relayed
`message_stop`, which marks the row `error` although the client has its end. Where a document
or comment says otherwise, the next section says so.

Fairness. `FairSpec` asks weak fairness of `Step(r)`, a goroutine that can go on,
and of `AnswerInTime(r)`, the answer of a deployment in `Timed`: the HTTP clients of OpenAI,
Gemini and ChatGPT have a timeout (`provider/openai/openai.go`, `provider/gemini/gemini.go`,
`provider/chatgpt/chatgpt.go`), so a call of theirs returns. The Anthropic client is
`http.DefaultClient`, which has none, so nothing is assumed of the other deployments, and
`EveryWalkEnds` says that a walk ends or hangs for ever in one call to such a deployment
(`Hangs`); no walk hangs anywhere else, nor because another one does. No fairness is asked of
arrivals, the clock or `ReportLimits`.

### Where the code and its documents disagree

Two have a run that shows the violation:

* **Capability miss** (`router_capability`). A fallback model without a
  passthrough-capable deployment makes a rate-limited request a 400, which the
  comment at the verdict excludes, and ends the walk before the later fallbacks.
* **Errors in the middle of a Gemini stream** (`streams_failures`, `FailuresAreTold`). They are
  skipped and the client gets a clean end, where `docs/agentmodel.md` promises an error frame.

The others are in the models' steps; each took a small run to confirm and is only
described here:

* **Burst of the meter** (`Late`). A caller held up across a minute boundary rolls the window
  back, and the next one starts again from zero: three admissions in two minutes at a cap of
  one, where the comment in `ratemeter.go` bounds a burst by twice the cap.
* **Hints** (`Cooled`, `Parked`). A refusal without a hint replaces the park that the hint to an
  overlapping call has set by the default, where the comment at `rateLimitCooldown` lets a hint
  always win; the router's `coolDep` is alike.
* **Cumulative text** (`Trimmed`, `After`). `prevText` becomes empty with a chunk that holds
  only a call or the finish reason, and cumulative text after it is passed on whole, although the
  comment of `Stream` promises deltas.
* **Lifetime of a promoted row** (`Promote`). Promotion starts the `ttl` anew, so an answer
  may be served for two lifetimes, where `Config.TTL` is the lifetime of an entry.
* **Retry-After** (`Note`, `Exhausted`). A failure without a hint parks for
  `router_cooldown` but does not count as a wait, so the 429 may name a longer one than
  the soonest `docs/agentmodel.md` promises.
* **Stickiness** (`Selected`). A late success moves the pool back to a parked
  credential, and with it every later call; `MovesOnlyOffSpentAlone` therefore speaks of
  calls that nothing overlaps.
* **Device login** (`PollApproved`, `UseCached`). The comment of `PollDeviceCode` says
  `Apply` will start using the new tokens; the cached one is used until it ends
  or is refused.
* **Fragments of calls that interleave** (`Orphan`). The comment in
  `messagesbridge/stream.go` explains a fragment without an open block by a missing start;
  a fragment of a call the next one has closed is dropped by the same line
  (`Excused`).

More effects are in the models, but no document or comment speaks of the exact
case, so no property forbids them. A park of the pool that ends during a scan is
left out of the reported wait (`soonestRetry`), which is then the wait of another
credential although one is free. A passthrough call moves everyone off a serving
credential that lacks the method (the exception in `MovesOnlyOffSpentAlone`).
`checkBudgets` fixes the window before the ledger is queried and the sum has no
upper end, so a check that straddles a boundary adds up the spend of two windows.
Two authenticators over one file can present each other's spent tokens; when the upstream
rotates, the later write wins (`ReplayedOnlyAcrossClients` and `LoginSurvives` say what is
left). A storm of 401s may rotate more than once: a straggler comes after the window, or a
refresh that was not forced is not remembered as one. A Gemini call has no index, so the
content log merges the parallel calls of one answer. A disconnect through the bridge may
leave a row without usage; a chat stream that breaks is a row without usage too, whatever it
had reported, and advances no budget; a relayed stream that ends without `message_stop`, and a truncated
Anthropic, Gemini or OpenAI stream, counts as a success. The bridge ignores images. A
line after a torn one shares its line. A crash during `compress` leaves a
partial archive, which counts as a backup and may outlive the whole file beside it.

`SustainedSpendBounded` and `PurgeSparesWindows` speak of caps whose window `Fits`: the
retention period and every override of `purge --older-than`. The first half is what
`validateBudgetCap` checks for YAML caps (for keys created at run time
`docs/agentmodel.md` makes it the operator's duty), the second half nobody checks:
an override shorter than a window deletes spend that still counts.

## 4. What is proved

`MeteredCallsProofs` (TLAPS, every value of the constants that meets
`MeterAssumption` and `CallersAssumption`):

* `TypeCorrect`: `Spec => []TypeOK`.
* `CapRespected` (`[]RequestsWithinCap`): in a minute into which no call was held over, no key
  is admitted beyond its cap.
* `UsageCorrect` (`[]UsageNeverOverstated`) and `RejectionJustified` (`RejectedOnlyAtCap`): also
  where calls are held over, the usage is never above the history of the minute and nobody
  else is turned away before the cap was really reached.

The cap alone is not inductive: a window says nothing about the admissions of its
minute unless its counters *are* the history of that minute, or a part of it once a call was
held over (`Accounts`), no reading and no window is ahead of the clock, and no later minute has
any history yet (`FutureIsBlank`). `MeterInvariant` is the conjunction of these facts with the type
invariant and the cap. The proofs have one lemma per operation of the meter and one step per
action; that a call held over can only take counts away is `LateAccounts`. Nothing is assumed
of how long a caller waits for the lock.

`RouterProofs` (every catalogue and any number of requests
that meet `CatalogAssumption` and `RouterAssumption`):

* `TypeCorrect`, `BlockedModelsUnused`, `NothingOverlooked`, `LimitsSurface`:
  `Spec` implies `[]TypeOK`, `[]BlockedNeverUsed`, `[]GaveUpOnlyAfterAll` and
  `[]LimitsSurfaceAs429`.
* `TokensWellCredited`: `Spec => TokensGoToServer`.
* `WalkKeepsPromise`: `Spec => KeepsPromise`, that is, `Router` implements `Dispatch`.

The invariants among them are not inductive, because each speaks of the end of a walk
and the walk forgets what it has returned from. `IInv` says what a walk in
progress remembers: every visited model is on the stack or finished, where
finished means that all its candidates have been considered (called or skipped)
and all its fallbacks visited (`VisitedOK`); a frame has considered exactly the
candidates that are no longer in its `left` (`FrameOK`), with the one admitted by the
cooldown check but not yet by the meter counted apart (`PendingKey`); callers
have no candidate left (`CallerOK`) and no model is on the stack twice; a
considered key is a candidate of a visited, reachable model (`KeysOK`); and a chat
walk that has considered anything remembers a limit in some frame (`LimitOK`).
When the last frame is exhausted, the visited models that are not blocked are thus
closed under the fallback map, so they contain every reachable model and nothing
on offer was overlooked. `WalkOK` is stated over the plain local state of one walk, so
there is one lemma per way a walk moves, then one per action, and requests
do not disturb each other because they share only the cooldown map and the meter.
The refinement follows from `IInv`: what a frame considers next is on offer and fresh
(`NextInLine`, `CheckedKey`), and each way of giving up is one `Dispatch` allows
(`GiveUpIsAllowed`). Tokens need an invariant of their own, `CallsKnown`: a request at a
provider has recorded that call, and a verdict of success names a key that was called.
Tokens of a meter then move in `RecordTokens` alone, for the key of the verdict.

`CredentialPoolProofs` (any number of credentials, callers and hints):

* `TypeCorrect`, and `ExhaustionJustified`: `Spec => []ExhaustedOnlyWhenSpent`. The
  invariant keeps account of a scan that is under way: what it found spent is the
  capable part of the places it has left behind (`ScanAccounts`, with
  `Left(p)` the credentials from `start[p]` on, modulo `N`), and a call is made only in
  turn (`CallInTurn`). Neither mentions `cur` or the parks, which is why other callers
  cannot disturb it. At `pos = N` the wrap-around has covered all of `Creds` (`AllSeen`).
* `SticksToTheServing`: `Spec => MovesOnlyOffSpentAlone`. A second invariant relates `alone` to the phases of the others (`Solo`):
  of a call that is `alone` all others are idle, and nobody has touched meanwhile what it
  relies on: the serving credential is still the one the scan started from, and the
  credential being called is not parked (`Undisturbed`). Calls that overlap are left out: a
  late success moves everyone back, and a late refusal cuts parks short.

`BudgetsProofs` (any callers, models, caps, windows, costs and requests in flight):

* `TypeCorrect`, and `AuditComplete`: `Spec => []OneRowPerRequest`. The invariant
  adds that a request in flight has handed over no row and that only a chat request
  whose row is handed over seeds the cache.
* `PurgeIsSafe`: `Spec => []PurgeSparesWindows`. The key facts are that a window that
  `Fits` begins no earlier than the cutoff of any purge
  (`now - now % w >= now - period`), that windows only move forward, and that rows are
  charged to `ledger` and `spent` alike.
* `SpendIsBounded`: `Spec => []SustainedSpendBounded`. A cap alone says nothing while
  requests are in flight, so `SpendCovered` counts who is past its check (`OrgPassed`,
  `KeyPassed(c)`): the spend of the window stays below the cap plus what the *other* slots
  may have added, `Room(passed)`, which is the number of requests not past the check times the
  highest cost. Passing a check makes room smaller by one request, and may, since the check has
  just summed the window and found it below the cap; inserting a row makes it larger by one
  and spends at most that. Two things tie a check to the present: a request carries no reading
  or cost that is too late or too high (`Carried`), and what it summed is the spend of the
  window, since the rows a purge spares agree (`RetainedRowsAgree`) and the start of a window
  only moves forward.

A sum over a set is a fold, and the library's induction takes an operator, which the provers
cannot instantiate. `Climb` is induction over a set of numbers instead, proved by the least
number outside of it (`WFMin`); with it come the facts that the proofs use of sums (`SumType`,
`SumAlike`, `SumTake`, `SumAdd`, `SumPart`). They are stated in both `BudgetsProofs` and
`ContentLogProofs`, whose components have variables of the same names and cannot be extended
together.

`ResponseCacheProofs` (any keys, callers, capacity, lifetime):

* `TypeCorrect`, `ListInStep`, `EvictionIsLRU`: `Spec` implies `[]TypeOK`,
  `[]ListMatchesItems` and `[]RecentlyUsedStays`. The list is `Orderly`: it holds exactly the
  keys present, each once, and whatever is in front of a key was used after it. So the last
  of a list that is too long has been followed by uses of all others, and a key that was
  pushed out has seen at least `Capacity` of them (`UsesCounted`). One lemma each says that
  taking an element out, putting one in front and cutting the tail keep a list orderly.
  The property counts keys that were used since, not keys in all: with a capacity above the
  number of keys a key dropped for its age would otherwise be missing.
* `TwoLifetimes`: `Spec => []ServedWithinTwoLifetimes`, provided that no time passes
  between reading a row and promoting it (`SlowPromotion = FALSE`; each delay there adds
  to the bound). The invariant `AgesBounded` says that an entry in memory ends two
  lifetimes after its answer was written, a row one, and that a caller about to promote
  holds an answer that is still in its first lifetime.

`OAuthStoreProofs` (any authenticators, callers, lifetimes and number of grants):

* `TypeCorrect`, and `LoginStaysRefreshable`, `NoSelfReplay`: `Spec` implies
  `[]LoginSurvives` and `[]ReplayedOnlyAcrossClients`. What the file holds depends on
  writes that are still to come, so `IInv` says who may write what: a caller that asks or
  saves holds the lock of its authenticator, hence is the only one of it (`Exclusive`); no token
  is newer than the grants (`Minted`), so a fresh one collides with nothing; and the
  credentials about to be written carry a token that the upstream accepts, that nobody else
  holds when the upstream rotates, and whose predecessor was spent by the caller's own
  authenticator (`Fresh`).
* `RetryIsWorthwhile`: `Spec => RetryCarriesNewToken`. Its invariant `Retries` is about access
  tokens: what a caller is about to save is nowhere yet (`Issued`); within the window
  after a forced refresh its token is the one cached, and outlives the window, so that nobody
  adopts or refreshes another (`CacheSound`, from the assumption that real lifetimes exceed skew
  plus window); and a caller that was or may be refused a token either holds the one that
  forced refresh got, or file and cache have moved on (`CallSound`).

`ContentLogProofs` (any options, sizes and bounds):

* `AcceptedNeverVanishes`: `Spec => []NothingVanishes`, the first half of
  `AcceptedStaysReadable`. The invariant adds that a backup is named by its rotation and
  kind alone (`NamedApart`), so that a step that replaces one touches no other, and that
  when the logger is about to remove the rotated file its twin is whole and has the same
  lines (`TwinComplete`).
* `LostInOrderOnly`: `Spec => []AcceptedStaysReadable`. Its other half, `OldestGoFirst`, needs
  that files age with their rotations (`Aged`: an older file has the older lines and the
  earlier modification time, twins have the same) and that every line on disk is
  one that was accepted (`Logged`). Each of the three rules of retention keeps the newer of two
  files whenever it keeps the older (`NewerIsKept`).
* `DiskStaysBounded`: `Spec => []DiskBounded`. `Counted` says that the active file is empty from
  the rename to the end of the pruning, that the logger's `size` is that of the active file as long as
  no step has failed since, and that the backups are then within `MaxTotal`. That what a
  pruning keeps fits follows from the oldest file it keeps: everything kept is at least as
  new, and the total is summed up to that file.

`StreamsProofs` holds the proofs about both `Streams` and `Conversation`.

For `Streams` (any paths, any number of fragments, calls and fresh attempts, from
`StreamsAssumption`) the invariants build on one another:

* `TypeCorrect` and `BridgeKeepsForm` (`[]TypeOK`, `[]BridgeWellFormed`) from
  `Typed /\ BridgeFollowed`: the writer's block numbers are consistent (`Numbered`), and what it
  holds open is what a client that follows the protocol has open (`Follows`).
* `CleanEnds`, `AuditCorrect`, `UsageKept` (`[]CleanEndIsEarned`, `[]AuditMatchesClient`,
  `[]UsageReachesLedger`) from `Outcome`: while the client is there, an open stream
  has told no end to client or row, no failure of the upstream is pending, and usage that was
  reported is on its way to the row (`Earned`). The stream relayed as it comes is a case of its own
  (`Relayed`): its client has what the upstream sent so far, `message_stop` included, and a drop
  after that is the one way for row and client to differ (`DroppedLate`). An error object
  may be behind an open stream of Gemini alone (`Forgiven`).
* `AnswersWhole` (`[]ReassembledExactly`) from `Reassembly`: an attempt that may still be repeated
  has said nothing (`Fresh`), and what was put together agrees with what the upstream has
  said, text by text and call by call (`Alike`), under the keys the parser gave the calls
  (`Keyed`) and, through the bridge, in the block that is open (`Placed`); `prev` is
  whether the last chunk of a Gemini stream had text, which is what makes the deltas right as long
  as the text is not `garbled`. `Whole` has the exceptions: Gemini's calls without index and its
  garbled text, and fragments of calls that interleave.

For `Conversation` (any dialects, limit of markers, tallies, number of turns and calls, from
`ConversationAssumption`) all five properties are theorems: `ResultsMatched`
(`[]ResultsStayMatched`), `NothingIsLost` (`[]NothingLost`), `BreakpointsKept`
(`[]WithinBreakpoints`), `OneSessionId` (`[]SessionPinned`) and `TokensCountedOnce`
(`[]LedgerCountsOnce`). None is inductive: each speaks of a request, which is gone with the
answer, and is true because of the history. The invariant `Conversing` has these parts:

* `Ordered`: the history opens with a question, each message has one of a few shapes (`Shaped`:
  an answer is text and then its numbered calls; a turn is text with all results ahead of it
  or all behind it, a picture, or a result alone), and every result answers a call of
  the last answer before it, with nothing but results of that answer in between
  (`ResultsAnswer`, `AnsweredIn`). Within one answer the numbers tell calls apart; Gemini's
  identifiers, which repeat from answer to answer, are safe because a match never looks
  past the last answer.
* `InTransit`: what is at an upstream is `Translated(p)` of the history.
* `MarksFit`: the client's own markers are within the limit.
* `OneSession`: every session seen is the one of the system prompt and the first message.

Two lemmas carry the proofs over to the wire. `TranslatedAs` says what any translation makes of
an ordered history: the same number of messages, each block by block (`SameOrder`), or as the
bridge has it, where results come ahead of text and images are left out (`BridgedAs`,
`Turned`); identifiers are rewritten the same way on a call and on its result and keep their
number, except for Gemini, which drops them (`Wired`, `WiredKeepsNumber`). `Matched` and `AllSaid` then prove the properties of any such wire.
The filter by kind (`OfKind`) is not computed: blocks of a kind are shown to stand together in
each shape, and a filter that picks a span is that span (`PicksSpan`). The step lemma `ReplyKeepsOrder`
puts an answer and each form of the next turn behind an ordered history.

Only model-checked: `EveryWalkEnds`, since liveness under fairness is out of the prover's
reach. All other properties of the passing runs are stated by a theorem.

## 5. What is left

The plan was carried out in the order core first: meter, router and its refinement, pool,
budgets, cache, then credentials, streams, translation and content log. Each
component has one passing run, so that all of it can be checked in minutes.

Worth doing next: the two tiers of the cache as one composition with the router's
answers; `wire/errors.go` and `wire/retryafter.go` as operators checked against reference
definitions.

Not modelled:

* **Managed keys** (`api/auth.go`, `store/managed_keys.go`). A request resolves its key in
  one read and carries the result; creation and revocation are one row update
  each. A request in flight keeps a revoked key by design, which leaves nothing to
  interleave.
* **Live model lists.** They advise (warnings at start, `/v1/models`) and route nothing. A
  refresh that outlives another stores an older fetch time, and a cancelled leader fails its
  followers; the hazard is listed.
* **Videos and replicate.** Dispatch to one capable deployment, without cooldown, meter or
  fallback: no state.
* **Usage rollups, limits, account.** Read-only queries.
* **Lifecycle.** The retention purge is in `Budgets`; the loops and the shutdown only start
  and stop what is modelled elsewhere.
* **Profiles, prompts and browser flows of the logins.** A login command is the one
  step that replaces the file.
* **Configuration, factory, alias, cost, telemetry**, and the formatting of bodies: parsing
  and wiring without concurrent state.
