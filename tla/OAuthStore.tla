------------------------------ MODULE OAuthStore ------------------------------
(* The subscription credentials of a provider: one auth.json that several      *)
(* authenticators of the gateway, and login commands of other processes, read  *)
(* and replace, each authenticator with a cache and a mutex of its own, and an *)
(* upstream that accepts a refresh token once.                                 *)
(*                                                                             *)
(* A token is the number of the grant that minted it, 0 is an absent token.    *)
EXTENDS Integers, FiniteSets

CONSTANTS
    Clients,        \* authenticators over the same auth.json, caches of their own
    Callers,        \* requests in flight
    ClientOf,       \* the authenticator a caller's deployment holds
    Probes,         \* callers of the account usage endpoint: a 401 is not retried
    Lifetimes,      \* expires_in values the upstream reports, 0 when it omits it
    Skew,           \* oauthExpirySkew
    Window,         \* forceRefreshCoalesceWindow
    MaxTime,        \* bound of the clock
    MaxGrants       \* bound of the grants the upstream makes

ASSUME OAuthAssumption ==
    /\ ClientOf \in [Callers -> Clients] /\ Probes \subseteq Callers
    /\ "none" \notin Callers \cup Clients /\ "login" \notin Callers
    /\ Lifetimes \subseteq Nat /\ {Skew, Window, MaxTime} \subseteq Nat
    /\ MaxGrants \in Nat \ {0}
    /\ \A life \in Lifetimes : life > 0 => life > Skew + Window

VARIABLES
    vendor,         \* "anthropic" or "chatgpt": whose store this is
    rotates,        \* whether a refresh of this upstream replaces the refresh token
    now,
    file,           \* auth.json
    cache,          \* cached, cachedExp and lastForceRefresh of each authenticator,
                    \* and, as history, the token its last forced refresh got
    lock,           \* who holds the write lock of an authenticator
    polling,        \* the authenticator the poll endpoint waits in, or "none"
    call,           \* the progress of each caller
    live,           \* upstream: refresh tokens it accepts
    grants,         \* upstream: grants made
    spentBy,        \* history: the authenticator that spent a refresh token
    lost            \* history: refresh tokens spent for an answer nobody saved

vars == <<vendor, rotates, now, file, cache, lock, polling, call, live, grants, spentBy, lost>>
fixed == <<vendor, rotates>>
upstream == <<live, grants, spentBy, lost>>

Tokens == 0..MaxGrants
Creds == [access : Tokens, refresh : Tokens, exp : Nat]
NoCreds == [access |-> 0, refresh |-> 0, exp |-> 0]
Holders == Callers \cup {"none", "login"}

ExpiryFrom_Sentinel(life) == IF life = 0 THEN -1 ELSE now + life
\* creds.go: an unknown expiry is trusted until the upstream refuses the token.
ExpiryFrom(life) == IF life = 0 THEN 0 ELSE now + life
Expired(exp) == exp # 0 /\ now + Skew >= exp
Usable(creds) == creds.access # 0 /\ ~Expired(creds.exp)

Idle == [pc |-> "idle", tok |-> 0, bad |-> 0, old |-> 0, got |-> NoCreds, forced |-> FALSE]
NoCache == [access |-> 0, exp |-> 0, forcedAt |-> -Window, forced |-> 0]
Populated(c, creds) == [cache EXCEPT ![c].access = creds.access, ![c].exp = creds.exp]

Sending(p, token) == [call EXCEPT ![p].pc = "sent", ![p].tok = token, ![p].old = 0,
                                  ![p].got = NoCreds, ![p].forced = FALSE]
Retrying(p) == [call EXCEPT ![p] = [Idle EXCEPT !.pc = "retry", !.bad = call[p].bad]]
Asking(p, refresh, forced) ==
    [call EXCEPT ![p].pc = "asking", ![p].old = refresh, ![p].forced = forced, ![p].tok = 0]
Finished(p) == [call EXCEPT ![p] = Idle]

-----------------------------------------------------------------------------
(* Apply: a token for the request.                                             *)

\* The shared-lock hot path: nobody holds the write lock.
UseCached(p) == LET c == ClientOf[p] IN
    /\ call[p].pc \in {"idle", "retry"} /\ lock[c] = "none"
    /\ Usable(cache[c])
    /\ call' = Sending(p, cache[c].access)
    /\ UNCHANGED <<fixed, now, file, cache, lock, polling, upstream>>

\* Under the write lock, the cache having been checked again: another process
\* may have written a token that is still good.
AdoptFile(p) == LET c == ClientOf[p] IN
    /\ call[p].pc \in {"idle", "retry"} /\ lock[c] = "none"
    /\ ~Usable(cache[c]) /\ Usable(file)
    /\ cache' = Populated(c, file)
    /\ call' = Sending(p, file.access)
    /\ UNCHANGED <<fixed, now, file, lock, polling, upstream>>

\* Under the write lock, nothing usable: refresh with the token of the file.
BeginRefresh(p) == LET c == ClientOf[p] IN
    /\ call[p].pc \in {"idle", "retry"} /\ lock[c] = "none"
    /\ ~Usable(cache[c]) /\ ~Usable(file) /\ file.refresh # 0
    /\ lock' = [lock EXCEPT ![c] = p]
    /\ call' = Asking(p, file.refresh, FALSE)
    /\ UNCHANGED <<fixed, now, file, cache, polling, upstream>>

\* ErrLoginRequired: no refresh token.
LoginRequired(p) == LET c == ClientOf[p] IN
    /\ call[p].pc \in {"idle", "retry"} /\ lock[c] = "none"
    /\ ~Usable(cache[c]) /\ ~Usable(file) /\ file.refresh = 0
    /\ call' = Finished(p)
    /\ UNCHANGED <<fixed, now, file, cache, lock, polling, upstream>>

-----------------------------------------------------------------------------
(* ForceRefresh, after a 401.                                                  *)

\* An authenticator that never refreshed counts as having done so when it started.
Coalesced_FromStart(c) ==
    cache[c].access # 0 /\ now - (IF cache[c].forcedAt < 0 THEN 0 ELSE cache[c].forcedAt) < Window
Coalesced(c) == cache[c].access # 0 /\ now - cache[c].forcedAt < Window

\* A sibling has just refreshed: its result is used, nothing is rotated.
ForceCoalesced(p) == LET c == ClientOf[p] IN
    /\ call[p].pc = "rejected" /\ lock[c] = "none" /\ Coalesced(c)
    /\ call' = Retrying(p)
    /\ UNCHANGED <<fixed, now, file, cache, lock, polling, upstream>>

\* The write lock is not awaited.
ForceBegins_Unlocked(p) ==
    /\ call[p].pc = "rejected" /\ ~Coalesced(ClientOf[p])
    /\ IF file.refresh = 0
       THEN call' = Finished(p) /\ UNCHANGED lock
       ELSE /\ lock' = [lock EXCEPT ![ClientOf[p]] = p]
            /\ call' = Asking(p, file.refresh, TRUE)
    /\ UNCHANGED <<fixed, now, file, cache, polling, upstream>>
ForceBegins(p) == LET c == ClientOf[p] IN
    /\ call[p].pc = "rejected" /\ lock[c] = "none" /\ ~Coalesced(c)
    /\ IF file.refresh = 0
       THEN call' = Finished(p) /\ UNCHANGED lock
       ELSE /\ lock' = [lock EXCEPT ![c] = p]
            /\ call' = Asking(p, file.refresh, TRUE)
    /\ UNCHANGED <<fixed, now, file, cache, polling, upstream>>

-----------------------------------------------------------------------------
(* The token endpoint.                                                         *)

\* What a refresh answers: a new access token (the ChatGPT client takes an empty
\* one too), and a refresh token in place of the old one unless it is omitted.
RefreshAnswers == LET n == grants + 1 IN
    [access : IF vendor = "chatgpt" THEN {n, 0} ELSE {n},
     refresh : {IF rotates THEN n ELSE 0}, life : Lifetimes]
Kept_Drops(old, answer) == answer.refresh
Kept(old, answer) == IF answer.refresh = 0 THEN old ELSE answer.refresh
Granted(old, answer) ==
    [access |-> answer.access, refresh |-> Kept(old, answer), exp |-> ExpiryFrom(answer.life)]

Spend(p, answer) ==
    /\ grants < MaxGrants /\ call[p].old \in live
    /\ grants' = grants + 1
    /\ live' = IF answer.refresh = 0 THEN live
               ELSE (live \ {call[p].old}) \cup {answer.refresh}
    /\ spentBy' = IF answer.refresh = 0 THEN spentBy
                  ELSE [spentBy EXCEPT ![call[p].old] = ClientOf[p]]

\* The answer of a refresh arrives.
Answered(p) ==
    /\ call[p].pc = "asking"
    /\ \E answer \in RefreshAnswers :
         /\ Spend(p, answer)
         /\ call' = [call EXCEPT ![p].pc = "saving",
                                     ![p].got = Granted(call[p].old, answer)]
    /\ UNCHANGED <<fixed, now, file, cache, lock, polling, lost>>

\* The upstream has rotated and the caller never hears of it: its client went
\* away, the connection broke, or the body cannot be decoded.
AnswerLost(p) ==
    /\ call[p].pc = "asking"
    /\ rotates /\ Spend(p, [access |-> grants + 1, refresh |-> grants + 1])
    /\ lost' = lost \cup {call[p].old}
    /\ lock' = [lock EXCEPT ![ClientOf[p]] = "none"]
    /\ call' = Finished(p)
    /\ UNCHANGED <<fixed, now, file, cache, polling>>

\* The refresh token is refused, or the endpoint cannot be reached.
Refused(p) ==
    /\ call[p].pc = "asking"
    /\ lock' = [lock EXCEPT ![ClientOf[p]] = "none"]
    /\ call' = Finished(p)
    /\ UNCHANGED <<fixed, now, file, cache, polling, upstream>>

\* writeCreds, by rename, then the cache; a caller of ForceRefresh applies again.
Saved(p) == LET c == ClientOf[p] creds == call[p].got IN
    /\ call[p].pc = "saving"
    /\ file' = creds
    /\ cache' = IF call[p].forced
                THEN [Populated(c, creds) EXCEPT ![c].forcedAt = now, ![c].forced = creds.access]
                ELSE Populated(c, creds)
    /\ lock' = [lock EXCEPT ![c] = "none"]
    /\ call' = IF call[p].forced
               THEN Retrying(p)
               ELSE Sending(p, creds.access)
    /\ UNCHANGED <<fixed, now, polling, upstream>>

Unsaved(p) == IF call[p].pc = "saving" /\ call[p].got.refresh # call[p].old
              THEN {call[p].old} ELSE {}

SaveFails(p) ==
    /\ call[p].pc = "saving"
    /\ lost' = lost \cup Unsaved(p)
    /\ lock' = [lock EXCEPT ![ClientOf[p]] = "none"]
    /\ call' = Finished(p)
    /\ UNCHANGED <<fixed, now, file, cache, polling, live, grants, spentBy>>

-----------------------------------------------------------------------------
(* The provider's answer to the request.                                       *)

Accepted(p) ==
    /\ call[p].pc = "sent" /\ call[p].tok # 0
    /\ call' = Finished(p)
    /\ UNCHANGED <<fixed, now, file, cache, lock, polling, upstream>>

\* 401, whatever the expiry on record says: the first one of a request is
\* recovered by a forced refresh.
Rejected(p) ==
    /\ call[p].pc = "sent" /\ call[p].bad = 0 /\ call[p].tok # 0 /\ p \notin Probes
    /\ call' = [call EXCEPT ![p].pc = "rejected", ![p].bad = call[p].tok, ![p].tok = 0]
    /\ UNCHANGED <<fixed, now, file, cache, lock, polling, upstream>>

\* A second one is the caller's, and one without a token; and the ChatGPT client
\* recovers only from one that says the token expired.
RejectedForGood(p) ==
    /\ call[p].pc = "sent" /\ p \notin Probes
    /\ call[p].bad # 0 \/ call[p].tok = 0 \/ vendor = "chatgpt"
    /\ call' = Finished(p)
    /\ UNCHANGED <<fixed, now, file, cache, lock, polling, upstream>>

\* The account usage endpoint only reports it.
ProbeRejected(p) ==
    /\ call[p].pc = "sent" /\ p \in Probes
    /\ call' = Finished(p)
    /\ UNCHANGED <<fixed, now, file, cache, lock, polling, upstream>>

-----------------------------------------------------------------------------
(* Logins.                                                                     *)

\* The gateway's poll endpoint holds the write lock until the user decides.
PollStarts(c) ==
    /\ vendor = "chatgpt" /\ polling = "none" /\ grants < MaxGrants /\ lock[c] = "none"
    /\ polling' = c /\ lock' = [lock EXCEPT ![c] = "login"]
    /\ UNCHANGED <<fixed, now, file, cache, call, upstream>>

Released == lock' = [lock EXCEPT ![polling] = "none"]

\* Tokens of a new login replace the file; no cache is told.
LoginWrites(life) == LET n == grants + 1 IN
    /\ grants < MaxGrants
    /\ grants' = n /\ live' = live \cup {n}
    /\ file' = [access |-> n, refresh |-> n, exp |-> ExpiryFrom(life)]
    /\ UNCHANGED <<fixed, now, cache, call, spentBy, lost>>
PollApproved == \E life \in Lifetimes :
    polling # "none" /\ LoginWrites(life) /\ polling' = "none" /\ Released
\* A login command, a process of its own, until its code is accepted: nothing of
\* it is seen before it writes.
CommandWrites == \E life \in Lifetimes : LoginWrites(life) /\ UNCHANGED <<polling, lock>>

\* Denied, given up, past the deadline, or the file cannot be written.
PollFails ==
    /\ polling # "none" /\ polling' = "none" /\ Released
    /\ UNCHANGED <<fixed, now, file, cache, call, upstream>>

-----------------------------------------------------------------------------
\* Writing the file takes no time on this clock.
Tick == /\ now < MaxTime /\ now' = now + 1
        /\ \A p \in Callers : call[p].pc # "saving"
        /\ UNCHANGED <<fixed, file, cache, lock, polling, call, upstream>>

\* The gateway stops and starts: every authenticator is new, the file stays.
Restart ==
    /\ cache' = [c \in Clients |-> NoCache] /\ lock' = [c \in Clients |-> "none"]
    /\ call' = [p \in Callers |-> Idle]
    /\ polling' = "none"
    /\ lost' = lost \cup UNION {Unsaved(p) : p \in Callers}
    /\ UNCHANGED <<fixed, now, file, live, grants, spentBy>>

Init ==
    /\ vendor \in {"anthropic", "chatgpt"} /\ rotates \in BOOLEAN /\ now = 0 /\ polling = "none"
    /\ file \in {NoCreds} \cup [access : {1}, refresh : {1}, exp : Lifetimes]
    /\ cache = [c \in Clients |-> NoCache] /\ lock = [c \in Clients |-> "none"]
    /\ call = [p \in Callers |-> Idle]
    /\ live = {file.refresh} \ {0} /\ grants = 1
    /\ spentBy = [t \in Tokens |-> "none"] /\ lost = {}

GetToken(p) == UseCached(p) \/ AdoptFile(p) \/ BeginRefresh(p) \/ LoginRequired(p)
ForceRefresh(p) == ForceCoalesced(p) \/ ForceBegins(p)
Exchange(p) == Answered(p) \/ AnswerLost(p) \/ Refused(p)
Persist(p) == Saved(p) \/ SaveFails(p)
Reply(p) == Accepted(p) \/ Rejected(p) \/ RejectedForGood(p) \/ ProbeRejected(p)
PollEnds == PollApproved \/ PollFails

Next ==
    \/ \E p \in Callers : GetToken(p) \/ ForceRefresh(p) \/ Exchange(p) \/ Persist(p) \/ Reply(p)
    \/ \E c \in Clients : PollStarts(c)
    \/ PollEnds \/ CommandWrites \/ Tick \/ Restart

Spec == Init /\ [][Next]_vars
-----------------------------------------------------------------------------
TypeOK ==
    /\ vendor \in {"anthropic", "chatgpt"} /\ now \in 0..MaxTime
    /\ file \in Creds
    /\ cache \in [Clients -> [access : Tokens, exp : Nat, forcedAt : -Window..MaxTime,
                          forced : Tokens]]
    /\ lock \in [Clients -> Holders] /\ polling \in {"none"} \cup Clients
    /\ call \in [Callers -> [pc : {"idle", "asking", "saving", "sent", "rejected", "retry"},
                             tok : Tokens, bad : Tokens, old : Tokens, got : Creds,
                             forced : BOOLEAN]]
    /\ live \subseteq Tokens /\ lost \subseteq Tokens
    /\ grants \in Tokens /\ spentBy \in [Tokens -> Clients \cup {"none"}]

(* The login on disk can always be refreshed: its refresh token is accepted    *)
(* upstream, or what replaced it is about to be written, or the one answer     *)
(* that carried the replacement was lost. Several authenticators and a login   *)
(* command over one file never lose it otherwise (refresh, writeCreds).        *)
LoginSurvives ==
    \/ file = NoCreds
    \/ file.refresh \in live \cup lost
    \/ \E p \in Callers : call[p].pc = "saving" /\ call[p].old = file.refresh

(* A refresh token that is spent is presented again only when another          *)
(* authenticator spent it: within one, the lock and the read of the file under *)
(* it hand each caller the token the last one saved (getAccessToken,           *)
(* ForceRefresh).                                                              *)
ReplayedOnlyAcrossClients ==
    \A p \in Callers :
        LET old == call[p].old IN
        call[p].pc = "asking" /\ old \notin live \cup lost => spentBy[old] # ClientOf[p]

(* The retry of a request that got a 401 carries another token than the one    *)
(* refused, unless a forced refresh minted that very token, so recently that    *)
(* the call was coalesced with it, or the forced refresh got an empty token     *)
(* (recoverUnauthorized, recoverExpiredToken).                                  *)
RetryCarriesNewToken ==
    [][\A p \in Callers :
         call[p].pc = "retry" /\ call'[p].pc = "sent" /\ call'[p].tok = call[p].bad
             => /\ cache[ClientOf[p]].forcedAt >= 0
                /\ cache[ClientOf[p]].forced \in {0, call[p].bad}]_vars
===============================================================================
