--------------------------- MODULE OAuthStoreProofs ---------------------------
(***************************************************************************)
(* Theorems of OAuthStore, for any number of authenticators, requests,     *)
(* logins, lifetimes and grants.                                           *)
(***************************************************************************)
EXTENDS OAuthStore, TLAPS

Busy(p) == call[p].pc \in {"asking", "saving"}
Saving(p) == call[p].pc = "saving"

(* One refresh at a time within an authenticator.                          *)
Exclusive ==
    /\ \A p \in Callers : Busy(p) => lock[ClientOf[p]] = p
    /\ polling # "none" => lock[polling] = "login"

(* Every refresh token about was minted by a grant already made.           *)
Minted ==
    /\ \A t \in live : t <= grants
    /\ file.refresh <= grants
    /\ \A p \in Callers : call[p].old <= grants /\ call[p].got.refresh <= grants

(* A refresh token about to be written is accepted upstream; when refreshes *)
(* rotate, nobody else has it yet, and the one it replaces is spent.        *)
Fresh ==
    \A p \in Callers : Saving(p) =>
        /\ call[p].got.refresh \in live
        /\ ~rotates => call[p].got.refresh = call[p].old
        /\ rotates =>
             /\ call[p].old \notin live /\ spentBy[call[p].old] = ClientOf[p]
             /\ file.refresh # call[p].got.refresh
             /\ \A q \in Callers : Busy(q) =>
                  /\ call[q].old # call[p].got.refresh
                  /\ q # p /\ Saving(q) => call[q].got.refresh # call[p].got.refresh

Safe == Exclusive /\ Minted /\ Fresh /\ LoginSurvives /\ ReplayedOnlyAcrossClients
IInv == TypeOK /\ Safe

-----------------------------------------------------------------------------
(* Types *)

CallRecords == [pc : {"idle", "asking", "saving", "sent", "rejected", "retry"},
                tok : Tokens, bad : Tokens, old : Tokens, got : Creds, forced : BOOLEAN]
CacheRecords == [access : Tokens, exp : Nat, forcedAt : -Window..MaxTime, forced : Tokens]

LEMMA Constants ==
    /\ 0 \in Tokens /\ 1 \in Tokens /\ NoCreds \in Creds /\ Idle \in CallRecords
    /\ NoCache \in CacheRecords
    /\ \A p \in Callers : ClientOf[p] \in Clients
BY OAuthAssumption DEF Tokens, NoCreds, Creds, Idle, CallRecords, NoCache, CacheRecords

LEMMA InitTyped == Init => TypeOK
<1> SUFFICES ASSUME Init PROVE TypeOK
  OBVIOUS
<1>1. file \in Creds /\ file.refresh \in Tokens
  BY Constants, OAuthAssumption DEF Init, Creds, NoCreds
<1>2. cache \in [Clients -> CacheRecords] /\ call \in [Callers -> CallRecords]
  BY Constants DEF Init
<1>3. /\ vendor \in {"anthropic", "chatgpt"} /\ now \in 0..MaxTime
      /\ lock \in [Clients -> Holders] /\ polling \in {"none"} \cup Clients
      /\ live \subseteq Tokens /\ lost \subseteq Tokens
      /\ grants \in Tokens /\ spentBy \in [Tokens -> Clients \cup {"none"}]
  BY <1>1, Constants, OAuthAssumption DEF Init, Holders
<1> QED BY <1>1, <1>2, <1>3 DEF TypeOK, CallRecords, CacheRecords

LEMMA CallTyped ==
    ASSUME TypeOK, NEW p \in Callers
    PROVE  /\ Finished(p) \in [Callers -> CallRecords]
           /\ Retrying(p) \in [Callers -> CallRecords]
           /\ \A t \in Tokens : Sending(p, t) \in [Callers -> CallRecords]
           /\ \A t \in Tokens, forced \in BOOLEAN : Asking(p, t, forced) \in [Callers -> CallRecords]
           /\ call[p] \in CallRecords /\ call \in [Callers -> CallRecords]
<1>1. call \in [Callers -> CallRecords] /\ call[p] \in CallRecords
  BY DEF TypeOK, CallRecords
<1>2. Finished(p) \in [Callers -> CallRecords]
  BY <1>1, Constants DEF Finished
<1>3. Retrying(p) \in [Callers -> CallRecords]
  <2>1. [Idle EXCEPT !.pc = "retry", !.bad = call[p].bad] \in CallRecords
    BY <1>1, Constants DEF Idle, CallRecords
  <2> QED BY <1>1, <2>1 DEF Retrying
<1>4. ASSUME NEW t \in Tokens PROVE Sending(p, t) \in [Callers -> CallRecords]
  BY <1>1, Constants DEF Sending, CallRecords
<1>5. ASSUME NEW t \in Tokens, NEW forced \in BOOLEAN
      PROVE  Asking(p, t, forced) \in [Callers -> CallRecords]
  BY <1>1, Constants DEF Asking, CallRecords
<1> QED BY <1>1, <1>2, <1>3, <1>4, <1>5

\* One field at a time, as nested EXCEPTs are beyond the SMT backend.
LEMMA FieldTyped ==
    ASSUME NEW f \in [Callers -> CallRecords], NEW p \in Callers
    PROVE  /\ \A pc \in {"saving", "rejected"} :
                [f EXCEPT ![p].pc = pc] \in [Callers -> CallRecords]
           /\ \A t \in Tokens : /\ [f EXCEPT ![p].bad = t] \in [Callers -> CallRecords]
                                /\ [f EXCEPT ![p].tok = t] \in [Callers -> CallRecords]
           /\ \A creds \in Creds : [f EXCEPT ![p].got = creds] \in [Callers -> CallRecords]
BY DEF CallRecords

LEMMA PopulatedTyped ==
    ASSUME TypeOK, NEW c \in Clients, NEW creds \in Creds
    PROVE  Populated(c, creds) \in [Clients -> CacheRecords]
<1>1. cache \in [Clients -> CacheRecords] /\ creds.access \in Tokens /\ creds.exp \in Nat
  BY DEF TypeOK, CacheRecords, Creds
<1> QED BY <1>1 DEF Populated, CacheRecords

LEMMA ReleasedTyped ==
    ASSUME TypeOK
    PROVE  /\ \A c \in Clients, h \in Holders : [lock EXCEPT ![c] = h] \in [Clients -> Holders]
           /\ "none" \in Holders /\ "login" \in Holders /\ \A p \in Callers : p \in Holders
BY DEF TypeOK, Holders

LEMMA GrantTyped ==
    ASSUME TypeOK, grants < MaxGrants
    PROVE  grants + 1 \in Tokens /\ grants + 1 > 0
BY OAuthAssumption DEF TypeOK, Tokens

LEMMA AnswerTyped ==
    ASSUME TypeOK, grants < MaxGrants, NEW answer \in RefreshAnswers, NEW old \in Tokens
    PROVE  /\ Granted(old, answer) \in Creds
           /\ answer.refresh = IF rotates THEN grants + 1 ELSE 0
<1>1. answer.access \in Tokens /\ answer.refresh \in Tokens /\ answer.life \in Nat
  BY GrantTyped, Constants, OAuthAssumption DEF RefreshAnswers
<1>2. ExpiryFrom(answer.life) \in Nat
  BY <1>1, OAuthAssumption DEF ExpiryFrom, TypeOK
<1> QED BY <1>1, <1>2 DEF Granted, Kept, Creds, RefreshAnswers

LEMMA SpendTyped ==
    ASSUME TypeOK, NEW p \in Callers, NEW answer, answer.refresh \in Tokens, Spend(p, answer)
    PROVE  /\ live' \subseteq Tokens /\ grants' \in Tokens
           /\ spentBy' \in [Tokens -> Clients \cup {"none"}]
BY GrantTyped, Constants, CallTyped DEF Spend, TypeOK, CallRecords

(* Everything but the calls, the caches and the locks of the authenticators is *)
(* as it was.                                                                  *)
Aside == UNCHANGED <<fixed, now, file, polling, upstream>>

LEMMA AsideTyped ==
    ASSUME TypeOK, Aside, call' \in [Callers -> CallRecords],
           cache' \in [Clients -> CacheRecords], lock' \in [Clients -> Holders]
    PROVE  TypeOK'
BY DEF TypeOK, Aside, fixed, upstream, CallRecords, CacheRecords, Holders

LEMMA UnchangedTyped ==
    ASSUME TypeOK
    PROVE  cache \in [Clients -> CacheRecords] /\ lock \in [Clients -> Holders]
BY DEF TypeOK, CacheRecords

LEMMA GetTokenTyped ==
    ASSUME TypeOK, NEW p \in Callers, GetToken(p)
    PROVE  TypeOK'
<1> DEFINE c == ClientOf[p]
<1>0. c \in Clients /\ file \in Creds /\ file.access \in Tokens /\ file.refresh \in Tokens
  BY Constants DEF TypeOK, Creds
<1>1. CASE UseCached(p)
  <2>1. cache[c].access \in Tokens
    BY <1>0 DEF TypeOK
  <2>2. call' \in [Callers -> CallRecords] /\ UNCHANGED <<cache, lock>> /\ Aside
    BY <1>1, <2>1, CallTyped DEF UseCached, Aside
  <2> QED BY <2>2, AsideTyped, UnchangedTyped
<1>2. CASE AdoptFile(p)
  <2>1. /\ call' \in [Callers -> CallRecords] /\ cache' \in [Clients -> CacheRecords]
        /\ UNCHANGED lock /\ Aside
    BY <1>0, <1>2, CallTyped, PopulatedTyped DEF AdoptFile, Aside
  <2> QED BY <2>1, AsideTyped, UnchangedTyped
<1>3. CASE BeginRefresh(p)
  <2>1. /\ call' \in [Callers -> CallRecords] /\ lock' \in [Clients -> Holders]
        /\ UNCHANGED cache /\ Aside
    BY <1>0, <1>3, CallTyped, ReleasedTyped DEF BeginRefresh, Aside
  <2> QED BY <2>1, AsideTyped, UnchangedTyped
<1>4. CASE LoginRequired(p)
  <2>1. call' \in [Callers -> CallRecords] /\ UNCHANGED <<cache, lock>> /\ Aside
    BY <1>4, CallTyped DEF LoginRequired, Aside
  <2> QED BY <2>1, AsideTyped, UnchangedTyped
<1> QED BY <1>1, <1>2, <1>3, <1>4 DEF GetToken

LEMMA ForceTyped ==
    ASSUME TypeOK, NEW p \in Callers, ForceRefresh(p)
    PROVE  TypeOK'
<1>0. ClientOf[p] \in Clients /\ file.refresh \in Tokens
  BY Constants DEF TypeOK, Creds
<1>1. CASE ForceCoalesced(p)
  <2>1. call' = Retrying(p) /\ UNCHANGED <<fixed, now, file, cache, lock, polling, upstream>>
    BY <1>1 DEF ForceCoalesced
  <2>2. Retrying(p) \in [Callers -> CallRecords]
    BY CallTyped
  <2>3. call' \in [Callers -> CallRecords]
    BY <2>1, <2>2
  <2>4. UNCHANGED <<cache, lock>> /\ Aside
    BY <2>1 DEF Aside
  <2> QED BY <2>3, <2>4, AsideTyped, UnchangedTyped
<1>2. CASE ForceBegins(p)
  <2>1. call' \in [Callers -> CallRecords]
    <3>1. /\ Finished(p) \in [Callers -> CallRecords]
          /\ \A forced \in BOOLEAN : Asking(p, file.refresh, forced) \in [Callers -> CallRecords]
      BY <1>0, CallTyped
    <3>2. call' = Finished(p) \/ call' = Asking(p, file.refresh, TRUE)
      BY <1>2 DEF ForceBegins
    <3> QED BY <3>1, <3>2
  <2>2. lock' \in [Clients -> Holders]
    BY <1>0, <1>2, ReleasedTyped, UnchangedTyped DEF ForceBegins
  <2>3. UNCHANGED cache /\ Aside
    BY <1>2 DEF ForceBegins, Aside
  <2> QED BY <2>1, <2>2, <2>3, AsideTyped, UnchangedTyped
<1> QED BY <1>1, <1>2 DEF ForceRefresh

LEMMA ExchangeTyped ==
    ASSUME TypeOK, NEW p \in Callers, Exchange(p)
    PROVE  TypeOK'
<1>0. ClientOf[p] \in Clients /\ call[p] \in CallRecords /\ call[p].old \in Tokens
  BY Constants, CallTyped DEF CallRecords
<1>1. CASE Answered(p)
  <2>1. PICK answer \in RefreshAnswers :
          /\ Spend(p, answer)
          /\ call' = [call EXCEPT ![p].pc = "saving", ![p].got = Granted(call[p].old, answer)]
    BY <1>1 DEF Answered
  <2>2. Granted(call[p].old, answer) \in Creds /\ answer.refresh \in Tokens
    BY <1>0, <2>1, AnswerTyped, GrantTyped, Constants DEF Spend
  <2>3. call' \in [Callers -> CallRecords]
    <3> DEFINE asked == [call EXCEPT ![p].pc = "saving"]
    <3>1. asked \in [Callers -> CallRecords]
      BY CallTyped, FieldTyped
    <3>2. call' = [asked EXCEPT ![p].got = Granted(call[p].old, answer)]
      BY <2>1, <1>0, CallTyped
    <3> HIDE DEF asked
    <3> QED BY <2>2, <3>1, <3>2, FieldTyped
  <2>4. /\ live' \subseteq Tokens /\ grants' \in Tokens
        /\ spentBy' \in [Tokens -> Clients \cup {"none"}]
    BY <2>1, <2>2, SpendTyped
  <2>5. UNCHANGED <<fixed, now, file, cache, lock, polling, lost>>
    BY <1>1 DEF Answered
  <2> QED BY <2>3, <2>4, <2>5 DEF TypeOK, fixed, CallRecords, Holders
<1>2. CASE AnswerLost(p)
  <2> DEFINE answer == [access |-> grants + 1, refresh |-> grants + 1]
  <2>1. Spend(p, answer) /\ answer.refresh \in Tokens
    BY <1>2, GrantTyped DEF AnswerLost, Spend
  <2>2. /\ live' \subseteq Tokens /\ grants' \in Tokens
        /\ spentBy' \in [Tokens -> Clients \cup {"none"}]
    BY <2>1, SpendTyped
  <2>3. call' \in [Callers -> CallRecords] /\ lock' \in [Clients -> Holders]
    BY <1>0, <1>2, CallTyped, ReleasedTyped DEF AnswerLost
  <2>4. lost' \subseteq Tokens
    BY <1>0, <1>2 DEF AnswerLost, TypeOK
  <2>5. UNCHANGED <<fixed, now, file, cache, polling>>
    BY <1>2 DEF AnswerLost
  <2> QED BY <2>2, <2>3, <2>4, <2>5 DEF TypeOK, fixed, CallRecords, Holders
<1>3. CASE Refused(p)
  <2>1. /\ call' \in [Callers -> CallRecords] /\ lock' \in [Clients -> Holders]
        /\ UNCHANGED cache /\ Aside
    BY <1>0, <1>3, CallTyped, ReleasedTyped DEF Refused, Aside
  <2> QED BY <2>1, AsideTyped, UnchangedTyped
<1> QED BY <1>1, <1>2, <1>3 DEF Exchange

LEMMA UnsavedTyped ==
    ASSUME TypeOK, NEW p \in Callers
    PROVE  Unsaved(p) \subseteq Tokens
BY CallTyped DEF Unsaved, CallRecords

LEMMA PersistTyped ==
    ASSUME TypeOK, NEW p \in Callers, Persist(p)
    PROVE  TypeOK'
<1> DEFINE c == ClientOf[p]
           creds == call[p].got
<1>0. c \in Clients /\ creds \in Creds /\ creds.access \in Tokens /\ now \in 0..MaxTime
  BY Constants, CallTyped DEF CallRecords, Creds, TypeOK
<1>1. CASE Saved(p)
  <2>1. cache' \in [Clients -> CacheRecords]
    <3>1. Populated(c, creds) \in [Clients -> CacheRecords]
      BY <1>0, PopulatedTyped
    <3>2. now \in -Window..MaxTime
      BY <1>0, OAuthAssumption
    <3>3. [Populated(c, creds) EXCEPT ![c].forcedAt = now, ![c].forced = creds.access]
            \in [Clients -> CacheRecords]
      BY <1>0, <3>1, <3>2 DEF CacheRecords
    <3> QED BY <1>1, <3>1, <3>3 DEF Saved
  <2>2. call' \in [Callers -> CallRecords] /\ lock' \in [Clients -> Holders]
    BY <1>0, <1>1, CallTyped, ReleasedTyped DEF Saved
  <2>3. file' \in Creds /\ UNCHANGED <<fixed, now, polling, upstream>>
    BY <1>0, <1>1 DEF Saved
  <2> QED BY <2>1, <2>2, <2>3 DEF TypeOK, fixed, upstream, CallRecords, CacheRecords, Holders
<1>2. CASE SaveFails(p)
  <2>1. call' \in [Callers -> CallRecords] /\ lock' \in [Clients -> Holders]
    BY <1>0, <1>2, CallTyped, ReleasedTyped DEF SaveFails
  <2>2. lost' \subseteq Tokens
    BY <1>2, UnsavedTyped DEF SaveFails, TypeOK
  <2>3. UNCHANGED <<fixed, now, file, cache, polling, live, grants, spentBy>>
    BY <1>2 DEF SaveFails
  <2> QED BY <2>1, <2>2, <2>3 DEF TypeOK, fixed, CallRecords, Holders
<1> QED BY <1>1, <1>2 DEF Persist

LEMMA ReplyTyped ==
    ASSUME TypeOK, NEW p \in Callers, Reply(p)
    PROVE  TypeOK'
<1>1. CASE Accepted(p) \/ RejectedForGood(p) \/ ProbeRejected(p)
  <2>1. call' \in [Callers -> CallRecords] /\ UNCHANGED <<cache, lock>> /\ Aside
    BY <1>1, CallTyped DEF Accepted, RejectedForGood, ProbeRejected, Aside
  <2> QED BY <2>1, AsideTyped, UnchangedTyped
<1>2. CASE Rejected(p)
  <2>1. call' \in [Callers -> CallRecords]
    <3> DEFINE refused == [call EXCEPT ![p].pc = "rejected"]
               marked == [refused EXCEPT ![p].bad = call[p].tok]
    <3>1. refused \in [Callers -> CallRecords] /\ call[p].tok \in Tokens
      BY CallTyped, FieldTyped DEF CallRecords
    <3>2. call' = [marked EXCEPT ![p].tok = 0]
      BY <1>2, CallTyped DEF Rejected
    <3> HIDE DEF refused
    <3>3. marked \in [Callers -> CallRecords]
      BY <3>1, FieldTyped
    <3> HIDE DEF marked
    <3> QED BY <3>2, <3>3, FieldTyped, Constants
  <2>2. UNCHANGED <<cache, lock>> /\ Aside
    BY <1>2 DEF Rejected, Aside
  <2> QED BY <2>1, <2>2, AsideTyped, UnchangedTyped
<1> QED BY <1>1, <1>2 DEF Reply

LEMMA LoginWritesTyped ==
    ASSUME TypeOK, NEW life \in Lifetimes, LoginWrites(life),
           polling' \in {"none"} \cup Clients, lock' \in [Clients -> Holders]
    PROVE  TypeOK'
<1>1. grants + 1 \in Tokens /\ ExpiryFrom(life) \in Nat
  BY GrantTyped, OAuthAssumption DEF LoginWrites, ExpiryFrom, TypeOK
<1>2. file' \in Creds /\ grants' \in Tokens /\ live' \subseteq Tokens
  BY <1>1 DEF LoginWrites, Creds, TypeOK
<1>3. UNCHANGED <<fixed, now, cache, call, spentBy, lost>>
  BY DEF LoginWrites
<1> QED BY <1>2, <1>3 DEF TypeOK, fixed

LEMMA LoginsTyped ==
    ASSUME TypeOK, (\E c \in Clients : PollStarts(c)) \/ PollEnds \/ CommandWrites
    PROVE  TypeOK'
<1>0. polling # "none" => polling \in Clients
  BY DEF TypeOK
<1>1. CASE \E c \in Clients : PollStarts(c)
  <2>1. PICK c \in Clients : PollStarts(c)
    BY <1>1
  <2>2. polling' \in {"none"} \cup Clients /\ lock' \in [Clients -> Holders]
    BY <2>1, ReleasedTyped DEF PollStarts
  <2>3. UNCHANGED <<fixed, now, file, cache, call, upstream>>
    BY <2>1 DEF PollStarts
  <2> QED BY <2>2, <2>3 DEF TypeOK, fixed, upstream
<1>2. CASE PollApproved
  <2>1. PICK life \in Lifetimes : polling # "none" /\ LoginWrites(life) /\ polling' = "none" /\ Released
    BY <1>2 DEF PollApproved
  <2>2. polling' \in {"none"} \cup Clients /\ lock' \in [Clients -> Holders]
    BY <1>0, <2>1, ReleasedTyped DEF Released
  <2> QED BY <2>1, <2>2, LoginWritesTyped
<1>3. CASE PollFails
  <2>1. polling' \in {"none"} \cup Clients /\ lock' \in [Clients -> Holders]
    BY <1>0, <1>3, ReleasedTyped DEF PollFails, Released
  <2>2. UNCHANGED <<fixed, now, file, cache, call, upstream>>
    BY <1>3 DEF PollFails
  <2> QED BY <2>1, <2>2 DEF TypeOK, fixed, upstream
<1>4. CASE CommandWrites
  <2>1. PICK life \in Lifetimes : LoginWrites(life) /\ UNCHANGED <<polling, lock>>
    BY <1>4 DEF CommandWrites
  <2>2. polling' \in {"none"} \cup Clients /\ lock' \in [Clients -> Holders]
    BY <2>1 DEF TypeOK
  <2> QED BY <2>1, <2>2, LoginWritesTyped
<1> QED BY <1>1, <1>2, <1>3, <1>4 DEF PollEnds

LEMMA TickTyped ==
    ASSUME TypeOK, Tick
    PROVE  TypeOK'
<1>1. now' \in 0..MaxTime /\ UNCHANGED <<fixed, file, cache, lock, polling, call, upstream>>
  BY OAuthAssumption DEF Tick, TypeOK
<1> QED BY <1>1 DEF TypeOK, fixed, upstream

LEMMA RestartTyped ==
    ASSUME TypeOK, Restart
    PROVE  TypeOK'
<1>1. cache' \in [Clients -> CacheRecords] /\ call' \in [Callers -> CallRecords]
  BY Constants DEF Restart
<1>2. lock' \in [Clients -> Holders] /\ polling' \in {"none"} \cup Clients
  BY DEF Restart, Holders
<1>3. lost' \subseteq Tokens
  BY UnsavedTyped DEF Restart, TypeOK
<1>4. UNCHANGED <<fixed, now, file, live, grants, spentBy>>
  BY DEF Restart
<1> QED BY <1>1, <1>2, <1>3, <1>4 DEF TypeOK, fixed, CallRecords, CacheRecords

LEMMA StepTyped == TypeOK /\ [Next]_vars => TypeOK'
<1> SUFFICES ASSUME TypeOK, [Next]_vars PROVE TypeOK'
  OBVIOUS
<1>1. CASE UNCHANGED vars
  BY <1>1 DEF TypeOK, vars
<1>2. CASE \E p \in Callers : GetToken(p) \/ ForceRefresh(p) \/ Exchange(p) \/ Persist(p) \/ Reply(p)
  BY <1>2, GetTokenTyped, ForceTyped, ExchangeTyped, PersistTyped, ReplyTyped
<1>3. CASE (\E c \in Clients : PollStarts(c)) \/ PollEnds \/ CommandWrites
  BY <1>3, LoginsTyped
<1>4. CASE Tick
  BY <1>4, TickTyped
<1>5. CASE Restart
  BY <1>5, RestartTyped
<1> QED BY <1>1, <1>2, <1>3, <1>4, <1>5 DEF Next

(* The type invariant, for every number of authenticators, requests and grants. *)
THEOREM TypeCorrect == Spec => []TypeOK
<1>1. Init => TypeOK
  BY InitTyped
<1>2. TypeOK /\ [Next]_vars => TypeOK'
  BY StepTyped
<1> QED BY <1>1, <1>2, PTL DEF Spec

-----------------------------------------------------------------------------
(* What a step does to the calls *)

Others(p) == \A q \in Callers \ {p} : call'[q] = call[q]

\* The call of p is not at the token endpoint after the step.
Rests(p) ==
    /\ Others(p)
    /\ call'[p].pc \notin {"asking", "saving"}
    /\ call'[p].old \in {0, call[p].old}
    /\ call'[p].got.refresh \in {0, call[p].got.refresh}

\* A step of p that no other call and no refresh token notices.
Quiet(p) ==
    /\ Rests(p) /\ ~Saving(p)
    /\ UNCHANGED <<rotates, file, polling, upstream>>
    /\ \/ UNCHANGED lock
       \/ Busy(p) /\ lock' = [lock EXCEPT ![ClientOf[p]] = "none"]

\* A refresh begins under the lock, with the token of the file.
Begins(p) ==
    /\ Others(p) /\ ~Busy(p)
    /\ file.refresh # 0 /\ lock[ClientOf[p]] = "none"
    /\ call'[p].pc = "asking" /\ call'[p].old = file.refresh /\ call'[p].got = call[p].got
    /\ lock' = [lock EXCEPT ![ClientOf[p]] = p]
    /\ UNCHANGED <<rotates, file, polling, upstream>>

LEMMA CallEffects ==
    ASSUME TypeOK, NEW p \in Callers
    PROVE  /\ call' = Finished(p) => Rests(p)
           /\ call' = Retrying(p) => Rests(p)
           /\ \A t \in Tokens : call' = Sending(p, t) => Rests(p)
           /\ \A t \in Tokens, forced \in BOOLEAN : call' = Asking(p, t, forced) =>
                /\ Others(p)
                /\ call'[p].pc = "asking" /\ call'[p].old = t /\ call'[p].got = call[p].got
<1>1. call \in [Callers -> CallRecords] /\ call[p] \in CallRecords
  BY CallTyped
<1>2. call' = Finished(p) => Rests(p)
  BY <1>1 DEF Finished, Rests, Others, Idle, NoCreds, CallRecords
<1>3. call' = Retrying(p) => Rests(p)
  BY <1>1 DEF Retrying, Rests, Others, Idle, NoCreds, CallRecords
<1>4. ASSUME NEW t \in Tokens, call' = Sending(p, t) PROVE Rests(p)
  BY <1>1, <1>4 DEF Sending, Rests, Others, NoCreds, CallRecords
<1>5. ASSUME NEW t \in Tokens, NEW forced \in BOOLEAN, call' = Asking(p, t, forced)
      PROVE  /\ Others(p)
             /\ call'[p].pc = "asking" /\ call'[p].old = t /\ call'[p].got = call[p].got
  BY <1>1, <1>5 DEF Asking, Others, CallRecords
<1> QED BY <1>2, <1>3, <1>4, <1>5

LEMMA RequestEffects ==
    ASSUME TypeOK, NEW p \in Callers,
           GetToken(p) \/ ForceRefresh(p) \/ Reply(p) \/ Refused(p)
    PROVE  Quiet(p) \/ Begins(p)
<1>0. ClientOf[p] \in Clients /\ file.access \in Tokens /\ file.refresh \in Tokens
  BY Constants DEF TypeOK, Creds
<1>1. CASE UseCached(p)
  <2>1. cache[ClientOf[p]].access \in Tokens
    BY <1>0 DEF TypeOK
  <2> QED BY <1>1, <2>1, CallEffects DEF UseCached, Quiet, Saving, fixed
<1>2. CASE AdoptFile(p)
  BY <1>0, <1>2, CallEffects DEF AdoptFile, Quiet, Saving, fixed
<1>3. CASE BeginRefresh(p)
  BY <1>0, <1>3, CallEffects DEF BeginRefresh, Begins, Busy, fixed
<1>4. CASE LoginRequired(p) \/ ForceCoalesced(p) \/ Accepted(p) \/ RejectedForGood(p)
           \/ ProbeRejected(p)
  BY <1>4, CallEffects
  DEF LoginRequired, ForceCoalesced, Accepted, RejectedForGood, ProbeRejected, Quiet, Saving, fixed
<1>5. CASE ForceBegins(p) /\ file.refresh = 0
  BY <1>5, CallEffects DEF ForceBegins, Quiet, Saving, fixed
<1>6. CASE ForceBegins(p) /\ file.refresh # 0
  BY <1>0, <1>6, CallEffects DEF ForceBegins, Begins, Busy, fixed
<1>7. CASE Rejected(p)
  <2>1. call \in [Callers -> CallRecords]
    BY CallTyped
  <2>2. call'[p].pc = "rejected" /\ call'[p].old = call[p].old /\ call'[p].got = call[p].got
        /\ Others(p)
    BY <1>7, <2>1 DEF Rejected, CallRecords, Others
  <2> QED BY <1>7, <2>2 DEF Rejected, Quiet, Rests, Saving, fixed
<1>8. CASE Refused(p)
  BY <1>8, CallEffects DEF Refused, Quiet, Saving, Busy, fixed
<1> QED BY <1>1, <1>2, <1>3, <1>4, <1>5, <1>6, <1>7, <1>8 DEF GetToken, ForceRefresh, Reply

-----------------------------------------------------------------------------
(* The invariant *)

LEMMA Numbers ==
    ASSUME TypeOK
    PROVE  /\ grants \in Nat /\ live \subseteq Nat /\ file.refresh \in Nat
           /\ \A p \in Callers : /\ call[p].old \in Nat /\ call[p].got.refresh \in Nat
                                /\ call[p].old \in Tokens
                                /\ ClientOf[p] \in Clients
<1>1. Tokens \subseteq Nat
  BY OAuthAssumption DEF Tokens
<1>2. grants \in Tokens /\ live \subseteq Tokens /\ file.refresh \in Tokens
  BY DEF TypeOK, Creds
<1>3. ASSUME NEW p \in Callers
      PROVE  call[p].old \in Tokens /\ call[p].got.refresh \in Tokens /\ ClientOf[p] \in Clients
  BY CallTyped, Constants DEF CallRecords, Creds
<1> QED BY <1>1, <1>2, <1>3

LEMMA InitSafe == Init => Safe
<1> SUFFICES ASSUME Init PROVE Safe
  OBVIOUS
<1>0. \A p \in Callers : call[p].pc = "idle" /\ call[p].old = 0 /\ call[p].got.refresh = 0
  BY DEF Init, Idle, NoCreds
<1>1. file = NoCreds \/ file.refresh = 1
  BY DEF Init
<1>2. file.refresh \in {0, 1} /\ live = {file.refresh} \ {0} /\ grants = 1
  BY <1>1 DEF Init, NoCreds
<1>3. Exclusive
  BY <1>0 DEF Init, Exclusive, Busy
<1>4. Minted /\ Fresh
  BY <1>0, <1>2 DEF Minted, Fresh, Saving
<1>5. LoginSurvives
  BY <1>1, <1>2 DEF LoginSurvives
<1>6. ReplayedOnlyAcrossClients
  BY <1>0 DEF ReplayedOnlyAcrossClients
<1> QED BY <1>3, <1>4, <1>5, <1>6 DEF Safe

LEMMA QuietSafe ==
    ASSUME IInv, NEW p \in Callers, Quiet(p)
    PROVE  Safe'
<1>0. TypeOK /\ Safe
  BY DEF IInv
<1>1. UNCHANGED <<rotates, file, polling, live, grants, spentBy, lost>>
  BY DEF Quiet, upstream
<1>2. \A q \in Callers \ {p} : call'[q] = call[q]
  BY DEF Quiet, Rests, Others
<1>3. ~Saving(p) /\ call'[p].pc \notin {"asking", "saving"}
  BY DEF Quiet, Rests
<1>4. Exclusive'
  <2>1. ASSUME NEW q \in Callers \ {p}, call[q].pc \in {"asking", "saving"}
        PROVE  lock'[ClientOf[q]] = q
    <3>1. lock[ClientOf[q]] = q /\ (Busy(p) => lock[ClientOf[p]] = p)
      BY <1>0, <2>1 DEF Safe, Exclusive, Busy
    <3>2. lock \in [Clients -> Holders]
      BY <1>0 DEF TypeOK
    <3> QED BY <3>1, <3>2, Numbers, <1>0 DEF Quiet
  <2>2. ASSUME polling # "none" PROVE lock'[polling] = "login"
    <3>1. lock[polling] = "login" /\ polling \in Clients /\ (Busy(p) => lock[ClientOf[p]] = p)
      BY <1>0, <2>2 DEF Safe, Exclusive, TypeOK
    <3>2. lock \in [Clients -> Holders] /\ p # "login"
      BY <1>0, OAuthAssumption DEF TypeOK
    <3> QED BY <3>1, <3>2, Numbers, <1>0 DEF Quiet
  <2> QED BY <1>1, <1>2, <1>3, <2>1, <2>2 DEF Exclusive, Busy
<1>5. Minted'
  <2>1. call'[p].old <= grants /\ call'[p].got.refresh <= grants
    BY <1>0, Numbers DEF Quiet, Rests, Safe, Minted
  <2> QED BY <1>0, <1>1, <1>2, <2>1 DEF Safe, Minted
<1>6. Fresh'
  BY <1>0, <1>1, <1>2, <1>3 DEF Safe, Fresh, Saving, Busy
<1>7. LoginSurvives'
  BY <1>0, <1>1, <1>2, <1>3 DEF Safe, LoginSurvives, Saving
<1>8. ReplayedOnlyAcrossClients'
  BY <1>0, <1>1, <1>2, <1>3 DEF Safe, ReplayedOnlyAcrossClients
<1> QED BY <1>4, <1>5, <1>6, <1>7, <1>8 DEF Safe

LEMMA BeginsSafe ==
    ASSUME IInv, NEW p \in Callers, Begins(p)
    PROVE  Safe'
<1>0. TypeOK /\ Safe
  BY DEF IInv
<1>1. UNCHANGED <<rotates, file, polling, live, grants, spentBy, lost>>
  BY DEF Begins, upstream
<1>2. \A q \in Callers \ {p} : call'[q] = call[q]
  BY DEF Begins, Others
<1>3. /\ call[p].pc \notin {"asking", "saving"} /\ call'[p].pc = "asking"
      /\ call'[p].old = file.refresh /\ call'[p].got = call[p].got
  BY DEF Begins, Busy
<1>4. /\ lock \in [Clients -> Holders] /\ ClientOf[p] \in Clients
      /\ lock[ClientOf[p]] = "none" /\ lock' = [lock EXCEPT ![ClientOf[p]] = p]
  BY <1>0, Numbers DEF TypeOK, Begins
<1>5. Exclusive'
  <2>1. ASSUME NEW q \in Callers \ {p}, call[q].pc \in {"asking", "saving"}
        PROVE  lock'[ClientOf[q]] = q
    <3>1. lock[ClientOf[q]] = q /\ q # "none"
      BY <1>0, <2>1, OAuthAssumption DEF Safe, Exclusive, Busy
    <3> QED BY <1>0, <1>4, <3>1, Numbers
  <2>2. ASSUME polling # "none" PROVE lock'[polling] = "login"
    <3>1. lock[polling] = "login" /\ polling \in Clients
      BY <1>0, <2>2 DEF Safe, Exclusive, TypeOK
    <3> QED BY <1>4, <3>1
  <2>3. lock'[ClientOf[p]] = p
    BY <1>4
  <2> QED BY <1>1, <1>2, <2>1, <2>2, <2>3 DEF Exclusive, Busy
<1>6. Minted'
  BY <1>0, <1>1, <1>2, <1>3 DEF Safe, Minted
<1>7. Fresh'
  <2> SUFFICES ASSUME NEW q \in Callers, call'[q].pc = "saving"
               PROVE  /\ call'[q].got.refresh \in live'
                      /\ ~rotates' => call'[q].got.refresh = call'[q].old
                      /\ rotates' =>
                           /\ call'[q].old \notin live' /\ spentBy'[call'[q].old] = ClientOf[q]
                           /\ file'.refresh # call'[q].got.refresh
                           /\ \A r \in Callers : call'[r].pc \in {"asking", "saving"} =>
                                /\ call'[r].old # call'[q].got.refresh
                                /\ r # q /\ call'[r].pc = "saving" =>
                                     call'[r].got.refresh # call'[q].got.refresh
    BY DEF Fresh, Saving, Busy
  <2>1. q # p /\ call'[q] = call[q] /\ call[q].pc = "saving"
    BY <1>2, <1>3
  <2>2. /\ call[q].got.refresh \in live
        /\ ~rotates => call[q].got.refresh = call[q].old
        /\ rotates =>
             /\ call[q].old \notin live /\ spentBy[call[q].old] = ClientOf[q]
             /\ file.refresh # call[q].got.refresh
             /\ \A r \in Callers : call[r].pc \in {"asking", "saving"} =>
                  /\ call[r].old # call[q].got.refresh
                  /\ r # q /\ call[r].pc = "saving" => call[r].got.refresh # call[q].got.refresh
    BY <1>0, <2>1 DEF Safe, Fresh, Saving, Busy
  <2> QED BY <1>1, <1>2, <1>3, <2>1, <2>2
<1>8. LoginSurvives'
  BY <1>0, <1>1, <1>2, <1>3 DEF Safe, LoginSurvives
<1>9. ReplayedOnlyAcrossClients'
  <2>1. ASSUME file.refresh \notin live \cup lost
        PROVE  spentBy[file.refresh] # ClientOf[p]
    <3>1. file # NoCreds
      BY DEF Begins, NoCreds
    <3>2. PICK q \in Callers : call[q].pc = "saving" /\ call[q].old = file.refresh
      BY <1>0, <2>1, <3>1 DEF Safe, LoginSurvives
    <3>3. spentBy[file.refresh] = ClientOf[q]
      BY <1>0, <2>1, <3>2 DEF Safe, Fresh, Saving
    <3>4. lock[ClientOf[q]] = q /\ q # "none"
      BY <1>0, <3>2, OAuthAssumption DEF Safe, Exclusive, Busy
    <3> QED BY <1>4, <3>3, <3>4
  <2>2. \A q \in Callers \ {p} : call[q].pc = "asking" /\ call[q].old \notin live \cup lost
                                   => spentBy[call[q].old] # ClientOf[q]
    BY <1>0 DEF Safe, ReplayedOnlyAcrossClients
  <2> QED BY <1>1, <1>2, <1>3, <2>1, <2>2 DEF ReplayedOnlyAcrossClients
<1> QED BY <1>5, <1>6, <1>7, <1>8, <1>9 DEF Safe

\* The upstream spends the refresh token of p, and grants another when it rotates.
LEMMA SpendEffects ==
    ASSUME TypeOK, NEW p \in Callers, NEW answer, Spend(p, answer),
           answer.refresh = IF rotates THEN grants + 1 ELSE 0
    PROVE  /\ grants' = grants + 1 /\ call[p].old \in live
           /\ rotates => /\ live' = (live \ {call[p].old}) \cup {grants + 1}
                         /\ spentBy' = [spentBy EXCEPT ![call[p].old] = ClientOf[p]]
           /\ ~rotates => UNCHANGED <<live, spentBy>>
BY Numbers DEF Spend

\* Another caller's token that is spent was spent by its own authenticator only
\* if it was so before: the lock lets one refresh at a time be under way in it.
LEMMA SpendReplays ==
    ASSUME IInv, NEW p \in Callers, NEW answer, Spend(p, answer), call[p].pc = "asking",
           answer.refresh = IF rotates THEN grants + 1 ELSE 0,
           NEW q \in Callers \ {p}, call[q].pc = "asking",
           call[q].old \notin live' \cup lost
    PROVE  spentBy'[call[q].old] # ClientOf[q]
<1>0. TypeOK /\ Safe
  BY DEF IInv
<1>1. /\ call[q].old \in Tokens /\ spentBy \in [Tokens -> Clients \cup {"none"}]
  BY <1>0, Numbers DEF TypeOK
<1>2. ClientOf[p] # ClientOf[q]
  BY <1>0 DEF Safe, Exclusive, Busy
<1>3. CASE call[q].old \in live
  <2>1. rotates /\ call[q].old = call[p].old
    BY <1>0, <1>3, SpendEffects
  <2>2. spentBy'[call[q].old] = ClientOf[p]
    BY <1>0, <1>1, <2>1, SpendEffects
  <2> QED BY <1>2, <2>2
<1>4. CASE call[q].old \notin live
  <2>1. spentBy[call[q].old] # ClientOf[q]
    BY <1>0, <1>4 DEF Safe, ReplayedOnlyAcrossClients
  <2>2. spentBy'[call[q].old] = spentBy[call[q].old]
    BY <1>0, <1>1, <1>4, SpendEffects
  <2> QED BY <2>1, <2>2
<1> QED BY <1>3, <1>4

\* What another caller is about to save is not touched by a spending.
LEMMA SpendFresh ==
    ASSUME IInv, NEW p \in Callers, NEW answer, Spend(p, answer), call[p].pc = "asking",
           answer.refresh = IF rotates THEN grants + 1 ELSE 0,
           NEW q \in Callers \ {p}, call[q].pc = "saving"
    PROVE  /\ call[q].got.refresh \in live'
           /\ call[q].got.refresh <= grants
           /\ ~rotates => call[q].got.refresh = call[q].old
           /\ rotates => /\ call[q].old \notin live' /\ spentBy'[call[q].old] = ClientOf[q]
                         /\ file.refresh # call[q].got.refresh
                         /\ \A r \in Callers : call[r].pc \in {"asking", "saving"} =>
                              /\ call[r].old # call[q].got.refresh
                              /\ r # q /\ call[r].pc = "saving" =>
                                   call[r].got.refresh # call[q].got.refresh
<1>0. TypeOK /\ Safe
  BY DEF IInv
<1>1. /\ call[q].got.refresh \in live
      /\ ~rotates => call[q].got.refresh = call[q].old
      /\ rotates => /\ call[q].old \notin live /\ spentBy[call[q].old] = ClientOf[q]
                    /\ file.refresh # call[q].got.refresh
                    /\ \A r \in Callers : call[r].pc \in {"asking", "saving"} =>
                         /\ call[r].old # call[q].got.refresh
                         /\ r # q /\ call[r].pc = "saving" =>
                              call[r].got.refresh # call[q].got.refresh
  BY <1>0 DEF Safe, Fresh, Saving, Busy
<1>2. call[q].old <= grants /\ call[q].got.refresh <= grants
  BY <1>0 DEF Safe, Minted
<1>3. call[q].got.refresh \in live'
  BY <1>0, <1>1, SpendEffects
<1>4. rotates => call[q].old \notin live'
  BY <1>0, <1>1, <1>2, SpendEffects, Numbers
<1>5. rotates => spentBy'[call[q].old] = ClientOf[q]
  <2>1. call[q].old \in Tokens /\ spentBy \in [Tokens -> Clients \cup {"none"}]
    BY <1>0, Numbers DEF TypeOK
  <2> QED BY <1>0, <1>1, <2>1, SpendEffects
<1> QED BY <1>1, <1>2, <1>3, <1>4, <1>5

LEMMA SpendMinted ==
    ASSUME IInv, NEW p \in Callers, NEW answer, Spend(p, answer),
           answer.refresh = IF rotates THEN grants + 1 ELSE 0
    PROVE  \A t \in live' : t <= grants'
BY SpendEffects, Numbers DEF IInv, Safe, Minted

LEMMA AnsweredSafe ==
    ASSUME IInv, NEW p \in Callers, Answered(p)
    PROVE  Safe'
<1>0. TypeOK /\ Safe /\ call[p].pc = "asking"
  BY DEF IInv, Answered
<1>1. PICK answer \in RefreshAnswers :
        /\ Spend(p, answer)
        /\ call' = [call EXCEPT ![p].pc = "saving", ![p].got = Granted(call[p].old, answer)]
  BY DEF Answered
<1>2. UNCHANGED <<rotates, file, lock, polling, lost>>
  BY DEF Answered, fixed
<1>3. answer.refresh = IF rotates THEN grants + 1 ELSE 0
  BY <1>0, <1>1, AnswerTyped, Numbers DEF Spend
<1>4. /\ \A q \in Callers \ {p} : call'[q] = call[q]
      /\ call'[p].pc = "saving" /\ call'[p].old = call[p].old
      /\ call'[p].got = Granted(call[p].old, answer)
  BY <1>0, <1>1, CallTyped DEF CallRecords
<1>5. call'[p].got.refresh = IF rotates THEN grants + 1 ELSE call[p].old
  BY <1>0, <1>3, <1>4, Numbers DEF Granted, Kept
<1>6. /\ grants' = grants + 1 /\ grants \in Nat /\ call[p].old \in live /\ call[p].old <= grants
      /\ rotates => /\ live' = (live \ {call[p].old}) \cup {grants + 1}
                    /\ spentBy' = [spentBy EXCEPT ![call[p].old] = ClientOf[p]]
      /\ ~rotates => UNCHANGED <<live, spentBy>>
  BY <1>0, <1>1, <1>3, SpendEffects, Numbers DEF Safe, Minted
<1>7. Exclusive'
  BY <1>0, <1>2, <1>4 DEF Safe, Exclusive, Busy
<1>8. Minted'
  <2>1. \A t \in live' : t <= grants'
    BY <1>1, <1>3, SpendMinted
  <2>2. \A q \in Callers : call'[q].old <= grants' /\ call'[q].got.refresh <= grants'
    BY <1>0, <1>4, <1>5, <1>6, Numbers DEF Safe, Minted
  <2>3. file'.refresh <= grants'
    BY <1>0, <1>2, <1>6, Numbers DEF Safe, Minted
  <2> QED BY <2>1, <2>2, <2>3 DEF Minted
<1>9. Fresh'
  <2> SUFFICES ASSUME NEW q \in Callers, call'[q].pc = "saving"
               PROVE  /\ call'[q].got.refresh \in live'
                      /\ ~rotates' => call'[q].got.refresh = call'[q].old
                      /\ rotates' =>
                           /\ call'[q].old \notin live' /\ spentBy'[call'[q].old] = ClientOf[q]
                           /\ file'.refresh # call'[q].got.refresh
                           /\ \A r \in Callers : call'[r].pc \in {"asking", "saving"} =>
                                /\ call'[r].old # call'[q].got.refresh
                                /\ r # q /\ call'[r].pc = "saving" =>
                                     call'[r].got.refresh # call'[q].got.refresh
    BY DEF Fresh, Saving, Busy
  <2>1. CASE q = p
    <3>1. call'[p].got.refresh \in live'
      BY <1>5, <1>6
    <3>2. ASSUME rotates PROVE call[p].old \notin live' /\ spentBy'[call[p].old] = ClientOf[p]
      <4>1. call[p].old \in Tokens /\ spentBy \in [Tokens -> Clients \cup {"none"}]
        BY <1>0, Numbers DEF TypeOK
      <4> QED BY <1>0, <1>6, <3>2, <4>1, Numbers
    <3>3. file.refresh # grants + 1
      BY <1>0, <1>6, Numbers DEF Safe, Minted
    <3>4. ~rotates => call'[p].got.refresh = call'[p].old
      BY <1>4, <1>5
    <3>5. ASSUME rotates
          PROVE  /\ call'[p].old \notin live' /\ spentBy'[call'[p].old] = ClientOf[p]
                 /\ file'.refresh # call'[p].got.refresh
      BY <1>2, <1>4, <1>5, <3>2, <3>3, <3>5
    <3>6. ASSUME rotates, NEW r \in Callers
          PROVE  /\ call'[r].old # call'[p].got.refresh
                 /\ r # p => call'[r].got.refresh # call'[p].got.refresh
      <4>1. /\ call'[p].got.refresh = grants + 1 /\ grants \in Nat
            /\ call'[r].old = call[r].old /\ (r # p => call'[r].got = call[r].got)
        BY <1>4, <1>5, <1>6, <3>6
      <4>2. call[r].old <= grants /\ call[r].got.refresh <= grants
        BY <1>0 DEF Safe, Minted
      <4> QED BY <1>0, <4>1, <4>2, Numbers
    <3> QED BY <1>2, <2>1, <3>1, <3>4, <3>5, <3>6
  <2>2. CASE q # p
    <3>1. call'[q] = call[q] /\ call[q].pc = "saving"
      BY <1>4, <2>2
    <3>2. /\ call[q].got.refresh \in live'
          /\ call[q].got.refresh <= grants
          /\ ~rotates => call[q].got.refresh = call[q].old
          /\ rotates => /\ call[q].old \notin live' /\ spentBy'[call[q].old] = ClientOf[q]
                        /\ file.refresh # call[q].got.refresh
                        /\ \A r \in Callers : call[r].pc \in {"asking", "saving"} =>
                             /\ call[r].old # call[q].got.refresh
                             /\ r # q /\ call[r].pc = "saving" =>
                                  call[r].got.refresh # call[q].got.refresh
      BY <1>0, <1>1, <1>3, <2>2, <3>1, SpendFresh
    <3>3. ASSUME rotates
          PROVE  call'[p].old # call[q].got.refresh /\ call'[p].got.refresh # call[q].got.refresh
      BY <1>0, <1>4, <1>5, <1>6, <3>2, <3>3, Numbers
    <3> QED BY <1>2, <1>4, <3>1, <3>2, <3>3
  <2> QED BY <2>1, <2>2
<1>10. LoginSurvives'
  <2>1. CASE file.refresh = call[p].old
    BY <1>2, <1>4, <2>1 DEF LoginSurvives
  <2>2. CASE file.refresh # call[p].old
    BY <1>0, <1>2, <1>4, <1>6, <2>2 DEF Safe, LoginSurvives
  <2> QED BY <2>1, <2>2
<1>11. ReplayedOnlyAcrossClients'
  <2> SUFFICES ASSUME NEW q \in Callers, call'[q].pc = "asking",
                      call'[q].old \notin live' \cup lost'
               PROVE  spentBy'[call'[q].old] # ClientOf[q]
    BY DEF ReplayedOnlyAcrossClients
  <2>1. q # p /\ call'[q] = call[q]
    BY <1>4
  <2> QED BY <1>0, <1>1, <1>2, <1>3, <2>1, SpendReplays
<1> QED BY <1>7, <1>8, <1>9, <1>10, <1>11 DEF Safe

LEMMA AnswerLostSafe ==
    ASSUME IInv, NEW p \in Callers, AnswerLost(p)
    PROVE  Safe'
<1> DEFINE answer == [access |-> grants + 1, refresh |-> grants + 1]
<1>0. TypeOK /\ Safe /\ call[p].pc = "asking" /\ rotates /\ Spend(p, answer)
  BY DEF IInv, AnswerLost
<1>1. answer.refresh = IF rotates THEN grants + 1 ELSE 0
  BY <1>0
<1>2. /\ UNCHANGED <<rotates, file, polling>> /\ lost' = lost \cup {call[p].old}
      /\ lock' = [lock EXCEPT ![ClientOf[p]] = "none"]
  BY DEF AnswerLost, fixed
<1>3. /\ \A q \in Callers \ {p} : call'[q] = call[q]
      /\ call'[p].pc \notin {"asking", "saving"}
      /\ call'[p].old \in {0, call[p].old} /\ call'[p].got.refresh \in {0, call[p].got.refresh}
  BY <1>0, CallEffects DEF AnswerLost, Rests, Others
<1> HIDE DEF answer
<1>4. grants' = grants + 1 /\ grants \in Nat /\ live' = (live \ {call[p].old}) \cup {grants + 1}
  BY <1>0, <1>1, SpendEffects, Numbers
<1>5. Exclusive'
  <2>1. /\ lock \in [Clients -> Holders] /\ lock[ClientOf[p]] = p
        /\ \A q \in Callers : ClientOf[q] \in Clients
    BY <1>0, Numbers DEF TypeOK, Safe, Exclusive, Busy
  <2>2. ASSUME NEW q \in Callers \ {p}, call[q].pc \in {"asking", "saving"}
        PROVE  lock'[ClientOf[q]] = q
    BY <1>0, <1>2, <2>1, <2>2 DEF Safe, Exclusive, Busy
  <2>3. ASSUME polling # "none" PROVE lock'[polling] = "login"
    <3>1. lock[polling] = "login" /\ p # "login"
      BY <1>0, <2>3, OAuthAssumption DEF Safe, Exclusive
    <3> QED BY <1>0, <1>2, <2>1, <2>3, <3>1 DEF TypeOK
  <2> QED BY <1>2, <1>3, <2>2, <2>3 DEF Exclusive, Busy
<1>6. Minted'
  <2>1. \A t \in live' : t <= grants'
    BY <1>0, <1>1, SpendMinted
  <2>2. \A q \in Callers : call'[q].old <= grants' /\ call'[q].got.refresh <= grants'
    BY <1>0, <1>3, <1>4, Numbers DEF Safe, Minted
  <2>3. file'.refresh <= grants'
    BY <1>0, <1>2, <1>4, Numbers DEF Safe, Minted
  <2> QED BY <2>1, <2>2, <2>3 DEF Minted
<1>7. Fresh'
  <2> SUFFICES ASSUME NEW q \in Callers, call'[q].pc = "saving"
               PROVE  /\ call'[q].got.refresh \in live'
                      /\ ~rotates' => call'[q].got.refresh = call'[q].old
                      /\ rotates' =>
                           /\ call'[q].old \notin live' /\ spentBy'[call'[q].old] = ClientOf[q]
                           /\ file'.refresh # call'[q].got.refresh
                           /\ \A r \in Callers : call'[r].pc \in {"asking", "saving"} =>
                                /\ call'[r].old # call'[q].got.refresh
                                /\ r # q /\ call'[r].pc = "saving" =>
                                     call'[r].got.refresh # call'[q].got.refresh
    BY DEF Fresh, Saving, Busy
  <2>1. q # p /\ call'[q] = call[q] /\ call[q].pc = "saving"
    BY <1>3
  <2>2. /\ call[q].got.refresh \in live'
        /\ rotates => /\ call[q].old \notin live' /\ spentBy'[call[q].old] = ClientOf[q]
                      /\ file.refresh # call[q].got.refresh
                      /\ \A r \in Callers : call[r].pc \in {"asking", "saving"} =>
                           /\ call[r].old # call[q].got.refresh
                           /\ r # q /\ call[r].pc = "saving" =>
                                call[r].got.refresh # call[q].got.refresh
    BY <1>0, <1>1, <2>1, SpendFresh
  <2> QED BY <1>0, <1>2, <1>3, <2>1, <2>2
<1>8. LoginSurvives'
  BY <1>0, <1>2, <1>3, <1>4 DEF Safe, LoginSurvives
<1>9. ReplayedOnlyAcrossClients'
  <2> SUFFICES ASSUME NEW q \in Callers, call'[q].pc = "asking",
                      call'[q].old \notin live' \cup lost'
               PROVE  spentBy'[call'[q].old] # ClientOf[q]
    BY DEF ReplayedOnlyAcrossClients
  <2>1. q # p /\ call'[q] = call[q] /\ call[q].old \notin live' \cup lost
    BY <1>2, <1>3
  <2> QED BY <1>0, <1>1, <2>1, SpendReplays
<1> QED BY <1>5, <1>6, <1>7, <1>8, <1>9 DEF Safe

\* A caller leaves the lock of its authenticator: every other keeps its own.
LEMMA LeavesExclusive ==
    ASSUME TypeOK, Exclusive, NEW p \in Callers, Busy(p), Rests(p), UNCHANGED polling,
           lock' = [lock EXCEPT ![ClientOf[p]] = "none"]
    PROVE  Exclusive'
<1>1. /\ lock \in [Clients -> Holders] /\ lock[ClientOf[p]] = p
      /\ \A q \in Callers : ClientOf[q] \in Clients
  BY Numbers DEF TypeOK, Exclusive
<1>2. ASSUME NEW q \in Callers \ {p}, call[q].pc \in {"asking", "saving"}
      PROVE  lock'[ClientOf[q]] = q
  BY <1>1, <1>2 DEF Exclusive, Busy
<1>3. ASSUME polling # "none" PROVE lock'[polling] = "login"
  <2>1. lock[polling] = "login" /\ p # "login" /\ polling \in Clients
    BY <1>3, OAuthAssumption DEF Exclusive, TypeOK
  <2> QED BY <1>1, <2>1
<1> QED BY <1>2, <1>3 DEF Exclusive, Busy, Rests, Others

LEMMA SavedSafe ==
    ASSUME IInv, NEW p \in Callers, Saved(p)
    PROVE  Safe'
<1>0. TypeOK /\ Safe /\ call[p].pc = "saving" /\ Busy(p)
  BY DEF IInv, Saved, Busy
<1>1. UNCHANGED <<rotates, polling, live, grants, spentBy, lost>> /\ file' = call[p].got
  BY DEF Saved, fixed, upstream
<1>2. Rests(p)
  <2>1. call[p].got.access \in Tokens
    BY <1>0, CallTyped DEF CallRecords, Creds
  <2> QED BY <1>0, <2>1, CallEffects DEF Saved
<1>3. /\ \A q \in Callers \ {p} : call'[q] = call[q]
      /\ call'[p].pc \notin {"asking", "saving"}
  BY <1>2 DEF Rests, Others
<1>4. Exclusive'
  BY <1>0, <1>1, <1>2, LeavesExclusive DEF Saved, Safe
<1>5. Minted'
  <2>1. call'[p].old <= grants /\ call'[p].got.refresh <= grants
    BY <1>0, <1>2, Numbers DEF Rests, Safe, Minted
  <2> QED BY <1>0, <1>1, <1>3, <2>1 DEF Safe, Minted
<1>6. Fresh'
  <2> SUFFICES ASSUME NEW q \in Callers, call'[q].pc = "saving"
               PROVE  /\ call'[q].got.refresh \in live'
                      /\ ~rotates' => call'[q].got.refresh = call'[q].old
                      /\ rotates' =>
                           /\ call'[q].old \notin live' /\ spentBy'[call'[q].old] = ClientOf[q]
                           /\ file'.refresh # call'[q].got.refresh
                           /\ \A r \in Callers : call'[r].pc \in {"asking", "saving"} =>
                                /\ call'[r].old # call'[q].got.refresh
                                /\ r # q /\ call'[r].pc = "saving" =>
                                     call'[r].got.refresh # call'[q].got.refresh
    BY DEF Fresh, Saving, Busy
  <2>1. q # p /\ call'[q] = call[q] /\ call[q].pc = "saving"
    BY <1>3
  <2>2. /\ call[q].got.refresh \in live
        /\ ~rotates => call[q].got.refresh = call[q].old
        /\ rotates =>
             /\ call[q].old \notin live /\ spentBy[call[q].old] = ClientOf[q]
             /\ call[p].got.refresh # call[q].got.refresh
             /\ \A r \in Callers : call[r].pc \in {"asking", "saving"} =>
                  /\ call[r].old # call[q].got.refresh
                  /\ r # q /\ call[r].pc = "saving" => call[r].got.refresh # call[q].got.refresh
    BY <1>0, <2>1 DEF Safe, Fresh, Saving, Busy
  <2> QED BY <1>1, <1>3, <2>1, <2>2
<1>7. LoginSurvives'
  <2>1. call[p].got.refresh \in live
    BY <1>0 DEF Safe, Fresh, Saving
  <2> QED BY <1>1, <2>1 DEF LoginSurvives
<1>8. ReplayedOnlyAcrossClients'
  BY <1>0, <1>1, <1>3 DEF Safe, ReplayedOnlyAcrossClients
<1> QED BY <1>4, <1>5, <1>6, <1>7, <1>8 DEF Safe

LEMMA SaveFailsSafe ==
    ASSUME IInv, NEW p \in Callers, SaveFails(p)
    PROVE  Safe'
<1>0. TypeOK /\ Safe /\ call[p].pc = "saving" /\ Busy(p)
  BY DEF IInv, SaveFails, Busy
<1>1. UNCHANGED <<rotates, file, polling, live, grants, spentBy>> /\ lost' = lost \cup Unsaved(p)
  BY DEF SaveFails, fixed
<1>2. Rests(p)
  BY <1>0, CallEffects DEF SaveFails
<1>3. /\ \A q \in Callers \ {p} : call'[q] = call[q]
      /\ call'[p].pc \notin {"asking", "saving"}
  BY <1>2 DEF Rests, Others
<1>4. Exclusive'
  BY <1>0, <1>1, <1>2, LeavesExclusive DEF SaveFails, Safe
<1>5. Minted'
  <2>1. call'[p].old <= grants /\ call'[p].got.refresh <= grants
    BY <1>0, <1>2, Numbers DEF Rests, Safe, Minted
  <2> QED BY <1>0, <1>1, <1>3, <2>1 DEF Safe, Minted
<1>6. Fresh'
  BY <1>0, <1>1, <1>3 DEF Safe, Fresh, Saving, Busy
<1>7. LoginSurvives'
  <2>1. call[p].got.refresh \in live
    BY <1>0 DEF Safe, Fresh, Saving
  <2>2. call[p].old \in live \cup lost'
    BY <1>0, <1>1, <2>1 DEF Unsaved
  <2> QED BY <1>0, <1>1, <1>3, <2>2 DEF Safe, LoginSurvives
<1>8. ReplayedOnlyAcrossClients'
  BY <1>0, <1>1, <1>3 DEF Safe, ReplayedOnlyAcrossClients
<1> QED BY <1>4, <1>5, <1>6, <1>7, <1>8 DEF Safe

LEMMA LoginWritesSafe ==
    ASSUME IInv, NEW life \in Lifetimes, LoginWrites(life), Exclusive'
    PROVE  Safe'
<1>0. TypeOK /\ Safe
  BY DEF IInv
<1>1. /\ UNCHANGED <<rotates, call, spentBy, lost>>
      /\ grants' = grants + 1 /\ live' = live \cup {grants + 1} /\ file'.refresh = grants + 1
  BY DEF LoginWrites, fixed
<1>2. Minted'
  BY <1>0, <1>1, Numbers DEF Safe, Minted
<1>3. \A p \in Callers : call[p].got.refresh # grants + 1 /\ call[p].old # grants + 1
  BY <1>0, Numbers DEF Safe, Minted
<1>4. Fresh'
  BY <1>0, <1>1, <1>3 DEF Safe, Fresh, Saving, Busy
<1>5. LoginSurvives'
  BY <1>1 DEF LoginSurvives
<1>6. ReplayedOnlyAcrossClients'
  BY <1>0, <1>1 DEF Safe, ReplayedOnlyAcrossClients
<1> QED BY <1>2, <1>4, <1>5, <1>6 DEF Safe

LEMMA LoginsSafe ==
    ASSUME IInv, (\E c \in Clients : PollStarts(c)) \/ PollEnds \/ CommandWrites
    PROVE  Safe'
<1>0. /\ TypeOK /\ Safe /\ Exclusive /\ lock \in [Clients -> Holders]
      /\ \A p \in Callers : ClientOf[p] \in Clients /\ p # "login" /\ p # "none"
  BY Numbers, OAuthAssumption DEF IInv, TypeOK, Safe
<1>1. CASE \E c \in Clients : PollStarts(c)
  <2>1. PICK c \in Clients : PollStarts(c)
    BY <1>1
  <2>2. Exclusive'
    BY <1>0, <2>1 DEF PollStarts, Exclusive, Busy
  <2>3. UNCHANGED <<rotates, file, call, live, grants, spentBy, lost>>
    BY <2>1 DEF PollStarts, fixed, upstream
  <2> QED BY <1>0, <2>2, <2>3
      DEF Safe, Minted, Fresh, LoginSurvives, ReplayedOnlyAcrossClients, Saving, Busy
<1>2. ASSUME polling # "none", polling' = "none", Released, UNCHANGED call
      PROVE  Exclusive'
  <2>1. lock[polling] = "login" /\ polling \in Clients
    BY <1>0, <1>2 DEF Exclusive, TypeOK
  <2> QED BY <1>0, <1>2, <2>1 DEF Released, Exclusive, Busy
<1>3. CASE PollApproved
  <2>1. PICK life \in Lifetimes : polling # "none" /\ LoginWrites(life) /\ polling' = "none" /\ Released
    BY <1>3 DEF PollApproved
  <2>2. Exclusive'
    BY <1>2, <2>1 DEF LoginWrites
  <2> QED BY <2>1, <2>2, LoginWritesSafe
<1>4. CASE PollFails
  <2>1. Exclusive' /\ UNCHANGED <<rotates, file, call, live, grants, spentBy, lost>>
    BY <1>2, <1>4 DEF PollFails, fixed, upstream
  <2> QED BY <1>0, <2>1
      DEF Safe, Minted, Fresh, LoginSurvives, ReplayedOnlyAcrossClients, Saving, Busy
<1>5. CASE CommandWrites
  <2>1. PICK life \in Lifetimes : LoginWrites(life) /\ UNCHANGED <<polling, lock>>
    BY <1>5 DEF CommandWrites
  <2>2. Exclusive'
    BY <1>0, <2>1 DEF LoginWrites, Exclusive, Busy
  <2> QED BY <2>1, <2>2, LoginWritesSafe
<1> QED BY <1>1, <1>3, <1>4, <1>5 DEF PollEnds

LEMMA RestartSafe ==
    ASSUME IInv, Restart
    PROVE  Safe'
<1>0. TypeOK /\ Safe
  BY DEF IInv
<1>1. /\ UNCHANGED <<rotates, file, live, grants, spentBy>> /\ polling' = "none"
      /\ lost' = lost \cup UNION {Unsaved(p) : p \in Callers}
  BY DEF Restart, fixed
<1>2. \A p \in Callers : call'[p].pc = "idle" /\ call'[p].old = 0 /\ call'[p].got.refresh = 0
  BY DEF Restart, Idle, NoCreds
<1>3. Exclusive' /\ Fresh' /\ ReplayedOnlyAcrossClients'
  BY <1>1, <1>2 DEF Exclusive, Fresh, ReplayedOnlyAcrossClients, Busy, Saving
<1>4. Minted'
  BY <1>0, <1>1, <1>2, Numbers DEF Safe, Minted
<1>5. LoginSurvives'
  <2>1. ASSUME NEW p \in Callers, call[p].pc = "saving"
        PROVE  call[p].old \in live \cup lost'
    <3>1. call[p].got.refresh \in live
      BY <1>0, <2>1 DEF Safe, Fresh, Saving
    <3>2. call[p].got.refresh # call[p].old => call[p].old \in Unsaved(p)
      BY <2>1 DEF Unsaved
    <3> QED BY <1>1, <3>1, <3>2
  <2> QED BY <1>0, <1>1, <2>1 DEF Safe, LoginSurvives
<1> QED BY <1>3, <1>4, <1>5 DEF Safe

LEMMA StepSafe == IInv /\ [Next]_vars => Safe'
<1> SUFFICES ASSUME IInv, [Next]_vars PROVE Safe'
  OBVIOUS
<1>0. TypeOK /\ Safe
  BY DEF IInv
<1>1. CASE UNCHANGED vars \/ Tick
  <2>1. UNCHANGED <<rotates, file, lock, polling, call, live, grants, spentBy, lost>>
    BY <1>1 DEF vars, Tick, fixed, upstream
  <2> QED BY <1>0, <2>1
      DEF Safe, Exclusive, Minted, Fresh, LoginSurvives, ReplayedOnlyAcrossClients, Saving, Busy
<1>2. ASSUME NEW p \in Callers,
             GetToken(p) \/ ForceRefresh(p) \/ Exchange(p) \/ Persist(p) \/ Reply(p)
      PROVE  Safe'
  <2>1. CASE GetToken(p) \/ ForceRefresh(p) \/ Reply(p) \/ Refused(p)
    BY <1>0, <2>1, RequestEffects, QuietSafe, BeginsSafe
  <2>2. CASE Answered(p) \/ AnswerLost(p)
    BY <2>2, AnsweredSafe, AnswerLostSafe
  <2>3. CASE Persist(p)
    BY <2>3, SavedSafe, SaveFailsSafe DEF Persist
  <2> QED BY <1>2, <2>1, <2>2, <2>3 DEF Exchange
<1>3. CASE (\E c \in Clients : PollStarts(c)) \/ PollEnds \/ CommandWrites
  BY <1>3, LoginsSafe
<1>4. CASE Restart
  BY <1>4, RestartSafe
<1> QED BY <1>1, <1>2, <1>3, <1>4 DEF Next

LEMMA AlwaysIInv == Spec => []IInv
<1>1. Init => IInv
  BY InitTyped, InitSafe DEF IInv
<1>2. IInv /\ [Next]_vars => IInv'
  BY StepTyped, StepSafe DEF IInv
<1> QED BY <1>1, <1>2, PTL DEF Spec

(* However many authenticators and login commands share the file, its login is *)
(* refreshable, or its replacement is about to be written, or the one answer   *)
(* that carried the replacement was lost (refresh, writeCreds).                *)
THEOREM LoginStaysRefreshable == Spec => []LoginSurvives
<1>1. IInv => LoginSurvives
  BY DEF IInv, Safe
<1> QED BY AlwaysIInv, <1>1, PTL

(* A spent refresh token is presented again only when another authenticator    *)
(* over the same file spent it (getAccessToken, ForceRefresh).                 *)
THEOREM NoSelfReplay == Spec => []ReplayedOnlyAcrossClients
<1>1. IInv => ReplayedOnlyAcrossClients
  BY DEF IInv, Safe
<1> QED BY AlwaysIInv, <1>1, PTL

-----------------------------------------------------------------------------
(* The retry after a 401 *)

(* Access tokens about were minted by grants already made, and one that a    *)
(* caller is about to save is nowhere else yet.                              *)
Shown(t) ==
    \/ file.access = t \/ \E c \in Clients : cache[c].access = t
    \/ \E q \in Callers : t \in {call[q].tok, call[q].bad}
Issued ==
    /\ \A t \in Tokens : Shown(t) => t <= grants
    /\ \A p \in Callers : Saving(p) =>
         LET t == call[p].got.access IN
         /\ t <= grants
         /\ t # 0 => /\ ~Shown(t)
                     /\ \A q \in Callers \ {p} : Saving(q) => call[q].got.access # t

(* Within the window after a forced refresh its token is the cached one, and *)
(* outlives the window, so nobody refreshes or adopts another.               *)
Recent(c) ==
    /\ cache[c].forced # 0 /\ cache[c].forcedAt >= 0
    /\ now - cache[c].forcedAt < Window
Outlives(exp, time) == exp = 0 \/ exp > time + Skew + Window
CacheSound(c) ==
    /\ cache[c].forcedAt < 0 => cache[c].forcedAt = -Window
    /\ Recent(c) => cache[c].access = cache[c].forced /\ Outlives(cache[c].exp, cache[c].forcedAt)


\* The token a first 401 has refused, or may refuse, or 0.
Suspect(p) ==
    CASE call[p].pc = "rejected" -> call[p].bad
      [] call[p].pc = "sent" /\ call[p].bad = 0 -> call[p].tok
      [] OTHER -> 0
Recovers(p) == call[p].pc \in {"rejected", "retry"} \/ (Busy(p) /\ call[p].forced)
Replaced(c, t) == cache[c].access # t /\ file.access # t
Known(c, t) == cache[c].forcedAt >= 0 /\ cache[c].forced \in {0, t}

CallSound(p) == LET c == ClientOf[p] IN
    /\ Saving(p) => Outlives(call[p].got.exp, now)
    /\ Busy(p) /\ ~call[p].forced => ~Usable(cache[c])
    /\ Recovers(p) => call[p].bad # 0
    /\ Suspect(p) # 0 /\ Recent(c) => Suspect(p) = cache[c].forced \/ file.access # Suspect(p)
    /\ call[p].pc = "retry" => Known(c, call[p].bad) \/ Replaced(c, call[p].bad)

Retries == Issued /\ (\A c \in Clients : CacheSound(c)) /\ (\A p \in Callers : CallSound(p))

LEMMA Values ==
    ASSUME TypeOK
    PROVE  /\ now \in Nat /\ Window \in Nat /\ Skew \in Nat /\ grants \in Nat /\ Tokens \subseteq Nat
           /\ file.access \in Tokens /\ file.exp \in Nat
           /\ \A c \in Clients : cache[c] \in CacheRecords
           /\ \A c \in Clients : /\ cache[c].access \in Tokens /\ cache[c].exp \in Nat
                                 /\ cache[c].forcedAt \in Int /\ cache[c].forced \in Tokens
                                 /\ -Window <= cache[c].forcedAt
           /\ \A p \in Callers : /\ ClientOf[p] \in Clients
                                 /\ call[p].tok \in Tokens /\ call[p].bad \in Tokens
                                 /\ call[p].got.access \in Tokens /\ call[p].got.exp \in Nat
                                 /\ call[p].forced \in BOOLEAN
<1>1. now \in Nat /\ Window \in Nat /\ Skew \in Nat /\ grants \in Nat /\ Tokens \subseteq Nat
  BY OAuthAssumption DEF TypeOK, Tokens
<1>2. file.access \in Tokens /\ file.exp \in Nat
  BY DEF TypeOK, Creds
<1>3. ASSUME NEW c \in Clients
      PROVE  /\ cache[c].access \in Tokens /\ cache[c].exp \in Nat /\ cache[c] \in CacheRecords
             /\ cache[c].forcedAt \in Int /\ cache[c].forced \in Tokens /\ -Window <= cache[c].forcedAt
  <2>1. cache[c] \in CacheRecords
    BY DEF TypeOK, CacheRecords
  <2> QED BY <1>1, <2>1, OAuthAssumption DEF CacheRecords
<1>4. ASSUME NEW p \in Callers
      PROVE  /\ ClientOf[p] \in Clients /\ call[p].tok \in Tokens /\ call[p].bad \in Tokens
             /\ call[p].got.access \in Tokens /\ call[p].got.exp \in Nat /\ call[p].forced \in BOOLEAN
  BY CallTyped, Constants DEF CallRecords, Creds
<1> QED BY <1>1, <1>2, <1>3, <1>4

LEMMA InitRetries == Init => Retries
<1> SUFFICES ASSUME Init PROVE Retries
  OBVIOUS
<1>1. \A p \in Callers : call[p].pc = "idle" /\ call[p].tok = 0 /\ call[p].bad = 0
  BY DEF Init, Idle
<1>2. \A c \in Clients : cache[c].access = 0 /\ cache[c].forced = 0 /\ cache[c].forcedAt = -Window
  BY DEF Init, NoCache
<1>3. file.access \in {0, 1} /\ grants = 1
  <2>1. file = NoCreds \/ file.access = 1
    BY DEF Init
  <2> QED BY <2>1 DEF Init, NoCreds
<1>4. Issued
  BY <1>1, <1>2, <1>3 DEF Issued, Shown, Saving
<1>5. \A c \in Clients : CacheSound(c)
  BY <1>2 DEF CacheSound, Recent
<1>6. \A p \in Callers : CallSound(p)
  BY <1>1 DEF CallSound, Saving, Busy, Recovers, Suspect
<1> QED BY <1>4, <1>5, <1>6 DEF Retries

\* Only p moves, and shows no token that was not shown before.
LEMMA PlainRetries ==
    ASSUME TypeOK, Retries, NEW p \in Callers, Others(p), UNCHANGED <<now, file, cache>>,
           grants' \in {grants, grants + 1},
           call'[p].tok \in {0, call[p].tok, cache[ClientOf[p]].access},
           call'[p].bad \in {0, call[p].tok, call[p].bad},
           call'[p].pc = "saving" => call'[p].got.access = 0 \/
                (call'[p].got.access = grants + 1 /\ grants' = grants + 1),
           CallSound(p)'
    PROVE  Retries'
<1>0. /\ Issued /\ \A q \in Callers \ {p} : call'[q] = call[q]
      /\ \A c \in Clients : CacheSound(c)
      /\ \A q \in Callers : CallSound(q)
  BY DEF Retries, Others
<1>1. ASSUME NEW t \in Tokens, Shown(t)' PROVE t = 0 \/ Shown(t)
  <2>1. ClientOf[p] \in Clients
    BY Values
  <2> QED BY <1>0, <1>1, <2>1 DEF Shown
<1>2. ASSUME NEW t \in Tokens, Shown(t)' PROVE t <= grants /\ t <= grants'
  BY <1>0, <1>1, <1>2, Values DEF Issued
<1>3. ASSUME NEW q \in Callers, Saving(q)', NEW t, t = call'[q].got.access
      PROVE  /\ t <= grants'
             /\ t # 0 => /\ ~Shown(t)'
                         /\ \A r \in Callers \ {q} : Saving(r)' => call'[r].got.access # t
  <2>1. \A r \in Callers \ {p} : Saving(r)' => /\ Saving(r) /\ call'[r].got.access = call[r].got.access
                                              /\ call[r].got.access <= grants
                                              /\ call[r].got.access \in Tokens
    BY <1>0, Values DEF Saving, Issued
  <2>2. CASE q = p
    <3>1. t = 0 \/ (t = grants + 1 /\ grants' = grants + 1)
      BY <1>3, <2>2 DEF Saving
    <3>2. ASSUME t = grants + 1, Shown(t)' PROVE FALSE
      <4>1. t \in Tokens
        BY <1>0, <3>2, Values DEF Shown
      <4> QED BY <1>2, <3>2, <4>1, Values
    <3>3. t = grants + 1 => \A r \in Callers \ {p} : Saving(r)' => call'[r].got.access # t
      BY <2>1, Values
    <3> QED BY <2>2, <3>1, <3>2, <3>3, Values
  <2>3. CASE q # p
    <3>1. /\ Saving(q) /\ call[q].got.access = t /\ t <= grants /\ t \in Tokens
          /\ t # 0 => /\ ~Shown(t)
                      /\ \A r \in Callers \ {q} : Saving(r) => call[r].got.access # t
      BY <1>0, <1>3, <2>1, <2>3 DEF Issued
    <3>2. t # 0 => ~Shown(t)'
      BY <1>1, <3>1
    <3>3. ASSUME t # 0, NEW r \in Callers \ {q}, Saving(r)' PROVE call'[r].got.access # t
      <4>1. CASE r = p
        BY <3>1, <3>3, <4>1, Values DEF Saving
      <4>2. CASE r # p
        BY <2>1, <3>1, <3>3, <4>2
      <4> QED BY <4>1, <4>2
    <3>4. t <= grants'
      BY <3>1, Values
    <3> QED BY <3>1, <3>2, <3>3, <3>4
  <2> QED BY <2>2, <2>3
<1>4. Issued'
  BY <1>2, <1>3 DEF Issued
<1>5. \A c \in Clients : CacheSound(c)'
  BY <1>0 DEF CacheSound, Recent
<1>6. \A q \in Callers \ {p} : CallSound(q)'
  BY <1>0 DEF CallSound, Saving, Busy, Usable, Expired, Recovers, Suspect, Recent, Known, Replaced
<1> QED BY <1>4, <1>5, <1>6 DEF Retries

LEMMA CallMoves ==
    ASSUME TypeOK, NEW p \in Callers
    PROVE  /\ call' = Finished(p) => Others(p) /\ call'[p] = Idle
           /\ call' = Retrying(p) =>
                Others(p) /\ call'[p].pc = "retry" /\ call'[p].tok = 0 /\ call'[p].bad = call[p].bad
           /\ \A t \in Tokens : call' = Sending(p, t) =>
                Others(p) /\ call'[p].pc = "sent" /\ call'[p].tok = t /\ call'[p].bad = call[p].bad
           /\ \A t \in Tokens, forced \in BOOLEAN : call' = Asking(p, t, forced) =>
                /\ Others(p) /\ call'[p].pc = "asking" /\ call'[p].tok = 0
                /\ call'[p].bad = call[p].bad /\ call'[p].forced = forced
<1>1. call \in [Callers -> CallRecords] /\ call[p] \in CallRecords
  BY CallTyped
<1>2. call' = Finished(p) => Others(p) /\ call'[p] = Idle
  BY <1>1 DEF Finished, Others
<1>3. call' = Retrying(p) =>
        Others(p) /\ call'[p].pc = "retry" /\ call'[p].tok = 0 /\ call'[p].bad = call[p].bad
  BY <1>1 DEF Retrying, Others, Idle, CallRecords
<1>4. ASSUME NEW t \in Tokens, call' = Sending(p, t)
      PROVE  Others(p) /\ call'[p].pc = "sent" /\ call'[p].tok = t /\ call'[p].bad = call[p].bad
  BY <1>1, <1>4 DEF Sending, Others, CallRecords
<1>5. ASSUME NEW t \in Tokens, NEW forced \in BOOLEAN, call' = Asking(p, t, forced)
      PROVE  /\ Others(p) /\ call'[p].pc = "asking" /\ call'[p].tok = 0
             /\ call'[p].bad = call[p].bad /\ call'[p].forced = forced
  BY <1>1, <1>5 DEF Asking, Others, CallRecords
<1> QED BY <1>2, <1>3, <1>4, <1>5

\* A call that ends.
LEMMA FinishedRetries ==
    ASSUME TypeOK, Retries, NEW p \in Callers, UNCHANGED <<now, file, cache>>,
           call' = Finished(p), grants' \in {grants, grants + 1}
    PROVE  Retries'
<1>1. Others(p) /\ call'[p].pc = "idle" /\ call'[p].tok = 0 /\ call'[p].bad = 0
  BY CallMoves DEF Idle
<1>2. CallSound(p)'
  BY <1>1 DEF CallSound, Saving, Busy, Recovers, Suspect
<1> QED BY <1>1, <1>2, PlainRetries

\* A sibling's forced refresh is recent: its token is cached, and it is not the
\* one refused unless it is known to be.
LEMMA CoalescedRetries ==
    ASSUME TypeOK, Retries, NEW p \in Callers, ForceCoalesced(p)
    PROVE  Retries'
<1> DEFINE c == ClientOf[p]
<1>0. /\ UNCHANGED <<now, file, cache, grants>> /\ call[p].pc = "rejected"
      /\ Coalesced(c) /\ call' = Retrying(p) /\ c \in Clients
  BY Values DEF ForceCoalesced, upstream
<1>1. Others(p) /\ call'[p].pc = "retry" /\ call'[p].tok = 0 /\ call'[p].bad = call[p].bad
  BY <1>0, CallMoves
<1>2. cache[c].forcedAt >= 0 /\ now - cache[c].forcedAt < Window
  BY <1>0, Values DEF Coalesced, Retries, CacheSound
<1>3. /\ call[p].bad # 0
      /\ Recent(c) => call[p].bad = cache[c].forced \/ file.access # call[p].bad
      /\ Recent(c) => cache[c].access = cache[c].forced
  BY <1>0 DEF Retries, CallSound, CacheSound, Recovers, Suspect
<1>4. Known(c, call[p].bad) \/ Replaced(c, call[p].bad)
  BY <1>2, <1>3 DEF Recent, Known, Replaced
<1>5. CallSound(p)'
  BY <1>0, <1>1, <1>3, <1>4 DEF CallSound, Saving, Busy, Recovers, Suspect, Known, Replaced
<1> QED BY <1>0, <1>1, <1>5, PlainRetries, Values

LEMMA BeginsRetries ==
    ASSUME TypeOK, Retries, NEW p \in Callers, UNCHANGED <<now, file, cache, grants>>,
           NEW forced \in BOOLEAN, call' = Asking(p, file.refresh, forced),
           ~forced => ~Usable(cache[ClientOf[p]]), forced => call[p].bad # 0
    PROVE  Retries'
<1>1. /\ Others(p) /\ call'[p].pc = "asking" /\ call'[p].tok = 0
      /\ call'[p].bad = call[p].bad /\ call'[p].forced = forced
  BY CallMoves DEF TypeOK, Creds
<1>2. CallSound(p)'
  BY <1>1 DEF CallSound, Saving, Busy, Recovers, Suspect, Usable, Expired
<1> QED BY <1>1, <1>2, PlainRetries

\* The token granted outlives the window that its refresh may open.
LEMMA AnsweredRetries ==
    ASSUME TypeOK, Retries, NEW p \in Callers, Answered(p)
    PROVE  Retries'
<1>1. PICK answer \in RefreshAnswers :
        /\ Spend(p, answer)
        /\ call' = [call EXCEPT ![p].pc = "saving", ![p].got = Granted(call[p].old, answer)]
  BY DEF Answered
<1>2. /\ UNCHANGED <<now, file, cache>> /\ grants' = grants + 1 /\ call[p].pc = "asking"
  BY <1>1 DEF Answered, Spend
<1>3. /\ Others(p) /\ call'[p].pc = "saving" /\ call'[p].tok = call[p].tok
      /\ call'[p].bad = call[p].bad /\ call'[p].forced = call[p].forced
      /\ call'[p].got = Granted(call[p].old, answer)
  BY <1>1, CallTyped DEF CallRecords, Others
<1>4. /\ answer.access \in {0, grants + 1} /\ answer.life \in Lifetimes
  BY DEF RefreshAnswers
<1>5. call'[p].got.access \in {0, grants + 1} /\ call'[p].got.exp = ExpiryFrom(answer.life)
  BY <1>3, <1>4 DEF Granted
<1>6. Outlives(call'[p].got.exp, now)
  <2>1. /\ answer.life \in Nat /\ now \in Nat /\ Skew \in Nat /\ Window \in Nat
        /\ answer.life > 0 => answer.life > Skew + Window
    BY <1>4, Values, OAuthAssumption
  <2>2. CASE answer.life = 0
    BY <1>5, <2>2 DEF ExpiryFrom, Outlives
  <2>3. CASE answer.life # 0
    <3>1. call'[p].got.exp = now + answer.life /\ answer.life > Skew + Window
      BY <1>5, <2>1, <2>3 DEF ExpiryFrom
    <3> QED BY <2>1, <3>1 DEF Outlives
  <2> QED BY <2>2, <2>3
<1>7. CallSound(p)'
  BY <1>2, <1>3, <1>6
  DEF Retries, CallSound, Saving, Busy, Recovers, Suspect, Outlives, Usable, Expired
<1>8. /\ Others(p) /\ grants' \in {grants, grants + 1}
      /\ call'[p].tok \in {0, call[p].tok, cache[ClientOf[p]].access}
      /\ call'[p].bad \in {0, call[p].tok, call[p].bad}
      /\ call'[p].got.access = 0 \/ (call'[p].got.access = grants + 1 /\ grants' = grants + 1)
  BY <1>2, <1>3, <1>5
<1> QED BY <1>2, <1>7, <1>8, PlainRetries

LEMMA RejectedRetries ==
    ASSUME TypeOK, Retries, NEW p \in Callers, Rejected(p)
    PROVE  Retries'
<1>1. /\ UNCHANGED <<now, file, cache, grants>> /\ call[p].pc = "sent" /\ call[p].bad = 0
      /\ call[p].tok # 0
  BY DEF Rejected, upstream
<1>2. /\ Others(p) /\ call'[p].pc = "rejected" /\ call'[p].bad = call[p].tok /\ call'[p].tok = 0
  BY CallTyped DEF Rejected, CallRecords, Others
<1>3. CallSound(p)'
  BY <1>1, <1>2, SMTT(30) DEF Retries, CallSound, Saving, Busy, Recovers, Suspect, Recent
<1> QED BY <1>1, <1>2, <1>3, PlainRetries

LEMMA UseCachedRetries ==
    ASSUME TypeOK, Retries, NEW p \in Callers, UseCached(p)
    PROVE  Retries'
<1> DEFINE c == ClientOf[p]
<1>1. /\ UNCHANGED <<now, file, cache, grants>> /\ c \in Clients
      /\ call' = Sending(p, cache[c].access) /\ cache[c].access \in Tokens
  BY Values DEF UseCached, upstream
<1>2. /\ Others(p) /\ call'[p].pc = "sent" /\ call'[p].tok = cache[c].access
      /\ call'[p].bad = call[p].bad
  BY <1>1, CallMoves
<1>3. Recent(c) => cache[c].access = cache[c].forced
  BY <1>1 DEF Retries, CacheSound
<1>4. CallSound(p)'
  BY <1>1, <1>2, <1>3 DEF CallSound, Saving, Busy, Recovers, Suspect, Recent
<1> QED BY <1>1, <1>2, <1>4, PlainRetries

\* Within its window a forced refresh's token is still good.
LEMMA RecentUsable ==
    ASSUME TypeOK, NEW c \in Clients, CacheSound(c), ~Usable(cache[c])
    PROVE  ~Recent(c)
BY Values DEF CacheSound, Recent, Outlives, Usable, Expired

LEMMA PopulatedEffects ==
    ASSUME TypeOK, NEW c \in Clients, NEW creds \in Creds
    PROVE  /\ \A d \in Clients \ {c} : Populated(c, creds)[d] = cache[d]
           /\ Populated(c, creds) \in [Clients -> CacheRecords]
           /\ Populated(c, creds)[c].access = creds.access /\ Populated(c, creds)[c].exp = creds.exp
           /\ Populated(c, creds)[c].forcedAt = cache[c].forcedAt
           /\ Populated(c, creds)[c].forced = cache[c].forced
<1> DEFINE half == [cache EXCEPT ![c].access = creds.access]
<1>1. cache \in [Clients -> CacheRecords] /\ creds.access \in Tokens /\ creds.exp \in Nat
  BY DEF TypeOK, CacheRecords, Creds
<1>2. /\ half \in [Clients -> CacheRecords]
      /\ \A d \in Clients \ {c} : half[d] = cache[d]
      /\ half[c].access = creds.access
      /\ half[c].forcedAt = cache[c].forcedAt /\ half[c].forced = cache[c].forced
  BY <1>1 DEF CacheRecords
<1>3. Populated(c, creds) = [half EXCEPT ![c].exp = creds.exp]
  BY <1>1 DEF Populated, CacheRecords
<1> HIDE DEF half
<1>4. /\ \A d \in Clients \ {c} : Populated(c, creds)[d] = half[d]
      /\ Populated(c, creds)[c].access = half[c].access
      /\ Populated(c, creds)[c].exp = creds.exp
      /\ Populated(c, creds)[c].forcedAt = half[c].forcedAt
      /\ Populated(c, creds)[c].forced = half[c].forced
  BY <1>1, <1>2, <1>3 DEF CacheRecords
<1> QED BY <1>2, <1>4, PopulatedTyped

\* While a caller of c is at the token endpoint, no other one is.
LEMMA OneBusy ==
    ASSUME Exclusive, NEW p \in Callers, NEW q \in Callers, Busy(q), ClientOf[p] = ClientOf[q],
           lock[ClientOf[p]] \in {"none", p}
    PROVE  q = p
BY OAuthAssumption DEF Exclusive

LEMMA AdoptFileRetries ==
    ASSUME TypeOK, Exclusive, Retries, NEW p \in Callers, AdoptFile(p)
    PROVE  Retries'
<1> DEFINE c == ClientOf[p]
<1>1. /\ UNCHANGED <<now, file, grants>> /\ c \in Clients /\ file.access \in Tokens /\ file \in Creds
      /\ ~Usable(cache[c]) /\ cache' = Populated(c, file)
      /\ lock[c] = "none" /\ call' = Sending(p, file.access)
  BY Values DEF AdoptFile, upstream, TypeOK
<1>2. /\ \A q \in Callers \ {p} : call'[q] = call[q]
      /\ call'[p].pc = "sent" /\ call'[p].tok = file.access /\ call'[p].bad = call[p].bad
  BY <1>1, CallMoves DEF Others
<1>3. /\ \A d \in Clients \ {c} : cache'[d] = cache[d]
      /\ cache'[c].access = file.access
      /\ cache'[c].forcedAt = cache[c].forcedAt /\ cache'[c].forced = cache[c].forced
  BY <1>1, PopulatedEffects
<1>4. /\ Issued /\ (\A d \in Clients : CacheSound(d)) /\ (\A q \in Callers : CallSound(q))
  BY DEF Retries
<1>5. ~Recent(c) /\ ~Recent(c)'
  BY <1>1, <1>3, <1>4, RecentUsable DEF Recent
<1>6. Issued'
  <2>1. ASSUME NEW t \in Tokens, Shown(t)' PROVE Shown(t)
    BY <1>1, <1>2, <1>3, <2>1 DEF Shown
  <2>2. ASSUME NEW q \in Callers, Saving(q)' PROVE Saving(q) /\ call'[q] = call[q] /\ q # p
    BY <1>2, <2>2 DEF Saving
  <2>3. ASSUME NEW q \in Callers, Saving(q)', NEW t, t = call'[q].got.access
        PROVE  /\ t <= grants'
               /\ t # 0 => /\ ~Shown(t)'
                           /\ \A r \in Callers \ {q} : Saving(r)' => call'[r].got.access # t
    <3>1. t \in Tokens /\ t <= grants'
      BY <1>1, <1>4, <2>2, <2>3, Values DEF Issued
    <3> QED BY <1>4, <2>1, <2>2, <2>3, <3>1 DEF Issued
  <2> QED BY <1>1, <1>4, <2>1, <2>3 DEF Issued
<1>7. \A d \in Clients : CacheSound(d)'
  <2>1. CacheSound(c)'
    BY <1>1, <1>3, <1>4, <1>5 DEF CacheSound
  <2>2. \A d \in Clients \ {c} : CacheSound(d)'
    BY <1>1, <1>3, <1>4 DEF CacheSound, Recent
  <2> QED BY <2>1, <2>2
<1>8. ASSUME NEW q \in Callers PROVE CallSound(q)'
  <2>1. CASE q = p
    BY <1>2, <1>5, <2>1 DEF CallSound, Saving, Busy, Recovers
  <2>2. CASE q # p /\ ClientOf[q] = c
    <3>1. ~Busy(q)
      BY <1>1, <2>2, OneBusy
    <3> QED BY <1>1, <1>2, <1>3, <1>4, <1>5, <2>2, <3>1
            DEF CallSound, Saving, Busy, Recovers, Known, Replaced
  <2>3. CASE q # p /\ ClientOf[q] # c
    <3>1. call'[q] = call[q] /\ cache'[ClientOf[q]] = cache[ClientOf[q]]
      BY <1>2, <1>3, <2>3, Values
    <3> QED BY <1>1, <1>4, <3>1
            DEF CallSound, Saving, Busy, Usable, Expired, Recovers, Suspect, Recent, Known, Replaced
  <2> QED BY <2>1, <2>2, <2>3
<1> QED BY <1>6, <1>7, <1>8 DEF Retries

\* What a write of the credentials does to the cache of the writer.
LEMMA SavedEffects ==
    ASSUME TypeOK, NEW p \in Callers, Saved(p)
    PROVE  LET c == ClientOf[p] got == call[p].got IN
           /\ file' = got /\ UNCHANGED <<now, grants>>
           /\ \A q \in Callers \ {p} : call'[q] = call[q]
           /\ \A d \in Clients \ {c} : cache'[d] = cache[d]
           /\ cache'[c].access = got.access /\ cache'[c].exp = got.exp
           /\ call[p].forced => /\ cache'[c].forcedAt = now /\ cache'[c].forced = got.access
                                /\ call'[p].pc = "retry" /\ call'[p].tok = 0
                                /\ call'[p].bad = call[p].bad
           /\ ~call[p].forced => /\ cache'[c].forcedAt = cache[c].forcedAt
                                 /\ cache'[c].forced = cache[c].forced
                                 /\ call'[p].pc = "sent" /\ call'[p].tok = got.access
                                 /\ call'[p].bad = call[p].bad
<1> DEFINE c == ClientOf[p]
           got == call[p].got
<1>1. /\ c \in Clients /\ got \in Creds /\ got.access \in Tokens
      /\ file' = got /\ UNCHANGED <<now, grants>>
      /\ cache' = IF call[p].forced
                  THEN [Populated(c, got) EXCEPT ![c].forcedAt = now, ![c].forced = got.access]
                  ELSE Populated(c, got)
      /\ call' = IF call[p].forced THEN Retrying(p) ELSE Sending(p, got.access)
  BY CallTyped, Values DEF Saved, upstream, CallRecords
<1>2. /\ \A d \in Clients \ {c} : Populated(c, got)[d] = cache[d]
      /\ Populated(c, got) \in [Clients -> CacheRecords]
      /\ Populated(c, got)[c].access = got.access /\ Populated(c, got)[c].exp = got.exp
      /\ Populated(c, got)[c].forcedAt = cache[c].forcedAt
      /\ Populated(c, got)[c].forced = cache[c].forced
  BY <1>1, PopulatedEffects
<1>3. CASE call[p].forced
  <2>1. cache' = [Populated(c, got) EXCEPT ![c].forcedAt = now, ![c].forced = got.access]
    BY <1>1, <1>3
  <2>2. /\ \A d \in Clients \ {c} : cache'[d] = cache[d]
        /\ cache'[c].access = got.access /\ cache'[c].exp = got.exp
        /\ cache'[c].forcedAt = now /\ cache'[c].forced = got.access
    BY <1>1, <1>2, <2>1, SMTT(30) DEF CacheRecords
  <2> QED BY <1>1, <1>3, <2>2, CallMoves DEF Others
<1>4. CASE ~call[p].forced
  BY <1>1, <1>2, <1>4, CallMoves DEF Others
<1> QED BY <1>3, <1>4

LEMMA SavedRetries ==
    ASSUME TypeOK, Exclusive, Retries, NEW p \in Callers, Saved(p)
    PROVE  Retries'
<1> DEFINE c == ClientOf[p]
           g == call[p].got.access
<1>0. /\ Issued /\ (\A d \in Clients : CacheSound(d)) /\ (\A q \in Callers : CallSound(q))
      /\ Saving(p) /\ Busy(p) /\ c \in Clients /\ g \in Tokens /\ lock[c] = p
  BY Values DEF Retries, Saved, Saving, Busy, Exclusive
<1>1. /\ file' = call[p].got /\ UNCHANGED <<now, grants>>
      /\ \A q \in Callers \ {p} : call'[q] = call[q]
      /\ \A d \in Clients \ {c} : cache'[d] = cache[d]
      /\ cache'[c].access = g /\ cache'[c].exp = call[p].got.exp
      /\ call[p].forced => /\ cache'[c].forcedAt = now /\ cache'[c].forced = g
                           /\ call'[p].pc = "retry" /\ call'[p].tok = 0
                           /\ call'[p].bad = call[p].bad
      /\ ~call[p].forced => /\ cache'[c].forcedAt = cache[c].forcedAt
                            /\ cache'[c].forced = cache[c].forced
                            /\ call'[p].pc = "sent" /\ call'[p].tok = g
                            /\ call'[p].bad = call[p].bad
  BY SavedEffects
<1>2. /\ g <= grants
      /\ g # 0 => ~Shown(g) /\ \A q \in Callers \ {p} : Saving(q) => call[q].got.access # g
  BY <1>0 DEF Issued
<1>3. \A q \in Callers : /\ call[q].tok # 0 => call[q].tok # g
                         /\ call[q].bad # 0 => call[q].bad # g
  BY <1>2 DEF Shown
<1>4. Outlives(call[p].got.exp, now)
  BY <1>0 DEF CallSound
<1>5. ASSUME ~call[p].forced PROVE ~Recent(c)'
  <2>1. ~Recent(c)
    BY <1>0, <1>5, RecentUsable DEF CallSound
  <2> QED BY <1>1, <1>5, <2>1 DEF Recent
<1> HIDE DEF g
<1>6. Issued'
  <2>1. ASSUME NEW t \in Tokens, Shown(t)' PROVE t \in {0, g} \/ Shown(t)
    <3>1. CASE file'.access = t
      BY <1>1, <3>1 DEF g
    <3>2. CASE \E d \in Clients : cache'[d].access = t
      BY <1>1, <3>2 DEF Shown
    <3>3. CASE \E q \in Callers : t \in {call'[q].tok, call'[q].bad}
      <4>1. PICK q \in Callers : t \in {call'[q].tok, call'[q].bad}
        BY <3>3
      <4>2. CASE q = p
        <5>1. call'[p].tok \in {0, g} /\ call'[p].bad = call[p].bad
          BY <1>1
        <5> QED BY <4>1, <4>2, <5>1 DEF Shown
      <4>3. CASE q # p
        BY <1>1, <4>1, <4>3 DEF Shown
      <4> QED BY <4>2, <4>3
    <3> QED BY <2>1, <3>1, <3>2, <3>3 DEF Shown
  <2>2. ASSUME NEW q \in Callers, Saving(q)' PROVE Saving(q) /\ call'[q] = call[q] /\ q # p
    <3>1. call'[p].pc # "saving"
      BY <1>1
    <3> QED BY <1>1, <2>2, <3>1 DEF Saving
  <2>3. ASSUME NEW q \in Callers, Saving(q)', NEW t, t = call'[q].got.access
        PROVE  /\ t <= grants'
               /\ t # 0 => /\ ~Shown(t)'
                           /\ \A r \in Callers \ {q} : Saving(r)' => call'[r].got.access # t
    <3>1. /\ t \in Tokens /\ t <= grants' /\ (t # 0 => t # g)
          /\ t # 0 => /\ ~Shown(t)
                      /\ \A r \in Callers \ {q} : Saving(r) => call[r].got.access # t
      BY <1>0, <1>1, <1>2, <2>2, <2>3, Values DEF Issued
    <3> QED BY <2>1, <2>2, <3>1
  <2>4. ASSUME NEW t \in Tokens, Shown(t)' PROVE t <= grants'
    BY <1>0, <1>1, <1>2, <2>1, <2>4, Values DEF Issued
  <2> QED BY <2>3, <2>4 DEF Issued
<1>7. ASSUME NEW d \in Clients PROVE CacheSound(d)'
  <2>1. CASE d # c
    BY <1>0, <1>1, <2>1 DEF CacheSound, Recent
  <2>2. CASE d = c /\ call[p].forced
    BY <1>1, <1>4, <2>2, Values DEF CacheSound
  <2>3. CASE d = c /\ ~call[p].forced
    <3>1. ~Recent(c)' /\ cache'[c].forcedAt = cache[c].forcedAt /\ CacheSound(c)
      BY <1>0, <1>1, <1>5, <2>3
    <3> QED BY <2>3, <3>1 DEF CacheSound
  <2> QED BY <2>1, <2>2, <2>3
<1>8. ASSUME NEW q \in Callers PROVE CallSound(q)'
  <2>1. CASE q = p /\ call[p].forced
    <3>1. call[p].bad # 0 /\ call[p].bad # g
      BY <1>0, <1>3, <2>1 DEF CallSound, Recovers
    <3>2. file'.access = g
      BY <1>1 DEF g
    <3> QED BY <1>1, <2>1, <3>1, <3>2
            DEF CallSound, Saving, Busy, Recovers, Suspect, Replaced
  <2>2. CASE q = p /\ ~call[p].forced
    <3>1. call'[p].pc = "sent" /\ ~Recent(c)'
      BY <1>1, <1>5, <2>2
    <3> QED BY <2>2, <3>1 DEF CallSound, Saving, Busy, Recovers
  <2>3. CASE q # p
    <3>1. call'[q] = call[q] /\ file'.access = g
      BY <1>1, <2>3 DEF g
    <3>2. /\ Suspect(q)' = Suspect(q) /\ (Suspect(q) # 0 => g # Suspect(q))
      BY <1>3, <3>1 DEF Suspect
    <3>3. call[q].pc = "retry" => call[q].bad # 0 /\ call[q].bad # g
      BY <1>0, <1>3 DEF CallSound, Recovers
    <3>4. CASE ClientOf[q] = c
      <4>1. ~Busy(q)
        BY <1>0, <2>3, <3>4, OneBusy
      <4> QED BY <1>0, <1>1, <3>1, <3>2, <3>3, <3>4, <4>1
              DEF CallSound, Saving, Busy, Recovers, Replaced
    <3>5. CASE ClientOf[q] # c
      <4>1. cache'[ClientOf[q]] = cache[ClientOf[q]]
        BY <1>1, <3>5, Values
      <4> QED BY <1>0, <1>1, <3>1, <3>2, <3>3, <4>1
              DEF CallSound, Saving, Busy, Usable, Expired, Recovers, Known, Replaced
    <3> QED BY <3>4, <3>5
  <2> QED BY <2>1, <2>2, <2>3
<1> QED BY <1>6, <1>7, <1>8 DEF Retries

LEMMA LoginWritesRetries ==
    ASSUME TypeOK, Retries, NEW life \in Lifetimes, LoginWrites(life)
    PROVE  Retries'
<1>1. /\ UNCHANGED <<now, cache, call>> /\ grants' = grants + 1 /\ file'.access = grants + 1
  BY DEF LoginWrites
<1>2. /\ Issued /\ (\A d \in Clients : CacheSound(d)) /\ (\A q \in Callers : CallSound(q))
  BY DEF Retries
<1>3. \A q \in Callers : /\ call[q].tok <= grants /\ call[q].bad <= grants
                         /\ call[q].tok # grants + 1 /\ call[q].bad # grants + 1
  BY <1>2, Values DEF Issued, Shown
<1>4. Issued'
  <2>1. ASSUME NEW t \in Tokens, Shown(t)' PROVE t = grants + 1 \/ Shown(t)
    BY <1>1, <2>1 DEF Shown
  <2>2. ASSUME NEW t \in Tokens, Shown(t)' PROVE t <= grants'
    BY <1>1, <1>2, <2>1, <2>2, Values DEF Issued
  <2>3. ASSUME NEW q \in Callers, Saving(q), NEW t, t = call[q].got.access
        PROVE  /\ t <= grants'
               /\ t # 0 => /\ ~Shown(t)'
                           /\ \A r \in Callers \ {q} : Saving(r) => call[r].got.access # t
    <3>1. t \in Tokens /\ t <= grants
      BY <1>2, <2>3, Values DEF Issued
    <3> QED BY <1>1, <1>2, <2>1, <2>3, <3>1, Values DEF Issued
  <2> QED BY <1>1, <2>2, <2>3 DEF Issued, Saving
<1>5. \A d \in Clients : CacheSound(d)'
  BY <1>1, <1>2 DEF CacheSound, Recent
<1>6. ASSUME NEW q \in Callers PROVE CallSound(q)'
  <2>1. Suspect(q)' = Suspect(q) /\ file'.access # Suspect(q) /\ file'.access # call[q].bad
    BY <1>1, <1>3, Values DEF Suspect
  <2> QED BY <1>1, <1>2, <2>1
          DEF CallSound, Saving, Busy, Usable, Expired, Recovers, Known, Replaced
<1> QED BY <1>4, <1>5, <1>6 DEF Retries

LEMMA TickRetries ==
    ASSUME TypeOK, Retries, Tick
    PROVE  Retries'
<1>1. /\ UNCHANGED <<file, cache, call, grants>> /\ now' = now + 1
      /\ \A p \in Callers : ~Saving(p)
  BY DEF Tick, upstream, Saving
<1>2. Issued' /\ \A p \in Callers : ~Saving(p)'
  BY <1>1 DEF Retries, Issued, Shown, Saving
<1>3. \A c \in Clients : Recent(c)' => Recent(c)
  BY <1>1, Values DEF Recent
<1>4. \A c \in Clients : Usable(cache[c])' => Usable(cache[c])
  BY <1>1, Values DEF Usable, Expired
<1>5. \A c \in Clients : CacheSound(c)'
  BY <1>1, <1>3 DEF Retries, CacheSound
<1>6. ASSUME NEW p \in Callers PROVE CallSound(p)'
  <2>1. ClientOf[p] \in Clients /\ CallSound(p)
    BY Values DEF Retries
  <2>2. Suspect(p)' = Suspect(p)
    BY <1>1 DEF Suspect
  <2>3. Usable(cache[ClientOf[p]])' => Usable(cache[ClientOf[p]])
    BY <1>4, <2>1
  <2> QED BY <1>1, <1>2, <1>3, <2>1, <2>2, <2>3
          DEF CallSound, Busy, Recovers, Known, Replaced
<1> QED BY <1>2, <1>5, <1>6 DEF Retries

LEMMA RestartRetries ==
    ASSUME TypeOK, Retries, Restart
    PROVE  Retries'
<1>1. /\ UNCHANGED <<now, file, grants>>
      /\ \A c \in Clients : /\ cache'[c].access = 0 /\ cache'[c].forced = 0
                            /\ cache'[c].forcedAt = -Window
      /\ \A p \in Callers : call'[p].pc = "idle" /\ call'[p].tok = 0 /\ call'[p].bad = 0
  BY DEF Restart, NoCache, Idle
<1>2. Issued'
  <2>1. ASSUME NEW t \in Tokens, Shown(t)' PROVE t <= grants'
    BY <1>1, <2>1, Values DEF Retries, Issued, Shown
  <2> QED BY <1>1, <2>1 DEF Issued, Saving
<1>3. \A c \in Clients : CacheSound(c)'
  BY <1>1 DEF CacheSound, Recent
<1>4. \A p \in Callers : CallSound(p)'
  BY <1>1 DEF CallSound, Saving, Busy, Recovers, Suspect
<1> QED BY <1>2, <1>3, <1>4 DEF Retries

LEMMA StepRetries == IInv /\ Retries /\ [Next]_vars => Retries'
<1> SUFFICES ASSUME IInv, Retries, [Next]_vars PROVE Retries'
  OBVIOUS
<1>0. TypeOK /\ Exclusive
  BY DEF IInv, Safe
<1>1. CASE UNCHANGED <<now, file, cache, call, grants>>
  BY <1>1 DEF Retries, Issued, Shown, CacheSound, CallSound, Saving, Busy, Usable, Expired,
              Recovers, Suspect, Recent, Known, Replaced
<1>2. ASSUME NEW p \in Callers, GetToken(p) \/ Persist(p)
      PROVE  Retries'
  <2>1. CASE UseCached(p) \/ AdoptFile(p)
    BY <1>0, <2>1, UseCachedRetries, AdoptFileRetries
  <2>2. CASE BeginRefresh(p)
    <3>1. /\ UNCHANGED <<now, file, cache, grants>> /\ ~Usable(cache[ClientOf[p]])
          /\ call' = Asking(p, file.refresh, FALSE)
      BY <2>2 DEF BeginRefresh, upstream
    <3> QED BY <1>0, <3>1, BeginsRetries
  <2>3. CASE LoginRequired(p)
    BY <1>0, <2>3, FinishedRetries DEF LoginRequired, upstream
  <2>4. CASE Saved(p)
    BY <1>0, <2>4, SavedRetries
  <2>5. CASE SaveFails(p)
    BY <1>0, <2>5, FinishedRetries DEF SaveFails
  <2> QED BY <1>2, <2>1, <2>2, <2>3, <2>4, <2>5 DEF GetToken, Persist
<1>3. ASSUME NEW p \in Callers, ForceRefresh(p)
      PROVE  Retries'
  <2>1. CASE ForceCoalesced(p)
    BY <1>0, <2>1, CoalescedRetries
  <2>2. CASE ForceBegins(p) /\ file.refresh = 0
    BY <1>0, <2>2, FinishedRetries DEF ForceBegins, upstream
  <2>3. CASE ForceBegins(p) /\ file.refresh # 0
    <3>1. /\ UNCHANGED <<now, file, cache, grants>> /\ call[p].pc = "rejected"
          /\ call' = Asking(p, file.refresh, TRUE)
      BY <2>3 DEF ForceBegins, upstream
    <3>2. call[p].bad # 0
      BY <3>1 DEF Retries, CallSound, Recovers
    <3> QED BY <1>0, <3>1, <3>2, BeginsRetries
  <2> QED BY <1>3, <2>1, <2>2, <2>3 DEF ForceRefresh
<1>4. ASSUME NEW p \in Callers, Exchange(p) \/ Reply(p)
      PROVE  Retries'
  <2>1. CASE Answered(p)
    BY <1>0, <2>1, AnsweredRetries
  <2>2. CASE AnswerLost(p)
    BY <1>0, <2>2, FinishedRetries DEF AnswerLost, Spend
  <2>3. CASE Refused(p) \/ Accepted(p) \/ RejectedForGood(p) \/ ProbeRejected(p)
    BY <1>0, <2>3, FinishedRetries DEF Refused, Accepted, RejectedForGood, ProbeRejected, upstream
  <2>4. CASE Rejected(p)
    BY <1>0, <2>4, RejectedRetries
  <2> QED BY <1>4, <2>1, <2>2, <2>3, <2>4 DEF Exchange, Reply
<1>5. CASE PollApproved \/ CommandWrites
  BY <1>0, <1>5, LoginWritesRetries DEF PollApproved, CommandWrites
<1>6. CASE (\E c \in Clients : PollStarts(c)) \/ PollFails \/ UNCHANGED vars
  BY <1>1, <1>6 DEF PollStarts, PollFails, vars, upstream
<1>7. CASE Tick \/ Restart
  BY <1>0, <1>7, TickRetries, RestartRetries
<1> QED BY <1>2, <1>3, <1>4, <1>5, <1>6, <1>7 DEF Next, PollEnds

\* A step that sends the refused token again knows that a forced refresh minted it.
LEMMA SendsAnother ==
    ASSUME IInv, Retries, [Next]_vars, NEW p \in Callers,
           call[p].pc = "retry", call'[p].pc = "sent", call'[p].tok = call[p].bad
    PROVE  Known(ClientOf[p], call[p].bad)
<1>0. TypeOK /\ (Known(ClientOf[p], call[p].bad) \/ Replaced(ClientOf[p], call[p].bad))
  BY DEF IInv, Retries, CallSound
<1>1. CASE UseCached(p)
  <2>1. call'[p].tok = cache[ClientOf[p]].access
    BY <1>0, <1>1, Values, CallMoves DEF UseCached
  <2> QED BY <1>0, <2>1 DEF Replaced
<1>2. CASE AdoptFile(p)
  <2>1. call'[p].tok = file.access
    BY <1>0, <1>2, Values, CallMoves DEF AdoptFile
  <2> QED BY <1>0, <2>1 DEF Replaced
<1>3. ASSUME ~UseCached(p), ~AdoptFile(p) PROVE FALSE
  <2>1. ASSUME NEW q \in Callers,
               GetToken(q) \/ ForceRefresh(q) \/ Exchange(q) \/ Persist(q) \/ Reply(q)
        PROVE  FALSE
    <3>1. CASE q # p
      <4>1. Others(q)
        <5>1. CASE GetToken(q) \/ ForceRefresh(q) \/ Reply(q) \/ Refused(q)
          BY <1>0, <5>1, RequestEffects DEF Quiet, Rests, Begins
        <5>2. CASE Answered(q)
          BY <1>0, <5>2, CallTyped DEF Answered, Others, CallRecords
        <5>3. CASE AnswerLost(q) \/ SaveFails(q)
          BY <1>0, <5>3, CallMoves DEF AnswerLost, SaveFails
        <5>4. CASE Saved(q)
          BY <1>0, <5>4, SavedEffects DEF Others
        <5> QED BY <2>1, <5>1, <5>2, <5>3, <5>4 DEF Exchange, Persist
      <4> QED BY <3>1, <4>1 DEF Others
    <3>2. CASE q = p
      <4>1. BeginRefresh(p) \/ LoginRequired(p)
        BY <1>3, <2>1, <3>2
        DEF GetToken, ForceRefresh, ForceCoalesced, ForceBegins, Exchange, Answered, AnswerLost,
            Refused, Persist, Saved, SaveFails, Reply, Accepted, Rejected, RejectedForGood,
            ProbeRejected
      <4>2. call'[p].pc # "sent"
        <5>1. CASE BeginRefresh(p)
          <6>1. file.refresh \in Tokens /\ call' = Asking(p, file.refresh, FALSE)
            BY <1>0, <5>1 DEF BeginRefresh, TypeOK, Creds
          <6> QED BY <1>0, <6>1, CallMoves
        <5>2. CASE LoginRequired(p)
          BY <1>0, <5>2, CallMoves DEF LoginRequired, Idle
        <5> QED BY <4>1, <5>1, <5>2
      <4> QED BY <4>2
    <3> QED BY <3>1, <3>2
  <2>2. CASE PollEnds \/ CommandWrites \/ Tick \/ UNCHANGED vars \/ \E c \in Clients : PollStarts(c)
    BY <2>2 DEF PollEnds, PollApproved, PollFails, CommandWrites, LoginWrites, Tick, PollStarts, vars
  <2>3. CASE Restart
    BY <2>3 DEF Restart, Idle
  <2> QED BY <2>1, <2>2, <2>3 DEF Next
<1> QED BY <1>1, <1>2, <1>3

(* The retry that a 401 is worth carries another token than the one refused,   *)
(* or one that a forced refresh has just minted, whatever the siblings, other  *)
(* authenticators and login commands do meanwhile (recoverUnauthorized,        *)
(* recoverExpiredToken, ForceRefresh).                                         *)
THEOREM RetryIsWorthwhile == Spec => RetryCarriesNewToken
<1> DEFINE Worthwhile ==
      \A p \in Callers :
         call[p].pc = "retry" /\ call'[p].pc = "sent" /\ call'[p].tok = call[p].bad
             => /\ cache[ClientOf[p]].forcedAt >= 0
                /\ cache[ClientOf[p]].forced \in {0, call[p].bad}
<1>1. Init => Retries
  BY InitRetries
<1>2. IInv /\ Retries /\ [Next]_vars => Retries'
  BY StepRetries
<1>3. IInv /\ Retries /\ [Next]_vars => Worthwhile
  BY SendsAnother DEF Known
<1>4. IInv /\ Retries /\ [Next]_vars => [Worthwhile]_vars
  BY <1>3
<1> QED BY AlwaysIInv, <1>1, <1>2, <1>4, PTL DEF Spec, RetryCarriesNewToken
===============================================================================
