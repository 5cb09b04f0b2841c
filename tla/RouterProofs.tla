---------------------------- MODULE RouterProofs ----------------------------
(***************************************************************************)
(* Proofs about the dispatch walk, for every catalogue of models,          *)
(* deployments and fallbacks and any number of requests: its invariant,    *)
(* the safety properties that follow from it, and the refinement of        *)
(* Dispatch.                                                               *)
(***************************************************************************)
EXTENDS Router, SequenceTheorems, TLAPS

LEMMA QuotientIsNat ==
    ASSUME NEW t \in Nat, NEW m \in Nat \ {0}
    PROVE  t \div m \in Nat
OBVIOUS

USE CatalogAssumption

-----------------------------------------------------------------------------
(***************************************************************************)
(* The invariant of one walk, over its plain local state: q is the query,  *)
(* ph the phase, s the stack, sn the visited set, d the deployment at      *)
(* work and con the keys considered, that is called or skipped.            *)
(***************************************************************************)
Active == {"walking", "checked", "calling"}

Considered(r) == called[r] \cup skipped[r]

Allowed(q, sn) == sn \ q.blocked

\* The key admitted by the checks and not yet by the meter.
PendingKey(ph, s, d) ==
    IF ph = "checked" THEN {<<s[Len(s)].model, d>>} ELSE {}

\* A frame has considered exactly the candidates it is rid of.
FrameOK(f, q, sn, con, pend) ==
    /\ f.model \in Allowed(q, sn)
    /\ f.left \subseteq Candidates(f.model, q.mode)
    /\ \A x \in f.left : <<f.model, x>> \notin con \cup pend
    /\ \A x \in Candidates(f.model, q.mode) \ f.left :
          <<f.model, x>> \in con \cup pend
    /\ \A j \in DOMAIN FallbacksOf(f.model, q.mode) :
          j < f.fb => FallbacksOf(f.model, q.mode)[j] \in sn
    /\ f.hit => con # {} /\ ~Unconfigured(f.model, q.mode)

\* A caller waits for the walk of one of its fallbacks.
CallerOK(f, q) == f.left = {} /\ FallbacksOf(f.model, q.mode) # <<>>

\* Nothing is left to do for a model: the walk has returned from it.
Finished(m, q, sn, con) ==
    /\ \A x \in Candidates(m, q.mode) : <<m, x>> \in con
    /\ \A j \in DOMAIN FallbacksOf(m, q.mode) :
          FallbacksOf(m, q.mode)[j] \in sn

\* The visited models are reachable, and on the stack or finished.
VisitedOK(q, s, sn, con) ==
    /\ q.blocked \subseteq sn
    /\ q.entry \in Allowed(q, sn)
    /\ Allowed(q, sn) \subseteq Reachable(q)
    /\ \A m \in Allowed(q, sn) :
          (\E i \in DOMAIN s : s[i].model = m) \/ Finished(m, q, sn, con)

StackOK(q, s, sn, con, pend) ==
    /\ s # <<>>
    /\ \A i \in DOMAIN s : FrameOK(s[i], q, sn, con, pend)
    /\ \A i \in DOMAIN s : i < Len(s) => CallerOK(s[i], q)
    /\ \A i, j \in DOMAIN s : s[i].model = s[j].model => i = j

\* Every key considered is a candidate of a model that was visited.
KeysOK(q, sn, keys) ==
    \A k \in keys :
        k[1] \in Allowed(q, sn) /\ k[2] \in Candidates(k[1], q.mode)

\* A chat walk that considered a deployment remembers a limit in some frame.
LimitOK(q, ph, s, con) ==
    q.mode \in {"complete", "stream"} /\ ph \in {"walking", "checked"}
      /\ con # {} => \E i \in DOMAIN s : s[i].hit

WalkOK(q, ph, s, sn, d, con) ==
    LET pend == PendingKey(ph, s, d)
    IN  /\ VisitedOK(q, s, sn, con)
        /\ StackOK(q, s, sn, con, pend)
        /\ KeysOK(q, sn, con \cup pend)
        /\ pend \cap con = {}
        /\ ph = "calling" => <<s[Len(s)].model, d>> \in con
        /\ LimitOK(q, ph, s, con)

(***************************************************************************)
(* The invariant of one request, v being its verdict, and of the system.   *)
(***************************************************************************)
RequestOK(q, ph, s, sn, d, con, v) ==
    /\ s # <<>> <=> ph \in Active
    /\ ph \in Active => WalkOK(q, ph, s, sn, d, con)
    /\ ph = "serving" => v.kind = "served" /\ v.key \in DepKeys
    /\ ph = "idle" => con = {}
    /\ \A k \in con : k[1] \notin q.blocked
    /\ ph = "done" /\ v.kind \in {"rate_limit", "all_failed", "no_deployment"}
         => Offered(q) = con
    /\ ph = "done" /\ v.kind \in {"all_failed", "no_deployment"}
         /\ q.mode \in {"complete", "stream"} => con = {}

LocalOK(r) ==
    RequestOK(request[r], phase[r], stack[r], seen[r], trying[r],
              Considered(r), verdict[r])

IInv == TypeOK /\ \A r \in Requests : LocalOK(r)

-----------------------------------------------------------------------------
(***************************************************************************)
(* Stacks.                                                                 *)
(***************************************************************************)
Stacks == Seq(Frame)

LEMMA TopIsFrame ==
    ASSUME NEW s \in Stacks, s # <<>>
    PROVE  /\ Len(s) \in Nat \ {0}
           /\ DOMAIN s = 1 .. Len(s)
           /\ s[Len(s)] \in Frame
           /\ \A i \in DOMAIN s : s[i] \in Frame
BY DEF Stacks

LEMMA StackDomain ==
    ASSUME NEW s \in Stacks
    PROVE  DOMAIN s = 1 .. Len(s) /\ (Len(s) > 0 => s # <<>>)
BY DEF Stacks

LEMMA ReplaceTop ==
    ASSUME NEW s \in Stacks, s # <<>>, NEW g \in Frame, NEW t,
           t = [s EXCEPT ![Len(s)] = g]
    PROVE  /\ t \in Stacks
           /\ t # <<>>
           /\ Len(t) = Len(s)
           /\ DOMAIN t = DOMAIN s
           /\ t[Len(s)] = g
           /\ \A i \in DOMAIN s : i # Len(s) => t[i] = s[i]
BY DEF Stacks

\* t is s with g on top, and h pushed.
Pushed(s, g, h, t) ==
    /\ t \in Stacks /\ t # <<>>
    /\ Len(s) \in DOMAIN s
    /\ Len(t) \notin DOMAIN s
    /\ DOMAIN t = DOMAIN s \cup {Len(t)}
    /\ t[Len(t)] = h
    /\ t[Len(s)] = g
    /\ \A i \in DOMAIN s : i # Len(s) => i < Len(s) /\ t[i] = s[i]

LEMMA PushFrame ==
    ASSUME NEW s \in Stacks, s # <<>>, NEW g \in Frame, NEW h \in Frame
    PROVE  Pushed(s, g, h, Append([s EXCEPT ![Len(s)] = g], h))
<1> DEFINE u == [s EXCEPT ![Len(s)] = g]
           t == Append(u, h)
<1>1. /\ u \in Stacks
      /\ Len(u) = Len(s)
      /\ DOMAIN u = 1 .. Len(s)
      /\ Len(s) \in Nat \ {0}
      /\ DOMAIN s = 1 .. Len(s)
      /\ u[Len(s)] = g
      /\ \A i \in DOMAIN s : i # Len(s) => u[i] = s[i]
  BY ReplaceTop, TopIsFrame
<1> HIDE DEF u
<1>2. /\ t \in Stacks
      /\ Len(t) = Len(s) + 1
      /\ \A i \in 1 .. Len(s) : t[i] = u[i]
      /\ t[Len(s) + 1] = h
  BY <1>1 DEF Stacks
<1> HIDE DEF t
<1>3. t # <<>> /\ DOMAIN t = 1 .. Len(s) + 1
  BY <1>1, <1>2, StackDomain
<1>4. DOMAIN t = DOMAIN s \cup {Len(t)} /\ Len(t) \notin DOMAIN s
  BY <1>1, <1>2, <1>3
<1>5. Pushed(s, g, h, t)
  BY <1>1, <1>2, <1>3, <1>4 DEF Pushed
<1>6. QED
  BY <1>5 DEF t, u

\* t is s without its top frame, and g on top of the rest.
Popped(s, g, t) ==
    /\ t \in Stacks /\ t # <<>>
    /\ Len(s) \in DOMAIN s
    /\ Len(t) \in DOMAIN t
    /\ Len(t) = Len(s) - 1
    /\ DOMAIN t = DOMAIN s \ {Len(s)}
    /\ t[Len(t)] = g
    /\ \A i \in DOMAIN t : i # Len(t) => i < Len(t) /\ t[i] = s[i]

LEMMA PopFrame ==
    ASSUME NEW s \in Stacks, Len(s) > 1, NEW g \in Frame
    PROVE  Popped(s, g, [SubSeq(s, 1, Len(s) - 1) EXCEPT ![Len(s) - 1] = g])
<1> DEFINE n == Len(s) - 1
           u == SubSeq(s, 1, n)
           t == [u EXCEPT ![n] = g]
<1>0. Len(s) \in Nat /\ DOMAIN s = 1 .. Len(s) /\ s # <<>>
  BY DEF Stacks
<1>a. \A i \in 1 .. Len(s) : s[i] \in Frame
  BY <1>0, TopIsFrame
<1>1. /\ n \in Nat \ {0}
      /\ n < Len(s)
      /\ \A i \in 1 .. n : s[i] \in Frame
      /\ DOMAIN s = 1 .. n + 1
  BY <1>0, <1>a
<1> HIDE DEF n
<1>2. /\ u \in Seq(Frame)
      /\ Len(u) = n
      /\ \A i \in 1 .. n : u[i] = s[i]
  BY <1>1, SubSeqProperties
<1> HIDE DEF u
<1>3. u # <<>> /\ u \in Stacks /\ DOMAIN u = 1 .. n
  BY <1>1, <1>2, StackDomain DEF Stacks
<1>4. /\ t \in Stacks
      /\ t # <<>>
      /\ Len(t) = n
      /\ DOMAIN t = 1 .. n
      /\ t[n] = g
      /\ \A i \in 1 .. n : i # n => t[i] = u[i]
  <2>1. u \in Stacks /\ u # <<>> /\ t = [u EXCEPT ![Len(u)] = g]
    BY <1>2, <1>3
  <2> HIDE DEF t
  <2>2. /\ t \in Stacks
        /\ t # <<>>
        /\ Len(t) = Len(u)
        /\ DOMAIN t = DOMAIN u
        /\ t[Len(u)] = g
        /\ \A i \in DOMAIN u : i # Len(u) => t[i] = u[i]
    BY <2>1, ReplaceTop
  <2>3. QED
    BY <1>2, <1>3, <2>2
<1> HIDE DEF t
<1>5. DOMAIN t = DOMAIN s \ {Len(s)} /\ Len(s) \in DOMAIN s
  BY <1>0, <1>1, <1>4 DEF n
<1>6. Len(t) \in DOMAIN t
        /\ \A i \in DOMAIN t : i # Len(t) => i < Len(t) /\ t[i] = s[i]
  BY <1>1, <1>2, <1>4
<1>7. Popped(s, g, t)
  BY <1>1, <1>4, <1>5, <1>6 DEF Popped, n
<1>8. QED
  BY <1>7 DEF t, u, n

LEMMA OneFrame ==
    ASSUME NEW g \in Frame
    PROVE  /\ <<g>> \in Stacks
           /\ <<g>> # <<>>
           /\ Len(<<g>>) = 1
           /\ DOMAIN <<g>> = {1}
           /\ <<g>>[1] = g
BY DEF Stacks

(***************************************************************************)
(* Frames.                                                                 *)
(***************************************************************************)
LEMMA NoteIsNat ==
    ASSUME NEW x \in Nat, NEW w \in Nat
    PROVE  Note(x, w) \in Nat
BY DEF Note

LEMMA LimitedFrame ==
    ASSUME NEW f \in Frame, NEW w \in Nat
    PROVE  /\ Limited(f, w) \in Frame
           /\ Limited(f, w).model = f.model
           /\ Limited(f, w).left = f.left
           /\ Limited(f, w).fb = f.fb
           /\ Limited(f, w).hit = TRUE
<1>1. Note(f.soonest, w) \in Nat
  BY NoteIsNat DEF Frame
<1>2. Limited(f, w) = [f EXCEPT !.hit = TRUE, !.soonest = Note(f.soonest, w)]
  BY DEF Limited
<1>3. QED
  BY <1>1, <1>2 DEF Frame

LEMMA ModesAre ==
    Modes = {"complete", "stream", "passthrough", "embed", "image"}
BY DEF Modes

LEMMA CandidatesAreDeps ==
    ASSUME NEW m \in Models, NEW mode \in Modes
    PROVE  /\ Candidates(m, mode) \subseteq Deps
           /\ Candidates(m, mode) # {} => ~Unconfigured(m, mode)
BY DEF Candidates, Unconfigured

LEMMA FallbacksAreModels ==
    ASSUME NEW m \in Models, NEW mode \in Modes
    PROVE  /\ FallbacksOf(m, mode) \in Seq(Models)
           /\ FallbacksOf(m, mode) # <<>> => ~Unconfigured(m, mode)
<1>1. CASE Walks(mode) /\ m \in DOMAIN Fallbacks
  BY <1>1 DEF FallbacksOf, Unconfigured
<1>2. CASE ~(Walks(mode) /\ m \in DOMAIN Fallbacks)
  <2>1. FallbacksOf(m, mode) = <<>>
    BY <1>2 DEF FallbacksOf
  <2>2. QED
    BY <2>1
<1>3. QED
  BY <1>1, <1>2

LEMMA NewFrameIsFrame ==
    ASSUME NEW m \in Models, NEW mode \in Modes
    PROVE  /\ NewFrame(m, mode) \in Frame
           /\ NewFrame(m, mode).model = m
           /\ NewFrame(m, mode).left = Candidates(m, mode)
           /\ NewFrame(m, mode).fb = 1
           /\ NewFrame(m, mode).hit = FALSE
BY CandidatesAreDeps DEF NewFrame, Frame

\* The next fallback of a frame that has one.
LEMMA FallbackInRange ==
    ASSUME NEW f \in Frame, NEW mode \in Modes,
           f.fb <= Len(FallbacksOf(f.model, mode))
    PROVE  /\ f.fb \in DOMAIN FallbacksOf(f.model, mode)
           /\ FallbacksOf(f.model, mode)[f.fb] \in Models
           /\ FallbacksOf(f.model, mode) # <<>>
<1>1. /\ FallbacksOf(f.model, mode) \in Seq(Models)
      /\ f.fb \in Nat \ {0}
  BY FallbacksAreModels DEF Frame
<1>2. QED
  BY <1>1

LEMMA FallbacksExhausted ==
    ASSUME NEW f \in Frame, NEW mode \in Modes,
           f.fb > Len(FallbacksOf(f.model, mode)),
           NEW j \in DOMAIN FallbacksOf(f.model, mode)
    PROVE  j < f.fb
<1>1. /\ FallbacksOf(f.model, mode) \in Seq(Models)
      /\ f.fb \in Nat \ {0}
  BY FallbacksAreModels DEF Frame
<1>2. QED
  BY <1>1

-----------------------------------------------------------------------------
(***************************************************************************)
(* Every change of the top frame alone, with the keys considered growing   *)
(* at most by keys of its model, keeps the rest of the walk in order.      *)
(***************************************************************************)
TopStep(q, s, sn, con, pend, g, con2, pend2) ==
    /\ VisitedOK(q, s, sn, con) /\ StackOK(q, s, sn, con, pend)
    /\ con \subseteq con2
    /\ \A m \in Models, x \in Deps : m # s[Len(s)].model =>
          (<<m, x>> \in con \cup pend <=> <<m, x>> \in con2 \cup pend2)
    /\ g.model = s[Len(s)].model
    /\ FrameOK(g, q, sn, con2, pend2)

LEMMA TopChange ==
    ASSUME NEW q \in Query, NEW s \in Stacks, NEW sn \in SUBSET Models,
           NEW con, NEW pend, NEW con2, NEW pend2,
           NEW g \in Frame, NEW t, t = [s EXCEPT ![Len(s)] = g],
           TopStep(q, s, sn, con, pend, g, con2, pend2)
    PROVE  t \in Stacks /\ VisitedOK(q, t, sn, con2)
             /\ StackOK(q, t, sn, con2, pend2)
<1>0. s # <<>> /\ q.mode \in Modes
  BY DEF TopStep, StackOK, Query
<1>1. /\ Len(s) \in Nat \ {0}
      /\ DOMAIN s = 1 .. Len(s)
      /\ \A i \in DOMAIN s : s[i] \in Frame
  BY <1>0, TopIsFrame
<1>2. /\ t \in Stacks
      /\ t # <<>>
      /\ Len(t) = Len(s)
      /\ DOMAIN t = DOMAIN s
      /\ t[Len(s)] = g
      /\ \A i \in DOMAIN s : i # Len(s) => t[i] = s[i]
  BY <1>0, ReplaceTop
<1>3. \A i \in DOMAIN s : t[i].model = s[i].model
  BY <1>1, <1>2 DEF TopStep
<1>4. VisitedOK(q, t, sn, con2)
  <2>1. ASSUME NEW m \in Allowed(q, sn), Finished(m, q, sn, con)
        PROVE  Finished(m, q, sn, con2)
    BY <2>1 DEF TopStep, Finished
  <2>2. QED
    BY <1>2, <1>3, <2>1 DEF TopStep, VisitedOK
<1>5. ASSUME NEW i \in DOMAIN t
      PROVE  FrameOK(t[i], q, sn, con2, pend2)
  <2>1. CASE i = Len(s)
    BY <1>2, <2>1 DEF TopStep
  <2>2. CASE i # Len(s)
    <3>1. t[i] = s[i] /\ FrameOK(s[i], q, sn, con, pend)
      BY <1>2, <2>2 DEF TopStep, StackOK
    <3>2. s[i].model # s[Len(s)].model
      BY <1>1, <1>2, <2>2 DEF TopStep, StackOK
    <3>3. /\ s[i].model \in Models
          /\ s[i].left \subseteq Deps
          /\ Candidates(s[i].model, q.mode) \subseteq Deps
      BY <1>0, <1>1, <1>2, CandidatesAreDeps DEF Frame
    <3>4. \A x \in Deps : <<s[i].model, x>> \in con \cup pend
                            <=> <<s[i].model, x>> \in con2 \cup pend2
      BY <3>2, <3>3 DEF TopStep
    <3>5. QED
      BY <3>1, <3>3, <3>4 DEF TopStep, FrameOK
  <2>3. QED
    BY <2>1, <2>2
<1>6. StackOK(q, t, sn, con2, pend2)
  BY <1>1, <1>2, <1>3, <1>5 DEF TopStep, StackOK
<1>7. QED
  BY <1>2, <1>4, <1>6

\* What the invariant says of the frame on top.
LEMMA TopOK ==
    ASSUME NEW q \in Query, NEW s \in Stacks, NEW sn, NEW con, NEW pend,
           StackOK(q, s, sn, con, pend)
    PROVE  /\ s # <<>>
           /\ q.mode \in Modes
           /\ Len(s) \in DOMAIN s
           /\ s[Len(s)] \in Frame
           /\ s[Len(s)].model \in Models
           /\ s[Len(s)].left \subseteq Deps
           /\ s[Len(s)].fb \in Nat \ {0}
           /\ FrameOK(s[Len(s)], q, sn, con, pend)
<1>1. s # <<>> /\ q.mode \in Modes
  BY DEF StackOK, Query
<1>2. Len(s) \in DOMAIN s /\ s[Len(s)] \in Frame
  BY <1>1, TopIsFrame
<1>3. QED
  BY <1>1, <1>2 DEF StackOK, Frame

LEMMA WalkSkipsParked ==
    ASSUME NEW q \in Query, NEW s \in Stacks, NEW sn \in SUBSET Models,
           NEW d, NEW con, WalkOK(q, "walking", s, sn, d, con),
           NEW f, f = s[Len(s)], NEW x \in f.left, NEW w \in Nat,
           NEW g, g = [Limited(f, w) EXCEPT !.left = f.left \ {x}],
           NEW t, t = [s EXCEPT ![Len(s)] = g]
    PROVE  t \in Stacks
             /\ WalkOK(q, "walking", t, sn, d, con \cup {<<f.model, x>>})
<1> DEFINE con2 == con \cup {<<f.model, x>>}
<1>1. /\ VisitedOK(q, s, sn, con)
      /\ StackOK(q, s, sn, con, {})
      /\ KeysOK(q, sn, con)
      /\ LimitOK(q, "walking", s, con)
  BY DEF WalkOK, PendingKey
<1>2. /\ q.mode \in Modes
      /\ s # <<>>
      /\ Len(s) \in DOMAIN s
      /\ f \in Frame
      /\ f.left \subseteq Deps
      /\ f.model \in Models
      /\ FrameOK(f, q, sn, con, {})
  BY <1>1, TopOK
<1>3. /\ g \in Frame
      /\ g.model = f.model
      /\ g.left = f.left \ {x}
      /\ g.fb = f.fb
      /\ g.hit = TRUE
  <2> DEFINE h == Limited(f, w)
  <2>1. /\ h \in Frame
        /\ h.model = f.model
        /\ h.fb = f.fb
        /\ h.hit = TRUE
    BY <1>2, LimitedFrame
  <2>2. g = [h EXCEPT !.left = f.left \ {x}]
    OBVIOUS
  <2> HIDE DEF h
  <2>3. QED
    BY <1>2, <2>1, <2>2 DEF Frame
<1>4. x \in Candidates(f.model, q.mode) /\ f.model \in Allowed(q, sn)
  BY <1>2 DEF FrameOK
<1>5. FrameOK(g, q, sn, con2, {})
  <2>1. ~Unconfigured(f.model, q.mode)
    BY <1>2, <1>4, CandidatesAreDeps
  <2>2. QED
    BY <1>2, <1>3, <1>4, <2>1 DEF FrameOK
<1>6. t \in Stacks /\ VisitedOK(q, t, sn, con2) /\ StackOK(q, t, sn, con2, {})
  <2>1. TopStep(q, s, sn, con, {}, g, con2, {})
    BY <1>1, <1>3, <1>5 DEF TopStep
  <2> HIDE DEF con2
  <2>2. QED
    BY <1>3, <2>1, TopChange
<1>7. KeysOK(q, sn, con2)
  BY <1>1, <1>4 DEF KeysOK
<1>8. LimitOK(q, "walking", t, con2)
  BY <1>2, <1>3, ReplaceTop DEF LimitOK
<1>9. QED
  BY <1>6, <1>7, <1>8 DEF WalkOK, PendingKey

LEMMA KeyProjections ==
    ASSUME NEW m, NEW x
    PROVE  <<m, x>>[1] = m /\ <<m, x>>[2] = x
OBVIOUS

LEMMA OneMoreKey ==
    ASSUME NEW q, NEW sn, NEW keys, KeysOK(q, sn, keys),
           NEW m \in Allowed(q, sn), NEW x \in Candidates(m, q.mode)
    PROVE  KeysOK(q, sn, keys \cup {<<m, x>>})
BY KeyProjections DEF KeysOK

LEMMA KeyIsOK ==
    ASSUME NEW q, NEW sn, NEW keys, KeysOK(q, sn, keys),
           NEW m, NEW x, <<m, x>> \in keys
    PROVE  m \in Allowed(q, sn) /\ x \in Candidates(m, q.mode)
BY KeyProjections DEF KeysOK

\* The top frame written back as it is.
LEMMA SameTop ==
    ASSUME NEW s \in Stacks, s # <<>>
    PROVE  s = [s EXCEPT ![Len(s)] = s[Len(s)]]
BY DEF Stacks

LEMMA WalkPassesCheck ==
    ASSUME NEW q \in Query, NEW s \in Stacks, NEW sn \in SUBSET Models,
           NEW d, NEW con, WalkOK(q, "walking", s, sn, d, con),
           NEW f, f = s[Len(s)], NEW x \in f.left,
           NEW g, g = [f EXCEPT !.left = f.left \ {x}],
           NEW t, t = [s EXCEPT ![Len(s)] = g]
    PROVE  t \in Stacks /\ WalkOK(q, "checked", t, sn, x, con)
<1> DEFINE pend2 == {<<f.model, x>>}
<1>1. /\ VisitedOK(q, s, sn, con)
      /\ StackOK(q, s, sn, con, {})
      /\ KeysOK(q, sn, con)
      /\ LimitOK(q, "walking", s, con)
  BY DEF WalkOK, PendingKey
<1>2. /\ q.mode \in Modes
      /\ s # <<>>
      /\ Len(s) \in DOMAIN s
      /\ f \in Frame
      /\ f.left \subseteq Deps
      /\ f.model \in Models
      /\ FrameOK(f, q, sn, con, {})
  BY <1>1, TopOK
<1>3. /\ g \in Frame
      /\ g.model = f.model
      /\ g.left = f.left \ {x}
      /\ g.fb = f.fb
      /\ g.hit = f.hit
  BY <1>2 DEF Frame
<1>4. /\ x \in Candidates(f.model, q.mode)
      /\ f.model \in Allowed(q, sn)
      /\ <<f.model, x>> \notin con
  BY <1>2 DEF FrameOK
<1>5. FrameOK(g, q, sn, con, pend2)
  BY <1>2, <1>3, <1>4 DEF FrameOK
<1>6. t \in Stacks /\ VisitedOK(q, t, sn, con) /\ StackOK(q, t, sn, con, pend2)
  <2>1. TopStep(q, s, sn, con, {}, g, con, pend2)
    BY <1>1, <1>3, <1>5 DEF TopStep
  <2> HIDE DEF pend2
  <2>2. QED
    BY <1>3, <2>1, TopChange
<1>7. /\ Len(t) = Len(s)
      /\ DOMAIN t = DOMAIN s
      /\ t[Len(s)] = g
      /\ \A i \in DOMAIN s : i # Len(s) => t[i] = s[i]
  BY <1>2, <1>3, ReplaceTop
<1>8. PendingKey("checked", t, x) = pend2
  BY <1>3, <1>7 DEF PendingKey
<1>9. KeysOK(q, sn, con \cup pend2) /\ pend2 \cap con = {}
  BY <1>1, <1>4, OneMoreKey
<1>10. LimitOK(q, "checked", t, con)
  BY <1>1, <1>3, <1>7 DEF LimitOK
<1> HIDE DEF pend2
<1>11. QED
  BY <1>6, <1>8, <1>9, <1>10 DEF WalkOK

\* The meter refuses: the key becomes a considered one.
LEMMA WalkSkipsOverCap ==
    ASSUME NEW q \in Query, NEW s \in Stacks, NEW sn \in SUBSET Models,
           NEW d, NEW con, WalkOK(q, "checked", s, sn, d, con),
           NEW f, f = s[Len(s)], NEW g, g = Limited(f, 0),
           NEW t, t = [s EXCEPT ![Len(s)] = g]
    PROVE  t \in Stacks
             /\ WalkOK(q, "walking", t, sn, d, con \cup {<<f.model, d>>})
<1> DEFINE pend == {<<f.model, d>>}
           con2 == con \cup pend
<1>1. /\ VisitedOK(q, s, sn, con)
      /\ StackOK(q, s, sn, con, pend)
      /\ KeysOK(q, sn, con2)
  BY DEF WalkOK, PendingKey
<1>2. /\ q.mode \in Modes
      /\ s # <<>>
      /\ Len(s) \in DOMAIN s
      /\ f \in Frame
      /\ f.left \subseteq Deps
      /\ f.model \in Models
      /\ FrameOK(f, q, sn, con, pend)
  BY <1>1, TopOK
<1>3. /\ g \in Frame
      /\ g.model = f.model
      /\ g.left = f.left
      /\ g.fb = f.fb
      /\ g.hit = TRUE
  BY <1>2, LimitedFrame
<1>4. /\ d \in Candidates(f.model, q.mode)
      /\ f.model \in Allowed(q, sn)
  <2>1. <<f.model, d>> \in con2
    OBVIOUS
  <2> HIDE DEF con2
  <2>2. QED
    BY <1>1, <2>1, KeyIsOK
<1>5. FrameOK(g, q, sn, con2, {})
  <2>1. ~Unconfigured(f.model, q.mode)
    BY <1>2, <1>4, CandidatesAreDeps
  <2>2. QED
    BY <1>2, <1>3, <1>4, <2>1 DEF FrameOK
<1>6. t \in Stacks /\ VisitedOK(q, t, sn, con2) /\ StackOK(q, t, sn, con2, {})
  <2>1. TopStep(q, s, sn, con, pend, g, con2, {})
    BY <1>1, <1>3, <1>5 DEF TopStep
  <2> HIDE DEF pend, con2
  <2>2. QED
    BY <1>3, <2>1, TopChange
<1>7. LimitOK(q, "walking", t, con2)
  BY <1>2, <1>3, ReplaceTop DEF LimitOK
<1> HIDE DEF con2
<1>8. WalkOK(q, "walking", t, sn, d, con2)
  BY <1>1, <1>6, <1>7 DEF WalkOK, PendingKey
<1>9. QED
  BY <1>6, <1>8 DEF con2

\* The meter admits: the key is called, and considered from now on.
LEMMA WalkDispatches ==
    ASSUME NEW q \in Query, NEW s \in Stacks, NEW sn \in SUBSET Models,
           NEW d, NEW con, WalkOK(q, "checked", s, sn, d, con)
    PROVE  WalkOK(q, "calling", s, sn, d, con \cup {<<s[Len(s)].model, d>>})
<1> DEFINE f == s[Len(s)]
           pend == {<<f.model, d>>}
           con2 == con \cup pend
<1>1. /\ VisitedOK(q, s, sn, con)
      /\ StackOK(q, s, sn, con, pend)
      /\ KeysOK(q, sn, con2)
  BY DEF WalkOK, PendingKey
<1>2. /\ s # <<>>
      /\ f \in Frame
      /\ FrameOK(f, q, sn, con, pend)
  BY <1>1, TopOK
<1>3. FrameOK(f, q, sn, con2, {})
  BY <1>2 DEF FrameOK
<1>4. VisitedOK(q, s, sn, con2) /\ StackOK(q, s, sn, con2, {})
  <2>1. TopStep(q, s, sn, con, pend, f, con2, {})
    BY <1>1, <1>3 DEF TopStep
  <2>2. s = [s EXCEPT ![Len(s)] = f]
    BY <1>2, SameTop
  <2> HIDE DEF pend, con2, f
  <2>3. QED
    BY <1>2, <2>1, <2>2, TopChange
<1>5. <<f.model, d>> \in con2
  OBVIOUS
<1>6. LimitOK(q, "calling", s, con2)
  BY DEF LimitOK
<1> HIDE DEF con2
<1>7. WalkOK(q, "calling", s, sn, d, con2)
  BY <1>1, <1>4, <1>5, <1>6 DEF WalkOK, PendingKey
<1>8. QED
  BY <1>7 DEF con2

\* The call failed and the loop goes on, with or without a note of it.
LEMMA WalkRetries ==
    ASSUME NEW q \in Query, NEW s \in Stacks, NEW sn \in SUBSET Models,
           NEW d, NEW con, WalkOK(q, "calling", s, sn, d, con),
           NEW w \in Nat, NEW g, g = Limited(s[Len(s)], w),
           NEW t, t = [s EXCEPT ![Len(s)] = g]
    PROVE  t \in Stacks /\ WalkOK(q, "walking", t, sn, d, con)
<1> DEFINE f == s[Len(s)]
<1>1. /\ VisitedOK(q, s, sn, con)
      /\ StackOK(q, s, sn, con, {})
      /\ KeysOK(q, sn, con)
      /\ <<f.model, d>> \in con
  BY DEF WalkOK, PendingKey
<1>2. /\ q.mode \in Modes
      /\ s # <<>>
      /\ Len(s) \in DOMAIN s
      /\ f \in Frame
      /\ f.model \in Models
      /\ FrameOK(f, q, sn, con, {})
  BY <1>1, TopOK
<1>3. /\ g \in Frame
      /\ g.model = f.model
      /\ g.left = f.left
      /\ g.fb = f.fb
      /\ g.hit = TRUE
  BY <1>2, LimitedFrame
<1>4. d \in Candidates(f.model, q.mode)
  BY <1>1, KeyIsOK
<1>5. FrameOK(g, q, sn, con, {})
  <2>1. ~Unconfigured(f.model, q.mode)
    BY <1>2, <1>4, CandidatesAreDeps
  <2>2. QED
    BY <1>1, <1>2, <1>3, <2>1 DEF FrameOK
<1>6. t \in Stacks /\ VisitedOK(q, t, sn, con) /\ StackOK(q, t, sn, con, {})
  <2>1. TopStep(q, s, sn, con, {}, g, con, {})
    BY <1>1, <1>3, <1>5 DEF TopStep
  <2>2. QED
    BY <1>3, <2>1, TopChange
<1>7. LimitOK(q, "walking", t, con)
  BY <1>2, <1>3, ReplaceTop DEF LimitOK
<1>8. QED
  BY <1>1, <1>6, <1>7 DEF WalkOK, PendingKey

LEMMA WalkForgets ==
    ASSUME NEW q \in Query, NEW s \in Stacks, NEW sn, NEW d, NEW con,
           WalkOK(q, "calling", s, sn, d, con),
           q.mode \in {"embed", "image", "passthrough"}
    PROVE  WalkOK(q, "walking", s, sn, d, con)
BY DEF WalkOK, PendingKey, LimitOK

\* The next fallback was visited before.
LEMMA WalkPassesFallback ==
    ASSUME NEW q \in Query, NEW s \in Stacks, NEW sn \in SUBSET Models,
           NEW d, NEW con, WalkOK(q, "walking", s, sn, d, con),
           NEW f, f = s[Len(s)],
           f.fb <= Len(FallbacksOf(f.model, q.mode)),
           FallbacksOf(f.model, q.mode)[f.fb] \in sn,
           NEW g, g = [f EXCEPT !.fb = f.fb + 1],
           NEW t, t = [s EXCEPT ![Len(s)] = g]
    PROVE  t \in Stacks /\ WalkOK(q, "walking", t, sn, d, con)
<1>1. /\ VisitedOK(q, s, sn, con)
      /\ StackOK(q, s, sn, con, {})
      /\ KeysOK(q, sn, con)
      /\ LimitOK(q, "walking", s, con)
  BY DEF WalkOK, PendingKey
<1>2. /\ q.mode \in Modes
      /\ s # <<>>
      /\ f \in Frame
      /\ f.fb \in Nat \ {0}
      /\ f.model \in Models
      /\ FrameOK(f, q, sn, con, {})
  BY <1>1, TopOK
<1>3. /\ g \in Frame
      /\ g.model = f.model
      /\ g.left = f.left
      /\ g.fb = f.fb + 1
      /\ g.hit = f.hit
  <2>1. f.fb + 1 \in Nat \ {0}
    BY <1>2
  <2>2. QED
    BY <1>2, <2>1 DEF Frame
<1>4. FrameOK(g, q, sn, con, {})
  <2>1. ASSUME NEW j \in DOMAIN FallbacksOf(f.model, q.mode), j < f.fb + 1
        PROVE  FallbacksOf(f.model, q.mode)[j] \in sn
    <3>1. j \in Nat
      BY <1>2, FallbacksAreModels
    <3>2. j = f.fb \/ j < f.fb
      BY <1>2, <2>1, <3>1
    <3>3. QED
      BY <1>2, <3>2 DEF FrameOK
  <2>2. QED
    BY <1>2, <1>3, <2>1 DEF FrameOK
<1>5. t \in Stacks /\ VisitedOK(q, t, sn, con) /\ StackOK(q, t, sn, con, {})
  <2>1. TopStep(q, s, sn, con, {}, g, con, {})
    BY <1>1, <1>3, <1>4 DEF TopStep
  <2>2. QED
    BY <1>3, <2>1, TopChange
<1>6. LimitOK(q, "walking", t, con)
  BY <1>1, <1>2, <1>3, ReplaceTop DEF LimitOK
<1>7. QED
  BY <1>1, <1>5, <1>6 DEF WalkOK, PendingKey

-----------------------------------------------------------------------------
(***************************************************************************)
(* Reachable models: the entry, the allowed fallbacks of reachable models, *)
(* and nothing that a closed set does not force.                           *)
(***************************************************************************)
LEMMA EntryReachable ==
    ASSUME NEW q \in Query
    PROVE  q.entry \in Reachable(q)
BY DEF Reachable, Query

LEMMA FallbackReachable ==
    ASSUME NEW q \in Query, NEW m \in Reachable(q),
           NEW j \in DOMAIN FallbacksOf(m, q.mode),
           FallbacksOf(m, q.mode)[j] \in Models \ q.blocked
    PROVE  FallbacksOf(m, q.mode)[j] \in Reachable(q)
BY DEF Reachable, Closed

LEMMA ReachableIsLeast ==
    ASSUME NEW q \in Query, NEW C \in SUBSET Models,
           q.entry \in C, Closed(C, q)
    PROVE  Reachable(q) \subseteq C
BY DEF Reachable

-----------------------------------------------------------------------------
LEMMA WalkBegins ==
    ASSUME NEW q \in Query, q.entry \notin q.blocked, NEW d,
           NEW s, s = <<NewFrame(q.entry, q.mode)>>
    PROVE  s \in Stacks
             /\ WalkOK(q, "walking", s, q.blocked \cup {q.entry}, d, {})
<1> DEFINE f == NewFrame(q.entry, q.mode)
           sn == q.blocked \cup {q.entry}
<1>1. q.entry \in Models /\ q.mode \in Modes /\ q.blocked \subseteq Models
  BY DEF Query
<1>2. /\ f \in Frame
      /\ f.model = q.entry
      /\ f.left = Candidates(q.entry, q.mode)
      /\ f.fb = 1
      /\ f.hit = FALSE
  BY <1>1, NewFrameIsFrame
<1>3. FallbacksOf(q.entry, q.mode) \in Seq(Models)
  BY <1>1, FallbacksAreModels
<1> HIDE DEF f
<1>4. FrameOK(f, q, sn, {}, {})
  BY <1>1, <1>2, <1>3 DEF FrameOK, Allowed
<1>5. /\ s \in Stacks
      /\ s # <<>>
      /\ Len(s) = 1
      /\ DOMAIN s = {1}
      /\ s[1] = f
  BY <1>2, OneFrame DEF f
<1>6. StackOK(q, s, sn, {}, {})
  BY <1>4, <1>5 DEF StackOK
<1>7. Allowed(q, sn) = {q.entry}
  BY DEF Allowed
<1>8. VisitedOK(q, s, sn, {})
  BY <1>2, <1>5, <1>7, EntryReachable DEF VisitedOK
<1>9. QED
  BY <1>5, <1>6, <1>8 DEF WalkOK, PendingKey, KeysOK, LimitOK

LEMMA WalkEntersFallback ==
    ASSUME NEW q \in Query, NEW s \in Stacks, NEW sn \in SUBSET Models,
           NEW d, NEW con \in SUBSET DepKeys,
           WalkOK(q, "walking", s, sn, d, con),
           NEW f, f = s[Len(s)], f.left = {},
           f.fb <= Len(FallbacksOf(f.model, q.mode)),
           NEW m, m = FallbacksOf(f.model, q.mode)[f.fb], m \notin sn,
           NEW g, g = [f EXCEPT !.fb = f.fb + 1],
           NEW h \in Frame, h.model = m, h.fb = 1, h.hit = FALSE,
           h.left = Candidates(m, q.mode),
           NEW t, Pushed(s, g, h, t)
    PROVE  t \in Stacks /\ WalkOK(q, "walking", t, sn \cup {m}, d, con)
<1> DEFINE sn2 == sn \cup {m}
<1>1. /\ VisitedOK(q, s, sn, con)
      /\ StackOK(q, s, sn, con, {})
      /\ KeysOK(q, sn, con)
      /\ LimitOK(q, "walking", s, con)
  BY DEF WalkOK, PendingKey
<1>2. /\ q.mode \in Modes
      /\ s # <<>>
      /\ f \in Frame
      /\ f.fb \in Nat \ {0}
      /\ f.model \in Models
      /\ FrameOK(f, q, sn, con, {})
  BY <1>1, TopOK
<1>3. /\ f.fb \in DOMAIN FallbacksOf(f.model, q.mode)
      /\ m \in Models
      /\ FallbacksOf(f.model, q.mode) # <<>>
  BY <1>2, FallbackInRange
<1>4. m \in Allowed(q, sn2) /\ Allowed(q, sn2) = Allowed(q, sn) \cup {m}
  BY <1>1 DEF Allowed, VisitedOK
<1>6. /\ g \in Frame
      /\ g.model = f.model
      /\ g.left = {}
      /\ g.fb = f.fb + 1
      /\ g.hit = f.hit
  <2>1. f.fb + 1 \in Nat \ {0}
    BY <1>2
  <2>2. QED
    BY <1>2, <2>1 DEF Frame
<1> DEFINE top == Len(t)
<1>7. /\ t \in Stacks
      /\ t # <<>>
      /\ DOMAIN t = DOMAIN s \cup {top}
      /\ top \notin DOMAIN s
      /\ Len(s) \in DOMAIN s
      /\ t[top] = h
      /\ t[Len(s)] = g
      /\ \A i \in DOMAIN s : i # Len(s) => i < Len(s) /\ t[i] = s[i]
  BY DEF Pushed
<1> HIDE DEF top
<1>11. /\ \A i \in DOMAIN s : t[i].model = s[i].model
       /\ \A i \in DOMAIN s : t[i].hit = s[i].hit
  BY <1>6, <1>7
<1>12. FrameOK(h, q, sn2, con, {})
  <2>1. \A x \in h.left : <<m, x>> \notin con
    BY <1>1, KeyIsOK DEF Allowed
  <2>2. FallbacksOf(m, q.mode) \in Seq(Models)
    BY <1>2, <1>3, FallbacksAreModels
  <2>3. QED
    BY <1>4, <2>1, <2>2 DEF FrameOK
<1>13. FrameOK(g, q, sn2, con, {})
  <2>1. ASSUME NEW j \in DOMAIN FallbacksOf(f.model, q.mode), j < f.fb + 1
        PROVE  FallbacksOf(f.model, q.mode)[j] \in sn2
    <3>1. j \in Nat
      BY <1>2, FallbacksAreModels
    <3>2. j = f.fb \/ j < f.fb
      BY <1>2, <2>1, <3>1
    <3>3. QED
      BY <1>2, <3>2 DEF FrameOK
  <2>2. QED
    BY <1>2, <1>4, <1>6, <2>1 DEF FrameOK
<1>14. ASSUME NEW i \in DOMAIN t
       PROVE  FrameOK(t[i], q, sn2, con, {})
  <2>1. CASE i = top
    BY <1>7, <1>12, <2>1
  <2>2. CASE i = Len(s)
    BY <1>7, <1>13, <2>2
  <2>3. CASE i \in DOMAIN s /\ i # Len(s)
    <3>1. t[i] = s[i] /\ FrameOK(s[i], q, sn, con, {})
      BY <1>1, <1>7, <2>3 DEF StackOK
    <3>2. QED
      BY <1>4, <3>1 DEF FrameOK
  <2>4. QED
    BY <1>7, <2>1, <2>2, <2>3
<1>15. ASSUME NEW i \in DOMAIN t, i # top
       PROVE  CallerOK(t[i], q)
  <2>1. CASE i = Len(s)
    BY <1>3, <1>6, <1>7, <2>1 DEF CallerOK
  <2>2. CASE i # Len(s)
    <3>1. i \in DOMAIN s /\ i < Len(s) /\ t[i] = s[i]
      BY <1>7, <1>15, <2>2
    <3>2. QED
      BY <1>1, <3>1 DEF StackOK
  <2>3. QED
    BY <2>1, <2>2
<1>16. \A i \in DOMAIN s : t[i].model \in sn
  BY <1>1, <1>11 DEF StackOK, FrameOK, Allowed
<1>17. ASSUME NEW i \in DOMAIN t, NEW j \in DOMAIN t,
              t[i].model = t[j].model
       PROVE  i = j
  <2>1. CASE i \in DOMAIN s /\ j \in DOMAIN s
    BY <1>1, <1>11, <1>17, <2>1 DEF StackOK
  <2>2. ASSUME NEW k \in DOMAIN s
        PROVE  t[k].model # t[top].model
    BY <1>7, <1>16
  <2>3. QED
    BY <1>7, <1>17, <2>1, <2>2
<1>18. StackOK(q, t, sn2, con, {})
  <2>1. Len(t) \in Nat
    BY <1>7, TopIsFrame
  <2>2. \A i \in DOMAIN t : i < Len(t) => i # top
    BY <2>1 DEF top
  <2>3. QED
    BY <1>7, <1>14, <1>15, <1>17, <2>2 DEF StackOK
<1>19. VisitedOK(q, t, sn2, con)
  <2>1. m \in Reachable(q)
    <3>1. f.model \in Reachable(q)
      BY <1>1, <1>2 DEF VisitedOK, FrameOK
    <3>2. FallbacksOf(f.model, q.mode)[f.fb] \in Models \ q.blocked
      BY <1>3, <1>4 DEF Allowed
    <3>3. FallbacksOf(f.model, q.mode)[f.fb] \in Reachable(q)
      BY <1>3, <3>1, <3>2, FallbackReachable
    <3>4. QED
      BY <3>3
  <2>2. ASSUME NEW x \in Allowed(q, sn2)
        PROVE  (\E i \in DOMAIN t : t[i].model = x) \/ Finished(x, q, sn2, con)
    <3>1. CASE x = m
      BY <1>7, <3>1
    <3>2. CASE x \in Allowed(q, sn) /\ \E i \in DOMAIN s : s[i].model = x
      BY <1>7, <1>11, <3>2
    <3>3. CASE x \in Allowed(q, sn) /\ Finished(x, q, sn, con)
      BY <3>3 DEF Finished
    <3>4. QED
      BY <1>1, <1>4, <3>1, <3>2, <3>3 DEF VisitedOK
  <2>3. QED
    BY <1>1, <1>4, <2>1, <2>2 DEF VisitedOK
<1>20. KeysOK(q, sn2, con)
  BY <1>1, <1>4 DEF KeysOK
<1>21. LimitOK(q, "walking", t, con)
  BY <1>1, <1>7, <1>11 DEF LimitOK
<1> HIDE DEF sn2
<1>22. WalkOK(q, "walking", t, sn2, d, con)
  BY <1>18, <1>19, <1>20, <1>21 DEF WalkOK, PendingKey
<1>23. QED
  BY <1>7, <1>22 DEF sn2

\* The walk of a fallback is over; f.hit is handed to the caller.
LEMMA WalkReturns ==
    ASSUME NEW q \in Query, NEW s \in Stacks, NEW sn \in SUBSET Models,
           NEW d, NEW con, WalkOK(q, "walking", s, sn, d, con),
           NEW f, f = s[Len(s)], f.left = {},
           f.fb > Len(FallbacksOf(f.model, q.mode)),
           NEW t, NEW c, c = s[Len(t)],
           NEW g \in Frame, g.model = c.model, g.left = c.left, g.fb = c.fb,
           g.hit <=> c.hit \/ f.hit,
           Popped(s, g, t)
    PROVE  WalkOK(q, "walking", t, sn, d, con)
<1> DEFINE top == Len(t)
<1>1. /\ VisitedOK(q, s, sn, con)
      /\ StackOK(q, s, sn, con, {})
      /\ KeysOK(q, sn, con)
      /\ LimitOK(q, "walking", s, con)
  BY DEF WalkOK, PendingKey
<1>2. /\ q.mode \in Modes
      /\ s # <<>>
      /\ f \in Frame
      /\ f.fb \in Nat \ {0}
      /\ f.model \in Models
      /\ FrameOK(f, q, sn, con, {})
  BY <1>1, TopOK
<1>3. /\ t \in Stacks /\ t # <<>>
      /\ Len(s) \in DOMAIN s
      /\ top \in DOMAIN t
      /\ DOMAIN t = DOMAIN s \ {Len(s)}
      /\ t[top] = g
      /\ \A i \in DOMAIN t : i # top => i < top /\ t[i] = s[i]
  BY DEF Popped
<1>4. /\ \A i \in DOMAIN t : t[i].model = s[i].model
      /\ \A i \in DOMAIN t : s[i].hit => t[i].hit
  BY <1>3
<1>5. /\ FrameOK(c, q, sn, con, {})
      /\ CallerOK(c, q)
      /\ c.model \in Models
  <2>1. FrameOK(c, q, sn, con, {}) /\ CallerOK(c, q) /\ c \in Frame
    BY <1>1, <1>2, <1>3, TopIsFrame DEF StackOK
  <2>2. QED
    BY <2>1 DEF Frame
<1>6. FrameOK(g, q, sn, con, {})
  <2>1. ~Unconfigured(c.model, q.mode)
    BY <1>2, <1>5, FallbacksAreModels DEF CallerOK
  <2>2. f.hit => con # {}
    BY <1>2 DEF FrameOK
  <2>3. QED
    BY <1>5, <2>1, <2>2 DEF FrameOK
<1>7. StackOK(q, t, sn, con, {})
  <2>1. ASSUME NEW i \in DOMAIN t
        PROVE  /\ FrameOK(t[i], q, sn, con, {})
               /\ i < Len(t) => CallerOK(t[i], q)
    <3>1. CASE i = top
      <4>1. Len(t) \in Nat
        BY <1>3, TopIsFrame
      <4>2. ~(i < Len(t))
        BY <3>1, <4>1
      <4>3. QED
        BY <1>3, <1>6, <3>1, <4>2
    <3>2. CASE i # top
      <4>1. i \in DOMAIN s /\ i # Len(s) /\ t[i] = s[i]
        BY <1>3, <3>2
      <4>2. i < Len(s)
        BY <1>2, <4>1, TopIsFrame
      <4>3. QED
        BY <1>1, <4>1, <4>2 DEF StackOK
    <3>3. QED
      BY <3>1, <3>2
  <2>2. \A i, j \in DOMAIN t : t[i].model = t[j].model => i = j
    BY <1>1, <1>3, <1>4 DEF StackOK
  <2>3. QED
    BY <1>3, <2>1, <2>2 DEF StackOK
<1>8. Finished(f.model, q, sn, con)
  <2>1. \A j \in DOMAIN FallbacksOf(f.model, q.mode) : j < f.fb
    BY <1>2, FallbacksExhausted
  <2>2. QED
    BY <1>2, <2>1 DEF Finished, FrameOK
<1>9. VisitedOK(q, t, sn, con)
  <2>1. ASSUME NEW m \in Allowed(q, sn)
        PROVE  (\E i \in DOMAIN t : t[i].model = m) \/ Finished(m, q, sn, con)
    <3>1. CASE Finished(m, q, sn, con)
      BY <3>1
    <3>2. CASE s[Len(s)].model = m
      BY <1>8, <3>2
    <3>3. ASSUME NEW i \in DOMAIN s, i # Len(s), s[i].model = m
          PROVE  \E j \in DOMAIN t : t[j].model = m
      BY <1>3, <1>4, <3>3
    <3>4. QED
      BY <1>1, <3>1, <3>2, <3>3 DEF VisitedOK
  <2>2. QED
    BY <1>1, <2>1 DEF VisitedOK
<1>10. LimitOK(q, "walking", t, con)
  <2>1. ASSUME NEW i \in DOMAIN s, s[i].hit
        PROVE  \E j \in DOMAIN t : t[j].hit
    <3>1. CASE i = Len(s)
      BY <1>3, <2>1, <3>1
    <3>2. CASE i # Len(s)
      BY <1>3, <1>4, <2>1, <3>2
    <3>3. QED
      BY <3>1, <3>2
  <2>2. QED
    BY <1>1, <2>1 DEF LimitOK
<1>11. QED
  BY <1>1, <1>7, <1>9, <1>10 DEF WalkOK, PendingKey

(***************************************************************************)
(* What the verdict of an exhausted frame means.                           *)
(***************************************************************************)
LEMMA VerdictKinds ==
    ASSUME NEW f, NEW mode
    PROVE  /\ ExhaustedAs(f, mode) \in {"rate_limit", "all_failed",
                                        "no_deployment", "invalid_request"}
           /\ ExhaustedAs(f, mode) = "rate_limit"
                <=> f.hit /\ ~Unconfigured(f.model, mode)
           /\ ExhaustedAs(f, mode) = "invalid_request" =>
                mode \in {"passthrough", "image"}
                  /\ Candidates(f.model, mode) = {}
<1>1. CASE Unconfigured(f.model, mode)
  BY <1>1 DEF ExhaustedAs
<1>2. CASE f.hit /\ ~Unconfigured(f.model, mode)
  BY <1>2 DEF ExhaustedAs
<1>3. CASE ~f.hit /\ ~Unconfigured(f.model, mode)
  BY <1>3 DEF ExhaustedAs
<1>4. QED
  BY <1>1, <1>2, <1>3

\* A frame with neither a deployment nor a fallback left.
UsedUp(f, q) == f.left = {} /\ f.fb > Len(FallbacksOf(f.model, q.mode))

\* What a walk has considered when it gives up, and what it then says.
Conclusive(q, f, con) ==
    /\ Offered(q) = con
    /\ q.mode \in {"complete", "stream"} /\ con # {} =>
         ExhaustedAs(f, q.mode) = "rate_limit"

\* An entry frame that has nothing left has considered all there is on offer.
LEMMA WalkEnds ==
    ASSUME NEW q \in Query, NEW s \in Stacks, NEW sn \in SUBSET Models,
           NEW d, NEW con \in SUBSET DepKeys,
           WalkOK(q, "walking", s, sn, d, con),
           Len(s) = 1, UsedUp(s[Len(s)], q)
    PROVE  Conclusive(q, s[Len(s)], con)
<1> DEFINE f == s[Len(s)]
<1>0. f.left = {} /\ f.fb > Len(FallbacksOf(f.model, q.mode))
  BY DEF UsedUp
<1>1. /\ VisitedOK(q, s, sn, con)
      /\ StackOK(q, s, sn, con, {})
      /\ KeysOK(q, sn, con)
      /\ LimitOK(q, "walking", s, con)
  BY DEF WalkOK, PendingKey
<1>2. /\ q.mode \in Modes
      /\ s # <<>>
      /\ f \in Frame
      /\ f.model \in Models
      /\ FrameOK(f, q, sn, con, {})
      /\ DOMAIN s = {1}
  BY <1>1, TopOK, TopIsFrame
<1>3. Finished(f.model, q, sn, con)
  <2>1. \A j \in DOMAIN FallbacksOf(f.model, q.mode) : j < f.fb
    BY <1>0, <1>2, FallbacksExhausted
  <2>2. QED
    BY <1>0, <1>2, <2>1 DEF Finished, FrameOK
<1>4. \A m \in Allowed(q, sn) : Finished(m, q, sn, con)
  BY <1>1, <1>2, <1>3 DEF VisitedOK
<1>5. Reachable(q) \subseteq Allowed(q, sn)
  <2>1. Closed(Allowed(q, sn), q)
    BY <1>4 DEF Closed, Finished, Allowed
  <2>2. Allowed(q, sn) \in SUBSET Models /\ q.entry \in Allowed(q, sn)
    BY <1>1 DEF Allowed, VisitedOK
  <2>3. QED
    BY <2>1, <2>2, ReachableIsLeast
<1>6. Offered(q) \subseteq con
  <2>1. ASSUME NEW k \in Offered(q)
        PROVE  k \in con
    <3>1. /\ k \in DepKeys
          /\ k[1] \in Allowed(q, sn)
          /\ k[2] \in Candidates(k[1], q.mode)
      BY <1>5, <2>1 DEF Offered
    <3>2. k = <<k[1], k[2]>>
      BY <3>1 DEF DepKeys
    <3>3. <<k[1], k[2]>> \in con
      BY <1>4, <3>1 DEF Finished
    <3>4. QED
      BY <3>2, <3>3
  <2>2. QED
    BY <2>1
<1>7. con \subseteq Offered(q)
  BY <1>1 DEF KeysOK, VisitedOK, Offered
<1>8. ASSUME q.mode \in {"complete", "stream"}, con # {}
      PROVE  ExhaustedAs(f, q.mode) = "rate_limit"
  <2>1. f.hit
    BY <1>1, <1>2, <1>8 DEF LimitOK
  <2>2. ~Unconfigured(f.model, q.mode)
    BY <1>2, <2>1 DEF FrameOK
  <2>3. QED
    BY <2>1, <2>2, VerdictKinds
<1>9. QED
  BY <1>6, <1>7, <1>8 DEF Conclusive

-----------------------------------------------------------------------------
(***************************************************************************)
(* The requests are independent of each other: a step of one leaves the    *)
(* walks of the others alone.                                              *)
(***************************************************************************)
OthersKeep(r) ==
    \A x \in Requests \ {r} :
        /\ request'[x] = request[x] /\ phase'[x] = phase[x]
        /\ seen'[x] = seen[x] /\ stack'[x] = stack[x]
        /\ trying'[x] = trying[x] /\ verdict'[x] = verdict[x]
        /\ called'[x] = called[x] /\ skipped'[x] = skipped[x]

LEMMA LocalStep ==
    ASSUME IInv, NEW r \in Requests, OthersKeep(r), TypeOK',
           RequestOK(request'[r], phase'[r], stack'[r], seen'[r], trying'[r],
                     called'[r] \cup skipped'[r], verdict'[r])
    PROVE  IInv'
<1>1. ASSUME NEW x \in Requests PROVE LocalOK(x)'
  <2>1. CASE x = r
    BY <2>1 DEF LocalOK, Considered
  <2>2. CASE x # r
    BY <2>2 DEF IInv, LocalOK, Considered, OthersKeep
  <2>3. QED
    BY <2>1, <2>2
<1>2. QED
  BY <1>1 DEF IInv

\* A request on its walk is fine when its walk is.
LEMMA WalkingIsOK ==
    ASSUME NEW q, NEW ph \in Active, NEW s, NEW sn, NEW d, NEW con, NEW v,
           WalkOK(q, ph, s, sn, d, con)
    PROVE  RequestOK(q, ph, s, sn, d, con, v)
<1>1. s # <<>>
  BY DEF WalkOK, StackOK
<1>2. \A k \in con : k[1] \notin q.blocked
  BY DEF WalkOK, KeysOK, Allowed
<1>3. ph # "serving" /\ ph # "idle" /\ ph # "done"
  BY DEF Active
<1>4. QED
  BY <1>1, <1>2, <1>3 DEF RequestOK

\* What TypeOK and the invariant say of one request.
LEMMA LocalTypes ==
    ASSUME IInv, NEW r \in Requests
    PROVE  /\ request[r] \in Query
           /\ request[r].mode \in Modes
           /\ seen[r] \in SUBSET Models
           /\ stack[r] \in Stacks
           /\ trying[r] \in Deps
           /\ called[r] \in SUBSET DepKeys
           /\ skipped[r] \in SUBSET DepKeys
           /\ Considered(r) = called[r] \cup skipped[r]
           /\ phase[r] \in Active =>
                /\ WalkOK(request[r], phase[r], stack[r], seen[r], trying[r],
                          Considered(r))
                /\ stack[r] # <<>>
                /\ Top(r) \in Frame
                /\ Top(r).model \in Models
                /\ Top(r).left \subseteq Deps
                /\ Key(r) \in DepKeys
<1>1. /\ request[r] \in Query
      /\ seen[r] \in SUBSET Models
      /\ stack[r] \in Stacks
      /\ trying[r] \in Deps
      /\ called[r] \in SUBSET DepKeys
      /\ skipped[r] \in SUBSET DepKeys
      /\ Considered(r) = called[r] \cup skipped[r]
  BY DEF IInv, TypeOK, Stacks, Considered
<1>2. request[r].mode \in Modes
  BY <1>1 DEF Query
<1>3. ASSUME phase[r] \in Active
      PROVE  /\ WalkOK(request[r], phase[r], stack[r], seen[r], trying[r],
                       Considered(r))
             /\ stack[r] # <<>>
             /\ Top(r) \in Frame
  BY <1>1, <1>3, TopIsFrame DEF IInv, LocalOK, RequestOK, Top
<1>4. ASSUME phase[r] \in Active
      PROVE  /\ Top(r).model \in Models
             /\ Top(r).left \subseteq Deps
             /\ Key(r) \in DepKeys
  <2>1. Top(r).model \in Models /\ Top(r).left \subseteq Deps
    BY <1>3, <1>4 DEF Frame
  <2>2. QED
    BY <1>1, <2>1 DEF Key, DepKeys
<1>5. QED
  BY <1>1, <1>2, <1>3, <1>4

-----------------------------------------------------------------------------
(***************************************************************************)
(* Types.                                                                  *)
(***************************************************************************)
LEMMA ClockTypes ==
    ASSUME TypeOK
    PROVE  now \in Nat /\ Minute \in Nat \ {0} /\ now \div Minute \in Nat
<1>1. now \in Nat /\ Minute \in Nat \ {0}
  BY RouterAssumption DEF TypeOK
<1>2. QED
  BY <1>1, QuotientIsNat

LEMMA MeterStepTypes ==
    ASSUME TypeOK, NEW k \in DepKeys
    PROVE  /\ Meter!Admit(k, now) => Meter!MeterTypeOK'
           /\ Meter!Reject(k, now) => Meter!MeterTypeOK'
           /\ \A n \in TokenCounts :
                 Meter!RecordTokens(k, n, now) => Meter!MeterTypeOK'
<1> DEFINE win == Meter!Win(k, now)
<1>1. /\ win \in Meter!Window
      /\ windows \in [DepKeys -> Meter!Window]
  <2>1. now \in Nat /\ Minute \in Nat \ {0} /\ now \div Minute \in Nat
    BY ClockTypes
  <2>2. windows \in [DepKeys -> Meter!Window]
    BY DEF TypeOK, Meter!MeterTypeOK
  <2>3. QED
    BY <2>1, <2>2 DEF Meter!Win, Meter!EmptyWindow, Meter!MinuteOf, Meter!Window
<1> HIDE DEF win
<1>2. \A n \in Nat : /\ [win EXCEPT !.requests = win.requests + n] \in Meter!Window
                     /\ [win EXCEPT !.tokens = win.tokens + n] \in Meter!Window
  <2>1. \A n \in Nat : win.requests + n \in Nat /\ win.tokens + n \in Nat
    BY <1>1 DEF Meter!Window
  <2>2. QED
    BY <1>1, <2>1 DEF Meter!Window
<1>3. ASSUME Meter!Admit(k, now) PROVE Meter!MeterTypeOK'
  <2>1. [win EXCEPT !.requests = win.requests + 1] \in Meter!Window
    BY <1>2
  <2>2. windows' = [windows EXCEPT ![k] =
                      [win EXCEPT !.requests = win.requests + 1]]
    BY <1>3 DEF Meter!Admit, win
  <2>3. QED
    BY <1>1, <2>1, <2>2 DEF Meter!MeterTypeOK
<1>4. ASSUME Meter!Reject(k, now) PROVE Meter!MeterTypeOK'
  BY <1>1, <1>4 DEF Meter!Reject, Meter!MeterTypeOK, win
<1>5. ASSUME NEW n \in TokenCounts, Meter!RecordTokens(k, n, now)
      PROVE  Meter!MeterTypeOK'
  <2>1. CASE n <= 0
    BY <1>1, <1>5, <2>1 DEF Meter!RecordTokens, Meter!MeterTypeOK
  <2>2. CASE ~(n <= 0)
    <3>1. n \in Nat
      BY <2>2, RouterAssumption
    <3>2. [win EXCEPT !.tokens = win.tokens + n] \in Meter!Window
      BY <1>2, <3>1
    <3>3. windows' = [windows EXCEPT ![k] =
                        [win EXCEPT !.tokens = win.tokens + n]]
      BY <1>5, <2>2 DEF Meter!RecordTokens, win
    <3>4. QED
      BY <1>1, <3>2, <3>3 DEF Meter!MeterTypeOK
  <2>3. QED
    BY <2>1, <2>2
<1>6. QED
  BY <1>3, <1>4, <1>5

\* A park ends at a natural number.
LEMMA ParkedTypes ==
    ASSUME TypeOK, NEW k \in DepKeys, NEW hint \in Hints
    PROVE  Parked(k, hint) \in [DepKeys -> Nat]
<1>1. /\ now \in Nat
      /\ Cooldown \in Nat
      /\ hint \in Nat
      /\ cooldowns \in [DepKeys -> Nat]
  BY RouterAssumption, ClockTypes DEF TypeOK
<1>2. now + (IF hint > 0 THEN hint ELSE Cooldown) \in Nat
  BY <1>1
<1>3. QED
  BY <1>1, <1>2 DEF Parked

LEMMA InitIInv == Init => IInv
<1> SUFFICES ASSUME Init PROVE IInv
  OBVIOUS
<1>1. Meter!MeterTypeOK
  <2>1. 0 \div Minute \in Nat
    BY RouterAssumption, QuotientIsNat
  <2>2. QED
    BY <2>1 DEF Init, Meter!MeterInit, Meter!MeterTypeOK, Meter!EmptyWindow,
                Meter!MinuteOf, Meter!Window
<1>2. request \in [Requests -> Query]
  <2>1. (CHOOSE m \in Models : TRUE) \in Models
    OBVIOUS
  <2>2. QED
    BY <2>1 DEF Init, Query, Modes
<1>3. NoDep \in Deps
  BY DEF NoDep
<1>4. stack \in [Requests -> Seq(Frame)]
  BY DEF Init
<1>5. verdict \in [Requests -> Verdict]
  BY DEF Init, NoVerdict, Verdict
<1>6. now \in 0 .. MaxTime /\ phase \in [Requests -> Phases]
  BY RouterAssumption DEF Init, Phases
<1>7. /\ cooldowns \in [DepKeys -> Nat]
      /\ seen \in [Requests -> SUBSET Models]
      /\ trying \in [Requests -> Deps]
      /\ called \in [Requests -> SUBSET DepKeys]
      /\ skipped \in [Requests -> SUBSET DepKeys]
  BY <1>3 DEF Init
<1>8. TypeOK
  BY <1>1, <1>2, <1>4, <1>5, <1>6, <1>7 DEF TypeOK
<1>9. ASSUME NEW r \in Requests PROVE LocalOK(r)
  BY DEF Init, LocalOK, RequestOK, Considered, Active
<1>10. QED
  BY <1>8, <1>9 DEF IInv

-----------------------------------------------------------------------------
(***************************************************************************)
(* The steps.                                                              *)
(***************************************************************************)
LEMMA ArriveStep ==
    ASSUME IInv, NEW r \in Requests, NEW mode \in UsedModes, NEW m \in Models,
           NEW blocked \in BlockedSets, Arrive(r, mode, m, blocked)
    PROVE  IInv'
<1> DEFINE q == [mode |-> mode, entry |-> m, blocked |-> blocked]
           s == <<NewFrame(m, mode)>>
<1>1. /\ q \in Query
      /\ q.entry = m
      /\ q.mode = mode
      /\ q.blocked = blocked
      /\ m \notin blocked
      /\ blocked \subseteq Models
  BY RouterAssumption DEF Query, Arrive
<1>2. Considered(r) = {} /\ trying[r] \in Deps
  BY DEF IInv, LocalOK, RequestOK, Arrive, TypeOK
<1> HIDE DEF q
<1>3. /\ s \in Stacks
      /\ WalkOK(q, "walking", s, blocked \cup {m}, trying[r], {})
  BY <1>1, WalkBegins
<1> HIDE DEF s
<1>4. /\ request' = [request EXCEPT ![r] = q]
      /\ phase' = [phase EXCEPT ![r] = "walking"]
      /\ seen' = [seen EXCEPT ![r] = blocked \cup {m}]
      /\ stack' = [stack EXCEPT ![r] = s]
      /\ UNCHANGED <<now, windows, cooldowns, trying, verdict, called, skipped>>
  BY DEF Arrive, q, s
<1>5. TypeOK'
  BY <1>1, <1>3, <1>4 DEF IInv, TypeOK, Meter!MeterTypeOK, Stacks, Phases
<1>6. RequestOK(request'[r], phase'[r], stack'[r], seen'[r], trying'[r],
                called'[r] \cup skipped'[r], verdict'[r])
  <2>1. /\ request'[r] = q
        /\ phase'[r] = "walking"
        /\ seen'[r] = blocked \cup {m}
        /\ stack'[r] = s
        /\ trying'[r] = trying[r]
        /\ called'[r] \cup skipped'[r] = {}
    BY <1>2, <1>4 DEF IInv, TypeOK, Considered
  <2>2. RequestOK(q, "walking", s, blocked \cup {m}, trying[r], {}, verdict'[r])
    BY <1>3, WalkingIsOK DEF Active
  <2>3. QED
    BY <2>1, <2>2
<1>7. OthersKeep(r)
  BY <1>4 DEF IInv, TypeOK, OthersKeep
<1>8. QED
  BY <1>5, <1>6, <1>7, LocalStep

\* The step of a request that stays on its walk.
WalkUpdate(r, ph, s, sn, d, cs, ks) ==
    /\ phase' = [phase EXCEPT ![r] = ph]
    /\ stack' = [stack EXCEPT ![r] = s]
    /\ seen' = [seen EXCEPT ![r] = sn]
    /\ trying' = [trying EXCEPT ![r] = d]
    /\ called' = [called EXCEPT ![r] = cs]
    /\ skipped' = [skipped EXCEPT ![r] = ks]
    /\ UNCHANGED <<now, request, verdict>>

LEMMA Unchanged ==
    ASSUME IInv, NEW r \in Requests
    PROVE  /\ phase = [phase EXCEPT ![r] = phase[r]]
           /\ stack = [stack EXCEPT ![r] = stack[r]]
           /\ seen = [seen EXCEPT ![r] = seen[r]]
           /\ trying = [trying EXCEPT ![r] = trying[r]]
           /\ called = [called EXCEPT ![r] = called[r]]
           /\ skipped = [skipped EXCEPT ![r] = skipped[r]]
BY DEF IInv, TypeOK

LEMMA WalkStep ==
    ASSUME IInv, NEW r \in Requests, NEW ph \in Active, NEW s \in Stacks,
           NEW sn \in SUBSET Models, NEW d \in Deps,
           NEW cs \in SUBSET DepKeys, NEW ks \in SUBSET DepKeys,
           WalkUpdate(r, ph, s, sn, d, cs, ks),
           Meter!MeterTypeOK', cooldowns' \in [DepKeys -> Nat],
           WalkOK(request[r], ph, s, sn, d, cs \cup ks)
    PROVE  IInv'
<1>1. TypeOK'
  BY DEF IInv, TypeOK, WalkUpdate, Stacks, Phases, Active
<1>2. RequestOK(request'[r], phase'[r], stack'[r], seen'[r], trying'[r],
                called'[r] \cup skipped'[r], verdict'[r])
  <2>1. /\ request'[r] = request[r]
        /\ phase'[r] = ph
        /\ seen'[r] = sn
        /\ stack'[r] = s
        /\ trying'[r] = d
        /\ called'[r] \cup skipped'[r] = cs \cup ks
    BY DEF IInv, TypeOK, WalkUpdate
  <2>2. RequestOK(request[r], ph, s, sn, d, cs \cup ks, verdict'[r])
    BY WalkingIsOK
  <2>3. QED
    BY <2>1, <2>2
<1>3. OthersKeep(r)
  BY DEF IInv, TypeOK, WalkUpdate, OthersKeep
<1>4. QED
  BY <1>1, <1>2, <1>3, LocalStep

LEMMA SkipCooledStep ==
    ASSUME IInv, NEW r \in Requests, NEW d \in Deps, SkipCooled(r, d)
    PROVE  IInv'
<1> DEFINE f == Top(r)
           k == <<f.model, d>>
           w == cooldowns[k] - now
           g == [Limited(f, w) EXCEPT !.left = f.left \ {d}]
           s == [stack[r] EXCEPT ![Len(stack[r])] = g]
<1>1. /\ phase[r] = "walking"
      /\ d \in f.left
      /\ IsCooled(k)
      /\ skipped' = [skipped EXCEPT ![r] = skipped[r] \cup {k}]
      /\ UNCHANGED <<now, windows, cooldowns, request, phase, seen, trying,
                     verdict, called>>
  BY DEF SkipCooled
<1>2. /\ request[r] \in Query
      /\ seen[r] \in SUBSET Models
      /\ stack[r] \in Stacks
      /\ f \in Frame
      /\ f.model \in Models
      /\ WalkOK(request[r], "walking", stack[r], seen[r], trying[r],
                Considered(r))
  BY <1>1, LocalTypes DEF Active
<1>3. k \in DepKeys /\ w \in Nat
  <2>1. k \in DepKeys
    BY <1>2 DEF DepKeys
  <2>2. cooldowns[k] \in Nat /\ now \in Nat
    BY <2>1, ClockTypes DEF IInv, TypeOK
  <2>3. QED
    BY <1>1, <2>1, <2>2 DEF IsCooled
<1>4. stack' = [stack EXCEPT ![r] = s]
  <2>1. Limited(f, w).left = f.left
    BY <1>2, <1>3, LimitedFrame
  <2>2. stack' = [stack EXCEPT ![r] = [stack[r] EXCEPT ![Len(stack[r])] =
           [Limited(f, w) EXCEPT !.left = Limited(f, w).left \ {d}]]]
    BY DEF SkipCooled, SetTop
  <2>3. QED
    BY <2>1, <2>2
<1>5. /\ s \in Stacks
      /\ WalkOK(request[r], "walking", s, seen[r], trying[r],
                Considered(r) \cup {k})
  <2> HIDE DEF w
  <2>1. QED
    BY <1>1, <1>2, <1>3, WalkSkipsParked DEF Top
<1> HIDE DEF k, s
<1>6. WalkUpdate(r, "walking", s, seen[r], trying[r], called[r],
                 skipped[r] \cup {k})
  BY <1>1, <1>4, Unchanged DEF WalkUpdate
<1>7. Meter!MeterTypeOK' /\ cooldowns' \in [DepKeys -> Nat]
  BY <1>1 DEF IInv, TypeOK, Meter!MeterTypeOK
<1>8. called[r] \cup (skipped[r] \cup {k}) = Considered(r) \cup {k}
  BY DEF Considered
<1>9. /\ called[r] \in SUBSET DepKeys
      /\ skipped[r] \cup {k} \in SUBSET DepKeys
      /\ trying[r] \in Deps
      /\ "walking" \in Active
  BY <1>3 DEF IInv, TypeOK, Active
<1>10. QED
  BY <1>2, <1>5, <1>6, <1>7, <1>8, <1>9, WalkStep

LEMMA PassCheckStep ==
    ASSUME IInv, NEW r \in Requests, NEW d \in Deps, PassCheck(r, d)
    PROVE  IInv'
<1> DEFINE f == Top(r)
           k == <<f.model, d>>
           g == [f EXCEPT !.left = f.left \ {d}]
           s == [stack[r] EXCEPT ![Len(stack[r])] = g]
<1>1. /\ phase[r] = "walking"
      /\ d \in f.left
      /\ stack' = [stack EXCEPT ![r] = s]
      /\ cooldowns' = cooldowns
           \/ cooldowns' = [cooldowns EXCEPT ![k] = 0]
      /\ phase' = [phase EXCEPT ![r] = "checked"]
      /\ trying' = [trying EXCEPT ![r] = d]
      /\ UNCHANGED <<now, windows, request, seen, verdict, called, skipped>>
  BY DEF PassCheck, SetTop
<1>2. /\ request[r] \in Query
      /\ seen[r] \in SUBSET Models
      /\ stack[r] \in Stacks
      /\ called[r] \in SUBSET DepKeys
      /\ skipped[r] \in SUBSET DepKeys
      /\ Considered(r) = called[r] \cup skipped[r]
      /\ WalkOK(request[r], "walking", stack[r], seen[r], trying[r],
                Considered(r))
  BY <1>1, LocalTypes DEF Active
<1>3. /\ s \in Stacks
      /\ WalkOK(request[r], "checked", s, seen[r], d, Considered(r))
  BY <1>1, <1>2, WalkPassesCheck DEF Top
<1> HIDE DEF s, k
<1>4. WalkUpdate(r, "checked", s, seen[r], d, called[r], skipped[r])
  BY <1>1, Unchanged DEF WalkUpdate
<1>5. Meter!MeterTypeOK' /\ cooldowns' \in [DepKeys -> Nat]
  <2>1. Meter!MeterTypeOK /\ cooldowns \in [DepKeys -> Nat]
    BY DEF IInv, TypeOK
  <2>2. Meter!MeterTypeOK'
    BY <1>1, <2>1 DEF Meter!MeterTypeOK
  <2>3. [cooldowns EXCEPT ![k] = 0] \in [DepKeys -> Nat]
    BY <2>1
  <2>4. QED
    BY <1>1, <2>1, <2>2, <2>3
<1>6. "checked" \in Active
  BY DEF Active
<1>7. QED
  BY <1>2, <1>3, <1>4, <1>5, <1>6, WalkStep

LEMMA SkipOverCapStep ==
    ASSUME IInv, NEW r \in Requests, SkipOverCap(r)
    PROVE  IInv'
<1> DEFINE k == Key(r)
           g == Limited(Top(r), 0)
           s == [stack[r] EXCEPT ![Len(stack[r])] = g]
<1>1. /\ phase[r] = "checked"
      /\ Meter!Reject(k, now)
      /\ stack' = [stack EXCEPT ![r] = s]
      /\ phase' = [phase EXCEPT ![r] = "walking"]
      /\ skipped' = [skipped EXCEPT ![r] = skipped[r] \cup {k}]
      /\ UNCHANGED <<now, cooldowns, request, seen, trying, verdict, called>>
  BY DEF SkipOverCap, SetTop
<1>2. /\ request[r] \in Query
      /\ seen[r] \in SUBSET Models
      /\ stack[r] \in Stacks
      /\ trying[r] \in Deps
      /\ called[r] \in SUBSET DepKeys
      /\ skipped[r] \cup {k} \in SUBSET DepKeys
      /\ called[r] \cup (skipped[r] \cup {k}) = Considered(r) \cup {k}
      /\ k \in DepKeys
      /\ WalkOK(request[r], "checked", stack[r], seen[r], trying[r],
                Considered(r))
  BY <1>1, LocalTypes DEF Active
<1>3. /\ s \in Stacks
      /\ WalkOK(request[r], "walking", s, seen[r], trying[r],
                Considered(r) \cup {k})
  BY <1>2, WalkSkipsOverCap DEF Top, Key
<1> HIDE DEF s, k
<1>4. WalkUpdate(r, "walking", s, seen[r], trying[r], called[r],
                 skipped[r] \cup {k})
  BY <1>1, Unchanged DEF WalkUpdate
<1>5. Meter!MeterTypeOK' /\ cooldowns' \in [DepKeys -> Nat]
  BY <1>1, <1>2, MeterStepTypes DEF IInv, TypeOK
<1>6. "walking" \in Active
  BY DEF Active
<1>7. QED
  BY <1>2, <1>3, <1>4, <1>5, <1>6, WalkStep

LEMMA DispatchStep ==
    ASSUME IInv, NEW r \in Requests, Dispatch(r)
    PROVE  IInv'
<1> DEFINE k == Key(r)
<1>1. /\ phase[r] = "checked"
      /\ Meter!Admit(k, now)
      /\ phase' = [phase EXCEPT ![r] = "calling"]
      /\ called' = [called EXCEPT ![r] = called[r] \cup {k}]
      /\ UNCHANGED <<now, cooldowns, request, seen, stack, trying, verdict,
                     skipped>>
  BY DEF Dispatch
<1>2. /\ request[r] \in Query
      /\ seen[r] \in SUBSET Models
      /\ stack[r] \in Stacks
      /\ trying[r] \in Deps
      /\ called[r] \cup {k} \in SUBSET DepKeys
      /\ skipped[r] \in SUBSET DepKeys
      /\ (called[r] \cup {k}) \cup skipped[r] = Considered(r) \cup {k}
      /\ k \in DepKeys
      /\ WalkOK(request[r], "checked", stack[r], seen[r], trying[r],
                Considered(r))
  BY <1>1, LocalTypes DEF Active
<1>3. WalkOK(request[r], "calling", stack[r], seen[r], trying[r],
             Considered(r) \cup {k})
  BY <1>2, WalkDispatches DEF Top, Key
<1> HIDE DEF k
<1>4. WalkUpdate(r, "calling", stack[r], seen[r], trying[r],
                 called[r] \cup {k}, skipped[r])
  BY <1>1, Unchanged DEF WalkUpdate
<1>5. Meter!MeterTypeOK' /\ cooldowns' \in [DepKeys -> Nat]
  BY <1>1, <1>2, MeterStepTypes DEF IInv, TypeOK
<1>6. "calling" \in Active
  BY DEF Active
<1>7. QED
  BY <1>2, <1>3, <1>4, <1>5, <1>6, WalkStep

LEMMA AnswerRetryableStep ==
    ASSUME IInv, NEW r \in Requests, NEW hint \in Hints,
           AnswerRetryable(r, hint)
    PROVE  IInv'
<1> DEFINE g == Limited(Top(r), hint)
           s == [stack[r] EXCEPT ![Len(stack[r])] = g]
<1>1. /\ phase[r] = "calling"
      /\ cooldowns' = Parked(Key(r), hint)
      /\ stack' = [stack EXCEPT ![r] = s]
      /\ phase' = [phase EXCEPT ![r] = "walking"]
      /\ UNCHANGED <<now, windows, request, seen, trying, verdict, called,
                     skipped>>
  BY DEF AnswerRetryable, SetTop
<1>2. /\ request[r] \in Query
      /\ seen[r] \in SUBSET Models
      /\ stack[r] \in Stacks
      /\ trying[r] \in Deps
      /\ called[r] \in SUBSET DepKeys
      /\ skipped[r] \in SUBSET DepKeys
      /\ Considered(r) = called[r] \cup skipped[r]
      /\ Key(r) \in DepKeys
      /\ WalkOK(request[r], "calling", stack[r], seen[r], trying[r],
                Considered(r))
  BY <1>1, LocalTypes DEF Active
<1>3. /\ s \in Stacks
      /\ WalkOK(request[r], "walking", s, seen[r], trying[r], Considered(r))
  <2>1. hint \in Nat
    BY RouterAssumption
  <2>2. QED
    BY <1>2, <2>1, WalkRetries DEF Top
<1> HIDE DEF s
<1>4. WalkUpdate(r, "walking", s, seen[r], trying[r], called[r], skipped[r])
  BY <1>1, Unchanged DEF WalkUpdate
<1>5. Meter!MeterTypeOK' /\ cooldowns' \in [DepKeys -> Nat]
  BY <1>1, <1>2, ParkedTypes DEF IInv, TypeOK, Meter!MeterTypeOK
<1>6. "walking" \in Active
  BY DEF Active
<1>7. QED
  BY <1>2, <1>3, <1>4, <1>5, <1>6, WalkStep

LEMMA AnswerForgottenStep ==
    ASSUME IInv, NEW r \in Requests, AnswerForgotten(r)
    PROVE  IInv'
<1>1. /\ phase[r] = "calling"
      /\ request[r].mode \in {"embed", "image", "passthrough"}
      /\ phase' = [phase EXCEPT ![r] = "walking"]
      /\ UNCHANGED <<now, windows, cooldowns, request, seen, stack, trying,
                     verdict, called, skipped>>
  BY DEF AnswerForgotten, Mode
<1>2. /\ request[r] \in Query
      /\ seen[r] \in SUBSET Models
      /\ stack[r] \in Stacks
      /\ trying[r] \in Deps
      /\ called[r] \in SUBSET DepKeys
      /\ skipped[r] \in SUBSET DepKeys
      /\ Considered(r) = called[r] \cup skipped[r]
      /\ WalkOK(request[r], "calling", stack[r], seen[r], trying[r],
                Considered(r))
  BY <1>1, LocalTypes DEF Active
<1>3. WalkOK(request[r], "walking", stack[r], seen[r], trying[r],
             Considered(r))
  BY <1>1, <1>2, WalkForgets
<1>4. WalkUpdate(r, "walking", stack[r], seen[r], trying[r], called[r],
                 skipped[r])
  BY <1>1, Unchanged DEF WalkUpdate
<1>5. Meter!MeterTypeOK' /\ cooldowns' \in [DepKeys -> Nat]
  BY <1>1 DEF IInv, TypeOK, Meter!MeterTypeOK
<1>6. "walking" \in Active
  BY DEF Active
<1>7. QED
  BY <1>2, <1>3, <1>4, <1>5, <1>6, WalkStep

\* The step of a request whose top frame has used up its deployments.
LEMMA LoopDoneFacts ==
    ASSUME IInv, NEW r \in Requests, LoopDone(r)
    PROVE  /\ phase[r] = "walking"
           /\ Top(r).left = {}
           /\ Top(r) = stack[r][Len(stack[r])]
           /\ Top(r) \in Frame
           /\ Top(r).fb \in Nat \ {0}
           /\ Top(r).model \in Models
           /\ request[r] \in Query
           /\ Mode(r) = request[r].mode
           /\ Mode(r) \in Modes
           /\ seen[r] \in SUBSET Models
           /\ stack[r] \in Stacks
           /\ stack[r] # <<>>
           /\ trying[r] \in Deps
           /\ called[r] \in SUBSET DepKeys
           /\ skipped[r] \in SUBSET DepKeys
           /\ Considered(r) = called[r] \cup skipped[r]
           /\ "walking" \in Active
           /\ WalkOK(request[r], "walking", stack[r], seen[r], trying[r],
                     Considered(r))
<1>1. phase[r] = "walking" /\ phase[r] \in Active
  BY DEF LoopDone, Active
<1>2. Top(r) \in Frame
  BY <1>1, LocalTypes
<1>3. Top(r).fb \in Nat \ {0}
  BY <1>2 DEF Frame
<1>4. QED
  BY <1>1, <1>2, <1>3, LocalTypes DEF LoopDone, Top, Mode

LEMMA FallbackSeenStep ==
    ASSUME IInv, NEW r \in Requests, FallbackSeen(r)
    PROVE  IInv'
<1> DEFINE f == Top(r)
           g == [f EXCEPT !.fb = f.fb + 1]
           s == [stack[r] EXCEPT ![Len(stack[r])] = g]
<1>1. /\ LoopDone(r)
      /\ f.fb <= Len(FallbacksOf(f.model, Mode(r)))
      /\ FallbacksOf(f.model, Mode(r))[f.fb] \in seen[r]
      /\ stack' = [stack EXCEPT ![r] = s]
      /\ UNCHANGED <<now, windows, cooldowns, request, phase, seen, trying,
                     verdict, called, skipped>>
  BY DEF FallbackSeen, MoreFallbacks, NextFallback, SetTop
<1>2. /\ s \in Stacks
      /\ WalkOK(request[r], "walking", s, seen[r], trying[r], Considered(r))
  BY <1>1, LoopDoneFacts, WalkPassesFallback
<1> HIDE DEF s
<1>3. WalkUpdate(r, "walking", s, seen[r], trying[r], called[r], skipped[r])
  BY <1>1, LoopDoneFacts, Unchanged DEF WalkUpdate
<1>4. Meter!MeterTypeOK' /\ cooldowns' \in [DepKeys -> Nat]
  BY <1>1 DEF IInv, TypeOK, Meter!MeterTypeOK
<1>5. QED
  <2>1. /\ "walking" \in Active
        /\ seen[r] \in SUBSET Models
        /\ trying[r] \in Deps
        /\ called[r] \in SUBSET DepKeys
        /\ skipped[r] \in SUBSET DepKeys
        /\ Considered(r) = called[r] \cup skipped[r]
    BY <1>1, LoopDoneFacts
  <2>2. QED
    BY <1>2, <1>3, <1>4, <2>1, WalkStep

LEMMA EnterFallbackStep ==
    ASSUME IInv, NEW r \in Requests, EnterFallback(r)
    PROVE  IInv'
<1> DEFINE f == Top(r)
           m == NextFallback(r)
           g == [f EXCEPT !.fb = f.fb + 1]
           h == NewFrame(m, Mode(r))
           s == Append([stack[r] EXCEPT ![Len(stack[r])] = g], h)
<1>1. /\ LoopDone(r)
      /\ f.fb <= Len(FallbacksOf(f.model, Mode(r)))
      /\ m = FallbacksOf(f.model, Mode(r))[f.fb]
      /\ m \notin seen[r]
      /\ seen' = [seen EXCEPT ![r] = seen[r] \cup {m}]
      /\ stack' = [stack EXCEPT ![r] = s]
      /\ UNCHANGED <<now, windows, cooldowns, request, phase, trying, verdict,
                     called, skipped>>
  BY DEF EnterFallback, MoreFallbacks, NextFallback
<1>2. m \in Models
  BY <1>1, LoopDoneFacts, FallbackInRange
<1>3. /\ h \in Frame
      /\ h.model = m
      /\ h.left = Candidates(m, Mode(r))
      /\ h.fb = 1
      /\ h.hit = FALSE
  <2>1. Mode(r) \in Modes
    BY <1>1, LoopDoneFacts
  <2> HIDE DEF m
  <2>2. QED
    BY <1>2, <2>1, NewFrameIsFrame
<1>4. g \in Frame
  <2>1. f \in Frame /\ f.fb + 1 \in Nat \ {0}
    BY <1>1, LoopDoneFacts
  <2>2. QED
    BY <2>1 DEF Frame
<1> HIDE DEF h, m
<1>5. Pushed(stack[r], g, h, s)
  <2> HIDE DEF g
  <2>1. QED
    BY <1>1, <1>3, <1>4, LoopDoneFacts, PushFrame
<1> HIDE DEF s
<1>6. /\ s \in Stacks
      /\ WalkOK(request[r], "walking", s, seen[r] \cup {m}, trying[r],
                Considered(r))
  <2>1. /\ request[r] \in Query
        /\ stack[r] \in Stacks
        /\ seen[r] \in SUBSET Models
        /\ Considered(r) \in SUBSET DepKeys
        /\ WalkOK(request[r], "walking", stack[r], seen[r], trying[r],
                  Considered(r))
        /\ f = stack[r][Len(stack[r])]
        /\ f.left = {}
        /\ Mode(r) = request[r].mode
    BY <1>1, LoopDoneFacts
  <2>2. QED
    BY <1>1, <1>3, <1>5, <2>1, WalkEntersFallback
<1>7. WalkUpdate(r, "walking", s, seen[r] \cup {m}, trying[r], called[r],
                 skipped[r])
  BY <1>1, LoopDoneFacts, Unchanged DEF WalkUpdate
<1>8. Meter!MeterTypeOK' /\ cooldowns' \in [DepKeys -> Nat]
  BY <1>1 DEF IInv, TypeOK, Meter!MeterTypeOK
<1>9. seen[r] \cup {m} \in SUBSET Models
  BY <1>1, <1>2, LoopDoneFacts
<1>10. QED
  <2>1. /\ "walking" \in Active
        /\ seen[r] \in SUBSET Models
        /\ trying[r] \in Deps
        /\ called[r] \in SUBSET DepKeys
        /\ skipped[r] \in SUBSET DepKeys
        /\ Considered(r) = called[r] \cup skipped[r]
    BY <1>1, LoopDoneFacts
  <2>2. QED
    BY <1>6, <1>7, <1>8, <1>9, <2>1, WalkStep

LEMMA ReturnToCallerStep ==
    ASSUME IInv, NEW r \in Requests, ReturnToCaller(r)
    PROVE  IInv'
<1> DEFINE n == Len(stack[r])
           f == Top(r)
           c == stack[r][n - 1]
           kind == ExhaustedAs(f, Mode(r))
           g == IF kind = "rate_limit" THEN Limited(c, f.soonest) ELSE c
           s == [SubSeq(stack[r], 1, n - 1) EXCEPT ![n - 1] = g]
<1>1. /\ LoopDone(r)
      /\ f.fb > Len(FallbacksOf(f.model, Mode(r)))
      /\ n > 1
      /\ stack' = [stack EXCEPT ![r] = s]
      /\ UNCHANGED <<now, windows, cooldowns, request, phase, seen, trying,
                     verdict, called, skipped>>
  BY DEF ReturnToCaller, FallbacksDone
<1>2. /\ request[r] \in Query
      /\ stack[r] \in Stacks
      /\ seen[r] \in SUBSET Models
      /\ WalkOK(request[r], "walking", stack[r], seen[r], trying[r],
                Considered(r))
      /\ f = stack[r][Len(stack[r])]
      /\ f.left = {}
      /\ f \in Frame
      /\ stack[r] # <<>>
      /\ Mode(r) = request[r].mode
  BY <1>1, LoopDoneFacts
<1>3. c \in Frame /\ n \in Nat
  <2>1. n \in Nat /\ n - 1 \in DOMAIN stack[r]
    BY <1>1, <1>2, TopIsFrame
  <2>2. QED
    BY <1>2, <2>1, TopIsFrame
<1>4. kind = "rate_limit" <=> f.hit
  <2>1. FrameOK(f, request[r], seen[r], Considered(r), {})
    BY <1>2, TopOK DEF WalkOK, PendingKey
  <2>2. f.hit => ~Unconfigured(f.model, Mode(r))
    BY <1>2, <2>1 DEF FrameOK
  <2>3. QED
    BY <2>2, VerdictKinds
<1> HIDE DEF kind, c
<1>5. /\ g \in Frame
      /\ g.model = c.model
      /\ g.left = c.left
      /\ g.fb = c.fb
      /\ g.hit <=> c.hit \/ f.hit
  <2>1. f.soonest \in Nat /\ f.hit \in BOOLEAN
    BY <1>2 DEF Frame
  <2>2. CASE kind = "rate_limit"
    BY <1>3, <1>4, <2>1, <2>2, LimitedFrame
  <2>3. CASE kind # "rate_limit"
    BY <1>3, <1>4, <2>1, <2>3
  <2>4. QED
    BY <2>2, <2>3
<1> HIDE DEF g
<1>6. Popped(stack[r], g, s)
  BY <1>1, <1>2, <1>5, PopFrame
<1> HIDE DEF s
<1>7. s \in Stacks /\ c = stack[r][Len(s)]
  <2>1. s \in Stacks
    BY <1>6 DEF Popped
  <2>2. Len(s) = n - 1
    BY <1>6 DEF Popped
  <2>3. QED
    BY <2>1, <2>2 DEF c
<1>8. WalkOK(request[r], "walking", s, seen[r], trying[r], Considered(r))
  BY <1>1, <1>2, <1>5, <1>6, <1>7, WalkReturns
<1>9. WalkUpdate(r, "walking", s, seen[r], trying[r], called[r], skipped[r])
  BY <1>1, LoopDoneFacts, Unchanged DEF WalkUpdate
<1>10. Meter!MeterTypeOK' /\ cooldowns' \in [DepKeys -> Nat]
  BY <1>1 DEF IInv, TypeOK, Meter!MeterTypeOK
<1>11. QED
  <2>1. /\ "walking" \in Active
        /\ seen[r] \in SUBSET Models
        /\ trying[r] \in Deps
        /\ called[r] \in SUBSET DepKeys
        /\ skipped[r] \in SUBSET DepKeys
        /\ Considered(r) = called[r] \cup skipped[r]
    BY <1>1, LoopDoneFacts
  <2>2. QED
    BY <1>7, <1>8, <1>9, <1>10, <2>1, WalkStep

(***************************************************************************)
(* The steps that end a walk, and those that follow it.                    *)
(***************************************************************************)
LEMMA NoDepType == NoDep \in Deps
BY DEF NoDep

LEMMA ReturnStep ==
    ASSUME IInv, NEW r \in Requests, phase[r] \in Active,
           NEW ph \in {"serving", "done"}, NEW v \in Verdict, Return(r, v),
           phase' = [phase EXCEPT ![r] = ph],
           UNCHANGED <<now, request, called, skipped>>,
           Meter!MeterTypeOK', cooldowns' \in [DepKeys -> Nat],
           ph = "serving" => v.kind = "served" /\ v.key \in DepKeys,
           v.kind \in {"rate_limit", "all_failed", "no_deployment"} =>
             Offered(request[r]) = Considered(r),
           v.kind \in {"all_failed", "no_deployment"}
             /\ Mode(r) \in {"complete", "stream"} => Considered(r) = {}
    PROVE  IInv'
<1>1. /\ verdict' = [verdict EXCEPT ![r] = v]
      /\ seen' = [seen EXCEPT ![r] = {}]
      /\ stack' = [stack EXCEPT ![r] = <<>>]
      /\ trying' = [trying EXCEPT ![r] = NoDep]
  BY DEF Return
<1>2. TypeOK'
  <2>1. <<>> \in Seq(Frame)
    OBVIOUS
  <2>2. QED
    BY <1>1, <2>1, NoDepType DEF IInv, TypeOK, Phases
<1>3. /\ request'[r] = request[r]
      /\ phase'[r] = ph
      /\ seen'[r] = {}
      /\ stack'[r] = <<>>
      /\ trying'[r] = NoDep
      /\ verdict'[r] = v
      /\ called'[r] \cup skipped'[r] = Considered(r)
  BY <1>1 DEF IInv, TypeOK, Considered
<1>4. RequestOK(request[r], ph, <<>>, {}, NoDep, Considered(r), v)
  <2>1. \A k \in Considered(r) : k[1] \notin request[r].blocked
    BY DEF IInv, LocalOK, RequestOK
  <2>2. ph \notin Active /\ ph # "idle"
    BY DEF Active
  <2>3. QED
    BY <2>1, <2>2 DEF RequestOK, Mode
<1>5. OthersKeep(r)
  BY <1>1 DEF IInv, TypeOK, OthersKeep
<1>6. QED
  BY <1>2, <1>3, <1>4, <1>5, LocalStep

LEMMA OneDeploymentVerdicts ==
    ASSUME NEW r \in Requests, Key(r) \in DepKeys
    PROVE  /\ Served(r) \in Verdict /\ Failed(r) \in Verdict
           /\ Served(r).kind = "served" /\ Failed(r).kind = "terminal"
           /\ Served(r).key = Key(r) /\ Failed(r).key = Key(r)
BY DEF Served, Failed, Verdict

LEMMA AnswerWholeStep ==
    ASSUME IInv, NEW r \in Requests, NEW n \in TokenCounts, AnswerWhole(r, n)
    PROVE  IInv'
<1>1. /\ phase[r] \in Active
      /\ Meter!RecordTokens(Key(r), n, now)
      /\ phase' = [phase EXCEPT ![r] = "done"]
      /\ Return(r, Served(r))
      /\ UNCHANGED <<now, cooldowns, request, called, skipped>>
  BY DEF AnswerWhole, Active
<1>2. Key(r) \in DepKeys
  BY <1>1, LocalTypes
<1>3. Meter!MeterTypeOK' /\ cooldowns' \in [DepKeys -> Nat]
  BY <1>1, <1>2, MeterStepTypes DEF IInv, TypeOK
<1>4. QED
  BY <1>1, <1>2, <1>3, OneDeploymentVerdicts, ReturnStep

LEMMA AnswerOpenStep ==
    ASSUME IInv, NEW r \in Requests, AnswerOpen(r)
    PROVE  IInv'
<1>1. /\ phase[r] \in Active
      /\ phase' = [phase EXCEPT ![r] = "serving"]
      /\ Return(r, Served(r))
      /\ UNCHANGED <<now, windows, cooldowns, request, called, skipped>>
  BY DEF AnswerOpen, Active
<1>2. Key(r) \in DepKeys
  BY <1>1, LocalTypes
<1>3. Meter!MeterTypeOK' /\ cooldowns' \in [DepKeys -> Nat]
  BY <1>1 DEF IInv, TypeOK, Meter!MeterTypeOK
<1>4. QED
  BY <1>1, <1>2, <1>3, OneDeploymentVerdicts, ReturnStep

LEMMA AnswerTerminalStep ==
    ASSUME IInv, NEW r \in Requests, AnswerTerminal(r)
    PROVE  IInv'
<1>1. /\ phase[r] \in Active
      /\ phase' = [phase EXCEPT ![r] = "done"]
      /\ Return(r, Failed(r))
      /\ UNCHANGED <<now, windows, cooldowns, request, called, skipped>>
  BY DEF AnswerTerminal, Active
<1>2. Key(r) \in DepKeys
  BY <1>1, LocalTypes
<1>3. Meter!MeterTypeOK' /\ cooldowns' \in [DepKeys -> Nat]
  BY <1>1 DEF IInv, TypeOK, Meter!MeterTypeOK
<1>4. QED
  BY <1>1, <1>2, <1>3, OneDeploymentVerdicts, ReturnStep

LEMMA GiveUpStep ==
    ASSUME IInv, NEW r \in Requests, GiveUp(r)
    PROVE  IInv'
<1> DEFINE f == Top(r)
           kind == ExhaustedAs(f, Mode(r))
           v == Exhausted(kind, f.soonest)
<1>1. /\ LoopDone(r)
      /\ f.fb > Len(FallbacksOf(f.model, Mode(r)))
      /\ Len(stack[r]) = 1 \/ kind = "invalid_request"
      /\ phase' = [phase EXCEPT ![r] = "done"]
      /\ Return(r, v)
      /\ UNCHANGED <<now, windows, cooldowns, request, called, skipped>>
  BY DEF GiveUp, FallbacksDone
<1>2. /\ request[r] \in Query
      /\ stack[r] \in Stacks
      /\ seen[r] \in SUBSET Models
      /\ WalkOK(request[r], "walking", stack[r], seen[r], trying[r],
                Considered(r))
      /\ f = stack[r][Len(stack[r])]
      /\ f.left = {}
      /\ f \in Frame
      /\ Considered(r) \in SUBSET DepKeys
      /\ Mode(r) = request[r].mode
      /\ phase[r] \in Active
  BY <1>1, LoopDoneFacts
<1>3. /\ kind \in {"rate_limit", "all_failed", "no_deployment",
                   "invalid_request"}
      /\ kind # "invalid_request" => Len(stack[r]) = 1
  BY <1>1, VerdictKinds
<1>4. Len(stack[r]) = 1 =>
        /\ Offered(request[r]) = Considered(r)
        /\ request[r].mode \in {"complete", "stream"} /\ Considered(r) # {} =>
             kind = "rate_limit"
  <2>1. UsedUp(stack[r][Len(stack[r])], request[r])
    BY <1>1, <1>2 DEF UsedUp
  <2>2. Len(stack[r]) = 1 =>
          Conclusive(request[r], stack[r][Len(stack[r])], Considered(r))
    BY <1>2, <2>1, WalkEnds
  <2>3. QED
    BY <1>2, <2>2 DEF Conclusive
<1>5. f.soonest \in Nat
  BY <1>2 DEF Frame
<1> HIDE DEF kind
<1>6. v \in Verdict /\ v.kind = kind
  BY <1>3, <1>5 DEF Exhausted, Verdict
<1> HIDE DEF v
<1>7. Meter!MeterTypeOK' /\ cooldowns' \in [DepKeys -> Nat]
  BY <1>1 DEF IInv, TypeOK, Meter!MeterTypeOK
<1>8. /\ v.kind \in {"rate_limit", "all_failed", "no_deployment"} =>
           Offered(request[r]) = Considered(r)
      /\ v.kind \in {"all_failed", "no_deployment"}
           /\ Mode(r) \in {"complete", "stream"} => Considered(r) = {}
  BY <1>2, <1>3, <1>4, <1>6
<1>9. QED
  BY <1>1, <1>2, <1>6, <1>7, <1>8, ReturnStep

LEMMA SettleStep ==
    ASSUME IInv, NEW r \in Requests, NEW n \in TokenCounts, Settle(r, n)
    PROVE  IInv'
<1>1. /\ phase[r] = "serving"
      /\ Meter!RecordTokens(verdict[r].key, n, now)
      /\ phase' = [phase EXCEPT ![r] = "done"]
      /\ UNCHANGED <<now, cooldowns, request, seen, stack, trying, verdict,
                     called, skipped>>
  BY DEF Settle
<1>2. /\ verdict[r].key \in DepKeys
      /\ stack[r] = <<>>
      /\ verdict[r].kind = "served"
      /\ \A k \in Considered(r) : k[1] \notin request[r].blocked
  BY <1>1 DEF IInv, LocalOK, RequestOK, Active
<1>3. TypeOK'
  BY <1>1, <1>2, MeterStepTypes DEF IInv, TypeOK, Phases
<1>4. RequestOK(request[r], "done", stack[r], seen[r], trying[r],
                Considered(r), verdict[r])
  BY <1>2 DEF RequestOK, Active
<1>5. /\ request'[r] = request[r]
      /\ phase'[r] = "done"
      /\ seen'[r] = seen[r]
      /\ stack'[r] = stack[r]
      /\ trying'[r] = trying[r]
      /\ verdict'[r] = verdict[r]
      /\ called'[r] \cup skipped'[r] = Considered(r)
  BY <1>1 DEF IInv, TypeOK, Considered
<1>6. OthersKeep(r)
  BY <1>1 DEF IInv, TypeOK, OthersKeep
<1>7. QED
  BY <1>3, <1>4, <1>5, <1>6, LocalStep

\* No walk is touched by the clock or the limits endpoint.
LEMMA QuietStep ==
    ASSUME IInv, ReportLimits \/ Tick \/ UNCHANGED vars
    PROVE  IInv'
<1>1. UNCHANGED walkVars
  BY DEF ReportLimits, Tick, vars
<1>2. TypeOK'
  <2>1. now' \in 0 .. MaxTime
    BY RouterAssumption DEF IInv, TypeOK, ReportLimits, Tick, vars
  <2>2. Meter!MeterTypeOK'
    BY DEF IInv, TypeOK, ReportLimits, Tick, vars, Meter!MeterTypeOK
  <2>3. cooldowns' \in [DepKeys -> Nat]
    BY DEF IInv, TypeOK, ReportLimits, Tick, vars
  <2>4. QED
    BY <1>1, <2>1, <2>2, <2>3 DEF IInv, TypeOK, walkVars
<1>3. \A r \in Requests : LocalOK(r)'
  BY <1>1 DEF IInv, LocalOK, Considered, walkVars
<1>4. QED
  BY <1>2, <1>3 DEF IInv

-----------------------------------------------------------------------------
(***************************************************************************)
(* The invariant of the specification, and the safety properties it        *)
(* implies.                                                                *)
(***************************************************************************)
LEMMA NextIInv == IInv /\ [Next]_vars => IInv'
<1> SUFFICES ASSUME IInv, [Next]_vars PROVE IInv'
  OBVIOUS
<1>1. ASSUME NEW r \in Requests, NEW mode \in UsedModes, NEW m \in Models,
             NEW blocked \in BlockedSets, Arrive(r, mode, m, blocked)
      PROVE  IInv'
  BY <1>1, ArriveStep
<1>2. ASSUME NEW r \in Requests, Step(r)
      PROVE  IInv'
  BY <1>2, SkipCooledStep, PassCheckStep, SkipOverCapStep, DispatchStep,
     FallbackSeenStep, EnterFallbackStep, ReturnToCallerStep, GiveUpStep
     DEF Step
<1>3. ASSUME NEW r \in Requests, Answer(r)
      PROVE  IInv'
  BY <1>3, AnswerWholeStep, AnswerOpenStep, AnswerTerminalStep,
     AnswerRetryableStep, AnswerForgottenStep DEF Answer
<1>4. ASSUME NEW r \in Requests, NEW n \in TokenCounts, Settle(r, n)
      PROVE  IInv'
  BY <1>4, SettleStep
<1>5. CASE ReportLimits \/ Tick \/ UNCHANGED vars
  BY <1>5, QuietStep
<1>6. QED
  BY <1>1, <1>2, <1>3, <1>4, <1>5 DEF Next

LEMMA InvariantHolds == Spec => []IInv
<1>1. Init => IInv
  BY InitIInv
<1>2. IInv /\ [Next]_vars => IInv'
  BY NextIInv
<1>3. QED
  BY <1>1, <1>2, PTL DEF Spec

\* Every reachable state of the walks is well typed (router.go, all methods).
THEOREM TypeCorrect == Spec => []TypeOK
<1>1. IInv => TypeOK
  BY DEF IInv
<1>2. QED
  BY <1>1, InvariantHolds, PTL

\* A restricted key never reaches a blocked model, through however many
\* fallbacks and beside whatever other requests (seedSeen).
THEOREM BlockedModelsUnused == Spec => []BlockedNeverUsed
<1>1. IInv => BlockedNeverUsed
  BY DEF IInv, LocalOK, RequestOK, BlockedNeverUsed, Considered
<1>2. QED
  BY <1>1, InvariantHolds, PTL

\* The depth-first walk loses no branch: a request that is given up has
\* called or skipped exactly what was on offer to it (completeWithSeen,
\* streamWithSeen, messagesPassthroughWithSeen, Embed, GenerateImage).
THEOREM NothingOverlooked == Spec => []GaveUpOnlyAfterAll
<1>1. IInv => GaveUpOnlyAfterAll
  BY DEF IInv, LocalOK, RequestOK, GaveUpOnlyAfterAll, GivenUp, Considered
<1>2. QED
  BY <1>1, InvariantHolds, PTL

\* A chat request that met any limit is answered 429, never 500 or 404
\* (hitRateLimit in completeWithSeen and streamWithSeen).
THEOREM LimitsSurface == Spec => []LimitsSurfaceAs429
<1>1. IInv => LimitsSurfaceAs429
  BY DEF IInv, LocalOK, RequestOK, LimitsSurfaceAs429, Considered
<1>2. QED
  BY <1>1, InvariantHolds, PTL

-----------------------------------------------------------------------------
(***************************************************************************)
(* Tokens.  A request that is calling a key has recorded the call, and one *)
(* that is served by a stream carries the key of one of its calls.         *)
(***************************************************************************)
ServedBy(k) == [kind |-> "served", key |-> k, retryAfter |-> 0]

CallKnown(ph, s, d, cs, v) ==
    /\ ph = "calling" => <<s[Len(s)].model, d>> \in cs
    /\ ph = "serving" => \E k \in cs : v = ServedBy(k)

LocalCall(r) ==
    CallKnown(phase[r], stack[r], trying[r], called[r], verdict[r])

CallsKnown == \A r \in Requests : LocalCall(r)

LEMMA CallStep ==
    ASSUME CallsKnown, NEW r \in Requests, OthersKeep(r),
           CallKnown(phase'[r], stack'[r], trying'[r], called'[r], verdict'[r])
    PROVE  CallsKnown'
<1>1. ASSUME NEW x \in Requests PROVE LocalCall(x)'
  <2>1. CASE x = r
    BY <2>1 DEF LocalCall
  <2>2. CASE x # r
    BY <2>2 DEF CallsKnown, LocalCall, OthersKeep
  <2>3. QED
    BY <2>1, <2>2
<1>2. QED
  BY <1>1 DEF CallsKnown

\* The steps after which the request is neither calling nor served.
LEMMA CallNotBegun ==
    ASSUME IInv, CallsKnown, NEW r \in Requests,
           \/ \E mode \in UsedModes, m \in Models, blocked \in BlockedSets :
                 Arrive(r, mode, m, blocked)
           \/ \E d \in Deps : SkipCooled(r, d) \/ PassCheck(r, d)
           \/ SkipOverCap(r)
           \/ FallbackSeen(r)
           \/ EnterFallback(r)
           \/ ReturnToCaller(r)
           \/ GiveUp(r)
           \/ \E n \in TokenCounts : AnswerWhole(r, n) \/ Settle(r, n)
           \/ AnswerTerminal(r)
           \/ \E hint \in Hints : AnswerRetryable(r, hint)
           \/ AnswerForgotten(r)
    PROVE  CallsKnown'
<1>1. OthersKeep(r)
  BY DEF IInv, TypeOK, OthersKeep, Arrive, SkipCooled, PassCheck, SkipOverCap,
     FallbackSeen, EnterFallback, ReturnToCaller, GiveUp, AnswerWhole, Settle,
     AnswerTerminal, AnswerRetryable, AnswerForgotten, SetTop, Return
<1>2. phase'[r] # "calling" /\ phase'[r] # "serving"
  BY DEF IInv, TypeOK, Arrive, SkipCooled, PassCheck, SkipOverCap,
     FallbackSeen, EnterFallback, ReturnToCaller, GiveUp, AnswerWhole, Settle,
     AnswerTerminal, AnswerRetryable, AnswerForgotten, FallbacksDone,
     MoreFallbacks, LoopDone
<1>3. QED
  BY <1>1, <1>2, CallStep DEF CallKnown

LEMMA DispatchKnown ==
    ASSUME IInv, CallsKnown, NEW r \in Requests, Dispatch(r)
    PROVE  CallsKnown'
<1>1. OthersKeep(r)
  BY DEF IInv, TypeOK, OthersKeep, Dispatch
<1>2. /\ phase'[r] = "calling"
      /\ stack'[r] = stack[r]
      /\ trying'[r] = trying[r]
      /\ Key(r) \in called'[r]
  BY DEF IInv, TypeOK, Dispatch
<1>3. CallKnown(phase'[r], stack'[r], trying'[r], called'[r], verdict'[r])
  BY <1>2 DEF CallKnown, Key, Top
<1>4. QED
  BY <1>1, <1>3, CallStep

LEMMA CalledKey ==
    ASSUME CallsKnown, NEW r \in Requests, phase[r] = "calling"
    PROVE  Key(r) \in called[r] /\ Served(r) = ServedBy(Key(r))
BY DEF CallsKnown, LocalCall, CallKnown, Key, Top, Served, ServedBy

LEMMA AnswerOpenKnown ==
    ASSUME IInv, CallsKnown, NEW r \in Requests, AnswerOpen(r)
    PROVE  CallsKnown'
<1>1. OthersKeep(r)
  BY DEF IInv, TypeOK, OthersKeep, AnswerOpen, Return
<1>2. /\ phase[r] = "calling"
      /\ phase'[r] = "serving"
      /\ called'[r] = called[r]
      /\ verdict'[r] = Served(r)
  BY DEF IInv, TypeOK, AnswerOpen, Return
<1>3. CallKnown(phase'[r], stack'[r], trying'[r], called'[r], verdict'[r])
  BY <1>2, CalledKey DEF CallKnown
<1>4. QED
  BY <1>1, <1>3, CallStep

LEMMA NextKnown == IInv /\ CallsKnown /\ [Next]_vars => CallsKnown'
<1> SUFFICES ASSUME IInv, CallsKnown, [Next]_vars PROVE CallsKnown'
  OBVIOUS
<1>1. CASE ReportLimits \/ Tick \/ UNCHANGED vars
  <2>1. UNCHANGED walkVars
    BY <1>1 DEF ReportLimits, Tick, vars
  <2>2. QED
    BY <2>1 DEF CallsKnown, LocalCall, walkVars
<1>2. ASSUME NEW r \in Requests, Dispatch(r) \/ AnswerOpen(r)
      PROVE  CallsKnown'
  BY <1>2, DispatchKnown, AnswerOpenKnown
<1>3. ASSUME NEW r \in Requests, NEW mode \in UsedModes, NEW m \in Models,
             NEW blocked \in BlockedSets, Arrive(r, mode, m, blocked)
      PROVE  CallsKnown'
  BY <1>3, CallNotBegun
<1>4. ASSUME NEW r \in Requests, Step(r)
      PROVE  CallsKnown'
  BY <1>2, <1>4, CallNotBegun DEF Step
<1>5. ASSUME NEW r \in Requests, Answer(r)
      PROVE  CallsKnown'
  BY <1>2, <1>5, CallNotBegun DEF Answer
<1>6. ASSUME NEW r \in Requests, NEW n \in TokenCounts, Settle(r, n)
      PROVE  CallsKnown'
  BY <1>6, CallNotBegun
<1>7. QED
  BY <1>1, <1>3, <1>4, <1>5, <1>6 DEF Next

\* The meter's operations, as far as the tokens go: only RecordTokens adds
\* any, and only to the window of its key.
LEMMA MeterTokens ==
    ASSUME TypeOK, NEW k \in DepKeys, NEW x \in DepKeys,
           windows'[x].tokens > windows[x].tokens
    PROVE  /\ ~Meter!Admit(k, now)
           /\ ~Meter!Reject(k, now)
           /\ \A n \in TokenCounts : Meter!RecordTokens(k, n, now) => x = k
<1> DEFINE win == Meter!Win(k, now)
<1>1. /\ windows \in [DepKeys -> Meter!Window]
      /\ windows[x] \in Meter!Window
      /\ windows[x].tokens \in Nat
  BY DEF TypeOK, Meter!MeterTypeOK, Meter!Window
<1>2. win \in Meter!Window /\ win.tokens <= windows[k].tokens
  <2>1. now \in Nat /\ Minute \in Nat \ {0} /\ now \div Minute \in Nat
    BY ClockTypes
  <2>2. windows[k] \in Meter!Window /\ windows[k].tokens \in Nat
    BY <1>1 DEF Meter!Window
  <2>3. QED
    BY <2>1, <2>2 DEF Meter!Win, Meter!EmptyWindow, Meter!MinuteOf, Meter!Window
<1>3. [win EXCEPT !.requests = win.requests + 1].tokens = win.tokens
  BY <1>2 DEF Meter!Window
<1> HIDE DEF win
<1>4. ~Meter!Admit(k, now)
  <2> SUFFICES ASSUME Meter!Admit(k, now) PROVE FALSE
    OBVIOUS
  <2>1. windows' = [windows EXCEPT ![k] =
                      [win EXCEPT !.requests = win.requests + 1]]
    BY DEF Meter!Admit, win
  <2>2. windows'[x].tokens <= windows[x].tokens
    <3>1. CASE x = k
      BY <1>1, <1>2, <1>3, <2>1, <3>1
    <3>2. CASE x # k
      BY <1>1, <2>1, <3>2
    <3>3. QED
      BY <3>1, <3>2
  <2>3. windows'[x].tokens \in Nat
    <3>1. win.tokens \in Nat
      BY <1>2 DEF Meter!Window
    <3>2. QED
      BY <1>1, <1>3, <2>1, <3>1
  <2>4. QED
    BY <1>1, <2>2, <2>3
<1>5. ~Meter!Reject(k, now)
  <2> SUFFICES ASSUME Meter!Reject(k, now) PROVE FALSE
    OBVIOUS
  <2>1. windows' = [windows EXCEPT ![k] = win]
    BY DEF Meter!Reject, win
  <2>2. win.tokens \in Nat
    BY <1>2 DEF Meter!Window
  <2>3. windows'[x].tokens <= windows[x].tokens /\ windows'[x].tokens \in Nat
    BY <1>1, <1>2, <2>1, <2>2
  <2>4. QED
    BY <1>1, <2>3
<1>6. ASSUME NEW n \in TokenCounts, Meter!RecordTokens(k, n, now)
      PROVE  x = k
  <2> SUFFICES ASSUME x # k PROVE FALSE
    OBVIOUS
  <2>1. windows'[x] = windows[x]
    BY <1>1, <1>6 DEF Meter!RecordTokens
  <2>2. QED
    BY <1>1, <2>1
<1>7. QED
  BY <1>4, <1>5, <1>6

\* The step that adds tokens to k ends a request k has served.
TokensAccounted(k) ==
    \E r \in Requests :
        /\ phase[r] # "done" /\ phase'[r] = "done"
        /\ verdict'[r] = ServedBy(k)
        /\ k \in called[r]

LEMMA AnswerWholeCredits ==
    ASSUME IInv, CallsKnown, NEW r \in Requests, NEW n \in TokenCounts,
           AnswerWhole(r, n),
           NEW k \in DepKeys, windows'[k].tokens > windows[k].tokens
    PROVE  TokensAccounted(k)
<1>1. /\ phase[r] = "calling"
      /\ Meter!RecordTokens(Key(r), n, now)
      /\ phase'[r] = "done"
      /\ verdict'[r] = Served(r)
  BY DEF IInv, TypeOK, AnswerWhole, Return
<1>2. Key(r) \in DepKeys
  BY <1>1, LocalTypes DEF Active
<1>3. k = Key(r)
  BY <1>1, <1>2, MeterTokens DEF IInv
<1>4. QED
  BY <1>1, <1>3, CalledKey DEF TokensAccounted

LEMMA SettleCredits ==
    ASSUME IInv, CallsKnown, NEW r \in Requests, NEW n \in TokenCounts,
           Settle(r, n),
           NEW k \in DepKeys, windows'[k].tokens > windows[k].tokens
    PROVE  TokensAccounted(k)
<1>1. /\ phase[r] = "serving"
      /\ Meter!RecordTokens(verdict[r].key, n, now)
      /\ phase'[r] = "done"
      /\ verdict'[r] = verdict[r]
  BY DEF IInv, TypeOK, Settle
<1>2. PICK x \in called[r] : verdict[r] = ServedBy(x)
  BY <1>1 DEF CallsKnown, LocalCall, CallKnown
<1>3. verdict[r].key = x /\ x \in DepKeys
  BY <1>2 DEF ServedBy, IInv, TypeOK
<1>4. k = x
  BY <1>1, <1>3, MeterTokens DEF IInv
<1>5. QED
  BY <1>1, <1>2, <1>4 DEF TokensAccounted

LEMMA OthersCreditNothing ==
    ASSUME IInv, NEW r \in Requests, SkipOverCap(r) \/ Dispatch(r),
           NEW k \in DepKeys, windows'[k].tokens > windows[k].tokens
    PROVE  FALSE
<1>1. phase[r] = "checked" /\ (Meter!Reject(Key(r), now)
                                 \/ Meter!Admit(Key(r), now))
  BY DEF SkipOverCap, Dispatch
<1>2. Key(r) \in DepKeys
  BY <1>1, LocalTypes DEF Active
<1>3. QED
  BY <1>1, <1>2, MeterTokens DEF IInv

LEMMA TokenStep ==
    ASSUME IInv, CallsKnown, [Next]_vars,
           NEW k \in DepKeys, windows'[k].tokens > windows[k].tokens
    PROVE  TokensAccounted(k)
<1>0. windows' # windows
  <2>1. windows[k].tokens \in Nat
    BY DEF IInv, TypeOK, Meter!MeterTypeOK, Meter!Window
  <2>2. QED
    BY <2>1
<1>1. CASE ReportLimits \/ Tick \/ UNCHANGED vars
  BY <1>0, <1>1 DEF ReportLimits, Tick, vars
<1>2. ASSUME NEW r \in Requests, NEW mode \in UsedModes, NEW m \in Models,
             NEW blocked \in BlockedSets, Arrive(r, mode, m, blocked)
      PROVE  FALSE
  BY <1>0, <1>2 DEF Arrive
<1>3. ASSUME NEW r \in Requests, Step(r)
      PROVE  FALSE
  <2>1. CASE SkipOverCap(r) \/ Dispatch(r)
    BY <2>1, OthersCreditNothing
  <2>2. CASE ~(SkipOverCap(r) \/ Dispatch(r))
    BY <1>0, <1>3, <2>2 DEF Step, SkipCooled, PassCheck, FallbackSeen,
       EnterFallback, ReturnToCaller, GiveUp
  <2>3. QED
    BY <2>1, <2>2
<1>4. ASSUME NEW r \in Requests, Answer(r)
      PROVE  TokensAccounted(k)
  <2>1. ASSUME NEW n \in TokenCounts, AnswerWhole(r, n)
        PROVE  TokensAccounted(k)
    BY <2>1, AnswerWholeCredits
  <2>2. QED
    BY <1>0, <1>4, <2>1 DEF Answer, AnswerOpen, AnswerTerminal,
       AnswerRetryable, AnswerForgotten
<1>5. ASSUME NEW r \in Requests, NEW n \in TokenCounts, Settle(r, n)
      PROVE  TokensAccounted(k)
  BY <1>5, SettleCredits
<1>6. QED
  BY <1>1, <1>2, <1>3, <1>4, <1>5 DEF Next

(***************************************************************************)
(* Tokens count only against the key the walk was admitted under, by the   *)
(* step that ends the request it served, whatever fallback that was and    *)
(* however many requests share the meter (RecordTokens, meterStream).      *)
(***************************************************************************)
THEOREM TokensWellCredited == Spec => TokensGoToServer
<1>1. Init => CallsKnown
  BY DEF Init, CallsKnown, LocalCall, CallKnown
<1>2. IInv /\ CallsKnown /\ [Next]_vars => CallsKnown'
  BY NextKnown
<1>3. IInv /\ CallsKnown /\ [Next]_vars =>
        [\A k \in DepKeys :
           windows'[k].tokens > windows[k].tokens => TokensAccounted(k)]_vars
  BY TokenStep
<1>4. TokensGoToServer <=>
        [][\A k \in DepKeys :
             windows'[k].tokens > windows[k].tokens => TokensAccounted(k)]_vars
  BY DEF TokensGoToServer, TokensAccounted, ServedBy
<1>5. QED
  BY <1>1, <1>2, <1>3, <1>4, InvariantHolds, PTL DEF Spec

-----------------------------------------------------------------------------
(***************************************************************************)
(* The dispatch walk implements what routing promises: every behaviour of  *)
(* Router is, under the mapping of Promise, one of Dispatch, for every     *)
(* catalogue and any number of requests.                                   *)
(***************************************************************************)
(***************************************************************************)
(* The mapping, one request at a time.                                     *)
(***************************************************************************)
StatusOf(ph) ==
    CASE ph = "idle" -> "idle"
      [] ph \in {"serving", "done"} -> "closed"
      [] OTHER -> "open"

CurrentOf(ph, s, d) ==
    IF ph = "calling" THEN <<s[Len(s)].model, d>> ELSE <<>>

ResultOf(v) == [kind |-> v.kind, key |-> v.key]

Statuses == [r \in Requests |-> StatusOf(phase[r])]

Currents == [r \in Requests |-> CurrentOf(phase[r], stack[r], trying[r])]

Results == [r \in Requests |-> ResultOf(verdict[r])]

LEMMA StatusCases ==
    /\ StatusOf("idle") = "idle"
    /\ StatusOf("walking") = "open"
    /\ StatusOf("checked") = "open"
    /\ StatusOf("calling") = "open"
    /\ StatusOf("serving") = "closed"
    /\ StatusOf("done") = "closed"
BY DEF StatusOf

\* Both modules read the same catalogue.
LEMMA SameCatalog ==
    /\ Promise!Query = Query
    /\ Promise!DepKeys = DepKeys
    /\ \A q \in Query : Promise!Offered(q) = Offered(q)
    /\ \A q \in Query : Promise!Reachable(q) = Reachable(q)
    /\ \A m, mode : Promise!Candidates(m, mode) = Candidates(m, mode)
<1>1. Promise!Query = Query
  BY DEF Promise!Query, Query, Promise!Modes, Modes
<1>2. Promise!DepKeys = DepKeys
  BY DEF Promise!DepKeys, DepKeys
<1>3. \A m, mode : Promise!Candidates(m, mode) = Candidates(m, mode)
  BY DEF Promise!Candidates, Candidates
<1>4. \A m, mode : Promise!FallbacksOf(m, mode) = FallbacksOf(m, mode)
  BY DEF Promise!FallbacksOf, FallbacksOf, Promise!Walks, Walks
<1>5. \A S, q : Promise!Closed(S, q) <=> Closed(S, q)
  BY <1>4 DEF Promise!Closed, Closed
<1>6. \A q \in Query : Promise!Reachable(q) = Reachable(q)
  BY <1>5 DEF Promise!Reachable, Reachable
<1>7. \A q \in Query : Promise!Offered(q) = Offered(q)
  BY <1>2, <1>3, <1>6 DEF Promise!Offered, Offered
<1>8. QED
  BY <1>1, <1>2, <1>3, <1>6, <1>7

(***************************************************************************)
(* The actions of Dispatch, in the terms of the mapping.                   *)
(***************************************************************************)
LEMMA IsOpen ==
    ASSUME NEW r \in Requests, NEW q \in Query, q.entry \notin q.blocked,
           Statuses[r] = "idle",
           Statuses' = [Statuses EXCEPT ![r] = "open"],
           request' = [request EXCEPT ![r] = q], request'[r] = q,
           Currents' = Currents, Results' = Results,
           UNCHANGED <<called, skipped>>
    PROVE  Promise!Open(r)
<1>1. /\ request'[r] \in Promise!Query
      /\ request'[r].entry \notin request'[r].blocked
      /\ request' = [request EXCEPT ![r] = request'[r]]
  <2>1. q \in Promise!Query
    BY SameCatalog
  <2>2. request'[r] \in Promise!Query
    BY <2>1
  <2>3. request'[r].entry \notin request'[r].blocked
    OBVIOUS
  <2>4. request' = [request EXCEPT ![r] = request'[r]]
    OBVIOUS
  <2>5. QED
    BY <2>2, <2>3, <2>4
<1>2. Statuses[r] = "idle" /\ Statuses' = [Statuses EXCEPT ![r] = "open"]
  OBVIOUS
<1>3. Currents' = Currents /\ Results' = Results /\ UNCHANGED <<called, skipped>>
  OBVIOUS
<1>4. QED
  <2>1. Promise!Open(r) <=>
           /\ Statuses[r] = "idle"
           /\ Statuses' = [Statuses EXCEPT ![r] = "open"]
           /\ request'[r] \in Promise!Query
           /\ request'[r].entry \notin request'[r].blocked
           /\ request' = [request EXCEPT ![r] = request'[r]]
           /\ UNCHANGED <<Currents, called, skipped, Results>>
    BY DEF Promise!Open, Statuses, Currents, Results, StatusOf,
              CurrentOf, ResultOf, Key, Top
  <2>2. QED
    BY <1>1, <1>2, <1>3, <2>1

LEMMA IsPassOver ==
    ASSUME NEW r \in Requests, NEW k \in DepKeys,
           Statuses[r] = "open", Currents[r] = <<>>, request[r] \in Query,
           k \in Offered(request[r]) \ (called[r] \cup skipped[r]),
           skipped' = [skipped EXCEPT ![r] = skipped[r] \cup {k}],
           Statuses' = Statuses, Currents' = Currents, Results' = Results,
           UNCHANGED <<request, called>>
    PROVE  Promise!PassOver(r)
<1>1. k \in Promise!Fresh(r) /\ k \in Promise!DepKeys
  BY SameCatalog DEF Promise!Fresh
<1>2. QED
  BY <1>1 DEF Promise!PassOver, Statuses, Currents, Results, StatusOf,
              CurrentOf, ResultOf, Key, Top

LEMMA IsTry ==
    ASSUME NEW r \in Requests, NEW k \in DepKeys,
           Statuses[r] = "open", Currents[r] = <<>>, request[r] \in Query,
           k \in Offered(request[r]) \ (called[r] \cup skipped[r]),
           called' = [called EXCEPT ![r] = called[r] \cup {k}],
           Currents' = [Currents EXCEPT ![r] = k],
           Statuses' = Statuses, Results' = Results,
           UNCHANGED <<request, skipped>>
    PROVE  Promise!Try(r)
<1>1. k \in Promise!Fresh(r) /\ k \in Promise!DepKeys
  BY SameCatalog DEF Promise!Fresh
<1>2. QED
  BY <1>1 DEF Promise!Try, Statuses, Currents, Results, StatusOf,
              CurrentOf, ResultOf, Key, Top

LEMMA IsResume ==
    ASSUME NEW r \in Requests, Currents[r] # <<>>,
           Currents' = [Currents EXCEPT ![r] = <<>>],
           Statuses' = Statuses, Results' = Results,
           UNCHANGED <<request, called, skipped>>
    PROVE  Promise!Resume(r)
BY DEF Promise!Resume, Statuses, Currents, Results, StatusOf, CurrentOf,
       ResultOf, Key, Top

LEMMA IsConclude ==
    ASSUME NEW r \in Requests, NEW kind \in {"served", "terminal"},
           Currents[r] # <<>>,
           Results' = [Results EXCEPT ![r] =
                         [kind |-> kind, key |-> Currents[r]]],
           Currents' = [Currents EXCEPT ![r] = <<>>],
           Statuses' = [Statuses EXCEPT ![r] = "closed"],
           UNCHANGED <<request, called, skipped>>
    PROVE  Promise!Conclude(r)
BY DEF Promise!Conclude, Statuses, Currents, Results, StatusOf, CurrentOf,
       ResultOf, Key, Top

LEMMA IsGiveUp ==
    ASSUME NEW r \in Requests,
           NEW kind \in {"rate_limit", "all_failed", "no_deployment",
                         "invalid_request"},
           Promise!MayGiveUp(r, kind),
           Statuses[r] = "open", Currents[r] = <<>>, Currents' = Currents,
           Results' = [Results EXCEPT ![r] = [kind |-> kind, key |-> <<>>]],
           Statuses' = [Statuses EXCEPT ![r] = "closed"],
           UNCHANGED <<request, called, skipped>>
    PROVE  Promise!GiveUp(r)
BY DEF Promise!GiveUp, Statuses, Currents, Results, StatusOf, CurrentOf,
       ResultOf, Key, Top

LEMMA IsStutter ==
    ASSUME Statuses' = Statuses, Currents' = Currents, Results' = Results,
           UNCHANGED <<request, called, skipped>>
    PROVE  UNCHANGED Promise!vars
BY DEF Promise!vars, Statuses, Currents, Results, StatusOf, CurrentOf,
       ResultOf, Key, Top

-----------------------------------------------------------------------------
(***************************************************************************)
(* A step of one request changes the mapping of that request alone.        *)
(***************************************************************************)
LEMMA Mapped ==
    ASSUME NEW r \in Requests
    PROVE  /\ Statuses[r] = StatusOf(phase[r])
           /\ Currents[r] = CurrentOf(phase[r], stack[r], trying[r])
           /\ Results[r] = ResultOf(verdict[r])
           /\ \A x : x = Statuses[r] => [Statuses EXCEPT ![r] = x] = Statuses
           /\ \A x : x = Currents[r] => [Currents EXCEPT ![r] = x] = Currents
           /\ \A x : x = Results[r] => [Results EXCEPT ![r] = x] = Results
BY DEF Statuses, Currents, Results

LEMMA MappedStep ==
    ASSUME NEW r \in Requests, OthersKeep(r)
    PROVE  /\ Statuses' = [Statuses EXCEPT ![r] = StatusOf(phase'[r])]
           /\ Currents' = [Currents EXCEPT ![r] =
                             CurrentOf(phase'[r], stack'[r], trying'[r])]
           /\ Results' = [Results EXCEPT ![r] = ResultOf(verdict'[r])]
BY DEF OthersKeep, Statuses, Currents, Results

LEMMA CurrentCases ==
    ASSUME NEW ph, NEW s, NEW d
    PROVE  /\ ph # "calling" => CurrentOf(ph, s, d) = <<>>
           /\ ph = "calling" => CurrentOf(ph, s, d) = <<s[Len(s)].model, d>>
BY DEF CurrentOf

\* A step that neither begins nor ends a call, nor the walk, and considers
\* nothing is invisible.
LEMMA Invisible ==
    ASSUME NEW r \in Requests, OthersKeep(r),
           StatusOf(phase'[r]) = StatusOf(phase[r]),
           phase[r] # "calling", phase'[r] # "calling",
           verdict'[r] = verdict[r],
           UNCHANGED <<request, called, skipped>>
    PROVE  UNCHANGED Promise!vars
<1>1. Statuses' = Statuses
  BY Mapped, MappedStep
<1>2. Currents' = Currents
  BY Mapped, MappedStep, CurrentCases
<1>3. Results' = Results
  BY Mapped, MappedStep
<1>4. QED
  BY <1>1, <1>2, <1>3, IsStutter

(***************************************************************************)
(* What a walk considers next is on offer and was not considered before.   *)
(***************************************************************************)
LEMMA NextInLine ==
    ASSUME IInv, NEW r \in Requests, phase[r] = "walking",
           NEW d \in Top(r).left
    PROVE  <<Top(r).model, d>> \in Offered(request[r]) \ Considered(r)
<1> DEFINE q == request[r]
           f == Top(r)
<1>1. /\ q \in Query
      /\ stack[r] \in Stacks
      /\ WalkOK(q, "walking", stack[r], seen[r], trying[r], Considered(r))
      /\ stack[r] # <<>>
      /\ f \in Frame
      /\ f.model \in Models
      /\ f.left \subseteq Deps
  BY LocalTypes DEF Active
<1>2. /\ StackOK(q, stack[r], seen[r], Considered(r), {})
      /\ VisitedOK(q, stack[r], seen[r], Considered(r))
  BY <1>1 DEF WalkOK, PendingKey
<1>3. FrameOK(f, q, seen[r], Considered(r), {})
  BY <1>1, <1>2, TopIsFrame DEF StackOK, Top
<1>4. /\ f.model \in Reachable(q)
      /\ d \in Candidates(f.model, q.mode)
      /\ <<f.model, d>> \notin Considered(r)
      /\ <<f.model, d>> \in DepKeys
  BY <1>1, <1>2, <1>3 DEF FrameOK, VisitedOK, DepKeys
<1> HIDE DEF f, q
<1>5. <<f.model, d>>[1] = f.model /\ <<f.model, d>>[2] = d
  OBVIOUS
<1>6. <<f.model, d>> \in Offered(q)
  BY <1>4, <1>5 DEF Offered
<1>7. QED
  BY <1>4, <1>6 DEF f, q

LEMMA CheckedKey ==
    ASSUME IInv, NEW r \in Requests, phase[r] = "checked"
    PROVE  Key(r) \in DepKeys /\ Key(r) \in Offered(request[r]) \ Considered(r)
<1> DEFINE q == request[r]
           pend == {Key(r)}
<1>1. /\ q \in Query
      /\ WalkOK(q, "checked", stack[r], seen[r], trying[r], Considered(r))
      /\ Key(r) \in DepKeys
  BY LocalTypes DEF Active
<1>2. PendingKey("checked", stack[r], trying[r]) = pend
  BY DEF PendingKey, Key, Top
<1>3. /\ VisitedOK(q, stack[r], seen[r], Considered(r))
      /\ KeysOK(q, seen[r], Considered(r) \cup pend)
      /\ pend \cap Considered(r) = {}
  BY <1>1, <1>2 DEF WalkOK
<1>4. /\ Key(r)[1] \in Reachable(q)
      /\ Key(r)[2] \in Candidates(Key(r)[1], q.mode)
  BY <1>3 DEF KeysOK, VisitedOK
<1>5. Key(r) \in Offered(q)
  BY <1>1, <1>4 DEF Offered
<1>6. QED
  BY <1>1, <1>3, <1>5

(***************************************************************************)
(* Every action of Router is an action of Dispatch or invisible.           *)
(***************************************************************************)
LEMMA ArriveMaps ==
    ASSUME IInv, NEW r \in Requests, NEW mode \in UsedModes, NEW m \in Models,
           NEW blocked \in BlockedSets, Arrive(r, mode, m, blocked)
    PROVE  Promise!Open(r)
<1> DEFINE q == [mode |-> mode, entry |-> m, blocked |-> blocked]
<1>1. q \in Query /\ q.entry \notin q.blocked
  BY RouterAssumption DEF Query, Arrive
<1> HIDE DEF q
<1>2. /\ phase[r] = "idle"
      /\ request' = [request EXCEPT ![r] = q]
      /\ phase' = [phase EXCEPT ![r] = "walking"]
      /\ UNCHANGED <<verdict, called, skipped>>
  BY DEF Arrive, q
<1>3. phase'[r] = "walking" /\ request'[r] = q /\ verdict'[r] = verdict[r]
  BY <1>2 DEF IInv, TypeOK
<1>4. \A x \in Requests \ {r} :
        /\ phase'[x] = phase[x] /\ stack'[x] = stack[x]
        /\ trying'[x] = trying[x] /\ verdict'[x] = verdict[x]
  BY DEF IInv, TypeOK, Arrive
<1>5. /\ Statuses' = [Statuses EXCEPT ![r] = StatusOf(phase'[r])]
      /\ Currents' = [Currents EXCEPT ![r] =
                        CurrentOf(phase'[r], stack'[r], trying'[r])]
      /\ Results' = [Results EXCEPT ![r] = ResultOf(verdict'[r])]
  BY <1>4 DEF Statuses, Currents, Results
<1>6. /\ Statuses[r] = "idle"
      /\ Statuses' = [Statuses EXCEPT ![r] = "open"]
      /\ Currents' = Currents
      /\ Results' = Results
  <2>1. Statuses[r] = "idle" /\ Statuses' = [Statuses EXCEPT ![r] = "open"]
    BY <1>2, <1>3, <1>5, Mapped, StatusCases
  <2>2. Currents' = Currents
    BY <1>2, <1>3, <1>5, Mapped, CurrentCases
  <2>3. Results' = Results
    BY <1>3, <1>5, Mapped
  <2>4. QED
    BY <2>1, <2>2, <2>3
<1>7. QED
  BY <1>1, <1>2, <1>3, <1>6, IsOpen

LEMMA SkipCooledMaps ==
    ASSUME IInv, NEW r \in Requests, NEW d \in Deps, SkipCooled(r, d)
    PROVE  Promise!PassOver(r)
<1> DEFINE k == <<Top(r).model, d>>
<1>1. /\ phase[r] = "walking"
      /\ d \in Top(r).left
      /\ skipped' = [skipped EXCEPT ![r] = skipped[r] \cup {k}]
      /\ UNCHANGED <<request, phase, trying, verdict, called>>
  BY DEF SkipCooled
<1>2. OthersKeep(r)
  BY DEF IInv, TypeOK, SkipCooled, SetTop, OthersKeep
<1>3. /\ k \in DepKeys
      /\ k \in Offered(request[r]) \ (called[r] \cup skipped[r])
      /\ request[r] \in Query
  BY <1>1, NextInLine, LocalTypes DEF Considered, Offered
<1> HIDE DEF k
<1>4. /\ Statuses[r] = "open"
      /\ Currents[r] = <<>>
      /\ Statuses' = Statuses
      /\ Currents' = Currents
      /\ Results' = Results
  BY <1>1, <1>2, Mapped, MappedStep, StatusCases, CurrentCases
<1>5. QED
  BY <1>1, <1>3, <1>4, IsPassOver

LEMMA SkipOverCapMaps ==
    ASSUME IInv, NEW r \in Requests, SkipOverCap(r)
    PROVE  Promise!PassOver(r)
<1> DEFINE k == Key(r)
<1>1. /\ phase[r] = "checked"
      /\ phase' = [phase EXCEPT ![r] = "walking"]
      /\ skipped' = [skipped EXCEPT ![r] = skipped[r] \cup {k}]
      /\ UNCHANGED <<request, trying, verdict, called>>
  BY DEF SkipOverCap
<1>2. OthersKeep(r) /\ phase'[r] = "walking"
  BY DEF IInv, TypeOK, SkipOverCap, SetTop, OthersKeep
<1>3. /\ k \in DepKeys
      /\ k \in Offered(request[r]) \ (called[r] \cup skipped[r])
      /\ request[r] \in Query
  BY <1>1, CheckedKey, LocalTypes DEF Considered
<1> HIDE DEF k
<1>4. /\ Statuses[r] = "open"
      /\ Currents[r] = <<>>
      /\ Statuses' = Statuses
      /\ Currents' = Currents
      /\ Results' = Results
  BY <1>1, <1>2, Mapped, MappedStep, StatusCases, CurrentCases
<1>5. QED
  BY <1>1, <1>3, <1>4, IsPassOver

LEMMA DispatchMaps ==
    ASSUME IInv, NEW r \in Requests, Dispatch(r)
    PROVE  Promise!Try(r)
<1> DEFINE k == Key(r)
<1>1. /\ phase[r] = "checked"
      /\ phase' = [phase EXCEPT ![r] = "calling"]
      /\ called' = [called EXCEPT ![r] = called[r] \cup {k}]
      /\ UNCHANGED <<request, stack, trying, verdict, skipped>>
  BY DEF Dispatch
<1>2. OthersKeep(r) /\ phase'[r] = "calling"
  BY DEF IInv, TypeOK, Dispatch, OthersKeep
<1>3. /\ k \in DepKeys
      /\ k \in Offered(request[r]) \ (called[r] \cup skipped[r])
      /\ request[r] \in Query
  BY <1>1, CheckedKey, LocalTypes DEF Considered
<1>4. CurrentOf(phase'[r], stack'[r], trying'[r]) = k
  BY <1>1, <1>2, CurrentCases DEF Key, Top
<1> HIDE DEF k
<1>5. /\ Statuses[r] = "open"
      /\ Currents[r] = <<>>
      /\ Statuses' = Statuses
      /\ Currents' = [Currents EXCEPT ![r] = k]
      /\ Results' = Results
  BY <1>1, <1>2, <1>4, Mapped, MappedStep, StatusCases, CurrentCases
<1>6. QED
  BY <1>1, <1>3, <1>5, IsTry

\* The steps that end a call without an answer for the client.
LEMMA CallingKey ==
    ASSUME IInv, NEW r \in Requests, phase[r] = "calling"
    PROVE  Currents[r] = Key(r) /\ Key(r) # <<>> /\ Statuses[r] = "open"
<1>1. Key(r) \in DepKeys
  BY LocalTypes DEF Active
<1>2. Currents[r] = Key(r)
  BY Mapped, CurrentCases DEF Key, Top
<1>3. QED
  BY <1>1, <1>2, Mapped, StatusCases DEF Key

LEMMA ResumeMaps ==
    ASSUME IInv, NEW r \in Requests,
           AnswerForgotten(r) \/ \E hint \in Hints : AnswerRetryable(r, hint)
    PROVE  Promise!Resume(r)
<1>1. /\ phase[r] = "calling"
      /\ phase' = [phase EXCEPT ![r] = "walking"]
      /\ UNCHANGED <<request, trying, verdict, called, skipped>>
  BY DEF AnswerForgotten, AnswerRetryable
<1>2. OthersKeep(r) /\ phase'[r] = "walking"
  BY DEF IInv, TypeOK, AnswerForgotten, AnswerRetryable, SetTop, OthersKeep
<1>3. /\ Currents[r] # <<>>
      /\ Statuses' = Statuses
      /\ Currents' = [Currents EXCEPT ![r] = <<>>]
      /\ Results' = Results
  BY <1>1, <1>2, CallingKey, Mapped, MappedStep, StatusCases, CurrentCases
<1>4. QED
  BY <1>1, <1>3, IsResume

LEMMA ConcludeMaps ==
    ASSUME IInv, NEW r \in Requests, phase[r] = "calling",
           NEW ph \in {"serving", "done"}, NEW v \in {Served(r), Failed(r)},
           Return(r, v), phase' = [phase EXCEPT ![r] = ph],
           UNCHANGED <<request, called, skipped>>
    PROVE  Promise!Conclude(r)
<1>1. OthersKeep(r) /\ phase'[r] = ph /\ verdict'[r] = v
  BY DEF IInv, TypeOK, Return, OthersKeep
<1>2. PICK kind \in {"served", "terminal"} :
        ResultOf(v) = [kind |-> kind, key |-> Key(r)]
  BY DEF ResultOf, Served, Failed
<1>3. Currents[r] # <<>> /\ Currents[r] = Key(r)
  BY CallingKey
<1>4. Statuses' = [Statuses EXCEPT ![r] = "closed"]
  BY <1>1, MappedStep, StatusCases
<1>5. Currents' = [Currents EXCEPT ![r] = <<>>]
  BY <1>1, MappedStep, CurrentCases
<1>6. Results' = [Results EXCEPT ![r] = [kind |-> kind, key |-> Currents[r]]]
  BY <1>1, <1>2, <1>3, MappedStep
<1>7. QED
  BY <1>3, <1>4, <1>5, <1>6, IsConclude

LEMMA AnswerMaps ==
    ASSUME IInv, NEW r \in Requests, Answer(r)
    PROVE  Promise!Resume(r) \/ Promise!Conclude(r)
<1>1. ASSUME NEW n \in TokenCounts, AnswerWhole(r, n)
      PROVE  Promise!Conclude(r)
  BY <1>1, ConcludeMaps DEF AnswerWhole
<1>2. CASE AnswerOpen(r)
  BY <1>2, ConcludeMaps DEF AnswerOpen
<1>3. CASE AnswerTerminal(r)
  BY <1>3, ConcludeMaps DEF AnswerTerminal
<1>4. CASE AnswerForgotten(r) \/ \E hint \in Hints : AnswerRetryable(r, hint)
  BY <1>4, ResumeMaps
<1>5. QED
  BY <1>1, <1>2, <1>3, <1>4 DEF Answer

(***************************************************************************)
(* Giving up: a limit was hit only if something was on offer, and all of   *)
(* it was considered.                                                      *)
(***************************************************************************)
LEMMA LimitNeedsOffer ==
    ASSUME NEW q \in Query, NEW s \in Stacks, NEW sn, NEW d, NEW con,
           WalkOK(q, "walking", s, sn, d, con), s[Len(s)].hit
    PROVE  con # {}
<1>1. StackOK(q, s, sn, con, {})
  BY DEF WalkOK, PendingKey
<1>2. FrameOK(s[Len(s)], q, sn, con, {})
  BY <1>1, TopIsFrame DEF StackOK
<1>3. QED
  BY <1>2 DEF FrameOK

LEMMA GiveUpIsAllowed ==
    ASSUME IInv, NEW r \in Requests, GiveUp(r),
           NEW kind, kind = ExhaustedAs(Top(r), Mode(r))
    PROVE  Promise!MayGiveUp(r, kind)
<1> DEFINE f == Top(r)
           q == request[r]
<1>1. /\ LoopDone(r)
      /\ f.fb > Len(FallbacksOf(f.model, q.mode))
      /\ Len(stack[r]) = 1 \/ kind = "invalid_request"
  BY DEF GiveUp, FallbacksDone, Mode
<1>2. /\ q \in Query
      /\ stack[r] \in Stacks
      /\ seen[r] \in SUBSET Models
      /\ WalkOK(q, "walking", stack[r], seen[r], trying[r], Considered(r))
      /\ f = stack[r][Len(stack[r])]
      /\ f.left = {}
      /\ f \in Frame
      /\ Considered(r) \in SUBSET DepKeys
      /\ Mode(r) = q.mode
  BY <1>1, LoopDoneFacts
<1>3. /\ kind \in {"rate_limit", "all_failed", "no_deployment",
                   "invalid_request"}
      /\ kind = "rate_limit" => f.hit
      /\ kind = "invalid_request" =>
           q.mode \in {"passthrough", "image"} /\ Candidates(f.model, q.mode) = {}
  BY <1>2, VerdictKinds
<1>4. CASE kind = "invalid_request"
  <2>1. /\ StackOK(q, stack[r], seen[r], Considered(r), {})
        /\ VisitedOK(q, stack[r], seen[r], Considered(r))
    BY <1>2 DEF WalkOK, PendingKey
  <2>2. FrameOK(f, q, seen[r], Considered(r), {})
    BY <1>2, <2>1, TopIsFrame DEF StackOK
  <2>3. f.model \in Reachable(q)
    BY <2>1, <2>2 DEF FrameOK, VisitedOK
  <2>4. /\ f.model \in Promise!Reachable(q)
        /\ Promise!Candidates(f.model, q.mode) = {}
    BY <1>2, <1>3, <1>4, <2>3, SameCatalog
  <2>5. QED
    BY <1>3, <1>4, <2>4 DEF Promise!MayGiveUp
<1>5. CASE kind # "invalid_request"
  <2>1. Len(stack[r]) = 1
    BY <1>1, <1>5
  <2>2. UsedUp(stack[r][Len(stack[r])], q)
    BY <1>1, <1>2 DEF UsedUp
  <2>3. Conclusive(q, stack[r][Len(stack[r])], Considered(r))
    BY <1>2, <2>1, <2>2, WalkEnds
  <2>4. /\ Offered(q) = Considered(r)
        /\ q.mode \in {"complete", "stream"} /\ Offered(q) # {} =>
             kind = "rate_limit"
    BY <1>2, <2>3 DEF Conclusive
  <2>5. kind = "rate_limit" => Offered(q) # {}
    BY <1>2, <1>3, <2>4, LimitNeedsOffer
  <2>6. Promise!Offered(q) = Offered(q)
    BY <1>2, SameCatalog
  <2>7. Promise!Fresh(r) = {}
    BY <2>4, <2>6 DEF Promise!Fresh, Considered
  <2>8. QED
    BY <1>3, <1>5, <2>4, <2>5, <2>6, <2>7 DEF Promise!MayGiveUp
<1>6. QED
  BY <1>4, <1>5

LEMMA GiveUpMaps ==
    ASSUME IInv, NEW r \in Requests, GiveUp(r)
    PROVE  Promise!GiveUp(r)
<1> DEFINE kind == ExhaustedAs(Top(r), Mode(r))
           v == Exhausted(kind, Top(r).soonest)
<1>1. /\ phase[r] = "walking"
      /\ phase' = [phase EXCEPT ![r] = "done"]
      /\ Return(r, v)
      /\ UNCHANGED <<request, called, skipped>>
  BY DEF GiveUp, FallbacksDone, LoopDone
<1>2. /\ Promise!MayGiveUp(r, kind)
      /\ kind \in {"rate_limit", "all_failed", "no_deployment",
                   "invalid_request"}
  BY GiveUpIsAllowed, VerdictKinds
<1>3. ResultOf(v) = [kind |-> kind, key |-> <<>>]
  BY DEF ResultOf, Exhausted
<1> HIDE DEF kind, v
<1>4. OthersKeep(r) /\ phase'[r] = "done" /\ verdict'[r] = v
  BY <1>1 DEF IInv, TypeOK, Return, OthersKeep
<1>5. Statuses[r] = "open" /\ Statuses' = [Statuses EXCEPT ![r] = "closed"]
  BY <1>1, <1>4, Mapped, MappedStep, StatusCases
<1>6. Currents[r] = <<>> /\ Currents' = Currents
  BY <1>1, <1>4, Mapped, MappedStep, CurrentCases
<1>7. Results' = [Results EXCEPT ![r] = [kind |-> kind, key |-> <<>>]]
  BY <1>3, <1>4, MappedStep
<1>8. QED
  BY <1>1, <1>2, <1>5, <1>6, <1>7, IsGiveUp

(***************************************************************************)
(* The invisible steps: moving about the frames, metering afterwards, and  *)
(* the steps of no request.                                                *)
(***************************************************************************)
LEMMA MovesAreInvisible ==
    ASSUME IInv, NEW r \in Requests,
           \/ \E d \in Deps : PassCheck(r, d)
           \/ FallbackSeen(r)
           \/ EnterFallback(r)
           \/ ReturnToCaller(r)
    PROVE  UNCHANGED Promise!vars
<1>1. /\ phase[r] = "walking"
      /\ phase' = [phase EXCEPT ![r] = "checked"] \/ phase' = phase
      /\ UNCHANGED <<request, verdict, called, skipped>>
  BY DEF PassCheck, FallbackSeen, EnterFallback, ReturnToCaller,
         MoreFallbacks, FallbacksDone, LoopDone
<1>2. phase'[r] \in {"walking", "checked"}
  BY <1>1 DEF IInv, TypeOK
<1>3. OthersKeep(r)
  <2>1. ASSUME NEW d \in Deps, PassCheck(r, d) PROVE OthersKeep(r)
    BY <2>1 DEF IInv, TypeOK, PassCheck, SetTop, OthersKeep
  <2>2. CASE FallbackSeen(r)
    BY <2>2 DEF IInv, TypeOK, FallbackSeen, SetTop, OthersKeep
  <2>3. CASE EnterFallback(r)
    BY <2>3 DEF IInv, TypeOK, EnterFallback, OthersKeep
  <2>4. CASE ReturnToCaller(r)
    BY <2>4 DEF IInv, TypeOK, ReturnToCaller, OthersKeep
  <2>5. QED
    BY <2>1, <2>2, <2>3, <2>4
<1>4. StatusOf(phase'[r]) = StatusOf(phase[r]) /\ verdict'[r] = verdict[r]
  BY <1>1, <1>2, StatusCases
<1>5. QED
  BY <1>1, <1>2, <1>3, <1>4, Invisible

LEMMA SettleIsInvisible ==
    ASSUME IInv, NEW r \in Requests, NEW n \in TokenCounts, Settle(r, n)
    PROVE  UNCHANGED Promise!vars
<1>1. /\ phase[r] = "serving"
      /\ phase' = [phase EXCEPT ![r] = "done"]
      /\ UNCHANGED <<request, stack, trying, verdict, called, skipped>>
  BY DEF Settle
<1>2. OthersKeep(r) /\ phase'[r] = "done"
  BY DEF IInv, TypeOK, Settle, OthersKeep
<1>3. StatusOf(phase'[r]) = StatusOf(phase[r]) /\ verdict'[r] = verdict[r]
  BY <1>1, <1>2, StatusCases
<1>4. QED
  BY <1>1, <1>2, <1>3, Invisible

LEMMA QuietIsInvisible ==
    ASSUME ReportLimits \/ Tick \/ UNCHANGED vars
    PROVE  UNCHANGED Promise!vars
<1>1. UNCHANGED walkVars
  BY DEF ReportLimits, Tick, vars
<1>2. Statuses' = Statuses /\ Currents' = Currents /\ Results' = Results
  BY <1>1 DEF walkVars, Statuses, Currents, Results
<1>3. QED
  BY <1>1, <1>2, IsStutter DEF walkVars

-----------------------------------------------------------------------------
LEMMA InitMaps == Init => Promise!Init
<1> SUFFICES ASSUME Init PROVE Promise!Init
  OBVIOUS
<1>1. request \in [Requests -> Promise!Query]
  BY InitIInv, SameCatalog DEF IInv, TypeOK
<1>2. /\ Statuses = [r \in Requests |-> "idle"]
      /\ Currents = [r \in Requests |-> <<>>]
      /\ Results = [r \in Requests |-> [kind |-> "none", key |-> <<>>]]
  BY StatusCases, CurrentCases
     DEF Init, Statuses, Currents, Results, ResultOf, NoVerdict
<1>3. /\ called = [r \in Requests |-> {}]
      /\ skipped = [r \in Requests |-> {}]
  BY DEF Init
<1>4. Promise!Init <=>
        /\ request \in [Requests -> Promise!Query]
        /\ Statuses = [r \in Requests |-> "idle"]
        /\ Currents = [r \in Requests |-> <<>>]
        /\ called = [r \in Requests |-> {}]
        /\ skipped = [r \in Requests |-> {}]
        /\ Results = [r \in Requests |-> [kind |-> "none", key |-> <<>>]]
  BY DEF Promise!Init, Promise!Pending, Statuses, Currents, Results, StatusOf,
         CurrentOf, ResultOf, Key, Top
<1>5. QED
  BY <1>1, <1>2, <1>3, <1>4

LEMMA NextMaps == IInv /\ [Next]_vars => [Promise!Next]_(Promise!vars)
<1> SUFFICES ASSUME IInv, [Next]_vars
             PROVE  Promise!Next \/ UNCHANGED Promise!vars
  OBVIOUS
<1>1. ASSUME NEW r \in Requests, NEW mode \in UsedModes, NEW m \in Models,
             NEW blocked \in BlockedSets, Arrive(r, mode, m, blocked)
      PROVE  Promise!Next
  BY <1>1, ArriveMaps DEF Promise!Next
<1>2. ASSUME NEW r \in Requests, Step(r)
      PROVE  Promise!Next \/ UNCHANGED Promise!vars
  <2>1. ASSUME NEW d \in Deps, SkipCooled(r, d)
        PROVE  Promise!Next
    BY <2>1, SkipCooledMaps DEF Promise!Next
  <2>2. CASE SkipOverCap(r)
    BY <2>2, SkipOverCapMaps DEF Promise!Next
  <2>3. CASE Dispatch(r)
    BY <2>3, DispatchMaps DEF Promise!Next
  <2>4. CASE GiveUp(r)
    BY <2>4, GiveUpMaps DEF Promise!Next
  <2>5. QED
    BY <1>2, <2>1, <2>2, <2>3, <2>4, MovesAreInvisible DEF Step
<1>3. ASSUME NEW r \in Requests, Answer(r)
      PROVE  Promise!Next
  BY <1>3, AnswerMaps DEF Promise!Next
<1>4. ASSUME NEW r \in Requests, NEW n \in TokenCounts, Settle(r, n)
      PROVE  UNCHANGED Promise!vars
  BY <1>4, SettleIsInvisible
<1>5. CASE ReportLimits \/ Tick \/ UNCHANGED vars
  BY <1>5, QuietIsInvisible
<1>6. QED
  BY <1>1, <1>2, <1>3, <1>4, <1>5 DEF Next

(***************************************************************************)
(* The walk of router.go, with its recursion, visited set, cooldowns and   *)
(* meter, only does what Dispatch promises: a deployment is tried at most  *)
(* once, only if it is on offer, and giving up is told apart rightly.      *)
(***************************************************************************)
THEOREM WalkKeepsPromise == Spec => KeepsPromise
<1>1. Init => Promise!Init
  BY InitMaps
<1>2. IInv /\ [Next]_vars => [Promise!Next]_(Promise!vars)
  BY NextMaps
<1>3. QED
  BY <1>1, <1>2, InvariantHolds, PTL DEF Spec, KeepsPromise, Promise!Spec
=============================================================================
