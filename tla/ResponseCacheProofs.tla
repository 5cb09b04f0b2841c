------------------------- MODULE ResponseCacheProofs -------------------------
(***************************************************************************)
(* Proofs about ResponseCache, for any keys, callers, capacity and         *)
(* lifetime: the in-memory tier is an LRU cache, and how long an answer is *)
(* served.  The order of the list plays no part in the second.             *)
(***************************************************************************)
EXTENDS ResponseCache, FiniteSetTheorems, TLAPS

(***************************************************************************)
(* The list of the in-memory tier.  s lists the keys P, each once and the  *)
(* most recently used first, when used[k] are the keys used since k was.   *)
(***************************************************************************)
Orderly(s, P, used) ==
    /\ s \in Seq(Keys)
    /\ \A i, j \in DOMAIN s : s[i] = s[j] => i = j
    /\ {s[i] : i \in DOMAIN s} = P
    /\ \A i \in DOMAIN s : s[i] \notin used[s[i]]
    /\ \A i, j \in DOMAIN s : i < j => s[i] \in used[s[j]]

\* list.Remove
LEMMA Removed ==
    ASSUME NEW S, NEW s \in Seq(S), NEW i \in DOMAIN s
    PROVE  /\ RemoveAt(s, i) \in Seq(S)
           /\ Len(RemoveAt(s, i)) = Len(s) - 1
           /\ DOMAIN RemoveAt(s, i) = 1 .. Len(s) - 1
           /\ \A j \in 1 .. Len(s) - 1 :
                  RemoveAt(s, i)[j] = IF j < i THEN s[j] ELSE s[j + 1]
<1> DEFINE a == SubSeq(s, 1, i - 1)
           b == SubSeq(s, i + 1, Len(s))
<1>1. Len(s) \in Nat /\ i \in 1 .. Len(s)
  OBVIOUS
<1>2. /\ a \in Seq(S) /\ Len(a) = i - 1
      /\ \A j \in 1 .. i - 1 : a[j] = s[j]
  BY <1>1
<1>3. /\ b \in Seq(S) /\ Len(b) = Len(s) - i
      /\ \A j \in 1 .. Len(s) - i : b[j] = s[i + j]
  BY <1>1
<1> HIDE DEF a, b
<1>4. a \o b \in Seq(S) /\ Len(a \o b) = Len(s) - 1
  BY <1>1, <1>2, <1>3
<1>5. \A j \in 1 .. Len(s) - 1 : (a \o b)[j] = IF j < i THEN s[j] ELSE s[j + 1]
  BY <1>1, <1>2, <1>3
<1>6. RemoveAt(s, i) = a \o b
  BY DEF RemoveAt, a, b
<1> QED BY <1>4, <1>5, <1>6

\* Only the history of the key that is dropped may change.
LEMMA DropKeepsOrder ==
    ASSUME NEW s, NEW P, NEW used, Orderly(s, P, used),
           NEW i \in DOMAIN s, NEW u,
           \A k \in P \ {s[i]} : u[k] = used[k]
    PROVE  Orderly(RemoveAt(s, i), P \ {s[i]}, u)
<1> DEFINE t == RemoveAt(s, i)
           from(j) == IF j < i THEN j ELSE j + 1
<1>1. s \in Seq(Keys) /\ DOMAIN s = 1 .. Len(s) /\ Len(s) \in Nat
  BY DEF Orderly
<1>2. /\ t \in Seq(Keys) /\ DOMAIN t = 1 .. Len(s) - 1
      /\ \A j \in DOMAIN t : from(j) \in DOMAIN s /\ from(j) # i /\ t[j] = s[from(j)]
  BY <1>1, Removed, SMTT(30)
<1>3. \A j, h \in DOMAIN t : j < h => from(j) < from(h)
  BY <1>1, <1>2
<1>4. \A j, h \in DOMAIN t : from(j) = from(h) => j = h
  BY <1>1, <1>2
<1>5. \A h \in DOMAIN s : h # i => \E j \in DOMAIN t : h = from(j)
  <2> SUFFICES ASSUME NEW h \in DOMAIN s, h # i
               PROVE  \E j \in DOMAIN t : h = from(j)
    OBVIOUS
  <2>1. CASE h < i
    BY <1>1, <1>2, <2>1
  <2>2. CASE h > i
    <3>1. h - 1 \in DOMAIN t /\ from(h - 1) = h
      BY <1>1, <1>2, <2>2
    <3> QED BY <3>1
  <2> QED BY <1>1, <2>1, <2>2
<1> HIDE DEF t, from
<1>6. \A j \in DOMAIN t : t[j] \in P /\ t[j] # s[i]
  BY <1>2 DEF Orderly
<1>7. {t[j] : j \in DOMAIN t} = P \ {s[i]}
  <2>1. \A k \in P \ {s[i]} : \E j \in DOMAIN t : t[j] = k
    BY <1>2, <1>5 DEF Orderly
  <2> QED BY <2>1, <1>6
<1>8. \A j, h \in DOMAIN t : t[j] = t[h] => j = h
  BY <1>2, <1>4 DEF Orderly
<1>9. \A j \in DOMAIN t : t[j] \notin u[t[j]]
  BY <1>2, <1>6 DEF Orderly
<1>10. \A j, h \in DOMAIN t : j < h => t[j] \in u[t[h]]
  BY <1>2, <1>3, <1>6 DEF Orderly
<1>11. Orderly(t, P \ {s[i]}, u)
  BY <1>2, <1>7, <1>8, <1>9, <1>10 DEF Orderly
<1> QED BY <1>11 DEF t

\* list.PushFront, which is a use of k
LEMMA PushKeepsOrder ==
    ASSUME NEW s, NEW P, NEW used, Orderly(s, P, used),
           NEW k \in Keys, k \notin P, NEW u,
           \A x \in P : u[x] = used[x] \cup {k},
           u[k] = {}
    PROVE  Orderly(<<k>> \o s, P \cup {k}, u)
<1> DEFINE t == <<k>> \o s
<1>1. s \in Seq(Keys) /\ DOMAIN s = 1 .. Len(s) /\ Len(s) \in Nat
  BY DEF Orderly
<1>2. /\ t \in Seq(Keys) /\ DOMAIN t = 1 .. Len(s) + 1 /\ t[1] = k
      /\ \A j \in DOMAIN t : j # 1 => j - 1 \in DOMAIN s /\ t[j] = s[j - 1]
  BY <1>1
<1>3. \A h \in DOMAIN s : h + 1 \in DOMAIN t /\ t[h + 1] = s[h]
  BY <1>1
<1> HIDE DEF t
<1>4. \A j \in DOMAIN t : j # 1 => t[j] \in P
  BY <1>2 DEF Orderly
<1>5. {t[j] : j \in DOMAIN t} = P \cup {k}
  <2>1. \A x \in P : \E j \in DOMAIN t : t[j] = x
    BY <1>3 DEF Orderly
  <2>2. 1 \in DOMAIN t
    BY <1>1, <1>2
  <2> QED BY <2>1, <2>2, <1>2, <1>4
<1>6. \A j, h \in DOMAIN t : t[j] = t[h] => j = h
  <2> SUFFICES ASSUME NEW j \in DOMAIN t, NEW h \in DOMAIN t, t[j] = t[h]
               PROVE  j = h
    OBVIOUS
  <2>1. CASE j = 1 \/ h = 1
    BY <2>1, <1>2, <1>4
  <2>2. CASE j # 1 /\ h # 1
    <3>1. j - 1 = h - 1
      BY <2>2, <1>2 DEF Orderly
    <3> QED BY <3>1, <1>1, <1>2
  <2> QED BY <2>1, <2>2
<1>7. \A j \in DOMAIN t : t[j] \notin u[t[j]]
  <2> SUFFICES ASSUME NEW j \in DOMAIN t
               PROVE  t[j] \notin u[t[j]]
    OBVIOUS
  <2>1. CASE j = 1
    BY <2>1, <1>2
  <2>2. CASE j # 1
    <3>1. t[j] \in P /\ t[j] # k
      BY <2>2, <1>4
    <3>2. t[j] \notin used[t[j]]
      BY <2>2, <1>2 DEF Orderly
    <3> QED BY <3>1, <3>2
  <2> QED BY <2>1, <2>2
<1>8. \A j, h \in DOMAIN t : j < h => t[j] \in u[t[h]]
  <2> SUFFICES ASSUME NEW j \in DOMAIN t, NEW h \in DOMAIN t, j < h
               PROVE  t[j] \in u[t[h]]
    OBVIOUS
  <2>1. h # 1 /\ t[h] \in P
    BY <1>1, <1>2, <1>4
  <2>2. CASE j = 1
    BY <2>1, <2>2, <1>2
  <2>3. CASE j # 1
    <3>1. j - 1 < h - 1
      BY <1>1, <1>2
    <3>2. t[j] \in used[t[h]]
      BY <2>1, <2>3, <3>1, <1>2 DEF Orderly
    <3> QED BY <2>1, <3>2
  <2> QED BY <2>2, <2>3
<1>9. Orderly(t, P \cup {k}, u)
  BY <1>2, <1>5, <1>6, <1>7, <1>8 DEF Orderly
<1> QED BY <1>9 DEF t

\* removeOldest, as often as the list is too long
LEMMA CutKeepsOrder ==
    ASSUME NEW s, NEW P, NEW used, Orderly(s, P, used), NEW n \in 0 .. Len(s)
    PROVE  Orderly(SubSeq(s, 1, n), P \ {s[i] : i \in n + 1 .. Len(s)}, used)
<1> DEFINE t == SubSeq(s, 1, n)
           gone == {s[i] : i \in n + 1 .. Len(s)}
<1>1. s \in Seq(Keys) /\ DOMAIN s = 1 .. Len(s) /\ Len(s) \in Nat
  BY DEF Orderly
<1>2. /\ t \in Seq(Keys) /\ DOMAIN t = 1 .. n
      /\ \A i \in DOMAIN t : i \in DOMAIN s /\ t[i] = s[i]
  BY <1>1
<1> HIDE DEF t
<1>3. {t[i] : i \in DOMAIN t} = P \ gone
  <2>1. \A i \in DOMAIN t : t[i] \in P \ gone
    BY <1>1, <1>2 DEF Orderly
  <2>2. \A k \in P \ gone : \E i \in DOMAIN t : t[i] = k
    <3> SUFFICES ASSUME NEW k \in P \ gone
                 PROVE  \E i \in DOMAIN t : t[i] = k
      OBVIOUS
    <3>1. PICK i \in DOMAIN s : s[i] = k
      BY DEF Orderly
    <3>2. i \in DOMAIN t
      BY <1>1, <1>2, <3>1
    <3> QED BY <1>2, <3>1, <3>2
  <2> QED BY <2>1, <2>2
<1> HIDE DEF gone
<1>4. Orderly(t, P \ gone, used)
  BY <1>1, <1>2, <1>3 DEF Orderly
<1> QED BY <1>4 DEF t, gone

LEMMA CountTo ==
    ASSUME NEW n \in Nat
    PROVE  IsFiniteSet(1 .. n) /\ Cardinality(1 .. n) = n
<1>1. /\ IsFiniteSet(1 .. n)
      /\ Cardinality(1 .. n) = IF 1 > n THEN 0 ELSE n - 1 + 1
  BY FS_Interval
<1> QED BY <1>1

LEMMA DistinctCount ==
    ASSUME NEW s, NEW P, NEW used, Orderly(s, P, used)
    PROVE  IsFiniteSet(P) /\ Cardinality(P) = Len(s)
<1>1. Len(s) \in Nat /\ DOMAIN s = 1 .. Len(s)
  BY DEF Orderly
<1>2. IsFiniteSet(1 .. Len(s)) /\ Cardinality(1 .. Len(s)) = Len(s)
  BY <1>1, CountTo
<1>3. s \in Bijection(1 .. Len(s), P)
  BY <1>1 DEF Orderly, Bijection, Injection, Surjection, IsInjective
<1> QED BY <1>2, <1>3, FS_Bijection DEF ExistsBijection

\* An entry with n - 1 others in front of it has seen n - 1 uses at least.
LEMMA InFrontAreUsed ==
    ASSUME NEW s, NEW P, NEW used, Orderly(s, P, used), NEW n \in DOMAIN s,
           IsFiniteSet(used[s[n]])
    PROVE  Cardinality(used[s[n]]) >= n - 1
<1> DEFINE f == [i \in 1 .. n - 1 |-> s[i]]
<1>1. Len(s) \in Nat /\ DOMAIN s = 1 .. Len(s)
  BY DEF Orderly
<1>2. \A i \in 1 .. n - 1 : f[i] = s[i] /\ i \in DOMAIN s /\ i < n
  BY <1>1
<1>3. f \in Injection(1 .. n - 1, used[s[n]])
  BY <1>2 DEF Orderly, Injection, IsInjective
<1>4. Cardinality(1 .. n - 1) = n - 1
  BY <1>1, CountTo
<1> HIDE DEF f
<1>5. Cardinality(1 .. n - 1) <= Cardinality(used[s[n]])
  BY <1>3, FS_Injection
<1> QED BY <1>4, <1>5

-----------------------------------------------------------------------------
(***************************************************************************)
(* The invariant of the in-memory tier: its list is in order of use, and   *)
(* a key that was pushed out has seen max_items uses since its own.        *)
(***************************************************************************)
Present == {k \in Keys : items[k] # NoEntry}

UsesCounted ==
    \A k \in Keys :
        k \notin since[k] =>
            /\ IsFiniteSet(since[k])
            /\ items[k] = NoEntry => Cardinality(since[k]) >= Capacity

MemoryOK ==
    /\ Orderly(ll, Present, since)
    /\ Len(ll) <= Capacity
    /\ UsesCounted

LEMMA WithoutKeepsOrder ==
    ASSUME MemoryOK, NEW k \in Keys, NEW u,
           \A x \in Present \ {k} : u[x] = since[x]
    PROVE  /\ Orderly(Without(k), Present \ {k}, u)
           /\ Len(Without(k)) = IF items[k] = NoEntry THEN Len(ll) ELSE Len(ll) - 1
<1>1. Orderly(ll, Present, since)
  BY DEF MemoryOK
<1>2. CASE items[k] = NoEntry
  <2>1. Without(k) = ll /\ Present \ {k} = Present
    BY <1>2 DEF Without, Present
  <2> QED BY <1>1, <1>2, <2>1 DEF Orderly
<1>3. CASE items[k] # NoEntry
  <2> DEFINE i == CHOOSE j \in DOMAIN ll : ll[j] = k
  <2>1. k \in Present
    BY <1>3 DEF Present
  <2>2. \E j \in DOMAIN ll : ll[j] = k
    BY <1>1, <2>1 DEF Orderly
  <2>3. i \in DOMAIN ll /\ ll[i] = k
    BY <2>2
  <2>4. Without(k) = RemoveAt(ll, i)
    BY <1>3 DEF Without
  <2> HIDE DEF i
  <2>5. Orderly(RemoveAt(ll, i), Present \ {ll[i]}, u)
    BY <1>1, <2>3, DropKeepsOrder
  <2>6. Len(RemoveAt(ll, i)) = Len(ll) - 1
    BY <1>1, <2>3, Removed DEF Orderly
  <2> QED BY <1>3, <2>3, <2>4, <2>5, <2>6
<1> QED BY <1>2, <1>3

\* The list with k in front, as the step that uses k leaves the history.
LEMMA FrontKeepsOrder ==
    ASSUME MemoryOK, since \in [Keys -> SUBSET Keys], NEW k \in Keys, Used(k)
    PROVE  /\ Orderly(<<k>> \o Without(k), Present \cup {k}, since')
           /\ Len(<<k>> \o Without(k)) =
                  IF items[k] = NoEntry THEN Len(ll) + 1 ELSE Len(ll)
           /\ since' \in [Keys -> SUBSET Keys]
           /\ since'[k] = {}
           /\ \A x \in Keys \ {k} : since'[x] = since[x] \cup {k}
<1> DEFINE w == Without(k)
<1>1. Orderly(w, Present \ {k}, since)
  BY WithoutKeepsOrder
<1>2. /\ since' \in [Keys -> SUBSET Keys]
      /\ since'[k] = {}
      /\ \A x \in Keys \ {k} : since'[x] = since[x] \cup {k}
  BY DEF Used
<1>3. Orderly(<<k>> \o w, (Present \ {k}) \cup {k}, since')
  <2>1. k \notin Present \ {k} /\ \A x \in Present \ {k} : x \in Keys \ {k}
    BY DEF Present
  <2> HIDE DEF w
  <2> QED BY <1>1, <1>2, <2>1, PushKeepsOrder
<1>4. Len(<<k>> \o w) = Len(w) + 1
  BY <1>1 DEF Orderly
<1>5. (Present \ {k}) \cup {k} = Present \cup {k}
  OBVIOUS
<1>6. Len(w) = IF items[k] = NoEntry THEN Len(ll) ELSE Len(ll) - 1
  BY WithoutKeepsOrder
<1>7. Len(ll) \in Nat
  BY DEF MemoryOK, Orderly
<1>8. Orderly(<<k>> \o w, Present \cup {k}, since')
  <2> HIDE DEF w
  <2> QED BY <1>3, <1>5
<1>9. Len(<<k>> \o w) = IF items[k] = NoEntry THEN Len(ll) + 1 ELSE Len(ll)
  BY <1>4, <1>6, <1>7
<1> QED BY <1>2, <1>8, <1>9

\* A use of k leaves every other count where it was or raises it.
LEMMA CountsGrow ==
    ASSUME MemoryOK, NEW k, NEW x \in Keys, since'[x] = since[x] \cup {k},
           x \notin since'[x]
    PROVE  /\ IsFiniteSet(since'[x])
           /\ items[x] = NoEntry => Cardinality(since'[x]) >= Capacity
<1>1. /\ IsFiniteSet(since[x])
      /\ items[x] = NoEntry => Cardinality(since[x]) >= Capacity
  BY DEF MemoryOK, UsesCounted
<1>2. Cardinality(since[x]) \in Nat
  BY <1>1, FS_CardinalityType
<1>3. /\ IsFiniteSet(since[x] \cup {k})
      /\ Cardinality(since[x] \cup {k}) >= Cardinality(since[x])
  BY <1>1, <1>2, FS_AddElement
<1>4. Cardinality(since[x] \cup {k}) \in Nat /\ Capacity \in Nat
  BY <1>3, FS_CardinalityType, CacheAssumption
<1> QED BY <1>1, <1>2, <1>3, <1>4

LEMMA HitKeepsMemory ==
    ASSUME MemoryOK, since \in [Keys -> SUBSET Keys], NEW k \in Keys, MemoryHit(k)
    PROVE  MemoryOK' /\ since' \in [Keys -> SUBSET Keys]
<1>1. Used(k) /\ items[k] # NoEntry /\ items' = items /\ ll' = <<k>> \o Without(k)
  BY DEF MemoryHit, Live
<1>2. /\ Orderly(ll', Present \cup {k}, since')
      /\ Len(ll') = Len(ll)
      /\ since' \in [Keys -> SUBSET Keys]
      /\ since'[k] = {}
      /\ \A x \in Keys \ {k} : since'[x] = since[x] \cup {k}
  BY <1>1, FrontKeepsOrder
<1>3. Present' = Present \cup {k}
  BY <1>1 DEF Present
<1>4. Orderly(ll, Present, since)'
  BY <1>2, <1>3 DEF Orderly
<1>5. Len(ll') <= Capacity
  BY <1>2 DEF MemoryOK
<1>6. UsesCounted'
  <2> SUFFICES ASSUME NEW x \in Keys, x \notin since'[x]
               PROVE  /\ IsFiniteSet(since'[x])
                      /\ items'[x] = NoEntry => Cardinality(since'[x]) >= Capacity
    BY DEF UsesCounted
  <2>1. CASE x = k
    BY <2>1, <1>1, <1>2, FS_EmptySet
  <2>2. CASE x # k
    BY <2>2, <1>1, <1>2, CountsGrow
  <2> QED BY <2>1, <2>2
<1> QED BY <1>2, <1>4, <1>5, <1>6 DEF MemoryOK

LEMMA MissKeepsMemory ==
    ASSUME MemoryOK, since \in [Keys -> SUBSET Keys], DOMAIN items = Keys,
           NEW k \in Keys, MemoryMiss(k)
    PROVE  MemoryOK' /\ since' \in [Keys -> SUBSET Keys]
<1>1. /\ ll' = Without(k)
      /\ items' = [items EXCEPT ![k] = NoEntry]
      /\ since' = IF items[k] = NoEntry THEN since ELSE [since EXCEPT ![k] = Keys]
  BY DEF MemoryMiss
<1>2. /\ since' \in [Keys -> SUBSET Keys]
      /\ \A x \in Keys \ {k} : since'[x] = since[x] /\ items'[x] = items[x]
      /\ items[k] # NoEntry => k \in since'[k]
      /\ items[k] = NoEntry => since' = since
      /\ items'[k] = NoEntry
  BY <1>1
<1>3. Present' = Present \ {k}
  BY <1>2 DEF Present
<1>4. \A x \in Present \ {k} : since'[x] = since[x]
  BY <1>2 DEF Present
<1>5. /\ Orderly(ll', Present \ {k}, since')
      /\ Len(ll') = IF items[k] = NoEntry THEN Len(ll) ELSE Len(ll) - 1
  BY <1>1, <1>4, WithoutKeepsOrder
<1>6. Orderly(ll, Present, since)'
  BY <1>3, <1>5 DEF Orderly
<1>7. Len(ll') <= Capacity
  BY <1>5, CacheAssumption DEF MemoryOK, Orderly
<1>8. UsesCounted'
  <2> SUFFICES ASSUME NEW x \in Keys, x \notin since'[x]
               PROVE  /\ IsFiniteSet(since'[x])
                      /\ items'[x] = NoEntry => Cardinality(since'[x]) >= Capacity
    BY DEF UsesCounted
  <2>1. since'[x] = since[x] /\ items'[x] = items[x]
    BY <1>2
  <2> QED BY <2>1 DEF MemoryOK, UsesCounted
<1> QED BY <1>2, <1>6, <1>7, <1>8 DEF MemoryOK

LEMMA SetKeepsMemory ==
    ASSUME MemoryOK, since \in [Keys -> SUBSET Keys],
           NEW k \in Keys, NEW at, Fresh(at) # NoEntry, MemorySet(k, at)
    PROVE  MemoryOK' /\ since' \in [Keys -> SUBSET Keys]
<1> DEFINE front == <<k>> \o Without(k)
           kept == IF Len(front) > Capacity THEN Capacity ELSE Len(front)
           victims == {front[i] : i \in Capacity + 1 .. Len(front)}
           gone == {front[i] : i \in kept + 1 .. Len(front)}
<1>1. /\ items' = [x \in Keys |-> IF x = k THEN Fresh(at)
                                  ELSE IF x \in victims THEN NoEntry
                                  ELSE items[x]]
      /\ ll' = SubSeq(front, 1, kept)
      /\ Used(k)
  BY DEF MemorySet
<1>2. /\ Orderly(front, Present \cup {k}, since')
      /\ since' \in [Keys -> SUBSET Keys]
      /\ since'[k] = {}
      /\ \A x \in Keys \ {k} : since'[x] = since[x] \cup {k}
  BY <1>1, FrontKeepsOrder
<1>3. front[1] = k /\ 1 \in DOMAIN front
  BY <1>2 DEF Orderly
<1> HIDE DEF front
<1>4. front \in Seq(Keys) /\ Len(front) \in Nat /\ DOMAIN front = 1 .. Len(front)
  BY <1>2 DEF Orderly
<1>5. Capacity \in Nat \ {0} /\ kept \in 0 .. Len(front) /\ kept <= Capacity
  BY <1>4, CacheAssumption
<1>6. gone = victims
  BY <1>4, <1>5
<1>7. k \notin victims
  <2>1. \A i \in Capacity + 1 .. Len(front) : i \in DOMAIN front /\ i # 1
    BY <1>4, <1>5
  <2> QED BY <2>1, <1>2, <1>3 DEF Orderly
<1>8. Len(ll') = kept
  BY <1>1, <1>4, <1>5
<1>9. Orderly(ll', (Present \cup {k}) \ gone, since')
  <2> HIDE DEF kept
  <2> QED BY <1>1, <1>2, <1>5, CutKeepsOrder
<1> HIDE DEF kept, gone
<1>10. Present' = (Present \cup {k}) \ victims
  <2> HIDE DEF victims
  <2> QED BY <1>1, <1>7 DEF Present
<1>11. Orderly(ll, Present, since)'
  BY <1>6, <1>9, <1>10 DEF Orderly
<1>12. UsesCounted'
  <2> SUFFICES ASSUME NEW x \in Keys, x \notin since'[x]
               PROVE  /\ IsFiniteSet(since'[x])
                      /\ items'[x] = NoEntry => Cardinality(since'[x]) >= Capacity
    BY DEF UsesCounted
  <2>1. CASE x = k
    BY <2>1, <1>1, <1>2, FS_EmptySet
  <2>2. CASE x # k /\ x \notin victims
    <3>1. items'[x] = items[x]
      BY <1>1, <2>2
    <3> QED BY <3>1, <2>2, <1>2, CountsGrow
  <2>3. CASE x # k /\ x \in victims
    <3>1. PICK i \in Capacity + 1 .. Len(front) : x = front[i]
      BY <2>3
    <3>2. IsFiniteSet(since'[x])
      BY <2>3, <1>2, CountsGrow
    <3>3. i \in DOMAIN front /\ i - 1 >= Capacity
      BY <3>1, <1>4, <1>5
    <3>4. Cardinality(since'[x]) >= i - 1
      BY <1>2, <3>1, <3>2, <3>3, InFrontAreUsed
    <3>5. Cardinality(since'[x]) \in Nat
      BY <3>2, FS_CardinalityType
    <3> QED BY <3>2, <3>3, <3>4, <3>5, <1>5
  <2> QED BY <2>1, <2>2, <2>3
<1> QED BY <1>2, <1>5, <1>8, <1>11, <1>12 DEF MemoryOK

-----------------------------------------------------------------------------
CacheInvariant == TypeOK /\ MemoryOK

Phases == {"idle", "disk", "promote", "upstream", "store"}

LEMMA FreshIsEntry ==
    ASSUME now \in Nat, NEW at \in Nat
    PROVE  Fresh(at) \in Entry /\ Fresh(at) # NoEntry
<1>1. Ttl \in Nat
  BY CacheAssumption
<1> QED BY <1>1 DEF Fresh, Entry, NoEntry

\* What is left of the type once the first tier is dealt with.
CallersTyped ==
    /\ pc \in [Callers -> Phases]
    /\ key \in [Callers -> Keys]
    /\ value \in [Callers -> Nat]

LEMMA GoIsTyped ==
    ASSUME CallersTyped, NEW c \in Callers, NEW phase \in Phases,
           NEW k \in Keys, NEW v \in Nat, Go(c, phase, k, v)
    PROVE  CallersTyped'
BY DEF CallersTyped, Go

LEMMA DoneIsTyped ==
    ASSUME CallersTyped, NEW c \in Callers, Done(c)
    PROVE  CallersTyped'
<1>1. (CHOOSE k \in Keys : TRUE) \in Keys
  BY CacheAssumption
<1> QED BY <1>1, GoIsTyped DEF Done, Phases

MemoryTyped ==
    /\ items \in [Keys -> Entry \cup {NoEntry}]
    /\ since \in [Keys -> SUBSET Keys]
    /\ MemoryOK

TableTyped == now \in 0 .. MaxTime /\ table \in [Keys -> Entry \cup {NoEntry}]

LEMMA InvariantParts == CacheInvariant <=> MemoryTyped /\ TableTyped /\ CallersTyped
<1>1. MemoryOK => ll \in Seq(Keys)
  BY DEF MemoryOK, Orderly
<1> QED BY <1>1 DEF CacheInvariant, TypeOK, MemoryTyped, TableTyped, CallersTyped, Phases

LEMMA MemoryUntouched ==
    ASSUME MemoryTyped, UNCHANGED <<items, ll, since>>
    PROVE  MemoryTyped'
BY DEF MemoryTyped, MemoryOK, Orderly, Present, UsesCounted

LEMMA MemoryCleared ==
    ASSUME items' = [k \in Keys |-> NoEntry], ll' = <<>>, since' = [k \in Keys |-> Keys]
    PROVE  MemoryTyped'
<1>1. Present' = {}
  BY DEF Present
<1>2. ll' \in Seq(Keys) /\ DOMAIN ll' = {} /\ Len(ll') = 0
  OBVIOUS
<1>3. Orderly(ll, Present, since)'
  BY <1>1, <1>2 DEF Orderly
<1>4. UsesCounted'
  BY DEF UsesCounted
<1>5. MemoryOK'
  BY <1>2, <1>3, <1>4, CacheAssumption DEF MemoryOK
<1> QED BY <1>5 DEF MemoryTyped

LEMMA SetIsTyped ==
    ASSUME MemoryTyped, now \in Nat, NEW k \in Keys, NEW at \in Nat, MemorySet(k, at)
    PROVE  MemoryTyped'
<1>1. Fresh(at) \in Entry /\ Fresh(at) # NoEntry
  BY FreshIsEntry
<1>2. MemoryOK' /\ since' \in [Keys -> SUBSET Keys]
  BY <1>1, SetKeepsMemory DEF MemoryTyped
<1>3. \A x \in Keys : items'[x] \in {Fresh(at), NoEntry, items[x]}
  BY DEF MemorySet
<1>4. items' = [x \in Keys |-> items'[x]]
  BY DEF MemorySet
<1>5. items' \in [Keys -> Entry \cup {NoEntry}]
  BY <1>1, <1>3, <1>4 DEF MemoryTyped
<1> QED BY <1>2, <1>5 DEF MemoryTyped

LEMMA StepKeepsInvariant ==
    ASSUME CacheInvariant, Next
    PROVE  CacheInvariant'
<1> USE InvariantParts
<1>t. /\ MemoryTyped /\ TableTyped /\ CallersTyped
      /\ now \in Nat
      /\ \A c \in Callers : key[c] \in Keys /\ value[c] \in Nat
  BY CacheAssumption DEF TableTyped, CallersTyped
<1>s. (MemoryTyped /\ TableTyped /\ CallersTyped)' => CacheInvariant'
  BY PTL
<1>u. UNCHANGED <<now, table>> => TableTyped'
  BY <1>t DEF TableTyped
<1>1. ASSUME NEW c \in Callers, NEW k \in Keys, GetHit(c, k)
      PROVE  CacheInvariant'
  <2>1. MemoryHit(k) /\ items' = items
    BY <1>1 DEF GetHit, MemoryHit
  <2>2. MemoryTyped'
    BY <1>t, <2>1, HitKeepsMemory DEF MemoryTyped
  <2>3. TableTyped' /\ CallersTyped'
    BY <1>1, <1>t, <1>u DEF GetHit, CallersTyped
  <2> QED BY <1>s, <2>2, <2>3
<1>2. ASSUME NEW c \in Callers, NEW k \in Keys, GetMiss(c, k)
      PROVE  CacheInvariant'
  <2>1. MemoryMiss(k) /\ items' = [items EXCEPT ![k] = NoEntry]
    BY <1>2 DEF GetMiss, MemoryMiss
  <2>2. MemoryTyped'
    BY <1>t, <2>1, MissKeepsMemory DEF MemoryTyped
  <2>3. PICK phase \in {"disk", "upstream"} : Go(c, phase, k, 0)
    BY <1>2 DEF GetMiss
  <2>4. TableTyped' /\ CallersTyped'
    BY <1>2, <1>t, <1>u, <2>3, GoIsTyped DEF GetMiss, Phases
  <2> QED BY <1>s, <2>2, <2>4
<1>3. ASSUME NEW c \in Callers, ReadRow(c)
      PROVE  CacheInvariant'
  <2>1. table[key[c]].at \in Nat
    BY <1>3, <1>t DEF ReadRow, Live, TableTyped, Entry
  <2>2. MemoryTyped' /\ TableTyped'
    BY <1>3, <1>t, <1>u, MemoryUntouched DEF ReadRow
  <2>3. CallersTyped'
    BY <1>3, <1>t, <2>1, GoIsTyped DEF ReadRow, Phases
  <2> QED BY <1>s, <2>2, <2>3
<1>4. ASSUME NEW c \in Callers, ReadNoRow(c)
      PROVE  CacheInvariant'
  <2>1. MemoryTyped' /\ TableTyped'
    BY <1>4, <1>t, <1>u, MemoryUntouched DEF ReadNoRow
  <2>2. CallersTyped'
    BY <1>4, <1>t, GoIsTyped DEF ReadNoRow, Phases
  <2> QED BY <1>s, <2>1, <2>2
<1>5. ASSUME NEW c \in Callers, Promote(c)
      PROVE  CacheInvariant'
  <2>1. MemoryTyped'
    BY <1>5, <1>t, SetIsTyped DEF Promote
  <2>2. TableTyped' /\ CallersTyped'
    BY <1>5, <1>t, <1>u, DoneIsTyped DEF Promote
  <2> QED BY <1>s, <2>1, <2>2
<1>6. ASSUME NEW c \in Callers, Answered(c)
      PROVE  CacheInvariant'
  <2>1. MemoryTyped'
    BY <1>6, <1>t, SetIsTyped DEF Answered
  <2>2. TableTyped'
    BY <1>6, <1>u DEF Answered
  <2>3. CASE Go(c, "store", key[c], 0)
    BY <1>s, <1>t, <2>1, <2>2, <2>3, GoIsTyped DEF Phases
  <2>4. CASE Done(c)
    BY <1>s, <1>t, <2>1, <2>2, <2>4, DoneIsTyped
  <2> QED BY <1>6, <2>3, <2>4 DEF Answered
<1>7. ASSUME NEW c \in Callers, NotCached(c)
      PROVE  CacheInvariant'
  BY <1>7, <1>s, <1>t, <1>u, MemoryUntouched, DoneIsTyped DEF NotCached
<1>8. ASSUME NEW c \in Callers, WriteRow(c)
      PROVE  CacheInvariant'
  <2>1. TableTyped'
    BY <1>8, <1>t, FreshIsEntry DEF WriteRow, TableTyped
  <2> QED BY <1>8, <1>s, <1>t, <2>1, MemoryUntouched, DoneIsTyped DEF WriteRow
<1>9. CASE Restart
  <2>1. MemoryTyped'
    BY <1>9, MemoryCleared DEF Restart
  <2>2. TableTyped'
    BY <1>9, <1>t DEF Restart, TableTyped
  <2>3. CallersTyped'
    BY <1>9, CacheAssumption DEF Restart, CallersTyped, Phases
  <2> QED BY <1>s, <2>1, <2>2, <2>3
<1>10. CASE Tick
  <2>1. TableTyped'
    BY <1>10, <1>t, CacheAssumption DEF Tick, TableTyped
  <2>2. MemoryTyped' /\ CallersTyped'
    BY <1>10, <1>t, MemoryUntouched DEF Tick, CallersTyped
  <2> QED BY <1>s, <2>1, <2>2
<1> QED BY <1>1, <1>2, <1>3, <1>4, <1>5, <1>6, <1>7, <1>8, <1>9, <1>10 DEF Next

LEMMA InitInvariant ==
    ASSUME Init
    PROVE  CacheInvariant
<1>1. Present = {} /\ ll = <<>>
  BY DEF Init, Present
<1>2. ll \in Seq(Keys) /\ DOMAIN ll = {} /\ Len(ll) = 0
  BY <1>1
<1>3. Orderly(ll, Present, since)
  BY <1>1, <1>2 DEF Orderly
<1>4. MemoryOK
  BY <1>2, <1>3, CacheAssumption DEF Init, MemoryOK, UsesCounted
<1>5. CallersTyped
  <2>1. (CHOOSE k \in Keys : TRUE) \in Keys
    BY CacheAssumption
  <2> QED BY <2>1 DEF Init, CallersTyped, Phases
<1>6. MemoryTyped /\ TableTyped
  BY <1>4, CacheAssumption DEF Init, MemoryTyped, TableTyped
<1> QED BY <1>5, <1>6, InvariantParts

LEMMA InvariantHolds == Spec => []CacheInvariant
<1>1. Init => CacheInvariant
  BY InitInvariant
<1>2. CacheInvariant /\ UNCHANGED vars => CacheInvariant'
  <2> SUFFICES ASSUME CacheInvariant, UNCHANGED vars
               PROVE  CacheInvariant'
    OBVIOUS
  <2>1. MemoryTyped' /\ TableTyped' /\ CallersTyped'
    BY InvariantParts, MemoryUntouched DEF vars, TableTyped, CallersTyped
  <2> QED BY <2>1, InvariantParts, PTL
<1>3. CacheInvariant /\ [Next]_vars => CacheInvariant'
  BY <1>2, StepKeepsInvariant
<1> QED BY <1>1, <1>3, PTL DEF Spec

\* The state of both tiers and of the callers is well typed.
THEOREM TypeCorrect == Spec => []TypeOK
<1>1. CacheInvariant => TypeOK
  BY DEF CacheInvariant
<1> QED BY <1>1, InvariantHolds, PTL

\* Map and list of the in-memory tier hold the same keys after any sequence
\* of hits, misses, expiries, evictions and restarts (memory.go).
THEOREM ListInStep == Spec => []ListMatchesItems
<1>1. CacheInvariant => ListMatchesItems
  BY DistinctCount DEF CacheInvariant, MemoryOK, Orderly, Present, ListMatchesItems
<1> QED BY <1>1, InvariantHolds, PTL

\* No entry is evicted before max_items other keys were used (removeOldest).
THEOREM EvictionIsLRU == Spec => []RecentlyUsedStays
<1>1. CacheInvariant => RecentlyUsedStays
  <2> SUFFICES ASSUME CacheInvariant, NEW k \in Keys,
                      k \notin since[k], Cardinality(since[k]) < Capacity
               PROVE  items[k] # NoEntry
    BY DEF RecentlyUsedStays
  <2>1. /\ IsFiniteSet(since[k])
        /\ items[k] = NoEntry => Cardinality(since[k]) >= Capacity
    BY DEF CacheInvariant, MemoryOK, UsesCounted
  <2>2. Cardinality(since[k]) \in Nat
    BY <2>1, FS_CardinalityType
  <2> QED BY <2>1, <2>2, CacheAssumption
<1> QED BY <1>1, InvariantHolds, PTL

-----------------------------------------------------------------------------
(***************************************************************************)
(* The lifetime of an answer.                                              *)
(***************************************************************************)
Slot == Entry \cup {NoEntry}

TiersTyped ==
    /\ now \in Nat
    /\ items \in [Keys -> Slot]
    /\ table \in [Keys -> Slot]
    /\ pc \in [Callers -> {"idle", "disk", "promote", "upstream", "store"}]
    /\ key \in [Callers -> Keys]
    /\ value \in [Callers -> Nat]

\* An entry ends no later than two lifetimes after its answer was written, a
\* row no later than one.
Expires(e, lifetimes) ==
    e # NoEntry => e.expires # 0 /\ e.expires <= e.at + lifetimes * Ttl

AgesBounded ==
    /\ \A k \in Keys : Expires(items[k], 2) /\ Expires(table[k], 1)
    /\ \A c \in Callers : pc[c] = "promote" => now <= value[c] + Ttl

LifetimeInvariant == TiersTyped /\ AgesBounded

\* The two facts of the invariant that an assignment to a tier can disturb.
GoodEntry(e, lifetimes) == e \in Slot /\ Expires(e, lifetimes)

USE DEF Slot

LEMMA GoodNoEntry == \A lifetimes : GoodEntry(NoEntry, lifetimes)
BY DEF GoodEntry, Expires

LEMMA FreshIsGood ==
    ASSUME Ttl > 0, now \in Nat, NEW at \in Nat
    PROVE  /\ Fresh(at) \in Entry
           /\ at = now => GoodEntry(Fresh(at), 1) /\ GoodEntry(Fresh(at), 2)
           /\ now <= at + Ttl => GoodEntry(Fresh(at), 2)
<1>1. Ttl \in Nat
  BY CacheAssumption
<1>2. Fresh(at) = [at |-> at, expires |-> now + Ttl]
  BY DEF Fresh
<1>3. Fresh(at) \in Entry
  BY <1>1, <1>2 DEF Entry
<1>4. Fresh(at).at = at /\ Fresh(at).expires = now + Ttl
  BY <1>2
<1> QED BY <1>1, <1>3, <1>4 DEF GoodEntry, Expires

LEMMA LiveIsInTime ==
    ASSUME Ttl > 0, now \in Nat, NEW e, NEW lifetimes \in Nat,
           GoodEntry(e, lifetimes), Live(e)
    PROVE  e.at \in Nat /\ now <= e.at + lifetimes * Ttl
<1>1. e \in Entry
  BY DEF GoodEntry, Live
<1>2. e.at \in Nat /\ e.expires \in Nat /\ Ttl \in Nat /\ lifetimes * Ttl \in Nat
  BY <1>1, CacheAssumption DEF Entry
<1>3. e.expires # 0 /\ e.expires <= e.at + lifetimes * Ttl
  BY DEF GoodEntry, Expires, Live
<1> QED BY <1>2, <1>3 DEF Live

LEMMA InvariantOfTiers ==
    LifetimeInvariant <=>
        /\ now \in Nat
        /\ items \in [Keys -> Slot] /\ table \in [Keys -> Slot]
        /\ \A k \in Keys : GoodEntry(items[k], 2) /\ GoodEntry(table[k], 1)
        /\ pc \in [Callers -> {"idle", "disk", "promote", "upstream", "store"}]
        /\ key \in [Callers -> Keys]
        /\ value \in [Callers -> Nat]
        /\ \A c \in Callers : pc[c] = "promote" => now <= value[c] + Ttl
BY DEF LifetimeInvariant, TiersTyped, AgesBounded, GoodEntry

\* The same for the next state, for a step in which no time passes.
TiersGoodAfter ==
    /\ items' \in [Keys -> Slot] /\ table' \in [Keys -> Slot]
    /\ \A k \in Keys : GoodEntry(items'[k], 2) /\ GoodEntry(table'[k], 1)

CallersGoodAfter ==
    /\ pc' \in [Callers -> {"idle", "disk", "promote", "upstream", "store"}]
    /\ key' \in [Callers -> Keys]
    /\ value' \in [Callers -> Nat]
    /\ \A c \in Callers : pc'[c] = "promote" => now <= value'[c] + Ttl

LEMMA InvariantAfter ==
    ASSUME LifetimeInvariant, now' = now, TiersGoodAfter, CallersGoodAfter
    PROVE  LifetimeInvariant'
BY DEF LifetimeInvariant, TiersTyped, AgesBounded, TiersGoodAfter,
       CallersGoodAfter, GoodEntry, Expires

LEMMA TiersUnchanged ==
    ASSUME LifetimeInvariant, UNCHANGED <<items, table>>
    PROVE  TiersGoodAfter
BY InvariantOfTiers DEF TiersGoodAfter

LEMMA MemoryMissGood ==
    ASSUME LifetimeInvariant, NEW k \in Keys, MemoryMiss(k), UNCHANGED table
    PROVE  TiersGoodAfter
BY InvariantOfTiers, GoodNoEntry DEF MemoryMiss, TiersGoodAfter, GoodEntry

LEMMA MemorySetGood ==
    ASSUME LifetimeInvariant, NEW k \in Keys, NEW at, GoodEntry(Fresh(at), 2),
           MemorySet(k, at), UNCHANGED table
    PROVE  TiersGoodAfter
<1>1. \A x \in Keys : items'[x] \in {Fresh(at), NoEntry, items[x]}
  BY DEF MemorySet
<1>2. \A x \in Keys : GoodEntry(items[x], 2) /\ GoodEntry(table[x], 1)
  BY InvariantOfTiers
<1>3. \A x \in Keys : GoodEntry(items'[x], 2)
  BY <1>1, <1>2, GoodNoEntry
<1>4. \E f : items' = [x \in Keys |-> f[x]]
  <2>1. items' = [x \in Keys |-> items'[x]]
    BY DEF MemorySet
  <2> QED BY <2>1
<1>5. items' \in [Keys -> Slot]
  BY <1>3, <1>4 DEF GoodEntry
<1>6. table' \in [Keys -> Slot]
  BY InvariantOfTiers
<1> QED BY <1>2, <1>3, <1>5, <1>6 DEF TiersGoodAfter

LEMMA GoGood ==
    ASSUME LifetimeInvariant, NEW c \in Callers, NEW k \in Keys, NEW v \in Nat,
           NEW phase \in {"idle", "disk", "promote", "upstream", "store"},
           Go(c, phase, k, v), phase = "promote" => now <= v + Ttl
    PROVE  CallersGoodAfter
BY InvariantOfTiers DEF Go, CallersGoodAfter

LEMMA DoneGood ==
    ASSUME LifetimeInvariant, NEW c \in Callers, Done(c)
    PROVE  CallersGoodAfter
<1>1. key[c] \in Keys
  BY InvariantOfTiers
<1>2. (CHOOSE x \in Keys : TRUE) \in Keys
  BY <1>1
<1> QED BY <1>2, GoGood DEF Done

LEMMA CallersUnchanged ==
    ASSUME LifetimeInvariant, UNCHANGED <<pc, key, value>>
    PROVE  CallersGoodAfter
BY InvariantOfTiers DEF CallersGoodAfter

LEMMA StepKeepsLifetimes ==
    ASSUME LifetimeInvariant, Next, Ttl > 0, SlowPromotion = FALSE
    PROVE  LifetimeInvariant'
<1>t. now \in Nat /\ Ttl \in Nat
  BY InvariantOfTiers, CacheAssumption
<1>1. ASSUME NEW c \in Callers, NEW k \in Keys, GetHit(c, k)
      PROVE  LifetimeInvariant'
  <2>1. UNCHANGED <<now, items, table, pc, key, value>>
    BY <1>1 DEF GetHit, MemoryHit
  <2> QED BY <2>1, TiersUnchanged, CallersUnchanged, InvariantAfter
<1>2. ASSUME NEW c \in Callers, NEW k \in Keys, GetMiss(c, k)
      PROVE  LifetimeInvariant'
  <2>1. TiersGoodAfter
    BY <1>2, MemoryMissGood DEF GetMiss
  <2>2. PICK phase \in {"disk", "upstream"} : Go(c, phase, k, 0)
    BY <1>2 DEF GetMiss
  <2>3. CallersGoodAfter
    BY <2>2, GoGood
  <2> QED BY <1>2, <2>1, <2>3, InvariantAfter DEF GetMiss
<1>3. ASSUME NEW c \in Callers, ReadRow(c)
      PROVE  LifetimeInvariant'
  <2>1. key[c] \in Keys /\ GoodEntry(table[key[c]], 1)
    BY InvariantOfTiers
  <2>2. table[key[c]].at \in Nat /\ now <= table[key[c]].at + 1 * Ttl
    BY <1>3, <1>t, <2>1, LiveIsInTime DEF ReadRow
  <2>3. CallersGoodAfter
    BY <1>3, <1>t, <2>1, <2>2, GoGood DEF ReadRow
  <2> QED BY <1>3, <2>3, TiersUnchanged, InvariantAfter DEF ReadRow
<1>4. ASSUME NEW c \in Callers, ReadNoRow(c)
      PROVE  LifetimeInvariant'
  <2>1. key[c] \in Keys
    BY InvariantOfTiers
  <2>2. CallersGoodAfter
    BY <1>4, <2>1, GoGood DEF ReadNoRow
  <2> QED BY <1>4, <2>2, TiersUnchanged, InvariantAfter DEF ReadNoRow
<1>5. ASSUME NEW c \in Callers, Promote(c)
      PROVE  LifetimeInvariant'
  <2>1. key[c] \in Keys /\ value[c] \in Nat /\ now <= value[c] + Ttl
    BY <1>5, InvariantOfTiers DEF Promote
  <2>2. GoodEntry(Fresh(value[c]), 2)
    BY <1>t, <2>1, FreshIsGood
  <2>3. TiersGoodAfter
    BY <1>5, <2>1, <2>2, MemorySetGood DEF Promote
  <2> QED BY <1>5, <2>3, DoneGood, InvariantAfter DEF Promote
<1>6. ASSUME NEW c \in Callers, Answered(c)
      PROVE  LifetimeInvariant'
  <2>1. key[c] \in Keys /\ GoodEntry(Fresh(now), 2)
    BY <1>t, InvariantOfTiers, FreshIsGood
  <2>2. TiersGoodAfter
    BY <1>6, <2>1, MemorySetGood DEF Answered
  <2>3. CallersGoodAfter
    <3>1. CASE Go(c, "store", key[c], 0)
      BY <2>1, <3>1, GoGood
    <3> QED BY <1>6, <3>1, DoneGood DEF Answered
  <2> QED BY <1>6, <2>2, <2>3, InvariantAfter DEF Answered
<1>7. ASSUME NEW c \in Callers, NotCached(c)
      PROVE  LifetimeInvariant'
  BY <1>7, TiersUnchanged, DoneGood, InvariantAfter DEF NotCached
<1>8. ASSUME NEW c \in Callers, WriteRow(c)
      PROVE  LifetimeInvariant'
  <2>1. GoodEntry(Fresh(now), 1)
    BY <1>t, FreshIsGood
  <2>2. TiersGoodAfter
    BY <1>8, <2>1, InvariantOfTiers DEF WriteRow, TiersGoodAfter, GoodEntry
  <2> QED BY <1>8, <2>2, DoneGood, InvariantAfter DEF WriteRow
<1>9. CASE Restart
  <2>1. TiersGoodAfter
    BY <1>9, InvariantOfTiers, GoodNoEntry DEF Restart, TiersGoodAfter, GoodEntry
  <2>2. CallersGoodAfter
    <3>1. \A c \in Callers : key[c] \in Keys
      BY InvariantOfTiers
    <3>2. \A c \in Callers : (CHOOSE k \in Keys : TRUE) \in Keys
      BY <3>1
    <3> QED BY <1>9, <3>2 DEF Restart, CallersGoodAfter
  <2> QED BY <1>9, <2>1, <2>2, InvariantAfter DEF Restart
<1>10. CASE Tick
  <2>1. /\ now' = now + 1 /\ UNCHANGED <<items, table, pc, key, value>>
        /\ \A c \in Callers : pc[c] # "promote"
    BY <1>10 DEF Tick
  <2> QED BY <1>t, <2>1 DEF LifetimeInvariant, TiersTyped, AgesBounded, Expires
<1> QED BY <1>1, <1>2, <1>3, <1>4, <1>5, <1>6, <1>7, <1>8, <1>9, <1>10 DEF Next

LEMMA InitLifetimes ==
    ASSUME Init, Ttl > 0
    PROVE  LifetimeInvariant
<1>1. \A c \in Callers : key[c] = CHOOSE k \in Keys : TRUE
  BY DEF Init
<1>2. key \in [Callers -> Keys]
  <2>1. (CHOOSE k \in Keys : TRUE) \in Keys
    BY CacheAssumption
  <2> QED BY <2>1 DEF Init
<1> QED BY <1>2, GoodNoEntry, InvariantOfTiers DEF Init, GoodEntry

LEMMA InvariantBoundsAge ==
    ASSUME LifetimeInvariant, Ttl > 0
    PROVE  ServedWithinTwoLifetimes
<1> SUFFICES ASSUME NEW k \in Keys
             PROVE  /\ Live(items[k]) => now <= items[k].at + 2 * Ttl
                    /\ Live(table[k]) => now <= table[k].at + Ttl
  BY DEF ServedWithinTwoLifetimes
<1>1. now \in Nat /\ GoodEntry(items[k], 2) /\ GoodEntry(table[k], 1)
  BY InvariantOfTiers
<1>2. Ttl \in Nat
  BY CacheAssumption
<1>3. Live(items[k]) => now <= items[k].at + 2 * Ttl
  BY <1>1, LiveIsInTime
<1>4. Live(table[k]) => now <= table[k].at + 1 * Ttl
  BY <1>1, LiveIsInTime
<1>5. Live(table[k]) => table[k].at \in Nat
  BY <1>1, LiveIsInTime
<1> QED BY <1>2, <1>3, <1>4, <1>5

\* With both tiers, restarts and concurrent writers no answer is served more
\* than two lifetimes after it was written, provided that no time passes
\* between reading a row and promoting it.
THEOREM TwoLifetimes ==
    ASSUME SlowPromotion = FALSE
    PROVE  Spec => []ServedWithinTwoLifetimes
<1>1. CASE Ttl > 0
  <2>1. Init => LifetimeInvariant
    BY <1>1, InitLifetimes
  <2>2. LifetimeInvariant /\ [Next]_vars => LifetimeInvariant'
    <3>1. LifetimeInvariant /\ UNCHANGED vars => LifetimeInvariant'
      BY DEF vars, LifetimeInvariant, TiersTyped, AgesBounded, Expires
    <3> QED BY <1>1, <3>1, StepKeepsLifetimes
  <2>3. LifetimeInvariant => ServedWithinTwoLifetimes
    BY <1>1, InvariantBoundsAge
  <2> QED BY <2>1, <2>2, <2>3, PTL DEF Spec
<1>2. CASE ~(Ttl > 0)
  <2>1. ServedWithinTwoLifetimes
    BY <1>2 DEF ServedWithinTwoLifetimes
  <2> QED BY <2>1, PTL
<1> QED BY <1>1, <1>2
=============================================================================
