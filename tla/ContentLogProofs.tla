--------------------------- MODULE ContentLogProofs ----------------------------
(***************************************************************************)
(* Theorems of ContentLog, for any limits, sizes of lines and faults.      *)
(***************************************************************************)
EXTENDS ContentLog, FiniteSetTheorems, WellFoundedInduction, TLAPS

Records == [n : Nat, bytes : Sizes \cup {0, 1}]
Files == [at : Nat, mod : Nat, gz : BOOLEAN, whole : BOOLEAN, lines : Seq(Records)]

Typed ==
    /\ now \in Nat /\ src \in Nat /\ accepted \in Nat
    /\ active \in Seq(Records) /\ line \in Records
    /\ backups \subseteq Files /\ IsFiniteSet(backups)
    /\ size \in Nat

(* Files are named apart, by rotations already made; only a compressed one may *)
(* be partial.                                                                 *)
NamedApart ==
    /\ \A f \in backups : f.at <= src /\ (~f.gz => f.whole)
    /\ \A f, g \in backups : f.at = g.at /\ f.gz = g.gz => f = g

SourceOf(f) == f.at = src /\ ~f.gz
ZippedOf(f) == f.at = src /\ f.gz

(* A file being compressed is there until its twin is complete.                *)
TwinComplete ==
    /\ pc # "idle" => line.n = accepted + 1
    /\ pc \in {"reopen", "compress"} =>
         /\ \E f \in backups : SourceOf(f)
         /\ \A f \in backups : ~ZippedOf(f)
    /\ pc \in {"gzip", "unlink"} =>
         \E f, g \in backups : SourceOf(f) /\ ZippedOf(g) /\ g.lines = f.lines
                               /\ (pc = "unlink" => g.whole)

IInv == Typed /\ NamedApart /\ TwinComplete /\ NothingVanishes

-----------------------------------------------------------------------------
(* Sums *)

\* Induction on a set: what holds of 0 and of the next number holds of all.
LEMMA Climb ==
    ASSUME NEW T, 0 \in T, \A n \in Nat : n \in T => n + 1 \in T
    PROVE  \A n \in Nat : n \in T
<1> SUFFICES ASSUME NEW m \in Nat, m \notin T PROVE FALSE
  OBVIOUS
<1> DEFINE Bad == {n \in Nat : n \notin T}
<1>1. Bad \in SUBSET Nat /\ m \in Bad
  OBVIOUS
<1> DEFINE R == OpToRel(<, Nat)
<1>r. IsWellFoundedOn(R, Nat)
  BY NatLessThanWellFounded
<1>2. PICK k \in Bad : \A n \in Bad : ~(<<n, k>> \in R)
  <2> HIDE DEF Bad, R
  <2> QED BY <1>1, <1>r, WFMin
<1>q. \A n \in Bad : ~(n < k)
  BY <1>2 DEF OpToRel
<1>3. k \in Nat /\ k \notin T
  OBVIOUS
<1> HIDE DEF R
<1>4. k # 0 /\ k - 1 \in Nat /\ k - 1 < k /\ (k - 1) + 1 = k
  BY <1>3
<1>5. k - 1 \in T
  BY <1>q, <1>4
<1> QED BY <1>3, <1>4, <1>5

\* iter adds up fun over the subsets of S.
Folds(iter, fun, S) ==
    iter = [s \in SUBSET S |->
               IF s = {} THEN 0
               ELSE fun[CHOOSE x \in s : TRUE] + iter[s \ {CHOOSE x \in s : TRUE}]]

LEMMA FoldsAt ==
    ASSUME NEW iter, NEW fun, NEW S, Folds(iter, fun, S)
    PROVE  /\ iter[{}] = 0
           /\ \A s \in SUBSET S : s # {} =>
                \E c \in s : c = (CHOOSE x \in s : TRUE) /\ iter[s] = fun[c] + iter[s \ {c}]
<1> DEFINE F == [s \in SUBSET S |->
               IF s = {} THEN 0
               ELSE fun[CHOOSE x \in s : TRUE] + iter[s \ {CHOOSE x \in s : TRUE}]]
<1>1. iter = F
  BY DEF Folds
<1>2. F[{}] = 0
  OBVIOUS
<1>3. \A s \in SUBSET S : s # {} => F[s] = fun[CHOOSE x \in s : TRUE] + iter[s \ {CHOOSE x \in s : TRUE}]
  OBVIOUS
<1>4. \A s \in SUBSET S : s # {} => (CHOOSE x \in s : TRUE) \in s
  OBVIOUS
<1> HIDE DEF F
<1> QED BY <1>1, <1>2, <1>3, <1>4

\* Taking one element away.
LEMMA OneLess ==
    ASSUME NEW S, IsFiniteSet(S), NEW s \in SUBSET S, NEW c \in s, NEW n \in Nat,
           Cardinality(s) <= n + 1
    PROVE  s \ {c} \in SUBSET S /\ Cardinality(s \ {c}) \in Nat /\ Cardinality(s \ {c}) <= n
<1>1. IsFiniteSet(s)
  BY FS_Subset
<1>2. Cardinality(s) \in Nat /\ Cardinality(s \ {c}) = Cardinality(s) - 1 /\ IsFiniteSet(s \ {c})
  BY <1>1, FS_CardinalityType, FS_RemoveElement
<1>3. Cardinality(s \ {c}) \in Nat
  BY <1>2, FS_CardinalityType
<1> QED BY <1>2, <1>3

\* A set without elements.
LEMMA NoneLeft ==
    ASSUME NEW S, IsFiniteSet(S), NEW s \in SUBSET S, Cardinality(s) <= 0
    PROVE  s = {}
<1>1. IsFiniteSet(s)
  BY FS_Subset
<1>2. Cardinality(s) \in Nat
  BY <1>1, FS_CardinalityType
<1> QED BY <1>1, <1>2, FS_EmptySet

\* There is such a function.
LEMMA FoldExists ==
    ASSUME NEW S, IsFiniteSet(S), NEW fun, \A x \in S : fun[x] \in Nat
    PROVE  \E iter \in [SUBSET S -> Nat] : Folds(iter, fun, S)
<1> DEFINE Up(iter, s) == IF s = {} THEN 0 ELSE fun[CHOOSE x \in s : TRUE] + iter[s \ {CHOOSE x \in s : TRUE}]
           T == {n \in Nat : \E g \in [SUBSET S -> Nat] :
                    \A s \in SUBSET S : Cardinality(s) <= n => g[s] = Up(g, s)}
<1>1. 0 \in T
  <2> DEFINE g == [s \in SUBSET S |-> 0]
  <2>1. \A s \in SUBSET S : Cardinality(s) <= 0 => g[s] = Up(g, s)
    BY NoneLeft
  <2>2. g \in [SUBSET S -> Nat]
    OBVIOUS
  <2> HIDE DEF g, Up
  <2> QED BY <2>1, <2>2
<1>2. ASSUME NEW n \in Nat, n \in T PROVE n + 1 \in T
  <2>1. PICK g \in [SUBSET S -> Nat] : \A s \in SUBSET S : Cardinality(s) <= n => g[s] = Up(g, s)
    BY <1>2
  <2> DEFINE h == [s \in SUBSET S |-> IF Cardinality(s) <= n THEN g[s] ELSE Up(g, s)]
  <2>2. \A s \in SUBSET S : Up(g, s) \in Nat
    <3> SUFFICES ASSUME NEW s \in SUBSET S PROVE Up(g, s) \in Nat
      OBVIOUS
    <3>1. CASE s = {}
      BY <3>1
    <3>2. CASE s # {}
      <4> DEFINE c == CHOOSE x \in s : TRUE
      <4>1. c \in s
        BY <3>2
      <4> HIDE DEF c
      <4>2. s \ {c} \in SUBSET S /\ fun[c] \in Nat
        BY <4>1
      <4>3. g[s \ {c}] \in Nat
        BY <4>2
      <4>4. Up(g, s) = fun[c] + g[s \ {c}]
        BY <3>2 DEF c
      <4> QED BY <4>2, <4>3, <4>4
    <3> QED BY <3>1, <3>2
  <2>3. h \in [SUBSET S -> Nat]
    <3> HIDE DEF Up
    <3> QED BY <2>2
  <2>4. ASSUME NEW s \in SUBSET S, Cardinality(s) <= n + 1 PROVE Up(h, s) = Up(g, s)
    <3>1. CASE s = {}
      BY <3>1
    <3>2. CASE s # {}
      <4> DEFINE c == CHOOSE x \in s : TRUE
      <4>1. c \in s
        BY <3>2
      <4> HIDE DEF c
      <4>2. s \ {c} \in SUBSET S /\ Cardinality(s \ {c}) <= n
        BY <2>4, <4>1, OneLess
      <4>3. h[s \ {c}] = g[s \ {c}]
        BY <4>2
      <4>4. Up(g, s) = fun[c] + g[s \ {c}] /\ Up(h, s) = fun[c] + h[s \ {c}]
        <5> HIDE DEF h
        <5> QED BY <3>2 DEF c
      <4> QED BY <4>3, <4>4
    <3> QED BY <3>1, <3>2
  <2>5. \A s \in SUBSET S : h[s] = Up(g, s)
    <3> HIDE DEF Up
    <3> QED BY <2>1
  <2>6. \A s \in SUBSET S : Cardinality(s) <= n + 1 => h[s] = Up(h, s)
    <3> HIDE DEF Up, h
    <3> QED BY <2>4, <2>5
  <2> HIDE DEF Up, h
  <2> QED BY <2>3, <2>6
<1>3. \A n \in Nat : n \in T
  <2> HIDE DEF T
  <2> QED BY <1>1, <1>2, Climb
<1>4. Cardinality(S) \in Nat /\ \A s \in SUBSET S : Cardinality(s) <= Cardinality(S)
  BY FS_CardinalityType, FS_Subset
<1>5. PICK g \in [SUBSET S -> Nat] : \A s \in SUBSET S : Cardinality(s) <= Cardinality(S) => g[s] = Up(g, s)
  <2> HIDE DEF Up
  <2> QED BY <1>3, <1>4
<1>6. g = [s \in SUBSET S |-> Up(g, s)]
  <2> HIDE DEF Up
  <2> QED BY <1>4, <1>5
<1> QED BY <1>6 DEF Folds

\* The fold depends on nothing but the values.
LEMMA FoldsAlike ==
    ASSUME NEW S, IsFiniteSet(S), NEW R \in SUBSET S, NEW f, NEW g, NEW F, NEW G,
           \A x \in R : f[x] = g[x], Folds(F, f, S), Folds(G, g, R)
    PROVE  \A s \in SUBSET R : F[s] = G[s]
<1> DEFINE T == {n \in Nat : \A s \in SUBSET R : Cardinality(s) <= n => F[s] = G[s]}
<1>0. IsFiniteSet(R)
  BY FS_Subset
<1>1. 0 \in T
  <2>1. F[{}] = 0 /\ G[{}] = 0
    BY FoldsAt
  <2>2. \A s \in SUBSET R : Cardinality(s) <= 0 => s = {}
    BY <1>0, NoneLeft
  <2> QED BY <2>1, <2>2
<1>2. ASSUME NEW n \in Nat, n \in T PROVE n + 1 \in T
  <2> SUFFICES ASSUME NEW s \in SUBSET R, Cardinality(s) <= n + 1 PROVE F[s] = G[s]
    OBVIOUS
  <2>1. CASE s = {}
    BY <2>1, FoldsAt
  <2>2. CASE s # {}
    <3>1. PICK c \in s : c = (CHOOSE x \in s : TRUE) /\ F[s] = f[c] + F[s \ {c}]
      BY <2>2, FoldsAt
    <3>2. G[s] = g[c] + G[s \ {c}]
      <4>1. PICK d \in s : d = (CHOOSE x \in s : TRUE) /\ G[s] = g[d] + G[s \ {d}]
        BY <2>2, FoldsAt
      <4> QED BY <3>1, <4>1
    <3>3. s \ {c} \in SUBSET R /\ Cardinality(s \ {c}) <= n
      BY <1>0, OneLess
    <3>4. F[s \ {c}] = G[s \ {c}] /\ f[c] = g[c]
      BY <1>2, <3>3
    <3> QED BY <3>1, <3>2, <3>4
  <2> QED BY <2>1, <2>2
<1>3. \A n \in Nat : n \in T
  <2> HIDE DEF T
  <2> QED BY <1>1, <1>2, Climb
<1>4. \A s \in SUBSET R : Cardinality(s) \in Nat
  BY <1>0, FS_Subset, FS_CardinalityType
<1> QED BY <1>3, <1>4

\* In which order does not matter.
LEMMA FoldsAnyway ==
    ASSUME NEW S, IsFiniteSet(S), NEW f, NEW F \in [SUBSET S -> Nat], \A x \in S : f[x] \in Nat,
           Folds(F, f, S), NEW s \in SUBSET S, NEW x \in s
    PROVE  F[s] = f[x] + F[s \ {x}]
<1> DEFINE T == {n \in Nat : \A t \in SUBSET S : Cardinality(t) <= n =>
                                \A y \in t : F[t] = f[y] + F[t \ {y}]}
<1>1. 0 \in T
  BY NoneLeft
<1>2. ASSUME NEW n \in Nat, n \in T PROVE n + 1 \in T
  <2> SUFFICES ASSUME NEW t \in SUBSET S, Cardinality(t) <= n + 1, NEW y \in t
               PROVE  F[t] = f[y] + F[t \ {y}]
    OBVIOUS
  <2>1. PICK c \in t : F[t] = f[c] + F[t \ {c}]
    <3>1. t # {}
      OBVIOUS
    <3> HIDE DEF T
    <3> QED BY <3>1, FoldsAt
  <2>2. CASE y = c
    BY <2>1, <2>2
  <2>3. CASE y # c
    <3> DEFINE sc == t \ {c}
               sx == t \ {y}
               rest == t \ {c, y}
    <3>1. /\ sc \in SUBSET S /\ sx \in SUBSET S /\ Cardinality(sc) <= n /\ Cardinality(sx) <= n
      BY OneLess
    <3>2. y \in sc /\ c \in sx /\ sc \ {y} = rest /\ sx \ {c} = rest /\ rest \in SUBSET S
      BY <2>3
    <3> HIDE DEF sc, sx, rest
    <3>3. F[sc] = f[y] + F[rest] /\ F[sx] = f[c] + F[rest]
      BY <1>2, <3>1, <3>2
    <3>4. f[y] \in Nat /\ f[c] \in Nat /\ F[rest] \in Nat
      BY <3>2
    <3>5. F[t] = f[c] + F[sc]
      BY <2>1 DEF sc
    <3>6. F[t] = f[y] + F[sx]
      BY <3>3, <3>4, <3>5
    <3> QED BY <3>6 DEF sx
  <2> QED BY <2>2, <2>3
<1>3. \A n \in Nat : n \in T
  <2> HIDE DEF T
  <2> QED BY <1>1, <1>2, Climb
<1>4. Cardinality(s) \in Nat
  BY FS_Subset, FS_CardinalityType
<1>5. Cardinality(s) \in T /\ Cardinality(s) \in Nat
  BY <1>3, <1>4
<1> QED BY <1>5

(***************************************************************************)
(* SumFunctionOnSet of the community modules is the sum.                   *)
(***************************************************************************)
LEMMA SumFolds ==
    ASSUME NEW S, IsFiniteSet(S), NEW fun, \A x \in S : fun[x] \in Nat
    PROVE  \E iter \in [SUBSET S -> Nat] : Folds(iter, fun, S) /\ SumFunctionOnSet(fun, S) = iter[S]
<1>1. PICK g \in [SUBSET S -> Nat] : Folds(g, fun, S)
  BY FoldExists
<1> DEFINE h == CHOOSE iter : iter = [s \in SUBSET S |-> IF s = {} THEN 0 ELSE
                    fun[CHOOSE x \in s : TRUE] + iter[s \ {CHOOSE x \in s : TRUE}]]
<1>2. Folds(h, fun, S)
  BY <1>1 DEF Folds
<1>3. SumFunctionOnSet(fun, S) = h[S]
  BY DEF SumFunctionOnSet, FoldFunctionOnSet, MapThenFoldSet
<1> HIDE DEF h
<1>4. h[S] = g[S]
  BY <1>1, <1>2, FoldsAlike
<1> QED BY <1>1, <1>3, <1>4

LEMMA SumType ==
    ASSUME NEW S, IsFiniteSet(S), NEW fun, \A x \in S : fun[x] \in Nat
    PROVE  SumFunctionOnSet(fun, S) \in Nat
<1>1. PICK F \in [SUBSET S -> Nat] : SumFunctionOnSet(fun, S) = F[S]
  BY SumFolds
<1>2. S \in SUBSET S
  OBVIOUS
<1> QED BY <1>1, <1>2

LEMMA SumNone == ASSUME NEW fun PROVE SumFunctionOnSet(fun, {}) = 0
<1>1. PICK iter \in [SUBSET {} -> Nat] : Folds(iter, fun, {}) /\ SumFunctionOnSet(fun, {}) = iter[{}]
  BY SumFolds, FS_EmptySet
<1> QED BY <1>1, FoldsAt

LEMMA SumAlike ==
    ASSUME NEW S, IsFiniteSet(S), NEW f, NEW g, \A x \in S : f[x] \in Nat /\ g[x] = f[x]
    PROVE  SumFunctionOnSet(f, S) = SumFunctionOnSet(g, S)
<1>1. \A x \in S : f[x] \in Nat
  OBVIOUS
<1>2. \A x \in S : g[x] \in Nat
  OBVIOUS
<1>3. PICK F \in [SUBSET S -> Nat] : Folds(F, f, S) /\ SumFunctionOnSet(f, S) = F[S]
  BY <1>1, SumFolds
<1>4. PICK G \in [SUBSET S -> Nat] : Folds(G, g, S) /\ SumFunctionOnSet(g, S) = G[S]
  BY <1>2, SumFolds
<1>5. \A s \in SUBSET S : F[s] = G[s]
  BY <1>3, <1>4, FoldsAlike
<1> QED BY <1>3, <1>4, <1>5

LEMMA SumTake ==
    ASSUME NEW S, IsFiniteSet(S), NEW f, \A x \in S : f[x] \in Nat, NEW x \in S
    PROVE  SumFunctionOnSet(f, S) = f[x] + SumFunctionOnSet(f, S \ {x})
<1>1. PICK F \in [SUBSET S -> Nat] : Folds(F, f, S) /\ SumFunctionOnSet(f, S) = F[S]
  BY SumFolds
<1>6. F[S] = f[x] + F[S \ {x}]
  <2>1. S \in SUBSET S
    OBVIOUS
  <2> QED BY <1>1, <2>1, FoldsAnyway
<1> DEFINE R == S \ {x}
<1>2. R \in SUBSET S /\ IsFiniteSet(R)
  BY FS_Subset
<1>3. PICK G \in [SUBSET R -> Nat] : Folds(G, f, R) /\ SumFunctionOnSet(f, R) = G[R]
  <2>1. \A y \in R : f[y] \in Nat
    OBVIOUS
  <2> HIDE DEF R
  <2> QED BY <1>2, <2>1, SumFolds
<1>4. F[R] = G[R]
  <2> HIDE DEF R
  <2> QED BY <1>1, <1>2, <1>3, FoldsAlike
<1> QED BY <1>1, <1>3, <1>4, <1>6

LEMMA SumAdd ==
    ASSUME NEW S, IsFiniteSet(S), NEW f, \A y \in S : f[y] \in Nat, NEW x, x \notin S,
           f[x] \in Nat
    PROVE  SumFunctionOnSet(f, S \cup {x}) = f[x] + SumFunctionOnSet(f, S)
<1> DEFINE R == S \cup {x}
<1>1. IsFiniteSet(R) /\ x \in R /\ R \ {x} = S /\ \A y \in R : f[y] \in Nat
  BY FS_AddElement
<1> HIDE DEF R
<1>2. SumFunctionOnSet(f, R) = f[x] + SumFunctionOnSet(f, R \ {x})
  BY <1>1, SumTake
<1> QED BY <1>1, <1>2 DEF R

LEMMA SumPart ==
    ASSUME NEW S, IsFiniteSet(S), NEW f, \A x \in S : f[x] \in Nat, NEW R \in SUBSET S
    PROVE  SumFunctionOnSet(f, R) <= SumFunctionOnSet(f, S)
<1> DEFINE T == {n \in Nat : \A s \in SUBSET S : (R \subseteq s /\ Cardinality(s \ R) <= n) =>
                                SumFunctionOnSet(f, R) <= SumFunctionOnSet(f, s)}
<1>0. \A s \in SUBSET S : IsFiniteSet(s) /\ SumFunctionOnSet(f, s) \in Nat
  BY FS_Subset, SumType
<1>1. 0 \in T
  <2>1. \A s \in SUBSET S : (R \subseteq s /\ Cardinality(s \ R) <= 0) => s = R
    <3> SUFFICES ASSUME NEW s \in SUBSET S, R \subseteq s, Cardinality(s \ R) <= 0 PROVE s = R
      OBVIOUS
    <3>1. s \ R = {}
      BY NoneLeft
    <3> QED BY <3>1
  <2> QED BY <1>0, <2>1
<1>2. ASSUME NEW n \in Nat, n \in T PROVE n + 1 \in T
  <2> SUFFICES ASSUME NEW s \in SUBSET S, R \subseteq s, Cardinality(s \ R) <= n + 1
               PROVE  SumFunctionOnSet(f, R) <= SumFunctionOnSet(f, s)
    OBVIOUS
  <2>1. CASE s = R
    BY <1>0, <2>1
  <2>2. CASE s # R
    <3>1. PICK x \in s \ R : TRUE
      BY <2>2
    <3> DEFINE less == s \ {x}
    <3>2. Cardinality((s \ R) \ {x}) <= n
      BY OneLess
    <3>3. less \in SUBSET S /\ R \subseteq less /\ less \ R = (s \ R) \ {x}
      BY <3>1
    <3> HIDE DEF less
    <3>4. SumFunctionOnSet(f, R) <= SumFunctionOnSet(f, less)
      BY <1>2, <3>2, <3>3
    <3>5. SumFunctionOnSet(f, s) = f[x] + SumFunctionOnSet(f, less)
      BY <1>0, SumTake DEF less
    <3>6. f[x] \in Nat /\ SumFunctionOnSet(f, less) \in Nat /\ SumFunctionOnSet(f, R) \in Nat
      BY <1>0, <3>3
    <3> QED BY <3>4, <3>5, <3>6
  <2> QED BY <2>1, <2>2
<1>3. \A n \in Nat : n \in T
  <2> HIDE DEF T
  <2> QED BY <1>1, <1>2, Climb
<1>4. Cardinality(S \ R) \in T
  BY <1>3, FS_Subset, FS_CardinalityType
<1>5. Cardinality(S \ R) \in Nat
  BY FS_Subset, FS_CardinalityType
<1> QED BY <1>4, <1>5

-----------------------------------------------------------------------------
(* Sizes *)

Held(files) == SumFunction([f \in files |-> SizeOf(f)])

LEMMA SizesNatural == Sizes \subseteq Nat /\ \A r \in Records : r.n \in Nat /\ r.bytes \in Nat
<1>1. Sizes \subseteq Nat
  BY ContentLogAssumption
<1>2. Sizes \cup {0, 1} \subseteq Nat
  BY <1>1
<1> DEFINE B == Sizes \cup {0, 1}
<1>3. Records = [n : Nat, bytes : B]
  BY DEF Records
<1> HIDE DEF B
<1>4. \A r \in Records : r.n \in Nat /\ r.bytes \in B
  BY <1>3
<1> QED BY <1>1, <1>2, <1>4 DEF B

LEMMA SeqDomain ==
    ASSUME NEW lines \in Seq(Records)
    PROVE  /\ Len(lines) \in Nat /\ DOMAIN lines = 1..Len(lines) /\ IsFiniteSet(DOMAIN lines)
           /\ \A i \in DOMAIN lines : lines[i] \in Records
<1>1. Len(lines) \in Nat /\ DOMAIN lines = 1..Len(lines)
  OBVIOUS
<1>2. IsFiniteSet(DOMAIN lines)
  BY <1>1, FS_Interval
<1>3. \A i \in DOMAIN lines : lines[i] \in Records
  BY <1>1
<1> QED BY <1>1, <1>2, <1>3

LEMMA BytesType ==
    ASSUME NEW lines \in Seq(Records)
    PROVE  Bytes(lines) \in Nat
<1> DEFINE fun == [i \in DOMAIN lines |-> lines[i].bytes]
<1>1. IsFiniteSet(DOMAIN lines) /\ \A i \in DOMAIN lines : fun[i] \in Nat
  BY SeqDomain, SizesNatural
<1>2. Bytes(lines) = SumFunctionOnSet(fun, DOMAIN lines)
  BY DEF Bytes, SumFunction
<1> HIDE DEF fun
<1> QED BY <1>1, <1>2, SumType

LEMMA BytesNone == Bytes(<<>>) = 0
<1> DEFINE fun == [i \in DOMAIN <<>> |-> <<>>[i].bytes]
<1>1. DOMAIN fun = {}
  OBVIOUS
<1>2. Bytes(<<>>) = SumFunctionOnSet(fun, {})
  BY <1>1 DEF Bytes, SumFunction
<1> QED BY <1>2, SumNone

LEMMA BytesAppend ==
    ASSUME NEW lines \in Seq(Records), NEW l \in Records
    PROVE  Bytes(Append(lines, l)) = Bytes(lines) + l.bytes
<1> DEFINE more == Append(lines, l)
           f == [i \in DOMAIN lines |-> lines[i].bytes]
           g == [i \in DOMAIN more |-> more[i].bytes]
           S == DOMAIN lines
           x == Len(lines) + 1
<1>1. /\ S = 1..Len(lines) /\ Len(lines) \in Nat /\ IsFiniteSet(S)
      /\ \A i \in S : f[i] \in Nat
  BY SeqDomain, SizesNatural
<1>2. /\ DOMAIN more = S \cup {x} /\ x \notin S
      /\ \A i \in S : more[i] = lines[i]
      /\ more[x] = l
  BY <1>1
<1>3. (\A i \in S : g[i] = f[i]) /\ g[x] = l.bytes /\ l.bytes \in Nat
  BY <1>2, SizesNatural
<1>4. Bytes(lines) = SumFunctionOnSet(f, S) /\ Bytes(more) = SumFunctionOnSet(g, S \cup {x})
  <2>1. DOMAIN g = S \cup {x}
    BY <1>2
  <2> QED BY <2>1 DEF Bytes, SumFunction
<1> HIDE DEF more, f, g, S, x
<1>5. SumFunctionOnSet(g, S \cup {x}) = g[x] + SumFunctionOnSet(g, S)
  BY <1>1, <1>2, <1>3, SumAdd
<1>6. SumFunctionOnSet(f, S) = SumFunctionOnSet(g, S) /\ SumFunctionOnSet(f, S) \in Nat
  BY <1>1, <1>3, SumAlike, SumType
<1>7. Bytes(more) = Bytes(lines) + l.bytes
  BY <1>3, <1>4, <1>5, <1>6
<1> QED BY <1>7 DEF more

LEMMA SizeType ==
    ASSUME NEW f \in Files
    PROVE  SizeOf(f) \in Nat
<1>1. Bytes(f.lines) \in Nat
  BY BytesType DEF Files
<1> QED BY <1>1 DEF SizeOf

\* Some of the files are no more than all.
LEMMA HeldPart ==
    ASSUME NEW files \in SUBSET Files, IsFiniteSet(files), NEW part \in SUBSET files
    PROVE  Held(part) \in Nat /\ Held(files) \in Nat /\ Held(part) <= Held(files)
<1> DEFINE f == [x \in files |-> SizeOf(x)]
           g == [x \in part |-> SizeOf(x)]
<1>1. (\A x \in files : f[x] \in Nat) /\ (\A x \in part : f[x] \in Nat /\ g[x] = f[x])
  BY SizeType
<1>2. Held(files) = SumFunctionOnSet(f, files) /\ Held(part) = SumFunctionOnSet(g, part)
  BY DEF Held, SumFunction
<1> HIDE DEF f, g
<1>3. IsFiniteSet(part)
  BY FS_Subset
<1>4. SumFunctionOnSet(f, part) = SumFunctionOnSet(g, part)
  BY <1>1, <1>3, SumAlike
<1>5. SumFunctionOnSet(f, part) <= SumFunctionOnSet(f, files)
  BY <1>1, SumPart
<1>6. SumFunctionOnSet(f, part) \in Nat /\ SumFunctionOnSet(f, files) \in Nat
  BY <1>1, <1>3, SumType
<1> QED BY <1>2, <1>4, <1>5, <1>6

LEMMA HeldNone == Held({}) = 0
<1> DEFINE f == [x \in {} |-> SizeOf(x)]
<1>1. Held({}) = SumFunctionOnSet(f, {})
  BY DEF Held, SumFunction
<1> QED BY <1>1, SumNone

-----------------------------------------------------------------------------
(* Nothing vanishes *)

LEMMA InitHolds == Init => IInv
<1> SUFFICES ASSUME Init PROVE IInv
  OBVIOUS
<1>1. Typed
  BY FS_EmptySet DEF Init, Typed, Line, Records
<1>2. NamedApart /\ TwinComplete
  BY DEF Init, NamedApart, TwinComplete
<1>3. NothingVanishes
  BY DEF Init, NothingVanishes
<1> QED BY <1>1, <1>2, <1>3 DEF IInv

\* What the compression works on.
LEMMA TheSource ==
    ASSUME NamedApart, NEW f \in backups, SourceOf(f)
    PROVE  Source = f
BY DEF NamedApart, SourceOf, Source

LEMMA TheZipped ==
    ASSUME NamedApart, NEW f \in backups, ZippedOf(f)
    PROVE  Zipped = f
BY DEF NamedApart, ZippedOf, Zipped

(* A step that moves no line: the active file and the backups stay as they are. *)
Still ==
    /\ UNCHANGED <<active, backups, src, history>>
    /\ now' \in Nat /\ now <= now' /\ line' \in Records /\ size' \in Nat
    /\ pc' # "idle" => line'.n = accepted + 1
    /\ pc' \in {"reopen", "compress"} => pc = "reopen"
    /\ pc' \notin {"gzip", "unlink"}

LEMMA StillHolds ==
    ASSUME IInv, Still
    PROVE  IInv'
<1>1. Typed'
  BY DEF IInv, Typed, Still, history
<1>2. NamedApart'
  BY DEF IInv, NamedApart, Still
<1>3. TwinComplete'
  BY DEF IInv, TwinComplete, Still, SourceOf, ZippedOf, history
<1>4. NothingVanishes'
  BY DEF IInv, NothingVanishes, Readable, Numbers, Still, history
<1> QED BY <1>1, <1>2, <1>3, <1>4 DEF IInv

LEMMA StillSteps ==
    ASSUME IInv,
           \/ \E bytes \in Sizes : Log(bytes)
           \/ CloseActive \/ CloseFails \/ RenameFails \/ Reopen \/ ReopenFails
           \/ (CompressFails /\ pc = "compress") \/ UnlinkFails
           \/ (WriteFails /\ UNCHANGED active) \/ Restart \/ Tick
    PROVE  Still
<1>0. /\ now \in Nat /\ line \in Records /\ accepted \in Nat /\ size \in Nat
      /\ Bytes(active) \in Nat
      /\ pc # "idle" => line.n = accepted + 1
  BY BytesType DEF IInv, Typed, TwinComplete
<1>1. CASE \E bytes \in Sizes : Log(bytes)
  BY <1>0, <1>1 DEF Log, Still, Line, Records
<1>2. CASE CloseActive \/ CloseFails \/ RenameFails
  BY <1>0, <1>2 DEF CloseActive, CloseFails, RenameFails, Reopened, NotReopened, Still
<1>3. CASE Reopen \/ ReopenFails
  BY <1>0, <1>3 DEF Reopen, ReopenFails, Reopened, NotReopened, Still
<1>4. CASE (CompressFails /\ pc = "compress") \/ UnlinkFails
  BY <1>0, <1>4 DEF CompressFails, UnlinkFails, Still
<1>5. CASE WriteFails /\ UNCHANGED active
  BY <1>0, <1>5 DEF WriteFails, Still
<1>6. CASE Restart \/ Tick
  BY <1>0, <1>6 DEF Restart, Tick, Reopened, Still
<1> QED BY <1>1, <1>2, <1>3, <1>4, <1>5, <1>6

\* Appending to the active file loses none of its lines.
LEMMA AppendNumbers ==
    ASSUME NEW lines \in Seq(Records), NEW l \in Records
    PROVE  /\ Append(lines, l) \in Seq(Records)
           /\ Numbers(lines) \subseteq Numbers(Append(lines, l))
           /\ l.n \in Numbers(Append(lines, l))
<1>1. /\ Append(lines, l) \in Seq(Records)
      /\ Len(Append(lines, l)) = Len(lines) + 1
      /\ Append(lines, l)[Len(lines) + 1] = l
      /\ \A i \in 1..Len(lines) : Append(lines, l)[i] = lines[i]
  OBVIOUS
<1>2. /\ Len(lines) \in Nat /\ DOMAIN lines = 1..Len(lines)
      /\ DOMAIN Append(lines, l) = 1..(Len(lines) + 1)
  BY <1>1
<1>3. Numbers(lines) \subseteq Numbers(Append(lines, l))
  BY <1>1, <1>2 DEF Numbers
<1>4. Len(lines) + 1 \in DOMAIN Append(lines, l)
  BY <1>2
<1>5. l.n \in Numbers(Append(lines, l))
  BY <1>1, <1>4 DEF Numbers
<1> QED BY <1>1, <1>3, <1>5

LEMMA AppendHolds ==
    ASSUME IInv, NEW l \in Records, active' = Append(active, l), pc' = "idle",
           size' \in Nat,
           UNCHANGED <<now, backups, line, src, pruned>>,
           \/ UNCHANGED accepted
           \/ l.n = accepted + 1 /\ accepted' = accepted + 1
    PROVE  IInv'
<1>0. active \in Seq(Records) /\ accepted \in Nat
  BY DEF IInv, Typed
<1>1. /\ active' \in Seq(Records) /\ Numbers(active) \subseteq Numbers(active)'
      /\ l.n \in Numbers(active)'
  BY <1>0, AppendNumbers
<1>2. Typed'
  BY <1>0, <1>1 DEF IInv, Typed
<1>3. NamedApart' /\ TwinComplete'
  BY DEF IInv, NamedApart, TwinComplete
<1>4. NothingVanishes'
  <2> SUFFICES ASSUME NEW n \in 1..accepted' PROVE Readable(n)' \/ n \in pruned'
    BY DEF NothingVanishes
  <2>1. CASE n \in 1..accepted
    BY <1>1, <2>1 DEF IInv, NothingVanishes, Readable
  <2>2. CASE n \notin 1..accepted
    <3>1. n = l.n
      BY <1>0, <2>2
    <3> QED BY <1>1, <3>1 DEF Readable
  <2> QED BY <2>1, <2>2
<1> QED BY <1>2, <1>3, <1>4 DEF IInv

LEMMA WriteHolds ==
    ASSUME IInv, Write \/ (WriteFails /\ ~UNCHANGED active)
    PROVE  IInv'
<1>1. line \in Records /\ pc = "write" /\ line.n = accepted + 1
  BY DEF IInv, Typed, TwinComplete, Write, WriteFails
<1>2. CASE Write
  <2>1. size' \in Nat
    BY <1>1, <1>2, SizesNatural DEF Write, IInv, Typed
  <2> QED BY <1>1, <1>2, <2>1, AppendHolds DEF Write
<1>3. CASE WriteFails /\ ~UNCHANGED active
  <2>1. Line(0, 1) \in Records
    BY DEF Line, Records
  <2>2. active' = Append(active, Line(0, 1))
    BY <1>3 DEF WriteFails
  <2>3. size' \in Nat
    BY <1>3 DEF WriteFails, IInv, Typed
  <2> QED BY <1>3, <2>1, <2>2, <2>3, AppendHolds DEF WriteFails, history
<1> QED BY <1>2, <1>3

LEMMA RenameHolds ==
    ASSUME IInv, Rename
    PROVE  IInv'
<1> DEFINE new == File(src + 1, FALSE, TRUE, active)
<1>0. Typed /\ NamedApart /\ TwinComplete /\ NothingVanishes
  BY DEF IInv
<1>1. /\ backups' = backups \cup {new} /\ src' = src + 1 /\ active' = <<>> /\ pc' = "reopen"
      /\ pc = "rename" /\ UNCHANGED <<now, line, size, accepted, pruned>>
  BY DEF Rename, history
<1>2. /\ new \in Files /\ new.at = src + 1 /\ new.gz = FALSE /\ new.whole = TRUE
      /\ new.lines = active
  BY <1>0 DEF Typed, File, Files
<1> HIDE DEF new
<1>3. Typed'
  BY <1>0, <1>1, <1>2, FS_AddElement DEF Typed
<1>4. \A f \in backups : f.at \in Nat /\ f.at <= src /\ src \in Nat
  BY <1>0 DEF Typed, Files, NamedApart
<1>5. NamedApart'
  BY <1>0, <1>1, <1>2, <1>4 DEF NamedApart
<1>6. TwinComplete'
  BY <1>0, <1>1, <1>2, <1>4 DEF TwinComplete, SourceOf, ZippedOf
<1>7. NothingVanishes'
  BY <1>0, <1>1, <1>2 DEF NothingVanishes, Readable, Numbers
<1> QED BY <1>3, <1>5, <1>6, <1>7 DEF IInv

LEMMA CompressBeginsHolds ==
    ASSUME IInv, CompressBegins
    PROVE  IInv'
<1>0. Typed /\ NamedApart /\ TwinComplete /\ NothingVanishes /\ pc = "compress"
  BY DEF IInv, CompressBegins
<1>1. PICK f \in backups : SourceOf(f)
  BY <1>0 DEF TwinComplete
<1> DEFINE twin == [f EXCEPT !.gz = TRUE, !.whole = FALSE]
<1>2. /\ backups' = backups \cup {twin} /\ pc' = "gzip"
      /\ UNCHANGED <<now, active, size, line, src, accepted, pruned>>
  BY <1>0, <1>1, TheSource DEF CompressBegins, history
<1>3. /\ twin \in Files /\ twin.at = src /\ twin.gz = TRUE /\ twin.lines = f.lines
      /\ f.at = src /\ f.gz = FALSE /\ src \in Nat
  BY <1>0, <1>1 DEF Typed, Files, SourceOf
<1> HIDE DEF twin
<1>4. Typed'
  BY <1>0, <1>2, <1>3, FS_AddElement DEF Typed
<1>5. \A g \in backups : g.at = src => g.gz # TRUE
  BY <1>0 DEF TwinComplete, ZippedOf
<1>6. NamedApart'
  <2>1. \A g \in backups' : g.at <= src' /\ (~g.gz => g.whole)
    BY <1>0, <1>2, <1>3 DEF NamedApart
  <2>2. ASSUME NEW g \in backups', NEW h \in backups', g.at = h.at, g.gz = h.gz
        PROVE  g = h
    <3>1. CASE g \in backups /\ h \in backups
      BY <1>0, <2>2, <3>1 DEF NamedApart
    <3>2. CASE g = twin \/ h = twin
      <4>1. g.at = src /\ g.gz = TRUE /\ h.at = src /\ h.gz = TRUE
        BY <1>3, <2>2, <3>2
      <4> QED BY <1>2, <1>5, <4>1
    <3> QED BY <1>2, <3>1, <3>2
  <2> QED BY <2>1, <2>2 DEF NamedApart
<1>7. TwinComplete'
  BY <1>0, <1>2, <1>3 DEF TwinComplete, SourceOf, ZippedOf
<1>8. NothingVanishes'
  BY <1>0, <1>2 DEF NothingVanishes, Readable, Numbers
<1> QED BY <1>4, <1>6, <1>7, <1>8 DEF IInv

LEMMA CompressDoneHolds ==
    ASSUME IInv, CompressDone
    PROVE  IInv'
<1>0. Typed /\ NamedApart /\ TwinComplete /\ NothingVanishes /\ pc = "gzip"
  BY DEF IInv, CompressDone
<1>1. PICK f, g \in backups : SourceOf(f) /\ ZippedOf(g) /\ g.lines = f.lines
  BY <1>0 DEF TwinComplete
<1> DEFINE done == [g EXCEPT !.whole = TRUE]
<1>2. /\ backups' = (backups \ {g}) \cup {done} /\ pc' = "unlink"
      /\ UNCHANGED <<now, active, size, line, src, accepted, pruned>>
  BY <1>0, <1>1, TheZipped DEF CompressDone, history
<1>3. /\ done \in Files /\ done.at = src /\ done.gz = TRUE /\ done.whole = TRUE
      /\ done.lines = g.lines
      /\ f.at = src /\ f.gz = FALSE /\ g.at = src /\ g.gz = TRUE /\ src \in Nat
  BY <1>0, <1>1 DEF Typed, Files, SourceOf, ZippedOf
<1> HIDE DEF done
<1>4. Typed'
  BY <1>0, <1>2, <1>3, FS_AddElement, FS_RemoveElement DEF Typed
<1>5. NamedApart'
  BY <1>0, <1>2, <1>3 DEF NamedApart
<1>6. TwinComplete'
  <2>1. f \in backups' /\ done \in backups' /\ SourceOf(f)' /\ ZippedOf(done)'
    BY <1>2, <1>3 DEF SourceOf, ZippedOf
  <2> QED BY <1>0, <1>1, <1>2, <1>3, <2>1 DEF TwinComplete
<1>7. NothingVanishes'
  <2>1. ASSUME NEW n, Readable(n) PROVE Readable(n)'
    BY <1>2, <1>3, <2>1 DEF Readable, Numbers
  <2> QED BY <1>0, <1>2, <2>1 DEF NothingVanishes
<1> QED BY <1>4, <1>5, <1>6, <1>7 DEF IInv

LEMMA CompressFailsHolds ==
    ASSUME IInv, CompressFails, pc = "gzip"
    PROVE  IInv'
<1>0. Typed /\ NamedApart /\ TwinComplete /\ NothingVanishes
  BY DEF IInv
<1>1. PICK f, g \in backups : SourceOf(f) /\ ZippedOf(g) /\ g.lines = f.lines
  BY <1>0 DEF TwinComplete
<1>2. /\ backups' \in {backups, backups \ {g}} /\ pc' = "retain"
      /\ UNCHANGED <<now, active, size, line, src, accepted, pruned>>
  BY <1>0, <1>1, TheZipped DEF CompressFails, history
<1>3. f # g /\ f.whole
  BY <1>0, <1>1 DEF SourceOf, ZippedOf, NamedApart
<1>4. Typed' /\ NamedApart' /\ TwinComplete'
  BY <1>0, <1>2, FS_RemoveElement DEF Typed, NamedApart, TwinComplete
<1>5. NothingVanishes'
  <2>1. ASSUME NEW n, Readable(n) PROVE Readable(n)'
    BY <1>1, <1>2, <1>3, <2>1 DEF Readable, Numbers
  <2> QED BY <1>0, <1>2, <2>1 DEF NothingVanishes
<1> QED BY <1>4, <1>5 DEF IInv

LEMMA UnlinkHolds ==
    ASSUME IInv, Unlink
    PROVE  IInv'
<1>0. Typed /\ NamedApart /\ TwinComplete /\ NothingVanishes /\ pc = "unlink"
  BY DEF IInv, Unlink
<1>1. PICK f, g \in backups : SourceOf(f) /\ ZippedOf(g) /\ g.lines = f.lines /\ g.whole
  BY <1>0 DEF TwinComplete
<1>2. /\ backups' = backups \ {f} /\ pc' = "retain"
      /\ UNCHANGED <<now, active, size, line, src, accepted, pruned>>
  BY <1>0, <1>1, TheSource DEF Unlink, history
<1>3. f # g
  BY <1>1 DEF SourceOf, ZippedOf
<1>4. Typed' /\ NamedApart' /\ TwinComplete'
  BY <1>0, <1>2, FS_RemoveElement DEF Typed, NamedApart, TwinComplete
<1>5. NothingVanishes'
  <2>1. ASSUME NEW n, Readable(n) PROVE Readable(n)'
    BY <1>1, <1>2, <1>3, <2>1 DEF Readable, Numbers
  <2> QED BY <1>0, <1>2, <2>1 DEF NothingVanishes
<1> QED BY <1>4, <1>5 DEF IInv

\* Retention may take any file, as long as it accounts for its lines.
LEMMA RetentionHolds ==
    ASSUME IInv, EnforceRetention
    PROVE  IInv'
<1>0. Typed /\ NamedApart /\ TwinComplete /\ NothingVanishes /\ pc = "retain"
  BY DEF IInv, EnforceRetention
<1>1. PICK gzFirst \in BOOLEAN :
        \E failing \in {{}} \cup {{f} : f \in ListBackups \ Survivors(gzFirst)} :
           /\ backups' = backups \ ((ListBackups \ Survivors(gzFirst)) \ failing)
           /\ pruned' = pruned \cup UNION {Numbers(f.lines) : f \in ListBackups \ Survivors(gzFirst)}
  BY DEF EnforceRetention
<1> DEFINE doomed == ListBackups \ Survivors(gzFirst)
<1>2. PICK failing \in {{}} \cup {{f} : f \in doomed} :
        /\ backups' = backups \ (doomed \ failing)
        /\ pruned' = pruned \cup UNION {Numbers(f.lines) : f \in doomed}
  BY <1>1
<1> HIDE DEF doomed
<1>3. pc' = "write" /\ UNCHANGED <<now, active, size, line, src, accepted>>
  BY DEF EnforceRetention
<1>4. Typed' /\ NamedApart' /\ TwinComplete'
  <2>1. backups' \in SUBSET backups
    BY <1>2
  <2>2. IsFiniteSet(backups')
    BY <1>0, <2>1, FS_Subset DEF Typed
  <2> QED BY <1>0, <1>3, <2>1, <2>2 DEF Typed, NamedApart, TwinComplete
<1>5. NothingVanishes'
  <2>1. ASSUME NEW n, Readable(n) PROVE Readable(n)' \/ n \in pruned'
    BY <1>2, <1>3, <2>1 DEF Readable, Numbers
  <2> QED BY <1>0, <1>2, <1>3, <2>1 DEF NothingVanishes
<1> QED BY <1>4, <1>5 DEF IInv

LEMMA StepHolds == IInv /\ [Next]_vars => IInv'
<1> SUFFICES ASSUME IInv, [Next]_vars PROVE IInv'
  OBVIOUS
<1>1. CASE UNCHANGED vars
  BY <1>1 DEF vars, IInv, Typed, NamedApart, TwinComplete, SourceOf, ZippedOf, NothingVanishes,
              Readable, Numbers
<1>2. CASE \/ \E bytes \in Sizes : Log(bytes)
           \/ CloseActive \/ CloseFails \/ RenameFails \/ Reopen \/ ReopenFails
           \/ (CompressFails /\ pc = "compress") \/ UnlinkFails
           \/ (WriteFails /\ UNCHANGED active) \/ Restart \/ Tick
  BY <1>2, StillSteps, StillHolds
<1>3. CASE Write \/ (WriteFails /\ ~UNCHANGED active)
  BY <1>3, WriteHolds
<1>4. CASE Rename \/ CompressBegins \/ CompressDone \/ (CompressFails /\ pc = "gzip")
  BY <1>4, RenameHolds, CompressBeginsHolds, CompressDoneHolds, CompressFailsHolds
<1>5. CASE Unlink \/ EnforceRetention
  BY <1>5, UnlinkHolds, RetentionHolds
<1>6. CompressFails => pc \in {"compress", "gzip"}
  BY DEF CompressFails
<1> QED BY <1>1, <1>2, <1>3, <1>4, <1>5, <1>6 DEF Next, Rotates

(* Whatever step of a rotation fails, and wherever the process stops, a line    *)
(* that Log accepted is in a readable file or was taken by retention (rotate,   *)
(* compress, enforceRetention).                                                 *)
THEOREM AcceptedNeverVanishes == Spec => []NothingVanishes
<1>1. Init => IInv
  BY InitHolds
<1>2. IInv /\ [Next]_vars => IInv'
  BY StepHolds
<1>3. IInv => NothingVanishes
  BY DEF IInv
<1> QED BY <1>1, <1>2, <1>3, PTL DEF Spec
-----------------------------------------------------------------------------
(* Retention goes by age *)

(* The numbers on disk are those of accepted lines.                            *)
Logged ==
    /\ Numbers(active) \cup pruned \subseteq 0..accepted
    /\ \A f \in backups : Numbers(f.lines) \subseteq 0..accepted

Before(ns, ms) == \A n \in ns \ {0}, m \in ms \ {0} : n < m

(* Lines get younger from one rotation to the next, and so do the files.       *)
Aged ==
    /\ \A f \in backups : f.mod <= now /\ Before(Numbers(f.lines), Numbers(active))
    /\ \A f, g \in backups :
         /\ f.at < g.at => f.mod <= g.mod /\ Before(Numbers(f.lines), Numbers(g.lines))
         /\ f.at = g.at => f.mod = g.mod /\ f.lines = g.lines

Ages == Logged /\ Aged /\ OldestGoFirst

LEMMA NumbersTyped ==
    ASSUME NEW lines \in Seq(Records)
    PROVE  Numbers(lines) \subseteq Nat
BY SeqDomain, SizesNatural DEF Numbers

LEMMA NumbersAppend ==
    ASSUME NEW lines \in Seq(Records), NEW l \in Records
    PROVE  Numbers(Append(lines, l)) = Numbers(lines) \cup {l.n}
<1> DEFINE more == Append(lines, l)
<1>1. /\ Len(lines) \in Nat /\ DOMAIN lines = 1..Len(lines)
      /\ DOMAIN more = DOMAIN lines \cup {Len(lines) + 1}
      /\ \A i \in DOMAIN lines : more[i] = lines[i]
      /\ more[Len(lines) + 1] = l
  BY SeqDomain
<1> HIDE DEF more
<1>2. Numbers(more) = Numbers(lines) \cup {l.n}
  BY <1>1 DEF Numbers
<1> QED BY <1>2 DEF more

LEMMA DiskTyped ==
    ASSUME Typed
    PROVE  /\ accepted \in Nat /\ now \in Nat /\ src \in Nat
           /\ Numbers(active) \subseteq Nat
           /\ \A f \in backups : /\ f.lines \in Seq(Records) /\ Numbers(f.lines) \subseteq Nat
                                 /\ f.at \in Nat /\ f.mod \in Nat
BY NumbersTyped DEF Typed, Files

LEMMA InitAges == Init => Ages
<1> SUFFICES ASSUME Init PROVE Ages
  OBVIOUS
<1>1. active = <<>> /\ backups = {} /\ accepted = 0 /\ pruned = {}
  BY DEF Init
<1>2. Numbers(active) = {}
  BY <1>1 DEF Numbers
<1> QED BY <1>1, <1>2 DEF Ages, Logged, Aged, OldestGoFirst

LEMMA StillAges ==
    ASSUME IInv, Ages, Still
    PROVE  Ages'
<1>1. /\ UNCHANGED <<active, backups, accepted, pruned>> /\ now <= now'
      /\ now \in Nat /\ now' \in Nat /\ \A f \in backups : f.mod \in Nat
  BY DiskTyped DEF Still, history, IInv, Typed
<1>2. Logged'
  BY <1>1 DEF Ages, Logged, Numbers
<1>3. Aged'
  BY <1>1 DEF Ages, Aged, Numbers, Before
<1>4. OldestGoFirst'
  BY <1>1 DEF Ages, OldestGoFirst, Readable, Numbers
<1> QED BY <1>2, <1>3, <1>4 DEF Ages

\* The line that is written is the youngest; of a torn one the number is 0.
LEMMA AppendAges ==
    ASSUME IInv, Ages, NEW l \in Records, active' = Append(active, l),
           UNCHANGED <<now, backups, pruned>>,
           \/ l.n = 0 /\ UNCHANGED accepted
           \/ l.n = accepted + 1 /\ accepted' = accepted + 1
    PROVE  Ages'
<1>0. /\ accepted \in Nat /\ Numbers(active) \subseteq Nat
      /\ \A f \in backups : Numbers(f.lines) \subseteq Nat
      /\ Logged /\ Aged /\ OldestGoFirst
  BY DiskTyped DEF IInv, Ages
<1>1. Numbers(active') = Numbers(active) \cup {l.n}
  BY NumbersAppend DEF IInv, Typed
<1>2. accepted' \in Nat /\ accepted <= accepted'
  BY <1>0
<1>3. l.n \in 0..accepted' /\ 0..accepted \subseteq 0..accepted'
  BY <1>0, <1>2
<1>4. Logged'
  <2>1. Numbers(active') \cup pruned' \subseteq 0..accepted'
    BY <1>0, <1>1, <1>3 DEF Logged
  <2>2. \A f \in backups' : Numbers(f.lines) \subseteq 0..accepted'
    BY <1>0, <1>3 DEF Logged
  <2> QED BY <2>1, <2>2 DEF Logged, Numbers
<1>5. Aged'
  <2>1. \A f \in backups : Before(Numbers(f.lines), Numbers(active'))
    <3> SUFFICES ASSUME NEW f \in backups, NEW n \in Numbers(f.lines) \ {0},
                        NEW m \in Numbers(active') \ {0}
                 PROVE  n < m
      BY DEF Before
    <3>1. n \in 0..accepted
      BY <1>0 DEF Logged
    <3>2. m \in Numbers(active) \/ m = accepted + 1
      BY <1>1
    <3>3. m \in Numbers(active) => n < m
      BY <1>0 DEF Aged, Before
    <3> QED BY <1>0, <3>1, <3>2, <3>3
  <2> QED BY <1>0, <2>1 DEF Aged, Numbers
<1>6. OldestGoFirst'
  <2> SUFFICES ASSUME NEW n \in pruned \ {0}, NEW m \in 1..accepted', m < n, Readable(m)'
               PROVE  m \in pruned
    BY DEF OldestGoFirst
  <2>1. n \in 0..accepted
    BY <1>0 DEF Logged
  <2>2. m \in 1..accepted /\ m # l.n
    BY <1>0, <1>2, <2>1
  <2>3. Readable(m)
    BY <1>1, <2>2 DEF Readable, Numbers
  <2> QED BY <1>0, <2>2, <2>3 DEF OldestGoFirst
<1> QED BY <1>4, <1>5, <1>6 DEF Ages

LEMMA RenameAges ==
    ASSUME IInv, Ages, Rename
    PROVE  Ages'
<1> DEFINE new == File(src + 1, FALSE, TRUE, active)
<1>0. /\ Typed /\ NamedApart /\ Logged /\ Aged /\ OldestGoFirst
      /\ now \in Nat /\ src \in Nat /\ Numbers(active) \subseteq Nat
      /\ \A f \in backups : f.at \in Nat /\ f.at <= src /\ f.mod \in Nat /\ f.mod <= now
  BY DiskTyped DEF IInv, Ages, NamedApart, Aged
<1>1. /\ backups' = backups \cup {new} /\ active' = <<>>
      /\ UNCHANGED <<now, accepted, pruned>>
  BY DEF Rename, history
<1>2. new.at = src + 1 /\ new.mod = now /\ new.whole = TRUE /\ new.lines = active
  BY DEF File
<1> HIDE DEF new
<1>3. Numbers(active') = {} /\ Numbers(new.lines) = Numbers(active)
  BY <1>1, <1>2 DEF Numbers
<1>4. Logged'
  <2>1. Numbers(active') \cup pruned' \subseteq 0..accepted'
    BY <1>0, <1>1, <1>3 DEF Logged
  <2>2. \A f \in backups' : Numbers(f.lines) \subseteq 0..accepted'
    BY <1>0, <1>1, <1>3 DEF Logged
  <2> QED BY <2>1, <2>2 DEF Logged, Numbers
<1>5. Aged'
  <2>1. \A f \in backups' : f.mod <= now' /\ Before(Numbers(f.lines), Numbers(active'))
    BY <1>0, <1>1, <1>2, <1>3 DEF Before
  <2>2. ASSUME NEW f \in backups, f.at < new.at
        PROVE  f.mod <= new.mod /\ Before(Numbers(f.lines), Numbers(new.lines))
    BY <1>0, <1>2, <1>3 DEF Aged
  <2>3. \A f \in backups : f.at < new.at /\ ~(new.at < f.at) /\ f.at # new.at
    BY <1>0, <1>2
  <2>4. ~(new.at < new.at)
    BY <1>0, <1>2
  <2>5. ASSUME NEW f \in backups', NEW g \in backups'
        PROVE  /\ f.at < g.at => f.mod <= g.mod /\ Before(Numbers(f.lines), Numbers(g.lines))
               /\ f.at = g.at => f.mod = g.mod /\ f.lines = g.lines
    <3>1. CASE f \in backups /\ g \in backups
      BY <1>0, <3>1 DEF Aged
    <3>2. CASE f = new \/ g = new
      BY <1>1, <2>2, <2>3, <2>4, <3>2
    <3> QED BY <1>1, <3>1, <3>2
  <2> QED BY <2>1, <2>5 DEF Aged, Numbers
<1>6. OldestGoFirst'
  <2>1. ASSUME NEW m, Readable(m)' PROVE Readable(m)
    BY <1>1, <1>2, <1>3, <2>1 DEF Readable, Numbers
  <2> QED BY <1>0, <1>1, <2>1 DEF OldestGoFirst
<1> QED BY <1>4, <1>5, <1>6 DEF Ages

\* Compression and retention leave nothing but files that were there, or the
\* twin of such a file.
Twins ==
    \A f \in backups' : \E g \in backups :
        f.at = g.at /\ f.mod = g.mod /\ f.lines = g.lines /\ (f.whole => g.whole)

LEMMA TwinsAge ==
    ASSUME IInv, Ages, Twins, UNCHANGED <<now, active, accepted>>
    PROVE  /\ Aged'
           /\ \A f \in backups' : Numbers(f.lines) \subseteq 0..accepted
           /\ \A m : Readable(m)' => Readable(m)
<1>0. Logged /\ Aged
  BY DEF Ages
<1>1. ASSUME NEW f \in backups'
      PROVE  /\ f.mod <= now' /\ Before(Numbers(f.lines), Numbers(active'))
             /\ Numbers(f.lines) \subseteq 0..accepted
  <2>1. PICK g \in backups : f.at = g.at /\ f.mod = g.mod /\ f.lines = g.lines
    BY DEF Twins
  <2> QED BY <1>0, <2>1 DEF Aged, Logged
<1>2. ASSUME NEW f \in backups', NEW g \in backups'
      PROVE  /\ f.at < g.at => f.mod <= g.mod /\ Before(Numbers(f.lines), Numbers(g.lines))
             /\ f.at = g.at => f.mod = g.mod /\ f.lines = g.lines
  <2>1. PICK x \in backups : f.at = x.at /\ f.mod = x.mod /\ f.lines = x.lines
    BY DEF Twins
  <2>2. PICK y \in backups : g.at = y.at /\ g.mod = y.mod /\ g.lines = y.lines
    BY DEF Twins
  <2> QED BY <1>0, <2>1, <2>2 DEF Aged
<1>3. Aged'
  BY <1>1, <1>2 DEF Aged, Numbers
<1>4. \A m : Readable(m)' => Readable(m)
  BY DEF Readable, Twins, Numbers
<1> QED BY <1>1, <1>3, <1>4

LEMMA TwinsKeepAges ==
    ASSUME IInv, Ages, Twins, UNCHANGED <<now, active, accepted, pruned>>
    PROVE  Ages'
<1>1. Logged'
  BY TwinsAge DEF Ages, Logged, Numbers
<1>2. OldestGoFirst'
  BY TwinsAge DEF Ages, OldestGoFirst
<1> QED BY <1>1, <1>2, TwinsAge DEF Ages

LEMMA CompressionTwins ==
    ASSUME IInv, Ages, CompressBegins \/ CompressDone \/ CompressFails \/ Unlink
    PROVE  Twins /\ UNCHANGED <<now, active, accepted, pruned>>
<1>0. Typed /\ NamedApart /\ TwinComplete /\ Aged
  BY DEF IInv, Ages
<1>1. UNCHANGED <<now, active, accepted, pruned>>
  BY DEF CompressBegins, CompressDone, CompressFails, Unlink, history
<1>2. CASE backups' \subseteq backups
  BY <1>1, <1>2 DEF Twins
<1>3. CASE CompressBegins
  <2>1. PICK f \in backups : SourceOf(f)
    BY <1>0, <1>3 DEF TwinComplete, CompressBegins
  <2> DEFINE twin == [f EXCEPT !.gz = TRUE, !.whole = FALSE]
  <2>2. backups' = backups \cup {twin}
    BY <1>0, <1>3, <2>1, TheSource DEF CompressBegins
  <2>3. twin.at = f.at /\ twin.mod = f.mod /\ twin.lines = f.lines /\ twin.whole = FALSE
    BY <1>0 DEF Typed, Files
  <2> HIDE DEF twin
  <2>4. Twins
    BY <2>2, <2>3 DEF Twins
  <2> QED BY <1>1, <2>4
<1>4. CASE CompressDone
  <2>1. PICK f, g \in backups : SourceOf(f) /\ ZippedOf(g)
    BY <1>0, <1>4 DEF TwinComplete, CompressDone
  <2> DEFINE done == [g EXCEPT !.whole = TRUE]
  <2>2. backups' = (backups \ {g}) \cup {done}
    BY <1>0, <1>4, <2>1, TheZipped DEF CompressDone
  <2>3. done.at = g.at /\ done.mod = g.mod /\ done.lines = g.lines
    BY <1>0 DEF Typed, Files
  <2>4. g.at = f.at /\ g.mod = f.mod /\ g.lines = f.lines /\ f.whole
    BY <1>0, <2>1 DEF Aged, SourceOf, ZippedOf, NamedApart
  <2> HIDE DEF done
  <2>5. Twins
    BY <2>2, <2>3, <2>4 DEF Twins
  <2> QED BY <1>1, <2>5
<1>5. CompressFails \/ Unlink => backups' \subseteq backups
  BY DEF CompressFails, Unlink
<1> QED BY <1>2, <1>3, <1>4, <1>5

-----------------------------------------------------------------------------
(* What is kept is the newest part of what is there. *)

LEMMA NewerOfNewer ==
    ASSUME NEW gzFirst, NEW files \in SUBSET Files, NEW f \in files, NEW g \in files,
           f.at < g.at
    PROVE  NotOlder(gzFirst, files, g) \subseteq NotOlder(gzFirst, files, f)
BY DEF NotOlder, Older, Files

LEMMA NewerIsKept ==
    ASSUME Typed, Aged, NEW gzFirst, NEW f \in Survivors(gzFirst), NEW g \in backups, f.at < g.at
    PROVE  g \in Survivors(gzFirst)
<1> DEFINE young == YoungEnough(ListBackups)
           few == FewEnough(gzFirst, young)
<1>0. /\ backups \in SUBSET Files /\ IsFiniteSet(backups) /\ now \in Nat /\ size \in Nat
      /\ {MaxAge, MaxBackups, MaxTotal} \subseteq Nat
      /\ \A x \in backups : x.mod \in Nat
  BY ContentLogAssumption, DiskTyped DEF Typed
<1>1. Survivors(gzFirst) = SmallEnough(gzFirst, few)
  BY DEF Survivors
<1>2. f \in few /\ f \in young /\ f \in backups
  BY <1>1 DEF SmallEnough, FewEnough, YoungEnough, ListBackups
<1>3. young \in SUBSET backups /\ few \in SUBSET young
  BY DEF FewEnough, YoungEnough, ListBackups
<1>4. IsFiniteSet(young) /\ IsFiniteSet(few) /\ young \in SUBSET Files /\ few \in SUBSET Files
  BY <1>0, <1>3, FS_Subset
<1>5. g \in young
  <2>1. f.mod <= g.mod
    BY <1>2 DEF Aged
  <2>2. MaxAge = 0 \/ f.mod >= now - MaxAge
    BY <1>2 DEF YoungEnough
  <2>3. f.mod \in Nat /\ g.mod \in Nat
    BY <1>0, <1>2
  <2>4. MaxAge = 0 \/ g.mod >= now - MaxAge
    BY <1>0, <2>1, <2>2, <2>3
  <2> QED BY <2>4 DEF YoungEnough, ListBackups
<1>6. g \in few
  <2>1. NotOlder(gzFirst, young, g) \subseteq NotOlder(gzFirst, young, f)
    BY <1>2, <1>4, <1>5, NewerOfNewer
  <2>2. IsFiniteSet(NotOlder(gzFirst, young, f))
    BY <1>4, FS_Subset DEF NotOlder
  <2>3. /\ Cardinality(NotOlder(gzFirst, young, g)) <= Cardinality(NotOlder(gzFirst, young, f))
        /\ IsFiniteSet(NotOlder(gzFirst, young, g))
    BY <2>1, <2>2, FS_Subset
  <2>4. /\ Cardinality(NotOlder(gzFirst, young, g)) \in Nat
        /\ Cardinality(NotOlder(gzFirst, young, f)) \in Nat
    BY <2>2, <2>3, FS_CardinalityType
  <2>5. MaxBackups = 0 \/ Cardinality(NotOlder(gzFirst, young, f)) <= MaxBackups
    BY <1>2 DEF FewEnough
  <2>6. MaxBackups = 0 \/ Cardinality(NotOlder(gzFirst, young, g)) <= MaxBackups
    BY <1>0, <2>3, <2>4, <2>5
  <2> QED BY <1>5, <2>6 DEF FewEnough
<1>7. g \in SmallEnough(gzFirst, few)
  <2> HIDE DEF few
  <2> DEFINE most == NotOlder(gzFirst, few, f)
             less == NotOlder(gzFirst, few, g)
  <2>1. less \in SUBSET most
    BY <1>2, <1>4, <1>6, NewerOfNewer
  <2>2. IsFiniteSet(most) /\ most \in SUBSET Files
    BY <1>4, FS_Subset DEF NotOlder
  <2>3. MaxTotal = 0 \/ Footprint(most) <= MaxTotal
    BY <1>1, <1>2 DEF SmallEnough
  <2> HIDE DEF most, less
  <2>4. Held(less) \in Nat /\ Held(most) \in Nat /\ Held(less) <= Held(most)
    BY <2>1, <2>2, HeldPart
  <2>5. Footprint(most) = size + Held(most) /\ Footprint(less) = size + Held(less)
    BY DEF Footprint, Held
  <2>6. MaxTotal = 0 \/ Footprint(less) <= MaxTotal
    BY <1>0, <2>3, <2>4, <2>5
  <2> QED BY <1>6, <2>6 DEF SmallEnough, less
<1> QED BY <1>1, <1>7

LEMMA RetentionAges ==
    ASSUME IInv, Ages, EnforceRetention
    PROVE  Ages'
<1>0. /\ Typed /\ Logged /\ Aged /\ OldestGoFirst
      /\ Numbers(active) \subseteq Nat
      /\ \A f \in backups : f.at \in Nat /\ Numbers(f.lines) \subseteq Nat
  BY DiskTyped DEF IInv, Ages
<1>1. PICK gzFirst \in BOOLEAN :
        \E failing \in {{}} \cup {{f} : f \in ListBackups \ Survivors(gzFirst)} :
           /\ backups' = backups \ ((ListBackups \ Survivors(gzFirst)) \ failing)
           /\ pruned' = pruned \cup UNION {Numbers(f.lines) : f \in ListBackups \ Survivors(gzFirst)}
  BY DEF EnforceRetention
<1> DEFINE doomed == ListBackups \ Survivors(gzFirst)
<1>2. /\ backups' \subseteq backups /\ doomed \subseteq backups
      /\ pruned' = pruned \cup UNION {Numbers(f.lines) : f \in doomed}
      /\ UNCHANGED <<now, active, accepted>>
  BY <1>1 DEF EnforceRetention, ListBackups
<1>3. \A f \in doomed, h \in backups : h.at < f.at => h \in doomed
  BY <1>0, NewerIsKept DEF ListBackups
<1> HIDE DEF doomed
<1>4. /\ Aged' /\ \A f \in backups' : Numbers(f.lines) \subseteq 0..accepted
      /\ \A m : Readable(m)' => Readable(m)
  <2>1. Twins
    BY <1>2 DEF Twins
  <2> QED BY <1>2, <2>1, TwinsAge
<1>5. Logged'
  <2>1. Numbers(active') \cup pruned' \subseteq 0..accepted'
    BY <1>0, <1>2 DEF Logged
  <2>2. \A f \in backups' : Numbers(f.lines) \subseteq 0..accepted'
    BY <1>2, <1>4
  <2> QED BY <2>1, <2>2 DEF Logged, Numbers
<1>6. OldestGoFirst'
  <2> SUFFICES ASSUME NEW n \in pruned' \ {0}, NEW m \in 1..accepted, m < n, Readable(m)'
               PROVE  m \in pruned'
    BY <1>2 DEF OldestGoFirst
  <2>1. Readable(m) /\ m # 0
    BY <1>4
  <2>2. CASE n \in pruned
    BY <1>0, <1>2, <2>1, <2>2 DEF OldestGoFirst
  <2>3. CASE n \notin pruned
    <3>1. PICK f \in doomed : n \in Numbers(f.lines)
      BY <1>2, <2>3
    <3>2. f \in backups /\ n \in Nat /\ m \in Nat
      BY <1>0, <1>2, <3>1
    <3>3. m \notin Numbers(active)
      <4>1. m \in Numbers(active) => n < m
        BY <1>0, <2>1, <3>1, <3>2 DEF Aged, Before
      <4> QED BY <3>2, <4>1
    <3>4. PICK h \in backups : m \in Numbers(h.lines)
      BY <2>1, <3>3 DEF Readable
    <3>5. ~(f.at < h.at)
      <4>1. f.at < h.at => n < m
        BY <1>0, <2>1, <3>1, <3>2, <3>4 DEF Aged, Before
      <4> QED BY <3>2, <4>1
    <3>6. h.at < f.at \/ h.at = f.at
      BY <1>0, <3>2, <3>5
    <3>7. CASE h.at < f.at
      BY <1>2, <1>3, <3>4, <3>7
    <3>8. CASE h.at = f.at
      <4>1. h.lines = f.lines
        BY <1>0, <3>2, <3>8 DEF Aged
      <4> QED BY <1>2, <3>1, <3>4, <4>1
    <3> QED BY <3>6, <3>7, <3>8
  <2> QED BY <2>2, <2>3
<1> QED BY <1>4, <1>5, <1>6 DEF Ages

LEMMA WriteAges ==
    ASSUME IInv, Ages, Write \/ (WriteFails /\ ~UNCHANGED active)
    PROVE  Ages'
<1>1. line \in Records /\ pc = "write" /\ line.n = accepted + 1
  BY DEF IInv, Typed, TwinComplete, Write, WriteFails
<1>2. CASE Write
  BY <1>1, <1>2, AppendAges DEF Write
<1>3. CASE WriteFails /\ ~UNCHANGED active
  <2>1. Line(0, 1) \in Records /\ Line(0, 1).n = 0
    BY DEF Line, Records
  <2>2. active' = Append(active, Line(0, 1))
    BY <1>3 DEF WriteFails
  <2> QED BY <1>3, <2>1, <2>2, AppendAges DEF WriteFails, history
<1> QED BY <1>2, <1>3

LEMMA StepAges == IInv /\ Ages /\ [Next]_vars => Ages'
<1> SUFFICES ASSUME IInv, Ages, [Next]_vars PROVE Ages'
  OBVIOUS
<1>1. CASE UNCHANGED vars
  BY <1>1 DEF vars, Ages, Logged, Aged, OldestGoFirst, Readable, Numbers, Before
<1>2. CASE \/ \E bytes \in Sizes : Log(bytes)
           \/ CloseActive \/ CloseFails \/ RenameFails \/ Reopen \/ ReopenFails
           \/ (CompressFails /\ pc = "compress") \/ UnlinkFails
           \/ (WriteFails /\ UNCHANGED active) \/ Restart \/ Tick
  BY <1>2, StillSteps, StillAges
<1>3. CASE Write \/ (WriteFails /\ ~UNCHANGED active)
  BY <1>3, WriteAges
<1>4. CASE CompressBegins \/ CompressDone \/ CompressFails \/ Unlink
  BY <1>4, CompressionTwins, TwinsKeepAges
<1>5. CASE Rename \/ EnforceRetention
  BY <1>5, RenameAges, RetentionAges
<1> QED BY <1>1, <1>2, <1>3, <1>4, <1>5 DEF Next, Rotates

(* An accepted line is lost to retention only, and in the order of age: what    *)
(* retention took is older than all that can be read, but for files it could    *)
(* not remove (listBackups, enforceRetention).                                  *)
THEOREM LostInOrderOnly == Spec => []AcceptedStaysReadable
<1>1. Init => IInv /\ Ages
  BY InitHolds, InitAges
<1>2. IInv /\ Ages /\ [Next]_vars => IInv' /\ Ages'
  BY StepHolds, StepAges
<1>3. IInv /\ Ages => AcceptedStaysReadable
  BY DEF IInv, Ages, AcceptedStaysReadable
<1> QED BY <1>1, <1>2, <1>3, PTL DEF Spec
-----------------------------------------------------------------------------
(* The disk *)

(* From a rename until the rotated files are pruned the active file is empty;   *)
(* while no step has failed since the last pruning, the logger's count of bytes *)
(* is that of the active file, and the rotated files are within MaxTotal.       *)
Counted ==
    /\ pc # "idle" => line.bytes <= LargestFile
    /\ pc = "reopen" => active = <<>>
    /\ pc \in {"compress", "gzip", "unlink", "retain"} => active = <<>> /\ size = 0 /\ open
    /\ settled /\ pc \in {"idle", "close", "write"} =>
         open /\ size = Bytes(active) /\ size <= LargestFile /\ Held(backups) <= MaxTotal
    /\ settled /\ pc = "write" => size = 0 \/ size + line.bytes <= MaxSize

Limits == MaxSize > 0 /\ MaxTotal > 0

LEMMA LargestBounds ==
    /\ LargestFile \in Nat /\ MaxSize \in Nat /\ MaxSize <= LargestFile
    /\ \A bytes \in Sizes : bytes \in Nat /\ bytes <= LargestFile
<1> DEFINE S == Sizes \cup {MaxSize}
<1>1. MaxSize \in Nat /\ Sizes \subseteq Nat
  BY ContentLogAssumption
<1>2. PICK most \in Sizes : \A bytes \in Sizes : bytes <= most
  BY ContentLogAssumption
<1>3. \E x \in S : \A y \in S : x >= y
  <2>1. CASE MaxSize <= most
    <3>1. most \in S /\ \A y \in S : most >= y
      BY <1>1, <1>2, <2>1
    <3> QED BY <3>1
  <2>2. CASE ~(MaxSize <= most)
    <3>1. MaxSize \in S /\ \A y \in S : MaxSize >= y
      BY <1>1, <1>2, <2>2
    <3> QED BY <3>1
  <2> QED BY <2>1, <2>2
<1>4. LargestFile = Max(S)
  BY DEF LargestFile
<1> HIDE DEF S
<1>5. LargestFile \in S /\ \A y \in S : LargestFile >= y
  BY <1>3, <1>4 DEF Max
<1> QED BY <1>1, <1>5 DEF S

\* Among the files that are kept there is an oldest one.
LEMMA OldestOf ==
    ASSUME NEW gzFirst, NEW files \in SUBSET Files, files # {}
    PROVE  \E f \in files : \A g \in files : ~Older(gzFirst, g, f)
<1> DEFINE Ats == {f.at : f \in files}
           R == OpToRel(<, Nat)
<1>1. Ats \in SUBSET Nat /\ Ats # {}
  BY DEF Files
<1>2. IsWellFoundedOn(R, Nat)
  BY NatLessThanWellFounded
<1>3. PICK at \in Ats : \A b \in Ats : ~(<<b, at>> \in R)
  <2>1. PICK a \in Ats : TRUE
    BY <1>1
  <2> HIDE DEF Ats, R
  <2> QED BY <1>1, <1>2, <2>1, WFMin
<1>4. \A b \in Ats : ~(b < at)
  BY <1>1, <1>3 DEF OpToRel
<1>5. \A g \in files : ~(g.at < at)
  BY <1>4
<1>6. CASE \E f \in files : f.at = at /\ f.gz = gzFirst
  <2>1. PICK f \in files : f.at = at /\ f.gz = gzFirst
    BY <1>6
  <2> QED BY <1>5, <2>1 DEF Older
<1>7. CASE ~ \E f \in files : f.at = at /\ f.gz = gzFirst
  <2>1. PICK f \in files : f.at = at
    OBVIOUS
  <2> QED BY <1>5, <1>7, <2>1 DEF Older
<1> QED BY <1>6, <1>7

\* What retention keeps fits.
LEMMA KeptFits ==
    ASSUME Typed, MaxTotal > 0, NEW gzFirst
    PROVE  Held(Survivors(gzFirst)) <= MaxTotal
<1> DEFINE few == FewEnough(gzFirst, YoungEnough(ListBackups))
           kept == Survivors(gzFirst)
<1>0. size \in Nat /\ MaxTotal \in Nat
  BY ContentLogAssumption DEF Typed
<1>1. few \in SUBSET backups
  BY DEF FewEnough, YoungEnough, ListBackups
<1>2. few \in SUBSET Files /\ IsFiniteSet(few)
  BY <1>1, FS_Subset DEF Typed
<1>3. kept = SmallEnough(gzFirst, few)
  BY DEF Survivors
<1> HIDE DEF few, kept
<1>4. kept \in SUBSET few
  BY <1>3 DEF SmallEnough
<1>5. CASE kept = {}
  BY <1>0, <1>5, HeldNone DEF kept
<1>6. CASE kept # {}
  <2>1. PICK f \in kept : \A g \in kept : ~Older(gzFirst, g, f)
    BY <1>2, <1>4, <1>6, OldestOf
  <2> DEFINE newest == NotOlder(gzFirst, few, f)
  <2>2. kept \in SUBSET newest
    BY <1>4, <2>1 DEF NotOlder
  <2>3. newest \in SUBSET Files /\ IsFiniteSet(newest)
    BY <1>2, FS_Subset DEF NotOlder
  <2>4. Footprint(newest) <= MaxTotal
    BY <1>0, <1>3, <2>1 DEF SmallEnough
  <2> HIDE DEF newest
  <2>5. Held(kept) \in Nat /\ Held(newest) \in Nat /\ Held(kept) <= Held(newest)
    BY <2>2, <2>3, HeldPart
  <2>6. Footprint(newest) = size + Held(newest)
    BY DEF Footprint, Held
  <2>7. Held(kept) <= MaxTotal
    BY <1>0, <2>4, <2>5, <2>6
  <2> QED BY <2>7 DEF kept
<1> QED BY <1>5, <1>6

LEMMA InitCounted == Init => Counted
<1> SUFFICES ASSUME Init PROVE Counted
  OBVIOUS
<1>1. /\ pc = "idle" /\ open /\ size = 0 /\ active = <<>> /\ backups = {}
  BY DEF Init
<1>2. 0 <= LargestFile /\ 0 <= MaxTotal
  BY LargestBounds, ContentLogAssumption
<1>3. Held(backups) <= MaxTotal
  BY <1>1, <1>2, HeldNone
<1> QED BY <1>1, <1>2, <1>3, BytesNone DEF Counted

\* The two ways a step keeps it: it fails and the logger goes on, or nothing
\* that is counted changes.
LEMMA FaultCounted ==
    ASSUME Counted, ~settled', pc' \in {"idle", "write"},
           pc # "idle" \/ pc' = "idle", UNCHANGED line
    PROVE  Counted'
BY DEF Counted

LEMMA StepCounted ==
    ASSUME Limits, IInv, Counted, Next
    PROVE  Counted'
<1>0. /\ size \in Nat /\ active \in Seq(Records) /\ line \in Records /\ Typed
      /\ line.bytes \in Nat
  BY SizesNatural DEF IInv, Typed
<1>b. Bytes(active) \in Nat /\ MaxSize \in Nat /\ LargestFile \in Nat /\ MaxSize <= LargestFile
  BY <1>0, BytesType, LargestBounds
<1>1. ASSUME NEW bytes \in Sizes, Log(bytes) PROVE Counted'
  <2>1. /\ line'.bytes = bytes /\ bytes \in Nat /\ bytes <= LargestFile
        /\ UNCHANGED <<active, backups, open, size, settled>> /\ pc = "idle"
        /\ pc' \in {"close", "write"}
        /\ pc' = "write" => ~RotateNeeded(bytes)
    BY <1>1, LargestBounds DEF Log, NoFault, Line
  <2>2. ~RotateNeeded(bytes) => size = 0 \/ size + bytes <= MaxSize
    BY <1>0, <1>b, <2>1 DEF RotateNeeded, Limits
  <2> QED BY <2>1, <2>2 DEF Counted
<1>2. ASSUME CloseActive PROVE Counted'
  BY <1>2 DEF CloseActive, NoFault, Counted
<1>3. ASSUME CloseFails PROVE Counted'
  <2>1. pc = "close" /\ pc' = "write" /\ UNCHANGED line
    BY <1>3 DEF CloseFails
  <2>2. ~settled'
    <3>1. CASE Fault
      BY <3>1 DEF Fault
    <3>2. CASE ~Fault
      <4>1. ~open /\ UNCHANGED settled
        BY <1>3, <3>2 DEF CloseFails, NoFault
      <4> QED BY <2>1, <4>1 DEF Counted
    <3> QED BY <3>1, <3>2
  <2> QED BY <2>1, <2>2, FaultCounted
<1>4. ASSUME Rename PROVE Counted'
  BY <1>4 DEF Rename, Counted
<1>5. ASSUME RenameFails \/ ReopenFails \/ Restart PROVE Counted'
  <2>1. /\ ~settled' /\ pc' \in {"idle", "write"} /\ UNCHANGED line
        /\ pc # "idle" \/ pc' = "idle"
    BY <1>5 DEF RenameFails, ReopenFails, Restart, Fault
  <2> QED BY <2>1, FaultCounted
<1>6. ASSUME Reopen PROVE Counted'
  <2>1. /\ pc = "reopen" /\ pc' \in {"compress", "retain"} /\ open' = TRUE
        /\ size' = Bytes(active) /\ UNCHANGED <<active, line>>
    BY <1>6 DEF Reopen, Reopened
  <2> QED BY <2>1, BytesNone DEF Counted
<1>7. ASSUME CompressBegins \/ CompressDone \/ CompressFails \/ Unlink \/ UnlinkFails
      PROVE  Counted'
  <2>1. /\ pc \in {"compress", "gzip", "unlink"} /\ pc' \in {"gzip", "unlink", "retain"}
        /\ UNCHANGED <<active, open, size, line>>
    BY <1>7 DEF CompressBegins, CompressDone, CompressFails, Unlink, UnlinkFails
  <2> QED BY <2>1 DEF Counted
<1>8. ASSUME EnforceRetention PROVE Counted'
  <2>1. PICK gzFirst \in BOOLEAN :
          \E failing \in {{}} \cup {{f} : f \in ListBackups \ Survivors(gzFirst)} :
             /\ backups' = backups \ ((ListBackups \ Survivors(gzFirst)) \ failing)
             /\ IF failing = {} THEN settled' = TRUE /\ UNCHANGED faults ELSE Fault
    BY <1>8 DEF EnforceRetention
  <2>2. /\ pc = "retain" /\ pc' = "write" /\ UNCHANGED <<active, open, size, line>>
    BY <1>8 DEF EnforceRetention
  <2>3. line.bytes <= LargestFile /\ active = <<>> /\ size = 0 /\ open
    BY <2>2 DEF Counted
  <2>4. Survivors(gzFirst) \subseteq backups
    BY DEF Survivors, SmallEnough, FewEnough, YoungEnough, ListBackups
  <2>5. settled' => backups' = Survivors(gzFirst)
    BY <2>1, <2>4 DEF Fault, ListBackups
  <2>6. Held(Survivors(gzFirst)) <= MaxTotal
    BY <1>0, KeptFits DEF Limits
  <2> QED BY <1>b, <2>2, <2>3, <2>5, <2>6, BytesNone DEF Counted
<1>9. ASSUME Write PROVE Counted'
  <2>1. /\ pc = "write" /\ pc' = "idle" /\ open /\ active' = Append(active, line)
        /\ size' = size + line.bytes /\ UNCHANGED <<backups, open, settled>>
    BY <1>9 DEF Write, NoFault
  <2>2. Bytes(active') = Bytes(active) + line.bytes
    BY <1>0, <2>1, BytesAppend
  <2>3. settled => /\ size = Bytes(active) /\ Held(backups) <= MaxTotal
                   /\ line.bytes <= LargestFile
                   /\ size = 0 \/ size + line.bytes <= MaxSize
    BY <2>1 DEF Counted
  <2>4. settled => size' = Bytes(active') /\ size' <= LargestFile
    BY <1>0, <1>b, <2>1, <2>2, <2>3
  <2> QED BY <2>1, <2>3, <2>4 DEF Counted
<1>10. ASSUME WriteFails PROVE Counted'
  <2>1. pc = "write" /\ pc' = "idle" /\ UNCHANGED line
    BY <1>10 DEF WriteFails
  <2>2. ~settled'
    <3>1. CASE Fault
      BY <3>1 DEF Fault
    <3>2. CASE ~Fault
      <4>1. ~open /\ UNCHANGED settled
        BY <1>10, <3>2 DEF WriteFails, NoFault
      <4> QED BY <2>1, <4>1 DEF Counted
    <3> QED BY <3>1, <3>2
  <2> QED BY <2>1, <2>2, FaultCounted
<1>11. ASSUME Tick PROVE Counted'
  BY <1>11 DEF Tick, NoFault, Counted
<1> QED BY <1>1, <1>2, <1>3, <1>4, <1>5, <1>6, <1>7, <1>8, <1>9, <1>10, <1>11
       DEF Next, Rotates

(* A rotation that prunes without an error brings the log within MaxTotal,      *)
(* leftovers of earlier failures included, and until the next one it outgrows   *)
(* that by one active file, of any sizes and limits (enforceRetention,          *)
(* rotateNeeded).                                                               *)
THEOREM DiskStaysBounded == Spec => []DiskBounded
<1>1. Init => IInv /\ Counted
  BY InitHolds, InitCounted
<1>2. Limits /\ IInv /\ Counted /\ [Next]_vars => IInv' /\ Counted'
  <2>1. Counted /\ UNCHANGED vars => Counted'
    BY DEF vars, Counted
  <2> QED BY <2>1, StepHolds, StepCounted
<1>3. Limits /\ IInv /\ Counted => DiskBounded
  <2> SUFFICES ASSUME Limits, IInv, Counted, settled, pc = "idle"
               PROVE  OnDisk <= MaxTotal + LargestFile
    BY DEF DiskBounded
  <2>1. Bytes(active) <= LargestFile /\ Held(backups) <= MaxTotal
    BY DEF Counted
  <2>2. Bytes(active) \in Nat /\ Held(backups) \in Nat /\ LargestFile \in Nat /\ MaxTotal \in Nat
    <3>1. backups \in SUBSET backups
      OBVIOUS
    <3> QED BY <3>1, BytesType, HeldPart, LargestBounds, ContentLogAssumption DEF IInv, Typed
  <2>3. OnDisk = Bytes(active) + Held(backups)
    BY DEF OnDisk, Held
  <2> QED BY <2>1, <2>2, <2>3
<1>4. ~Limits => DiskBounded
  BY DEF Limits, DiskBounded
<1>5. CASE Limits
  <2>1. IInv /\ Counted /\ [Next]_vars => IInv' /\ Counted'
    BY <1>2, <1>5
  <2>2. IInv /\ Counted => DiskBounded
    BY <1>3, <1>5
  <2> QED BY <1>1, <2>1, <2>2, PTL DEF Spec
<1>6. CASE ~Limits
  <2>1. DiskBounded
    BY <1>4, <1>6
  <2> QED BY <2>1, PTL
<1> QED BY <1>5, <1>6
===============================================================================
