-------------------------- MODULE ChainStoreProofs --------------------------
(***************************************************************************)
(* Proofs about ChainStore, for every tree of blocks: the canonical rows   *)
(* are one chain, the best one, and the entity tables and tx_count follow  *)
(* the canonical flags of the blocks.                                      *)
(***************************************************************************)
EXTENDS ChainStore, FiniteSetTheorems, SequenceTheorems, WellFoundedInduction, TLAPS

-----------------------------------------------------------------------------
(* ORDER BY: a finite set of rows, listed by inserting one after the other. *)

Pick(s) == CHOOSE x \in s : TRUE

\* A set of subsets of a finite set has a smallest member.
LEMMA SmallestSubset ==
  ASSUME NEW D, IsFiniteSet(D), NEW Bad \in SUBSET (SUBSET D), Bad # {}
  PROVE  \E s \in Bad : \A u \in SUBSET s : u # s => u \notin Bad
<1>1. Bad \subseteq FiniteSubsetsOf(D)
  BY FS_Subset DEF FiniteSubsetsOf
<1>2. PICK s \in Bad : \A u \in Bad : <<u, s>> \notin StrictSubsetOrdering(D)
  BY <1>1, FS_StrictSubsetOrderingWellFounded, WFMin, Zenon
<1> QED BY <1>2 DEF StrictSubsetOrdering

LEMMA PickInSet ==
  ASSUME NEW s, s # {}
  PROVE  /\ Pick(s) \in s
         /\ s \ {Pick(s)} \in SUBSET s
         /\ s \ {Pick(s)} # s
BY DEF Pick

\* Images of finite sets.
LEMMA ImageFinite ==
  ASSUME NEW S, IsFiniteSet(S), NEW g, DOMAIN g = S
  PROVE  IsFiniteSet({g[x] : x \in S})
<1> DEFINE img == {g[x] : x \in S}
           h == [x \in S |-> g[x]]
<1>1. h \in Surjection(S, img)
  BY DEF Surjection
<1> HIDE DEF h, img
<1>2. IsFiniteSet(img)
  BY <1>1, FS_Surjection
<1> QED BY <1>2 DEF img

\* A set of numbers has a smallest one.
LEMMA SmallestNat ==
  ASSUME NEW S, S \subseteq Nat, S # {}
  PROVE  \E m \in S : \A i \in S : m <= i
<1>1. PICK m \in S : \A i \in S : <<i, m>> \notin OpToRel(<, Nat)
  BY NatLessThanWellFounded, WFMin, Zenon
<1>2. \A i \in S : ~(i < m)
  BY <1>1, Zenon DEF OpToRel
<1> QED BY <1>2

\* f[s] is base, with step applied for the elements of s one by one.
IsFold(f, step, base, D) ==
  f = [s \in SUBSET D |-> IF s = {} THEN base ELSE step[<<Pick(s), f[s \ {Pick(s)}]>>]]

LEMMA FoldRule ==
  ASSUME NEW f, NEW step, NEW base, NEW D, IsFold(f, step, base, D), NEW s \in SUBSET D
  PROVE  /\ s = {} => f[s] = base
         /\ s # {} => f[s] = step[<<Pick(s), f[s \ {Pick(s)}]>>]
<1>1. f[s] = IF s = {} THEN base ELSE step[<<Pick(s), f[s \ {Pick(s)}]>>]
  BY DEF IsFold
<1> QED BY <1>1

LEMMA FoldUnique ==
  ASSUME NEW D, IsFiniteSet(D), NEW E \in SUBSET D, NEW step, NEW base,
         NEW f, IsFold(f, step, base, D), NEW g, IsFold(g, step, base, E)
  PROVE  \A s \in SUBSET E : f[s] = g[s]
<1> DEFINE Bad == {u \in SUBSET E : f[u] # g[u]}
<1> SUFFICES ASSUME Bad # {} PROVE FALSE
  OBVIOUS
<1>1. PICK u \in Bad : \A v \in SUBSET u : v # u => v \notin Bad
  <2>1. IsFiniteSet(E) /\ Bad \in SUBSET (SUBSET E)
    BY FS_Subset
  <2> HIDE DEF Bad
  <2> QED BY <2>1, SmallestSubset
<1>2. u \in SUBSET E /\ u \in SUBSET D /\ f[u] # g[u]
  OBVIOUS
<1> HIDE DEF Bad
<1>3. u # {}
  <2>1. f[{}] = base
    BY DEF IsFold
  <2>2. g[{}] = base
    BY DEF IsFold
  <2> QED BY <1>2, <2>1, <2>2
<1> DEFINE v == u \ {Pick(u)}
<1>4. v \in SUBSET u /\ v # u
  BY <1>3, PickInSet
<1>5. f[v] = g[v]
  BY <1>1, <1>2, <1>4 DEF Bad
<1>6. f[u] = step[<<Pick(u), f[v]>>]
  BY <1>2, <1>3, FoldRule
<1>7. g[u] = step[<<Pick(u), g[v]>>]
  BY <1>2, <1>3, FoldRule
<1> QED BY <1>2, <1>5, <1>6, <1>7

\* A step from V to V can be folded over any finite set.
LEMMA FoldExists ==
  ASSUME NEW D, IsFiniteSet(D), NEW V, NEW base \in V, NEW step \in [D \X V -> V]
  PROVE  \E f \in [SUBSET D -> V] : IsFold(f, step, base, D)
<1> DEFINE Folds(f, E) == f \in [SUBSET E -> V] /\ IsFold(f, step, base, E)
           Bad == {E \in SUBSET D : ~ \E f : Folds(f, E)}
<1> SUFFICES ASSUME Bad # {} PROVE FALSE
  OBVIOUS
<1>1. PICK E \in Bad : \A u \in SUBSET E : u # E => u \notin Bad
  <2>1. Bad \in SUBSET (SUBSET D)
    OBVIOUS
  <2> HIDE DEF Bad
  <2> QED BY <2>1, SmallestSubset
<1>2. E \in SUBSET D /\ ~ \E f : Folds(f, E)
  OBVIOUS
<1> DEFINE F(u) == CHOOSE f : Folds(f, u)
           At(u) == IF u = {} THEN base ELSE F(u)[u]
           g == [s \in SUBSET E |-> IF s = {} THEN base
                                    ELSE step[<<Pick(s), At(s \ {Pick(s)})>>]]
<1>3. \A u \in SUBSET E : u # E => Folds(F(u), u)
  <2> SUFFICES ASSUME NEW u \in SUBSET E, u # E PROVE \E f : Folds(f, u)
    BY DEF F
  <2> QED BY <1>1, <1>2
<1> HIDE DEF F
<1>4. \A u \in SUBSET E : u # E => At(u) \in V
  <2> SUFFICES ASSUME NEW u \in SUBSET E, u # E, u # {} PROVE F(u)[u] \in V
    OBVIOUS
  <2> QED BY <1>3
<1>6. ASSUME NEW u \in SUBSET E, u # E, u # {}
      PROVE  At(u) = step[<<Pick(u), At(u \ {Pick(u)})>>]
  <2> DEFINE v == u \ {Pick(u)}
  <2>1. v \in SUBSET u /\ v \in SUBSET E /\ v # E /\ v \in SUBSET v /\ u \in SUBSET u
    BY <1>6, PickInSet
  <2>2. IsFold(F(u), step, base, u) /\ IsFold(F(v), step, base, v)
    BY <1>3, <1>6, <2>1
  <2>3. At(u) = step[<<Pick(u), F(u)[v]>>]
    BY <1>6, <2>1, <2>2, FoldRule
  <2>4. F(u)[v] = At(v)
    <3> HIDE DEF v
    <3>1. CASE v = {}
      <4>1. v \in SUBSET u /\ IsFold(F(u), step, base, u)
        BY <2>1, <2>2
      <4>2. F(u)[v] = base
        BY <3>1, <4>1, FoldRule
      <4> QED BY <3>1, <4>2
    <3>2. CASE v # {}
      <4>1. IsFiniteSet(u)
        BY <1>2, FS_Subset
      <4>2. \A s \in SUBSET v : F(u)[s] = F(v)[s]
        BY <2>1, <2>2, <4>1, FoldUnique
      <4> QED BY <2>1, <3>2, <4>2
    <3> QED BY <3>1, <3>2
  <2> QED BY <2>3, <2>4
<1>5. At({}) = base
  OBVIOUS
<1> HIDE DEF At
<1>7. \A s \in SUBSET E : s # {} =>
        /\ Pick(s) \in D
        /\ s \ {Pick(s)} \in SUBSET E /\ s \ {Pick(s)} # E
  BY <1>2, PickInSet
<1>8. \A s \in SUBSET E : g[s] = IF s = {} THEN base ELSE step[<<Pick(s), At(s \ {Pick(s)})>>]
  OBVIOUS
<1>9. g \in [SUBSET E -> V]
  BY <1>4, <1>7
<1>10. \A u \in SUBSET E : u # E => g[u] = At(u)
  BY <1>5, <1>6, <1>8
<1>11. IsFold(g, step, base, E)
  <2>1. \A s \in SUBSET E : g[s] = IF s = {} THEN base ELSE step[<<Pick(s), g[s \ {Pick(s)}]>>]
    BY <1>7, <1>8, <1>10
  <2> HIDE DEF g
  <2> QED BY <1>9, <2>1 DEF IsFold
<1> HIDE DEF g
<1> QED BY <1>2, <1>9, <1>11

\* <<x, y>> \in before: the keys of x put it before y.
WeakOrder(before, D) ==
  /\ \A x, y \in D : <<x, y>> \in before => <<y, x>> \notin before
  /\ \A x, y, z \in D : <<x, z>> \in before => <<x, y>> \in before \/ <<y, z>> \in before

\* x goes behind the rows of t that come before it.
Insertion(t, x, before) ==
  LET n == Cardinality({i \in DOMAIN t : <<t[i], x>> \in before})
  IN SubSeq(t, 1, n) \o <<x>> \o SubSeq(t, n + 1, Len(t))

\* t lists the rows S, each once and none behind one that comes after it.
InOrder(t, S, before) ==
  /\ t \in Seq(S) /\ Len(t) = Cardinality(S)
  /\ {t[i] : i \in DOMAIN t} = S
  /\ \A i, j \in DOMAIN t : i < j => t[i] # t[j] /\ <<t[j], t[i]>> \notin before

LEMMA InsertionIsSeq ==
  ASSUME NEW D, NEW t \in Seq(D), NEW x \in D, NEW before
  PROVE  /\ Cardinality({i \in DOMAIN t : <<t[i], x>> \in before}) \in 0 .. Len(t)
         /\ Insertion(t, x, before) \in Seq(D)
<1> DEFINE P == {i \in DOMAIN t : <<t[i], x>> \in before}
           n == Cardinality(P)
<1>1. n \in 0 .. Len(t)
  <2>1. P \in SUBSET (1 .. Len(t)) /\ Len(t) \in Nat
    OBVIOUS
  <2>2. IsFiniteSet(1 .. Len(t)) /\ Cardinality(1 .. Len(t)) = Len(t)
    BY <2>1, FS_Interval
  <2> HIDE DEF P
  <2>3. IsFiniteSet(P) /\ Cardinality(P) <= Cardinality(1 .. Len(t))
    BY <2>1, <2>2, FS_Subset
  <2>4. Cardinality(P) \in Nat
    BY <2>3, FS_CardinalityType
  <2> QED BY <2>1, <2>2, <2>3, <2>4
<1> HIDE DEF n
<1>2. /\ SubSeq(t, 1, n) \in Seq(D) /\ <<x>> \in Seq(D)
      /\ SubSeq(t, n + 1, Len(t)) \in Seq(D)
  BY <1>1
<1>3. SubSeq(t, 1, n) \o <<x>> \o SubSeq(t, n + 1, Len(t)) \in Seq(D)
  BY <1>2
<1> QED BY <1>1, <1>3 DEF Insertion, n

\* u is t with x after its first n rows.
InsertedAfter(u, t, x, n) ==
  /\ Len(u) = Len(t) + 1
  /\ u[n + 1] = x
  /\ \A i \in 1 .. n : u[i] = t[i]
  /\ \A i \in n + 1 .. Len(t) : u[i + 1] = t[i]

LEMMA InsertionAt ==
  ASSUME NEW D, NEW t \in Seq(D), NEW x \in D, NEW n \in 0 .. Len(t), NEW u,
         u = SubSeq(t, 1, n) \o <<x>> \o SubSeq(t, n + 1, Len(t))
  PROVE  u \in Seq(D) /\ InsertedAfter(u, t, x, n)
<1> DEFINE a == SubSeq(t, 1, n)
           c == SubSeq(t, n + 1, Len(t))
<1>1. /\ a \in Seq(D) /\ Len(a) = n /\ \A i \in 1 .. n : a[i] = t[i]
  OBVIOUS
<1>2. /\ c \in Seq(D) /\ Len(c) = Len(t) - n /\ \A i \in 1 .. Len(t) - n : c[i] = t[n + i]
  OBVIOUS
<1> HIDE DEF a, c
<1>3. /\ a \o <<x>> \in Seq(D) /\ Len(a \o <<x>>) = n + 1 /\ (a \o <<x>>)[n + 1] = x
      /\ \A i \in 1 .. n : (a \o <<x>>)[i] = t[i]
  BY <1>1
<1> DEFINE d == a \o <<x>>
<1> HIDE DEF d
<1>4. d \in Seq(D) /\ Len(d) = n + 1 /\ d[n + 1] = x /\ \A i \in 1 .. n : d[i] = t[i]
  BY <1>3 DEF d
<1>5. /\ d \o c \in Seq(D) /\ Len(d \o c) = Len(t) + 1
      /\ \A i \in 1 .. n + 1 : (d \o c)[i] = d[i]
      /\ \A i \in n + 1 .. Len(t) : (d \o c)[i + 1] = c[i - n]
  BY <1>2, <1>4
<1>6. \A i \in n + 1 .. Len(t) : c[i - n] = t[i]
  BY <1>2
<1>7. u = d \o c
  BY DEF a, c, d
<1>8. /\ u \in Seq(D) /\ Len(u) = Len(t) + 1 /\ u[n + 1] = x
      /\ \A i \in 1 .. n : u[i] = t[i]
      /\ \A i \in n + 1 .. Len(t) : u[i + 1] = t[i]
  <2>1. n \in Nat /\ Len(t) \in Nat
    OBVIOUS
  <2>2. u \in Seq(D) /\ Len(u) = Len(t) + 1
    BY <1>5, <1>7
  <2>3. \A i \in 1 .. n + 1 : u[i] = d[i]
    BY <1>5, <1>7
  <2>4. \A i \in n + 1 .. Len(t) : u[i + 1] = t[i]
    BY <1>5, <1>6, <1>7
  <2>5. n + 1 \in 1 .. n + 1 /\ \A i \in 1 .. n : i \in 1 .. n + 1
    BY <2>1
  <2>6. u[n + 1] = x
    BY <1>4, <2>3, <2>5, Zenon
  <2>7. \A i \in 1 .. n : u[i] = t[i]
    BY <1>4, <2>3, <2>5, Zenon
  <2> QED BY <2>2, <2>4, <2>6, <2>7, Zenon
<1> QED BY <1>8, Zenon DEF InsertedAfter

\* A row inserted into a list keeps the list in order.
LEMMA InsertKeepsOrder ==
  ASSUME NEW D, NEW before, WeakOrder(before, D),
         NEW S \in SUBSET D, IsFiniteSet(S), NEW t, InOrder(t, S, before),
         NEW x \in D, x \notin S
  PROVE  InOrder(Insertion(t, x, before), S \cup {x}, before)
<1> DEFINE P == {i \in DOMAIN t : <<t[i], x>> \in before}
           n == Cardinality(P)
           u == Insertion(t, x, before)
<1>0. /\ t \in Seq(S) /\ t \in Seq(D) /\ Len(t) = Cardinality(S) /\ Len(t) \in Nat
      /\ {t[i] : i \in DOMAIN t} = S /\ DOMAIN t = 1 .. Len(t)
      /\ \A i, j \in DOMAIN t : i < j => t[i] # t[j] /\ <<t[j], t[i]>> \notin before
  BY DEF InOrder
<1>1. \A i \in 1 .. Len(t) : t[i] \in S /\ t[i] \in D /\ t[i] # x
  BY <1>0
<1>2. n \in 0 .. Len(t)
  <2>1. t \in Seq(D)
    BY <1>0
  <2>2. Cardinality({i \in DOMAIN t : <<t[i], x>> \in before}) \in 0 .. Len(t)
    BY <2>1, InsertionIsSeq
  <2> QED BY <2>2
\* The rows before x are the first ones of t.
<1>3. \A i \in 1 .. Len(t) : i \in P <=> i <= n
  <2>1. \A i, j \in 1 .. Len(t) : i < j /\ j \in P => i \in P
    <3> SUFFICES ASSUME NEW i \in 1 .. Len(t), NEW j \in 1 .. Len(t), i < j, j \in P
                 PROVE  i \in P
      OBVIOUS
    <3>1. <<t[j], x>> \in before /\ <<t[j], t[i]>> \notin before
      BY <1>0
    <3>2. t[j] \in D /\ t[i] \in D
      BY <1>1
    <3>3. <<t[i], x>> \in before
      BY <3>1, <3>2 DEF WeakOrder
    <3> QED BY <1>0, <3>3
  <2>2. P \in SUBSET (1 .. Len(t))
    BY <1>0
  <2> HIDE DEF P
  <2>3. \E k \in 0 .. Len(t) : P = 1 .. k
    <3>1. CASE P = {}
      BY <1>0, <3>1
    <3>2. CASE P # {}
      <4>1. PICK k \in P : \A i \in P : i <= k
        <5> DEFINE Up == {m \in Nat : \A i \in P : i <= m}
        <5>1. Len(t) \in Up
          BY <1>0, <2>2
        <5>2. \E m \in Up : \A i \in Up : m <= i
          <6>1. Up \subseteq Nat /\ Up # {}
            BY <5>1
          <6> HIDE DEF Up
          <6> QED BY <6>1, SmallestNat
        <5>3. PICK m \in Up : \A i \in Up : m <= i
          BY <5>2
        <5>4. m \in P
          <6> SUFFICES ASSUME m \notin P PROVE FALSE
            OBVIOUS
          <6>1. m \in Nat /\ \A i \in P : i <= m /\ i # m /\ i \in Nat /\ i > 0
            BY <2>2
          <6>2. PICK i \in P : TRUE
            BY <3>2
          <6>3. m - 1 \in Up
            BY <6>1, <6>2
          <6> QED BY <5>3, <6>1, <6>3
        <5> QED BY <5>4
      <4>2. P = 1 .. k
        <5>1. k \in 1 .. Len(t) /\ Len(t) \in Nat
          BY <1>0, <2>2, <4>1
        <5>2. ASSUME NEW i \in 1 .. k PROVE i \in P
          BY <2>1, <4>1, <5>1
        <5>3. ASSUME NEW i \in P PROVE i \in 1 .. k
          BY <2>2, <4>1, <5>1
        <5> QED BY <5>2, <5>3
      <4> QED BY <1>0, <2>2, <4>1, <4>2
    <3> QED BY <3>1, <3>2
  <2>4. PICK k \in 0 .. Len(t) : P = 1 .. k
    BY <2>3
  <2>5. Cardinality(P) = k
    BY <2>4, FS_Interval
  <2> QED BY <2>4, <2>5
<1>4. /\ u \in Seq(D) /\ Len(u) = Len(t) + 1 /\ u[n + 1] = x
      /\ \A i \in 1 .. n : u[i] = t[i]
      /\ \A i \in n + 1 .. Len(t) : u[i + 1] = t[i]
  <2> HIDE DEF n
  <2>1. u = SubSeq(t, 1, n) \o <<x>> \o SubSeq(t, n + 1, Len(t))
    BY DEF Insertion, n
  <2> HIDE DEF u
  <2>2. t \in Seq(D)
    BY <1>0
  <2>3. u \in Seq(D) /\ InsertedAfter(u, t, x, n)
    BY <1>2, <2>1, <2>2, InsertionAt, Zenon
  <2> QED BY <2>3, Zenon DEF InsertedAfter
<1> HIDE DEF u, n
<1> DEFINE Old(i) == IF i <= n THEN i ELSE i - 1
<1>5. \A i \in 1 .. Len(t) + 1 : i # n + 1 => u[i] = t[Old(i)] /\ Old(i) \in 1 .. Len(t)
  <2> SUFFICES ASSUME NEW i \in 1 .. Len(t) + 1, i # n + 1
               PROVE  u[i] = t[Old(i)] /\ Old(i) \in 1 .. Len(t)
    OBVIOUS
  <2>1. CASE i <= n
    BY <1>0, <1>2, <1>4, <2>1
  <2>2. CASE i > n
    <3>1. i - 1 \in n + 1 .. Len(t) /\ (i - 1) + 1 = i
      BY <1>0, <1>2, <2>2
    <3> QED BY <1>0, <1>2, <1>4, <2>2, <3>1
  <2> QED BY <1>0, <1>2, <2>1, <2>2
<1>6. DOMAIN u = 1 .. Len(t) + 1
  BY <1>0, <1>4
<1>7. {u[i] : i \in DOMAIN u} = S \cup {x}
  <2>1. ASSUME NEW i \in DOMAIN u PROVE u[i] \in S \cup {x}
    BY <1>1, <1>4, <1>5, <1>6
  <2>2. ASSUME NEW y \in S \cup {x} PROVE \E i \in DOMAIN u : u[i] = y
    <3>1. CASE y = x
      <4>1. n + 1 \in 1 .. Len(t) + 1
        BY <1>0, <1>2
      <4> QED BY <1>4, <1>6, <3>1, <4>1
    <3>2. CASE y \in S
      <4>1. PICK i \in 1 .. Len(t) : t[i] = y
        BY <1>0, <3>2
      <4>2. CASE i <= n
        <5>1. i \in 1 .. n /\ i \in 1 .. Len(t) + 1
          BY <1>0, <1>2, <4>1, <4>2
        <5> QED BY <1>4, <1>6, <4>1, <5>1
      <4>3. CASE i > n
        <5>1. i \in n + 1 .. Len(t) /\ i + 1 \in 1 .. Len(t) + 1
          BY <1>0, <1>2, <4>1, <4>3
        <5> QED BY <1>4, <1>6, <4>1, <5>1
      <4> QED BY <1>0, <1>2, <4>1, <4>2, <4>3
    <3> QED BY <3>1, <3>2
  <2> QED BY <2>1, <2>2
<1>8. Len(u) = Cardinality(S \cup {x})
  <2>1. Cardinality(S \cup {x}) = Cardinality(S) + 1
    BY FS_AddElement
  <2> QED BY <1>0, <1>4, <2>1
<1>9. u \in Seq(S \cup {x})
  <2>1. \A i \in 1 .. Len(u) : u[i] \in S \cup {x}
    BY <1>4, <1>6, <1>7
  <2>2. Len(u) \in Nat /\ u \in Seq(D)
    BY <1>4
  <2> QED BY <2>1, <2>2
<1>10. ASSUME NEW i \in DOMAIN u, NEW j \in DOMAIN u, i < j
       PROVE  u[i] # u[j] /\ <<u[j], u[i]>> \notin before
  <2>0. i \in 1 .. Len(t) + 1 /\ j \in 1 .. Len(t) + 1 /\ n \in Nat /\ Len(t) \in Nat
    BY <1>0, <1>2, <1>6
  <2>1. CASE i = n + 1
    <3>1. u[i] = x /\ u[j] = t[Old(j)] /\ Old(j) \in 1 .. Len(t) /\ Old(j) = j - 1 /\ Old(j) > n
      BY <1>4, <1>5, <1>10, <2>0, <2>1
    <3>2. Old(j) \notin P
      BY <1>3, <2>0, <3>1
    <3> QED BY <1>0, <1>1, <3>1, <3>2
  <2>2. CASE j = n + 1
    <3>1. u[j] = x /\ u[i] = t[i] /\ i \in 1 .. Len(t) /\ i <= n
      BY <1>2, <1>4, <1>10, <2>0, <2>2
    <3>2. <<t[i], x>> \in before
      BY <1>3, <3>1
    <3>3. t[i] \in D /\ t[i] # x
      BY <1>1, <3>1
    <3>4. <<x, t[i]>> \notin before
      BY <3>2, <3>3 DEF WeakOrder
    <3> QED BY <3>1, <3>3, <3>4
  <2>3. CASE i # n + 1 /\ j # n + 1
    <3>1. /\ u[i] = t[Old(i)] /\ Old(i) \in 1 .. Len(t)
          /\ u[j] = t[Old(j)] /\ Old(j) \in 1 .. Len(t)
      BY <1>5, <2>0, <2>3
    <3>2. Old(i) < Old(j)
      BY <1>10, <2>0, <2>3
    <3> HIDE DEF Old
    <3> QED BY <1>0, <3>1, <3>2
  <2> QED BY <2>1, <2>2, <2>3
<1> QED BY <1>7, <1>8, <1>9, <1>10 DEF InOrder, u

\* g lists every set of rows of D, by inserting them one by one.
Sorts(g, before, D) ==
  /\ g[{}] = <<>>
  /\ \A s \in SUBSET D :
       s # {} /\ g[s \ {Pick(s)}] \in Seq(D)
         => g[s] = Insertion(g[s \ {Pick(s)}], Pick(s), before)

LEMMA SortedList ==
  ASSUME NEW D, IsFiniteSet(D), NEW before, WeakOrder(before, D), NEW g, Sorts(g, before, D)
  PROVE  InOrder(g[D], D, before)
<1> DEFINE Bad == {s \in SUBSET D : ~InOrder(g[s], s, before)}
<1> SUFFICES ASSUME Bad # {} PROVE FALSE
  OBVIOUS
<1>1. PICK s \in Bad : \A u \in SUBSET s : u # s => u \notin Bad
  <2>1. Bad \in SUBSET (SUBSET D)
    OBVIOUS
  <2> HIDE DEF Bad
  <2> QED BY <2>1, SmallestSubset
<1>2. s \in SUBSET D /\ ~InOrder(g[s], s, before)
  OBVIOUS
<1>3. s # {}
  <2> SUFFICES ASSUME s = {} PROVE FALSE
    OBVIOUS
  <2>1. g[s] = <<>>
    BY DEF Sorts
  <2>2. <<>> \in Seq({}) /\ Len(<<>>) = 0 /\ DOMAIN <<>> = {}
    OBVIOUS
  <2>3. InOrder(<<>>, {}, before)
    BY <2>2, FS_EmptySet DEF InOrder
  <2> QED BY <1>2, <2>1, <2>3
<1> DEFINE p == Pick(s)
           v == s \ {p}
<1>4. p \in s /\ p \in D /\ v \in SUBSET s /\ v # s /\ v \in SUBSET D /\ p \notin v /\ s = v \cup {p}
  BY <1>2, <1>3, PickInSet
<1>5. InOrder(g[v], v, before)
  BY <1>1, <1>4
<1>6. g[v] \in Seq(D)
  <2>1. g[v] \in Seq(v)
    BY <1>5 DEF InOrder
  <2> HIDE DEF v
  <2> QED BY <1>4, <2>1
<1>7. g[s] = Insertion(g[v], p, before)
  BY <1>2, <1>3, <1>6 DEF Sorts
<1> HIDE DEF Bad, p, v
<1>8. IsFiniteSet(v)
  BY <1>4, FS_Subset
<1>9. InOrder(Insertion(g[v], p, before), v \cup {p}, before)
  BY <1>4, <1>5, <1>8, InsertKeepsOrder
<1> QED BY <1>2, <1>4, <1>7, <1>9

Listing(f, before, D) ==
  /\ f \in [SUBSET D -> Seq(D)]
  /\ f = [s \in SUBSET D |-> IF s = {} THEN <<>>
                               ELSE Insertion(f[s \ {Pick(s)}], Pick(s), before)]

LEMMA SortExists ==
  ASSUME NEW D, IsFiniteSet(D), NEW before
  PROVE  \E f : Listing(f, before, D)
<1> DEFINE step == [q \in D \X Seq(D) |-> Insertion(q[2], q[1], before)]
<1>1. step \in [D \X Seq(D) -> Seq(D)]
  <2>1. \A q \in D \X Seq(D) : q[1] \in D /\ q[2] \in Seq(D)
    OBVIOUS
  <2>2. \A q \in D \X Seq(D) : Insertion(q[2], q[1], before) \in Seq(D)
    BY <2>1, InsertionIsSeq
  <2> QED BY <2>2
<1>2. <<>> \in Seq(D)
  OBVIOUS
<1>3. \E f \in [SUBSET D -> Seq(D)] : IsFold(f, step, <<>>, D)
  <2> HIDE DEF step
  <2> QED BY <1>1, <1>2, FoldExists
<1>4. PICK f \in [SUBSET D -> Seq(D)] : IsFold(f, step, <<>>, D)
  BY <1>3
<1>5. \A s \in SUBSET D : s # {} =>
        step[<<Pick(s), f[s \ {Pick(s)}]>>] = Insertion(f[s \ {Pick(s)}], Pick(s), before)
  <2> SUFFICES ASSUME NEW s \in SUBSET D, s # {}
               PROVE  step[<<Pick(s), f[s \ {Pick(s)}]>>] = Insertion(f[s \ {Pick(s)}], Pick(s), before)
    OBVIOUS
  <2>1. Pick(s) \in D /\ f[s \ {Pick(s)}] \in Seq(D)
    BY PickInSet
  <2> QED BY <2>1
<1>6. \A s \in SUBSET D : f[s] = IF s = {} THEN <<>>
                                 ELSE Insertion(f[s \ {Pick(s)}], Pick(s), before)
  <2> HIDE DEF step
  <2>1. f = [s \in SUBSET D |-> IF s = {} THEN <<>> ELSE step[<<Pick(s), f[s \ {Pick(s)}]>>]]
    BY <1>4 DEF IsFold
  <2>2. \A s \in SUBSET D : f[s] = IF s = {} THEN <<>> ELSE step[<<Pick(s), f[s \ {Pick(s)}]>>]
    BY <2>1
  <2> QED BY <1>5, <2>2
<1>7. f = [s \in SUBSET D |-> IF s = {} THEN <<>>
                              ELSE Insertion(f[s \ {Pick(s)}], Pick(s), before)]
  BY <1>6
<1> QED BY <1>4, <1>7 DEF Listing

-----------------------------------------------------------------------------
(* Rows of table txs, and how many of them a set of blocks has. *)

\* A finite set of blocks has finitely many transactions.
LEMMA TxRowsFinite ==
  ASSUME NEW B \in SUBSET Block, IsFiniteSet(B)
  PROVE  IsFiniteSet(TxRows(B)) /\ Cardinality(TxRows(B)) \in Nat
<1>1. \A b \in B : IsFiniteSet({b} \X TxsOf[b])
  BY FS_Product, FS_Singleton, TxAssumption
<1> DEFINE f == [b \in B |-> {b} \X TxsOf[b]]
           F == {{b} \X TxsOf[b] : b \in B}
<1>2. IsFiniteSet(F)
  <2>1. f \in Surjection(B, F)
    BY DEF Surjection
  <2> QED BY <2>1, FS_Surjection
<1>3. IsFiniteSet(UNION F)
  BY <1>1, <1>2, FS_UNION
<1>4. TxRows(B) \subseteq UNION F
  BY TxAssumption DEF TxRows
<1> QED BY <1>3, <1>4, FS_Subset, FS_CardinalityType

-----------------------------------------------------------------------------
(* Type correctness. *)

\* The tables never hold more than finitely many blocks: tx_count stays a
\* number.
TypeInv == TypeOK /\ IsFiniteSet(blocks)

LEMMA FlipsStored ==
  ASSUME TypeOK, NEW t \in Table, NEW i
  PROVE  FlippedRows(t, i) \subseteq blocks
BY DEF FlippedRows, RowsAt, TypeOK

\* markEntitiesCanonical keeps the type of the tables.
LEMMA MarkType ==
  ASSUME TypeOK, NEW rs \in [Table -> SUBSET blocks], NEW i,
         NEW flag \in BOOLEAN
  PROVE  MarkEntitiesCanonical(rs, i, flag) \in [Table -> SUBSET blocks]
BY FlipsStored DEF MarkEntitiesCanonical

\* The number of transactions of a set of stored blocks is a number.
LEMMA TxCountType ==
  ASSUME TypeInv, NEW B \in SUBSET blocks
  PROVE  Cardinality(TxRows(B)) \in Nat
<1>1. B \in SUBSET Block /\ IsFiniteSet(B)
  BY FS_Subset DEF TypeInv, TypeOK
<1> QED BY <1>1, TxRowsFinite

LEMMA TxsIsTable == "txs" \in Table /\ "subdomains" \in Table
BY DEF Table, InsertTables, BootTables

\* One level of restoreOrphanedChain keeps the types.
LEMMA RestoreType == TypeInv /\ RestoreOrphanedChain => TypeInv'
<1> SUFFICES ASSUME TypeInv, RestoreOrphanedChain PROVE TypeInv'
  OBVIOUS
<1> USE BlockAssumption
<1> DEFINE c == job.cursor
           orphans == OrphanedBy(c)
           demoted == RowsWithout(orphans)
           promoted == MarkEntitiesCanonical(demoted, c, TRUE)
           stays == (work.canonical \cup {c}) \ orphans
           up == promoted["txs"] \ demoted["txs"]
           down == work.rows["txs"] \ demoted["txs"]
<1>1. /\ c \in blocks \ work.canonical
      /\ work' = [canonical |-> stays, rows |-> promoted,
                  tx_count |-> (work.tx_count + Cardinality(TxRows(up)))
                                  - Cardinality(TxRows(down))]
      /\ job' = [job EXCEPT
                  !.phase = IF NextCursor(c, stays) = NoBlock THEN "insert" ELSE @,
                  !.cursor = NextCursor(c, stays)]
      /\ UNCHANGED dbVars
  BY DEF RestoreOrphanedChain
<1>2. demoted \in [Table -> SUBSET blocks]
  BY MarkType DEF RowsWithout, TypeInv, TypeOK
<1>3. promoted \in [Table -> SUBSET blocks]
  BY <1>2, MarkType DEF TypeInv
<1>4. Cardinality(TxRows(up)) \in Nat /\ Cardinality(TxRows(down)) \in Nat
  <2>1. up \in SUBSET blocks /\ down \in SUBSET blocks
    BY <1>2, <1>3, TxsIsTable DEF TypeInv, TypeOK
  <2> QED BY <2>1, TxCountType
<1>5. stays \in SUBSET blocks
  BY <1>1 DEF TypeInv, TypeOK
<1>6. NextCursor(c, stays) \in Block \cup {NoBlock}
  BY DEF NextCursor, TypeInv, TypeOK
<1> HIDE DEF c, orphans, demoted, promoted, stays, up, down
<1>7. work' \in [canonical : SUBSET blocks, rows : [Table -> SUBSET blocks],
                 tx_count : Int]
  BY <1>1, <1>3, <1>4, <1>5 DEF TypeInv, TypeOK
<1>8. job' \in [phase : {"idle", "restore", "insert"},
                block : Block \cup {NoBlock}, cursor : Block \cup {NoBlock}]
  BY <1>1, <1>6 DEF TypeInv, TypeOK
<1>9. job'.phase # "idle" => job'.block \in Block
  BY <1>1 DEF TypeInv, TypeOK, RestoreOrphanedChain
<1> QED BY <1>1, <1>7, <1>8, <1>9 DEF TypeInv, TypeOK, dbVars

\* The end of update() keeps the types.
LEMMA CommitType == TypeInv /\ CommitUpdate => TypeInv'
<1> SUFFICES ASSUME TypeInv, CommitUpdate PROVE TypeInv'
  OBVIOUS
<1> USE BlockAssumption
<1> DEFINE b == job.block
<1>1. /\ job.phase = "insert"
      /\ b \in Block
      /\ blocks' = blocks \cup {b}
      /\ canonical' = NewCanonical(b)
      /\ rows' = NewRows(b)
      /\ tip' = NewTip(b)
      /\ boot' = IF FixesBlockZero(b) THEN b ELSE boot
      /\ work' = [canonical |-> NewCanonical(b), rows |-> NewRows(b),
                  tx_count |-> NewTip(b).tx_count]
      /\ job' = Idle
      /\ attached' = attached
  BY DEF CommitUpdate, TypeInv, TypeOK
<1>2. IsFiniteSet(blocks')
  BY <1>1, FS_AddElement DEF TypeInv
<1>3. NewCanonical(b) \in SUBSET blocks'
  BY <1>1 DEF NewCanonical, TypeInv, TypeOK
<1>4. NewRows(b) \in [Table -> SUBSET blocks']
  <2>1. FixBlockZeroData(work.rows) \in [Table -> SUBSET blocks]
    BY DEF FixBlockZeroData, RowsAt, TypeInv, TypeOK
  <2>2. work.rows \in [Table -> SUBSET blocks]
    BY DEF TypeInv, TypeOK
  <2> QED BY <1>1, <2>1, <2>2 DEF NewRows, InsertBlockRows
<1>5. NewTip(b) \in [block : Block \cup {NoBlock}, height : Nat, tx_count : Int]
  <2>1. Cardinality(TxRows({b})) \in Nat
    BY <1>1, FS_Singleton, TxRowsFinite
  <2> QED BY <1>1, <2>1 DEF NewTip, TypeInv, TypeOK
<1> HIDE DEF b
<1>6. work' \in [canonical : SUBSET blocks', rows : [Table -> SUBSET blocks'],
                 tx_count : Int]
  BY <1>1, <1>3, <1>4, <1>5
<1>7. boot' \in Block /\ attached' \subseteq blocks' /\ blocks' \subseteq Block
  BY <1>1 DEF TypeInv, TypeOK
<1>8. /\ job' \in [phase : {"idle", "restore", "insert"},
                   block : Block \cup {NoBlock}, cursor : Block \cup {NoBlock}]
      /\ job'.phase = "idle"
  BY <1>1 DEF Idle
<1> QED BY <1>1, <1>2, <1>3, <1>4, <1>5, <1>6, <1>7, <1>8 DEF TypeInv, TypeOK

\* TypeInv is inductive.
LEMMA TypeStep == TypeInv /\ [Next]_vars => TypeInv'
<1> SUFFICES ASSUME TypeInv, [Next]_vars PROVE TypeInv'
  OBVIOUS
<1> USE BlockAssumption
<1>1. ASSUME NEW b \in Block, BeginUpdate(b) PROVE TypeInv'
  BY <1>1 DEF BeginUpdate, BuildsOnOrphan, TypeInv, TypeOK
<1>2. CASE RestoreOrphanedChain
  BY <1>2, RestoreType
<1>3. CASE CommitUpdate
  BY <1>3, CommitType
<1>4. CASE AbortUpdate
  BY <1>4 DEF AbortUpdate, Idle, Committed, dbVars, TypeInv, TypeOK
<1>5. ASSUME NEW b \in Block, UpdateAttachments(b) PROVE TypeInv'
  BY <1>5, TxsIsTable DEF UpdateAttachments, AttachmentTxFound, TypeInv, TypeOK
<1>6. CASE UNCHANGED vars
  BY <1>6 DEF vars, TypeInv, TypeOK
<1> QED BY <1>1, <1>2, <1>3, <1>4, <1>5, <1>6 DEF Next

\* The tables keep their types under every sequence of block announcements,
\* attachments and rolled back transactions: every canonical row belongs to a
\* block the store holds.
THEOREM TypeCorrect == Spec => []TypeOK
<1>1. Init => TypeInv
  BY BlockAssumption, FS_EmptySet DEF Init, TypeInv, TypeOK, Idle, Committed
<1>2. TypeInv => TypeOK
  BY DEF TypeInv
<1> QED BY <1>1, <1>2, TypeStep, PTL DEF Spec

-----------------------------------------------------------------------------
(* The canonical rows are one chain. *)

\* What the open transaction has turned S, its view of the canonical blocks,
\* into: no height twice, nothing above the tip, and every parent there,
\* except that at the height above the cursor the parent is the cursor, the
\* block restoreOrphanedChain handles next.
PartialChain(S, extra, c) ==
  /\ \A x \in S : Height[x] <= tip.height
  /\ \A x, y \in S : Height[x] = Height[y] => x = y
  /\ \A x \in S \cup extra : Height[x] > 1 =>
       IF c # NoBlock /\ Height[x] = Height[c] + 1 THEN Parent[x] = c
                                                  ELSE Parent[x] \in S

\* The open call of update(), by phase.
JobInv ==
  /\ job.phase = "idle" => job = Idle /\ work = Committed
  /\ job.phase # "idle" =>
       (Height[job.block] > 1 => Parent[job.block] \in blocks)
  /\ job.phase # "idle" /\ ~IsCanonical(job.block) =>
       job.phase = "insert" /\ work = Committed
  /\ job.phase = "insert" /\ IsCanonical(job.block) =>
       PartialChain(work.canonical, {job.block}, NoBlock)
  /\ job.phase = "restore" =>
       /\ job.cursor \in blocks \ work.canonical
       /\ Height[job.cursor] < Height[job.block]
       /\ PartialChain(work.canonical, {job.block}, job.cursor)

\* The stored blocks are a tree below the tip.
StoredInv ==
  /\ \A x \in blocks : Height[x] <= tip.height
  /\ \A x \in blocks : Height[x] > 1 => Parent[x] \in blocks

ChainInv == TypeInv /\ CanonicalIsOneChain /\ StoredInv /\ JobInv

\* The committed chain, seen as a partial one with nothing missing.
LEMMA CommittedIsPartial ==
  ASSUME TypeInv, CanonicalIsOneChain
  PROVE  PartialChain(canonical, {}, NoBlock)
BY BlockAssumption
   DEF TypeInv, TypeOK, CanonicalIsOneChain, IsChainTo, PartialChain

\* A block above the tip is exactly one above it, and is not stored.
LEMMA AboveTip ==
  ASSUME TypeInv, StoredInv, NEW b \in Block, IsCanonical(b),
         Height[b] > 1 => Parent[b] \in blocks
  PROVE  Height[b] = tip.height + 1 /\ b \notin blocks
<1> USE BlockAssumption DEF TypeInv, TypeOK, StoredInv, IsCanonical
<1>1. b \notin blocks
  OBVIOUS
<1>2. CASE Height[b] > 1
  <2>1. b # Genesis
    BY <1>2
  <2>2. Height[Parent[b]] <= tip.height /\ Height[b] = Height[Parent[b]] + 1
    BY <1>2, <2>1
  <2> QED BY <1>1, <2>2
<1>3. CASE ~(Height[b] > 1)
  BY <1>1, <1>3
<1> QED BY <1>2, <1>3

LEMMA BeginChain ==
  ASSUME ChainInv, NEW b \in Block, BeginUpdate(b)
  PROVE  ChainInv'
<1> USE BlockAssumption
<1>1. TypeInv'
  BY TypeStep DEF ChainInv, Next
<1>2. /\ UNCHANGED <<blocks, canonical, rows, attached, boot, tip, work>>
      /\ work = Committed
      /\ Height[b] > 1 => Parent[b] \in blocks
      /\ job' = IF BuildsOnOrphan(b)
                  THEN [phase |-> "restore", block |-> b, cursor |-> Parent[b]]
                  ELSE [phase |-> "insert", block |-> b, cursor |-> NoBlock]
  BY DEF BeginUpdate, ChainInv, JobInv
<1>3. CanonicalIsOneChain' /\ StoredInv'
  BY <1>2 DEF ChainInv, CanonicalIsOneChain, IsChainTo, StoredInv
<1>4. PartialChain(canonical, {}, NoBlock) /\ work.canonical = canonical
  BY <1>2, CommittedIsPartial DEF ChainInv, Committed
<1>5. CASE BuildsOnOrphan(b)
  <2>1. /\ Height[b] > 1
        /\ b # Genesis
        /\ Parent[b] \in blocks \ work.canonical
        /\ Height[b] = Height[Parent[b]] + 1
        /\ Height[b] = tip.height + 1
    BY <1>2, <1>4, <1>5, AboveTip DEF BuildsOnOrphan, ChainInv
  <2>2. PartialChain(work.canonical, {b}, Parent[b])
    BY <1>4, <2>1 DEF PartialChain, ChainInv, TypeInv, TypeOK
  <2>3. PartialChain(work.canonical, {b}, Parent[b])'
    BY <1>2, <2>2 DEF PartialChain
  <2>4. JobInv'
    BY <1>2, <1>5, <2>1, <2>3
    DEF JobInv, IsCanonical, BuildsOnOrphan, ChainInv, TypeInv, TypeOK
  <2> QED BY <1>1, <1>3, <2>4 DEF ChainInv
<1>6. CASE ~BuildsOnOrphan(b)
  <2>1. IsCanonical(b) => PartialChain(work.canonical, {b}, NoBlock)
    BY <1>4, <1>6 DEF PartialChain, BuildsOnOrphan
  <2>2. IsCanonical(b) => PartialChain(work.canonical, {b}, NoBlock)'
    BY <1>2, <2>1 DEF PartialChain
  <2>3. JobInv'
    BY <1>2, <1>6, <2>2 DEF JobInv, IsCanonical, Committed
  <2> QED BY <1>1, <1>3, <2>3 DEF ChainInv
<1> QED BY <1>5, <1>6

LEMMA RestoreChain ==
  ASSUME ChainInv, RestoreOrphanedChain
  PROVE  ChainInv'
<1> USE BlockAssumption
<1>1. TypeInv'
  BY RestoreType DEF ChainInv
<1> DEFINE b == job.block
           c == job.cursor
           orphans == OrphanedBy(c)
           stays == (work.canonical \cup {c}) \ orphans
           next == NextCursor(c, stays)
<1>2. /\ job.phase = "restore"
      /\ c \in blocks \ work.canonical
      /\ work'.canonical = stays
      /\ job' = [job EXCEPT !.phase = IF next = NoBlock THEN "insert" ELSE @,
                            !.cursor = next]
      /\ UNCHANGED dbVars
  BY DEF RestoreOrphanedChain
<1>3. CanonicalIsOneChain' /\ StoredInv'
  BY <1>2 DEF ChainInv, CanonicalIsOneChain, IsChainTo, StoredInv, dbVars
<1>4. /\ b \in Block /\ c \in Block /\ work.canonical \subseteq Block
      /\ Height[b] \in Nat /\ Height[c] \in Nat
      /\ tip.height \in Nat
      /\ Height[c] < Height[b]
      /\ IsCanonical(b)
      /\ Height[b] > 1 => Parent[b] \in blocks
      /\ PartialChain(work.canonical, {b}, c)
  BY <1>2 DEF ChainInv, JobInv, TypeInv, TypeOK
<1>5. stays = {x \in work.canonical : Height[x] # Height[c]} \cup {c}
  BY <1>2 DEF OrphanedBy
<1>6. Height[c] > 1 => Parent[c] \in blocks
  BY <1>2 DEF ChainInv, StoredInv
<1>7. /\ Height[b] = tip.height + 1
      /\ Height[c] <= tip.height
  BY <1>2, <1>4, AboveTip DEF ChainInv, StoredInv
<1>8. /\ \A x \in stays : Height[x] <= tip.height
      /\ \A x, y \in stays : Height[x] = Height[y] => x = y
  BY <1>4, <1>5, <1>7 DEF PartialChain
<1>9. \A x \in stays \cup {b} : x \in Block /\ (x # c => x \in work.canonical \cup {b})
  BY <1>4, <1>5
<1>10. ASSUME NEW x \in stays \cup {b}, Height[x] > 1, x # c
       PROVE  Parent[x] \in stays
  <2>1. CASE Height[x] = Height[c] + 1
    BY <1>2, <1>4, <1>5, <1>9, <1>10, <2>1 DEF PartialChain
  <2>2. CASE Height[x] # Height[c] + 1
    <3>1. Parent[x] \in work.canonical
      BY <1>2, <1>4, <1>9, <1>10, <2>2 DEF PartialChain
    <3>2. Height[Parent[x]] # Height[c]
      BY <1>4, <1>9, <1>10, <2>2, <3>1
    <3> QED BY <1>5, <3>1, <3>2
  <2> QED BY <2>1, <2>2
<1>11. CASE next = NoBlock
  <2>1. Height[c] > 1 => Parent[c] \in stays
    BY <1>6, <1>11 DEF NextCursor, ChainInv, TypeInv, TypeOK
  <2>2. PartialChain(stays, {b}, NoBlock)
    <3> HIDE DEF stays
    <3> QED BY <1>8, <1>10, <2>1 DEF PartialChain
  <2>3. PartialChain(work.canonical, {b}, NoBlock)'
    BY <1>2, <2>2 DEF PartialChain, dbVars
  <2>4. JobInv'
    BY <1>2, <1>4, <1>11, <2>3
    DEF JobInv, IsCanonical, dbVars, ChainInv, TypeInv, TypeOK
  <2> QED BY <1>1, <1>3, <2>4 DEF ChainInv
<1>12. CASE next # NoBlock
  <2>1. next = Parent[c] /\ next \in blocks \ stays
    BY <1>12 DEF NextCursor
  <2>2. /\ next \in Block /\ c # Genesis
        /\ Height[c] = Height[next] + 1 /\ Height[next] \in Nat
    BY <1>4, <2>1 DEF ChainInv, TypeInv, TypeOK
  <2>3. ASSUME NEW x \in stays \cup {b}, Height[x] > 1
        PROVE  IF next # NoBlock /\ Height[x] = Height[next] + 1
                 THEN Parent[x] = next ELSE Parent[x] \in stays
    <3>1. CASE x = c
      BY <1>12, <2>1, <2>2, <3>1
    <3>2. CASE x # c
      <4>1. Height[x] # Height[c]
        BY <1>4, <1>5, <3>2
      <4> QED BY <1>10, <2>2, <2>3, <3>2, <4>1
    <3> QED BY <3>1, <3>2
  <2>4. PartialChain(stays, {b}, next)
    <3> HIDE DEF stays, next
    <3> QED BY <1>8, <2>3 DEF PartialChain
  <2>5. job' = [phase |-> "restore", block |-> b, cursor |-> next]
    BY <1>2, <1>12 DEF ChainInv, TypeInv, TypeOK
  <2> HIDE DEF next, stays, b, c
  <2>6. /\ work'.canonical = stays /\ tip' = tip /\ blocks' = blocks
        /\ job'.phase = "restore" /\ job'.block = b /\ job'.cursor = next
    <3>1. work'.canonical = stays
      BY <1>2
    <3>2. tip' = tip /\ blocks' = blocks
      BY <1>2 DEF dbVars
    <3>3. job'.phase = "restore" /\ job'.block = b /\ job'.cursor = next
      BY <2>5
    <3> QED BY <3>1, <3>2, <3>3
  <2>7. Height[next] < Height[b]
    BY <1>4, <2>2
  <2>8. PartialChain(work.canonical, {job.block}, job.cursor)'
    BY <2>4, <2>6 DEF PartialChain
  <2>9. JobInv'
    BY <1>4, <2>1, <2>6, <2>7, <2>8 DEF JobInv, IsCanonical
  <2> QED BY <1>1, <1>3, <2>9 DEF ChainInv
<1> QED BY <1>11, <1>12

LEMMA CommitChain ==
  ASSUME ChainInv, CommitUpdate
  PROVE  ChainInv'
<1> USE BlockAssumption
<1>1. TypeInv'
  BY CommitType DEF ChainInv
<1> DEFINE b == job.block
<1>2. /\ job.phase = "insert"
      /\ blocks' = blocks \cup {b}
      /\ canonical' = NewCanonical(b)
      /\ tip' = NewTip(b)
      /\ work' = [canonical |-> NewCanonical(b), rows |-> NewRows(b),
                  tx_count |-> NewTip(b).tx_count]
      /\ rows' = NewRows(b)
      /\ job' = Idle
  BY DEF CommitUpdate
<1>3. /\ b \in Block /\ Height[b] \in Nat
      /\ work.canonical \subseteq blocks /\ blocks \subseteq Block
      /\ tip.height \in Nat
      /\ Height[b] > 1 => Parent[b] \in blocks
  BY <1>2 DEF ChainInv, JobInv, TypeInv, TypeOK
<1>4. JobInv'
  BY <1>2 DEF JobInv, Idle, Committed
<1>5. CASE IsCanonical(b)
  <2>1. Height[b] = tip.height + 1 /\ b \notin blocks
    BY <1>3, <1>5, AboveTip DEF ChainInv
  <2>2. /\ canonical' = work.canonical \cup {b}
        /\ tip'.block = b /\ tip'.height = Height[b]
    BY <1>2, <1>5, <2>1 DEF NewCanonical, NewTip
  <2>3. PartialChain(work.canonical, {b}, NoBlock)
    BY <1>2, <1>5 DEF ChainInv, JobInv
  <2>4. IsChainTo(canonical', b)
    BY <1>3, <2>1, <2>2, <2>3 DEF PartialChain, IsChainTo
  <2>5. CanonicalIsOneChain'
    BY <1>3, <2>2, <2>4 DEF CanonicalIsOneChain, IsChainTo
  <2>6. StoredInv'
    BY <1>2, <1>3, <2>1, <2>2 DEF StoredInv, ChainInv
  <2> QED BY <1>1, <1>4, <2>5, <2>6 DEF ChainInv
<1>6. CASE ~IsCanonical(b)
  <2>1. /\ canonical' = canonical
        /\ tip'.block = tip.block /\ tip'.height = tip.height
    BY <1>2, <1>6
    DEF NewCanonical, NewTip, ChainInv, JobInv, Committed, TypeInv, TypeOK
  <2>2. CanonicalIsOneChain'
    BY <2>1 DEF CanonicalIsOneChain, IsChainTo, ChainInv
  <2>3. StoredInv'
    BY <1>2, <1>3, <1>6, <2>1 DEF StoredInv, ChainInv, IsCanonical
  <2> QED BY <1>1, <1>4, <2>2, <2>3 DEF ChainInv
<1> QED BY <1>5, <1>6

\* ChainInv is inductive.
LEMMA ChainStep == ChainInv /\ [Next]_vars => ChainInv'
<1> SUFFICES ASSUME ChainInv, [Next]_vars PROVE ChainInv'
  OBVIOUS
<1>0. TypeInv'
  BY TypeStep DEF ChainInv
<1>1. ASSUME NEW b \in Block, BeginUpdate(b) PROVE ChainInv'
  BY <1>1, BeginChain
<1>2. CASE RestoreOrphanedChain
  BY <1>2, RestoreChain
<1>3. CASE CommitUpdate
  BY <1>3, CommitChain
<1>4. CASE AbortUpdate
  <2>1. CanonicalIsOneChain' /\ StoredInv'
    BY <1>4 DEF AbortUpdate, dbVars, ChainInv, CanonicalIsOneChain, IsChainTo,
                StoredInv
  <2>2. JobInv'
    BY <1>4 DEF AbortUpdate, Idle, dbVars, JobInv, Committed
  <2> QED BY <1>0, <2>1, <2>2 DEF ChainInv
<1>5. ASSUME NEW b \in Block, UpdateAttachments(b) PROVE ChainInv'
  <2>1. CanonicalIsOneChain' /\ StoredInv'
    BY <1>5 DEF UpdateAttachments, ChainInv, CanonicalIsOneChain, IsChainTo,
                StoredInv
  <2>2. JobInv'
    BY <1>5 DEF UpdateAttachments, ChainInv, JobInv, Committed
  <2> QED BY <1>0, <2>1, <2>2 DEF ChainInv
<1>6. CASE UNCHANGED vars
  BY <1>0, <1>6 DEF vars, ChainInv, CanonicalIsOneChain, IsChainTo, StoredInv,
     JobInv, PartialChain, Committed, IsCanonical
<1> QED BY <1>1, <1>2, <1>3, <1>4, <1>5, <1>6 DEF Next

LEMMA ChainStart == Init => ChainInv
<1> SUFFICES ASSUME Init PROVE ChainInv
  OBVIOUS
<1>1. TypeInv
  BY BlockAssumption, FS_EmptySet DEF Init, TypeInv, TypeOK, Idle, Committed
<1> QED BY <1>1 DEF Init, ChainInv, CanonicalIsOneChain, StoredInv, JobInv,
                    Idle, Committed

\* Whatever the order in which the blocks of any tree are announced, however
\* deep the forks and wherever a transaction is rolled back, the canonical
\* rows are one chain that ends in chain_tip.
THEOREM OneChain == Spec => []CanonicalIsOneChain
<1>1. ChainInv => CanonicalIsOneChain
  BY DEF ChainInv
<1> QED BY <1>1, ChainStart, ChainStep, PTL DEF Spec

-----------------------------------------------------------------------------
(* A re-org is to a longer chain. *)

\* Only a commit changes the committed flags, and only that of a block above
\* the tip: below it the transaction has nothing but what it found.
LEMMA ReorgStep ==
  ASSUME ChainInv, [Next]_vars, canonical' # canonical
  PROVE  /\ tip'.height = tip.height + 1
         /\ Height[tip'.block] = tip'.height
         /\ tip'.block \notin blocks
<1> USE BlockAssumption
<1> DEFINE b == job.block
<1>1. CommitUpdate
  BY DEF Next, BeginUpdate, RestoreOrphanedChain, AbortUpdate,
         UpdateAttachments, dbVars, vars
<1>2. /\ b \in Block
      /\ Height[b] > 1 => Parent[b] \in blocks
      /\ ~IsCanonical(b) => work = Committed
      /\ canonical' = NewCanonical(b)
      /\ tip' = NewTip(b)
  BY <1>1 DEF CommitUpdate, ChainInv, JobInv, TypeInv, TypeOK
<1>3. IsCanonical(b)
  BY <1>2 DEF NewCanonical, Committed
<1>4. Height[b] = tip.height + 1 /\ b \notin blocks
  BY <1>2, <1>3, AboveTip DEF ChainInv
<1>5. tip'.block = b /\ tip'.height = Height[b]
  BY <1>2, <1>3 DEF NewTip
<1> QED BY <1>4, <1>5

\* No step of the store ever takes a block out of the chain, or puts one in,
\* but to follow a chain that is one block longer than the one it leaves.
THEOREM LongerChain == Spec => ReorgOnlyToLongerChain
<1>1. ChainInv /\ [Next]_vars =>
        [canonical' # canonical =>
           /\ tip'.height = tip.height + 1
           /\ Height[tip'.block] = tip'.height
           /\ tip'.block \notin blocks]_vars
  BY ReorgStep
<1> QED BY <1>1, ChainStart, ChainStep, PTL DEF Spec, ReorgOnlyToLongerChain

-----------------------------------------------------------------------------
(* The store implements BestChain. *)

\* A committed chain leads to the tip, once the boot data is left out.
LEMMA ShownLeadsTo ==
  ASSUME NEW S \in SUBSET Block, NEW b \in Block \ {Genesis}, IsChainTo(S, b)
  PROVE  Best!LeadsTo(S \ {Genesis}, b)
<1> USE BlockAssumption
<1>1. b \in S \ {Genesis}
  BY DEF IsChainTo
<1>2. \A x \in S \ {Genesis} : Height[x] \in 1 .. Height[b]
  BY DEF IsChainTo
<1>3. \A x, y \in S \ {Genesis} : Height[x] = Height[y] => x = y
  BY DEF IsChainTo
<1>4. \A x \in S \ {Genesis} : Height[x] > 1 => Parent[x] \in S \ {Genesis}
  BY DEF IsChainTo
<1> QED BY <1>1, <1>2, <1>3, <1>4 DEF Best!LeadsTo

\* A commit is a step of BestChain, or changes nothing it shows.
LEMMA CommitShows ==
  ASSUME ChainInv, CommitUpdate
  PROVE  \/ \E b \in Block : Best!Adopt(b) \/ Best!Remember(b)
         \/ UNCHANGED <<blocks \ {Genesis}, tip.block, canonical \ {Genesis}>>
<1> USE BlockAssumption
<1> DEFINE b == job.block
<1>1. ChainInv'
  BY CommitChain
<1>2. /\ job.phase = "insert"
      /\ blocks' = blocks \cup {b}
      /\ canonical' = NewCanonical(b)
      /\ tip' = NewTip(b)
  BY DEF CommitUpdate
<1>3. /\ b \in Block /\ Height[b] \in Nat /\ tip.height \in Nat
      /\ blocks \subseteq Block
      /\ Height[b] > 1 => Parent[b] \in blocks \ {Genesis}
      /\ ~IsCanonical(b) => work = Committed
  BY <1>2 DEF ChainInv, JobInv, TypeInv, TypeOK
<1>4. Best!HeadHeight = tip.height
  BY DEF Best!HeadHeight, ChainInv, CanonicalIsOneChain
<1>5. CASE IsCanonical(b)
  <2>1. Height[b] = tip.height + 1 /\ b \notin blocks /\ b # Genesis
    BY <1>3, <1>5, AboveTip DEF ChainInv
  <2>2. tip'.block = b
    BY <1>2, <1>5 DEF NewTip
  <2>3. IsChainTo(canonical', b) /\ canonical' \subseteq blocks' /\ blocks' \subseteq Block
    BY <1>1, <1>3, <2>2 DEF ChainInv, CanonicalIsOneChain, TypeInv, TypeOK
  <2>4. Best!LeadsTo(canonical' \ {Genesis}, b)
    BY <1>3, <2>1, <2>3, ShownLeadsTo
  <2>5. Best!Adopt(b)
    BY <1>2, <1>3, <1>4, <2>1, <2>2, <2>3, <2>4 DEF Best!Adopt, Best!LeadsTo
  <2> QED BY <1>3, <2>5
<1>6. CASE ~IsCanonical(b)
  <2>1. tip'.block = tip.block /\ canonical' = canonical
    BY <1>2, <1>3, <1>6 DEF NewTip, NewCanonical, Committed, ChainInv, TypeInv, TypeOK
  <2>2. CASE b \in blocks \cup {Genesis}
    BY <1>2, <2>1, <2>2
  <2>3. CASE b \notin blocks \cup {Genesis}
    <3>1. Best!Remember(b)
      BY <1>2, <1>3, <1>4, <1>6, <2>1, <2>3 DEF Best!Remember, IsCanonical
    <3> QED BY <1>3, <3>1
  <2> QED BY <2>2, <2>3
<1> QED BY <1>5, <1>6

\* The API shows the chain of the highest block that arrived first, for every
\* tree of blocks: update() with all its inner steps, re-deliveries and
\* roll-backs implements the atomic specification BestChain.
THEOREM ImplementsBestChain == Spec => ShowsBestChain
<1>1. Init => Best!Init
  BY DEF Init, Best!Init
<1>2. ChainInv /\ [Next]_vars
        => [Best!Next]_<<blocks \ {Genesis}, tip.block, canonical \ {Genesis}>>
  <2> SUFFICES ASSUME ChainInv, [Next]_vars
               PROVE  [Best!Next]_<<blocks \ {Genesis}, tip.block, canonical \ {Genesis}>>
    OBVIOUS
  <2>1. CASE CommitUpdate
    BY <2>1, CommitShows DEF Best!Next
  <2>2. CASE ~CommitUpdate
    <3>1. UNCHANGED <<blocks, tip, canonical>>
      BY <2>2 DEF Next, BeginUpdate, RestoreOrphanedChain, AbortUpdate,
                  UpdateAttachments, dbVars, vars
    <3> QED BY <3>1
  <2> QED BY <2>1, <2>2
<1> QED BY <1>1, <1>2, ChainStart, ChainStep, PTL DEF Spec, ShowsBestChain, Best!Spec

-----------------------------------------------------------------------------
(* The entity tables follow the canonical flags of the blocks. *)

\* The rows rs of the entity tables have the flags of the blocks, if S are
\* the canonical ones.
RowsFollow(rs, S) ==
  /\ \A t \in Table : \A b \in blocks \ {Genesis} :
       b \in rs[t] <=> b \in S /\ (t = "subdomains" => b \in attached)
  /\ \A t \in BootTables \ {"subdomains"} :
       Genesis \in rs[t] <=> boot # Genesis /\ boot \in S

\* The boot data is moved once, with the first block of height 1: as long as
\* it is not, it is alone in the table.
BootInv ==
  /\ boot # Genesis => boot \in blocks /\ Height[boot] = 1 /\ Genesis \in blocks
  /\ Genesis \in blocks /\ boot = Genesis => blocks = {Genesis}
  /\ job.phase # "idle" /\ job.block = Genesis => blocks = {} \/ Genesis \in blocks
  /\ job.phase = "restore" => Height[job.block] > 1

\* What is committed and what the open transaction sees.
EntityInv ==
  /\ ChainInv
  /\ BootInv
  /\ RowsFollow(rows, canonical)
  /\ RowsFollow(work.rows, work.canonical)

-----------------------------------------------------------------------------
(* What markEntitiesCanonical flips. *)

\* Every table is flipped, and every one but subdomains filled by update().
LEMMA AllTables ==
  /\ \A t \in Table : t \in ReorgTables
  /\ \A t \in Table : t \in InsertTables <=> t # "subdomains"
  /\ \A t \in BootTables : t \in Table
  /\ "principal_stx_txs" \notin BootTables
  /\ "txs" \in BootTables /\ "txs" # "subdomains" /\ "principal_stx_txs" # "subdomains"
BY DEF Table, ReorgTables, InsertTables, BootTables, PoxEventTables, StxTables,
       ContractTables, NameTables, PoxSetTables

\* The rows flipped for a block are its own.
LEMMA FlipsBlock ==
  ASSUME NEW t \in Table, NEW i \in blocks, NEW b \in blocks \ {Genesis}
  PROVE  b \in FlippedRows(t, i) <=> b = i /\ (t = "subdomains" => b \in attached)
BY AllTables DEF FlippedRows, RowsAt

\* The boot data is flipped with the block it was moved to.
LEMMA FlipsBoot ==
  ASSUME NEW t \in BootTables \ {"subdomains"}, NEW i
  PROVE  Genesis \in FlippedRows(t, i) <=> Genesis \in blocks /\ boot = i
BY AllTables DEF FlippedRows, RowsAt

\* Flipping the entities of a block keeps them in step with its flag.
LEMMA MarkFollows ==
  ASSUME TypeInv, BootInv, NEW S, NEW i \in blocks, NEW rs,
         RowsFollow(rs, S), i = Genesis => boot # Genesis
  PROVE  /\ RowsFollow(MarkEntitiesCanonical(rs, i, TRUE), S \cup {i})
         /\ RowsFollow(MarkEntitiesCanonical(rs, i, FALSE), S \ {i})
<1>1. ASSUME NEW t \in Table, NEW b \in blocks \ {Genesis}
      PROVE  /\ b \in MarkEntitiesCanonical(rs, i, TRUE)[t]
                  <=> b \in S \cup {i} /\ (t = "subdomains" => b \in attached)
             /\ b \in MarkEntitiesCanonical(rs, i, FALSE)[t]
                  <=> b \in S \ {i} /\ (t = "subdomains" => b \in attached)
  BY FlipsBlock DEF RowsFollow, MarkEntitiesCanonical
<1>2. ASSUME NEW t \in BootTables \ {"subdomains"}
      PROVE  /\ Genesis \in MarkEntitiesCanonical(rs, i, TRUE)[t]
                  <=> boot # Genesis /\ boot \in S \cup {i}
             /\ Genesis \in MarkEntitiesCanonical(rs, i, FALSE)[t]
                  <=> boot # Genesis /\ boot \in S \ {i}
  <2>1. t \in Table
    BY AllTables
  <2>2. Genesis \in FlippedRows(t, i) <=> Genesis \in blocks /\ boot = i
    BY FlipsBoot
  <2> QED BY <2>1, <2>2 DEF RowsFollow, MarkEntitiesCanonical, BootInv
<1> QED BY <1>1, <1>2 DEF RowsFollow

-----------------------------------------------------------------------------
(* The steps. *)

\* At a height there is at most one canonical block to orphan.
LEMMA OneOrphan ==
  ASSUME ChainInv, job.phase = "restore"
  PROVE  \/ OrphanedBy(job.cursor) = {}
         \/ \E o \in work.canonical \ {Genesis} : OrphanedBy(job.cursor) = {o}
<1> USE BlockAssumption
<1>1. /\ job.cursor \in Block
      /\ work.canonical \subseteq Block
      /\ \A x, y \in work.canonical : Height[x] = Height[y] => x = y
  BY DEF ChainInv, JobInv, PartialChain, TypeInv, TypeOK
<1>2. SUFFICES ASSUME NEW o \in OrphanedBy(job.cursor)
               PROVE  o # Genesis /\ OrphanedBy(job.cursor) = {o}
  BY DEF OrphanedBy
<1>3. o # Genesis
  BY <1>1 DEF OrphanedBy
<1>4. OrphanedBy(job.cursor) = {o}
  BY <1>1 DEF OrphanedBy
<1> QED BY <1>3, <1>4

\* A level of restoreOrphanedChain flips the entities of both blocks.
LEMMA RestoreFollows ==
  ASSUME EntityInv, RestoreOrphanedChain
  PROVE  EntityInv'
<1> USE BlockAssumption
<1>1. ChainInv'
  BY RestoreChain DEF EntityInv
<1> DEFINE c == job.cursor
           orphans == OrphanedBy(c)
           demoted == RowsWithout(orphans)
           promoted == MarkEntitiesCanonical(demoted, c, TRUE)
<1>2. /\ job.phase = "restore"
      /\ c \in blocks \ work.canonical
      /\ work'.canonical = (work.canonical \cup {c}) \ orphans
      /\ work'.rows = promoted
      /\ UNCHANGED dbVars
      /\ job'.block = job.block
  BY DEF RestoreOrphanedChain, EntityInv, ChainInv, TypeInv, TypeOK
<1>3. BootInv'
  BY <1>2 DEF EntityInv, BootInv, dbVars
<1>4. /\ TypeInv /\ BootInv /\ RowsFollow(work.rows, work.canonical)
      /\ work.canonical \subseteq blocks
  BY DEF EntityInv, ChainInv, TypeInv, TypeOK
<1>5. c = Genesis => boot # Genesis
  \* The block of the call has its parent in the table, so c is not alone.
  <2>1. /\ job.block \in Block
        /\ Height[job.block] > 1
        /\ Parent[job.block] \in blocks
    BY <1>2, <1>4 DEF EntityInv, ChainInv, JobInv, BootInv, TypeInv, TypeOK
  <2>2. Parent[job.block] # Genesis
    BY <2>1
  <2> QED BY <1>2, <1>4, <2>1, <2>2 DEF BootInv
<1>6. RowsFollow(demoted, work.canonical \ orphans)
  <2>1. CASE orphans = {}
    BY <1>4, <2>1 DEF RowsWithout
  <2>2. ASSUME NEW o \in work.canonical \ {Genesis}, orphans = {o}
        PROVE  RowsFollow(demoted, work.canonical \ orphans)
    <3>1. demoted = MarkEntitiesCanonical(work.rows, o, FALSE)
      BY <2>2 DEF RowsWithout
    <3>2. RowsFollow(MarkEntitiesCanonical(work.rows, o, FALSE), work.canonical \ {o})
      BY <1>4, MarkFollows
    <3> QED BY <2>2, <3>1, <3>2
  <2> QED BY <1>2, <2>1, <2>2, OneOrphan DEF EntityInv
<1>7. RowsFollow(promoted, (work.canonical \ orphans) \cup {c})
  <2> HIDE DEF demoted
  <2> QED BY <1>2, <1>4, <1>5, <1>6, MarkFollows
<1>8. (work.canonical \ orphans) \cup {c} = work'.canonical
  BY <1>2 DEF OrphanedBy
<1>9. RowsFollow(work.rows, work.canonical)'
  BY <1>2, <1>7, <1>8 DEF RowsFollow, dbVars
<1>10. RowsFollow(rows, canonical)'
  BY <1>2 DEF EntityInv, RowsFollow, dbVars
<1> QED BY <1>1, <1>3, <1>9, <1>10 DEF EntityInv

\* The end of update() inserts a block's entities with its flag, and moves the
\* boot data to the first block of height 1, which is canonical.
LEMMA CommitFollows ==
  ASSUME EntityInv, CommitUpdate
  PROVE  EntityInv'
<1> USE BlockAssumption
<1>1. ChainInv'
  BY CommitChain DEF EntityInv
<1> DEFINE b == job.block
           fixed == IF FixesBlockZero(b) THEN FixBlockZeroData(work.rows) ELSE work.rows
<1>2. /\ job.phase = "insert" /\ job' = Idle
      /\ blocks' = blocks \cup {b} /\ attached' = attached
      /\ canonical' = NewCanonical(b)
      /\ rows' = InsertBlockRows(fixed, b)
      /\ boot' = IF FixesBlockZero(b) THEN b ELSE boot
      /\ work'.canonical = canonical' /\ work'.rows = rows'
  BY DEF CommitUpdate, NewRows
<1>3. /\ b \in Block /\ Height[b] \in Nat /\ tip.height \in Nat
      /\ blocks \subseteq Block /\ attached \subseteq blocks
      /\ work.canonical \subseteq blocks
      /\ work.rows \in [Table -> SUBSET blocks]
      /\ Height[b] > 1 => Parent[b] \in blocks
      /\ BootInv
      /\ RowsFollow(work.rows, work.canonical)
  BY <1>2 DEF EntityInv, ChainInv, JobInv, TypeInv, TypeOK
<1>4. IsCanonical(b) => b \notin blocks /\ b # Genesis
  BY <1>3, AboveTip DEF EntityInv, ChainInv, IsCanonical
<1>5. b \notin blocks /\ IsCanonical(b) <=> IsCanonical(b)
  BY <1>4
<1>6. FixesBlockZero(b) => IsCanonical(b)
  <2> SUFFICES ASSUME FixesBlockZero(b) PROVE tip.height = 0
    BY <1>3 DEF FixesBlockZero, IsCanonical
  <2>1. blocks = {Genesis}
    BY <1>3 DEF FixesBlockZero, BootInv
  <2>2. tip.block # NoBlock => tip.block \in canonical /\ tip.height = Height[tip.block]
    BY DEF EntityInv, ChainInv, CanonicalIsOneChain, IsChainTo
  <2> QED BY <2>1, <2>2 DEF EntityInv, ChainInv, CanonicalIsOneChain, TypeInv, TypeOK
<1>7. BootInv'
  <2>1. boot' # Genesis => boot' \in blocks' /\ Height[boot'] = 1 /\ Genesis \in blocks'
    BY <1>2, <1>3 DEF BootInv, FixesBlockZero
  <2>2. Genesis \in blocks' /\ boot' = Genesis => blocks' = {Genesis}
    <3> SUFFICES ASSUME Genesis \in blocks', boot' = Genesis, b # Genesis
                 PROVE  FALSE
      BY <1>2, <1>3 DEF BootInv, FixesBlockZero
    <3>1. Genesis \in blocks /\ boot = Genesis /\ blocks = {Genesis}
      BY <1>2, <1>3 DEF BootInv
    <3>2. Height[b] # 1
      BY <1>2, <3>1 DEF FixesBlockZero
    <3>3. Parent[b] = Genesis /\ Height[b] > 1
      BY <1>3, <3>1, <3>2
    <3> QED BY <1>3, <3>3
  <2> QED BY <1>2, <2>1, <2>2 DEF BootInv, Idle
<1>8. ASSUME NEW t \in Table, NEW x \in blocks' \ {Genesis}
      PROVE  x \in rows'[t] <=> x \in canonical' /\ (t = "subdomains" => x \in attached)
  <2>1. x \in fixed[t] <=> x \in work.rows[t]
    BY <1>3 DEF FixBlockZeroData, FixesBlockZero, RowsAt
  <2>2. x \in rows'[t] <=> x \in work.rows[t] \/ (IsCanonical(b) /\ x = b /\ t # "subdomains")
    <3> HIDE DEF fixed
    <3> QED BY <1>2, <1>5, <2>1, AllTables DEF InsertBlockRows
  <2>3. x \in canonical' <=> x \in work.canonical \/ (IsCanonical(b) /\ x = b)
    BY <1>2, <1>5 DEF NewCanonical
  <2>4. CASE x \in blocks
    BY <1>3, <1>4, <2>2, <2>3, <2>4 DEF RowsFollow
  <2>5. CASE x \notin blocks
    BY <1>2, <1>3, <2>2, <2>3, <2>5
  <2> QED BY <2>4, <2>5
<1>9. ASSUME NEW t \in BootTables \ {"subdomains"}
      PROVE  Genesis \in rows'[t] <=> boot' # Genesis /\ boot' \in canonical'
  <2>1. t \in Table
    BY AllTables
  <2>2. Genesis \in rows'[t] <=> Genesis \in fixed[t]
    <3> HIDE DEF fixed
    <3> QED BY <1>2, <1>4, <2>1 DEF InsertBlockRows
  <2>3. CASE FixesBlockZero(b)
    BY <1>2, <1>4, <1>6, <2>1, <2>2, <2>3
    DEF FixBlockZeroData, FixesBlockZero, RowsAt, NewCanonical
  <2>4. CASE ~FixesBlockZero(b)
    BY <1>2, <1>3, <1>4, <2>2, <2>4 DEF RowsFollow, BootInv, NewCanonical
  <2> QED BY <2>3, <2>4
<1>10. RowsFollow(rows, canonical)'
  BY <1>2, <1>8, <1>9 DEF RowsFollow
<1>11. RowsFollow(work.rows, work.canonical)'
  BY <1>2, <1>10 DEF RowsFollow
<1> QED BY <1>1, <1>7, <1>10, <1>11 DEF EntityInv

\* Subdomains take the flag of their transaction's block when they arrive.
LEMMA AttachFollows ==
  ASSUME EntityInv, NEW b \in Block, UpdateAttachments(b)
  PROVE  EntityInv'
<1>1. ChainInv'
  BY ChainStep DEF EntityInv, Next
<1>2. /\ b \in blocks \ {Genesis} /\ attached' = attached \cup {b}
      /\ rows' = [rows EXCEPT !["subdomains"] =
                    IF b \in rows["txs"] THEN @ \cup {b} ELSE @ \ {b}]
      /\ work'.rows = rows' /\ work'.canonical = canonical
      /\ UNCHANGED <<blocks, canonical, boot, tip, job>>
      /\ rows \in [Table -> SUBSET blocks]
  BY DEF UpdateAttachments, AttachmentTxFound, EntityInv, ChainInv, JobInv,
         Committed, TypeInv, TypeOK
<1>3. BootInv'
  BY <1>2 DEF EntityInv, BootInv
<1>4. RowsFollow(rows, canonical)'
  <2>1. b \in rows["txs"] <=> b \in canonical
    BY <1>2, TxsIsTable, AllTables DEF EntityInv, RowsFollow
  <2> QED BY <1>2, <2>1, TxsIsTable, AllTables DEF EntityInv, RowsFollow
<1>5. RowsFollow(work.rows, work.canonical)'
  BY <1>2, <1>4 DEF RowsFollow
<1> QED BY <1>1, <1>3, <1>4, <1>5 DEF EntityInv

\* EntityInv is inductive.
LEMMA EntityStep == EntityInv /\ [Next]_vars => EntityInv'
<1> SUFFICES ASSUME EntityInv, [Next]_vars PROVE EntityInv'
  OBVIOUS
<1>0. ChainInv'
  BY ChainStep DEF EntityInv
<1>1. ASSUME NEW b \in Block, BeginUpdate(b) PROVE EntityInv'
  <2>1. BootInv'
    BY <1>1, BlockAssumption DEF BeginUpdate, BuildsOnOrphan, EntityInv, BootInv
  <2> QED BY <1>0, <1>1, <2>1 DEF BeginUpdate, EntityInv, RowsFollow
<1>2. CASE RestoreOrphanedChain
  BY <1>2, RestoreFollows
<1>3. CASE CommitUpdate
  BY <1>3, CommitFollows
<1>4. CASE AbortUpdate
  BY <1>0, <1>4 DEF AbortUpdate, Idle, Committed, dbVars, EntityInv, BootInv, RowsFollow
<1>5. ASSUME NEW b \in Block, UpdateAttachments(b) PROVE EntityInv'
  BY <1>5, AttachFollows
<1>6. CASE UNCHANGED vars
  BY <1>0, <1>6 DEF vars, EntityInv, BootInv, RowsFollow
<1> QED BY <1>1, <1>2, <1>3, <1>4, <1>5, <1>6 DEF Next

LEMMA EntityStart == Init => EntityInv
<1> SUFFICES ASSUME Init PROVE EntityInv
  OBVIOUS
<1>1. ChainInv
  BY ChainStart
<1> QED BY <1>1, AllTables DEF Init, EntityInv, BootInv, RowsFollow, Idle, Committed

\* Whatever is announced, repeated, orphaned, brought back or rolled back, the
\* rows of all entity tables have the flags of their blocks: there is no order
\* of blocks and attachments after which a table shows another fork.
THEOREM EntitiesFollow == Spec => []EntitiesFollowBlocks
<1>1. EntityInv => EntitiesFollowBlocks
  BY DEF EntityInv, RowsFollow, EntitiesFollowBlocks
<1> QED BY <1>1, EntityStart, EntityStep, PTL DEF Spec

-----------------------------------------------------------------------------
(* tx_count. *)

\* n counts the rows of table txs, as far as update() counts them: the boot
\* transactions are not added when they are moved to block 1.
Counts(rs, n) ==
  n + (IF boot = Genesis THEN 0 ELSE Cardinality(TxRows({Genesis})))
    = Cardinality(TxRows(rs["txs"]))

CountInv == EntityInv /\ Counts(rows, tip.tx_count) /\ Counts(work.rows, work.tx_count)

\* Rows of disjoint sets of blocks are counted apart.
LEMMA TxRowsSplit ==
  ASSUME NEW A \in SUBSET Block, NEW B \in SUBSET A, IsFiniteSet(A)
  PROVE  Cardinality(TxRows(A)) = Cardinality(TxRows(B)) + Cardinality(TxRows(A \ B))
<1>1. IsFiniteSet(B) /\ IsFiniteSet(A \ B)
  BY FS_Subset
<1>2. IsFiniteSet(TxRows(B)) /\ IsFiniteSet(TxRows(A \ B))
  BY <1>1, TxRowsFinite
<1>3. TxRows(A) = TxRows(B) \cup TxRows(A \ B) /\ TxRows(B) \cap TxRows(A \ B) = {}
  BY DEF TxRows
<1>4. Cardinality({}) = 0
  BY FS_EmptySet
<1>5. Cardinality(TxRows(B)) \in Nat /\ Cardinality(TxRows(A \ B)) \in Nat
  BY <1>1, TxRowsFinite
<1>6. Cardinality(TxRows(B) \cup TxRows(A \ B))
        = Cardinality(TxRows(B)) + Cardinality(TxRows(A \ B))
            - Cardinality(TxRows(B) \cap TxRows(A \ B))
  BY <1>2, FS_Union
<1>7. Cardinality(TxRows(B) \cap TxRows(A \ B)) = 0
  BY <1>3, <1>4
<1>8. Cardinality(TxRows(A)) = Cardinality(TxRows(B) \cup TxRows(A \ B))
  BY <1>3
<1> QED BY <1>5, <1>6, <1>7, <1>8

\* The delta of a level is that of the rows it flips one way and the other.
LEMMA RestoreCounts ==
  ASSUME CountInv, RestoreOrphanedChain
  PROVE  CountInv'
<1> USE BlockAssumption
<1>1. EntityInv'
  BY RestoreFollows DEF CountInv
<1> DEFINE c == job.cursor
           demoted == RowsWithout(OrphanedBy(c))
           promoted == MarkEntitiesCanonical(demoted, c, TRUE)
           W == work.rows["txs"]
           D == demoted["txs"]
           P == promoted["txs"]
<1>2. /\ work'.rows = promoted
      /\ work'.tx_count = (work.tx_count + Cardinality(TxRows(P \ D)))
                            - Cardinality(TxRows(W \ D))
      /\ UNCHANGED dbVars
  BY DEF RestoreOrphanedChain
<1>3. /\ TypeInv /\ work.rows \in [Table -> SUBSET blocks]
      /\ work.tx_count \in Int /\ IsFiniteSet(blocks) /\ blocks \subseteq Block
  BY DEF CountInv, EntityInv, ChainInv, TypeInv, TypeOK
<1>4. demoted \in [Table -> SUBSET blocks] /\ D \subseteq W
  BY <1>3, MarkType, TxsIsTable DEF RowsWithout, MarkEntitiesCanonical, TypeInv
<1>5. promoted \in [Table -> SUBSET blocks] /\ D \subseteq P
  <2>1. promoted \in [Table -> SUBSET blocks]
    <3> HIDE DEF demoted
    <3> QED BY <1>3, <1>4, MarkType DEF TypeInv
  <2>2. P = D \cup FlippedRows("txs", c)
    <3> HIDE DEF demoted
    <3> QED BY TxsIsTable DEF MarkEntitiesCanonical
  <2> QED BY <2>1, <2>2
<1>6. W \in SUBSET blocks /\ P \in SUBSET blocks
  BY <1>3, <1>5, TxsIsTable
<1> HIDE DEF W, D, P
<1>7. /\ Cardinality(TxRows(W)) = Cardinality(TxRows(D)) + Cardinality(TxRows(W \ D))
      /\ Cardinality(TxRows(P)) = Cardinality(TxRows(D)) + Cardinality(TxRows(P \ D))
  <2>1. W \in SUBSET Block /\ P \in SUBSET Block /\ IsFiniteSet(W) /\ IsFiniteSet(P)
    BY <1>3, <1>6, FS_Subset
  <2> QED BY <1>4, <1>5, <2>1, TxRowsSplit
<1>8. /\ Cardinality(TxRows(D)) \in Nat /\ Cardinality(TxRows(W \ D)) \in Nat
      /\ Cardinality(TxRows(P \ D)) \in Nat
      /\ Cardinality(TxRows({Genesis})) \in Nat
  <2>1. D \in SUBSET blocks /\ (W \ D) \in SUBSET blocks /\ (P \ D) \in SUBSET blocks
    BY <1>4, <1>6
  <2> QED BY <1>3, <2>1, TxCountType, TxRowsFinite, FS_Singleton
<1>9. Counts(work.rows, work.tx_count)'
  <2>1. work.tx_count + (IF boot = Genesis THEN 0 ELSE Cardinality(TxRows({Genesis})))
          = Cardinality(TxRows(W))
    BY DEF CountInv, Counts, W
  <2>2. work'.rows["txs"] = P /\ boot' = boot
    BY <1>2 DEF P, dbVars
  <2>3. work'.tx_count + (IF boot = Genesis THEN 0 ELSE Cardinality(TxRows({Genesis})))
          = Cardinality(TxRows(P))
    BY <1>2, <1>3, <1>7, <1>8, <2>1
  <2> QED BY <2>2, <2>3 DEF Counts, TxRows
<1>10. Counts(rows, tip.tx_count)'
  BY <1>2 DEF CountInv, Counts, dbVars, TxRows
<1> QED BY <1>1, <1>9, <1>10 DEF CountInv

\* The end of update() adds the transactions of a new canonical block.
LEMMA CommitCounts ==
  ASSUME CountInv, CommitUpdate
  PROVE  CountInv'
<1> USE BlockAssumption
<1>1. EntityInv'
  BY CommitFollows DEF CountInv
<1> DEFINE b == job.block
           W == work.rows["txs"]
           F == IF FixesBlockZero(b) THEN W \cup {Genesis} ELSE W
<1>2. /\ job.phase = "insert"
      /\ rows' = NewRows(b) /\ work'.rows = rows'
      /\ tip' = NewTip(b) /\ work'.tx_count = NewTip(b).tx_count
      /\ boot' = IF FixesBlockZero(b) THEN b ELSE boot
  BY DEF CommitUpdate
<1>3. /\ b \in Block /\ W \subseteq blocks /\ blocks \subseteq Block
      /\ IsFiniteSet(blocks) /\ work.tx_count \in Int /\ tip.height \in Nat
      /\ work.rows \in [Table -> SUBSET blocks]
      /\ Height[b] > 1 => Parent[b] \in blocks
  BY <1>2, TxsIsTable DEF CountInv, EntityInv, ChainInv, JobInv, TypeInv, TypeOK
<1>4. IsCanonical(b) => b \notin blocks
  BY <1>3, AboveTip DEF CountInv, EntityInv, ChainInv
<1>5. FixesBlockZero(b) => Genesis \notin W /\ Genesis \in blocks /\ boot = Genesis /\ b # Genesis
  BY AllTables DEF CountInv, EntityInv, RowsFollow, FixesBlockZero
<1>6. rows'["txs"] = IF IsCanonical(b) THEN F \cup {b} ELSE F
  <2>1. (IF FixesBlockZero(b) THEN FixBlockZeroData(work.rows) ELSE work.rows)["txs"] = F
    <3>1. CASE FixesBlockZero(b)
      <4>1. RowsAt("txs", Genesis) = {Genesis}
        BY <1>5, <3>1, AllTables DEF RowsAt
      <4> QED BY <3>1, <4>1, TxsIsTable, AllTables DEF FixBlockZeroData
    <3>2. CASE ~FixesBlockZero(b)
      BY <3>2
    <3> QED BY <3>1, <3>2
  <2> QED BY <1>2, <1>4, <2>1, TxsIsTable, AllTables DEF NewRows, InsertBlockRows
<1>7. /\ F \subseteq blocks /\ IsFiniteSet(F) /\ F \in SUBSET Block
      /\ Cardinality(TxRows(W)) \in Nat /\ Cardinality(TxRows(F)) \in Nat
      /\ Cardinality(TxRows({Genesis})) \in Nat /\ Cardinality(TxRows({b})) \in Nat
  <2>1. F \subseteq blocks
    BY <1>3, <1>5
  <2>2. IsFiniteSet(F) /\ F \in SUBSET Block /\ IsFiniteSet(W) /\ W \in SUBSET Block
    BY <1>3, <2>1, FS_Subset
  <2> HIDE DEF F, W
  <2> QED BY <1>3, <2>1, <2>2, TxRowsFinite, FS_Singleton
<1>8. work.tx_count + (IF boot' = Genesis THEN 0 ELSE Cardinality(TxRows({Genesis})))
        = Cardinality(TxRows(F))
  <2>1. work.tx_count + (IF boot = Genesis THEN 0 ELSE Cardinality(TxRows({Genesis})))
          = Cardinality(TxRows(W))
    BY DEF CountInv, Counts
  <2>2. CASE FixesBlockZero(b)
    <3>1. F = W \cup {Genesis} /\ F \ W = {Genesis} /\ W \in SUBSET F
      BY <1>5, <2>2
    <3>2. Cardinality(TxRows(F)) = Cardinality(TxRows(W)) + Cardinality(TxRows({Genesis}))
      <4> HIDE DEF F, W
      <4> QED BY <1>7, <3>1, TxRowsSplit
    <3>3. boot = Genesis /\ boot' # Genesis
      BY <1>2, <1>5, <2>2
    <3> HIDE DEF F, W
    <3> QED BY <1>3, <1>7, <2>1, <3>2, <3>3
  <2>3. CASE ~FixesBlockZero(b)
    BY <1>2, <2>1, <2>3
  <2> QED BY <2>2, <2>3
<1>9. Counts(rows, tip.tx_count)'
  <2>1. CASE IsCanonical(b)
    <3>1. tip'.tx_count = work.tx_count + Cardinality(TxRows({b}))
      BY <1>2, <2>1 DEF NewTip
    <3>2. Cardinality(TxRows(F \cup {b})) = Cardinality(TxRows(F)) + Cardinality(TxRows({b}))
      <4>1. (F \cup {b}) \ F = {b} /\ F \cup {b} \in SUBSET Block
        BY <1>3, <1>4, <1>7, <2>1
      <4>2. IsFiniteSet(F \cup {b})
        BY <1>7, FS_AddElement
      <4> HIDE DEF F
      <4> QED BY <4>1, <4>2, TxRowsSplit
    <3> HIDE DEF F, W
    <3>3. tip'.tx_count + (IF boot' = Genesis THEN 0 ELSE Cardinality(TxRows({Genesis})))
            = Cardinality(TxRows(rows'["txs"]))
      BY <1>3, <1>6, <1>7, <1>8, <2>1, <3>1, <3>2
    <3> QED BY <3>3 DEF Counts, TxRows
  <2>2. CASE ~IsCanonical(b)
    <3>1. tip'.tx_count = work.tx_count
      BY <1>2, <2>2 DEF NewTip, CountInv, EntityInv, ChainInv, TypeInv, TypeOK
    <3> HIDE DEF F, W
    <3> QED BY <1>6, <1>8, <2>2, <3>1 DEF Counts, TxRows
  <2> QED BY <2>1, <2>2
<1>10. Counts(work.rows, work.tx_count)'
  BY <1>2, <1>9 DEF Counts, TxRows
<1> QED BY <1>1, <1>9, <1>10 DEF CountInv

\* CountInv is inductive.
LEMMA CountStep == CountInv /\ [Next]_vars => CountInv'
<1> SUFFICES ASSUME CountInv, [Next]_vars PROVE CountInv'
  OBVIOUS
<1>0. EntityInv'
  BY EntityStep DEF CountInv
<1>1. ASSUME NEW b \in Block, BeginUpdate(b) PROVE CountInv'
  BY <1>0, <1>1 DEF BeginUpdate, CountInv, Counts, TxRows
<1>2. CASE RestoreOrphanedChain
  BY <1>2, RestoreCounts
<1>3. CASE CommitUpdate
  BY <1>3, CommitCounts
<1>4. CASE AbortUpdate
  BY <1>0, <1>4 DEF AbortUpdate, Committed, dbVars, CountInv, Counts, TxRows
<1>5. ASSUME NEW b \in Block, UpdateAttachments(b) PROVE CountInv'
  <2>1. /\ rows'["txs"] = rows["txs"] /\ work'.rows = rows' /\ work'.tx_count = work.tx_count
        /\ work.tx_count = tip.tx_count
        /\ UNCHANGED <<boot, tip>>
    BY <1>5, AllTables, TxsIsTable
    DEF UpdateAttachments, CountInv, EntityInv, ChainInv, JobInv, Committed, TypeInv, TypeOK
  <2> QED BY <1>0, <2>1 DEF CountInv, Counts, TxRows
<1>6. CASE UNCHANGED vars
  BY <1>0, <1>6 DEF vars, CountInv, Counts, TxRows
<1> QED BY <1>1, <1>2, <1>3, <1>4, <1>5, <1>6 DEF Next

LEMMA CountStart == Init => CountInv
<1> SUFFICES ASSUME Init PROVE CountInv
  OBVIOUS
<1>1. EntityInv
  BY EntityStart
<1>2. rows["txs"] = {} /\ TxRows({}) = {} /\ Cardinality({}) = 0
  BY TxsIsTable, FS_EmptySet DEF Init, TxRows
<1>3. work.rows["txs"] = {} /\ work.tx_count = 0 /\ tip.tx_count = 0 /\ boot = Genesis
  BY <1>2 DEF Init, Committed
<1>4. Cardinality(TxRows(rows["txs"])) = 0 /\ Cardinality(TxRows(work.rows["txs"])) = 0
  BY <1>2, <1>3
<1> QED BY <1>1, <1>3, <1>4 DEF CountInv, Counts

\* However deep the re-orgs and whatever is rolled back, chain_tip.tx_count,
\* which is only ever changed by deltas, is the number of canonical rows of
\* txs, less the boot transactions.
THEOREM TxCountRight == Spec => []TxCountMatchesRows
<1>1. CountInv => TxCountMatchesRows
  BY DEF CountInv, Counts, TxCountMatchesRows
<1> QED BY <1>1, CountStart, CountStep, PTL DEF Spec
=============================================================================
