-------------------------- MODULE DataStoreProofs --------------------------
(***************************************************************************)
(* Proofs about the layers that DataStore composes on top of the chain     *)
(* store.  Balances: the sums that the code makes in TypeScript for a new  *)
(* block and in SQL for a re-org add up to the same balances, whatever     *)
(* amounts and whatever tree of blocks.  IndexProgress: the messages of    *)
(* the Redis notifier lead a follower along the canonical chain.           *)
(***************************************************************************)
EXTENDS DataStore, ChainStoreProofs

-----------------------------------------------------------------------------
(* Sums over finite sets, as MapThenSumSet computes them: an element is     *)
(* picked, and added to the sum of the others.                              *)

IsSum(f, h, D) ==
  f = [s \in SUBSET D |-> IF s = {} THEN 0 ELSE h[Pick(s)] + f[s \ {Pick(s)}]]

Numbers(h, D) == IsFiniteSet(D) /\ \A x \in D : h[x] \in Int

\* f gives the sum of the numbers h over every subset of D.
Sums(f, h, D) == Numbers(h, D) /\ f \in [SUBSET D -> Int] /\ IsSum(f, h, D)

Agree(h, j, E) == \A x \in E : h[x] = j[x]

LEMMA SumRule ==
  ASSUME NEW f, NEW h, NEW D, IsSum(f, h, D), NEW s \in SUBSET D
  PROVE  /\ s = {} => f[s] = 0
         /\ s # {} => f[s] = h[Pick(s)] + f[s \ {Pick(s)}]
<1>1. f[s] = IF s = {} THEN 0 ELSE h[Pick(s)] + f[s \ {Pick(s)}]
  BY DEF IsSum
<1> QED BY <1>1

LEMMA SumAt ==
  ASSUME NEW f, NEW h, NEW D, Sums(f, h, D), NEW s \in SUBSET D
  PROVE  /\ f[s] \in Int
         /\ s = {} => f[s] = 0
         /\ s # {} => f[s] = h[Pick(s)] + f[s \ {Pick(s)}]
<1>1. f[s] \in Int
  BY DEF Sums
<1> QED BY <1>1, SumRule DEF Sums

\* E is a part of D, with the same numbers.
Within(f, h, D, j, E) == Sums(f, h, D) /\ E \subseteq D /\ Agree(h, j, E)

\* Two sums of the same numbers agree, whatever set they were made for.
LEMMA SumUnique ==
  ASSUME NEW D, NEW E, NEW f, NEW h, NEW j, Within(f, h, D, j, E),
         NEW g, IsSum(g, j, E)
  PROVE  \A s \in SUBSET E : f[s] = g[s]
<1>0. Sums(f, h, D) /\ E \subseteq D /\ Agree(h, j, E)
  BY DEF Within
<1> DEFINE Bad == {u \in SUBSET E : f[u] # g[u]}
<1> SUFFICES ASSUME Bad # {} PROVE FALSE
  OBVIOUS
<1>1. PICK u \in Bad : \A v \in SUBSET u : v # u => v \notin Bad
  <2>1. IsFiniteSet(E) /\ Bad \in SUBSET (SUBSET E)
    BY <1>0, FS_Subset DEF Sums, Numbers
  <2> HIDE DEF Bad
  <2> QED BY <2>1, SmallestSubset
<1>2. u \in SUBSET E /\ u \in SUBSET D /\ f[u] # g[u]
  BY <1>0
<1> HIDE DEF Bad
<1>3. u # {}
  BY <1>0, <1>2, SumAt, SumRule
<1> DEFINE p == Pick(u)
           v == u \ {p}
<1>4. p \in u /\ v \in SUBSET u /\ v # u
  BY <1>3, PickInSet
<1>5. f[v] = g[v]
  BY <1>1, <1>2, <1>4 DEF Bad
<1>6. f[u] = h[p] + f[v]
  BY <1>0, <1>2, <1>3, SumAt
<1>8. g[u] = j[p] + g[v]
  BY <1>2, <1>3, SumRule, ZenonT(30)
<1>7. h[p] = j[p]
  BY <1>0, <1>2, <1>4 DEF Agree
<1> QED BY <1>2, <1>5, <1>6, <1>7, <1>8

LEMMA SumExists ==
  ASSUME NEW D, NEW h, Numbers(h, D)
  PROVE  \E f : Sums(f, h, D)
<1> DEFINE Bad == {E \in SUBSET D : ~ \E f : Sums(f, h, E)}
<1> SUFFICES ASSUME Bad # {} PROVE FALSE
  OBVIOUS
<1>1. PICK E \in Bad : \A u \in SUBSET E : u # E => u \notin Bad
  <2> HIDE DEF Bad
  <2>1. Bad \in SUBSET (SUBSET D) /\ IsFiniteSet(D)
    BY DEF Bad, Numbers
  <2> QED BY <2>1, SmallestSubset
<1>2. E \in SUBSET D /\ ~ \E f : Sums(f, h, E)
  OBVIOUS
<1> DEFINE F(u) == CHOOSE f : Sums(f, h, u)
           At(u) == F(u)[u]
           g == [s \in SUBSET E |-> IF s = {} THEN 0
                                    ELSE h[Pick(s)] + At(s \ {Pick(s)})]
<1>3. \A u \in SUBSET E : u # E => Sums(F(u), h, u)
  <2> SUFFICES ASSUME NEW u \in SUBSET E, u # E PROVE \E f : Sums(f, h, u)
    BY DEF F
  <2> QED BY <1>1, <1>2
<1> HIDE DEF F
<1>4. \A u \in SUBSET E : u # E => At(u) \in Int
  BY <1>3, SumAt
<1>5. At({}) = 0
  <2>1. CASE E = {}
    <3> DEFINE z == [s \in SUBSET {} |-> 0]
    <3>1. z \in [SUBSET E -> Int] /\ IsSum(z, h, E)
      BY <2>1 DEF IsSum
    <3>2. Sums(z, h, E)
      BY <2>1, <3>1, FS_EmptySet DEF Sums, Numbers
    <3> QED BY <1>2, <3>2
  <2>2. CASE E # {}
    BY <1>3, <2>2, SumAt
  <2> QED BY <2>1, <2>2
<1>6. ASSUME NEW u \in SUBSET E, u # E, u # {}
      PROVE  At(u) = h[Pick(u)] + At(u \ {Pick(u)})
  <2> DEFINE v == u \ {Pick(u)}
  <2>1. v \in SUBSET u /\ v \in SUBSET E /\ v # E /\ v \in SUBSET v /\ u \in SUBSET u
    BY <1>6, PickInSet
  <2>2. Sums(F(u), h, u) /\ Sums(F(v), h, v)
    BY <1>3, <1>6, <2>1
  <2>3. F(u)[u] = h[Pick(u)] + F(u)[v]
    BY <1>6, <2>1, <2>2, SumAt
  <2> HIDE DEF v
  <2>4. Within(F(u), h, u, h, v) /\ IsSum(F(v), h, v)
    BY <2>1, <2>2 DEF Within, Agree, Sums
  <2>5. \A s \in SUBSET v : F(u)[s] = F(v)[s]
    BY <2>4, SumUnique
  <2> QED BY <2>1, <2>3, <2>5 DEF v
<1> HIDE DEF At
<1>7. \A s \in SUBSET E : s # {} =>
        /\ Pick(s) \in s /\ h[Pick(s)] \in Int
        /\ s \ {Pick(s)} \in SUBSET E /\ s \ {Pick(s)} # E
  BY <1>2, PickInSet DEF Numbers
<1>8. \A s \in SUBSET E : g[s] = IF s = {} THEN 0 ELSE h[Pick(s)] + At(s \ {Pick(s)})
  OBVIOUS
<1>9. g \in [SUBSET E -> Int]
  BY <1>4, <1>7
<1>10. \A u \in SUBSET E : u # E => g[u] = At(u)
  BY <1>5, <1>6, <1>8
<1>11. IsSum(g, h, E)
  <2>1. \A s \in SUBSET E : g[s] = IF s = {} THEN 0 ELSE h[Pick(s)] + g[s \ {Pick(s)}]
    BY <1>7, <1>8, <1>10
  <2> HIDE DEF g
  <2> QED BY <1>9, <2>1 DEF IsSum
<1> HIDE DEF g
<1>12. Sums(g, h, E)
  <2>1. Numbers(h, E)
    BY <1>2, FS_Subset DEF Numbers
  <2> QED BY <1>9, <1>11, <2>1 DEF Sums
<1> QED BY <1>2, <1>12

\* Any element may be the one that is picked.
LEMMA SumTakes ==
  ASSUME NEW D, NEW h, NEW f, Sums(f, h, D)
  PROVE  \A s \in SUBSET D : \A x \in s : f[s] = h[x] + f[s \ {x}]
<1> DEFINE Bad == {u \in SUBSET D : \E y \in u : f[u] # h[y] + f[u \ {y}]}
<1> SUFFICES ASSUME Bad # {} PROVE FALSE
  OBVIOUS
<1>1. PICK u \in Bad : \A v \in SUBSET u : v # u => v \notin Bad
  <2> HIDE DEF Bad
  <2>1. Bad \in SUBSET (SUBSET D) /\ IsFiniteSet(D)
    BY DEF Bad, Sums, Numbers
  <2> QED BY <2>1, SmallestSubset
<1>2. PICK y \in u : u \in SUBSET D /\ f[u] # h[y] + f[u \ {y}]
  OBVIOUS
<1> DEFINE p == Pick(u)
<1>3. p \in u /\ f[u] = h[p] + f[u \ {p}]
  <2>1. u # {}
    BY <1>2
  <2> QED BY <1>2, <2>1, PickInSet, SumAt
<1>4. p # y
  BY <1>2, <1>3
<1> HIDE DEF p
<1>5. /\ u \ {p} \in SUBSET D /\ u \ {p} \in SUBSET u /\ u \ {p} # u /\ y \in u \ {p}
      /\ u \ {y} \in SUBSET D /\ u \ {y} \in SUBSET u /\ u \ {y} # u /\ p \in u \ {y}
      /\ (u \ {p}) \ {y} = (u \ {y}) \ {p}
      /\ (u \ {y}) \ {p} \in SUBSET D
  BY <1>2, <1>3, <1>4
<1>6. f[u \ {p}] = h[y] + f[(u \ {p}) \ {y}] /\ f[u \ {y}] = h[p] + f[(u \ {y}) \ {p}]
  <2>1. u \ {p} \notin Bad /\ u \ {y} \notin Bad
    BY <1>1, <1>5
  <2> QED BY <1>5, <2>1
<1> DEFINE rest == f[(u \ {y}) \ {p}]
<1>7. h[p] \in Int /\ h[y] \in Int /\ rest \in Int
  BY <1>2, <1>3, <1>5, SumAt DEF Sums, Numbers
<1>8. f[u \ {p}] = h[y] + rest /\ f[u \ {y}] = h[p] + rest
  BY <1>5, <1>6
<1> HIDE DEF rest
<1> QED BY <1>2, <1>3, <1>7, <1>8

LEMMA SumSplits ==
  ASSUME NEW D, NEW h, NEW f, Sums(f, h, D),
         NEW A \in SUBSET D, NEW B \in SUBSET D, A \cap B = {}
  PROVE  f[A \cup B] = f[A] + f[B]
<1> DEFINE Bad == {u \in SUBSET B : f[A \cup u] # f[A] + f[u]}
<1> SUFFICES ASSUME Bad # {} PROVE FALSE
  OBVIOUS
<1>1. PICK u \in Bad : \A v \in SUBSET u : v # u => v \notin Bad
  <2> HIDE DEF Bad
  <2>1. Bad \in SUBSET (SUBSET B) /\ IsFiniteSet(B)
    BY FS_Subset DEF Bad, Sums, Numbers
  <2> QED BY <2>1, SmallestSubset
<1>2. u \in SUBSET B /\ u \in SUBSET D /\ f[A \cup u] # f[A] + f[u]
  OBVIOUS
<1>3. u # {}
  <2> SUFFICES ASSUME u = {} PROVE FALSE
    OBVIOUS
  <2>1. f[u] = 0 /\ A \cup u = A /\ f[A] \in Int
    BY <1>2, SumAt
  <2> QED BY <1>2, <2>1
<1>4. PICK x \in u : TRUE
  BY <1>3
<1>5. /\ u \ {x} \in SUBSET u /\ u \ {x} # u
      /\ (A \cup u) \ {x} = A \cup (u \ {x})
      /\ A \cup u \in SUBSET D /\ x \in A \cup u
      /\ u \ {x} \in SUBSET D
  BY <1>2, <1>4
<1>6. f[A \cup (u \ {x})] = f[A] + f[u \ {x}]
  BY <1>1, <1>2, <1>5
<1> HIDE DEF Bad
<1>7. f[u] = h[x] + f[u \ {x}]
  BY <1>2, <1>4, SumTakes
<1>8. f[A \cup u] = h[x] + f[(A \cup u) \ {x}]
  BY <1>5, SumTakes
<1>9. f[A \cup u] = h[x] + f[A \cup (u \ {x})]
  BY <1>5, <1>8
<1>10. h[x] \in Int /\ f[A] \in Int /\ f[u \ {x}] \in Int
  BY <1>2, <1>4, <1>5, SumAt DEF Sums, Numbers
<1> QED BY <1>2, <1>6, <1>7, <1>9, <1>10

\* The sum of the numbers h over the set D.
Total(h, D) == (CHOOSE f : IsSum(f, h, D))[D]

LEMMA TotalIsSum ==
  ASSUME NEW D, NEW h, NEW f, Sums(f, h, D), NEW E \in SUBSET D,
         NEW j, Agree(h, j, E)
  PROVE  Total(j, E) = f[E]
<1>1. Numbers(j, E)
  BY FS_Subset DEF Sums, Numbers, Agree
<1>2. \E g : IsSum(g, j, E)
  BY <1>1, SumExists DEF Sums
<1> DEFINE t == CHOOSE g : IsSum(g, j, E)
<1>3. IsSum(t, j, E)
  BY <1>2
<1> HIDE DEF t
<1>4. Within(f, h, D, j, E) /\ E \in SUBSET E
  BY DEF Within
<1>5. \A s \in SUBSET E : f[s] = t[s]
  BY <1>3, <1>4, SumUnique
<1> QED BY <1>4, <1>5 DEF Total, t

LEMMA TotalSplits ==
  ASSUME NEW A, NEW B, A \cap B = {}, NEW h, Numbers(h, A \cup B)
  PROVE  /\ Total(h, A) \in Int /\ Total(h, B) \in Int
         /\ Total(h, A \cup B) = Total(h, A) + Total(h, B)
<1> DEFINE D == A \cup B
<1>1. PICK f : Sums(f, h, D)
  BY SumExists
<1> HIDE DEF D
<1>2. A \in SUBSET D /\ B \in SUBSET D /\ D \in SUBSET D /\ D = A \cup B
  BY DEF D
<1>3. Agree(h, h, A) /\ Agree(h, h, B) /\ Agree(h, h, D)
  BY DEF Agree
<1>4. Total(h, A) = f[A] /\ Total(h, B) = f[B] /\ Total(h, D) = f[D]
  BY <1>1, <1>2, <1>3, TotalIsSum
<1>5. f[A \cup B] = f[A] + f[B]
  BY <1>1, <1>2, SumSplits
<1> QED BY <1>1, <1>2, <1>4, <1>5, SumAt

LEMMA TotalOne ==
  ASSUME NEW x, NEW h, h[x] \in Int
  PROVE  Total(h, {x}) = h[x]
<1> DEFINE D == {x}
<1>1. Numbers(h, D) /\ Agree(h, h, D)
  BY FS_Singleton DEF Numbers, Agree
<1>2. PICK f : Sums(f, h, D)
  BY <1>1, SumExists
<1> HIDE DEF D
<1>3. Total(h, D) = f[D]
  BY <1>1, <1>2, TotalIsSum
<1>4. D \in SUBSET D /\ x \in D /\ D \ {x} = {} /\ {} \in SUBSET D
  BY DEF D
<1>5. f[D] = h[x] + f[D \ {x}]
  BY <1>2, <1>4, SumTakes
<1>6. f[{}] = 0
  BY <1>2, <1>4, SumAt
<1> QED BY <1>3, <1>4, <1>5, <1>6 DEF D

LEMMA TotalNothing ==
  ASSUME NEW h
  PROVE  Numbers(h, {}) /\ Total(h, {}) = 0
<1> DEFINE D == {}
<1>1. Numbers(h, D) /\ Agree(h, h, D)
  BY FS_EmptySet DEF Numbers, Agree
<1>2. PICK f : Sums(f, h, D)
  BY <1>1, SumExists
<1>3. D \in SUBSET D
  OBVIOUS
<1>4. f[D] = 0
  BY <1>2, SumAt
<1> HIDE DEF D
<1>5. Total(h, D) = f[D]
  BY <1>1, <1>2, <1>3, TotalIsSum
<1> QED BY <1>1, <1>4, <1>5 DEF D

LEMMA TotalType ==
  ASSUME NEW D, NEW h, Numbers(h, D)
  PROVE  Total(h, D) \in Int
<1>1. PICK f : Sums(f, h, D)
  BY SumExists
<1>2. Agree(h, h, D) /\ D \in SUBSET D
  BY DEF Agree
<1>3. Total(h, D) = f[D]
  BY <1>1, <1>2, TotalIsSum
<1> QED BY <1>1, <1>2, <1>3, SumAt

\* Whatever satisfies the recursion gives the sum.
LEMMA SumIsTotal ==
  ASSUME NEW D, NEW h, Numbers(h, D), NEW t, IsSum(t, h, D)
  PROVE  t[D] = Total(h, D)
<1>1. PICK f : Sums(f, h, D)
  BY SumExists
<1>2. Agree(h, h, D) /\ D \in SUBSET D /\ Within(f, h, D, h, D)
  BY <1>1 DEF Agree, Within
<1>3. \A s \in SUBSET D : f[s] = t[s]
  BY <1>2, SumUnique
<1> QED BY <1>1, <1>2, <1>3, TotalIsSum

-----------------------------------------------------------------------------
(* What a row of a table does to an account. *)

\* The sum of the column amount.
LEMMA AmountTotal ==
  ASSUME NEW R, NEW h, Numbers(h, R), \A r \in R : h[r] = r.amount
  PROVE  SumAmounts(R) = Total(h, R)
<1> DEFINE Q(g) == g = [s \in SUBSET R |->
                          IF s = {} THEN 0 ELSE Pick(s).amount + g[s \ {Pick(s)}]]
<1>1. SumAmounts(R) = (CHOOSE g : Q(g))[R]
  BY DEF SumAmounts, MapThenSumSet, MapThenFoldSet, Pick
<1>2. \A g : Q(g) <=> IsSum(g, h, R)
  BY PickInSet DEF IsSum
<1> DEFINE t == CHOOSE g : Q(g)
<1> HIDE DEF Q
<1>3. \E f : IsSum(f, h, R)
  BY SumExists DEF Sums
<1>4. IsSum(t, h, R)
  BY <1>2, <1>3
<1> HIDE DEF t
<1> QED BY <1>1, <1>4, SumIsTotal DEF t

LEMMA FeeTotal ==
  ASSUME NEW R, NEW h, Numbers(h, R), \A t \in R : h[t] = FeeOf[t].fee
  PROVE  MapThenSumSet(LAMBDA t : FeeOf[t].fee, R) = Total(h, R)
<1> DEFINE Q(g) == g = [s \in SUBSET R |->
                          IF s = {} THEN 0 ELSE FeeOf[Pick(s)].fee + g[s \ {Pick(s)}]]
<1>1. MapThenSumSet(LAMBDA t : FeeOf[t].fee, R) = (CHOOSE g : Q(g))[R]
  BY DEF MapThenSumSet, MapThenFoldSet, Pick
<1>2. \A g : Q(g) <=> IsSum(g, h, R)
  BY PickInSet DEF IsSum
<1> DEFINE t == CHOOSE g : Q(g)
<1> HIDE DEF Q
<1>3. \E f : IsSum(f, h, R)
  BY SumExists DEF Sums
<1>4. IsSum(t, h, R)
  BY <1>2, <1>3
<1> HIDE DEF t
<1> QED BY <1>1, <1>4, SumIsTotal DEF t

LEMMA ContributionTotal ==
  ASSUME NEW R, NEW k, NEW h, Numbers(h, R), \A r \in R : h[r] = RowChange(r[1], r[2], k)
  PROVE  Contribution(R, k) = Total(h, R)
<1> DEFINE Q(g) == g = [s \in SUBSET R |->
                          IF s = {} THEN 0
                          ELSE RowChange(Pick(s)[1], Pick(s)[2], k) + g[s \ {Pick(s)}]]
<1>1. Contribution(R, k) = (CHOOSE g : Q(g))[R]
  BY DEF Contribution, MapThenSumSet, MapThenFoldSet, Pick
<1>2. \A g : Q(g) <=> IsSum(g, h, R)
  BY PickInSet DEF IsSum
<1> DEFINE t == CHOOSE g : Q(g)
<1> HIDE DEF Q
<1>3. \E f : IsSum(f, h, R)
  BY SumExists DEF Sums
<1>4. IsSum(t, h, R)
  BY <1>2, <1>3
<1> HIDE DEF t
<1> QED BY <1>1, <1>4, SumIsTotal DEF t

LEMMA SumType ==
  ASSUME NEW R, IsFiniteSet(R), \A r \in R : r.amount \in Nat
  PROVE  SumAmounts(R) \in Int
<1> DEFINE h == [r \in R |-> r.amount]
<1>1. Numbers(h, R) /\ \A r \in R : h[r] = r.amount
  BY DEF Numbers
<1> HIDE DEF h
<1> QED BY <1>1, AmountTotal, TotalType

LEMMA SumNothing == SumAmounts({}) = 0
<1> DEFINE h == [r \in {} |-> r.amount]
<1>1. Numbers(h, {}) /\ Total(h, {}) = 0
  BY TotalNothing
<1> HIDE DEF h
<1>2. \A r \in {} : h[r] = r.amount
  OBVIOUS
<1> QED BY <1>1, <1>2, AmountTotal

LEMMA FeesType ==
  ASSUME NEW b \in Block, NEW k
  PROVE  Fees(b, k) \in Int
<1> USE BalanceAssumption
<1> DEFINE R == {x \in TxsOf[b] : Payer(x) = k}
           h == [x \in R |-> FeeOf[x].fee]
<1>1. R \subseteq Tx /\ IsFiniteSet(R)
  BY TxAssumption, FS_Subset
<1>2. Numbers(h, R) /\ \A x \in R : h[x] = FeeOf[x].fee
  BY <1>1 DEF Numbers
<1> HIDE DEF h, R
<1>3. MapThenSumSet(LAMBDA x : FeeOf[x].fee, R) = Total(h, R)
  BY <1>2, FeeTotal
<1> QED BY <1>2, <1>3, TotalType DEF Fees, R

LEMMA RowChangeType ==
  ASSUME NEW t \in BalanceTables, NEW b \in Block, NEW k
  PROVE  RowChange(t, b, k) \in Int
<1> USE BalanceAssumption
<1>1. Fees(b, k) \in Int
  BY FeesType
<1>2. \A R : R \subseteq RewardsOf[b] => SumAmounts(R) \in Int
  BY FS_Subset, SumType
<1>3. Rewards(b, k) \in Int
  BY <1>2 DEF Rewards
<1>4. \A R : R \subseteq EventsOf[b] => SumAmounts(R) \in Int
  BY FS_Subset, SumType DEF AssetEvent
<1>5. EventChange(t, b, k) \in Int
  BY <1>4 DEF EventChange
<1> QED BY <1>1, <1>3, <1>5 DEF RowChange

-----------------------------------------------------------------------------
(* Contributions. *)

\* A finite set of rows, each of a table and a block.
RowsOfBlocks(R) == R \subseteq BalanceTables \X Block /\ IsFiniteSet(R)

LEMMA RowNumbers ==
  ASSUME NEW R, RowsOfBlocks(R), NEW k
  PROVE  LET h == [r \in R |-> RowChange(r[1], r[2], k)]
         IN Numbers(h, R) /\ \A r \in R : h[r] = RowChange(r[1], r[2], k)
<1>1. \A r \in R : RowChange(r[1], r[2], k) \in Int
  <2> SUFFICES ASSUME NEW r \in R PROVE RowChange(r[1], r[2], k) \in Int
    OBVIOUS
  <2>1. r[1] \in BalanceTables /\ r[2] \in Block
    BY DEF RowsOfBlocks
  <2> QED BY <2>1, RowChangeType
<1> QED BY <1>1 DEF Numbers, RowsOfBlocks

LEMMA ContributionType ==
  ASSUME NEW R, RowsOfBlocks(R), NEW k
  PROVE  Contribution(R, k) \in Int
<1> DEFINE h == [r \in R |-> RowChange(r[1], r[2], k)]
<1>1. Numbers(h, R) /\ \A r \in R : h[r] = RowChange(r[1], r[2], k)
  BY RowNumbers
<1> HIDE DEF h
<1> QED BY <1>1, ContributionTotal, TotalType

LEMMA ContributionNothing ==
  ASSUME NEW k
  PROVE  RowsOfBlocks({}) /\ Contribution({}, k) = 0
<1> DEFINE h == [r \in {} |-> RowChange(r[1], r[2], k)]
<1>1. Numbers(h, {}) /\ Total(h, {}) = 0
  BY TotalNothing
<1> HIDE DEF h
<1>2. \A r \in {} : h[r] = RowChange(r[1], r[2], k)
  OBVIOUS
<1>3. Contribution({}, k) = Total(h, {})
  BY <1>1, <1>2, ContributionTotal
<1> QED BY <1>1, <1>3, FS_EmptySet DEF RowsOfBlocks

\* The contribution of rows is that of a part and of the rest.
LEMMA ContributionSplits ==
  ASSUME NEW A, NEW B, A \cap B = {}, RowsOfBlocks(A), RowsOfBlocks(B), NEW k
  PROVE  /\ RowsOfBlocks(A \cup B)
         /\ Contribution(A \cup B, k) = Contribution(A, k) + Contribution(B, k)
<1> DEFINE R == A \cup B
           h == [r \in R |-> RowChange(r[1], r[2], k)]
<1>1. RowsOfBlocks(R)
  BY FS_Union DEF RowsOfBlocks
<1>2. Numbers(h, R) /\ \A r \in R : h[r] = RowChange(r[1], r[2], k)
  BY <1>1, RowNumbers
<1> HIDE DEF h
<1>3. Numbers(h, A) /\ Numbers(h, B)
  BY <1>2, FS_Subset DEF Numbers
<1>4. /\ \A r \in A : h[r] = RowChange(r[1], r[2], k)
      /\ \A r \in B : h[r] = RowChange(r[1], r[2], k)
  BY <1>2
<1>5. Contribution(A, k) = Total(h, A) /\ Contribution(B, k) = Total(h, B)
  BY <1>3, <1>4, ContributionTotal
<1>6. Contribution(R, k) = Total(h, R)
  BY <1>2, ContributionTotal
<1>7. Total(h, R) = Total(h, A) + Total(h, B)
  BY <1>2, TotalSplits
<1> QED BY <1>1, <1>5, <1>6, <1>7

LEMMA ContributionOne ==
  ASSUME NEW t \in BalanceTables, NEW b \in Block, NEW k
  PROVE  RowsOfBlocks({<<t, b>>}) /\ Contribution({<<t, b>>}, k) = RowChange(t, b, k)
<1> DEFINE x == <<t, b>>
           h == [r \in {x} |-> RowChange(r[1], r[2], k)]
<1>1. RowsOfBlocks({x})
  <2>1. {x} \subseteq BalanceTables \X Block
    OBVIOUS
  <2>2. IsFiniteSet({x})
    BY FS_Singleton
  <2> QED BY <2>1, <2>2 DEF RowsOfBlocks
<1>2. Numbers(h, {x}) /\ \A r \in {x} : h[r] = RowChange(r[1], r[2], k)
  BY <1>1, RowNumbers
<1>3. h[x] = RowChange(t, b, k) /\ h[x] \in Int
  BY <1>2, RowChangeType
<1> HIDE DEF h
<1>4. Contribution({x}, k) = Total(h, {x})
  BY <1>2, ContributionTotal
<1>5. Total(h, {x}) = h[x]
  BY <1>3, TotalOne
<1> QED BY <1>1, <1>3, <1>4, <1>5

\* The rows of one block.
LEMMA BlockContribution ==
  ASSUME NEW b \in Block, NEW k
  PROVE  /\ RowsOfBlocks(BalanceTables \X {b})
         /\ Contribution(BalanceTables \X {b}, k)
              = RowChange("txs", b, k) + RowChange("miner_rewards", b, k)
                  + RowChange("stx_events", b, k) + RowChange("ft_events", b, k)
<1> DEFINE one(t) == {<<t, b>>}
           two == one("txs") \cup one("miner_rewards")
           three == two \cup one("stx_events")
           four == three \cup one("ft_events")
<1>0. \A t \in BalanceTables : RowsOfBlocks(one(t)) /\ Contribution(one(t), k) = RowChange(t, b, k)
  BY ContributionOne
<1>1. /\ "txs" \in BalanceTables /\ "miner_rewards" \in BalanceTables
      /\ "stx_events" \in BalanceTables /\ "ft_events" \in BalanceTables
  BY DEF BalanceTables
<1>2. RowsOfBlocks(two) /\ Contribution(two, k) = RowChange("txs", b, k) + RowChange("miner_rewards", b, k)
  <2>1. one("txs") \cap one("miner_rewards") = {}
    OBVIOUS
  <2> HIDE DEF one
  <2> QED BY <1>0, <1>1, <2>1, ContributionSplits
<1>3. RowsOfBlocks(three) /\ Contribution(three, k) = Contribution(two, k) + RowChange("stx_events", b, k)
  <2>1. two \cap one("stx_events") = {}
    OBVIOUS
  <2> HIDE DEF one, two
  <2> QED BY <1>0, <1>1, <1>2, <2>1, ContributionSplits
<1>4. RowsOfBlocks(four) /\ Contribution(four, k) = Contribution(three, k) + RowChange("ft_events", b, k)
  <2>1. three \cap one("ft_events") = {}
    OBVIOUS
  <2>2. RowsOfBlocks(one("ft_events")) /\ Contribution(one("ft_events"), k) = RowChange("ft_events", b, k)
    BY <1>0, <1>1
  <2> HIDE DEF one, three
  <2> QED BY <1>3, <2>1, <2>2, ContributionSplits
<1>5. four = BalanceTables \X {b}
  BY DEF BalanceTables
<1> HIDE DEF four, three, two
<1> QED BY <1>2, <1>3, <1>4, <1>5

\* The two ways to move the balances agree: what update() adds for a new block
\* is what markEntitiesCanonical adds when it flips the block's rows.
LEMMA InsertionIsFlip ==
  ASSUME NEW b \in Block, NEW k \in Account
  PROVE  /\ UpdateStxBalances(b, k) \in Int /\ UpdateFtBalances(b, k) \in Int
         /\ UpdateStxBalances(b, k) + UpdateFtBalances(b, k)
              = Contribution(BalanceTables \X {b}, k)
<1> USE BalanceAssumption
<1> DEFINE es(t) == {e \in EventsOf[b] : e.table = t}
           gain(t) == SumAmounts({e \in es(t) : e.recipient = k})
           loss(t) == SumAmounts({e \in es(t) : e.sender = k})
<1>1. ASSUME NEW t \in {"stx_events", "ft_events"}
      PROVE  RowChange(t, b, k) = gain(t) - loss(t) /\ gain(t) \in Int /\ loss(t) \in Int
  <2>1. {e \in es(t) : e.kind \in {"transfer", "mint"} /\ e.recipient = k}
          = {e \in es(t) : e.recipient = k}
    BY DEF AssetEvent
  <2>2. {e \in es(t) : e.kind \in {"transfer", "burn"} /\ e.sender = k}
          = {e \in es(t) : e.sender = k}
    BY DEF AssetEvent
  <2>3. RowChange(t, b, k) = gain(t) - loss(t)
    BY <2>1, <2>2 DEF RowChange, EventChange
  <2>4. /\ IsFiniteSet({e \in es(t) : e.recipient = k})
        /\ IsFiniteSet({e \in es(t) : e.sender = k})
        /\ \A e \in es(t) : e.amount \in Nat
    BY FS_Subset DEF AssetEvent
  <2>5. gain(t) \in Int /\ loss(t) \in Int
    BY <2>4, SumType
  <2> QED BY <2>3, <2>5
<1>2. RowChange("txs", b, k) = -Fees(b, k) /\ RowChange("miner_rewards", b, k) = Rewards(b, k)
  BY DEF RowChange
<1>3. RowChange("txs", b, k) \in Int /\ RowChange("miner_rewards", b, k) \in Int
  BY RowChangeType DEF BalanceTables
<1>4. Fees(b, k) \in Int
  BY FeesType
<1>5. UpdateStxBalances(b, k) = (gain("stx_events") - loss("stx_events")) - Fees(b, k) + Rewards(b, k)
  BY DEF UpdateStxBalances
<1>6. UpdateFtBalances(b, k) = gain("ft_events") - loss("ft_events")
  BY DEF UpdateFtBalances
<1>7. /\ RowChange("stx_events", b, k) = gain("stx_events") - loss("stx_events")
      /\ gain("stx_events") \in Int /\ loss("stx_events") \in Int
      /\ RowChange("ft_events", b, k) = gain("ft_events") - loss("ft_events")
      /\ gain("ft_events") \in Int /\ loss("ft_events") \in Int
  BY <1>1
<1> HIDE DEF gain, loss
<1>8. Contribution(BalanceTables \X {b}, k)
        = RowChange("txs", b, k) + RowChange("miner_rewards", b, k)
            + RowChange("stx_events", b, k) + RowChange("ft_events", b, k)
  BY BlockContribution
<1> QED BY <1>2, <1>3, <1>4, <1>5, <1>6, <1>7, <1>8

-----------------------------------------------------------------------------
(* The steps of update(). *)

\* RowSet and BootBalance for given blocks and a given place of the boot data.
RowsIn(B, rs) == {r \in BalanceTables \X B : r[2] \in rs[r[1]]}

BootIn(B, bt, k) ==
  IF Genesis \in B /\ bt = Genesis THEN Contribution(BalanceTables \X {Genesis}, k) ELSE 0

\* The balances are those of the canonical rows and, before block 1, of the
\* boot data.
Right(bal, B, rs, bt) ==
  /\ bal \in [Account -> Int]
  /\ \A k \in Account : bal[k] = Contribution(RowsIn(B, rs), k) + BootIn(B, bt, k)

BalanceInv ==
  /\ EntityInv
  /\ Right(balance, blocks, rows, boot)
  /\ Right(balanceWork, blocks, work.rows, boot)

LEMMA BootType ==
  ASSUME NEW B, NEW bt, NEW k
  PROVE  BootIn(B, bt, k) \in Int
<1> DEFINE G == BalanceTables \X {Genesis}
<1>1. Genesis \in Block
  BY BlockAssumption
<1>2. RowsOfBlocks(G)
  BY <1>1, BlockContribution
<1> HIDE DEF G
<1>3. Contribution(G, k) \in Int
  BY <1>2, ContributionType
<1> QED BY <1>3 DEF BootIn, G

LEMMA StoredRows ==
  ASSUME NEW B, B \subseteq Block, IsFiniteSet(B), NEW rs
  PROVE  RowsOfBlocks(RowsIn(B, rs))
<1>1. IsFiniteSet(BalanceTables)
  <2>1. /\ IsFiniteSet({"txs"}) /\ IsFiniteSet({"miner_rewards"})
        /\ IsFiniteSet({"stx_events"}) /\ IsFiniteSet({"ft_events"})
    BY FS_Singleton
  <2>2. IsFiniteSet({"txs"} \cup {"miner_rewards"}) /\ IsFiniteSet({"stx_events"} \cup {"ft_events"})
    BY <2>1, FS_Union
  <2>3. IsFiniteSet(({"txs"} \cup {"miner_rewards"}) \cup ({"stx_events"} \cup {"ft_events"}))
    BY <2>2, FS_Union
  <2>4. BalanceTables = ({"txs"} \cup {"miner_rewards"}) \cup ({"stx_events"} \cup {"ft_events"})
    BY DEF BalanceTables
  <2> QED BY <2>3, <2>4
<1>2. IsFiniteSet(BalanceTables \X B)
  BY <1>1, FS_Product
<1>3. RowsIn(B, rs) \subseteq BalanceTables \X B
  BY DEF RowsIn
<1>4. IsFiniteSet(RowsIn(B, rs))
  BY <1>2, <1>3, FS_Subset
<1> QED BY <1>3, <1>4 DEF RowsOfBlocks

\* What a set of rows gains less what it loses is what it contributes more.
LEMMA FlipDifference ==
  ASSUME NEW A, NEW B, RowsOfBlocks(A), RowsOfBlocks(B), NEW k
  PROVE  /\ Contribution(B \ A, k) \in Int /\ Contribution(A \ B, k) \in Int
         /\ Contribution(A, k) \in Int /\ Contribution(B, k) \in Int
         /\ Contribution(B \ A, k) - Contribution(A \ B, k)
              = Contribution(B, k) - Contribution(A, k)
<1> DEFINE C == A \cap B
           D == A \ B
           E == B \ A
<1>1. RowsOfBlocks(C) /\ RowsOfBlocks(D) /\ RowsOfBlocks(E)
  BY FS_Subset DEF RowsOfBlocks
<1>2. C \cap D = {} /\ C \cap E = {} /\ A = C \cup D /\ B = C \cup E
  OBVIOUS
<1> HIDE DEF C, D, E
<1>3. /\ Contribution(A, k) = Contribution(C, k) + Contribution(D, k)
      /\ Contribution(B, k) = Contribution(C, k) + Contribution(E, k)
  BY <1>1, <1>2, ContributionSplits
<1>4. Contribution(C, k) \in Int /\ Contribution(D, k) \in Int /\ Contribution(E, k) \in Int
  BY <1>1, ContributionType
<1> QED BY <1>3, <1>4 DEF D, E

LEMMA FlipRight ==
  ASSUME TypeInv, NEW bal, NEW old, NEW new, NEW bt, Right(bal, blocks, old, bt)
  PROVE  Right(FlipBalances(bal, old, new), blocks, new, bt)
<1> DEFINE A == RowsIn(blocks, old)
           B == RowsIn(blocks, new)
           n == FlipBalances(bal, old, new)
<1>1. RowsOfBlocks(A) /\ RowsOfBlocks(B)
  BY StoredRows DEF TypeInv, TypeOK
<1>2. n = [k \in Account |-> (bal[k] + Contribution(B \ A, k)) - Contribution(A \ B, k)]
  BY DEF FlipBalances, RowSet, RowsIn
<1> HIDE DEF A, B, n
<1>3. ASSUME NEW k \in Account
      PROVE  n[k] \in Int /\ n[k] = Contribution(B, k) + BootIn(blocks, bt, k)
  <2>1. bal[k] = Contribution(A, k) + BootIn(blocks, bt, k) /\ bal[k] \in Int
    BY DEF Right, A
  <2>2. n[k] = (bal[k] + Contribution(B \ A, k)) - Contribution(A \ B, k)
    BY <1>2
  <2>3. /\ Contribution(B \ A, k) \in Int /\ Contribution(A \ B, k) \in Int
        /\ Contribution(A, k) \in Int /\ Contribution(B, k) \in Int
        /\ Contribution(B \ A, k) - Contribution(A \ B, k)
             = Contribution(B, k) - Contribution(A, k)
    BY <1>1, FlipDifference
  <2>4. BootIn(blocks, bt, k) \in Int
    BY BootType
  <2> QED BY <2>1, <2>2, <2>3, <2>4
<1>4. n \in [Account -> Int]
  BY <1>2, <1>3
<1> QED BY <1>3, <1>4 DEF Right, B, n

LEMMA RestoreBalances ==
  ASSUME BalanceInv, BRestoreOrphanedChain
  PROVE  Right(balance, blocks, rows, boot)' /\ Right(balanceWork, blocks, work.rows, boot)'
<1> DEFINE D == RowsWithout(OrphanedBy(job.cursor))
           m1 == FlipBalances(balanceWork, work.rows, D)
<1>1. TypeInv
  BY DEF BalanceInv, EntityInv, ChainInv
<1>2. /\ UNCHANGED <<blocks, rows, boot, balance>>
      /\ balanceWork' = FlipBalances(m1, D, work'.rows)
  BY DEF BRestoreOrphanedChain, RestoreOrphanedChain, dbVars
<1> HIDE DEF D
<1>3. Right(m1, blocks, D, boot)
  BY <1>1, FlipRight DEF BalanceInv
<1> HIDE DEF m1
<1>4. Right(balanceWork', blocks, work'.rows, boot)
  BY <1>1, <1>2, <1>3, FlipRight
<1> QED BY <1>2, <1>4 DEF BalanceInv, Right, RowsIn, BootIn

\* The boot data brings no miner rewards, so their row says nothing.
BootReward == {<<"miner_rewards", Genesis>>}

LEMMA BootRewardIsNothing ==
  ASSUME NEW R, RowsOfBlocks(R), NEW k
  PROVE  Contribution(R \cup BootReward, k) = Contribution(R, k)
<1>1. Genesis \in Block /\ "miner_rewards" \in BalanceTables
  BY BlockAssumption DEF BalanceTables
<1>2. RowsOfBlocks(BootReward)
  BY <1>1, ContributionOne DEF BootReward
<1>3. Contribution(BootReward, k) = RowChange("miner_rewards", Genesis, k)
  BY <1>1, ContributionOne DEF BootReward
<1>4. RowChange("miner_rewards", Genesis, k) = SumAmounts({})
  <2>1. {r \in RewardsOf[Genesis] : r.recipient = k} = {}
    BY BalanceAssumption
  <2> QED BY <2>1 DEF RowChange, Rewards
<1>5. SumAmounts({}) = 0
  BY SumNothing
<1>6. CASE BootReward \subseteq R
  <2>1. R \cup BootReward = R
    BY <1>6
  <2> QED BY <2>1
<1>7. CASE R \cap BootReward = {}
  <2>1. Contribution(R \cup BootReward, k) = Contribution(R, k) + Contribution(BootReward, k)
    BY <1>2, <1>7, ContributionSplits
  <2>2. Contribution(R, k) \in Int
    BY ContributionType
  <2> QED BY <1>3, <1>4, <1>5, <2>1, <2>2
<1>8. BootReward \subseteq R \/ R \cap BootReward = {}
  BY DEF BootReward
<1> QED BY <1>6, <1>7, <1>8

\* What the end of update() does to the rows and to the place of the boot
\* data, in the terms of the balances: it adds the new block's rows if they
\* count.
LEMMA CommitRows ==
  ASSUME BalanceInv, CommitUpdate, NEW k \in Account
  PROVE  Contribution(RowsIn(blocks', rows'), k) + BootIn(blocks', boot', k)
           = (Contribution(RowsIn(blocks, work.rows), k) + BootIn(blocks, boot, k))
               + (IF CountsInBalances(job.block)
                    THEN Contribution(BalanceTables \X {job.block}, k) ELSE 0)
<1> USE BlockAssumption
<1> DEFINE b == job.block
           R == RowsIn(blocks, work.rows)
           N == RowsIn(blocks', rows')
           X == BalanceTables \X {b}
           G == BalanceTables \X {Genesis}
<1>1. EntityInv /\ EntityInv'
  BY CommitFollows DEF BalanceInv
<1>2. /\ job.phase = "insert"
      /\ blocks' = blocks \cup {b}
      /\ rows' = NewRows(b)
      /\ boot' = IF FixesBlockZero(b) THEN b ELSE boot
  BY DEF CommitUpdate
<1>3. /\ b \in Block /\ Height[b] \in Nat /\ tip.height \in Nat
      /\ blocks \subseteq Block /\ IsFiniteSet(blocks) /\ boot \in Block
      /\ work.rows \in [Table -> SUBSET blocks]
      /\ Height[b] > 1 => Parent[b] \in blocks
  BY <1>1, <1>2 DEF EntityInv, ChainInv, JobInv, TypeInv, TypeOK
<1>4. IsCanonical(b) => b \notin blocks /\ b # Genesis
  BY <1>1, <1>3, AboveTip DEF EntityInv, ChainInv, IsCanonical
<1>5. FixesBlockZero(b) => IsCanonical(b) /\ blocks = {Genesis}
  <2> SUFFICES ASSUME FixesBlockZero(b) PROVE tip.height = 0 /\ blocks = {Genesis}
    BY <1>3 DEF FixesBlockZero, IsCanonical
  <2>1. blocks = {Genesis}
    BY <1>1 DEF FixesBlockZero, EntityInv, BootInv
  <2>2. tip.block # NoBlock => tip.block \in canonical /\ tip.height = Height[tip.block]
    BY <1>1 DEF EntityInv, ChainInv, CanonicalIsOneChain, IsChainTo
  <2> QED BY <1>1, <2>1, <2>2 DEF EntityInv, ChainInv, CanonicalIsOneChain, TypeInv, TypeOK
<1>6. /\ RowsOfBlocks(R) /\ RowsOfBlocks(N) /\ RowsOfBlocks(X) /\ RowsOfBlocks(G)
  <2>1. blocks' \subseteq Block /\ IsFiniteSet(blocks')
    BY <1>1 DEF EntityInv, ChainInv, TypeInv, TypeOK
  <2>2. RowsOfBlocks(R) /\ RowsOfBlocks(N)
    BY <1>3, <2>1, StoredRows
  <2> QED BY <1>3, <2>2, BlockContribution
<1>7. /\ Contribution(R, k) \in Int /\ Contribution(N, k) \in Int
      /\ Contribution(X, k) \in Int /\ Contribution(G, k) \in Int
  <2> HIDE DEF R, N, X, G
  <2> QED BY <1>6, ContributionType
<1>8. BootIn(blocks, boot, k) \in Int
  BY BootType
<1>t. BalanceTables \subseteq Table /\ BalanceTables \subseteq InsertTables
  BY DEF BalanceTables, Table, InsertTables, StxTables
<1>9. R \cap X = {} \/ b \in blocks
  BY DEF RowsIn
<1>10. CASE FixesBlockZero(b)
  <2>1. /\ CountsInBalances(b) /\ IsCanonical(b) /\ b # Genesis /\ b \notin blocks
        /\ blocks = {Genesis} /\ boot = Genesis
    BY <1>4, <1>5, <1>10 DEF CountsInBalances, FixesBlockZero
  <2>2. BootIn(blocks, boot, k) = Contribution(G, k) /\ BootIn(blocks', boot', k) = 0
    BY <1>2, <1>10, <2>1 DEF BootIn
  <2>3. R \subseteq BootReward
    <3>1. \A t \in BalanceTables \ {"miner_rewards"} : Genesis \notin work.rows[t]
      BY <1>1, <2>1 DEF EntityInv, RowsFollow, BalanceTables, BootTables
    <3> QED BY <2>1, <3>1 DEF RowsIn, BootReward
  <2>4. N \cup BootReward = G \cup X
    <3>1. \A t \in BalanceTables : b \in rows'[t]
      BY <1>2, <1>t, <2>1 DEF NewRows, InsertBlockRows
    <3>2. \A t \in BalanceTables \ {"miner_rewards"} : Genesis \in rows'[t]
      <4> SUFFICES ASSUME NEW t \in BalanceTables \ {"miner_rewards"}
                   PROVE  Genesis \in rows'[t]
        OBVIOUS
      <4>1. t \in Table /\ t \in BootTables
        BY <1>t DEF BalanceTables, BootTables
      <4>2. Genesis \in RowsAt(t, Genesis)
        BY <2>1, <4>1 DEF RowsAt, BalanceTables
      <4>3. Genesis \in FixBlockZeroData(work.rows)[t]
        BY <4>1, <4>2 DEF FixBlockZeroData
      <4> QED BY <1>2, <1>10, <2>1, <4>1, <4>3 DEF NewRows, InsertBlockRows
    <3>3. N = {r \in BalanceTables \X {Genesis, b} : r[2] \in rows'[r[1]]}
      BY <1>2, <2>1 DEF RowsIn
    <3>4. N \subseteq G \cup X /\ BootReward \subseteq G
      BY <3>3 DEF BootReward, BalanceTables
    <3>5. \A t \in BalanceTables : <<t, b>> \in N
      BY <3>1, <3>3
    <3>6. \A t \in BalanceTables \ {"miner_rewards"} : <<t, Genesis>> \in N
      BY <3>2, <3>3
    <3>7. G \cup X \subseteq N \cup BootReward
      <4> HIDE DEF N
      <4> QED BY <3>5, <3>6 DEF BootReward
    <3> HIDE DEF N, G, X
    <3> QED BY <3>4, <3>7
  <2>5. G \cap X = {}
    BY <2>1
  <2> HIDE DEF R, N, G, X
  <2>6. Contribution(N, k) = Contribution(G \cup X, k)
    BY <1>6, <2>4, BootRewardIsNothing
  <2>7. Contribution(G \cup X, k) = Contribution(G, k) + Contribution(X, k)
    <3>1. RowsOfBlocks(G) /\ RowsOfBlocks(X)
      BY <1>6
    <3> QED BY <2>5, <3>1, ContributionSplits
  <2>8. Contribution(R, k) = 0
    <3>1. RowsOfBlocks({}) /\ Contribution({}, k) = 0
      BY ContributionNothing
    <3>2. R \cup BootReward = {} \cup BootReward
      BY <2>3
    <3> QED BY <1>6, <3>1, <3>2, BootRewardIsNothing
  <2> QED BY <1>7, <2>1, <2>2, <2>6, <2>7, <2>8 DEF R, N, X
<1>11. CASE ~FixesBlockZero(b)
  <2>0. boot' = boot
    BY <1>2, <1>11
  <2>1. CASE IsCanonical(b)
    <3>1. CountsInBalances(b) /\ b # Genesis /\ b \notin blocks
      BY <1>4, <2>1 DEF CountsInBalances
    <3>2. BootIn(blocks', boot', k) = BootIn(blocks, boot, k)
      BY <1>2, <2>0, <3>1 DEF BootIn
    <3>3. N = R \cup X
      <4>1. \A t \in BalanceTables : rows'[t] = work.rows[t] \cup {b}
        BY <1>2, <1>11, <1>t, <2>1, <3>1 DEF NewRows, InsertBlockRows
      <4> QED BY <1>2, <4>1 DEF RowsIn
    <3> HIDE DEF R, N, X
    <3>4. Contribution(N, k) = Contribution(R, k) + Contribution(X, k)
      BY <1>6, <1>9, <3>1, <3>3, ContributionSplits
    <3> QED BY <1>7, <1>8, <3>1, <3>2, <3>4 DEF R, N, X
  <2>2. CASE ~IsCanonical(b)
    <3>1. rows' = work.rows
      BY <1>2, <1>11, <2>2 DEF NewRows, InsertBlockRows
    <3>2. N = R
      BY <1>2, <1>3, <1>t, <3>1 DEF RowsIn
    <3>3. CASE b \in blocks
      <4>1. ~CountsInBalances(b) /\ blocks' = blocks
        BY <1>2, <3>3 DEF CountsInBalances
      <4> HIDE DEF R, N
      <4> QED BY <1>7, <1>8, <2>0, <3>2, <4>1 DEF R, N
    <3>4. CASE b \notin blocks /\ Height[b] > 0
      <4>1. ~CountsInBalances(b) /\ b # Genesis
        BY <1>3, <2>2, <3>4 DEF CountsInBalances
      <4>2. BootIn(blocks', boot', k) = BootIn(blocks, boot, k)
        BY <1>2, <2>0, <4>1 DEF BootIn
      <4> HIDE DEF R, N
      <4> QED BY <1>7, <1>8, <3>2, <4>1, <4>2 DEF R, N
    <3>5. CASE b \notin blocks /\ Height[b] = 0
      <4>1. b = Genesis /\ CountsInBalances(b)
        BY <1>3, <3>5 DEF CountsInBalances
      <4>2. Genesis \notin blocks /\ boot = Genesis
        BY <1>1, <3>5, <4>1 DEF EntityInv, BootInv
      <4>3. BootIn(blocks, boot, k) = 0 /\ BootIn(blocks', boot', k) = Contribution(X, k)
        BY <1>2, <2>0, <4>1, <4>2 DEF BootIn
      <4> HIDE DEF R, N, X
      <4> QED BY <1>7, <3>2, <4>1, <4>3 DEF R, N, X
    <3> QED BY <1>3, <3>3, <3>4, <3>5
  <2> QED BY <2>1, <2>2
<1> QED BY <1>10, <1>11

LEMMA CommitBalances ==
  ASSUME BalanceInv, BCommitUpdate
  PROVE  Right(balance, blocks, rows, boot)' /\ Right(balanceWork, blocks, work.rows, boot)'
<1> DEFINE b == job.block
<1>1. /\ CommitUpdate /\ balanceWork' = balance' /\ work'.rows = rows'
      /\ balance' = [k \in Account |->
           IF CountsInBalances(b)
             THEN balanceWork[k] + UpdateStxBalances(b, k) + UpdateFtBalances(b, k)
             ELSE balanceWork[k]]
  BY DEF BCommitUpdate, CommitUpdate
<1>2. b \in Block
  BY <1>1 DEF CommitUpdate, BalanceInv, EntityInv, ChainInv, TypeInv, TypeOK
<1>3. ASSUME NEW k \in Account
      PROVE  /\ balance'[k] \in Int
             /\ balance'[k] = Contribution(RowsIn(blocks', rows'), k) + BootIn(blocks', boot', k)
  <2>1. /\ balanceWork[k] \in Int
        /\ balanceWork[k] = Contribution(RowsIn(blocks, work.rows), k) + BootIn(blocks, boot, k)
    BY DEF BalanceInv, Right
  <2>2. /\ Contribution(BalanceTables \X {b}, k) = UpdateStxBalances(b, k) + UpdateFtBalances(b, k)
        /\ UpdateStxBalances(b, k) \in Int /\ UpdateFtBalances(b, k) \in Int
    BY <1>2, InsertionIsFlip
  <2>3. balance'[k] = balanceWork[k]
          + (IF CountsInBalances(b) THEN Contribution(BalanceTables \X {b}, k) ELSE 0)
    BY <1>1, <2>1, <2>2
  <2>4. Contribution(RowsIn(blocks', rows'), k) + BootIn(blocks', boot', k)
          = balanceWork[k]
             + (IF CountsInBalances(b) THEN Contribution(BalanceTables \X {b}, k) ELSE 0)
    BY <1>1, <2>1, CommitRows
  <2> QED BY <2>1, <2>2, <2>3, <2>4
<1>4. Right(balance', blocks', rows', boot')
  <2>1. balance' \in [Account -> Int]
    BY <1>1, <1>3
  <2> QED BY <1>3, <2>1 DEF Right
<1> QED BY <1>1, <1>4 DEF Right, RowsIn, BootIn

-----------------------------------------------------------------------------
(* The balances along a behaviour. *)

\* Every step of the composition is a step of the chain store.
LEMMA DataRunsStore == [DNext]_dvars => [Next]_vars
BY DEF DNext, dvars, DBeginUpdate, DRestoreOrphanedChain, DCommitUpdate,
       DAbortUpdate, DNotify, DLoseMessage, DUpdateAttachments,
       BBeginUpdate, BRestoreOrphanedChain, BCommitUpdate, BAbortUpdate,
       Notify, LoseMessage, NmUpdateAttachments, Next

LEMMA BalanceStep == BalanceInv /\ [DNext]_dvars => BalanceInv'
<1> SUFFICES ASSUME BalanceInv, [DNext]_dvars PROVE BalanceInv'
  OBVIOUS
<1> USE DEF BalanceInv
<1>0. EntityInv'
  BY DataRunsStore, EntityStep
<1>1. ASSUME NEW b \in Block, DBeginUpdate(b) PROVE BalanceInv'
  BY <1>0, <1>1 DEF DBeginUpdate, BBeginUpdate, BeginUpdate, Right, RowsIn, BootIn
<1>2. CASE DRestoreOrphanedChain
  BY <1>0, <1>2, RestoreBalances DEF DRestoreOrphanedChain
<1>3. CASE DCommitUpdate
  BY <1>0, <1>3, CommitBalances DEF DCommitUpdate
<1>4. CASE DAbortUpdate
  BY <1>0, <1>4 DEF DAbortUpdate, BAbortUpdate, AbortUpdate, Committed, dbVars,
                    Right, RowsIn, BootIn
<1>5. CASE UNCHANGED <<vars, balance, balanceWork>>
  BY <1>0, <1>5 DEF vars, Right, RowsIn, BootIn
<1>6. ASSUME NEW b \in Block, DUpdateAttachments(b) PROVE BalanceInv'
  <2>1. UpdateAttachments(b) /\ UNCHANGED <<balance, balanceWork>>
    BY <1>6 DEF DUpdateAttachments, NmUpdateAttachments
  <2>2. /\ UNCHANGED <<blocks, boot>> /\ work'.rows = rows' /\ work.rows = rows
        /\ rows' = [rows EXCEPT !["subdomains"] =
                      IF b \in rows["txs"] THEN @ \cup {b} ELSE @ \ {b}]
        /\ rows \in [Table -> SUBSET blocks]
    BY <2>1 DEF UpdateAttachments, EntityInv, ChainInv, JobInv, Committed, TypeInv, TypeOK
  <2>3. \A t \in BalanceTables : rows'[t] = rows[t]
    BY <2>2 DEF BalanceTables, Table, InsertTables, StxTables
  <2>4. RowsIn(blocks', rows') = RowsIn(blocks, rows)
    BY <2>2, <2>3 DEF RowsIn
  <2>5. Right(balance', blocks', rows', boot') /\ Right(balanceWork', blocks', rows', boot')
    BY <2>1, <2>2, <2>4 DEF Right, BootIn
  <2> QED BY <1>0, <2>2, <2>5 DEF Right, RowsIn, BootIn
<1> QED BY <1>1, <1>2, <1>3, <1>4, <1>5, <1>6
        DEF DNext, dvars, DNotify, DLoseMessage, Notify, LoseMessage

LEMMA BalanceStart == DInit => BalanceInv
<1> SUFFICES ASSUME DInit PROVE BalanceInv
  OBVIOUS
<1>1. Init /\ balance = [k \in Account |-> 0] /\ balanceWork = balance
  BY DEF DInit, BInit
<1>2. EntityInv
  BY <1>1, EntityStart
<1>3. /\ RowsIn(blocks, rows) = {} /\ \A k : BootIn(blocks, boot, k) = 0
      /\ work.rows = rows
  BY <1>1 DEF Init, RowsIn, BootIn, Committed
<1>4. \A k : Contribution({}, k) = 0
  BY ContributionNothing
<1>5. Right(balance, blocks, rows, boot)
  BY <1>1, <1>3, <1>4 DEF Right
<1> QED BY <1>1, <1>2, <1>3, <1>5 DEF BalanceInv

\* For every tree of blocks and whatever they pay, mint and burn: after any
\* insertions, re-orgs and rolled back updates the balance that update() and
\* markEntitiesCanonical keep by deltas, with sums made twice, in TypeScript
\* and in SQL, is the one recalculated from the canonical rows.
THEOREM BalancesRight == DSpec => []BalancesMatchRows
<1>1. BalanceInv => BalancesMatchRows
  BY DEF BalanceInv, Right, RowsIn, BootIn, BalancesMatchRows,
         RecalculatedBalance, RowSet, BootBalance
<1> QED BY <1>1, BalanceStart, BalanceStep, PTL DEF DSpec

-----------------------------------------------------------------------------
(* Sequences of blocks, one per height. *)

\* A line of blocks whose i-th block has height h + i.
Climbs(s, h) ==
  /\ s \in Seq(Block)
  /\ IsLine(s)
  /\ \A i \in 1 .. Len(s) : Height[s[i]] = h + i

LEMMA SetOf ==
  ASSUME NEW s \in Seq(Block)
  PROVE  ToSet(s) = {s[i] : i \in 1 .. Len(s)} /\ ToSet(s) \subseteq Block
BY DEF ToSet

LEMMA Prepend ==
  ASSUME NEW s \in Seq(Block), NEW c \in Block
  PROVE  /\ <<c>> \o s \in Seq(Block)
         /\ Len(<<c>> \o s) = Len(s) + 1
         /\ (<<c>> \o s)[1] = c
         /\ \A i \in 2 .. Len(s) + 1 : (<<c>> \o s)[i] = s[i - 1]
         /\ ToSet(<<c>> \o s) = {c} \cup ToSet(s)
<1> DEFINE r == <<c>> \o s
<1>1. /\ r \in Seq(Block) /\ Len(r) = 1 + Len(s)
      /\ \A i \in 1 .. 1 + Len(s) : r[i] = IF i <= 1 THEN <<c>>[i] ELSE s[i - 1]
  <2>1. <<c>> \in Seq(Block) /\ Len(<<c>>) = 1
    OBVIOUS
  <2> QED BY <2>1, ConcatProperties
<1>2. Len(s) \in Nat
  OBVIOUS
<1> HIDE DEF r
<1>3. r[1] = c /\ \A i \in 2 .. Len(s) + 1 : r[i] = s[i - 1]
  BY <1>1, <1>2
<1>4. ToSet(r) = {r[i] : i \in 1 .. Len(s) + 1} /\ ToSet(s) = {s[i] : i \in 1 .. Len(s)}
  BY <1>1, <1>2, SetOf
<1>5. ToSet(r) \subseteq {c} \cup ToSet(s)
  BY <1>2, <1>3, <1>4
<1>6. ASSUME NEW x \in ToSet(s) PROVE x \in ToSet(r)
  <2>1. PICK i \in 1 .. Len(s) : x = s[i]
    BY <1>4
  <2>2. i + 1 \in 2 .. Len(s) + 1 /\ (i + 1) - 1 = i
    BY <1>2
  <2>3. r[i + 1] = s[i]
    BY <1>3, <2>2
  <2> QED BY <1>4, <2>1, <2>2, <2>3
<1>7. c \in ToSet(r)
  BY <1>2, <1>3, <1>4
<1>8. ToSet(r) = {c} \cup ToSet(s)
  BY <1>5, <1>6, <1>7
<1> QED BY <1>1, <1>2, <1>3, <1>8 DEF r

\* Going down the chain puts the parent in front.
LEMMA ClimbFromParent ==
  ASSUME NEW s, NEW h \in Int, Climbs(s, h), NEW c \in Block, Height[c] = h,
         Len(s) > 0 => Parent[s[1]] = c
  PROVE  Climbs(<<c>> \o s, h - 1)
<1> DEFINE r == <<c>> \o s
<1>1. s \in Seq(Block) /\ Len(s) \in Nat
  BY DEF Climbs
<1>2. /\ r \in Seq(Block) /\ Len(r) = Len(s) + 1
      /\ r[1] = c /\ \A i \in 2 .. Len(s) + 1 : r[i] = s[i - 1]
  BY <1>1, Prepend
<1> HIDE DEF r
<1>3. ASSUME NEW i \in 1 .. Len(r) PROVE Height[r[i]] = (h - 1) + i
  <2>1. CASE i = 1
    BY <1>2, <2>1
  <2>2. CASE i # 1
    <3>1. i \in 2 .. Len(s) + 1 /\ i - 1 \in 1 .. Len(s)
      BY <1>1, <1>2, <2>2
    <3>2. Height[s[i - 1]] = h + (i - 1)
      BY <3>1 DEF Climbs
    <3> QED BY <1>2, <3>1, <3>2
  <2> QED BY <2>1, <2>2
<1>4. ASSUME NEW i \in 2 .. Len(r) PROVE Parent[r[i]] = r[i - 1]
  <2>1. i \in 2 .. Len(s) + 1 /\ r[i] = s[i - 1]
    BY <1>1, <1>2
  <2>2. CASE i = 2
    <3>1. s[i - 1] = s[1] /\ r[i - 1] = r[1] /\ Len(s) > 0
      BY <1>1, <2>1, <2>2
    <3> QED BY <1>2, <2>1, <3>1
  <2>3. CASE i # 2
    <3>1. i - 1 \in 2 .. Len(s) /\ i - 1 \in 2 .. Len(s) + 1
      BY <1>1, <2>1, <2>3
    <3>2. Parent[s[i - 1]] = s[(i - 1) - 1] /\ r[i - 1] = s[(i - 1) - 1]
      BY <1>2, <3>1 DEF Climbs, IsLine
    <3> QED BY <2>1, <3>2
  <2> QED BY <2>2, <2>3
<1> QED BY <1>2, <1>3, <1>4 DEF Climbs, IsLine, r

\* The first n blocks of a line and a line that starts there are one line.
LEMMA ClimbOn ==
  ASSUME NEW s, NEW h \in Int, Climbs(s, h), NEW n \in Nat, n <= Len(s),
         NEW t, Climbs(t, h + n), Len(t) > 0, n > 0 => Parent[t[1]] = s[n]
  PROVE  /\ Climbs(SubSeq(s, 1, n) \o t, h)
         /\ ToSet(SubSeq(s, 1, n) \o t) = {s[i] : i \in 1 .. n} \cup ToSet(t)
<1> DEFINE u == SubSeq(s, 1, n)
           r == u \o t
<1>1. /\ s \in Seq(Block) /\ Len(s) \in Nat /\ t \in Seq(Block) /\ Len(t) \in Nat
      /\ \A i \in 1 .. Len(s) : s[i] \in Block
  BY DEF Climbs
<1>2. /\ u \in Seq(Block) /\ Len(u) = n /\ \A i \in 1 .. n : u[i] = s[i]
  <2>1. \A i \in 1 .. n : s[i] \in Block
    BY <1>1
  <2>2. /\ u \in Seq(Block) /\ Len(u) = IF 1 <= n THEN n - 1 + 1 ELSE 0
        /\ \A i \in 1 .. n - 1 + 1 : u[i] = s[1 + i - 1]
    BY <2>1, SubSeqProperties
  <2> HIDE DEF u
  <2> QED BY <2>2
<1> HIDE DEF u
<1>3. /\ r \in Seq(Block) /\ Len(r) = n + Len(t)
      /\ \A i \in 1 .. n + Len(t) : r[i] = IF i <= n THEN u[i] ELSE t[i - n]
  BY <1>1, <1>2, ConcatProperties
<1> HIDE DEF r
<1>4. /\ \A i \in 1 .. n : r[i] = s[i]
      /\ \A i \in n + 1 .. n + Len(t) : r[i] = t[i - n] /\ i - n \in 1 .. Len(t)
  <2>1. ASSUME NEW i \in 1 .. n PROVE r[i] = s[i]
    <3>1. i \in 1 .. n + Len(t) /\ i <= n
      BY <1>1
    <3> QED BY <1>2, <1>3, <3>1
  <2>2. ASSUME NEW i \in n + 1 .. n + Len(t)
        PROVE  r[i] = t[i - n] /\ i - n \in 1 .. Len(t)
    <3>1. i \in 1 .. n + Len(t) /\ ~(i <= n) /\ i - n \in 1 .. Len(t)
      BY <1>1
    <3> QED BY <1>3, <3>1
  <2> QED BY <2>1, <2>2
<1>5. ASSUME NEW i \in 1 .. Len(r) PROVE Height[r[i]] = h + i
  <2>1. CASE i <= n
    BY <1>1, <1>4, <2>1 DEF Climbs
  <2>2. CASE i > n
    <3>1. r[i] = t[i - n] /\ i - n \in 1 .. Len(t)
      BY <1>3, <1>4, <2>2
    <3>2. Height[t[i - n]] = (h + n) + (i - n)
      BY <3>1 DEF Climbs
    <3> QED BY <3>1, <3>2
  <2> QED BY <2>1, <2>2
<1>6. ASSUME NEW i \in 2 .. Len(r) PROVE Parent[r[i]] = r[i - 1]
  <2>1. CASE i <= n
    BY <1>1, <1>4, <2>1 DEF Climbs, IsLine
  <2>2. CASE i = n + 1
    <3>1. r[i] = t[1] /\ r[i - 1] = s[n] /\ n > 0
      BY <1>3, <1>4, <2>2, SMTT(30)
    <3> QED BY <3>1
  <2>3. CASE i > n + 1
    <3>1. r[i] = t[i - n] /\ r[i - 1] = t[(i - n) - 1] /\ i - n \in 2 .. Len(t)
      <4>1. i \in n + 1 .. n + Len(t) /\ i - 1 \in n + 1 .. n + Len(t)
        BY <1>1, <1>3, <2>3
      <4>2. (i - 1) - n = (i - n) - 1
        OBVIOUS
      <4>3. i - n \in 2 .. Len(t)
        BY <1>1, <1>3, <2>3
      <4> QED BY <1>4, <4>1, <4>2, <4>3
    <3> QED BY <3>1 DEF Climbs, IsLine
  <2> QED BY <2>1, <2>2, <2>3
<1>7. ToSet(r) = {s[i] : i \in 1 .. n} \cup ToSet(t)
  <2>1. ToSet(r) = {r[i] : i \in 1 .. n + Len(t)} /\ ToSet(t) = {t[i] : i \in 1 .. Len(t)}
    BY <1>1, <1>3, SetOf
  <2>2. ASSUME NEW x \in ToSet(r) PROVE x \in {s[i] : i \in 1 .. n} \cup ToSet(t)
    BY <1>1, <1>4, <2>1
  <2>3. ASSUME NEW x \in ToSet(t) PROVE x \in ToSet(r)
    <3>1. PICK i \in 1 .. Len(t) : x = t[i]
      BY <2>1
    <3>2. i + n \in n + 1 .. n + Len(t) /\ (i + n) - n = i /\ i + n \in 1 .. n + Len(t)
      BY <1>1
    <3>3. r[i + n] = t[i]
      BY <1>4, <3>2
    <3> QED BY <2>1, <3>1, <3>2, <3>3
  <2>4. ASSUME NEW i \in 1 .. n PROVE s[i] \in ToSet(r)
    <3>1. i \in 1 .. n + Len(t) /\ r[i] = s[i]
      BY <1>1, <1>4
    <3> QED BY <2>1, <3>1
  <2> QED BY <2>2, <2>3, <2>4
<1> QED BY <1>3, <1>5, <1>6, <1>7 DEF Climbs, IsLine, r, u

-----------------------------------------------------------------------------
(* The invariant. *)

\* Only a chain that came back over block 0 has it among its blocks.
Base(S) == IF Genesis \in S THEN -1 ELSE 0

\* s is the chain S, in order.
Shown(s, S) == Climbs(s, Base(S)) /\ ToSet(s) = S

\* The headers collected while the open update() turned the committed chain
\* into W: what it made canonical leads to the new block b, and what it
\* orphaned to the old tip.
Collected(up, down, b, W) ==
  /\ up \in Seq(Block)
  /\ Climbs(Append(up, b), tip.height - Len(up))
  /\ Climbs(down, tip.height - Len(down))
  /\ ToSet(up) = W \ canonical
  /\ ToSet(down) = canonical \ W

\* Down to the cursor both have one block per height.
AtCursor(up, down, b, c) ==
  /\ Len(up) = Len(down)
  /\ Parent[Append(up, b)[1]] = c
  /\ Height[c] + Len(up) = tip.height

\* In the end both start above a common block, or block 0 came back, too.
AtFork(up, down) ==
  \/ Len(up) = Len(down) /\ (Len(down) > 0 => Parent[up[1]] = Parent[down[1]])
  \/ Len(up) = Len(down) + 1 /\ up[1] = Genesis

HeadersInv ==
  LET up == headers.markedCanonical
      down == headers.markedNonCanonical
  IN job.phase # "idle" /\ IsCanonical(job.block) =>
       /\ Collected(up, down, job.block, work.canonical)
       /\ job.phase = "restore" => AtCursor(up, down, job.block, job.cursor)
       /\ job.phase = "insert" => AtFork(up, down)

\* A follower that also gets the message that waits has the canonical chain.
FollowerInv ==
  /\ follower \in Seq(Block)
  /\ Shown(Follow(follower, outbox), canonical)
  /\ RollsBackEnd(follower, outbox)

IndexInv ==
  /\ ChainInv
  /\ HeadersInv
  /\ IF job.phase = "idle" THEN headers = NoHeaders ELSE outbox = NoMessage
  /\ IsFork(outbox)
  /\ ~lost => FollowerInv

LEMMA FollowNothing ==
  ASSUME NEW s \in Seq(Block)
  PROVE  Follow(s, NoMessage) = s /\ RollsBackEnd(s, NoMessage)
<1>1. NoMessage.rollback_blocks = <<>> /\ NoMessage.apply_blocks = <<>>
  BY DEF NoMessage, Message
<1>2. Len(s) - Len(<<>>) = Len(s) /\ Len(s) \in Nat
  OBVIOUS
<1>3. SubSeq(s, 1, Len(s)) = s /\ s \o <<>> = s
  BY SubSeqFull, ConcatEmptySeq
<1>4. DOMAIN <<>> = {}
  OBVIOUS
<1> QED BY <1>1, <1>2, <1>3, <1>4 DEF Follow, RollsBackEnd

LEMMA NothingIsFork == IsFork(NoMessage)
<1>1. NoMessage.rollback_blocks = <<>> /\ NoMessage.apply_blocks = <<>>
  BY DEF NoMessage, Message
<1>2. IsLine(<<>>) /\ ToSet(<<>>) = {}
  BY DEF IsLine, ToSet
<1> QED BY <1>1, <1>2 DEF IsFork

\* The canonical chain in order has a block for every height up to the tip.
LEMMA ShownLength ==
  ASSUME TypeInv, CanonicalIsOneChain, NEW s, Shown(s, canonical)
  PROVE  Len(s) = tip.height - Base(canonical)
<1> USE BlockAssumption
<1>1. /\ s \in Seq(Block) /\ Len(s) \in Nat
      /\ \A i \in 1 .. Len(s) : s[i] \in Block /\ Height[s[i]] = Base(canonical) + i
      /\ canonical = {s[i] : i \in 1 .. Len(s)}
  BY SetOf DEF Shown, Climbs
<1>2. Base(canonical) \in Int /\ tip.height \in Nat
  BY DEF Base, TypeInv, TypeOK
<1>3. CASE tip.block = NoBlock
  <2>1. canonical = {} /\ tip.height = 0
    BY <1>3 DEF CanonicalIsOneChain
  <2>2. Len(s) = 0
    <3> SUFFICES ASSUME Len(s) > 0 PROVE FALSE
      BY <1>1
    <3>1. s[1] \in canonical
      BY <1>1
    <3> QED BY <2>1, <3>1
  <2>3. Base(canonical) = 0
    BY <2>1 DEF Base
  <2> QED BY <2>1, <2>2, <2>3
<1>4. CASE tip.block # NoBlock
  <2>1. /\ tip.block \in canonical /\ tip.height = Height[tip.block]
        /\ \A x \in canonical : Height[x] <= tip.height
    BY <1>4 DEF CanonicalIsOneChain, IsChainTo
  <2>2. PICK i \in 1 .. Len(s) : tip.block = s[i]
    BY <1>1, <2>1
  <2>3. tip.height = Base(canonical) + i
    BY <1>1, <2>1, <2>2
  <2>4. Len(s) \in 1 .. Len(s) /\ s[Len(s)] \in canonical
    BY <1>1, <2>2
  <2>5. Base(canonical) + Len(s) <= tip.height
    BY <1>1, <2>1, <2>4
  <2> QED BY <1>1, <1>2, <2>2, <2>3, <2>5
<1> QED BY <1>3, <1>4

-----------------------------------------------------------------------------
(* update() and the headers. *)

LEMMA BeginHeaders ==
  ASSUME IndexInv, NEW b \in Block, IBeginUpdate(b)
  PROVE  HeadersInv'
<1> USE BlockAssumption
<1> SUFFICES ASSUME IsCanonical(b) PROVE HeadersInv'
  BY DEF HeadersInv, IBeginUpdate, BeginUpdate, IsCanonical
<1>1. /\ headers' = NoHeaders /\ UNCHANGED <<canonical, tip, work>>
      /\ job'.block = b
      /\ job'.phase = "restore" => job'.cursor = Parent[b] /\ Height[b] > 1
      /\ work.canonical = canonical
      /\ Height[b] > 1 => Parent[b] \in blocks
      /\ Height[b] \in Nat /\ tip.height \in Nat
  BY DEF IBeginUpdate, iState, BeginUpdate, BuildsOnOrphan, IndexInv, ChainInv, JobInv,
         Committed, TypeInv, TypeOK
<1>2. Height[b] = tip.height + 1
  BY <1>1, AboveTip DEF IndexInv, ChainInv
<1> DEFINE e == <<>>
<1>3. e \in Seq(Block) /\ Len(e) = 0 /\ ToSet(e) = {}
  BY DEF ToSet
<1>4. Append(e, b) = <<b>> /\ Len(<<b>>) = 1 /\ <<b>>[1] = b /\ <<b>> \in Seq(Block)
  OBVIOUS
<1>5. Climbs(<<b>>, tip.height - Len(e)) /\ Climbs(e, tip.height - Len(e))
  BY <1>1, <1>2, <1>3, <1>4 DEF Climbs, IsLine
<1>6. Collected(e, e, b, work.canonical)
  BY <1>1, <1>3, <1>4, <1>5 DEF Collected
<1>7. headers'.markedCanonical = e /\ headers'.markedNonCanonical = e
  BY <1>1 DEF NoHeaders
<1>8. Collected(e, e, b, work.canonical)'
  BY <1>1, <1>6 DEF Collected, Climbs
<1>9. job'.phase = "restore" => AtCursor(e, e, b, job.cursor)'
  BY <1>1, <1>2, <1>3, <1>4 DEF AtCursor
<1>10. AtFork(e, e)
  BY <1>3 DEF AtFork
<1>11. AtFork(e, e)'
  BY <1>10 DEF AtFork
<1> HIDE DEF e
<1> QED BY <1>1, <1>7, <1>8, <1>9, <1>11 DEF HeadersInv

\* One level of restoreOrphanedChain puts the restored block in front of the
\* one that names it as its parent, and the block it displaces in front of
\* that one's child.
LEMMA RestoreHeaders ==
  ASSUME IndexInv, IRestoreOrphanedChain
  PROVE  HeadersInv'
<1> USE BlockAssumption
<1> DEFINE b == job.block
           c == job.cursor
           up == headers.markedCanonical
           down == headers.markedNonCanonical
           W == work.canonical
           n == Len(up)
<1>1. /\ job.phase = "restore" /\ c \in blocks \ W
      /\ work'.canonical = (W \cup {c}) \ OrphanedBy(c)
      /\ headers' = CollectHeaders(headers, c, OrphanedBy(c))
      /\ job'.block = b
      /\ job'.cursor = NextCursor(c, work'.canonical)
      /\ job'.phase = IF job'.cursor = NoBlock THEN "insert" ELSE "restore"
      /\ UNCHANGED dbVars
  BY DEF IRestoreOrphanedChain, RestoreOrphanedChain, IndexInv, ChainInv, TypeInv, TypeOK
<1>2. /\ IsCanonical(b) /\ b \in Block /\ c \in Block /\ Height[c] \in Nat
      /\ tip.height \in Nat /\ blocks \subseteq Block /\ canonical \subseteq blocks
      /\ W \subseteq blocks /\ NoBlock \notin blocks
  BY <1>1 DEF IndexInv, ChainInv, JobInv, TypeInv, TypeOK
<1>3. Collected(up, down, b, W) /\ AtCursor(up, down, b, c)
  BY <1>1, <1>2 DEF IndexInv, HeadersInv
<1>4. /\ up \in Seq(Block) /\ n \in Nat /\ Len(down) = n /\ down \in Seq(Block)
      /\ Height[c] = tip.height - n
      /\ \A i \in 1 .. n : Height[down[i]] = (tip.height - n) + i /\ down[i] \in Block
      /\ \A i \in 1 .. n : Height[up[i]] = (tip.height - n) + i /\ up[i] \in Block
      /\ ToSet(up) = {up[i] : i \in 1 .. n} /\ ToSet(down) = {down[i] : i \in 1 .. n}
  <2>1. /\ up \in Seq(Block) /\ n \in Nat /\ Len(down) = n /\ down \in Seq(Block)
        /\ Height[c] = tip.height - n
        /\ \A i \in 1 .. n : Height[down[i]] = (tip.height - n) + i /\ down[i] \in Block
    BY <1>2, <1>3, SMTT(30) DEF Collected, AtCursor, Climbs
  <2>2. /\ Len(Append(up, b)) = n + 1
        /\ \A i \in 1 .. n : Append(up, b)[i] = up[i]
    BY <1>2, <2>1, AppendProperties
  <2>3. \A i \in 1 .. n : Height[up[i]] = (tip.height - n) + i /\ up[i] \in Block
    <3> SUFFICES ASSUME NEW i \in 1 .. n
                 PROVE  Height[up[i]] = (tip.height - n) + i /\ up[i] \in Block
      OBVIOUS
    <3>1. i \in 1 .. Len(Append(up, b)) /\ Append(up, b)[i] = up[i]
      BY <2>1, <2>2
    <3>2. Height[Append(up, b)[i]] = (tip.height - n) + i
      BY <1>3, <3>1 DEF Collected, Climbs
    <3> QED BY <2>1, <3>1, <3>2
  <2> QED BY <2>1, <2>3, SetOf
\* The collected blocks are above the cursor.
<1>5. \A x \in ToSet(up) \cup ToSet(down) : Height[x] \in Nat /\ Height[x] > Height[c]
  <2> SUFFICES ASSUME NEW i \in 1 .. n,
                      NEW x, x = up[i] \/ x = down[i]
               PROVE  Height[x] \in Nat /\ Height[x] > Height[c]
    BY <1>4
  <2>1. Height[x] = (tip.height - n) + i /\ x \in Block
    BY <1>4
  <2> QED BY <1>2, <1>4, <2>1
<1>6. c \notin canonical
  BY <1>1, <1>3, <1>5 DEF Collected
<1> HIDE DEF b, c, up, down, W
<1>7. /\ Append(<<c>> \o up, b) = <<c>> \o Append(up, b)
      /\ Climbs(<<c>> \o Append(up, b), tip.height - (n + 1))
      /\ <<c>> \o up \in Seq(Block) /\ Len(<<c>> \o up) = n + 1
      /\ ToSet(<<c>> \o up) = {c} \cup ToSet(up)
      /\ (<<c>> \o up)[1] = c
      /\ (<<c>> \o Append(up, b))[1] = c
  <2>1. Append(up, b) \in Seq(Block)
    BY <1>2, <1>4, AppendProperties
  <2>2. /\ <<c>> \o up \in Seq(Block) /\ Len(<<c>> \o up) = n + 1
        /\ (<<c>> \o up)[1] = c /\ ToSet(<<c>> \o up) = {c} \cup ToSet(up)
        /\ (<<c>> \o Append(up, b))[1] = c
    BY <1>2, <1>4, <2>1, Prepend
  <2>3. Append(<<c>> \o up, b) = <<c>> \o Append(up, b)
    <3> DEFINE q == <<c>> \o up
    <3>0. q \in Seq(Block)
      BY <2>2
    <3> HIDE DEF q
    <3>4. Append(q, b) = q \o <<b>> /\ Append(up, b) = up \o <<b>>
      BY <1>2, <1>4, <3>0, AppendIsConcat
    <3>1. /\ Append(<<c>> \o up, b) = (<<c>> \o up) \o <<b>>
          /\ Append(up, b) = up \o <<b>>
      BY <3>4 DEF q
    <3>2. <<c>> \in Seq(Block) /\ <<b>> \in Seq(Block)
      BY <1>2
    <3>3. (<<c>> \o up) \o <<b>> = <<c>> \o (up \o <<b>>)
      BY <1>4, <3>2, ConcatAssociative
    <3> QED BY <3>1, <3>3
  <2>4. Climbs(<<c>> \o Append(up, b), (tip.height - n) - 1)
    <3>1. tip.height - n \in Int /\ Climbs(Append(up, b), tip.height - n)
      BY <1>2, <1>3, <1>4 DEF Collected
    <3>2. Parent[Append(up, b)[1]] = c
      BY <1>3 DEF AtCursor
    <3> QED BY <1>2, <1>4, <3>1, <3>2, ClimbFromParent
  <2>5. (tip.height - n) - 1 = tip.height - (n + 1)
    BY <1>2, <1>4
  <2> QED BY <2>2, <2>3, <2>4, <2>5
<1>8. headers'.markedCanonical = <<c>> \o up
  BY <1>1 DEF CollectHeaders, up
<1>9. ChainInv'
  BY ChainStep DEF IndexInv, IRestoreOrphanedChain, Next
<1>10. CASE Height[c] = 0
  <2>1. c = Genesis
    BY <1>2, <1>10
  <2>2. OrphanedBy(c) = {}
    BY <1>2, <1>10, <2>1 DEF OrphanedBy, W
  <2>3. /\ work'.canonical = W \cup {c} /\ headers'.markedNonCanonical = down
        /\ job'.phase = "insert"
    BY <1>1, <1>2, <2>1, <2>2 DEF CollectHeaders, NextCursor, down
  <2>4. Collected(<<c>> \o up, down, b, W \cup {c})
    <3>1. /\ ToSet(<<c>> \o up) = (W \cup {c}) \ canonical
          /\ ToSet(down) = canonical \ (W \cup {c})
      BY <1>3, <1>6, <1>7, SMTT(30) DEF Collected
    <3> QED BY <1>3, <1>7, <3>1 DEF Collected
  <2>5. AtFork(<<c>> \o up, down)
    BY <1>4, <1>7, <2>1 DEF AtFork
  <2>6. Collected(headers'.markedCanonical, headers'.markedNonCanonical, job'.block, work'.canonical)
    BY <1>1, <1>8, <2>3, <2>4 DEF b
  <2>7. AtFork(headers'.markedCanonical, headers'.markedNonCanonical)
    BY <1>8, <2>3, <2>5
  <2> QED BY <1>1, <2>3, <2>6, <2>7 DEF HeadersInv, Collected, AtFork, Climbs, dbVars
<1>11. CASE Height[c] > 0
  <2>1. PICK o \in canonical : /\ Height[o] = Height[c]
                               /\ n > 0 => Parent[down[1]] = o
    <3>1. CASE n = 0
      <4>1. tip.block # NoBlock
        BY <1>2, <1>4, <1>11, <3>1 DEF IndexInv, ChainInv, CanonicalIsOneChain
      <4>2. tip.block \in canonical /\ Height[tip.block] = Height[c]
        BY <1>2, <1>4, <3>1, <4>1 DEF IndexInv, ChainInv, CanonicalIsOneChain, IsChainTo
      <4> QED BY <3>1, <4>2
    <3>2. CASE n > 0
      <4>1. /\ down[1] \in canonical /\ down[1] \in Block
            /\ Height[down[1]] = Height[c] + 1
        BY <1>2, <1>3, <1>4, <3>2 DEF Collected
      <4>2. tip.block # NoBlock
        BY <4>1 DEF IndexInv, ChainInv, CanonicalIsOneChain
      <4>3. Parent[down[1]] \in canonical
        BY <1>2, <1>11, <4>1, <4>2 DEF IndexInv, ChainInv, CanonicalIsOneChain, IsChainTo
      <4>4. down[1] # Genesis /\ Height[down[1]] = Height[Parent[down[1]]] + 1
        BY <1>2, <4>1
      <4>5. Height[Parent[down[1]]] \in Nat
        BY <1>2, <4>3
      <4>6. Height[Parent[down[1]]] = Height[c]
        BY <1>2, <4>1, <4>4, <4>5
      <4> QED BY <4>3, <4>6
    <3> QED BY <1>4, <3>1, <3>2
  <2>2. o \in W /\ o # c /\ o \in Block
    BY <1>1, <1>2, <1>3, <1>5, <2>1 DEF Collected, c, W
  <2>3. OrphanedBy(c) = {o}
    <3>1. \A x, y \in W : Height[x] = Height[y] => x = y
      BY <1>1 DEF IndexInv, ChainInv, JobInv, PartialChain, W
    <3> QED BY <2>1, <2>2, <3>1 DEF OrphanedBy, W
  <2>4. /\ work'.canonical = (W \cup {c}) \ {o}
        /\ headers'.markedNonCanonical = <<o>> \o down
    BY <1>1, <2>3 DEF CollectHeaders, down
  <2>5. /\ Climbs(<<o>> \o down, tip.height - (n + 1))
        /\ <<o>> \o down \in Seq(Block) /\ Len(<<o>> \o down) = n + 1
        /\ ToSet(<<o>> \o down) = {o} \cup ToSet(down)
        /\ (<<o>> \o down)[1] = o
    <3>1. /\ tip.height - n \in Int /\ Climbs(down, tip.height - n)
          /\ (tip.height - n) - 1 = tip.height - (n + 1)
      BY <1>2, <1>3, <1>4 DEF Collected
    <3>2. Height[o] = tip.height - n /\ (Len(down) > 0 => Parent[down[1]] = o)
      BY <1>4, <2>1
    <3>3. Climbs(<<o>> \o down, (tip.height - n) - 1)
      BY <2>2, <3>1, <3>2, ClimbFromParent
    <3> QED BY <1>4, <2>2, <3>1, <3>3, Prepend
  <2>6. Collected(<<c>> \o up, <<o>> \o down, b, (W \cup {c}) \ {o})
    <3>1. /\ ToSet(<<c>> \o up) = ((W \cup {c}) \ {o}) \ canonical
          /\ ToSet(<<o>> \o down) = canonical \ ((W \cup {c}) \ {o})
      <4>1. ToSet(up) = W \ canonical /\ ToSet(down) = canonical \ W
        BY <1>3 DEF Collected
      <4>2. ToSet(<<c>> \o up) = {c} \cup (W \ canonical)
        BY <1>7, <4>1
      <4>3. ToSet(<<o>> \o down) = {o} \cup (canonical \ W)
        BY <2>5, <4>1
      <4> QED BY <1>6, <2>1, <2>2, <4>2, <4>3
    <3> QED BY <1>3, <1>7, <2>5, <3>1 DEF Collected
  <2>7. CASE job'.phase = "restore"
    <3>1. job'.cursor = Parent[c]
      BY <1>1, <2>7 DEF NextCursor
    <3>2. Height[Parent[c]] + (n + 1) = tip.height
      <4>1. c # Genesis /\ Parent[c] \in Block
        BY <1>2, <1>11
      <4>2. Height[c] = Height[Parent[c]] + 1 /\ Height[Parent[c]] \in Nat
        BY <1>2, <4>1
      <4>3. n \in Nat /\ tip.height \in Nat /\ Height[c] = tip.height - n
        BY <1>2, <1>4
      <4> HIDE DEF n
      <4> QED BY <4>2, <4>3
    <3>3. AtCursor(<<c>> \o up, <<o>> \o down, b, Parent[c])
      BY <1>7, <2>5, <3>2 DEF AtCursor
    <3>4. /\ Collected(headers'.markedCanonical, headers'.markedNonCanonical, job'.block, work'.canonical)
          /\ AtCursor(headers'.markedCanonical, headers'.markedNonCanonical, job'.block, job'.cursor)
      BY <1>1, <1>8, <2>4, <2>6, <3>1, <3>3 DEF b
    <3> QED BY <1>1, <2>7, <3>4 DEF HeadersInv, Collected, AtCursor, Climbs, dbVars
  <2>8. CASE job'.phase = "insert"
    <3>1. Parent[c] = Parent[o]
      <4>1. c # Genesis /\ o # Genesis /\ Parent[c] \in Block /\ Parent[o] \in Block
        BY <1>2, <1>11, <2>1, <2>2
      <4>2. /\ Height[Parent[c]] = Height[Parent[o]] /\ Height[Parent[c]] < Height[c]
            /\ Height[Parent[c]] \in Nat /\ Height[c] = Height[Parent[c]] + 1
        <5>1. /\ Height[c] = Height[Parent[c]] + 1 /\ Height[o] = Height[Parent[o]] + 1
              /\ Height[Parent[c]] \in Nat /\ Height[Parent[o]] \in Nat
          BY <1>2, <2>2, <4>1
        <5> QED BY <1>2, <2>1, <5>1
      <4>3. CASE Height[c] = 1
        BY <4>1, <4>2, <4>3
      <4>4. CASE Height[c] > 1
        <5>1. Parent[c] \in work'.canonical
          <6>1. Parent[c] \in blocks
            BY <1>1, <4>4 DEF IndexInv, ChainInv, StoredInv
          <6> QED BY <1>1, <1>2, <2>8, <4>1, <6>1 DEF NextCursor
        <5>2. Parent[o] \in work'.canonical
          <6>1. Parent[o] \in canonical
            BY <1>2, <2>1, <4>4 DEF IndexInv, ChainInv, CanonicalIsOneChain, IsChainTo
          <6>2. Parent[o] \in W
            BY <1>3, <1>5, <4>2, <6>1 DEF Collected
          <6> QED BY <2>1, <2>4, <4>2, <6>2
        <5>3. \A x, y \in work'.canonical : Height[x] = Height[y] => x = y
          BY <1>1, <1>2, <1>9, <2>8 DEF ChainInv, JobInv, PartialChain, IsCanonical, b, dbVars
        <5> QED BY <4>2, <5>1, <5>2, <5>3
      <4> QED BY <1>2, <1>11, <4>3, <4>4
    <3>2. AtFork(<<c>> \o up, <<o>> \o down)
      BY <1>7, <2>5, <3>1 DEF AtFork
    <3>3. /\ Collected(headers'.markedCanonical, headers'.markedNonCanonical, job'.block, work'.canonical)
          /\ AtFork(headers'.markedCanonical, headers'.markedNonCanonical)
      BY <1>1, <1>8, <2>4, <2>6, <3>2 DEF b
    <3> QED BY <1>1, <2>8, <3>3 DEF HeadersInv, Collected, AtFork, Climbs, dbVars
  <2> QED BY <1>1, <2>7, <2>8
<1> QED BY <1>2, <1>10, <1>11

-----------------------------------------------------------------------------
(* The message of a new canonical block. *)

LEMMA AppendToSet ==
  ASSUME NEW s \in Seq(Block), NEW b \in Block
  PROVE  /\ Append(s, b) \in Seq(Block) /\ Len(Append(s, b)) = Len(s) + 1
         /\ \A i \in 1 .. Len(s) : Append(s, b)[i] = s[i]
         /\ Append(s, b)[Len(s) + 1] = b
         /\ ToSet(Append(s, b)) = ToSet(s) \cup {b}
<1> DEFINE r == Append(s, b)
<1>1. /\ r \in Seq(Block) /\ Len(r) = Len(s) + 1 /\ Len(s) \in Nat
      /\ \A i \in 1 .. Len(s) : r[i] = s[i]
      /\ r[Len(s) + 1] = b
  BY AppendProperties
<1> HIDE DEF r
<1>2. ToSet(r) = {r[i] : i \in 1 .. Len(s) + 1} /\ ToSet(s) = {s[i] : i \in 1 .. Len(s)}
  BY <1>1, SetOf
<1>3. ASSUME NEW i \in 1 .. Len(s) + 1 PROVE r[i] \in ToSet(s) \cup {b}
  <2>1. CASE i = Len(s) + 1
    BY <1>1, <2>1
  <2>2. CASE i # Len(s) + 1
    BY <1>1, <1>2, <2>2
  <2> QED BY <2>1, <2>2
<1>4. ASSUME NEW i \in 1 .. Len(s) PROVE s[i] \in ToSet(r)
  BY <1>1, <1>2
<1>5. b \in ToSet(r)
  BY <1>1, <1>2
<1>6. ToSet(r) = ToSet(s) \cup {b}
  BY <1>2, <1>3, <1>4, <1>5
<1> QED BY <1>1, <1>6 DEF r

\* What the heights say of the headers once the fork is reached.
Forked(up, down, b, W) ==
  /\ Collected(up, down, b, W)
  /\ AtFork(up, down)
  /\ b \in Block \ canonical
  /\ b # Genesis

LEMMA ForkedFacts ==
  ASSUME TypeInv, NEW up, NEW down, NEW b, NEW W, Forked(up, down, b, W)
  PROVE  /\ up \in Seq(Block) /\ down \in Seq(Block) /\ Len(up) \in Nat /\ Len(down) \in Nat
         /\ tip.height \in Nat
         /\ \A i \in 1 .. Len(down) : /\ down[i] \in Block \cap canonical
                                      /\ Height[down[i]] = (tip.height - Len(down)) + i
         /\ \A i \in 1 .. Len(up) : /\ up[i] \in Block \cap W /\ up[i] \notin canonical
                                    /\ Height[up[i]] = (tip.height - Len(up)) + i
         /\ canonical \ W = {down[i] : i \in 1 .. Len(down)}
         /\ W \ canonical = {up[i] : i \in 1 .. Len(up)}
<1>1. /\ up \in Seq(Block) /\ down \in Seq(Block) /\ Len(up) \in Nat /\ Len(down) \in Nat
      /\ tip.height \in Nat /\ b \in Block
      /\ ToSet(up) = W \ canonical /\ ToSet(down) = canonical \ W
  BY DEF Forked, Collected, Climbs, TypeInv, TypeOK
<1>2. ToSet(up) = {up[i] : i \in 1 .. Len(up)} /\ ToSet(down) = {down[i] : i \in 1 .. Len(down)}
  BY <1>1, SetOf
<1>3. \A i \in 1 .. Len(down) : /\ down[i] \in Block \cap canonical
                                /\ Height[down[i]] = (tip.height - Len(down)) + i
  <2>1. \A i \in 1 .. Len(down) : Height[down[i]] = (tip.height - Len(down)) + i
    BY DEF Forked, Collected, Climbs
  <2>2. \A i \in 1 .. Len(down) : down[i] \in Block /\ down[i] \in ToSet(down)
    BY <1>1, <1>2
  <2> QED BY <1>1, <2>1, <2>2
<1>4. ASSUME NEW i \in 1 .. Len(up)
      PROVE  /\ up[i] \in Block \cap W /\ up[i] \notin canonical
             /\ Height[up[i]] = (tip.height - Len(up)) + i
  <2>1. up[i] \in Block /\ up[i] \in ToSet(up)
    BY <1>1, <1>2
  <2>2. i \in 1 .. Len(Append(up, b)) /\ Append(up, b)[i] = up[i]
    BY <1>1, AppendToSet
  <2>3. Height[Append(up, b)[i]] = (tip.height - Len(up)) + i
    BY <2>2 DEF Forked, Collected, Climbs
  <2> QED BY <1>1, <2>1, <2>2, <2>3
<1> QED BY <1>1, <1>2, <1>3, <1>4

\* The message is one fork, whatever the follower has.
LEMMA HeadersAreFork ==
  ASSUME TypeInv, NEW up, NEW down, NEW b, NEW W, Forked(up, down, b, W)
  PROVE  IsFork(Message(Append(up, b), down))
<1> USE BlockAssumption
<1> DEFINE t == Append(up, b)
<1>0. b \in Block
  BY DEF Forked
<1>1. /\ up \in Seq(Block) /\ down \in Seq(Block) /\ Len(up) \in Nat /\ Len(down) \in Nat
      /\ tip.height \in Nat
      /\ \A i \in 1 .. Len(down) : /\ down[i] \in Block \cap canonical
                                   /\ Height[down[i]] = (tip.height - Len(down)) + i
      /\ \A i \in 1 .. Len(up) : Height[up[i]] = (tip.height - Len(up)) + i
  BY ForkedFacts
<1>2. /\ t \in Seq(Block) /\ Len(t) = Len(up) + 1
      /\ \A i \in 1 .. Len(up) : t[i] = up[i]
      /\ ToSet(t) = ToSet(up) \cup {b}
  BY <1>0, <1>1, AppendToSet
<1>3. IsLine(t) /\ IsLine(down)
  BY DEF Forked, Collected, Climbs
<1>4. ToSet(t) \cap ToSet(down) = {}
  BY <1>2 DEF Forked, Collected
<1>5. ASSUME down # <<>>
      PROVE  /\ \E i \in DOMAIN t : Parent[t[i]] = Parent[down[1]]
             /\ Len(t) > Len(down)
  <2>1. Len(down) > 0
    BY <1>1, <1>5
  <2>2. DOMAIN t = 1 .. Len(up) + 1
    BY <1>2
  <2>3. CASE Len(up) = Len(down) /\ Parent[up[1]] = Parent[down[1]]
    <3>1. 1 \in DOMAIN t /\ t[1] = up[1]
      BY <1>1, <1>2, <2>1, <2>2, <2>3
    <3>2. Parent[t[1]] = Parent[down[1]] /\ Len(t) > Len(down)
      BY <1>1, <1>2, <2>3, <3>1
    <3> HIDE DEF t
    <3> QED BY <3>1, <3>2
  <2>4. CASE Len(up) = Len(down) + 1 /\ up[1] = Genesis
    <3>1. 2 \in DOMAIN t /\ t[1] = up[1] /\ 2 \in 2 .. Len(t)
      BY <1>1, <1>2, <2>1, <2>2, <2>4
    <3>2. Parent[t[2]] = Genesis
      BY <1>3, <2>4, <3>1 DEF IsLine
    <3>3. 0 = (tip.height - Len(up)) + 1
      BY <1>1, <2>1, <2>4
    <3>4. Height[down[1]] = 1 /\ down[1] \in Block
      BY <1>1, <2>1, <2>4, <3>3
    <3>5. Parent[down[1]] = Genesis
      BY <3>4
    <3>6. Len(t) > Len(down)
      BY <1>1, <1>2, <2>4
    <3> HIDE DEF t
    <3> QED BY <3>1, <3>2, <3>5, <3>6
  <2> QED BY <2>1, <2>3, <2>4 DEF Forked, AtFork
<1> HIDE DEF t
<1>6. Message(t, down).apply_blocks = t /\ Message(t, down).rollback_blocks = down
  BY DEF Message
<1>7. IsFork(Message(t, down))
  BY <1>3, <1>4, <1>5, <1>6 DEF IsFork
<1> QED BY <1>7 DEF t

\* What is rolled back is the end of the canonical chain.
LEMMA HeadersRollBackEnd ==
  ASSUME TypeInv, CanonicalIsOneChain, NEW up, NEW down, NEW b, NEW W,
         Forked(up, down, b, W), NEW f, Shown(f, canonical)
  PROVE  RollsBackEnd(f, Message(Append(up, b), down))
<1> DEFINE n == Len(down)
           B == Base(canonical)
<1>1. /\ n \in Nat /\ tip.height \in Nat /\ down \in Seq(Block)
      /\ \A i \in 1 .. n : /\ down[i] \in Block \cap canonical
                            /\ Height[down[i]] = (tip.height - n) + i
  BY ForkedFacts
<1>2. /\ f \in Seq(Block) /\ Len(f) \in Nat /\ B \in Int
      /\ canonical = {f[i] : i \in 1 .. Len(f)}
      /\ \A i \in 1 .. Len(f) : Height[f[i]] = B + i
  BY SetOf DEF Shown, Climbs, Base
<1>3. Len(f) = tip.height - B
  BY ShownLength
<1> HIDE DEF B
<1>4. ASSUME NEW i \in 1 .. n
      PROVE  (Len(f) - n) + i \in 1 .. Len(f) /\ f[(Len(f) - n) + i] = down[i]
  <2>1. PICK j \in 1 .. Len(f) : down[i] = f[j]
    BY <1>1, <1>2
  <2>2. B + j = (tip.height - n) + i
    BY <1>1, <1>2, <2>1
  <2>3. j = (Len(f) - n) + i
    <3>1. n \in Nat /\ tip.height \in Nat /\ Len(f) \in Nat /\ B \in Int
      BY <1>1, <1>2
    <3> HIDE DEF n
    <3> QED BY <1>3, <2>2, <3>1, SMTT(30)
  <2> QED BY <2>1, <2>3
<1>5. Len(f) - n >= 0
  <2>1. CASE n = 0
    BY <1>2, <2>1
  <2>2. CASE n > 0
    <3>1. (Len(f) - n) + 1 \in 1 .. Len(f)
      BY <1>1, <1>4, <2>2, SMTT(30)
    <3> QED BY <1>1, <1>2, <3>1
  <2> QED BY <1>1, <2>1, <2>2
<1>6. DOMAIN down = 1 .. n
  BY <1>1
<1>7. Message(Append(up, b), down).rollback_blocks = down
  BY DEF Message
<1> QED BY <1>4, <1>5, <1>6, <1>7 DEF RollsBackEnd

\* Following the message leads from one canonical chain to the next.
LEMMA HeadersLeadOn ==
  ASSUME ChainInv, NEW up, NEW down, NEW b, NEW W, Forked(up, down, b, W),
         W \subseteq blocks, PartialChain(W, {b}, NoBlock),
         NEW f, Shown(f, canonical)
  PROVE  Shown(Follow(f, Message(Append(up, b), down)), W \cup {b})
<1> USE BlockAssumption
<1> DEFINE n == Len(down)
           m == Len(up)
           B == Base(canonical)
           t == Append(up, b)
           k == Len(f) - n
           h == tip.height
<1>0. TypeInv /\ CanonicalIsOneChain /\ b \in Block /\ b # Genesis /\ blocks \subseteq Block
  BY DEF ChainInv, Forked, TypeInv, TypeOK
<1>1. /\ up \in Seq(Block) /\ down \in Seq(Block) /\ m \in Nat /\ n \in Nat
      /\ h \in Nat
      /\ \A i \in 1 .. n : /\ down[i] \in Block \cap canonical
                            /\ Height[down[i]] = (h - n) + i
      /\ \A i \in 1 .. m : /\ up[i] \in Block \cap W /\ up[i] \notin canonical
                            /\ Height[up[i]] = (h - m) + i
      /\ canonical \ W = {down[i] : i \in 1 .. n}
      /\ W \ canonical = {up[i] : i \in 1 .. m}
  BY <1>0, ForkedFacts
<1>2. /\ f \in Seq(Block) /\ Len(f) \in Nat /\ B \in {-1, 0} /\ Climbs(f, B)
      /\ canonical = {f[i] : i \in 1 .. Len(f)}
      /\ \A i \in 1 .. Len(f) : f[i] \in Block /\ Height[f[i]] = B + i
  BY SetOf DEF Shown, Climbs, Base
<1>3. Len(f) = h - B
  BY <1>0, ShownLength
<1>4. k \in Nat /\ \A i \in 1 .. n : f[k + i] = down[i]
  <2>1. RollsBackEnd(f, Message(t, down))
    BY <1>0, HeadersRollBackEnd
  <2>2. Message(t, down).rollback_blocks = down /\ DOMAIN down = 1 .. n
    BY <1>1 DEF Message
  <2>3. k >= 0 /\ \A i \in 1 .. n : f[k + i] = down[i]
    BY <2>1, <2>2 DEF RollsBackEnd
  <2>4. k \in Int
    BY <1>1, <1>2
  <2> QED BY <2>3, <2>4
<1>5. /\ t \in Seq(Block) /\ Len(t) = m + 1
      /\ \A i \in 1 .. m : t[i] = up[i]
      /\ t[m + 1] = b
      /\ ToSet(t) = (W \ canonical) \cup {b}
      /\ Climbs(t, h - m)
  <2>1. ToSet(up) = W \ canonical /\ Climbs(t, h - m)
    BY DEF Forked, Collected
  <2> QED BY <1>0, <1>1, <2>1, AppendToSet
<1>6. Follow(f, Message(t, down)) = SubSeq(f, 1, k) \o t
  BY DEF Follow, Message
<1> HIDE DEF B, t, m, n, k, h
<1>k. k = Len(f) - n
  BY DEF k
<1>i. n \in Nat /\ m \in Nat /\ h \in Nat /\ Len(f) \in Nat /\ B \in {-1, 0} /\ k \in Nat
  BY <1>1, <1>2, <1>4
<1>o. canonical \ W = {down[i] : i \in 1 .. n}
  BY <1>1
<1>p. W \ canonical = {up[i] : i \in 1 .. m}
  BY <1>1
<1>7. h - n = B + k
  BY <1>i, <1>3, <1>k
<1>8. CASE m = n + 1 /\ up[1] = Genesis
  <2>1. Genesis \in W \ canonical
    BY <1>1, <1>8
  <2>2. B = 0 /\ Base(W \cup {b}) = -1
    BY <2>1 DEF B, Base
  <2>3. 0 = (h - m) + 1
    BY <1>1, <1>8
  <2>4. k = 0 /\ h - m = -1
    BY <1>1, <1>4, <1>7, <1>8, <2>2, <2>3
  <2>5. SubSeq(f, 1, k) \o t = t
    BY <1>5, <2>4, SubSeqEmpty, ConcatEmptySeq
  <2>6. canonical \subseteq canonical \ W
    <3> SUFFICES ASSUME NEW i \in 1 .. Len(f) PROVE f[i] \in canonical \ W
      BY <1>2
    <3>1. i \in 1 .. n /\ k + i = i
      <4>1. n = Len(f)
        BY <1>i, <1>k, <2>4
      <4>2. i \in Int
        OBVIOUS
      <4> QED BY <2>4, <4>1, <4>2
    <3>2. f[i] = down[i]
      BY <1>4, <3>1
    <3> QED BY <1>o, <3>1, <3>2
  <2>7. ToSet(t) = W \cup {b}
    BY <1>5, <2>6
  <2> QED BY <1>5, <1>6, <2>2, <2>4, <2>5, <2>7 DEF Shown, t
<1>9. CASE m = n /\ (n > 0 => Parent[up[1]] = Parent[down[1]])
  <2>1. Genesis \in canonical <=> Genesis \in W
    <3>1. Genesis \in W \ canonical => FALSE
      <4> SUFFICES ASSUME Genesis \in W \ canonical PROVE FALSE
        OBVIOUS
      <4>1. PICK i \in 1 .. m : up[i] = Genesis
        BY <1>p
      <4>2. 0 = (h - m) + i
        BY <1>1, <4>1
      <4>3. B = 0
        BY DEF B, Base
      <4>4. i \in Nat /\ i > 0 /\ i + k = 0
        BY <1>1, <1>4, <1>7, <1>9, <4>2, <4>3
      <4> QED BY <1>4, <4>4
    <3>2. Genesis \in canonical \ W => FALSE
      <4> SUFFICES ASSUME Genesis \in canonical \ W PROVE FALSE
        OBVIOUS
      <4>1. PICK i \in 1 .. n : down[i] = Genesis
        BY <1>o
      <4>2. 0 = (h - n) + i
        BY <1>1, <4>1
      <4>3. i \in Nat /\ i > 0 /\ i + k + B = 0
        BY <1>1, <1>2, <1>4, <1>7, <4>2
      <4>4. i = 1 /\ n > 0 /\ h - m = -1
        BY <1>1, <1>2, <1>4, <1>9, <4>2, <4>3
      <4>5. 1 \in 1 .. m /\ up[1] \in Block /\ up[1] # Genesis
        BY <1>1, <1>9, <4>4
      <4>6. Height[up[1]] = 0
        BY <1>1, <4>4, <4>5
      <4> QED BY <4>5, <4>6
    <3> QED BY <3>1, <3>2
  <2>2. Base(W \cup {b}) = B
    BY <1>0, <2>1 DEF B, Base
  <2>3. k > 0 => Parent[t[1]] = f[k]
    <3> SUFFICES ASSUME k > 0 PROVE Parent[t[1]] = f[k]
      OBVIOUS
    <3>1. k \in 1 .. Len(f) /\ f[k] \in Block /\ Height[f[k]] = h - n /\ f[k] \in canonical
      BY <1>1, <1>2, <1>4, <1>7, <1>k
    <3>2. f[k] \in W
      <4> SUFFICES ASSUME NEW i \in 1 .. n, f[k] = down[i] PROVE FALSE
        BY <1>1, <3>1, SMTT(30)
      <4>1. h - n = (h - n) + i
        BY <1>1, <3>1
      <4> QED BY <1>1, <4>1
    <3>3. t[1] \in W \cup {b} /\ t[1] \in Block /\ Height[t[1]] = (h - n) + 1
      <4>1. 1 \in 1 .. Len(t) /\ t[1] \in ToSet(t)
        <5>1. 1 \in 1 .. Len(t)
          BY <1>i, <1>5
        <5> QED BY <1>5, <5>1, SetOf
      <4>2. Height[t[1]] = (h - m) + 1
        BY <1>5, <4>1 DEF Climbs
      <4> QED BY <1>5, <1>9, <4>1, <4>2
    <3>4. h - n \in Nat
      BY <3>1
    <3>5. t[1] # Genesis /\ Parent[t[1]] \in Block /\ Height[Parent[t[1]]] = h - n
      <4>1. t[1] # Genesis
        BY <3>3, <3>4
      <4>2. /\ Parent[t[1]] \in Block /\ Height[t[1]] = Height[Parent[t[1]]] + 1
            /\ Height[Parent[t[1]]] \in Nat
        BY <3>3, <4>1
      <4> QED BY <3>3, <3>4, <4>1, <4>2
    <3>6. CASE Height[t[1]] > 1
      <4>1. Parent[t[1]] \in W
        BY <3>3, <3>6 DEF PartialChain
      <4> QED BY <3>1, <3>2, <3>5, <4>1 DEF PartialChain
    <3>7. CASE ~(Height[t[1]] > 1)
      <4>1. h - n = 0
        BY <3>3, <3>4, <3>7
      <4> QED BY <3>1, <3>5, <4>1
    <3> QED BY <3>6, <3>7
  <2>4. {f[i] : i \in 1 .. k} = canonical \cap W
    <3>1. ASSUME NEW i \in 1 .. k PROVE f[i] \in canonical \cap W
      <4>1. i \in 1 .. Len(f) /\ f[i] \in canonical
        BY <1>1, <1>2, <1>4, <1>k
      <4> SUFFICES ASSUME NEW j \in 1 .. n, f[i] = down[j] PROVE FALSE
        BY <1>o, <4>1
      <4>2. Height[f[i]] = B + i
        BY <1>2, <4>1
      <4>3. Height[down[j]] = (h - n) + j
        BY <1>1
      <4>4. B + i = (h - n) + j
        BY <4>2, <4>3
      <4> QED BY <1>i, <1>7, <4>4
    <3>2. ASSUME NEW x \in canonical \cap W PROVE x \in {f[i] : i \in 1 .. k}
      <4>1. PICK i \in 1 .. Len(f) : x = f[i]
        BY <1>2
      <4>2. CASE i > k
        <5>1. i - k \in 1 .. n /\ k + (i - k) = i
          BY <1>1, <1>2, <1>4, <1>k, <4>2
        <5>2. x = down[i - k]
          BY <1>4, <4>1, <5>1
        <5> QED BY <1>1, <5>1, <5>2
      <4>3. CASE i <= k
        BY <1>4, <4>1, <4>3
      <4> QED BY <1>4, <4>2, <4>3
    <3> QED BY <3>1, <3>2
  <2>5. /\ Climbs(SubSeq(f, 1, k) \o t, B)
        /\ ToSet(SubSeq(f, 1, k) \o t) = {f[i] : i \in 1 .. k} \cup ToSet(t)
    <3>1. B \in Int /\ k <= Len(f) /\ Len(t) > 0 /\ Climbs(t, B + k)
      BY <1>i, <1>5, <1>7, <1>9, <1>k
    <3>2. Climbs(f, B) /\ k \in Nat
      BY <1>2, <1>i
    <3> QED BY <2>3, <3>1, <3>2, ClimbOn
  <2>6. ToSet(SubSeq(f, 1, k) \o t) = W \cup {b}
    BY <1>5, <2>4, <2>5
  <2> QED BY <1>6, <2>2, <2>5, <2>6 DEF Shown, t
<1> QED BY <1>8, <1>9 DEF Forked, AtFork, m, n

LEMMA CommitHeaders ==
  ASSUME IndexInv, ICommitUpdate
  PROVE  IsFork(outbox') /\ (~lost' => FollowerInv')
<1> USE BlockAssumption
<1> DEFINE b == job.block
           up == headers.markedCanonical
           down == headers.markedNonCanonical
           W == work.canonical
<1>1. /\ job.phase = "insert" /\ outbox = NoMessage
      /\ canonical' = NewCanonical(b)
      /\ outbox' = IF IsCanonical(b) THEN Message(Append(up, b), down) ELSE NoMessage
      /\ UNCHANGED <<follower, lost>>
  BY DEF ICommitUpdate, CommitUpdate, IndexInv
<1>2. b \in Block /\ (Height[b] > 1 => Parent[b] \in blocks)
  BY <1>1 DEF IndexInv, ChainInv, JobInv, TypeInv, TypeOK
<1>3. ~lost => follower \in Seq(Block) /\ Shown(follower, canonical)
  BY <1>1, FollowNothing DEF IndexInv, FollowerInv
<1>4. CASE ~IsCanonical(b)
  <2>1. outbox' = NoMessage /\ canonical' = canonical
    BY <1>1, <1>4 DEF NewCanonical, IndexInv, ChainInv, JobInv, Committed
  <2>2. ~lost => /\ Follow(follower, NoMessage) = follower
                 /\ RollsBackEnd(follower, NoMessage)
    BY <1>3, FollowNothing
  <2> QED BY <1>1, <1>3, <2>1, <2>2, NothingIsFork DEF FollowerInv, Shown, Climbs
<1>5. CASE IsCanonical(b)
  <2>1. b \notin blocks /\ b # Genesis /\ canonical \subseteq blocks /\ W \subseteq blocks
    BY <1>2, <1>5, AboveTip DEF IndexInv, ChainInv, IsCanonical, TypeInv, TypeOK
  <2>2. Forked(up, down, b, W)
    BY <1>1, <1>2, <1>5, <2>1 DEF IndexInv, HeadersInv, Forked
  <2>3. PartialChain(W, {b}, NoBlock) /\ ChainInv /\ TypeInv /\ CanonicalIsOneChain
    BY <1>1, <1>5 DEF IndexInv, ChainInv, JobInv
  <2>4. outbox' = Message(Append(up, b), down) /\ canonical' = W \cup {b}
    BY <1>1, <1>5, <2>1 DEF NewCanonical
  <2> HIDE DEF up, down, b, W
  <2>5. IsFork(outbox')
    BY <2>2, <2>3, <2>4, HeadersAreFork
  <2>6. ASSUME ~lost
        PROVE  Shown(Follow(follower, outbox'), canonical') /\ RollsBackEnd(follower, outbox')
    BY <1>3, <2>1, <2>2, <2>3, <2>4, <2>6, HeadersLeadOn, HeadersRollBackEnd
  <2> QED BY <1>1, <1>3, <2>5, <2>6 DEF FollowerInv, Shown, Climbs
<1> QED BY <1>4, <1>5

-----------------------------------------------------------------------------
(* The follower along a behaviour. *)

LEMMA StoreStep == [DNext]_dvars => [Next]_vars
BY DEF DNext, dvars, DBeginUpdate, DRestoreOrphanedChain, DCommitUpdate,
       DAbortUpdate, DNotify, DLoseMessage, DUpdateAttachments,
       BBeginUpdate, BRestoreOrphanedChain, BCommitUpdate, BAbortUpdate,
       Notify, LoseMessage, NmUpdateAttachments, Next

\* What HeadersInv and FollowerInv are about.
LEMMA IndexUnchanged ==
  ASSUME IndexInv, ChainInv',
         UNCHANGED <<canonical, work.canonical, tip, job, iState>>
  PROVE  IndexInv'
BY DEF IndexInv, HeadersInv, Collected, AtCursor, AtFork, Climbs, IsCanonical,
       FollowerInv, Shown, iState

LEMMA IndexStep == IndexInv /\ [DNext]_dvars => IndexInv'
<1> SUFFICES ASSUME IndexInv, [DNext]_dvars PROVE IndexInv'
  OBVIOUS
<1>0. ChainInv'
  BY StoreStep, ChainStep DEF IndexInv
<1>1. ASSUME NEW b \in Block, DBeginUpdate(b) PROVE IndexInv'
  <2>1. IBeginUpdate(b)
    BY <1>1 DEF DBeginUpdate
  <2>2. HeadersInv'
    BY <2>1, BeginHeaders
  <2>3. UNCHANGED <<canonical, outbox, follower, lost>> /\ outbox = NoMessage
    BY <2>1 DEF IBeginUpdate, iState, BeginUpdate
  <2>4. job'.phase # "idle"
    BY <2>1 DEF IBeginUpdate, BeginUpdate
  <2> QED BY <1>0, <2>2, <2>3, <2>4 DEF IndexInv, FollowerInv, Shown, Climbs
<1>2. CASE DRestoreOrphanedChain
  <2>1. IRestoreOrphanedChain
    BY <1>2 DEF DRestoreOrphanedChain
  <2>2. HeadersInv'
    BY <2>1, RestoreHeaders
  <2>3. UNCHANGED <<canonical, outbox, follower, lost>> /\ outbox = NoMessage
    BY <2>1 DEF IRestoreOrphanedChain, RestoreOrphanedChain, dbVars, IndexInv
  <2>4. job'.phase # "idle"
    BY <2>1 DEF IRestoreOrphanedChain, RestoreOrphanedChain
  <2> QED BY <1>0, <2>2, <2>3, <2>4 DEF IndexInv, FollowerInv, Shown, Climbs
<1>3. CASE DCommitUpdate
  <2>1. ICommitUpdate
    BY <1>3 DEF DCommitUpdate
  <2>2. IsFork(outbox') /\ (~lost' => FollowerInv')
    BY <2>1, CommitHeaders
  <2>3. job' = Idle /\ headers' = NoHeaders
    BY <2>1 DEF ICommitUpdate, CommitUpdate
  <2> QED BY <1>0, <2>2, <2>3 DEF IndexInv, HeadersInv, Idle
<1>4. CASE DAbortUpdate
  <2>1. job' = Idle /\ headers' = NoHeaders /\ UNCHANGED <<canonical, outbox, follower, lost>>
    BY <1>4 DEF DAbortUpdate, IAbortUpdate, AbortUpdate, dbVars
  <2> QED BY <1>0, <2>1 DEF IndexInv, HeadersInv, Idle, FollowerInv, Shown, Climbs
<1>5. CASE DNotify
  <2>1. /\ UNCHANGED vars /\ UNCHANGED <<headers, lost>> /\ outbox # NoMessage
        /\ outbox' = NoMessage /\ job.phase = "idle"
        /\ ~lost => follower' = Follow(follower, outbox)
    BY <1>5 DEF DNotify, Notify, IndexInv
  <2>2. HeadersInv'
    BY <2>1 DEF IndexInv, HeadersInv, vars
  <2>3. ASSUME ~lost PROVE FollowerInv'
    <3>1. follower' \in Seq(Block) /\ Shown(follower', canonical)
      BY <2>1, <2>3 DEF IndexInv, FollowerInv, Shown, Climbs
    <3>2. Follow(follower', outbox') = follower' /\ RollsBackEnd(follower', outbox')
      BY <2>1, <3>1, FollowNothing
    <3> QED BY <2>1, <3>1, <3>2 DEF FollowerInv, Shown, Climbs, vars
  <2> QED BY <1>0, <2>1, <2>2, <2>3, NothingIsFork DEF IndexInv, vars
<1>6. CASE DLoseMessage
  <2>1. /\ UNCHANGED vars /\ UNCHANGED headers /\ outbox # NoMessage
        /\ outbox' = NoMessage /\ lost' = TRUE /\ job.phase = "idle"
    BY <1>6 DEF DLoseMessage, LoseMessage, IndexInv
  <2>2. HeadersInv'
    BY <2>1 DEF IndexInv, HeadersInv, vars
  <2> QED BY <1>0, <2>1, <2>2, NothingIsFork DEF IndexInv, vars
<1>7. ASSUME NEW b \in Block, DUpdateAttachments(b) PROVE IndexInv'
  <2>1. UNCHANGED <<canonical, work.canonical, tip, job, iState>>
    BY <1>7 DEF DUpdateAttachments, NmUpdateAttachments, UpdateAttachments,
                IndexInv, ChainInv, TypeInv, TypeOK
  <2> QED BY <1>0, <2>1, IndexUnchanged
<1>8. CASE UNCHANGED dvars
  <2>1. UNCHANGED <<canonical, work.canonical, tip, job, iState>>
    BY <1>8 DEF dvars, vars
  <2> QED BY <1>0, <2>1, IndexUnchanged
<1> QED BY <1>1, <1>2, <1>3, <1>4, <1>5, <1>6, <1>7, <1>8 DEF DNext

LEMMA IndexStart == DInit => IndexInv
<1> SUFFICES ASSUME DInit PROVE IndexInv
  OBVIOUS
<1>1. /\ Init /\ outbox = NoMessage /\ headers = NoHeaders /\ follower = <<>>
  BY DEF DInit, IInit
<1>2. ChainInv
  BY <1>1, ChainStart
<1>3. canonical = {} /\ job.phase = "idle"
  BY <1>1 DEF Init, Idle
<1>4. follower \in Seq(Block) /\ Len(follower) = 0 /\ ToSet(follower) = {}
  BY <1>1 DEF ToSet
<1>5. Follow(follower, outbox) = follower /\ RollsBackEnd(follower, outbox)
  BY <1>1, <1>4, FollowNothing
<1>6. Shown(follower, canonical)
  BY <1>3, <1>4 DEF Shown, Climbs, IsLine
<1> QED BY <1>1, <1>2, <1>3, <1>4, <1>5, <1>6, NothingIsFork
        DEF IndexInv, HeadersInv, FollowerInv

\* For every tree of blocks, and however deep the re-orgs: every message the
\* notifier sends is one fork, it rolls back the end of what a follower has,
\* and the follower that got them all has the canonical chain in order.
THEOREM FollowerRight == DSpec => []FollowerHasCanonicalChain
<1>1. IndexInv => FollowerHasCanonicalChain
  <2> SUFFICES ASSUME IndexInv PROVE FollowerHasCanonicalChain
    OBVIOUS
  <2>1. ASSUME outbox = NoMessage, ~lost
        PROVE  ToSet(follower) = canonical /\ IsLine(follower)
    <3>1. Shown(follower, canonical)
      BY <2>1, FollowNothing DEF IndexInv, FollowerInv
    <3> QED BY <3>1 DEF Shown, Climbs
  <2> QED BY <2>1 DEF IndexInv, FollowerInv, FollowerHasCanonicalChain
<1> QED BY <1>1, IndexStart, IndexStep, PTL DEF DSpec

=============================================================================
