---------------------------- MODULE MempoolProofs ----------------------------
(***************************************************************************)
(* Proofs about Mempool and the answers of MempoolApi, for every tree of   *)
(* blocks and all transactions.                                            *)
(***************************************************************************)
EXTENDS MempoolApi, ChainStoreProofs

-----------------------------------------------------------------------------
(* Maxima. *)

\* Of finitely many things one is the greatest by measure f.  By contradiction,
\* from a smallest set that has none.
LEMMA FiniteMax ==
  ASSUME NEW X, IsFiniteSet(X), X # {}, NEW f \in [X -> Nat]
  PROVE  \E x \in X : \A y \in X : f[y] <= f[x]
<1> DEFINE HasMax(S) == \E x \in S : \A y \in S : f[y] <= f[x]
           Bad == {S \in SUBSET X : S # {} /\ ~HasMax(S)}
<1> SUFFICES ASSUME X \in Bad PROVE FALSE
  OBVIOUS
<1>1. Bad \subseteq FiniteSubsetsOf(X)
  BY FS_Subset DEF FiniteSubsetsOf
<1>2. PICK S \in Bad : \A U \in Bad : <<U, S>> \notin StrictSubsetOrdering(X)
  <2> HIDE DEF Bad
  <2> QED BY <1>1, FS_StrictSubsetOrderingWellFounded, WFMin, Zenon
<1>3. PICK s \in S : TRUE
  OBVIOUS
<1> DEFINE U == S \ {s}
<1>4. U \notin Bad
  BY <1>2, <1>3 DEF StrictSubsetOrdering
<1>5. U # {}
  <2> SUFFICES ASSUME S = {s} PROVE FALSE
    BY <1>3
  <2>1. f[s] <= f[s]
    BY <1>3
  <2> QED BY <1>2, <2>1
<1>6. PICK u \in U : \A y \in U : f[y] <= f[u]
  BY <1>4, <1>5
<1>7. f[s] \in Nat /\ f[u] \in Nat /\ \A y \in S : f[y] \in Nat
  BY <1>3
<1>8. \A y \in S : f[y] <= f[IF f[u] <= f[s] THEN s ELSE u]
  BY <1>3, <1>6, <1>7
<1>9. HasMax(S)
  BY <1>3, <1>6, <1>8
<1> QED BY <1>2, <1>9

-----------------------------------------------------------------------------
(* What the statements do to the rows and to mempool_tx_count. *)

\* mempool_tx_count is the number of rows that are not pruned.
CountsPending(m) ==
  /\ m \in MempoolState
  /\ IsFiniteSet(Stored(m))
  /\ m.count = Cardinality(Pending(m))

\* Taking rows off a finite set, and adding others to it, moves their number.
LEMMA Removing ==
  ASSUME NEW P, IsFiniteSet(P), NEW D, D \subseteq P
  PROVE  /\ IsFiniteSet(P \ D)
         /\ Cardinality(P \ D) \in Nat
         /\ Cardinality(P \ D) = Cardinality(P) + -Cardinality(D)
         /\ Cardinality(P) + -Cardinality(D) = Cardinality(P) - Cardinality(D)
<1>1. IsFiniteSet(D) /\ IsFiniteSet(P \ D)
  BY FS_Subset
<1>2. Cardinality(P) \in Nat /\ Cardinality(D) \in Nat /\ Cardinality(P \ D) \in Nat
  BY <1>1, FS_CardinalityType
<1>3. Cardinality(P \ D) = Cardinality(P) - Cardinality(P \cap D)
  BY <1>1, FS_Difference
<1>4. P \cap D = D
  OBVIOUS
<1> QED BY <1>1, <1>2, <1>3, <1>4

LEMMA Adding ==
  ASSUME NEW P, IsFiniteSet(P), NEW N, IsFiniteSet(N), P \cap N = {}
  PROVE  /\ IsFiniteSet(P \cup N)
         /\ Cardinality(P \cup N) \in Nat
         /\ Cardinality(P \cup N) = Cardinality(P) + Cardinality(N)
<1>1. /\ IsFiniteSet(P \cup N)
      /\ Cardinality(P \cup N) = Cardinality(P) + Cardinality(N) - Cardinality(P \cap N)
  BY FS_Union
<1>2. Cardinality(P \cap N) = 0 /\ Cardinality(N) \in Nat /\ Cardinality(P) \in Nat
  BY FS_EmptySet, FS_CardinalityType
<1> QED BY <1>1, <1>2

\* A statement that prunes the rows S, and takes those of them that were
\* pending off the count.
Prunes(m, n, S) ==
  /\ S \subseteq Stored(m)
  /\ n.rows \in [Tx -> Row]
  /\ n = [rows |-> n.rows, count |-> m.count + -Cardinality(S \cap Pending(m))]
  /\ \A t \in Tx \ S : n.rows[t] = m.rows[t]
  /\ \A t \in S : /\ n.rows[t].pruned = TRUE
                  /\ n.rows[t].status # "absent"
                  /\ n.rows[t].receipt = m.rows[t].receipt

LEMMA Pruning ==
  ASSUME NEW m, CountsPending(m), NEW n, NEW S, Prunes(m, n, S)
  PROVE  /\ CountsPending(n)
         /\ Stored(n) = Stored(m)
         /\ Pending(n) = Pending(m) \ S
         /\ \A t \in Tx : n.rows[t].receipt = m.rows[t].receipt
<1>1. Stored(n) = Stored(m)
  BY DEF Stored, Prunes
<1>2. Pending(n) = Pending(m) \ S
  BY <1>1 DEF Pending, Stored, Prunes
<1> DEFINE P == Pending(m)
           D == S \cap P
<1>3. /\ IsFiniteSet(P)
      /\ m.count = Cardinality(P)
      /\ Pending(n) = P \ D
      /\ D \subseteq P
      /\ n.count = m.count + -Cardinality(D)
  BY <1>2, FS_Subset DEF CountsPending, Pending, Prunes
<1> HIDE DEF P, D
<1>4. n.count = Cardinality(Pending(n)) /\ n.count \in Nat
  BY <1>3, Removing
<1>5. n \in MempoolState
  BY <1>4 DEF MempoolState, Prunes
<1>6. \A t \in Tx : n.rows[t].receipt = m.rows[t].receipt
  BY DEF Prunes
<1> QED BY <1>1, <1>2, <1>4, <1>5, <1>6 DEF CountsPending

\* A statement that makes the rows N, none of them pending, pending.
Unprunes(m, n, N) ==
  /\ N \subseteq Tx /\ IsFiniteSet(N) /\ N \cap Pending(m) = {}
  /\ n.rows \in [Tx -> Row]
  /\ n = [rows |-> n.rows, count |-> m.count + Cardinality(N)]
  /\ \A t \in Tx \ N : n.rows[t] = m.rows[t]
  /\ \A t \in N : n.rows[t].pruned = FALSE /\ n.rows[t].status # "absent"

LEMMA Unpruning ==
  ASSUME NEW m, CountsPending(m), NEW n, NEW N, Unprunes(m, n, N)
  PROVE  /\ CountsPending(n)
         /\ Stored(n) = Stored(m) \cup N
         /\ Pending(n) = Pending(m) \cup N
<1>1. Stored(n) = Stored(m) \cup N
  BY DEF Stored, Unprunes
<1>2. Pending(n) = Pending(m) \cup N
  BY <1>1 DEF Pending, Stored, Unprunes
<1> DEFINE P == Pending(m)
<1>3. /\ IsFiniteSet(P) /\ IsFiniteSet(N)
      /\ P \cap N = {}
      /\ m.count = Cardinality(P)
      /\ Pending(n) = P \cup N
      /\ n.count = m.count + Cardinality(N)
  BY <1>2, FS_Subset DEF CountsPending, Pending, Unprunes
<1> HIDE DEF P
<1>4. n.count = Cardinality(Pending(n)) /\ n.count \in Nat
  <2>1. /\ Cardinality(P \cup N) \in Nat
        /\ Cardinality(P \cup N) = Cardinality(P) + Cardinality(N)
    BY <1>3, Adding
  <2> QED BY <1>3, <2>1
<1>5. n \in MempoolState
  BY <1>4 DEF MempoolState, Unprunes
<1>6. IsFiniteSet(Stored(n))
  BY <1>1, <1>3, FS_Union DEF CountsPending
<1> QED BY <1>1, <1>2, <1>4, <1>5, <1>6 DEF CountsPending

LEMMA RowType ==
  ASSUME NEW m, m \in MempoolState
  PROVE  /\ m.rows \in [Tx -> Row]
         /\ \A t \in Tx : m.rows[t] \in Row
         /\ m.count \in Nat
BY DEF MempoolState

\* The columns the statements set in a row.
LEMMA SetPruned ==
  ASSUME NEW r \in Row, NEW p \in BOOLEAN
  PROVE  LET n == [r EXCEPT !.pruned = p]
         IN /\ n \in Row /\ n.pruned = p /\ n.status = r.status
            /\ n.replaced_by = r.replaced_by /\ n.receipt = r.receipt
BY DEF Row

LEMMA SetReplaced ==
  ASSUME NEW r \in Row, NEW p \in BOOLEAN, NEW by \in Tx \cup {NoTx}
  PROVE  LET n == [r EXCEPT !.pruned = p, !.replaced_by = by]
         IN /\ n \in Row /\ n.pruned = p /\ n.status = r.status
            /\ n.replaced_by = by /\ n.receipt = r.receipt
BY DEF Row

LEMMA SetStatus ==
  ASSUME NEW r \in Row, NEW p \in BOOLEAN,
         NEW st \in {"pending", "rbf", "gc", "dropped"}
  PROVE  LET n == [r EXCEPT !.pruned = p, !.status = st]
         IN /\ n \in Row /\ n.pruned = p /\ n.status = st
            /\ n.replaced_by = r.replaced_by /\ n.receipt = r.receipt
BY DEF Row

\* pruneMempoolTxs
LEMMA PruneKeeps ==
  ASSUME NEW m, CountsPending(m), NEW T
  PROVE  /\ CountsPending(PruneMempoolTxs(m, T))
         /\ Stored(PruneMempoolTxs(m, T)) = Stored(m)
         /\ Pending(PruneMempoolTxs(m, T)) = Pending(m) \ Affected(m, T)
         /\ \A t \in Tx : PruneMempoolTxs(m, T).rows[t].receipt = m.rows[t].receipt
<1> DEFINE n == PruneMempoolTxs(m, T)
           gone == Pending(m) \cap Affected(m, T)
           new(t) == [m.rows[t] EXCEPT !.pruned = TRUE, !.replaced_by = NoTx]
<1>1. m \in MempoolState
  BY DEF CountsPending
<1>2. n = [rows |-> [t \in Tx |-> IF t \in gone THEN new(t) ELSE m.rows[t]],
           count |-> m.count + -Cardinality(gone)]
  BY DEF PruneMempoolTxs, SetRows
<1>3. gone \subseteq Stored(m) /\ gone \cap Pending(m) = gone
  BY DEF Pending
<1>4. \A t \in Tx : /\ m.rows[t] \in Row
                    /\ new(t) \in Row
                    /\ new(t).pruned = TRUE
                    /\ new(t).status = m.rows[t].status
                    /\ new(t).receipt = m.rows[t].receipt
  BY <1>1, RowType, SetReplaced
<1> HIDE DEF n, gone, new
<1>5. Prunes(m, n, gone)
  BY <1>2, <1>3, <1>4 DEF Prunes, Stored
<1>6. /\ CountsPending(n) /\ Stored(n) = Stored(m)
      /\ Pending(n) = Pending(m) \ gone
      /\ \A t \in Tx : n.rows[t].receipt = m.rows[t].receipt
  BY <1>5, Pruning
<1>7. Pending(m) \ gone = Pending(m) \ Affected(m, T)
  BY DEF gone
<1> QED BY <1>6, <1>7 DEF n

-----------------------------------------------------------------------------
(* Who wins a nonce. *)

FinitelyMined(rs) == rs["txs"] \subseteq Block /\ IsFiniteSet(rs["txs"])

LEMMA MinedFinite ==
  ASSUME NEW rs, FinitelyMined(rs)
  PROVE  Mined(rs) \subseteq Tx /\ IsFiniteSet(Mined(rs))
<1> DEFINE B == rs["txs"]
           F == {TxsOf[b] : b \in B}
           f == [b \in B |-> TxsOf[b]]
<1>1. B \subseteq Block /\ IsFiniteSet(B)
  BY DEF FinitelyMined
<1>2. f \in Surjection(B, F)
  BY DEF Surjection
<1>3. IsFiniteSet(F)
  BY <1>1, <1>2, FS_Surjection
<1>4. \A S \in F : IsFiniteSet(S) /\ S \subseteq Tx
  BY <1>1, TxAssumption
<1>5. IsFiniteSet(UNION F) /\ UNION F \subseteq Tx
  BY <1>3, <1>4, FS_UNION
<1> QED BY <1>5 DEF Mined

LEMMA MinedHeightType ==
  ASSUME TypeOK, NEW rs, FinitelyMined(rs), NEW t \in Mined(rs)
  PROVE  MinedHeight(rs, t) \in Nat
<1> DEFINE B == {x \in rs["txs"] : t \in TxsOf[x]}
           h(b) == Height[IF b = Genesis THEN boot ELSE b]
           hs == {h(b) : b \in B}
           f == [b \in B |-> h(b)]
           id == [k \in hs |-> k]
<1>1. B # {} /\ B \subseteq Block /\ IsFiniteSet(B)
  BY FS_Subset DEF Mined, FinitelyMined
<1>2. \A b \in B : h(b) \in Nat
  BY <1>1, BlockAssumption DEF TypeOK
<1>3. hs # {} /\ hs \subseteq Nat /\ IsFiniteSet(hs)
  <2>1. f \in Surjection(B, hs)
    BY DEF Surjection
  <2> QED BY <1>1, <1>2, <2>1, FS_Surjection
<1>4. MinedHeight(rs, t) = CHOOSE k \in hs : \A l \in hs : l <= k
  BY DEF MinedHeight
<1> HIDE DEF hs
<1>5. id \in [hs -> Nat]
  BY <1>3
<1>6. PICK k \in hs : \A l \in hs : id[l] <= id[k]
  <2> HIDE DEF id
  <2> QED BY <1>3, <1>5, FiniteMax
<1>7. \E k1 \in hs : \A l \in hs : l <= k1
  BY <1>6
<1> QED BY <1>3, <1>4, <1>7

\* The mined transaction of a group that counts is one of them.
LEMMA LatestIsMined ==
  ASSUME TypeOK, NEW rs, FinitelyMined(rs), NEW g,
         \E t \in Mined(rs) : InGroup(t, g)
  PROVE  LatestMined(rs, g) \in Mined(rs) /\ InGroup(LatestMined(rs, g), g)
<1> DEFINE ms == {t \in Mined(rs) : InGroup(t, g)}
           height == [t \in ms |-> MinedHeight(rs, t)]
           Last(t) == \A u \in ms :
                        \/ MinedHeight(rs, u) < MinedHeight(rs, t)
                        \/ /\ MinedHeight(rs, u) = MinedHeight(rs, t)
                           /\ Attr[u].index <= Attr[t].index
<1>1. /\ ms # {} /\ ms \subseteq Tx /\ IsFiniteSet(ms)
      /\ \A t \in ms : MinedHeight(rs, t) \in Nat
  BY MinedFinite, MinedHeightType, FS_Subset
<1>2. height \in [ms -> Nat]
  BY <1>1
<1>3. PICK t \in ms : \A u \in ms : height[u] <= height[t]
  <2> HIDE DEF height, ms
  <2> QED BY <1>1, <1>2, FiniteMax
<1> DEFINE top == {u \in ms : MinedHeight(rs, u) = MinedHeight(rs, t)}
           index == [u \in top |-> Attr[u].index]
<1>4. top # {} /\ IsFiniteSet(top) /\ index \in [top -> Nat]
  BY <1>1, <1>3, FS_Subset, AttrAssumption
<1>5. PICK s \in top : \A u \in top : index[u] <= index[s]
  <2> HIDE DEF top, index
  <2> QED BY <1>4, FiniteMax
<1>6. s \in ms /\ Last(s)
  BY <1>1, <1>3, <1>5
<1>7. LatestMined(rs, g) = CHOOSE x \in ms : Last(x)
  BY DEF LatestMined
<1>8. LatestMined(rs, g) \in ms
  <2> HIDE DEF ms, Last
  <2> QED BY <1>6, <1>7
<1> QED BY <1>8

\* So is the row of a group with the highest fee, and none pays more.
LEMMA HighestFeeWins ==
  ASSUME NEW m, IsFiniteSet(Stored(m)), NEW g, \E t \in Stored(m) : InGroup(t, g)
  PROVE  /\ HighestFee(m, g) \in Stored(m)
         /\ InGroup(HighestFee(m, g), g)
         /\ \A u \in Stored(m) :
              InGroup(u, g) => Attr[u].fee <= Attr[HighestFee(m, g)].fee
<1> DEFINE ms == {t \in Stored(m) : InGroup(t, g)}
           fee == [t \in ms |-> Attr[t].fee]
<1>1. ms # {} /\ IsFiniteSet(ms) /\ fee \in [ms -> Nat]
  BY FS_Subset, AttrAssumption DEF Stored
<1>2. PICK t \in ms : \A u \in ms : fee[u] <= fee[t]
  <2> HIDE DEF ms, fee
  <2> QED BY <1>1, FiniteMax
<1>3. \A u \in ms : Attr[u].fee <= Attr[t].fee
  BY <1>2
<1>4. HighestFee(m, g) = CHOOSE x \in ms : \A u \in ms : Attr[u].fee <= Attr[x].fee
  BY DEF HighestFee
<1>5. HighestFee(m, g) \in ms /\ \A u \in ms : Attr[u].fee <= Attr[HighestFee(m, g)].fee
  <2> HIDE DEF ms
  <2> QED BY <1>2, <1>3, <1>4
<1> QED BY <1>5

LEMMA WinnerOfGroup ==
  ASSUME TypeOK, NEW m, IsFiniteSet(Stored(m)), NEW rs, FinitelyMined(rs), NEW g,
         \E t \in Stored(m) : InGroup(t, g)
  PROVE  LET w == WinningTx(m, rs, g)
         IN /\ w \in Tx
            /\ InGroup(w, g)
            /\ \/ w \in Mined(rs)
               \/ /\ \A u \in Mined(rs) : ~InGroup(u, g)
                  /\ \A u \in Stored(m) : InGroup(u, g) => Attr[u].fee <= Attr[w].fee
<1>1. CASE \E t \in Mined(rs) : InGroup(t, g)
  <2>1. WinningTx(m, rs, g) = LatestMined(rs, g)
    BY <1>1 DEF WinningTx
  <2> QED BY <1>1, <2>1, LatestIsMined, MinedFinite
<1>2. CASE ~\E t \in Mined(rs) : InGroup(t, g)
  <2>1. WinningTx(m, rs, g) = HighestFee(m, g)
    BY <1>2 DEF WinningTx
  <2> QED BY <1>2, <2>1, HighestFeeWins DEF Stored
<1> QED BY <1>1, <1>2

\* t loses its nonce to a transaction of M, or to one that pays more.
LostTo(t, M) ==
  \E u \in Tx : Rivals(t, u) /\ (u \in M \/ Attr[u].fee > Attr[t].fee)

LEMMA InOneGroup ==
  ASSUME NEW x \in Tx, NEW t \in Tx, NEW u \in Tx, t # u,
         InGroup(t, Group(x)), InGroup(u, Group(x))
  PROVE  Rivals(t, u)
<1>1. Payer(x) \in Address
  BY AttrAssumption DEF Payer
<1> QED BY <1>1 DEF InGroup, Group, Rivals

LEMMA OwnGroup ==
  ASSUME NEW t \in Tx, NEW u \in Tx, Group(t) = Group(u)
  PROVE  InGroup(t, Group(u)) /\ InGroup(u, Group(u))
BY AttrAssumption DEF Group, InGroup, Payer

Losers(m, rs, T) == TxsToPrune(m, rs, {Group(t) : t \in T})

\* Every loser has a winner.
LEMMA LoserHasRival ==
  ASSUME TypeOK, NEW m, IsFiniteSet(Stored(m)), NEW rs, FinitelyMined(rs),
         NEW T \in SUBSET Tx, NEW t \in Losers(m, rs, T)
  PROVE  LostTo(t, Mined(rs))
<1>1. PICK x \in T : InGroup(t, Group(x)) /\ WinningTx(m, rs, Group(x)) # t
  BY DEF Losers, TxsToPrune
<1>2. t \in Stored(m) /\ t \in Tx /\ x \in Tx
  BY DEF Losers, TxsToPrune, Stored
<1> DEFINE w == WinningTx(m, rs, Group(x))
<1>3. /\ w \in Tx /\ InGroup(w, Group(x))
      /\ w \in Mined(rs) \/ Attr[t].fee <= Attr[w].fee
  <2>1. \E y \in Stored(m) : InGroup(y, Group(x))
    BY <1>1, <1>2
  <2> QED BY <1>1, <1>2, <2>1, WinnerOfGroup
<1> HIDE DEF w
<1>4. Rivals(t, w)
  BY <1>1, <1>2, <1>3, InOneGroup DEF w
<1>5. w \in Mined(rs) \/ Attr[w].fee > Attr[t].fee
  BY <1>1, <1>2, <1>3, AttrAssumption DEF w
<1> QED BY <1>3, <1>4, <1>5 DEF LostTo

\* updateReplacedByFeeStatusForTxIds
LEMMA RbfKeeps ==
  ASSUME TypeOK, NEW m, CountsPending(m), NEW rs, FinitelyMined(rs), NEW T
  PROVE  /\ CountsPending(UpdateReplacedByFee(m, rs, T))
         /\ Stored(UpdateReplacedByFee(m, rs, T)) = Stored(m)
         /\ Pending(UpdateReplacedByFee(m, rs, T)) = Pending(m) \ Losers(m, rs, T)
         /\ \A t \in Tx : UpdateReplacedByFee(m, rs, T).rows[t].receipt
                              = m.rows[t].receipt
<1> DEFINE n == UpdateReplacedByFee(m, rs, T)
           groups == {Group(t) : t \in T}
           losers == Losers(m, rs, T)
           g(t) == CHOOSE x \in groups : InGroup(t, x)
           winner(t) == WinningTx(m, rs, g(t))
           new(t) == [m.rows[t] EXCEPT !.pruned = TRUE, !.status = "rbf",
                                       !.replaced_by = winner(t)]
<1>1. n = [rows |-> [t \in Tx |-> IF t \in losers THEN new(t) ELSE m.rows[t]],
           count |-> m.count - Cardinality(losers \cap Pending(m))]
  BY DEF UpdateReplacedByFee, Losers
<1>2. losers \subseteq Stored(m)
  BY DEF Losers, TxsToPrune
<1>3. \A t \in losers : winner(t) \in Tx
  <2> SUFFICES ASSUME NEW t \in losers PROVE winner(t) \in Tx
    OBVIOUS
  <2>1. \E x \in groups : InGroup(t, x)
    BY DEF Losers, TxsToPrune
  <2>2. InGroup(t, g(t))
    BY <2>1
  <2>3. t \in Stored(m) /\ IsFiniteSet(Stored(m))
    BY <1>2 DEF CountsPending
  <2> HIDE DEF g
  <2> QED BY <2>2, <2>3, WinnerOfGroup
<1>4. \A t \in losers : /\ new(t) \in Row
                        /\ new(t).pruned = TRUE
                        /\ new(t).status = "rbf"
                        /\ new(t).receipt = m.rows[t].receipt
  <2> SUFFICES ASSUME NEW t \in losers
               PROVE  /\ new(t) \in Row /\ new(t).pruned = TRUE
                      /\ new(t).status = "rbf" /\ new(t).receipt = m.rows[t].receipt
    OBVIOUS
  <2>1. m.rows[t] \in Row /\ winner(t) \in Tx \cup {NoTx}
    BY <1>2, <1>3, RowType DEF CountsPending, Stored
  <2>2. ASSUME NEW by \in Tx \cup {NoTx}
        PROVE  LET r == [m.rows[t] EXCEPT !.pruned = TRUE, !.status = "rbf",
                                          !.replaced_by = by]
               IN /\ r \in Row /\ r.pruned = TRUE /\ r.status = "rbf"
                  /\ r.receipt = m.rows[t].receipt
    BY <2>1 DEF Row
  <2> HIDE DEF winner
  <2> QED BY <2>1, <2>2
<1> HIDE DEF n, losers, new
<1>5. m.count - Cardinality(losers \cap Pending(m))
        = m.count + -Cardinality(losers \cap Pending(m))
  <2>1. IsFiniteSet(Pending(m)) /\ m.count = Cardinality(Pending(m))
    BY FS_Subset DEF CountsPending, Pending
  <2> DEFINE D == losers \cap Pending(m)
  <2>2. D \subseteq Pending(m)
    OBVIOUS
  <2> HIDE DEF D
  <2>3. Cardinality(Pending(m)) + -Cardinality(D) = Cardinality(Pending(m)) - Cardinality(D)
    BY <2>1, <2>2, Removing
  <2> QED BY <2>1, <2>3 DEF D
<1>6. m.rows \in [Tx -> Row]
  BY RowType DEF CountsPending
<1>7. Prunes(m, n, losers)
  BY <1>1, <1>2, <1>4, <1>5, <1>6 DEF Prunes, Stored
<1> QED BY <1>7, Pruning DEF n, losers

\* deleteGarbageCollectedMempoolTxs
LEMMA GcKeeps ==
  ASSUME NEW m, CountsPending(m)
  PROVE  /\ CountsPending(DeleteGarbageCollected(m))
         /\ Stored(DeleteGarbageCollected(m)) = Stored(m)
         /\ Pending(DeleteGarbageCollected(m)) =
              {t \in Pending(m) : ~(m.rows[t].receipt + MempoolAge <= tip.height)}
         /\ \A t \in Tx : DeleteGarbageCollected(m).rows[t].receipt = m.rows[t].receipt
<1> DEFINE n == DeleteGarbageCollected(m)
           old == {t \in Pending(m) : m.rows[t].receipt + MempoolAge <= tip.height}
           new(t) == [m.rows[t] EXCEPT !.pruned = TRUE, !.status = "gc"]
<1>1. n = [rows |-> [t \in Tx |-> IF t \in old THEN new(t) ELSE m.rows[t]],
           count |-> m.count + -Cardinality(old)]
  BY DEF DeleteGarbageCollected, SetRows
<1>2. old \subseteq Stored(m) /\ old \cap Pending(m) = old
  BY DEF Pending
<1>3. \A t \in Tx : /\ m.rows[t] \in Row
                    /\ new(t) \in Row
                    /\ new(t).pruned = TRUE
                    /\ new(t).status = "gc"
                    /\ new(t).receipt = m.rows[t].receipt
  BY RowType, SetStatus DEF CountsPending
<1>4. Pending(m) \ old = {t \in Pending(m) : ~(m.rows[t].receipt + MempoolAge <= tip.height)}
  OBVIOUS
<1> HIDE DEF n, old, new
<1>5. Prunes(m, n, old)
  BY <1>1, <1>2, <1>3 DEF Prunes, Stored
<1> QED BY <1>4, <1>5, Pruning DEF n

\* The first statements of insertDbMempoolTxs.
LEMMA InsertRowsKeeps ==
  ASSUME TypeOK, NEW m, CountsPending(m), NEW rs, NEW T \in SUBSET Tx, IsFiniteSet(T)
  PROVE  /\ CountsPending(InsertRows(m, rs, T))
         /\ Stored(InsertRows(m, rs, T)) = Stored(m) \cup T
         /\ Pending(InsertRows(m, rs, T)) =
              (Pending(m) \cup Revived(m, rs, T) \cup (T \ Stored(m)))
                \ (T \cap Mined(rs))
<1> DEFINE N == Revived(m, rs, T) \cup (T \ Stored(m))
           m1 == SetRows(m, N, LAMBDA r : Fresh, Cardinality(N))
           mined == T \cap Mined(rs) \cap Pending(m1)
           n == InsertRows(m, rs, T)
           new(t) == [m1.rows[t] EXCEPT !.pruned = TRUE]
<1>1. N \subseteq T /\ N \cap Pending(m) = {} /\ IsFiniteSet(N)
  BY FS_Subset DEF Revived, Pending
<1>2. m1 = [rows |-> [t \in Tx |-> IF t \in N THEN Fresh ELSE m.rows[t]],
            count |-> m.count + Cardinality(N)]
  BY DEF SetRows
<1>3. Fresh \in Row /\ Fresh.pruned = FALSE /\ Fresh.status # "absent"
  BY DEF Fresh, Row, TypeOK
<1>4. Unprunes(m, m1, N)
  <2> HIDE DEF N, m1
  <2>1. m.rows \in [Tx -> Row]
    BY RowType DEF CountsPending
  <2> QED BY <1>1, <1>2, <1>3, <2>1 DEF Unprunes
<1>5. /\ CountsPending(m1)
      /\ Stored(m1) = Stored(m) \cup N
      /\ Pending(m1) = Pending(m) \cup N
  <2> HIDE DEF N, m1
  <2> QED BY <1>4, Unpruning
<1>6. n = [rows |-> [t \in Tx |-> IF t \in mined THEN new(t) ELSE m1.rows[t]],
           count |-> m1.count + -Cardinality(mined)]
  BY DEF InsertRows, SetRows
<1>7. Stored(m) \cup N = Stored(m) \cup T
  BY DEF Revived
<1> HIDE DEF n, m1, N
<1>8. mined \subseteq Stored(m1) /\ mined \cap Pending(m1) = mined
  BY DEF Pending
<1>9. \A t \in Tx : /\ m1.rows[t] \in Row
                    /\ new(t) \in Row
                    /\ new(t).pruned = TRUE
                    /\ new(t).status = m1.rows[t].status
                    /\ new(t).receipt = m1.rows[t].receipt
  BY <1>5, RowType, SetPruned DEF CountsPending
<1>10. Prunes(m1, n, mined)
  <2> HIDE DEF mined, new
  <2> QED BY <1>6, <1>8, <1>9 DEF Prunes, Stored
<1>11. CountsPending(n) /\ Stored(n) = Stored(m1) /\ Pending(n) = Pending(m1) \ mined
  <2> HIDE DEF mined
  <2> QED BY <1>5, <1>10, Pruning
<1>12. Pending(n) = (Pending(m) \cup N) \ (T \cap Mined(rs))
  BY <1>5, <1>11
<1> QED BY <1>5, <1>7, <1>11, <1>12 DEF n, N

\* insertDbMempoolTxs: no transaction it makes pending has a mined rival with
\* its payer, and what was pending or is inserted only leaves for a rival.
LEMMA InsertKeeps ==
  ASSUME TypeOK, NEW m, CountsPending(m), NEW rs, FinitelyMined(rs),
         NEW T \in SUBSET Tx, IsFiniteSet(T)
  PROVE  LET n == InsertDbMempoolTxs(m, rs, T)
         IN /\ CountsPending(n)
            /\ Stored(n) = Stored(m) \cup T
            /\ Pending(n) \subseteq Pending(m) \cup T
            /\ \A t \in Pending(n) \ Pending(m) : \A u \in Mined(rs) : Group(t) # Group(u)
            /\ \A t \in (Pending(m) \cup T) \ Mined(rs) :
                 t \in Pending(n) \/ LostTo(t, Mined(rs))
<1> DEFINE N == Revived(m, rs, T) \cup (T \ Stored(m))
           m1 == InsertRows(m, rs, T)
           n == InsertDbMempoolTxs(m, rs, T)
<1>1. /\ CountsPending(m1)
      /\ Stored(m1) = Stored(m) \cup T
      /\ Pending(m1) = (Pending(m) \cup N) \ (T \cap Mined(rs))
  BY InsertRowsKeeps
<1>2. n = UpdateReplacedByFee(m1, rs, N)
  BY DEF InsertDbMempoolTxs
<1>3. N \subseteq T
  BY DEF Revived
<1>4. \A t \in T : t \in Pending(m) \cup N \cup Mined(rs)
  BY DEF Revived
<1> HIDE DEF n, m1, N
<1>5. /\ CountsPending(n)
      /\ Stored(n) = Stored(m1)
      /\ Pending(n) = Pending(m1) \ Losers(m1, rs, N)
  BY <1>1, <1>2, RbfKeeps
<1>6. IsFiniteSet(Stored(m1))
  BY <1>1 DEF CountsPending
<1>7. ASSUME NEW t \in Pending(n) \ Pending(m), NEW u \in Mined(rs), Group(t) = Group(u)
      PROVE  FALSE
  <2>1. t \in N /\ t \in T /\ t \in Tx /\ t \notin Mined(rs) /\ t \in Stored(m1)
    BY <1>1, <1>3, <1>5, <1>7
  <2>2. u \in Tx /\ InGroup(u, Group(t)) /\ InGroup(t, Group(t))
    BY <2>1, <1>7, MinedFinite, OwnGroup
  <2>3. WinningTx(m1, rs, Group(t)) \in Mined(rs)
    <3>1. WinningTx(m1, rs, Group(t)) = LatestMined(rs, Group(t))
      BY <2>2 DEF WinningTx
    <3> QED BY <2>2, <3>1, LatestIsMined
  <2>4. t \in Losers(m1, rs, N)
    BY <2>1, <2>2, <2>3 DEF Losers, TxsToPrune
  <2> QED BY <1>5, <1>7, <2>4
<1>8. ASSUME NEW t \in (Pending(m) \cup T) \ Mined(rs), t \notin Pending(n)
      PROVE  LostTo(t, Mined(rs))
  <2>1. t \in Losers(m1, rs, N)
    BY <1>1, <1>4, <1>5, <1>8
  <2> QED BY <1>3, <1>6, <2>1, LoserHasRival
<1>9. Pending(n) \subseteq Pending(m) \cup T
  BY <1>1, <1>3, <1>5
<1> QED BY <1>1, <1>5, <1>7, <1>8, <1>9 DEF n

\* restoreMempoolTxs
LEMMA RestoreKeeps ==
  ASSUME TypeOK, NEW m, CountsPending(m), NEW rs, FinitelyMined(rs),
         NEW T \in SUBSET Tx, IsFiniteSet(T)
  PROVE  LET n == RestoreMempoolTxs(m, rs, T)
         IN /\ CountsPending(n)
            /\ Stored(n) = Stored(m) \cup T
            /\ Pending(n) \subseteq Pending(m) \cup Affected(n, T)
            /\ \A t \in (Pending(m) \cup T) \ Mined(rs) :
                 t \in Pending(n) \/ LostTo(t, Mined(rs))
<1> DEFINE N == RestoredRows(m, T)
           m1 == Unpruned(m, T)
           n == RestoreMempoolTxs(m, rs, T)
           new(t) == [m.rows[t] EXCEPT !.pruned = FALSE, !.status = "pending",
                                       !.replaced_by = NoTx]
<1>1. /\ N \subseteq Stored(m) /\ N \subseteq Tx
      /\ N \subseteq Affected(m, T)
      /\ N \cap Pending(m) = {}
      /\ IsFiniteSet(N)
  BY FS_Subset DEF RestoredRows, Affected, Stored, CountsPending
<1>2. m1 = [rows |-> [t \in Tx |-> IF t \in N THEN new(t) ELSE m.rows[t]],
            count |-> m.count + Cardinality(N)]
  BY DEF Unpruned, SetRows
<1>3. \A t \in Tx : /\ m.rows[t] \in Row
                    /\ new(t) \in Row
                    /\ new(t).pruned = FALSE
                    /\ new(t).status = "pending"
  <2>1. \A t \in Tx : m.rows[t] \in Row
    BY RowType DEF CountsPending
  <2> QED BY <2>1 DEF Row
<1> HIDE DEF N, m1, n, new
<1>4. Unprunes(m, m1, N)
  BY <1>1, <1>2, <1>3 DEF Unprunes
<1>5. /\ CountsPending(m1)
      /\ Stored(m1) = Stored(m)
      /\ Pending(m1) = Pending(m) \cup N
  BY <1>1, <1>4, Unpruning
<1>6. n = InsertDbMempoolTxs(m1, rs, T \ N)
  BY DEF RestoreMempoolTxs, n, m1, N
<1>7. /\ CountsPending(n)
      /\ Stored(n) = Stored(m1) \cup (T \ N)
      /\ Pending(n) \subseteq Pending(m1) \cup (T \ N)
      /\ \A t \in (Pending(m1) \cup (T \ N)) \ Mined(rs) :
           t \in Pending(n) \/ LostTo(t, Mined(rs))
  <2> DEFINE U == T \ N
  <2>1. U \in SUBSET Tx /\ IsFiniteSet(U)
    BY FS_Subset
  <2> HIDE DEF U
  <2>2. n = InsertDbMempoolTxs(m1, rs, U)
    BY <1>6 DEF U
  <2> QED BY <1>5, <2>1, <2>2, InsertKeeps DEF U
<1>8. Stored(n) = Stored(m) \cup T
  BY <1>1, <1>5, <1>7
<1>9. Pending(n) \subseteq Pending(m) \cup Affected(n, T)
  <2>1. Pending(n) \subseteq Stored(n)
    BY DEF Pending
  <2>2. N \subseteq Affected(n, T)
    BY <1>1, <1>8 DEF Affected
  <2> QED BY <1>5, <1>7, <1>8, <2>1, <2>2 DEF Affected
<1> QED BY <1>5, <1>7, <1>8, <1>9 DEF n

-----------------------------------------------------------------------------
(* Types, and the count of pending transactions. *)

\* Every step of the mempool's specification is one of the store's.
LEMMA MempoolRunsStore == [MNext]_mvars => [Next]_vars
BY DEF MNext, mvars, vars, Next, MBeginUpdate, MRestoreOrphanedChain, MCommitUpdate,
       MAbortUpdate, MFailUpdate, UpdateMempoolTxs, DropMempoolTxs

\* The rows of txs in one level of restoreOrphanedChain: those of the orphaned
\* block go, those of the block at the cursor come.
LEMMA RestoreRows ==
  ASSUME EntityInv, RestoreOrphanedChain
  PROVE  LET c == job.cursor
             D == RowsWithout(OrphanedBy(c))
             W == work.rows["txs"]
             P == work'.rows["txs"]
         IN /\ D \in [Table -> SUBSET blocks]
            /\ D["txs"] \subseteq W
            /\ D["txs"] \subseteq P
            /\ P \ D["txs"] = RowsAt("txs", c)
            /\ \/ OrphanedBy(c) = {} /\ W \ D["txs"] = {}
               \/ \E o \in work.canonical \ {Genesis} :
                    OrphanedBy(c) = {o} /\ W \ D["txs"] = RowsAt("txs", o)
<1> USE BlockAssumption
<1> DEFINE c == job.cursor
           D == RowsWithout(OrphanedBy(c))
           W == work.rows["txs"]
           P == work'.rows["txs"]
<1>1. /\ TypeOK /\ TypeInv /\ BootInv
      /\ RowsFollow(work.rows, work.canonical)
      /\ work.rows \in [Table -> SUBSET blocks] /\ work.canonical \subseteq blocks
      /\ job.phase = "restore" /\ c \in blocks \ work.canonical
      /\ work'.rows = MarkEntitiesCanonical(D, c, TRUE)
      /\ "txs" \in Table /\ "txs" \in BootTables \ {"subdomains"}
  BY AllTables, TxsIsTable DEF EntityInv, ChainInv, TypeInv, TypeOK, RestoreOrphanedChain
<1>2. D \in [Table -> SUBSET blocks]
  BY <1>1, MarkType DEF RowsWithout
<1>3. \A i : FlippedRows("txs", i) = RowsAt("txs", i)
  BY <1>1, AllTables DEF FlippedRows
<1>4. \A i \in blocks : \A b \in RowsAt("txs", i) :
        (b # Genesis => b = i) /\ (b = Genesis => Genesis \in blocks /\ boot = i)
  BY <1>1 DEF RowsAt
<1>5. RowsAt("txs", c) \cap W = {}
  <2> SUFFICES ASSUME NEW b \in RowsAt("txs", c), b \in W PROVE FALSE
    OBVIOUS
  <2>1. b \in blocks /\ (b # Genesis => b = c) /\ (b = Genesis => boot = c)
    BY <1>1, <1>4
  <2> QED BY <1>1, <2>1 DEF RowsFollow
<1>6. P = D["txs"] \cup RowsAt("txs", c)
  <2> HIDE DEF D
  <2> QED BY <1>1, <1>3 DEF MarkEntitiesCanonical
<1>7. \/ OrphanedBy(c) = {} /\ D["txs"] = W
      \/ \E o \in work.canonical \ {Genesis} :
           OrphanedBy(c) = {o} /\ D["txs"] = W \ RowsAt("txs", o)
  <2>1. CASE OrphanedBy(c) = {}
    BY <2>1 DEF RowsWithout
  <2>2. ASSUME NEW o \in work.canonical \ {Genesis}, OrphanedBy(c) = {o}
        PROVE  D["txs"] = W \ RowsAt("txs", o)
    <3>1. D = MarkEntitiesCanonical(work.rows, o, FALSE)
      BY <2>2 DEF RowsWithout
    <3> QED BY <1>1, <1>3, <3>1 DEF MarkEntitiesCanonical
  <2> QED BY <1>1, <2>1, <2>2, OneOrphan DEF EntityInv
<1>8. ASSUME NEW o \in work.canonical \ {Genesis}
      PROVE  RowsAt("txs", o) \subseteq W
  <2> SUFFICES ASSUME NEW b \in RowsAt("txs", o) PROVE b \in W
    OBVIOUS
  <2>1. b \in blocks /\ (b # Genesis => b = o) /\ (b = Genesis => boot = o)
    BY <1>1, <1>4 DEF RowsAt
  <2> QED BY <1>1, <2>1 DEF RowsFollow
<1> HIDE DEF D
<1>9. D["txs"] \subseteq W
  BY <1>7
<1>10. P \ D["txs"] = RowsAt("txs", c) /\ D["txs"] \subseteq P
  BY <1>5, <1>6, <1>9
<1>11. \/ OrphanedBy(c) = {} /\ W \ D["txs"] = {}
       \/ \E o \in work.canonical \ {Genesis} :
            OrphanedBy(c) = {o} /\ W \ D["txs"] = RowsAt("txs", o)
  BY <1>7, <1>8
<1> QED BY <1>2, <1>9, <1>10, <1>11 DEF D

LEMMA StoredMined ==
  ASSUME TypeInv, NEW rs \in [Table -> SUBSET blocks]
  PROVE  FinitelyMined(rs)
BY TxsIsTable, FS_Subset DEF FinitelyMined, TypeInv, TypeOK

\* The transactions of rows with one index_block_hash.
LEMMA SpentFinite ==
  ASSUME TypeInv, NEW i
  PROVE  SpentBy(i) \subseteq Tx /\ IsFiniteSet(SpentBy(i))
<1> DEFINE rs == [t \in {"txs"} |-> RowsAt("txs", i)]
<1>1. RowsAt("txs", i) \subseteq blocks
  BY DEF RowsAt, TypeInv, TypeOK
<1>2. FinitelyMined(rs)
  BY <1>1, FS_Subset DEF FinitelyMined, TypeInv, TypeOK
<1>3. Mined(rs) = SpentBy(i)
  BY DEF Mined, SpentBy
<1> QED BY <1>2, <1>3, MinedFinite

LEMMA AffectedHasRival ==
  ASSUME NEW m, NEW T \in SUBSET Tx, NEW t \in Affected(m, T), t \notin T
  PROVE  LostTo(t, T)
<1>1. PICK u \in T : InGroup(t, Group(u))
  BY DEF Affected
<1>2. t \in Tx /\ u \in Tx /\ t # u
  BY DEF Affected, Stored
<1>3. Rivals(t, u)
  BY <1>1, <1>2, OwnGroup, InOneGroup
<1> QED BY <1>2, <1>3 DEF LostTo

LEMMA LostToMore ==
  ASSUME NEW t, NEW M, NEW M2, M \subseteq M2, LostTo(t, M)
  PROVE  LostTo(t, M2)
BY DEF LostTo

\* One level of restoreOrphanedChain, with T the transactions it orphans.
LEMMA RestoredMempool ==
  ASSUME EntityInv, CountsPending(mempoolWork), MRestoreOrphanedChain
  PROVE  LET c == job.cursor
             T == OrphanTxs(RowsWithout(OrphanedBy(c)))
             m == mempoolWork
             n == mempoolWork'
         IN /\ RestoreOrphanedChain /\ mempool' = mempool
            /\ \/ T = {}
               \/ \E o \in work.canonical \ {Genesis} : OrphanedBy(c) = {o} /\ T = SpentBy(o)
            /\ CountsPending(n)
            /\ Stored(n) = Stored(m) \cup T
            /\ Pending(n) \subseteq Pending(m) \cup Affected(n, T)
            /\ Pending(n) \cap Affected(n, SpentBy(c)) = {}
            /\ Mined(work.rows) \subseteq Mined(work'.rows) \cup T
            /\ \A t \in (Pending(m) \cup T) \ Mined(work'.rows) :
                 t \in Pending(n) \/ LostTo(t, Mined(work'.rows))
<1> DEFINE c == job.cursor
           D == RowsWithout(OrphanedBy(c))
           T == OrphanTxs(D)
           m == mempoolWork
           m1 == RestoreMempoolTxs(m, D, T)
           n == mempoolWork'
           U == SpentBy(c)
<1>1. RestoreOrphanedChain /\ mempool' = mempool
  BY DEF MRestoreOrphanedChain
<1>2. TypeInv /\ TypeOK
  BY DEF EntityInv, ChainInv, TypeInv
<1>3. /\ D \in [Table -> SUBSET blocks]
      /\ D["txs"] \subseteq work.rows["txs"]
      /\ D["txs"] \subseteq work'.rows["txs"]
      /\ work'.rows["txs"] \ D["txs"] = RowsAt("txs", c)
      /\ \/ OrphanedBy(c) = {} /\ work.rows["txs"] \ D["txs"] = {}
         \/ \E o \in work.canonical \ {Genesis} :
              OrphanedBy(c) = {o} /\ work.rows["txs"] \ D["txs"] = RowsAt("txs", o)
  BY <1>1, RestoreRows
<1>4. n = PruneMempoolTxs(m1, RestoredTxs(work'.rows, D))
  BY DEF MRestoreOrphanedChain
<1>5. T = UNION {TxsOf[b] : b \in work.rows["txs"] \ D["txs"]}
  BY DEF OrphanTxs, Mined
<1>6. RestoredTxs(work'.rows, D) = U
  BY <1>3 DEF RestoredTxs, Mined, SpentBy
<1> HIDE DEF D
<1>7. \/ T = {}
      \/ \E o \in work.canonical \ {Genesis} : OrphanedBy(c) = {o} /\ T = SpentBy(o)
  BY <1>3, <1>5 DEF SpentBy
<1>8. T \in SUBSET Tx /\ IsFiniteSet(T)
  BY <1>2, <1>7, SpentFinite, FS_EmptySet
<1>9. U \in SUBSET Tx
  BY <1>2, SpentFinite
<1>10. FinitelyMined(D)
  BY <1>2, <1>3, StoredMined
<1> HIDE DEF T, m1, n, U, m
<1>11. /\ CountsPending(m1)
       /\ Stored(m1) = Stored(m) \cup T
       /\ Pending(m1) \subseteq Pending(m) \cup Affected(m1, T)
       /\ \A t \in (Pending(m) \cup T) \ Mined(D) :
            t \in Pending(m1) \/ LostTo(t, Mined(D))
  BY <1>2, <1>8, <1>10, RestoreKeeps DEF m1, m
<1>12. /\ CountsPending(n)
       /\ Stored(n) = Stored(m1)
       /\ Pending(n) = Pending(m1) \ Affected(m1, U)
  BY <1>4, <1>6, <1>11, PruneKeeps
<1>13. Affected(n, T) = Affected(m1, T) /\ Affected(n, U) = Affected(m1, U)
  BY <1>12 DEF Affected
<1>14. Mined(D) \subseteq Mined(work'.rows) /\ U \subseteq Mined(work'.rows)
  BY <1>3 DEF Mined, U, SpentBy
<1>15. Mined(work.rows) \subseteq Mined(work'.rows) \cup T
  BY <1>3, <1>5 DEF Mined
<1>16. ASSUME NEW t \in (Pending(m) \cup T) \ Mined(work'.rows), t \notin Pending(n)
       PROVE  LostTo(t, Mined(work'.rows))
  <2>1. CASE t \notin Pending(m1)
    <3>1. LostTo(t, Mined(D))
      BY <1>11, <1>14, <1>16, <2>1
    <3> QED BY <1>14, <3>1, LostToMore
  <2>2. CASE t \in Pending(m1)
    <3>1. t \in Affected(m1, U) /\ t \notin U
      BY <1>12, <1>14, <1>16, <2>2
    <3>2. LostTo(t, U)
      BY <1>9, <3>1, AffectedHasRival
    <3> QED BY <1>14, <3>2, LostToMore
  <2> QED BY <2>1, <2>2
<1>17. /\ Stored(n) = Stored(m) \cup T
       /\ Pending(n) \subseteq Pending(m) \cup Affected(n, T)
       /\ Pending(n) \cap Affected(n, U) = {}
  BY <1>11, <1>12, <1>13
<1> QED BY <1>1, <1>7, <1>12, <1>15, <1>16, <1>17 DEF T, D, m, n, U

\* The end of update().
LEMMA CommittedMempool ==
  ASSUME EntityInv, CountsPending(mempoolWork), MCommitUpdate
  PROVE  LET b == job.block
             m == mempoolWork
             n == mempool'
         IN /\ CommitUpdate /\ mempoolWork' = n
            /\ b \in Block /\ (IsCanonical(b) => b \notin blocks)
            /\ CountsPending(n)
            /\ Stored(n) = Stored(m)
            /\ Pending(n) \subseteq Pending(m)
            /\ IsCanonical(b) => Pending(n) \cap Affected(n, TxsOf[b]) = {}
            /\ \A t \in Pending(m) \ Mined(rows') :
                 \/ t \in Pending(n)
                 \/ LostTo(t, Mined(rows'))
                 \/ n.rows[t].receipt + MempoolAge <= tip.height
<1> DEFINE b == job.block
           m == mempoolWork
           n == mempool'
           m1 == PrunedForBlock(b)
           m2 == DeleteGarbageCollected(m1)
<1>1. /\ CommitUpdate /\ mempoolWork' = n
      /\ n = IF b \in blocks THEN m1 ELSE UpdateReplacedByFee(m2, rows', TxsOf[b])
  BY DEF MCommitUpdate, CommitUpdate, MempoolAfterBlock
<1>2. /\ TypeInv /\ TypeOK /\ b \in Block /\ TxsOf[b] \in SUBSET Tx
      /\ IsCanonical(b) => b \notin blocks
  <2>1. TypeInv /\ TypeOK /\ b \in Block
    BY <1>1 DEF EntityInv, ChainInv, TypeInv, TypeOK, CommitUpdate
  <2>2. StoredInv /\ (Height[b] > 1 => Parent[b] \in blocks)
    BY <1>1 DEF EntityInv, ChainInv, JobInv, CommitUpdate
  <2> QED BY <2>1, <2>2, AboveTip, TxAssumption
<1>3. FinitelyMined(rows')
  <2>1. TypeInv'
    BY <1>1, <1>2, CommitType
  <2> QED BY <2>1, TxsIsTable, FS_Subset DEF FinitelyMined, TypeInv, TypeOK
<1>4. IsCanonical(b) => TxsOf[b] \subseteq Mined(rows')
  <2> SUFFICES ASSUME IsCanonical(b) PROVE b \in rows'["txs"]
    BY DEF Mined
  <2>1. rows' = NewRows(b) /\ b \notin blocks
    BY <1>1, <1>2 DEF CommitUpdate
  <2>2. "txs" \in Table /\ "txs" \in InsertTables
    BY TxsIsTable, AllTables
  <2> QED BY <2>1, <2>2 DEF NewRows, InsertBlockRows
<1> HIDE DEF b, m, n, m1, m2
<1>5. /\ CountsPending(m1) /\ Stored(m1) = Stored(m)
      /\ Pending(m1) \subseteq Pending(m)
      /\ IsCanonical(b) => Pending(m1) = Pending(m) \ Affected(m, TxsOf[b])
      /\ ~IsCanonical(b) => Pending(m1) = Pending(m)
  BY PruneKeeps DEF PrunedForBlock, m1, m
<1>6. ASSUME NEW t \in Pending(m) \ Mined(rows'), t \notin Pending(m1)
      PROVE  LostTo(t, Mined(rows'))
  <2>1. IsCanonical(b) /\ t \in Affected(m, TxsOf[b]) /\ t \notin TxsOf[b]
    BY <1>4, <1>5, <1>6
  <2>2. LostTo(t, TxsOf[b])
    BY <1>2, <2>1, AffectedHasRival
  <2> QED BY <1>4, <2>1, <2>2, LostToMore
<1>7. /\ CountsPending(m2) /\ Stored(m2) = Stored(m1)
      /\ Pending(m2) = {t \in Pending(m1) : ~(m1.rows[t].receipt + MempoolAge <= tip.height)}
      /\ \A t \in Tx : m2.rows[t].receipt = m1.rows[t].receipt
  BY <1>5, GcKeeps DEF m2
<1>8. CASE b \in blocks
  <2>1. n = m1 /\ ~IsCanonical(b)
    BY <1>1, <1>2, <1>8
  <2> QED BY <1>1, <1>2, <1>5, <1>6, <2>1 DEF b, m, n
<1>9. CASE b \notin blocks
  <2>1. n = UpdateReplacedByFee(m2, rows', TxsOf[b])
    BY <1>1, <1>9
  <2>2. /\ CountsPending(n) /\ Stored(n) = Stored(m2)
        /\ Pending(n) = Pending(m2) \ Losers(m2, rows', TxsOf[b])
        /\ \A t \in Tx : n.rows[t].receipt = m2.rows[t].receipt
    BY <1>2, <1>3, <1>7, <2>1, RbfKeeps
  <2>3. ASSUME NEW t \in Pending(m) \ Mined(rows'), t \notin Pending(n),
               ~(n.rows[t].receipt + MempoolAge <= tip.height)
        PROVE  LostTo(t, Mined(rows'))
    <3>1. CASE t \notin Pending(m1)
      BY <1>6, <2>3, <3>1
    <3>2. CASE t \in Pending(m1)
      <4>1. t \in Tx
        BY DEF Pending, Stored
      <4>2. t \in Pending(m2)
        BY <1>7, <2>2, <2>3, <3>2, <4>1
      <4>3. t \in Losers(m2, rows', TxsOf[b]) /\ IsFiniteSet(Stored(m2))
        BY <1>7, <2>2, <2>3, <4>2 DEF CountsPending
      <4> QED BY <1>2, <1>3, <4>3, LoserHasRival
    <3> QED BY <3>1, <3>2
  <2>4. Pending(n) \subseteq Pending(m1) /\ Stored(n) = Stored(m)
    BY <1>5, <1>7, <2>2
  <2>5. IsCanonical(b) => Pending(n) \cap Affected(n, TxsOf[b]) = {}
    BY <1>5, <2>4 DEF Affected
  <2> QED BY <1>1, <1>2, <1>5, <2>2, <2>3, <2>4, <2>5 DEF b, m, n
<1> QED BY <1>8, <1>9

\* The invariant: both views of the mempool count their pending rows, and
\* outside update() they are one.
MempoolInv ==
  /\ EntityInv
  /\ CountsPending(mempool)
  /\ CountsPending(mempoolWork)
  /\ job.phase = "idle" => mempoolWork = mempool

LEMMA OneTx ==
  ASSUME NEW t \in Tx
  PROVE  {t} \in SUBSET Tx /\ IsFiniteSet({t})
BY FS_Singleton

\* POST /new_mempool_tx.
LEMMA AnnouncedMempool ==
  ASSUME MempoolInv, NEW t \in Tx, UpdateMempoolTxs({t})
  PROVE  /\ CountsPending(mempool')
         /\ mempoolWork' = mempool'
         /\ Stored(mempool') = Stored(mempool) \cup {t}
         /\ \A x \in Pending(mempool') \ Pending(mempool) : \A u \in Mined(rows) :
              Group(x) # Group(u)
<1>1. mempool' = InsertDbMempoolTxs(mempool, rows, {t}) /\ mempoolWork' = mempool'
  BY DEF UpdateMempoolTxs
<1>2. TypeOK /\ FinitelyMined(rows) /\ CountsPending(mempool)
  BY StoredMined DEF MempoolInv, EntityInv, ChainInv, TypeInv, TypeOK
<1> QED BY <1>1, <1>2, OneTx, InsertKeeps

\* POST /drop_mempool_tx.
LEMMA DroppedMempool ==
  ASSUME MempoolInv, NEW t \in Tx, NEW by \in Tx \cup {NoTx}, DropMempoolTxs({t}, by)
  PROVE  /\ CountsPending(mempool')
         /\ mempoolWork' = mempool'
         /\ Stored(mempool') = Stored(mempool)
         /\ Pending(mempool') \subseteq Pending(mempool)
<1> DEFINE m == mempool
           n == mempool'
           gone == {t} \cap Pending(m)
           new(x) == [m.rows[x] EXCEPT !.pruned = TRUE, !.status = "dropped",
                                       !.replaced_by = by]
<1>1. n = [rows |-> [x \in Tx |-> IF x \in gone THEN new(x) ELSE m.rows[x]],
           count |-> m.count + -Cardinality(gone)]
  BY DEF DropMempoolTxs, SetRows
<1>2. mempoolWork' = n /\ CountsPending(m)
  BY DEF DropMempoolTxs, MempoolInv
<1>3. gone \subseteq Stored(m) /\ gone \cap Pending(m) = gone
  BY DEF Pending
<1>4. \A x \in Tx : /\ m.rows[x] \in Row
                    /\ new(x) \in Row
                    /\ new(x).pruned = TRUE
                    /\ new(x).status = "dropped"
                    /\ new(x).receipt = m.rows[x].receipt
  <2>1. \A x \in Tx : m.rows[x] \in Row
    BY <1>2, RowType DEF CountsPending
  <2> HIDE DEF m
  <2> QED BY <2>1 DEF Row
<1> HIDE DEF m, n, gone, new
<1>5. Prunes(m, n, gone)
  BY <1>1, <1>3, <1>4 DEF Prunes, Stored
<1>6. CountsPending(n) /\ Stored(n) = Stored(m) /\ Pending(n) = Pending(m) \ gone
  BY <1>2, <1>5, Pruning
<1> QED BY <1>2, <1>6 DEF m, n

LEMMA MempoolStep == MempoolInv /\ [MNext]_mvars => MempoolInv'
<1> SUFFICES ASSUME MempoolInv, [MNext]_mvars PROVE MempoolInv'
  OBVIOUS
<1>1. EntityInv'
  BY MempoolRunsStore, EntityStep DEF MempoolInv
<1>2. ASSUME NEW b \in Block, MBeginUpdate(b) PROVE MempoolInv'
  <2>1. UNCHANGED <<mempool, mempoolWork>> /\ job'.phase # "idle"
    BY <1>2 DEF MBeginUpdate, BeginUpdate
  <2> QED BY <1>1, <2>1 DEF MempoolInv
<1>3. CASE MRestoreOrphanedChain
  <2>1. /\ RestoreOrphanedChain /\ mempool' = mempool
        /\ CountsPending(mempoolWork')
    BY <1>3, RestoredMempool DEF MempoolInv
  <2>2. job'.phase # "idle"
    BY <2>1 DEF RestoreOrphanedChain, MempoolInv, EntityInv, ChainInv, TypeInv, TypeOK
  <2> QED BY <1>1, <2>1, <2>2 DEF MempoolInv
<1>4. CASE MCommitUpdate
  <2>1. CountsPending(mempool') /\ mempoolWork' = mempool'
    BY <1>4, CommittedMempool DEF MempoolInv
  <2> QED BY <1>1, <2>1 DEF MempoolInv
<1>5. CASE MAbortUpdate \/ MFailUpdate
  BY <1>1, <1>5 DEF MAbortUpdate, MFailUpdate, MempoolInv
<1>6. ASSUME NEW t \in Tx, UpdateMempoolTxs({t}) PROVE MempoolInv'
  <2>1. CountsPending(mempool') /\ mempoolWork' = mempool'
    BY <1>6, AnnouncedMempool
  <2> QED BY <1>1, <2>1 DEF MempoolInv
<1>7. ASSUME NEW t \in Tx, NEW by \in Tx \cup {NoTx}, DropMempoolTxs({t}, by)
      PROVE  MempoolInv'
  <2>1. CountsPending(mempool') /\ mempoolWork' = mempool'
    BY <1>7, DroppedMempool
  <2> QED BY <1>1, <2>1 DEF MempoolInv
<1>8. CASE UNCHANGED mvars
  BY <1>1, <1>8 DEF MempoolInv, mvars, vars
<1> QED BY <1>2, <1>3, <1>4, <1>5, <1>6, <1>7, <1>8 DEF MNext

LEMMA MempoolStart == MInit => MempoolInv
<1> SUFFICES ASSUME MInit PROVE MempoolInv
  OBVIOUS
<1>1. EntityInv
  BY EntityStart DEF MInit
<1>2. /\ mempool = [rows |-> [t \in Tx |-> Absent], count |-> 0]
      /\ mempoolWork = mempool
  BY DEF MInit
<1>3. Absent \in Row /\ Absent.status = "absent"
  BY DEF Absent, Row
<1>4. Stored(mempool) = {} /\ Pending(mempool) = {}
  BY <1>2, <1>3 DEF Stored, Pending
<1>5. CountsPending(mempool)
  BY <1>2, <1>3, <1>4, FS_EmptySet DEF CountsPending, MempoolState
<1> QED BY <1>1, <1>2, <1>5 DEF MempoolInv

LEMMA MempoolAlways == MSpec => []MempoolInv
BY MempoolStart, MempoolStep, PTL DEF MSpec

\* The rows and the count of the mempool have their types, whatever is
\* announced, mined, orphaned, replaced or dropped: mempool_tx_count is never
\* negative, and replaced_by_tx_id always names a transaction.
THEOREM MempoolTypeCorrect == MSpec => []MTypeOK
<1>1. MempoolInv => MTypeOK
  BY DEF MempoolInv, MTypeOK, CountsPending, EntityInv, ChainInv, TypeInv
<1> QED BY <1>1, MempoolAlways, PTL

\* chain_tip.mempool_tx_count, which seven statements move by what they
\* believe they changed, is the number of rows of mempool_txs that are not
\* pruned.
THEOREM MempoolCountRight == MSpec => [](mempool.count = Cardinality(Pending(mempool)))
<1>1. MempoolInv => mempool.count = Cardinality(Pending(mempool))
  BY DEF MempoolInv, CountsPending
<1> QED BY <1>1, MempoolAlways, PTL

-----------------------------------------------------------------------------
(* Nonces that are spent and offered. *)

\* NoPendingRivalOfMined for a view of the mempool and of the canonical blocks.
RivalsExplained(m, S) ==
  \A t \in Pending(m), x \in S \ {Genesis} :
    (\E u \in TxsOf[x] : Group(t) = Group(u)) =>
      \E y \in blocks \ S :
        /\ t \in Affected(m, SpentBy(y))
        /\ Height[y] < Height[x] \/ OnOneChain(x, y)

\* What the open transaction has not yet replaced, at and below the cursor, is
\* the committed chain.
OldBelow ==
  job.phase = "restore" =>
    \A x \in work.canonical : Height[x] <= Height[job.cursor] => x \in canonical

RivalInv ==
  /\ MempoolInv
  /\ OldBelow
  /\ RivalsExplained(mempool, canonical)
  /\ RivalsExplained(mempoolWork, work.canonical)

LEMMA SameGroupAffected ==
  ASSUME NEW m, NEW T \in SUBSET Tx, NEW t \in Stored(m), NEW u \in T,
         Group(t) = Group(u)
  PROVE  t \in Affected(m, T)
<1>1. t \in Tx /\ u \in Tx
  BY DEF Stored
<1> QED BY <1>1, OwnGroup DEF Affected

LEMMA AffectedMore ==
  ASSUME NEW m, NEW n, Stored(m) \subseteq Stored(n), NEW T, NEW U, T \subseteq U
  PROVE  Affected(m, T) \subseteq Affected(n, U)
BY DEF Affected

LEMMA OldBelowStep == MempoolInv /\ OldBelow /\ [Next]_vars => OldBelow'
<1> SUFFICES ASSUME MempoolInv, OldBelow, [Next]_vars, job'.phase = "restore",
                    NEW x \in work'.canonical, Height[x] <= Height[job'.cursor]
             PROVE  x \in canonical'
  BY DEF OldBelow
<1> USE BlockAssumption
<1>1. TypeOK /\ JobInv
  BY DEF MempoolInv, EntityInv, ChainInv, TypeInv
<1>2. ASSUME NEW b \in Block, BeginUpdate(b) PROVE x \in canonical'
  BY <1>1, <1>2 DEF BeginUpdate, JobInv, Committed
<1>3. CASE RestoreOrphanedChain
  <2> DEFINE c == job.cursor
             stays == (work.canonical \cup {c}) \ OrphanedBy(c)
  <2>1. /\ job.phase = "restore" /\ c \in blocks /\ c \in Block
        /\ work'.canonical = stays /\ canonical' = canonical
        /\ job' = [job EXCEPT !.phase = IF NextCursor(c, stays) = NoBlock THEN "insert" ELSE @,
                              !.cursor = NextCursor(c, stays)]
    BY <1>1, <1>3 DEF RestoreOrphanedChain, dbVars, TypeOK
  <2>2. job'.cursor = NextCursor(c, stays) /\ NextCursor(c, stays) # NoBlock
    BY <1>1, <2>1 DEF TypeOK
  <2>3. job'.cursor = Parent[c] /\ Parent[c] \in Block
    BY <1>1, <2>2 DEF NextCursor, TypeOK
  <2>4. Height[c] = Height[job'.cursor] + 1 /\ Height[job'.cursor] \in Nat /\ Height[c] \in Nat
    BY <2>1, <2>3
  <2>5. x \in Block /\ Height[x] \in Nat
    BY <1>1, <2>1 DEF TypeOK
  <2>6. x # c /\ Height[x] <= Height[c]
    BY <2>4, <2>5
  <2> QED BY <2>1, <2>6 DEF OldBelow
<1>4. CASE CommitUpdate
  BY <1>4 DEF CommitUpdate, Idle
<1>5. CASE AbortUpdate
  BY <1>5 DEF AbortUpdate, Idle
<1>6. ASSUME NEW b \in Block, UpdateAttachments(b) PROVE x \in canonical'
  BY <1>6 DEF UpdateAttachments
<1>7. CASE UNCHANGED vars
  BY <1>7 DEF OldBelow, vars
<1> QED BY <1>2, <1>3, <1>4, <1>5, <1>6, <1>7 DEF Next

\* One level of restoreOrphanedChain.  A transaction that becomes pending comes
\* from the orphaned block: the blocks it may be a rival in are above that
\* block, or with it on the committed chain.
LEMMA RestoreRivals ==
  ASSUME RivalInv, MRestoreOrphanedChain
  PROVE  RivalsExplained(mempoolWork, work.canonical)'
<1> USE BlockAssumption
<1> DEFINE c == job.cursor
           T == OrphanTxs(RowsWithout(OrphanedBy(c)))
           m == mempoolWork
           n == mempoolWork'
<1>1. /\ RestoreOrphanedChain
      /\ \/ T = {}
         \/ \E o \in work.canonical \ {Genesis} : OrphanedBy(c) = {o} /\ T = SpentBy(o)
      /\ Stored(n) = Stored(m) \cup T
      /\ Pending(n) \subseteq Pending(m) \cup Affected(n, T)
      /\ Pending(n) \cap Affected(n, SpentBy(c)) = {}
  BY RestoredMempool DEF RivalInv, MempoolInv
<1>2. /\ TypeInv /\ TypeOK /\ job.phase = "restore"
      /\ c \in blocks \ work.canonical /\ blocks \subseteq Block
      /\ work.canonical \subseteq blocks
      /\ work'.canonical = (work.canonical \cup {c}) \ OrphanedBy(c)
      /\ blocks' = blocks /\ canonical' = canonical /\ boot' = boot /\ attached' = attached
  BY <1>1 DEF RivalInv, MempoolInv, EntityInv, ChainInv, TypeInv, TypeOK,
              RestoreOrphanedChain, dbVars
<1> HIDE DEF T, m, n
<1>3. \A y : SpentBy(y)' = SpentBy(y)
  BY <1>2 DEF SpentBy, RowsAt
<1> SUFFICES ASSUME NEW t \in Pending(n), NEW x \in work'.canonical \ {Genesis},
                    NEW u \in TxsOf[x], Group(t) = Group(u)
             PROVE  \E y \in blocks \ work'.canonical :
                      /\ t \in Affected(n, SpentBy(y))
                      /\ Height[y] < Height[x] \/ OnOneChain(x, y)
  BY <1>2, <1>3 DEF RivalsExplained, n
<1>4. t \in Stored(n) /\ t \in Tx /\ x \in Block
  BY <1>2 DEF Pending, Stored
<1>5. x # c
  <2> SUFFICES ASSUME x = c PROVE FALSE
    OBVIOUS
  <2>1. c \in RowsAt("txs", c)
    BY <1>2 DEF RowsAt
  <2>2. u \in SpentBy(c) /\ SpentBy(c) \in SUBSET Tx
    BY <1>2, <2>1, SpentFinite DEF SpentBy
  <2>3. t \in Affected(n, SpentBy(c))
    BY <1>4, <2>2, SameGroupAffected
  <2> QED BY <1>1, <2>3
<1>6. x \in work.canonical
  BY <1>2, <1>5
<1>7. CASE t \in Pending(m)
  <2>1. PICK y \in blocks \ work.canonical :
          /\ t \in Affected(m, SpentBy(y))
          /\ Height[y] < Height[x] \/ OnOneChain(x, y)
    BY <1>6, <1>7 DEF RivalInv, RivalsExplained, m
  <2>2. t \in Affected(n, SpentBy(y))
    BY <1>1, <2>1, AffectedMore
  <2>3. y # c
    BY <1>1, <2>2
  <2> QED BY <1>2, <2>1, <2>2, <2>3
<1>8. CASE t \notin Pending(m)
  <2>1. t \in Affected(n, T)
    BY <1>1, <1>8
  <2>2. T # {}
    BY <1>4, <2>1, <1>1, <1>8 DEF Affected, Pending
  <2>3. PICK o \in work.canonical \ {Genesis} : OrphanedBy(c) = {o} /\ T = SpentBy(o)
    BY <1>1, <2>2
  <2>4. /\ o \in blocks \ work'.canonical /\ o \in Block /\ Height[o] = Height[c]
        /\ x # o
    BY <1>2, <2>3 DEF OrphanedBy
  <2>5. Height[o] < Height[x] \/ OnOneChain(x, o)
    <3> SUFFICES ASSUME ~(Height[o] < Height[x]) PROVE OnOneChain(x, o)
      OBVIOUS
    <3>1. Height[x] \in Nat /\ Height[o] \in Nat
      BY <1>4, <2>4
    <3>2. x \in canonical /\ o \in canonical
      BY <1>2, <1>6, <2>3, <2>4, <3>1 DEF RivalInv, OldBelow
    <3>3. IsChainTo(canonical, tip.block) /\ canonical \subseteq Block
      BY <3>2 DEF RivalInv, MempoolInv, EntityInv, ChainInv, CanonicalIsOneChain,
                  TypeInv, TypeOK
    <3>4. tip.block \in canonical
      BY <3>3 DEF IsChainTo
    <3> QED BY <3>2, <3>3, <3>4 DEF OnOneChain
  <2> QED BY <2>1, <2>3, <2>4, <2>5
<1> QED BY <1>7, <1>8

\* The end of update(): the block is the only new one, and what it spends was
\* pruned.
LEMMA CommitRivals ==
  ASSUME RivalInv, MCommitUpdate
  PROVE  RivalsExplained(mempool, canonical)'
<1> USE BlockAssumption
<1> DEFINE b == job.block
           m == mempoolWork
           n == mempool'
<1>1. /\ CommitUpdate
      /\ b \in Block
      /\ Stored(n) = Stored(m)
      /\ Pending(n) \subseteq Pending(m)
      /\ IsCanonical(b) => Pending(n) \cap Affected(n, TxsOf[b]) = {}
  BY CommittedMempool DEF RivalInv, MempoolInv
<1>2. /\ TypeInv /\ TypeOK /\ BootInv /\ blocks \subseteq Block
      /\ work.canonical \subseteq blocks
      /\ blocks' = blocks \cup {b}
      /\ canonical' = IF b \notin blocks /\ IsCanonical(b) THEN work.canonical \cup {b}
                                                          ELSE work.canonical
      /\ boot' = IF FixesBlockZero(b) THEN b ELSE boot
      /\ TxsOf[b] \in SUBSET Tx
  BY <1>1, TxAssumption DEF RivalInv, MempoolInv, EntityInv, ChainInv, TypeInv, TypeOK,
              CommitUpdate, NewCanonical
<1> HIDE DEF b, m, n
<1> SUFFICES ASSUME NEW t \in Pending(n), NEW x \in canonical' \ {Genesis},
                    NEW u \in TxsOf[x], Group(t) = Group(u)
             PROVE  \E y \in blocks' \ canonical' :
                      /\ t \in Affected(n, SpentBy(y)')
                      /\ Height[y] < Height[x] \/ OnOneChain(x, y)
  BY DEF RivalsExplained, n
<1>3. t \in Stored(n) /\ t \in Pending(m)
  BY <1>1 DEF Pending
<1>4. ~(x = b /\ IsCanonical(b))
  <2> SUFFICES ASSUME x = b, IsCanonical(b) PROVE FALSE
    OBVIOUS
  <2>1. t \in Affected(n, TxsOf[b])
    BY <1>2, <1>3, SameGroupAffected
  <2> QED BY <1>1, <2>1
<1>5. x \in work.canonical
  BY <1>2, <1>4
<1>6. boot' = boot
  \* As long as the boot data is not moved, it is alone in the table.
  BY <1>2, <1>5 DEF FixesBlockZero, BootInv
<1>7. PICK y \in blocks \ work.canonical :
        /\ t \in Affected(m, SpentBy(y))
        /\ Height[y] < Height[x] \/ OnOneChain(x, y)
  BY <1>3, <1>5 DEF RivalInv, RivalsExplained, m
<1>8. SpentBy(y) \subseteq SpentBy(y)'
  BY <1>2, <1>6 DEF SpentBy, RowsAt
<1>9. t \in Affected(n, SpentBy(y)')
  BY <1>1, <1>7, <1>8, AffectedMore
<1>10. y \in blocks' \ canonical'
  BY <1>2, <1>7
<1> QED BY <1>7, <1>9, <1>10

\* POST /new_mempool_tx: a transaction that is offered again has no rival on
\* the canonical chain.
LEMMA AnnounceRivals ==
  ASSUME RivalInv, NEW t \in Tx, UpdateMempoolTxs({t})
  PROVE  RivalsExplained(mempool', canonical)
<1> USE BlockAssumption
<1>1. /\ Stored(mempool') = Stored(mempool) \cup {t}
      /\ \A z \in Pending(mempool') \ Pending(mempool) : \A u \in Mined(rows) :
           Group(z) # Group(u)
  BY AnnouncedMempool DEF RivalInv
<1>2. \A x \in canonical \ {Genesis} : TxsOf[x] \subseteq Mined(rows)
  <2>1. TypeOK /\ RowsFollow(rows, canonical) /\ "txs" \in Table
    BY TxsIsTable DEF RivalInv, MempoolInv, EntityInv, ChainInv, TypeInv
  <2>2. \A x \in canonical \ {Genesis} : x \in rows["txs"]
    BY <2>1 DEF RowsFollow, TypeOK
  <2> QED BY <2>2 DEF Mined
<1> SUFFICES ASSUME NEW z \in Pending(mempool'), NEW x \in canonical \ {Genesis},
                    NEW u \in TxsOf[x], Group(z) = Group(u)
             PROVE  \E y \in blocks \ canonical :
                      /\ z \in Affected(mempool', SpentBy(y))
                      /\ Height[y] < Height[x] \/ OnOneChain(x, y)
  BY DEF RivalsExplained
<1>3. z \in Pending(mempool)
  BY <1>1, <1>2
<1>4. PICK y \in blocks \ canonical :
        /\ z \in Affected(mempool, SpentBy(y))
        /\ Height[y] < Height[x] \/ OnOneChain(x, y)
  BY <1>3 DEF RivalInv, RivalsExplained
<1>5. z \in Affected(mempool', SpentBy(y))
  BY <1>1, <1>4, AffectedMore
<1> QED BY <1>4, <1>5

LEMMA FewerRivals ==
  ASSUME NEW m, NEW n, NEW S, Stored(n) = Stored(m), Pending(n) \subseteq Pending(m),
         RivalsExplained(m, S)
  PROVE  RivalsExplained(n, S)
BY DEF RivalsExplained, Affected

LEMMA SameRivals ==
  ASSUME NEW m, NEW S, RivalsExplained(m, S), UNCHANGED <<blocks, attached, boot>>,
         NEW n, NEW R, n = m, R = S
  PROVE  \A t \in Pending(n), x \in R \ {Genesis} :
           (\E u \in TxsOf[x] : Group(t) = Group(u)) =>
             \E y \in blocks' \ R :
               /\ t \in Affected(n, SpentBy(y)')
               /\ Height[y] < Height[x] \/ OnOneChain(x, y)
<1>1. \A y : SpentBy(y)' = SpentBy(y)
  BY DEF SpentBy, RowsAt
<1> QED BY <1>1 DEF RivalsExplained

LEMMA RivalStep == RivalInv /\ [MNext]_mvars => RivalInv'
<1> SUFFICES ASSUME RivalInv, [MNext]_mvars PROVE RivalInv'
  OBVIOUS
<1>1. MempoolInv' /\ OldBelow'
  BY MempoolStep, MempoolRunsStore, OldBelowStep DEF RivalInv
<1> SUFFICES RivalsExplained(mempool, canonical)' /\ RivalsExplained(mempoolWork, work.canonical)'
  BY <1>1 DEF RivalInv
<1>2. /\ job.phase = "idle" => work = Committed
      /\ Committed.canonical = canonical
  BY DEF RivalInv, MempoolInv, EntityInv, ChainInv, JobInv, Committed
<1> DEFINE Same(m, S) ==
             \A t \in Pending(m), x \in S \ {Genesis} :
               (\E u \in TxsOf[x] : Group(t) = Group(u)) =>
                 \E y \in blocks' \ S :
                   /\ t \in Affected(m, SpentBy(y)')
                   /\ Height[y] < Height[x] \/ OnOneChain(x, y)
<1>3. /\ RivalsExplained(mempool, canonical)' <=> Same(mempool', canonical')
      /\ RivalsExplained(mempoolWork, work.canonical)' <=> Same(mempoolWork', work'.canonical)
  BY DEF RivalsExplained
<1>4. ASSUME UNCHANGED <<blocks, attached, boot>>, NEW m, NEW S, RivalsExplained(m, S)
      PROVE  Same(m, S)
  BY <1>4, SameRivals
<1> HIDE DEF Same
<1>5. ASSUME NEW b \in Block, MBeginUpdate(b)
      PROVE  Same(mempool', canonical') /\ Same(mempoolWork', work'.canonical)
  <2>1. UNCHANGED <<blocks, attached, boot>> /\ UNCHANGED <<canonical, work, mempool, mempoolWork>>
    BY <1>5 DEF MBeginUpdate, BeginUpdate
  <2> QED BY <1>4, <2>1 DEF RivalInv
<1>6. CASE MRestoreOrphanedChain
  <2>1. UNCHANGED <<blocks, attached, boot>> /\ UNCHANGED <<canonical, mempool>>
    BY <1>6 DEF MRestoreOrphanedChain, RestoreOrphanedChain, dbVars
  <2>2. Same(mempool', canonical')
    BY <1>4, <2>1 DEF RivalInv
  <2> QED BY <1>3, <1>6, <2>2, RestoreRivals
<1>7. CASE MCommitUpdate
  <2>1. work'.canonical = canonical' /\ mempoolWork' = mempool'
    BY <1>7 DEF MCommitUpdate, CommitUpdate
  <2> QED BY <1>3, <1>7, <2>1, CommitRivals
<1>8. CASE MAbortUpdate \/ MFailUpdate
  <2>1. /\ UNCHANGED <<blocks, attached, boot>> /\ UNCHANGED <<canonical, mempool>>
        /\ work' = Committed /\ mempoolWork' = mempool
    BY <1>8 DEF MAbortUpdate, MFailUpdate, AbortUpdate, dbVars
  <2> QED BY <1>2, <1>3, <1>4, <2>1 DEF RivalInv
<1>9. ASSUME NEW t \in Tx, UpdateMempoolTxs({t})
      PROVE  Same(mempool', canonical') /\ Same(mempoolWork', work'.canonical)
  <2>1. /\ UNCHANGED <<blocks, attached, boot>> /\ UNCHANGED <<canonical, work>>
        /\ mempoolWork' = mempool' /\ work = Committed
    BY <1>2, <1>9 DEF UpdateMempoolTxs, vars
  <2>2. RivalsExplained(mempool', canonical)
    BY <1>9, AnnounceRivals
  <2> QED BY <1>2, <1>4, <2>1, <2>2
<1>10. ASSUME NEW t \in Tx, NEW by \in Tx \cup {NoTx}, DropMempoolTxs({t}, by)
       PROVE  Same(mempool', canonical') /\ Same(mempoolWork', work'.canonical)
  <2>1. /\ UNCHANGED <<blocks, attached, boot>> /\ UNCHANGED <<canonical, work>>
        /\ work = Committed
    BY <1>2, <1>10 DEF DropMempoolTxs, vars
  <2>2. /\ mempoolWork' = mempool' /\ Stored(mempool') = Stored(mempool)
        /\ Pending(mempool') \subseteq Pending(mempool)
    BY <1>10, DroppedMempool DEF RivalInv
  <2>3. RivalsExplained(mempool', canonical)
    BY <2>2, FewerRivals DEF RivalInv
  <2> QED BY <1>2, <1>4, <2>1, <2>2, <2>3
<1>11. CASE UNCHANGED mvars
  <2>1. UNCHANGED <<blocks, attached, boot>> /\ UNCHANGED <<canonical, work, mempool, mempoolWork>>
    BY <1>11 DEF mvars, vars
  <2> QED BY <1>3, <1>4, <2>1 DEF RivalInv
<1> QED BY <1>3, <1>5, <1>6, <1>7, <1>8, <1>9, <1>10, <1>11 DEF MNext

LEMMA RivalStart == MInit => RivalInv
<1> SUFFICES ASSUME MInit PROVE RivalInv
  OBVIOUS
<1>1. MempoolInv
  BY MempoolStart
<1>2. canonical = {} /\ work.canonical = {} /\ job.phase = "idle"
  BY DEF MInit, Init, Committed, Idle
<1> QED BY <1>1, <1>2 DEF RivalInv, OldBelow, RivalsExplained

\* For every tree of blocks, every set of transactions and every order of
\* events, a pending transaction has the payer and nonce of a mined one only
\* if a block that a re-org of several levels orphaned, on the same chain or
\* at a lower height, put it there.
THEOREM SpentNotOffered == MSpec => []NoPendingRivalOfMined
<1>1. RivalInv => NoPendingRivalOfMined
  BY DEF RivalInv, RivalsExplained, NoPendingRivalOfMined
<1> QED BY <1>1, RivalStart, RivalStep, PTL DEF MSpec

-----------------------------------------------------------------------------
(* Transactions that leave the canonical chain. *)

\* Every transaction that the open update() has taken off the canonical chain
\* has a row, pending unless it lost its nonce to a rival.
ReturnsKept ==
  \A t \in Mined(rows) \ Mined(work.rows) :
    /\ t \in Stored(mempoolWork)
    /\ t \in Pending(mempoolWork) \/ LostTo(t, Mined(rows) \cup Mined(work.rows))

ReturnInv ==
  /\ MempoolInv
  /\ OldBelow
  /\ ReturnsKept

\* One level of restoreOrphanedChain.  The block it orphans is committed, so
\* a winner that leaves the chain with it was mined when update() began.
LEMMA RestoreReturns ==
  ASSUME ReturnInv, MRestoreOrphanedChain
  PROVE  ReturnsKept'
<1> DEFINE c == job.cursor
           T == OrphanTxs(RowsWithout(OrphanedBy(c)))
           m == mempoolWork
           n == mempoolWork'
           W == Mined(work.rows)
           P == Mined(work'.rows)
<1>1. /\ RestoreOrphanedChain
      /\ \/ T = {}
         \/ \E o \in work.canonical \ {Genesis} : OrphanedBy(c) = {o} /\ T = SpentBy(o)
      /\ Stored(n) = Stored(m) \cup T
      /\ W \subseteq P \cup T
      /\ \A t \in (Pending(m) \cup T) \ P : t \in Pending(n) \/ LostTo(t, P)
  BY RestoredMempool DEF ReturnInv, MempoolInv
<1>2. rows' = rows
  BY <1>1 DEF RestoreOrphanedChain, dbVars
<1>3. T \subseteq Mined(rows)
  <2> SUFFICES ASSUME NEW o \in work.canonical \ {Genesis}, OrphanedBy(c) = {o}
               PROVE  SpentBy(o) \subseteq Mined(rows)
    BY <1>1
  <2>1. /\ TypeOK /\ BootInv /\ RowsFollow(rows, canonical)
        /\ "txs" \in Table /\ "txs" \in BootTables \ {"subdomains"}
    BY TxsIsTable, AllTables DEF ReturnInv, MempoolInv, EntityInv, ChainInv, TypeInv
  <2>2. o \in canonical /\ o \in blocks
    <3>1. o \in Block /\ Height[o] = Height[c] /\ Height[o] \in Nat
      BY <2>1, BlockAssumption DEF OrphanedBy, TypeOK
    <3> QED BY <1>1, <2>1, <3>1 DEF ReturnInv, OldBelow, RestoreOrphanedChain, TypeOK
  <2>3. RowsAt("txs", o) \subseteq rows["txs"]
    <3> SUFFICES ASSUME NEW b \in RowsAt("txs", o) PROVE b \in rows["txs"]
      OBVIOUS
    <3>1. b \in blocks /\ (b # Genesis => b = o) /\ (b = Genesis => boot = o)
      BY <2>1 DEF RowsAt
    <3> QED BY <2>1, <2>2, <3>1 DEF RowsFollow
  <2> QED BY <2>3 DEF SpentBy, Mined
<1> HIDE DEF T, m, n, W, P
<1> SUFFICES ASSUME NEW t \in Mined(rows) \ P
             PROVE  /\ t \in Stored(n)
                    /\ t \in Pending(n) \/ LostTo(t, Mined(rows) \cup P)
  BY <1>2 DEF ReturnsKept, n, P
<1>4. CASE t \in W
  <2>1. t \in T
    BY <1>1, <1>4
  <2> QED BY <1>1, <2>1, LostToMore
<1>5. CASE t \notin W
  <2>1. t \in Stored(m) /\ (t \in Pending(m) \/ LostTo(t, Mined(rows) \cup W))
    BY <1>5 DEF ReturnInv, ReturnsKept, W, m
  <2>2. Mined(rows) \cup W \subseteq Mined(rows) \cup P
    BY <1>1, <1>3
  <2>3. LostTo(t, Mined(rows) \cup W) => LostTo(t, Mined(rows) \cup P)
    BY <2>2, LostToMore
  <2>4. LostTo(t, P) => LostTo(t, Mined(rows) \cup P)
    BY LostToMore
  <2> QED BY <1>1, <2>1, <2>3, <2>4
<1> QED BY <1>4, <1>5

\* What OrphanedTxReturns says of one transaction.
LEMMA CommitReturns ==
  ASSUME ReturnInv, MCommitUpdate, NEW t \in Mined(rows) \ Mined(rows')
  PROVE  /\ t \in Stored(mempool')
         /\ \/ t \in Pending(mempool')
            \/ LostTo(t, Mined(rows) \cup Mined(rows'))
            \/ mempool'.rows[t].receipt + MempoolAge <= tip.height
<1> DEFINE m == mempoolWork
           n == mempool'
<1>1. /\ CommitUpdate
      /\ Stored(n) = Stored(m)
      /\ \A x \in Pending(m) \ Mined(rows') :
           \/ x \in Pending(n)
           \/ LostTo(x, Mined(rows'))
           \/ n.rows[x].receipt + MempoolAge <= tip.height
  BY CommittedMempool DEF ReturnInv, MempoolInv
<1>2. Mined(work.rows) \subseteq Mined(rows')
  <2>1. rows' = NewRows(job.block) /\ "txs" \in Table
    BY <1>1, TxsIsTable DEF CommitUpdate
  <2>2. work.rows["txs"] \subseteq rows'["txs"]
    BY <2>1 DEF NewRows, InsertBlockRows, FixBlockZeroData
  <2> QED BY <2>2 DEF Mined
<1>3. t \in Stored(m) /\ (t \in Pending(m) \/ LostTo(t, Mined(rows) \cup Mined(work.rows)))
  BY <1>2 DEF ReturnInv, ReturnsKept
<1> HIDE DEF m, n
<1>4. LostTo(t, Mined(rows) \cup Mined(work.rows)) => LostTo(t, Mined(rows) \cup Mined(rows'))
  <2>1. Mined(rows) \cup Mined(work.rows) \subseteq Mined(rows) \cup Mined(rows')
    BY <1>2
  <2> QED BY <2>1, LostToMore
<1>5. LostTo(t, Mined(rows')) => LostTo(t, Mined(rows) \cup Mined(rows'))
  BY LostToMore
<1> QED BY <1>1, <1>3, <1>4, <1>5 DEF n

LEMMA ReturnStep == ReturnInv /\ [MNext]_mvars => ReturnInv'
<1> SUFFICES ASSUME ReturnInv, [MNext]_mvars PROVE ReturnInv'
  OBVIOUS
<1>1. MempoolInv' /\ OldBelow'
  BY MempoolStep, MempoolRunsStore, OldBelowStep DEF ReturnInv
<1>2. CASE MRestoreOrphanedChain
  BY <1>1, <1>2, RestoreReturns DEF ReturnInv
<1>3. CASE work'.rows = rows'
  BY <1>1, <1>3 DEF ReturnInv, ReturnsKept
<1>4. CASE UNCHANGED <<rows, work, mempoolWork>>
  BY <1>1, <1>4 DEF ReturnInv, ReturnsKept
<1>5. ASSUME NEW b \in Block, MBeginUpdate(b) PROVE ReturnInv'
  BY <1>4, <1>5 DEF MBeginUpdate, BeginUpdate
<1>6. CASE MCommitUpdate
  BY <1>3, <1>6 DEF MCommitUpdate, CommitUpdate
<1>7. CASE MAbortUpdate \/ MFailUpdate
  BY <1>3, <1>7 DEF MAbortUpdate, MFailUpdate, AbortUpdate, Committed, dbVars
<1>8. CASE UNCHANGED vars /\ job.phase = "idle"
  <2>1. work.rows = rows
    BY <1>8 DEF ReturnInv, MempoolInv, EntityInv, ChainInv, JobInv, Committed
  <2> QED BY <1>3, <1>8, <2>1 DEF vars
<1>9. CASE UNCHANGED mvars
  BY <1>4, <1>9 DEF mvars, vars
<1> QED BY <1>2, <1>5, <1>6, <1>7, <1>8, <1>9
        DEF MNext, UpdateMempoolTxs, DropMempoolTxs

LEMMA ReturnStart == MInit => ReturnInv
<1> SUFFICES ASSUME MInit PROVE ReturnInv
  OBVIOUS
<1>1. MempoolInv
  BY MempoolStart
<1>2. work.rows = rows /\ job.phase = "idle"
  BY DEF MInit, Init, Committed, Idle
<1> QED BY <1>1, <1>2 DEF ReturnInv, OldBelow, ReturnsKept

\* For every tree of blocks and every set of transactions, a transaction that
\* a re-org takes off the canonical chain is not lost, however many levels the
\* re-org has: it has a row when update() commits, which is pending unless the
\* transaction lost its nonce to a rival or outlived MempoolAge.
THEOREM OrphanedReturn == MSpec => OrphanedTxReturns
<1>1. ReturnInv /\ [MNext]_mvars =>
        [\A t \in Mined(rows) \ Mined(rows') :
           /\ t \in Stored(mempool)'
           /\ \/ t \in Pending(mempool)'
              \/ \E u \in Tx :
                   /\ Rivals(t, u)
                   /\ u \in Mined(rows) \cup Mined(rows') \/ Attr[u].fee > Attr[t].fee
              \/ mempool'.rows[t].receipt + MempoolAge <= tip.height]_mvars
  <2> SUFFICES ASSUME ReturnInv, [MNext]_mvars, NEW t \in Mined(rows) \ Mined(rows')
               PROVE  /\ t \in Stored(mempool')
                      /\ \/ t \in Pending(mempool')
                         \/ LostTo(t, Mined(rows) \cup Mined(rows'))
                         \/ mempool'.rows[t].receipt + MempoolAge <= tip.height
    BY DEF LostTo, Stored, Pending
  <2>1. rows' # rows
    OBVIOUS
  <2>2. MCommitUpdate
    BY <2>1 DEF MNext, MBeginUpdate, BeginUpdate, MRestoreOrphanedChain,
                RestoreOrphanedChain, MAbortUpdate, MFailUpdate, AbortUpdate,
                UpdateMempoolTxs, DropMempoolTxs, mvars, vars, dbVars
  <2> QED BY <2>2, CommitReturns
<1> QED BY <1>1, ReturnStart, ReturnStep, PTL DEF MSpec, OrphanedTxReturns

-----------------------------------------------------------------------------
(* What the read API tells of the mempool. *)

PendingRow(t) ==
  [tx |-> t, pruned |-> mempool.rows[t].pruned,
   status |-> StatusName[mempool.rows[t].status], receipt |-> mempool.rows[t].receipt]

MinedRow(t, b) ==
  [tx |-> t, index |-> b, mb |-> NoMicro, seq |-> 2147483647, height |-> Height[b],
   canonical |-> b \in rows["txs"], micro |-> TRUE]

\* No row is above the chain tip, as one of an unanchored microblock would be.
LEMMA NoneUnanchored ==
  ASSUME MempoolInv, db = MempoolTables, NEW t
  PROVE  ~Api!InUnanchored(t)
<1> SUFFICES ASSUME NEW r \in db.txs, r.canonical, r.height = tip.height + 1 PROVE FALSE
  <2>1. db.chain_tip.block_height = tip.height
    BY DEF MempoolTables, ChainTipOfMempool
  <2> QED BY <2>1 DEF Api!InUnanchored, Api!Visible, Api!GetMaxBlockHeight
<1>1. PICK b \in blocks : r.canonical = (b \in rows["txs"]) /\ r.height = Height[b]
  <2>1. db.txs = MinedRows
    BY DEF MempoolTables
  <2>2. MinedRows = UNION {{MinedRow(x, b) : x \in TxsOf[b]} : b \in blocks}
    BY SMT DEF MinedRows, MinedRow
  <2>3. PICK b \in blocks : \E x \in TxsOf[b] : r = MinedRow(x, b)
    BY <2>1, <2>2
  <2>4. PICK x \in TxsOf[b] : r = MinedRow(x, b)
    BY <2>3
  <2>5. /\ MinedRow(x, b).canonical = (b \in rows["txs"])
        /\ MinedRow(x, b).height = Height[b]
    BY SMT DEF MinedRow
  <2> QED BY <2>4, <2>5
<1>2. b \in Block /\ tip.height \in Nat /\ "txs" \in Table
  BY TxsIsTable DEF MempoolInv, EntityInv, ChainInv, TypeInv, TypeOK
<1>3. b = Genesis \/ b \in canonical
  BY <1>1, <1>2 DEF MempoolInv, EntityInv, RowsFollow
<1>4. Height[b] <= tip.height
  BY <1>2, <1>3, BlockAssumption
  DEF MempoolInv, EntityInv, ChainInv, CanonicalIsOneChain, IsChainTo
<1> QED BY <1>1, <1>2, <1>4, BlockAssumption

\* The rows that are not pruned, one for each pending transaction.
LEMMA PendingRows ==
  ASSUME MempoolInv, db = MempoolTables
  PROVE  {m \in db.mempool_txs : ~m.pruned} = {PendingRow(t) : t \in Pending(mempool)}
<1>1. db.mempool_txs = {PendingRow(t) : t \in Stored(mempool)}
  BY DEF MempoolTables, MempoolRows, PendingRow
<1>2. \A t \in Stored(mempool) : PendingRow(t).pruned = mempool.rows[t].pruned
  BY DEF PendingRow
<1> HIDE DEF PendingRow
<1> QED BY <1>1, <1>2 DEF Pending

\* Whom a list is for.
Wanted(t, a, from, to) ==
  IF a # None THEN Api!MempoolConcerns(t, a)
  ELSE /\ from = None \/ MempoolTxData[t].sender = from
       /\ to = None \/ MempoolTxData[t].recipient = to

\* A list shows the pending transactions of P that it is for, and counts them
\* all by the counter of chain_tip.
Lists(list, P, a, from, to) ==
  /\ {m.tx : m \in list.results} = {t \in P : Wanted(t, a, from, to)}
  /\ a = None /\ from = None /\ to = None =>
       list.total = IF {t \in P : Wanted(t, a, from, to)} = {} THEN 0 ELSE mempool.count

LEMMA ListedTxs ==
  ASSUME MempoolInv, db = MempoolTables, NEW a, NEW from, NEW to
  PROVE  Lists(Api!GetMempoolTxList(a, from, to, FALSE), Pending(mempool), a, from, to)
<1> DEFINE listed == {m \in db.mempool_txs :
                        /\ Wanted(m.tx, a, from, to)
                        /\ ~m.pruned \/ (~FALSE /\ Api!InUnanchored(m.tx))}
           shown == {Api!AsPending(m) : m \in listed}
           total == IF listed = {} THEN 0
                    ELSE IF {a, from, to} = {None} THEN db.chain_tip.mempool_tx_count
                    ELSE Api!Cardinality(listed)
           list == Api!GetMempoolTxList(a, from, to, FALSE)
           own == {t \in Pending(mempool) : Wanted(t, a, from, to)}
<1>1. list.results = shown /\ list.total = total
  <2>1. list = [results |-> shown, total |-> total]
    BY DEF Api!GetMempoolTxList, Wanted
  <2> HIDE DEF shown, total, list
  <2> QED BY <2>1
<1>2. listed = {m \in {x \in db.mempool_txs : ~x.pruned} : Wanted(m.tx, a, from, to)}
  BY NoneUnanchored
<1>3. listed = {PendingRow(t) : t \in own}
  <2>1. \A t \in Pending(mempool) : PendingRow(t).tx = t
    BY DEF PendingRow
  <2> HIDE DEF listed
  <2> QED BY <1>2, <2>1, PendingRows
<1> HIDE DEF listed, list
<1>4. {m.tx : m \in list.results} = own
  <2>2. \A t \in own : Api!AsPending(PendingRow(t)).tx = t
    BY SMT DEF PendingRow, Api!AsPending
  <2>3. shown = {Api!AsPending(PendingRow(t)) : t \in own}
    BY <1>3
  <2> HIDE DEF shown, own
  <2> QED BY <1>1, <2>2, <2>3
<1>5. ASSUME a = None, from = None, to = None
      PROVE  list.total = IF own = {} THEN 0 ELSE mempool.count
  <2>1. db.chain_tip.mempool_tx_count = mempool.count
    BY DEF MempoolTables, ChainTipOfMempool
  <2>2. (listed = {}) = (own = {})
    <3> HIDE DEF own
    <3> QED BY <1>3
  <2>3. {a, from, to} = {None}
    BY <1>5
  <2> HIDE DEF own
  <2> QED BY <1>1, <2>1, <2>2, <2>3
<1> QED BY <1>4, <1>5 DEF list, Lists

\* The transactions of the lists behind the endpoints.
LEMMA ShownTxs ==
  ASSUME MempoolInv, db = MempoolTables
  PROVE  /\ Ids(PendingList.results) = Pending(mempool)
         /\ PendingList.total = Cardinality(Pending(mempool))
         /\ \A a \in Address :
              LET own == {t \in Pending(mempool) : MempoolTxData[t].sender = a}
              IN /\ Ids(Api!AddressMempool(a, FALSE).body.results) = own
                 /\ Ids(Api!MempoolTxList(None, a, None, FALSE).body.results) = own
<1> DEFINE P == Pending(mempool)
           Txs(list) == {m.tx : m \in list.results}
<1>1. ASSUME NEW list
      PROVE  /\ Ids(Api!MempoolPage(list).results) = Txs(list)
             /\ Api!MempoolPage(list).total = list.total
  <2>1. \A m : Api!ParseDbMempoolTx(m).tx_id = m.tx
    BY DEF Api!ParseDbMempoolTx
  <2>2. /\ Api!MempoolPage(list).results = {Api!ParseDbMempoolTx(m) : m \in list.results}
        /\ Api!MempoolPage(list).total = list.total
    BY DEF Api!MempoolPage
  <2> QED BY <2>1, <2>2 DEF Ids
<1>2. P \subseteq Tx /\ mempool.count = Cardinality(P) /\ IsFiniteSet(P)
  BY FS_Subset DEF MempoolInv, CountsPending, Pending, Stored
<1>3. /\ PendingList = Api!MempoolPage(Api!GetMempoolTxList(None, None, None, FALSE))
      /\ \A a : /\ Api!AddressMempool(a, FALSE).body
                     = Api!MempoolPage(Api!GetMempoolTxList(a, None, None, FALSE))
                /\ Api!MempoolTxList(None, a, None, FALSE).body
                     = Api!MempoolPage(Api!GetMempoolTxList(None, a, None, FALSE))
  BY DEF PendingList, Api!MempoolTxList, Api!AddressMempool, Api!Ok
<1>4. Ids(PendingList.results) = P /\ PendingList.total = Cardinality(P)
  <2> DEFINE all == {t \in P : Wanted(t, None, None, None)}
  <2>1. all = P
    BY DEF Wanted
  <2>2. /\ Txs(Api!GetMempoolTxList(None, None, None, FALSE)) = all
        /\ Api!GetMempoolTxList(None, None, None, FALSE).total
             = IF all = {} THEN 0 ELSE mempool.count
    <3>1. Lists(Api!GetMempoolTxList(None, None, None, FALSE), P, None, None, None)
      BY ListedTxs
    <3> QED BY <3>1 DEF Lists
  <2>3. P = {} => Cardinality(P) = 0
    BY FS_EmptySet
  <2> HIDE DEF all, P
  <2> QED BY <1>1, <1>2, <1>3, <2>1, <2>2, <2>3
<1>5. ASSUME NEW a \in Address
      PROVE  LET own == {t \in P : MempoolTxData[t].sender = a}
             IN /\ Ids(Api!AddressMempool(a, FALSE).body.results) = own
                /\ Ids(Api!MempoolTxList(None, a, None, FALSE).body.results) = own
  <2> DEFINE own == {t \in P : MempoolTxData[t].sender = a}
  <2>1. a # None
    BY NoneAssumption
  <2>2. \A t \in P : Wanted(t, a, None, None) <=> MempoolTxData[t].sender = a
    <3>1. \A t \in Tx : /\ MempoolTxData[t].recipient = None /\ MempoolTxData[t].deploys = None
                        /\ MempoolTxData[t].calls = None
      BY DEF MempoolTxData
    <3> QED BY <1>2, <2>1, <3>1 DEF Wanted, Api!MempoolConcerns
  <2>3. \A t \in P : Wanted(t, None, a, None) <=> MempoolTxData[t].sender = a
    BY <2>1 DEF Wanted
  <2>4. /\ {t \in P : Wanted(t, a, None, None)} = own
        /\ {t \in P : Wanted(t, None, a, None)} = own
    BY <2>2, <2>3
  <2>5. Txs(Api!GetMempoolTxList(a, None, None, FALSE)) = own
    <3>1. Lists(Api!GetMempoolTxList(a, None, None, FALSE), P, a, None, None)
      BY ListedTxs
    <3> QED BY <2>4, <3>1 DEF Lists
  <2>6. Txs(Api!GetMempoolTxList(None, a, None, FALSE)) = own
    <3>1. Lists(Api!GetMempoolTxList(None, a, None, FALSE), P, None, a, None)
      BY ListedTxs
    <3> QED BY <2>4, <3>1 DEF Lists
  <2> HIDE DEF own
  <2> QED BY <1>1, <1>3, <2>5, <2>6 DEF own
<1> QED BY <1>4, <1>5

\* The statistics count the pending transactions by type.
LEMMA StatsCount ==
  ASSUME MempoolInv, db = MempoolTables
  PROVE  LET stats == Api!MempoolStats.body
         IN /\ {MempoolTxData[t].type : t \in Pending(mempool)} \subseteq DOMAIN stats
            /\ \A y \in DOMAIN stats :
                 stats[y] = Cardinality({t \in Pending(mempool) : MempoolTxData[t].type = y})
<1> DEFINE P == Pending(mempool)
           Q == {m \in db.mempool_txs : ~m.pruned}
           stats == Api!MempoolStats.body
<1>1. stats = [y \in Api!MempoolTypes |->
                 Api!Cardinality({m \in Q : Api!StatsType(m.tx) = y})]
  BY DEF Api!MempoolStats, Api!GetMempoolStats, Api!Ok
<1>2. /\ Q = {PendingRow(t) : t \in P} /\ P \subseteq Tx /\ IsFiniteSet(P)
      /\ \A t \in P : PendingRow(t).tx = t
  BY PendingRows, FS_Subset DEF MempoolInv, CountsPending, Pending, Stored, PendingRow
<1>3. \A t \in P : /\ Api!StatsType(t) = MempoolTxData[t].type
                  /\ MempoolTxData[t].type \in Api!MempoolTypes
  <2>1. \A t \in Tx : MempoolTxData[t].type = "token_transfer"
    BY DEF MempoolTxData
  <2> QED BY <1>2, <2>1 DEF Api!StatsType, Api!MempoolTypes
<1> HIDE DEF stats, P, Q
<1>4. {MempoolTxData[t].type : t \in P} \subseteq DOMAIN stats
  BY <1>1, <1>3
<1>5. ASSUME NEW y \in DOMAIN stats
      PROVE  stats[y] = Cardinality({t \in P : MempoolTxData[t].type = y})
  <2> DEFINE A == {t \in P : MempoolTxData[t].type = y}
             B == {m \in Q : Api!StatsType(m.tx) = y}
             f == [t \in A |-> PendingRow(t)]
  <2>1. stats[y] = Api!Cardinality(B)
    BY <1>1
  <2>2. B = {PendingRow(t) : t \in A}
    BY <1>2, <1>3
  <2>3. f \in Bijection(A, B)
    <3>1. f \in [A -> B] /\ \A t \in A : f[t] = PendingRow(t)
      BY <2>2
    <3>2. \A t, u \in A : f[t] = f[u] => t = u
      BY <1>2, <3>1
    <3>3. \A m \in B : \E t \in A : f[t] = m
      BY <2>2, <3>1
    <3> HIDE DEF f, A, B
    <3> QED BY <3>1, <3>2, <3>3 DEF Bijection, Injection, Surjection, IsInjective
  <2>4. IsFiniteSet(A) /\ ExistsBijection(A, B)
    BY <1>2, <2>3, FS_Subset DEF ExistsBijection
  <2> HIDE DEF A, B, f
  <2>5. Cardinality(B) = Cardinality(A)
    BY <2>4, FS_Bijection
  <2>6. Api!Cardinality(B) = Cardinality(B)
    BY DEF Api!Cardinality, Cardinality
  <2> QED BY <2>1, <2>5, <2>6 DEF A
<1> QED BY <1>4, <1>5 DEF stats, P

\* The last pending nonce is the greatest one of the list.
LEMMA NoncesListed ==
  ASSUME MempoolInv, db = MempoolTables, NEW a \in Address
  PROVE  LET P == Pending(mempool)
             used == {MempoolTxData[t].nonce : t \in {u \in P : MempoolTxData[u].sender = a}}
                       \cup {MempoolTxData[t].sponsorNonce :
                               t \in {u \in P : MempoolTxData[u].sponsor = a}}
         IN Api!AddressNonces(a, None, None).body.last_mempool
              = IF used = {} THEN None ELSE CHOOSE n \in used : \A k \in used : k <= n
<1> DEFINE P == Pending(mempool)
           used == Api!NoncesOf(P, a)
           Q == {m \in db.mempool_txs : ~m.pruned}
<1>1. {m.tx : m \in Q} = P
  <2>1. \A t \in P : PendingRow(t).tx = t
    BY DEF PendingRow
  <2> QED BY <2>1, PendingRows
<1>2. Api!AddressNonces(a, None, None) = Api!Ok(Api!GetAddressNonces(a))
  BY Zenon DEF Api!AddressNonces
<1>3. Api!GetAddressNonces(a).last_mempool = Api!MaxOr(used, None)
  <2> HIDE DEF used
  <2> QED BY <1>1 DEF Api!GetAddressNonces, used
<1>4. Api!AddressNonces(a, None, None).body.last_mempool = Api!MaxOr(used, None)
  BY <1>2, <1>3 DEF Api!Ok
<1>5. Api!MaxOr(used, None)
        = IF used = {} THEN None ELSE CHOOSE n \in used : \A k \in used : k <= n
  BY DEF Api!MaxOr, Api!Max
<1>6. used = {MempoolTxData[t].nonce : t \in {u \in P : MempoolTxData[u].sender = a}}
               \cup {MempoolTxData[t].sponsorNonce : t \in {u \in P : MempoolTxData[u].sponsor = a}}
  BY DEF Api!NoncesOf
<1> HIDE DEF used
<1> QED BY <1>4, <1>5, <1>6

LEMMA AnswersOfTables ==
  ASSUME MempoolInv, db = MempoolTables
  PROVE  MempoolAnswersAgree
<1>1. Ids(PendingList.results) = Pending(mempool)
  BY ShownTxs
<1>2. PendingList.total = Cardinality(Pending(mempool))
  BY ShownTxs
<1> DEFINE pending == Ids(PendingList.results)
           stats == Api!MempoolStats.body
           own(a) == {t \in pending : MempoolTxData[t].sender = a}
           used(a) == {MempoolTxData[t].nonce : t \in own(a)}
                        \cup {MempoolTxData[t].sponsorNonce :
                                t \in {u \in pending : MempoolTxData[u].sponsor = a}}
<1>3. /\ {MempoolTxData[t].type : t \in pending} \subseteq DOMAIN stats
      /\ \A y \in DOMAIN stats :
           stats[y] = Cardinality({t \in pending : MempoolTxData[t].type = y})
  <2> HIDE DEF pending
  <2> QED BY <1>1, StatsCount DEF pending
<1>4. ASSUME NEW a \in Address
      PROVE  /\ Ids(Api!AddressMempool(a, FALSE).body.results) = own(a)
             /\ Ids(Api!MempoolTxList(None, a, None, FALSE).body.results) = own(a)
  <2>1. own(a) = {t \in Pending(mempool) : MempoolTxData[t].sender = a}
    BY <1>1
  <2> HIDE DEF own
  <2> QED BY <2>1, ShownTxs
<1>5. ASSUME NEW a \in Address
      PROVE  Api!AddressNonces(a, None, None).body.last_mempool
               = IF used(a) = {} THEN None ELSE CHOOSE n \in used(a) : \A k \in used(a) : k <= n
  <2> DEFINE P == Pending(mempool)
  <2>1. used(a) = {MempoolTxData[t].nonce : t \in {u \in P : MempoolTxData[u].sender = a}}
                    \cup {MempoolTxData[t].sponsorNonce :
                            t \in {u \in P : MempoolTxData[u].sponsor = a}}
    <3>1. pending = P
      BY <1>1
    <3> HIDE DEF pending, P
    <3> QED BY <3>1
  <2> HIDE DEF used
  <2> QED BY <2>1, NoncesListed
<1>6. PendingList.total = Cardinality(pending)
  BY <1>1, <1>2
<1> QED BY <1>3, <1>4, <1>5, <1>6, Zenon DEF MempoolAnswersAgree

\* The list of pending transactions, its total, the statistics, an address's
\* own list and filter, and the nonces it has pending agree after every block,
\* re-org, announcement and drop: a client told of one is told the same by the
\* others.
THEOREM MempoolAnswersRight == PSpec => []MempoolAnswersAgree
<1> DEFINE ReadsTables == db = MempoolTables
<1>1. PInit => MempoolInv /\ ReadsTables
  BY MempoolStart DEF PInit
<1>2. MempoolInv /\ [PNext]_<<mvars, db>> => MempoolInv'
  <2>1. [PNext]_<<mvars, db>> => [MNext]_mvars
    BY DEF PNext
  <2> QED BY <2>1, MempoolStep
<1>3. ReadsTables /\ [PNext]_<<mvars, db>> => ReadsTables'
  <2>1. PNext => ReadsTables'
    BY DEF PNext
  <2>2. ReadsTables /\ UNCHANGED <<mvars, db>> => ReadsTables'
    BY DEF mvars, vars, MempoolTables, MempoolRows, MinedRows, ChainTipOfMempool, Stored
  <2> QED BY <2>1, <2>2
<1>4. MempoolInv /\ ReadsTables => MempoolAnswersAgree
  BY AnswersOfTables
<1> QED BY <1>1, <1>2, <1>3, <1>4, PTL DEF PSpec
=============================================================================
