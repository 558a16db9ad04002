---------------------------- MODULE CursorProofs ----------------------------
(***************************************************************************)
(* Proofs about the read API over the committed tables, for every tree of  *)
(* blocks: the cursors of the lists of blocks lead along the chain.        *)
(***************************************************************************)
EXTENDS MicroblockApi, ChainStoreProofs

-----------------------------------------------------------------------------
(* The list of blocks, as v2/blocks.ts pages through it. *)

Higher(S) == {q \in S \X S : q[1].height > q[2].height}

HeightsIn(S) == \A r \in S : r.height \in Nat /\ r.canonical

\* The order of the query: canonical rows first, then by height.
LEMMA BlockOrder ==
  ASSUME NEW S, HeightsIn(S)
  PROVE  /\ WeakOrder(Higher(S), S)
         /\ \A x, y \in S : <<x, y>> \in Higher(S) <=> Api!Above(Api!BlockKey(x), Api!BlockKey(y))
<1>1. \A x, y \in S : <<x, y>> \in Higher(S) <=> x.height > y.height
  BY DEF Higher
<1>2. ASSUME NEW x \in S, NEW y \in S
      PROVE  Api!Above(Api!BlockKey(x), Api!BlockKey(y)) <=> x.height > y.height
  <2> DEFINE p == Api!BlockKey(x)
             q == Api!BlockKey(y)
  <2>1. /\ DOMAIN p = 1 .. 2 /\ p[1] = 1 /\ p[2] = x.height
        /\ q[1] = 1 /\ q[2] = y.height
    BY DEF HeightsIn, Api!BlockKey, Api!Flag
  <2> HIDE DEF p, q
  <2>2. Api!Above(p, q) <=> p[2] > q[2]
    <3>1. p[2] \in Nat /\ q[2] \in Nat
      BY <2>1 DEF HeightsIn
    <3> QED BY <2>1, <3>1 DEF Api!Above
  <2> QED BY <2>1, <2>2 DEF p, q
<1>3. WeakOrder(Higher(S), S)
  <2>1. ASSUME NEW x \in S, NEW y \in S, <<x, y>> \in Higher(S) PROVE <<y, x>> \notin Higher(S)
    BY <1>1, <2>1 DEF HeightsIn
  <2>2. ASSUME NEW x \in S, NEW y \in S, NEW z \in S, <<x, z>> \in Higher(S)
        PROVE  <<x, y>> \in Higher(S) \/ <<y, z>> \in Higher(S)
    BY <1>1, <2>2 DEF HeightsIn
  <2> QED BY <2>1, <2>2 DEF WeakOrder
<1> QED BY <1>1, <1>2, <1>3

BlocksDown(S) == Api!Descending(S, Api!BlockKey)

\* The list has every block once, none behind a lower one.
LEMMA BlocksListed ==
  ASSUME NEW S, IsFiniteSet(S), HeightsIn(S)
  PROVE  InOrder(BlocksDown(S), S, Higher(S))
<1> DEFINE Q(g) == g = [s \in SUBSET S |->
                          IF s = {} THEN <<>>
                          ELSE Api!Insert(Pick(s), g[s \ {Pick(s)}], Api!BlockKey)]
           h == CHOOSE g : Q(g)
<1>1. BlocksDown(S) = h[S]
  BY DEF BlocksDown, Api!Descending, Api!FoldSet, Api!MapThenFoldSet, Pick
<1>2. ASSUME NEW t \in Seq(S), NEW x \in S
      PROVE  Api!Insert(x, t, Api!BlockKey) = Insertion(t, x, Higher(S))
  <2> DEFINE before == {i \in DOMAIN t : Api!Above(Api!BlockKey(t[i]), Api!BlockKey(x))}
             ahead == {i \in DOMAIN t : <<t[i], x>> \in Higher(S)}
             n == Cardinality(ahead)
  <2>1. before = ahead
    <3>1. \A i \in DOMAIN t : t[i] \in S
      OBVIOUS
    <3> QED BY <3>1, BlockOrder
  <2>2. n \in 0 .. Len(t)
    BY InsertionIsSeq
  <2>3. Api!Insert(x, t, Api!BlockKey) = Api!InsertAt(t, 1 + Api!Cardinality(before), x)
    BY DEF Api!Insert
  <2>4. Insertion(t, x, Higher(S)) = SubSeq(t, 1, n) \o <<x>> \o SubSeq(t, n + 1, Len(t))
    BY DEF Insertion
  <2> HIDE DEF before, ahead
  <2>5. Api!Cardinality(before) = n
    BY <2>1 DEF Api!Cardinality, Cardinality
  <2> HIDE DEF n
  <2>6. (1 + n) - 1 = n /\ 1 + n = n + 1
    BY <2>2
  <2> QED BY <2>3, <2>4, <2>5, <2>6 DEF Api!InsertAt
<1>3. \E f : Q(f)
  <2>0. PICK f : Listing(f, Higher(S), S)
    BY SortExists
  <2>1. /\ f \in [SUBSET S -> Seq(S)]
        /\ f = [s \in SUBSET S |-> IF s = {} THEN <<>>
                                   ELSE Insertion(f[s \ {Pick(s)}], Pick(s), Higher(S))]
    BY <2>0 DEF Listing
  <2>2. \A s \in SUBSET S : s # {} =>
          Api!Insert(Pick(s), f[s \ {Pick(s)}], Api!BlockKey)
            = Insertion(f[s \ {Pick(s)}], Pick(s), Higher(S))
    <3> SUFFICES ASSUME NEW s \in SUBSET S, s # {}
                 PROVE Api!Insert(Pick(s), f[s \ {Pick(s)}], Api!BlockKey)
                         = Insertion(f[s \ {Pick(s)}], Pick(s), Higher(S))
      OBVIOUS
    <3>1. Pick(s) \in S /\ f[s \ {Pick(s)}] \in Seq(S)
      BY <2>1, PickInSet
    <3> QED BY <1>2, <3>1
  <2> QED BY <2>1, <2>2
<1>4. Q(h)
  BY <1>3
<1>5. Sorts(h, Higher(S), S)
  <2> HIDE DEF h
  <2>1. h[{}] = <<>>
    BY <1>4
  <2>2. ASSUME NEW s \in SUBSET S, s # {}, h[s \ {Pick(s)}] \in Seq(S)
        PROVE  h[s] = Insertion(h[s \ {Pick(s)}], Pick(s), Higher(S))
    <3>1. h[s] = Api!Insert(Pick(s), h[s \ {Pick(s)}], Api!BlockKey)
      BY <1>4, <2>2
    <3>2. Pick(s) \in S
      BY <2>2, PickInSet
    <3> QED BY <1>2, <2>2, <3>1, <3>2
  <2> QED BY <2>1, <2>2 DEF Sorts
<1> HIDE DEF h
<1> QED BY <1>1, <1>5, BlockOrder, SortedList

\* The places a .. b of a list without repetition hold b - a + 1 rows.
LEMMA SpanCardinality ==
  ASSUME NEW S, NEW t \in Seq(S), \A i, j \in DOMAIN t : i < j => t[i] # t[j],
         NEW a \in DOMAIN t, NEW b \in DOMAIN t, a <= b
  PROVE  Cardinality({t[i] : i \in a .. b}) = b - a + 1
<1> DEFINE f == [i \in a .. b |-> t[i]]
           T == {t[i] : i \in a .. b}
<1>1. a \in Int /\ b \in Int /\ a .. b \in SUBSET DOMAIN t /\ a .. b \in SUBSET Int
  OBVIOUS
<1>2. \A i, j \in DOMAIN t : t[i] = t[j] => i = j
  OBVIOUS
<1>3. f \in Bijection(a .. b, T)
  <2>1. f \in [a .. b -> T] /\ \A i \in a .. b : f[i] = t[i]
    OBVIOUS
  <2>2. \A x \in T : \E i \in a .. b : f[i] = x
    OBVIOUS
  <2> HIDE DEF f, T
  <2>3. ASSUME NEW i \in a .. b, NEW j \in a .. b, f[i] = f[j] PROVE i = j
    <3>1. i \in DOMAIN t /\ j \in DOMAIN t /\ t[i] = t[j]
      BY <1>1, <2>1, <2>3
    <3> QED BY <1>2, <3>1
  <2> QED BY <2>1, <2>2, <2>3 DEF Bijection, Injection, Surjection, IsInjective
<1>4. ExistsBijection(a .. b, T)
  BY <1>3 DEF ExistsBijection
<1> HIDE DEF T, f
<1>5. IsFiniteSet(a .. b) /\ Cardinality(a .. b) = b - a + 1
  BY <1>1, FS_Interval
<1>6. Cardinality(T) = Cardinality(a .. b)
  BY <1>4, <1>5, FS_Bijection
<1> QED BY <1>5, <1>6 DEF T

OneByHeight(S) == \A x, y \in S : x.height = y.height => x = y

\* The rows of R are those of t from its p-th on.
RanksFrom(R, t, p) ==
  /\ Cardinality(R) = Len(t) - p + 1
  /\ \A i \in p .. Len(t) : Cardinality({c \in R : c.height >= t[i].height}) = i - p + 1

\* The p-th row and the rows behind it are those that are not higher.
LEMMA Ranks ==
  ASSUME NEW S, HeightsIn(S), OneByHeight(S), NEW t, InOrder(t, S, Higher(S)),
         NEW p \in DOMAIN t, NEW R, R = {d \in S : d.height <= t[p].height}
  PROVE  RanksFrom(R, t, p)
<1>1. /\ t \in Seq(S) /\ {t[i] : i \in DOMAIN t} = S
      /\ \A i, j \in DOMAIN t : i < j => t[i] # t[j] /\ <<t[j], t[i]>> \notin Higher(S)
      /\ DOMAIN t = 1 .. Len(t) /\ Len(t) \in Nat /\ \A i \in DOMAIN t : t[i] \in S
  BY DEF InOrder
<1>2. \A i \in DOMAIN t : t[i].height \in Nat
  BY <1>1 DEF HeightsIn
<1>3. ASSUME NEW i \in DOMAIN t, NEW j \in DOMAIN t, i < j PROVE t[i].height > t[j].height
  <2>1. t[i] # t[j] /\ ~(t[j].height > t[i].height)
    BY <1>1, <1>3 DEF Higher
  <2>2. t[i].height # t[j].height
    BY <1>1, <2>1 DEF OneByHeight
  <2> QED BY <1>2, <2>1, <2>2
<1>4. \A i, j \in DOMAIN t : t[i].height >= t[j].height <=> i <= j
  <2> SUFFICES ASSUME NEW i \in DOMAIN t, NEW j \in DOMAIN t
               PROVE  t[i].height >= t[j].height <=> i <= j
    OBVIOUS
  <2>1. i \in Nat /\ j \in Nat /\ t[i].height \in Nat /\ t[j].height \in Nat
    BY <1>1, <1>2
  <2>2. CASE i < j
    BY <1>3, <2>1, <2>2
  <2>3. CASE j < i
    BY <1>3, <2>1, <2>3
  <2>4. CASE i = j
    BY <2>1, <2>4
  <2> QED BY <2>1, <2>2, <2>3, <2>4
<1>5. ASSUME NEW i \in p .. Len(t)
      PROVE  {c \in R : c.height >= t[i].height} = {t[j] : j \in p .. i}
  <2>1. i \in DOMAIN t /\ \A j \in p .. i : j \in DOMAIN t
    BY <1>1
  <2>2. \A j \in DOMAIN t : j \in p .. i <=> t[j].height <= t[p].height /\ t[j].height >= t[i].height
    BY <1>1, <1>2, <1>4, <2>1
  <2> QED BY <1>1, <2>1, <2>2
<1>6. R = {t[j] : j \in p .. Len(t)}
  <2>1. \A j \in p .. Len(t) : j \in DOMAIN t
    BY <1>1
  <2>2. \A j \in DOMAIN t : j \in p .. Len(t) <=> t[j].height <= t[p].height
    BY <1>1, <1>2, <1>4
  <2> QED BY <1>1, <2>1, <2>2
<1>7. ASSUME NEW i \in p .. Len(t) PROVE Cardinality({t[j] : j \in p .. i}) = i - p + 1
  <2>1. i \in DOMAIN t /\ p <= i /\ t \in Seq(S)
    BY <1>1
  <2>2. \A k, j \in DOMAIN t : k < j => t[k] # t[j]
    BY <1>1
  <2> QED BY <2>1, <2>2, SpanCardinality
<1>8. Len(t) \in p .. Len(t)
  BY <1>1
<1> QED BY <1>5, <1>6, <1>7, <1>8 DEF RanksFrom

IndexOnce(S) == \A x, y \in S : x.index = y.index => x = y

\* What a page of n blocks shows of the list t, from its p-th block.
PageFrom(body, t, n, p) ==
  LET k == IF Len(t) - p + 1 < n THEN Len(t) - p + 1 ELSE n
  IN /\ Len(body.results) = k /\ DOMAIN body.results = 1 .. k
     /\ \A i \in 1 .. k : body.results[i] = Api!ParseDbNakamotoBlock(t[p + i - 1])
     /\ body.next_cursor = IF p - n \in DOMAIN t THEN t[p - n].index ELSE None
     /\ body.prev_cursor = IF p + n \in DOMAIN t THEN t[p + n].index ELSE None

\* A list in order is of the rows listed, and has none twice.
LEMMA ListedOnce ==
  ASSUME NEW S, NEW t, NEW before, InOrder(t, S, before)
  PROVE  t \in Seq(S) /\ \A i, j \in DOMAIN t : i < j => t[i] # t[j]
BY DEF InOrder

\* A cursor gives the page from its block.
LEMMA CursorPage ==
  ASSUME NEW S, NEW tenure,
         S = {b \in Api!Canonical(db.blocks) : tenure = None \/ b.tenure = tenure},
         NEW t, t = BlocksDown(S), InOrder(t, S, Higher(S)), IndexOnce(S),
         NEW n \in 1 .. 30, NEW p \in DOMAIN t, t[p].index # None, None \notin Nat
  PROVE  PageFrom(Api!BlockPage(n, 0, t[p].index, tenure).body, t, n, p)
<1> DEFINE cursor == t[p].index
           nth(i) == IF i \in DOMAIN t THEN t[i].index ELSE None
           at == {i \in DOMAIN t : t[i].index = cursor}
           page == Api!GetBlocks(n, 0, cursor, tenure)
           body == Api!BlockPage(n, 0, cursor, tenure).body
<1>1. /\ t \in Seq(S) /\ DOMAIN t = 1 .. Len(t) /\ Len(t) \in Nat
      /\ \A i, j \in DOMAIN t : i < j => t[i] # t[j]
      /\ \A i \in DOMAIN t : t[i] \in S
  <2>1. t \in Seq(S) /\ \A i, j \in DOMAIN t : i < j => t[i] # t[j]
    BY ListedOnce
  <2> QED BY <2>1
<1>2. at = {p}
  <2>1. \A i \in DOMAIN t : t[i].index = t[p].index => t[i] = t[p]
    BY <1>1 DEF IndexOnce
  <2>2. \A i \in DOMAIN t : t[i] = t[p] => i = p
    BY <1>1
  <2> QED BY <2>1, <2>2
<1>3. (CHOOSE i \in {p} : TRUE) + 0 = p /\ p \in Nat /\ p <= Len(t) /\ 0 < p
  BY <1>1
<1>4. page = [results |-> Api!Page(t, n, p - 1),
              total |-> IF tenure = None THEN db.chain_tip.block_height
                        ELSE Api!Cardinality({b \in db.blocks : b.tenure = tenure}),
              next_cursor |-> nth(p - n), prev_cursor |-> nth(p + n),
              current_cursor |-> nth(p)]
  <2>2. Api!Descending(S, Api!BlockKey) = t
    BY DEF BlocksDown
  <2>3. cursor # None
    OBVIOUS
  <2>5. {i \in DOMAIN t : t[i].index = IF cursor = None THEN db.chain_tip.index_block_hash ELSE cursor}
          = {p}
    BY <1>2, <2>3
  <2>6. {p} # {} /\ ~(p > Len(t))
    BY <1>3
  <2> HIDE DEF cursor
  <2> QED BY <1>3, <2>2, <2>5, <2>6, Zenon DEF Api!GetBlocks
<1>6. page.current_cursor # None
  BY <1>4
<1>7. body = [page EXCEPT !.results = Api!Map(@, Api!ParseDbNakamotoBlock)]
  <2>1. Api!GetPagingQueryLimit("Block", n) = n
    BY DEF Api!GetPagingQueryLimit, Api!PagingLimits
  <2>2. n # None
    OBVIOUS
  <2> HIDE DEF page
  <2> QED BY <1>6, <2>1, <2>2 DEF Api!BlockPage, Api!Paged, Api!Ok, page
<1> DEFINE k == IF Len(t) - p + 1 < n THEN Len(t) - p + 1 ELSE n
           last == IF (p - 1) + n < Len(t) THEN (p - 1) + n ELSE Len(t)
           u == Api!Page(t, n, p - 1)
<1>8. /\ last \in Nat /\ last <= Len(t) /\ last - p + 1 = k /\ k \in Nat /\ p <= last
      /\ (p - 1) + 1 = p
  BY <1>3, <1>1
<1>9. u = SubSeq(t, p, last)
  BY <1>8 DEF Api!Page
<1> DEFINE w == Api!Map(u, Api!ParseDbNakamotoBlock)
<1>11. body.results = w /\ body.next_cursor = nth(p - n) /\ body.prev_cursor = nth(p + n)
  <2> HIDE DEF nth, w, body, page
  <2> QED BY <1>4, <1>7 DEF w
<1> HIDE DEF last, k, u, nth, page, body
<1>10. u \in Seq(S) /\ Len(u) = k /\ DOMAIN u = 1 .. k /\ \A i \in 1 .. k : u[i] = t[p + i - 1]
  <2>1. t \in Seq(S) /\ p \in Nat /\ last \in Nat /\ 0 < p /\ p <= last /\ last <= Len(t)
    BY <1>1, <1>3, <1>8
  <2>2. u \in Seq(S) /\ Len(u) = last - p + 1 /\ \A i \in 1 .. (last - p + 1) : u[i] = t[p + i - 1]
    BY <2>1, <1>9
  <2> QED BY <1>8, <2>2
<1>12. /\ DOMAIN w = 1 .. k /\ \A i \in 1 .. k : w[i] = Api!ParseDbNakamotoBlock(t[p + i - 1])
  BY <1>10 DEF Api!Map
<1>13. Len(w) = k
  <2> DEFINE T == {Api!ParseDbNakamotoBlock(u[i]) : i \in 1 .. k}
  <2>1. w \in [1 .. k -> T]
    BY <1>10 DEF Api!Map
  <2> HIDE DEF w, T
  <2>2. w \in Seq(T)
    BY <1>8, <2>1
  <2> QED BY <1>8, <1>12, <2>2
<1> HIDE DEF w
<1> QED BY <1>11, <1>12, <1>13 DEF PageFrom, k, nth, body

\* The rows of the canonical blocks, and of those of one tenure.
LEMMA ListedRows ==
  ASSUME ChainInv, db = Tables, NEW tenure,
         NEW S, S = {b \in Api!Canonical(db.blocks) : tenure = None \/ b.tenure = tenure}
  PROVE  /\ IsFiniteSet(S) /\ HeightsIn(S) /\ OneByHeight(S) /\ IndexOnce(S)
         /\ \A r \in S : /\ r.index \in canonical /\ r.height = Height[r.index]
                        /\ r.parent = Parent[r.index]
<1> DEFINE Row(b) ==
             [index |-> b, hash |-> HashOf[b], parent |-> Parent[b],
              height |-> Height[b], canonical |-> b \in canonical, burn |-> Burn[b],
              burnHeight |-> BurnHeight[b], tenure |-> Tenure[b],
              tx_count |-> Cardinality(TxsOf[b]) + StreamSize(b),
              signatures |-> <<>>]
<1>1. db.blocks = {Row(b) : b \in blocks}
  BY DEF Tables, BlockRows
<1>2. \A b \in blocks : /\ Row(b).index = b /\ Row(b).height = Height[b]
                        /\ Row(b).parent = Parent[b] /\ Row(b).canonical = (b \in canonical)
  OBVIOUS
<1> HIDE DEF Row
<1>3. \A r \in S : \E b \in blocks : r = Row(b) /\ r.canonical
  BY <1>1 DEF Api!Canonical
<1>4. blocks \subseteq Block /\ canonical \subseteq blocks /\ IsFiniteSet(blocks)
  BY DEF ChainInv, TypeInv, TypeOK, StoredInv
<1>5. ASSUME NEW r \in S
      PROVE  /\ r = Row(r.index) /\ r.index \in canonical /\ r.height = Height[r.index]
             /\ r.parent = Parent[r.index] /\ r.canonical /\ r.height \in Nat
  <2>1. PICK b \in blocks : r = Row(b) /\ r.canonical
    BY <1>3
  <2>2. /\ r.index = b /\ r.height = Height[b] /\ r.parent = Parent[b]
        /\ r.canonical = (b \in canonical)
    BY <1>2, <2>1
  <2>3. b \in canonical
    BY <2>1, <2>2
  <2> QED BY <1>4, <2>1, <2>2, <2>3, BlockAssumption
<1>6. IsFiniteSet(S)
  <2> DEFINE f == [b \in blocks |-> Row(b)]
  <2>1. DOMAIN f = blocks /\ S \subseteq {f[b] : b \in blocks}
    BY <1>3
  <2> HIDE DEF f
  <2>2. IsFiniteSet({f[b] : b \in blocks})
    BY <1>4, <2>1, ImageFinite
  <2> QED BY <2>1, <2>2, FS_Subset
<1>7. \A x, y \in canonical : Height[x] = Height[y] => x = y
  BY DEF ChainInv, CanonicalIsOneChain, IsChainTo
<1>8. HeightsIn(S)
  BY <1>5 DEF HeightsIn
<1>9. OneByHeight(S)
  BY <1>5, <1>7 DEF OneByHeight
<1>10. IndexOnce(S)
  <2> SUFFICES ASSUME NEW x \in S, NEW y \in S, x.index = y.index PROVE x = y
    BY DEF IndexOnce
  <2>1. x = Row(x.index) /\ y = Row(y.index)
    BY <1>5
  <2> QED BY <2>1
<1> QED BY <1>5, <1>6, <1>8, <1>9, <1>10

\* Below a block comes its parent.
LEMMA NextIsParent ==
  ASSUME ChainInv, NEW S, HeightsIn(S), OneByHeight(S),
         \A r \in S : /\ r.index \in canonical /\ r.height = Height[r.index]
                      /\ r.parent = Parent[r.index],
         \A b \in canonical : \E r \in S : r.index = b,
         NEW t, InOrder(t, S, Higher(S)), NEW i \in DOMAIN t, i + 1 \in DOMAIN t
  PROVE  t[i + 1].index = t[i].parent
<1>1. /\ t \in Seq(S) /\ {t[j] : j \in DOMAIN t} = S
      /\ \A j, l \in DOMAIN t : j < l => t[j] # t[l] /\ <<t[l], t[j]>> \notin Higher(S)
  BY DEF InOrder
<1>2. DOMAIN t = 1 .. Len(t) /\ Len(t) \in Nat /\ \A j \in DOMAIN t : t[j] \in S
  BY <1>1
<1>3. \A j, l \in DOMAIN t : j < l => t[j].height > t[l].height
  <2> SUFFICES ASSUME NEW j \in DOMAIN t, NEW l \in DOMAIN t, j < l
               PROVE  t[j].height > t[l].height
    OBVIOUS
  <2>1. t[j] # t[l] /\ ~(t[l].height > t[j].height)
    BY <1>1, <1>2 DEF Higher
  <2>2. t[j].height # t[l].height
    BY <1>2, <2>1 DEF OneByHeight
  <2> QED BY <1>2, <2>1, <2>2 DEF HeightsIn
<1> DEFINE x == t[i]
           y == t[i + 1]
<1>4. /\ x \in S /\ y \in S /\ x.height > y.height
      /\ x.height \in Nat /\ y.height \in Nat
      /\ x.index \in canonical /\ y.index \in canonical
      /\ Height[x.index] = x.height /\ Height[y.index] = y.height
      /\ x.parent = Parent[x.index]
  BY <1>2, <1>3 DEF HeightsIn
<1>5. canonical \subseteq Block
  BY DEF ChainInv, TypeInv, TypeOK, StoredInv
<1>6. x.index # Genesis
  BY <1>4, BlockAssumption
<1>7. Parent[x.index] \in Block /\ Height[Parent[x.index]] = x.height - 1
  BY <1>4, <1>5, <1>6, BlockAssumption
<1>8. CASE x.height = 1
  <2>1. y.height = 0
    BY <1>4, <1>8
  <2>2. y.index = Genesis
    BY <1>4, <1>5, <2>1, BlockAssumption
  <2>3. Parent[x.index] = Genesis
    BY <1>7, <1>8, BlockAssumption
  <2> QED BY <1>4, <2>2, <2>3
<1>9. CASE x.height > 1
  <2>1. Parent[x.index] \in canonical
    BY <1>4, <1>9 DEF ChainInv, CanonicalIsOneChain, IsChainTo
  <2>2. PICK z \in S : z.index = Parent[x.index]
    BY <2>1
  <2>3. z.height = x.height - 1
    BY <1>7, <2>2
  <2>4. PICK j \in DOMAIN t : t[j] = z
    BY <1>1
  <2>5. ~(j < i) /\ j # i
    BY <1>3, <1>4, <2>3, <2>4
  <2>6. ~(j > i + 1)
    BY <1>2, <1>3, <1>4, <2>3, <2>4
  <2>7. j = i + 1
    BY <1>2, <2>5, <2>6
  <2> QED BY <1>4, <2>2, <2>4, <2>7
<1> QED BY <1>4, <1>8, <1>9

LEMMA ParsedBlock ==
  \A x : /\ Api!ParseDbNakamotoBlock(x).index = x.index
         /\ Api!ParseDbNakamotoBlock(x).parent = x.parent
         /\ Api!ParseDbNakamotoBlock(x).height = x.height
BY DEF Api!ParseDbNakamotoBlock

LEMMA SameCardinality == \A S : Api!Cardinality(S) = Cardinality(S)
BY DEF Api!Cardinality, Cardinality

\* The page from b of the blocks not above it, and the next page.
Walks(n, b, below, page, older) ==
  /\ Len(page.results) = IF Cardinality(below) < n THEN Cardinality(below) ELSE n
  /\ page.results[1].index = b.index
  /\ \A i \in 2 .. Len(page.results) : page.results[i].index = page.results[i - 1].parent
  /\ (page.prev_cursor = None) = (Cardinality(below) <= n)
  /\ page.prev_cursor # None => /\ older.results[1].index = page.results[n].parent
                                /\ older.next_cursor = b.index

\* The first n of same, from the highest down.
Highest(n, same, shown) ==
  /\ Len(shown) = IF Cardinality(same) < n THEN Cardinality(same) ELSE n
  /\ \A i \in DOMAIN shown :
       /\ \E c \in same : c.index = shown[i].index /\ c.height = shown[i].height
       /\ Cardinality({c \in same : c.height >= shown[i].height}) = i

\* Of any block and any limit.
LEMMA WalkFrom ==
  ASSUME ChainInv, db = Tables, NEW n \in 1 .. 30, NEW b \in Api!Canonical(db.blocks),
         NEW below, below = {c \in Api!Canonical(db.blocks) : c.height <= b.height},
         NEW page, page = Api!BlocksV2(n, 0, b.index).body,
         NEW older, older = Api!BlocksV2(n, 0, page.prev_cursor).body
  PROVE  Walks(n, b, below, page, older)
<1> DEFINE S == Api!Canonical(db.blocks)
           t == BlocksDown(S)
<1>1. S = {x \in Api!Canonical(db.blocks) : None = None \/ x.tenure = None}
  OBVIOUS
<1>2. /\ IsFiniteSet(S) /\ HeightsIn(S) /\ OneByHeight(S) /\ IndexOnce(S)
      /\ \A r \in S : /\ r.index \in canonical /\ r.height = Height[r.index]
                      /\ r.parent = Parent[r.index]
  <2> HIDE DEF S
  <2> QED BY <1>1, ListedRows
<1>3. \A x \in canonical : \E r \in S : r.index = x
  <2>1. canonical \subseteq blocks
    BY DEF ChainInv, TypeInv, TypeOK, StoredInv
  <2> SUFFICES ASSUME NEW x \in canonical PROVE \E r \in S : r.index = x
    OBVIOUS
  <2> DEFINE r == [index |-> x, hash |-> HashOf[x], parent |-> Parent[x],
                   height |-> Height[x], canonical |-> x \in canonical, burn |-> Burn[x],
                   burnHeight |-> BurnHeight[x], tenure |-> Tenure[x],
                   tx_count |-> Cardinality(TxsOf[x]) + StreamSize(x),
                   signatures |-> <<>>]
  <2>2. r \in db.blocks
    BY <2>1 DEF Tables, BlockRows
  <2>3. r.canonical /\ r.index = x
    OBVIOUS
  <2> HIDE DEF r
  <2> QED BY <2>2, <2>3 DEF Api!Canonical
<1>4. InOrder(t, S, Higher(S))
  <2> HIDE DEF S
  <2> QED BY <1>2, BlocksListed
<1>5. t = BlocksDown(S)
  OBVIOUS
<1>6. below = {c \in S : c.height <= b.height} /\ b \in S
  OBVIOUS
<1> HIDE DEF S, t
<1>7. /\ t \in Seq(S) /\ {t[i] : i \in DOMAIN t} = S /\ DOMAIN t = 1 .. Len(t)
      /\ Len(t) \in Nat /\ \A i \in DOMAIN t : t[i] \in S
  <2>1. t \in Seq(S) /\ {t[i] : i \in DOMAIN t} = S
    BY <1>4 DEF InOrder
  <2> QED BY <2>1
<1>8. canonical \subseteq Block /\ None \notin Block /\ None \notin Nat
  BY NoneAssumption DEF ChainInv, TypeInv, TypeOK, StoredInv
<1>9. \A i \in DOMAIN t : t[i].index # None
  BY <1>2, <1>7, <1>8
<1>10. ASSUME NEW i \in DOMAIN t
       PROVE  PageFrom(Api!BlocksV2(n, 0, t[i].index).body, t, n, i)
  <2>1. PageFrom(Api!BlockPage(n, 0, t[i].index, None).body, t, n, i)
    BY <1>1, <1>2, <1>4, <1>5, <1>8, <1>9, CursorPage
  <2> QED BY <2>1 DEF Api!BlocksV2
<1>11. ASSUME NEW i \in DOMAIN t, i + 1 \in DOMAIN t PROVE t[i + 1].index = t[i].parent
  BY <1>2, <1>3, <1>4, <1>11, NextIsParent
<1>12. PICK p \in DOMAIN t : t[p] = b
  BY <1>6, <1>7
<1>13. PageFrom(page, t, n, p)
  BY <1>10, <1>12
<1> DEFINE left == Len(t) - p + 1
           k == IF left < n THEN left ELSE n
<1>14. Cardinality(below) = left
  <2>1. below = {d \in S : d.height <= t[p].height}
    BY <1>6, <1>12
  <2>2. RanksFrom(below, t, p)
    BY <1>2, <1>4, <2>1, Ranks
  <2> QED BY <2>2 DEF RanksFrom
<1>15. /\ p \in Nat /\ 0 < p /\ p <= Len(t) /\ left \in Nat /\ n \in Nat /\ 0 < n
       /\ left = Len(t) - p + 1 /\ k \in Nat /\ 0 < k /\ k <= left /\ k <= n
       /\ k = left \/ k = n
  <2>0. p \in 1 .. Len(t) /\ Len(t) \in Nat
    BY <1>7
  <2>1. p \in Nat /\ 0 < p /\ p <= Len(t)
    BY <2>0
  <2>3. n \in Nat /\ 0 < n
    OBVIOUS
  <2>4. left = Len(t) - p + 1
    OBVIOUS
  <2> HIDE DEF left
  <2>2. left \in Nat /\ 0 < left
    BY <2>0, <2>1, <2>4
  <2> QED BY <2>1, <2>2, <2>3, <2>4
<1>16. /\ Len(page.results) = k
       /\ \A i \in 1 .. k : page.results[i] = Api!ParseDbNakamotoBlock(t[p + i - 1])
       /\ page.prev_cursor = IF p + n \in DOMAIN t THEN t[p + n].index ELSE None
  BY <1>13 DEF PageFrom
<1> HIDE DEF left, k
<1>17. \A i \in 1 .. k : /\ page.results[i].index = t[p + i - 1].index
                         /\ page.results[i].parent = t[p + i - 1].parent
  BY <1>16, ParsedBlock
<1>18. page.results[1].index = b.index
  <2>1. 1 \in 1 .. k /\ p + 1 - 1 = p
    BY <1>15
  <2> QED BY <1>12, <1>17, <2>1
<1>19. ASSUME NEW i \in 2 .. k PROVE page.results[i].index = page.results[i - 1].parent
  <2> DEFINE l == p + (i - 1) - 1
  <2>1. i \in 1 .. k /\ i - 1 \in 1 .. k /\ l \in 1 .. Len(t) /\ l + 1 \in 1 .. Len(t)
        /\ l + 1 = p + i - 1
    <3>1. i \in Nat /\ 2 <= i /\ i <= k
      BY <1>15
    <3>2. Len(t) \in Nat /\ k <= Len(t) - p + 1
      BY <1>7, <1>15
    <3>3. l \in Nat /\ 1 <= l /\ l + 1 <= Len(t) /\ l + 1 = p + i - 1
      BY <1>15, <3>1, <3>2
    <3>4. i \in 1 .. k /\ i - 1 \in 1 .. k
      BY <1>15, <3>1
    <3> HIDE DEF l
    <3> QED BY <3>2, <3>3, <3>4
  <2>2. page.results[i].index = t[l + 1].index /\ page.results[i - 1].parent = t[l].parent
    BY <1>17, <2>1
  <2> HIDE DEF l
  <2> QED BY <1>7, <1>11, <2>1, <2>2
<1>20. p + n \in DOMAIN t <=> ~(left <= n)
  <2>1. p + n \in 1 .. Len(t) <=> ~(left <= n)
    BY <1>15
  <2> QED BY <1>7, <2>1
<1>21. (page.prev_cursor = None) = (left <= n)
  BY <1>9, <1>16, <1>20
<1>22. ASSUME page.prev_cursor # None
       PROVE  older.results[1].index = page.results[n].parent /\ older.next_cursor = b.index
  <2>1. p + n \in DOMAIN t /\ page.prev_cursor = t[p + n].index
    BY <1>16, <1>22
  <2>2. PageFrom(older, t, n, p + n)
    BY <1>10, <2>1
  <2>3. /\ (p + n) - n = p /\ (p + n) + 1 - 1 = p + n /\ k = n /\ n \in 1 .. k
        /\ p + n - 1 \in DOMAIN t /\ (p + n - 1) + 1 = p + n
    <3>1. ~(left <= n) /\ p + n \in 1 .. Len(t)
      BY <1>7, <1>20, <2>1
    <3>2. k = n
      BY <1>15, <3>1
    <3>3. p + n - 1 \in 1 .. Len(t) /\ (p + n) - n = p /\ (p + n) + 1 - 1 = p + n
          /\ (p + n - 1) + 1 = p + n /\ n \in 1 .. n
      BY <1>15, <3>1, SMTT(30)
    <3> QED BY <1>7, <3>2, <3>3
  <2>4. older.next_cursor = b.index
    BY <1>12, <2>2, <2>3 DEF PageFrom
  <2>5. older.results[1] = Api!ParseDbNakamotoBlock(t[p + n])
    <3> DEFINE m == IF Len(t) - (p + n) + 1 < n THEN Len(t) - (p + n) + 1 ELSE n
    <3>1. 1 \in 1 .. m
      BY <1>7, <1>15, <2>1
    <3>2. \A i \in 1 .. m : older.results[i] = Api!ParseDbNakamotoBlock(t[(p + n) + i - 1])
      BY <2>2 DEF PageFrom
    <3> HIDE DEF m
    <3> QED BY <2>3, <3>1, <3>2
  <2>6. older.results[1].index = t[p + n].index
    BY <2>5, ParsedBlock
  <2>7. page.results[n].parent = t[p + n - 1].parent
    BY <1>17, <2>3
  <2>8. t[p + n].index = t[p + n - 1].parent
    BY <1>11, <2>1, <2>3
  <2> QED BY <2>4, <2>6, <2>7, <2>8
<1> QED BY <1>14, <1>16, <1>18, <1>19, <1>21, <1>22 DEF k, Walks

\* And of one tenure.
LEMMA TenureFrom ==
  ASSUME ChainInv, db = Tables, NEW n \in 1 .. 30, NEW b \in Api!Canonical(db.blocks),
         b.tenure # 0, b.tenure # None,
         NEW same, same = {c \in Api!Canonical(db.blocks) : c.height <= b.height
                                                            /\ c.tenure = b.tenure},
         NEW shown, shown = Api!TenureBlocks(b.tenure, n, 0, b.index).body.results
  PROVE  Highest(n, same, shown)
<1> DEFINE S == {x \in Api!Canonical(db.blocks) : b.tenure = None \/ x.tenure = b.tenure}
           t == BlocksDown(S)
           body == Api!TenureBlocks(b.tenure, n, 0, b.index).body
<1>1. S = {x \in Api!Canonical(db.blocks) : b.tenure = None \/ x.tenure = b.tenure}
  OBVIOUS
<1>2. b \in S /\ same = {c \in S : c.height <= b.height}
  OBVIOUS
<1>3. t = BlocksDown(S)
  OBVIOUS
<1> HIDE DEF S, t
<1>4. /\ IsFiniteSet(S) /\ HeightsIn(S) /\ OneByHeight(S) /\ IndexOnce(S)
      /\ \A r \in S : r.index \in canonical
  BY <1>1, ListedRows
<1>5. InOrder(t, S, Higher(S))
  BY <1>3, <1>4, BlocksListed
<1>6. /\ t \in Seq(S) /\ {t[i] : i \in DOMAIN t} = S /\ DOMAIN t = 1 .. Len(t)
      /\ Len(t) \in Nat /\ \A i \in DOMAIN t : t[i] \in S
      /\ \A i, j \in DOMAIN t : i < j => <<t[j], t[i]>> \notin Higher(S)
  <2>1. /\ t \in Seq(S) /\ {t[i] : i \in DOMAIN t} = S
        /\ \A i, j \in DOMAIN t : i < j => <<t[j], t[i]>> \notin Higher(S)
    BY <1>5 DEF InOrder
  <2> QED BY <2>1
<1>7. PICK p \in DOMAIN t : t[p] = b
  BY <1>2, <1>6
<1>8. t[p].index # None /\ None \notin Nat
  BY <1>4, <1>6, NoneAssumption DEF ChainInv, TypeInv, TypeOK, StoredInv
<1>9. PageFrom(body, t, n, p)
  <2>1. PageFrom(Api!BlockPage(n, 0, t[p].index, b.tenure).body, t, n, p)
    BY <1>1, <1>3, <1>4, <1>5, <1>8, CursorPage
  <2> QED BY <1>7, <2>1 DEF Api!TenureBlocks
<1> DEFINE left == Len(t) - p + 1
           k == IF left < n THEN left ELSE n
<1>10. /\ Cardinality(same) = left
       /\ \A i \in p .. Len(t) :
            Cardinality({c \in same : c.height >= t[i].height}) = i - p + 1
  <2>1. same = {d \in S : d.height <= t[p].height}
    BY <1>2, <1>7
  <2>2. RanksFrom(same, t, p)
    BY <1>4, <1>5, <2>1, Ranks
  <2> QED BY <2>2 DEF RanksFrom
<1>11. /\ Len(shown) = k /\ DOMAIN shown = 1 .. k
       /\ \A i \in 1 .. k : shown[i] = Api!ParseDbNakamotoBlock(t[p + i - 1])
  BY <1>9 DEF PageFrom
<1>12. ASSUME NEW i \in 1 .. k
       PROVE  /\ \E c \in same : c.index = shown[i].index /\ c.height = shown[i].height
              /\ Cardinality({c \in same : c.height >= shown[i].height}) = i
  <2> DEFINE j == p + i - 1
  <2>1. j \in DOMAIN t /\ j \in p .. Len(t) /\ j - p + 1 = i /\ p <= j
    BY <1>6, <1>12, SMTT(30)
  <2>2. shown[i].index = t[j].index /\ shown[i].height = t[j].height
    BY <1>11, ParsedBlock
  <2> HIDE DEF j
  <2>3. t[j] \in S /\ t[p] \in S /\ t[j].height \in Nat /\ t[p].height \in Nat
    BY <1>4, <1>6, <2>1 DEF HeightsIn
  <2>4. t[j].height <= t[p].height
    <3>1. CASE j = p
      BY <2>3, <3>1
    <3>2. CASE p < j
      <4>1. <<t[j], t[p]>> \notin Higher(S)
        BY <1>6, <2>1, <3>2
      <4> QED BY <2>3, <4>1 DEF Higher
    <3> QED BY <1>6, <2>1, <3>1, <3>2
  <2>5. t[j] \in same
    BY <1>2, <1>7, <2>3, <2>4
  <2> QED BY <1>10, <2>1, <2>2, <2>5
<1> QED BY <1>10, <1>11, <1>12 DEF Highest

\* What CursorsWalkChain says of getBlocks in pg-store-v2.ts, of every tree of
\* blocks and every limit: a client that follows the cursors meets each block
\* of the chain once, followed by its parent, and can go back the way it came.
THEOREM CursorsRight == ASpec => []CursorsWalkChain
<1>1. [ANext]_avars => [Next]_vars
  <2>1. ASSUME NEW b \in Block, UBeginUpdate(b) PROVE Next
    BY <2>1 DEF UBeginUpdate, Next
  <2>2. URestoreOrphanedChain \/ UCommitUpdate \/ UAbortUpdate => Next
    BY DEF URestoreOrphanedChain, UCommitUpdate, UAbortUpdate, Next
  <2>3. \A s \in Batch : UpdateMicroblocks(s) => UNCHANGED vars
    BY DEF UpdateMicroblocks
  <2>4. UNext => [Next]_vars
    BY <2>1, <2>2, <2>3 DEF UNext
  <2> QED BY <2>4 DEF ANext, Write, ReadTag, ReadBody, avars, uvars
<1>2. ASpec => []ChainInv
  <2>1. AInit => ChainInv
    BY ChainStart DEF AInit, UInit
  <2> QED BY <1>1, <2>1, ChainStep, PTL DEF ASpec
<1>3. ASpec => [](db = Tables)
  <2>1. AInit => db = Tables
    BY DEF AInit
  <2>2. ASSUME db = Tables, [ANext]_avars PROVE (db = Tables)'
    <3>1. CASE Write
      BY <3>1 DEF Write
    <3>2. CASE UNCHANGED <<uvars, db>>
      BY <2>2, <3>2 DEF uvars, vars, dbVars, Tables, ChainTipRow, BlockRows, MicroblockRows,
                         ChainTxRows, StreamTxRows, Home
    <3> QED BY <2>2, <3>1, <3>2 DEF ANext, ReadTag, ReadBody, avars
  <2> QED BY <2>1, <2>2, PTL DEF ASpec
<1>4. ASSUME ChainInv, db = Tables PROVE CursorsWalkChain
  <2>2. Api!PagingLimits["Block"][2] = 30
    BY DEF Api!PagingLimits
  <2>3. ASSUME NEW n \in 1 .. Api!PagingLimits["Block"][2], NEW b \in Api!Canonical(db.blocks)
        PROVE  LET below == {c \in Api!Canonical(db.blocks) : c.height <= b.height}
                   page == Api!BlocksV2(n, 0, b.index).body
                   shown == page.results
                   older == Api!BlocksV2(n, 0, page.prev_cursor).body
                   same == {c \in below : c.tenure = b.tenure}
                   tenure == Api!TenureBlocks(b.tenure, n, 0, b.index).body.results
               IN /\ Len(shown) = (IF Api!Cardinality(below) < n THEN Api!Cardinality(below) ELSE n)
                  /\ shown[1].index = b.index
                  /\ \A i \in 2 .. Len(shown) : shown[i].index = shown[i - 1].parent
                  /\ (page.prev_cursor = None) = (Api!Cardinality(below) <= n)
                  /\ page.prev_cursor # None =>
                       /\ older.results[1].index = shown[n].parent
                       /\ older.next_cursor = b.index
                  /\ b.tenure \notin {0, None} =>
                       /\ Len(tenure) = (IF Api!Cardinality(same) < n THEN Api!Cardinality(same) ELSE n)
                       /\ \A i \in DOMAIN tenure :
                            /\ \E c \in same : c.index = tenure[i].index
                                               /\ c.height = tenure[i].height
                            /\ Api!Cardinality({c \in same : c.height >= tenure[i].height}) = i
    <3> DEFINE below == {c \in Api!Canonical(db.blocks) : c.height <= b.height}
               page == Api!BlocksV2(n, 0, b.index).body
               shown == page.results
               older == Api!BlocksV2(n, 0, page.prev_cursor).body
               same == {c \in below : c.tenure = b.tenure}
               tenure == Api!TenureBlocks(b.tenure, n, 0, b.index).body.results
    <3>1. same = {c \in Api!Canonical(db.blocks) : c.height <= b.height /\ c.tenure = b.tenure}
      OBVIOUS
    <3>2. /\ below = {c \in Api!Canonical(db.blocks) : c.height <= b.height}
          /\ page = Api!BlocksV2(n, 0, b.index).body
          /\ older = Api!BlocksV2(n, 0, page.prev_cursor).body
          /\ tenure = Api!TenureBlocks(b.tenure, n, 0, b.index).body.results
      OBVIOUS
    <3> HIDE DEF below, page, older, same, tenure
    <3>3. Walks(n, b, below, page, older)
      BY <1>4, <2>2, <3>2, WalkFrom
    <3>4. b.tenure \notin {0, None} => Highest(n, same, tenure)
      BY <1>4, <2>2, <3>1, <3>2, TenureFrom
    <3> QED BY <3>3, <3>4, SameCardinality
            DEF below, page, older, same, tenure, Walks, Highest
  <2> QED BY <2>3, Zenon DEF CursorsWalkChain, Api!CursorsWalkTheChain
<1> QED BY <1>2, <1>3, <1>4, PTL

=============================================================================
