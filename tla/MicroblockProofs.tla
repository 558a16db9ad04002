-------------------------- MODULE MicroblockProofs --------------------------
(***************************************************************************)
(* Proofs about Microblocks, for every tree of blocks and every stream:    *)
(* microblocks and their transactions follow the canonical chain.          *)
(***************************************************************************)
EXTENDS Microblocks, ChainStoreProofs

-----------------------------------------------------------------------------
(* Streams. *)

\* The microblocks of a stream build on one block, and a block of height
\* above 0 confirms a stream on its parent.
LEMMA StreamBase ==
  ASSUME NEW b \in Block, NEW m \in StreamOf(b)
  PROVE  /\ m \in Microblock /\ b # Genesis
         /\ MbBase[m] = Parent[b] /\ Parent[b] \in Block
         /\ Height[b] = Height[MbBase[m]] + 1
<1> USE BlockAssumption, MicroAssumption
<1> DEFINE e == StreamTip[b]
           S == {x \in Microblock : MbBase[x] = MbBase[e]}
<1>1. e \in Microblock /\ m \in MbChain[e] /\ MbBase[e] = Parent[b]
  BY DEF StreamOf
<1>2. ReachesBack(S, e)
  BY <1>1 DEF ReachesBack
<1>3. m \in Microblock /\ m \in S
  <2>1. MbChain[e] = {x \in Microblock :
                        \A T \in SUBSET Microblock : ReachesBack(T, e) => x \in T}
    BY <1>1 DEF MbChain
  <2>2. S \in SUBSET Microblock
    OBVIOUS
  <2> HIDE DEF S, e
  <2> QED BY <1>1, <1>2, <2>1, <2>2
<1>4. Parent[b] \in Block
  BY <1>1
<1>5. b # Genesis
  BY <1>4
<1> QED BY <1>1, <1>3, <1>4, <1>5

LEMMA AcceptedIsStream ==
  ASSUME NEW b
  PROVE  Accepted(StreamTip[b]) = StreamOf(b)
BY DEF Accepted, StreamOf

LEMMA StreamFinite ==
  ASSUME NEW b \in Block
  PROVE  StreamOf(b) \subseteq Microblock /\ IsFiniteSet(StreamOf(b))
<1>1. StreamOf(b) \subseteq Microblock
  BY StreamBase
<1>2. IsFiniteSet(StreamOf(b))
  BY FS_EmptySet, StreamAssumption, MicroAssumption DEF StreamOf
<1> QED BY <1>1, <1>2

\* The transactions of finitely many microblocks.
LEMMA TxsInFinite ==
  ASSUME NEW M, M \subseteq Microblock, IsFiniteSet(M)
  PROVE  IsFiniteSet(TxsIn(M)) /\ Cardinality(TxsIn(M)) \in Nat
<1> DEFINE T == UNION {MbTxs[m] : m \in M}
<1>1. IsFiniteSet({MbTxs[m] : m \in M})
  <2> DEFINE img == {MbTxs[m] : m \in M}
             g == [m \in M |-> MbTxs[m]]
  <2>1. g \in Surjection(M, img)
    BY DEF Surjection
  <2> HIDE DEF g, img
  <2>2. IsFiniteSet(img)
    BY <2>1, FS_Surjection
  <2> QED BY <2>2 DEF img
<1>2. IsFiniteSet(T)
  BY <1>1, FS_UNION, StreamAssumption
<1>3. IsFiniteSet(T \X M)
  BY <1>2, FS_Product
<1>4. TxsIn(M) \subseteq T \X M
  BY DEF TxsIn
<1> QED BY <1>3, <1>4, FS_Subset, FS_CardinalityType

-----------------------------------------------------------------------------
(* Rows. *)

\* A row after an UPDATE of its flags.
Put(r, f, g, i) == [r EXCEPT !.canonical = f, !.micro = g, !.index = i]

LEMMA PutRow ==
  ASSUME NEW r \in TxRow, NEW f \in BOOLEAN, NEW g \in BOOLEAN,
         NEW i \in Block \cup {NoBlock}
  PROVE  /\ Put(r, f, g, i) \in TxRow
         /\ Put(r, f, g, i).tx = r.tx /\ Put(r, f, g, i).mb = r.mb
         /\ Put(r, f, g, i).canonical = f /\ Put(r, f, g, i).micro = g
         /\ Put(r, f, g, i).index = i
BY DEF Put, TxRow

LEMMA SameRow ==
  ASSUME NEW r \in TxRow, NEW q \in TxRow, r.tx = q.tx, r.mb = q.mb,
         r.canonical = q.canonical, r.micro = q.micro, r.index = q.index
  PROVE  r = q
BY DEF TxRow

LEMMA PutFlags ==
  ASSUME NEW x \in Flags, NEW f \in BOOLEAN, NEW g \in BOOLEAN,
         NEW i \in Block \cup {NoBlock}
  PROVE  /\ [x EXCEPT !.canonical = f, !.micro = g, !.index = i]
              = [canonical |-> f, micro |-> g, index |-> i]
         /\ [canonical |-> f, micro |-> g, index |-> i] \in Flags
<1> DEFINE y == [x EXCEPT !.canonical = f, !.micro = g, !.index = i]
           z == [canonical |-> f, micro |-> g, index |-> i]
<1>1. y \in Flags /\ y.canonical = f /\ y.micro = g /\ y.index = i
  BY DEF Flags
<1>2. z \in Flags /\ z.canonical = f /\ z.micro = g /\ z.index = i
  BY DEF Flags
<1> HIDE DEF y, z
<1>3. y = z
  BY <1>1, <1>2 DEF Flags
<1> QED BY <1>2, <1>3 DEF y, z

\* The tables have their types, and finitely many rows.
Typed(u) == u \in MicroState /\ IsFiniteSet(u.txs)

LEMMA TypedFields ==
  ASSUME NEW u, Typed(u)
  PROVE  /\ u.stored \subseteq Microblock
         /\ u.flags \in [Microblock -> Flags]
         /\ u.txs \subseteq TxRow /\ IsFiniteSet(u.txs)
         /\ u.tip \in Microblock \cup {NoMicro}
         /\ u.anchored \in Int /\ u.unanchored \in Int
         /\ u.applied \in [Tx -> Int] /\ u.clash \in BOOLEAN
BY DEF Typed, MicroState

\* No two rows of a transaction and a microblock of M would both be rows of i.
Distinct(u, M, i) ==
  \A r, q \in u.txs :
    /\ r.tx = q.tx /\ r.mb = q.mb /\ r.mb \in M
    /\ r.index \in {i, NoBlock} /\ q.index \in {i, NoBlock}
    => r = q

\* What handleMicroReorg does to a row.
Reorged(r, M, f, g, i) ==
  IF r.mb \in M /\ r.index \in {i, NoBlock} THEN Put(r, f, g, i) ELSE r

\* What it does to the tables.
ReorgEffect(u, v, M, f, g, i) ==
  /\ Typed(v)
  /\ v.stored = u.stored /\ v.tip = u.tip /\ v.clash = u.clash
  /\ v.flags = [m \in Microblock |->
                  IF m \in M THEN [canonical |-> f, micro |-> g, index |-> i]
                             ELSE u.flags[m]]
  /\ v.txs = {Reorged(r, M, f, g, i) : r \in u.txs}

LEMMA HandleReorg ==
  ASSUME NEW u, Typed(u), NEW M, M \subseteq Microblock, NEW f \in BOOLEAN,
         NEW g \in BOOLEAN, NEW i \in Block \cup {NoBlock}, Distinct(u, M, i)
  PROVE  ReorgEffect(u, HandleMicroReorg(u, M, f, g, i), M, f, g, i)
<1> DEFINE v == HandleMicroReorg(u, M, f, g, i)
           hit == {r \in u.txs : r.mb \in M /\ r.index \in {i, NoBlock}}
           txs == (u.txs \ hit) \cup {Put(r, f, g, i) : r \in hit}
           put(x) == [x EXCEPT !.canonical = f, !.micro = g, !.index = i]
           flags == [m \in Microblock |-> IF m \in M THEN put(u.flags[m]) ELSE u.flags[m]]
           count == u.unanchored + (IF g THEN Cardinality(hit) ELSE -Cardinality(hit))
           clash == u.clash \/ Clashes(u.txs, hit, i)
<1>1. /\ u.stored \subseteq Microblock /\ u.flags \in [Microblock -> Flags]
      /\ u.txs \subseteq TxRow /\ IsFiniteSet(u.txs)
      /\ u.tip \in Microblock \cup {NoMicro}
      /\ u.anchored \in Int /\ u.unanchored \in Int
      /\ u.applied \in [Tx -> Int] /\ u.clash \in BOOLEAN
  BY TypedFields
<1>2. v = [u EXCEPT !.flags = flags, !.txs = txs, !.clash = clash, !.unanchored = count]
  BY DEF HandleMicroReorg, Put
<1>3. flags = [m \in Microblock |->
                 IF m \in M THEN [canonical |-> f, micro |-> g, index |-> i] ELSE u.flags[m]]
  <2>1. ASSUME NEW m \in Microblock PROVE put(u.flags[m]) = [canonical |-> f, micro |-> g, index |-> i]
    <3>1. u.flags[m] \in Flags
      BY <1>1
    <3> QED BY <3>1, PutFlags, ZenonT(30)
  <2> QED BY <2>1
<1>4. flags \in [Microblock -> Flags]
  <2>1. Unset \in Flags
    BY DEF Unset, Flags
  <2>2. [canonical |-> f, micro |-> g, index |-> i] \in Flags
    BY <2>1, PutFlags
  <2> HIDE DEF flags
  <2> QED BY <1>1, <1>3, <2>2
<1>5. IsFiniteSet(hit) /\ Cardinality(hit) \in Nat
  BY <1>1, FS_Subset, FS_CardinalityType
<1>6. count \in Int
  <2> HIDE DEF hit
  <2> QED BY <1>1, <1>5
<1>7. ~Clashes(u.txs, hit, i)
  BY DEF Clashes, Distinct
<1>8. clash = u.clash
  BY <1>1, <1>7
<1>9. txs = {Reorged(r, M, f, g, i) : r \in u.txs}
  BY DEF Reorged
<1>10. txs \subseteq TxRow
  BY <1>1, PutRow
<1>11. IsFiniteSet(txs)
  <2> DEFINE h == [r \in u.txs |-> Reorged(r, M, f, g, i)]
  <2>1. DOMAIN h = u.txs /\ txs = {h[r] : r \in u.txs}
    BY <1>9
  <2> HIDE DEF h, txs
  <2> QED BY <1>1, <2>1, ImageFinite
<1> HIDE DEF txs, flags, count, clash, v, hit
<1>12. /\ v \in MicroState
       /\ v.stored = u.stored /\ v.tip = u.tip /\ v.clash = clash
       /\ v.flags = flags /\ v.txs = txs
  <2>1. u \in MicroState
    BY DEF Typed
  <2> QED BY <1>1, <1>2, <1>4, <1>6, <1>8, <1>10, <2>1 DEF MicroState
<1>13. Typed(v)
  BY <1>11, <1>12 DEF Typed
<1> QED BY <1>3, <1>8, <1>9, <1>12, <1>13 DEF v, ReorgEffect

\* What markEntitiesCanonical does to a row.
Marked(r, i, f) == IF r.index = i THEN [r EXCEPT !.canonical = f] ELSE r

LEMMA MarkedRow ==
  ASSUME NEW r \in TxRow, NEW i, NEW f \in BOOLEAN
  PROVE  /\ Marked(r, i, f) \in TxRow
         /\ Marked(r, i, f).tx = r.tx /\ Marked(r, i, f).mb = r.mb
         /\ Marked(r, i, f).index = r.index /\ Marked(r, i, f).micro = r.micro
         /\ Marked(r, i, f).canonical = IF r.index = i THEN f ELSE r.canonical
BY DEF Marked, TxRow

LEMMA MarkTxs ==
  ASSUME NEW u, Typed(u), NEW i, NEW f \in BOOLEAN
  PROVE  LET v == MarkMicroTxs(u, i, f)
         IN /\ Typed(v)
            /\ v.stored = u.stored /\ v.tip = u.tip /\ v.clash = u.clash
            /\ v.flags = u.flags
            /\ v.txs = {Marked(r, i, f) : r \in u.txs}
<1> DEFINE v == MarkMicroTxs(u, i, f)
           hit == {r \in u.txs : r.index = i /\ r.canonical # f}
           n(t) == Cardinality({r \in hit : r.tx = t})
           txs == (u.txs \ hit) \cup {[r EXCEPT !.canonical = f] : r \in hit}
           sum == u.anchored + (IF f THEN Cardinality(hit) ELSE -Cardinality(hit))
           applied == [t \in Tx |-> IF f THEN u.applied[t] + n(t) ELSE u.applied[t] - n(t)]
<1>1. /\ u.stored \subseteq Microblock /\ u.flags \in [Microblock -> Flags]
      /\ u.txs \subseteq TxRow /\ IsFiniteSet(u.txs)
      /\ u.tip \in Microblock \cup {NoMicro}
      /\ u.anchored \in Int /\ u.unanchored \in Int
      /\ u.applied \in [Tx -> Int] /\ u.clash \in BOOLEAN
  BY TypedFields
<1>2. v = [u EXCEPT !.txs = txs, !.anchored = sum, !.applied = applied]
  BY DEF MarkMicroTxs
<1>3. IsFiniteSet(hit) /\ Cardinality(hit) \in Nat
  BY <1>1, FS_Subset, FS_CardinalityType
<1>4. \A t : n(t) \in Nat
  <2> SUFFICES ASSUME NEW t PROVE n(t) \in Nat
    OBVIOUS
  <2>1. {r \in hit : r.tx = t} \subseteq hit
    OBVIOUS
  <2> HIDE DEF hit
  <2> QED BY <1>3, <2>1, FS_Subset, FS_CardinalityType
<1>5. txs = {Marked(r, i, f) : r \in u.txs}
  <2>1. ASSUME NEW r \in u.txs, r \notin hit PROVE Marked(r, i, f) = r
    <3>1. r \in TxRow
      BY <1>1
    <3>2. CASE r.index = i
      <4>1. r.canonical = f
        BY <2>1, <3>2
      <4> QED BY <3>1, <4>1, MarkedRow, SameRow
    <3> QED BY <3>2 DEF Marked
  <2>2. ASSUME NEW r \in hit PROVE Marked(r, i, f) = [r EXCEPT !.canonical = f]
    BY DEF Marked
  <2>3. hit \subseteq u.txs
    OBVIOUS
  <2> HIDE DEF hit
  <2> QED BY <2>1, <2>2, <2>3
<1>6. txs \subseteq TxRow
  <2> HIDE DEF txs
  <2> QED BY <1>1, <1>5, MarkedRow
<1>7. IsFiniteSet(txs)
  <2> DEFINE h == [r \in u.txs |-> Marked(r, i, f)]
  <2>1. DOMAIN h = u.txs /\ txs = {h[r] : r \in u.txs}
    BY <1>5
  <2> HIDE DEF h, txs
  <2> QED BY <1>1, <2>1, ImageFinite
<1> HIDE DEF hit, n
<1>8. sum \in Int /\ applied \in [Tx -> Int]
  BY <1>1, <1>3, <1>4
<1> HIDE DEF txs, sum, applied, v
<1>9. /\ v \in MicroState
      /\ v.stored = u.stored /\ v.tip = u.tip /\ v.clash = u.clash
      /\ v.flags = u.flags /\ v.txs = txs
  <2>1. u \in MicroState
    BY DEF Typed
  <2> QED BY <1>1, <1>2, <1>6, <1>8, <2>1 DEF MicroState
<1>10. Typed(v)
  BY <1>7, <1>9 DEF Typed
<1> QED BY <1>5, <1>9, <1>10 DEF v

-----------------------------------------------------------------------------
(* updateMicroCanonical. *)

\* The stored microblocks that compete for a block of b's height.
Level(u, b) == {m \in u.stored : Height[MbBase[m]] + 1 = Height[b]}

\* What updateMicroCanonical does to a row.
Claimed(r, L, b, f) ==
  IF r.mb \in L /\ r.index \in {b, NoBlock} THEN Put(r, f, r.mb \in StreamOf(b), b)
                                            ELSE r

\* The candidates of the query are the microblocks of the level.
LEMMA CandidatesAreLevel ==
  ASSUME NEW u, u.stored \subseteq Microblock, NEW b \in Block
  PROVE  Candidates(u, Parent[b], Height[b]) = Level(u, b)
<1> USE BlockAssumption, MicroAssumption
<1>1. ASSUME NEW m \in u.stored, MbBase[m] = Parent[b]
      PROVE  Height[MbBase[m]] + 1 = Height[b]
  <2>1. MbBase[m] \in Block
    OBVIOUS
  <2>2. b # Genesis
    BY <1>1, <2>1
  <2> QED BY <1>1, <2>2
<1> QED BY <1>1 DEF Candidates, Level

\* Row c is what row r becomes.
ClaimedFrom(c, r, L, b, f) ==
  /\ c.tx = r.tx /\ c.mb = r.mb
  /\ \/ /\ r.mb \in L /\ r.index \in {b, NoBlock}
        /\ c.canonical = f /\ c.micro = (r.mb \in StreamOf(b)) /\ c.index = b
     \/ c = r /\ ~(r.mb \in L /\ r.index \in {b, NoBlock})

LEMMA ClaimedRow ==
  ASSUME NEW r \in TxRow, NEW L, NEW b \in Block, NEW f \in BOOLEAN
  PROVE  ClaimedFrom(Claimed(r, L, b, f), r, L, b, f)
<1>1. CASE r.mb \in L /\ r.index \in {b, NoBlock}
  <2> DEFINE g == (r.mb \in StreamOf(b))
             p == Put(r, f, g, b)
  <2>1. Claimed(r, L, b, f) = p
    BY <1>1 DEF Claimed
  <2>2. g \in BOOLEAN /\ b \in Block \cup {NoBlock}
    OBVIOUS
  <2> HIDE DEF g
  <2>3. p.tx = r.tx /\ p.mb = r.mb /\ p.canonical = f /\ p.micro = g /\ p.index = b
    BY <2>2, PutRow
  <2> HIDE DEF p
  <2>4. ClaimedFrom(p, r, L, b, f)
    BY <1>1, <2>3 DEF g, ClaimedFrom
  <2> QED BY <2>1, <2>4
<1>2. CASE ~(r.mb \in L /\ r.index \in {b, NoBlock})
  BY <1>2 DEF Claimed, ClaimedFrom
<1> QED BY <1>1, <1>2

LEMMA StreamInLevel ==
  ASSUME NEW u, NEW b \in Block, StreamOf(b) \subseteq u.stored
  PROVE  StreamOf(b) \subseteq Level(u, b)
BY StreamBase DEF Level

\* What updateMicroCanonical does to the tables.
ClaimEffect(u, v, b, f) ==
  /\ Typed(v)
  /\ v.stored = u.stored /\ v.tip = u.tip /\ v.clash = u.clash
  /\ v.flags = [m \in Microblock |->
       IF m \in Level(u, b)
         THEN [canonical |-> f, micro |-> m \in StreamOf(b), index |-> b]
         ELSE u.flags[m]]
  /\ v.txs = {Claimed(r, Level(u, b), b, f) : r \in u.txs}

\* Orphans first, then the stream: together the whole level, and no row twice.
LEMMA UpdateMicro ==
  ASSUME NEW u, Typed(u), NEW b \in Block, NEW f \in BOOLEAN,
         StreamOf(b) \subseteq u.stored, Distinct(u, Level(u, b), b)
  PROVE  ClaimEffect(u, UpdateMicroCanonical(u, b, f), b, f)
<1> DEFINE L == Level(u, b)
           A == StreamOf(b)
           O == L \ A
           w == HandleMicroReorg(u, O, f, FALSE, b)
           v == HandleMicroReorg(w, A, f, TRUE, b)
<1>1. u.stored \subseteq Microblock /\ u.txs \subseteq TxRow
  BY TypedFields
<1>2. UpdateMicroCanonical(u, b, f) = v
  BY <1>1, CandidatesAreLevel, AcceptedIsStream DEF UpdateMicroCanonical, Orphaned
<1>3. A \subseteq L /\ L \subseteq Microblock /\ O \subseteq Microblock /\ O \subseteq L
  BY <1>1, StreamInLevel DEF Level
<1>4. Distinct(u, O, b)
  BY <1>3 DEF Distinct
<1>5. b \in Block \cup {NoBlock} /\ TRUE \in BOOLEAN /\ FALSE \in BOOLEAN
  OBVIOUS
<1> HIDE DEF L, A
<1>6. /\ Typed(w)
      /\ w.stored = u.stored /\ w.tip = u.tip /\ w.clash = u.clash
      /\ w.flags = [m \in Microblock |->
                      IF m \in O THEN [canonical |-> f, micro |-> FALSE, index |-> b]
                                 ELSE u.flags[m]]
      /\ w.txs = {Reorged(r, O, f, FALSE, b) : r \in u.txs}
  <2> HIDE DEF O
  <2>1. ReorgEffect(u, w, O, f, FALSE, b)
    BY <1>3, <1>4, <1>5, HandleReorg
  <2> QED BY <2>1 DEF ReorgEffect
<1>7. \A r \in u.txs : Reorged(r, O, f, FALSE, b).mb = r.mb
  <2> SUFFICES ASSUME NEW r \in u.txs PROVE Reorged(r, O, f, FALSE, b).mb = r.mb
    OBVIOUS
  <2>1. r \in TxRow
    BY <1>1
  <2>2. Put(r, f, FALSE, b).mb = r.mb
    BY <2>1 DEF Put, TxRow
  <2> HIDE DEF O
  <2> QED BY <2>2 DEF Reorged
<1>8. ASSUME NEW q \in w.txs, q.mb \in A PROVE q \in u.txs
  <2>1. PICK r \in u.txs : q = Reorged(r, O, f, FALSE, b)
    BY <1>6
  <2>2. r.mb \in A
    BY <1>7, <1>8, <2>1
  <2> QED BY <2>1, <2>2 DEF Reorged
<1>9. Distinct(w, A, b)
  <2>1. SUFFICES ASSUME NEW r \in w.txs, NEW q \in w.txs,
                        r.tx = q.tx, r.mb = q.mb, r.mb \in A,
                        r.index \in {b, NoBlock}, q.index \in {b, NoBlock}
                 PROVE  r = q
    BY DEF Distinct
  <2>2. r \in u.txs /\ q \in u.txs /\ r.mb \in L
    BY <1>3, <1>8, <2>1
  <2> QED BY <2>1, <2>2 DEF Distinct, L
<1>10. /\ Typed(v)
       /\ v.stored = w.stored /\ v.tip = w.tip /\ v.clash = w.clash
       /\ v.flags = [m \in Microblock |->
                       IF m \in A THEN [canonical |-> f, micro |-> TRUE, index |-> b]
                                  ELSE w.flags[m]]
       /\ v.txs = {Reorged(r, A, f, TRUE, b) : r \in w.txs}
  <2>1. A \subseteq Microblock
    BY <1>3
  <2> HIDE DEF w
  <2>2. ReorgEffect(w, v, A, f, TRUE, b)
    BY <1>5, <1>6, <1>9, <2>1, HandleReorg
  <2> HIDE DEF v
  <2> QED BY <2>2 DEF ReorgEffect
<1>11. ASSUME NEW r \in u.txs
       PROVE  Reorged(Reorged(r, O, f, FALSE, b), A, f, TRUE, b) = Claimed(r, L, b, f)
  <2>1. CASE r.mb \in O
    <3>1. r.mb \notin A /\ r.mb \in L
      BY <2>1
    <3>2. Reorged(r, O, f, FALSE, b).mb \notin A
      BY <1>7, <3>1
    <3>3. (r.mb \in A) = FALSE
      BY <3>1
    <3> HIDE DEF O
    <3> QED BY <2>1, <3>1, <3>2, <3>3 DEF Reorged, Claimed, A
  <2>2. CASE r.mb \in A
    <3>1. r.mb \notin O /\ r.mb \in L
      BY <1>3, <2>2
    <3>2. (r.mb \in A) = TRUE
      BY <2>2
    <3> HIDE DEF O
    <3> QED BY <2>2, <3>1, <3>2 DEF Reorged, Claimed, A
  <2>3. CASE r.mb \notin O /\ r.mb \notin A
    <3>1. r.mb \notin L
      BY <2>3
    <3> HIDE DEF O
    <3> QED BY <2>3, <3>1 DEF Reorged, Claimed
  <2> QED BY <2>1, <2>2, <2>3
<1>12. v.txs = {Claimed(r, L, b, f) : r \in u.txs}
  <2> HIDE DEF v, w, O
  <2>1. w.txs = {Reorged(r, O, f, FALSE, b) : r \in u.txs}
    BY <1>6
  <2>2. v.txs = {Reorged(q, A, f, TRUE, b) : q \in w.txs}
    BY <1>10
  <2> DEFINE one(r) == Reorged(r, O, f, FALSE, b)
             two(q) == Reorged(q, A, f, TRUE, b)
             both(r) == Claimed(r, L, b, f)
  <2>3. \A r \in u.txs : two(one(r)) = both(r)
    BY <1>11
  <2>4. w.txs = {one(r) : r \in u.txs} /\ v.txs = {two(q) : q \in w.txs}
    BY <2>1, <2>2
  <2> HIDE DEF one, two, both
  <2>5. v.txs = {both(r) : r \in u.txs}
    BY <2>3, <2>4
  <2> QED BY <2>5 DEF both
<1>13. v.flags = [m \in Microblock |->
                    IF m \in L THEN [canonical |-> f, micro |-> m \in A, index |-> b]
                               ELSE u.flags[m]]
  <2>1. ASSUME NEW m \in Microblock
        PROVE  (IF m \in A THEN [canonical |-> f, micro |-> TRUE, index |-> b]
                           ELSE w.flags[m])
               = IF m \in L THEN [canonical |-> f, micro |-> m \in A, index |-> b]
                            ELSE u.flags[m]
    <3>1. w.flags[m] = IF m \in O THEN [canonical |-> f, micro |-> FALSE, index |-> b]
                                  ELSE u.flags[m]
      <4> HIDE DEF w, O
      <4> QED BY <1>6
    <3> HIDE DEF w
    <3>2. CASE m \in A
      <4>1. m \in L /\ (m \in A) = TRUE
        BY <1>3, <3>2
      <4> QED BY <3>2, <4>1
    <3>3. CASE m \notin A
      <4>1. (m \in A) = FALSE
        BY <3>3
      <4> QED BY <3>1, <3>3, <4>1
    <3> QED BY <3>2, <3>3
  <2> HIDE DEF v, w, O
  <2> QED BY <1>10, <2>1
<1> HIDE DEF v, w, O
<1> QED BY <1>2, <1>6, <1>10, <1>12, <1>13 DEF L, A, ClaimEffect

-----------------------------------------------------------------------------
(* The invariant of the tables. *)

\* V are the canonical ones of the stored blocks B, none of them above H.
Tree(V, B, H) ==
  /\ B \subseteq Block /\ V \subseteq B /\ H \in Nat
  /\ \A x \in B : Height[x] <= H

\* A row is unclaimed at the tip of the chain, or its block's, and then its
\* flags say whether the block is canonical and whether it confirms the
\* microblock.
RowOK(r, stored, V, B, H) ==
  /\ r.mb \in stored
  /\ r.index = NoBlock => Height[MbBase[r.mb]] = H
  /\ r.index # NoBlock =>
       /\ r.index \in B
       /\ Height[r.index] = Height[MbBase[r.mb]] + 1
       /\ r.micro <=> r.mb \in StreamOf(r.index)
       /\ r.canonical <=> r.index \in V

RowsOK(u, V, B, H) == \A r \in u.txs : RowOK(r, u.stored, V, B, H)

\* unique_tx_id_index_block_hash_microblock_hash.
UniqueKeys(txs) ==
  \A r, q \in txs : r.tx = q.tx /\ r.mb = q.mb /\ r.index = q.index => r = q

\* Every stored block has a row for each transaction of its stream.
AllThere(txs, B) ==
  \A b \in B : \A x \in TxsIn(StreamOf(b)) :
    \E r \in txs : r.tx = x[1] /\ r.mb = x[2] /\ r.index = b

Shows(f) == f.canonical /\ f.micro /\ f.index # NoBlock

FlagsOK(flags, V) ==
  \A m \in Microblock : Shows(flags[m]) <=> \E b \in V : m \in StreamOf(b)

StoredOK(stored, B, H) ==
  /\ \A b \in B : StreamOf(b) \subseteq stored
  /\ \A m \in stored : Height[MbBase[m]] <= H

StreamInv(u, V, B, H) ==
  /\ Typed(u)
  /\ StoredOK(u.stored, B, H)
  /\ RowsOK(u, V, B, H)
  /\ UniqueKeys(u.txs)
  /\ AllThere(u.txs, B)
  /\ FlagsOK(u.flags, V)
  /\ u.clash = FALSE

-----------------------------------------------------------------------------
(* One level of the re-org. *)

\* Block b is the only one of its height in V, and W is V with b or without.
Turned(V, W, b, f) ==
  /\ \A x \in V : Height[x] = Height[b] => x = b
  /\ W = IF f THEN V \cup {b} ELSE V \ {b}

\* A block changes sides: its level and its rows change with it.
LEMMA LevelKeeps ==
  ASSUME NEW V, NEW B, NEW H, Tree(V, B, H), NEW u, StreamInv(u, V, B, H),
         NEW b \in B, NEW f \in BOOLEAN, NEW W, Turned(V, W, b, f)
  PROVE  /\ StreamInv(MarkMicroTxs(UpdateMicroCanonical(u, b, f), b, f), W, B, H)
         /\ MarkMicroTxs(UpdateMicroCanonical(u, b, f), b, f).tip = u.tip
<1> USE BlockAssumption
<1> DEFINE L == Level(u, b)
           v == UpdateMicroCanonical(u, b, f)
           w == MarkMicroTxs(v, b, f)
<1>0. /\ \A x \in V : Height[x] = Height[b] => x = b
      /\ W = IF f THEN V \cup {b} ELSE V \ {b}
  BY DEF Turned
<1>1. /\ u.stored \subseteq Microblock /\ u.txs \subseteq TxRow /\ Typed(u)
      /\ b \in Block /\ Height[b] <= H /\ Height[b] \in Nat /\ H \in Nat
      /\ NoBlock \notin Block /\ B \subseteq Block /\ V \subseteq B
      /\ \A m \in Microblock : MbBase[m] \in Block /\ Height[MbBase[m]] \in Nat
  BY TypedFields, MicroAssumption DEF StreamInv, Tree
<1>2. \A r \in u.txs : RowOK(r, u.stored, V, B, H)
  BY DEF StreamInv, RowsOK
<1>3. ASSUME NEW r \in u.txs, r.mb \in L PROVE r.index # NoBlock
  <2>1. Height[MbBase[r.mb]] # H
    <3>1. r.mb \in Microblock /\ Height[MbBase[r.mb]] + 1 = Height[b]
      BY <1>1, <1>3 DEF Level
    <3>2. Height[MbBase[r.mb]] \in Nat
      BY <1>1, <3>1
    <3> QED BY <1>1, <3>1, <3>2
  <2> QED BY <1>2, <2>1 DEF RowOK
<1>4. Distinct(u, L, b)
  BY <1>3 DEF Distinct, StreamInv, UniqueKeys
<1>5. StreamOf(b) \subseteq u.stored
  BY DEF StreamInv, StoredOK
<1>6. ClaimEffect(u, v, b, f)
  BY <1>1, <1>4, <1>5, UpdateMicro
<1> HIDE DEF v
<1>7. /\ Typed(w)
      /\ w.stored = v.stored /\ w.tip = v.tip /\ w.clash = v.clash
      /\ w.flags = v.flags
      /\ w.txs = {Marked(r, b, f) : r \in v.txs}
  BY <1>6, MarkTxs DEF ClaimEffect
<1> HIDE DEF w
<1>8. ASSUME NEW r \in u.txs PROVE Marked(Claimed(r, L, b, f), b, f) = Marked(r, b, f)
  <2>1. r \in TxRow
    BY <1>1
  <2>2. CASE r.index = b
    <3>1. r.mb \in L
      BY <1>1, <1>2, <2>2 DEF RowOK, Level
    <3>2. r.micro = (r.mb \in StreamOf(b))
      <4>1. r.micro <=> r.mb \in StreamOf(b)
        BY <1>1, <1>2, <2>2 DEF RowOK
      <4> QED BY <2>1, <4>1 DEF TxRow
    <3> DEFINE g == (r.mb \in StreamOf(b))
    <3>3. Claimed(r, L, b, f) = Put(r, f, g, b)
      BY <2>2, <3>1 DEF Claimed
    <3>4. g \in BOOLEAN /\ r.micro = g /\ b \in Block \cup {NoBlock}
      BY <1>1, <3>2
    <3> HIDE DEF g
    <3> DEFINE p == Put(r, f, g, b)
    <3>5. /\ p \in TxRow /\ p.tx = r.tx /\ p.mb = r.mb /\ p.canonical = f
          /\ p.micro = r.micro /\ p.index = r.index
      BY <2>1, <2>2, <3>4, PutRow
    <3> HIDE DEF p
    <3>6. Marked(p, b, f) = Marked(r, b, f)
      <4> DEFINE mp == Marked(p, b, f)
                 mr == Marked(r, b, f)
      <4>1. /\ mp \in TxRow /\ mp.tx = p.tx /\ mp.mb = p.mb /\ mp.index = p.index
            /\ mp.micro = p.micro /\ mp.canonical = f
        BY <2>2, <3>5, MarkedRow
      <4>2. /\ mr \in TxRow /\ mr.tx = r.tx /\ mr.mb = r.mb /\ mr.index = r.index
            /\ mr.micro = r.micro /\ mr.canonical = f
        BY <2>1, <2>2, MarkedRow
      <4> HIDE DEF mp, mr
      <4>3. mp = mr
        BY <3>5, <4>1, <4>2, SameRow
      <4> QED BY <4>3 DEF mp, mr
    <3> QED BY <3>3, <3>6 DEF p
  <2>3. CASE r.index # b
    BY <1>3, <2>3 DEF Claimed
  <2> QED BY <2>2, <2>3
<1>9. w.txs = {Marked(r, b, f) : r \in u.txs}
  <2> DEFINE one(r) == Claimed(r, L, b, f)
             two(r) == Marked(r, b, f)
  <2>1. v.txs = {one(r) : r \in u.txs} /\ w.txs = {two(r) : r \in v.txs}
    BY <1>6, <1>7 DEF ClaimEffect
  <2>2. \A r \in u.txs : two(one(r)) = two(r)
    BY <1>8
  <2> HIDE DEF one, two
  <2>3. w.txs = {two(r) : r \in u.txs}
    BY <2>1, <2>2
  <2> QED BY <2>3 DEF two
<1>10. ASSUME NEW r \in u.txs
       PROVE  /\ Marked(r, b, f).tx = r.tx /\ Marked(r, b, f).mb = r.mb
              /\ Marked(r, b, f).index = r.index /\ Marked(r, b, f).micro = r.micro
              /\ Marked(r, b, f).canonical = IF r.index = b THEN f ELSE r.canonical
  BY <1>1, MarkedRow
<1>11. RowsOK(w, W, B, H)
  <2> SUFFICES ASSUME NEW r \in u.txs PROVE RowOK(Marked(r, b, f), u.stored, W, B, H)
    <3>1. w.stored = u.stored
      BY <1>6, <1>7 DEF ClaimEffect
    <3> QED BY <1>9, <3>1 DEF RowsOK
  <2>1. RowOK(r, u.stored, V, B, H)
    BY <1>2
  <2> QED BY <1>0, <1>10, <2>1 DEF RowOK
<1>12. UniqueKeys(w.txs)
  BY <1>9, <1>10 DEF StreamInv, UniqueKeys
<1>13. AllThere(w.txs, B)
  <2> SUFFICES ASSUME NEW a \in B, NEW x \in TxsIn(StreamOf(a))
               PROVE  \E r \in w.txs : r.tx = x[1] /\ r.mb = x[2] /\ r.index = a
    BY DEF AllThere
  <2>1. PICK r \in u.txs : r.tx = x[1] /\ r.mb = x[2] /\ r.index = a
    BY DEF StreamInv, AllThere
  <2>2. Marked(r, b, f) \in w.txs
    BY <1>9
  <2> QED BY <1>10, <2>1, <2>2
<1>14. FlagsOK(w.flags, W)
  <2> SUFFICES ASSUME NEW m \in Microblock
               PROVE  Shows(w.flags[m]) <=> \E a \in W : m \in StreamOf(a)
    BY DEF FlagsOK
  <2>0. Shows(u.flags[m]) <=> \E a \in V : m \in StreamOf(a)
    BY DEF StreamInv, FlagsOK
  <2>1. \A a \in W : a \in B /\ (a \in V \/ a = b)
    BY <1>0, <1>1
  <2>2. \A a \in B : m \in StreamOf(a) =>
             m \in u.stored /\ Height[a] = Height[MbBase[m]] + 1
    BY <1>1, StreamBase DEF StreamInv, StoredOK
  <2>3. CASE m \in L
    <3>1. w.flags[m] = [canonical |-> f, micro |-> m \in StreamOf(b), index |-> b]
      BY <1>6, <1>7, <2>3 DEF ClaimEffect
    <3>2. Shows(w.flags[m]) <=> f /\ m \in StreamOf(b)
      <4> DEFINE g == m \in StreamOf(b)
      <4>1. g \in BOOLEAN /\ w.flags[m] = [canonical |-> f, micro |-> g, index |-> b]
        BY <3>1
      <4> HIDE DEF g
      <4>2. /\ w.flags[m].canonical = f /\ w.flags[m].micro = g
            /\ w.flags[m].index # NoBlock
        BY <1>1, <4>1
      <4> QED BY <4>2 DEF Shows, g
    <3>3. \A a \in W : m \in StreamOf(a) => a = b
      BY <1>0, <2>1, <2>2, <2>3 DEF Level
    <3> QED BY <1>0, <3>2, <3>3
  <2>4. CASE m \notin L
    <3>1. w.flags[m] = u.flags[m]
      BY <1>6, <1>7, <2>4 DEF ClaimEffect
    <3>2. m \notin StreamOf(b)
      BY <2>2, <2>4 DEF Level
    <3> QED BY <1>0, <2>0, <3>1, <3>2
  <2> QED BY <2>3, <2>4
<1>15. StoredOK(w.stored, B, H) /\ w.clash = FALSE /\ w.tip = u.tip
  BY <1>6, <1>7 DEF ClaimEffect, StreamInv
<1> QED BY <1>7, <1>11, <1>12, <1>13, <1>14, <1>15 DEF StreamInv, w, v

-----------------------------------------------------------------------------
(* New rows. *)

\* What inserting the transactions of the microblocks M as rows of block i
\* does to the table.
AddEffect(txs, T, M, f, i) ==
  /\ T \subseteq TxRow /\ IsFiniteSet(T) /\ UniqueKeys(T)
  /\ txs \subseteq T
  /\ \A r \in T : r \in txs \/ ( /\ r.mb \in M /\ r.canonical = f
                                 /\ r.micro = TRUE /\ r.index = i )
  /\ \A x \in TxsIn(M) : \E r \in T : r.tx = x[1] /\ r.mb = x[2] /\ r.index = i

LEMMA AddRows ==
  ASSUME NEW txs, txs \subseteq TxRow, IsFiniteSet(txs), UniqueKeys(txs),
         NEW M, M \subseteq Microblock, IsFiniteSet(M),
         NEW f \in BOOLEAN, NEW i \in Block \cup {NoBlock}
  PROVE  AddEffect(txs, AddTxRows(txs, TxRowsIn(M, f, i)), M, f, i)
<1> DEFINE N == TxRowsIn(M, f, i)
           T == AddTxRows(txs, N)
           row(x) == [tx |-> x[1], mb |-> x[2], canonical |-> f, micro |-> TRUE,
                      index |-> i]
<1>1. ASSUME NEW x \in TxsIn(M)
      PROVE  /\ row(x) \in TxRow /\ row(x).tx = x[1] /\ row(x).mb = x[2] /\ x[2] \in M
             /\ row(x).canonical = f /\ row(x).micro = TRUE /\ row(x).index = i
  <2>1. x[1] \in Tx /\ x[2] \in M /\ x[2] \in Microblock
    BY DEF TxsIn
  <2> QED BY <2>1 DEF TxRow
<1>2. N = {row(x) : x \in TxsIn(M)}
  BY DEF TxRowsIn
<1> HIDE DEF row
<1>3. /\ N \subseteq TxRow
      /\ \A r \in N : /\ r.mb \in M /\ r.canonical = f /\ r.micro = TRUE
                      /\ r.index = i
  BY <1>1, <1>2
<1>4. IsFiniteSet(N)
  <2> DEFINE h == [x \in TxsIn(M) |-> row(x)]
  <2>1. DOMAIN h = TxsIn(M) /\ N = {h[x] : x \in TxsIn(M)}
    BY <1>2
  <2>2. IsFiniteSet(TxsIn(M))
    BY TxsInFinite
  <2> HIDE DEF h, N
  <2> QED BY <2>1, <2>2, ImageFinite
<1> HIDE DEF N
<1> DEFINE new == {r \in N : \A q \in txs :
                     <<q.tx, q.mb, q.index>> # <<r.tx, r.mb, r.index>>}
<1>5. T = txs \cup new
  BY DEF AddTxRows
<1>6. new \subseteq N /\ IsFiniteSet(new)
  BY <1>4, FS_Subset
<1>7. T \subseteq TxRow /\ IsFiniteSet(T) /\ txs \subseteq T
  <2> HIDE DEF new, T
  <2>1. IsFiniteSet(txs \cup new)
    BY <1>6, FS_Union
  <2> QED BY <1>3, <1>5, <1>6, <2>1
<1>8. \A r \in T : r \in txs \/ r \in N
  BY <1>5, <1>6
<1>9. UniqueKeys(T)
  <2>1. SUFFICES ASSUME NEW r \in T, NEW q \in T, r.tx = q.tx, r.mb = q.mb,
                        r.index = q.index
                 PROVE  r = q
    BY DEF UniqueKeys
  <2>2. CASE r \in txs /\ q \in txs
    BY <2>1, <2>2 DEF UniqueKeys
  <2>3. CASE r \in N /\ q \in N
    BY <1>3, <2>1, <2>3, SameRow
  <2>4. r \in txs => q \notin new
    BY <2>1
  <2>5. q \in txs => r \notin new
    BY <2>1
  <2> HIDE DEF new, T
  <2> QED BY <1>5, <1>6, <2>2, <2>3, <2>4, <2>5
<1>10. ASSUME NEW x \in TxsIn(M)
       PROVE  \E r \in T : r.tx = x[1] /\ r.mb = x[2] /\ r.index = i
  <2>1. row(x) \in N /\ row(x).tx = x[1] /\ row(x).mb = x[2] /\ row(x).index = i
    BY <1>1, <1>2
  <2>2. CASE row(x) \in new
    BY <1>5, <2>1, <2>2
  <2>3. CASE row(x) \notin new
    <3>1. PICK q \in txs : <<q.tx, q.mb, q.index>> = <<row(x).tx, row(x).mb, row(x).index>>
      BY <2>1, <2>3
    <3>2. q.tx = x[1] /\ q.mb = x[2] /\ q.index = i
      BY <2>1, <3>1
    <3> QED BY <1>7, <3>2
  <2> QED BY <2>2, <2>3
<1> HIDE DEF T, new
<1> QED BY <1>3, <1>7, <1>8, <1>9, <1>10 DEF AddEffect, T, N

\* Tables that agree on what the invariant reads.
LEMMA SameTables ==
  ASSUME NEW V, NEW B, NEW H, NEW u, StreamInv(u, V, B, H), NEW v, Typed(v),
         v.stored = u.stored, v.flags = u.flags, v.txs = u.txs, v.clash = u.clash
  PROVE  StreamInv(v, V, B, H)
BY DEF StreamInv, RowsOK

\* insertMicroblocksFromBlockUpdate.
MissingEffect(u, x, b, f) ==
  /\ Typed(x)
  /\ x.stored = u.stored \cup StreamOf(b) /\ x.tip = u.tip /\ x.clash = u.clash
  /\ x.flags = [m \in Microblock |->
                  IF m \in StreamOf(b) \ u.stored
                    THEN [canonical |-> f, micro |-> TRUE, index |-> b]
                    ELSE u.flags[m]]
  /\ AddEffect(u.txs, x.txs, StreamOf(b) \ u.stored, f, b)

LEMMA Missing ==
  ASSUME NEW b \in Block, NEW u, Typed(u), UniqueKeys(u.txs), IsCanonical(b) \in BOOLEAN
  PROVE  MissingEffect(u, InsertMissing(u, b), b, IsCanonical(b))
<1> DEFINE f == IsCanonical(b)
           new == StreamOf(b) \ u.stored
           x == InsertMissing(u, b)
           stored == u.stored \cup new
           flags == [m \in Microblock |->
                       IF m \in new THEN [canonical |-> f, micro |-> TRUE, index |-> b]
                                    ELSE u.flags[m]]
           txs == AddTxRows(u.txs, TxRowsIn(new, f, b))
<1>1. x = [u EXCEPT !.stored = stored, !.flags = flags, !.txs = txs]
  BY DEF InsertMissing, MissingMicroblocks
<1>2. /\ u.stored \subseteq Microblock /\ u.flags \in [Microblock -> Flags]
      /\ u.txs \subseteq TxRow /\ IsFiniteSet(u.txs) /\ u \in MicroState
  BY TypedFields DEF Typed
<1>3. new \subseteq Microblock /\ IsFiniteSet(new) /\ StreamOf(b) \subseteq Microblock
  BY StreamFinite, FS_Subset
<1>4. f \in BOOLEAN /\ b \in Block \cup {NoBlock}
  OBVIOUS
<1> HIDE DEF f
<1>5. AddEffect(u.txs, txs, new, f, b)
  <2> HIDE DEF new
  <2> QED BY <1>2, <1>3, <1>4, AddRows
<1>6. stored \subseteq Microblock /\ stored = u.stored \cup StreamOf(b)
  BY <1>2, <1>3
<1>7. flags \in [Microblock -> Flags]
  <2>1. Unset \in Flags
    BY DEF Unset, Flags
  <2>2. [canonical |-> f, micro |-> TRUE, index |-> b] \in Flags
    BY <1>4, <2>1, PutFlags
  <2> HIDE DEF new
  <2> QED BY <1>2, <2>2
<1>8. txs \subseteq TxRow /\ IsFiniteSet(txs)
  BY <1>5 DEF AddEffect
<1> HIDE DEF stored, flags, txs, x
<1>9. /\ x \in MicroState /\ x.stored = stored /\ x.flags = flags /\ x.txs = txs
      /\ x.tip = u.tip /\ x.clash = u.clash
  BY <1>1, <1>2, <1>6, <1>7, <1>8 DEF MicroState
<1>10. Typed(x)
  BY <1>8, <1>9 DEF Typed
<1> QED BY <1>5, <1>6, <1>9, <1>10 DEF MissingEffect, x, f, flags

-----------------------------------------------------------------------------
(* The end of update(). *)

\* The rows of a block above the tip: none before it comes.
LEMMA CanonicalClaims ==
  ASSUME NEW V, NEW B, NEW H, Tree(V, B, H), NEW u, StreamInv(u, V, B, H),
         NEW b \in Block, b \notin B, NEW f \in BOOLEAN, f = TRUE,
         NEW x, MissingEffect(u, x, b, f)
  PROVE  /\ ClaimEffect(x, UpdateMicroCanonical(x, b, f), b, f)
         /\ UniqueKeys(UpdateMicroCanonical(x, b, f).txs)
<1> USE BlockAssumption
<1> DEFINE L == Level(x, b)
           S == StreamOf(b)
           new == S \ u.stored
           y == UpdateMicroCanonical(x, b, f)
<1>1. NoBlock \notin Block /\ \A r \in u.txs : RowOK(r, u.stored, V, B, H)
  BY DEF StreamInv, RowsOK
<1>2. /\ Typed(x) /\ x.stored = u.stored \cup S
      /\ AddEffect(u.txs, x.txs, new, f, b)
  BY DEF MissingEffect
<1> HIDE DEF L
<1>3. /\ \A r \in u.txs : r.mb \in u.stored /\ r.index # b
      /\ \A r \in x.txs : r \in u.txs \/ (r.mb \in new /\ r.index = b)
      /\ UniqueKeys(x.txs) /\ x.txs \subseteq TxRow
  BY <1>1, <1>2 DEF RowOK, AddEffect
<1>4. Distinct(x, L, b)
  <2>1. SUFFICES ASSUME NEW r \in x.txs, NEW q \in x.txs, r.tx = q.tx, r.mb = q.mb,
                        r.index \in {b, NoBlock}, q.index \in {b, NoBlock}
                 PROVE  r.index = q.index
    BY <1>3 DEF Distinct, UniqueKeys
  <2>2. r \in u.txs <=> q \in u.txs
    BY <1>3, <2>1
  <2> QED BY <1>3, <2>1, <2>2
<1>5. ClaimEffect(x, y, b, f)
  BY <1>2, <1>4, UpdateMicro DEF L
<1> HIDE DEF y
<1>6. y.txs = {Claimed(r, L, b, f) : r \in x.txs}
  BY <1>5 DEF ClaimEffect, L
<1> DEFINE cl(r) == Claimed(r, L, b, f)
<1>7. y.txs = {cl(r) : r \in x.txs}
  BY <1>6
<1>8. \A r \in x.txs : ClaimedFrom(cl(r), r, L, b, f)
  BY <1>3, ClaimedRow
<1> HIDE DEF cl
<1>9. ASSUME NEW r \in x.txs
      PROVE  /\ cl(r).tx = r.tx /\ cl(r).mb = r.mb
             /\ \/ r.mb \in L /\ r.index \in {b, NoBlock} /\ cl(r).index = b
                \/ cl(r) = r /\ ~(r.mb \in L /\ r.index \in {b, NoBlock})
  BY <1>8 DEF ClaimedFrom
<1>10. UniqueKeys(y.txs)
  <2>1. SUFFICES ASSUME NEW r \in x.txs, NEW q \in x.txs, cl(r).tx = cl(q).tx,
                        cl(r).mb = cl(q).mb, cl(r).index = cl(q).index
                 PROVE  r = q
    BY <1>7 DEF UniqueKeys
  <2>2. r.tx = q.tx /\ r.mb = q.mb
    BY <1>9, <2>1
  <2>3. CASE r.mb \in L /\ r.index \in {b, NoBlock}
    <3>1. q.index \in {b, NoBlock}
      BY <1>9, <2>1, <2>2, <2>3
    <3> QED BY <1>4, <2>2, <2>3, <3>1 DEF Distinct
  <2>4. CASE q.mb \in L /\ q.index \in {b, NoBlock}
    <3>1. r.index \in {b, NoBlock}
      BY <1>9, <2>1, <2>2, <2>4
    <3> QED BY <1>4, <2>2, <2>4, <3>1 DEF Distinct
  <2>5. CASE ~(r.mb \in L /\ r.index \in {b, NoBlock}) /\ ~(q.mb \in L /\ q.index \in {b, NoBlock})
    <3>1. r.index = q.index
      BY <1>9, <2>1, <2>5
    <3> QED BY <1>3, <2>2, <3>1 DEF UniqueKeys
  <2> QED BY <2>3, <2>4, <2>5
<1> QED BY <1>5, <1>10 DEF y

\* A block above the tip claims every microblock on the tip.
LEMMA CanonicalKeeps ==
  ASSUME NEW V, NEW B, NEW H, Tree(V, B, H), NEW u, StreamInv(u, V, B, H),
         NEW b \in Block, b \notin B, NEW f \in BOOLEAN, f = TRUE,
         Height[b] = H + 1,
         NEW x, MissingEffect(u, x, b, f),
         NEW y, ClaimEffect(x, y, b, f),
         NEW z, Typed(z), z.stored = y.stored, z.flags = y.flags,
         z.clash = y.clash, AddEffect(y.txs, z.txs, StreamOf(b), f, b)
  PROVE  StreamInv(z, V \cup {b}, B \cup {b}, H + 1)
<1> USE BlockAssumption
<1> DEFINE L == Level(x, b)
           S == StreamOf(b)
           new == S \ u.stored
<1>1. /\ u.stored \subseteq Microblock /\ u.txs \subseteq TxRow /\ Typed(u)
      /\ Height[b] \in Nat /\ H \in Nat
      /\ NoBlock \notin Block /\ B \subseteq Block /\ V \subseteq B
      /\ \A m \in Microblock : MbBase[m] \in Block /\ Height[MbBase[m]] \in Nat
      /\ \A a \in B : Height[a] \in Nat /\ Height[a] <= H
  BY TypedFields, MicroAssumption DEF StreamInv, Tree
<1>2. \A r \in u.txs : RowOK(r, u.stored, V, B, H)
  BY DEF StreamInv, RowsOK
<1>3. /\ Typed(x) /\ x.stored = u.stored \cup S /\ x.clash = u.clash
      /\ AddEffect(u.txs, x.txs, new, f, b)
      /\ \A m \in Microblock : m \notin new => x.flags[m] = u.flags[m]
  BY DEF MissingEffect
<1>4. /\ S \subseteq L /\ L \subseteq x.stored /\ L \subseteq Microblock
      /\ \A m \in L : Height[MbBase[m]] = H
      /\ \A m \in x.stored : Height[MbBase[m]] = H => m \in L
      /\ S \subseteq Microblock
  <2>1. S \subseteq L /\ S \subseteq Microblock
    BY <1>3, StreamInLevel, StreamFinite
  <2>2. x.stored \subseteq Microblock
    BY <1>1, <1>3, <2>1
  <2>3. \A m \in L : Height[MbBase[m]] = H
    BY <1>1, <2>2 DEF Level
  <2>4. \A m \in x.stored : Height[MbBase[m]] = H => m \in L
    BY <1>1, <2>2 DEF Level
  <2> QED BY <2>1, <2>2, <2>3, <2>4 DEF Level
<1> HIDE DEF L
\* The rows of x: old ones, not of b, and those of microblocks b brought.
<1>5. /\ \A r \in u.txs : r.mb \in u.stored /\ r.index # b
      /\ \A r \in x.txs : r \in u.txs \/ (r.mb \in new /\ r.index = b)
      /\ UniqueKeys(x.txs) /\ x.txs \subseteq TxRow /\ u.txs \subseteq x.txs
  BY <1>1, <1>2, <1>3, ZenonT(30) DEF RowOK, AddEffect
<1>8. y.txs = {Claimed(r, L, b, f) : r \in x.txs}
  BY DEF ClaimEffect, L
<1> DEFINE cl(r) == Claimed(r, L, b, f)
<1>9. y.txs = {cl(r) : r \in x.txs} /\ \A r \in x.txs : ClaimedFrom(cl(r), r, L, b, f)
  BY <1>5, <1>8, ClaimedRow
<1> HIDE DEF cl
<1>10. ASSUME NEW r \in z.txs
       PROVE  \/ /\ r.mb \in L /\ r.index = b /\ r.canonical = TRUE
                 /\ r.micro <=> r.mb \in S
              \/ r \in u.txs /\ r.index \in B /\ r.index # b /\ r.index # NoBlock
  <2>1. CASE r \in y.txs
    <3>1. PICK q \in x.txs : r = cl(q)
      BY <1>9, <2>1
    <3>2. ClaimedFrom(r, q, L, b, f)
      BY <1>9, <3>1
    <3>3. CASE q.mb \in L /\ q.index \in {b, NoBlock}
      BY <3>2, <3>3 DEF ClaimedFrom
    <3>4. CASE ~(q.mb \in L /\ q.index \in {b, NoBlock})
      <4>1. q = r /\ ~(r.mb \in L /\ r.index \in {b, NoBlock})
        BY <3>2, <3>4 DEF ClaimedFrom
      <4>2. r \in u.txs
        BY <1>4, <1>5, <4>1
      <4>3. r.index # NoBlock
        BY <1>2, <1>3, <1>4, <4>1, <4>2 DEF RowOK
      <4> QED BY <1>2, <1>5, <4>2, <4>3 DEF RowOK
    <3> QED BY <3>3, <3>4
  <2>2. CASE r \notin y.txs
    <3>1. r.mb \in S /\ r.canonical = TRUE /\ r.micro = TRUE /\ r.index = b
      BY <2>2 DEF AddEffect
    <3> QED BY <1>4, <3>1
  <2> QED BY <2>1, <2>2
<1>11. z.stored = x.stored
  BY DEF ClaimEffect
<1>12. RowsOK(z, V \cup {b}, B \cup {b}, H + 1)
  <2> SUFFICES ASSUME NEW r \in z.txs
               PROVE  RowOK(r, z.stored, V \cup {b}, B \cup {b}, H + 1)
    BY DEF RowsOK
  <2>1. CASE r.mb \in L /\ r.index = b /\ r.canonical = TRUE /\ (r.micro <=> r.mb \in S)
    BY <1>1, <1>4, <1>11, <2>1 DEF RowOK
  <2>2. CASE r \in u.txs /\ r.index \in B /\ r.index # b /\ r.index # NoBlock
    BY <1>2, <1>3, <1>11, <2>2 DEF RowOK
  <2> QED BY <1>10, <2>1, <2>2
<1>13. AllThere(z.txs, B \cup {b})
  <2> SUFFICES ASSUME NEW a \in B \cup {b}, NEW t \in TxsIn(StreamOf(a))
               PROVE  \E r \in z.txs : r.tx = t[1] /\ r.mb = t[2] /\ r.index = a
    BY DEF AllThere
  <2>1. CASE a = b
    BY <2>1 DEF AddEffect
  <2>2. CASE a # b
    <3>1. PICK r \in u.txs : r.tx = t[1] /\ r.mb = t[2] /\ r.index = a
      BY <2>2 DEF StreamInv, AllThere
    <3>2. r \in x.txs /\ Claimed(r, L, b, f) = r
      BY <1>1, <1>5, <2>2, <3>1 DEF Claimed
    <3>3. r \in z.txs
      BY <1>8, <3>2 DEF AddEffect
    <3> QED BY <3>1, <3>3
  <2> QED BY <2>1, <2>2
<1>14. FlagsOK(z.flags, V \cup {b})
  <2> SUFFICES ASSUME NEW m \in Microblock
               PROVE  Shows(z.flags[m]) <=> \E a \in V \cup {b} : m \in StreamOf(a)
    BY DEF FlagsOK
  <2>1. \A a \in V : m \in StreamOf(a) => Height[MbBase[m]] # H
    <3> SUFFICES ASSUME NEW a \in V, m \in StreamOf(a) PROVE Height[MbBase[m]] # H
      OBVIOUS
    <3>1. a \in Block /\ Height[a] <= H /\ Height[a] \in Nat
      BY <1>1
    <3>2. Height[a] = Height[MbBase[m]] + 1
      BY <3>1, StreamBase
    <3> QED BY <1>1, <3>1, <3>2
  <2>2. CASE m \in L
    <3> DEFINE g == m \in S
               t == f
    <3>1. z.flags[m] = [canonical |-> t, micro |-> g, index |-> b]
      BY <2>2 DEF ClaimEffect, L
    <3>2. g \in BOOLEAN /\ t \in BOOLEAN /\ t = TRUE
      OBVIOUS
    <3> HIDE DEF g, t
    <3>3. /\ z.flags[m].canonical = TRUE /\ z.flags[m].micro = g
          /\ z.flags[m].index # NoBlock
      BY <1>1, <3>1, <3>2
    <3>4. Shows(z.flags[m]) <=> m \in S
      BY <3>3 DEF Shows, g
    <3> QED BY <1>4, <2>1, <2>2, <3>4
  <2>3. CASE m \notin L
    <3>1. z.flags[m] = u.flags[m] /\ m \notin S
      <4>1. m \notin S
        BY <1>4, <2>3
      <4>2. y.flags[m] = x.flags[m]
        BY <2>3 DEF ClaimEffect, L
      <4> QED BY <1>3, <4>1, <4>2
    <3> QED BY <3>1 DEF StreamInv, FlagsOK
  <2> QED BY <2>2, <2>3
<1>15. StoredOK(z.stored, B \cup {b}, H + 1)
  <2>1. \A a \in B \cup {b} : StreamOf(a) \subseteq z.stored
    BY <1>3, <1>11 DEF StreamInv, StoredOK
  <2>2. ASSUME NEW m \in z.stored PROVE Height[MbBase[m]] <= H + 1
    <3>1. m \in Microblock /\ Height[MbBase[m]] \in Nat
      BY <1>1, <1>3, <1>4, <1>11
    <3>2. Height[MbBase[m]] <= H
      <4>1. CASE m \in u.stored
        BY <4>1 DEF StreamInv, StoredOK
      <4>2. CASE m \in S
        <5>1. Height[MbBase[m]] = H
          BY <1>4, <4>2
        <5> QED BY <1>1, <5>1
      <4> QED BY <1>3, <1>11, <4>1, <4>2
    <3> QED BY <1>1, <3>1, <3>2
  <2> QED BY <2>1, <2>2 DEF StoredOK
<1>16. UniqueKeys(z.txs) /\ z.clash = FALSE
  BY <1>3 DEF AddEffect, ClaimEffect, StreamInv
<1> QED BY <1>12, <1>13, <1>14, <1>15, <1>16 DEF StreamInv

\* A block that stays off the chain brings its stream along.
LEMMA OrphanKeeps ==
  ASSUME NEW V, NEW B, NEW H, Tree(V, B, H), NEW u, StreamInv(u, V, B, H),
         NEW b \in Block, b \notin B, Height[b] <= H, NEW f \in BOOLEAN, f = FALSE,
         NEW x, MissingEffect(u, x, b, f),
         NEW z, Typed(z), z.stored = x.stored, z.flags = x.flags,
         z.clash = x.clash, AddEffect(x.txs, z.txs, StreamOf(b), f, b)
  PROVE  StreamInv(z, V, B \cup {b}, H)
<1> USE BlockAssumption
<1> DEFINE S == StreamOf(b)
           new == S \ u.stored
<1>1. /\ u.stored \subseteq Microblock
      /\ Height[b] \in Nat /\ H \in Nat
      /\ NoBlock \notin Block /\ B \subseteq Block /\ V \subseteq B /\ b \notin V
      /\ \A m \in Microblock : MbBase[m] \in Block /\ Height[MbBase[m]] \in Nat
  BY TypedFields, MicroAssumption DEF StreamInv, Tree
<1>2. \A r \in u.txs : RowOK(r, u.stored, V, B, H)
  BY DEF StreamInv, RowsOK
<1>3. /\ z.stored = u.stored \cup S /\ z.clash = u.clash
      /\ AddEffect(u.txs, x.txs, new, f, b)
      /\ z.flags = [m \in Microblock |->
                      IF m \in new THEN [canonical |-> f, micro |-> TRUE, index |-> b]
                                   ELSE u.flags[m]]
  BY DEF MissingEffect
<1>4. \A m \in S : m \in Microblock /\ Height[b] = Height[MbBase[m]] + 1
  BY StreamBase
<1>5. ASSUME NEW r \in z.txs
      PROVE  \/ r \in u.txs
             \/ r.mb \in S /\ r.canonical = FALSE /\ r.micro = TRUE /\ r.index = b
  BY <1>3 DEF AddEffect
<1>6. RowsOK(z, V, B \cup {b}, H)
  <2> SUFFICES ASSUME NEW r \in z.txs PROVE RowOK(r, z.stored, V, B \cup {b}, H)
    BY DEF RowsOK
  <2>1. CASE r \in u.txs
    BY <1>2, <1>3, <2>1 DEF RowOK
  <2>2. CASE r.mb \in S /\ r.canonical = FALSE /\ r.micro = TRUE /\ r.index = b
    BY <1>1, <1>3, <1>4, <2>2 DEF RowOK
  <2> QED BY <1>5, <2>1, <2>2
<1>7. AllThere(z.txs, B \cup {b})
  <2> SUFFICES ASSUME NEW a \in B \cup {b}, NEW t \in TxsIn(StreamOf(a))
               PROVE  \E r \in z.txs : r.tx = t[1] /\ r.mb = t[2] /\ r.index = a
    BY DEF AllThere
  <2>1. CASE a = b
    BY <2>1 DEF AddEffect
  <2>2. CASE a # b
    <3>1. PICK r \in u.txs : r.tx = t[1] /\ r.mb = t[2] /\ r.index = a
      BY <2>2 DEF StreamInv, AllThere
    <3>2. r \in z.txs
      BY <1>3, <3>1 DEF AddEffect
    <3> QED BY <3>1, <3>2
  <2> QED BY <2>1, <2>2
<1>8. FlagsOK(z.flags, V)
  <2> SUFFICES ASSUME NEW m \in Microblock
               PROVE  Shows(z.flags[m]) <=> \E a \in V : m \in StreamOf(a)
    BY DEF FlagsOK
  <2>1. CASE m \in new
    <3>1. z.flags[m] = [canonical |-> f, micro |-> TRUE, index |-> b]
      BY <1>3, <2>1
    <3>2. ~Shows(z.flags[m])
      BY <3>1 DEF Shows
    <3>3. \A a \in V : m \notin StreamOf(a)
      BY <1>1, <2>1 DEF StreamInv, StoredOK
    <3> QED BY <3>2, <3>3
  <2>2. CASE m \notin new
    <3>1. z.flags[m] = u.flags[m]
      BY <1>3, <2>2
    <3> QED BY <3>1 DEF StreamInv, FlagsOK
  <2> QED BY <2>1, <2>2
<1>9. StoredOK(z.stored, B \cup {b}, H)
  <2>1. \A a \in B \cup {b} : StreamOf(a) \subseteq z.stored
    BY <1>3 DEF StreamInv, StoredOK
  <2>2. ASSUME NEW m \in z.stored PROVE Height[MbBase[m]] <= H
    <3>1. CASE m \in u.stored
      BY <3>1 DEF StreamInv, StoredOK
    <3>2. CASE m \in S
      <4>1. Height[MbBase[m]] \in Nat /\ Height[b] = Height[MbBase[m]] + 1
        BY <1>1, <1>4, <3>2
      <4> QED BY <1>1, <4>1
    <3> QED BY <1>3, <3>1, <3>2
  <2> QED BY <2>1, <2>2 DEF StoredOK
<1>10. UniqueKeys(z.txs) /\ z.clash = FALSE
  BY <1>3 DEF AddEffect, StreamInv
<1> QED BY <1>6, <1>7, <1>8, <1>9, <1>10 DEF StreamInv

\* A block delivered again brings nothing.
LEMMA AgainKeeps ==
  ASSUME NEW V, NEW B, NEW H, Tree(V, B, H), NEW u, StreamInv(u, V, B, H),
         NEW b \in B, NEW f, NEW x, MissingEffect(u, x, b, f)
  PROVE  StreamInv(x, V, B, H)
<1>1. StreamOf(b) \ u.stored = {} /\ u.stored \cup StreamOf(b) = u.stored
  BY DEF StreamInv, StoredOK
<1>2. u.flags \in [Microblock -> Flags]
  BY TypedFields DEF StreamInv
<1>3. Typed(x) /\ x.stored = u.stored /\ x.clash = u.clash /\ x.flags = u.flags
  BY <1>1, <1>2 DEF MissingEffect
<1>4. x.txs = u.txs
  BY <1>1 DEF MissingEffect, AddEffect
<1> QED BY <1>3, <1>4, SameTables

-----------------------------------------------------------------------------
(* updateMicroblocksInternal. *)

\* A message on the tip of the chain brings rows no block has claimed.
LEMMA MessageInserts ==
  ASSUME NEW s \in Batch, NEW u, Typed(u), UniqueKeys(u.txs)
  PROVE  LET x == InsertMicroblockData(u, s)
             new == NewPrefix(u, s)
         IN /\ Typed(x) /\ UniqueKeys(x.txs)
            /\ new \subseteq AsSet(s) \ u.stored
            /\ x.stored = u.stored \cup new /\ x.tip = u.tip /\ x.clash = u.clash
            /\ x.flags = [m \in Microblock |->
                            IF m \in new THEN [canonical |-> TRUE, micro |-> TRUE,
                                               index |-> NoBlock]
                                         ELSE u.flags[m]]
            /\ u.txs \subseteq x.txs
            /\ \A r \in x.txs : r \in u.txs \/ (r.mb \in new /\ r.index = NoBlock)
<1> DEFINE new == NewPrefix(u, s)
           x == InsertMicroblockData(u, s)
           stored == u.stored \cup new
           t == TRUE
           flags == [m \in Microblock |->
                       IF m \in new THEN [canonical |-> t, micro |-> t, index |-> NoBlock]
                                    ELSE u.flags[m]]
           added == AddTxRows(u.txs, TxRowsIn(new, t, NoBlock))
           txs == IF new = AsSet(s) THEN added ELSE u.txs
<1>1. x = [u EXCEPT !.stored = stored, !.flags = flags, !.txs = txs]
  BY DEF InsertMicroblockData
<1>2. /\ u.stored \subseteq Microblock /\ u.flags \in [Microblock -> Flags]
      /\ u.txs \subseteq TxRow /\ IsFiniteSet(u.txs) /\ u \in MicroState
  BY TypedFields DEF Typed
<1>3. s \in Seq(Microblock)
  BY MicroAssumption
<1>4. AsSet(s) \subseteq Microblock /\ IsFiniteSet(AsSet(s))
  <2>1. DOMAIN s = 1 .. Len(s) /\ Len(s) \in Nat /\ \A j \in DOMAIN s : s[j] \in Microblock
    BY <1>3
  <2>2. IsFiniteSet(DOMAIN s)
    BY <2>1, FS_Interval
  <2>3. IsFiniteSet({s[j] : j \in DOMAIN s})
    BY <2>2, ImageFinite
  <2> QED BY <2>1, <2>3 DEF AsSet
<1>5. new \subseteq AsSet(s) \ u.stored
  <2>1. ASSUME NEW j \in DOMAIN s, \A k \in 1 .. j : s[k] \notin u.stored
        PROVE  s[j] \notin u.stored
    <3>1. j \in 1 .. j
      BY <1>3
    <3> QED BY <2>1, <3>1
  <2> QED BY <2>1 DEF NewPrefix, AsSet
<1>6. new \subseteq Microblock /\ IsFiniteSet(new)
  BY <1>4, <1>5, FS_Subset
<1>7. t \in BOOLEAN /\ NoBlock \in Block \cup {NoBlock}
  OBVIOUS
<1> HIDE DEF t, new
<1>8. AddEffect(u.txs, added, new, t, NoBlock)
  BY <1>2, <1>6, <1>7, AddRows
<1> HIDE DEF added
<1>9. /\ txs \subseteq TxRow /\ IsFiniteSet(txs) /\ UniqueKeys(txs)
      /\ u.txs \subseteq txs
      /\ \A r \in txs : r \in u.txs \/ (r.mb \in new /\ r.index = NoBlock)
  BY <1>2, <1>8 DEF AddEffect
<1>10. flags \in [Microblock -> Flags]
  <2>1. Unset \in Flags
    BY DEF Unset, Flags
  <2>2. [canonical |-> t, micro |-> t, index |-> NoBlock] \in Flags
    BY <1>7, <2>1, PutFlags
  <2> QED BY <1>2, <2>2
<1>11. stored \subseteq Microblock
  BY <1>2, <1>6
<1> HIDE DEF stored, flags, txs, x
<1>12. /\ x \in MicroState /\ x.stored = stored /\ x.flags = flags /\ x.txs = txs
       /\ x.tip = u.tip /\ x.clash = u.clash
  BY <1>1, <1>2, <1>9, <1>10, <1>11 DEF MicroState
<1>13. Typed(x)
  BY <1>9, <1>12 DEF Typed
<1> QED BY <1>5, <1>9, <1>12, <1>13 DEF x, new, flags, stored, t

LEMMA MessageKeeps ==
  ASSUME NEW V, NEW B, NEW H, Tree(V, B, H), NEW u, StreamInv(u, V, B, H),
         NEW s \in Batch, \A m \in AsSet(s) : Height[MbBase[m]] = H,
         NEW x, x = InsertMicroblockData(u, s),
         NEW M, M \subseteq x.stored, \A m \in M : Height[MbBase[m]] = H,
         NEW y, y = HandleMicroReorg(x, M, TRUE, FALSE, NoBlock)
  PROVE  StreamInv(y, V, B, H)
<1> USE BlockAssumption
<1> DEFINE new == NewPrefix(u, s)
           t == TRUE
           f == FALSE
<1>1. /\ Typed(x) /\ UniqueKeys(x.txs)
      /\ new \subseteq AsSet(s) \ u.stored
      /\ x.stored = u.stored \cup new /\ x.clash = u.clash
      /\ x.flags = [m \in Microblock |->
                      IF m \in new THEN [canonical |-> TRUE, micro |-> TRUE,
                                         index |-> NoBlock]
                                   ELSE u.flags[m]]
      /\ u.txs \subseteq x.txs
      /\ \A r \in x.txs : r \in u.txs \/ (r.mb \in new /\ r.index = NoBlock)
  BY MessageInserts DEF StreamInv
<1>2. /\ x.stored \subseteq Microblock /\ x.txs \subseteq TxRow
      /\ H \in Nat /\ NoBlock \notin Block /\ B \subseteq Block /\ V \subseteq B
      /\ \A m \in Microblock : MbBase[m] \in Block /\ Height[MbBase[m]] \in Nat
      /\ \A a \in B : Height[a] \in Nat /\ Height[a] <= H
  BY <1>1, TypedFields, MicroAssumption DEF Tree
<1>3. Distinct(x, M, NoBlock)
  BY <1>1 DEF Distinct, UniqueKeys
<1>4. t \in BOOLEAN /\ f \in BOOLEAN /\ NoBlock \in Block \cup {NoBlock}
      /\ M \subseteq Microblock /\ y = HandleMicroReorg(x, M, t, f, NoBlock)
  BY <1>2
<1> HIDE DEF t, f, new
<1>5. ReorgEffect(x, y, M, t, f, NoBlock)
  <2>1. ReorgEffect(x, HandleMicroReorg(x, M, t, f, NoBlock), M, t, f, NoBlock)
    BY <1>1, <1>3, <1>4, HandleReorg
  <2> QED BY <1>4, <2>1
<1> DEFINE re(r) == Reorged(r, M, t, f, NoBlock)
<1>6. y.txs = {re(r) : r \in x.txs}
  BY <1>5 DEF ReorgEffect
<1>7. ASSUME NEW r \in x.txs
      PROVE  /\ re(r).tx = r.tx /\ re(r).mb = r.mb /\ re(r).index = r.index
             /\ r.index # NoBlock => re(r) = r
  <2>1. CASE r.mb \in M /\ r.index = NoBlock
    <3>1. re(r) = Put(r, t, f, NoBlock) /\ r \in TxRow
      BY <1>2, <2>1 DEF Reorged
    <3> HIDE DEF re
    <3> QED BY <1>4, <2>1, <3>1, PutRow
  <2>2. CASE ~(r.mb \in M /\ r.index = NoBlock)
    BY <1>2, <1>5, <2>2 DEF Reorged
  <2> QED BY <2>1, <2>2
<1> HIDE DEF re
<1>8. y.stored = x.stored /\ y.clash = FALSE /\ Typed(y)
  BY <1>1, <1>5 DEF ReorgEffect, StreamInv
<1>9. StoredOK(y.stored, B, H)
  <2>1. StoredOK(u.stored, B, H)
    BY DEF StreamInv
  <2>2. \A m \in new : Height[MbBase[m]] <= H
    BY <1>1, <1>2
  <2> QED BY <1>1, <1>8, <2>1, <2>2 DEF StoredOK
<1>10. RowsOK(y, V, B, H)
  <2> SUFFICES ASSUME NEW r \in x.txs PROVE RowOK(re(r), x.stored, V, B, H)
    BY <1>6, <1>8, ZenonT(30) DEF RowsOK
  <2>1. CASE r \in u.txs
    <3>1. RowOK(r, u.stored, V, B, H)
      BY <2>1 DEF StreamInv, RowsOK
    <3> QED BY <1>1, <1>7, <3>1 DEF RowOK
  <2>2. CASE r.mb \in new /\ r.index = NoBlock
    BY <1>1, <1>7, <2>2 DEF RowOK
  <2> QED BY <1>1, <2>1, <2>2
<1>11. UniqueKeys(y.txs)
  <2>1. SUFFICES ASSUME NEW a \in y.txs, NEW c \in y.txs, a.tx = c.tx, a.mb = c.mb,
                        a.index = c.index
                 PROVE  a = c
    BY DEF UniqueKeys
  <2>2. PICK r \in x.txs : a = re(r)
    BY <1>6
  <2>3. PICK q \in x.txs : c = re(q)
    BY <1>6
  <2>4. r.tx = q.tx /\ r.mb = q.mb /\ r.index = q.index
    BY <1>7, <2>1, <2>2, <2>3
  <2>5. r = q
    BY <1>1, <2>4 DEF UniqueKeys
  <2> QED BY <2>2, <2>3, <2>5
<1>12. AllThere(y.txs, B)
  <2> SUFFICES ASSUME NEW a \in B, NEW d \in TxsIn(StreamOf(a))
               PROVE  \E r \in y.txs : r.tx = d[1] /\ r.mb = d[2] /\ r.index = a
    BY DEF AllThere
  <2>1. PICK r \in u.txs : r.tx = d[1] /\ r.mb = d[2] /\ r.index = a
    BY DEF StreamInv, AllThere
  <2>2. re(r) \in y.txs /\ re(r).tx = d[1] /\ re(r).mb = d[2] /\ re(r).index = a
    BY <1>1, <1>6, <1>7, <2>1
  <2> QED BY <2>2
<1>13. FlagsOK(y.flags, V)
  <2> SUFFICES ASSUME NEW m \in Microblock
               PROVE  Shows(y.flags[m]) <=> \E a \in V : m \in StreamOf(a)
    BY DEF FlagsOK
  <2>1. Height[MbBase[m]] = H => \A a \in V : m \notin StreamOf(a)
    <3> SUFFICES ASSUME NEW a \in V, m \in StreamOf(a) PROVE Height[MbBase[m]] # H
      OBVIOUS
    <3>1. a \in Block /\ Height[a] <= H /\ Height[a] \in Nat
      BY <1>2
    <3>2. Height[a] = Height[MbBase[m]] + 1
      BY <3>1, StreamBase
    <3> QED BY <1>2, <3>1, <3>2
  <2>4. y.flags[m] = IF m \in M THEN [canonical |-> t, micro |-> f, index |-> NoBlock]
                                ELSE x.flags[m]
    BY <1>5 DEF ReorgEffect
  <2>5. x.flags[m] = IF m \in new THEN [canonical |-> TRUE, micro |-> TRUE,
                                        index |-> NoBlock]
                                  ELSE u.flags[m]
    BY <1>1
  <2>2. CASE m \in M \/ m \in new
    <3>1. y.flags[m].index = NoBlock
      <4>1. [canonical |-> t, micro |-> f, index |-> NoBlock].index = NoBlock
        OBVIOUS
      <4>2. [canonical |-> TRUE, micro |-> TRUE, index |-> NoBlock].index = NoBlock
        OBVIOUS
      <4>3. CASE m \in M
        BY <2>4, <4>1, <4>3
      <4>4. CASE m \notin M
        BY <2>2, <2>4, <2>5, <4>2, <4>4
      <4> QED BY <4>3, <4>4
    <3>2. Height[MbBase[m]] = H
      BY <1>1, <2>2
    <3> QED BY <2>1, <3>1, <3>2 DEF Shows
  <2>3. CASE m \notin M /\ m \notin new
    <3>1. y.flags[m] = u.flags[m]
      BY <2>3, <2>4, <2>5
    <3> QED BY <3>1 DEF StreamInv, FlagsOK
  <2> QED BY <2>2, <2>3
<1> QED BY <1>8, <1>9, <1>10, <1>11, <1>12, <1>13 DEF StreamInv

-----------------------------------------------------------------------------
(* The counters and balances of update(). *)

LEMMA ReorgBalancesTyped ==
  ASSUME NEW u, u.applied \in [Tx -> Int], IsFiniteSet(u.txs), NEW M
  PROVE  MicroblockReorgBalances(u, M) \in [Tx -> Int]
<1> DEFINE on(t) == {r \in u.txs : r.mb \in M /\ r.tx = t /\ r.canonical /\ r.micro}
           off(t) == {r \in u.txs : r.mb \in M /\ r.tx = t} \ on(t)
<1>1. \A t \in Tx : on(t) \subseteq u.txs /\ off(t) \subseteq u.txs
  OBVIOUS
<1>2. MicroblockReorgBalances(u, M)
        = [t \in Tx |-> (u.applied[t] + Cardinality(on(t))) - Cardinality(off(t))]
  BY DEF MicroblockReorgBalances
<1> HIDE DEF on, off
<1>3. \A t \in Tx : Cardinality(on(t)) \in Nat /\ Cardinality(off(t)) \in Nat
  BY <1>1, FS_Subset, FS_CardinalityType
<1> QED BY <1>2, <1>3

LEMMA BlockBalancesTyped ==
  ASSUME NEW u, u.applied \in [Tx -> Int], NEW b \in Block
  PROVE  BlockBalances(u, b) \in [Tx -> Int] /\ StreamSize(b) \in Nat
<1> DEFINE of(t) == {r \in TxsIn(StreamOf(b)) : r[1] = t}
<1>1. IsFiniteSet(TxsIn(StreamOf(b))) /\ Cardinality(TxsIn(StreamOf(b))) \in Nat
  BY StreamFinite, TxsInFinite
<1>2. BlockBalances(u, b) = [t \in Tx |-> u.applied[t] + Cardinality(of(t))]
  BY DEF BlockBalances
<1>3. \A t \in Tx : of(t) \subseteq TxsIn(StreamOf(b))
  OBVIOUS
<1> HIDE DEF of
<1>4. \A t \in Tx : Cardinality(of(t)) \in Nat
  BY <1>1, <1>3, FS_Subset, FS_CardinalityType
<1> QED BY <1>1, <1>2, <1>4 DEF StreamSize

\* What the rest of update() does after a canonical block claimed its stream.
LEMMA AfterCanonical ==
  ASSUME NEW b \in Block, IsCanonical(b), b \notin blocks,
         NEW y, y = ClaimStream(b), Typed(y), UniqueKeys(y.txs)
  PROVE  LET z == MicroAfterBlock(b)
         IN /\ Typed(z) /\ z.stored = y.stored /\ z.flags = y.flags
            /\ z.clash = y.clash /\ z.tip = NoMicro
            /\ AddEffect(y.txs, z.txs, StreamOf(b), IsCanonical(b), b)
<1> DEFINE f == IsCanonical(b)
           txs == AddTxRows(y.txs, TxRowsIn(StreamOf(b), f, b))
           u == [y EXCEPT !.txs = txs]
           bal == BlockBalances(u, b)
           c == [y EXCEPT !.applied = bal]
           counted == MicroblockReorgBalances(c, reorged)
           z == MicroAfterBlock(b)
           sum == u.anchored + StreamSize(b)
<1>1. /\ u = InsertStreamTxs(y, b)
      /\ z = [u EXCEPT !.applied = counted, !.tip = NoMicro, !.anchored = sum,
                       !.unanchored = 0]
  BY DEF MicroAfterBlock, InsertStreamTxs
<1>2. /\ y \in MicroState /\ y.txs \subseteq TxRow /\ IsFiniteSet(y.txs)
      /\ y.applied \in [Tx -> Int] /\ y.anchored \in Int
  BY TypedFields DEF Typed
<1>3. f \in BOOLEAN /\ b \in Block \cup {NoBlock}
  BY DEF IsCanonical
<1>4. StreamOf(b) \subseteq Microblock /\ IsFiniteSet(StreamOf(b))
  BY StreamFinite
<1> HIDE DEF f
<1>5. AddEffect(y.txs, txs, StreamOf(b), f, b)
  BY <1>2, <1>3, <1>4, AddRows
<1>6. txs \subseteq TxRow /\ IsFiniteSet(txs)
  BY <1>5 DEF AddEffect
<1> HIDE DEF txs
<1>7. /\ u \in MicroState /\ u.txs = txs /\ u.applied = y.applied
      /\ u.anchored = y.anchored /\ u.stored = y.stored /\ u.flags = y.flags
      /\ u.clash = y.clash
  BY <1>2, <1>6 DEF MicroState
<1> HIDE DEF u
<1>8. bal \in [Tx -> Int] /\ StreamSize(b) \in Nat
  BY <1>2, <1>7, BlockBalancesTyped
<1> HIDE DEF bal
<1>9. c.applied \in [Tx -> Int] /\ c.txs = y.txs
  BY <1>2, <1>8 DEF MicroState
<1> HIDE DEF c
<1>10. counted \in [Tx -> Int]
  BY <1>2, <1>9, ReorgBalancesTyped
<1>11. sum \in Int
  BY <1>2, <1>7, <1>8
<1> HIDE DEF counted, sum, z
<1>12. /\ z \in MicroState /\ z.stored = u.stored /\ z.flags = u.flags
       /\ z.txs = u.txs /\ z.clash = u.clash /\ z.tip = NoMicro
  <2> DEFINE none == NoMicro
             zero == 0
  <2>1. z = [u EXCEPT !.applied = counted, !.tip = none, !.anchored = sum,
                      !.unanchored = zero]
    BY <1>1
  <2>2. u \in MicroState /\ none \in Microblock \cup {NoMicro} /\ zero \in Int
    BY <1>7
  <2>3. none = NoMicro
    OBVIOUS
  <2> HIDE DEF none, zero
  <2>4. z \in MicroState
    BY <1>10, <1>11, <2>1, <2>2 DEF MicroState
  <2>5. /\ z.stored = u.stored /\ z.flags = u.flags
        /\ z.txs = u.txs /\ z.clash = u.clash /\ z.tip = none
    BY <2>1, <2>2 DEF MicroState
  <2> QED BY <2>3, <2>4, <2>5
<1>13. Typed(z)
  BY <1>6, <1>7, <1>12 DEF Typed
<1> QED BY <1>5, <1>7, <1>12, <1>13 DEF f, z

LEMMA AfterOrphan ==
  ASSUME NEW b \in Block, ~IsCanonical(b), NEW y, y = ClaimStream(b), Typed(y),
         UniqueKeys(y.txs)
  PROVE  LET z == MicroAfterBlock(b)
         IN /\ Typed(z) /\ z.stored = y.stored /\ z.flags = y.flags
            /\ z.clash = y.clash /\ z.tip = y.tip
            /\ b \in blocks => z.txs = y.txs
            /\ b \notin blocks =>
                 AddEffect(y.txs, z.txs, StreamOf(b), IsCanonical(b), b)
<1> DEFINE f == IsCanonical(b)
           added == AddTxRows(y.txs, TxRowsIn(StreamOf(b), f, b))
           txs == IF b \in blocks THEN y.txs ELSE added
           u == [y EXCEPT !.txs = txs]
           applied == u.applied
           z == MicroAfterBlock(b)
<1>1. z = [u EXCEPT !.applied = applied]
  BY DEF MicroAfterBlock, InsertStreamTxs
<1>2. y \in MicroState /\ y.txs \subseteq TxRow /\ IsFiniteSet(y.txs)
  BY TypedFields DEF Typed
<1>3. f \in BOOLEAN /\ b \in Block \cup {NoBlock}
  BY DEF IsCanonical
<1>4. StreamOf(b) \subseteq Microblock /\ IsFiniteSet(StreamOf(b))
  BY StreamFinite
<1> HIDE DEF f
<1>5. AddEffect(y.txs, added, StreamOf(b), f, b)
  BY <1>2, <1>3, <1>4, AddRows
<1> HIDE DEF added
<1>6. txs \subseteq TxRow /\ IsFiniteSet(txs)
  BY <1>2, <1>5 DEF AddEffect
<1>7. /\ b \in blocks => txs = y.txs
      /\ b \notin blocks => AddEffect(y.txs, txs, StreamOf(b), f, b)
  BY <1>5
<1> HIDE DEF txs
<1>8. /\ u \in MicroState /\ u.txs = txs /\ u.stored = y.stored
      /\ u.flags = y.flags /\ u.clash = y.clash /\ u.tip = y.tip
  BY <1>2, <1>6 DEF MicroState
<1> HIDE DEF u, z
<1>9. /\ z \in MicroState /\ z.stored = u.stored /\ z.flags = u.flags
      /\ z.txs = u.txs /\ z.clash = u.clash /\ z.tip = u.tip
  BY <1>1, <1>8 DEF MicroState
<1>10. Typed(z)
  BY <1>6, <1>8, <1>9 DEF Typed
<1> QED BY <1>7, <1>8, <1>9, <1>10 DEF f, z

-----------------------------------------------------------------------------
(* The inductive invariant. *)

\* The committed tables and those of the open transaction, each with the
\* canonical blocks it sees.
TablesInv ==
  /\ StreamInv(micro, canonical, blocks, tip.height)
  /\ StreamInv(microWork, work.canonical, blocks, tip.height)

\* The unanchored half of chain_tip.
MicroTipInv ==
  /\ tip.block # NoBlock => Height[tip.block] = tip.height
  /\ micro.tip # NoMicro => MbBase[micro.tip] = tip.block
  /\ microWork.tip = micro.tip

MicroInv == ChainInv /\ TablesInv /\ MicroTipInv /\ reorged \subseteq Microblock

LEMMA Trees ==
  ASSUME ChainInv
  PROVE  /\ Tree(canonical, blocks, tip.height)
         /\ Tree(work.canonical, blocks, tip.height)
BY DEF ChainInv, TypeInv, TypeOK, StoredInv, Tree

LEMMA MicroStart == UInit => MicroInv
<1> SUFFICES ASSUME UInit PROVE MicroInv
  OBVIOUS
<1>1. ChainInv
  BY ChainStart DEF UInit
<1>2. blocks = {} /\ canonical = {} /\ work.canonical = {} /\ tip.height = 0
      /\ tip.block = NoBlock /\ microWork = micro /\ reorged = {}
  BY DEF UInit, Init, Committed
<1>3. Unset \in Flags
  BY DEF Unset, Flags
<1>4. /\ micro.stored = {} /\ micro.txs = {} /\ micro.clash = FALSE
      /\ micro.tip = NoMicro /\ micro.flags = [m \in Microblock |-> Unset]
      /\ micro \in MicroState
  <2> HIDE DEF Unset
  <2> QED BY <1>3 DEF UInit, MicroState
<1>5. Typed(micro)
  BY <1>4, FS_EmptySet DEF Typed
<1>6. FlagsOK(micro.flags, {})
  BY <1>4 DEF FlagsOK, Shows, Unset
<1>7. StreamInv(micro, {}, {}, 0)
  BY <1>4, <1>5, <1>6 DEF StreamInv, StoredOK, RowsOK, UniqueKeys, AllThere
<1> QED BY <1>1, <1>2, <1>4, <1>7 DEF MicroInv, TablesInv, MicroTipInv

\* A level of the re-org hands the microblocks from one block to the other.
LEMMA RestoreMicro ==
  ASSUME MicroInv, URestoreOrphanedChain
  PROVE  MicroInv'
<1> USE BlockAssumption
<1> DEFINE c == job.cursor
           orphans == OrphanedBy(c)
           V == work.canonical
           d == MicroWithout(microWork, orphans)
           p == MarkMicroTxs(UpdateMicroCanonical(d, c, TRUE), c, TRUE)
<1>1. /\ RestoreOrphanedChain /\ UNCHANGED micro /\ microWork' = p
      /\ reorged' = (reorged \cup Accepted(StreamTip[c]))
                      \cup Orphaned(d, Parent[c], Height[c], StreamTip[c])
  BY DEF URestoreOrphanedChain
<1>2. ChainInv'
  BY <1>1, RestoreChain DEF MicroInv
<1>3. /\ job.phase = "restore" /\ c \in blocks \ V
      /\ work'.canonical = (V \cup {c}) \ orphans
      /\ UNCHANGED dbVars
  BY <1>1 DEF RestoreOrphanedChain
<1>4. /\ Tree(V, blocks, tip.height) /\ StreamInv(microWork, V, blocks, tip.height)
      /\ ChainInv
  BY Trees DEF MicroInv, TablesInv
<1>5. \A x, y \in V : Height[x] = Height[y] => x = y
  BY <1>3, <1>4 DEF ChainInv, JobInv, PartialChain
<1>6. StreamInv(d, V \ orphans, blocks, tip.height) /\ d.tip = microWork.tip
  <2>1. CASE orphans = {}
    <3>1. d = microWork /\ V \ orphans = V
      BY <2>1 DEF MicroWithout
    <3> QED BY <1>4, <3>1
  <2>2. ASSUME NEW o \in V, orphans = {o}
        PROVE  StreamInv(d, V \ orphans, blocks, tip.height) /\ d.tip = microWork.tip
    <3> DEFINE f == FALSE
    <3>1. d = MarkMicroTxs(UpdateMicroCanonical(microWork, o, f), o, f)
      BY <2>2 DEF MicroWithout
    <3>2. o \in blocks /\ f \in BOOLEAN /\ Turned(V, V \ {o}, o, f)
      BY <1>4, <1>5 DEF Tree, Turned
    <3> HIDE DEF f, V, d
    <3> DEFINE w == MarkMicroTxs(UpdateMicroCanonical(microWork, o, f), o, f)
    <3>3. /\ StreamInv(w, V \ {o}, blocks, tip.height)
          /\ w.tip = microWork.tip
      BY <1>4, <3>2, LevelKeeps
    <3>4. d = w
      BY <3>1
    <3> HIDE DEF w
    <3> QED BY <2>2, <3>3, <3>4
  <2> QED BY <1>3, <1>4, <2>1, <2>2, OneOrphan
<1>7. StreamInv(p, (V \ orphans) \cup {c}, blocks, tip.height) /\ p.tip = d.tip
  <2> DEFINE f == TRUE
             U == V \ orphans
  <2>1. Tree(U, blocks, tip.height)
    BY <1>4 DEF Tree
  <2>2. f \in BOOLEAN /\ p = MarkMicroTxs(UpdateMicroCanonical(d, c, f), c, f)
    OBVIOUS
  <2>3. c \in blocks /\ Turned(U, U \cup {c}, c, f)
    BY <1>3 DEF OrphanedBy, Turned
  <2>4. StreamInv(d, U, blocks, tip.height)
    BY <1>6
  <2> HIDE DEF f, U, d, p, c
  <2> DEFINE w == MarkMicroTxs(UpdateMicroCanonical(d, c, f), c, f)
  <2>5. /\ StreamInv(w, U \cup {c}, blocks, tip.height)
        /\ w.tip = d.tip
    BY <2>1, <2>2, <2>3, <2>4, LevelKeeps
  <2>6. p = w
    BY <2>2
  <2> HIDE DEF w
  <2> QED BY <2>5, <2>6 DEF U
<1>8. (V \ orphans) \cup {c} = (V \cup {c}) \ orphans
  BY <1>3 DEF OrphanedBy
<1>9. reorged' \subseteq Microblock
  <2>1. Accepted(StreamTip[c]) \subseteq Microblock
    BY <1>3, <1>4, AcceptedIsStream, StreamFinite DEF Tree
  <2>2. d.stored \subseteq Microblock
    BY <1>6, TypedFields DEF StreamInv
  <2> HIDE DEF d, c
  <2>3. Orphaned(d, Parent[c], Height[c], StreamTip[c]) \subseteq Microblock
    BY <2>2 DEF Orphaned, Candidates
  <2> QED BY <1>1, <2>1, <2>3 DEF MicroInv
<1>10. canonical' = canonical /\ blocks' = blocks /\ tip' = tip
  BY <1>3 DEF dbVars
<1> HIDE DEF p, d, c, V
<1>11. TablesInv'
  BY <1>1, <1>3, <1>7, <1>8, <1>10 DEF TablesInv, MicroInv
<1>12. MicroTipInv'
  BY <1>1, <1>6, <1>7, <1>10 DEF MicroTipInv, MicroInv
<1> QED BY <1>2, <1>9, <1>11, <1>12 DEF MicroInv

\* The end of update().
LEMMA CommitMicro ==
  ASSUME MicroInv, UCommitUpdate
  PROVE  MicroInv'
<1> USE BlockAssumption
<1> DEFINE b == job.block
           f == IsCanonical(b)
           H == tip.height
           V == work.canonical
           B == blocks
           u == microWork
           x == InsertMissing(u, b)
           y == ClaimStream(b)
           z == MicroAfterBlock(b)
<1>1. CommitUpdate /\ micro' = z /\ microWork' = z /\ reorged' = {}
  BY DEF UCommitUpdate
<1>2. ChainInv'
  BY <1>1, CommitChain DEF MicroInv
<1>3. /\ job.phase = "insert" /\ blocks' = blocks \cup {b}
      /\ canonical' = NewCanonical(b) /\ tip' = NewTip(b)
      /\ work'.canonical = NewCanonical(b)
  BY <1>1 DEF CommitUpdate
<1>4. /\ b \in Block /\ Height[b] \in Nat /\ tip.height \in Nat
      /\ Height[b] > 1 => Parent[b] \in blocks
      /\ f \in BOOLEAN /\ TypeInv /\ StoredInv
      /\ tip \in [block : Block \cup {NoBlock}, height : Nat, tx_count : Int]
  BY <1>3 DEF MicroInv, ChainInv, JobInv, TypeInv, TypeOK, IsCanonical
<1>5. Tree(V, B, H) /\ StreamInv(u, V, B, H)
  BY Trees DEF MicroInv, TablesInv
<1>6. MissingEffect(u, x, b, f)
  BY <1>4, <1>5, Missing DEF StreamInv
<1>7. CASE f
  <2>1. Height[b] = H + 1 /\ b \notin B
    BY <1>4, <1>7, AboveTip
  <2>2. f = TRUE /\ f \in BOOLEAN
    BY <1>4, <1>7
  <2>3. y = UpdateMicroCanonical(x, b, f)
    BY <1>7, <2>2 DEF ClaimStream
  <2>4. ClaimEffect(x, y, b, f) /\ UniqueKeys(y.txs)
    <3> HIDE DEF f, x, y, V, B, H, u, b
    <3>1. /\ ClaimEffect(x, UpdateMicroCanonical(x, b, f), b, f)
          /\ UniqueKeys(UpdateMicroCanonical(x, b, f).txs)
      BY <1>4, <1>5, <1>6, <2>1, <2>2, CanonicalClaims
    <3> QED BY <2>3, <3>1
  <2>5. Typed(y)
    BY <2>4 DEF ClaimEffect
  <2>6. /\ Typed(z) /\ z.stored = y.stored /\ z.flags = y.flags
        /\ z.clash = y.clash /\ z.tip = NoMicro
        /\ AddEffect(y.txs, z.txs, StreamOf(b), f, b)
    BY <1>4, <1>7, <2>1, <2>4, <2>5, AfterCanonical
  <2>7. StreamInv(z, V \cup {b}, B \cup {b}, H + 1)
    <3> HIDE DEF f, x, y, z, V, B, H, u, b
    <3> QED BY <1>4, <1>5, <1>6, <2>1, <2>2, <2>4, <2>6, CanonicalKeeps
  <2>8. NewCanonical(b) = V \cup {b} /\ tip'.height = H + 1 /\ tip'.block = b
    BY <1>3, <1>4, <1>7, <2>1 DEF NewCanonical, NewTip
  <2> HIDE DEF z, b, V, B, H
  <2>9. TablesInv'
    BY <1>1, <1>3, <2>7, <2>8 DEF TablesInv, B
  <2>10. MicroTipInv'
    BY <1>1, <2>1, <2>6, <2>8 DEF MicroTipInv
  <2> QED BY <1>1, <1>2, <2>9, <2>10 DEF MicroInv
<1>8. CASE ~f
  <2>1. Height[b] <= H
    BY <1>4, <1>8 DEF IsCanonical
  <2>2. f = FALSE /\ f \in BOOLEAN
    BY <1>4, <1>8
  <2>3. y = x
    BY <1>8 DEF ClaimStream
  <2>4. Typed(y) /\ UniqueKeys(y.txs) /\ y.tip = u.tip
    BY <1>6, <2>3 DEF MissingEffect, AddEffect
  <2>5. /\ Typed(z) /\ z.stored = y.stored /\ z.flags = y.flags
        /\ z.clash = y.clash /\ z.tip = y.tip
        /\ b \in blocks => z.txs = y.txs
        /\ b \notin blocks => AddEffect(y.txs, z.txs, StreamOf(b), f, b)
    BY <1>4, <1>8, <2>4, AfterOrphan
  <2>6. StreamInv(z, V, B \cup {b}, H)
    <3>1. CASE b \in blocks
      <4>1. b \in B /\ B \cup {b} = B
        BY <3>1
      <4> HIDE DEF f, x, y, z, V, B, H, u, b
      <4>2. StreamInv(y, V, B, H)
        BY <1>5, <1>6, <2>3, <4>1, AgainKeeps
      <4>3. StreamInv(z, V, B, H)
        BY <2>5, <3>1, <4>2, SameTables
      <4> QED BY <4>1, <4>3
    <3>2. CASE b \notin blocks
      <4>1. b \notin B
        BY <3>2
      <4> HIDE DEF f, x, y, z, V, B, H, u, b
      <4> QED BY <1>4, <1>5, <1>6, <2>1, <2>2, <2>3, <2>5, <3>2, <4>1, OrphanKeeps
    <3> QED BY <3>1, <3>2
  <2>7. NewCanonical(b) = V /\ tip'.height = H /\ tip'.block = tip.block
    BY <1>3, <1>4, <1>8 DEF NewCanonical, NewTip
  <2> HIDE DEF z, y, b, V, B, H
  <2>8. TablesInv'
    BY <1>1, <1>3, <2>6, <2>7 DEF TablesInv, B
  <2>9. MicroTipInv'
    BY <1>1, <2>4, <2>5, <2>7 DEF MicroTipInv, MicroInv, H
  <2> QED BY <1>1, <1>2, <2>8, <2>9 DEF MicroInv
<1> QED BY <1>7, <1>8

\* A /new_microblocks message.
LEMMA MessageMicro ==
  ASSUME MicroInv, NEW s \in Batch, UpdateMicroblocks(s)
  PROVE  MicroInv'
<1> USE BlockAssumption
<1> DEFINE x == InsertMicroblockData(micro, s)
           last == s[Len(s)]
           M == Orphaned(x, tip.block, tip.height + 1, last)
           y == HandleMicroReorg(x, M, TRUE, FALSE, NoBlock)
           n == Cardinality(TxsIn(AsSet(s)))
           k == IF MbPrev[last] = NoMicro THEN n ELSE y.unanchored + n
           z == [y EXCEPT !.tip = last, !.unanchored = k]
<1>1. /\ job.phase = "idle" /\ \A m \in AsSet(s) : MbBase[m] = tip.block
      /\ micro' = z /\ microWork' = z /\ UNCHANGED <<vars, reorged>>
  BY DEF UpdateMicroblocks, BuildsOnTip
<1>2. ChainInv' /\ UNCHANGED vars
  BY <1>1, ChainStep DEF MicroInv
<1>3. s \in Seq(Microblock) /\ Len(s) > 0
  BY MicroAssumption
<1>4. last \in AsSet(s) /\ last \in Microblock
  BY <1>3 DEF AsSet
<1>5. tip.block \in Block /\ Height[tip.block] = tip.height /\ tip.height \in Nat
  BY <1>1, <1>4, MicroAssumption DEF MicroInv, MicroTipInv, ChainInv, TypeInv, TypeOK
<1>6. \A m \in AsSet(s) : Height[MbBase[m]] = tip.height
  BY <1>1, <1>5
<1>7. /\ Tree(canonical, blocks, tip.height)
      /\ StreamInv(micro, canonical, blocks, tip.height)
      /\ Typed(micro) /\ UniqueKeys(micro.txs)
  BY Trees DEF MicroInv, TablesInv, StreamInv
<1>8. Typed(x)
  BY <1>7, MessageInserts
<1>9. x.stored \subseteq Microblock
  BY <1>8, TypedFields
<1> HIDE DEF x, last
<1>10. M \subseteq x.stored /\ \A m \in M : Height[MbBase[m]] = tip.height
  <2>1. M \subseteq x.stored
    BY DEF Orphaned, Candidates
  <2>2. ASSUME NEW m \in M PROVE Height[MbBase[m]] = tip.height
    <3>1. MbBase[m] = tip.block \/ Height[MbBase[m]] + 1 = tip.height + 1
      BY DEF Orphaned, Candidates
    <3>2. Height[MbBase[m]] \in Nat
      BY <1>9, <2>1, MicroAssumption
    <3> QED BY <1>5, <3>1, <3>2
  <2> QED BY <2>1, <2>2
<1> HIDE DEF M
<1>11. StreamInv(y, canonical, blocks, tip.height)
  BY <1>6, <1>7, <1>10, MessageKeeps DEF x
<1> HIDE DEF y
<1>12. n \in Nat
  <2>1. AsSet(s) \subseteq Microblock /\ IsFiniteSet(AsSet(s))
    <3>1. DOMAIN s = 1 .. Len(s) /\ Len(s) \in Nat /\ \A j \in DOMAIN s : s[j] \in Microblock
      BY <1>3
    <3>2. IsFiniteSet(DOMAIN s)
      BY <3>1, FS_Interval
    <3>3. IsFiniteSet({s[j] : j \in DOMAIN s})
      BY <3>2, ImageFinite
    <3> QED BY <3>1, <3>3 DEF AsSet
  <2> QED BY <2>1, TxsInFinite
<1> HIDE DEF n
<1>13. y \in MicroState /\ IsFiniteSet(y.txs) /\ y.unanchored \in Int
  BY <1>11, TypedFields DEF StreamInv, Typed
<1>14. k \in Int
  BY <1>12, <1>13
<1> HIDE DEF k
<1>15. /\ z \in MicroState /\ z.stored = y.stored /\ z.flags = y.flags
       /\ z.txs = y.txs /\ z.clash = y.clash /\ z.tip = last
  BY <1>4, <1>13, <1>14 DEF MicroState
<1> HIDE DEF z
<1>16. StreamInv(z, canonical, blocks, tip.height)
  BY <1>11, <1>13, <1>15, SameTables DEF Typed
<1>17. work.canonical = canonical
  BY <1>1 DEF MicroInv, ChainInv, JobInv, Committed
<1>18. /\ canonical' = canonical /\ blocks' = blocks /\ tip' = tip
       /\ work'.canonical = work.canonical
  BY <1>2 DEF vars
<1>19. TablesInv'
  BY <1>1, <1>16, <1>17, <1>18 DEF TablesInv
<1>20. MicroTipInv'
  BY <1>1, <1>4, <1>15, <1>18 DEF MicroTipInv, MicroInv
<1> QED BY <1>1, <1>2, <1>19, <1>20 DEF MicroInv

LEMMA MicroStep == MicroInv /\ [UNext]_uvars => MicroInv'
<1> SUFFICES ASSUME MicroInv, [UNext]_uvars PROVE MicroInv'
  OBVIOUS
<1>1. ASSUME NEW b \in Block, UBeginUpdate(b) PROVE MicroInv'
  <2>1. BeginUpdate(b) /\ reorged' = {} /\ micro' = micro /\ microWork' = microWork
    BY <1>1 DEF UBeginUpdate
  <2>2. ChainInv'
    BY <2>1, BeginChain DEF MicroInv
  <2>3. canonical' = canonical /\ blocks' = blocks /\ tip' = tip /\ work' = work
    BY <2>1 DEF BeginUpdate
  <2> QED BY <2>1, <2>2, <2>3 DEF MicroInv, TablesInv, MicroTipInv
<1>2. CASE URestoreOrphanedChain
  BY <1>2, RestoreMicro
<1>3. CASE UCommitUpdate
  BY <1>3, CommitMicro
<1>4. CASE UAbortUpdate
  <2>1. AbortUpdate /\ reorged' = {} /\ micro' = micro /\ microWork' = micro
    BY <1>4 DEF UAbortUpdate
  <2>2. ChainInv'
    BY <2>1, ChainStep DEF MicroInv, Next
  <2>3. /\ canonical' = canonical /\ blocks' = blocks /\ tip' = tip
        /\ work'.canonical = canonical
    BY <2>1 DEF AbortUpdate, dbVars, Committed
  <2> QED BY <2>1, <2>2, <2>3 DEF MicroInv, TablesInv, MicroTipInv
<1>5. ASSUME NEW s \in Batch, UpdateMicroblocks(s) PROVE MicroInv'
  BY <1>5, MessageMicro
<1>6. CASE UNCHANGED uvars
  <2>1. /\ vars' = vars /\ micro' = micro /\ microWork' = microWork
        /\ reorged' = reorged
    BY <1>6 DEF uvars
  <2>2. ChainInv'
    BY <2>1, ChainStep DEF MicroInv
  <2>3. canonical' = canonical /\ blocks' = blocks /\ tip' = tip /\ work' = work
    BY <2>1 DEF vars
  <2> QED BY <2>1, <2>2, <2>3 DEF MicroInv, TablesInv, MicroTipInv
<1> QED BY <1>1, <1>2, <1>3, <1>4, <1>5, <1>6 DEF UNext

-----------------------------------------------------------------------------
(* The theorems. *)

LEMMA MicroAlways == USpec => []MicroInv
<1> QED BY MicroStart, MicroStep, PTL DEF USpec

\* The tables of updateMicroblocksInternal and of update() keep their types,
\* and the microblock chain_tip names is the end of a stream on the block the
\* same row names: "microblock_hash" and "index_block_hash" of chain_tip.
THEOREM MicroTypeCorrect == USpec => []UTypeOK
<1>1. MicroInv => UTypeOK
  BY DEF MicroInv, ChainInv, TypeInv, TablesInv, StreamInv, Typed, MicroTipInv, UTypeOK
<1> QED BY <1>1, MicroAlways, PTL

\* What VisibleFollowsChain says of updateMicroCanonical and handleMicroReorg:
\* a reader of the anchored chain sees the transactions of the streams the
\* canonical blocks confirm, and no others, for every tree of blocks and every
\* order in which streams and blocks come.
THEOREM VisibleRight == USpec => []VisibleFollowsChain
<1>1. ASSUME MicroInv PROVE VisibleFollowsChain
  <2>1. /\ \A r \in micro.txs : RowOK(r, micro.stored, canonical, blocks, tip.height)
        /\ AllThere(micro.txs, blocks) /\ canonical \subseteq blocks
        /\ blocks \subseteq Block /\ NoBlock \notin blocks
    BY <1>1, BlockAssumption
    DEF MicroInv, TablesInv, StreamInv, RowsOK, ChainInv, TypeInv, TypeOK
  <2>2. ASSUME NEW r \in VisibleMicroTxs
        PROVE  r.index \in canonical /\ r.mb \in StreamOf(r.index)
    BY <2>1 DEF VisibleMicroTxs, RowOK
  <2>3. ASSUME NEW b \in canonical, NEW x \in TxsIn(StreamOf(b))
        PROVE  \E r \in VisibleMicroTxs : r.tx = x[1] /\ r.mb = x[2] /\ r.index = b
    <3>1. b \in blocks /\ b # NoBlock
      BY <2>1
    <3>2. PICK r \in micro.txs : r.tx = x[1] /\ r.mb = x[2] /\ r.index = b
      BY <2>1, <3>1 DEF AllThere
    <3>3. x[2] \in StreamOf(b)
      BY DEF TxsIn
    <3>4. r.canonical /\ r.micro
      BY <2>1, <3>1, <3>2, <3>3 DEF RowOK
    <3>5. r \in VisibleMicroTxs
      BY <3>1, <3>2, <3>4 DEF VisibleMicroTxs
    <3> QED BY <3>2, <3>5
  <2> QED BY <2>2, <2>3 DEF VisibleFollowsChain
<1> QED BY <1>1, MicroAlways, PTL

\* What MicroTxKeysUnique says of handleMicroReorg: its UPDATE never gives a
\* row the key of another, so no delivery of a block fails on the index
\* unique_tx_id_index_block_hash_microblock_hash.
THEOREM MicroKeys == USpec => []MicroTxKeysUnique
<1>1. MicroInv => MicroTxKeysUnique
  BY DEF MicroInv, TablesInv, StreamInv, MicroTxKeysUnique
<1> QED BY <1>1, MicroAlways, PTL

\* What MicroblocksFollowChain says of the one row a microblock has: its flags
\* show it exactly when a canonical block confirms it.
THEOREM MicroblocksFollow == USpec => []MicroblocksFollowChain
<1>1. ASSUME MicroInv PROVE MicroblocksFollowChain
  <2>1. FlagsOK(micro.flags, canonical) /\ micro.stored \subseteq Microblock
    BY <1>1, TypedFields DEF MicroInv, TablesInv, StreamInv
  <2> QED BY <2>1 DEF MicroblocksFollowChain, ConfirmedStream, FlagsOK, Shows
<1> QED BY <1>1, MicroAlways, PTL

=============================================================================
