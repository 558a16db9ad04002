------------------------------ MODULE NameProofs ------------------------------
(***************************************************************************)
(* Proofs about Names and NameReads, in the composition DataStore: for     *)
(* every tree of blocks, what the BNS endpoints answer is what the last    *)
(* operations of the canonical chain say, whatever re-orgs there were and  *)
(* in whatever order the operations of a block were written.               *)
(***************************************************************************)
EXTENDS DataStoreProofs

-----------------------------------------------------------------------------
(* The newest of some rows. *)

Dated(R) == \A r \in R : r.registered_at \in Nat /\ r.position \in Nat

\* No row of R is newer than r.
IsNewest(r, R) == r \in R /\ \A q \in R : ~Newer(q, r)

\* Finitely many rows have a newest one.
LEMMA NewestExists ==
  ASSUME NEW R, IsFiniteSet(R), R # {}, Dated(R)
  PROVE  \E r \in R : IsNewest(r, R)
<1> DEFINE Bad == {s \in SUBSET R : s # {} /\ \A r \in s : ~IsNewest(r, s)}
<1> SUFFICES ASSUME Bad # {} PROVE FALSE
  OBVIOUS
<1>1. PICK s \in Bad : \A u \in SUBSET s : u # s => u \notin Bad
  <2> HIDE DEF Bad
  <2>1. Bad \in SUBSET (SUBSET R)
    BY DEF Bad
  <2> QED BY <2>1, SmallestSubset
<1>2. PICK x \in s : TRUE
  OBVIOUS
<1> DEFINE rest == s \ {x}
<1>3. rest \in SUBSET s /\ rest # s /\ rest \in SUBSET R /\ s = rest \cup {x}
  BY <1>2
<1>4. CASE rest = {}
  BY <1>1, <1>3, <1>4 DEF IsNewest, Newer, Dated
<1>5. CASE rest # {}
  <2>1. PICK y \in rest : IsNewest(y, rest)
    BY <1>1, <1>3, <1>5
  <2>2. CASE Newer(x, y)
    <3>1. IsNewest(x, s)
      BY <1>2, <1>3, <2>1, <2>2 DEF IsNewest, Newer, Dated
    <3> QED BY <1>1, <1>2, <3>1
  <2>3. CASE ~Newer(x, y)
    <3>1. IsNewest(y, s)
      BY <1>2, <1>3, <2>1, <2>3 DEF IsNewest, Newer, Dated
    <3> QED BY <1>1, <1>3, <2>1, <3>1
  <2> QED BY <2>2, <2>3
<1> QED BY <1>4, <1>5

\* Newest picks one of them.
LEMMA NewestIs ==
  ASSUME NEW R, IsFiniteSet(R), R # {}, Dated(R)
  PROVE  IsNewest(Newest(R), R)
BY NewestExists DEF Newest, IsNewest

\* Two rows of which neither is newer were written in the same place.
LEMMA NewestPlace ==
  ASSUME NEW R, Dated(R), NEW r, IsNewest(r, R), NEW q, IsNewest(q, R)
  PROVE  r.registered_at = q.registered_at /\ r.position = q.position
BY DEF IsNewest, Newer, Dated

-----------------------------------------------------------------------------
(* The rows of a block: every operation has one, whatever rows were there   *)
(* when it was written.                                                     *)

\* f gives the row of every operation of D.
AreRows(f, b, ran, D) ==
  f = [i \in D |-> NameRow(b, NameOpsOf[b][i], {f[j] : j \in ran[i]})]

LEMMA OperationsIndexed ==
  ASSUME NEW b \in Block
  PROVE  /\ BnsEventsOf[b] \in Seq(BnsEvent)
         /\ DOMAIN NameOpsOf[b] \subseteq DOMAIN BnsEventsOf[b]
         /\ DOMAIN BnsEventsOf[b] = 1 .. Len(BnsEventsOf[b])
         /\ Len(BnsEventsOf[b]) \in Nat
         /\ DOMAIN NameOpsOf[b] \subseteq Nat
         /\ IsFiniteSet(DOMAIN NameOpsOf[b])
<1>1. BnsEventsOf[b] \in Seq(BnsEvent)
  BY NamesAssumption
<1>2. DOMAIN BnsEventsOf[b] = 1 .. Len(BnsEventsOf[b]) /\ Len(BnsEventsOf[b]) \in Nat
  BY <1>1
<1>3. DOMAIN NameOpsOf[b] \subseteq DOMAIN BnsEventsOf[b]
  BY DEF NameOpsOf, NameOpsIn
<1>4. IsFiniteSet(1 .. Len(BnsEventsOf[b]))
  BY <1>2, FS_Interval
<1> QED BY <1>1, <1>2, <1>3, <1>4, FS_Subset

\* The recursion of NameRows is well founded: operation i asks for the rows of
\* earlier operations only.
LEMMA RowsExist ==
  ASSUME NEW b \in Block, NEW ran \in Orders(b)
  PROVE  \E f : AreRows(f, b, ran, DOMAIN NameOpsOf[b])
<1> DEFINE D == DOMAIN NameOpsOf[b]
           UpToOp(n) == {i \in D : i <= n}
           Bad == {n \in Nat : ~ \E f : AreRows(f, b, ran, UpToOp(n))}
           N == Len(BnsEventsOf[b])
<1>0. /\ D \subseteq Nat /\ D \subseteq 1 .. N /\ N \in Nat
      /\ \A i \in D : ran[i] \subseteq D /\ ran[i] \subseteq 1 .. i - 1
  BY OperationsIndexed DEF Orders
<1> HIDE DEF D
<1>a. /\ UpToOp(0) = {} /\ UpToOp(N) = D
      /\ \A n \in Nat \ {0} : \A i \in UpToOp(n) : \A j \in ran[i] :
           j \in UpToOp(n - 1) /\ j \in UpToOp(n)
      /\ \A n \in Nat \ {0} : UpToOp(n - 1) \subseteq UpToOp(n)
  <2> HIDE DEF Bad, N
  <2>0. \A i \in D : i \in Nat /\ 1 <= i /\ i <= N
    BY <1>0
  <2>1. UpToOp(0) = {}
    BY <2>0
  <2>2. UpToOp(N) = D
    BY <2>0
  <2>3. ASSUME NEW n \in Nat \ {0}
        PROVE  /\ UpToOp(n - 1) \subseteq UpToOp(n)
               /\ \A i \in UpToOp(n) : \A j \in ran[i] : j \in UpToOp(n - 1) /\ j \in UpToOp(n)
    <3>1. UpToOp(n - 1) \subseteq UpToOp(n)
      BY <2>0
    <3>2. ASSUME NEW i \in UpToOp(n), NEW j \in ran[i] PROVE j \in UpToOp(n - 1)
      <4>1. i \in D /\ i \in Nat /\ i <= n
        BY <1>0
      <4>2. j \in D /\ j \in 1 .. i - 1
        BY <1>0, <4>1
      <4>3. j <= n - 1
        BY <4>1, <4>2
      <4> QED BY <4>2, <4>3
    <3> QED BY <3>1, <3>2
  <2> QED BY <2>1, <2>2, <2>3
<1>b. \A n \in Nat : n \notin Bad => \E f : AreRows(f, b, ran, UpToOp(n))
  OBVIOUS
<1>c. \A n \in Nat : n \in Bad => ~ \E f : AreRows(f, b, ran, UpToOp(n))
  OBVIOUS
<1>d. Bad \subseteq Nat
  OBVIOUS
<1> HIDE DEF UpToOp, Bad, N
<1>1. Bad = {}
  <2> SUFFICES ASSUME Bad # {} PROVE FALSE
    OBVIOUS
  <2>1. PICK n \in Bad : \A m \in Bad : ~(<<m, n>> \in OpToRel(<, Nat))
    BY <1>d, NatLessThanWellFounded, WFMin, Zenon
  <2>2. n \in Nat /\ \A m \in Nat : m < n => m \notin Bad
    BY <1>d, <2>1 DEF OpToRel
  <2>3. CASE n = 0
    <3>1. AreRows([i \in {} |-> i], b, ran, UpToOp(n))
      BY <1>a, <2>3 DEF AreRows
    <3> QED BY <1>c, <2>1, <2>2, <3>1
  <2>4. CASE n # 0
    <3>1. PICK f : AreRows(f, b, ran, UpToOp(n - 1))
      <4>1. n - 1 \in Nat /\ n - 1 < n
        BY <2>2, <2>4
      <4> QED BY <1>b, <2>2, <4>1
    <3> DEFINE g == [i \in UpToOp(n) |-> NameRow(b, NameOpsOf[b][i], {f[j] : j \in ran[i]})]
    <3>2. \A i \in UpToOp(n) : \A j \in ran[i] : j \in UpToOp(n - 1) /\ j \in UpToOp(n)
      BY <1>a, <2>2, <2>4
    <3>3. \A j \in UpToOp(n - 1) : f[j] = g[j]
      BY <1>a, <2>2, <2>4, <3>1 DEF AreRows
    <3>4. \A i \in UpToOp(n) : {g[j] : j \in ran[i]} = {f[j] : j \in ran[i]}
      <4> HIDE DEF g
      <4> QED BY <3>2, <3>3
    <3>5. AreRows(g, b, ran, UpToOp(n))
      <4>1. \A i \in UpToOp(n) : g[i] = NameRow(b, NameOpsOf[b][i], {g[j] : j \in ran[i]})
        BY <3>4
      <4>2. g = [i \in UpToOp(n) |-> g[i]]
        OBVIOUS
      <4> HIDE DEF g
      <4> QED BY <4>1, <4>2 DEF AreRows
    <3> QED BY <1>c, <2>1, <2>2, <3>5
  <2> QED BY <2>3, <2>4
<1> QED BY <1>0, <1>a, <1>b, <1>1 DEF D

\* The rows that NameRows returns, one per operation.
LEMMA RowsOfBlock ==
  ASSUME NEW b \in Block, NEW ran \in Orders(b)
  PROVE  \E f : /\ NameRows(b, ran) = {f[i] : i \in DOMAIN NameOpsOf[b]}
                /\ \A i \in DOMAIN NameOpsOf[b] :
                     \E own : f[i] = NameRow(b, NameOpsOf[b][i], own)
<1> DEFINE D == DOMAIN NameOpsOf[b]
           f == CHOOSE g : AreRows(g, b, ran, D)
<1>1. NameRows(b, ran) = {f[i] : i \in D}
  BY DEF NameRows, AreRows
<1>2. AreRows(f, b, ran, D)
  BY RowsExist
<1> HIDE DEF f
<1>3. \A i \in D : f[i] = NameRow(b, NameOpsOf[b][i], {f[j] : j \in ran[i]})
  BY <1>2 DEF AreRows
<1> QED BY <1>1, <1>3

-----------------------------------------------------------------------------
(* The inductive invariant. *)

\* r is the row of operation i of block b.
RowOf(r, b, i) ==
  LET op == NameOpsOf[b][i]
  IN /\ r.block = b /\ r.registered_at = Height[b]
     /\ r.tx = op.tx /\ r.position = op.position /\ r.name = op.name
     /\ r.namespace = op.namespace /\ r.status = op.op /\ r.address = op.address
     /\ op.hash # NoHash => r.zonefile_hash = op.hash

\* The operations of the stored blocks, on whatever fork, have one row each.
RowsInv ==
  /\ IsFiniteSet(names)
  /\ \A r \in names :
       r.block \in blocks /\ \E i \in DOMAIN NameOpsOf[r.block] : RowOf(r, r.block, i)
  /\ \A b \in blocks : \A i \in DOMAIN NameOpsOf[b] : \E r \in names : RowOf(r, b, i)
  /\ \A r, q \in names : r.block = q.block /\ r.tx = q.tx => r = q

\* Every row has its zonefile, a zonefile is that of a row or came with an
\* attachment, and the table's key is one.
FilesInv ==
  /\ \A r \in names : \E z \in zonefiles : SameZonefile(z, FileOf(r))
  /\ \A z \in zonefiles :
       /\ z.block \in blocks
       /\ \/ \E r \in names : SameZonefile(z, FileOf(r))
          \/ z.block \in attached /\ z \in AttachedZonefiles(z.block)
  /\ \A b \in attached : b # Genesis /\ AttachedZonefiles(b) \subseteq zonefiles
  /\ \A y, z \in zonefiles : SameZonefile(y, z) => y = z

NameInv == EntityInv /\ RowsInv /\ FilesInv

-----------------------------------------------------------------------------
(* NameInv is inductive. *)

\* An operation has the transaction and the place of its event, and no other
\* one of the block has them.
LEMMA OperationFields ==
  ASSUME NEW b \in Block, NEW i \in DOMAIN NameOpsOf[b]
  PROVE  LET op == NameOpsOf[b][i]
             e == BnsEventsOf[b][i]
         IN /\ e \in BnsEvent /\ i \in DOMAIN BnsEventsOf[b]
            /\ op.tx = e.tx /\ op.position = e.position /\ op.name = e.name
            /\ op.namespace = e.namespace
            /\ op.position \in Nat /\ op.name \in Name
            /\ op.hash # NoHash => op.hash = e.hash
            /\ \A j \in DOMAIN NameOpsOf[b] :
                 j # i => NameOpsOf[b][j].tx # op.tx /\ NameOpsOf[b][j].position # op.position
<1> DEFINE Op(k) == NameOpsOf[b][k]
           E(k) == BnsEventsOf[b][k]
<1>1. ASSUME NEW k \in DOMAIN NameOpsOf[b]
      PROVE  /\ k \in DOMAIN BnsEventsOf[b] /\ k \in Nat /\ E(k) \in BnsEvent
             /\ E(k).kind # "ready"
             /\ Op(k).tx = E(k).tx /\ Op(k).position = E(k).position /\ Op(k).name = E(k).name
             /\ Op(k).namespace = E(k).namespace
             /\ Op(k).hash # NoHash => Op(k).hash = E(k).hash
  <2>1. k \in DOMAIN BnsEventsOf[b] /\ k \in Nat /\ E(k) \in BnsEvent
    BY OperationsIndexed, ElementOfSeq
  <2>2. /\ E(k).kind # "ready"
        /\ Op(k) = IF E(k).kind = "attachment" THEN ParseName(b, E(k)) ELSE ParseRenewal(E(k))
    BY DEF NameOpsOf, NameOpsIn
  <2>3. Op(k).tx = E(k).tx /\ Op(k).position = E(k).position /\ Op(k).name = E(k).name
    BY <2>2 DEF ParseName, ParseRenewal
  <2>4. Op(k).namespace = E(k).namespace
    BY <2>2 DEF ParseName, ParseRenewal
  <2>5. Op(k).hash # NoHash => Op(k).hash = E(k).hash
    BY <2>2 DEF ParseName, ParseRenewal
  <2> QED BY <2>1, <2>2, <2>3, <2>4, <2>5
<1>2. E(i).position \in Nat /\ E(i).name \in Name
  BY <1>1, NamesAssumption DEF BnsEvent
<1>3. ASSUME NEW j \in DOMAIN NameOpsOf[b], j # i
      PROVE  E(j).tx # E(i).tx /\ E(j).position # E(i).position
  <2>1. /\ i \in Nat /\ j \in Nat /\ i \in DOMAIN BnsEventsOf[b] /\ j \in DOMAIN BnsEventsOf[b]
        /\ E(i).position \in Nat /\ E(j).position \in Nat
    BY <1>1 DEF BnsEvent
  <2>2. i < j => E(i).position < E(j).position /\ E(i).tx # E(j).tx
    BY <2>1, NamesAssumption
  <2>3. j < i => E(j).position < E(i).position /\ E(j).tx # E(i).tx
    BY <2>1, NamesAssumption
  <2> QED BY <1>3, <2>1, <2>2, <2>3
<1> HIDE DEF Op, E
<1>4. \A j \in DOMAIN NameOpsOf[b] : j # i => Op(j).tx # Op(i).tx /\ Op(j).position # Op(i).position
  BY <1>1, <1>3
<1> QED BY <1>1, <1>2, <1>4 DEF Op, E

\* What updateNames computes, and from which rows, does not touch the other
\* columns.
LEMMA RowHasOperation ==
  ASSUME NEW b \in Block, NEW i \in DOMAIN NameOpsOf[b], NEW own
  PROVE  RowOf(NameRow(b, NameOpsOf[b][i], own), b, i)
<1> DEFINE op == NameOpsOf[b][i]
           r == NameRow(b, op, own)
<1>1. op.hash # NoHash => r.zonefile_hash = op.hash
  BY DEF NameRow, FinalZonefile
<1>2. /\ r.block = b /\ r.registered_at = Height[b]
      /\ r.tx = op.tx /\ r.position = op.position /\ r.name = op.name
      /\ r.namespace = op.namespace /\ r.status = op.op /\ r.address = op.address
  BY DEF NameRow
<1> QED BY <1>1, <1>2 DEF RowOf

\* The rows of one block.
LEMMA BlockRows ==
  ASSUME NEW b \in Block, NEW ran \in Orders(b)
  PROVE  /\ IsFiniteSet(NameRows(b, ran))
         /\ \A r \in NameRows(b, ran) : \E i \in DOMAIN NameOpsOf[b] : RowOf(r, b, i)
         /\ \A i \in DOMAIN NameOpsOf[b] : \E r \in NameRows(b, ran) : RowOf(r, b, i)
         /\ \A r, q \in NameRows(b, ran) : r.tx = q.tx => r = q
<1> DEFINE D == DOMAIN NameOpsOf[b]
           R == NameRows(b, ran)
<1>1. PICK f : /\ R = {f[i] : i \in D}
               /\ \A i \in D : \E own : f[i] = NameRow(b, NameOpsOf[b][i], own)
  BY RowsOfBlock
<1> HIDE DEF D, R
<1>2. \A i \in D : RowOf(f[i], b, i)
  BY <1>1, RowHasOperation DEF D
<1>3. IsFiniteSet(R)
  <2> DEFINE h == [i \in D |-> f[i]]
  <2>1. h \in Surjection(D, R)
    BY <1>1 DEF Surjection
  <2> QED BY <2>1, FS_Surjection, OperationsIndexed DEF D
<1>4. ASSUME NEW i \in D, NEW j \in D, f[i].tx = f[j].tx PROVE i = j
  BY <1>2, <1>4, OperationFields DEF D, RowOf
<1>5. \A r \in R : \E i \in D : RowOf(r, b, i)
  BY <1>1, <1>2
<1>6. \A i \in D : \E r \in R : RowOf(r, b, i)
  BY <1>1, <1>2
<1>7. \A r, q \in R : r.tx = q.tx => r = q
  BY <1>1, <1>4
<1> QED BY <1>3, <1>5, <1>6, <1>7 DEF D, R

\* update() of a new block adds the rows of its operations.
LEMMA CommitNames ==
  ASSUME NameInv, NmCommitUpdate, EntityInv'
  PROVE  NameInv'
<1> DEFINE b == job.block
<1>1. /\ job.phase = "insert" /\ blocks' = blocks \cup {b} /\ attached' = attached
      /\ b \in Block
  BY DEF NmCommitUpdate, NCommitUpdate, CommitUpdate, NameInv, EntityInv, ChainInv, TypeInv, TypeOK
<1> HIDE DEF b
<1>2. CASE b \in blocks
  <2>1. blocks' = blocks /\ names' = names /\ zonefiles' = zonefiles
    BY <1>1, <1>2 DEF NmCommitUpdate, nvars, b
  <2> QED BY <1>1, <2>1 DEF NameInv, RowsInv, FilesInv
<1>3. CASE b \notin blocks
  <2>1. PICK ran \in Orders(b) :
          /\ names' = names \cup NameRows(b, ran)
          /\ zonefiles' = zonefiles \cup {FileOf(r) : r \in NameRows(b, ran)}
    BY <1>3 DEF NmCommitUpdate, b
  <2> DEFINE R == NameRows(b, ran)
  <2>2. /\ IsFiniteSet(R)
        /\ \A r \in R : r.block = b /\ \E i \in DOMAIN NameOpsOf[b] : RowOf(r, b, i)
        /\ \A i \in DOMAIN NameOpsOf[b] : \E r \in R : RowOf(r, b, i)
        /\ \A r, q \in R : r.tx = q.tx => r = q
    BY <1>1, BlockRows DEF RowOf
  <2>3. names' = names \cup R /\ zonefiles' = zonefiles \cup {FileOf(r) : r \in R}
    BY <2>1
  <2> HIDE DEF R
  <2>4. RowsInv'
    <3>1. IsFiniteSet(names')
      BY <2>2, <2>3, FS_Union DEF NameInv, RowsInv
    <3>2. \A r \in names' : r.block \in blocks' /\ \E i \in DOMAIN NameOpsOf[r.block] : RowOf(r, r.block, i)
      BY <1>1, <2>2, <2>3 DEF NameInv, RowsInv
    <3>3. \A c \in blocks' : \A i \in DOMAIN NameOpsOf[c] : \E r \in names' : RowOf(r, c, i)
      BY <1>1, <2>2, <2>3 DEF NameInv, RowsInv
    <3>4. \A r, q \in names' : r.block = q.block /\ r.tx = q.tx => r = q
      BY <1>3, <2>2, <2>3 DEF NameInv, RowsInv
    <3> QED BY <3>1, <3>2, <3>3, <3>4 DEF RowsInv
  <2>5. \A r : SameZonefile(FileOf(r), FileOf(r))
    BY DEF SameZonefile, SameKey
  <2>6. \A r \in R : FileOf(r).block = b /\ FileOf(r).tx = r.tx
    BY <2>2 DEF FileOf
  <2>7. FilesInv'
    <3>1. \A r \in names' : \E z \in zonefiles' : SameZonefile(z, FileOf(r))
      BY <2>3, <2>5 DEF NameInv, FilesInv
    <3>2. \A z \in zonefiles' :
            /\ z.block \in blocks'
            /\ \/ \E r \in names' : SameZonefile(z, FileOf(r))
               \/ z.block \in attached' /\ z \in AttachedZonefiles(z.block)
      BY <1>1, <2>3, <2>5, <2>6 DEF NameInv, FilesInv
    <3>3. \A c \in attached' : c # Genesis /\ AttachedZonefiles(c) \subseteq zonefiles'
      BY <1>1, <2>3 DEF NameInv, FilesInv
    <3>4. ASSUME NEW y \in zonefiles', NEW z \in zonefiles', SameZonefile(y, z) PROVE y = z
      <4>1. y.tx = z.tx /\ y.block = z.block
        BY <3>4 DEF SameZonefile, SameKey
      <4>2. CASE y \in zonefiles /\ z \in zonefiles
        BY <3>4, <4>2 DEF NameInv, FilesInv
      <4>3. CASE y.block \in blocks \/ z.block \in blocks
        <5>1. y.block # b /\ z.block # b
          BY <1>3, <4>1, <4>3
        <5> QED BY <2>3, <2>6, <4>2, <5>1
      <4>4. CASE y.block \notin blocks /\ z.block \notin blocks
        <5>1. PICK r \in R, q \in R : y = FileOf(r) /\ z = FileOf(q)
          BY <2>3, <4>4 DEF NameInv, FilesInv
        <5> QED BY <2>2, <2>6, <4>1, <5>1
      <4> QED BY <4>3, <4>4
    <3> QED BY <3>1, <3>2, <3>3, <3>4 DEF FilesInv
  <2> QED BY <2>4, <2>7 DEF NameInv
<1> QED BY <1>2, <1>3

\* Attachments that arrive replace the zonefiles of the same key.
LEMMA AttachNames ==
  ASSUME NameInv, NEW b \in Block, NmUpdateAttachments(b), EntityInv'
  PROVE  NameInv'
<1> DEFINE A == AttachedZonefiles(b)
<1>1. /\ blocks' = blocks /\ names' = names /\ attached' = attached \cup {b}
      /\ b \in blocks /\ b # Genesis
      /\ zonefiles' = {z \in zonefiles : \A n \in A : ~SameZonefile(n, z)} \cup A
  BY DEF NmUpdateAttachments, UpdateAttachments, AttachmentTxFound
<1>2. ASSUME NEW y \in A, NEW z \in A, SameZonefile(y, z) PROVE y = z
  <2>1. \A x \in A : x = [name |-> x.name, hash |-> x.hash, tx |-> x.tx, block |-> b, text |-> TRUE]
    BY DEF AttachedZonefiles
  <2>2. y.name = z.name /\ y.hash = z.hash /\ y.tx = z.tx
    BY <1>2 DEF SameZonefile, SameKey
  <2> HIDE DEF A
  <2> QED BY <2>1, <2>2
<1>3. \A z \in A : z.block = b /\ z \in AttachedZonefiles(z.block)
  BY DEF AttachedZonefiles
<1> HIDE DEF A
<1>4. \A y, z : SameZonefile(y, z) => SameZonefile(z, y)
  BY DEF SameZonefile, SameKey
<1>5. \A x, y, z : SameZonefile(x, y) /\ SameZonefile(y, z) => SameZonefile(x, z)
  BY DEF SameZonefile, SameKey
<1>6. FilesInv'
  <2>1. ASSUME NEW r \in names' PROVE \E z \in zonefiles' : SameZonefile(z, FileOf(r))
    <3>1. PICK z \in zonefiles : SameZonefile(z, FileOf(r))
      BY <1>1 DEF NameInv, FilesInv
    <3>2. CASE z \in zonefiles'
      BY <3>1, <3>2
    <3>3. CASE z \notin zonefiles'
      <4>1. PICK n \in A : SameZonefile(n, z)
        BY <1>1, <3>3
      <4> QED BY <1>1, <1>5, <3>1, <4>1
    <3> QED BY <3>2, <3>3
  <2>2. \A z \in zonefiles' :
          /\ z.block \in blocks'
          /\ \/ \E r \in names' : SameZonefile(z, FileOf(r))
             \/ z.block \in attached' /\ z \in AttachedZonefiles(z.block)
    BY <1>1, <1>3 DEF NameInv, FilesInv
  <2>3. ASSUME NEW c \in attached' PROVE c # Genesis /\ AttachedZonefiles(c) \subseteq zonefiles'
    <3>1. CASE c = b
      BY <1>1, <3>1 DEF A
    <3>2. CASE c # b
      <4>1. c # Genesis /\ AttachedZonefiles(c) \subseteq zonefiles
        BY <1>1, <3>2 DEF NameInv, FilesInv
      <4>2. \A z \in AttachedZonefiles(c) : z.block = c
        BY DEF AttachedZonefiles
      <4>3. \A z \in AttachedZonefiles(c) : \A n \in A : ~SameZonefile(n, z)
        BY <1>3, <3>2, <4>2 DEF SameZonefile, SameKey
      <4> QED BY <1>1, <4>1, <4>3
    <3> QED BY <3>1, <3>2
  <2>4. \A y, z \in zonefiles' : SameZonefile(y, z) => y = z
    BY <1>1, <1>2, <1>4 DEF NameInv, FilesInv
  <2> QED BY <2>1, <2>2, <2>3, <2>4 DEF FilesInv
<1> QED BY <1>1, <1>6 DEF NameInv, RowsInv

LEMMA NameStep == NameInv /\ [DNext]_dvars => NameInv'
<1> SUFFICES ASSUME NameInv, [DNext]_dvars PROVE NameInv'
  OBVIOUS
<1>0. EntityInv'
  BY DataRunsStore, EntityStep DEF NameInv
<1>1. CASE UNCHANGED <<blocks, attached, names, zonefiles>>
  BY <1>0, <1>1 DEF NameInv, RowsInv, FilesInv
<1>2. ASSUME NEW b \in Block, DBeginUpdate(b) PROVE NameInv'
  BY <1>1, <1>2 DEF DBeginUpdate, NmBeginUpdate, NBeginUpdate, BeginUpdate, nvars
<1>3. CASE DRestoreOrphanedChain
  BY <1>1, <1>3 DEF DRestoreOrphanedChain, NmRestoreOrphanedChain, NRestoreOrphanedChain,
                    RestoreOrphanedChain, nvars, dbVars
<1>4. CASE DCommitUpdate
  BY <1>0, <1>4, CommitNames DEF DCommitUpdate
<1>5. CASE DAbortUpdate
  BY <1>1, <1>5 DEF DAbortUpdate, NmAbortUpdate, NAbortUpdate, AbortUpdate, nvars, dbVars
<1>6. CASE DNotify \/ DLoseMessage \/ UNCHANGED dvars
  BY <1>1, <1>6 DEF DNotify, DLoseMessage, Notify, LoseMessage, dvars, vars, nvars
<1>7. ASSUME NEW b \in Block, DUpdateAttachments(b) PROVE NameInv'
  BY <1>0, <1>7, AttachNames DEF DUpdateAttachments
<1> QED BY <1>2, <1>3, <1>4, <1>5, <1>6, <1>7 DEF DNext

LEMMA NameStart == DInit => NameInv
<1> SUFFICES ASSUME DInit PROVE NameInv
  OBVIOUS
<1>1. Init /\ names = {} /\ zonefiles = {}
  BY DEF DInit, NmInit, NInit
<1>2. EntityInv
  BY <1>1, EntityStart
<1> QED BY <1>1, <1>2, FS_EmptySet DEF NameInv, RowsInv, FilesInv, Init

-----------------------------------------------------------------------------
(* The rows the endpoints see are those of the canonical chain. *)

LEMMA ChainBlocks ==
  ASSUME NameInv
  PROVE  /\ OnChain \subseteq blocks /\ OnChain \subseteq Block
         /\ \A b \in blocks : b \in rows["names"] <=> b \in OnChain
         /\ \A b, c \in OnChain : Height[b] = Height[c] => b = c
         /\ \A b \in OnChain : Height[b] \in Nat /\ Height[b] <= tip.height
         /\ tip.height \in Nat
         /\ \A b \in attached : b \in rows["subdomains"] <=> b \in canonical
         /\ attached \cap canonical \subseteq OnChain
<1>1. /\ blocks \subseteq Block /\ canonical \subseteq blocks /\ attached \subseteq blocks
      /\ tip.height \in Nat
  BY DEF NameInv, EntityInv, ChainInv, TypeInv, TypeOK
<1>2. "names" \in Table /\ "names" \in BootTables /\ "names" # "subdomains" /\ "subdomains" \in Table
  BY DEF Table, BootTables
<1>3. OnChain \subseteq blocks
  BY <1>1 DEF OnChain, NameInv, EntityInv, BootInv
<1>4. \A b \in blocks : b \in rows["names"] <=> b \in OnChain
  BY <1>2 DEF OnChain, NameInv, EntityInv, RowsFollow
<1>5. \A b \in OnChain : Height[b] \in Nat /\ Height[b] <= tip.height
  BY <1>1, <1>3, BlockAssumption DEF NameInv, EntityInv, ChainInv, StoredInv
<1>6. \A b, c \in canonical : Height[b] = Height[c] => b = c
  BY DEF NameInv, EntityInv, ChainInv, CanonicalIsOneChain, IsChainTo
<1>7. \A b, c \in OnChain : Height[b] = Height[c] => b = c
  <2>1. \A b \in OnChain : b # Genesis => b \in canonical /\ Height[b] > 0
    BY <1>1, BlockAssumption DEF OnChain
  <2>2. Height[Genesis] = 0
    BY BlockAssumption
  <2> QED BY <1>6, <2>1, <2>2
<1>8. attached \cap canonical \subseteq OnChain
  BY DEF OnChain, NameInv, FilesInv
<1>9. \A b \in attached : b \in rows["subdomains"] <=> b \in canonical
  BY <1>1, <1>2 DEF NameInv, FilesInv, EntityInv, RowsFollow
<1> QED BY <1>1, <1>3, <1>4, <1>5, <1>7, <1>8, <1>9

\* Row r has what operation o did.
Matches(r, o) ==
  /\ r.registered_at = o.registered_at /\ r.position = o.position
  /\ r.status = o.status /\ r.address = o.address /\ r.tx = o.tx /\ r.block = o.block
  /\ o.hash # NoHash => r.zonefile_hash = o.hash

\* The rows of a name.
RowsFor(n) == {r \in VisibleNames : r.name = n}

LEMMA RowsDated ==
  ASSUME NameInv
  PROVE  /\ Dated(VisibleNames) /\ IsFiniteSet(VisibleNames)
         /\ \A r \in VisibleNames :
              /\ r.registered_at <= tip.height /\ r.block \in OnChain
              /\ r.registered_at = Height[r.block] /\ r.name \in Name
              /\ \E i \in DOMAIN NameOpsOf[r.block] : RowOf(r, r.block, i)
         /\ \A r, q \in VisibleNames :
              r.registered_at = q.registered_at /\ r.position = q.position => r = q
<1>1. \A r \in VisibleNames :
        /\ r.block \in OnChain /\ r.block \in Block /\ r \in names
        /\ \E i \in DOMAIN NameOpsOf[r.block] : RowOf(r, r.block, i)
  BY ChainBlocks DEF VisibleNames, NameInv, RowsInv
<1>2. IsFiniteSet(VisibleNames)
  BY FS_Subset DEF VisibleNames, NameInv, RowsInv
<1>3. ASSUME NEW r \in VisibleNames
      PROVE  /\ r.registered_at \in Nat /\ r.position \in Nat
             /\ r.registered_at <= tip.height /\ r.registered_at = Height[r.block]
             /\ r.name \in Name
  <2>1. PICK i \in DOMAIN NameOpsOf[r.block] : RowOf(r, r.block, i)
    BY <1>1
  <2>2. NameOpsOf[r.block][i].position \in Nat /\ NameOpsOf[r.block][i].name \in Name
    BY <1>1, OperationFields
  <2> QED BY <1>1, <2>1, <2>2, ChainBlocks DEF RowOf
<1>4. ASSUME NEW r \in VisibleNames, NEW q \in VisibleNames,
             r.registered_at = q.registered_at, r.position = q.position
      PROVE  r = q
  <2>1. r.block = q.block
    BY <1>1, <1>3, <1>4, ChainBlocks
  <2>2. PICK i \in DOMAIN NameOpsOf[r.block] : RowOf(r, r.block, i)
    BY <1>1
  <2>3. PICK j \in DOMAIN NameOpsOf[r.block] : RowOf(q, r.block, j)
    BY <1>1, <2>1
  <2>4. i = j
    <3>1. NameOpsOf[r.block][i].position = NameOpsOf[r.block][j].position
      BY <1>4, <2>2, <2>3 DEF RowOf
    <3> QED BY <1>1, <3>1, OperationFields
  <2>5. r.tx = q.tx
    BY <2>2, <2>3, <2>4 DEF RowOf
  <2> QED BY <1>1, <2>1, <2>5 DEF NameInv, RowsInv
<1> QED BY <1>1, <1>2, <1>3, <1>4 DEF Dated

\* Every visible row is one of the canonical chain's operations, and the other
\* way round.
LEMMA RowsAreOperations ==
  ASSUME NameInv, NEW n
  PROVE  /\ \A r \in RowsFor(n) : \E o \in Operations(n) : Matches(r, o)
         /\ \A o \in Operations(n) : \E r \in RowsFor(n) : Matches(r, o)
<1> DEFINE Op(b, i) == [name |-> n, registered_at |-> Height[b],
                        position |-> NameOpsOf[b][i].position,
                        status |-> NameOpsOf[b][i].op, address |-> NameOpsOf[b][i].address,
                        hash |-> NameOpsOf[b][i].hash, tx |-> NameOpsOf[b][i].tx, block |-> b]
<1>1. ASSUME NEW r \in RowsFor(n) PROVE \E o \in Operations(n) : Matches(r, o)
  <2>1. r \in VisibleNames /\ r.name = n
    BY DEF RowsFor
  <2>2. PICK i \in DOMAIN NameOpsOf[r.block] : RowOf(r, r.block, i)
    BY <2>1, RowsDated
  <2>3. r.block \in OnChain /\ NameOpsOf[r.block][i].name = n
    BY <2>1, <2>2, RowsDated DEF RowOf
  <2>4. Op(r.block, i) \in Operations(n)
    BY <2>3 DEF Operations
  <2>5. Matches(r, Op(r.block, i))
    BY <2>2 DEF Matches, RowOf
  <2> QED BY <2>4, <2>5
<1>2. ASSUME NEW o \in Operations(n) PROVE \E r \in RowsFor(n) : Matches(r, o)
  <2>1. PICK b \in OnChain : \E i \in DOMAIN NameOpsOf[b] : NameOpsOf[b][i].name = n /\ o = Op(b, i)
    BY DEF Operations
  <2>2. PICK i \in DOMAIN NameOpsOf[b] : NameOpsOf[b][i].name = n /\ o = Op(b, i)
    BY <2>1
  <2>3. b \in blocks /\ b \in rows["names"]
    BY ChainBlocks
  <2>4. PICK r \in names : RowOf(r, b, i)
    BY <2>3 DEF NameInv, RowsInv
  <2>5. r \in RowsFor(n)
    BY <2>2, <2>3, <2>4 DEF RowsFor, VisibleNames, RowOf
  <2>6. Matches(r, o)
    BY <2>2, <2>4 DEF Matches, RowOf
  <2> QED BY <2>5, <2>6
<1> QED BY <1>1, <1>2

\* The newest row of a name is that of its last operation, and the only one.
LEMMA NewestRow ==
  ASSUME NameInv, NEW n, Operations(n) # {}
  PROVE  /\ LastOp(n) \in Operations(n)
         /\ \E r \in RowsFor(n) :
              /\ Matches(r, LastOp(n))
              /\ \A q \in RowsFor(n) : (\A p \in RowsFor(n) : ~Newer(p, q)) <=> q = r
<1> DEFINE R == RowsFor(n)
           O == Operations(n)
<1>1. R # {} /\ IsFiniteSet(R) /\ Dated(R)
  BY RowsAreOperations, RowsDated, FS_Subset DEF RowsFor, Dated
<1>2. /\ \A r \in R : \E o \in O : Matches(r, o)
      /\ \A o \in O : \E r \in R : Matches(r, o)
  BY RowsAreOperations
<1>3. \A r, q \in R : r.registered_at = q.registered_at /\ r.position = q.position => r = q
  BY RowsDated DEF RowsFor
<1> HIDE DEF R, O
<1>4. \E o \in O : \A p \in O : ~Newer(p, o)
  <2>1. PICK r \in R : IsNewest(r, R)
    BY <1>1, NewestExists
  <2>2. PICK o \in O : Matches(r, o)
    BY <1>2
  <2>3. ASSUME NEW p \in O PROVE ~Newer(p, o)
    <3>1. PICK q \in R : Matches(q, p)
      BY <1>2
    <3>2. ~Newer(q, r)
      BY <2>1 DEF IsNewest
    <3> QED BY <2>2, <3>1, <3>2 DEF Matches, Newer
  <2> QED BY <2>3
<1>5. LastOp(n) \in O /\ \A p \in O : ~Newer(p, LastOp(n))
  BY <1>4 DEF LastOp, Newest, O
<1>6. PICK r \in R : Matches(r, LastOp(n))
  BY <1>2, <1>5
<1>7. ASSUME NEW p \in R PROVE ~Newer(p, r)
  <2>1. PICK o \in O : Matches(p, o)
    BY <1>2
  <2>2. ~Newer(o, LastOp(n))
    BY <1>5
  <2> QED BY <1>6, <2>1, <2>2 DEF Matches, Newer
<1>8. ASSUME NEW q \in R, \A p \in R : ~Newer(p, q) PROVE q = r
  <2>1. IsNewest(q, R) /\ IsNewest(r, R)
    BY <1>7, <1>8 DEF IsNewest
  <2> QED BY <1>1, <1>3, <2>1, NewestPlace
<1> QED BY <1>5, <1>6, <1>7, <1>8 DEF R, O

-----------------------------------------------------------------------------
(* Names. *)

\* No canonical row is above the tip, so no height leaves one out.
LEMMA NothingAbove ==
  ASSUME NameInv, NEW R, Dated(R), \A r \in R : r.registered_at <= tip.height,
         NEW unanchored \in BOOLEAN
  PROVE  UpTo(R, unanchored) = R
<1>1. tip.height \in Nat
  BY ChainBlocks
<1> QED BY <1>1 DEF UpTo, MaxHeight, Dated

\* The row of a name is its newest one, unless that revoked it.
LEMMA NameFound ==
  ASSUME NameInv, NEW n, NEW unanchored \in BOOLEAN
  PROVE  LET found == GetNamesAtBlockHeight({n}, unanchored)
         IN /\ ~Registered(n) => found = {}
            /\ Registered(n) =>
                 /\ LastOp(n) \in Operations(n)
                 /\ \E r \in RowsFor(n) :
                      /\ found = {r} /\ Matches(r, LastOp(n))
                      /\ \A q \in RowsFor(n) :
                           (\A p \in RowsFor(n) : ~Newer(p, q)) <=> q = r
<1> DEFINE found == GetNamesAtBlockHeight({n}, unanchored)
           R == RowsFor(n)
<1>1. found = {r \in R : (\A q \in R : ~Newer(q, r)) /\ r.status # "name-revoke"}
  <2>1. UpTo(VisibleNames, unanchored) = VisibleNames
    BY RowsDated, NothingAbove
  <2>2. {q \in UpTo(VisibleNames, unanchored) : q.name \in {n}} = R
    BY <2>1 DEF RowsFor
  <2>3. \A r \in R : r.name = n
    BY DEF RowsFor
  <2> HIDE DEF R
  <2>4. LatestRows(R) = {r \in R : \A q \in R : ~Newer(q, r)}
    BY <2>3 DEF LatestRows
  <2> QED BY <2>2, <2>4 DEF GetNamesAtBlockHeight
<1>2. CASE Operations(n) = {}
  <2>1. R = {}
    BY <1>2, RowsAreOperations
  <2> QED BY <1>1, <1>2, <2>1 DEF Registered
<1>3. CASE Operations(n) # {}
  <2>1. LastOp(n) \in Operations(n)
    BY <1>3, NewestRow
  <2>2. PICK r \in R : /\ Matches(r, LastOp(n))
                       /\ \A q \in R : (\A p \in R : ~Newer(p, q)) <=> q = r
    BY <1>3, NewestRow
  <2>3. Registered(n) <=> r.status # "name-revoke"
    BY <1>3, <2>2 DEF Registered, Matches
  <2> HIDE DEF R, found
  <2>4. r.status = "name-revoke" => found = {}
    BY <1>1, <2>2
  <2>5. r.status # "name-revoke" => found = {r}
    BY <1>1, <2>2
  <2> QED BY <2>1, <2>2, <2>3, <2>4, <2>5 DEF R, found
<1> QED BY <1>2, <1>3

\* GET /v1/names/:name.
LEMMA NameAnswered ==
  ASSUME NameInv, NEW n, NEW unanchored \in BOOLEAN
  PROVE  LET info == NameInfo(n, unanchored)
         IN IF ~Registered(n) THEN info.status = 404
            ELSE /\ info.status = 200
                 /\ info.address = LastOp(n).address /\ info.last_txid = LastOp(n).tx
<1>1. CASE ~Registered(n)
  <2>1. GetNamesAtBlockHeight({n}, unanchored) = {}
    BY <1>1, NameFound
  <2> QED BY <1>1, <2>1 DEF NameInfo
<1>2. CASE Registered(n)
  <2>1. PICK r \in RowsFor(n) : GetNamesAtBlockHeight({n}, unanchored) = {r} /\ Matches(r, LastOp(n))
    BY <1>2, NameFound
  <2>2. (CHOOSE q \in {r} : TRUE) = r /\ {r} # {}
    OBVIOUS
  <2>3. /\ NameInfo(n, unanchored).status = 200
        /\ NameInfo(n, unanchored).address = r.address
        /\ NameInfo(n, unanchored).last_txid = r.tx
    BY <2>1, <2>2 DEF NameInfo
  <2> QED BY <1>2, <2>1, <2>3 DEF Matches
<1> QED BY <1>1, <1>2

-----------------------------------------------------------------------------
(* Subdomains. *)

\* The row of entry s of attachment a of block b.
SubRow(b, a, s) ==
  [fqs |-> s.fqs, owner |-> s.owner, name |-> a.name, resolver |-> a.resolver,
   tx |-> a.tx, position |-> a.position, registered_at |-> Height[b], block |-> b]

LEMMA SubRows ==
  ASSUME NameInv
  PROVE  /\ \A q \in VisibleSubdomains :
              \E b \in attached \cap canonical : \E a \in AttachmentsOf[b] :
                \E s \in a.subdomains : q = SubRow(b, a, s)
         /\ \A b \in attached \cap canonical : \A a \in AttachmentsOf[b] :
              \A s \in a.subdomains : SubRow(b, a, s) \in VisibleSubdomains
<1>1. attached \cap rows["subdomains"] = attached \cap canonical
  BY ChainBlocks
<1> QED BY <1>1 DEF VisibleSubdomains, SubRow

\* The name of a subdomain is that of every attachment that has it.
LEMMA SubdomainName ==
  ASSUME NEW a \in AllAttachments, NEW s \in a.subdomains
  PROVE  Parent2LD(s.fqs) = a.name /\ s.fqs \in Subdomains
<1>1. PICK c \in AllAttachments : (\E q \in c.subdomains : q.fqs = s.fqs) /\ Parent2LD(s.fqs) = c.name
  BY DEF Parent2LD
<1>2. c.name = a.name
  BY <1>1, AttachmentAssumption
<1>3. s.fqs \in Subdomains
  BY DEF Subdomains
<1> QED BY <1>1, <1>2, <1>3

LEMMA SubRowsDated ==
  ASSUME NameInv
  PROVE  /\ Dated(VisibleSubdomains) /\ IsFiniteSet(VisibleSubdomains)
         /\ \A q \in VisibleSubdomains :
              /\ q.registered_at <= tip.height
              /\ q.fqs \in Subdomains /\ q.name = Parent2LD(q.fqs) /\ q.name \in Name
         /\ \A p, q \in VisibleSubdomains :
              /\ p.registered_at = q.registered_at /\ p.position = q.position
              /\ p.fqs = q.fqs
              => p = q
<1>1. ASSUME NEW b \in Block, NEW a \in AttachmentsOf[b]
      PROVE  /\ a \in AllAttachments /\ a \in Attachment
             /\ a.position \in Nat /\ a.name \in Name
  BY NamesAssumption DEF AllAttachments, Attachment
<1>2. attached \cap canonical \subseteq OnChain /\ OnChain \subseteq Block
  BY ChainBlocks
<1>3. ASSUME NEW q \in VisibleSubdomains
      PROVE  /\ q.registered_at \in Nat /\ q.position \in Nat
             /\ q.registered_at <= tip.height
             /\ q.fqs \in Subdomains /\ q.name = Parent2LD(q.fqs) /\ q.name \in Name
  <2>1. PICK b \in attached \cap canonical : \E a \in AttachmentsOf[b] :
               \E s \in a.subdomains : q = SubRow(b, a, s)
    BY SubRows
  <2>2. PICK a \in AttachmentsOf[b] : \E s \in a.subdomains : q = SubRow(b, a, s)
    BY <2>1
  <2>3. PICK s \in a.subdomains : q = SubRow(b, a, s)
    BY <2>2
  <2>4. b \in OnChain /\ b \in Block /\ a \in AllAttachments /\ a.position \in Nat /\ a.name \in Name
    BY <1>1, <1>2, <2>1, <2>2
  <2>5. Parent2LD(s.fqs) = a.name /\ s.fqs \in Subdomains
    BY <2>4, SubdomainName
  <2>6. Height[b] \in Nat /\ Height[b] <= tip.height
    BY <2>4, ChainBlocks
  <2> QED BY <2>3, <2>4, <2>5, <2>6 DEF SubRow
<1>4. ASSUME NEW p \in VisibleSubdomains, NEW q \in VisibleSubdomains,
             p.registered_at = q.registered_at, p.position = q.position, p.fqs = q.fqs
      PROVE  p = q
  <2>1. PICK b \in attached \cap canonical, c \in attached \cap canonical :
          /\ \E a \in AttachmentsOf[b] : \E s \in a.subdomains : p = SubRow(b, a, s)
          /\ \E a \in AttachmentsOf[c] : \E s \in a.subdomains : q = SubRow(c, a, s)
    BY SubRows
  <2>2. PICK a \in AttachmentsOf[b] : \E s \in a.subdomains : p = SubRow(b, a, s)
    BY <2>1
  <2>3. PICK s \in a.subdomains : p = SubRow(b, a, s)
    BY <2>2
  <2>4. PICK d \in AttachmentsOf[c] : \E t \in d.subdomains : q = SubRow(c, d, t)
    BY <2>1
  <2>5. PICK t \in d.subdomains : q = SubRow(c, d, t)
    BY <2>4
  <2>6. Height[b] = Height[c] /\ a.position = d.position /\ s.fqs = t.fqs
    BY <1>4, <2>3, <2>5 DEF SubRow
  <2>7. b = c /\ b \in Block
    BY <1>2, <2>6, ChainBlocks
  <2>8. a = d
    BY <2>6, <2>7, AttachmentAssumption
  <2>9. s = t
    BY <1>1, <2>6, <2>7, <2>8, AttachmentAssumption
  <2> QED BY <2>3, <2>5, <2>7, <2>8, <2>9
<1>5. IsFiniteSet(VisibleSubdomains)
  <2> DEFINE B == attached \cap canonical
             Of(b, a) == {SubRow(b, a, s) : s \in a.subdomains}
             OfBlock(b) == UNION {Of(b, a) : a \in AttachmentsOf[b]}
  <2>1. ASSUME NEW b \in Block, NEW a \in AttachmentsOf[b] PROVE IsFiniteSet(Of(b, a))
    <3> DEFINE f == [s \in a.subdomains |-> SubRow(b, a, s)]
    <3>1. f \in Surjection(a.subdomains, Of(b, a))
      BY DEF Surjection
    <3>2. IsFiniteSet(a.subdomains)
      BY <1>1, AttachmentAssumption
    <3> QED BY <3>1, <3>2, FS_Surjection
  <2>2. ASSUME NEW b \in Block PROVE IsFiniteSet(OfBlock(b))
    <3> DEFINE f == [a \in AttachmentsOf[b] |-> Of(b, a)]
               F == {Of(b, a) : a \in AttachmentsOf[b]}
    <3> HIDE DEF Of
    <3>1. f \in Surjection(AttachmentsOf[b], F)
      BY DEF Surjection
    <3>2. IsFiniteSet(AttachmentsOf[b])
      BY AttachmentAssumption
    <3>3. IsFiniteSet(F)
      BY <3>1, <3>2, FS_Surjection
    <3>4. \A T \in F : IsFiniteSet(T)
      BY <2>1
    <3> HIDE DEF F
    <3>5. IsFiniteSet(UNION F)
      BY <3>3, <3>4, FS_UNION
    <3> QED BY <3>5 DEF F
  <2>3. IsFiniteSet(B) /\ B \subseteq Block
    BY <1>2, FS_Subset DEF NameInv, EntityInv, ChainInv, TypeInv, TypeOK
  <2> DEFINE G == {OfBlock(b) : b \in B}
  <2>4. VisibleSubdomains \subseteq UNION G
    BY SubRows
  <2> HIDE DEF OfBlock, B
  <2>5. IsFiniteSet(G)
    <3> DEFINE g == [b \in B |-> OfBlock(b)]
    <3>1. g \in Surjection(B, G)
      BY DEF Surjection
    <3> QED BY <2>3, <3>1, FS_Surjection
  <2>6. \A T \in G : IsFiniteSet(T)
    BY <2>2, <2>3
  <2> HIDE DEF G
  <2>7. IsFiniteSet(UNION G)
    BY <2>5, <2>6, FS_UNION
  <2> QED BY <2>4, <2>7, FS_Subset
<1> QED BY <1>3, <1>4, <1>5 DEF Dated

SubsFor(f) == {q \in VisibleSubdomains : q.fqs = f}

MatchesEntry(q, e) ==
  /\ q.registered_at = e.registered_at /\ q.position = e.position
  /\ q.owner = e.owner /\ q.tx = e.tx

LEMMA SubRowsAreEntries ==
  ASSUME NameInv, NEW f
  PROVE  /\ \A q \in SubsFor(f) : \E e \in Entries(f) : MatchesEntry(q, e)
         /\ \A e \in Entries(f) : \E q \in SubsFor(f) : MatchesEntry(q, e)
<1> DEFINE Entry(b, a, s) == [registered_at |-> Height[b], position |-> a.position,
                              owner |-> s.owner, tx |-> a.tx]
<1>1. \A b, a, s : MatchesEntry(SubRow(b, a, s), Entry(b, a, s))
  BY DEF MatchesEntry, SubRow
<1>2. ASSUME NEW q \in SubsFor(f) PROVE \E e \in Entries(f) : MatchesEntry(q, e)
  <2>1. q \in VisibleSubdomains /\ q.fqs = f
    BY DEF SubsFor
  <2>2. PICK b \in attached \cap canonical : \E a \in AttachmentsOf[b] :
               \E s \in a.subdomains : q = SubRow(b, a, s)
    BY <2>1, SubRows
  <2>3. PICK a \in AttachmentsOf[b] : \E s \in a.subdomains : q = SubRow(b, a, s)
    BY <2>2
  <2>4. PICK s \in a.subdomains : q = SubRow(b, a, s)
    BY <2>3
  <2>5. s.fqs = f
    BY <2>1, <2>4 DEF SubRow
  <2>6. Entry(b, a, s) \in Entries(f)
    BY <2>5 DEF Entries
  <2> QED BY <1>1, <2>4, <2>6
<1>3. ASSUME NEW e \in Entries(f) PROVE \E q \in SubsFor(f) : MatchesEntry(q, e)
  <2>1. PICK b \in attached \cap canonical : \E a \in AttachmentsOf[b] :
               \E s \in a.subdomains : s.fqs = f /\ e = Entry(b, a, s)
    BY DEF Entries
  <2>2. PICK a \in AttachmentsOf[b] : \E s \in a.subdomains : s.fqs = f /\ e = Entry(b, a, s)
    BY <2>1
  <2>3. PICK s \in a.subdomains : s.fqs = f /\ e = Entry(b, a, s)
    BY <2>2
  <2>4. SubRow(b, a, s) \in SubsFor(f)
    <3>1. SubRow(b, a, s) \in VisibleSubdomains
      BY SubRows
    <3>2. SubRow(b, a, s).fqs = f
      BY <2>3 DEF SubRow
    <3> QED BY <3>1, <3>2 DEF SubsFor
  <2> QED BY <1>1, <2>3, <2>4
<1> QED BY <1>2, <1>3

\* The newest row of a subdomain is the last entry for it, and the only one.
LEMMA NewestSubRow ==
  ASSUME NameInv, NEW f, Entries(f) # {}
  PROVE  \E r \in SubsFor(f) :
           /\ MatchesEntry(r, Newest(Entries(f)))
           /\ \A q \in SubsFor(f) : (\A p \in SubsFor(f) : ~Newer(p, q)) <=> q = r
<1> DEFINE R == SubsFor(f)
           E == Entries(f)
<1>1. R # {} /\ IsFiniteSet(R) /\ Dated(R)
  BY SubRowsAreEntries, SubRowsDated, FS_Subset DEF SubsFor, Dated
<1>2. /\ \A r \in R : \E e \in E : MatchesEntry(r, e)
      /\ \A e \in E : \E r \in R : MatchesEntry(r, e)
  BY SubRowsAreEntries
<1>3. \A r, q \in R : r.registered_at = q.registered_at /\ r.position = q.position => r = q
  BY SubRowsDated DEF SubsFor
<1> HIDE DEF R, E
<1>4. \E e \in E : \A p \in E : ~Newer(p, e)
  <2>1. PICK r \in R : IsNewest(r, R)
    BY <1>1, NewestExists
  <2>2. PICK e \in E : MatchesEntry(r, e)
    BY <1>2
  <2>3. ASSUME NEW p \in E PROVE ~Newer(p, e)
    <3>1. PICK q \in R : MatchesEntry(q, p)
      BY <1>2
    <3>2. ~Newer(q, r)
      BY <2>1 DEF IsNewest
    <3> QED BY <2>2, <3>1, <3>2 DEF MatchesEntry, Newer
  <2> QED BY <2>3
<1>5. Newest(E) \in E /\ \A p \in E : ~Newer(p, Newest(E))
  BY <1>4 DEF Newest
<1>6. PICK r \in R : MatchesEntry(r, Newest(E))
  BY <1>2, <1>5
<1>7. ASSUME NEW p \in R PROVE ~Newer(p, r)
  <2>1. PICK e \in E : MatchesEntry(p, e)
    BY <1>2
  <2>2. ~Newer(e, Newest(E))
    BY <1>5
  <2> QED BY <1>6, <2>1, <2>2 DEF MatchesEntry, Newer
<1>8. ASSUME NEW q \in R, \A p \in R : ~Newer(p, q) PROVE q = r
  <2>1. IsNewest(q, R) /\ IsNewest(r, R)
    BY <1>7, <1>8 DEF IsNewest
  <2> QED BY <1>1, <1>3, <2>1, NewestPlace
<1> QED BY <1>6, <1>7, <1>8 DEF R, E

\* The row of a subdomain is its newest one, unless its name is revoked.
LEMMA SubdomainFound ==
  ASSUME NameInv, NEW f, NEW unanchored \in BOOLEAN
  PROVE  LET found == GetSubdomain(f, unanchored)
         IN /\ Entries(f) = {} \/ ~Registered(Parent2LD(f)) => found = {}
            /\ Entries(f) # {} /\ Registered(Parent2LD(f)) =>
                 \E r \in SubsFor(f) :
                   found = {r} /\ MatchesEntry(r, Newest(Entries(f)))
<1> DEFINE n == Parent2LD(f)
           R == SubsFor(f)
<1>1. {s \in UpTo(VisibleSubdomains, unanchored) : s.fqs = f} = R
  <2>1. UpTo(VisibleSubdomains, unanchored) = VisibleSubdomains
    BY SubRowsDated, NothingAbove
  <2> QED BY <2>1 DEF SubsFor
<1>2. GetNamesAtBlockHeight({n}, unanchored) = {} <=> ~Registered(n)
  BY NameFound
<1>3. GetSubdomain(f, unanchored) =
        IF ~Registered(n) THEN {} ELSE {s \in R : \A q \in R : ~Newer(q, s)}
  BY <1>1, <1>2 DEF GetSubdomain
<1>4. CASE Entries(f) = {}
  <2>1. R = {}
    BY <1>4, SubRowsAreEntries
  <2> QED BY <1>3, <1>4, <2>1
<1>5. CASE Entries(f) # {}
  <2>1. PICK r \in R : /\ MatchesEntry(r, Newest(Entries(f)))
                       /\ \A q \in R : (\A p \in R : ~Newer(p, q)) <=> q = r
    BY <1>5, NewestSubRow
  <2> HIDE DEF R
  <2>2. {s \in R : \A q \in R : ~Newer(q, s)} = {r}
    BY <2>1
  <2> QED BY <1>3, <1>5, <2>1, <2>2 DEF R
<1> QED BY <1>4, <1>5

LEMMA SubdomainAnswered ==
  ASSUME NameInv, NEW f, NEW unanchored \in BOOLEAN
  PROVE  LET info == SubdomainInfo(f, unanchored)
         IN IF Entries(f) = {} \/ ~Registered(Parent2LD(f)) THEN info.status # 200
            ELSE /\ info.status = 200
                 /\ info.address = Newest(Entries(f)).owner
                 /\ info.last_txid = Newest(Entries(f)).tx
<1>1. CASE Entries(f) = {} \/ ~Registered(Parent2LD(f))
  <2>1. GetSubdomain(f, unanchored) = {}
    BY <1>1, SubdomainFound
  <2>2. SubdomainInfo(f, unanchored).status \in {404, 302}
    BY <2>1 DEF SubdomainInfo
  <2> QED BY <1>1, <2>2
<1>2. CASE ~(Entries(f) = {} \/ ~Registered(Parent2LD(f)))
  <2>1. PICK r \in SubsFor(f) :
          GetSubdomain(f, unanchored) = {r} /\ MatchesEntry(r, Newest(Entries(f)))
    BY <1>2, SubdomainFound
  <2>2. (CHOOSE q \in {r} : TRUE) = r /\ {r} # {}
    OBVIOUS
  <2>3. /\ SubdomainInfo(f, unanchored).status = 200
        /\ SubdomainInfo(f, unanchored).address = r.owner
        /\ SubdomainInfo(f, unanchored).last_txid = r.tx
    BY <2>1, <2>2 DEF SubdomainInfo
  <2> QED BY <1>2, <2>1, <2>3 DEF MatchesEntry
<1> QED BY <1>1, <1>2

-----------------------------------------------------------------------------
(* Zonefiles. *)

\* Attachment a is that of the last operation on name n, and has come.
Arrived(n, a) ==
  /\ n \in Name /\ Registered(n) /\ LastOp(n).hash # NoHash
  /\ LastOp(n).block \in attached /\ a \in AttachmentsOf[LastOp(n).block]
  /\ a.name = n /\ a.tx = LastOp(n).tx

ArrivedFile(n, a) ==
  [name |-> n, hash |-> a.hash, tx |-> a.tx, block |-> LastOp(n).block, text |-> TRUE]

\* The attachments of the operation have its hash.
LEMMA ArrivedHash ==
  ASSUME NameInv, NEW n, NEW a, Arrived(n, a)
  PROVE  /\ LastOp(n).block \in Block /\ LastOp(n).block \in OnChain
         /\ \A d \in AttachmentsOf[LastOp(n).block] :
              d.name = n /\ d.tx = a.tx => d.hash = LastOp(n).hash
<1>1. LastOp(n) \in Operations(n)
  BY NewestRow DEF Arrived, Registered
<1>2. PICK b \in OnChain : \E i \in DOMAIN NameOpsOf[b] :
        /\ NameOpsOf[b][i].name = n /\ LastOp(n).block = b
        /\ LastOp(n).tx = NameOpsOf[b][i].tx /\ LastOp(n).hash = NameOpsOf[b][i].hash
  BY <1>1 DEF Operations
<1>3. PICK i \in DOMAIN NameOpsOf[b] :
        /\ NameOpsOf[b][i].name = n /\ LastOp(n).block = b
        /\ LastOp(n).tx = NameOpsOf[b][i].tx /\ LastOp(n).hash = NameOpsOf[b][i].hash
  BY <1>2
<1>4. b \in Block
  BY ChainBlocks
<1>5. /\ i \in DOMAIN BnsEventsOf[b] /\ BnsEventsOf[b][i].tx = a.tx
      /\ BnsEventsOf[b][i].name = n /\ BnsEventsOf[b][i].hash = LastOp(n).hash
  BY <1>3, <1>4, OperationFields DEF Arrived
<1>6. \A d \in AttachmentsOf[b] : d.name = n /\ d.tx = a.tx => d.hash = LastOp(n).hash
  BY <1>4, <1>5, AttachmentAssumption
<1> QED BY <1>3, <1>4, <1>6

\* An attachment brings the file of its name and of each of its subdomains.
AttachedFile(b, a, m) ==
  [name |-> m, hash |-> IF m = a.name THEN a.hash ELSE m, tx |-> a.tx,
   block |-> b, text |-> TRUE]

LEMMA FileAttached ==
  ASSUME NEW b, NEW a \in AttachmentsOf[b],
         NEW m \in {a.name} \cup {s.fqs : s \in a.subdomains}
  PROVE  AttachedFile(b, a, m) \in AttachedZonefiles(b)
<1> DEFINE Files(c) == {AttachedFile(b, c, n) : n \in {c.name} \cup {s.fqs : s \in c.subdomains}}
<1>1. AttachedZonefiles(b) = UNION {Files(c) : c \in AttachmentsOf[b]}
  BY DEF AttachedZonefiles, AttachedFile
<1>2. AttachedFile(b, a, m) \in Files(a)
  OBVIOUS
<1> HIDE DEF Files
<1> QED BY <1>1, <1>2

\* The one zonefile of the last operation is the attachment.
LEMMA OneFile ==
  ASSUME NameInv, NEW n, NEW a, Arrived(n, a), NEW r \in names,
         r.name = n, Matches(r, LastOp(n))
  PROVE  /\ r.zonefile_hash = a.hash
         /\ ArrivedFile(n, a) \in zonefiles
         /\ SameOperation(ArrivedFile(n, a), r)
         /\ \A z \in zonefiles : SameOperation(z, r) => z = ArrivedFile(n, a)
<1> DEFINE b == LastOp(n).block
           zf == ArrivedFile(n, a)
<1>1. /\ b \in Block /\ b \in attached /\ n \in Name /\ a \in AttachmentsOf[b]
      /\ \A d \in AttachmentsOf[b] : d.name = n /\ d.tx = a.tx => d.hash = a.hash
      /\ LastOp(n).hash = a.hash /\ b # Genesis
  BY ArrivedHash DEF Arrived, NameInv, FilesInv
<1>2. /\ r.block = b /\ r.tx = a.tx /\ r.name = n /\ r.zonefile_hash = a.hash
      /\ a.name = n
  BY <1>1 DEF Matches, Arrived
<1>3. SameOperation(zf, r)
  BY <1>1, <1>2 DEF SameOperation, SameKey, ArrivedFile
<1> HIDE DEF b
<1>4. zf \in zonefiles
  <2>1. zf \in AttachedZonefiles(b)
    <3>1. zf = AttachedFile(b, a, a.name)
      BY <1>2 DEF AttachedFile, ArrivedFile, b
    <3> QED BY <1>1, <3>1, FileAttached
  <2> QED BY <1>1, <2>1 DEF NameInv, FilesInv
<1>5. zf.hash = a.hash
  BY DEF ArrivedFile
<1> HIDE DEF zf
<1>6. ASSUME NEW z \in zonefiles, SameOperation(z, r) PROVE z = zf
  <2>1. z.name = n /\ z.tx = a.tx /\ z.block = b
    BY <1>2, <1>6 DEF SameOperation, SameKey
  <2>2. z.hash = a.hash
    <3>1. CASE \E q \in names : SameZonefile(z, FileOf(q))
      <4>1. PICK q \in names : SameZonefile(z, FileOf(q))
        BY <3>1
      <4>2. q.block = b /\ q.tx = a.tx /\ z.hash = q.zonefile_hash
        BY <2>1, <4>1 DEF SameZonefile, SameKey, FileOf
      <4>3. q = r
        BY <1>2, <4>2 DEF NameInv, RowsInv
      <4> QED BY <1>2, <4>2, <4>3
    <3>2. CASE z \in AttachedZonefiles(b)
      <4>1. PICK d \in AttachmentsOf[b] : \E m \in {d.name} \cup {s.fqs : s \in d.subdomains} :
              /\ z.name = m /\ z.tx = d.tx
              /\ z.hash = IF m = d.name THEN d.hash ELSE m
        BY <3>2 DEF AttachedZonefiles
      <4>2. d \in AllAttachments
        BY <1>1, <4>1 DEF AllAttachments
      <4>3. \A s \in d.subdomains : s.fqs # n
        BY <1>1, <4>2, AttachmentAssumption
      <4>4. d.name = n /\ d.tx = a.tx /\ z.hash = d.hash
        BY <2>1, <4>1, <4>3
      <4> QED BY <1>1, <4>4
    <3> QED BY <2>1, <3>1, <3>2 DEF NameInv, FilesInv
  <2>3. SameZonefile(z, zf)
    BY <1>2, <1>3, <1>5, <2>1, <2>2 DEF SameZonefile, SameOperation, SameKey
  <2> QED BY <1>4, <2>3 DEF NameInv, FilesInv
<1> QED BY <1>2, <1>3, <1>4, <1>6 DEF zf

\* The latest zonefile of a name is its last operation's.
LEMMA LatestFile ==
  ASSUME NameInv, NEW n, NEW a, Arrived(n, a), NEW r \in RowsFor(n),
         Matches(r, LastOp(n)), \A p \in RowsFor(n) : ~Newer(p, r),
         NEW J \in SUBSET ZonefileRows(n, FALSE), <<r, ArrivedFile(n, a)>> \in J
  PROVE  NewestFile(J) = {ArrivedFile(n, a)}
<1> DEFINE zf == ArrivedFile(n, a)
           jr == <<r, zf>>
<1>1. n \notin Subdomains
  BY AttachmentAssumption DEF Subdomains, Arrived
<1>2. UpTo(VisibleNames, FALSE) = VisibleNames
  BY RowsDated, NothingAbove
<1>3. \A j \in J : /\ j[1] \in RowsFor(n) /\ j[2] \in zonefiles
                   /\ j[2].name = n /\ j[2].tx = j[1].tx
                   /\ j[2].block = j[1].block /\ j[1].block # Genesis
  BY <1>1, <1>2 DEF ZonefileRows, RowsFor
<1>4. r \in names /\ r.name = n
  BY DEF RowsFor, VisibleNames
<1>5. \A z \in zonefiles : SameOperation(z, r) => z = zf
  BY <1>4, OneFile
<1>6. jr[1] = r /\ jr[2] = zf /\ jr \in J
  OBVIOUS
<1> HIDE DEF zf, jr
<1>7. \A q \in J : ~Newer(q[1], jr[1])
  BY <1>3, <1>6
<1>8. ASSUME NEW j \in J, \A q \in J : ~Newer(q[1], j[1]) PROVE j[2] = zf
  <2>1. ~Newer(r, j[1]) /\ ~Newer(j[1], r) /\ j[1] \in RowsFor(n)
    BY <1>3, <1>6, <1>8
  <2>2. j[1].registered_at = r.registered_at /\ j[1].position = r.position
    BY <2>1, RowsDated DEF Dated, Newer, RowsFor
  <2>3. j[1] = r
    BY <2>1, <2>2, RowsDated DEF RowsFor
  <2>4. SameOperation(j[2], r)
    BY <1>3, <1>4, <2>3 DEF SameOperation, SameKey, RowsFor
  <2> QED BY <1>3, <1>5, <2>4
<1>9. NewestFile(J) = {zf}
  <2> DEFINE P == {p \in J : \A q \in J : ~Newer(q[1], p[1])}
  <2>1. jr \in P
    BY <1>6, <1>7
  <2>2. \A j \in P : j[2] = zf
    BY <1>8
  <2>3. NewestFile(J) = {j[2] : j \in P}
    BY DEF NewestFile
  <2> HIDE DEF P
  <2> QED BY <1>6, <2>1, <2>2, <2>3
<1> QED BY <1>9 DEF zf

LEMMA ArrivedServed ==
  ASSUME NameInv, NEW n, NEW a, Arrived(n, a)
  PROVE  /\ NameInfo(n, FALSE).zonefile /\ NameInfo(n, FALSE).zonefile_hash = a.hash
         /\ \A z \in Zonefile(n, FALSE).body \cup HistoricalZonefile(n, a.hash, FALSE).body :
              z.hash = a.hash /\ z.text
<1> DEFINE zf == ArrivedFile(n, a)
           no == FALSE
<1>0. no \in BOOLEAN
  OBVIOUS
<1>1. PICK r \in RowsFor(n) :
        /\ GetNamesAtBlockHeight({n}, FALSE) = {r} /\ Matches(r, LastOp(n))
        /\ \A p \in RowsFor(n) : ~Newer(p, r)
  <2> HIDE DEF no
  <2>1. PICK r \in RowsFor(n) :
        /\ GetNamesAtBlockHeight({n}, no) = {r} /\ Matches(r, LastOp(n))
        /\ \A q \in RowsFor(n) : (\A p \in RowsFor(n) : ~Newer(p, q)) <=> q = r
    BY <1>0, NameFound DEF Arrived
  <2> QED BY <2>1 DEF no
<1>2. r \in names /\ r.name = n /\ r \in VisibleNames
  BY DEF RowsFor, VisibleNames
<1>3. /\ r.zonefile_hash = a.hash /\ zf \in zonefiles /\ SameOperation(zf, r)
  BY <1>1, <1>2, OneFile
<1>4. (CHOOSE q \in {r} : TRUE) = r /\ {r} # {}
  OBVIOUS
<1>5. zf.text /\ zf.hash = a.hash /\ zf.name = n
  BY DEF ArrivedFile
<1>6. NameInfo(n, FALSE).zonefile_hash = a.hash
  BY <1>1, <1>3, <1>4 DEF NameInfo
<1>7. NameInfo(n, FALSE).zonefile
  <2>1. NameInfo(n, FALSE).zonefile = \E z \in {y \in zonefiles : SameOperation(y, r)} : z.text
    BY <1>1, <1>4 DEF NameInfo
  <2>2. \E z \in {y \in zonefiles : SameOperation(y, r)} : z.text
    BY <1>3, <1>5
  <2> QED BY <2>1, <2>2
<1>8. n \notin Subdomains
  BY AttachmentAssumption DEF Subdomains, Arrived
<1> DEFINE J == ZonefileRows(n, FALSE)
           H == {j \in J : j[2].hash = a.hash}
<1>9. <<r, zf>> \in J
  <2>1. UpTo(VisibleNames, FALSE) = VisibleNames
    BY RowsDated, NothingAbove
  <2>2. r \in {q \in UpTo(VisibleNames, FALSE) : q.name = n}
    BY <1>2, <2>1
  <2> QED BY <1>3, <1>8, <2>2 DEF ZonefileRows, SameOperation, SameKey, ArrivedFile
<1>10. <<r, zf>> \in H
  BY <1>5, <1>9
<1>11. J \in SUBSET ZonefileRows(n, FALSE) /\ H \in SUBSET ZonefileRows(n, FALSE)
  OBVIOUS
<1> HIDE DEF J, H
<1>12. NewestFile(J) = {zf} /\ NewestFile(H) = {zf}
  BY <1>1, <1>9, <1>10, <1>11, LatestFile
<1>13. NameOfZonefile(n) = n
  BY <1>8 DEF NameOfZonefile
<1>14. GetLatestZoneFile(n, FALSE) = {zf} /\ GetHistoricalZoneFile(n, a.hash, FALSE) = {zf}
  BY <1>1, <1>4, <1>12, <1>13 DEF GetLatestZoneFile, GetHistoricalZoneFile, J, H
<1>15. Zonefile(n, FALSE).body = {zf} /\ HistoricalZonefile(n, a.hash, FALSE).body = {zf}
  BY <1>14 DEF Zonefile, HistoricalZonefile
<1> QED BY <1>5, <1>6, <1>7, <1>15

\* The subdomains of the attachment have their zonefiles too.
SubdomainsServed(a) == \A s \in a.subdomains : Zonefile(s.fqs, FALSE).status = 200

LEMMA ArrivedSubdomain ==
  ASSUME NameInv, NEW n, NEW a, Arrived(n, a)
  PROVE  SubdomainsServed(a)
<1> SUFFICES ASSUME NEW s \in a.subdomains PROVE Zonefile(s.fqs, FALSE).status = 200
  BY DEF SubdomainsServed
<1> DEFINE b == LastOp(n).block
           f == s.fqs
           zf == [name |-> f, hash |-> IF f = a.name THEN a.hash ELSE f, tx |-> a.tx,
                  block |-> b, text |-> TRUE]
           no == FALSE
<1>1. b \in Block /\ b \in OnChain /\ b \in attached /\ a \in AttachmentsOf[b] /\ a.name = n
  BY ArrivedHash DEF Arrived
<1>2. a \in AllAttachments /\ b \in canonical /\ b # Genesis
  BY <1>1, ChainBlocks DEF AllAttachments, OnChain, NameInv, FilesInv
<1>3. Parent2LD(f) = n /\ f \in Subdomains
  BY <1>1, <1>2, SubdomainName
<1>4. no \in BOOLEAN
  OBVIOUS
<1>5. GetNamesAtBlockHeight({n}, FALSE) # {}
  <2> HIDE DEF no
  <2>1. \E r \in RowsFor(n) : GetNamesAtBlockHeight({n}, no) = {r}
    BY <1>4, NameFound DEF Arrived
  <2> QED BY <2>1 DEF no
<1>6. zf \in zonefiles
  <2>1. zf \in AttachedZonefiles(b)
    <3>1. zf = AttachedFile(b, a, f)
      BY DEF AttachedFile
    <3> QED BY <1>1, <3>1, FileAttached
  <2> QED BY <1>1, <2>1 DEF NameInv, FilesInv
<1> DEFINE R == SubsFor(f)
           J == ZonefileRows(f, FALSE)
           owners == {q \in R : \E z \in zonefiles :
                        z.name = f /\ z.tx = q.tx /\ z.block = q.block /\ q.block # Genesis}
<1>7. J = {j \in R \X zonefiles : /\ j[2].name = f /\ j[2].tx = j[1].tx
                                  /\ j[2].block = j[1].block /\ j[1].block # Genesis}
  <2>1. UpTo(VisibleSubdomains, FALSE) = VisibleSubdomains
    BY SubRowsDated, NothingAbove
  <2>2. {q \in UpTo(VisibleSubdomains, FALSE) : q.fqs = f} = R
    BY <2>1 DEF SubsFor
  <2> HIDE DEF R, f
  <2> QED BY <1>3, <2>2 DEF ZonefileRows
<1>8. SubRow(b, a, s) \in R
  <2>1. SubRow(b, a, s) \in VisibleSubdomains
    BY <1>1, <1>2, SubRows
  <2>2. SubRow(b, a, s).fqs = f
    BY DEF SubRow
  <2> QED BY <2>1, <2>2 DEF SubsFor
<1>9. SubRow(b, a, s).tx = a.tx /\ SubRow(b, a, s).block = b
  BY DEF SubRow
<1>10. zf.name = f /\ zf.tx = a.tx /\ zf.block = b
  OBVIOUS
<1>11. IsFiniteSet(R) /\ Dated(R)
  BY SubRowsDated, FS_Subset DEF SubsFor, Dated
<1> HIDE DEF zf, b, R, J, f
<1>12. owners # {} /\ owners \subseteq R
  BY <1>2, <1>6, <1>8, <1>9, <1>10
<1>13. IsFiniteSet(owners) /\ Dated(owners)
  BY <1>11, <1>12, FS_Subset DEF Dated
<1>14. PICK o \in owners : \A q \in owners : ~Newer(q, o)
  <2> HIDE DEF owners
  <2> QED BY <1>12, <1>13, NewestExists DEF IsNewest
<1>15. PICK z \in zonefiles : z.name = f /\ z.tx = o.tx /\ z.block = o.block /\ o.block # Genesis
  BY <1>14
<1>16. <<o, z>> \in J /\ \A q \in J : q[1] \in owners
  BY <1>7, <1>12, <1>14, <1>15
<1>17. NewestFile(J) # {}
  <2> DEFINE P == {p \in J : \A q \in J : ~Newer(q[1], p[1])}
  <2>1. <<o, z>> \in P
    BY <1>14, <1>16
  <2>2. NewestFile(J) = {j[2] : j \in P}
    BY DEF NewestFile
  <2> HIDE DEF P
  <2> QED BY <2>1, <2>2
<1>18. NameOfZonefile(f) = n
  BY <1>3 DEF NameOfZonefile
<1>19. GetLatestZoneFile(f, FALSE) # {}
  BY <1>5, <1>17, <1>18 DEF GetLatestZoneFile, J
<1> QED BY <1>19 DEF Zonefile, f

\* For every tree of blocks, every set of BNS operations and attachments, and
\* every order in which the operations of a block reach the tables: after any
\* re-orgs and rolled back updates, names, subdomains and zonefiles are answered
\* with what the last operation of the canonical chain gave them.
THEOREM NamesRight == DSpec => []NamesFollowChain
<1>1. NameInv => NamesFollowChain
  <2> SUFFICES ASSUME NameInv PROVE NamesFollowChain
    OBVIOUS
  <2>1. ASSUME NEW n \in Name,
               Registered(n) /\ LastOp(n).hash # NoHash /\ LastOp(n).block \in attached,
               NEW a \in {x \in AttachmentsOf[LastOp(n).block] : x.name = n /\ x.tx = LastOp(n).tx}
        PROVE  /\ NameInfo(n, FALSE).zonefile /\ NameInfo(n, FALSE).zonefile_hash = a.hash
               /\ \A z \in Zonefile(n, FALSE).body \cup HistoricalZonefile(n, a.hash, FALSE).body :
                    z.hash = a.hash /\ z.text
               /\ \A s \in a.subdomains : Zonefile(s.fqs, FALSE).status = 200
    <3>1. Arrived(n, a)
      BY <2>1 DEF Arrived
    <3>2. SubdomainsServed(a)
      BY <3>1, ArrivedSubdomain, Zenon
    <3> QED BY <3>1, <3>2, ArrivedServed, Zenon DEF SubdomainsServed
  <2>2. ZonefilesServed
    BY <2>1 DEF ZonefilesServed
  <2> QED BY <2>2, NameAnswered, SubdomainAnswered DEF NamesFollowChain
<1> QED BY <1>1, NameStart, NameStep, PTL DEF DSpec

-----------------------------------------------------------------------------
(* Pages: LIMIT and OFFSET cut a list so that every entry is on one page. *)

Page(S, p) == ToSet(PageOf(SetToSeq(S), p))

\* SetToSeq lists the elements of a finite set, each once.
LEMMA Listed ==
  ASSUME NEW S, IsFiniteSet(S)
  PROVE  LET s == SetToSeq(S)
         IN /\ Cardinality(S) \in Nat /\ s \in Seq(S) /\ Len(s) = Cardinality(S)
            /\ \A i, j \in 1 .. Cardinality(S) : s[i] = s[j] => i = j
            /\ \A x \in S : \E i \in 1 .. Cardinality(S) : s[i] = x
<1> DEFINE n == Cardinality(S)
           s == SetToSeq(S)
<1>1. n \in Nat /\ ExistsBijection(1 .. n, S)
  BY FS_CardinalityType
<1>2. \E f \in [1 .. n -> S] : IsInjective(f)
  BY <1>1 DEF ExistsBijection, Bijection, Injection
<1>3. s \in [1 .. n -> S] /\ IsInjective(s)
  BY <1>2 DEF SetToSeq
<1>4. IsFiniteSet(1 .. n) /\ Cardinality(1 .. n) = n
  BY <1>1, FS_Interval
<1>5. s \in Injection(1 .. n, S)
  BY <1>3 DEF Injection
<1>6. s \in Surjection(1 .. n, S)
  BY <1>4, <1>5, FS_Injection
<1> HIDE DEF s, n
<1>7. s \in Seq(S) /\ Len(s) = n
  BY <1>1, <1>3
<1> QED BY <1>1, <1>3, <1>6, <1>7 DEF IsInjective, Surjection, s, n

\* The elements of a page.
LEMMA PageElements ==
  ASSUME NEW S, NEW s \in Seq(S), NEW p \in Nat
  PROVE  ToSet(PageOf(s, p)) =
           {s[i] : i \in {k \in 1 .. Len(s) : p * NamesPerPage < k /\ k <= (p + 1) * NamesPerPage}}
<1> DEFINE m == p * NamesPerPage
           h == (p + 1) * NamesPerPage
           k == IF Len(s) < h THEN Len(s) ELSE h
           I == {i \in 1 .. Len(s) : m < i /\ i <= h}
<1>1. m \in Nat /\ h \in Nat /\ k \in Nat /\ Len(s) \in Nat
  BY NamesPerPageAssumption
<1>2. I = m + 1 .. k
  <2> HIDE DEF m, h
  <2> QED BY <1>1
<1>3. PageOf(s, p) = SubSeq(s, m + 1, k)
  BY DEF PageOf
<1> HIDE DEF m, k, h, I
<1>4. /\ DOMAIN SubSeq(s, m + 1, k) = 1 .. (k - m)
      /\ \A i \in 1 .. (k - m) : SubSeq(s, m + 1, k)[i] = s[m + i]
  BY <1>1, SMT
<1>5. ToSet(SubSeq(s, m + 1, k)) = {s[i] : i \in m + 1 .. k}
  <2> DEFINE sub == SubSeq(s, m + 1, k)
  <2>1. ToSet(sub) = {sub[i] : i \in 1 .. (k - m)}
    BY <1>4 DEF ToSet
  <2>2. \A i \in 1 .. (k - m) : m + i \in m + 1 .. k /\ sub[i] = s[m + i]
    BY <1>1, <1>4
  <2>3. \A i \in m + 1 .. k : i - m \in 1 .. (k - m) /\ m + (i - m) = i
    BY <1>1
  <2>4. \A i \in m + 1 .. k : sub[i - m] = s[i]
    BY <1>4, <2>3
  <2> DEFINE J == {s[i] : i \in m + 1 .. k}
             T == {sub[i] : i \in 1 .. (k - m)}
  <2> HIDE DEF sub
  <2>5. \A x \in T : x \in J
    BY <2>2
  <2>6. \A x \in J : x \in T
    BY <2>3, <2>4
  <2> HIDE DEF J, T
  <2>7. T = J
    BY <2>5, <2>6
  <2> QED BY <2>1, <2>7 DEF J, T, sub
<1> QED BY <1>2, <1>3, <1>5 DEF I, m, h

\* Entry k of a list is on one page, one of the first k.
LEMMA OnePage ==
  ASSUME NEW k \in Nat \ {0}
  PROVE  \E p \in Nat :
           /\ p < k
           /\ \A q \in Nat : (q * NamesPerPage < k /\ k <= (q + 1) * NamesPerPage) <=> q = p
<1> DEFINE N == NamesPerPage
           After == {p \in Nat : k <= (p + 1) * N}
<1>1. N \in Nat \ {0}
  BY NamesPerPageAssumption
<1> HIDE DEF N
<1>2. \A p \in Nat : p * N \in Nat /\ (p + 1) * N = p * N + N /\ p <= p * N
  <2> SUFFICES ASSUME NEW p \in Nat PROVE p * N \in Nat /\ (p + 1) * N = p * N + N /\ p <= p * N
    OBVIOUS
  <2>1. p * N \in Nat /\ (p + 1) * N = p * N + N
    BY <1>1
  <2>2. p <= p * N
    <3>1. PICK d \in Nat : N = d + 1
      <4>1. N - 1 \in Nat /\ N = (N - 1) + 1
        BY <1>1
      <4> QED BY <4>1
    <3>2. p * N = p * d + p /\ p * d \in Nat
      BY <3>1
    <3> QED BY <3>2
  <2> QED BY <2>1, <2>2
<1>3. k \in After /\ After \subseteq Nat
  <2>1. k <= k * N /\ (k + 1) * N = k * N + N /\ k * N \in Nat
    BY <1>2
  <2>2. k <= (k + 1) * N
    BY <1>1, <2>1
  <2> QED BY <2>2
<1>4. PICK p \in After : \A m \in After : ~(<<m, p>> \in OpToRel(<, Nat))
  <2> HIDE DEF After
  <2> QED BY <1>3, NatLessThanWellFounded, WFMin, Zenon
<1>5. /\ p \in Nat /\ k <= (p + 1) * N
      /\ \A m \in Nat : m < p => ~(k <= (m + 1) * N)
  BY <1>4 DEF OpToRel
<1>6. p * N < k
  <2>1. CASE p = 0
    BY <1>1, <2>1
  <2>2. CASE p # 0
    <3>1. p - 1 \in Nat /\ p - 1 < p /\ (p - 1) + 1 = p
      BY <1>5, <2>2
    <3>2. ~(k <= p * N)
      BY <1>5, <3>1
    <3> QED BY <1>2, <1>5, <3>2
  <2> QED BY <2>1, <2>2
<1>7. \A a, c \in Nat : a < c => (a + 1) * N <= c * N
  <2> SUFFICES ASSUME NEW a \in Nat, NEW c \in Nat, a < c PROVE (a + 1) * N <= c * N
    OBVIOUS
  <2>1. PICK d \in Nat : c = (a + 1) + d
    <3>1. c - (a + 1) \in Nat /\ c = (a + 1) + (c - (a + 1))
      OBVIOUS
    <3> QED BY <3>1
  <2>2. c * N = (a + 1) * N + d * N /\ d * N \in Nat /\ (a + 1) * N \in Nat
    BY <1>1, <2>1
  <2> QED BY <2>2
<1>8. ASSUME NEW q \in Nat, q * N < k, k <= (q + 1) * N PROVE q = p
  <2>1. (q + 1) * N \in Nat /\ (p + 1) * N \in Nat /\ q * N \in Nat /\ p * N \in Nat
    BY <1>1, <1>5
  <2>2. CASE q < p
    <3>1. (q + 1) * N <= p * N
      BY <1>5, <1>7, <2>2
    <3> QED BY <1>6, <1>8, <2>1, <3>1
  <2>3. CASE p < q
    <3>1. (p + 1) * N <= q * N
      BY <1>5, <1>7, <2>3
    <3> QED BY <1>5, <1>8, <2>1, <3>1
  <2> QED BY <1>5, <2>2, <2>3
<1>9. p < k
  BY <1>2, <1>5, <1>6
<1> QED BY <1>5, <1>6, <1>8, <1>9 DEF N

\* Every element of a finite set is on one page, and pages have nothing else.
LEMMA PagesCover ==
  ASSUME NEW S, IsFiniteSet(S)
  PROVE  /\ \A p \in Nat : Page(S, p) \subseteq S
         /\ \A x \in S : \E p \in Nat :
              p < Cardinality(S) /\ \A q \in Nat : x \in Page(S, q) <=> q = p
<1> DEFINE s == SetToSeq(S)
           n == Cardinality(S)
           On(k, p) == p * NamesPerPage < k /\ k <= (p + 1) * NamesPerPage
<1>1. /\ n \in Nat /\ s \in Seq(S) /\ Len(s) = n
      /\ \A i, j \in 1 .. n : s[i] = s[j] => i = j
      /\ \A x \in S : \E i \in 1 .. n : s[i] = x
      /\ \A i \in 1 .. n : s[i] \in S
  BY Listed, ElementOfSeq
<1>2. \A p \in Nat : Page(S, p) = {s[i] : i \in {k \in 1 .. n : On(k, p)}}
  BY <1>1, PageElements DEF Page
<1> HIDE DEF s, n, On
<1>3. \A p \in Nat : Page(S, p) \subseteq S
  BY <1>1, <1>2
<1>4. ASSUME NEW x \in S
      PROVE  \E p \in Nat : p < n /\ \A q \in Nat : x \in Page(S, q) <=> q = p
  <2>1. PICK k \in 1 .. n : s[k] = x
    BY <1>1
  <2>2. k \in Nat \ {0} /\ k <= n
    BY <1>1, <2>1
  <2>3. PICK p \in Nat : p < k /\ \A q \in Nat : On(k, q) <=> q = p
    BY <2>2, OnePage DEF On
  <2>4. \A q \in Nat : x \in Page(S, q) <=> On(k, q)
    BY <1>1, <1>2, <2>1
  <2>5. p < n
    BY <1>1, <2>2, <2>3
  <2> QED BY <2>3, <2>4, <2>5
<1> QED BY <1>3, <1>4 DEF n

-----------------------------------------------------------------------------
(* The lists. *)

\* A set of rows has no fewer rows than names.
LEMMA FewerNames ==
  ASSUME NEW R, IsFiniteSet(R), NEW L \in SUBSET {r.name : r \in R}
  PROVE  IsFiniteSet(L) /\ Cardinality(L) \in Nat /\ Cardinality(R) \in Nat
         /\ Cardinality(L) <= Cardinality(R)
<1> DEFINE T == {r.name : r \in R}
           f == [r \in R |-> r.name]
<1>1. f \in Surjection(R, T)
  BY DEF Surjection
<1>2. IsFiniteSet(T) /\ Cardinality(T) <= Cardinality(R)
  BY <1>1, FS_Surjection
<1>3. IsFiniteSet(L) /\ Cardinality(L) <= Cardinality(T)
  BY <1>2, FS_Subset
<1> HIDE DEF T
<1> QED BY <1>2, <1>3, FS_CardinalityType

\* The latest rows of some names are the rows of their last operations.
NameRowsIn(N) == {r \in VisibleNames : r.name \in N}

LEMMA LatestAre ==
  ASSUME NameInv, NEW N
  PROVE  /\ \A r \in LatestRows(NameRowsIn(N)) :
              /\ r \in VisibleNames /\ r.name \in N /\ Operations(r.name) # {}
              /\ r.status = LastOp(r.name).status
         /\ \A n \in N : Operations(n) # {} =>
              \E r \in LatestRows(NameRowsIn(N)) : r.name = n /\ r.status = LastOp(n).status
<1>1. ASSUME NEW r \in LatestRows(NameRowsIn(N))
      PROVE  /\ r \in VisibleNames /\ r.name \in N /\ Operations(r.name) # {}
             /\ r.status = LastOp(r.name).status
  <2> DEFINE n == r.name
  <2>1. /\ r \in VisibleNames /\ n \in N /\ r \in RowsFor(n)
        /\ \A q \in RowsFor(n) : ~Newer(q, r)
    BY DEF LatestRows, RowsFor, NameRowsIn
  <2> HIDE DEF n
  <2>2. Operations(n) # {}
    BY <2>1, RowsAreOperations
  <2>3. PICK o \in RowsFor(n) :
          /\ Matches(o, LastOp(n))
          /\ \A q \in RowsFor(n) : (\A p \in RowsFor(n) : ~Newer(p, q)) <=> q = o
    BY <2>2, NewestRow
  <2>4. r = o
    BY <2>1, <2>3
  <2> QED BY <2>1, <2>2, <2>3, <2>4 DEF Matches, n
<1>2. ASSUME NEW n \in N, Operations(n) # {}
      PROVE  \E r \in LatestRows(NameRowsIn(N)) : r.name = n /\ r.status = LastOp(n).status
  <2>1. PICK o \in RowsFor(n) :
          /\ Matches(o, LastOp(n))
          /\ \A q \in RowsFor(n) : (\A p \in RowsFor(n) : ~Newer(p, q)) <=> q = o
    BY <1>2, NewestRow
  <2>2. o \in VisibleNames /\ o.name = n /\ \A p \in RowsFor(n) : ~Newer(p, o)
    BY <2>1 DEF RowsFor
  <2>3. o \in LatestRows(NameRowsIn(N))
    BY <2>2 DEF LatestRows, RowsFor, NameRowsIn
  <2> QED BY <2>1, <2>2, <2>3 DEF Matches
<1> QED BY <1>1, <1>2

\* The names of the rows that are found are the registered ones.
LEMMA FoundAre ==
  ASSUME NameInv, NEW N
  PROVE  {r.name : r \in GetNamesAtBlockHeight(N, FALSE)} = {n \in N : Registered(n)}
<1>1. {q \in UpTo(VisibleNames, FALSE) : q.name \in N} = NameRowsIn(N)
  <2>1. UpTo(VisibleNames, FALSE) = VisibleNames
    BY RowsDated, NothingAbove
  <2> QED BY <2>1 DEF NameRowsIn
<1> DEFINE L == LatestRows(NameRowsIn(N))
<1>2. /\ \A r \in L : r.name \in N /\ Operations(r.name) # {} /\ r.status = LastOp(r.name).status
      /\ \A n \in N : Operations(n) # {} => \E r \in L : r.name = n /\ r.status = LastOp(n).status
  BY LatestAre
<1>3. GetNamesAtBlockHeight(N, FALSE) = {r \in L : r.status # "name-revoke"}
  BY <1>1 DEF GetNamesAtBlockHeight
<1> HIDE DEF L
<1>4. \A r \in L : r.status # "name-revoke" => r.name \in N /\ Registered(r.name)
  BY <1>2 DEF Registered
<1>5. \A n \in N : Registered(n) => \E r \in L : r.name = n /\ r.status # "name-revoke"
  BY <1>2 DEF Registered
<1> QED BY <1>3, <1>4, <1>5

\* The names that are found.
FoundNames == {n \in Name : Registered(n)}

\* The rows of the last operations.
LatestNames == LatestRows(VisibleNames)

LEMMA LatestNamesAre ==
  ASSUME NameInv
  PROVE  /\ \A r \in LatestNames :
              /\ r \in VisibleNames /\ r.name \in Name /\ Operations(r.name) # {}
              /\ r.status = LastOp(r.name).status
         /\ \A n \in Name : Operations(n) # {} =>
              \E r \in LatestNames : r.name = n /\ r.status = LastOp(n).status
         /\ FoundNames = {r.name : r \in {q \in LatestNames : q.status # "name-revoke"}}
<1>1. VisibleNames = NameRowsIn(Name)
  BY RowsDated DEF NameRowsIn
<1>2. /\ \A r \in LatestNames :
           /\ r \in VisibleNames /\ r.name \in Name /\ Operations(r.name) # {}
           /\ r.status = LastOp(r.name).status
      /\ \A n \in Name : Operations(n) # {} =>
           \E r \in LatestNames : r.name = n /\ r.status = LastOp(n).status
  BY <1>1, LatestAre DEF LatestNames
<1> QED BY <1>2 DEF FoundNames, Registered

BodyOf(answer) == IF answer.status = 200 THEN answer.body ELSE {}

\* An error has no body, and stands for the empty page.
LEMMA BodyOfList ==
  ASSUME NEW answer, NEW list,
         \/ answer = [status |-> 200, body |-> list]
         \/ list = {} /\ answer = [status |-> 400]
  PROVE  BodyOf(answer) = list
<1>1. CASE list = {} /\ answer = [status |-> 400]
  <2>1. answer.status = 400
    BY <1>1
  <2> QED BY <1>1, <2>1 DEF BodyOf
<1>2. CASE answer = [status |-> 200, body |-> list]
  <2>1. answer.status = 200 /\ answer.body = list
    BY <1>2
  <2> QED BY <2>1 DEF BodyOf
<1> QED BY <1>1, <1>2

\* GET /v1/names.
LEMMA AllNamesPages ==
  ASSUME NameInv, NEW p \in Nat
  PROVE  BodyOf(AllNames(p, FALSE)) = Page(FoundNames, p)
<1>1. UpTo(VisibleNames, FALSE) = VisibleNames
  BY RowsDated, NothingAbove
<1>2. GetNamesList(p, FALSE) = Page(FoundNames, p)
  BY <1>1, LatestNamesAre DEF GetNamesList, LatestNames, Page
<1> DEFINE list == GetNamesList(p, FALSE)
           answer == AllNames(p, FALSE)
<1>3. answer = IF list = {} /\ p # 0 THEN [status |-> 400] ELSE [status |-> 200, body |-> list]
  BY DEF AllNames
<1> HIDE DEF list, answer
<1>4. BodyOf(answer) = list
  BY <1>3, BodyOfList
<1> QED BY <1>2, <1>4 DEF list, answer

\* The names of a namespace, those that were revoked included.
NamesOf(ns) == {r.name : r \in {q \in LatestNames : q.namespace = ns}}

\* The rows of a name have one namespace.
LEMMA OneNamespace ==
  ASSUME NameInv, NEW r \in VisibleNames, NEW q \in VisibleNames, r.name = q.name
  PROVE  r.namespace = q.namespace
<1>1. PICK i \in DOMAIN NameOpsOf[r.block] : RowOf(r, r.block, i)
  BY RowsDated
<1>2. PICK j \in DOMAIN NameOpsOf[q.block] : RowOf(q, q.block, j)
  BY RowsDated
<1>3. r.block \in Block /\ q.block \in Block /\ r.name \in Name
  BY RowsDated, ChainBlocks
<1>4. /\ i \in DOMAIN BnsEventsOf[r.block] /\ BnsEventsOf[r.block][i].name = r.name
      /\ BnsEventsOf[r.block][i].namespace = r.namespace
  BY <1>1, <1>3, OperationFields DEF RowOf
<1>5. /\ j \in DOMAIN BnsEventsOf[q.block] /\ BnsEventsOf[q.block][j].name = q.name
      /\ BnsEventsOf[q.block][j].namespace = q.namespace
  BY <1>2, <1>3, OperationFields DEF RowOf
<1> QED BY <1>3, <1>4, <1>5, NamesAssumption

\* GET /v1/namespaces/:tld/names: the revoked names leave gaps in its pages.
LEMMA NamespacePages ==
  ASSUME NameInv, NEW ns \in AllNamespaces(FALSE).body, NEW p \in Nat
  PROVE  BodyOf(NamespaceNames(ns, p, FALSE)) = Page(NamesOf(ns), p) \cap FoundNames
<1> DEFINE list == GetNamespaceNamesList(ns, p, FALSE)
           answer == NamespaceNames(ns, p, FALSE)
           cut == Page(NamesOf(ns), p)
<1>1. UpTo(VisibleNames, FALSE) = VisibleNames
  BY RowsDated, NothingAbove
<1>2. LatestRows({r \in VisibleNames : r.namespace = ns}) = {q \in LatestNames : q.namespace = ns}
  BY OneNamespace DEF LatestRows, LatestNames
<1>3. list = {r.name : r \in {q \in {o \in LatestNames : o.namespace = ns} :
                                q.name \in cut /\ q.status # "name-revoke"}}
  BY <1>1, <1>2 DEF GetNamespaceNamesList, NamesOf, Page
<1>4. cut \subseteq NamesOf(ns)
  <2>1. NamesOf(ns) \in SUBSET {r.name : r \in VisibleNames}
    BY DEF NamesOf, LatestNames, LatestRows
  <2>2. IsFiniteSet(NamesOf(ns))
    BY <2>1, RowsDated, FewerNames
  <2> QED BY <2>2, PagesCover
<1> HIDE DEF cut, list
<1>5. list = cut \cap FoundNames
  <2>1. ASSUME NEW n \in list PROVE n \in cut /\ n \in FoundNames
    BY <1>3, LatestNamesAre
  <2>2. ASSUME NEW n \in cut, n \in FoundNames PROVE n \in list
    <3>1. PICK r \in LatestNames : r.namespace = ns /\ r.name = n
      BY <1>4 DEF NamesOf
    <3>2. r.status # "name-revoke"
      BY <2>2, <3>1, LatestNamesAre DEF FoundNames, Registered
    <3> QED BY <1>3, <3>1, <3>2
  <2> QED BY <2>1, <2>2
<1>6. GetNamespace(ns, FALSE) # {}
  <2>1. AllNamespaces(FALSE).body = GetNamespaceList(FALSE)
    BY DEF AllNamespaces
  <2>2. ns \in GetNamespaceList(FALSE)
    BY <2>1
  <2> QED BY <2>2 DEF GetNamespaceList, GetNamespace
<1>7. \/ answer = [status |-> 200, body |-> list]
      \/ list = {} /\ answer = [status |-> 400]
  <2> DEFINE spaces == GetNamespace(ns, FALSE)
  <2>0. spaces # {}
    BY <1>6
  <2>1. answer = IF spaces = {} \/ (list = {} /\ p # 0)
                   THEN [status |-> 400] ELSE [status |-> 200, body |-> list]
    BY DEF NamespaceNames, list
  <2> HIDE DEF answer, spaces
  <2>2. CASE list = {} /\ p # 0
    BY <2>1, <2>2
  <2>3. CASE ~(list = {} /\ p # 0)
    BY <2>0, <2>1, <2>3
  <2> QED BY <2>2, <2>3
<1> HIDE DEF answer
<1>8. BodyOf(answer) = list
  BY <1>7, BodyOfList
<1> QED BY <1>5, <1>8 DEF answer, cut

\* The pages of list have what F leaves of S.
InPages(list, m, S, F) == \A p \in 0 .. m : list[p] = Page(S, p) \cap F

\* A list in pages has every element once.
LEMMA OnOnePage ==
  ASSUME NEW S, IsFiniteSet(S), NEW F, NEW m \in Nat, Cardinality(S) <= m,
         NEW list, InPages(list, m, S, F)
  PROVE  /\ UNION {list[p] : p \in 0 .. m} = S \cap F
         /\ \A x \in S \cap F : Cardinality({p \in 0 .. m : x \in list[p]}) = 1
<1>0. \A p \in 0 .. m : list[p] = Page(S, p) \cap F
  BY DEF InPages
<1>1. \A p \in 0 .. m : list[p] \subseteq S \cap F
  BY <1>0, PagesCover
<1>2. ASSUME NEW x \in S \cap F
      PROVE  \E p \in 0 .. m : {q \in 0 .. m : x \in list[q]} = {p}
  <2>1. PICK p \in Nat : p < Cardinality(S) /\ \A q \in Nat : x \in Page(S, q) <=> q = p
    BY PagesCover
  <2>2. p \in 0 .. m
    BY <2>1, FS_CardinalityType
  <2> QED BY <1>0, <2>1, <2>2
<1>3. UNION {list[p] : p \in 0 .. m} = S \cap F
  BY <1>1, <1>2
<1> QED BY <1>2, <1>3, FS_Singleton

\* What a list of subdomains names is found.
FoundSubdomains == {f \in Subdomains : Entries(f) # {} /\ Registered(Parent2LD(f))}

LEMMA SubdomainsFound ==
  ASSUME NameInv, NEW q \in VisibleSubdomains
  PROVE  q.fqs \in FoundSubdomains <=> Registered(q.name)
<1>1. q.fqs \in Subdomains /\ q.name = Parent2LD(q.fqs)
  BY SubRowsDated
<1>2. Entries(q.fqs) # {}
  BY SubRowsAreEntries DEF SubsFor
<1> QED BY <1>1, <1>2 DEF FoundSubdomains

LEMMA SubdomainHasRow ==
  ASSUME NameInv, NEW f \in FoundSubdomains
  PROVE  \E q \in VisibleSubdomains : q.fqs = f /\ Registered(q.name) /\ q.name \in Name
BY SubRowsAreEntries, SubRowsDated DEF SubsFor, FoundSubdomains

LEMMA AddressNamesFound ==
  ASSUME NameInv, NEW a
  PROVE  AddressNames(a).body \subseteq FoundNames \cup FoundSubdomains
<1> DEFINE mine == {s \in UpTo(VisibleSubdomains, FALSE) : s.owner = a}
           imported == {r.name : r \in {q \in VisibleNames : q.address = a /\ q.registered_at = 1}}
           moved == {n \in imported : custody[n].recipient \notin {{}, {a}}}
           own == (imported \ moved) \cup {n \in Name : a \in custody[n].recipient}
           asked == {s.name : s \in mine} \cup own
           valid == {r.name : r \in GetNamesAtBlockHeight(asked, FALSE)}
<1>1. AddressNames(a).body = (own \cap valid) \cup {s.fqs : s \in {q \in mine : q.name \in valid}}
  BY DEF AddressNames, GetNamesByAddressList
<1>2. valid = {n \in asked : Registered(n)}
  <2> HIDE DEF asked
  <2> QED BY FoundAre
<1>3. own \subseteq Name
  BY RowsDated
<1>4. mine \subseteq VisibleSubdomains
  BY DEF UpTo
<1> HIDE DEF own, valid, mine, asked
<1>5. \A n \in own \cap valid : n \in FoundNames
  BY <1>2, <1>3 DEF FoundNames
<1>6. \A q \in mine : q.name \in valid => q.fqs \in FoundSubdomains
  BY <1>2, <1>4, SubdomainsFound
<1> QED BY <1>1, <1>5, <1>6

LEMMA NameSubdomainsFound ==
  ASSUME NameInv
  PROVE  UNION {NameSubdomains(n, FALSE).body : n \in Name} = FoundSubdomains
<1> DEFINE Of(n) == NameSubdomains(n, FALSE).body
           no == FALSE
<1>0. no \in BOOLEAN
  OBVIOUS
<1>1. ASSUME NEW n
      PROVE  Of(n) = IF ~Registered(n) THEN {}
                     ELSE {s.fqs : s \in {q \in VisibleSubdomains : q.name = n}}
  <2>1. UpTo(VisibleSubdomains, no) = VisibleSubdomains
    <3> HIDE DEF no
    <3> QED BY <1>0, SubRowsDated, NothingAbove
  <2>2. GetNamesAtBlockHeight({n}, no) = {} <=> ~Registered(n)
    <3> HIDE DEF no
    <3> QED BY <1>0, NameFound
  <2>3. Of(n) = GetSubdomainsListInName(n, no)
    BY DEF NameSubdomains
  <2> HIDE DEF no, Of
  <2> QED BY <2>1, <2>2, <2>3 DEF GetSubdomainsListInName
<1> HIDE DEF Of
<1>2. ASSUME NEW n \in Name, NEW f \in Of(n) PROVE f \in FoundSubdomains
  <2>1. Registered(n) /\ \E q \in VisibleSubdomains : q.name = n /\ q.fqs = f
    BY <1>1
  <2> QED BY <2>1, SubdomainsFound
<1>3. ASSUME NEW f \in FoundSubdomains PROVE \E n \in Name : f \in Of(n)
  <2>1. PICK q \in VisibleSubdomains : q.fqs = f /\ Registered(q.name) /\ q.name \in Name
    BY SubdomainHasRow
  <2> QED BY <1>1, <2>1
<1>4. UNION {Of(n) : n \in Name} = FoundSubdomains
  BY <1>2, <1>3
<1> QED BY <1>4 DEF Of

LEMMA SubdomainPages ==
  ASSUME NameInv
  PROVE  FoundSubdomains \subseteq
           UNION {GetSubdomainsList(p, FALSE) : p \in 0 .. Cardinality(VisibleSubdomains)}
<1> DEFINE S == {s.fqs : s \in VisibleSubdomains}
           m == Cardinality(VisibleSubdomains)
<1>1. IsFiniteSet(S) /\ Cardinality(S) <= m /\ m \in Nat /\ Cardinality(S) \in Nat
  <2> DEFINE f == [s \in VisibleSubdomains |-> s.fqs]
  <2>1. f \in Surjection(VisibleSubdomains, S)
    BY DEF Surjection
  <2> HIDE DEF S
  <2> QED BY <2>1, SubRowsDated, FS_Surjection, FS_CardinalityType
<1>2. \A p : GetSubdomainsList(p, FALSE) = Page(S, p)
  <2>1. UpTo(VisibleSubdomains, FALSE) = VisibleSubdomains
    BY SubRowsDated, NothingAbove
  <2> QED BY <2>1 DEF GetSubdomainsList, Page
<1>3. FoundSubdomains \subseteq S
  BY SubdomainHasRow
<1> HIDE DEF S, m
<1>4. ASSUME NEW x \in S PROVE \E p \in 0 .. m : x \in Page(S, p)
  <2>1. PICK p \in Nat : p < Cardinality(S) /\ \A q \in Nat : x \in Page(S, q) <=> q = p
    BY <1>1, PagesCover
  <2> QED BY <1>1, <2>1
<1> QED BY <1>2, <1>3, <1>4 DEF m

\* Every registered name is on exactly one page of all names and of its
\* namespace's, revoked names and names of other forks on none, and whatever a
\* list names is found, for every number of names a page holds.
THEOREM ListsRight == DSpec => []ListedNamesResolve
<1>1. NameInv => ListedNamesResolve
  <2> SUFFICES ASSUME NameInv PROVE ListedNamesResolve
    OBVIOUS
  <2> DEFINE m == Cardinality(VisibleNames)
             pages == 0 .. m
             found == {n \in Name : NameInfo(n, FALSE).status = 200}
             foundSub == {f \in Subdomains : SubdomainInfo(f, FALSE).status = 200}
             all == [p \in pages |-> BodyOf(AllNames(p, FALSE))]
             list(ns) == [p \in pages |-> BodyOf(NamespaceNames(ns, p, FALSE))]
             mine(ns) == {n \in found : LastOp(n).name = n /\
                            \E r \in VisibleNames : r.name = n /\ r.namespace = ns}
             no == FALSE
  <2>0. no \in BOOLEAN
    OBVIOUS
  <2>1. found = FoundNames
    <3>1. \A n : NameInfo(n, no).status = 200 <=> Registered(n)
      <4> HIDE DEF no
      <4> QED BY <2>0, NameAnswered
    <3> QED BY <3>1 DEF FoundNames
  <2>2. foundSub = FoundSubdomains
    <3>1. \A f : SubdomainInfo(f, no).status = 200 <=> Entries(f) # {} /\ Registered(Parent2LD(f))
      <4> HIDE DEF no
      <4> QED BY <2>0, SubdomainAnswered
    <3>2. foundSub = {f \in Subdomains : SubdomainInfo(f, no).status = 200}
      OBVIOUS
    <3> HIDE DEF no, foundSub
    <3> QED BY <3>1, <3>2 DEF FoundSubdomains
  <2>3. m \in Nat /\ IsFiniteSet(VisibleNames)
    BY RowsDated, FS_CardinalityType
  <2> HIDE DEF found, foundSub, m
  <2>4. /\ UNION {all[p] : p \in pages} = found
        /\ \A n \in found : Cardinality({p \in pages : n \in all[p]}) = 1
    <3>1. FoundNames \in SUBSET {r.name : r \in VisibleNames}
      BY LatestNamesAre
    <3>2. IsFiniteSet(FoundNames) /\ Cardinality(FoundNames) <= m
      BY <2>3, <3>1, FewerNames DEF m
    <3>3. InPages(all, m, FoundNames, FoundNames)
      <4>1. ASSUME NEW p \in 0 .. m PROVE all[p] = Page(FoundNames, p) \cap FoundNames
        <5>1. p \in Nat
          BY <2>3
        <5>2. BodyOf(AllNames(p, FALSE)) = Page(FoundNames, p)
          BY <5>1, AllNamesPages
        <5>3. Page(FoundNames, p) \subseteq FoundNames
          BY <3>2, <5>1, PagesCover
        <5> QED BY <5>2, <5>3
      <4> QED BY <4>1 DEF InPages
    <3> HIDE DEF all
    <3> QED BY <2>1, <2>3, <3>2, <3>3, OnOnePage
  <2>5. ASSUME NEW ns \in AllNamespaces(FALSE).body
        PROVE  /\ UNION {list(ns)[p] : p \in pages} = mine(ns)
               /\ \A n \in mine(ns) : Cardinality({p \in pages : n \in list(ns)[p]}) = 1
    <3> DEFINE l == list(ns)
    <3>1. NamesOf(ns) \in SUBSET {r.name : r \in VisibleNames}
      BY DEF NamesOf, LatestNames, LatestRows
    <3>2. IsFiniteSet(NamesOf(ns)) /\ Cardinality(NamesOf(ns)) <= m
      BY <2>3, <3>1, FewerNames DEF m
    <3>3. InPages(l, m, NamesOf(ns), FoundNames)
      <4>1. ASSUME NEW p \in 0 .. m PROVE l[p] = Page(NamesOf(ns), p) \cap FoundNames
        <5>1. p \in Nat
          BY <2>3
        <5> QED BY <5>1, NamespacePages
      <4> QED BY <4>1 DEF InPages
    <3>4. mine(ns) = NamesOf(ns) \cap FoundNames
      <4>1. ASSUME NEW n \in mine(ns) PROVE n \in NamesOf(ns) /\ n \in FoundNames
        <5>1. n \in FoundNames /\ n \in Name /\ Operations(n) # {}
          BY <2>1 DEF FoundNames, Registered
        <5>2. PICK r \in VisibleNames : r.name = n /\ r.namespace = ns
          BY <4>1
        <5>3. PICK q \in LatestNames : q.name = n /\ q \in VisibleNames
          BY <5>1, LatestNamesAre
        <5>4. q.namespace = ns
          BY <5>2, <5>3, OneNamespace
        <5> QED BY <5>1, <5>3, <5>4 DEF NamesOf
      <4>2. ASSUME NEW n \in NamesOf(ns), n \in FoundNames PROVE n \in mine(ns)
        <5>1. PICK r \in LatestNames : r.name = n /\ r.namespace = ns /\ r \in VisibleNames
          BY LatestNamesAre DEF NamesOf
        <5>2. LastOp(n).name = n
          <6>1. LastOp(n) \in Operations(n)
            BY <4>2, NewestRow DEF FoundNames, Registered
          <6> QED BY <6>1 DEF Operations
        <5> QED BY <2>1, <4>2, <5>1, <5>2
      <4> QED BY <4>1, <4>2
    <3> HIDE DEF l, mine
    <3>5. /\ UNION {l[p] : p \in 0 .. m} = NamesOf(ns) \cap FoundNames
          /\ \A x \in NamesOf(ns) \cap FoundNames : Cardinality({p \in 0 .. m : x \in l[p]}) = 1
      <4> DEFINE S == NamesOf(ns)
                 F == FoundNames
      <4>1. m \in Nat /\ IsFiniteSet(S) /\ Cardinality(S) <= m /\ InPages(l, m, S, F)
        BY <2>3, <3>2, <3>3
      <4> HIDE DEF S, F
      <4>2. UNION {l[p] : p \in 0 .. m} = S \cap F
        BY <4>1, OnOnePage
      <4>3. \A x \in S \cap F : Cardinality({p \in 0 .. m : x \in l[p]}) = 1
        BY <4>1, OnOnePage, SMTT(30)
      <4> QED BY <4>2, <4>3 DEF S, F
    <3> QED BY <3>4, <3>5 DEF l
  <2>6. \A a \in Principal : AddressNames(a).body \subseteq found \cup foundSub
    BY <2>1, <2>2, AddressNamesFound
  <2>7. UNION {NameSubdomains(n, FALSE).body : n \in Name} = foundSub
    BY <2>2, NameSubdomainsFound
  <2>8. foundSub \subseteq
          UNION {GetSubdomainsList(p, FALSE) : p \in 0 .. Cardinality(VisibleSubdomains)}
    BY <2>2, SubdomainPages
  <2> QED BY <2>4, <2>5, <2>6, <2>7, <2>8 DEF ListedNamesResolve, BodyOf, found, foundSub, m
<1> QED BY <1>1, NameStart, NameStep, PTL DEF DSpec

=============================================================================
