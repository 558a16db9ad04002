----------------------------- MODULE Microblocks -----------------------------
(***************************************************************************)
(* Microblock streams on top of ChainStore: the microblocks table, the     *)
(* rows of their transactions, the unanchored half of chain_tip and the    *)
(* balances those rows moved.  updateMicroblocksInternal,                  *)
(* insertMicroblocksFromBlockUpdate, updateMicroCanonical,                 *)
(* handleMicroReorg, findUnanchoredMicroblocksAtChainTip and               *)
(* updateFtBalancesFromMicroblockReOrg of src/datastore/pg-write-store.ts. *)
(*                                                                         *)
(* TxsOf[b] are the transactions mined in block b itself, rows of          *)
(* ChainStore; the ones of the stream b confirms are rows of this module.  *)
(* The tables of a transaction's events are written by the same statements *)
(* under the same conditions as its row, which stands for them here.  The  *)
(* mempool writes of these handlers are the operators of Mempool.          *)
(***************************************************************************)
EXTENDS ChainStore, Sequences

CONSTANTS
  Microblock,   \* microblocks, by microblock_hash
  NoMicro,      \* parent_microblock_hash of a block that confirms no stream
  MbBase,       \* parent_index_block_hash: the block a stream builds on
  MbPrev,       \* microblock_parent_hash within the stream, or NoMicro
  MbTxs,        \* the transactions a microblock carries
  StreamTip,    \* parent_microblock_hash of a block
  Batch,        \* the /new_microblocks messages: runs of one stream
  CountBound    \* how far tx_count_unanchored may run away in the model

ASSUME MicroAssumption ==
  /\ NoMicro \notin Microblock
  /\ MbBase \in [Microblock -> Block]
  /\ MbPrev \in [Microblock -> Microblock \cup {NoMicro}]
  /\ \A m \in Microblock : MbPrev[m] # NoMicro => MbBase[MbPrev[m]] = MbBase[m]
  /\ MbTxs \in [Microblock -> SUBSET Tx]
  /\ StreamTip \in [Block -> Microblock \cup {NoMicro}]
  /\ \A b \in Block : StreamTip[b] # NoMicro => MbBase[StreamTip[b]] = Parent[b]
  /\ CountBound \in Nat
  /\ Batch \subseteq Seq(Microblock)
  /\ \A s \in Batch : /\ Len(s) > 0
                        /\ \A i \in 2 .. Len(s) : MbPrev[s[i]] = s[i - 1]

VARIABLES
  micro,       \* the committed tables
  microWork,   \* the same, as the open transaction sees them
  reorged      \* microblockHashes of the open transaction's re-org

uvars == <<vars, micro, microWork, reorged>>

\* A row of a table that microblocks fill; index is NoBlock until a block
\* confirms or orphans the microblock.
Flags == [canonical : BOOLEAN, micro : BOOLEAN, index : Block \cup {NoBlock}]
TxRow == [tx : Tx, mb : Microblock, canonical : BOOLEAN, micro : BOOLEAN,
          index : Block \cup {NoBlock}]

MicroState ==
  [stored : SUBSET Microblock, flags : [Microblock -> Flags],
   txs : SUBSET TxRow,
   tip : Microblock \cup {NoMicro},   \* chain_tip.microblock_hash
   anchored : Int,     \* what streams added to chain_tip.tx_count
   unanchored : Int,   \* chain_tip.tx_count_unanchored - tx_count
   applied : [Tx -> Int],   \* how often ft_balances counts a transaction
   clash : BOOLEAN]    \* an UPDATE gave a row of txs the key of another

Unset == [canonical |-> FALSE, micro |-> FALSE, index |-> NoBlock]

\* The types of the tables; chain_tip.microblock_hash, when there is one, is
\* the end of a stream on the block of the same chain_tip row.
UTypeOK ==
  /\ TypeOK
  /\ micro \in MicroState
  /\ microWork \in MicroState
  /\ reorged \subseteq Microblock
  /\ micro.tip # NoMicro => MbBase[micro.tip] = tip.block

-----------------------------------------------------------------------------
(* Streams. *)

\* S has microblock m and the ones before it in its stream.
ReachesBack(S, m) ==
  m \in S /\ \A x \in S : MbPrev[x] # NoMicro => MbPrev[x] \in S

\* A microblock and the ones before it in its stream, and no others.
MbChain ==
  [m \in Microblock |->
     {x \in Microblock : \A S \in SUBSET Microblock : ReachesBack(S, m) => x \in S}]

\* A stream has a first microblock, and a microblock finitely many
\* transactions.
ASSUME StreamAssumption ==
  \A m \in Microblock : IsFiniteSet(MbChain[m]) /\ IsFiniteSet(MbTxs[m])

\* The microblocks a block confirms, and those of them with transactions tell
\* the API that they exist.
StreamOf(b) == IF StreamTip[b] = NoMicro THEN {} ELSE MbChain[StreamTip[b]]

TxsIn(M) == {r \in Tx \X M : r[1] \in MbTxs[r[2]]}

TxRowsIn(M, flag, i) ==
  {[tx |-> r[1], mb |-> r[2], canonical |-> flag, micro |-> TRUE, index |-> i] :
     r \in TxsIn(M)}

AddTxRows_SameMicroblock(txs, new) ==
  txs \cup {r \in new : \A q \in txs : <<q.tx, q.mb>> # <<r.tx, r.mb>>}

\* ON CONFLICT DO NOTHING of unique_tx_id_index_block_hash_microblock_hash.
AddTxRows(txs, new) ==
  txs \cup {r \in new : \A q \in txs :
              <<q.tx, q.mb, q.index>> # <<r.tx, r.mb, r.index>>}

\* Microblocks a block, or a newer microblock, accepts or orphans: the query
\* does not look at their flags.
Candidates(u, base, height) ==
  {m \in u.stored : MbBase[m] = base \/ Height[MbBase[m]] + 1 = height}

Accepted(m) == IF m = NoMicro THEN {} ELSE MbChain[m]

\* The stream of m has an ancestor that is not stored.
MicroblockGap(u, base, height, m) ==
  m # NoMicro /\ ~(MbChain[m] \ {m} \subseteq Candidates(u, base, height))

Orphaned(u, base, height, m) == Candidates(u, base, height) \ Accepted(m)

-----------------------------------------------------------------------------
(* handleMicroReorg and updateMicroCanonical. *)

\* Two rows of a transaction and microblock would both be rows of block i.
Clashes(txs, hit, i) ==
  \E r \in hit : \E q \in txs \ {r} :
    q.tx = r.tx /\ q.mb = r.mb /\ (q \in hit \/ q.index = i)

HandleMicroReorg_AnyIndex(u, M, isCanonical, isMicro, i) ==
  LET hit == {r \in u.txs : r.mb \in M}
      set(r) == [r EXCEPT !.canonical = isCanonical, !.micro = isMicro,
                          !.index = i]
  IN [u EXCEPT
       !.flags = [m \in Microblock |-> IF m \in M THEN set(@[m]) ELSE @[m]],
       !.txs = (@ \ hit) \cup {set(r) : r \in hit},
       !.clash = @ \/ Clashes(u.txs, hit, i),
       !.unanchored = @ + (IF isMicro THEN Cardinality(hit)
                                      ELSE -Cardinality(hit))]

HandleMicroReorg_KeepsMicroblocks(u, M, isCanonical, isMicro, i) ==
  LET hit == {r \in u.txs : r.mb \in M /\ r.index \in {i, NoBlock}}
      set(r) == [r EXCEPT !.canonical = isCanonical, !.micro = isMicro,
                          !.index = i]
  IN [u EXCEPT
       !.txs = (@ \ hit) \cup {set(r) : r \in hit},
       !.clash = @ \/ Clashes(u.txs, hit, i),
       !.unanchored = @ + (IF isMicro THEN Cardinality(hit)
                                      ELSE -Cardinality(hit))]

\* Rows another block already claimed are left to that block.
HandleMicroReorg(u, M, isCanonical, isMicro, i) ==
  LET hit == {r \in u.txs : r.mb \in M /\ r.index \in {i, NoBlock}}
      set(r) == [r EXCEPT !.canonical = isCanonical, !.micro = isMicro,
                          !.index = i]
  IN [u EXCEPT
       !.flags = [m \in Microblock |-> IF m \in M THEN set(@[m]) ELSE @[m]],
       !.txs = (@ \ hit) \cup {set(r) : r \in hit},
       !.clash = @ \/ Clashes(u.txs, hit, i),
       !.unanchored = @ + (IF isMicro THEN Cardinality(hit)
                                      ELSE -Cardinality(hit))]

\* The microblocks at b's height that b does not confirm are orphaned first.
UpdateMicroCanonical(u, b, isCanonical) ==
  LET orphans == Orphaned(u, Parent[b], Height[b], StreamTip[b])
  IN HandleMicroReorg(HandleMicroReorg(u, orphans, isCanonical, FALSE, b),
                      Accepted(StreamTip[b]), isCanonical, TRUE, b)

-----------------------------------------------------------------------------
(* The re-org: each level orphans with the old block, then accepts with the *)
(* restored one, because a microblock has one row for both.                 *)

UBeginUpdate(b) ==
  /\ BeginUpdate(b)
  /\ reorged' = {}
  /\ UNCHANGED <<micro, microWork>>

\* markEntitiesCanonical on the transactions of streams: the balances move
\* with the rows it still finds to flip.
MarkMicroTxs(u, i, flag) ==
  LET hit == {r \in u.txs : r.index = i /\ r.canonical # flag}
      rowsOf(t) == Cardinality({r \in hit : r.tx = t})
  IN [u EXCEPT
       !.txs = (@ \ hit) \cup {[r EXCEPT !.canonical = flag] : r \in hit},
       !.anchored = @ + (IF flag THEN Cardinality(hit) ELSE -Cardinality(hit)),
       !.applied = [t \in Tx |-> IF flag THEN @[t] + rowsOf(t)
                                         ELSE @[t] - rowsOf(t)]]

\* The orphaned block gives up its stream and its rows.
MicroWithout(u, orphans) ==
  IF orphans = {} THEN u
  ELSE LET o == CHOOSE x \in orphans : TRUE
       IN MarkMicroTxs(UpdateMicroCanonical(u, o, FALSE), o, FALSE)

URestoreOrphanedChain ==
  /\ RestoreOrphanedChain
  /\ LET c == job.cursor
         demoted == MicroWithout(microWork, OrphanedBy(c))
     IN
     /\ microWork' = MarkMicroTxs(UpdateMicroCanonical(demoted, c, TRUE), c, TRUE)
     /\ reorged' = reorged \cup Accepted(StreamTip[c])
                     \cup Orphaned(demoted, Parent[c], Height[c], StreamTip[c])
  /\ UNCHANGED micro

-----------------------------------------------------------------------------
(* update(): the block's own stream. *)

\* insertMicroblocksFromBlockUpdate: what /new_microblocks did not bring.
MissingMicroblocks(u, b) == StreamOf(b) \ u.stored

InsertMissing(u, b) ==
  LET new == MissingMicroblocks(u, b)
  IN [u EXCEPT
       !.stored = @ \cup new,
       !.flags = [m \in Microblock |->
                    IF m \in new THEN [canonical |-> IsCanonical(b),
                                       micro |-> TRUE, index |-> b]
                                 ELSE @[m]],
       !.txs = AddTxRows(@, TxRowsIn(new, IsCanonical(b), b))]

\* Transactions of the stream whose rows the block did not find and claim are
\* inserted again, as rows of this block.
InsertStreamTxs(u, b) ==
  [u EXCEPT !.txs =
     IF b \in blocks THEN @
     ELSE AddTxRows(@, TxRowsIn(StreamOf(b), IsCanonical(b), b))]

StreamSize(b) == Cardinality(TxsIn(StreamOf(b)))

\* updateFtBalancesFromMicroblockReOrg: every row of the re-org's microblocks
\* is taken as one the re-org has just turned on or off.
MicroblockReorgBalances(u, M) ==
  LET on(t) == {r \in u.txs : r.mb \in M /\ r.tx = t /\ r.canonical /\ r.micro}
      off(t) == {r \in u.txs : r.mb \in M /\ r.tx = t} \ on(t)
  IN [t \in Tx |-> (u.applied[t] + Cardinality(on(t))) - Cardinality(off(t))]

BlockBalances(u, b) ==
  [t \in Tx |-> u.applied[t]
                  + Cardinality({r \in TxsIn(StreamOf(b)) : r[1] = t})]

\* The block's stream is stored, and claimed if the block is canonical.
ClaimStream(b) ==
  IF IsCanonical(b) THEN UpdateMicroCanonical(InsertMissing(microWork, b), b, TRUE)
                    ELSE InsertMissing(microWork, b)

\* The correction of the re-org's balances reads txs before the block's own
\* rows are inserted: it is queued first.
MicroAfterBlock(b) ==
  LET claimed == ClaimStream(b)
      u == InsertStreamTxs(claimed, b)
      counted == IF b \in blocks \/ ~IsCanonical(b) THEN u.applied
                 ELSE MicroblockReorgBalances(
                        [claimed EXCEPT !.applied = BlockBalances(u, b)], reorged)
  IN IF IsCanonical(b)
       THEN [u EXCEPT !.applied = counted, !.tip = NoMicro,
                      !.anchored = @ + StreamSize(b), !.unanchored = 0]
       ELSE [u EXCEPT !.applied = counted]

UCommitUpdate ==
  /\ CommitUpdate
  /\ micro' = MicroAfterBlock(job.block)
  /\ microWork' = micro'
  /\ reorged' = {}

UAbortUpdate ==
  /\ AbortUpdate
  /\ microWork' = micro
  /\ reorged' = {}
  /\ UNCHANGED micro

-----------------------------------------------------------------------------
(* updateMicroblocksInternal: one message, one SQL transaction. *)

AsSet(s) == {s[i] : i \in DOMAIN s}

\* The microblocks before the first one that is already stored; if there is
\* one, the rest of the message and all its transactions are skipped.
NewPrefix(u, s) ==
  {s[i] : i \in {j \in DOMAIN s : \A k \in 1 .. j : s[k] \notin u.stored}}

InsertMicroblockData(u, s) ==
  LET new == NewPrefix(u, s)
  IN [u EXCEPT
       !.stored = @ \cup new,
       !.flags = [m \in Microblock |->
                    IF m \in new THEN [canonical |-> TRUE, micro |-> TRUE,
                                       index |-> NoBlock]
                                 ELSE @[m]],
       !.txs = IF new = AsSet(s)
                 THEN AddTxRows(@, TxRowsIn(new, TRUE, NoBlock)) ELSE @]

\* The message is about the block at the tip of the chain.
BuildsOnTip_Any(s) == tip.block # NoBlock

BuildsOnTip(s) == \A m \in AsSet(s) : MbBase[m] = tip.block

\* A gap in the stream rolls the transaction back, and is logged.
MicroGap(u, s) == MicroblockGap(u, tip.block, tip.height + 1, s[Len(s)])

UpdateMicroblocks(s) ==
  /\ job.phase = "idle"
  /\ BuildsOnTip(s)
  /\ LET inserted == InsertMicroblockData(micro, s)
         last == s[Len(s)]
         u == HandleMicroReorg(
                inserted, Orphaned(inserted, tip.block, tip.height + 1, last),
                TRUE, FALSE, NoBlock)
         n == Cardinality(TxsIn(AsSet(s)))
     IN
     /\ ~MicroGap(inserted, s)
     /\ u.unanchored + n \in -CountBound .. CountBound
     /\ micro' = [u EXCEPT !.tip = last,
                           !.unanchored = IF MbPrev[last] = NoMicro THEN n
                                                                    ELSE @ + n]
  /\ microWork' = micro'
  /\ UNCHANGED <<vars, reorged>>

-----------------------------------------------------------------------------

UInit ==
  /\ Init
  /\ micro = [stored |-> {}, flags |-> [m \in Microblock |-> Unset],
              txs |-> {}, tip |-> NoMicro, anchored |-> 0, unanchored |-> 0,
              applied |-> [t \in Tx |-> 0], clash |-> FALSE]
  /\ microWork = micro
  /\ reorged = {}

UNext ==
  \/ \E b \in Block : UBeginUpdate(b)
  \/ URestoreOrphanedChain
  \/ UCommitUpdate
  \/ UAbortUpdate
  \/ \E s \in Batch : UpdateMicroblocks(s)

USpec == UInit /\ [][UNext]_uvars

-----------------------------------------------------------------------------
(* Properties. *)

\* The microblocks the canonical chain confirms.
ConfirmedStream == UNION {StreamOf(b) : b \in canonical}

\* What a reader of the anchored chain sees.
VisibleMicroTxs ==
  {r \in micro.txs : r.canonical /\ r.micro /\ r.index # NoBlock}

\* Whatever forks of streams and of blocks came in whatever order, the
\* anchored transactions a reader sees are those of the streams that the
\* canonical blocks confirm, each under the block that confirms it and once:
\* "there is only 1 row per microblock hash, and both the orphaned blocks at
\* this height and the canonical block can be pointed to the same
\* microblocks".
VisibleFollowsChain ==
  /\ \A r \in VisibleMicroTxs : r.index \in canonical /\ r.mb \in StreamOf(r.index)
  /\ \A b \in canonical : \A x \in TxsIn(StreamOf(b)) :
       \E r \in VisibleMicroTxs : r.tx = x[1] /\ r.mb = x[2] /\ r.index = b

\* No row is ever updated to the key of another row of txs: the statement
\* would fail with unique_tx_id_index_block_hash_microblock_hash, and so would
\* every later delivery of the same block.
MicroTxKeysUnique == ~micro.clash /\ ~microWork.clash

\* A microblock row says canonical and micro-canonical, and names a block,
\* exactly when a canonical block confirms it.
MicroblocksFollowChain ==
  \A m \in micro.stored :
    LET f == micro.flags[m]
    IN (f.canonical /\ f.micro /\ f.index # NoBlock) <=> m \in ConfirmedStream

\* "we must discount the balances generated by their txs which are now also
\* reorged": ft_balances counts a transaction of a stream as often as a
\* reader of the anchored chain sees it.
StreamBalancesMatchRows ==
  \A t \in Tx : micro.applied[t] =
                   Cardinality({r \in VisibleMicroTxs : r.tx = t})

=============================================================================
