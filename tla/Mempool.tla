------------------------------- MODULE Mempool -------------------------------
(***************************************************************************)
(* The mempool_txs table and chain_tip.mempool_tx_count, on top of         *)
(* ChainStore: pruning and restoring transactions as blocks are mined and  *)
(* orphaned, replace-by-fee, garbage collection, and the mempool messages  *)
(* of the node.  pruneMempoolTxs, restoreMempoolTxs, insertDbMempoolTxs,   *)
(* updateReplacedByFeeStatusForTxIds, deleteGarbageCollectedMempoolTxs and *)
(* dropMempoolTxs of src/datastore/pg-write-store.ts.                      *)
(*                                                                         *)
(* Every action that belongs to update() conjoins the ChainStore action    *)
(* with what the same SQL transaction writes to the mempool.               *)
(***************************************************************************)
EXTENDS ChainStore

CONSTANTS
  Attr,        \* per transaction: its sender, sponsor, nonce, fee and index
  Address,
  NoAddress,   \* sponsor of a transaction that is not sponsored
  NoTx,
  MempoolAge   \* blocks a transaction may wait: 256 in the code

ASSUME AttrAssumption ==
  /\ Attr \in [Tx -> [sender : Address, sponsor : Address \cup {NoAddress},
                      nonce : Nat, fee : Nat, index : Nat]]
  /\ NoAddress \notin Address
  /\ NoTx \notin Tx
  /\ MempoolAge \in Nat
  \* Equal fees are ordered by receipt time, which is not modelled.
  /\ \A t, u \in Tx : Attr[t].fee = Attr[u].fee => t = u
  /\ \A t, u \in Tx : Attr[t].index = Attr[u].index => t = u

VARIABLES
  mempool,      \* the committed mempool_txs rows and mempool_tx_count
  mempoolWork   \* the same, as the open transaction sees them

mvars == <<vars, mempool, mempoolWork>>

Row == [pruned : BOOLEAN, status : {"absent", "pending", "rbf", "gc", "dropped"},
        replaced_by : Tx \cup {NoTx}, receipt : Nat]
MempoolState == [rows : [Tx -> Row], count : Nat]

Absent == [pruned |-> TRUE, status |-> "absent", replaced_by |-> NoTx,
           receipt |-> 0]

MTypeOK ==
  /\ TypeOK
  /\ mempool \in MempoolState
  /\ mempoolWork \in MempoolState

Stored(m) == {t \in Tx : m.rows[t].status # "absent"}
Pending(m) == {t \in Stored(m) : ~m.rows[t].pruned}

\* The transactions with a canonical row, under table state rs.
Mined(rs) == UNION {TxsOf[b] : b \in rs["txs"]}

-----------------------------------------------------------------------------
(* Transactions that compete for a nonce. *)

Payer(t) == IF Attr[t].sponsor = NoAddress THEN Attr[t].sender
                                           ELSE Attr[t].sponsor
Group(t) == <<Payer(t), Attr[t].nonce>>
InGroup(t, g) ==
  /\ Attr[t].nonce = g[2]
  /\ g[1] \in {Attr[t].sender, Attr[t].sponsor}

\* The rows a set of mined or orphaned transactions affects: their own, and
\* those of the same payers with the same nonce.
Affected(m, T) ==
  {r \in Stored(m) : r \in T \/ \E t \in T : InGroup(r, Group(t))}

\* Rows of T overwritten by Upd, and the count moved by d.
SetRows(m, T, Upd(_), d) ==
  [rows |-> [t \in Tx |-> IF t \in T THEN Upd(m.rows[t]) ELSE m.rows[t]],
   count |-> m.count + d]

PruneMempoolTxs_OwnOnly(m, T) ==
  LET gone == Pending(m) \cap T
  IN SetRows(m, gone, LAMBDA r : [r EXCEPT !.pruned = TRUE,
                                           !.replaced_by = NoTx],
             -Cardinality(gone))

PruneMempoolTxs(m, T) ==
  LET gone == Pending(m) \cap Affected(m, T)
  IN SetRows(m, gone, LAMBDA r : [r EXCEPT !.pruned = TRUE,
                                           !.replaced_by = NoTx],
             -Cardinality(gone))

-----------------------------------------------------------------------------
(* updateReplacedByFeeStatusForTxIds *)

\* The canonical transaction of the group mined last: by height, then index.
MinedHeight(rs, t) ==
  LET hs == {Height[IF b = Genesis THEN boot ELSE b] :
               b \in {x \in rs["txs"] : t \in TxsOf[x]}}
  IN CHOOSE h \in hs : \A k \in hs : k <= h

LatestMined(rs, g) ==
  LET ms == {t \in Mined(rs) : InGroup(t, g)}
  IN CHOOSE t \in ms : \A u \in ms :
       \/ MinedHeight(rs, u) < MinedHeight(rs, t)
       \/ /\ MinedHeight(rs, u) = MinedHeight(rs, t)
          /\ Attr[u].index <= Attr[t].index

\* Pruned rows compete too.
HighestFee(m, g) ==
  LET ms == {t \in Stored(m) : InGroup(t, g)}
  IN CHOOSE t \in ms : \A u \in ms : Attr[u].fee <= Attr[t].fee

WinningTx(m, rs, g) ==
  IF \E t \in Mined(rs) : InGroup(t, g) THEN LatestMined(rs, g)
                                        ELSE HighestFee(m, g)

TxsToPrune(m, rs, groups) ==
  {t \in Stored(m) : \E g \in groups : InGroup(t, g) /\ WinningTx(m, rs, g) # t}

\* The scalar subquery that looks for the winner finds two rows: the query,
\* and the transaction with it, fails.
AmbiguousWinner(m, rs, T) ==
  LET groups == {Group(t) : t \in T}
  IN \E t \in TxsToPrune(m, rs, groups) : \E g, h \in groups :
       g # h /\ InGroup(t, g) /\ InGroup(t, h)

UpdateReplacedByFee_PrunedStayCounted(m, rs, T) ==
  LET groups == {Group(t) : t \in T}
      losers == TxsToPrune(m, rs, groups)
      winner(t) == WinningTx(m, rs, CHOOSE g \in groups : InGroup(t, g))
  IN [rows |-> [t \in Tx |->
                 IF t \in losers
                   THEN [m.rows[t] EXCEPT !.pruned = TRUE, !.status = "rbf",
                                          !.replaced_by = winner(t)]
                   ELSE m.rows[t]],
      count |-> m.count - Cardinality(losers)]

\* The losers of the groups of T are pruned, and name their winner.
UpdateReplacedByFee(m, rs, T) ==
  LET groups == {Group(t) : t \in T}
      losers == TxsToPrune(m, rs, groups)
      winner(t) == WinningTx(m, rs, CHOOSE g \in groups : InGroup(t, g))
  IN [rows |-> [t \in Tx |->
                 IF t \in losers
                   THEN [m.rows[t] EXCEPT !.pruned = TRUE, !.status = "rbf",
                                          !.replaced_by = winner(t)]
                   ELSE m.rows[t]],
      count |-> m.count - Cardinality(losers \cap Pending(m))]

-----------------------------------------------------------------------------
(* insertDbMempoolTxs and restoreMempoolTxs *)

Fresh == [pruned |-> FALSE, status |-> "pending", replaced_by |-> NoTx,
          receipt |-> tip.height]

\* Rows pruned earlier come back, unless they are mined.
Revived(m, rs, T) == ((T \cap Stored(m)) \ Pending(m)) \ Mined(rs)

InsertRows(m, rs, T) ==
  LET new == Revived(m, rs, T) \cup (T \ Stored(m))
      m1 == SetRows(m, new, LAMBDA r : Fresh, Cardinality(new))
      mined == T \cap Mined(rs) \cap Pending(m1)
  IN SetRows(m1, mined, LAMBDA r : [r EXCEPT !.pruned = TRUE],
             -Cardinality(mined))

InsertDbMempoolTxs(m, rs, T) ==
  UpdateReplacedByFee(InsertRows(m, rs, T), rs,
                      Revived(m, rs, T) \cup (T \ Stored(m)))

InsertFails(m, rs, T) ==
  AmbiguousWinner(InsertRows(m, rs, T), rs,
                  Revived(m, rs, T) \cup (T \ Stored(m)))

\* Pruned rows the orphaned transactions affect are pending again...
RestoredRows(m, T) == Affected(m, T) \ Pending(m)

Unpruned(m, T) ==
  SetRows(m, RestoredRows(m, T),
          LAMBDA r : [r EXCEPT !.pruned = FALSE, !.status = "pending",
                               !.replaced_by = NoTx],
          Cardinality(RestoredRows(m, T)))

\* ... and the orphaned transactions that had no pruned row are inserted.
RestoreMempoolTxs_NoInsert(m, rs, T) == Unpruned(m, T)

RestoreMempoolTxs(m, rs, T) ==
  InsertDbMempoolTxs(Unpruned(m, T), rs, T \ RestoredRows(m, T))

RestoreFails(m, rs, T) ==
  InsertFails(Unpruned(m, T), rs, T \ RestoredRows(m, T))

-----------------------------------------------------------------------------
(* deleteGarbageCollectedMempoolTxs: by age in blocks, at the old tip. *)

DeleteGarbageCollected(m) ==
  LET old == {t \in Pending(m) : m.rows[t].receipt + MempoolAge <= tip.height}
  IN SetRows(m, old, LAMBDA r : [r EXCEPT !.pruned = TRUE, !.status = "gc"],
             -Cardinality(old))

-----------------------------------------------------------------------------
(* The actions. *)

MInit ==
  /\ Init
  /\ mempool = [rows |-> [t \in Tx |-> Absent], count |-> 0]
  /\ mempoolWork = mempool

MBeginUpdate(b) == BeginUpdate(b) /\ UNCHANGED <<mempool, mempoolWork>>

\* One level of restoreOrphanedChain: the orphan's transactions, no longer
\* canonical, go back to the mempool before the restored block's leave it.
OrphanTxs(demoted) == Mined([t \in {"txs"} |-> work.rows["txs"] \ demoted["txs"]])
RestoredTxs(promoted, demoted) ==
  Mined([t \in {"txs"} |-> promoted["txs"] \ demoted["txs"]])

MRestoreOrphanedChain ==
  /\ RestoreOrphanedChain
  /\ LET demoted == RowsWithout(OrphanedBy(job.cursor))
         orphaned == OrphanTxs(demoted)
         mined == RestoredTxs(work'.rows, demoted)
     IN
     /\ ~RestoreFails(mempoolWork, demoted, orphaned)
     /\ mempoolWork' = PruneMempoolTxs(
                         RestoreMempoolTxs(mempoolWork, demoted, orphaned), mined)
  /\ UNCHANGED mempool

\* update() prunes a canonical block's transactions; once a new block's rows
\* are in, garbage collection and replace-by-fee run, for a block that is
\* not canonical too.
PrunedForBlock(b) ==
  IF IsCanonical(b) THEN PruneMempoolTxs(mempoolWork, TxsOf[b]) ELSE mempoolWork

MempoolAfterBlock(b) ==
  IF b \in blocks THEN PrunedForBlock(b)
  ELSE UpdateReplacedByFee(DeleteGarbageCollected(PrunedForBlock(b)),
                           NewRows(b), TxsOf[b])

BlockFails(b) ==
  b \notin blocks
    /\ AmbiguousWinner(DeleteGarbageCollected(PrunedForBlock(b)),
                       NewRows(b), TxsOf[b])

MCommitUpdate ==
  /\ CommitUpdate
  /\ ~BlockFails(job.block)
  /\ mempool' = MempoolAfterBlock(job.block)
  /\ mempoolWork' = mempool'

MAbortUpdate ==
  /\ AbortUpdate
  /\ mempoolWork' = mempool
  /\ UNCHANGED mempool

\* The replace-by-fee query of the open transaction fails, and rolls it back.
MFailUpdate ==
  /\ \/ /\ job.phase = "restore"
        /\ LET demoted == RowsWithout(OrphanedBy(job.cursor))
           IN RestoreFails(mempoolWork, demoted, OrphanTxs(demoted))
     \/ job.phase = "insert" /\ BlockFails(job.block)
  /\ MAbortUpdate

\* POST /new_mempool_tx
UpdateMempoolTxs(T) ==
  /\ job.phase = "idle"
  /\ ~InsertFails(mempool, rows, T)
  /\ mempool' = InsertDbMempoolTxs(mempool, rows, T)
  /\ mempoolWork' = mempool'
  /\ UNCHANGED vars

\* POST /drop_mempool_tx.  A replaced transaction comes with its replacement.
DropMempoolTxs(T, by) ==
  /\ job.phase = "idle"
  /\ LET gone == T \cap Pending(mempool)
     IN mempool' = SetRows(mempool, gone,
                           LAMBDA r : [r EXCEPT !.pruned = TRUE,
                                                !.status = "dropped",
                                                !.replaced_by = by],
                           -Cardinality(gone))
  /\ mempoolWork' = mempool'
  /\ UNCHANGED vars

MNext ==
  \/ \E b \in Block : MBeginUpdate(b)
  \/ MRestoreOrphanedChain
  \/ MCommitUpdate
  \/ MAbortUpdate
  \/ MFailUpdate
  \/ \E t \in Tx : UpdateMempoolTxs({t})
  \/ \E t \in Tx : \E by \in {u \in Tx \ {t} : Group(u) = Group(t)} \cup {NoTx} :
       DropMempoolTxs({t}, by)

MSpec == MInit /\ [][MNext]_mvars

\* The async code runs on; the node announces a block again until the API
\* acknowledges it; and a transaction that can commit is not rolled back by
\* a crash every time.
MFairness ==
  /\ WF_mvars(MRestoreOrphanedChain) /\ WF_mvars(MFailUpdate)
  /\ \A b \in Block \ {Genesis} : SF_mvars(MBeginUpdate(b))
  /\ \A b \in Block : SF_mvars(MCommitUpdate /\ job.block = b)

MFairSpec == MSpec /\ MFairness

-----------------------------------------------------------------------------
(* Properties. *)

\* Two transactions of which the store keeps at most one pending: they have
\* the same nonce, and an account that sends or sponsors both.
Rivals(t, u) ==
  /\ t # u
  /\ Attr[t].nonce = Attr[u].nonce
  /\ \E a \in Address : /\ a \in {Attr[t].sender, Attr[t].sponsor}
                         /\ a \in {Attr[u].sender, Attr[u].sponsor}

\* The transactions with rows of index_block_hash i.
SpentBy(i) == UNION {TxsOf[c] : c \in RowsAt("txs", i)}

OnOneChain(x, y) ==
  \E S \in SUBSET Block : {x, y} \subseteq S /\ \E b \in S : IsChainTo(S, b)

\* A nonce that a mined transaction has used is not offered by a pending one
\* of the same payer, that transaction itself included: "The incoming mempool
\* transactions might have already been mined."  The one way to it is a re-org
\* of several blocks, which is undone from the top down: what an orphaned block
\* spent is restored after the blocks above it were pruned, and without regard
\* to those below it.
NoPendingRivalOfMined ==
  \A t \in Pending(mempool), x \in canonical \ {Genesis} :
    (\E u \in TxsOf[x] : Group(t) = Group(u)) =>
      \E y \in blocks \ canonical :
        /\ t \in Affected(mempool, SpentBy(y))
        /\ Height[y] < Height[x] \/ OnOneChain(x, y)

\* A transaction that a re-org takes off the canonical chain is never lost:
\* the same commit leaves a row for it, which is pending unless a rival is
\* mined, was mined on the chain it left, or pays more, or it is too old.
OrphanedTxReturns ==
  [][\A t \in Mined(rows) \ Mined(rows') :
       /\ t \in Stored(mempool)'
       /\ \/ t \in Pending(mempool)'
          \/ \E u \in Tx :
               /\ Rivals(t, u)
               /\ u \in Mined(rows) \cup Mined(rows') \/ Attr[u].fee > Attr[t].fee
          \/ mempool'.rows[t].receipt + MempoolAge <= tip.height]_mvars

\* A block that update() began to write is stored in the end, whatever the
\* mempool holds: no content of mempool_txs makes the block fail each time
\* the node announces it.
AnnouncedBlockIsStored ==
  \A b \in Block \ {Genesis} : job.block = b ~> b \in blocks
=============================================================================
