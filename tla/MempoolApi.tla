----------------------------- MODULE MempoolApi -----------------------------
(***************************************************************************)
(* The read API over the tables that ChainStore and Mempool write: what a  *)
(* client is told about a transaction that is announced, mined, orphaned,  *)
(* replaced or dropped.  db is the committed state as queries see it.      *)
(***************************************************************************)
EXTENDS Mempool

CONSTANTS None, NoMicro

ASSUME NoneAssumption == None \notin Address \cup Nat

VARIABLE db

-----------------------------------------------------------------------------
(* The rows, from the state of the two writers. *)

MempoolTxData ==
  [t \in Tx |->
     [index |-> Attr[t].index, type |-> "token_transfer", status |-> "success",
      sender |-> Attr[t].sender, nonce |-> Attr[t].nonce, fee |-> Attr[t].fee,
      sponsor |-> IF Attr[t].sponsor = NoAddress THEN None ELSE Attr[t].sponsor,
      sponsorNonce |-> IF Attr[t].sponsor = NoAddress THEN None ELSE Attr[t].nonce,
      recipient |-> None, amount |-> 0, deploys |-> None, calls |-> None,
      abi |-> {}, principals |-> {Attr[t].sender, Attr[t].sponsor} \ {NoAddress}]]

\* DbTxStatus of a row of mempool_txs.
StatusName ==
  [pending |-> "pending", rbf |-> "replace_by_fee", gc |-> "api_garbage_collect",
   dropped |-> "problematic"]

MempoolRows ==
  {[tx |-> t, pruned |-> mempool.rows[t].pruned,
    status |-> StatusName[mempool.rows[t].status],
    receipt |-> mempool.rows[t].receipt] : t \in Stored(mempool)}

MinedRows ==
  UNION {{[tx |-> t, index |-> b, mb |-> NoMicro, seq |-> 2147483647,
           height |-> Height[b], canonical |-> b \in rows["txs"], micro |-> TRUE] :
            t \in TxsOf[b]} : b \in blocks}

ChainTipOfMempool ==
  [block_height |-> tip.height, index_block_hash |-> tip.block,
   burn_block_height |-> 0, microblock_hash |-> NoMicro, tx_count |-> tip.tx_count,
   tx_count_unanchored |-> tip.tx_count, mempool_tx_count |-> mempool.count]

MempoolTables ==
  [chain_tip |-> ChainTipOfMempool, txs |-> MinedRows, mempool_txs |-> MempoolRows]

Api == INSTANCE AddressRoutes WITH
  chain_tip <- db.chain_tip, txs <- db.txs, mempool_txs <- db.mempool_txs,
  blocks <- {}, microblocks <- {}, miner_rewards <- {}, ft_balances <- {},
  nft_custody <- {}, TxData <- MempoolTxData, EventsIn <- [t \in Tx |-> {}],
  ForcedUnlock <- [v \in 1 .. 3 |-> 0],
  TokenOffering <- [a \in Address |-> {}]

RosettaApi == INSTANCE Rosetta WITH
  chain_tip <- db.chain_tip, txs <- db.txs, mempool_txs <- db.mempool_txs,
  blocks <- {}, microblocks <- {}, miner_rewards <- {}, ft_balances <- {},
  nft_custody <- {}, pox_cycles <- {}, pox_sets <- {}, TxData <- MempoolTxData,
  EventsIn <- [t \in Tx |-> {}], ForcedUnlock <- [v \in 1 .. 3 |-> 0],
  TokenOffering <- [a \in Address |-> {}], FtMetadata <- {}

PInit == MInit /\ db = MempoolTables

PNext == MNext /\ db' = MempoolTables'

PSpec == PInit /\ [][PNext]_<<mvars, db>>

-----------------------------------------------------------------------------
(* Properties. *)

Ids(S) == {x.tx_id : x \in S}

MinedList ==
  LET list == Api!TxList(Api!NoFilters, FALSE, None, 0).body.results
  IN {list[i].tx_id : i \in DOMAIN list}

PendingList == Api!MempoolTxList(None, None, None, FALSE).body

Between == job.phase = "idle"

\* Whatever order a transaction is announced, replaced, dropped, mined,
\* orphaned and mined again in, it is shown in one place: among the mined, the
\* pending or the dropped ones, and asked for by its id it says the same, as
\* does the Rosetta mempool of what it shows, which is what is pending.  That
\* is so as long as re-orgs restore one block; NoPendingRivalOfMined has the
\* transactions that deeper ones leave mined and pending.
OneAnswerPerTx ==
  Between =>
    LET pending == Ids(PendingList.results)
        dropped == Ids(Api!MempoolDropped.body)
    IN /\ MinedList \cap pending = {} /\ MinedList \cap dropped = {}
       /\ pending \cap dropped = {}
       /\ RosettaApi!RosettaMempool.body = pending
       /\ \A t \in Tx :
            LET found == Api!TxById(t, FALSE, None, 0)
            IN /\ t \in MinedList <=> found.status = 200 /\ found.body.mined
               /\ t \in pending <=> RosettaApi!RosettaMempoolTransaction(t).status = 200
               /\ t \in pending \cup dropped =>
                    /\ found.status = 200
                    /\ (found.body.tx.tx_status = "pending") <=> t \in pending

\* The total of the list of pending transactions, a counter of chain_tip that
\* seven statements move by what they believe they changed, and
\* the statistics count what the list shows; a sender's own list and filter
\* show its part of it; and the nonces the API says an address has pending, as
\* sender or as sponsor, are those of the list.
MempoolAnswersAgree ==
  Between =>
    LET pending == Ids(PendingList.results)
        stats == Api!MempoolStats.body
        data(t) == MempoolTxData[t]
    IN /\ PendingList.total = Cardinality(pending)
       /\ {data(t).type : t \in pending} \subseteq DOMAIN stats
       /\ \A y \in DOMAIN stats : stats[y] = Cardinality({t \in pending : data(t).type = y})
       /\ \A a \in Address :
            LET own == {t \in pending : data(t).sender = a}
                last == Api!AddressNonces(a, None, None).body.last_mempool
                used == {data(t).nonce : t \in own}
                          \cup {data(t).sponsorNonce : t \in {u \in pending : data(u).sponsor = a}}
            IN /\ Ids(Api!AddressMempool(a, FALSE).body.results) = own
               /\ Ids(Api!MempoolTxList(None, a, None, FALSE).body.results) = own
               /\ last = IF used = {} THEN None ELSE CHOOSE n \in used : \A k \in used : k <= n
=============================================================================
