------------------------------- MODULE Tables -------------------------------
(***************************************************************************)
(* The tables the read side of the API queries.  They are variables of     *)
(* this module: a composition instantiates it with the tables of the write *)
(* side's model.                                                           *)
(***************************************************************************)
EXTENDS Sql

CONSTANTS
  NoBlock,     \* index_block_hash of a row that no block has claimed
  NoMicro,     \* microblock_hash of a row of an anchored transaction
  TxData,      \* per transaction, the columns of txs that never change
  EventsIn,    \* per transaction, the rows it adds to the event tables
  ForcedUnlock, \* pox_state: burn heights that end PoX 1, 2 and 3, or 0
  TokenOffering \* token_offering_locked: per address, a set of [block, value]

VARIABLES
  chain_tip,     \* the row of chain_tip
  blocks,        \* rows of blocks
  microblocks,   \* rows of microblocks
  txs,           \* rows of txs
  mempool_txs,   \* rows of mempool_txs
  miner_rewards, \* rows of miner_rewards
  ft_balances,   \* rows of ft_balances
  nft_custody    \* rows of nft_custody

-----------------------------------------------------------------------------
(* Rows. *)

Canonical(S) == {r \in S : r.canonical}

MicroCanonical(S) == {r \in S : r.micro}

\* canonical = true AND microblock_canonical = true.
Visible(S) == {r \in S : r.canonical /\ r.micro}

\* block_height, microblock_sequence, tx_index.
ChainPosition(r) == <<r.height, r.seq, TxData[r.tx].index>>

BlockPosition(r) == <<r.seq, TxData[r.tx].index>>

\* Rows of an event table: each event of a transaction has the flags and the
\* block of the transaction's row it was written with.
EventRows(table) ==
  UNION {{[event |-> e, tx |-> r.tx, index |-> r.index, mb |-> r.mb,
           seq |-> r.seq, height |-> r.height, canonical |-> r.canonical,
           micro |-> r.micro] : e \in {x \in EventsIn[r.tx] : x.table = table}} :
         r \in txs}

AssetTables == {"stx_events", "ft_events", "nft_events"}

EventTables == AssetTables \cup {"stx_lock_events", "contract_logs"}

AllEventRows == UNION {EventRows(t) : t \in EventTables}

EventPosition(r) == <<r.height, r.seq, TxData[r.tx].index, r.event.index>>

Involves(e, a) == e.sender = a \/ e.recipient = a

\* principal_stx_txs: the principals a transaction's row was stored for.
PrincipalRows(a) == {r \in txs : a \in TxData[r.tx].principals}

GetMaxBlockHeight(includeUnanchored) ==
  IF includeUnanchored THEN chain_tip.block_height + 1
                       ELSE chain_tip.block_height
=============================================================================
