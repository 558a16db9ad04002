----------------------------- MODULE ChainStore -----------------------------
(***************************************************************************)
(* The block table of the API's Postgres store and everything a re-org     *)
(* flips with it: PgWriteStore.update, handleReorg, restoreOrphanedChain,  *)
(* markEntitiesCanonical, fixBlockZeroData and updateAttachments of        *)
(* src/datastore/pg-write-store.ts.                                        *)
(*                                                                         *)
(* One call of update() is one SQL transaction.  Its steps (one level of   *)
(* the recursion of restoreOrphanedChain at a time) work on `work', the    *)
(* transaction's view of the tables; readers and a crashed process only    *)
(* see the committed tables.  The event queue has concurrency 1, so at     *)
(* most one transaction is open.  The layers that EXTEND this module (the  *)
(* mempool, balances, NFT custody, the Redis notifier) add their own       *)
(* tables to the same actions.                                             *)
(*                                                                         *)
(* A block is identified by its index_block_hash, a digest of its content: *)
(* parent, height and transactions are constant functions of the block.    *)
(***************************************************************************)
EXTENDS Integers, FiniteSets

CONSTANTS
  Block,      \* the blocks any node may ever announce, by index_block_hash
  Genesis,    \* "block 0": the boot data the node announces at height 0
  NoBlock,    \* the empty hash
  Parent,     \* parent_index_block_hash of a block
  Height,     \* block_height of a block
  Tx,         \* transactions
  TxsOf       \* the transactions a block carries

ASSUME BlockAssumption ==
  /\ Genesis \in Block
  /\ NoBlock \notin Block
  /\ Height \in [Block -> Nat]
  /\ Height[Genesis] = 0
  /\ Parent \in [Block -> Block \cup {NoBlock}]
  /\ Parent[Genesis] = NoBlock
  /\ \A b \in Block \ {Genesis} :
       /\ Height[b] > 0
       /\ Parent[b] \in Block
       /\ Height[b] = Height[Parent[b]] + 1

ASSUME TxAssumption ==
  /\ TxsOf \in [Block -> SUBSET Tx]
  /\ \A b \in Block : IsFiniteSet(TxsOf[b])

-----------------------------------------------------------------------------
(* Tables with a `canonical' column keyed by index_block_hash. *)

\* Tables fixBlockZeroData moves to block 1: txs and TX_METADATA_TABLES.
BootTables ==
  {"txs", "stx_events", "ft_events", "nft_events", "pox2_events",
   "pox3_events", "pox4_events", "contract_logs", "stx_lock_events",
   "smart_contracts", "names", "namespaces", "subdomains"}

\* Tables update() fills for a block it has not seen before, by the function
\* that inserts their rows with the block's flag.
PoxEventTables == {"pox2_events", "pox3_events", "pox4_events"}
StxTables == {"stx_events", "principal_stx_txs"}
ContractTables == {"contract_logs", "smart_contracts"}
NameTables == {"names", "namespaces"}
PoxSetTables == {"pox_sets", "pox_cycles"}

InsertTables ==
  {"txs", "miner_rewards", "stx_lock_events", "ft_events", "nft_events"}
  \cup PoxEventTables \cup StxTables \cup ContractTables
  \cup NameTables \cup PoxSetTables

ReorgTables_NoPox4 ==
  {"txs", "principal_stx_txs", "miner_rewards", "stx_lock_events",
   "stx_events", "ft_events", "nft_events", "pox2_events", "pox3_events",
   "contract_logs", "smart_contracts", "names", "namespaces",
   "subdomains", "pox_sets", "pox_cycles"}

\* Tables markEntitiesCanonical flips.
ReorgTables ==
  {"txs", "principal_stx_txs", "miner_rewards", "stx_lock_events",
   "stx_events", "ft_events", "nft_events", "pox2_events", "pox3_events",
   "pox4_events", "contract_logs", "smart_contracts", "names", "namespaces",
   "subdomains", "pox_sets", "pox_cycles"}

Table == InsertTables \cup ReorgTables \cup BootTables

VARIABLES
  blocks,     \* table blocks: the index_block_hashes it holds
  canonical,  \* the rows of blocks with canonical = true
  rows,       \* per table, the blocks whose rows are canonical = true
  attached,   \* the blocks whose attachments put rows in subdomains
  boot,       \* index_block_hash of the boot data's rows in BootTables
  tip,        \* table chain_tip
  job,        \* the open call of update(), if any
  work        \* what its SQL transaction has written so far

dbVars == <<blocks, canonical, rows, attached, boot, tip>>
vars == <<blocks, canonical, rows, attached, boot, tip, job, work>>

Idle == [phase |-> "idle", block |-> NoBlock, cursor |-> NoBlock]

Committed == [canonical |-> canonical, rows |-> rows,
              tx_count |-> tip.tx_count]

\* The rows of table txs that a set of blocks contributed.
TxRows(B) == {r \in B \X Tx : r[2] \in TxsOf[r[1]]}

TypeOK ==
  /\ blocks \subseteq Block
  /\ canonical \subseteq blocks
  /\ rows \in [Table -> SUBSET blocks]
  /\ attached \subseteq blocks
  /\ boot \in Block
  /\ tip \in [block : Block \cup {NoBlock}, height : Nat, tx_count : Int]
  /\ job \in [phase : {"idle", "restore", "insert"},
              block : Block \cup {NoBlock}, cursor : Block \cup {NoBlock}]
  /\ job.phase # "idle" => job.block \in Block
  /\ work \in [canonical : SUBSET blocks, rows : [Table -> SUBSET blocks],
               tx_count : Int]

Init ==
  /\ blocks = {}
  /\ canonical = {}
  /\ rows = [t \in Table |-> {}]
  /\ attached = {}
  /\ boot = Genesis
  /\ tip = [block |-> NoBlock, height |-> 0, tx_count |-> 0]
  /\ job = Idle
  /\ work = Committed

-----------------------------------------------------------------------------
(* update(): one SQL transaction, from handleReorg to the chain_tip row. *)

IsCanonical_OrEqual(b) == Height[b] >= tip.height

IsCanonical(b) == Height[b] > tip.height

BuildsOnOrphan_AnyHeight(b) == Height[b] > 1 /\ Parent[b] \notin canonical

\* The block builds off a previously orphaned chain that is now the longest.
BuildsOnOrphan(b) ==
  Height[b] > 1 /\ Parent[b] \notin canonical /\ IsCanonical(b)

\* handleReorg up to the first restoreOrphanedChain.  A block above height 1
\* whose parent is not in the table makes it throw.  The node announces its
\* boot data before any other block; any block may be announced again.
BeginUpdate(b) ==
  /\ job.phase = "idle"
  /\ b = Genesis => blocks = {} \/ Genesis \in blocks
  /\ Height[b] > 1 => Parent[b] \in blocks
  /\ job' = IF BuildsOnOrphan(b)
              THEN [phase |-> "restore", block |-> b, cursor |-> Parent[b]]
              ELSE [phase |-> "insert", block |-> b, cursor |-> NoBlock]
  /\ UNCHANGED <<blocks, canonical, rows, attached, boot, tip, work>>

\* The blocks whose rows in table t carry index_block_hash i.
RowsAt(t, i) ==
  LET present == IF t = "subdomains" THEN attached ELSE blocks
      hash(c) == IF c = Genesis /\ t \in BootTables THEN boot ELSE c
  IN {c \in present : hash(c) = i}

\* principal_stx_txs rows are only flipped for the tx_ids flipped in txs.
FlippedRows(t, i) ==
  CASE t \notin ReorgTables -> {}
    [] t = "principal_stx_txs" -> RowsAt(t, i) \cap RowsAt("txs", i)
    [] OTHER -> RowsAt(t, i)

MarkEntitiesCanonical(rs, i, flag) ==
  [t \in Table |-> IF flag THEN rs[t] \cup FlippedRows(t, i)
                           ELSE rs[t] \ FlippedRows(t, i)]

OrphanedBy_Nothing(c) == {}

\* The canonical block, if any, that occupies the height of block c.
OrphanedBy(c) == {o \in work.canonical : Height[o] = Height[c] /\ o # c}

\* The tables after the block i in the orphans' place lost its status:
\* only the first of the orphaned blocks has its entities marked.
RowsWithout(orphans) ==
  IF orphans = {} THEN work.rows
  ELSE MarkEntitiesCanonical(work.rows, CHOOSE o \in orphans : TRUE, FALSE)

NextCursor_Self(c, stays) == c

\* The parent the recursion goes on with: stored, and still not canonical.
NextCursor(c, stays) ==
  IF Parent[c] \in blocks \ stays THEN Parent[c] ELSE NoBlock

\* One level of restoreOrphanedChain: the block at the cursor becomes
\* canonical and the one at its height is orphaned; their txs, flipped one way
\* and the other, are the delta of tx_count.
RestoreOrphanedChain ==
  /\ job.phase = "restore"
  /\ LET c == job.cursor
         orphans == OrphanedBy(c)
         demoted == RowsWithout(orphans)
         promoted == MarkEntitiesCanonical(demoted, c, TRUE)
         stays == (work.canonical \cup {c}) \ orphans
     IN
     /\ c \in blocks \ work.canonical
     /\ work' = [canonical |-> stays, rows |-> promoted,
                 tx_count |->
                   (work.tx_count
                      + Cardinality(TxRows(promoted["txs"] \ demoted["txs"])))
                      - Cardinality(TxRows(work.rows["txs"] \ demoted["txs"]))]
     /\ job' = [job EXCEPT
                 !.phase = IF NextCursor(c, stays) = NoBlock THEN "insert" ELSE @,
                 !.cursor = NextCursor(c, stays)]
  /\ UNCHANGED dbVars

\* fixBlockZeroData, run for a block of height 1: the rows of the boot data
\* become canonical rows of that block.  It finds them only once.
FixesBlockZero(b) == Height[b] = 1 /\ Genesis \in blocks /\ boot = Genesis

FixBlockZeroData(rs) ==
  [t \in Table |-> IF t \in BootTables THEN rs[t] \cup RowsAt(t, Genesis)
                                       ELSE rs[t]]

\* The rows of a block the table does not hold yet; its flag is theirs.
InsertBlockRows(rs, b) ==
  IF b \notin blocks /\ IsCanonical(b)
    THEN [t \in Table |-> IF t \in InsertTables THEN rs[t] \cup {b} ELSE rs[t]]
    ELSE rs

NewCanonical(b) ==
  IF b \notin blocks /\ IsCanonical(b) THEN work.canonical \cup {b}
                                       ELSE work.canonical

NewRows(b) ==
  InsertBlockRows(IF FixesBlockZero(b) THEN FixBlockZeroData(work.rows)
                                       ELSE work.rows, b)

NewTip_NoDelta(b) ==
  IF IsCanonical(b)
    THEN [block |-> b, height |-> Height[b],
          tx_count |-> tip.tx_count + Cardinality(TxRows({b}))]
    ELSE tip

NewTip(b) ==
  IF IsCanonical(b)
    THEN [block |-> b, height |-> Height[b],
          tx_count |-> work.tx_count + Cardinality(TxRows({b}))]
    ELSE [tip EXCEPT !.tx_count = work.tx_count]

\* The rest of update(): the boot data, the rows of the block, chain_tip and
\* the COMMIT.
CommitUpdate ==
  /\ job.phase = "insert"
  /\ LET b == job.block IN
     /\ blocks' = blocks \cup {b}
     /\ canonical' = NewCanonical(b)
     /\ rows' = NewRows(b)
     /\ tip' = NewTip(b)
     /\ boot' = IF FixesBlockZero(b) THEN b ELSE boot
     /\ work' = [canonical |-> NewCanonical(b), rows |-> NewRows(b),
                 tx_count |-> NewTip(b).tx_count]
  /\ job' = Idle
  /\ UNCHANGED attached

\* A query fails or the process dies: Postgres rolls the transaction back.
AbortUpdate ==
  /\ job.phase # "idle"
  /\ job' = Idle
  /\ work' = Committed
  /\ UNCHANGED dbVars

AttachmentTxFound_Unchecked(b) == TxsOf[b] # {}

\* The transaction of an attachment is looked up in txs by index_block_hash.
\* The node announces a block, until it is acknowledged, before the
\* attachments of its transactions.
AttachmentTxFound(b) == b \in blocks \ {Genesis} /\ TxsOf[b] # {}

\* updateAttachments: the subdomains of a zonefile take the flag their
\* transaction has when the attachment arrives.
UpdateAttachments(b) ==
  /\ job.phase = "idle"
  /\ AttachmentTxFound(b)
  /\ attached' = attached \cup {b}
  /\ rows' = [rows EXCEPT !["subdomains"] =
                IF b \in rows["txs"] THEN @ \cup {b} ELSE @ \ {b}]
  /\ work' = [work EXCEPT !.rows = rows']
  /\ UNCHANGED <<blocks, canonical, boot, tip, job>>

Next ==
  \/ \E b \in Block : BeginUpdate(b)
  \/ RestoreOrphanedChain
  \/ CommitUpdate
  \/ AbortUpdate
  \/ \E b \in Block : UpdateAttachments(b)

\* The async code of an open call runs on unless the process dies.
Fairness == WF_vars(RestoreOrphanedChain) /\ WF_vars(CommitUpdate)

Spec == Init /\ [][Next]_vars /\ Fairness

-----------------------------------------------------------------------------
(* Properties. *)

\* S is one chain, from its block of height 1 to block b: b is the highest
\* block, no two blocks share a height, and every parent is there.
IsChainTo(S, b) ==
  /\ b \in S
  /\ \A x \in S : Height[x] <= Height[b]
  /\ \A x, y \in S : Height[x] = Height[y] => x = y
  /\ \A x \in S : Height[x] > 1 => Parent[x] \in S

\* After any sequence of forks, re-deliveries and rolled back updates, the
\* canonical rows of blocks are one chain that ends in the chain_tip row, so
\* restoreOrphanedChain never leaves two blocks, or a hole, at a height.
CanonicalIsOneChain ==
  IF tip.block = NoBlock
    THEN canonical = {} /\ tip.height = 0
    ELSE IsChainTo(canonical, tip.block) /\ tip.height = Height[tip.block]

\* The rows of every entity table have the flag of the block that brought
\* them; the boot data, once block 1 has arrived, that of the block it was
\* moved to by fixBlockZeroData.  A table left out of markEntitiesCanonical,
\* or flipped for the wrong block, breaks it.
EntitiesFollowBlocks ==
  /\ \A t \in Table : \A b \in blocks \ {Genesis} :
       b \in rows[t] <=> b \in canonical /\ (t = "subdomains" => b \in attached)
  /\ \A t \in BootTables \ {"subdomains"} :
       Genesis \in rows[t] <=> boot # Genesis /\ boot \in canonical

\* chain_tip.tx_count, kept by deltas across re-orgs, is the number of
\* canonical transactions of announced blocks: the boot transactions are
\* never added to it, but are subtracted when block 1 is orphaned.
TxCountMatchesRows ==
  tip.tx_count + (IF boot = Genesis THEN 0 ELSE Cardinality(TxRows({Genesis})))
    = Cardinality(TxRows(rows["txs"]))

\* A committed step changes which blocks are canonical only by making the
\* chain one block longer: no fork of equal height displaces the tip, and a
\* re-delivered block or an attachment never moves it.
ReorgOnlyToLongerChain ==
  [][canonical' # canonical =>
       /\ tip'.height = tip.height + 1
       /\ Height[tip'.block] = tip'.height
       /\ tip'.block \notin blocks]_vars

\* The recursion of restoreOrphanedChain ends: every open update() is
\* committed or rolled back.
UpdateTerminates == job.phase # "idle" ~> job.phase = "idle"

\* What the API shows is the chain of the highest block that arrived first:
\* the store implements BestChain, with its committed rows for the abstract
\* state and every open transaction invisible.
Best == INSTANCE BestChain WITH
          known <- blocks \ {Genesis},
          head <- tip.block,
          chain <- canonical \ {Genesis}

ShowsBestChain == Best!Spec

=============================================================================
