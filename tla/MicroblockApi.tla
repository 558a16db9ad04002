--------------------------- MODULE MicroblockApi ---------------------------
(***************************************************************************)
(* The read API over the tables that ChainStore and Microblocks write, and *)
(* one HTTP client that caches what it reads.  handleCache reads the ETag  *)
(* of an endpoint before the endpoint's own SQL transaction, so that the   *)
(* writer may commit between the two; a later request that presents the    *)
(* tag is told 304 when the tag is still the current one.                  *)
(***************************************************************************)
EXTENDS Microblocks

CONSTANTS
  None,         \* null, and a tag that is not sent
  Burn,         \* burn_block_hash of a block
  BurnHeight,   \* burn_block_height of a block
  Tenure,       \* tenure_height of a block
  HashOf,       \* block_hash of a block
  TxData,       \* the columns of a transaction
  EventsIn,     \* the events of a transaction
  Address,      \* principals that clients ask about
  Contract,     \* contracts that clients ask about
  SendMany      \* the send-many contract

ASSUME NoneAssumption == None \notin Block \cup Nat

VARIABLES
  db,      \* the committed tables, as queries see them
  client   \* a client that caches its answers with their tag

avars == <<uvars, db, client>>

-----------------------------------------------------------------------------
(* The rows, from the state of the two writers. *)

\* The boot transactions are rows of the first block received.
Home(b) == IF b = Genesis THEN boot ELSE b

\* microblock_sequence; I32_MAX stands for a transaction mined in the block.
Sequence[m \in Microblock] ==
  IF MbPrev[m] = NoMicro THEN 0 ELSE Sequence[MbPrev[m]] + 1

ChainTxRows ==
  UNION {{[tx |-> t, index |-> Home(b), mb |-> NoMicro, seq |-> 2147483647,
           height |-> Height[Home(b)], canonical |-> b \in rows["txs"],
           micro |-> TRUE] : t \in TxsOf[b]} : b \in blocks}

StreamTxRows ==
  {[tx |-> r.tx, index |-> r.index, mb |-> r.mb, seq |-> Sequence[r.mb],
    height |-> Height[MbBase[r.mb]] + 1, canonical |-> r.canonical,
    micro |-> r.micro] : r \in micro.txs}

BlockRows ==
  {[index |-> b, hash |-> HashOf[b], parent |-> Parent[b],
    height |-> Height[b], canonical |-> b \in canonical, burn |-> Burn[b],
    burnHeight |-> BurnHeight[b], tenure |-> Tenure[b],
    tx_count |-> Cardinality(TxsOf[b]) + StreamSize(b),
    signatures |-> <<>>] : b \in blocks}

MicroblockRows ==
  {[hash |-> m, seq |-> Sequence[m], base |-> MbBase[m],
    index |-> micro.flags[m].index, height |-> Height[MbBase[m]] + 1,
    canonical |-> micro.flags[m].canonical,
    micro |-> micro.flags[m].micro] : m \in micro.stored}

ChainTipRow ==
  [block_height |-> tip.height, index_block_hash |-> tip.block,
   burn_block_height |-> IF tip.block = NoBlock THEN 0
                                                ELSE BurnHeight[tip.block],
   microblock_hash |-> micro.tip,
   tx_count |-> tip.tx_count + micro.anchored,
   tx_count_unanchored |-> tip.tx_count + micro.anchored + micro.unanchored,
   mempool_tx_count |-> 0]

Tables == [chain_tip |-> ChainTipRow, blocks |-> BlockRows,
           microblocks |-> MicroblockRows,
           txs |-> ChainTxRows \cup StreamTxRows]

\* What the API answers now, and what the client holds: tables that no
\* microblock writes are empty.
Api == INSTANCE ReadApi WITH
  chain_tip <- db.chain_tip, blocks <- db.blocks,
  microblocks <- db.microblocks, txs <- db.txs,
  mempool_txs <- {}, miner_rewards <- {}, ft_balances <- {},
  nft_custody <- {}, ForcedUnlock <- [v \in 1 .. 3 |-> 0],
  TokenOffering <- [a \in Address |-> {}], Token <- {}, NftClass <- {}

Held == INSTANCE ReadApi WITH
  chain_tip <- client.body.chain_tip, blocks <- client.body.blocks,
  microblocks <- client.body.microblocks, txs <- client.body.txs,
  mempool_txs <- {}, miner_rewards <- {}, ft_balances <- {},
  nft_custody <- {}, ForcedUnlock <- [v \in 1 .. 3 |-> 0],
  TokenOffering <- [a \in Address |-> {}], Token <- {}, NftClass <- {}

-----------------------------------------------------------------------------

AInit == UInit /\ db = Tables /\ client = [phase |-> "none"]

Write == UNext /\ db' = Tables' /\ UNCHANGED client

\* handleCache, the preHandler of the endpoint.  The steps of an open SQL
\* transaction change no committed table, so a request is placed between
\* transactions.
ReadTag ==
  /\ client.phase = "none" /\ job.phase = "idle"
  /\ Api!ChainTipTag # None
  /\ client' = [phase |-> "tagged", tag |-> Api!ChainTipTag]
  /\ UNCHANGED <<uvars, db>>

\* The endpoint itself: every answer it may give is a function of db.
ReadBody ==
  /\ client.phase = "tagged" /\ job.phase = "idle"
  /\ client' = [phase |-> "held", tag |-> client.tag, body |-> db]
  /\ UNCHANGED <<uvars, db>>

ANext == Write \/ ReadTag \/ ReadBody

ASpec == AInit /\ [][ANext]_avars

-----------------------------------------------------------------------------
(* Properties. *)

\* Between transactions, as the committed tables do not change in one.
Holds == client.phase = "held" /\ job.phase = "idle"

\* Every answer of the old body that can be asked for again is the same.
SameAnswers(old, new) ==
  \A f \in DOMAIN old : \A x \in DOMAIN old[f] : new[f][x] = old[f][x]

\* A client that is told 304 Not Modified holds what it would be sent,
\* although its tag was read before its answer and blocks, re-orgs and
\* microblocks were committed in between and since.  Of the tags that name a
\* block; the ones that name a microblock do not have this property.
NotModifiedIsTrue ==
  Holds /\ client.tag = Api!ChainTipTag /\ client.tag \in Block
    => SameAnswers(Held!ChainTipAnswers, Api!ChainTipAnswers)

BlockIds == {[by |-> "height", value |-> n] : n \in {Height[b] : b \in Block}}
              \cup {[by |-> "hash", value |-> b] : b \in Block}

\* A tag says all that the answer says: two states with the same tag of a
\* transaction answer alike about it, and so for a block.
TagsNameAnswers ==
  Holds =>
    /\ \A t \in Tx :
         Held!TransactionTag(t) = Api!TransactionTag(t) /\ Api!TransactionTag(t) # None
           => Held!TransactionAnswers(t) = Api!TransactionAnswers(t)
    /\ \A id \in BlockIds :
         Held!BlockTag(id) = Api!BlockTag(id) /\ Api!BlockTag(id) # None
           => Held!BlockV2Answers(id) = Api!BlockV2Answers(id)

\* The properties of ReadApi, of every state of the committed tables.
Unread == client.phase = "none" /\ job.phase = "idle"

\* A client that follows the cursors of the list of blocks walks the chain,
\* in every state that forks and re-orgs leave.
CursorsWalkChain == Unread => Api!CursorsWalkTheChain

\* A block's transactions are the same whichever endpoint is asked, in every
\* state that streams and re-orgs leave.
BlockAnswersAgree == Unread => Api!BlockReadsAgree

\* A transaction is found where it is listed, with all of its events, and the
\* contract that is shown is the one whose deployment is visible.
TxAnswersAgree == Unread => Api!TxReadsAgree /\ Api!ContractReadsAgree

\* A principal's list of transactions adds up to its balance.
StatementsAddUp == Unread => Api!StatementAddsUp
=============================================================================
