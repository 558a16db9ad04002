------------------------------ MODULE ReadApi ------------------------------
(***************************************************************************)
(* What clients ask and how their caches are told that an answer is still  *)
(* good: the ETags of src/api/controllers/cache-controller.ts over the     *)
(* endpoints of BlockRoutes, TxRoutes and AddressRoutes, and the           *)
(* properties that relate one answer to another.  A request reads in one   *)
(* SQL transaction, so an answer is a function of one committed state.     *)
(***************************************************************************)
EXTENDS AddressRoutes

CONSTANTS
  Address,    \* principals that clients ask about
  Contract,   \* contracts, by contract_id
  SendMany,   \* getSendManyContract
  Token,      \* fungible tokens, and "stx"
  NftClass    \* asset identifiers of non-fungible tokens

TxIds == DOMAIN TxData

BlockHashes == {b.hash : b \in blocks}

Nfts ==
  UNION {{e.asset : e \in {x \in EventsIn[t] : x.table = "nft_events"}} : t \in TxIds}

\* The largest page a client may ask for.
All == PagingLimits["Tx"][2]

-----------------------------------------------------------------------------
(* calculateETag; None for an answer without one. *)

ChainTipTag_AnchoredOnly ==
  IF chain_tip.block_height = 0 THEN None ELSE chain_tip.index_block_hash

ChainTipTag ==
  CASE chain_tip.block_height = 0 -> None
    [] chain_tip.block_height > 0 /\ chain_tip.microblock_hash # NoMicro
         -> chain_tip.microblock_hash
    [] OTHER -> chain_tip.index_block_hash

TransactionTag(t) == GetTxStatus(t)

BlockTag(id) == GetBlockCanonicalStatus(id)

PrincipalTag(a, includeMempool) ==
  LET activity == GetPrincipalLastActivityTxIds(a, includeMempool)
  IN IF activity.mined \cup activity.pending = {} THEN None ELSE activity

-----------------------------------------------------------------------------
(* The answers that are revalidated with the tag of the chain tip.  Left   *)
(* out are the totals that chain_tip counts, the microblocks a block lists *)
(* and what is shown of a fork that is not the chain: they change under    *)
(* the same tag.                                                           *)

Listed(answer) == IF answer.status = 200 THEN answer.body.results ELSE answer

ListAnswers ==
  <<BlocksV2(None, 0, None), BlocksV2(1, 1, None), BurnBlocks(None, 0), UnanchoredTxs,
    Listed(TxList(NoFilters, FALSE, All, 0)), Listed(TxList(NoFilters, TRUE, All, 0))>>

OnChain(answer) ==
  IF answer.status = 200 /\ answer.body.canonical THEN answer.body ELSE None

WithoutStreams(answer) ==
  LET b == OnChain(answer) IN IF b = None THEN None ELSE <<b.index, b.txs>>

BlockAnswers(h) ==
  <<WithoutStreams(BlockByHash(h)), TxsByBlockHash(h, All, 0)>>

HeightAnswers(n) ==
  <<WithoutStreams(BlockByHeight(n)), TxsByBlockHeight(n, All, 0),
    WithoutStreams(BlockByBurnBlockHeight(n))>>

BurnBlockAnswers(h) ==
  LET id == [by |-> "hash", value |-> h]
  IN <<WithoutStreams(BlockByBurnBlockHash(h)), BurnBlockBy(id), BurnBlockBlocks(id, None, 0)>>

ContractAnswers(c) ==
  <<OnChain(ContractById(c)), ContractEvents(c, None, 0), TxEvents(None, c, {}, None, 0)>>

HolderAnswers(a) ==
  <<AddressStxV2(a, FALSE), AddressFts(a), NftHoldings(a, TRUE, None, 0),
    TxEvents(None, a, {}, None, 0)>>

ChainTipAnswers ==
  [lists |-> ListAnswers,
   blocks |-> [h \in BlockHashes |-> BlockAnswers(h)],
   heights |-> [n \in {b.height : b \in blocks} |-> HeightAnswers(n)],
   burn_blocks |-> [h \in {b.burn : b \in blocks} |-> BurnBlockAnswers(h)],
   microblocks |-> [m \in {x.hash : x \in microblocks} |-> MicroblockByHash(m)],
   contracts |-> [c \in Contract |-> ContractAnswers(c)],
   holders |-> [a \in Address |-> HolderAnswers(a)],
   tokens |-> [k \in Token |-> FtHolders(k, None, 0)],
   mints |-> [c \in NftClass |-> NftMints(c, FALSE, None, 0)],
   histories |-> [n \in Nfts |-> NftHistory(n, FALSE, None, 0)]]

\* With the tag of a transaction and of a block.
TransactionAnswers(t) ==
  <<TxById(t, TRUE, None, 0), TxRaw(t), [a \in Address |-> AddressTxWithTransfers(a, t)],
    [a \in Address |-> AddressTxEventsV2(a, t, None, 0)]>>

BlockV2Answers(id) ==
  <<BlockV2(id), BlockV2Transactions(id, None, 0), BlockV2SignerSignatures(id, None, 0)>>

-----------------------------------------------------------------------------
(* Properties: one question asked in different ways has one answer. *)

CanonicalBlocks == {b \in Canonical(blocks) : b.height > 0}

TxIdsOf(answer) == IF answer.status = 200 THEN Map(answer.body.results, LAMBDA x : x.tx_id)
                                          ELSE <<>>

\* A client that follows prev_cursor, with pages of any size, meets the chain
\* of its first block, each block followed by its parent, and is told of no
\* further page only where the canonical blocks end; next_cursor leads back.
\* Of one tenure, the i-th result is the i-th of its blocks from the cursor down.
CursorsWalkTheChain ==
  \A n \in 1 .. PagingLimits["Block"][2] : \A b \in Canonical(blocks) :
    LET below == {c \in Canonical(blocks) : c.height <= b.height}
        page == BlocksV2(n, 0, b.index).body
        shown == page.results
        older == BlocksV2(n, 0, page.prev_cursor).body
        same == {c \in below : c.tenure = b.tenure}
        tenure == TenureBlocks(b.tenure, n, 0, b.index).body.results
    IN /\ Len(shown) = (IF Cardinality(below) < n THEN Cardinality(below) ELSE n)
       /\ shown[1].index = b.index
       /\ \A i \in 2 .. Len(shown) : shown[i].index = shown[i - 1].parent
       /\ (page.prev_cursor = None) = (Cardinality(below) <= n)
       /\ page.prev_cursor # None =>
            /\ older.results[1].index = shown[n].parent
            /\ older.next_cursor = b.index
       /\ b.tenure \notin {0, None} =>
            /\ Len(tenure) = (IF Cardinality(same) < n THEN Cardinality(same) ELSE n)
            /\ \A i \in DOMAIN tenure :
                 /\ \E c \in same : c.index = tenure[i].index /\ c.height = tenure[i].height
                 /\ Cardinality({c \in same : c.height >= tenure[i].height}) = i

\* Whether a canonical block is asked for by hash or by height, in version 1
\* or 2, it has the same transactions, each once, and all blocks together
\* have those of the list of transactions.  The list of blocks shows what a
\* block alone shows, its streamed microblocks apart; a listed microblock is
\* found with the transactions it is listed with.
BlockReadsAgree ==
  LET list(b) == TxIdsOf(TxsByBlockHash(b.hash, All, 0))
      anchored == TxIdsOf(TxList(NoFilters, FALSE, All, 0))
  IN /\ \A b \in CanonicalBlocks :
          LET v2 == TxIdsOf(BlockV2Transactions([by |-> "height", value |-> b.height], All, 0))
          IN /\ BlockByHash(b.hash).body.txs = list(b)
             /\ TxIdsOf(TxsByBlockHeight(b.height, All, 0)) = list(b)
             /\ v2 = Reverse(list(b))
             /\ IsInjective(list(b))
             /\ \E x \in ToSet(BlockList(None, 0).body.results) :
                  LET one == BlockByHash(b.hash).body
                  IN [x EXCEPT !.streamed = {}] = [one EXCEPT !.streamed = {}]
     /\ MicroblockList(None, 0).body \subseteq
          {MicroblockByHash(m.hash).body : m \in microblocks}
     /\ IsInjective(anchored)
     /\ ToSet(anchored) = UNION {ToSet(list(b)) : b \in CanonicalBlocks}

\* Every event of a transaction is shown once, by its own endpoint and with
\* the transaction, asked for alone or with all others, and a transaction that
\* is listed is found where it is listed and found by a search.
TxReadsAgree ==
  LET together == TxsMultiple(TxIds, TRUE, All, 0).body
  IN \A t \in TxIds :
    LET found == TxById(t, TRUE, All, 0)
        events == TxEvents(t, None, {}, All, 0).body
        listed == {x \in ToSet(TxList(NoFilters, TRUE, All, 0).body.results) : x.tx_id = t}
        all == {e.index : e \in EventsIn[t]}
    IN /\ (listed # {}) <=> (found.status = 200 /\ found.body.mined)
       /\ together[t].found <=> found.status = 200
       /\ together[t].found => together[t].result = found.body
       /\ listed # {} =>
            /\ listed = {found.body.tx}
            /\ IsInjective(events) /\ {events[i].event_index : i \in DOMAIN events} = all
            /\ Cardinality(found.body.events) = Cardinality(EventsIn[t])
            /\ \A metadata \in BOOLEAN :
                 PerformSearch([type |-> "hash", value |-> t], metadata) = Ok("tx_id")

\* A contract whose deployment is visible is the one that is shown, its status
\* is the deployment's, and it is found by its name and by its functions.
ContractReadsAgree ==
  \A c \in Contract :
    LET shown == ContractById(c)
        status == SmartContractsStatus({c}).body[c]
        deployed == {r \in Visible(txs) : TxData[r.tx].deploys = c}
    IN /\ status.found <=> deployed # {}
       /\ deployed # {} => /\ status.result = shown.body.tx_id
                           /\ shown.body.canonical /\ shown.body.microblock_canonical
                           /\ shown.body \in
                                ToSet(ContractsByTrait(TxData[shown.body.tx_id].abi,
                                                       None, 0).body)
       /\ (shown.status = 200) <=>
            (PerformSearch([type |-> "contract", value |-> c], FALSE).status = 200)

\* A principal's statement adds up: what the list of its transactions says
\* they moved, with its rewards, is its balance; it names every transaction
\* that the older lists name, and those say the same of them, alone or in a
\* list, but for the fee of a sponsored one; an inbound transfer and an asset
\* event are of a transaction it names.
StatementAddsUp ==
  \A a \in Address :
    LET v2 == AddressTxsV2(a, All, 0).body.results
        named == {v2[i].tx.tx_id : i \in DOMAIN v2}
        gain == FoldSeq(LAMBDA x, n : n + x.stx_received - x.stx_sent, 0, v2)
        stx == AddressStx(a, None, TRUE)
        listed(answer) == ToSet(answer.body.results)
        transfers == listed(AddressTxsWithTransfers(a, None, None, TRUE, All, 0))
        others == listed(AddressTxs(a, None, None, TRUE, All, 0))
                    \cup listed(AddressAssets(a, None, TRUE, All, 0))
        inbound == listed(AddressStxInbound(a, None, None, TRUE, SendMany, All, 0))
    IN stx.status = 200 =>
         /\ stx.body.stx.balance = gain + stx.body.stx.rewards
         /\ AddressBalances(a, None, TRUE).body.stx = stx.body
         /\ \A f \in AddressFts(a).body : AddressFt(a, f.token).body = f.balance
         /\ {x.tx_id : x \in others} \cup {x.tx : x \in inbound} \subseteq named
         /\ \A x \in transfers : \E y \in ToSet(v2) :
              /\ y.tx = x.tx /\ y.stx_received = x.stx_received
              /\ ~Sponsored(x.tx.tx_id) => y.stx_sent = x.stx_sent
              /\ AddressTxWithTransfers(a, x.tx.tx_id).body.stx_received = x.stx_received
=============================================================================
