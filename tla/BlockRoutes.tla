----------------------------- MODULE BlockRoutes -----------------------------
(***************************************************************************)
(* The endpoints of blocks and microblocks: src/api/routes/block.ts,       *)
(* microblock.ts, v2/blocks.ts, v2/burn-blocks.ts and v2/block-tenures.ts, *)
(* with the views of rows they answer with (db-controller.ts and           *)
(* v2/helpers.ts).                                                         *)
(***************************************************************************)
EXTENDS BlockReads, Paging

-----------------------------------------------------------------------------
(* Views. *)

ParseDbBlock(m) ==
  [hash |-> m.block.hash, index |-> m.block.index, height |-> m.block.height,
   canonical |-> m.block.canonical,
   txs |-> Map(m.txs, LAMBDA r : r.tx), accepted |-> m.accepted,
   streamed |-> m.streamed, microblock_tx_count |-> m.microblock_tx_count]

ParseDbMicroblock(m, T) ==
  [hash |-> m.hash, sequence |-> m.seq, height |-> m.height, index |-> m.index,
   canonical |-> m.canonical, microblock_canonical |-> m.micro, txs |-> T]

ParseDbNakamotoBlock(b) ==
  [hash |-> b.hash, index |-> b.index, parent |-> b.parent, height |-> b.height,
   canonical |-> b.canonical, tenure_height |-> b.tenure,
   burn_block_hash |-> b.burn, burn_block_height |-> b.burnHeight,
   tx_count |-> b.tx_count]

ParseDbTx(r) ==
  [tx_id |-> r.tx, tx_type |-> TxData[r.tx].type, tx_status |-> TxData[r.tx].status,
   index |-> r.index, block_height |-> r.height, microblock_hash |-> r.mb,
   canonical |-> r.canonical, microblock_canonical |-> r.micro,
   is_unanchored |-> r.index = NoBlock]

TxPage(limit, offset, all) == [limit |-> limit, offset |-> offset, total |-> all.total,
                               results |-> Map(all.results, ParseDbTx)]

-----------------------------------------------------------------------------
(* block.ts and microblock.ts: version 1. *)

BlockList(limit, offset) ==
  Paged("Block", limit, LAMBDA n :
    LET page == GetBlocksWithMetadata(n, offset)
    IN Ok([total |-> page.total, results |-> Map(page.results, ParseDbBlock)]))

\* getBlockFromDataStore.
BlockBy(id) ==
  LET found == GetBlockWithMetadata(id)
  IN IF found.found THEN Ok(ParseDbBlock(found.result)) ELSE Missing

BlockByHeight(h) == BlockBy([by |-> "height", value |-> h])
BlockByBurnBlockHeight(h) == BlockBy([by |-> "burnBlockHeight", value |-> h])
BlockByHash(hash) == BlockBy([by |-> "hash", value |-> hash])
BlockByBurnBlockHash(hash) == BlockBy([by |-> "burnBlockHash", value |-> hash])

\* The total, which chain_tip adds up over all messages, is left out.
MicroblockList(limit, offset) ==
  Paged("Microblock", limit, LAMBDA n :
    Ok({ParseDbMicroblock(m.microblock, m.txs) : m \in GetMicroblocks(n, offset)}))

MicroblockByHash(hash) ==
  LET found == GetMicroblock(hash)
  IN IF found.found THEN Ok(ParseDbMicroblock(found.result.microblock, found.result.txs))
     ELSE Missing

UnanchoredTxs == Ok(Map(GetUnanchoredTxs, ParseDbTx))

-----------------------------------------------------------------------------
(* v2/blocks.ts, v2/burn-blocks.ts and v2/block-tenures.ts. *)

BlockPage(limit, offset, cursor, tenure) ==
  Paged("Block", limit, LAMBDA n :
    LET page == GetBlocks(n, offset, cursor, tenure)
    IN IF cursor # None /\ page.current_cursor = None THEN Missing
       ELSE Ok([page EXCEPT !.results = Map(@, ParseDbNakamotoBlock)]))

BlocksV2(limit, offset, cursor) == BlockPage(limit, offset, cursor, None)

\* A tenure of 0 is no filter.
TenureBlocks(tenure, limit, offset, cursor) ==
  BlockPage(limit, offset, cursor, IF tenure = 0 THEN None ELSE tenure)

BlockV2(id) ==
  LET found == GetBlock(id)
  IN IF found.found THEN Ok(ParseDbNakamotoBlock(found.result)) ELSE Missing

BlockV2Transactions(id, limit, offset) ==
  LET n == IF limit = None THEN PagingLimits["Tx"][1] ELSE limit
      found == GetBlockTransactions(id, n, offset)
  IN IF found.found THEN Ok(TxPage(n, offset, found.result)) ELSE Missing

BlockV2SignerSignatures(id, limit, offset) ==
  Ok(GetBlockSignerSignature(id,
       IF limit = None THEN PagingLimits["BlockSignerSignature"][1] ELSE limit, offset))

BurnBlocks(limit, offset) ==
  Ok(GetBurnBlocks(IF limit = None THEN PagingLimits["BurnBlock"][1] ELSE limit, offset))

BurnBlockBy(id) == OrMissing(GetBurnBlock(id))

BurnBlockBlocks(id, limit, offset) ==
  LET n == IF limit = None THEN PagingLimits["BurnBlock"][1] ELSE limit
      found == GetBlocksByBurnBlock(id, n, offset)
  IN IF ~found.found THEN Missing
     ELSE Ok([found.result EXCEPT !.results = Map(@, ParseDbNakamotoBlock)])

=============================================================================
