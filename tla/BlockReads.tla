----------------------------- MODULE BlockReads -----------------------------
(***************************************************************************)
(* Queries of blocks, microblocks and the transactions in them: PgStore    *)
(* (src/datastore/pg-store.ts) and PgStoreV2 (src/datastore/pg-store-v2.ts). *)
(* A block is asked for by its block_hash, its height or its burn block;   *)
(* two rows of blocks may share a block_hash on different forks.           *)
(***************************************************************************)
EXTENDS Tables

BlockKey(b) == <<Flag(b.canonical), b.height>>

\* BlockIdentifier of the first version of the API.
MatchesIdentifier(b, id) ==
  CASE id.by = "hash" -> b.hash = id.value
    [] id.by = "height" -> b.height = id.value
    [] id.by = "burnBlockHash" -> b.burn = id.value
    [] id.by = "burnBlockHeight" -> b.burnHeight = id.value

\* An orphaned block is only returned when no canonical one matches.
GetBlockInternal(id) ==
  First({b \in blocks : MatchesIdentifier(b, id)}, BlockKey)

GetBlockByHeightInternal(h) ==
  First({b \in Canonical(blocks) : b.height = h}, BlockKey)

GetCurrentBlockHeight == chain_tip.block_height

GetCurrentBlockInternal ==
  First({b \in blocks : b.index = chain_tip.index_block_hash
                        /\ b.height = chain_tip.block_height}, BlockKey)

BlockTxs_AnyMicro(index) ==
  Descending({r \in Canonical(txs) : r.index = index}, BlockPosition)

\* The transactions of one index_block_hash, as every query selects them.
BlockTxs(index) == Descending({r \in Visible(txs) : r.index = index}, BlockPosition)

MicroblockTxCount(m) == Cardinality({r \in Visible(txs) : r.mb = m.hash})

\* Of the stream a block confirms, and of the one built on top of it.
StreamRows(base) == {m \in MicroCanonical(microblocks) : m.base = base}

Hashes(S) == {m.hash : m \in S}

TxCounts(S) == {<<m.hash, MicroblockTxCount(m)>> : m \in S}

GetBlockWithMetadata(id) ==
  LET found == GetBlockInternal(id)
      b == found.result
  IN IF ~found.found THEN NotFound
     ELSE Found([block |-> b, txs |-> BlockTxs(b.index),
                 accepted |-> Hashes(StreamRows(b.parent)),
                 streamed |-> Hashes(StreamRows(b.index)),
                 microblock_tx_count |-> TxCounts(StreamRows(b.parent))])

\* The list version finds the streamed microblocks of a block by comparing
\* the block's parent with the block that confirmed the microblock.
GetBlocksWithMetadata(limit, offset) ==
  LET page == Page(Descending(Canonical(blocks), BlockKey), limit, offset)
      near == UNION {{page[i].index, page[i].parent} : i \in DOMAIN page}
      rows == {m \in MicroCanonical(microblocks) : m.base \in near}
      meta(b) == [block |-> b, txs |-> BlockTxs(b.index),
                  accepted |-> Hashes({m \in rows : m.base = b.parent}),
                  streamed |-> Hashes({m \in rows : m.index = b.parent}),
                  microblock_tx_count |-> TxCounts({m \in rows : m.base = b.parent})]
  IN [results |-> Map(page, meta), total |-> chain_tip.block_height]

\* Asked for a block that the same request has found: for another it throws.
GetBlockTxsRows(hash) ==
  LET found == GetBlockInternal([by |-> "hash", value |-> hash])
      rows == Reverse(BlockTxs(found.result.index))
  IN IF rows = <<>> THEN NotFound ELSE Found(rows)

GetTxsFromBlock(id, limit, offset) ==
  LET found == GetBlockInternal(id)
      all == BlockTxs(found.result.index)
  IN IF ~found.found THEN NotFound
     ELSE Found([results |-> Page(all, limit, offset), total |-> Len(all)])

\* ORDER BY canonical DESC, microblock_canonical DESC LIMIT 1: the table has
\* one row per microblock_hash.
GetMicroblock(hash) ==
  LET rows == {m \in microblocks : m.hash = hash}
  IN IF rows = {} THEN NotFound
     ELSE Found([microblock |-> CHOOSE m \in rows : TRUE,
                 txs |-> {r.tx : r \in {x \in Visible(txs) : x.mb = hash}}])

\* LIMIT counts the rows of the join, one per transaction; a microblock
\* without visible transactions has none.
GetMicroblocks(limit, offset) ==
  LET joined == UNION {{<<m, r>> : r \in {x \in Visible(txs) : x.mb = m.hash}} :
                         m \in Visible(microblocks)}
      key(j) == <<j[1].height, j[1].seq, TxData[j[2].tx].index>>
      page == Page(Descending(joined, key), limit, offset)
  IN {[microblock |-> page[i][1],
       txs |-> {page[j][2].tx : j \in {k \in DOMAIN page : page[k][1] = page[i][1]}}] :
        i \in DOMAIN page}

GetUnanchoredTxs ==
  Descending({r \in Visible(txs) : r.height = chain_tip.block_height + 1},
             ChainPosition)

-----------------------------------------------------------------------------
(* Version 2: only canonical blocks, by height, either hash, or latest. *)

Latest == Descending(Canonical(blocks), BlockKey)[1]

MatchesParam(b, id) ==
  CASE id.by = "latest" -> b.index = Latest.index
    [] id.by = "hash" -> id.value \in {b.hash, b.index}
    [] id.by = "height" -> b.height = id.value

MatchesBurnParam(b, id) ==
  CASE id.by = "latest" -> b.burn = Latest.burn
    [] id.by = "hash" -> b.burn = id.value
    [] id.by = "height" -> b.burnHeight = id.value

GetBlock(id) == First({b \in Canonical(blocks) : MatchesParam(b, id)}, BlockKey)

GetBlockSignerSignature(id, limit, offset) ==
  LET found == GetBlock(id)
  IN IF ~found.found THEN [results |-> <<>>, total |-> 0]
     ELSE [results |-> Page(found.result.signatures, limit, offset),
           total |-> Len(found.result.signatures)]

GetBlockTransactions(id, limit, offset) ==
  LET found == GetBlock(id)
      all == Reverse(BlockTxs(found.result.index))
  IN IF ~found.found THEN NotFound
     ELSE IF Page(all, limit, offset) = <<>> THEN NotFound
     ELSE Found([results |-> Page(all, limit, offset),
                 total |-> found.result.tx_count])

GetBlocks_AtCursor(limit, offset, cursor, tenure) ==
  LET listed == {b \in Canonical(blocks) : tenure = None \/ b.tenure = tenure}
      down == Descending(listed, BlockKey)
      at == {i \in DOMAIN down : down[i].index = cursor}
      from == (CHOOSE i \in at : TRUE) + offset
      nth(i) == IF i \in DOMAIN down THEN down[i].index ELSE None
      none == [results |-> <<>>, total |-> 0, next_cursor |-> None,
               prev_cursor |-> None, current_cursor |-> None]
  IN IF at = {} \/ from > Len(down) THEN none
     ELSE [results |-> Page(down, limit, from - 1),
           total |-> IF tenure = None THEN chain_tip.block_height
                     ELSE Cardinality({b \in blocks : b.tenure = tenure}),
           next_cursor |-> nth(from - limit + 1), prev_cursor |-> nth(from + limit),
           current_cursor |-> nth(from)]

\* A page starts offset blocks below its cursor, which is the chain tip when
\* none is given; the neighbouring cursors are limit blocks away.  With a
\* tenure the total counts blocks of every fork.
GetBlocks(limit, offset, cursor, tenure) ==
  LET listed == {b \in Canonical(blocks) : tenure = None \/ b.tenure = tenure}
      down == Descending(listed, BlockKey)
      at == {i \in DOMAIN down :
               down[i].index = IF cursor = None THEN chain_tip.index_block_hash
                                                ELSE cursor}
      from == (CHOOSE i \in at : TRUE) + offset
      nth(i) == IF i \in DOMAIN down THEN down[i].index ELSE None
      none == [results |-> <<>>, total |-> 0, next_cursor |-> None,
               prev_cursor |-> None, current_cursor |-> None]
  IN IF at = {} \/ from > Len(down) THEN none
     ELSE [results |-> Page(down, limit, from - 1),
           total |-> IF tenure = None THEN chain_tip.block_height
                     ELSE Cardinality({b \in blocks : b.tenure = tenure}),
           next_cursor |-> nth(from - limit), prev_cursor |-> nth(from + limit),
           current_cursor |-> nth(from)]

GetBlocksByBurnBlock(id, limit, offset) ==
  LET all == {b \in Canonical(blocks) : MatchesBurnParam(b, id)}
  IN IF \A b \in blocks : ~MatchesBurnParam(b, id) THEN NotFound
     ELSE LET page == Page(Descending(all, BlockKey), limit, offset)
          IN Found([results |-> page,
                    total |-> IF page = <<>> THEN 0 ELSE Cardinality(all)])

\* One burn block: its Stacks blocks, newest first, and their transactions.
\* DISTINCT ON keeps the highest Stacks block's hash and time.
BurnBlock(all) ==
  LET down == Descending(all, BlockKey)
      count == [i \in DOMAIN down |-> down[i].tx_count]
  IN [burn_block_hash |-> down[1].burn, burn_block_height |-> down[1].burnHeight,
      stacks_blocks |-> Map(down, LAMBDA b : b.hash),
      total_tx_count |-> FoldSeq(LAMBDA n, m : n + m, 0, count)]

GetBurnBlocks(limit, offset) ==
  LET heights == {b.burnHeight : b \in Canonical(blocks)}
      page == Page(Descending(heights, LAMBDA h : <<h>>), limit, offset)
  IN [results |->
        Map(page, LAMBDA h : BurnBlock({b \in Canonical(blocks) : b.burnHeight = h})),
      total |-> IF page = <<>> THEN 0 ELSE chain_tip.block_height]

GetBurnBlock(id) ==
  LET all == {b \in Canonical(blocks) : MatchesBurnParam(b, id)}
  IN IF all = {} THEN NotFound ELSE Found(BurnBlock(all))

\* getBlockCanonicalStatus, behind the ETag of a block.
GetBlockCanonicalStatus(id) ==
  LET rows == {b \in blocks :
                 CASE id.by = "latest" -> b.index = chain_tip.index_block_hash
                   [] id.by = "hash" -> b.index = id.value
                   [] id.by = "height" -> b.height = id.value /\ b.canonical}
  IN IF rows = {} THEN None
     ELSE LET b == CHOOSE x \in rows : TRUE IN <<b.index, b.canonical>>
=============================================================================
