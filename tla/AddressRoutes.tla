---------------------------- MODULE AddressRoutes ----------------------------
(***************************************************************************)
(* The endpoints of one principal and of tokens: src/api/routes/address.ts, *)
(* v2/addresses.ts and tokens.ts, with the block parameters of             *)
(* src/api/query-helpers.ts.                                               *)
(***************************************************************************)
EXTENDS AddressReads, TxRoutes

Failed == [status |-> 500]

-----------------------------------------------------------------------------
(* Block parameters: until is None or a block by height or by block_hash. *)

\* parseUntilBlockQuery.
UntilBlockRefused(until, unanchored) ==
  \/ until # None /\ unanchored
  \/ until # None /\ until.by = "height" /\ until.value < 1

GetBlockHeight(until, unanchored) ==
  CASE until = None -> Found(GetCurrentBlockHeight + Flag(unanchored))
    [] until # None /\ until.by = "height" -> Found(until.value)
    [] OTHER -> LET b == GetBlockInternal(until)
                IN IF b.found THEN Found(b.result.height) ELSE NotFound

\* A height of its own is the single block asked for; the height 0 is none.
SingleBlock(height) == height # None /\ height # 0

\* Answer(height, single): a height of its own excludes until_block.
AtBlock(height, until, unanchored, Answer(_, _)) ==
  LET single == SingleBlock(height)
      at == GetBlockHeight(until, unanchored)
  IN CASE UntilBlockRefused(until, unanchored) -> Invalid
       [] single /\ until # None -> Invalid
       [] single /\ until = None -> Answer(height, TRUE)
       [] OTHER -> IF at.found THEN Answer(at.result, FALSE) ELSE Missing

-----------------------------------------------------------------------------
(* address.ts. *)

\* Pending transactions count only when no block is asked for.
StxBalanceView(a, until, balance, height) ==
  LET pending == GetPrincipalMempoolStxBalanceDelta(a)
  IN [stx |-> balance, offering |-> GetTokenOfferingLocked(a, height),
      estimated |-> IF until = None THEN balance.balance + pending.delta ELSE None,
      inbound |-> IF until = None THEN pending.inbound ELSE None,
      outbound |-> IF until = None THEN pending.outbound ELSE None]

AddressStx(a, until, unanchored) ==
  AtBlock(None, until, unanchored, LAMBDA h, single :
    LET found == GetStxBalanceAtBlock(a, h)
    IN IF found.found THEN Ok(StxBalanceView(a, until, found.result, h)) ELSE Failed)

AddressBalances(a, until, unanchored) ==
  AtBlock(None, until, unanchored, LAMBDA h, single :
    LET found == GetStxBalanceAtBlock(a, h)
    IN IF ~found.found THEN Failed
       ELSE Ok([stx |-> StxBalanceView(a, until, found.result, h),
                fungible_tokens |-> GetFungibleTokenBalances(a, h),
                non_fungible_tokens |-> GetNonFungibleTokenCounts(a, h)]))

AddressTxs(a, height, until, unanchored, limit, offset) ==
  Paged("Tx", limit, LAMBDA n :
    AtBlock(height, until, unanchored, LAMBDA h, single :
      Ok(TxPage(n, offset, GetAddressTxs(a, h, single, n, offset)))))

TransfersView(x) == [x EXCEPT !.tx = ParseDbTx(@)]

AddressTxWithTransfers(a, t) ==
  LET found == GetInformationTxsWithStxTransfers(a, t)
  IN IF found.found THEN Ok(TransfersView(found.result)) ELSE Missing

AddressTxsWithTransfers(a, height, until, unanchored, limit, offset) ==
  AtBlock(height, until, unanchored, LAMBDA h, single :
    Paged("Tx", limit, LAMBDA n :
      LET page == GetAddressTxsWithAssetTransfers(a, h, single, n, offset)
      IN Ok([page EXCEPT !.results = Map(@, TransfersView)])))

AddressAssets(a, until, unanchored, limit, offset) ==
  Paged("Event", limit, LAMBDA n :
    AtBlock(None, until, unanchored, LAMBDA h, single :
      LET page == GetAddressAssetEvents(a, h, n, offset)
      IN Ok([page EXCEPT !.results = Map(@, ParseDbEvent)])))

\* contract: getSendManyContract of the chain.
AddressStxInbound(a, height, until, unanchored, contract, limit, offset) ==
  AtBlock(height, until, unanchored, LAMBDA h, single :
    Paged("Tx", limit, LAMBDA n :
      Ok(GetInboundTransfers(a, h, single, contract, n, offset))))

AddressMempool(a, unanchored) ==
  Ok(MempoolPage(GetMempoolTxList(a, None, None, unanchored)))

\* height and hash exclude each other; the mempool only counts without them.
AddressNonces(a, height, hash) ==
  LET at(id) == LET found == GetAddressNonceAtBlock(a, id)
                IN IF ~found.found THEN Missing
                   ELSE Ok([last_executed |-> found.result.last_executed,
                            possible_next |-> found.result.possible_next,
                            last_mempool |-> None, missing |-> {}, detected |-> {}])
  IN CASE height # None /\ hash # None -> Invalid
       [] height # None /\ hash = None -> at([by |-> "height", value |-> height])
       [] height = None /\ hash # None -> at([by |-> "hash", value |-> hash])
       [] OTHER -> Ok(GetAddressNonces(a))

-----------------------------------------------------------------------------
(* v2/addresses.ts. *)

AddressTxsV2(a, limit, offset) ==
  LET n == IF limit = None THEN PagingLimits["Tx"][1] ELSE limit
      page == GetAddressTransactions(a, n, offset)
  IN Ok([page EXCEPT !.results = Map(@, TransfersView)])

AddressTxEventsV2(a, t, limit, offset) ==
  Paged("Tx", limit, LAMBDA n : OrMissing(GetAddressTransactionEvents(a, t, n, offset)))

AddressStxV2(a, includeMempool) ==
  LET held == GetHolderBalance(a, "stx")
      balance == IF held.found THEN held.result ELSE 0
      pending == GetPrincipalMempoolStxBalanceDelta(a)
  IN Ok([balance |-> balance,
         rewards |-> GetStxMinerRewardsAtBlock(a, chain_tip.block_height),
         lock |-> GetStxPoxLockedAtBlock(a, chain_tip.block_height,
                                         chain_tip.burn_block_height),
         estimated |-> IF includeMempool THEN balance + pending.delta ELSE None,
         inbound |-> IF includeMempool THEN pending.inbound ELSE None,
         outbound |-> IF includeMempool THEN pending.outbound ELSE None])

AddressFts(a) == Ok({[token |-> f.token, balance |-> f.balance] :
                       f \in GetFungibleTokenHolderBalances(a)})

AddressFt(a, token) ==
  LET held == GetHolderBalance(a, token) IN Ok(IF held.found THEN held.result ELSE 0)

-----------------------------------------------------------------------------
(* tokens.ts: with metadata a token comes with its transaction. *)

NftHoldings(a, includeTxMetadata, limit, offset) ==
  Paged("Token", limit, LAMBDA n : Ok(GetNftHoldings(a, includeTxMetadata, n, offset)))

NftEventView(j) ==
  [sender |-> j[1].event.sender, recipient |-> j[1].event.recipient,
   event_index |-> j[1].event.index, value |-> j[1].event.asset, tx |-> ParseDbTx(j[2])]

NftHistory(nft, unanchored, limit, offset) ==
  Paged("Token", limit, LAMBDA n :
    LET page == GetNftHistory(nft, GetCurrentBlockHeight + Flag(unanchored), n, offset)
    IN Ok([page EXCEPT !.results = Map(@, NftEventView)]))

NftMints(asset, unanchored, limit, offset) ==
  Paged("Token", limit, LAMBDA n :
    LET page == GetNftMints(asset, GetCurrentBlockHeight + Flag(unanchored), n, offset)
    IN Ok([page EXCEPT !.results = Map(@, NftEventView)]))

FtHolders(token, limit, offset) ==
  Paged("TokenHolders", limit, LAMBDA n : Ok(GetTokenHolders(token, n, offset)))
=============================================================================
