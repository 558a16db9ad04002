---------------------------- MODULE AccountReads ----------------------------
(***************************************************************************)
(* Queries about one principal: nonces, balances, locked STX, transactions *)
(* with their transfers, tokens.  PgStore (src/datastore/pg-store.ts) and  *)
(* PgStoreV2 (src/datastore/pg-store-v2.ts).                               *)
(***************************************************************************)
EXTENDS TxReads

MaxOr(S, default) == IF S = {} THEN default ELSE Max(S)

Sponsored(t) == TxData[t].sponsor # None

\* Who pays the fee of t.
PaysFee(t, a) == IF Sponsored(t) THEN TxData[t].sponsor = a ELSE TxData[t].sender = a

-----------------------------------------------------------------------------
(* Nonces. *)

\* The nonce column is the sender's, also in the rows the address sponsored.
GetAddressNonceAtBlock(a, id) ==
  LET found == GetBlockInternal(id)
      used == {TxData[r.tx].nonce : r \in {q \in Visible(txs) :
                 PaysFee(q.tx, a) /\ q.height <= found.result.height}}
  IN IF ~found.found THEN NotFound
     ELSE Found([last_executed |-> MaxOr(used, None),
                 possible_next |-> MaxOr(used, -1) + 1])

\* Nonces an address used as sender or as sponsor in transactions T.
NoncesOf(T, a) ==
  {TxData[t].nonce : t \in {u \in T : TxData[u].sender = a}}
  \cup {TxData[t].sponsorNonce : t \in {u \in T : TxData[u].sponsor = a}}

GetAddressNonces_IgnoresSponsored(a) ==
  LET executed == {TxData[r.tx].nonce : r \in {q \in Visible(txs) : TxData[q.tx].sender = a}}
      pending == {TxData[m.tx].nonce : m \in {q \in mempool_txs : ~q.pruned
                                                /\ TxData[q.tx].sender = a}}
  IN [last_executed |-> MaxOr(executed, None), last_mempool |-> MaxOr(pending, None),
      possible_next |-> MaxOr(executed \cup pending, -1) + 1,
      missing |-> {}, detected |-> {}]

\* Between the last executed and the last pending nonce, those that are
\* pending and those that nothing pending will use.
GetAddressNonces(a) ==
  LET executed == NoncesOf({r.tx : r \in Visible(txs)}, a)
      pending == NoncesOf({m.tx : m \in {q \in mempool_txs : ~q.pruned}}, a)
      expected == IF executed = {} \/ pending = {} THEN {}
                  ELSE Max(executed) + 1 .. Max(pending) - 1
  IN [last_executed |-> MaxOr(executed, None), last_mempool |-> MaxOr(pending, None),
      possible_next |-> MaxOr(executed \cup pending, -1) + 1,
      missing |-> expected \ pending, detected |-> expected \cap pending]

-----------------------------------------------------------------------------
(* STX. *)

NoLock == [tx |-> None, locked |-> 0, lock_height |-> 0, burn_lock |-> 0,
           burn_unlock |-> 0]

\* The latest lock that still applies at a burn height; a handle-unlock event
\* applies once its height is passed.
LockRow(table, a, height, burn) ==
  First({r \in Visible(EventRows(table)) :
           /\ r.event.sender = a /\ r.height <= height
           /\ IF r.event.name = "handle-unlock" THEN r.event.unlock < burn
                                                ELSE r.event.unlock >= burn},
        EventPosition)

\* A later PoX version that has an event overrides an earlier one.
ApplyLock(lock, row) ==
  IF ~row.found THEN lock
  ELSE IF row.result.event.name = "handle-unlock" THEN NoLock
  ELSE LET r == row.result
           at == GetBlockByHeightInternal(r.height)
       IN [tx |-> r.tx, locked |-> r.event.amount, lock_height |-> r.height,
           burn_lock |-> IF at.found THEN at.result.burnHeight ELSE 0,
           burn_unlock |-> r.event.unlock]

PoxTables == <<"stx_lock_events", "pox2_events", "pox3_events", "pox4_events">>

\* getPoxForcedUnlockHeightsInternal: versions 1 to 3 stop counting above
\* their height.
StillActive(v, burn) == v = 4 \/ ForcedUnlock[v] = 0 \/ burn <= ForcedUnlock[v]

LockState(a, height, burn) ==
  LET upTo[v \in 0 .. 4] ==
        IF v = 0 THEN NoLock
        ELSE IF StillActive(v, burn)
          THEN ApplyLock(upTo[v - 1], LockRow(PoxTables[v], a, height, burn))
          ELSE upTo[v - 1]
  IN upTo[4]

\* PgStoreV2.getStxPoxLockedAtBlock: PoX 4 only, and the burn height of the
\* lock is the one of the block that was asked for.
GetStxPoxLockedAtBlock(a, height, burn) ==
  LET lock == ApplyLock(NoLock, LockRow("pox4_events", a, height, burn))
      at == GetBlockByHeightInternal(height)
  IN IF lock = NoLock THEN lock
     ELSE [lock EXCEPT !.burn_lock = IF at.found THEN at.result.burnHeight ELSE 0]

StxRows(height) == {r \in Visible(EventRows("stx_events")) : r.height <= height}

Reward(w) == w.coinbase + w.fees

RewardsOfMiner(a, height) ==
  {w \in Canonical(miner_rewards) : w.recipient = a /\ w.height <= height}

GetStxMinerRewardsAtBlock(a, height) == SumOf(RewardsOfMiner(a, height), Reward)

InternalGetStxBalanceAtBlock_AnyFork(a, height, burn) ==
  LET rows == {r \in MicroCanonical(EventRows("stx_events")) : r.height <= height}
      received == SumOf({r \in rows : r.event.recipient = a}, LAMBDA r : r.event.amount)
      sent == SumOf({r \in rows : r.event.sender = a}, LAMBDA r : r.event.amount)
      fees == SumOf({r \in Visible(txs) : r.height <= height /\ PaysFee(r.tx, a)},
                    LAMBDA r : TxData[r.tx].fee)
      rewards == GetStxMinerRewardsAtBlock(a, height)
  IN [balance |-> received - sent - fees + rewards, sent |-> sent,
      received |-> received, fees |-> fees, rewards |-> rewards,
      lock |-> LockState(a, height, burn)]

InternalGetStxBalanceAtBlock(a, height, burn) ==
  LET rows == StxRows(height)
      received == SumOf({r \in rows : r.event.recipient = a}, LAMBDA r : r.event.amount)
      sent == SumOf({r \in rows : r.event.sender = a}, LAMBDA r : r.event.amount)
      fees == SumOf({r \in Visible(txs) : r.height <= height /\ PaysFee(r.tx, a)},
                    LAMBDA r : TxData[r.tx].fee)
      rewards == GetStxMinerRewardsAtBlock(a, height)
  IN [balance |-> received - sent - fees + rewards, sent |-> sent,
      received |-> received, fees |-> fees, rewards |-> rewards,
      lock |-> LockState(a, height, burn)]

GetStxBalanceAtBlock(a, height) ==
  LET at == GetBlockByHeightInternal(
              IF height > chain_tip.block_height THEN chain_tip.block_height ELSE height)
  IN IF ~at.found THEN NotFound
     ELSE Found(InternalGetStxBalanceAtBlock(a, height, at.result.burnHeight))

GetPrincipalMempoolStxBalanceDelta(a) ==
  LET pending == {m.tx : m \in {q \in mempool_txs : ~q.pruned}}
      amount(t) == TxData[t].amount
      outbound == SumOf({t \in pending : TxData[t].sender = a},
                        LAMBDA t : amount(t) + TxData[t].fee)
                  + SumOf({t \in pending : TxData[t].sponsor = a}, LAMBDA t : TxData[t].fee)
      inbound == SumOf({t \in pending : TxData[t].recipient = a}, amount)
  IN [inbound |-> inbound, outbound |-> outbound, delta |-> inbound - outbound]

GetUnlockedStxSupply_AnyFork(height, mature) ==
  LET minted(k) == SumOf({r \in StxRows(height) : r.event.kind = k},
                         LAMBDA r : r.event.amount)
  IN minted("mint") - minted("burn")
     + SumOf({w \in miner_rewards : w.height <= mature}, LAMBDA w : w.coinbase)

\* Rewards mature with a block: the unanchored height has none of its own.
GetUnlockedStxSupply(height, mature) ==
  LET minted(k) == SumOf({r \in StxRows(height) : r.event.kind = k},
                         LAMBDA r : r.event.amount)
  IN minted("mint") - minted("burn")
     + SumOf({w \in Canonical(miner_rewards) : w.height <= mature}, LAMBDA w : w.coinbase)

\* What a sale of tokens still withholds from an address.
GetTokenOfferingLocked(a, height) ==
  LET rows == TokenOffering[a]
      value(x) == x.value
  IN IF rows = {} THEN NotFound
     ELSE Found([total_locked |-> SumOf({x \in rows : x.block > height}, value),
                 total_unlocked |-> SumOf({x \in rows : x.block <= height}, value)])

GetMinersRewardsAtHeight(h) == {w \in Canonical(miner_rewards) : w.height = h}

-----------------------------------------------------------------------------
(* Fungible and non-fungible tokens. *)

TokenRows(table, a, height) ==
  {r \in Visible(EventRows(table)) : Involves(r.event, a) /\ r.height <= height}

GetFungibleTokenBalances(a, height) ==
  LET rows == TokenRows("ft_events", a, height)
      total(S, k) == SumOf({r \in S : r.event.asset = k}, LAMBDA r : r.event.amount)
      received == {r \in rows : r.event.recipient = a}
      sent == {r \in rows : r.event.sender = a}
  IN [k \in {r.event.asset : r \in rows} |->
        [balance |-> total(received, k) - total(sent, k),
         sent |-> total(sent, k), received |-> total(received, k)]]

GetNonFungibleTokenCounts(a, height) ==
  LET rows == TokenRows("nft_events", a, height)
      moved(party, k) == Cardinality({r \in rows : r.event.asset[1] = k
                                                   /\ r.event[party] = a})
  IN [k \in {r.event.asset[1] : r \in rows} |->
        [count |-> moved("recipient", k) - moved("sender", k),
         sent |-> moved("sender", k), received |-> moved("recipient", k)]]

\* ft_balances, which the write store keeps.
GetTokenHolders(token, limit, offset) ==
  LET rows == {f \in ft_balances : f.token = token}
      page == Page(Descending(rows, LAMBDA f : <<f.balance>>), limit, offset)
      none == page = <<>>
  IN [results |-> page, total |-> IF none THEN 0 ELSE Cardinality(rows),
      total_supply |-> IF none THEN 0 ELSE SumOf(rows, LAMBDA f : f.balance)]

\* All of them: the pages of a list ordered by the token's name.
GetFungibleTokenHolderBalances(a) ==
  {f \in ft_balances : f.address = a /\ f.balance > 0 /\ f.token # "stx"}

GetHolderBalance(a, token) ==
  LET rows == {f \in ft_balances : f.address = a /\ f.token = token}
  IN IF rows = {} THEN NotFound ELSE Found((CHOOSE f \in rows : TRUE).balance)

\* With transaction metadata a row needs a visible transaction.
GetNftHoldings(a, includeTxMetadata, limit, offset) ==
  LET held == {n \in nft_custody : n.recipient = a}
      key(n) == <<n.height, n.index>>
      page == Page(Descending(held, key), limit, offset)
      shown(n) == ~includeTxMetadata \/ \E r \in Visible(txs) : r.tx = n.tx
      rows == SelectSeq(page, shown)
  IN [results |-> rows, total |-> IF rows = <<>> THEN 0 ELSE Cardinality(held)]

\* The join with txs is by tx_id: one row per visible row of the transaction.
NftEvents(wanted, height, limit, offset) ==
  LET events == {r \in wanted : r.height <= height}
      joined == UNION {{<<r, q>> : q \in {x \in Visible(txs) : x.tx = r.tx}} : r \in events}
      key(j) == <<j[1].height, j[2].seq, TxData[j[2].tx].index, j[1].event.index>>
      page == Page(Descending(joined, key), limit, offset)
  IN [results |-> page, total |-> IF page = <<>> THEN 0 ELSE Cardinality(joined)]

GetNftHistory(nft, height, limit, offset) ==
  NftEvents({r \in Visible(EventRows("nft_events")) : r.event.asset = nft},
            height, limit, offset)

GetNftMints(asset, height, limit, offset) ==
  NftEvents({r \in Visible(EventRows("nft_events")) :
               r.event.asset[1] = asset /\ r.event.kind = "mint"},
            height, limit, offset)
=============================================================================
