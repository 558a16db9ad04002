----------------------------- MODULE StackingApi -----------------------------
(***************************************************************************)
(* The stacking, supply and Rosetta endpoints over the tables ChainStore   *)
(* writes, in every state that blocks, re-orgs and roll-backs leave.  The  *)
(* tables hold no microblocks and the mempool is empty.                    *)
(***************************************************************************)
EXTENDS ChainStore, PoxEvents

CONSTANTS
  NoMicro,       \* microblock_hash of an anchored transaction
  Burn,          \* burn_block_hash of a block
  BurnHeight,    \* burn_block_height of a block
  Tenure,        \* tenure_height of a block
  HashOf,        \* block_hash of a block
  TxData,        \* the columns of a transaction
  PrintedIn,     \* the events of a transaction, PoX events as the contract prints them
  MinerRewardsOf, \* the matured rewards a block brings
  PoxSetOf,      \* the signers of the cycle a block brings the set of
  ForcedUnlock,  \* pox_state
  TokenOffering, \* token_offering_locked
  FtMetadata,    \* tokens with metadata
  Address,       \* every principal that holds STX
  Cycle          \* the cycles clients ask about

\* The boot transactions are rows of the first block received.
HomeBlock(b) == IF b = Genesis THEN boot ELSE b

StackingTxRows ==
  UNION {{[tx |-> t, index |-> HomeBlock(b), mb |-> NoMicro, seq |-> 2147483647,
           height |-> Height[HomeBlock(b)], canonical |-> b \in rows["txs"],
           micro |-> TRUE] : t \in TxsOf[b]} : b \in blocks}

StackingBlockRows ==
  {[index |-> b, hash |-> HashOf[b], parent |-> Parent[b],
    height |-> Height[b], canonical |-> b \in canonical, burn |-> Burn[b],
    burnHeight |-> BurnHeight[b], tenure |-> Tenure[b],
    tx_count |-> Cardinality(TxsOf[b]), signatures |-> <<>>] : b \in blocks}

StoredEvents ==
  [t \in Tx |-> {IF e.kind = "pox" THEN DecodePoxEvent(e) ELSE e : e \in PrintedIn[t]}]

MinerRewardRows ==
  UNION {{[recipient |-> w.recipient, coinbase |-> w.coinbase, fees |-> w.fees,
           height |-> Height[b], index |-> b, canonical |-> b \in rows["miner_rewards"]] :
            w \in MinerRewardsOf[b]} : b \in blocks}

\* updatePoxSetsBatch: a row per signer, and their totals by cycle.
PoxSetRows ==
  UNION {{[cycle |-> s.cycle, signing_key |-> s.signing_key, weight |-> s.weight,
           stacked |-> s.stacked, index |-> b, canonical |-> b \in rows["pox_sets"]] :
            s \in PoxSetOf[b]} : b \in blocks}

Total(S, column) == MapThenSumSet(LAMBDA s : s[column], S)

PoxCycleRows ==
  {[cycle |-> (CHOOSE s \in PoxSetOf[b] : TRUE).cycle, index |-> b,
    total_signers |-> Cardinality(PoxSetOf[b]), total_weight |-> Total(PoxSetOf[b], "weight"),
    total_stacked |-> Total(PoxSetOf[b], "stacked"), canonical |-> b \in rows["pox_cycles"]] :
     b \in {c \in blocks : PoxSetOf[c] # {}}}

StackingTipRow ==
  [block_height |-> tip.height, index_block_hash |-> tip.block,
   burn_block_height |-> IF tip.block = NoBlock THEN 0 ELSE BurnHeight[tip.block],
   microblock_hash |-> NoMicro, tx_count |-> tip.tx_count,
   tx_count_unanchored |-> tip.tx_count, mempool_tx_count |-> 0]

Api == INSTANCE Rosetta WITH
  EventsIn <- StoredEvents,
  chain_tip <- StackingTipRow, blocks <- StackingBlockRows, microblocks <- {},
  txs <- StackingTxRows, mempool_txs <- {}, miner_rewards <- MinerRewardRows,
  ft_balances <- {}, nft_custody <- {}, pox_sets <- PoxSetRows,
  pox_cycles <- PoxCycleRows

-----------------------------------------------------------------------------
(* Properties, between transactions. *)

Readable == job.phase = "idle" /\ tip.height > 0

\* What the operations of a block move to or from an account, by currency.
Moved(block, a, currency) ==
  LET counts(op) == /\ op.account = a /\ op.currency = currency
                    /\ op.status = "success"
      ops == FlattenSeq([i \in DOMAIN block.transactions |->
                           block.transactions[i].operations])
  IN FoldSeq(LAMBDA op, n : IF counts(op) THEN n + op.value ELSE n, 0, ops)

TokenBalance(answer, k) == IF k \in DOMAIN answer.tokens THEN answer.tokens[k] ELSE 0

\* Rosetta shows the fee of a sponsored transaction as paid by its sender; the
\* balances charge its sponsor.
PartyToSponsored(a, block) ==
  \E i \in DOMAIN block.transactions :
    LET t == TxData[block.transactions[i].hash]
    IN t.sponsor # None /\ a \in {t.sender, t.sponsor}

\* A Rosetta client that applies the operations of every block to the balance
\* of an account at the block below gets the balance at the block: transfers,
\* fees, rewards, locks, locks that end and tokens are each counted once, for
\* the chain that is canonical.  A transaction asked for alone shows what its
\* block shows.
RosettaReconciles ==
  Readable => \A h \in 2 .. tip.height :
    LET block == Api!RosettaBlock(None, h).body
        before(a) == Api!AccountBalance(a, None, None, h - 1).body
        after(a) == Api!AccountBalance(a, None, block.hash, None).body
    IN /\ \A a \in Address :
            /\ ~PartyToSponsored(a, block) =>
                 after(a).stx - before(a).stx = Moved(block, a, "STX")
            /\ \A k \in FtMetadata :
                 TokenBalance(after(a), k) - TokenBalance(before(a), k) = Moved(block, a, k)
       /\ \A i \in DOMAIN block.transactions :
            Api!RosettaTransaction(block.transactions[i].hash).body = block.transactions[i]

ElementsOf(s) == {s[i] : i \in DOMAIN s}

SignersAgree(n) ==
  LET cycle == Api!PoxCycle(n)
      list == Api!PoxCycleSigners(n, None, 0)
      signers == ElementsOf(list.body.results)
  IN IF cycle.status # 200 THEN list.status # 200 \/ list.body.total = 0
     ELSE /\ cycle.body \in ElementsOf(Api!PoxCycles(None, 0).body.results)
          /\ list.body.total = cycle.body.total_signers
          /\ Total(signers, "weight") = cycle.body.total_weight
          /\ Total(signers, "stacked") = cycle.body.total_stacked
          /\ \A s \in signers :
               /\ Api!PoxCycleSigner(n, s.signing_key).body = s
               /\ Api!PoxCycleSignerStackers(n, s.signing_key, None, 0).body.total
                    = s.pooled + s.solo

\* The last word of a stacker on delegation, up to a height.
LastDelegation(a, h) ==
  LET said == SelectSeq(Api!PoxEventsOfStacker("pox4_events", a).body,
                LAMBDA r : /\ r.event.name \in {"delegate-stx", "revoke-delegate-stx"}
                           /\ r.height <= h)
  IN IF said = <<>> THEN {} ELSE {Head(said).event}

DelegationsAgree(pool, h) ==
  LET listed == Api!PoolDelegations("pox4_events", pool, h, FALSE, 0, None, 0).body
      burn == Api!GetBlockByHeightInternal(h).result.burnHeight
  IN /\ listed.total = Len(listed.stackers)
     /\ {r.event.sender : r \in ElementsOf(listed.stackers)}
          = {a \in Address : \E e \in LastDelegation(a, h) :
               /\ e.name = "delegate-stx" /\ e.delegate_to = pool
               /\ e.until = None \/ e.until > burn}

PoxEventsAgree(table) ==
  LET all == ElementsOf(Api!PoxEvents(table, Api!PagingLimits["Pox2Event"][2], 0).body)
      OfTx(t) == Api!PoxEventsOfTx(table, t)
  IN /\ all = UNION {ElementsOf(Api!PoxEventsOfStacker(table, a).body) : a \in Address}
     /\ \A t \in Tx : {r \in all : r.tx = t}
                        = IF OfTx(t).status = 200 THEN ElementsOf(OfTx(t).body) ELSE {}

\* Stacking is told the same way by every endpoint, whichever forks brought a
\* set for the same cycle and the same calls: the totals of a cycle are those
\* of its signers and of their stackers; a pool lists the stackers whose last
\* word was to delegate to it; the lists of PoX events hold the same events.
StackingAnswersAgree ==
  Readable => /\ \A n \in Cycle : SignersAgree(n)
              /\ \A h \in 1 .. tip.height, pool \in Address : DelegationsAgree(pool, h)
              /\ \A table \in PoxEventTables : PoxEventsAgree(table)

\* The STX of all accounts at a block are the supply at that block, less the
\* fees that were paid and not yet rewarded to a miner, and every endpoint on
\* the supply tells the same.
SupplyIsBalances ==
  Readable =>
    /\ \A h \in 1 .. tip.height :
         LET answer(a) == Api!GetStxBalanceAtBlock(a, h).result
             accounts == {[of |-> a, balance |-> answer(a).balance, fees |-> answer(a).fees] :
                            a \in Address}
             mined == {[of |-> w.index, fees |-> w.fees] :
                         w \in {x \in MinerRewardRows : x.canonical /\ x.height <= h}}
         IN Total(accounts, "balance")
              = Api!StxSupplyLegacy(h, FALSE).body.totalStacks - Total(accounts, "fees")
                + Total(mined, "fees")
    /\ {Api!StxTotalPlain, Api!StxCirculatingPlain, Api!StxSupply(None, FALSE).body.total_stx}
         = {Api!StxSupply(tip.height, FALSE).body.total_stx}
=============================================================================
