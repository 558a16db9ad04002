------------------------------ MODULE Rosetta ------------------------------
(***************************************************************************)
(* The data half of the Rosetta API: the operations of a transaction       *)
(* (src/rosetta/rosetta-helpers.ts), blocks and transactions made of them  *)
(* (src/api/controllers/db-controller.ts), and the balance of an account   *)
(* at a block (src/api/routes/rosetta/account.ts, block.ts).               *)
(***************************************************************************)
EXTENDS StackingReads

CONSTANT FtMetadata  \* the tokens that Rosetta knows the metadata of

NoOneNamed == "none"

\* An operation that moves nothing has amount 0.
Operation(type, account, value, currency, status) ==
  [type |-> type, account |-> account, value |-> value, currency |-> currency,
   status |-> status]

StxOperation(type, account, value, t) ==
  Operation(type, account, value, "STX", TxData[t].status)

\* The sender is charged, sponsored or not.
MakeFeeOperation(t) == StxOperation("fee", TxData[t].sender, -TxData[t].fee, t)

MakeTransferOperations(from, to, amount, t) ==
  <<StxOperation("token_transfer", from, -amount, t),
    StxOperation("token_transfer", to, amount, t)>>

MakeMinerRewardOperation(w) == Operation("miner_reward", w.recipient, Reward(w), "STX", "success")

MakeStakeUnlockOperation(u) ==
  Operation("stx_unlock", u.stacker_address, u.unlocked_amount, "STX", "success")

\* A coinbase carries what the block pays and unlocks.
CoinbaseTypes == {"coinbase", "coinbase_to_alt_recipient", "nakamoto_coinbase"}

TxOperations(t, rewards, unlocks) ==
  LET type == TxData[t].type
      own(kind) == StxOperation(kind, TxData[t].sender, 0, t)
  IN CASE type = "token_transfer" ->
            <<MakeFeeOperation(t)>>
            \o MakeTransferOperations(TxData[t].sender, TxData[t].recipient, TxData[t].amount, t)
       [] type \in {"contract_call", "smart_contract"} -> <<MakeFeeOperation(t), own(type)>>
       [] type \in CoinbaseTypes ->
            <<own("coinbase")>>
            \o SetToSeq({MakeMinerRewardOperation(w) : w \in rewards})
            \o SetToSeq({MakeStakeUnlockOperation(u) : u \in unlocks})
       [] type = "poison_microblock" -> <<own(type)>>
       [] type = "tenure_change" -> <<StxOperation(type, NoOneNamed, 0, t)>>

-----------------------------------------------------------------------------
(* processEvents. *)

IsTransfer(e) == e.table = "stx_events" /\ e.kind = "transfer"

\* The transfers before an event overwrite the sender of the transaction,
\* which a burn is then charged to.
SenderAt(t, E, e) ==
  LET before == {x \in E : IsTransfer(x) /\ x.index < e.index}
  IN IF TxData[t].type = "token_transfer" \/ before = {} THEN TxData[t].sender
     ELSE (CHOOSE x \in before : \A y \in before : y.index <= x.index).sender

StxEventOperations(t, E, e) ==
  CASE e.kind = "transfer" ->
         IF TxData[t].type = "token_transfer" THEN <<>>
         ELSE MakeTransferOperations(e.sender, e.recipient, e.amount, t)
    [] e.kind = "burn" -> <<StxOperation("burn", SenderAt(t, E, e), -e.amount, t)>>
    [] e.kind = "mint" -> <<StxOperation("mint", e.recipient, e.amount, t)>>

FtEventOperations(t, e) ==
  LET op(type, account, value) == Operation(type, account, value, e.asset, TxData[t].status)
  IN CASE e.asset \notin FtMetadata -> <<>>
       [] e.kind = "transfer" -> <<op("token_transfer", e.sender, -e.amount),
                                   op("token_transfer", e.recipient, e.amount)>>
       [] e.kind = "burn" -> <<op("burn", e.sender, -e.amount)>>
       [] e.kind = "mint" -> <<op("mint", e.recipient, e.amount)>>

EventOperations(t, E, e) ==
  CASE e.table = "stx_events" -> StxEventOperations(t, E, e)
    [] e.table = "stx_lock_events" -> <<StxOperation("stx_lock", e.sender, -e.amount, t)>>
    [] e.table = "ft_events" -> FtEventOperations(t, e)
    [] OTHER -> <<>>

GetOperations(t, rewards, unlocks, E) ==
  TxOperations(t, rewards, unlocks)
  \o FoldSeq(LAMBDA e, ops : ops \o EventOperations(t, E, e), <<>>,
             Ascending(E, LAMBDA e : <<e.index>>))

-----------------------------------------------------------------------------
(* Blocks and transactions. *)

\* parseRosettaTxDetail: the events of the boot data are not shown.
ParseRosettaTxDetail(block, r, rewards, unlocks) ==
  LET events == IF block.height > 1
                  THEN {x.event : x \in GetTxEvents(r.tx, r.index, 5000, 0)} ELSE {}
  IN [hash |-> r.tx, operations |-> GetOperations(r.tx, rewards, unlocks, events)]

RosettaBlockTransactions(block) ==
  LET rows == GetBlockTxsRows(block.hash)
      rewards == GetMinersRewardsAtHeight(block.height)
      unlocks == GetUnlockedAddressesAtBlock(block)
  IN IF ~rows.found THEN <<>>
     ELSE Map(rows.result, LAMBDA r : ParseRosettaTxDetail(block, r, rewards, unlocks))

\* The block's parent must be known; blocks up to height 1 are their own.
RosettaBlockOf(found) ==
  LET block == found.result
      parent == IF block.height <= 1 THEN Found(block)
                ELSE First({b \in blocks : b.index = block.parent}, LAMBDA b : <<0>>)
  IN IF ~found.found \/ ~parent.found THEN [status |-> 500]
     ELSE Ok([index |-> block.height, hash |-> block.hash,
              parent |-> parent.result.hash,
              transactions |-> RosettaBlockTransactions(block)])

\* POST /rosetta/v1/block, by hash, by height, or the current one.
RosettaBlock(hash, index) ==
  RosettaBlockOf(CASE hash # None -> GetBlockInternal([by |-> "hash", value |-> hash])
                   [] hash = None /\ index # None /\ index > 0 ->
                        GetBlockInternal([by |-> "height", value |-> index])
                   [] OTHER -> GetCurrentBlockInternal)

\* POST /rosetta/v1/block/transaction: what the block pays and unlocks is
\* shown with a coinbase of the two older types.
RosettaTransaction(t) ==
  LET row == GetTx(t, FALSE)
      mined == {b \in blocks : b.index = row.result.index}
      block == GetBlockInternal([by |-> "hash", value |-> (CHOOSE b \in mined : TRUE).hash])
      pays == TxData[t].type \in {"coinbase", "coinbase_to_alt_recipient"}
      rewards == IF pays THEN GetMinersRewardsAtHeight(block.result.height) ELSE {}
      unlocks == IF pays THEN GetUnlockedAddressesAtBlock(block.result) ELSE {}
  IN IF ~row.found \/ mined = {} THEN [status |-> 500]
     ELSE Ok(ParseRosettaTxDetail(block.result, row.result, rewards, unlocks))

-----------------------------------------------------------------------------
(* POST /rosetta/v1/mempool and /mempool/transaction: a pending transaction *)
(* has no events yet.                                                      *)

RosettaMempool == Ok({m.tx : m \in GetMempoolTxList(None, None, None, FALSE).results})

RosettaMempoolTransaction(t) ==
  LET found == GetMempoolTx(t, FALSE, FALSE)
      pending == Map(GetOperations(t, {}, {}, {}),
                     LAMBDA op : [op EXCEPT !.status = found.result.status])
  IN IF ~found.found THEN Invalid ELSE Ok([hash |-> t, operations |-> pending])

-----------------------------------------------------------------------------
(* POST /rosetta/v1/account/balance. *)

\* STX of the account or of one of its sub-accounts, with the tokens that
\* Rosetta knows.
RosettaBalance(a, sub, block) ==
  LET height == block.height
      stx == GetStxBalanceAtBlock(a, height).result
      vesting == GetTokenOfferingLocked(a, height)
      tokens == GetFungibleTokenBalances(a, height)
      value == CASE sub \in {None, "SpendableBalance"} -> stx.balance - stx.lock.locked
                 [] sub = "StackedBalance" -> stx.lock.locked
                 [] sub = "VestingLockedBalance" ->
                      IF vesting.found THEN vesting.result.total_locked ELSE 0
                 [] sub = "VestingUnlockedBalance" ->
                      IF vesting.found THEN vesting.result.total_unlocked ELSE 0
  IN Ok([stx |-> value, index |-> height, hash |-> block.hash,
         tokens |-> [k \in DOMAIN tokens \cap FtMetadata |-> tokens[k].balance],
         sequence_number |->
           GetAddressNonceAtBlock(a, [by |-> "height", value |-> height]).result.possible_next])

SubAccounts ==
  {None, "SpendableBalance", "StackedBalance", "VestingLockedBalance", "VestingUnlockedBalance"}

\* The index goes before the hash, which must then be the one of the block.
AccountBalance(a, sub, hash, index) ==
  LET found == CASE index # None /\ index > 0 ->
                      GetBlockInternal([by |-> "height", value |-> index])
                 [] index = None /\ hash # None ->
                      GetBlockInternal([by |-> "hash", value |-> hash])
                 [] OTHER -> GetCurrentBlockInternal
  IN IF \/ sub \notin SubAccounts \/ ~found.found
        \/ hash # None /\ found.result.hash # hash
       THEN Invalid ELSE RosettaBalance(a, sub, found.result)
=============================================================================
