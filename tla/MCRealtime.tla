----------------------------- MODULE MCRealtime -----------------------------
(***************************************************************************)
(* An RPC client and a Socket.IO client.  A transaction is sent on the       *)
(* mempool topic and on its own, an NFT event on the topics of all events  *)
(* and of the collection.  Each kind of topic has a manager: the ids of    *)
(* all transactions share one.                                             *)
(***************************************************************************)
EXTENDS Realtime, TLC

CONSTANTS
  r1, i1, mempool, tx1, tx2, nft, collection, txEvent, nftEvent,
  transaction

TxAndNft == {mempool, tx1, tx2, nft, collection}
Managers == {mempool, transaction, nft, collection}
ManagerOfKind ==
  [t \in Topic |-> IF t \in {tx1, tx2} THEN transaction ELSE t]
TxAndNftStages == (txEvent :> <<mempool, tx1>>) @@ (nftEvent :> <<nft, collection>>)

\* Two topics of one manager, and the only one of another.
TxAndNftInterest == (r1 :> {tx1, tx2, collection}) @@ (i1 :> {mempool})
TxTwice == (txEvent :> 2) @@ (nftEvent :> 1)
=============================================================================
