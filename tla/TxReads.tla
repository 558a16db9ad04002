------------------------------ MODULE TxReads ------------------------------
(***************************************************************************)
(* Queries of transactions, their events and the mempool: PgStore and      *)
(* PgStoreV2, with the controllers that join mined and pending rows        *)
(* (src/api/controllers/db-controller.ts).                                 *)
(***************************************************************************)
EXTENDS BlockReads

RowKey(r) == <<Flag(r.canonical), Flag(r.micro), r.height>>

\* A visible row, else an orphaned one, never above the height asked for.
GetTx(t, includeUnanchored) ==
  First({r \in txs : r.tx = t /\ r.height <= GetMaxBlockHeight(includeUnanchored)},
        RowKey)

GetTxListDetails_AnyFork(T, includeUnanchored) ==
  {r \in txs : r.tx \in T /\ r.height <= GetMaxBlockHeight(includeUnanchored)}

GetTxListDetails(T, includeUnanchored) ==
  {r \in Visible(txs) : r.tx \in T
                        /\ r.height <= GetMaxBlockHeight(includeUnanchored)}

\* The filters of getTxList: a transaction type, a sender and a recipient.
PassesFilter(t, f) ==
  /\ f.type = None \/ TxData[t].type = f.type
  /\ f.from = None \/ TxData[t].sender = f.from
  /\ f.to = None \/ TxData[t].recipient = f.to

NoFilters == [type |-> None, from |-> None, to |-> None]

\* Without filters the total is a counter of chain_tip.
GetTxList(f, includeUnanchored, limit, offset) ==
  LET all == {r \in Visible(txs) : PassesFilter(r.tx, f)
                /\ r.height <= GetMaxBlockHeight(includeUnanchored)}
  IN [results |-> Page(Descending(all, ChainPosition), limit, offset),
      total |-> CASE f # NoFilters -> Cardinality(all)
                  [] includeUnanchored -> chain_tip.tx_count_unanchored
                  [] OTHER -> chain_tip.tx_count]

-----------------------------------------------------------------------------
(* Events. *)

\* "all micro-orphaned events are excluded": an unanchored transaction has no
\* index_block_hash to tell the streams it was part of apart.
TxEventRows(t, index) ==
  {r \in MicroCanonical(AllEventRows) : r.tx = t /\ r.index = index}

\* limit and offset are bounds of event_index.
InEventPage(r, limit, offset) == r.event.index \in offset .. offset + limit - 1

GetTxEvents(t, index, limit, offset) ==
  {r \in TxEventRows(t, index) : InEventPage(r, limit, offset)}

GetTxListEvents(R, limit, offset) ==
  {r \in UNION {TxEventRows(q.tx, q.index) : q \in R} : InEventPage(r, limit, offset)}

EventConcerns(r, a) ==
  CASE r.event.table = "contract_logs" -> r.event.contract = a
    [] r.event.table = "stx_lock_events" -> r.event.sender = a
    [] OTHER -> Involves(r.event, a)

\* The events of transaction t or else of address a, joined back to the visible
\* rows of their transaction.
GetTransactionEvents(t, a, types, limit, offset) ==
  LET events == {r \in Visible(AllEventRows) :
                   /\ r.event.table \in types
                   /\ IF t # None THEN r.tx = t ELSE EventConcerns(r, a)}
      joined == {r \in events : \E q \in Visible(txs) : q.tx = r.tx}
  IN Page(Descending(joined, EventPosition), limit, offset)

\* The lock events of the address and the asset events it is a party of.
GetAddressAssetEvents(a, height, limit, offset) ==
  LET rows == {r \in Visible(AllEventRows) :
                 /\ r.event.table # "contract_logs" /\ EventConcerns(r, a)
                 /\ r.height <= height}
      page == Page(Descending(rows, EventPosition), limit, offset)
  IN [results |-> page, total |-> IF page = <<>> THEN 0 ELSE Cardinality(rows)]

GetSmartContractEvents(c, limit, offset) ==
  Page(Descending({r \in Visible(EventRows("contract_logs")) : r.event.contract = c},
                  EventPosition), limit, offset)

\* A contract's row with an ABI first; else the best of its deployments.
GetSmartContract(c) ==
  First({r \in txs : TxData[r.tx].deploys = c},
        LAMBDA r : <<Flag(TxData[r.tx].abi # {})>> \o RowKey(r))

\* abi is the set of function signatures; a trait is a set of them too.
GetSmartContractByTrait(trait, limit, offset) ==
  LET rows == {r \in Visible(txs) : TxData[r.tx].abi # {} /\ trait \subseteq TxData[r.tx].abi}
      page == Page(Descending(rows, LAMBDA r : <<r.height>>), limit, offset)
  IN IF page = <<>> THEN NotFound ELSE Found(page)

\* DISTINCT ON contract: confirmed deployments, then pending ones.
GetSmartContractStatus(C) ==
  LET mined(c) == {r \in Visible(txs) : TxData[r.tx].deploys = c}
      pending(c) == {m \in mempool_txs : ~m.pruned /\ TxData[m.tx].deploys = c}
      lowestNonce(c) == CHOOSE m \in pending(c) : \A n \in pending(c) :
                          TxData[m.tx].nonce <= TxData[n.tx].nonce
  IN [c \in C |->
        IF mined(c) # {} THEN First(mined(c), ChainPosition)
        ELSE IF pending(c) # {} THEN Found(lowestNonce(c)) ELSE NotFound]

-----------------------------------------------------------------------------
(* The mempool. *)

\* Rows at the height of the unanchored stream.
InUnanchored(t) ==
  \E r \in Visible(txs) : r.tx = t /\ r.height = GetMaxBlockHeight(TRUE)

AsPending(m) == [m EXCEPT !.pruned = FALSE, !.status = "pending"]

\* parseMempoolTransactions: a transaction pruned by a microblock is still
\* pending for callers that did not opt in to unanchored data.
ParseMempoolTx(m, includeUnanchored) ==
  IF m.pruned /\ ~includeUnanchored /\ InUnanchored(m.tx)
    THEN AsPending(m) ELSE m

GetMempoolTxs(T, includeUnanchored) ==
  {ParseMempoolTx(m, includeUnanchored) : m \in {x \in mempool_txs : x.tx \in T}}

GetMempoolTx(t, includePruned, includeUnanchored) ==
  LET rows == {m \in GetMempoolTxs({t}, includeUnanchored) : includePruned \/ ~m.pruned}
  IN IF rows = {} THEN NotFound ELSE Found(CHOOSE m \in rows : TRUE)

DroppedStatuses == {"replace_by_fee", "replace_across_fork", "too_expensive",
                    "stale_garbage_collect", "api_garbage_collect", "problematic"}

GetDroppedTxs_Any ==
  {m \in mempool_txs : m.pruned /\ m.status \in DroppedStatuses}

GetDroppedTxs ==
  {m \in mempool_txs : /\ m.pruned /\ m.status \in DroppedStatuses
                       /\ \A r \in Visible(txs) : r.tx # m.tx}

\* The addresses a pending transaction is listed for.
MempoolConcerns(t, a) ==
  a \in {TxData[t].sender, TxData[t].recipient, TxData[t].deploys, TxData[t].calls}

GetMempoolTxList(a, from, to, includeUnanchored) ==
  LET wanted(t) == IF a # None THEN MempoolConcerns(t, a)
                   ELSE /\ from = None \/ TxData[t].sender = from
                        /\ to = None \/ TxData[t].recipient = to
      listed == {m \in mempool_txs :
                   /\ wanted(m.tx)
                   /\ ~m.pruned \/ (~includeUnanchored /\ InUnanchored(m.tx))}
  IN [results |-> {AsPending(m) : m \in listed},
      total |-> IF listed = {} THEN 0
                ELSE IF {a, from, to} = {None} THEN chain_tip.mempool_tx_count
                ELSE Cardinality(listed)]

\* Type 6, a versioned contract, counts as a smart contract.
StatsType(t) ==
  IF TxData[t].type = "versioned_smart_contract" THEN "smart_contract"
                                                 ELSE TxData[t].type

\* The types that are listed, counted or not.
MempoolTypes == {"token_transfer", "smart_contract", "contract_call", "poison_microblock"}

GetMempoolStats ==
  LET pending == {m \in mempool_txs : ~m.pruned}
  IN [y \in MempoolTypes |-> Cardinality({m \in pending : StatsType(m.tx) = y})]

-----------------------------------------------------------------------------
(* A transaction, wherever it is. *)

GetTxStatus_NoBlock(t) ==
  IF \E r \in Visible(txs) : r.tx = t THEN <<t, TxData[t].status>> ELSE None

\* getTxStatus, behind the ETag of a transaction.
GetTxStatus(t) ==
  LET mined == {r \in Visible(txs) : r.tx = t}
      pending == {m \in mempool_txs : m.tx = t}
  IN CASE mined # {} -> LET r == CHOOSE x \in mined : TRUE
                        IN <<t, r.index, r.mb, TxData[t].status>>
       [] mined = {} /\ pending # {} ->
            <<t, None, None, (CHOOSE m \in pending : TRUE).status>>
       [] OTHER -> None

\* A mined row with its events, as getTxsFromDataStore reads it.
WithEvents(r, limit, offset) ==
  [tx |-> r, events |-> GetTxEvents(r.tx, r.index, limit, offset)]

\* A visible row, else the mempool's.  getTxListDetails returns visible rows
\* only, so the last branch of the code, for a transaction mined on an
\* orphaned fork only, is never taken.
SearchTx(t, includeUnanchored, limit, offset) ==
  LET mined == GetTxListDetails({t}, includeUnanchored)
      pending == GetMempoolTxs({t}, includeUnanchored)
  IN CASE mined # {} -> Found(WithEvents(CHOOSE r \in mined : TRUE, limit, offset))
       [] mined = {} /\ pending # {} -> Found(CHOOSE m \in pending : TRUE)
       [] OTHER -> NotFound

\* The events of all the mined ones are read at once, then sorted out by tx_id.
SearchTxs(T, includeUnanchored, limit, offset) ==
  LET mined == GetTxListDetails(T, includeUnanchored)
      events == GetTxListEvents(mined, limit, offset)
      pending == GetMempoolTxs(T \ {r.tx : r \in mined}, includeUnanchored)
      all == {[tx |-> r, events |-> {e \in events : e.tx = r.tx}] : r \in mined}
  IN [t \in T |->
        CASE \E x \in all : x.tx.tx = t -> Found(CHOOSE x \in all : x.tx.tx = t)
          [] \E m \in pending : m.tx = t -> Found(CHOOSE m \in pending : m.tx = t)
          [] OTHER -> NotFound]

\* getRawTx needs a row of any fork, or of the mempool.
GetRawTx(t) ==
  IF \E r \in txs \cup mempool_txs : r.tx = t THEN Found(t) ELSE NotFound

\* searchHash takes any row of txs; it is not told which fork it is on.
SearchHash(h) ==
  CASE \E r \in txs : r.tx = h -> "tx_id"
    [] \E m \in mempool_txs : m.tx = h /\ ~m.pruned -> "mempool_tx_id"
    [] \E b \in blocks : b.hash = h -> "block_hash"
    [] OTHER -> None

SearchHashWithMetadata(h) ==
  CASE GetTxListDetails({h}, TRUE) # {} -> "tx_id"
    [] GetMempoolTxs({h}, TRUE) # {} -> "mempool_tx_id"
    [] GetBlockInternal([by |-> "hash", value |-> h]).found -> "block_hash"
    [] OTHER -> None

\* searchPrincipal: for a contract a pending deployment, else the best mined
\* one; for an address any row of any fork that names it.
SearchPrincipal(a, isContract) ==
  CASE isContract /\ (\E m \in mempool_txs : ~m.pruned /\ TxData[m.tx].deploys = a)
         -> "contract_address"
    [] isContract /\ (\E r \in txs : TxData[r.tx].deploys = a) -> "contract_address"
    [] ~isContract /\ (\/ \E r \in txs : a \in {TxData[r.tx].sender, TxData[r.tx].recipient}
                       \/ \E r \in AllEventRows : r.event.table \in AssetTables
                                                   /\ Involves(r.event, a))
         -> "standard_address"
    [] OTHER -> None
=============================================================================
