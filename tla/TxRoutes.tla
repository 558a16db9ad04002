------------------------------ MODULE TxRoutes ------------------------------
(***************************************************************************)
(* The endpoints of transactions and of the mempool: src/api/routes/tx.ts, *)
(* v2/mempool.ts, contract.ts, v2/smart-contracts.ts and search.ts.        *)
(***************************************************************************)
EXTENDS TxReads, BlockRoutes

ParseDbEvent(r) ==
  [event_index |-> r.event.index, event_type |-> r.event.table, tx_id |-> r.tx,
   sender |-> r.event.sender, recipient |-> r.event.recipient,
   amount |-> r.event.amount,
   memo |-> r.event.table = "stx_events" /\ r.event.kind = "transfer" /\ r.event.memo]

ParseDbMempoolTx(m) ==
  [tx_id |-> m.tx, tx_type |-> TxData[m.tx].type, tx_status |-> m.status]

\* What searchTx and searchTxs found, mined or pending.
ParseSearched(x) ==
  IF "tx" \in DOMAIN x /\ "events" \in DOMAIN x
    THEN [mined |-> TRUE, tx |-> ParseDbTx(x.tx), events |-> {ParseDbEvent(e) : e \in x.events}]
    ELSE [mined |-> FALSE, tx |-> ParseDbMempoolTx(x), events |-> {}]

-----------------------------------------------------------------------------
(* tx.ts. *)

TxList(f, includeUnanchored, limit, offset) ==
  Paged("Tx", limit, LAMBDA n : Ok(TxPage(n, offset, GetTxList(f, includeUnanchored, n, offset))))

TxsMultiple(T, includeUnanchored, limit, offset) ==
  Paged("Event", limit, LAMBDA n :
    LET found == SearchTxs(T, includeUnanchored, n, offset)
    IN Ok([t \in T |-> IF found[t].found THEN Found(ParseSearched(found[t].result))
                                         ELSE NotFound]))

MempoolPage(list) == [results |-> {ParseDbMempoolTx(m) : m \in list.results},
                      total |-> list.total]

\* The filters by sender or by recipient exclude the one by address.
MempoolTxList(address, from, to, includeUnanchored) ==
  IF address # None /\ (from # None \/ to # None) THEN Invalid
  ELSE Ok(MempoolPage(GetMempoolTxList(address, from, to, includeUnanchored)))

MempoolDropped == Ok({ParseDbMempoolTx(m) : m \in GetDroppedTxs})

MempoolStats == Ok(GetMempoolStats)

\* Exactly one of a transaction and an address; no types are all types.
TxEvents(t, address, types, limit, offset) ==
  LET wanted == IF types = {} THEN EventTables ELSE types
  IN IF (t = None) = (address = None) THEN Invalid
     ELSE Paged("Event", limit, LAMBDA n :
            Ok(Map(GetTransactionEvents(t, address, wanted, n, offset), ParseDbEvent)))

TxById(t, includeUnanchored, limit, offset) ==
  Paged("Event", limit, LAMBDA n :
    LET found == SearchTx(t, includeUnanchored, n, offset)
    IN IF found.found THEN Ok(ParseSearched(found.result)) ELSE Missing)

TxRaw(t) == OrMissing(GetRawTx(t))

TxsOfBlock(id, limit, offset) ==
  Paged("Tx", limit, LAMBDA n :
    LET found == GetTxsFromBlock(id, n, offset)
    IN IF found.found THEN Ok(TxPage(n, offset, found.result)) ELSE Missing)

TxsByBlockHash(hash, limit, offset) ==
  TxsOfBlock([by |-> "hash", value |-> hash], limit, offset)

TxsByBlockHeight(h, limit, offset) ==
  TxsOfBlock([by |-> "height", value |-> h], limit, offset)

-----------------------------------------------------------------------------
(* contract.ts and v2/smart-contracts.ts. *)

ContractsByTrait(trait, limit, offset) ==
  Paged("Contract", limit, LAMBDA n :
    LET found == GetSmartContractByTrait(trait, n, offset)
    IN IF found.found THEN Ok(Map(found.result, ParseDbTx)) ELSE Missing)

ContractById(c) ==
  LET found == GetSmartContract(c)
  IN IF found.found THEN Ok(ParseDbTx(found.result)) ELSE Missing

ContractEvents(c, limit, offset) ==
  Paged("Contract", limit, LAMBDA n :
    Ok(Map(GetSmartContractEvents(c, n, offset), ParseDbEvent)))

\* parseDbSmartContractStatusArray: an id without a row is not found.
SmartContractsStatus(C) ==
  LET found == GetSmartContractStatus(C)
  IN Ok([c \in C |-> IF found[c].found THEN Found(found[c].result.tx) ELSE NotFound])

-----------------------------------------------------------------------------
(* search.ts: a hash, else a principal. *)

PerformSearch(term, includeMetadata) ==
  LET entity == CASE term.type = "hash" /\ includeMetadata -> SearchHashWithMetadata(term.value)
                  [] term.type = "hash" -> SearchHash(term.value)
                  [] OTHER -> SearchPrincipal(term.value, term.type = "contract")
  IN IF entity = None THEN Missing ELSE Ok(entity)
=============================================================================
