---------------------------- MODULE AddressReads ----------------------------
(***************************************************************************)
(* The transactions of one principal, with what they moved for it, in the  *)
(* two versions the API offers, and the activity behind its ETag.  PgStore *)
(* (src/datastore/pg-store.ts), PgStoreV2 (src/datastore/pg-store-v2.ts)   *)
(* and parseTxsWithAssetTransfers (src/datastore/helpers.ts).              *)
(***************************************************************************)
EXTENDS AccountReads

AtHeight(r, height, single) == IF single THEN r.height = height ELSE r.height <= height

\* Version 1, from principal_stx_txs: transactions that concern the
\* principal as a party or through STX.
GetAddressTxs(a, height, single, limit, offset) ==
  LET rows == {r \in Visible(PrincipalRows(a)) : AtHeight(r, height, single)}
      page == Page(Descending(rows, ChainPosition), limit, offset)
  IN [results |-> page, total |-> IF page = <<>> THEN 0 ELSE Cardinality(rows)]

\* The parties txs itself names.
NamesParty(t, a) ==
  a \in {TxData[t].sender, TxData[t].recipient, TxData[t].calls, TxData[t].deploys}

\* A transaction counts when an event of any of its rows, on any fork,
\* involves the principal.
EventTxs(a, tables) ==
  {r.tx : r \in UNION {{q \in EventRows(t) : Involves(q.event, a)} : t \in tables}}

TransferRows(t, a, tables) ==
  UNION {{r \in Visible(EventRows(k)) : r.tx = t /\ Involves(r.event, a)} : k \in tables}

Events(R) == {r.event : r \in R}

\* The fee counts as sent by the sender, also when a sponsor paid it.
ParseTxWithAssetTransfers(r, a, tables) ==
  LET moved == TransferRows(r.tx, a, tables)
      stx == {q \in moved : q.event.table = "stx_events"}
      amount(q) == q.event.amount
  IN [tx |-> r,
      stx_sent |-> SumOf({q \in stx : q.event.sender = a}, amount)
                   + (IF TxData[r.tx].sender = a THEN TxData[r.tx].fee ELSE 0),
      stx_received |-> SumOf({q \in stx : q.event.recipient = a}, amount),
      transfers |-> Events(moved)]

GetInformationTxsWithStxTransfers(a, t) ==
  LET rows == {r \in Visible(txs) : r.tx = t
                 /\ (NamesParty(t, a) \/ t \in EventTxs(a, {"stx_events"}))}
      found == First(rows, ChainPosition)
  IN IF ~found.found THEN NotFound
     ELSE Found(ParseTxWithAssetTransfers(found.result, a, {"stx_events"}))

GetAddressTxsWithAssetTransfers(a, height, single, limit, offset) ==
  LET rows == {r \in Visible(txs) : AtHeight(r, height, single)
                 /\ (NamesParty(r.tx, a) \/ r.tx \in EventTxs(a, AssetTables))}
      all == Descending(rows, ChainPosition)
      page == IF single THEN all ELSE Page(all, limit, offset)
  IN [results |-> Map(page, LAMBDA r : ParseTxWithAssetTransfers(r, a, AssetTables)),
      total |-> IF page = <<>> THEN 0 ELSE Cardinality(rows)]

\* Transfers to an address: by a send-many contract that logs a memo as the
\* next event, by an STX event with a memo, and by a token transfer.
GetInboundTransfers(a, height, single, contract, limit, offset) ==
  LET stx == {r \in Visible(EventRows("stx_events")) : r.event.recipient = a}
      logs == {r \in Visible(EventRows("contract_logs")) : r.event.contract = contract}
      bulk == {p \in stx \X logs :
                 p[1].tx = p[2].tx /\ p[2].event.index = p[1].event.index + 1}
      transfer(r, from, amount, kind) ==
        [tx |-> r.tx, height |-> r.height, seq |-> r.seq, from |-> from,
         amount |-> amount, type |-> kind]
      found == {transfer(p[1], p[1].event.sender, p[1].event.amount, "bulk-send") : p \in bulk}
        \cup {transfer(r, r.event.sender, r.event.amount, "stx-transfer-memo") :
                r \in {q \in stx : q.event.memo}}
        \cup {transfer(r, TxData[r.tx].sender, TxData[r.tx].amount, "stx-transfer") :
                r \in {q \in Visible(txs) : TxData[q.tx].type = "token_transfer"
                                            /\ TxData[q.tx].recipient = a}}
      rows == {x \in found : AtHeight(x, height, single)}
      page == Page(Descending(rows, ChainPosition), limit, offset)
  IN [results |-> page, total |-> IF page = <<>> THEN 0 ELSE Cardinality(rows)]

-----------------------------------------------------------------------------
(* Version 2: by the whole key of txs. *)

RowId(r) == <<r.tx, r.index, r.mb>>

AddressTxIds(a) ==
  {RowId(r) : r \in PrincipalRows(a)
                    \cup UNION {{q \in EventRows(t) : Involves(q.event, a)} :
                                  t \in AssetTables}}

EventsOfRow(r, table) == {q \in EventRows(table) : RowId(q) = RowId(r)}

\* What one row moved for the principal, with the fee if it paid it.
AccountTransferSummary(r, a) ==
  LET stx == EventsOfRow(r, "stx_events")
      amount(q) == q.event.amount
      count(table, kind) == Cardinality({q \in EventsOfRow(r, table) :
                              Involves(q.event, a) /\ q.event.kind = kind})
  IN [tx |-> r,
      stx_sent |-> SumOf({q \in stx : q.event.sender = a}, amount)
                   + (IF PaysFee(r.tx, a) THEN TxData[r.tx].fee ELSE 0),
      stx_received |-> SumOf({q \in stx : q.event.recipient = a}, amount),
      events |-> [table \in AssetTables |->
                    [kind \in {"transfer", "mint", "burn"} |-> count(table, kind)]]]

GetAddressTransactions(a, limit, offset) ==
  LET rows == {r \in Visible(txs) : RowId(r) \in AddressTxIds(a)}
      page == Page(Descending(rows, ChainPosition), limit, offset)
  IN [results |-> Map(page, LAMBDA r : AccountTransferSummary(r, a)),
      total |-> IF page = <<>> THEN 0 ELSE Cardinality(rows)]

\* assertTxIdExists takes a row of any fork.
GetAddressTransactionEvents(a, t, limit, offset) ==
  LET events == Events(TransferRows(t, a, AssetTables))
      page == Page(Ascending(events, LAMBDA e : <<e.index>>), limit, offset)
  IN IF \A r \in txs : r.tx # t THEN NotFound
     ELSE Found([results |-> page,
                 total |-> IF page = <<>> THEN 0 ELSE Cardinality(events)])

-----------------------------------------------------------------------------

LastOf(S, Key(_)) == LET f == First(S, Key) IN IF f.found THEN {f.result.tx} ELSE {}

LastEvent(table, a) ==
  LastOf({r \in Visible(EventRows(table)) : Involves(r.event, a)}, EventPosition)

\* Behind the ETag of a principal: the transactions of its last STX, FT and
\* NFT activity, and the newest pending one.
GetPrincipalLastActivityTxIds(a, includeMempool) ==
  LET pending == {m \in mempool_txs : ~m.pruned
                    /\ a \in {TxData[m.tx].sender, TxData[m.tx].sponsor,
                              TxData[m.tx].recipient}}
  IN [mined |-> LastOf(Visible(PrincipalRows(a)), ChainPosition)
                  \cup LastEvent("ft_events", a) \cup LastEvent("nft_events", a),
      pending |-> IF includeMempool THEN LastOf(pending, LAMBDA m : <<m.receipt>>)
                                    ELSE {}]
=============================================================================
