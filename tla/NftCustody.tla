----------------------------- MODULE NftCustody -----------------------------
(***************************************************************************)
(* The nft_custody table, on top of ChainStore: who holds each             *)
(* non-fungible token.  updateNftEvents, and updateNftCustodyFromReOrg as  *)
(* markEntitiesCanonical calls it, of src/datastore/pg-write-store.ts, and *)
(* getNftHoldings of src/datastore/pg-store.ts.                            *)
(***************************************************************************)
EXTENDS ChainStore

CONSTANTS
  Asset,        \* non-fungible tokens: an asset identifier and a value
  Principal,
  NftEventsOf   \* the nft_events rows a block carries

\* The recipient is a set: empty for a burn.
NftEvent == [tx : Tx, asset : Asset, index : Nat,
             recipient : {{}} \cup {{p} : p \in Principal}]

\* index orders the events of one block: by tx_index, then event_index.
ASSUME NftAssumption ==
  /\ NftEventsOf \in [Block -> SUBSET NftEvent]
  /\ \A b \in Block : \A e, f \in NftEventsOf[b] :
       /\ e.tx \in TxsOf[b]
       /\ e.index = f.index => e = f

VARIABLES
  custody,      \* table nft_custody, committed
  custodyWork   \* the same, as the open transaction sees it

NoHolder == [recipient |-> {}, height |-> 0, index |-> 0]

CustodyRow(e, h) == [recipient |-> e.recipient, height |-> h, index |-> e.index]

Later(r, s) == r.height > s.height \/ (r.height = s.height /\ r.index > s.index)

Latest(R) == CHOOSE r \in R : \A s \in R \ {r} : Later(r, s)

-----------------------------------------------------------------------------

\* A later event replaces the row of its token; an earlier one, or one in the
\* same place of a rival block, does not.
Upsert(row, R) ==
  LET later == {r \in R : Later(r, row)} IN IF later = {} THEN row ELSE Latest(later)

EventRowsOf(b, a) ==
  {CustodyRow(e, Height[b]) : e \in {x \in NftEventsOf[b] : x.asset = a}}

UpdateNftEvents_AnyFlag(cu, b) == [a \in Asset |-> Upsert(cu[a], EventRowsOf(b, a))]

\* updateNftEvents, for all the transactions of block b.
UpdateNftEvents(cu, b) ==
  IF IsCanonical(b) THEN [a \in Asset |-> Upsert(cu[a], EventRowsOf(b, a))]
                    ELSE cu

\* The rows updateNftCustodyFromReOrg selects for token a: events of block i
\* that are canonical, joined by tx_id with the canonical rows of txs.
ReorgRows(rs, i, a) ==
  UNION {{CustodyRow(e, Height[d]) : d \in {x \in rs["txs"] : e.tx \in TxsOf[x]}} :
           e \in {x \in UNION {NftEventsOf[c] :
                                 c \in RowsAt("nft_events", i) \cap rs["nft_events"]} :
                    x.asset = a}}

\* The selected rows replace those of the table, whatever their order.
UpdateNftCustodyFromReOrg(cu, rs, i) ==
  [a \in Asset |-> IF ReorgRows(rs, i, a) = {} THEN cu[a]
                                               ELSE Latest(ReorgRows(rs, i, a))]

NInit ==
  /\ Init
  /\ custody = [a \in Asset |-> NoHolder]
  /\ custodyWork = custody

NBeginUpdate(b) == BeginUpdate(b) /\ UNCHANGED <<custody, custodyWork>>

\* Custody is refreshed for the orphaned block, then for the restored one.
NRestoreOrphanedChain ==
  /\ RestoreOrphanedChain
  /\ LET orphans == OrphanedBy(job.cursor)
         afterOrphan == IF orphans = {} THEN custodyWork
                        ELSE UpdateNftCustodyFromReOrg(custodyWork,
                               RowsWithout(orphans), CHOOSE o \in orphans : TRUE)
     IN custodyWork' =
          UpdateNftCustodyFromReOrg(afterOrphan, work'.rows, job.cursor)
  /\ UNCHANGED custody

NCommitUpdate ==
  /\ CommitUpdate
  /\ custody' = IF job.block \in blocks THEN custodyWork
                ELSE UpdateNftEvents(custodyWork, job.block)
  /\ custodyWork' = custody'

NAbortUpdate ==
  /\ AbortUpdate
  /\ custodyWork' = custody
  /\ UNCHANGED custody

-----------------------------------------------------------------------------
(* Properties. *)

\* getNftHoldings: the tokens the API shows as held by a principal.
GetNftHoldings(p) == {a \in Asset : p \in custody[a].recipient}

CanonicalRows(a) ==
  UNION {{CustodyRow(e, Height[b]) : e \in {x \in NftEventsOf[b] : x.asset = a}} :
           b \in rows["nft_events"] \ {Genesis}}

\* A token is held by the recipient of its last event on the canonical chain
\* and by nobody else: the definition of the view that table nft_custody
\* replaced, whatever forks the chain went through.
CustodyIsLatestEvent ==
  \A a \in Asset, p \in Principal :
    a \in GetNftHoldings(p)
      <=> CanonicalRows(a) # {} /\ p \in Latest(CanonicalRows(a)).recipient

=============================================================================
