---------------------------- MODULE StackingReads ----------------------------
(***************************************************************************)
(* Stacking: the queries of PgStore and PgStoreV2 on PoX events and on     *)
(* signer sets, what unlocks with a block, and the STX supply              *)
(* (src/datastore/pg-store.ts and pg-store-v2.ts), and their endpoints     *)
(* (pox.ts, v2/pox.ts and stx-supply.ts of src/api/routes).                *)
(***************************************************************************)
EXTENDS AccountReads, BlockRoutes, PoxEvents

VARIABLES
  pox_cycles,  \* rows of pox_cycles
  pox_sets     \* rows of pox_sets: a signer of a cycle

-----------------------------------------------------------------------------
(* PoX events. *)

GetPoxSyntheticEvents(table, limit, offset) ==
  Page(Descending(Visible(EventRows(table)), EventPosition), limit, offset)

GetPoxSyntheticEventsForTx(table, t) ==
  IF ~GetTx(t, TRUE).found THEN NotFound
  ELSE Found(Descending({r \in Visible(EventRows(table)) : r.tx = t}, EventPosition))

GetPoxSyntheticEventsForStacker(table, a) ==
  Descending({r \in Visible(EventRows(table)) : r.event.sender = a}, EventPosition)

\* SELECT DISTINCT ON (stacker) ... ORDER BY stacker, block_height DESC ...
LatestPerStacker(R) ==
  {r \in R : \A q \in R : q.event.sender = r.event.sender
                            => ~Above(EventPosition(q), EventPosition(r))}

GetPoxPoolDelegations(table, pool, height, burn, after, limit, offset) ==
  LET rows == {r \in Visible(EventRows(table)) :
                 /\ r.event.delegate_to = pool
                 /\ r.event.name \in {"delegate-stx", "revoke-delegate-stx"}
                 /\ r.height <= height /\ r.height > after
                 /\ r.event.until = None \/ r.event.until > burn}
      members == {r \in LatestPerStacker(rows) : r.event.name = "delegate-stx"}
      page == Page(Descending(members, EventPosition), limit, offset)
  IN [stackers |-> page, total |-> IF page = <<>> THEN 0 ELSE Cardinality(members)]

-----------------------------------------------------------------------------
(* Signer sets. *)

GetPoxCycles(limit, offset) ==
  LET all == Canonical(pox_cycles)
      page == Page(Descending(all, LAMBDA c : <<c.cycle>>), limit, offset)
  IN [results |-> page, total |-> IF page = <<>> THEN 0 ELSE Cardinality(all)]

GetPoxCycle(n) == First({c \in Canonical(pox_cycles) : c.cycle = n}, LAMBDA c : <<0>>)

CycleKnown(n) == \E c \in pox_cycles : c.cycle = n

InCycle(r, n) == r.event.start_cycle <= n /\ r.event.end_cycle > n

Pox4Rows(names) == {r \in Visible(EventRows("pox4_events")) : r.event.name \in names}

\* The key a pool operator committed its stackers with, for one cycle.
SignerKeyOf(operator, n) ==
  LET commits == {r \in Pox4Rows({"stack-aggregation-commit",
                                  "stack-aggregation-commit-indexed"}) :
                    r.event.sender = operator /\ r.event.start_cycle = n
                    /\ r.event.end_cycle = n + 1}
      last == First(commits, LAMBDA r : <<r.height, TxData[r.tx].index, r.event.index>>)
  IN IF last.found THEN last.result.event.signer_key ELSE None

StackerView(r, key, type) ==
  [stacker |-> r.event.sender, signer_key |-> key, locked |-> r.event.amount,
   name |-> r.event.name, type |-> type]

DelegatedStackers(n) ==
  {StackerView(r, SignerKeyOf(r.event.delegator, n), "pooled") :
     r \in LatestPerStacker({q \in Pox4Rows({"delegate-stack-stx", "delegate-stack-increase",
                                             "delegate-stack-extend"}) : InCycle(q, n)})}

\* The name of an increase is misspelt in the query.
SoloStackers(n) ==
  {StackerView(r, r.event.signer_key, "solo") :
     r \in LatestPerStacker({q \in Pox4Rows({"stack-stx", "stacks-increase",
                                             "stack-extend"}) : InCycle(q, n)})}

SignerView(s) ==
  LET of(S) == {x.stacker : x \in {y \in S : y.signer_key = s.signing_key}}
  IN [signing_key |-> s.signing_key, weight |-> s.weight, stacked |-> s.stacked,
      pooled |-> Cardinality(of(DelegatedStackers(s.cycle))),
      solo |-> Cardinality(of(SoloStackers(s.cycle)))]

SignersOf_AnyFork(n) == {s \in pox_sets : s.cycle = n}

SignersOf(n) == {s \in Canonical(pox_sets) : s.cycle = n}

GetPoxCycleSigners(n, limit, offset) ==
  LET all == {SignerView(s) : s \in SignersOf(n)}
      page == Page(Descending(all, LAMBDA s : <<s.weight, s.stacked>>), limit, offset)
  IN IF ~CycleKnown(n) THEN NotFound
     ELSE Found([results |-> page, total |-> IF page = <<>> THEN 0 ELSE Cardinality(all)])

GetPoxCycleSigner(n, key) ==
  LET all == {s \in SignersOf(n) : s.signing_key = key}
  IN IF ~CycleKnown(n) \/ all = {} THEN NotFound
     ELSE Found(SignerView(CHOOSE s \in all : TRUE))

\* Whether the cycle and the signer exist is asked of all forks.
GetPoxCycleSignerStackers(n, key, limit, offset) ==
  LET all == {x \in DelegatedStackers(n) \cup SoloStackers(n) :
                x.signer_key = key /\ \E s \in SignersOf(n) : s.signing_key = key}
      page == Page(Descending(all, LAMBDA x : <<x.locked>>), limit, offset)
  IN IF ~CycleKnown(n) \/ \A s \in pox_sets : s.cycle # n \/ s.signing_key # key
       THEN NotFound
       ELSE Found([results |-> page, total |-> IF page = <<>> THEN 0 ELSE Cardinality(all)])

-----------------------------------------------------------------------------
(* What unlocks with a block. *)

PreviousBurnHeight(b) ==
  LET previous == GetBlockByHeightInternal(b.height - 1)
  IN IF b.height > 1 /\ previous.found THEN previous.result.burnHeight ELSE b.burnHeight

RowsUpTo(table, height) == {r \in Visible(EventRows(table)) : r.height <= height}

\* PoX 1: the rows of stx_lock_events of its contract, of any block.
Pox1Rows == {r \in Visible(EventRows("stx_lock_events")) : r.event.contract = "pox"}

Pox1Unlocks(previous, current) ==
  LatestPerStacker({r \in Pox1Rows : r.event.unlock <= current /\ r.event.unlock > previous})

Pox1ForceUnlocks(previous) == LatestPerStacker({r \in Pox1Rows : r.event.unlock > previous})

PoxUnlocks_NotYet(table, height, previous, current) ==
  LatestPerStacker({r \in RowsUpTo(table, height) :
    IF r.event.name = "handle-unlock" THEN r.event.unlock < current /\ r.event.unlock >= previous
    ELSE r.event.name \in LockNames /\ r.event.unlock > previous})

\* Later versions: a lock that ends, or an early unlock.
PoxUnlocks(table, height, previous, current) ==
  LatestPerStacker({r \in RowsUpTo(table, height) :
    IF r.event.name = "handle-unlock" THEN r.event.unlock < current /\ r.event.unlock >= previous
    ELSE r.event.name \in LockNames /\ r.event.unlock <= current /\ r.event.unlock > previous})

PoxForceUnlocks(table, height, current) ==
  {r \in LatestPerStacker({q \in RowsUpTo(table, height) :
      IF q.event.name = "handle-unlock" THEN q.event.unlock < current
                                        ELSE q.event.unlock >= current}) :
    r.event.name # "handle-unlock"}

\* The block is the first above the burn height that ends a version.
Forced(v, previous, current) ==
  ForcedUnlock[v] # 0 /\ current > ForcedUnlock[v] /\ previous <= ForcedUnlock[v]

Ended(v, current) == ForcedUnlock[v] # 0 /\ current >= ForcedUnlock[v]

\* internalGetUnlockedAccountsAtHeight, by version.
GetUnlockedAddressesAtBlock(b) ==
  LET current == b.burnHeight
      previous == PreviousBurnHeight(b)
      rows == [v \in 1 .. 4 |->
        IF v = 1
          THEN (IF Ended(1, current) THEN {} ELSE Pox1Unlocks(previous, current))
               \cup (IF Forced(1, previous, current) THEN Pox1ForceUnlocks(previous) ELSE {})
        ELSE IF v = 4 THEN PoxUnlocks(PoxTables[4], b.height, previous, current)
        ELSE (IF Ended(v, current) THEN {}
              ELSE PoxUnlocks(PoxTables[v], b.height, previous, current))
             \cup (IF Forced(v, previous, current)
                     THEN PoxForceUnlocks(PoxTables[v], b.height, current) ELSE {})]
  IN UNION {{[version |-> v, stacker_address |-> r.event.sender,
              unlocked_amount |-> r.event.amount] : r \in rows[v]} : v \in 1 .. 4}

-----------------------------------------------------------------------------
(* Endpoints. *)

PoxEvents(table, limit, offset) ==
  Paged("Pox2Event", limit, LAMBDA n : Ok(GetPoxSyntheticEvents(table, n, offset)))

PoxEventsOfTx(table, t) == OrMissing(GetPoxSyntheticEventsForTx(table, t))

PoxEventsOfStacker(table, a) == Ok(GetPoxSyntheticEventsForStacker(table, a))

\* The unanchored height has no block yet, so that it is not found.
PoolDelegations(table, pool, height, unanchored, after, limit, offset) ==
  LET at == IF height # None THEN height ELSE GetMaxBlockHeight(unanchored)
      block == GetBlockByHeightInternal(at)
  IN IF ~block.found THEN Missing
     ELSE Paged("Stacker", limit, LAMBDA n :
            Ok(GetPoxPoolDelegations(table, pool, at, block.result.burnHeight,
                                     after, n, offset)))

PoxCycles(limit, offset) ==
  Paged("PoxCycle", limit, LAMBDA n : Ok(GetPoxCycles(n, offset)))

PoxCycle(n) == OrMissing(GetPoxCycle(n))

PoxCycleSigners(n, limit, offset) ==
  Paged("Signer", limit, LAMBDA m : OrMissing(GetPoxCycleSigners(n, m, offset)))

PoxCycleSigner(n, key) == OrMissing(GetPoxCycleSigner(n, key))

PoxCycleSignerStackers(n, key, limit, offset) ==
  Paged("Stacker", limit, LAMBDA m : OrMissing(GetPoxCycleSignerStackers(n, key, m, offset)))

-----------------------------------------------------------------------------
(* Endpoints on the supply.  Everything that is minted is unlocked. *)

StxSupply(height, unanchored) ==
  LET at == IF height # None THEN height ELSE GetMaxBlockHeight(unanchored)
      mature == IF height = None /\ unanchored THEN at - 1 ELSE at
      stx == GetUnlockedStxSupply(at, mature)
  IN Ok([unlocked_stx |-> stx, total_stx |-> stx, block_height |-> at])

StxSupplyLegacy(height, unanchored) ==
  LET supply == StxSupply(height, unanchored).body
  IN Ok([totalStacks |-> supply.total_stx, unlockedSupply |-> supply.unlocked_stx,
         blockHeight |-> supply.block_height])

StxTotalPlain == StxSupply(None, FALSE).body.total_stx
StxCirculatingPlain == StxSupply(None, FALSE).body.unlocked_stx
=============================================================================
