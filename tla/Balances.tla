------------------------------ MODULE Balances ------------------------------
(***************************************************************************)
(* The ft_balances table, on top of ChainStore.  A balance is never read   *)
(* from the events: it is moved by what a block does when the block is     *)
(* inserted (updateStxBalances, updateFtBalances: sums made in TypeScript) *)
(* and moved back and forth when a re-org flips rows (the statements of    *)
(* markEntitiesCanonical: sums made in SQL).  The two must agree.          *)
(***************************************************************************)
EXTENDS ChainStore, FiniteSetsExt

CONSTANTS
  Account,     \* rows of ft_balances: an address and a token
  NoAccount,   \* sender of a mint, recipient of a burn
  FeeOf,       \* per transaction: its fee, sender, sponsor
  EventsOf,    \* the stx_events and ft_events rows a block carries
  RewardsOf    \* the miner_rewards rows a block carries

\* An event of one of the two tables; id tells equal events apart.
AssetEvent ==
  [table : {"stx_events", "ft_events"}, id : Nat, amount : Nat,
   kind : {"transfer", "mint", "burn"},
   sender : Account \cup {NoAccount}, recipient : Account \cup {NoAccount}]

ASSUME BalanceAssumption ==
  /\ NoAccount \notin Account
  /\ FeeOf \in [Tx -> [fee : Nat, sender : Account,
                       sponsor : Account \cup {NoAccount}]]
  /\ \A b \in Block : EventsOf[b] \subseteq AssetEvent /\ IsFiniteSet(EventsOf[b])
  /\ \A b \in Block : /\ RewardsOf[b] \subseteq [recipient : Account, amount : Nat]
                       /\ IsFiniteSet(RewardsOf[b])
  /\ \A b \in Block : \A e \in EventsOf[b] :
       /\ e.kind = "mint" <=> e.sender = NoAccount
       /\ e.kind = "burn" <=> e.recipient = NoAccount
  /\ RewardsOf[Genesis] = {}

VARIABLES
  balance,      \* table ft_balances, committed
  balanceWork   \* the same, as the open transaction sees it

SumAmounts(R) == MapThenSumSet(LAMBDA r : r.amount, R)

Payer(t) == IF FeeOf[t].sponsor # NoAccount THEN FeeOf[t].sponsor
                                            ELSE FeeOf[t].sender
Fees(b, k) == MapThenSumSet(LAMBDA t : FeeOf[t].fee,
                            {t \in TxsOf[b] : Payer(t) = k})
Rewards(b, k) == SumAmounts({r \in RewardsOf[b] : r.recipient = k})

-----------------------------------------------------------------------------
(* Insertion: an event moves the sender it has and the recipient it has. *)

UpdateStxBalances(b, k) ==
  LET stx == {e \in EventsOf[b] : e.table = "stx_events"}
  IN (SumAmounts({e \in stx : e.recipient = k}) - SumAmounts({e \in stx : e.sender = k}))
       - Fees(b, k) + Rewards(b, k)

UpdateFtBalances(b, k) ==
  LET ft == {e \in EventsOf[b] : e.table = "ft_events"}
  IN SumAmounts({e \in ft : e.recipient = k}) - SumAmounts({e \in ft : e.sender = k})

\* Block 0 is not canonical, and counts all the same.
CountsInBalances_CanonicalOnly(b) == b \notin blocks /\ IsCanonical(b)

CountsInBalances(b) == b \notin blocks /\ (Height[b] = 0 \/ IsCanonical(b))

-----------------------------------------------------------------------------
(* Re-org: what the flipped rows of one table did, by event type. *)

EventChange(t, b, k) ==
  LET es == {e \in EventsOf[b] : e.table = t}
  IN SumAmounts({e \in es : e.kind \in {"transfer", "mint"} /\ e.recipient = k})
       - SumAmounts({e \in es : e.kind \in {"transfer", "burn"} /\ e.sender = k})

RowChange(t, b, k) ==
  CASE t = "txs" -> -Fees(b, k)
    [] t = "miner_rewards" -> Rewards(b, k)
    [] OTHER -> EventChange(t, b, k)

BalanceTables == {"txs", "miner_rewards", "stx_events", "ft_events"}

\* What a set of rows, one per table and block, contributes to account k.
Contribution(R, k) == MapThenSumSet(LAMBDA r : RowChange(r[1], r[2], k), R)

RowSet(rs) == {r \in BalanceTables \X blocks : r[2] \in rs[r[1]]}

\* markEntitiesCanonical took the tables from `old' to `new'.
FlipBalances(bal, old, new) ==
  [k \in Account |-> (bal[k] + Contribution(RowSet(new) \ RowSet(old), k))
                        - Contribution(RowSet(old) \ RowSet(new), k)]

-----------------------------------------------------------------------------

BInit ==
  /\ Init
  /\ balance = [k \in Account |-> 0]
  /\ balanceWork = balance

BBeginUpdate(b) == BeginUpdate(b) /\ UNCHANGED <<balance, balanceWork>>

\* The orphaned block is marked first, then the restored one.
BRestoreOrphanedChain ==
  /\ RestoreOrphanedChain
  /\ LET demoted == RowsWithout(OrphanedBy(job.cursor))
     IN balanceWork' =
          FlipBalances(FlipBalances(balanceWork, work.rows, demoted),
                       demoted, work'.rows)
  /\ UNCHANGED balance

BCommitUpdate ==
  /\ CommitUpdate
  /\ balance' =
       [k \in Account |->
          IF CountsInBalances(job.block)
            THEN balanceWork[k] + UpdateStxBalances(job.block, k)
                                + UpdateFtBalances(job.block, k)
            ELSE balanceWork[k]]
  /\ balanceWork' = balance'

BAbortUpdate ==
  /\ AbortUpdate
  /\ balanceWork' = balance
  /\ UNCHANGED balance

-----------------------------------------------------------------------------
(* Properties. *)

\* The balances as the migration that rebuilds the table computes them: from
\* the canonical rows of txs, miner_rewards and the events.
RecalculatedBalance(k) == Contribution(RowSet(rows), k)

\* What the boot data did, as long as its rows are not canonical yet.
BootBalance(k) ==
  IF Genesis \in blocks /\ boot = Genesis
    THEN Contribution(BalanceTables \X {Genesis}, k) ELSE 0

\* After any sequence of insertions and re-orgs the balances kept by deltas
\* are the ones a recalculation from the canonical rows would give.
BalancesMatchRows ==
  \A k \in Account : balance[k] = RecalculatedBalance(k) + BootBalance(k)

=============================================================================
