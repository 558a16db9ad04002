-------------------------- MODULE BurnchainReads --------------------------
(***************************************************************************)
(* The endpoints on rewards and reward slot holders of the burn chain      *)
(* (src/api/routes/burnchain.ts) and their queries (pg-store.ts), over the *)
(* tables of Burnchain.                                                    *)
(***************************************************************************)
EXTENDS Burnchain, Paging

CONSTANTS
  SlotsOf,    \* per burn block, the sequence of its slot holders
  PayoutsOf,  \* per burn block, the sequence of its [recipient, amount]
  BtcOf       \* the Bitcoin address a request's address stands for, or None

ASSUME SlotsAssumption ==
  /\ None \notin Nat
  /\ \A w \in BurnBlock : SlotsOf[w] \in Seq({BtcOf[a] : a \in DOMAIN BtcOf})

\* The canonical rows; equal ones are told apart by their copy.
RewardSlotHolderRows ==
  UNION {{[burn |-> w, height |-> BurnHeight[w], address |-> SlotsOf[w][i],
           slot_index |-> i, copy |-> n] : i \in DOMAIN SlotsOf[w], n \in 1 .. slots[w]} :
         w \in BurnBlock}

BurnchainRewardRows ==
  UNION {{[burn |-> w, height |-> BurnHeight[w], recipient |-> PayoutsOf[w][i].recipient,
           amount |-> PayoutsOf[w][i].amount, reward_index |-> i, copy |-> n] :
            i \in DOMAIN PayoutsOf[w], n \in 1 .. rewards[w]} : w \in BurnBlock}

-----------------------------------------------------------------------------
(* Queries. *)

GetBurnchainRewardSlotHolders(address, limit, offset) ==
  LET all == {r \in RewardSlotHolderRows : address = None \/ r.address = address}
      page == Page(Descending(all, LAMBDA r : <<r.height, r.slot_index>>), limit, offset)
  IN [results |-> page, total |-> IF page = <<>> THEN 0 ELSE Cardinality(all)]

GetBurnchainRewards(recipient, limit, offset) ==
  Page(Descending({r \in BurnchainRewardRows : recipient = None \/ r.recipient = recipient},
                  LAMBDA r : <<r.height, r.reward_index>>), limit, offset)

GetBurnchainRewardsTotal(recipient) ==
  SumOf({r \in BurnchainRewardRows : r.recipient = recipient}, LAMBDA r : r.amount)

-----------------------------------------------------------------------------
(* Endpoints.  An address is a Bitcoin address, or a Stacks one that is    *)
(* converted to it; any other is refused.                                  *)

RewardSlotHolders(limit, offset) ==
  Paged("Burnchain", limit, LAMBDA n : Ok(GetBurnchainRewardSlotHolders(None, n, offset)))

RewardSlotHoldersOf(a, limit, offset) ==
  Paged("Burnchain", limit, LAMBDA n :
    IF BtcOf[a] = None THEN Invalid
    ELSE Ok(GetBurnchainRewardSlotHolders(BtcOf[a], n, offset)))

Rewards(limit, offset) ==
  Paged("Burnchain", limit, LAMBDA n : Ok(GetBurnchainRewards(None, n, offset)))

RewardsOf(a, limit, offset) ==
  Paged("Burnchain", limit, LAMBDA n :
    IF BtcOf[a] = None THEN Invalid ELSE Ok(GetBurnchainRewards(BtcOf[a], n, offset)))

RewardsTotal(a) ==
  IF BtcOf[a] = None THEN Invalid ELSE Ok(GetBurnchainRewardsTotal(BtcOf[a]))

-----------------------------------------------------------------------------
(* Properties. *)

Listed(s) == {s[i] : i \in DOMAIN s}

\* The rows on the pages that start at any offset.
OnPages(Answer(_)) ==
  UNION {Listed(Answer(p).body.results) : p \in 0 .. Cardinality(RewardSlotHolderRows)}

\* After any sequence of burn chain forks, repeated announcements and failed
\* handlers, the slot holders that are listed at a burn height are those of one
\* burn block, each slot once and on the list of its address, on whatever page.
SlotHoldersOfOneFork ==
  LET all == OnPages(LAMBDA p : RewardSlotHolders(None, p))
  IN /\ \A r, q \in all :
          r.height = q.height => /\ r.burn = q.burn
                                 /\ r.slot_index = q.slot_index => r = q
     /\ \A a \in DOMAIN BtcOf :
          BtcOf[a] # None => OnPages(LAMBDA p : RewardSlotHoldersOf(a, None, p))
                               = {r \in all : r.address = BtcOf[a]}

\* The flag of burnchain_rewards is the flag of the block with that burn
\* block: the rewards of a canonical block's burn block are listed, and the
\* total of a recipient is that of the rows listed, copies included.
RewardsFollowBlocks ==
  LET paid == {w \in BurnBlock : \E b \in canonical : BurnOf[b] = w}
  IN /\ paid \subseteq {r.burn : r \in Listed(Rewards(None, 0).body)}
     /\ \A a \in DOMAIN BtcOf :
          BtcOf[a] # None =>
            RewardsTotal(a).body = SumOf(Listed(RewardsOf(a, None, 0).body), LAMBDA r : r.amount)
=============================================================================
