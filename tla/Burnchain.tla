----------------------------- MODULE Burnchain -----------------------------
(***************************************************************************)
(* What the store keeps of the burn chain: the rewards and the reward slot *)
(* holders of burn blocks and chain_tip.burn_block_height.  They are       *)
(* written by the three SQL transactions of handleBurnBlockMessage         *)
(* (src/event-stream/event-server.ts) and by update(), which also takes    *)
(* the rewards of an orphaned block's burn block out of the canonical ones *)
(* (src/datastore/pg-write-store.ts).                                      *)
(***************************************************************************)
EXTENDS ChainStore

CONSTANTS
  BurnBlock,    \* burn blocks, by burn_block_hash
  NoBurnBlock,  \* the burn block of the boot data
  BurnHeight,   \* burn_block_height of a burn block
  BurnOf,       \* the burn block a block was elected in
  MaxCopies     \* how many equal rows of a table are counted

ASSUME BurnAssumption ==
  /\ BurnBlock \cap (Block \cup {NoBlock}) = {}
  /\ NoBurnBlock \notin BurnBlock
  /\ BurnHeight \in [BurnBlock \cup {NoBurnBlock} -> Nat]
  /\ BurnOf \in [Block -> BurnBlock \cup {NoBurnBlock}]
  /\ MaxCopies \in Nat \ {0}

VARIABLES
  rewards,     \* canonical copies of a burn block's rows in burnchain_rewards
  slots,       \* and in reward_slot_holders
  burnHeight,  \* chain_tip.burn_block_height
  demoted      \* burn blocks whose rewards the open transaction orphaned

burnVars == <<rewards, slots, burnHeight, demoted>>

BurnTypeOK ==
  /\ rewards \in [BurnBlock -> 0 .. MaxCopies]
  /\ slots \in [BurnBlock -> 0 .. MaxCopies]
  /\ burnHeight \in Nat
  /\ demoted \subseteq BurnBlock \cup {NoBurnBlock}

BurnInit ==
  /\ rewards = [w \in BurnBlock |-> 0]
  /\ slots = [w \in BurnBlock |-> 0]
  /\ burnHeight = 0
  /\ demoted = {}

OneMore(n) == IF n = MaxCopies THEN n ELSE n + 1

-----------------------------------------------------------------------------
(* The three transactions of handleBurnBlockMessage. *)

\* The rows of a burn block that is announced again are inserted again.
UpdateBurnchainRewards(w) ==
  /\ rewards' = [rewards EXCEPT ![w] = OneMore(@)]
  /\ UNCHANGED <<slots, burnHeight, demoted>>

InvalidatedSlots_SameBlock(w) == {w}

\* The rows that a burn block makes non-canonical: its own, and those of
\* every burn block at its height or above.
InvalidatedSlots(w) ==
  {v \in BurnBlock : v = w \/ BurnHeight[v] >= BurnHeight[w]}

UpdateBurnchainRewardSlotHolders(w) ==
  /\ LET kept == [v \in BurnBlock |->
                    IF v \in InvalidatedSlots(w) THEN 0 ELSE slots[v]]
     IN slots' = [kept EXCEPT ![w] = OneMore(@)]
  /\ UNCHANGED <<rewards, burnHeight, demoted>>

UpdateBurnChainBlockHeight(w) ==
  /\ burnHeight' = IF BurnHeight[w] > burnHeight THEN BurnHeight[w]
                                                 ELSE burnHeight
  /\ UNCHANGED <<rewards, slots, demoted>>

-----------------------------------------------------------------------------
(* The part of update(). *)

\* Each orphaned block takes the rewards of its burn block with it; nothing
\* is done for the block that is restored.
DemotedBurnBlocks(c) == {BurnOf[o] : o \in OrphanedBy(c)}

WBeginUpdate(b) ==
  /\ BeginUpdate(b)
  /\ UNCHANGED burnVars

WRestoreOrphanedChain ==
  /\ RestoreOrphanedChain
  /\ demoted' = demoted \cup DemotedBurnBlocks(job.cursor)
  /\ UNCHANGED <<rewards, slots, burnHeight>>

\* chain_tip takes the burn height of the new block, also if it is lower.
WCommitUpdate ==
  /\ CommitUpdate
  /\ rewards' = [w \in BurnBlock |-> IF w \in demoted THEN 0 ELSE rewards[w]]
  /\ demoted' = {}
  /\ burnHeight' = IF IsCanonical(job.block) THEN BurnHeight[BurnOf[job.block]]
                                             ELSE burnHeight
  /\ UNCHANGED slots

WAbortUpdate ==
  /\ AbortUpdate
  /\ demoted' = {}
  /\ UNCHANGED <<rewards, slots, burnHeight>>

=============================================================================
