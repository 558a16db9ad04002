---------------------------- MODULE IndexProgress ----------------------------
(***************************************************************************)
(* The index-progress messages of src/datastore/redis-notifier.ts, on top  *)
(* of ChainStore: restoreOrphanedChain collects the headers of the blocks  *)
(* it flips, and update() sends them with the new block's header after the *)
(* COMMIT, in a step of its own.  A follower of the Redis stream (a        *)
(* Chainhooks instance) rolls back and applies what each message says.     *)
(***************************************************************************)
EXTENDS ChainStore, Sequences, SequencesExt

VARIABLES
  headers,   \* ReOrgUpdatedEntities: the block headers collected so far
  outbox,    \* the message update() still has to send, if any
  follower,  \* the blocks of a follower that got every message, in order
  lost       \* whether a message was ever lost

iState == <<headers, outbox, follower, lost>>

NoHeaders == [markedCanonical |-> <<>>, markedNonCanonical |-> <<>>]
Message(apply, rollback) == [apply_blocks |-> apply, rollback_blocks |-> rollback]
NoMessage == Message(<<>>, <<>>)

IInit ==
  /\ Init
  /\ headers = NoHeaders
  /\ outbox = NoMessage
  /\ follower = <<>>
  /\ lost = FALSE

\* The event queue runs one handler at a time, and update() only returns
\* once the message is sent.
IBeginUpdate(b) ==
  /\ outbox = NoMessage
  /\ BeginUpdate(b)
  /\ UNCHANGED iState

CollectHeaders_NoOrphan(h, restored, orphans) ==
  [h EXCEPT !.markedCanonical = <<restored>> \o @]

\* Headers are put in front: the recursion goes down the chain.
CollectHeaders(h, restored, orphans) ==
  [markedCanonical |-> <<restored>> \o h.markedCanonical,
   markedNonCanonical |->
     IF orphans = {} THEN h.markedNonCanonical
     ELSE <<CHOOSE o \in orphans : TRUE>> \o h.markedNonCanonical]

IRestoreOrphanedChain ==
  /\ RestoreOrphanedChain
  /\ headers' = CollectHeaders(headers, job.cursor, OrphanedBy(job.cursor))
  /\ UNCHANGED <<outbox, follower, lost>>

\* The collected headers are local to update().
ICommitUpdate ==
  /\ CommitUpdate
  /\ outbox' = IF IsCanonical(job.block)
                 THEN Message(Append(headers.markedCanonical, job.block),
                              headers.markedNonCanonical)
                 ELSE NoMessage
  /\ headers' = NoHeaders
  /\ UNCHANGED <<follower, lost>>

IAbortUpdate ==
  /\ AbortUpdate
  /\ headers' = NoHeaders
  /\ UNCHANGED <<outbox, follower, lost>>

\* What a follower does with a message: it drops as many blocks from the end
\* of its chain as are rolled back, then appends.
Follow(chain, m) ==
  SubSeq(chain, 1, Len(chain) - Len(m.rollback_blocks)) \o m.apply_blocks

\* RedisNotifier.notify
Notify ==
  /\ outbox # NoMessage
  /\ follower' = IF lost THEN follower ELSE Follow(follower, outbox)
  /\ outbox' = NoMessage
  /\ UNCHANGED <<vars, headers, lost>>

\* The process dies after the COMMIT, or Redis is out of reach for longer
\* than its retries: the block is stored and will not be sent again, and
\* no follower has every message any more.
LoseMessage ==
  /\ outbox # NoMessage
  /\ outbox' = NoMessage
  /\ lost' = TRUE
  /\ follower' = <<>>
  /\ UNCHANGED <<vars, headers>>

-----------------------------------------------------------------------------
(* Properties. *)

\* Every block of the sequence is the parent of the next.
IsLine(s) == \A i \in 2 .. Len(s) : Parent[s[i]] = s[i - 1]

\* A message is self-contained even if earlier ones were lost: the blocks to
\* apply are one chain that ends in the new tip, and the blocks to roll back
\* are one chain that starts where that chain leaves it.
IsFork(m) ==
  LET up == m.apply_blocks
      down == m.rollback_blocks
  IN /\ IsLine(up) /\ IsLine(down)
     /\ down # <<>> => /\ \E i \in DOMAIN up : Parent[up[i]] = Parent[down[1]]
                       /\ Len(up) > Len(down)
     /\ ToSet(up) \cap ToSet(down) = {}

\* The blocks a message rolls back are the last ones of the chain, in order.
RollsBackEnd(chain, m) ==
  LET down == m.rollback_blocks
      kept == Len(chain) - Len(down)
  IN kept >= 0 /\ \A i \in DOMAIN down : chain[kept + i] = down[i]

\* Every message is one fork.  While none was lost, it rolls back the end of
\* what a follower has, and once update() has returned, a follower that
\* applied every message has the canonical chain of the database, block by
\* block in order, through re-orgs of any depth in both directions.
FollowerHasCanonicalChain ==
  /\ IsFork(outbox)
  /\ ~lost => RollsBackEnd(follower, outbox)
  /\ outbox = NoMessage /\ ~lost => ToSet(follower) = canonical /\ IsLine(follower)

=============================================================================
