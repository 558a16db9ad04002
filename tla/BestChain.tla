------------------------------ MODULE BestChain ------------------------------
(***************************************************************************)
(* What the chain store promises its readers: it knows a set of blocks     *)
(* that only grows, and shows one chain, the one that leads to the block   *)
(* of greatest height that arrived first.  ChainStore implements it, with  *)
(* the committed tables as the refinement mapping.                         *)
(***************************************************************************)
EXTENDS Naturals

CONSTANTS Block, NoBlock, Parent, Height

VARIABLES known, head, chain

HeadHeight == IF head = NoBlock THEN 0 ELSE Height[head]

\* S is the chain that leads to b from its block of height 1.
LeadsTo(S, b) ==
  /\ b \in S
  /\ \A x \in S : Height[x] \in 1 .. Height[b]
  /\ \A x, y \in S : Height[x] = Height[y] => x = y
  /\ \A x \in S : Height[x] > 1 => Parent[x] \in S

Init == known = {} /\ head = NoBlock /\ chain = {}

\* A block that makes the longest chain longer becomes the head.
Adopt(b) ==
  /\ b \notin known
  /\ Height[b] = HeadHeight + 1
  /\ Height[b] > 1 => Parent[b] \in known
  /\ head' = b
  /\ known' = known \cup {b}
  /\ chain' \in SUBSET known'
  /\ LeadsTo(chain', b)

\* Any other block is remembered, for a later fork.
Remember(b) ==
  /\ b \notin known
  /\ Height[b] <= HeadHeight
  /\ Height[b] > 1 => Parent[b] \in known
  /\ known' = known \cup {b}
  /\ UNCHANGED <<head, chain>>

Next == \E b \in Block : Adopt(b) \/ Remember(b)

Spec == Init /\ [][Next]_<<known, head, chain>>

=============================================================================
