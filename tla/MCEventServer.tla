--------------------------- MODULE MCEventServer ---------------------------
(***************************************************************************)
(* Rival blocks b2 and c2 at height 2, elected in the rival burn blocks w2 *)
(* and x2, with c3 on top of c2 in the same burn block.  In the second     *)
(* tree two more blocks make the branch of b2 canonical again.             *)
(***************************************************************************)
EXTENDS EventServer, BurnchainReads, TLC

CONSTANTS g, a1, b2, c2, c3, b3, b4, w1, w2, x2, t1, p, q, z

MCBlock == {g, a1, b2, c2, c3}
MCParent ==
  (g :> NoBlock) @@ (a1 :> g) @@ (b2 :> a1) @@ (c2 :> a1) @@ (c3 :> c2)
MCHeight == (g :> 0) @@ (a1 :> 1) @@ (b2 :> 2) @@ (c2 :> 2) @@ (c3 :> 3)
MCTxsOf == [b \in MCBlock |-> IF b = a1 THEN {t1} ELSE {}]
MCBurnBlock == {w1, w2, x2}
MCBurnParent == (w1 :> NoBurnBlock) @@ (w2 :> w1) @@ (x2 :> w1)
MCBurnHeight == (NoBurnBlock :> 0) @@ (w1 :> 1) @@ (w2 :> 2) @@ (x2 :> 2)
MCBurnOf ==
  (g :> NoBurnBlock) @@ (a1 :> w1) @@ (b2 :> w2) @@ (c2 :> x2) @@ (c3 :> x2)

\* p and q are Bitcoin addresses; z is not an address.
MCSlotsOf == (w1 :> <<p, p>>) @@ (w2 :> <<p, q>>) @@ (x2 :> <<q, p, q>>)
MCPayoutsOf ==
  [w \in MCBurnBlock |-> <<[recipient |-> p, amount |-> 2],
                           [recipient |-> IF w = x2 THEN q ELSE p, amount |-> 3]>>]
MCBtcOf == (p :> p) @@ (q :> q) @@ (z :> None)

BackAndForth == MCBlock \cup {b3, b4}
BFParent == MCParent @@ (b3 :> b2) @@ (b4 :> b3)
BFHeight == MCHeight @@ (b3 :> 3) @@ (b4 :> 4)
BFTxsOf == [b \in BackAndForth |-> {}]
BFBurnOf == MCBurnOf @@ (b3 :> w2) @@ (b4 :> w2)
=============================================================================
