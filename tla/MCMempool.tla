----------------------------- MODULE MCMempool -----------------------------
(***************************************************************************)
(* Two accounts; t1 and t2 compete for the same nonce.  In the tree, b2    *)
(* and a2 are rivals that later blocks decide between.                     *)
(***************************************************************************)
EXTENDS Mempool, TLC

CONSTANTS g, a1, a2, b2, a3, b3, t1, t2, t3, t4, alice, bob

MCBlock == {g, a1, a2, b2, a3, b3}
MCParent ==
  (g :> NoBlock) @@ (a1 :> g) @@ (a2 :> a1) @@ (b2 :> a1) @@ (a3 :> a2)
  @@ (b3 :> b2)
MCHeight ==
  (g :> 0) @@ (a1 :> 1) @@ (a2 :> 2) @@ (b2 :> 2) @@ (a3 :> 3) @@ (b3 :> 3)
MCTxsOf ==
  (g :> {}) @@ (a1 :> {}) @@ (a2 :> {t1, t3}) @@ (b2 :> {t2}) @@ (a3 :> {})
  @@ (b3 :> {t3})
MCTx == {t1, t2, t3, t4}
MCAddress == {alice, bob}
Plain(who, n, f) ==
  [sender |-> who, sponsor |-> NoAddress, nonce |-> n, fee |-> f, index |-> f]
MCAttr ==
  (t1 :> Plain(alice, 1, 1)) @@ (t2 :> Plain(alice, 1, 2))
  @@ (t3 :> Plain(bob, 1, 3))
  @@ (t4 :> [sender |-> alice, sponsor |-> bob, nonce |-> 1, fee |-> 4,
             index |-> 4])

\* Without the sponsored transaction.
PlainTx == {t1, t2, t3}
\* A block with a transaction of alice and one of bob, and a transaction of
\* alice that bob sponsors.
SponsorBlock == {g, a1, b2}
SponsorParent == (g :> NoBlock) @@ (a1 :> g) @@ (b2 :> a1)
SponsorHeight == (g :> 0) @@ (a1 :> 1) @@ (b2 :> 2)
SponsorTxsOf == (g :> {}) @@ (a1 :> {}) @@ (b2 :> {t1, t3})
SponsorAttr ==
  (t1 :> Plain(alice, 1, 1)) @@ (t3 :> Plain(bob, 1, 3))
  @@ (t2 :> [sender |-> alice, sponsor |-> bob, nonce |-> 1, fee |-> 2,
             index |-> 2])

=============================================================================
