--------------------------- MODULE MCMicroblocks ---------------------------
(***************************************************************************)
(* m0, m1 and m0, n1 are two streams on a1.  a2 confirms m0 and m1, b2     *)
(* confirms m0 and n1, c2 neither; p0 is a stream on b2 that b3 confirms.  *)
(***************************************************************************)
EXTENDS MicroblockApi, TLC

CONSTANTS g, a1, a2, b2, c2, a3, b3, a4, m0, m1, n1, p0, t0, t1, t2, t3, t4,
          alice, bob, carol, vault

MCBlock == {g, a1, a2, b2, c2, a3, b3, a4}
MCParent ==
  (g :> NoBlock) @@ (a1 :> g) @@ (a2 :> a1) @@ (b2 :> a1) @@ (c2 :> a1)
  @@ (a3 :> a2) @@ (b3 :> b2) @@ (a4 :> a3)
MCHeight ==
  (g :> 0) @@ (a1 :> 1) @@ (a2 :> 2) @@ (b2 :> 2) @@ (c2 :> 2) @@ (a3 :> 3)
  @@ (b3 :> 3) @@ (a4 :> 4)
MCTx == {t0, t1, t2, t3, t4}
MCTxsOf ==
  (g :> {}) @@ (a1 :> {t0}) @@ (a2 :> {}) @@ (b2 :> {t1}) @@ (c2 :> {t2})
  @@ (a3 :> {}) @@ (b3 :> {}) @@ (a4 :> {})

MCMicroblock == {m0, m1, n1, p0}
MCMbBase == (m0 :> a1) @@ (m1 :> a1) @@ (n1 :> a1) @@ (p0 :> b2)
MCMbPrev == (m0 :> NoMicro) @@ (m1 :> m0) @@ (n1 :> m0) @@ (p0 :> NoMicro)
MCMbTxs == (m0 :> {t2}) @@ (m1 :> {t1}) @@ (n1 :> {t3}) @@ (p0 :> {t4})
MCStreamTip ==
  (g :> NoMicro) @@ (a1 :> NoMicro) @@ (a2 :> m1) @@ (b2 :> n1)
  @@ (c2 :> NoMicro) @@ (a3 :> NoMicro) @@ (b3 :> p0) @@ (a4 :> NoMicro)
\* Every transaction of a stream is also on another fork: t2 deploys vault,
\* t3 calls it.
MCBurnHeight == [b \in MCBlock |-> 10 + MCHeight[b]]
MCBurn == [b \in MCBlock |-> <<"burn", MCHeight[b], b \in {b2, b3}>>]
MCTenure == [b \in MCBlock |-> MCHeight[b] \div 2]
MCHashOf == [b \in MCBlock |-> <<"hash", b>>]

Event(i, table, kind, from, to, n) ==
  [index |-> i, table |-> table, kind |-> kind, sender |-> from, recipient |-> to,
   amount |-> n, asset |-> None, contract |-> None, memo |-> FALSE, name |-> None, unlock |-> 0]
MCEventsIn ==
  (t0 :> {Event(0, "stx_events", "mint", None, alice, 100)})
  @@ (t1 :> {Event(0, "stx_events", "transfer", alice, bob, 5)})
  @@ (t2 :> {Event(0, "stx_events", "transfer", bob, carol, 3)})
  @@ (t3 :> {[Event(0, "contract_logs", "print", None, None, 0) EXCEPT !.contract = vault],
             Event(1, "stx_events", "transfer", carol, alice, 1)})
  @@ (t4 :> {})
Data(i, type, from, to, n, nonce) ==
  [index |-> i, type |-> type, status |-> "success", sender |-> from, sponsor |-> None,
   sponsorNonce |-> None, nonce |-> nonce, fee |-> 1, recipient |-> to, amount |-> n,
   deploys |-> None, calls |-> None, abi |-> {}, principals |-> {from, to} \ {None}]
MCTxData ==
  (t0 :> Data(0, "coinbase", alice, None, 0, 0))
  @@ (t1 :> Data(1, "token_transfer", alice, bob, 5, 1))
  @@ (t2 :> [Data(0, "smart_contract", bob, None, 0, 0) EXCEPT
               !.deploys = vault, !.abi = {"f"}, !.principals = {bob, carol}])
  @@ (t3 :> [Data(2, "contract_call", carol, None, 0, 0) EXCEPT
               !.calls = vault, !.principals = {carol, alice, vault}])
  @@ (t4 :> Data(0, "token_transfer", bob, alice, 0, 1))
MCAddress == {alice, bob, carol}
MCBatch == {<<m0>>, <<m1>>, <<n1>>, <<m0, m1>>, <<p0>>}
=============================================================================
