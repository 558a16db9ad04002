---------------------------- MODULE MCChainStore ----------------------------
(***************************************************************************)
(* A tree of blocks with forks at every height: two blocks of height 1     *)
(* that only meet in the boot data, a second child on the first of them,   *)
(* and two long branches, so that re-orgs of depth 1, 2 and 3 happen, and  *)
(* one re-org undoes another.  Some transactions are on both branches.     *)
(*                                                                         *)
(* b1, a2, b3 and a4 start a tenure, with a coinbase and a burn block of   *)
(* their own.  Locks end at odd burn heights, so between two blocks; the   *)
(* locks of branch b end with b3, one because PoX 2 does.                  *)
(***************************************************************************)
EXTENDS StackingApi, TLC

CONSTANTS g, a1, b1, a2, b2, c2, a3, b3, a4, t1, t2, t3, t4, t5, t6, ca2, cb3, ca4,
          alice, bob, carol, pool, k1, k2, gold

MCBlock == {g, a1, b1, a2, b2, c2, a3, b3, a4}
MCParent ==
  (g :> NoBlock) @@ (a1 :> g) @@ (b1 :> g) @@ (a2 :> a1) @@ (c2 :> a1)
  @@ (b2 :> b1) @@ (a3 :> a2) @@ (b3 :> b2) @@ (a4 :> a3)
MCHeight ==
  (g :> 0) @@ (a1 :> 1) @@ (b1 :> 1) @@ (a2 :> 2) @@ (c2 :> 2) @@ (b2 :> 2)
  @@ (a3 :> 3) @@ (b3 :> 3) @@ (a4 :> 4)
MCTxsOf ==
  (g :> {t1}) @@ (a1 :> {}) @@ (b1 :> {t2, t4, t6}) @@ (a2 :> {ca2, t2, t3, t6}) @@ (c2 :> {t2})
  @@ (b2 :> {}) @@ (a3 :> {}) @@ (b3 :> {cb3, t3, t5}) @@ (a4 :> {ca4, t5})
MCTx == {t1, t2, t3, t4, t5, t6, ca2, cb3, ca4}
MCAddress == {alice, bob, carol, pool}
MCCycle == {1, 2, 3}

MCBurnHeight ==
  (g :> 8) @@ (a1 :> 10) @@ (b1 :> 10) @@ (a2 :> 12) @@ (c2 :> 10) @@ (b2 :> 10)
  @@ (a3 :> 12) @@ (b3 :> 12) @@ (a4 :> 14)
MCBurn == [b \in MCBlock |-> <<"burn", MCBurnHeight[b], b \in {b1, b2, b3}>>]
MCTenure == [b \in MCBlock |-> MCBurnHeight[b] \div 2]
MCHashOf == [b \in MCBlock |-> <<"hash", b>>]
MCForcedUnlock == <<3, 11, 11>>
MCTokenOffering == [a \in MCAddress |-> {}]

Event(i, table, kind, from, to, n) ==
  [index |-> i, table |-> table, kind |-> kind, sender |-> from, recipient |-> to,
   amount |-> n, asset |-> None, contract |-> None, memo |-> FALSE, name |-> None, unlock |-> 0]
Lock(i, who, n, until) ==
  [Event(i, "stx_lock_events", "lock", who, None, n) EXCEPT
     !.contract = "pox-4", !.unlock = until]
Ft(i, kind, from, to, n) == [Event(i, "ft_events", kind, from, to, n) EXCEPT !.asset = gold]
\* As the node prints it: locked and unlock are those before the call.
Pox(i, table, name, who, n, until) ==
  [index |-> i, table |-> table, kind |-> "pox", sender |-> who, recipient |-> None,
   amount |-> 0, lock |-> n, asset |-> None, contract |-> table, memo |-> FALSE,
   name |-> name, unlock |-> 0, until |-> until, delegator |-> None,
   delegate_to |-> None, signer_key |-> None, start_cycle |-> 1, end_cycle |-> 2]
Pox4(i, name, who, n, until) == Pox(i, "pox4_events", name, who, n, until)
MCPrintedIn ==
  (t1 :> {Event(0, "stx_events", "mint", None, alice, 100),
          Event(1, "stx_events", "mint", None, bob, 100),
          Event(2, "stx_events", "mint", None, carol, 100),
          Event(3, "stx_events", "mint", None, pool, 100)})
  \* alice stacks on her own, in either branch
  @@ (t2 :> {Lock(0, alice, 50, 13),
             [Pox4(1, "stack-stx", alice, 50, 13) EXCEPT !.signer_key = k1]})
  @@ (t3 :> {Event(0, "stx_events", "transfer", bob, alice, 7)})
  \* the pool stacks for bob; carol stacks with PoX 2
  @@ (t4 :> {[Pox4(0, "delegate-stx", bob, 0, 15) EXCEPT !.delegate_to = pool],
             Lock(1, bob, 30, 11),
             [Pox4(2, "delegate-stack-stx", bob, 30, 11) EXCEPT !.delegator = pool],
             [Pox4(3, "stack-aggregation-commit", pool, 0, None) EXCEPT !.signer_key = k2],
             Lock(4, carol, 20, 15), Pox(5, "pox2_events", "stack-stx", carol, 20, 15)})
  @@ (t5 :> {Event(0, "stx_events", "burn", carol, None, 4),
             Ft(1, "mint", None, carol, 9), Ft(2, "transfer", carol, pool, 5),
             Event(3, "stx_events", "transfer", carol, pool, 2),
             [Pox4(4, "revoke-delegate-stx", carol, 0, None) EXCEPT !.delegate_to = pool]})
  @@ (t6 :> {[Pox4(0, "delegate-stx", carol, 0, None) EXCEPT !.delegate_to = pool]})
  @@ [t \in {ca2, cb3, ca4} |-> {}]
\* alice's lock ends with the burn block of a4.
LockEndsWithBlock ==
  [MCPrintedIn EXCEPT ![t2] =
     {IF e.kind = "pox" THEN [e EXCEPT !.until = 14] ELSE [e EXCEPT !.unlock = 14] : e \in @}]
Data(i, type, from, to, n, fee) ==
  [index |-> i, type |-> type, status |-> "success", sender |-> from, sponsor |-> None,
   sponsorNonce |-> None, nonce |-> 0, fee |-> fee, recipient |-> to, amount |-> n,
   deploys |-> None, calls |-> None, abi |-> {}, principals |-> {from, to} \ {None}]
MCTxData ==
  (t1 :> Data(0, "contract_call", pool, None, 0, 0))
  @@ (t2 :> Data(1, "contract_call", alice, None, 0, 1))
  @@ (t3 :> Data(2, "token_transfer", bob, alice, 7, 2))
  @@ (t4 :> Data(3, "contract_call", pool, None, 0, 1))
  @@ (t5 :> Data(4, "contract_call", carol, None, 0, 3))
  @@ (t6 :> Data(5, "contract_call", carol, None, 0, 1))
  @@ [t \in {ca2, cb3, ca4} |-> Data(0, "coinbase", pool, None, 0, 0)]
Paid(who, n, fees) == {[recipient |-> who, coinbase |-> n, fees |-> fees]}
MCMinerRewardsOf ==
  [b \in MCBlock |-> CASE b = a2 -> Paid(pool, 10, 0) [] b = b3 -> Paid(bob, 10, 2)
                       [] b = a4 -> Paid(carol, 20, 3) [] OTHER -> {}]
Signer(n, key, weight, stacked) ==
  [cycle |-> n, signing_key |-> key, weight |-> weight, stacked |-> stacked]
MCPoxSetOf ==
  [b \in MCBlock |-> CASE b = a2 -> {Signer(1, k1, 5, 50)}
                       [] b = b2 -> {Signer(1, k1, 5, 50), Signer(1, k2, 3, 30)}
                       [] b = c2 -> {Signer(1, k2, 3, 30)}
                       [] b = a4 -> {Signer(2, k1, 5, 50), Signer(2, k2, 1, 10)}
                       [] OTHER -> {}]
MCFtMetadata == {gold}
=============================================================================
