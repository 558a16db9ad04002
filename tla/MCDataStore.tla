---------------------------- MODULE MCDataStore ----------------------------
(***************************************************************************)
(* The tree of blocks and the transactions of MCChainStore, with balances, *)
(* tokens and names: what moves a balance is read from the same events,    *)
(* fees and rewards.  Rival blocks move the same tokens, x at height 1 and *)
(* y at height 2, and tell different stories of the same name.             *)
(***************************************************************************)
EXTENDS DataStore, MCChainStore

CONSTANTS u0, u1, u2, u3, u4, u5, u6, u7, u8, x, y, mName, nName

NameTx == {u0, u1, u2, u3, u4, u5, u6, u7, u8}
AllTx == MCTx \cup NameTx
NameTxsOf ==
  (g :> {u0, u8}) @@ (a1 :> {u1, u4}) @@ (b1 :> {u1, u4}) @@ (a2 :> {u2})
  @@ (b2 :> {u2, u5}) @@ (c2 :> {u3}) @@ (a3 :> {u3}) @@ (b3 :> {u6}) @@ (a4 :> {u7})
AllTxsOf == [b \in MCBlock |-> MCTxsOf[b] \cup NameTxsOf[b]]

\* bob's calls, one of them paid by the pool; he gets tokens and burns some.
NamePrintedIn ==
  (u5 :> {Ft(0, "mint", None, bob, 9)}) @@ (u6 :> {Ft(0, "burn", bob, None, 4)})
  @@ [t \in NameTx |-> {}]
AllPrintedIn == MCPrintedIn @@ NamePrintedIn
Call(i, from, fee) == Data(i, "contract_call", from, None, 0, fee)
NameTxData ==
  (u0 :> Call(6, pool, 0)) @@ (u1 :> Call(7, bob, 1))
  @@ (u2 :> [Call(8, bob, 2) EXCEPT !.sponsor = pool, !.principals = {bob, pool}])
  @@ (u3 :> Call(9, bob, 1)) @@ (u4 :> Call(10, alice, 1)) @@ (u5 :> Call(11, bob, 1))
  @@ (u6 :> Call(12, bob, 0)) @@ (u7 :> Call(13, bob, 0)) @@ (u8 :> Call(14, alice, 0))
AllTxData == MCTxData @@ NameTxData

\* The same data as the balances see it: an account is an address and a token.
Stx(a) == <<a, "stx">>
MCAccount == MCAddress \X {"stx", gold}
MCFeeOf ==
  [t \in AllTx |->
     [fee |-> AllTxData[t].fee, sender |-> Stx(AllTxData[t].sender),
      sponsor |-> IF AllTxData[t].sponsor = None THEN NoAccount
                                                 ELSE Stx(AllTxData[t].sponsor)]]
Moves(t, e) ==
  LET token == IF e.table = "stx_events" THEN "stx" ELSE e.asset
      account(a) == IF a = None THEN NoAccount ELSE <<a, token>>
  IN [table |-> e.table, id |-> 10 * AllTxData[t].index + e.index, amount |-> e.amount,
      kind |-> e.kind, sender |-> account(e.sender), recipient |-> account(e.recipient)]
MCEventsOf ==
  [b \in MCBlock |->
     UNION {{Moves(t, e) : e \in {f \in AllPrintedIn[t] :
                                    f.table \in {"stx_events", "ft_events"}}} :
              t \in AllTxsOf[b]}]
MCRewardsOf ==
  [b \in MCBlock |-> {[recipient |-> Stx(w.recipient), amount |-> w.coinbase + w.fees] :
                        w \in MCMinerRewardsOf[b]}]

MCAsset == {x, y, mName, nName}
MCPrincipal == {bob, alice}
Move(t, a, p, i) == [tx |-> t, asset |-> a, recipient |-> {p}, index |-> i]
MCNftEventsOf ==
  (a1 :> {Move(u1, x, bob, 1), Move(u1, nName, bob, 3), Move(u4, mName, bob, 4)})
  @@ (b1 :> {Move(u1, x, bob, 1), Move(u1, x, alice, 2), Move(u1, nName, bob, 3),
             Move(u4, mName, bob, 4)})
  @@ (a2 :> {Move(u2, y, alice, 1)})
  @@ (b2 :> {Move(u2, y, bob, 1),
             [tx |-> u2, asset |-> y, recipient |-> {}, index |-> 2]})
  @@ (c2 :> {Move(u3, y, bob, 1)})
  @@ (g :> {Move(u8, mName, alice, 0)}) @@ (a3 :> {}) @@ (b3 :> {}) @@ (a4 :> {})

\* Only a2 moves x away from the holder a1 gave it.
OnlyOneMoves ==
  [b \in MCBlock |-> CASE b = a1 -> {Move(u1, x, bob, 1)}
                        [] b = a2 -> {Move(u2, x, alice, 1)}
                        [] OTHER -> {}]

\* u1 registers a name, u2, u3 and u6 update its zonefile, u5 renews it without
\* one and u7 revokes it; another is in the boot data, and u4 transfers it.
MCName == {mName, nName}
Bns(t, i, nm, o, p, h) ==
  [tx |-> t, position |-> i, success |-> TRUE, kind |-> "attachment", name |-> nm,
   namespace |-> "id", op |-> o, sender |-> p, hash |-> h, lifetime |-> 0]
Renew(t, i, nm, p) == [Bns(t, i, nm, "name-renewal", p, NoHash) EXCEPT !.kind = "renewal-call"]
MCBnsEventsOf ==
  [b \in MCBlock |->
     CASE b = g -> <<[Bns(u0, 0, NoHash, "none", bob, NoHash)
                        EXCEPT !.kind = "ready", !.lifetime = 5],
                      Bns(u8, 1, mName, "name-register", alice, "h8")>>
       [] b \in {a1, b1} -> <<Bns(u1, 0, nName, "name-register", bob, "h1"),
                              Bns(u4, 1, mName, "name-transfer", alice, "h4")>>
       [] b = a2 -> <<Bns(u2, 0, nName, "name-update", bob, "h2")>>
       [] b = b2 -> <<Bns(u2, 0, nName, "name-update", bob, "h2"),
                      Renew(u5, 1, nName, bob)>>
       [] b = c2 -> <<Bns(u3, 0, nName, "name-update", bob, "h3")>>
       [] b = a3 -> <<[Bns(u3, 0, nName, "name-update", bob, "h3") EXCEPT !.success = FALSE]>>
       [] b = b3 -> <<Bns(u6, 0, nName, "name-update", bob, "h6")>>
       [] b = a4 -> <<Bns(u7, 0, nName, "name-revoke", bob, "h7")>>]
\* The zonefiles of the updates have a subdomain each, with different owners.
Zone(t, h, owner) ==
  {[tx |-> t, position |-> 0, name |-> nName, hash |-> h, resolver |-> "r",
    subdomains |-> {[fqs |-> "s.n.id", owner |-> owner]}]}
MCAttachmentsOf ==
  [b \in MCBlock |-> CASE b = a2 -> Zone(u2, "h2", bob)
                        [] b = b3 -> Zone(u6, "h6", alice)
                        [] OTHER -> {}]

\* Only branch b registers a name, and then renews it.
OneForkEvents ==
  [b \in MCBlock |->
     CASE b = b1 -> <<Bns(u1, 0, mName, "name-register", alice, "h2")>>
       [] b = b2 -> <<Renew(u2, 0, mName, alice)>>
       [] OTHER -> <<>>]
NoAttachments == [b \in MCBlock |-> {}]
=============================================================================
