------------------------------ MODULE NameReads ------------------------------
(***************************************************************************)
(* The BNS queries of src/datastore/pg-store.ts and the endpoints of       *)
(* src/api/routes/bns over the tables of Names.  A request reads in one    *)
(* SQL transaction: an answer is a function of one committed state.        *)
(***************************************************************************)
EXTENDS Names, SequencesExt

CONSTANT NamesPerPage   \* LIMIT of a page of names (100)

ASSUME NamesPerPageAssumption == NamesPerPage \in Nat \ {0}

Parent2LD(fqs) ==
  LET a == CHOOSE a \in AllAttachments : \E s \in a.subdomains : s.fqs = fqs
  IN a.name

Subdomains == {s.fqs : s \in UNION {a.subdomains : a \in AllAttachments}}

MaxHeight(unanchored) == IF unanchored THEN tip.height + 1 ELSE tip.height

UpTo(R, unanchored) == {r \in R : r.registered_at <= MaxHeight(unanchored)}

VisibleNames_AnyFork == names

VisibleNames == {r \in names : r.block \in rows["names"]}

VisibleNamespaces == UNION {NamespaceRowsOf(b) : b \in rows["namespaces"]}

\* Rows of subdomains: the entries of the attachments received.
VisibleSubdomains ==
  UNION {UNION {{[fqs |-> s.fqs, owner |-> s.owner, name |-> a.name,
                  resolver |-> a.resolver, tx |-> a.tx, position |-> a.position,
                  registered_at |-> Height[b], block |-> b] : s \in a.subdomains} :
                a \in AttachmentsOf[b]} : b \in attached \cap rows["subdomains"]}

-----------------------------------------------------------------------------
(* Queries. *)

GetNamespaceList(unanchored) ==
  {n.namespace : n \in UpTo(VisibleNamespaces, unanchored)}

GetNamespace(ns, unanchored) ==
  {n \in UpTo(VisibleNamespaces, unanchored) : n.namespace = ns}

\* DISTINCT ON (name) ... ORDER BY registered_at DESC, tx_index DESC.
LatestRows(R) == {r \in R : \A q \in R : q.name = r.name => ~Newer(q, r)}

\* A name whose last operation revoked it is not found.
GetNamesAtBlockHeight(N, unanchored) ==
  {r \in LatestRows({q \in UpTo(VisibleNames, unanchored) : q.name \in N}) :
     r.status # "name-revoke"}

PageOf(s, page) ==
  SubSeq(s, page * NamesPerPage + 1,
         IF Len(s) < (page + 1) * NamesPerPage THEN Len(s) ELSE (page + 1) * NamesPerPage)

\* The page is cut before the revoked names are left out.
GetNamespaceNamesList(ns, page, unanchored) ==
  LET latest == LatestRows({r \in UpTo(VisibleNames, unanchored) : r.namespace = ns})
      cut == ToSet(PageOf(SetToSeq({r.name : r \in latest}), page))
  IN {r.name : r \in {q \in latest : q.name \in cut /\ q.status # "name-revoke"}}

GetNamesList_Revoked(page, unanchored) ==
  ToSet(PageOf(SetToSeq({r.name : r \in LatestRows(UpTo(VisibleNames, unanchored))}), page))

GetNamesList(page, unanchored) ==
  LET latest == LatestRows(UpTo(VisibleNames, unanchored))
  IN ToSet(PageOf(SetToSeq({r.name : r \in {q \in latest : q.status # "name-revoke"}}), page))

\* The name whose registration decides whether a zonefile is served.
NameOfZonefile(n) == IF n \in Subdomains THEN Parent2LD(n) ELSE n

\* Zonefiles joined with the visible rows of their name or subdomain.
ZonefileRows(n, unanchored) ==
  LET owners == IF n \in Subdomains
                  THEN {s \in UpTo(VisibleSubdomains, unanchored) : s.fqs = n}
                  ELSE {r \in UpTo(VisibleNames, unanchored) : r.name = n}
  IN {j \in owners \X zonefiles :
        /\ j[2].name = n /\ j[2].tx = j[1].tx
        /\ j[2].block = j[1].block /\ j[1].block # Genesis}

NewestFile(R) == {j[2] : j \in {p \in R : \A q \in R : ~Newer(q[1], p[1])}}

\* At most one zonefile: of the newest row.
GetLatestZoneFile(n, unanchored) ==
  IF GetNamesAtBlockHeight({NameOfZonefile(n)}, unanchored) = {} THEN {}
  ELSE NewestFile(ZonefileRows(n, unanchored))

GetHistoricalZoneFile(n, hash, unanchored) ==
  IF GetNamesAtBlockHeight({NameOfZonefile(n)}, unanchored) = {} THEN {}
  ELSE NewestFile({j \in ZonefileRows(n, unanchored) : j[2].hash = hash})

GetSubdomainsListInName(n, unanchored) ==
  IF GetNamesAtBlockHeight({n}, unanchored) = {} THEN {}
  ELSE {s.fqs : s \in {q \in UpTo(VisibleSubdomains, unanchored) : q.name = n}}

GetSubdomainsList(page, unanchored) ==
  ToSet(PageOf(SetToSeq({s.fqs : s \in UpTo(VisibleSubdomains, unanchored)}), page))

\* The newest row of a subdomain whose name is not revoked.
GetSubdomain(f, unanchored) ==
  LET mine == {s \in UpTo(VisibleSubdomains, unanchored) : s.fqs = f}
  IN IF GetNamesAtBlockHeight({Parent2LD(f)}, unanchored) = {} THEN {}
     ELSE {s \in mine : \A q \in mine : ~Newer(q, s)}

GetSubdomainResolver(n) ==
  LET mine == {s \in VisibleSubdomains : s.name = n}
  IN {s.resolver : s \in {q \in mine : \A p \in mine : ~Newer(p, q)}}

\* 1. the subdomains that ever had the owner; 2. the names registered at
\* height 1 that no one else holds a token of; 3. the names whose token the
\* address holds; 4. of these, the ones whose name is not revoked.
GetNamesByAddressList(a) ==
  LET mine == {s \in UpTo(VisibleSubdomains, FALSE) : s.owner = a}
      imported == {r.name : r \in {q \in VisibleNames : q.address = a /\ q.registered_at = 1}}
      moved == {n \in imported : custody[n].recipient \notin {{}, {a}}}
      own == (imported \ moved) \cup {n \in Name : a \in custody[n].recipient}
      valid == {r.name : r \in GetNamesAtBlockHeight({s.name : s \in mine} \cup own, FALSE)}
  IN (own \cap valid) \cup {s.fqs : s \in {q \in mine : q.name \in valid}}

-----------------------------------------------------------------------------
(* Endpoints.  page is 0 when it is not given. *)

AllNamespaces(unanchored) == [status |-> 200, body |-> GetNamespaceList(unanchored)]

NamespaceNames(ns, page, unanchored) ==
  LET list == GetNamespaceNamesList(ns, page, unanchored)
  IN IF GetNamespace(ns, unanchored) = {} \/ (list = {} /\ page # 0)
       THEN [status |-> 400] ELSE [status |-> 200, body |-> list]

AllNames(page, unanchored) ==
  LET list == GetNamesList(page, unanchored)
  IN IF list = {} /\ page # 0 THEN [status |-> 400] ELSE [status |-> 200, body |-> list]

NameInfo(n, unanchored) ==
  LET found == GetNamesAtBlockHeight({n}, unanchored)
      r == CHOOSE r \in found : TRUE
      file == {z \in zonefiles : SameOperation(z, r)}
  IN IF found = {} THEN [status |-> 404]
     ELSE [status |-> 200, address |-> r.address, last_txid |-> r.tx,
           op |-> r.status, expire_block |-> r.expire_block,
           zonefile_hash |-> r.zonefile_hash, zonefile |-> \E z \in file : z.text]

\* A subdomain that is not found is asked from the resolver of its name.
SubdomainInfo(f, unanchored) ==
  LET found == GetSubdomain(f, unanchored)
      s == CHOOSE s \in found : TRUE
      resolver == GetSubdomainResolver(Parent2LD(f))
  IN IF found # {} THEN [status |-> 200, address |-> s.owner, last_txid |-> s.tx]
     ELSE IF resolver \in {{}, {""}} THEN [status |-> 404]
     ELSE [status |-> 302, to |-> resolver]

NameSubdomains(n, unanchored) ==
  [status |-> 200, body |-> GetSubdomainsListInName(n, unanchored)]

Zonefile(n, unanchored) ==
  LET z == GetLatestZoneFile(n, unanchored)
  IN IF z = {} THEN [status |-> 404] ELSE [status |-> 200, body |-> z]

HistoricalZonefile(n, hash, unanchored) ==
  LET z == GetHistoricalZoneFile(n, hash, unanchored)
  IN IF z = {} THEN [status |-> 404] ELSE [status |-> 200, body |-> z]

AddressNames(a) == [status |-> 200, body |-> GetNamesByAddressList(a)]

-----------------------------------------------------------------------------
(* Properties. *)

LastOp(n) == Newest(Operations(n))

Registered(n) == Operations(n) # {} /\ LastOp(n).status # "name-revoke"

\* The attachments of the canonical chain that were received, for subdomain f.
Entries(f) ==
  UNION {UNION {{[registered_at |-> Height[b], position |-> a.position,
                  owner |-> s.owner, tx |-> a.tx] :
                   s \in {q \in a.subdomains : q.fqs = f}} : a \in AttachmentsOf[b]} :
         b \in attached \cap canonical}

\* Once the attachment of the operation that gave a name its zonefile hash has
\* come, that zonefile is what the name serves, under its hash and as the
\* latest, and its subdomains' zonefiles are served too.
ZonefilesServed ==
  \A n \in Name :
    (Registered(n) /\ LastOp(n).hash # NoHash /\ LastOp(n).block \in attached) =>
      \A a \in {x \in AttachmentsOf[LastOp(n).block] :
                  x.name = n /\ x.tx = LastOp(n).tx} :
        /\ NameInfo(n, FALSE).zonefile /\ NameInfo(n, FALSE).zonefile_hash = a.hash
        /\ \A z \in Zonefile(n, FALSE).body \cup HistoricalZonefile(n, a.hash, FALSE).body :
             z.hash = a.hash /\ z.text
        /\ \A s \in a.subdomains : Zonefile(s.fqs, FALSE).status = 200

\* Whatever forks the chain went through, and whenever the attachments came: a
\* name is answered with the owner and the transaction of the last operation of
\* the canonical chain, and not at all when that revoked it; a subdomain with
\* the last entry the chain's attachments have for it; and a zonefile that came
\* is served.  A request that includes unanchored data is answered the same
\* when there is none.
NamesFollowChain ==
  /\ ZonefilesServed
  /\ \A unanchored \in BOOLEAN :
    /\ \A n \in Name :
         LET info == NameInfo(n, unanchored)
         IN IF ~Registered(n) THEN info.status = 404
            ELSE /\ info.status = 200
                 /\ info.address = LastOp(n).address /\ info.last_txid = LastOp(n).tx
    /\ \A f \in Subdomains :
         LET info == SubdomainInfo(f, unanchored)
         IN IF Entries(f) = {} \/ ~Registered(Parent2LD(f)) THEN info.status # 200
            ELSE /\ info.status = 200
                 /\ info.address = Newest(Entries(f)).owner
                 /\ info.last_txid = Newest(Entries(f)).tx

\* The lists agree with the single answers: every registered name is on exactly
\* one page of all names and of its namespace's, and whatever a list names,
\* an address's names and a name's subdomains included, is found.
ListedNamesResolve ==
  LET pages == 0 .. Cardinality(VisibleNames)
      found == {n \in Name : NameInfo(n, FALSE).status = 200}
      foundSub == {f \in Subdomains : SubdomainInfo(f, FALSE).status = 200}
      body(answer) == IF answer.status = 200 THEN answer.body ELSE {}
      onOnePage(n, list) == Cardinality({p \in pages : n \in list[p]}) = 1
      all == [p \in pages |-> body(AllNames(p, FALSE))]
  IN /\ UNION {all[p] : p \in pages} = found
     /\ \A n \in found : onOnePage(n, all)
     /\ \A ns \in AllNamespaces(FALSE).body :
          LET list == [p \in pages |-> body(NamespaceNames(ns, p, FALSE))]
              mine == {n \in found : LastOp(n).name = n /\ \E r \in VisibleNames : r.name = n /\ r.namespace = ns}
          IN /\ UNION {list[p] : p \in pages} = mine
             /\ \A n \in mine : onOnePage(n, list)
     /\ \A a \in Principal : AddressNames(a).body \subseteq found \cup foundSub
     /\ UNION {NameSubdomains(n, FALSE).body : n \in Name} = foundSub
     /\ foundSub \subseteq UNION {GetSubdomainsList(p, FALSE) : p \in 0 .. Cardinality(VisibleSubdomains)}
=============================================================================
