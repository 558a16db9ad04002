-------------------------------- MODULE Names --------------------------------
(***************************************************************************)
(* BNS: the names, namespaces, zonefiles and subdomains tables, on top of  *)
(* NftCustody.  updateNames, updateNamespaces, updateAttachments and       *)
(* updateBatchZonefiles of src/datastore/pg-write-store.ts and the parsing *)
(* of src/event-stream/bns/bns-helpers.ts.  A row of names holds values    *)
(* that updateNames computes from the rows it finds: the expiration and,   *)
(* when the operation brings none, the zonefile.                           *)
(*                                                                         *)
(* The flags of names, namespaces and subdomains are the ones ChainStore   *)
(* keeps per block; a name is an asset of NftCustody.                      *)
(***************************************************************************)
EXTENDS NftCustody, Sequences

CONSTANTS
  Name,           \* fully qualified names, the value of their token
  BnsEventsOf,    \* what the transactions of a block did to the BNS contract
  AttachmentsOf,  \* the attachments of a block's transactions
  NoHash          \* zonefile hash of an operation that brings none

\* A print event of the BNS contract, with the attachment of an operation on a
\* name or a namespace that is `ready', or the call of a renewal without a
\* zonefile, which prints none; position is the tx_index of the transaction.
BnsEvent == [tx : Tx, position : Nat, success : BOOLEAN,
             kind : {"attachment", "renewal-call", "ready"},
             op : {"name-register", "name-update", "name-transfer",
                   "name-renewal", "name-revoke", "none"},
             name : Name \cup {NoHash}, namespace : STRING, sender : Principal,
             hash : STRING \cup {NoHash}, lifetime : Nat]

\* handleNewAttachmentMessage, with the TXT records that have an owner and the
\* resolver of the zonefile; an operation other than a name-update has none.
Attachment == [tx : Tx, position : Nat, name : Name, hash : STRING, resolver : STRING,
               subdomains : SUBSET [fqs : STRING, owner : Principal]]

\* A transaction has one operation on a name, and the name is qualified by its
\* namespace.
ASSUME NamesAssumption ==
  /\ Name \subseteq Asset
  /\ \A b \in Block :
       /\ BnsEventsOf[b] \in Seq(BnsEvent)
       /\ \A i \in DOMAIN BnsEventsOf[b] :
            /\ BnsEventsOf[b][i].tx \in TxsOf[b]
            /\ BnsEventsOf[b][i].kind # "ready" => BnsEventsOf[b][i].name \in Name
       /\ \A i, j \in DOMAIN BnsEventsOf[b] :
            i < j => /\ BnsEventsOf[b][i].position < BnsEventsOf[b][j].position
                     /\ BnsEventsOf[b][i].tx # BnsEventsOf[b][j].tx
       /\ AttachmentsOf[b] \subseteq Attachment
  /\ \A b, c \in Block : \A i \in DOMAIN BnsEventsOf[b], j \in DOMAIN BnsEventsOf[c] :
       BnsEventsOf[b][i].name = BnsEventsOf[c][j].name /\ BnsEventsOf[b][i].name \in Name
         => BnsEventsOf[b][i].namespace = BnsEventsOf[c][j].namespace

AllAttachments == UNION {AttachmentsOf[b] : b \in Block}

\* An attachment is the zonefile whose hash its transaction's operation on the
\* name brings, so a transaction has one.  The fully qualified name of a
\* subdomain ends in the name, and a zonefile that lists one twice is refused.
ASSUME AttachmentAssumption ==
  /\ \A b \in Block :
       /\ IsFiniteSet(AttachmentsOf[b])
       /\ \A a, c \in AttachmentsOf[b] : a.position = c.position => a = c
       /\ \A a \in AttachmentsOf[b] : \A i \in DOMAIN BnsEventsOf[b] :
            BnsEventsOf[b][i].tx = a.tx /\ BnsEventsOf[b][i].name = a.name
              => BnsEventsOf[b][i].hash = a.hash
  /\ \A a \in AllAttachments :
       /\ IsFiniteSet(a.subdomains)
       /\ \A s, q \in a.subdomains : s.fqs = q.fqs => s = q
       /\ \A s \in a.subdomains : s.fqs \notin Name
  /\ \A a, c \in AllAttachments :
       (\E s \in a.subdomains, q \in c.subdomains : s.fqs = q.fqs) => a.name = c.name

VARIABLES
  names,      \* rows of names
  zonefiles   \* rows of zonefiles

nvars == <<names, zonefiles>>

-----------------------------------------------------------------------------
(* Parsing. *)

\* The owner after a transfer is the recipient of the name's token in the same
\* transaction.
OwnerAfter(b, e) ==
  LET moves == {x \in NftEventsOf[b] : x.tx = e.tx /\ x.asset = e.name /\ x.recipient # {}}
  IN IF e.op = "name-transfer" /\ moves # {}
       THEN CHOOSE p \in Principal : \E x \in moves : p \in x.recipient
       ELSE e.sender

\* parseNameFromContractEvent.
ParseName(b, e) ==
  [tx |-> e.tx, position |-> e.position, name |-> e.name, namespace |-> e.namespace,
   op |-> e.op, address |-> OwnerAfter(b, e), hash |-> e.hash]

\* parseNameRenewalWithNoZonefileHashFromContractCall.
ParseRenewal(e) ==
  [tx |-> e.tx, position |-> e.position, name |-> e.name, namespace |-> e.namespace,
   op |-> "name-renewal", address |-> e.sender, hash |-> NoHash]

\* Operations of a transaction that did not succeed are ignored.
NameOpsIn(b) ==
  LET event == BnsEventsOf[b]
  IN [i \in {j \in DOMAIN event : event[j].success /\ event[j].kind # "ready"} |->
        IF event[i].kind = "attachment" THEN ParseName(b, event[i])
                                        ELSE ParseRenewal(event[i])]

NameOpsOf == [b \in Block |-> NameOpsIn(b)]

\* parseNamespaceFromContractEvent.
NamespacesOf == [b \in Block |->
  {[namespace |-> e.namespace, lifetime |-> e.lifetime, position |-> e.position] :
     e \in {BnsEventsOf[b][i] : i \in {j \in DOMAIN BnsEventsOf[b] :
               BnsEventsOf[b][j].success /\ BnsEventsOf[b][j].kind = "ready"}}}]

-----------------------------------------------------------------------------
(* The queries of updateNames. *)

\* ORDER BY registered_at, tx_index: r is listed before q.
Newer(r, q) ==
  \/ r.registered_at > q.registered_at
  \/ r.registered_at = q.registered_at /\ r.position > q.position

Newest(R) == CHOOSE r \in R : \A q \in R : ~Newer(q, r)

\* The canonical rows of names as updateNames sees them for block b, when own
\* are the rows of b that are there.
NamesSeen(b, own) ==
  {r \in names : r.block \in NewRows(b)["names"]}
  \cup {r \in own : b \in NewRows(b)["names"]}

NamespaceRowsOf(c) ==
  {[namespace |-> n.namespace, lifetime |-> n.lifetime, position |-> n.position,
    registered_at |-> Height[c], block |-> c] : n \in NamespacesOf[c]}

\* The INSERT of a namespace of b is issued before the queries for the later
\* transactions of b.
NamespacesSeen(b, op) ==
  {n \in UNION {NamespaceRowsOf(c) : c \in NewRows(b)["namespaces"]} :
     n.namespace = op.namespace /\ (n.block = b => n.position <= op.position)}

\* The lifetime of the namespace counts from the operation; a transferred name
\* keeps the expiration it has.
ExpireBlock(b, op, seen) ==
  LET spaces == NamespacesSeen(b, op)
      previous == {r \in seen : r.name = op.name}
  IN IF op.op = "name-transfer" /\ previous # {} THEN Newest(previous).expire_block
     ELSE IF spaces # {} THEN Height[b] + Newest(spaces).lifetime
     ELSE 0

SameKey(y, z) == y.name = z.name /\ y.tx = z.tx /\ y.block = z.block

\* zonefiles joined with names.  The rows of the boot data are moved to block 1
\* before any query sees them, but their zonefiles are not.
SameOperation(z, r) == SameKey(z, r) /\ r.block # Genesis

\* An operation that brings no zonefile takes the last one: zonefiles joined
\* with the newest row seen in names.
FinalZonefile(op, seen, files) ==
  LET previous == {r \in seen : r.name = op.name /\ \E z \in files : SameOperation(z, r)}
      last == CHOOSE z \in files : SameOperation(z, Newest(previous))
  IN IF op.hash # NoHash \/ previous = {}
       THEN [hash |-> op.hash, text |-> FALSE]
       ELSE [hash |-> last.hash, text |-> last.text]

FileOf(r) == [name |-> r.name, hash |-> r.zonefile_hash, tx |-> r.tx,
              block |-> r.block, text |-> r.text]

\* The row updateNames inserts for operation op of block b, when own are the
\* rows of b that are there.  text says whether the text of the zonefile is
\* known.
NameRow(b, op, own) ==
  LET seen == NamesSeen(b, own)
      final == FinalZonefile(op, seen, zonefiles \cup {FileOf(r) : r \in own})
  IN [block |-> b, tx |-> op.tx, position |-> op.position, name |-> op.name,
      namespace |-> op.namespace, status |-> op.op, address |-> op.address,
      registered_at |-> Height[b], expire_block |-> ExpireBlock(b, op, seen),
      zonefile_hash |-> final.hash, text |-> final.text]

\* All rows of block b: ran[i] are the operations whose rows were there when
\* operation i was written.
NameRows(b, ran) ==
  LET row[i \in DOMAIN NameOpsOf[b]] ==
        NameRow(b, NameOpsOf[b][i], {row[j] : j \in ran[i]})
  IN {row[i] : i \in DOMAIN NameOpsOf[b]}

\* PgWriteQueue runs up to four tasks of a block side by side, one task for
\* the names of a transaction: an earlier row may come too late for a later
\* operation.
Orders(b) ==
  {ran \in [DOMAIN NameOpsOf[b] -> SUBSET DOMAIN NameOpsOf[b]] :
     \A i \in DOMAIN ran : ran[i] \subseteq 1 .. i - 1}

-----------------------------------------------------------------------------

NmInit == NInit /\ names = {} /\ zonefiles = {}

NmBeginUpdate(b) == NBeginUpdate(b) /\ UNCHANGED nvars

NmRestoreOrphanedChain == NRestoreOrphanedChain /\ UNCHANGED nvars

NmCommitUpdate ==
  /\ NCommitUpdate
  /\ \/ /\ job.block \in blocks
        /\ UNCHANGED nvars
     \/ /\ job.block \notin blocks
        /\ \E ran \in Orders(job.block) :
             LET new == NameRows(job.block, ran)
             IN /\ names' = names \cup new
                /\ zonefiles' = zonefiles \cup {FileOf(r) : r \in new}

NmAbortUpdate == NAbortUpdate /\ UNCHANGED nvars

\* updateBatchZonefiles: the text arrives, for the name and for every
\* subdomain of its zonefile; the hash of a subdomain's is its own.
AttachedZonefiles(b) ==
  UNION {{[name |-> n, hash |-> IF n = a.name THEN a.hash ELSE n, tx |-> a.tx,
           block |-> b, text |-> TRUE] :
            n \in {a.name} \cup {s.fqs : s \in a.subdomains}} :
         a \in AttachmentsOf[b]}

\* ON CONFLICT (name, zonefile_hash, tx_id, index_block_hash) DO UPDATE.
SameZonefile(y, z) == SameKey(y, z) /\ y.hash = z.hash

NmUpdateAttachments(b) ==
  /\ AttachmentsOf[b] # {}
  /\ UpdateAttachments(b)
  /\ LET new == AttachedZonefiles(b)
     IN zonefiles' = {z \in zonefiles : \A n \in new : ~SameZonefile(n, z)} \cup new
  /\ UNCHANGED <<custody, custodyWork, names>>

-----------------------------------------------------------------------------
(* Properties. *)

\* The blocks of the canonical chain, with the boot data when the block it was
\* moved to is one of them.
OnChain ==
  (canonical \ {Genesis}) \cup {b \in {Genesis} : boot \in canonical \ {Genesis}}

\* The operations of the canonical chain on name n.
Operations(n) ==
  UNION {{[name |-> n, registered_at |-> Height[b], position |-> o.position,
           status |-> o.op, address |-> o.address, hash |-> o.hash, tx |-> o.tx,
           block |-> b] :
            o \in {NameOpsOf[b][i] : i \in {j \in DOMAIN NameOpsOf[b] :
                                              NameOpsOf[b][j].name = n}}} :
         b \in OnChain}

\* "If we didn't receive a zonefile, keep the last valid one" (updateNames):
\* the newest row of a name on the canonical chain has the hash that the last
\* operation of that chain which brought one gave it.
KeepsLastZonefile ==
  \A n \in Name :
    LET brought == {o \in Operations(n) : o.hash # NoHash}
    IN brought # {} =>
         Newest({r \in names : r.name = n /\ r.block \in rows["names"]}).zonefile_hash
           = Newest(brought).hash
=============================================================================
