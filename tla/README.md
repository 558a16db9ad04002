# Stacks Blockchain API: verification project

TLA+ models of the Stacks Blockchain API: how the events of a Stacks node become
the rows of the Postgres database, what a re-org does to them, what is sent on,
and what the endpoints answer from the tables that result. The repository is in
`src/`; paths below are relative to it. `W` stands for
`src/datastore/pg-write-store.ts`, `S` for `src/datastore/pg-store.ts` and `V2`
for `src/datastore/pg-store-v2.ts`.

## 1. The system

A Stacks node POSTs its events, one at a time, to the event server
(`src/event-stream/event-server.ts`). A promise queue of concurrency 1 runs the
handler of each, which writes to Postgres through `PgWriteStore`; a second task
of the queue stores the raw request in `event_observer_requests`, and only then
the node gets its 200. A node that gets anything else, or nothing, repeats the
message. Nothing is ever deleted in a re-org: blocks and the rows of about
seventeen tables carry a `canonical` flag that is flipped, and several derived
tables (counts, balances, token holders, the mempool) are kept up by deltas.
After a commit, messages go to Redis (index progress), to Postgres
LISTEN/NOTIFY and from there to WebSocket clients. API processes read the same
database, in about a hundred queries that each filter and order the rows of all
forks in their own words, and tell caches with an ETag whether an answer is
still good.

### Inventory

| Component | State | Operations | What makes it correct |
|---|---|---|---|
| Chain store (W) | `blocks`, `canonical` flags of entity tables, `chain_tip` | `update`, `handleReorg`, `restoreOrphanedChain`, `markEntitiesCanonical`, `fixBlockZeroData`, `updateAttachments` | the canonical blocks are one chain that ends in `chain_tip`; every table has the flag of its block; only a longer chain displaces the tip |
| Microblocks (W) | `microblocks`, `microblock_canonical` and `index_block_hash` of their transactions, the unanchored tip | `updateMicroblocksInternal`, `insertMicroblocksFromBlockUpdate`, `updateMicroCanonical`, `handleMicroReorg` | readers see the streams that canonical blocks confirm, each once; no update meets the unique key of `txs` |
| Mempool (W) | `mempool_txs` (pruned, status, replaced-by), `mempool_tx_count` | insert, prune, restore, replace-by-fee, garbage collection, drop | a transaction is mined, pending or dropped and shown once; no spent nonce is pending; an orphaned transaction comes back |
| Balances (W) | `ft_balances` | `updateStxBalances`, `updateFtBalances`, the statements of `markEntitiesCanonical` and of microblock re-orgs | equal to a recalculation from the canonical rows |
| NFT custody (W, S) | `nft_custody` | `updateNftEvents`, `updateNftCustodyFromReOrg`, `getNftHoldings` | the holder is the recipient of the last canonical event |
| BNS (W, S, `routes/bns`) | `names`, `namespaces`, `subdomains`, `zonefiles` | `updateNames`, `updateNamespaces`, `updateAttachments`, parsing, queries, endpoints | a name is answered as the canonical chain left it; lists and single answers agree |
| Stacking (`pox-event-parsing.ts`, S, V2, W) | `pox*_events`, `pox_cycles`, `pox_sets` | patching of printed events, signer and pool queries, what unlocks with a block | totals, lists and members of a cycle agree for one fork; an unlock is told once |
| Index progress (`redis-notifier.ts`, W) | headers collected by a re-org, a Redis stream | `notify` | a follower has the canonical chain |
| Event server | queue, open requests, `event_observer_requests` | the routes, the raw log | what was acknowledged is stored and logged; a replay gives the same chain; every announcement is answered |
| Burn chain (event-server, W, S) | `burnchain_rewards`, `reward_slot_holders`, burn height | `handleBurnBlockMessage` (three transactions), the part of `update`, queries and endpoints | one burn fork's slot holders; rewards follow their blocks |
| WebSocket RPC and Socket.IO channels, transmitter, pg-notifier | subscriptions, `liveSockets`, an update queue with timeouts | subscribe, ping loop, `blockUpdate`, `txUpdate`, `nftEventUpdate`, sends | subscribers get what they were notified of; dead clients go, live ones stay |
| Read store and REST routes (S, V2, `src/api`) | none of their own | queries, paging, cursors, status codes | one question asked in two ways has one answer, on whichever fork the chain is |
| Rosetta (`src/rosetta`, `routes/rosetta`) | none | operations of blocks, transactions, mempool; balances at a block | the operations of a block account for the change of every balance |
| ETag cache controller | none | `calculateETag`, `handleCache` | a client told 304 holds what it would be sent |
| Mempool statistics (W) | debounce timer | `debounceMempoolStat` | not modelled |
| SNP stream, event replay | a position in a stream or file | `handleMsg`, `importEventsFromTsv` | only the tip of a replay is modelled |
| Rosetta construction, core RPC, parsing, faucets, v1 imports, migrations | stateless, I/O or one-off | | listed in `PROJECT.json` with the reason |

Hard behaviours, with their lines in `PROJECT.json` under `hazards`: re-orgs
that undo re-orgs, in a recursion that goes down the chain while other tables are
kept by deltas; one row per microblock for all blocks that confirm it; rows that
are computed from the rows canonical at that moment (names) and not recomputed;
blocks announced again after any crash, failure or timeout; handlers made of
several transactions; steps after the COMMIT (Redis, the raw log) that a crash
separates from it; mempool messages that arrive before or after the block that
mines them; attachments that arrive at any later time; a tag that is read before
the answer it is sent with; heights compared with `<` in one query and `<=` in
another.

## 2. The modules

```
BestChain                abstract: the longest chain of known blocks, first come first served
ChainStore               update() as one SQL transaction with its inner steps  (implements BestChain)
 |- Mempool              + mempool_txs and its count
 |   |- MempoolApi       the read API and the Rosetta mempool over both
 |- Balances             + ft_balances          \
 |- NftCustody           + nft_custody           \
 |   |- Names            + the BNS tables         > DataStore: one transaction moves all of them
 |       |- NameReads    BNS queries, endpoints  /
 |- IndexProgress        + the Redis messages   /
 |- Burnchain            + rewards, slot holders, burn height
 |   |- BurnchainReads   their queries and endpoints
 |   |- EventServer      + the node, the routes, the queue, the raw log
 |- Microblocks          + microblocks, their transactions, balances
 |   |- MicroblockApi    the read API over both, and a caching client
 |- StackingApi          stacking, supply and Rosetta endpoints over the tables
ChainStoreProofs, EventServerProofs, MempoolProofs, DataStoreProofs, NameProofs,
MicroblockProofs, CursorProofs, RealtimeProofs     theorems
Realtime                 clients, subscriptions, ping loops and the transmitter (on its own)
MC*                      the instances TLC checks

Sql                      rows, ORDER BY, LIMIT, SUM
 |- Tables               the tables of the database, as VARIABLES to be INSTANCEd
     |- BlockReads, TxReads, AccountReads, AddressReads, StackingReads   queries of S and V2
 |- PoxEvents            what the parser makes of a printed PoX event
Paging                   status codes, limits of a page
 |- BlockRoutes, TxRoutes, AddressRoutes, Rosetta                        endpoints
ReadApi                  ETags, and the properties that relate one answer to another
```

`MCDataStore` joins `DataStore` with `StackingApi` (by way of `MCChainStore`), so
that one run checks the writers and the stacking, supply and Rosetta endpoints over
the same blocks and data.

A writing layer EXTENDS ChainStore, adds its tables as variables, and its actions
conjoin the ChainStore action of the same step with what happens to its tables
there, so all layers share one definition of a re-org. A reading module is a set
of operators over the tables of `Tables`; `MempoolApi`, `MicroblockApi`,
`StackingApi` build the rows from the state of the writers and INSTANCE the
reading modules WITH them, so that every answer is checked in every state that
blocks, streams, re-orgs and roll-backs leave. A request reads in one SQL
transaction, hence from one committed state.

**ChainStore.** A block is its `index_block_hash`; `Parent`, `Height` and `TxsOf`
are constant functions of it, since the hash commits to them. `blocks`,
`canonical`, `rows` (per table the blocks whose rows are canonical), `attached`,
`boot` and `tip` are the committed tables. `job` is the open call of `update()`
and `work` what its transaction has written. `BeginUpdate` is `handleReorg` up to
the recursion, `RestoreOrphanedChain` one level of the recursion, `CommitUpdate`
all the rest and the COMMIT, `AbortUpdate` a failed query or a crash,
`UpdateAttachments` the route for zonefiles. Readers see only committed tables.
The node announces its boot data ("block 0") first, and any block again at any
time; a block whose parent is not stored is refused as in the code.

**Microblocks.** `micro` holds the flags of the stored microblocks, the rows of
their transactions with the columns of the unique key, how often `ft_balances`
counts a transaction (`applied`), and the counters. `UpdateMicroblocks` is the
route for a stream on top of the tip, with the gap check and the skipped rest of
a repeated message. `UCommitUpdate` inserts what a block confirms and was not
seen, lets `UpdateMicroCanonical` orphan and accept the stream, and corrects the
balances with `MicroblockReorgBalances`; `URestoreOrphanedChain` re-points the
rows of every level.

**Mempool.** A row is `[pruned, status, replaced_by, receipt]`. The operators have
the names of the functions they translate: `PruneMempoolTxs`, `RestoreMempoolTxs`,
`UpdateReplacedByFee`, `DeleteGarbageCollected`, `InsertDbMempoolTxs`. The
transaction of `update()` calls them in the code's order; `UpdateMempoolTxs` and
`DropMempoolTxs` are the two mempool routes. `AmbiguousWinner` is the case in
which a scalar subquery returns two rows and the transaction fails
(`MFailUpdate`).

**Balances.** Fees, miner rewards, STX and token events of a block as constants.
`UpdateStxBalances`/`UpdateFtBalances` add a new block's changes;
`FlipBalances` translates the SQL sums of `markEntitiesCanonical`. The reference
is `RecalculatedBalance`, which translates the migration that rebuilt the table
from the canonical rows.

**NftCustody.** `UpdateNftEvents` for a new block, `UpdateNftCustodyFromReOrg` as
`markEntitiesCanonical` calls it: after the flags of `nft_events` were flipped.

**Names, NameReads.** `BnsEventsOf` are the printed events of a block's
transactions; `NameOpsIn` and `NamespacesOf` are the parsing. A row of `names`
keeps the expiration and the zonefile hash `updateNames` found when it wrote it.
Up to four tasks of `PgWriteQueue` run at once, so the rows an operation sees of
its own block are a choice. `NmUpdateAttachments` brings the texts and the
subdomains. The move of the boot data to block 1 takes its names along but not its
zonefiles (`SameOperation`, `SameZonefile`). `NameReads` has the queries and the endpoints, redirects included.

**StackingReads, Rosetta, StackingApi.** `DecodePoxEvent` is the
patching of printed PoX events, which show the lock as it was before the call.
`GetUnlockedAddressesAtBlock` has the seven queries that find what unlocks with a
block, by PoX version. `GetOperations` makes the Rosetta operations of a
transaction from its type, its events and, for a coinbase, from what the block
pays and unlocks. Operations have signed amounts; memos and metadata are left out.

**Read modules.** `Page`, `Descending`, `First` stand for LIMIT, ORDER BY, LIMIT 1;
`Visible` for `canonical AND microblock_canonical`. A query keeps its own
conditions, also where they differ from a sibling's. Answers are records with a
status; columns no property tells apart are left out. `ReadApi!ChainTipAnswers`,
`TransactionAnswers` and `BlockV2Answers` list what is revalidated with each tag.
In `MicroblockApi` the client's `ReadTag` and `ReadBody` are two steps, as
`handleCache` runs before the endpoint's own transaction.

**IndexProgress.** Headers are collected by `restoreOrphanedChain` and belong to
one transaction, so they are empty again when it ends. `Notify` or `LoseMessage`
follows the COMMIT as a step of its own; the follower is compared with the chain
while no message was lost, since the stream has nothing to repair a loss with. `follower`
is a consumer of the stream (external): it holds the chain as a sequence, drops
from its end as many blocks as a message rolls back, and appends the ones it
applies. `RollsBackEnd` says that those dropped are the ones the message names.

**Burnchain, BurnchainReads, EventServer.** `node` is the message being announced;
a block is announced after its parent and its burn block. A task of the queue has
a step (`handle`, then `raw`), a message, and whether the node still waits on that
request. `NodeTimesOut` closes the open requests and adds one more; `NodeRetries`
follows a 500 or a crash. `BurnRewards`, `BurnSlots` and `BurnTip` are the three
transactions of `handleBurnBlockMessage`. `importing` holds requests for block 1
while `handleBnsImport` runs outside of the queue. `Crash` empties the queue and
rolls the open transaction back. Rows of `burnchain_rewards` are counted per burn
block, so that a repeated announcement adds its copies. `log` keeps the first row of each message: a
repeated block changes nothing in a replay either.

**Realtime.** `subs` are the subscribers of both channels, `live`, `listening` and
`beating` the `liveSockets`, socket listeners and timers of the subscription
managers. A round of the ping loop is `Tick`. An event of the store is handled in
stages (`StagesOf`: for `txUpdate` the mempool topic, then the transaction's own),
each of which looks for listeners, queries and sends; `nftEventUpdate` queries once
before it looks (`OneQuery`). A client whose socket is slow, whether it still
answers pings or not, holds a send up (`stuck`) until it ends (`SendEnds`) or times
out and costs the client its topic (`SendTimesOut`). A handler the queue timed out
on moves to `overdue` and goes on. Entities have versions instead of contents; `owed` is a history
variable: the version a client was subscribed for when it was notified.


## 3. The runs

| Run | Instance | Result |
|---|---|---|
| `mempool` | six blocks, four transactions of two accounts (two rivals, one sponsored in both nonce groups); 191,401 states | passes: spent nonces are not pending, orphaned transactions return, every endpoint shows a transaction once and with the totals, statistics and nonces that are about it |
| `data_store` | nine blocks with forks at heights 1, 2 and 3, re-orgs of depth 1 to 3 and one that undoes another; three tenures, locks of PoX 2 and 4, a pool, rival signer sets; transfers, a sponsored fee, mints, burns, rewards, two tokens, two names, attachments and lost messages; 17,582 states | passes: one chain, flags and `tx_count` follow it, only a longer chain displaces the tip, every transaction ends, BestChain is implemented; balances equal the recalculation, custody is the last event, a follower that missed no message has the chain, names resolve as the canonical chain left them and lists agree with single answers; Rosetta operations account for the balances, stacking answers agree, the supply is the sum of the accounts |
| `event_server` | five blocks, three burn blocks with a fork, at most two tasks at once; 222,166 states | passes: acknowledged is durable, replay gives the same tip, slot holders of one fork, every announcement answered |
| `realtime` | one client of each channel, two transactions in one manager and an NFT event with two topics, one overdue handler; 219,349 states | passes: what a subscriber is owed is under way, closed sockets leave nothing, hung clients are dropped, a responsive one keeps the only topic it has in a manager |
| `microblocks` | eight blocks, two streams on one block and one on its child, delivered whole, in parts, again or not at all; a caching client; 237,343 states | passes: readers see the confirmed streams, the unique key of `txs` is never met, cursors walk the chain, block, transaction and account answers agree, and a 304 is true |
| `realtime_shared_mark` | the same clients | violation: a responsive client with two topics in a manager loses one at the next ping |
| `mempool_stall` | one block, one sponsored transaction, with fairness | violation: the block is never stored |
| `nft_custody_reorg` | a token only one branch moves | violation: the orphaned recipient keeps it |
| `burnchain_rewards_reorg` | a re-org and a re-org back | violation: rewards of canonical blocks stay non-canonical |
| `microblock_balances` | a re-org over two confirmed streams | violation: rows that were not flipped are corrected too |
| `name_zonefile_reorg` | a renewal without a zonefile on a fork that takes over later | violation: the name loses its zonefile |
| `rosetta_unlock` | a lock that ends at the burn height of a block | violation: the operations release it one block before the balance does |

What each violation says of the code, with the sentence of the repository it
contradicts, is in `PROJECT.json` under `findings`. But for `realtime`, the passing runs use
instances that do not contain these cases, nor those of section 6, so that the
rest of the behaviour is checked beside them:

- `data_store`: rival blocks move the same tokens, and each token at one height
  only;
- `mempool`: no transaction is in a lower orphaned and a higher restored block;
- `data_store`: blocks have even burn heights and locks end at odd ones, so between
  two blocks; no transaction failed, locks are not extended or increased, and what is
  burnt is the sender's. `RosettaReconciles` leaves out the STX of the two parties to
  a sponsored transaction at its block, where the operations charge the other one
  (section 6);
- `realtime` does contain its case: both transactions are in the one manager the code
  has for them, and the RPC client may subscribe to both. `OnlyTopicIsKept` is about
  its topic in another manager, the collection; `realtime_shared_mark` is about all;
- `microblocks` checks what readers see, `microblock_balances` the balances.

Every property has a mutant: a changed definition (a dropped guard, a missing
table, a query without its flag, an answer sent too early) under which TLC finds
it violated.

### Bounds

- The trees of blocks are finite and given; every order of announcing and
  repeating their blocks is explored. Three heights above the fork let the
  recursion take zero, one and more levels, and let a re-org undo another.
- The streams of `MCMicroblocks` share their first microblock and end in rivals;
  each of their transactions is also on another fork, so that its row is
  re-pointed, orphaned and accepted again. `Batch` lists the messages the node
  may send: whole streams and single microblocks.
- `MaxTasks = 2`: one request being worked on and one repeated; a third would
  queue behind two copies of the same message.
- `MaxCopies = 2`: equal rows of `reward_slot_holders` and of `burnchain_rewards`
  are counted up to two, which tells one from several.
- `Interest` gives each client the topics it may ask for, so that a stage has
  listeners on one channel, on the other, or none; `MaxVersion` is 2 for the
  transaction, so that a handler can read a newer state than it was notified of;
  `MaxChanges = 2` counts the changes of both events together, `MaxWaiting = 1`
  the notifications in the queue, and `MaxOverdue = 1` lets two handlers overlap.
- Ages in the mempool are heights; garbage collection is by number of blocks.
- Cursors are followed from every canonical block with every limit the endpoint
  accepts (1 to 30), so that a page ends before, at and past the first block; names
  are listed in pages of `NamesPerPage`; other lists are asked for with the default
  or the largest page, which holds all rows of the instances.

### Fairness

- `ChainStore`, `DataStore`: weak fairness of a level of the recursion and of the commit. The
  code of an open transaction is a promise chain that runs on unless the process
  dies, which is `AbortUpdate`.
- `Mempool` (only `mempool_stall`): strong fairness of the commit in addition and
  weak fairness of the node announcing a block again, since the node repeats it
  until it is acknowledged.
- `EventServer`: weak fairness of the node's repetition, of the task at the head
  of the queue and of the import, and the assumption that failures, crashes and
  timeouts end at some time. Without the last one nothing could be promised: a
  node that always gives up too early never hears an answer.
- `Realtime`: weak fairness of the ping timers and of the pongs of open clients,
  which come within the interval (guard of `Tick`).

## 4. The proofs

`ChainStoreProofs` holds for every set of blocks that is a tree
by `Parent` and `Height` (`BlockAssumption`), and every finite set of transactions
per block (`TxAssumption`):

- `TypeCorrect`: `Spec => []TypeOK`. `TypeOK` alone is not inductive: that
  `tx_count` stays an integer needs the counted sets to be finite, so the
  invariant is `TypeInv == TypeOK /\ IsFiniteSet(blocks)`.
- `OneChain`: `Spec => []CanonicalIsOneChain`. The invariant `ChainInv` adds
  `StoredInv` (no stored block is above the tip, and parents are stored) and
  `JobInv`. In the middle of the recursion the transaction's view is not a chain:
  it is one with a single gap, above the block at the cursor
  (`PartialChain(S, extra, c)`: every block has its parent in `S`, except that the
  block just above the cursor has the cursor for a parent). Each level moves the
  gap one block down; `NextCursor` is `NoBlock` exactly when it is closed. A call
  for a block that is not above the tip leaves the transaction's view as committed.
- `LongerChain`: `Spec => ReorgOnlyToLongerChain`, the action property, from the
  same invariant and the fact (`AboveTip`) that a block above the tip is exactly
  one above it and was not stored before.
- `ImplementsBestChain`: `Spec => ShowsBestChain`. Every step but a commit leaves
  the committed tables alone; a commit adopts the block of the call if it is above
  the tip, remembers it if it is new, and otherwise shows nothing new. The boot
  data, which the recursion may make canonical, is left out of the mapping.
- `EntitiesFollow`: `Spec => []EntitiesFollowBlocks`. `EntityInv` says the same of
  the tables of the open transaction, and adds `BootInv`: until the boot data is
  moved it is alone in the table, so the block it is moved to is canonical. That
  only one block is orphaned at a level (`OneOrphan`) comes from `PartialChain`;
  `markEntitiesCanonical` is applied to the first orphaned row only.
- `TxCountRight`: `Spec => []TxCountMatchesRows`. `CountInv` adds the count of the
  open transaction; `TxRowsSplit` makes the deltas of a level add up.

The module also has what the other proofs need of queries: a fold over a finite set
exists (`FoldExists`), and inserting its elements one by one in a weak order gives a
sequence that has each once and in order (`SortExists`, `SortedList`), which is ORDER
BY. They are proved by a smallest counterexample among the subsets, since the
induction principles of the library cannot be used.

`EventServerProofs`, with `BurnAssumption` and `ServerAssumption` (blocks and burn
blocks have different hashes) in addition, for any `MaxTasks`:

- `AckedDurable`: `ESpec => []AckedIsDurable`. `DurableInv`: the open transaction
  is that of the task at the head of the queue (`HeadInv`), and a request that
  waits to be logged, in the queue or in the import of block 1, has its block in
  the store (`WaitingInv`).
- `ServerTypeCorrect` and `ServedChain`: whatever the server does is, for the
  store, a step of `ChainStore` or none, so the types and `CanonicalIsOneChain`
  hold of the whole server. `ServerInv` joins `ChainInv`, `DurableInv` and the
  tables of the burn chain.
- `SlotHoldersKept`: `ESpec => []SlotsOfOneFork`. Of two burn blocks of one burn
  height at most one has canonical slot rows, and each at most once, although the
  three transactions of a burn block fail and are repeated one by one.
- `SlotHoldersListed`: `ESpec => []SlotHoldersOfOneFork`, the same of what the
  endpoints list, for every burn block and address (`SlotsAssumption`): the rows of
  one fork are a list in order, and an address's slots are those of the burn blocks
  that name it.
- `ReplayRight`: `ESpec => []ReplayGivesSameTip`. `LogInv` says that what is stored
  was acknowledged or is being announced, that no message is logged twice, and that no
  block of the tip's height is logged before the tip's own message. Then the tip that
  importing the log gives is the tip of the store: the first logged block of the
  greatest height.

`MempoolProofs`, for any payers, nonces and fees:

- `MempoolTypeCorrect` and `MempoolCountRight`. `MempoolInv` says of the committed
  and the open mempool that finitely many rows are pending and that
  `mempool_tx_count` is their number: every one of the seven statements that move
  it must return exactly the rows it turned.
- `SpentNotOffered`: `MSpec => []NoPendingRivalOfMined`. The invariant
  `RivalsExplained` is the property itself, for both views and with the blocks the
  open transaction sees; `OldBelow` adds that at and below the cursor its chain is
  still the committed one. The proof showed what the property must allow: a
  re-org is undone from the top down, so a row may come back pending after the
  block above was pruned (section 6).
- `OrphanedReturn`: `MSpec => OrphanedTxReturns`, an action property, from
  `ReturnInv`: at each level, what has left the canonical chain so far has a row,
  and one that is not pending lost its nonce to a rival.
- `MempoolAnswersRight`: `PSpec => []MempoolAnswersAgree`, with `NoneAssumption` of
  `MempoolApi`. The tables the endpoints read are the rows of `MempoolTables`, with
  `MempoolInv`. No row is of a block above the tip (`StoredInv`), so no pruned
  transaction counts as one of an unanchored microblock (`NoneUnanchored`) and every
  query of the mempool reads the pending rows (`PendingRows`); the filtered lists,
  their totals, the statistics and the nonces then follow one by one.

`DataStoreProofs`: `BalancesRight`, `DSpec => []BalancesMatchRows`, for any accounts
and amounts; each block has finitely many events (`BalanceAssumption`).
`BalanceInv` adds the balances of the open transaction. `ft_balances` is only ever
changed by deltas and the property is about sums, so the module first proves what
a sum over a finite set is (`SumAmounts` of a union of disjoint sets, of equal
amounts), again by a smallest counterexample.

`FollowerRight`, in the same module: `DSpec => []FollowerHasCanonicalChain`.
`HeadersInv` says what the two lists of headers are while a re-org collects them:
one block per height each, down to the cursor (`AtCursor`), and in the end both
above one common block (`AtFork`). `FollowerInv` says that a follower that also
gets the message that waits has the canonical chain, in order.

`NameProofs`, for any names, events and attachments of blocks in which a transaction
has one operation on a name (`NamesAssumption`), an attachment is the zonefile of its
transaction's operation (`AttachmentAssumption`), and any page size
(`NamesPerPageAssumption`):

- `NamesRight`: `DSpec => []NamesFollowChain`. `NameInv` adds to `EntityInv` that the
  rows of `names` are those of the operations of the stored blocks, one each
  (`RowsInv`), and that `zonefiles` holds the file of every row and of every
  attachment that arrived, under a key that is one (`FilesInv`). That the rows of a
  block are what `updateNames` writes, whichever of them its concurrent tasks see,
  is a recursion along the block's operations (`RowsExist`, `RowsOfBlock`). On one
  chain the newest row by the queries' ORDER BY is then the row of the last operation
  (`NewestRow`), and likewise for a subdomain (`NewestSubRow`).
- `ListsRight`: `DSpec => []ListedNamesResolve`. The pages of a list have together
  what one page without a limit has (`PagesCover`), and a name is in it if and only
  if its own endpoint answers.

`MicroblockProofs`, for every tree of blocks, all streams that have a first
microblock and carry finitely many transactions (`StreamAssumption`), and messages
that are runs of a stream (`MicroAssumption`):

- `MicroTypeCorrect`, `VisibleRight`, `MicroKeys`, `MicroblocksFollow`: the types,
  `VisibleFollowsChain`, `MicroTxKeysUnique` and `MicroblocksFollowChain`. None of
  the last three is inductive. `StreamInv(u, V, B, H)` says of tables `u`, canonical
  blocks `V`, stored blocks `B` and tip height `H`: the streams of stored blocks are
  stored; a row without a block is of a microblock on top of height `H`; a row with
  one says `canonical` if that block is canonical and `microblock_canonical` if that
  block confirms it (`RowOK`); keys are unique (`UniqueKeys`); each stored block has
  all rows of its stream (`AllThere`); and the flags of a microblock show it exactly
  when a block of `V` confirms it (`FlagsOK`). `MicroInv` says so of the committed
  tables, and of those of the open transaction with the blocks it sees. A level of
  the re-org turns `V` into `V \ {o}` and then `V \cup {c}` (`LevelKeeps`); a block
  above the tip claims every row without a block (`CanonicalKeeps`), which is why
  the UPDATE of `handleMicroReorg` never meets a row that already has the key.

`CursorProofs`, for every tree of blocks, with `NoneAssumption` of `MicroblockApi`:

- `CursorsRight`: `ASpec => []CursorsWalkChain`. The read API sees the canonical
  blocks, which are one chain (`ChainInv`), as a list by height (`BlocksListed`). A
  block's place in it is given by its height (`Ranks`), so the row after a block is
  its parent (`NextIsParent`), and a page has the blocks between two cursors
  (`CursorPage`): what `next_cursor` and `prev_cursor` lead to leaves no block out and
  shows none twice, for every limit of the endpoint and within a tenure.

`RealtimeProofs`, for any clients, topics and versions (`RealtimeAssumption`,
`NoTaskAssumption`):

- `RealtimeTypeCorrect`; `ClosedIsForgotten`: `RSpec => []ClosedLeavesNothing`, from
  `ConnInv`: every subscription and live socket of a client has a `close` listener
  that will take it away.
- `OwedIsSent`: `RSpec => []OwedIsUnderWay`. `UnderWay` names the handler, waiting,
  running or overdue, that is still to send a version at least as new.
- `OnlyTopicKept`: `RSpec => OnlyTopicIsKept`, for any managers: no ping drops a
  responsive client from the only topic it asks for in a manager. `PingInv` says that
  such a client has its mark in `live`, or a ping it still has to answer; then a round
  that takes the mark does not find it missing (`TickKeepsOpen`). Of a client with a
  second topic it is false (run `realtime_shared_mark`).

Only model-checked:

- liveness (`UpdateTerminates`, `NodeIsAnswered`, `HungClientIsDropped`,
  `AnnouncedBlockIsStored`), which with fairness and ENABLED is out of the prover's
  reach;
- what holds of the instances only: `CustodyIsLatestEvent`, `RosettaReconciles` and
  `OneAnswerPerTx` are false of some trees (`findings`, section 6);
- what holds up to the limit of a page: `BlockAnswersAgree`, `TxAnswersAgree`,
  `StatementsAddUp` and `StackingAnswersAgree` compare lists of a default or largest
  page, and are false of a block, transaction, account or cycle with more rows;
- `SupplyIsBalances`, about sums over the rows of a block at a height, and
  `NotModifiedIsTrue` and `TagsNameAnswers`, which compare all answers of two states:
  the second needs that no chain has a transaction twice, which the models do not
  assume, and a comparison of the tables of two states query by query.

## 5. What is left out

- `pox_state` (a constant), and Clarity values, which are events already.
- In the mempool: the order of equal fees by receipt time, and garbage collection
  by age in minutes, which replaces the age in blocks once signers sign blocks.
- Attachments that arrive before their block. The code stores their subdomains
  with an empty `index_block_hash`; the node sends attachments after the block
  was acknowledged.
- Statements that `PgWriteQueue` runs concurrently in one transaction are one
  step: they write different tables, except for names, where the choice is
  modelled, for replace-by-fee, which reads the rows of `txs` that another
  statement of the queue inserts, and for `nft_custody`: two inserts for one token
  of one block, whose ON CONFLICT keeps the later event, are applied together.
- What a lost index-progress message does to its follower, and what equal rows of
  `burnchain_rewards` add to the totals, are in the models, and no property denies
  them: the code makes up for neither (section 6).
- A request that reads its tag before a commit and its answer after it is followed
  to the 304 (`NotModifiedIsTrue`) for the tag of the chain tip, when that names a
  block. For the tags of a transaction and of a block `TagsNameAnswers` compares two
  states, in each of which tag and answer are read together. Principals are left out.
- In the queries: the filters of `getTxList` by time, contract, function and nonce
  and its sort orders; the form of a signer key without its `0x`
  (`getPoxCycleSigner`).
- The IBD hook of the event server, which logs prunable messages without handling
  them; NFT events of the boot data; NFT custody moved by microblocks.
- When block 1 is orphaned, the boot data that was moved to it goes with it and
  does not come to its rival. `TxCountMatchesRows`, `EntitiesFollowBlocks` and
  `BalancesMatchRows` state what the code does in that case.
- The SNP stream: whether it repeats or skips the message it restarts at depends
  on the client library, which is not in the repository.
- The debounce timer of the mempool statistics, faucets, the parsing of node
  messages, Rosetta construction, network and validation, the RPC proxy: see
  `components` in `PROJECT.json`.

## 6. Further observations

Met while modelling; none has a run of its own, and the models keep the code's
behaviour. Some may be intended.

Writing:

- `restoreOrphanedChain` walks down the chain, so `restoreMempoolTxs` un-prunes a
  transaction of a lower orphaned block that a higher restored block mined: it
  stays pending while mined. For the same reason `updateNftCustodyFromReOrg` ends
  with the event of the lower of two restored blocks.
- After a re-org two rivals for one nonce may both be pending: replace-by-fee is
  evaluated for the transactions of the message only.
- A crash between the COMMIT and `notify` loses an index-progress message for good.
- `burnchain_rewards` has no uniqueness constraint: a burn block announced again
  adds its rows again. `update()` overwrites `chain_tip.burn_block_height` with the
  block's own height, which may be below what `updateBurnChainBlockHeight` wrote.
- `debounceMempoolStat` sets `running` before it connects: if `connectPostgres`
  rejects, it stays set.
- A microblock message that is repeated moves `chain_tip.microblock_hash` back, and
  `chain_tip.tx_count` is not corrected for microblock transactions in a re-org.
- An attachment for an unknown transaction is stored as canonical with an empty
  `index_block_hash`. A renewal without a zonefile that is written before the
  attachment of the registration arrives never gets the text.
- `delegate-stx` with an end height patches `burnchain_unlock_height` although it
  locks nothing, so a stacker who delegates while stacked may be counted as locked
  until the delegation ends.

Reading:

- `getBlocks` (V2) with a tenure and no cursor returns nothing unless the tip is in
  that tenure; its total counts blocks of all forks.
- `getCurrentTenureExecutionCosts` sums all forks; `searchHash` takes any row;
  `event_txs` are not filtered by canonical; the fallback of `searchTx` is never
  reached.
- `getAddressNonceAtBlock` uses the origin's nonce for a sponsor. The v1
  `with_transfers` lists count a fee as sent by the sender of a sponsored
  transaction.
- `getBlocksWithMetadata` compares the parent with the microblock's own index for
  `microblocksStreamed`; `getMicroblocks` limits the joined rows, not microblocks.
- `getNamespaceNamesList` takes the page before it drops revoked names, so a page in
  the middle may be empty, which is a 400. `getNamesByAddressList` lists a subdomain
  for every owner it ever had. `getNamesList` drops rows without a status that
  `getName` keeps.
- The principal tag is made of transaction ids only, while the answers with it hold
  balances; attachments change names without changing the tag of the chain tip. A
  re-org there and back between two requests can make the tag of a transaction or
  of a block equal to an older one.
- Unlock events of an extended lock are reported at the old height; a lock that ends
  at `pox_vN_unlock_height` exactly is never reported. `getStxPoxLockedAtBlock` (V2)
  compares `burnchainLockHeight` with a block height.
- `cycleCheck` and `signerCheck` ignore `canonical`: the signers of an orphaned cycle
  are a 200 with an empty list while the cycle is a 404. A signer query has
  `'stacks-increase'` for `'stack-increase'`.
- Rosetta: the fee operation charges the sender of a sponsored transaction, and has
  the status of the transaction also when that failed; the lock operation of an
  extension or increase repeats the whole amount; a burn after a transfer is charged
  to the transfer's sender; `/block/transaction` leaves out the rewards and unlocks
  of a Nakamoto coinbase that `/block` shows.

## 7. Plan

1. Proofs: `TagsNameAnswers`, for trees in which no chain has a transaction twice;
   `SupplyIsBalances`, with the sums of `BalancesRight`; the lists of a block for
   blocks that fit a page.
2. The debounce timer of the mempool statistics, whose liveness depends on a
   connection that may fail.
3. The other environments of the event server: the SNP stream that restarts at
   `chain_tip`, and the IBD hook.
4. The tag of the mempool, and faucets.
