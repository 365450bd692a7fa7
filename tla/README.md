# A TLA+ development of the Litecoin fork of BDK

This directory models the parts of the repository that keep a wallet consistent
while the chain, the servers, the peers and the process misbehave: the list of
checkpoints, the local chain and its merge, the transaction graph with the script
index and the stores its changesets go to, which transactions of a graph count, the
clients that bring a wallet up to date, and for MWEB the coin database, its
synchronisation, the peers behind it and the verification of what they send. TLC
checks small instances; TLAPS proves the central invariants for every value of the
constants.

## 1. The system

| part | state | operations | how it meets the others |
|---|---|---|---|
| `CheckPoint` (`core/checkpoint.rs`, `checkpoint_entry.rs`) | an immutable list of blocks with gaps, shared by `Arc`, with skip pointers | `push`, `extend`, `insert`, `get`, `floor_at`, `range`, `entry_iter` | every chain source hands its view of the chain to `LocalChain` as a `CheckPoint` |
| `LocalChain` (`chain/local_chain.rs`) | the tip of such a list | `apply_update` (`merge_chains`), `apply_header(_connected_to)`, `insert_block`, `disconnect_from`, `from_changeset` | each operation returns a `ChangeSet` that the caller stages, persists and replays |
| `TxGraph` (`chain/tx_graph.rs`) | transactions, floating outputs, anchors, seen and evicted times, two indices | insertions, `apply_update`, changesets | filled by the chain sources, read by canonicalization |
| `SpkTxOutIndex`, `KeychainTxOutIndex`, `IndexedTxGraph` (`chain`) | descriptors, derived scripts, unused ones, outputs of the wallet, last revealed indices | reveal, mark, unmark, scan, changesets | indexes what the graph adds; what that reveals goes into the same changeset |
| canonicalization (`chain/canonical*.rs`) | queues and results of two sans-IO tasks | `next_query`, `resolve_query`, `finish`; outputs and balance of the view | asks `LocalChain` through `ChainQuery` |
| `Store` (`file_store`), SQLite (`chain/rusqlite_impl.rs`) | a file of bincode records and an offset; tables | `create`, `load`, `dump`, `append`; migrate, persist, load | keep the changesets |
| Esplora, Electrum (`esplora`, `electrum`) | the Electrum caches | `sync`, `full_scan` | ask a server about scripts, produce updates for `LocalChain` and `TxGraph` |
| `Emitter`, `FilterIter` (`bitcoind_rpc`) | last checkpoint, last block, mempool snapshot | `next_block`, `mempool`; `next` | walk the blocks of a node |
| `MwebCoinDatabase` (`mweb/coin_db.rs`, `changeset.rs`, `sqlite.rs`) | unspent and spent coins, a staged changeset | `insert`, `mark_spent`, `disconnect_from`, `set_block_height`, `set_leaf_index`, `take_staged`, `from_changeset` | filled by scanning; persisted to `Store` or SQLite |
| `MwebSyncer` (`mweb/mweb_sync.rs`) | `SyncState`: last tip, leafset, height map, resume cursor | `run_once`, `run_loop_with_pool` | reads tips from a header provider, headers, leafsets and outputs from peers; writes the coin database |
| peers (`PeerPool` in `mweb_sync.rs`, `discovery.rs`, `lip0006_tcp.rs`) | addresses, bans, a connection | `connect_next`, `with_failover`, rounds of requests | serve `MwebSyncer` |
| `lip0006.rs`, `p2p.rs`, `pmmr.rs` | none | `sync_mweb_utxos`, `verify_anchored`, `verify_utxo_batch` | check what peers send |
| transaction building, keys and cryptography (`mweb`) | none | pure functions | — |

What is hard here is not concurrency inside the process (nearly everything takes
`&mut self`) but what happens between calls: a chain that moves between two
requests, updates that are sparse and partly contradict the local view, a process
that stops between applying and persisting, a write that is cut off, a download
that is resumed on another branch or with another peer, caches that outlive a
reorganisation, and lists whose answers must not depend on which short cuts they
take. The full list, each at its line, is under `hazards` in `PROJECT.json`.

## 2. Modules

| module | models | kind |
|---|---|---|
| `CheckPoint` | lists as functions from heights to blocks, `prev_blockhash` links, placeholders, `insert` | operators |
| `CheckPointList` | one list under `push` and `insert` | component |
| `SkipList` | `skip_index`, `ancestor_by_index`, `walk_to_floor`, the wiring in `push` | algorithm |
| `ChainMerge` | changesets, applying them, and the result of `merge_chains` in closed form | operators |
| `LocalChain` | the local chain with what its caller stages and persists | component |
| `MergeLoop` | the loop of `merge_chains` step by step, compared with `ChainMerge` | algorithm |
| `FileStore` | the append-only file | component |
| `TxGraph` | the transaction graph, its walks, insertions and changesets | operators |
| `KeychainIndex`, `IndexedTxGraph`, `SqliteTables` | the script index, graph and index together, their SQLite form | operators |
| `Wallet` | graph and index with stage, two stores, stops and reloads | composition |
| `DurableWallet` | what a wallet that is saved now and then promises | abstract specification |
| `Subsequences` | the elements of a sequence at given positions, loops over sequences, listings of sets | operators |
| `Canonicalization` | `CanonicalTask` and `CanonicalViewTask`, driven by `LocalChain::canonicalize`, and the balance | algorithm |
| `ChainNode` | a node and the wallet that follows it | environment |
| `SpkSources`, `BlockSources` | Esplora and Electrum; `Emitter` and `FilterIter` | components |
| `ChainSources` | all sources, one after the other, against the moving node and the merge of `LocalChain` | composition |
| `CoinDb` | coin tables, changesets and their merge, SQLite upserts | operators |
| `MwebCoinDb` | the coin database with its staged changes and its store | component |
| `MwebSync` | `MwebSyncer::run_once` on top of `CoinDb`, with the chain and the peer | composition |
| `MwebPeers` | tip loop, peer pool, connection and rounds of requests | composition |
| `Pmmr` | positions, peaks, segment roots, leafset checks | operators |
| `Lip0006` | `sync_mweb_utxos` against a source that may answer anything | component |
| `MC*` | instances for TLC | |
| `NatFacts` | induction and recursion up to a number, listings of finite sets | lemmas |
| `LocalChainProofs` (with `CheckPointList`, `MergeLoop` and `SkipList`), `FileStoreProofs`, `CanonicalizationProofs`, `WalletProofs`, `ChainSourcesProofs`, `MwebSyncProofs` (with `MwebCoinDb`), `MwebPeersProofs` | theorems | proofs |

A definition whose comment begins with *Faulty variant* is a plausible slip of the
definition that follows it. It shows that a property can fail, and no specification
uses it.

### CheckPoint, CheckPointList, SkipList

A `CheckPoint` is seen in two ways. For what it *contains*, it is a function from
`0..MaxHeight` to blocks or `None` (`SparseChain`); a block carries the hash of its
parent when its data is a header (`Linked`), and `Placeholder` and `EntryHash` are
what `entry_iter` makes of that. For how it is *walked*, `SkipList` counts nodes by
index, gives each a height and a skip pointer, and takes the two loops one
iteration per step. `Branches` are the block chains of the network, a conflict is
two branches with different blocks at a height.

`insert` is one action: the scan down the list that drops what conflicts, the
assertion on genesis (an insert that would panic is not enabled) and the rebuild
that stops at the first block whose link does not hold.

### LocalChain and its merge

`ChainMerge` says what `merge_chains` computes without a loop: where two entry
lists agree or conflict, when the connection is ambiguous (`AmbiguousAt`), when
nothing connects (`DisjointAt`), what is purged, and what the pointer short cut
returns (`SharesNodes`, `TakesUpdateTip`). `MergeLoop` is the loop as written, one
action per arm of its `match`, and `LoopComputesMerge` states that both agree.

`LocalChain` adds the caller: `stage` collects the returned changesets, `Persist`
writes them, `Restart` forgets what was not written. `Updates` contains lists on
no single branch as well as honest ones (`HonestUpdates`: a sample of one branch
with the genesis block or a header chain to it). `ApplyHeaderConnectedTo` exists
for hash data only, as in the code.

### FileStore

The file is a sequence of cells, a record takes several, and a write that fails or
is cut off leaves a prefix of them at the current offset. What a reader makes of a
file that ends in the middle of a record, or in which a short record overwrote a
longer one, is nondeterministic over what bincode can return: an error, or `Bogus`
values. `done` and `failed` are history variables.

### TxGraph, Canonicalization

A graph is a record of maps over transaction ids. A transaction keeps its previous
outputs, the scripts it pays and its witnesses; amounts are left out. The indices
`txs_by_highest_conf_heights` and `txs_by_last_seen` are kept by the insertions as in
the code, because canonicalization takes its order from them; `spends` always equals the
inputs of the whole transactions and is computed. Every insertion returns the graph and
its changeset; `InsertAll` does several in turn and merges what they return, and the
operations that insert more than one thing are lists of insertions for it.

`Canonicalization` follows the two sans-IO tasks: a step takes the next transaction of the
stage's queue, visits one transaction of the ancestor walk in `mark_canonical` (`VisitNew`,
`VisitKnown`), ends the walk (`Commit`, `Undo`), or answers one query about the chain.
`DecidedByPrecedence` compares the result with a definition that has no stages, walks or
undoing: a claim (assumed, anchored, seen, formerly anchored, in this order) is granted iff
the transaction and its ancestors conflict neither with each other nor with what higher
claims brought in. `UpdateChain` lets the chain grow or be reorganised between the two
tasks, which are two calls. The order in which the walk over descendants finds an anchored
one is left open (hash maps). `BalanceClass` is the class in which `balance` counts an
output.

### Wallet and what it implements

`KeychainIndex` holds both indexers: derived positions (a script is the pair of its
descriptor and index), unused ones, outputs of the wallet, and per descriptor the last
revealed index and the script cache. Revealing an index that was never derived is the
panic of the code (`RevealPanics`). `IndexedTxGraph` composes it with `TxGraph`; the order
in which a changeset's transactions are indexed is some fixed one (`Listing`; in the code
that of their bytes), after a reload any. Loops over outputs, transactions and keychains
are folds over sequences (`Fold`), which a proof can follow round by round.

`Wallet` drives both through every public operation, merges what they return into
`stage`, persists it now and then to a merged changeset (what `Store::dump` gives) and to
SQLite tables, and may stop at any time and load either. The database may come from any
older schema. `DurableWallet` is the promise: facts are learned, never forgotten while the
process runs, and after a crash exactly the saved ones are known; of the revealed
addresses at least the saved ones. `ImplementsDurable` is `Durable!DSpec` under the
mapping from graph and index to facts and addresses.

### Chain sources

`ChainNode` is the node (external): its tip moves along its branch or to a longer one,
transactions enter and leave the mempool. A source is a `job`; its every request is a
step of its own, between any two of which the node may change. `SpkSources` has the
common shape of a sync and a full scan: read the tip and the latest blocks, ask for
scripts in batches whose answers come in any order, then txids and outpoints, then
anchors (Electrum: through the caches), then the blocks of `chain_update`. What comes out
is applied to the wallet with `ChainMerge`. Blocking and async Esplora are the same
algorithm. `BlockSources` is the `Emitter` (agreement search, start height, the re-check
of the last block, `mempool_at` with its loop around a moving tip) and `FilterIter` with
its rewind. `calm` is a history variable: what has not changed at the node since the job
began, or since a block source last read from the best chain, which is what the
properties about a still or a growing node need. So are `left` and `returned` of the node:
the blocks that left the best chain, and whether one of them came back.

### CoinDb, MwebCoinDb, MwebSync

Coins keep the two fields that change, `block_height` and `leaf_index`. Keys,
amounts and secrets are never altered after insertion and are left out.
`MwebCoinDb` is parameterised by its backend: merging changesets from the
append-only store (`MergeChangeSets`) or `REPLACE` into a table (`PersistToSqlite`).

`MwebSync` splits `run_once` where it talks to the outside: reading the tip, asking
for the hash at the previous height (`Prepare`), sampling headers, fetching the tip
header and the leafset (`DiffLeafset`), each batch of outputs, and the end of the
pass. Between any two the chain may move and a request may fail; failing requests
that the code ignores (`let Ok(..) else { continue }`) are parameters of the action
that makes them. `saved` is what the caller wrote in its checkpoint callback. The
peer's answers are true, because the anchored verification mode rejects others
(`Lip0006`). They need not be complete: a batch may end early or late, begin behind the leaf
it was asked for, or be empty (`FetchNothing`), and what is passed over is in the history
variable `withheld`. A behaviour starts in one of `Setups`, which say whether the chain
reorganises, how headers are provided, whether requests fail and whether the peer withholds.
There are three ways to provide headers. `live` is a `LiveHeaderProvider`, which answers from
the chain of the moment. A `FixedHeaderProvider` has a map of its own (`hashes`): `set_tip`
overwrites the hash of the new tip's height and keeps all others, also those of an abandoned
branch; a `renewed` one is made anew (`tip_only`) for every tip, perhaps with hashes of
some other heights.

### MwebPeers

One thread: the tip loop, in it a pass, in it `with_failover` over the pool, in it a
connection. Peers are good, busy (drop requests as litecoind's rate limit does), flaky
(connections break), bad (data fails verification), dead, or partial: its answers verify, but
are empty, begin late, or end early or late. A round of requests with the ping behind it is
one step with the set of replies that can arrive, and every batch of it is then one call of
`on_batch` (`OnBatch`); replies left on the socket when a round breaks off are in `unread`.
Leaves that an empty or a late batch passes over are in the history variable `withheld`. The
chain of this module only grows and
its outputs are not spent, so a leaf that is skipped shows; which coins a leaf holds is
the matter of `MwebSync`.

### Pmmr, Lip0006

A hash is the term that was hashed, so equal hashes have equal preimages. `Pmmr` translates
the position arithmetic, the peaks and their bagging and the check of a segment;
`MemMmr`, the tree with all its nodes, is the reference it is compared with. `Lip0006` is
one pass against a source that may serve another output set, change any message in one
place (header, leafset or batch), and send any batch it can prove: an empty one, or one that
begins before or behind the leaf asked for. `withheld` has the leaves that accepted batches
passed over.

## 3. Runs

| run | checks | states |
|---|---|---|
| `LocalChain` | replay, restart, soundness of honest merges, usable hints | 3 444 |
| `MergeLoop` | loop = closed form, promises of a merge, termination | 3 794 |
| `SkipList` | wiring, floor = linear scan, few steps | 122 479 |
| `FileStore` | nothing lost by crashes, readable data stays readable | 50 364 |
| `Canonicalization` | no double spend, reference definition, positions backed by the chain, balance, termination | 122 786 |
| `Wallet` | refinement of `DurableWallet`, SQLite = merged changesets, fresh addresses unpaid, lookahead watched | 119 612 |
| `ChainSources` | updates connect; a quiet or growing run is complete; emitter and filter scan catch up on one branch; mempool and evictions; calls end | 1 279 120 |
| `ElectrumStaleAnchor` | anchors are those of the current block, when a transaction is at one height on two branches | violated |
| `MwebCoinDb` | reload = memory, for SQLite, also when outputs become unspent again | 28 561 |
| `MwebSync` | no coin missed but what the peer withheld; no phantom coin while the chain grows; no coin dated early | 1 379 020 |
| `MwebPeers` | no leaf skipped but by an empty or a late batch, bans deserved, failover finds a good peer, every new tip is synced | 664 418 |
| `MwebVerify` | accepted batches are true and complete, honest ones accepted, an anchored pass is exact but for what was passed over | 169 753 |

**Bounds.** Chains of `LocalChain` and `MergeLoop` have heights 0 to 3 and three
branches that fork at genesis and at height 1: enough for a conflict below, at and
above a gap, for placeholders on both sides, and for an agreement point between
two conflicts; one block lies on no branch. `SkipList` goes to 19 nodes, so that
skips of 16, 8, 4 and their odd companions exist, with four free gaps. `FileStore`
has two changesets of different sizes, the shorter of which can overwrite the
beginning of the longer, and four appends, so that a record can become readable again
behind a failed one and then be overwritten. `Canonicalization` has four transactions in three shapes (a
chain of three against a rival of its first, a transaction that spends both a
transaction and a rival of that one's parent, a coinbase with rival children) and for
each transaction every combination of nothing known, mempool, chain, stale block, and
stale block with eviction, with three lists of assumed transactions; graphs whose chain
would hold a double spend are left out. `MwebCoinDb` has two outputs, two heights and one
leaf, so that coins can share a leaf. `MwebSync` has two branches of three blocks with an
output on both at different leaves, one on one branch only, one spent on both, and one that
is mined and spent on its branch; the tip moves up to three times on the growing chain, so that
a pass can break off between the block that mines an output and the one that spends it, and
up to four times with reorganisations. Its setups are a growing chain with live headers (with
failures, without, with a peer that withholds, and with both), through `set_tip` and
through a renewed provider, and reorganisations with a renewed provider and a window of
three, of one, and of one with a peer that withholds. `Rewind` is 1 instead of 10 so that it can be too short.
`Wallet` has `BIP32_MAX_INDEX` 3 and lookahead 1, so that the end of the indices is
reached, three transactions that pay ahead of the lookahead, two witnesses of one, and
three operations of any kind (`MaxOps`) with persisting and restarts between them.
`ChainSources` has two branches that part above height 1, transactions that are on both at
different heights, one below the fork that only the block sources look for, four starting
wallets (new, of another network, ahead of the server, on the other branch), two changes of
the node and two jobs, so that a job can meet what the one before left behind;
`CHAIN_SUFFIX_LENGTH` is 2 instead of 10, the stop gap 2, batches of 3 scripts. `MwebPeers`
has three peers with every choice of three different behaviours of the six, any of which may
come first, rounds of two requests, two attempts, two throttled rounds, and two tips: with
three leaves, which are one batch of two and another in part, and with four. `MwebVerify`
has every set of unspent leaves of up to three outputs and some of four, five, seven and
nine, so that there are several mountains and a second leafset byte; batches of two and
four, at most four buffered outputs.

**Deadlock** is checked unless the system stops by itself: `MergeLoop` and `MwebVerify`
return, `Wallet` reaches the bound on operations or a panic, `ChainSources` the bounds on
jobs and changes, `MwebPeers` is told to stop.

**Fairness.** `MergeLoop` and `Canonicalization` are loops in function calls: weak
fairness of the loop's steps is the assumption that a running thread runs on. In
`ChainSources` weak fairness is given to the RPCs of a call of the emitter or the filter
scan, which return a value or an error; nobody has to call
again, and the node need not rest: `CallsEnd` holds because its changes are bounded, which
stands for a chain that does not reorganise for ever. In `MwebPeers` the loop is one
thread, `WF_vars(Step)`; blocks, the end of a ban and the application are under no
fairness. No other specification has fairness.

### The violated property

`ElectrumStaleAnchor`: `batch_fetch_anchors` takes the hash of a height from its header
cache, which may be stale, and then finds the anchor of (txid, stale hash) in its anchor
cache; the proof and the retry that would notice are only made for anchors that are not
cached. When a reorganisation moves a transaction to another block of the same height, the
old anchor is returned again. In `ChainSources` the transactions that are on both branches
are at different heights there, and the properties leave out what `Reliable` excludes.

### Observations

The restrictions under which the passing runs hold are there for a reason. Each of the
following is a behaviour of the code met while modelling it; those in the first group show
up in TLC when the restriction named is lifted.

* `LocalChain`, header data and updates that share nodes with the chain (`MayShare` with
  `Linked` not empty): `merge_chains` returns the update's tip as soon as both iterators
  stand on the same node. Heights below may have matched a placeholder only, so the chain
  holds or lacks blocks that the returned changeset does not mention (`ReplayMatches`).
* `MwebCoinDb`, append-only store with `MayUnspend`: `insert` makes a spent output unspent,
  but the merge of stored changesets lets the earlier `spent` win, so the coin reloads as
  spent. SQLite's `REPLACE` keeps it unspent (`ReloadMatches`).
* `MwebSync` with reorganisations and `NoPhantomCoin`: the purge after a full download asks
  only whether the coin's old leaf is set in the new leafset. When the new branch has
  another output at that leaf, the orphaned coin stays unspent and is dated again.
* `MwebSync` on a growing chain with failures and `NoPhantomCoin`: a differential pass that
  breaks off keeps the outputs it fetched, and the old leafset as the baseline. An output
  that is spent before the next attempt is then in neither leafset, so the difference does
  not remove it, and only a full download purges: the spent coin stays unspent for good.
  `NoPhantomCoinOnGrowingChain` therefore speaks of full downloads and of passes
  none of which broke off before.
* `MwebSync` with `set_tip` and reorganisations (`provider |-> "set_tip"` with forks): after a
  pass at height 2 of one branch and `set_tip` to height 3 of the other, `block_hash_at(2)`
  still gives the abandoned hash, because `set_tip` "keeps prior fine-window hashes"
  (`mweb_sync.rs:317`). The previous tip counts as extended, the leafset stays, and the
  outputs of the new branch at known leaves are never fetched (`NoCoinMissed`); the header
  samples of the old branch stay too, and coins are dated by them (`NeverDatedEarly`). The
  comment of the check says that the leafset is kept for a "previous synced tip still on the
  current chain at its height" (`mweb_sync.rs:787-791`). `ReorgsAreCalm` therefore asks
  for a renewed provider where the chain reorganises.
* `MwebSync`, `MwebPeers`: an empty batch is accepted without a proof (`pmmr.rs:464-466`). In the
  sequential download it moves the position one leaf on, also when that leaf is unspent
  (`mweb_sync.rs:1066-1071`). In the pipelined one its start is not compared with the position,
  and the comment "A mid-schedule gap desynchronizes and errors on the next batch"
  (`mweb_sync.rs:941-942`) does not save the leaf: the error only ends the pipeline, and the
  sequential download goes on behind it. A batch that begins behind the leaf asked for passes
  `check_batch_advances` as well. The pass then stores the whole leafset as known, and what was
  passed over is not asked for again before the next full download. This is the exception
  in `NoCoinMissed` and `NoLeafSkipped` (`withheld`); without it both fail.
* `MwebSync` with live headers and reorganisations: `headers.tip()` and
  `headers.block_hash_at()` may see different chains. If the chain leaves the branch
  of the previous tip before the first and is back before the second, another
  branch passes for an extension and its outputs at known leaves are not fetched.
* `MwebSync` with failures and reorganisations: a first download that was cut off
  leaves no `tip_hash`, a reorganisation goes unnoticed and the download resumes
  behind leaves of the other branch (`NoCoinMissed`).
* `MwebSync` with live headers and `NeverDatedEarly`: `sample_fine_headers` asks for
  the tip a second time and stores the size of a newer block under the older
  height; if the pass then fails, nothing corrects it. With a reorganisation deeper than
  the window the sizes kept below it are those of the other branch (`ReorgsAreShallow`).
* `Canonicalization`: a coinbase whose block left the chain is refused when its own turn
  comes, but not when it is met as an ancestor of a mempool transaction. The view then has an
  unconfirmed coinbase, for which `is_mature` has a debug assertion.
* `Canonicalization`: an assumed transaction without an anchor stays unconfirmed although a
  canonical child is anchored, because `CanonicalViewTask::new` asks about transitive and
  assumed transactions only and `finish` looks the child up in those answers.
  With a reorganisation between the tasks, positions taken over from the first stay
  confirmed in blocks that left the chain. Both are excepted in `PositionsAreBacked`.
* `MergeLoop` promises nothing for updates on no single branch: those can end in the
  arm of `finish` that panics in debug builds.
* `FileStore` after an append that returned an error: the offset is behind the
  partial record, and what is appended then cannot be read (`~failed` in
  `NothingLostByCrashes`). Writes truncate nothing: after a `dump`, which leaves the offset
  where reading ended, an append of the same length as the partial record makes the records
  behind it readable again, and the next append overwrites them. What is readable behind
  the offset of an open `Store` may therefore be lost, and `ReadableStaysReadable` speaks of
  what lies before the offset, and of everything while no `Store` is open.
* Esplora and Electrum with a server that is behind the wallet: when the server's tip lies in a
  gap of the wallet's chain, the update cannot connect, since nothing says whether the block
  above the gap follows it, and `apply_update` refuses it until the server has caught up
  (an exception in `UpdatesConnect`; it shows with a wallet that has the first and the third
  block only, which the run leaves out).
* `Emitter` over a chain with gaps: after a reorganisation it emits the blocks of the gap
  below the agreement before the one that invalidates a checkpoint, and `apply_update`
  refuses the first of them (the exception in `UpdatesConnect`).
* `Emitter` with a start height above its last block: `poll_once` asks for the hash at the
  start height before it looks at the last block again. If the best chain is on another
  branch at the first call, back on the last block's at the second, and on the other again
  when the new block is asked for, nothing is noticed, and
  the checkpoint it emits joins blocks of two branches, although `BlockEvent::checkpoint`
  calls them "guaranteed to be of the same chain" (`bitcoind_rpc/src/lib.rs:292`). It takes
  three changes of the tip and branches up to height 6, more than the run allows; the
  attempt to prove `EmitterKeepsOneBranch` found it. That property and `CaughtUpIsExact`
  leave out behaviours in which a block came back (`~node.returned`).
* `Lip0006`: an empty batch ends the download, one that begins late moves past the outputs
  before it, and every coin that was not fetched is marked spent, although `SyncResult::spent`
  is documented as coins whose id "was absent from the UTXO set" (`lip0006.rs:176`). In the
  trusted mode `verify_parent_hashes_present` refuses an honest batch that is the whole
  output set (the exceptions in `AnchoredPassIsExact` and `HonestIsAccepted`).
* `FilterIter` over a sparse list of checkpoints, as `examples/filter_iter.rs` has one: when the
  blocks above a gap were reorganised away, `insert` (`bip158.rs:129`) puts the scanned block
  into the gap and keeps the stale tip, as nothing links the two. `Event::height()`, "the
  height of the event" (`bip158.rs:88-91`), is then the stale tip's height, and the block's
  transactions are anchored there, at a height that is not their block's. If the stale branch
  becomes the best one again during such a scan, the list ends with blocks of both branches.
  `CaughtUpIsExact` excepts the heights of the gap directly above the agreement, and for the
  second case asks that no block left the best chain or that the list has no such gap.

Of the sources:

* The emitter's cached `nextblockhash` is `None` when it was read at the tip, so one
  `next_block` after a new block may say that there is none; the next call sees it. A start
  height above the tip is an error, and one that skips blocks makes the transactions
  of the skipped blocks look evicted. A transaction seen in the mempool, confirmed in an emitted
  block, reorganised out and dropped is never reported as evicted.
* A job of Esplora or Electrum that is reorganised in the middle may mix branches; the
  properties ask for a wallet on one branch (`OneBranch`). An anchor in a stale block keeps
  a transaction in the graph's claims. A transaction missing from one script's answer counts as
  evicted although another script's answer may have it.
* Electrum drops an outpoint whose transaction it cannot fetch (`lost`). Esplora may
  record a spender's sighting without the transaction. At the stop gap Electrum stops
  inside a batch, Esplora finishes it.

Of the wallet:

* SQLite overwrites `first_seen`, and no reload reads it: afterwards it is `last_seen`.
  Of two witnesses the row keeps the last in byte order, memory the preferred one.
* `IndexedTxGraph::apply_changeset` drops what indexing the graph reveals; loading by
  `from_changeset` returns it. What a batch reveals depends on its order when a payment is
  beyond the lookahead. Marks set by `mark_used` are not persisted.
* `BIP32_MAX_INDEX` is never derived; revealing it panics.

Of the peers: `PollingTipNotifier` notices only a higher tip, not a reorganisation to the
same height; replies of a pipelined download that come out of order make the pass fall back
to sequential requests; leafset bytes behind `output_mmr_size` need not be zero.

## 4. Proofs

All theorems hold for every value of the constants that satisfies the named
assumptions of the modules.

* `LocalChainProofs`, assuming `NoSharedHeaders` (hash data, or updates that share no
  node): `TypeOK`, `ReplayMatches`, `RestartLoads`, `ChainWellFormed`,
  `NoUnresolvedMismatch`, `MergeSound`, `SuggestionIsNew`. The inductive invariant
  adds to the types and the well-formed chain that merging `persisted` and `stage`
  gives each height the block of the chain (`RecordedIsChain`), and that what is
  written loads (`WrittenLoads`); `ReplayMatches` alone does not say what the merge
  of two partial maps is. The last three theorems are facts about `ChainMerge` and
  any well-formed chain: the module's first lemmas show that an honest update has a
  greatest agreement point, that nothing survives above it off the branch, and that
  every link of the result is a link of the branch or of the chain below.
* `LocalChainProofs`, on `SkipList`: `SkipsWired`, `NeverOvershoots`, `FloorIsLinearScan`, for lists of
  any length and any gaps. The invariant needs all of them at once: a walk is right
  because the skips are wired, and they are wired because the walk that found them
  was right. What it uses of `skip_index` is only that it is below its argument.
* `LocalChainProofs`, on `CheckPointList`: the list stays a linked list (`LinksHold`), keeps its genesis block
  (`GenesisStays`), and an insert on its own branch removes nothing (`InsertKeepsBranch`).
  Inductive is the type together with the links: what `insert` rebuilds above the new block
  is linked because the list was.
* `LocalChainProofs`, on `MergeLoop`, assuming that the cursor's end is no height (`LoopAssumption`):
  `LoopComputesMerge` and `LoopKeepsPromises`, for every block tree and chain length. A
  height is passed when both cursors are below it; `LoopInv` says that the flags, the
  pending heights and the changeset are those of the heights passed so far, and that
  the shortcut is only taken where both lists share their nodes. At the end this is
  the closed form of `ChainMerge`, and the promises follow from its theorems.
* `FileStoreProofs`: `NothingLostByCrashes` and `ReadableStaysReadable`, for changesets of any
  size and any number of appends (`FileStoreAssumption`: a changeset takes at least one
  cell, and what misaligned bytes decode to is none of those written). The invariant adds
  where the offset is (`Placed`), that an error not handled yet holds what the file gives
  (`DumpHolds`), and, as long as no append failed, that an open `Store` stands at the end
  of a readable file, and a file left by a crash ends in whole records or in the beginning
  of one (`Sound`): it is from this last form that the recovery starts. The lemmas say where
  reading ends after a record, or a part of one, was written at an offset.
* `CanonicalizationProofs`: `NoDoubleSpend`, `PositionsAreBacked`, `BalanceAddsUp`, and
  the action property `SettledForGood`: apart from what the call under way has itself
  staged or pruned, nothing decided is ever taken back. The inductive invariant has
  three parts.
  - `MarkInv`: the conflicts of what is canonical are out, and the parents are in or
    waiting. Inside a walk a staged transaction may already have been pruned, so
    `NoDoubleSpend` does not hold step by step; the invariant says that then a pruned
    ancestor still waits in the queue (`ClashesAwaited`), where the walk finds it.
  - `TraceInv`: what a reason says of its transaction and descendant, that what is out
    is out with all its descendants, and what the local variables of the call hold.
  - `StageInv`: which kinds of reason a stage can have given, that every transaction
    mined in the chain is decided once it left the queue, and what the second task has
    checked so far. A transaction with an anchor in the chain is never refused for a
    weaker one, because the history of a chain conflicts with itself nowhere.

  Assumed of the inputs (`SetupAssumption`): the indices of the graph are those of its
  transactions and anchors, the transactions anchored in a chain and their ancestors
  contain no double spend, which every valid chain guarantees, and a chain that still
  has a block still has the blocks below it, as `LocalChain` removes blocks from a
  height upwards. `NoneAssumption` keeps the absent value apart from transactions,
  blocks, reasons and calls; `MaturityAssumption` makes the maturity a number.
* `WalletProofs`: `EncodingsAgree`, `FreshAddressUnpaid`, `LookaheadWatched`, and that the
  wallet implements `DurableWallet` (`ImplementsDurable`), for every set of transactions,
  keychains, updates and batches, every lookahead and any number of operations. A digest is
  what a changeset says or a graph holds, up to witnesses and first sightings: sets of ids,
  outputs and anchors, and latest times. Merging changesets joins their digests
  (`MergeChangeSets` is a least upper bound there). The invariant `IInv` has two parts.
  - `StoresAgree`: the merged changesets and the SQLite tables are well-formed, have the same
    digest and the same index part, and every migration has run as often as the version says.
  - `MemoryAgrees`, while the wallet is open: what the graph holds is the join of what is
    stored and what is staged; a time or a last revealed index in the stage is the one in
    memory, which is why overwriting a row loses nothing; and the index is sound
    (`IndexInv`): no descriptor has two keychains, derived scripts have no gaps and reach as
    far as the lookahead, a paid position is derived, used and revealed.

  Each operation *advances* the wallet (`Advances`): the graph afterwards holds what it held
  joined with what the changeset says, and the index is sound and has nothing revealed that
  the changeset does not report. This is shown for the single insertions and for indexing one
  output, and carried through the loops by `InductionUpTo`. In the refinement an operation and
  a panic are `Learn`, persisting is `Save`, opening and restarting are `Crash`.

  Assumed: an id commits to all of its transaction but the witnesses, so that two versions
  differ only there and a floating output is the one its transaction has (`TxAssumption`);
  sources send transactions under their ids (`InputAssumption`); the application gives
  different keychains different descriptors (`KeychainAssumption`); derived scripts are no
  bridge scripts (`IndexAssumption`); blocks and times have numbers (`GraphAssumption`).
* `ChainSourcesProofs`, on the emitter: `EmitterKeepsOneBranch`, `MempoolIsMirrored` and the
  action property `EvictionsAreReal`, for every tree of blocks, start of the node and of the
  wallet, start height, and any number of changes of the node and of sources put to work.
  The inductive invariant has three parts.
  - `LeftIsGone`: no block counts both as on the best chain and as having left it.
  - `EmitterFollows`: the last block is the end of the checkpoints and was read when it was
    on the best chain, so it is there still or has left; what is to follow lies above it on
    a branch. Before the second look at the last block the hash at the start height need
    not, but then the last block has left, and the look tells (`OnOneBranch`).
  - `MempoolTracked`: every unconfirmed transaction that the wallet counts is in the
    emitter's snapshot, and what a call of `mempool_at` has read is still so if the node's
    pool and tip did not change. An eviction is then one the snapshot justifies.

  Of the other sources the proof needs only that they leave the wallet its first block.
  Assumed: a branch has a block at every height below its tip (`BranchAssumption`), a block
  commits to its height (`OneHeightAssumption`), the node starts on a branch
  (`NodeAssumption`), every wallet has a first block and start heights
  are numbers (`SourcesAssumption`).
* `MwebSyncProofs`, on `MwebCoinDb`: `NeverOnBothSides` and `ReloadMatches`, for SQLite, and for the
  append-only store when no spent output is inserted again (`SpendsAreFinal`). The
  invariant says output by output what a reload yields, and that nothing staged
  un-spends what is stored.
* `MwebSyncProofs`: `NoCoinMissed`, `NoPhantomCoinOnGrowingChain` and `NeverDatedEarly`, for
  every tree of blocks, window and batches of any length. `FetchInv` says what the sync state stands
  for: the leafset is that of the last tip and what is in it was fetched or withheld
  (`Progress`), the cursor covers everything below it in the same sense, both also in what the caller saved, and up to what was
  spent since a pass that broke off; a pass works on the branch of the last tip unless it
  has dropped the leafset (`Rooted`). `NoCoinMissed` alone only speaks of finished passes and
  is nothing to continue from. `GrowthHolds` adds that every unspent coin was created on the
  chain, at its leaf, and which leaves can be too many; `DatingHolds` that the height map
  has the sizes of one branch. What a fixed provider knows is on the branch of its tip
  (`HashesHold`): while the chain grows `set_tip` keeps it so, after a reorganisation
  only a renewed provider does. Assumed: reorganisations happen
  only where a fixed provider is renewed and passes do not fail (`ReorgsAreCalm`; the
  observations say what happens otherwise, with `set_tip` among them), for
  `NeverDatedEarly` also that none is deeper than the window (`[]ReorgsAreShallow`);
  and of the chain that its PMMR only grows, spent outputs stay spent and unspent ids are
  distinct (`ChainAssumption`). The run checks `ReorgsAreCalm` of its setups.
* `MwebPeersProofs`: `NoLeafSkipped`, `BansAreDeserved` and `FailoverFindsGoodPeer`, for every
  pool, behaviour of the peers, chain, batch size and burst. `PeersInv` joins three arguments.
  - The leaves: a batch is taken only at the position, so what is below the new one was
    scanned or passed over (`ScanCovers`, `PassOverCovers`), whatever was dropped from the round;
    and only a partial peer can pass anything over (`DeliveryHolds`: the batches that wait for
    `on_batch` are whole ones unless the peer is partial).
  - The bans: a protocol error needs replies left over from a round before (`FreshIsSound`),
    and those exist only on the connection of a peer whose connections break (`BansHold`).
  - The failover: counting back from `next`, none of the addresses passed in this call always
    serves (`FailoverHolds`), and every attempt passes at least one. An attempt that ends for
    another reason than a local error moved past an address that does not always serve, so
    after as many attempts as the pool has addresses every one of them was met
    (`EveryAddressIsBefore`).

  Assumed (`PeersAssumption`): a batch has at least one leaf, the chain a block, and there are
  no leaves before the first block.

Only model-checked:

* termination, `CallsEnd` and `NewTipIsSynced`: liveness under fairness is out of the
  prover's reach, as is `ENABLED`;
* the properties of `Lip0006`: the tree of `Pmmr` is a recursive operator, and what it
  computes needs induction over its structure. Where a proof above follows a loop, the
  induction is over the number of rounds and goes through the set of rounds at which the
  claim holds (`NatFacts`), because the provers cannot instantiate a theorem with an
  operator parameter;
* `StepsAreFew`, which is a statement about the number of digits of `skip_index`;
* `DecidedByPrecedence`, which compares the result of a whole run with another order of
  deciding;
* of `ChainSources`, `UpdatesConnect`, `QuietRunIsExact`, `GrowingRunMissesNothing` and
  `CaughtUpIsExact`: they compare the result of a whole run with what the node was
  when it was asked, and a scan is a fold over batches of answers whose effect on the
  wallet needs induction over the data. Their counterparts in a single call of the emitter
  are proved.

## 5. Not modelled

* Cryptography, key derivation, encryption, transaction building: pure functions whose values
  have no small instance.
* Wire formats, column encodings and the tables of `local_chain` in `rusqlite_impl.rs`.
* In the sources: floating previous outputs (`insert_prevouts`, `fetch_prev_txout`), the
  pages of a long history, broadcasting, progress callbacks.
* In the MWEB sync: coarse header sampling and the optional rangeproof check of owned
  outputs.
* Power loss below the file system: the code never calls `fsync`, and what a file system then
  keeps is outside the repository. A backup file left by an interrupted recovery makes the
  documented recovery panic, but that code is an example in a comment.
* Test environment, examples, nursery and vendored code.
