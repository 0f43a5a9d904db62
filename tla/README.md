# A TLA+ verification of metashrew

metashrew indexes Bitcoin: a WASM program turns each block into key/value
updates, and the framework stores them in RocksDB so that every key can be read
as of any height, follows the node through reorganisations, and survives being
killed at any moment. This directory models the parts of it that are hard to
test, checks them with TLC on small instances and proves with TLAPS, for every
value of the constants, the safety of the store, of the sync engine over it, of
the task pipelines, of the snapshot loop and what is rebuilt from its snapshots,
of block execution, of views and of the node client.

## The system

| part | state | operations | source | module |
|---|---|---|---|---|
| **Index store** | per key an append-only list of `height:value` slots and its length; per height a hash record, a root record and a manifest of the keys updated; two height pointers (`__INTERNAL/height`, `/__INTERNAL/tip-height`) | build a block's batch, `commit_atomic`, `rollback_to_height` (two paths), `heal_pointers_atomic`, `get_at_height` | `metashrew-runtime/src/{smt,rollback,runtime}.rs`, `rockshrew-runtime/src/storage_adapter.rs` | `IndexStore` |
| **Sync engine** | `current_height`, the reorg walk, retries | `init` with the startup heal, `get_next_block_data_with_floor`, `handle_reorg`, `validate_block_connects`, `process_block` | `metashrew-sync/src/{sync,snapshot_sync}.rs` | `SyncEngine` |
| **rockshrew-mono pipeline** | prefetch channel, `last_sent_height`, result channel | fetcher, processor and result tasks | `rockshrew-mono/src/lib.rs` | `Pipeline` |
| **Library pipeline** | `processing_heights`, two channels | `run_pipeline`, `ProcessingClone` | `metashrew-sync/src/sync.rs` | `LibPipeline` |
| **Snapshot loop, snapshots** | tracked changes, interval index, diffs, a rebuilding host's position | `run_snapshot_sync_loop`, `process_next_block`, `create_snapshot`, `sync_from_repo`, snapshot import | `metashrew-sync/src/{snapshot_sync,snapshot}.rs`, `rockshrew-mono/src/snapshot*.rs` | `SnapshotLoop` |
| **Views and RPC** | permits, cancellation tokens, timers, preview copies | `handle_jsonrpc`, `ViewLimiter`, `view`, `preview`, `create_isolated_copy` | `rockshrew-mono/src/lib.rs`, `metashrew-runtime/src/{runtime,view_limits}.rs`, `rockshrew-runtime/src/{adapter,fork_adapter}.rs` | `ViewServer` |
| **WASM host and guest library** | pending batch slot, context, guest memory (cache, flush queue, checkpoints) | `process_block_atomic`, `__flush`, `__get`, `refresh_memory`; `get`, `set`, `flush`, `AtomicPointer` | `metashrew-runtime/src/runtime.rs`, `metashrew-core/src/{lib,index_pointer}.rs` | `BlockRunner`, `GuestMemory` |
| **Sparse Merkle tree** | nodes, roots, lists | five ways to compute a root, leaf lookup, rollback | `metashrew-runtime/src/smt.rs` | `SparseMerkle` |
| **Bitcoin RPC client** | SSH tunnel, cookie cache, retries | `get_block_info`, `request_with_retry`, `SshTunnel::create`, `AuthCache` | `rockshrew-mono/src/{adapters,ssh_tunnel}.rs` | `NodeClient` |
| **Validator, test adapters, p2p, tools** | | | `metashrew-validator-core`, `memshrew-*`, `rockshrew-diff` | not modelled |

They meet in few places. The engine calls the runtime (no lock held), then
commits under the storage write lock; a rollback holds the same lock for all its
writes, so commits and rollbacks exclude each other while *executing* a block
overlaps with both. The fetcher and the engine share `current_height`; the
fetcher and the result task share `last_sent_height`. Views read the database
without any lock. Everything asks the same Bitcoin node, one height per call,
and the node may change its mind between two calls.

What is hard:

* one block is one RocksDB batch, but **a rollback is many** and a crash or a
  failing write may fall between any two; the height pointer moves last;
* a batch is built on list lengths read **before** the lock is taken;
* the full-scan rollback leaves hash records and manifests of abandoned blocks
  behind, and later decisions read them;
* the node can **reorganise, shrink, or stop answering** inside the reorg walk,
  between walk, fetch and commit, and inside the startup heal;
* the fetch watermark, `current_height` and the stored height are three cursors
  that three tasks move, with stale copies held across awaits;
* one failed attempt at a block must leave **nothing** behind in the guest's
  memory, the batch slot or the completion state;
* a request's handler, worker, timer and client end in any order, and each may
  hold a permit or a running module;
* height 0 means both "nothing indexed" and "block 0 indexed".

`PROJECT.json` lists each hazard at its line with the properties that catch it.

## Modules

`Chain` (blocks, heights, parents, what a block updates) is below everything
that has a chain. `IndexStore` is the store write by write; `StoreReader` extends
it with a historical lookup that reads get by get, `SyncEngine` with the engine
and the node. `ListSearch` is the binary search of such a lookup, one probe at a
time, for `StoreReader` and `ViewServer`. `Ledger` is the store as the tasks see it, with
commit and rollback as one step each, plus the node; `Pipeline`, `LibPipeline`
and `SnapshotLoop` extend it. `ViewServer`, `BlockRunner` (over `GuestMemory`),
`SparseMerkle` and `NodeClient` stand alone. `ChainLog` is the abstract store.
The proofs are in modules of their own: `ChainProofs` has the lemmas of `Chain`,
`IndexStoreProofs` the store and its reader, `SyncEngineProofs` the engine over
them, `LoopProofs` the two drivers that check no block's parent, `SnapshotLoop`
and `LibPipeline`; and
`PipelineProofs`, `BlockRunnerProofs`, `ViewServerProofs` and `NodeClientProofs`
have one component each. Each `MC` module gives TLC a chain,
programs or keys; its `.cfg` gives the constants.

### Chain

A block is an opaque value with a height and a parent; its hash is its identity.
The guest is deterministic, so `Updates[b][k]`, the number of times block `b`
updates key `k`, is a function of the block. A stored slot `"height:value"` is
the record `[h, b, n]`: update number `n` of block `b`. That is all the
properties need to tell apart a right value, a value of another branch, a
repeated one and a missing one.

### IndexStore

| variable | in the database |
|---|---|
| `indexed`, `tip` | `__INTERNAL/height`, `/__INTERNAL/tip-height` |
| `hash[h]` | `/__INTERNAL/height-to-hash/{h}` |
| `roots` | heights with an `smt:root:{h}` record |
| `hist[k]` | `key/0 .. key/(length-1)` and `key/length` |
| `manifest[h]` | the per-height key manifest; `{}` when missing |
| `op` | the rollback that holds the storage lock: which path, its target, how far it got |
| `staged` | the executed block whose batch is still in memory, with the list lengths it read |
| `intact` | history variable: no rollback below this height was ever started and cut off |
| `doubt` | history variable: a batch is in memory (`"staged"`), or was committed (`"committed"`), that was there when a write of a rollback failed |

`RunBlock` is `process_block_atomic` together with `__flush`; `CommitAtomic` and
`CommitRejected` are the two outcomes of `commit_atomic`. `BeginRollback` chooses
the path as `rollback_with_manifests` does; `ManifestBatch` is one of its
per-height batches, `ScanMetadata` and `ScanKey` the batches of
`rollback_smt_data` (in any order of the keys; the code sorts them), and
`SetIndexedHeight` the last write. `Heal` and `HealPointers` are
`heal_pointers_atomic`. `Crash` forgets `op` and `staged` and nothing else.
`RollbackWriteFails` is an error of any write of a rollback with the process
alive (rollback.rs:211 and 331, storage_adapter.rs:166-175): what was written
stays, the indexed height too, the lock is released, and a block that was
executing without the lock keeps its batch.

That batch is the one thing the in-order check does not refuse: its height is
still the next one, but its list lengths are of before the rollback, so its
slots land above a gap. `StaleBatchRejected` names this exception, and once such
a batch is committed (`~Undamaged`) the properties of the lists claim nothing.
`SyncEngine` has one block in flight and never gets there (`EngineNeverInDoubt`);
in the daemon the fetcher's rollback and the processor's execution do overlap.

### StoreReader

A lookup at a height (`SMTHelper::get_at_height`) takes no lock and no snapshot:
`BeginLookup` reads the list's length, each `ProbeSlot` one slot, and between two
of them the store takes any steps (`StoreMoves`). A slot that a rollback has
removed meanwhile ends the lookup with "Missing update at index". Two history
variables: `safe`, whether the height was never above `intact` while the lookup
ran, and `cut`, whether its list has become shorter since it began.

The specification lets the environment execute any block above the tip (or the
start block again), roll back to any height from `RollbackFloor` to the tip, heal
and crash at any time. It is an abstract contract for callers: `SyncEngine` is
checked, and proved, to be one of them.

A detail the model keeps: the scan does not delete hash records or manifests. A
block without updates writes no manifest, so one such block in the range sends
the rollback down the slow path.

`ChainLog` is what the store promises: a chain that begins with the start block,
grows by the next block, and is cut by a rollback in one step. The refinement
mapping (`LogChain`) takes the recorded blocks from the start block to `intact`:
a rollback cuts the abstract chain when it *begins*, because from its first
write on nothing above the target can be relied on, and an interrupted one stays
cut.

### SyncEngine

The engine of `rockshrew-mono` with one block in flight: a round is the reorg
walk near the tip, the fetch, the processing, and the result handler.

| phase | code |
|---|---|
| `down` | no process |
| `heal`, `healing` | `heal_pointer_divergence_at_startup`: the walk; the writes |
| `next` | the top of the fetcher loop |
| `reorg`, `undo` | `handle_reorg`: the walk; the rollback |
| `fetch` | after the reorg check, before `get_block_info` |
| `apply` | `process_block` |

`walk.rewind` tells the two callers of `handle_reorg` apart: the fetcher stores
the result as `current_height`, the result task resets `last_sent_height`. One
query of the node is one step, so the node may move between any two.

Environment: `NodeGrows` is free; a change of branch, an unanswered query, a
failed attempt, a failed rollback write and a kill each use up one of
`MaxFaults`. Switches say which of them a run includes (`Shrink`: the new branch
may be shorter; `FlipBack`: the node may return to a branch it left;
`WriteFaults`; `FirstBlockFails`; `MovePhases`: where the node may reorganise).

Simplifications. The height of the node's tip is read when the block is fetched
rather than before the walk; an earlier, smaller answer only ends the round
without a block. The continuity check compares hashes; re-hashing the header is
left out because `get_block_info` verifies it too (`NodeClient`). The heal's
reads of the database do not fail. The staleness guard of `process_block` cannot
apply with a single block in flight; it is a step of `Pipeline`.

### Ledger, Pipeline

`Ledger` has the node's best chain and an index of two variables. Here
`handle_reorg` is two steps, the walk and the rollback, between which the other
tasks run; a commit is one. `Pipeline` is `run` of `rockshrew-mono`: one action
is what a task does between two awaits.

| variable | code |
|---|---|
| `current`, `sent` | `current_height`, `last_sent_height` (`Unset` = `LAST_SENT_UNSET`) |
| `blocks`, `results` | the two bounded channels |
| `fet.pc` | the fetcher: head of the loop, tip query, near-tip path with its reorg check, batch of concurrent fetches, send, mark |
| `prc.pc` | the processor: receive, staleness guard and continuity check, commit, report |
| `rst.pc`, `count` | the result task: count against `--exit-at`, or the reorg handler |

The near-tip path (`NearLoad`, `NearStore`, `NearPick`) is
`get_next_block_data_with_floor`, whose load and store of `current_height` stand
on both sides of a walk: the stale store is a step of the model. `FetchStart` is
`compute_next_fetch_range` together with its near-tip companions.

### LibPipeline

`MetashrewSync::run_pipeline`: the fetcher asks for `current_height` unless the
height is in `processing_heights`, the processor retries a failing block for
ever, the result loop removes the mark and moves `currentHeight` (the code's
`current_height`). The node reorganises at any moment, and two history variables
note what the code has no answer to:

* `crossedBlocks`: blocks that were asked for after a reorganisation that came
  after the look back (`LibTip` to `LibGet`). Nothing looks at such a block's
  parent, so it may be indexed over the wrong one for good.
* `overtaken`: a rollback was begun with a block or a result in flight. The
  result loop may then store a height that was rolled back, which puts the cursor
  ahead of the index for ever, or the processor may hold a block that is refused
  for ever.

The processor of this path checks no continuity and has no last attempt, so a
block that the store refuses keeps it for ever; `LibNeverStuck` says that it has
none, and `LibCatchesUp` says "unless" for it. It may get one from a branch that
was abandoned while the block was in the channel, but also next to a node that
only grows: the fetcher loads `current_height`, that block is committed, the
result loop moves `current_height` on and takes the mark away
(sync.rs:954-957), and then the fetcher looks for the mark (sync.rs:884-885) and
fetches the same height again.

### SnapshotLoop

`driver` is who drives the blocks: the loop with its own height, callers of
`process_next_block`, or the loop in `SyncMode::Repo`, which first tries to
import a snapshot (`ApplySnapshot`: the code's three puts as one step, so a
restart between two of them is left out). After each block the snapshot manager
tracks what changed, and at an interval's end writes a diff. `TrackKey` is
`track_key_change`, once per key in any order: at the limit (`Full`) everything
is dropped before the key goes in, in the middle of a block and also when the
key is tracked already. `RunBlock` begins with `set_current_height`, which at
every `CheckInterval`-th height may drop everything for its size in memory (the
bytes are not modelled: it may or may not). `con` is another host that runs
`sync_from_repo`: it downloads the applicable intervals (`con.todo`: their
positions in `index.json`), applies them one after the other, skips a partial or
missing one, and may be killed and restarted.
`lossy`, `gap` and `jumped` are history variables for what the code knowingly
gives up: changes dropped, an interval missing, a height that came from a
snapshot.

At this commit nothing in the repository calls `set_snapshot_manager`,
`set_kv_tracker`, `track_key_change` or `set_current_height`: a daemon as it is
built writes empty diffs (snapshot_adapters.rs:96 and 137). The tracker is
modelled as its comments say it is called, `set_current_height` before each block
and `track_key_change` while the block is executed.

A block's data and its hash are two calls (`GetData`, `GetHash`), and the node
reorganises at any moment. `body` is the block that was executed at a height,
`hash` the one recorded, and `crossed` the heights for which the node
reorganised between the look back and the second call: what is recorded there
may be another block than the one executed, or not on its parent, and it stays,
because the next walk stops at the agreeing record above it.

### ViewServer

A request has a handler future (`front`) and a spawned worker (`work`). The
handler races the worker with a timer, and its drop guard cancels the token when
the client leaves; the worker races the method with the token, and is dropped at
a yield with whatever it holds. Only a view yields inside its module
(`fuel_async_yield_interval`, runtime.rs:928-930); a preview's block and its view
run on engines without an interval (runtime.rs:698-782), so that once in its
module it cannot be cancelled and keeps worker and permit until it returns
(`NeverYields`), if it does.

Views and previews pass the memory floor (the host's figure is the
environment's), take a permit or time out, resolve their height under the
engine's lock and then read two keys, the first twice (`__get_len`, then
`__get`), while `IndexerStep` commits and rolls back below them. Each reading is
a search of its own, and each get of the search a step (`ReadLength`,
`ReadSlot`); a slot that is gone makes it an error, which the guest sees as an
empty value. `first` and `disk` are the slot lists of the two keys.

`Forked` is `--fork`: a `RocksDBRuntimeAdapter` makes previews a copy with a map
of its own for writes (`IsolatedCopy`), a `ForkAdapter` inherits the trait's
default, a clone. `SlotsSeen` is what a handle reads: its shadow, then the live
database.

### BlockRunner, GuestMemory

A block is a sequence of calls of the guest library: direct additions (`get`,
then `set`), additions through an `AtomicPointer`, checkpoint, commit, rollback,
flush. `GuestMemory` has the operators over one guest memory; `BlockRunner` has
`process_block_atomic`: arm the slot, run the calls, take the batch, refresh the
memory, hand the batch to `commit_atomic`. The guest may trap or fail between any
two calls, the refresh may fail, the commit may be refused, and a rollback may
change the height under a running block. `spoiled` marks that a refresh was
missed and the next attempt ran on an old memory.

`Disciplined` says what blocks the module is for, and `RunnerAssumption` asks it
of every program: it ends with its one flush (`main!` puts it there,
macros.rs:56), adds to a key either directly or through the atomic pointer, and
rolls back only what it has checkpointed. A pointer's commit writes values it
computed from what it read before, so a direct addition in between is lost by
design; a rollback of the last checkpoint leaves the pointer nothing to write to
and panics.

### SparseMerkle

A hash is the node it is taken of. The operators follow the source's functions
(`update_smt_for_key` and its batched and caching versions,
`compute_incremental_smt_root`, `compute_minimal_smt_root`, `compute_new_root`,
`get_smt_leaf`, `create_separating_internals*`, rollback), and `Canonical` is the
reference: the tree of a set of leaves, split by bits.

Three constants keep the run to what the code does right, and each switched shows
a counterexample of `RootCanonical` or `LeavesFound`: `CachedOverInternals` (the
caching version takes a node's bit from the depth at which its walk ended,
smt.rs:908), `KeysPerBatch` 2 (a batch's nodes are not read by the next key of
the same batch, smt.rs:2077), `FirstIncremental` (the incremental version on an
empty tree returns before writing its leaf, smt.rs:2287). Nothing on the indexing
path calls this code: the state root is carried over unchanged.

### NodeClient

`get_block_info` is `getblockhash`, then `getblock` of that hash, then the check
of the body. Each is `request_with_retry`: take the tunnel's lock for the whole
loop, make or reuse the tunnel, read the cookie through the cache, post, and on a
failure drop the tunnel or mark the cookie for refresh. Cookies and tunnels are
numbered. `live` are the tunnels whose session works, `listeners` those whose
listener task still accepts: nothing ends a listener. The node restarts with a
new cookie, breaks tunnels, fails calls and switches between two blocks. A tunnel
that breaks while a body is read (`CutShort`) makes `json()` fail, which keeps
the dead tunnel for the next attempt: `breaks` counts the faults of this kind,
which may cost two attempts. The escape `METASHREW_SKIP_BLOCK_HASH_VERIFY` is
left out: bodies are always verified.

## Runs

Passing:

| run | instance | shows |
|---|---|---|
| `store` | first block 1, two forks, heights 1-3, two keys, one lookup at a time; one block updates a key twice, one updates nothing; 2 049 314 states | order, exactness, manifest cover, stale batches rejected, historical reads, the inductive invariant (`RInv`, with types its first conjunct), no skipped block, refinement of `ChainLog` |
| `engine` | two forks from height 0, heights 0-3, reorg depth 2, threshold 1, up to 4 faults of any kind anywhere, 2 attempts; 50 193 states | one chain, completeness of the best chain, walks end on recorded heights, refinement of `IndexStore`, pointers reconciled after every start |
| `restart` | start block 1, fork at 1, heights 1-3, up to 5 faults, shorter branches included; with fairness; 17 808 states | one quiet restart recovers from crashes, reorganisations and an unreachable node, if the node is not behind the index; commits only onto the recorded parent |
| `pipeline` | heights 0-5, fork at 2, threshold 2, prefetch 5 capped to 2, `--exit-at` 5 or none, one reorganisation or failure; 428 398 states | see below |
| `libpipeline` | heights 0-5, fork at 1, channels of 2, exit 4 or none, two faults, reorganisations at any moment; 365 260 states | see below |
| `snapshot` | heights 1-4, intervals of 2, a tracker that is full at 3 keys and may be emptied at height 3, 2 faults, reorganisations at any moment, three drivers, a rebuilding host that starts empty or at height 1; 536 727 states | see below |
| `views` | two requests, one permit, two heights, one rollback; 480 390 states | see below |
| `blocks` | three programs, three heights, three failures; 92 343 states | see below |
| `tree` | three keys, two values, two heights, four updates, one rollback | see below |
| `nodeclient` | two callers, three attempts, two faults, one new cookie; 210 870 states | see below |

* `ListsOrdered`, `NoOrphanedUpdate`, `NoLostUpdate`: the lists are exactly the
  recorded chain, up to `intact` also complete.
* `ManifestsCover`: the fast rollback path misses nothing.
* `StaleBatchRejected`: `height == tip + 1` refuses every batch whose list
  lengths a rollback has since changed, through any completed rollbacks and
  crashes. The exception is a batch that was in memory when a rollback's write
  failed with the process alive: that one is accepted.
* `ReadsMatchChain`: a lookup at a height that stays at or below `intact` while
  it runs finds the last update of the recorded chain, though every slot is read
  at another moment; or it ends in an error, and then its list was cut.
* `NeverSkipsABlock`: the indexed height grows one by one from the start block.
* `LogSpec`: the store implements `ChainLog`.
* `OneChain`, `PipelineOneChain`, `LibOneChain`, `SnapOneChain`,
  `CommitsOntoParent`: neighbours in the index are parent and child, on each of
  the four ways blocks are driven; nothing is committed above a gap.
* `BestChainComplete`: a recorded block of the node's chain has all its updates.
* `WalksEndOnRecords`: a walk of `handle_reorg` or of the heal that has used up
  its depth stands on a recorded height not above the tip, so trusting that
  height unseen raises no pointer.
* `HealReconciles`: after `init` the three pointers agree on a recorded block.
* `StoreSpec`: the engine's steps are `IndexStore` steps.
* `RestartRecovers`: after the faults of the run, a start after which nothing
  goes wrong, with a node that is not behind the index, leads to a synced, exact
  index for good. Not after everything: with `FlipBack` or `WriteFaults` there
  are pasts that no restart repairs (table below), and the fetch cursors of the
  concurrent tasks are not in this run.
* `NoErrorWithoutCause`: without a reorganisation or a failure, the fetcher's
  stale stores and floors never make it send a block twice or out of order.
* `InFlightBounded`: the cap on the prefetch size bounds the channel and the
  batch.
* `StopsAtExit`: `--exit-at` is compared with a count of results (lib.rs:1433),
  so after a reorganisation the process of `rockshrew-mono` does stop early; but
  by no more blocks than were counted again (`again`: rolled back, or skipped as
  stale). A process that was restarted counts from 0 again and so stops late;
  restarts are not in `Pipeline`. `LibStopsAtExit`: the library's pipeline never
  passes the exit height, and stops there.
* `PipelineCatchesUp`, `LibCatchesUp`, `SnapCatchesUp`: the index reaches the tip
  (or the exit height). For `Pipeline` only while the node neither reorganises
  nor fails: `wedge` shows why.
* `LibCursorNotAhead`: until `overtaken`, the cursor never passes the block after
  the tip. `LibOneChain` and `SnapOneChain` except the crossed blocks and heights.
* `RestoredMatches`: a rebuilt index equals the original at every interval's end.
* `PermitsBalance`, `NoOrphans`: permits are neither lost nor made, and no worker
  but a preview's outlives its request's timer, though the module of a view need
  never return.
* `ViewsConsistent`: a view was told one height's state in all its keys, whatever
  was committed, rolled back above it or previewed meanwhile. The exception: a
  search whose list was shortened under it may come back empty.
* `EffectsExact`, `IndexCompletes`: committed blocks had their effect once, and no
  failed attempt makes all later ones fail.
* `RootCanonical`, `LeavesFound`, `RootsPredicted`: roots are a function of the
  values, old roots stay usable, and the functions that only predict agree.
* `BlockIsTheOneNamed`: hash and body belong together. `FailsForCause`: a request
  loses an attempt only to a fault, or two to a new cookie or to a tunnel that
  broke. `TunnelsBounded`:
  listeners number at most one more than the faults. `Served`: every task gets a
  block again and again, though the lock is held through a retry loop.

Violated, each against a statement in the repository (`findings` quotes it):

| run | property | what happens |
|---|---|---|
| `wedge` | `CatchesUp` | the fetcher's own reorg check rewinds `current_height`, but the floor `last_sent + 1` stays; the rolled-back heights are not fetched again and the index stops |
| `preview_fork` | `ViewsConsistent` | with `--fork` and `--enable-preview`, the preview's block is written to the live database and a view at an indexed height answers from it |

### What the passing runs leave out, and why

Some constants exclude a behaviour in which the property is known to fail. With
the constant switched, TLC prints the behaviour:

| constant | run | excluded behaviour |
|---|---|---|
| `FlipBack` | `engine`, `restart` | killed inside a rollback, the node returns to the branch being rolled back; the heal sees agreeing hashes and keeps half-trimmed lists (`BestChainComplete`), and so does every later start (`RestartRecovers`); stale hash records above the tip can make a walk end above it and raise the height pointer (`StoreSpec`) |
| `WriteFaults` | `restart` | the last write of a rollback fails and the process lives: the next walk skips the missing records, and the next block lands above the gap (`CommitsOntoParent`), where no restart looks again (`RestartRecovers`) |
| `FirstBlockFails` | all | after the last failed attempt at the first block the fresh database takes the second (`NeverSkipsABlock`) |
| `Forked` | `views` | run `preview_fork` |
| `KeysPerBatch`, `FirstIncremental`, `CachedOverInternals` | `tree` | see SparseMerkle |
| `StartBlock` 1 | `snapshot` | `create_snapshot` keeps the changes of heights above `last_snapshot_height` (snapshot.rs:385), which is 0 before the first interval; with start block 0, a key that only block 0 sets is in no interval, and an index rebuilt from all of them lacks it though nothing was dropped (`RestoredMatches`) |
| `MaxReorgDepth` 1 | `engine` | two rollbacks in a row over a block without updates leave its hash record above the tip; a walk that ends at its depth limit then ends above the tip, and `rollback_to_height` raises the indexed height to that (`WalksEndOnRecords`, `StoreSpec`). With a depth of 2 no walk over the run's heights does; for which depths none does at all is proved below |

`EffectsExact` is stated for runs without a missed refresh (`spoiled`): a refresh
that fails after a failed attempt is only logged (runtime.rs:2397), and the queue
of that attempt is flushed with the next block. `RestoredMatches` exempts what
the source announces as a gap, and `SnapOneChain` and `SnapCatchesUp` what
follows a snapshot import.

Other properties exempt, by a history variable, the case in which the code gives
nothing to rely on; the behaviour itself is in the run and goes on after it:

| exempt | property | what happens there |
|---|---|---|
| `Undamaged` | all of `store` | a rollback's write failed with the process alive, and the batch that was in memory is then committed on lists that the rollback had shortened (`doubt`). The run cuts behaviours off at that commit; nothing is claimed after it |
| a node behind the index | `RestartRecovers` | the records above the node's tip are kept at least until the node has passed them, and the floor of run `wedge` may keep the index from following then; `engine` has such nodes, `RestartRecovers` speaks only of a start with a node that is not behind |
| `crossed` | `SnapOneChain` | the node reorganised between the look back and the question for this height's hash: body and hash come from two branches, or neither continues the record below. The driver looks at no parent, so the height is indexed like that; a body that is not its hash's stays unnoticed for good |
| `crossedBlocks`, `overtaken` | `LibOneChain`, `LibCursorNotAhead`, `LibCatchesUp` | the same between the fetcher's look back and its question for the block; `overtaken`: a rollback was begun with blocks in flight, after which `current_height` and the index need not fit each other at all |
| `jumped` | `SnapOneChain`, `SnapCatchesUp` | a snapshot was imported |

### Bounds

Three heights in `store` and four in `engine` give rollbacks of two and three
heights, so one that is cut off has something above and below it; a list of three
slots is the shortest in which a search makes two probes and the second may meet
what was cut since the first. Five faults in `restart` let a second rollback be
cut off within the heal of the first. Two forks are enough to
tell an orphan from the chain; a depth of 2 makes both ends of the walks
reachable. In `engine` key `a` is updated at every height of fork `x` and key `b`
only at its first, which is the smallest chain on which a rollback can be cut off
with one list trimmed and the other not; fork `y` starts with a block without
updates, so rolling it back takes the full scan. Four faults allow a
reorganisation, a failure in it, a crash and an unanswered query in one
behaviour. In `pipeline` six heights with a threshold of 2 let a batch of two and
a queue of two stand below the near-tip path, and the fork lies inside it. In
`views` one permit for two requests makes every wait happen, two heights make a
commit above and a rollback below a running view or between two probes of its
search, and two keys are the fewest that can disagree. In `snapshot` the tracker
is full in the middle of a block that sets two keys. In `blocks` three heights let a block read what a retried one
wrote after a third was rolled back. In `tree` four bits and three keys have
every shape of divergence: at the last bit, in the middle, at the top. In
`nodeclient` three attempts outlive one new cookie and fail on one and a fault
(the code has five). `MaxFaults`, `MaxRollbacks`, `MaxRotations` are bounds of the
environment, and each stands in the guard of the action it bounds.

### Fairness

`FairSpec` of `SyncEngine` assumes weak fairness of the process's own steps as a
whole: the fetcher loops, the walks and the processing are loops that always take
their next step, and `init` follows a start. In `Pipeline`, `LibPipeline` and
`SnapshotLoop` each task is scheduled (weak fairness of its steps); in the first
two the node grows to the end of its chain so that there is a tip to reach.
`ViewServer` asks only that timers fire and that the cancelled worker of a view
or a `storage` call reaches its next yield: `view_with_limits` sets a fuel yield
interval (runtime.rs:928-930), which `preview` does not. Of a preview's module, as
of any module, nothing is asked: it may never yield, and then keeps its worker and
permit (`NeverYields`).
`BlockRunner`: the caller goes on retrying. `NodeClient`: each caller steps, and
taking the tunnel's lock is strongly fair because tokio's mutex is first come,
first served. Faults are finite in every module, which the bounds state.

**Deadlock** is checked in every run; where a model can be finished, a named
action (`HostDone`, `RunnerDone` and the like) says what finished means.

## Proofs

All theorems are about the specifications that TLC checks, for every value of
the constants that satisfies the named assumptions.

| theorem | property | hypotheses |
|---|---|---|
| `StoreInvariant` | `IInv` (the first conjunct of `RInv`) | (S) |
| `ReaderInvariant` | `RInv` | (S) |
| `StoreTypeCorrect` | `TypeOK` | (S) |
| `StoreListsOrdered` | `ListsOrdered` | (S) |
| `StoreExact` | `NoOrphanedUpdate` | (S) |
| `StoreLosesNothing` | `NoLostUpdate` | (S) |
| `StoreManifestsCover` | `ManifestsCover` | (S) |
| `StoreRejectsStaleBatch` | `StaleBatchRejected` | (S) |
| `StoreReadsMatchChain` | `ReadsMatchChain` | (S) |
| `StoreNeverSkips` | `NeverSkipsABlock` | (S) |
| `StoreImplementsChainLog` | `LogSpec` | (S) |
| `EngineInvariant` | `EInv` (with `IInv`) | (E) |
| `EngineImplementsStore` | `StoreSpec` | (E) |
| `EngineNeverInDoubt` | no batch is ever in doubt | (E) |
| `EngineKeepsStorePromises` | `LogSpec`, and no orphaned update, of the engine | (E) |
| `EngineOneChain` | `OneChain` | (E) |
| `EngineLosesNothing` | `BestChainComplete` | (E) |
| `EngineHealReconciles` | `HealReconciles` | (E) |
| `EngineCommitsOntoParent` | `CommitsOntoParent` | (E), `WriteFaults = FALSE` |
| `EngineWalksEndOnRecords` | `WalksEndOnRecords` | `Limits`, `ForksAbove(f)` for some height `f` |
| `PipelineInvariant` | `PipeInv` | (P) |
| `PipelineOneChainHolds` | `PipelineOneChain` | (P) |
| `PipelineIsBounded` | `InFlightBounded` | (P) |
| `PipelineRaisesNoError` | `NoErrorWithoutCause` | (P) |
| `PipelineStopsAtExit` | `StopsAtExit` | (P) |
| `RestoredMatchesHolds` | `RestoredMatches` | (L), `GenesisSetsNothing` |
| `SnapOneChainHolds` | `SnapOneChain` | (L), `MaxReorgDepth > 0`, `OneGenesis`, of the run `[]ReorgsInReach` |
| `SnapOneChainInReach` | `SnapOneChain` | (L), `ForksInReach` |
| `LibOneChainHolds` | `LibOneChain`, until `overtaken` | (L), `ExitAboveStart`, of the run `[]LibReorgsInReach` |
| `LibCursorHolds` | `LibCursorNotAhead` | the same |
| `LibForksInReach` | `LibOneChain` until `overtaken`, `LibCursorNotAhead` | (L), `ExitAboveStart`, `ForksInReach` |
| `LibExitHolds` | `LibStopsAtExit` | (L), `ExitAboveStart` |
| `BlocksHaveTheirEffect` | `EffectsExact` | `RunnerAssumption` |
| `ViewsAreConsistent` | `ViewsConsistent` | `ServerAssumption`, `~Forked` |
| `PermitsAlwaysBalance` | `PermitsBalance` | `ServerAssumption` |
| `ClientNamesItsBlock` | `BlockIsTheOneNamed` | `ClientAssumption` |
| `ClientFailsForCause` | `FailsForCause` | `ClientAssumption` |
| `ClientTunnelsBounded` | `TunnelsBounded` | `ClientAssumption` |

(S) is `ChainAssumption`, `StoreAssumption` and `StartBlock <= RollbackFloor`.
The last is needed: a rollback below the start block leaves a database with
`indexed = 0` and no hash record at 0, which `commit_atomic` takes for a fresh
one. (E) is the named assumptions of the three modules, `Limits`, which excludes
what the table above shows to fail (`FlipBack`, `FirstBlockFails`) and puts the
start block below every fork, and, of the run, `[]WalksEndOnRecords`. The run
`engine` checks that last property as an invariant, and `EngineWalksEndOnRecords`
proves it of every run of an engine whose `--max-reorg-depth` reaches from the
highest block to below the lowest fork (`ForksAbove`). Nothing else is assumed:
the node reorganises, shrinks, goes silent, writes fail and the process dies, at
any step and any number of times. (P) is `ChainAssumption`, `LedgerAssumption`
and `PipelineAssumption`, which only give types. (L) is `ChainAssumption`,
`LedgerAssumption` and `SnapshotAssumption` or `LibAssumption`, which give types
and say that a rebuilding host starts empty or inside an interval.
`GenesisSetsNothing` (an index that begins with block 0 begins with a block that
sets no key) is needed: the run with `StartBlock` 0 shows it; so is `~Forked`: run `preview_fork`.
`ExitAboveStart`: an exit height is above the start block. `OneGenesis`: block 0,
at which no walk looks, is on every branch. `ReorgsInReach` says that whenever the
next block is chosen above a record that is not the node's, the driver looks back
at all (near the tip, or always for `process_next_block`); where its walk ends
does not matter, because what it leaves in disagreement is found again.
`LibReorgsInReach` says it of the library's fetcher, and that its walk ends on a
record that the node has. Reorganisations at any other moment, with a block
fetched, queued or running, are in both theorems. `ForksInReach` says it of the
constants: the
forks branch off above a height that is indexed and within `--max-reorg-depth`
and `--reorg-check-threshold` of the highest block. The constants of `snapshot`
(with height 2) and of `libpipeline` (with height 1) satisfy it.

A recursive function is a `CHOOSE` for the prover, so that one satisfying its
equation exists has to be shown first. `Ancestry` and `Intents` each have such a
lemma (`AncestryExists`, `IntentsExist`); it takes the least number for which the
claim fails
(`LeastExists`), which is how every argument over heights, windows or positions
is made here.

### The store

None of the properties is inductive alone. `IInv` is `PointerInv`, which holds
whatever became of the lists, and, until a batch in doubt is committed, `ListInv`.
They add

* `OpInRange`: the rollback's target, cursor and the two pointers are in order;
* `RollbackProgress`: the fast path has emptied every height above its cursor,
  the scan every list it has done. Without it the last write, which lowers the
  height, would not be known to leave nothing above it;
* `StartStays`: the index is empty, or holds the start block for good;
* `StagedAboveTip`, `BatchFits`: a batch in memory is above the index, and if it is
  the next block's, it is built on the lists as they are, unless it is in doubt. A
  rollback that completes lowers the tip by at least one, so a batch that was next
  before it is too high after it; this is why the in-order check suffices there. A
  rollback whose write fails with the process alive leaves the tip where it was and
  the lists shorter (`RollbackWriteFails`): then it does not, and the batch in
  memory is in doubt until it is dropped (refused, or the process ends) or
  committed.

The argument for the lists: on an ordered list both trimming from the end
(`TrimPrefix`) and filtering with compaction (`SurvivorsPrefix`) yield the same
thing, the longest prefix at or below the target (`RollbackCuts`); a prefix of an
exact list is exact up to the target (`CutLists`, `CutKeepsUpdates`); appending a
block above all slots keeps order and exactness (`AppendFacts`). The step lemmas
(`...Keeps`) apply these once per action.

`ReadsMatchChain` is about a search whose probes are steps of their own, with
commits and rollbacks between them. `LookupInv` says what makes it right all the
same: the slots the search has left behind on its left are at or below the height
and stay, those on its right are above it or gone. A probe keeps that
(`ProbeKeepsLookup`); of a store step it is enough that, as long as the height is
safe, it changes nothing of a list below the cut (`ListStep`, `StoreKeepsLookup`,
`ReadsFollow`). When left meets right, the slot at hand is the last update at or
below the height, because nothing is lost, nothing orphaned and nothing recorded
below the start block (`AnswersMatch`).

For `LogSpec` the mapping shows the recorded blocks up to the lowest height an
unfinished rollback aims at, so a rollback takes effect in `ChainLog` when it
starts and a crash within it is invisible. From `IInv`, `ChainFacts` takes where
the chain ends; `LoweringCuts` covers the start of a rollback; `CommitAppends`
the atomic commit, which needs `StagedAboveTip` (the first block is the
start block) and the in-order check; `ManifestBatchInvisible` and
`PointersInvisible` the later writes of a rollback, the last of which must not
make the database look fresh (`NoLostUpdate`).

### The sync engine

What makes the engine correct is not in its program state alone but in what the
node has once answered, so `EInv` is about the records, the walks and the blocks
that the node has left (`left`, a history variable). Its heart is
`AbandonedAbove(r)`: every hash record above height `r` is of a block the node has
left. It holds

* of the indexed height (`RecordsInv`): the stale records that the full scan
  leaves above the tip are of abandoned blocks;
* of the cursor of both walks (`WalkInv`): a walk goes down only past a record
  that the node just disagreed with (`WalkPasses`), and a record of a block the
  node never left is on its best chain (`AgreeOrAbandoned`), whatever it did
  between two queries;
* of the target of an unfinished rollback (`RollbackInv`), which is where such a
  walk ended.

A walk never passes the start block, which every branch has (`StartAgrees`), nor
ends above the tip: an agreeing record is not abandoned, so it is indexed
(`ReorgTarget`, `HealTarget`). That gives the two guards of `Rollback` and `Heal`,
and with the cursor (`CursorInv`: the next block is above the tip), the first
block (`BeginInv`) and the block being processed (`ApplyInv`) every step is a step
of the store (`EngineStepsStore`): `StoreSpec`, and through it everything proved
of `IndexStore`. `OneChain` is part of `RecordsInv`: only `CommitBlock` adds a
record, of a block that still connects, and lowering the tip only removes pairs.

`BestChainComplete` needs more than `NoLostUpdate`, which speaks of heights up to
`intact` only and says nothing of an index that was rolled back halfway and then
built upon. `NothingLost` says it of every recorded block that the node has not
left: a rollback trims lists only above its target (`RecedingLosesNothing`,
`RollbackStepLosesNothing`), and there only abandoned blocks are recorded.

`EngineCommitsOntoParent` uses `TopInv`: without failing writes the record at the
indexed height is there whenever the engine runs, so `Connects` did look at it.
`EngineHealReconciles` follows from where the heal may end (`HealTarget`) and
from `RollbackInv` at its last write.

`EngineNeverInDoubt`: the serial loop executes and rolls back one after the other,
so it never has a batch in memory while a rollback runs, and nothing proved of the
store is lost to `doubt`. The daemon's fetcher rolls back while its processor
executes: there the exception of `StaleBatchRejected` can occur.

`FloorInv` is for `EngineWalksEndOnRecords`. With all forks above height `f`, the
index up to `f` only grows: no walk passes it (`FloorNotPassed`), no rollback
aims below it, and there is nothing recorded above an index that has not reached
it. So every walk that starts at most `--max-reorg-depth` above `f` ends, by
agreement, before its limit.

### The pipeline

`PipeInv` holds whatever the node does: types, the bounds of batch and channel,
an index in which neighbours are linked and nothing is above the tip
(`IndexInv`), and that a block between its continuity check and its commit still
connects. The last is what makes `PipelineOneChain` inductive: a rollback may
come between check and commit, but it only removes records
(`RollbackKeepsConnects`), and the in-order check then refuses or accepts. The
two walks and their depth play no part.

As long as nothing has failed (`faults = MaxFaults`), `Orderly` holds as well:
records and blocks in flight are the node's chain (`Agrees`, `OnChain`; a growing
node keeps it so, `AgreesGrows`), so no walk finds anything to undo
(`NothingToUndo`); the heights from the next to index to the last sent follow
each other in process and channel without gap or repetition (`Consecutive`); and
what the fetcher holds of `current_height`, though stale, is never ahead
(`FetcherBehind`), so it resumes where it stopped sending (`FetchStartsNext`).
`NoErrorWithoutCause` is read off.

`StopsAtExit` is about every run, also after failures and reorganisations.
`CountInv` keeps the account (`NeverOvercounts`): the results counted, the
successes in the channel and the block not yet reported are together at most the
indexed height and what was counted `again`, one more if block 0 is recorded. A
commit adds one on both sides, a rollback moves what it takes off the index to
`again`.

### The loops

`SnapshotLoop` and `LibPipeline` commit without looking at a block's parent. What
they have is the walk before the fetch, so both proofs are about
`AgreesBelow(c)`: no record below `c` disagrees with the node's best chain. In an
index that is `Linked` and `Dense` (no gaps), agreement at one height is agreement
at all below it (`AgreementGoesDown`); so a walk that ends on an agreeing record
has noticed every disagreement it started above (`WalkNotices`), and a rollback
to its end leaves agreeing records only. A block of the node's chain on top of
these links (`CommitExtends`); a node that grows changes nothing of this
(`GrowthIsInvisible`).

`FitInv` is for `SnapshotLoop`. The block being driven is the node's, of one
branch, and its parent is the record below it (`BlockFits`, `FitsOn`); so is every
record (`RecordFits`); all this unless the node has reorganised since the look
back, which `crossed` remembers of the block and then of the height. Between look
back and commit nothing else writes the index, so each step needs only the record
below and what the driver knew when it chose the height.

`ChainInv` is for `LibPipeline`, where other tasks do write. Until `overtaken`,
nothing is in flight when a rollback is decided, done and handed over (`Backed`);
the blocks in flight are at most the next one, and what the result loop is told is
indexed (`Held`), so `currentHeight` never passes the block after the tip
(`Cursor`); and a block in flight that is not a crossed one continues the record
it will be put on (`Fitting`). A duplicate of the block at the tip, which the store
refuses, is among those and harms none of it.

For `LibStopsAtExit`, `ExitInv` bounds everything on its way by the exit height
(`FetchedBelow`, `CarriedBelow`) whatever the node does: a rollback that the walk
asks for ends below the height it started at. Until the first reorganisation it
includes `LibInv`: every block between fetcher and commit is the node's, above
agreeing records (`Flying`, `Good`), and the heights between commit and
`currentHeight` are recorded and come in ascending order (`Told`, `InOrder`), so
the height with which the result loop ends is the indexed one (`Exiting`).

`RestoreInv` has three parts, as long as nothing was announced as dropped or
missing. `TrackInv`: a key that a recorded block has set since the last snapshot
is tracked, with that block or one at least as high (`Covers`), and so are the
keys of the block being tracked that were flushed already (`Gathered`). `RepoInv`: the
intervals begin where the one before ends, and each one's changes are what the
index changed by between its ends (`Chained`). `ConInv`: the rebuilding host has
the first `n` intervals and of the next one the keys already put (`AtPosition`; a
killed host still has its old height and puts them again), or it began inside an
interval, which it will skip (`Midway`).

### Block execution

The library half is about one memory: `Follows` relates it to `Intents`, the
additions the calls so far are for. `Stacked` gives the checkpoints: with
`val[i]` the values if the checkpoints up to the i-th were committed, each
checkpoint holds exactly the keys it has added to, with these values, so the
youngest checkpoint that has a key has its value (`YoungestHolds`). `Cached`
gives the cache: a cached key is the host's value, the direct additions and what
the base has committed; a key not queued has none of the last two. One lemma per
call (`AddFollows`, `AtomicFollows`, `CheckpointFollows`, `RollbackFollows`,
`MergeFollows`, `BaseFollows`) keeps this, and `FlushExact` reads the batch off.

The runner's half is `Sound`, for as long as no refresh is missed: an attempt
begins with a fresh memory, which then follows the block's calls read against
the tip, and a batch, in the slot or taken from it, is what the block adds to the
tip. A rollback under a running block makes all of this void, but then the
block's height is not the next one any more and stays so until the attempt ends,
so the commit refuses it.

### Views

Permits: only a view or a preview is ever in a step that holds a permit, and a
request that is not posted has no worker (`WellFormed`). Three lemmas say what a
step may do to the permits (`NobodyMoves`, `OneTakes`, `OneGivesBack`), and every
ending, the cancelled one included, goes through `EndKeepsBalance`.

Consistency, as long as the request's height has not been rolled back or built
upon, which its own history records: the index holds at that height what it held
when the request began (`Tracks`), everything answered so far is that, or empty
after a search whose list was cut (`Answered`), and the search on its way has the
slot it looks for between left and right, and right within the list unless that
was cut (`OnTrack`). Commits append slots above the height and rollbacks above it
cut such slots, so what is searched for stays where it is.

### The node client

`TunnelsBounded` needs that the tunnel's lock is held by the one task inside the
retry loop (`Locked`), that this task uses the tunnel that is kept
(`TunnelShared`), and the books (`Account`): tunnels exceed faults by one at most,
and only while a working tunnel is within reach (`Usable`). `Create` is the only
step that makes a tunnel; the lock and the absence of a kept one show that
nothing was usable before it, so the books have room. `FaultAccounts` and
`UsableAccounts` cover all other steps.

`FailsForCause` needs a second account (`CauseInv`), per task: what it has lost and
what it is bound to lose (`Owed`) is paid for by faults, broken tunnels and
cookies. A stale cookie in hand or ahead owes one each; a broken tunnel that is
still held owes one (`BrokenHeld`), and one more if a response is still to come
through it (`CutAhead`): the body then fails to arrive, the tunnel is kept, and
the next attempt fails on it.

### Only model-checked

* `SnapshotLoop` and `LibPipeline` beyond the hypotheses above: a reorganisation
  out of reach of the walk is not detected there, and nothing else looks. Of the
  library's index after `overtaken`, nothing but `LibStopsAtExit` is claimed.
* `SyncEngine` beyond (E): a depth that does not reach below the forks is checked
  in `engine` and `restart`.
* The properties of `SparseMerkle`: its operators are `RECURSIVE`, which the
  prover does not take.
* Every liveness property, and `NoOrphans` with them.

## Not modelled

* Nothing of the system is `modelled` in full: in each component an operation
  that no part of `rockshrew-mono` calls is left out. These are the legacy
  `process_block`/`run` path and `setup_linker_preview` of the runtime, single
  `store_block_hash`/`store_state_root` calls outside the snapshot import,
  `is_running`/`stop` of the library pipeline, and the list operations of
  `KeyValuePointer`, which are compositions of `get` and `set`.
* The snapshot consumer of `rockshrew-mono` (`snapshot_adapters.rs`) is a
  placeholder in the source; `sync_from_repo` of `snapshot.rs` is modelled
  although nothing starts it, because it is the only reader of the format.
* `NodeClient`: how long a cookie is cached and how long a back-off lasts are left
  open; the bytes that `handle_connection` forwards under the session's lock are
  one step.
* The default reorg depth is below the 256 heights the startup heal scans; the
  opposite case is excluded by an assumption (`EngineAssumption`).
* The SPV validator is a pure policy over header arithmetic, opt-in; the default
  check is `Connects`. The in-memory adapter serves tests. `memshrew-p2p` is a
  separate experimental binary.
* WASM execution (an oracle, or a sequence of library calls), RocksDB itself (a
  batch is atomic and durable, which the code relies on), transport, CPU pinning,
  formatting, generated protobuf code.
