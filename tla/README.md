# TLA+ models of the Gapcoin node

Gapcoin is a Bitcoin/Riecoin Core fork whose proof of work is a prime gap.  This
directory holds TLA+ models of the parts of the node that decide *which chain is
active* and that keep its *coins* (the UTXO set) right across reorganisations,
caching, interrupted writes and restarts, and of the parts around them that run on
threads of their own or keep delicate state: the script check queue, the queue of
validation callbacks, an optional index, transaction requests, header rules with the
difficulty and version bits, and the block files.  TLC checks them on small instances;
TLAPS proves the central invariants for every value of the constants.

Paths below are relative to the repository; the C++ sources are under `src/src/`.

## 1. Inventory of the system

| Part | State | Operations | What is hard about it |
|---|---|---|---|
| Block index and best-chain selection (`validation.cpp`, `chain.h`, `node/blockstorage.cpp`) | `m_block_index` with its status flags, `m_blocks_unlinked`, `setBlockIndexCandidates`, sequence ids, `m_chain`, `m_best_header` | accept header, accept block, `ActivateBestChain`, `PreciousBlock`, `InvalidateBlock`, `ReconsiderBlock`, prune, load | arrivals in any order; `cs_main` released between the steps of two long operations; a reorganisation that fails half way; pruning under a candidate; state that is rebuilt, not stored |
| Coins views (`coins.h`, `coins.cpp`) | two write-back caches over a database, DIRTY and FRESH flags, `m_dirty_count` | fetch, add, spend, `BatchWrite`, `Flush`, `Sync`, `Reset`, `Uncache` | a flag that is wrong several operations before the flush that loses a coin |
| Flush and recovery (`FlushStateToDisk`, `txdb.cpp`, `ReplayBlocks`, `LoadChainTip`) | block index in memory and on disk, block and undo files, coins database with its best block or two head blocks | connect, disconnect, the writes of a flush, crash, replay | the order of the writes; a crash in any of them, also in the recovery; pruning |
| Block and undo files (`node/blockstorage.cpp`) | file infos, cursor with `undo_height`, positions in the index, what is synced | write a block, write undo data, change file, sync, write the index, load | unsynced data and power loss; undo data in another order than blocks |
| Header rules (`validation.cpp`, `pow.cpp`, `PoWCore/PoWUtils.cpp`, `versionbits.cpp`) | headers; a cache of deployment states | accept header, next difficulty, state of a deployment | wrapping 64-bit arithmetic; times that go back; a cache shared by branches |
| Transaction requests (`txrequest.cpp`) | an announcement per peer and transaction, statistics per peer | announce, request, respond, forget, disconnect, expire | several peers, timeouts, a clock that goes back, deletion while iterating |
| Script check queue (`checkqueue.h`) | queue, counters, result, batches of the threads | add, complete, the loop, destructor | wake-ups, results kept across blocks, borrowed transaction data |
| Scheduler and task runner (`scheduler.cpp`) | due tasks, queue of callbacks, `m_are_callbacks_running` | schedule, service, insert, process, stop, flush | several service threads, stop with work left |
| Indexes (`index/base.cpp`, `index/coinstatsindex.cpp`) | best block, `m_synced`, entries by height and by hash, committed state | init, sync, rewind, append, commit, callbacks | a sync thread and a callback thread; reorganisations and crashes in between |
| Mempool and transaction graph, peer logic, connections, script, wallet, RPC, GUI, IPC | | | not modelled, see section 8 |

How they interact: the peer logic and the RPC server call the first part under
`cs_main`; `ConnectTip` and `DisconnectTip` work in a coins view over
`CoinsTip()`; both end in `FlushStateToDisk(IF_NEEDED)`; a start loads the block
index, repairs the coins database with `ReplayBlocks` and sets the tip from it.
`ConnectBlock` hands script checks to the check queue and waits for it;
`ActivateBestChain` and `FlushStateToDisk` put callbacks into the task runner, which an
index follows; `FlushStateToDisk` syncs the block files before it writes the index.

## 2. Modules

| Module | Models |
|---|---|
| `BlockTree` | the tree of all blocks that may exist, as constants: parents, heights, work; the order of candidates (`CBlockIndexWorkComparator`) |
| `Chainstate` | block index and chain selection |
| `UtxoView` | abstract: what the coins views promise, three plain maps |
| `CoinsViewCache` | the caches with their flags; implements `UtxoView` |
| `CoinsFlush` | the writes of a flush, crashes, recovery; works on the net effect of blocks, which `CoinsViewCache` justifies |
| `BlockFiles` | which data of the blk and rev files is durable, and what the index on disk says of it |
| `PowDifficulty`, `HeaderRules` | the retarget arithmetic; what a header owes to its ancestors, and version bits |
| `TxRequest` | the tracker of transaction requests |
| `CheckQueue` | the script check queue |
| `CallbackQueue` | abstract: a queue served by one thread |
| `TaskRunner` | the scheduler and the serial task runner; implements `CallbackQueue` |
| `IndexSync` | an index that follows the chain |
| `ChainstateProofs`, `ChainSelectionProofs` | theorems about `Chainstate`; the second extends the first |
| `CoinsFlushProofs` | theorems about `CoinsFlush` |
| `ConnectProofs` | theorems about what `ConnectBlock` works with: `CoinsViewCache` and `CheckQueue` |
| `CallbackProofs` | theorems about `TaskRunner` and `IndexSync` |
| `HeaderProofs`, `VersionBitsProofs` | theorems about `PowDifficulty` and `HeaderRules`; the second extends the first |
| `PeerProofs` | theorems about what peers send, requests and files: `TxRequest` and `BlockFiles` |
| `MCChainstate`, `MCCoinsFlush` | instances for TLC |
| `MCThreads`, `MCNode` | instances of several modules that share no variable: the initial state picks the one that moves |

Definitions whose name has a suffix after an underscore and whose comment starts
with "Deviation" are faulty variants of the definition that follows them.  They
are not used by any specification; replacing the definition by its variant makes
the property named in `PROJECT.json` fail, which shows that the property depends
on that code.

### Chainstate

An action is one critical section of `cs_main`.  `holder` says which thread holds
`m_chainstate_mutex` and whether it also keeps `cs_main` (`abcLocked`: a failed
reorganisation that has not made progress yet).  The locals that survive a
release of `cs_main` are variables: `pindexMostWork`, `starting_tip` and `inv`
(the locals of `InvalidateBlock`, with its precomputed map of headers).

Actions: `AcceptBlockHeader`, `ProcessNewBlock` (check, store, link the waiting
descendants), `ABCBegin`, `ABCNothing`, `ABCDisconnectFails`, `ABCStep`
(`ActivateBestChain` and its step), `PreciousBlock`, `InvalidateBegin`,
`InvalidateDisconnect`, `InvalidateFails`, `InvalidateFinish`,
`ReconsiderBlock`, `PruneOneBlockFile`, `Interrupt`, `Restart`.

Abstractions.
- Validity of a block is a constant: `BadBody` fails before it is stored,
  `BadConnect` in `ConnectBlock`.  A mutated body changes nothing and is left out.
- `m_blocks_unlinked` is a set (its key is the parent), and a block file has one
  block.  Pruning is a step of its own that may come whenever `cs_main` is free.
- `m_best_invalid`, the fork warning and `BLOCK_VALID_SCRIPTS` are left out:
  nothing here reads them.
- The address that breaks the last tie of the comparator is a constant.
- `Restart` follows a clean shutdown; crashes are the subject of `CoinsFlush`.
- When a sort key changes in place the candidate set is treated as sorted again.

Four history variables, which no action reads, mark what `CheckBlockIndex` does not allow
for: `raced`, the index changed under an `InvalidateBlock`; `disordered`, a sort key was
reused or changed in place; `gaveUp`, an `InvalidateBlock` gave up after it had
disconnected blocks; `stranded`, a block that waits for its parent's body has no entry in
`m_blocks_unlinked`.  A property that needs one of them as an exception names it, and a
restart, which rebuilds what they are about, clears them.

### CoinsViewCache

`cacheCoins` and `view` are caches: keys, coins, and the sets of DIRTY and FRESH
keys.  The operators on a cache (`FetchCoin`, `AddCoin`, `SpendCoin`,
`BatchWrite`, ...) are the methods of `CCoinsViewCache`; the actions apply them
to the view, to `CoinsTip()` or to both.  A view is an overlay (connect: misses
do not fill the cache below) or a plain cache (disconnect: they do).

Abstractions: memory accounting and the linked list of flagged entries are left
out; the best-block hash and partial writes are in `CoinsFlush`; unspendable
outputs, which `AddCoin` ignores, are not coins; loading a snapshot
(`EmplaceCoinInternalDANGER`) is left out.  A caller passes
`possible_overwrite = false` only for a coin it knows to be absent: `ConnectBlock`
enforces BIP30, and `RollforwardBlock` and `ApplyTxInUndo` ask `HaveCoin`.

### CoinsFlush

`pc` says where the thread that holds `cs_main` is.  A flush is `FlushStateToDisk`
(flags of pruned blocks cleared), `WriteBlockIndexDB`, `UnlinkPrunedFiles`, some
`WriteBatch`, `WriteLastBatch`; a start is `Start`, `ReplayRollback` and
`ReplayForward` block by block, `ReplayFlush`, again the batches, `LoadChainTip`.
`Crash` may come at every point.  `ConnectTip` and `DisconnectTip` are split before
`SetTip`, because `FlushStateToDisk` is called between the two.

Abstractions.
- A crash is the end of the process: writes that returned survive, a LevelDB batch
  is atomic.  Power loss, where unsynced files lose data, is in `BlockFiles`.
- Any stored child of the tip may be connected, which includes every choice of
  `ActivateBestChain`.
- A batch writes coins that differ from the database; writing others changes
  nothing.  The undo data of a block is the set of coins before it.
- Prune locks only narrow `Prunable`.  Failed writes and full disks end the node
  with `FatalError`, which for the disk is a crash.  Undo data in the format
  without heights is left out.

### BlockFiles

`blk` and `rev` are what the files hold at each position, `blkSynced` and `revSynced`
the positions that survive a power loss.  `WriteBlock` contains `FindNextBlockPos`: when
the file is full, `FinalizeUndo` decides whether the rev file is final and `LeaveFile`
syncs what is left behind.  `WriteBlockUndo` contains `FindUndoPos` and the flush of a
rev file whose highest block it has just written.  `FlushChainstateBlockFile` and
`WriteBlockIndexDB` are the two steps of `FlushStateToDisk`; no write comes between them,
because `cs_main` is held.  `PowerLoss` destroys any part of what is not synced.

Abstractions: a block has size one and a file has place for `MAX_BLOCKFILE_SIZE` - 1 of
them.  The cursor for snapshots, pruning (in `CoinsFlush`), `UpdateBlockInfo` (reindex),
failed writes, a full disk and the check that the blk files exist are left out.

### PowDifficulty and HeaderRules

`next_difficulty` is translated with its unsigned arithmetic (`U64`), its two tests for
wrapping, the clamp and the floor; `mpz_log2` bit by bit.  The constants of the code are
CONSTANTS, so that TLC can use small ones.  In `HeaderRules` headers arrive parent first on
any branch, and `GetStateFor` and `GetStateSinceHeightFor` fill the cache between
arrivals.  Left out: the proof of work itself, the test against the
clock, which only delays a header, and the counts shown to the user.

### TxRequest

`m_state[t][p]` is the announcement of transaction `t` by peer `p`.  The loops of
`SetTimePoint` and `DisconnectedPeer` are actions per iteration, guarded by `loop`; no other call comes between,
since the caller holds `m_tx_download_mutex`.  The multi-index is a set of rows, and an iteration takes
any row of the peer that is left: the order of the loop of `DisconnectedPeer`, and that its iterator
`it_next` outlives the rows deleted under it, are outside the model.  The hash of the priority is a constant
function without ties.  Time is an input of `GetRequestable` and may go back.

### CheckQueue

An action is one critical section of `m_mutex`; notifications after it are actions of
their own, and `SpuriousWakeup` may come at any time.  A batch is a set of checks of the
size the code computes.  The order in the queue is left out: the code says that it does
not matter.  `ExecuteWork` runs a batch up to a failing check, any of them.

### TaskRunner and CallbackQueue

Service threads, producers (the threads that call `insert`) and a closer (shutdown).
Tasks are due or later; `TimeReached` makes a later one due.  A destructor such as
`RAIICallbacksRunning` is an action of its own.

### IndexSync

Validation learns of headers before their blocks (`AcceptBlockHeader`) and
moves the tip (`ActivateBestChain`, `InvalidateTip`), possibly flushing on
the way, and appends to `events`, the callbacks that are queued.  `haveUndo` are the blocks whose data and
undo data can be read, which `Rewind` and `ProcessBlock` need for `CoinStatsIndex`; a flush
writes it with the tip and the block index, so after a crash the header of a block may be known
and its data lost.  A read that fails, like a child that refuses, ends in `FatalErrorf`: the node
shuts down, and "failed" is final.  `Sync` is split at
every release of `cs_main`; `Rewind` and `ProcessBlock` are steps per block for the thread
that runs them.  `Stop` is the part of `Shutdown` that flushes, runs the callbacks and
joins; `Crash` may come at any time and keeps what was written.  The totals of
`CoinStatsIndex` are identified with the block they belong to: two states are equal when
their blocks are.  Left out: prune locks, the latch for an empty data directory
(`index/base.cpp:142`), the 30 seconds between two commits (a commit may come at any block).

## 3. Runs

| Run | Instance | Checks |
|---|---|---|
| `ChainRpc` | branches of 1 and 2 blocks, the second block of the longer one invalid; 2 RPC calls, 1 shutdown | `TypeOK`, `ActiveChainValid`, `CandidatesExact`, `FailureInherited`, `BestHeaderIsBest`, `TipIsBestWhenSettled`, `ForwardProgress` |
| `ChainArrival` | branches of 3 and 2 blocks, one body refused, one block that does not connect; 2 shutdowns | `ChainTxsExact`, `UnlinkedExact`, `TipIsBestWhenSettled`, `RestartKeepsTip` |
| `ChainPrune` | two branches of 2 blocks, all valid, pruning down to 1 block; 1 RPC call, 1 shutdown or prune | `PrunedChainRelinks`, `TipIsBestWhenSettled` |
| `ChainLive` | two rivals of one height, one invalid; 2 RPC calls, 1 shutdown | `ActivationServed` |
| `FlushCrash` | 2 branches of 2 that create and spend at both outpoints, pruning, 2 crashes | `TypeOK`, `CoinsMatchBestBlock`, `DiskCoinsRepairable`, `CoinsReferToIndexed`, `IndexedDataExists`, `RecoveryFailsOnlyPruned`, `RecoveryTerminates` |
| `Threads` | 1 worker and the master, 2 blocks with transactions of 1 and 2 checks; 2 service threads, 2 producers, 2 callbacks; 2 branches of 2 blocks, 2 moves of the tip, 1 header ahead of its block, 1 restart; 2 outpoints, 2 coins | `MasterReturns`, `RunsLikeOneThread`, `EveryCallbackRuns`, `IndexFailsOnlyAhead`, `SyncedCoversTip`, `OneThreadInChild`, `IndexCatchesUp`, `TypeOK`, `FlagsConsistent`, `DirtyCountExact`, `ImplementsUtxoView` |
| `Node` | 1 worker and the master, 1 and 3 checks; 3 peers, 2 transactions, 2 times; a forked header tree over 4 times and periods of 2; 5 blocks in 3 files, 1 power loss | `NoCheckOutlivesBlock`, `VerdictSound`, `TrackerSane`, `RequestedOnce`, `VersionBitsFaithful`, `DifficultyFollowsTime`, `IndexedBlocksReadable`, `UndoDurable` |
| `BestHeaderRace`, `PreciousTie`, `PrunedUnlinked`, `PruneCrash`, `IndexAhead` | as small as the behaviour allows | one property each that the code does not have, section 5 |

Bounds.  A branch of two blocks is the shortest that can fail half way, lose its
lower block to pruning, or have its upper body arrive first; two branches make a
reorganisation.  Two RPC calls allow an invalidation to be reconsidered and a
precious block to be displaced.  `Int32Min` is -2, so that `preciousblock` reaches
the floor.  Two outpoints let one entry change while another must not; two coins
make an overwrite visible.  Two crashes allow the recovery of a crash to crash.

One worker and the master give two threads in `Loop`, which is where a wake-up can be lost;
with two blocks a result can outlive its block.  Two service threads, one of which runs
callbacks while the other is asked to, are the smallest case of that race.  Two moves of
the tip are a reorganisation during the sync, and one restart puts a crash between two of
its writes.  One header may be known before its block (`MaxHeaders`): enough for a committed block
to come back from a crash as a header only.  Periods of two headers and four times take a deployment through every
state, failed and active included.  Three files leave one that was left and is written
to again (undo data), one that is being left and one that is current; with any number of
power losses the same instance was checked once (8.4 million states, no error).
The difficulties of `Node` stay far from both ends of `UINT64_MAX`: there `next_difficulty` never
wraps, and that its tests catch every wrap rests on the theorem `RetargetExact`.
`LogAgrees` in `MCNode` compares `mpz_log2` with its definition as TLC starts.

`Threads` has 262,497 distinct states, `Node` 514,828, `ChainArrival` 24,044, `ChainRpc` 115,572,
`ChainPrune` 147,639, `ChainLive` 16,152 and `FlushCrash` 235,533.

Deadlock is checked in every run but `Threads`, `IndexAhead` and `Node`, whose parts really stop: a
queue is destroyed, a scheduler stopped, a tree of headers complete.  What must not stop
is there stated as liveness.

## 4. Fairness

`Chainstate`: a thread that is about to call `ActivateBestChain` does so once
`m_chainstate_mutex` is free, and a thread inside `ActivateBestChain` or
`InvalidateBlock` goes on (weak fairness).  The code has no wait in these loops
but for `cs_main` and the bounded queue of callbacks.  Nothing is assumed of
arrivals, RPC calls, pruning or shutdown.  `CoinsFlush`: the thread that starts the
node goes on, and the operator starts a stopped node again (weak fairness of
`Startup`); crashes are bounded.  `CheckQueue`: a thread that can run does, and a control
that was taken is completed, at the latest by its destructor.  `TaskRunner`: a thread that can
run does, and a `wait_until` whose time is over returns; nothing is assumed of insertions or of
`stop`.  `IndexSync`: the sync thread and the callback thread go on, a node that is down is
started, a shutdown that began ends; nothing is assumed of the tip, flushes, interrupts
and crashes.  All of it is weak fairness of threads, which the operating system gives.

## 5. Where code and text disagree

- `BestHeaderRace`.  `InvalidateBlock` recomputes `m_best_header` from a map built
  before it first released `cs_main`; a header accepted meanwhile is missed, against
  the assertion of `CheckBlockIndex` (`validation.cpp:5161`).
- `PreciousTie`.  `nBlockReverseSequenceId` restarts at -1 when the tip has gained
  work, so two precious blocks may share an id and the memory address decides,
  against the help of `preciousblock` (`rpc/blockchain.cpp:1674`).
- `PrunedUnlinked`.  A block pruned while it waits for its parent's body is no longer
  reached when the parent arrives; `m_chain_tx_count` stays unset, against the
  comment and assertion at `validation.cpp:5132`.  The run checks `ChainTxsAlwaysExact`.
- `PruneCrash`.  Pruned files are removed before the coins are written; after a crash
  in that write `ReplayBlocks` may need a removed block and asks for
  `-reindex-chainstate`, against the purpose stated at `validation.cpp:2648`.
  `RecoveryFailsOnlyPruned` shows that nothing else makes a recovery fail: the block at which it
  stops lies on one side of the fork of the two heads and has been pruned.
- `IndexAhead`.  "The committed index state must never be ahead of the flushed chainstate", says
  `index/base.cpp:324`.  `Rewind` respects it, but `Sync` commits by itself the blocks that it
  has reached.  After a crash the committed block may be unknown, and `Init` asks to rebuild the index
  (`status` "notfound"); or its header is known and its data are not, and as soon as the chain
  takes another branch `Rewind` cannot read it and the node shuts down.  `IndexFailsOnlyAhead`, in
  `Threads`, says that the index fails in no other way: always at the committed block, with all it would go back to in place.

Smaller remarks, for which there is no run:

- `validation.cpp:2665` says "First make sure all block and undo data is flushed to disk."
  Only the file of the cursor is synced.  A rev file that was left is synced when the undo data
  of its highest block is written, so undo data of its lower blocks may be named by the
  index on disk and not be synced.  `UndoDurable` states what remains: the last file, and the
  highest block of each other one.
- `NextSyncBlock` returns null also when the tip is a strict ancestor of the block that
  was indexed, not only at the tip, as the comment at `index/base.cpp:226` has it.
- A body stored while `InvalidateBlock` runs, or after one that gave up, under a parent that it
  has marked and above a gap, is not put into
  `m_blocks_unlinked` (`validation.cpp:3697` tests the parent), and a later `reconsiderblock` does
  not put it there either.  `stranded` covers this case and the one of `PrunedUnlinked`.
- An `InvalidateBlock` that gives up half way (the undo data of a block was pruned) leaves a
  header that was accepted meanwhile above a marked block without its mark, and the tip may
  then be missing from `setBlockIndexCandidates` (`gaveUp`).
- `next_difficulty` is exact up to one unit below the largest 64-bit number only.  A chain has to be
  millions of blocks of one second high to get there (`HeightAssumption`).
- `max_difficulty_decrease` and `ComputeMinWork` (`pow.cpp:20`) are not called by the node, and with the real
  constants the clamp of `next_difficulty` to one unit is never reached.

## 6. What is proved

All theorems hold for every block tree and all values of the constants that meet
the named assumptions, which TLC evaluates on the instances.  Of the tree (`BlockTree`) they
assume: finitely many blocks (`GenesisAssumption`, and `CountAssumption`, its consequence for
cardinalities); parents and heights are those of `AddToBlockIndex` (`ParentAssumption`); height
and work grow along a parent chain (`AncestorAssumption`); blocks of one parent chain have a
first and a last one (`LineAssumption`).

`ChainstateProofs`.  `TypeCorrect` and `ActiveChainStaysValid`.
`ActiveChainValid` is not inductive: `ABCStep` connects towards a target found in an
earlier critical section.  `IndInv` adds that the index is closed under ancestors
(`IndexClosed`), that linked blocks are received and have linked ancestors
(`LinkedClosed`), that candidates are linked (`CandidatesLinked`), that the chain was
connected (`ChainConnected`), that a remembered target is still
linked and has no failed ancestor (`TargetGood`) and that the blocks `InvalidateBlock`
remembers are known (`InvalidateGood`).
`FailureAlwaysInherited`: `FailureInv` says what `InvalidateBlock` still has to mark, which is
above the block it disconnected last, and that this block is the one above the tip.
`BestHeaderStaysBest`: `HeaderInv` adds that the map `InvalidateBlock` computed before it released
`cs_main` holds every header that can become the best one, unless something raced.

`ChainSelectionProofs` (on top of the former).  `ChainTxsStayExact` and `UnlinkedStaysExact` rest on
`LinkInv`: a received block is linked or waits, a waiting block has a gap below
it, sequence ids are below the next one.  `CandidatesStayExact`, `PrunedChainsRelink`,
`SettledTipIsBest`, `ProgressBeforeRelease` and `RestartPrefersTip` are about the candidates; all but
the last rest on `SelectInv`.  Its core, `CandidatesComplete`, says that a linked block
without a failed ancestor that is not worse than the tip is a candidate, or comes back when a pruned
block does.  It is not stated of the tip but of `Reference`, the tip `ActivateBestChain` started
from as long as it keeps `cs_main`: in the middle of a failed reorganisation the tip is worse
than blocks that were rightly erased.  `Settled` says that without a pending request no usable
candidate is better than the target `ActivateBestChain` works towards, which is why a target
looked up before a release of `cs_main` loses no arrival.

`ConnectProofs`.  Of `CoinsViewCache` (finitely many outpoints): `FlagsStayConsistent`,
`CoinsImplementUtxoView`, `DirtyCountStaysExact`, `CoinsTypeCorrect`.  The invariant `GoodStack` says that
each cache is well flagged relative to what is below it.  Each operator has a lemma: it
keeps a cache well flagged and changes what it answers exactly as the abstract action.
The flags are what makes `BatchWrite` correct, so the refinement rests on them.
Of `CheckQueue` (finitely many workers and checks, batches of at least one):
`NothingOutlivesComplete`, `CompleteTellsTheTruth`.  The invariant says that a check is in
one place at most and that `nTodo` counts those left (`Batches`), and that while no error is
reported every failing check is still queued or in a batch whose thread knows of it
(`Results`).  It is stated of values and not of variables, because `Loop` cleans up after one batch
and takes the next in one critical section: the lemma `CleanUp` leads to the state between.
`NobodyWaitsInVain`: while the master waits some worker has a batch to account for, and checks
do not lie in the queue with every worker asleep.  `WakeupInv` adds to it what a sleeper
relies on: the master waits only with the queue empty and `nTodo` not zero, and workers leave
only when asked to; the counts of `Batches` then give the worker that holds the rest.

`CoinsFlushProofs` (blocks add no coin that exists and do not spend what they leave).
`FlushTypeCorrect`, `RecoveryRestoresCoins`, `DiskStaysRepairable`, `IndexPrecedesCoins`,
`UnlinkFollowsIndex`.  `CoinsInv` says that each coin of the replay's cache is
as after the block its walk has reached or as after the new head, and that the undo data
restore what a block spent; this is why replaying a half-applied block is harmless.
`IndexInv` orders the two copies of the index and the files at every point of a flush.
`RecoveryNeedsNoUndo`: a recovery fails only at a pruned block.  `UndoInv` says that the blocks
disconnected since the last flush have data and undo data, that a flush takes both
away together, and that a replay stays between the fork of the two heads and one of them.
`RecoveryShrinks`: a step of a recovery that does not crash ends a phase or leaves fewer blocks to
replay (`ToReplay`) or fewer coins to write.

`CallbackProofs`.  Of `TaskRunner` (the sets of threads are disjoint):
`RunnerImplementsOneThread` is the
refinement: `SerialInv` says that `m_are_callbacks_running` is a lock, held by the one thread
that executes a callback; every action is an abstract step or a stutter.
`FlushLeavesNothing` adds that no service thread is left when `flush` runs.
`NoCallbackForgotten`: a pending callback has a task due or a thread that has yet to look at the
queue, although `MaybeScheduleProcessQueue` and `ProcessQueue` return when they find callbacks
running, and a due task is not slept over.  `CareInv` adds that the flag they find
set belongs to a thread that will reset it, and that service threads leave only when asked.
Of `IndexSync`: `IndexFailsOnlyUnflushed`, `ChildHasOneThread`, `SyncedIndexCoversTip`, for any number of
moves of the tip, flushes, restarts and crashes.  `IndexInv` says who works on the child
(`HandedOver`), where the child is relative to the block that thread holds (`InStep`), that every
block on the way back from it, and from the committed block, can be looked up (`Readable`),
that the queued events lead a synced index to the tip, from whichever of them it is at (`Backlog`),
and which blocks can be read (`OnDisk`): those the threads are to append and the events name, and the one the
child is at, unless that is the committed block from which it started.

`HeaderProofs`.  `LogKeepsOrder`: the logarithm of `mpz_log2` is monotone for every accuracy,
although each of its steps rounds down: of two numbers either the first bit
that differs is the larger one's, or the mantissas keep their order (`LogBit`).
`RetargetExact` (a unit below the minimum and the top): the wrapping arithmetic gives the formula
on integers: the checks leave the exact value, or one that the clamps send to the same place
(`ClampsRepair`).  `RetargetFollowsTime`: it is monotone in the timespan, also where the divisor changes.
Recursive functions (`Pow2`, the bits of the logarithm, the states of a
deployment) are handled by one argument: a recursion that
goes down in a rank defines a function, shown with a least counterexample (`HasSmallest`, from the
library's theorem on well-founded relations), and so are the facts about its values.

`DifficultyKeepsFollowing`, of every tree of headers:
`HeaderInv` says that each header has the difficulty `GetNextWorkRequired` asks for after its
parent, which the height bounds.  It assumes that the logarithms of the timespans fit 64 bits
(`LogAssumption`), and that the tree is not so tall that a difficulty comes within a unit of the
top (`HeightAssumption`).

`VersionBitsProofs`, of every tree of headers.  `MedianStaysOrdered`: the median time past never falls along a chain.  It
follows from the rule that a header is later than its parent's median (`MedianInv`): the window
gains a block after the median and loses one at most.
`VersionBitsStayFaithful` (`DeploymentAssumption`: a period has a block, and so has the window):
`VersionBitsInv` says that beside this the cache holds, at ends of periods of known headers, only the state
that BIP 9 gives there from the genesis block on.  `GetStateForFacts` treats the walk back, which
stops at a cached state or before the start time, and the way forward; there the order of the
medians is needed.  `SinceHeightFacts` treats the loop of
`GetStateSinceHeightFor`.  `KnownStaysSame` says that a new header changes none of the answers.

`PeerProofs`.
Of `TxRequest` (finitely many transactions, priorities without ties): `TrackerStaysSane`,
`RequestsGoOutOnce`.  `SanityCheck` is inductive with types, and with `NoneLate`: what the first loop of
`SetTimePoint` has finished, the second keeps.  The lemmas treat one row, the
announcements of a transaction, and `CountStep` the statistics.
Of `BlockFiles` (a block fits into a file): `IndexNamesDurableBlocks` and
`IndexNamesDurableUndo`, for any number of power losses and files.  `LayoutInv`: positions lie
below the sizes, in memory and on disk, and the disk's are not larger.  `BlkInv`: what is not synced lies in
the file of the cursor.  `RevInv`: undo data that counts and is not synced lies there too,
at a height `undo_height` covers, which is what makes `FinalizeUndo` right.

## 7. Only model-checked

Every invariant and action property of the passing runs, and both refinements, have a theorem.
Liveness is out of the prover's reach, and five properties are model-checked only.  For most
of each the safety part is proved:

| Liveness, by TLC | Proved |
|---|---|
| `MasterReturns` | `NobodyWaitsInVain`: no wake-up is lost |
| `EveryCallbackRuns` | `NoCallbackForgotten`, and `FlushLeavesNothing` at the end |
| `RecoveryTerminates` | `RecoveryShrinks` and `RecoveryNeedsNoUndo` |
| `IndexCatchesUp` | `SyncedIndexCoversTip`: where an index is that has nothing left to do |
| `ActivationServed` | `SettledTipIsBest`: where the tip is when nothing is left to do; `ProgressBeforeRelease` |

`NoWakeupLost`, `NoneForgotten`, `RecoveryAdvances` and `MedianNeverFalls` are stated in
the proof modules and in no run; they were checked on the instances of `Node`, `Threads` and
`FlushCrash` before they were proved.  That `mpz_log2` is the logarithm, and not only
monotone and bounded, is checked by `LogAgrees`.

## 8. Not modelled

Assumeutxo snapshots (a second chainstate), the mempool and its graph, peer logic and
connections, the orphanage and the filters around the request tracker, script and
transaction rules (verdicts are constants), wallet, RPC parsing, GUI, IPC, storage library,
cryptography.  The validity of a prime gap and the sieve of the miner are arithmetic on
numbers of hundreds of bits, out of TLC's reach.  `PROJECT.json` lists each with the reason:
pure functions on data, external code, statistical properties, or later work.

## 9. Plan

1. The composition of `BlockFiles` with `CoinsFlush`: power loss between the flush of the
   files, of the index and of the coins.
2. The orphanage and the download manager over `TxRequest`.
3. Pruning in `IndexSync` (prune locks) and the other indexes.
4. The composition of `CoinsFlush` with `CoinsViewCache`: the former takes the net effect of a
   block as given, on the strength of the theorems about the latter.

## 10. Running

    tlc -workers 2 -config ChainRpc.cfg MCChainstate
    tlapm CoinsFlushProofs.tla

The `Chain*` runs and the first three of section 5 use `MCChainstate`; `FlushCrash` and `PruneCrash` use
`MCCoinsFlush`; `Threads` and `IndexAhead` use `MCThreads`, and `Node` uses `MCNode`.  A proof module takes between
one and ten minutes.
