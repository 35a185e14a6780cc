# Verification of the XELIS daemon's chain

TLA+ models of the BlockDAG daemon in `xelis_daemon` (with the parts of
`xelis_common` it rests on), checked with TLC and, for the storage and the
ledger, proved with TLAPS.  The wallet, the miner and the peer-to-peer server
are inventoried here and planned; they are not modelled yet.

## 1. The system

XELIS keeps a DAG of blocks.  A block names up to three parents.  Every node
derives from the DAG one *order*: each ordered block gets a *topoheight*, and
the transactions are executed in that order.  A new block can change the order
near its end, so executed blocks must be undone and executed again in another
place.  Behind the *stable* block the order is final.

| Part | State | Operations | What is hard |
|---|---|---|---|
| Chain (`core/blockchain.rs`) | tips, height, topoheight, stable height, four LRU caches over the DAG | `add_new_block`, `rewind_chain`, `reload_from_disk`, `prune_until_topoheight`, start | re-orders of executed blocks, cached bases after a rewind, orders that get shorter |
| Execution (`blockchain.rs`, `nonce_checker.rs`, `client_protocol.rs`) | which block executed a transaction, which blocks hold it | clean loop, execution loop, `pop_blocks` | one transaction in several branches, two transactions with one nonce |
| Versioned trees (`storage/providers/versioned/`) | per key a pointer and a linked list of versions by topoheight | write, clean a topoheight, read at a maximum topoheight, prune | links that survive a re-order |
| Snapshot (`storage/sled/snapshot.rs`, `commit_point.rs`) | batch, cache, counters | `start_commit_point`, `end_commit_point` | three layers that answer a read |
| Mempool (`core/mempool.rs`) | transactions by hash, list and nonce range by account | `add_tx`, `remove_tx`, `clean_up`, `drain` | the chain changes under the pending transactions |
| P2P server (`p2p/`) | peers, propagation queues, object tracker, one pending chain request per peer | handlers and tasks over packets | timeouts and late answers, bounded channels, a commit point held open across network requests |
| Getwork (`rpc/getwork/`) and miner | jobs, last job, dirty flag | notify, send, accept | rate limit against lost notifications |
| Wallet (`network_handler.rs`, `storage/mod.rs`, `wallet.rs`) | synced topoheight, changes, transactions by index, unconfirmed balances | `sync`, events, `rescan`, building a transaction | re-orders seen through events, a stop between two writes |
| RPC, prompts, serialization, cryptography | | | input and output, data |

How they interact: the peers, the RPC server and the getwork server call
`add_new_block` and `add_tx_to_mempool`.  `add_new_block` runs under the write
lock of the storage: it saves the block, derives the order (Chain), cleans and
executes blocks (Ledger), which writes and undoes versions (VersionedData), and
then cleans the mempool (Mempool).  Chain sync wraps a rewind and a series of
`add_new_block` in a commit point (Snapshot).

The braces of two files do not balance, so they do not compile as they are:
`p2p/chain_sync.rs` (the branch that begins at line 394 is closed before the
chain validator it should contain) and `xelis_wallet/src/wallet.rs` (an `impl`
block at line 784 replaces the end of a function).  No model so far translates
those lines.

## 2. The modules

Operations that hold the write lock of the storage from start to end are
atomic with respect to each other.  A module makes such an operation a single
action, unless a failure or a stop in its middle is of interest; then its
loops are stepped (Ledger, VersionedData, Snapshot).

**`BlockDAG`** – the pure part of consensus as operators over a record of what
is stored: `find_tip_base`, `find_common_base`, `find_tip_work_score`,
`find_best_tip...`, `generate_full_order`, `is_sync_block_at_height`.
Operators that the code memoises take and return the caches.  A hash is a
number because hashes are compared to break ties.

**`Chain`** (extends BlockDAG) – one node.  `AddNewBlock` is the whole of
`add_new_block_for_storage` without transactions: height and stable checks,
distance of the tips from the main chain, saving, cumulative difficulty, best
tip, new tips, common base, new order, topoheight, stable point.  `RewindChain`
is `rewind_chain` with `pop_blocks`, `ReloadFromDisk` keeps the caches while it
looks for the base as the code does, `Restart` starts a node on the same
storage.  Templates order the parents as `sort_tips`
does, and so do the blocks of the model; other orders of the parents are not
explored.  A new block has the lowest or the highest hash that is left, which
covers both outcomes of a tie but not every assignment of hashes.  A rewind
that would fail midway is not taken by `RewindChain`.

**`VersionedData`** – one of the versioned trees.  The pointer and the versions
of each key; `StartReorder`, `CleanTopoheight`, `EndClean`, `ExecuteBlock`,
`EndReorder` step through the clean and execution loops; `StartRewind`,
`PopTopoheight`, `EndRewind` delete topoheights downwards.  `Current`/`AtMaximum` are the reads.  **`TopoHistory`**
is what it promises: the state after each block of the order.
**`VersionedPrune`** adds `delete_versioned_data_below_topoheight`.  The tree of
the assets differs in one way that is left out (its topoheight 0 is not
cleaned).

**`Snapshot`** – one tree of the storage with its batch, LRU cache and counter,
inside and outside a commit point.  `PopBlocks` is what `pop_blocks` does to the
tree of blocks: entries removed, caches cleared, counters loaded again, and the
lowered count written to the disk or the batch but not to memory; `PopFails` is
the same cut short by an error.  `DeleteVersion` is the cleaning of nonces,
which leaves the count of accounts alone.  `StartApply`, `ApplyKey`,
`ApplyCount`, `EndApply` are `end_commit_point(true)` key by key, `Discard` is
`end_commit_point(false)`; `Restart` may come between any two of them.

**`Mempool`** – transactions and the account caches against a chain that is
extended, re-ordered and rewound.  A transaction spends what the one before it
left, so it verifies exactly when its account's last transaction is the one it
was built on; this stands for the ciphertexts and proofs.  The topoheight is a
variable of its own: `AddNewBlock` cleans the mempool when the new order reaches
it, never lowers it, and so skips the clean-up for a shorter order.

**`Ledger`** – which transactions are applied where.  `StartAdd` is the
verification and saving of a block, with the order it leads to as input (any
order that keeps a prefix: Chain decides which one, Ledger must be right for
all); `CleanBlock`, `StartExecute`, `ExecuteTx`, `NextBlock`, `EndAdd` are the
two loops; `StartRewind`, `PopBlock`, `FailRewind`, `EndRewind` are
`rewind_chain`.  `executedIn` is `tx_executed`, `linked` is `tx_blocks`,
`effect` is the set of topoheights whose versions hold the transaction.

`VersionedDataProofs`, `SnapshotProofs` and `LedgerProofs` hold the theorems;
`MC*` modules and configurations are the instances.

## 3. What is checked

| Run | Bounds | Shows |
|---|---|---|
| `chain` | genesis and 5 blocks of at most 2 parents, difficulties 20 and 50, stable limit 2, one rewind, reload or restart | after every block added, and after every rewind of an order that ended at the topoheight: up to a heaviest tip parents are ordered before children, and the order is the one generated from the genesis; the cumulative difficulty of a block is the work of its past, each block once; while all blocks have one difficulty the memoised base of the tips is the one that would be computed |
| `versioned` | 2 keys, 2 values, topoheights 0 to 3 | chains of versions visit exactly the versions, newest first; no version of a dropped block is left; every read implements `TopoHistory` |
| `snapshot` | 2 keys, 2 values, three kinds of trees | read paths agree; a rollback restores every entry and the count the disk held; applying keeps every read; the count of accounts on the disk is the one in memory, the count of blocks is never above it |
| `mempool` | 2 accounts, 6 transactions with competing nonces, 3 blocks of up to 2 | the index of an account matches its transactions; pending transactions are linked; an account's pending transactions are behind the chain only while the topoheight is above the order |
| `ledger` | 3 blocks that share and compete for 4 transactions of 2 accounts | a transaction is applied once; a nonce is used once; marks are true; accounts are sequential; shared transactions and links survive re-orders, rewinds and rewinds that fail |

Why the bounds are enough to be interesting.  Five blocks and a stable limit of
2 let two branches of different length merge, become stable and be rewound; two
difficulties let a shorter branch outweigh a longer one.  `MCChain` bounds what
follows a rewind, reload or restart: blocks are added after it if fewer than
four were ever received or all have the lowest difficulty.  Without that bound
the instance has 404,064 states and takes too long to be a routine run; `TypeOK`,
`CumulativeIsPastWork` and both properties of the order held on it.
Three blocks in the ledger are any re-order of a block, a competitor and one
that repeats transactions of both; the proofs remove this bound.  Six
transactions give one account two histories with different second transactions.
The deadlock check is off in `chain` and `ledger`: the blocks run out, and a
failed rewind ends the ledger.

**Fairness.** None is assumed: all properties are safety properties.  The parts
modelled so far run to completion under a lock; what must *eventually* happen
is in the p2p, getwork and wallet parts.

### Disagreements between the code and its documentation

Seven runs are expected to end in a counterexample.

* `chain_stable` – a block just above the stable height may re-order the block
  at the stable topoheight; README and a comment say the order is final there.
* `chain_topoheight` – a heavier order with fewer blocks keeps the old
  topoheight and the old blocks above its end.  Checked with difficulties 20
  and 50.
* `contract_balances` – the versions of contract balances are not deleted when
  their block is dropped from the order.
* `prune_balances` – pruning removes a balance version that a later re-order
  falls back to.
* `snapshot_remove` – removing a key that the batch does not hold has no effect
  inside a commit point.
* `mempool_kept` – transactions stay in the mempool although the one they were
  built on was replaced by another with the same nonce.
* `ledger_marks` – a rewind removes the executed mark of a transaction that a
  remaining block executed.  Example: blocks S and R at height 1, P on S, M on P
  and R, ordered S, P, R, M; P executes a transaction that R holds too.  A
  rewind of M and R stops at P, alone at its height, and clears the mark.

Three more observations have no run of their own; they are why properties are
stated as they are.

* `pop_blocks` writes the lowered count of blocks to the disk only
  (`sled/mod.rs:814`), after it loaded the counters again.  `count_blocks`
  returns the old count until a restart, and the next block added writes it
  back.  `CountOnDisk` therefore allows the disk to be behind.
* With several difficulties a memoised base can be stale.  Blocks 1 and 5 on the
  genesis, 2 on both (difficulty 20), 3 on 5 (difficulty 50), 4 on 2: the order
  of 3 leaves block 1 out, a base is memoised, and 4 brings 1 back in beside 5.
  `CachedBaseIsFresh` is stated for one difficulty.
* A rewind of blocks that a shorter order left above its end can leave the
  heaviest tip without a topoheight until the next block is added.
  `OrderedAfterParents` and `OrderIsCanonical` leave out such a rewind.

## 4. What is proved

For every set of keys, blocks, transactions and every length of chain.  The
assumptions are the named `ASSUME`s of the modules: finite or disjoint
constants and, in Ledger, that nonces count the predecessors of a transaction.
The bounds (`MaxTopo`, `CountBound`) are arbitrary numbers in the proofs.

* `VersionedDataProofs`: `TypeCorrect`, `ChainsStayWellFormed`,
  `NothingAboveTheOrder`.  A clean loop goes upwards, so in its middle a key
  may have lost a version in the middle of its chain; `ChainsWellFormed` says
  what is still readable then.
  It becomes inductive with `ModeInv`, which ties the counters of the loop to
  the order.  It leaves out the keys of contract balances, which the loop does
  not visit.
* `SnapshotProofs`: `ReadPathsAgree`, `CountStored`, `RollbackRestores`,
  `ApplyKeeps`.  A rollback restores every entry, and the count to what the disk
  held at the start of the commit point: for the accounts that is the count read
  then, for the blocks it may be lower after a rewind.  The invariant `Phases`
  says what cache, batch and disk hold in each phase: a cached value is the value on disk unless the batch has the key;
  while a commit point is applied, the value on disk is the old one or the new
  one according to whether the key is pending.
* `LedgerProofs`: `TransactionsAppliedOnce`, `NoDoubleSpend`, `MarksAreTrue`,
  `AccountsStaySequential`, `SharedTxsSurvive`, `LinksStayExact`.  The invariant
  adds what the two loops have reached: below the loop index the new order is
  cleaned or executed, nothing is applied above it, the nonce expected of an
  account is above every applied one, and a mark names a stored block that holds
  the transaction.

TLC finds no violation of the three inductive invariants on the instances of
section 3 either.

Only model-checked: Chain and Mempool (recursive definitions), the refinement
of `TopoHistory`, and VersionedPrune.

## 5. What is not modelled

Cryptography, proof of work, timestamps, serialization, prompts and RPC
formatting: a hash, a ciphertext or a proof is a model value, and a proof
verifies when the state it was built on is the state it meets.  The contract
virtual machine is an external crate.  In the modelled parts: events, fees and
rewards, block deletion by pruning, migrations, and error exits of
`add_new_block` after the block is saved.  The list of components in
`PROJECT.json` gives the reason for each.

Three abstractions inside modelled operations.  In Ledger a transaction whose
execution fails has no effect but the use of its nonce; the code may keep part
of the sender's changes (`blockchain.rs:2300`).  A rewind that fails ends the
ledger: what the daemon does on the storage it leaves is not modelled.
VersionedData deletes versions as it is done outside a commit point; inside one
the removals go through the batch, where `snapshot_remove` applies.

## 6. Plan

In order of weight:

1. **Object tracker and propagation** – requests, groups, timeouts, late
   answers, the lock held during a send; a block whose transactions cannot be
   fetched.  Safety: an answer reaches the group that asked.  Liveness under weak
   fairness of the two loops: every request is answered or cancelled.
2. **Chain sync** – composes Snapshot, the rewind and other tasks that add
   blocks between the start and the end of the commit point.
3. **Wallet** – synchronisation against a daemon that re-orders, with stops
   between the writes; the bisection over transaction indexes as a pure operator
   against its reference; the abstract promise is the history of the daemon.
4. **Getwork and miner** – dirty flag and rate limit, with liveness: the last
   template reaches every miner.
5. **Chain with mempool and pruning** – the order of additions after a rewind,
   error exits and stops inside `add_new_block`, deletion of pruned blocks.
6. **Pure operators** – rewards, side blocks, average block time, fee
   estimates, transaction selection.
7. **Proofs** – Mempool and the invariants of the tracker and of chain sync;
   VersionedData implements TopoHistory.
