# swym in TLA+

swym is a software transactional memory for Rust: per-object TL2 with a global
epoch clock, optional hardware transactions, epoch based garbage collection,
parking retry and starvation control, and a red-black tree built on it.  This
directory models the parts of it that a test hardly reaches, checks them with
TLC and proves the central ones with TLAPS.

## The system

| part | state | operations | interacts with |
|---|---|---|---|
| epochs (`internal/epoch.rs`) | `EPOCH_CLOCK`; an `EpochLock` per cell, whose word holds an epoch, the lock bit and the unpark bit; a `ThreadEpoch` per thread | `now`, `fetch_and_tick`, `try_lock`, `unlock_publish`, `unlock_undo`, pin, repin, unpin, set and clear the unpark bit | everything |
| transactions (`internal/thread.rs`, `rw.rs`, `read.rs`, `tx.rs`) | the logs of the thread, its pin | `run_read`, `run_rw`, `borrow`, `set`, retry | logs, commit, parking, starvation |
| commit (`internal/commit.rs`) | locks held, reads still to be validated | `commit_soft`, `commit_hard`, lock failure, validation failure | epochs, logs, garbage |
| read log, write log, bloom filter | vectors of entries; 64 bit filter with an overflow map | `record`, `find`, `entry`, `overwrite`, `tombstone_replace`, `clear` | transactions, commit |
| garbage (`internal/gc/thread_garbage.rs`) | `UNUSED_BAG_COUNT` bags: one speculative, the others sealed or unused | `dispose`, `seal_with_epoch`, `collect` | commit, quiescence |
| quiescence (`internal/gc/quiesce`) | list of all threads' `Synch`, a mutex, one shard of the list's lock in each `Synch` | `quiesce`, register, unregister | thread epochs |
| parking (`internal/parking.rs`) | unpark bits, the queue of parking_lot | `park`, `unpark`, cleanup | EpochLocks, commit, quiescence |
| starvation (`internal/starvation.rs`) | a state byte, a queue, the `Progress` of each thread | `failed_to_progress`, `progressed`, `wait_for_starvers` | transactions, commit |
| thread key (`thread_key.rs`, `phoenix_tls.rs`) | thread local, cached pointer, reference counts | `get`, clone, drop, thread exit | transactions, quiescence |
| swym-rbtree | nodes of transactional cells | `get`, `insert`, `remove`, `entry`, `atomic` | transactions |
| swym-htm, stats, containers, examples | | | |

What is hard here: the copy of a value races with the commit that changes it;
a commit takes its locks and checks its reads one at a time; the clock dates
commits in another order than their locks do; the words of epochs have an end;
memory is freed while others may be reading, and threads come and go during the
wait for them; sleepers and wakers share no lock but that of a queue; a state
byte, a queue and the states of threads are changed one after the other; a
destructor may call everything again; a tree is walked without logging what is
seen.  PROJECT.json lists these hazards at their lines.

## Modules

**Epoch** has the words of `epoch.rs` with `LOCK_BIT` as a parameter, so that
the end of time is a few ticks away in a run.

### Stm, StmHistory, Serial: transactions and commits

**Stm** models transactions and commits.  One step is one access to memory that
threads share: one word of a cell, one EpochLock, the clock.

| code | variable |
|---|---|
| `EPOCH_CLOCK`, `TCellErased::current_epoch`, `TCell::value` | `clock`, `epoch_lock`, `value` |
| `Synch::current_epoch` | `thread_epoch` |
| `Logs::read_log`, `write_log`, `garbage` (speculative bag) | `read_log`, `write_log`, `garbage` |
| the copy made by `optimistic_read_*` | `cursor`, `buf` |
| locks behind `unlock_until`, rest of `validate_reads`, rest of `perform_writes`, result of `fetch_and_tick` | `locked`, `unvalidated`, `unwritten`, `sync_epoch` |
| (history) what borrows returned; the committed store at each epoch | `reads`, `snap` |

The user's closure is arbitrary: it borrows and sets any cell in any order,
ignores the Error of a borrow or returns one later, panics or finishes.  What
is abstracted: a log is a set or a function instead of a vector; the types of
cells are one set of values whose words can be torn apart; a hardware
transaction is atomic and may fail at any time; locks and validations are taken
in any order, which includes the order of the logs; the bag is a function from
cells to the value queued for each (the case of a type that needs drop; values
of other types never reach the bag).  Steps interleave one after the other: the
relaxed and release/acquire orderings of the code are not weakened further
here (Gc does so for the one store where it matters).  `wait_for_starvers` is
part of the `Commit` step, which nothing forces to happen; `seal_with_epoch` is
part of `CommitDone`, when no lock is held any more; both are opened up in
modules of their own.

A `set` that fails ends the attempt in Stm.  What the write log keeps of it
when the closure goes on is a question of its own, asked in WriteLog.

**StmHistory** adds the order in which writing transactions take effect.  The
moment is that at which a commit holds its last lock: `order` then gets an entry
with the cells it has to check and those it writes.  The tick gives the entry its
date, a failed validation withdraws it.  **StmHistoryInvariant** has what must be
known of the entries for a proof.

**Serial** is the abstract specification: "as though a single global lock were
held for the duration of every transaction" (`lib.rs`).  It has no clock, no
locks and no copies.  A transaction that writes takes its turn while it runs; in
the end it has had its effect at that turn, at once and for good, or none.
What it borrows is what the turns up to one moment have left, which include all
that were over when it began; it can commit only if what it upholds is what
the turns before its own have left, and if nobody who looked from a later turn
has missed what it writes.

**StmSerial** maps StmHistory to it: `IsSerial == Abstract!Spec`.

| Serial | StmHistory |
|---|---|
| `turns` | the length of `order` |
| `history` | the entries of `order` that have a date |
| `active` | the threads between their pin and their tick, failure or unpin |
| `turn` | the place of the entry of a commit that has not ticked |
| `since` | the last entry dated no later than the pin |
| `borrowed`, `logged`, `pending` | `reads`, the read log, the write log |

`Begin` is the pin, `Borrow` the check that ends a borrow, `Set` the check that
ends a `set`, `TakeTurn` the last lock or the hardware transaction, `Commit` the
tick, `End` any end without effect.  Everything else stutters: single locks,
copies, checks, writes to memory, publication.

### WriteLog

**WriteLog** opens up what Stm takes for a function from cells to pending
values: one thread's vector of entries (`data`), the bloom filter in front of
it (`filter`, a set of bits; `bits` is `bloom_bit` of each cell's address, any
assignment), and the hash map built when the filter fails (`overflow`, 0 for a
cell that is not in it).  Every borrow, set and end of a transaction is an
action; the log and the history `pending`, `failed` live through any number of
transactions.  Other threads appear as the set `invalid`: a cell may fail or
pass `rw_valid` at any moment.  An index counts entries instead of words, and
`needs_drop` and the growth of a vector are a free choice of the slow path.
A closure may return a SetError or go on, as `tx.rs` allows; `pc = "undefined"`
is an access past the end of the vector.

### Gc: bags, quiescence, the list of threads

**Gc** composes the garbage of a thread with quiescence and registration.

| code | variable |
|---|---|
| `ThreadGarbage::{speculative_bag, sealed_bags, unused_bags}`, the bags taken out by `collect` | `speculative_bag`, `sealed_bags`, `unused_bags`, `draining` |
| `Synch::current_epoch`, and a store to it that is still in a store buffer | `current_epoch`, `store_buffer` |
| `GlobalSynchList`: the list, `mutex`, each `Synch::lock` held exclusively or shared | `synchs`, `mutex`, `exclusive`, `shared` |
| the iteration of `quiesce` or of `write`, and the minimum found | `visit`, `min_epoch` |
| (history) what destructors have been run on | `dropped` |

Transactions are those of Stm as the collector sees them: `LoadNow` and `Pin`
are two steps, a commit locks its write set at once (Stm interleaves that) and
the bag holds exactly what the commit replaces (theorem `GarbageIsExact`).
Sealing, freezing the list, the visit of each `Synch`, the wait in
`local_quiesce`, unfreezing, and the recycling of each bag are steps; so are the
mutex, each shard and the change of the list when a thread comes or goes.
`DestructorsPanic` says whether a destructor may unwind out of `drain`.
`Buffered` are the threads whose plain stores to their ThreadEpoch reach others
late, as on every common processor; a locked instruction waits for the buffer.

### Parking: AWAIT_RETRY

**Parking** has `park` under the lock of parking_lot's queue (`queue_lock`):
clear the unpark bit of each cell of the logs by compare-exchange, validate,
clean up on failure, sleep; and the commits of the others: `try_lock` that
finds a cleared bit (`has_parked`), undo in its two steps (load, store),
publish, then `unpark` with its filter, one sleeper at a time.  A cell may live
in the value of another (`Guard`); overwriting the guard unlinks it and the
collector frees it when no pinned thread is older, so that a sleeper, who is
not pinned, can be asked about memory that is gone.  Logs and write logs are any
sequences of cells: a closure may have got to a node with `Ordering::Read`, with
no trace of its guard in a log, and may write cells inside of nodes.  `reached`
keeps it to cells that were not unlinked at its pin.  The word of a freed cell
stays as it was; whether anybody looks at one is a question for the properties.
The queue and its callbacks are external and taken from how `parking.rs` uses
them.

### Starvation

**Starvation** has the state byte (`locked_bit`, `parked_bit`), the queue, and
the `Progress` of each thread (`starving`, `failed`, `backoff`), with epochs as
ticks relative to each thread and capped where the code stops comparing, so that
behaviours do not end and liveness can be checked.  A transaction may fail when
another one commits or has committed since its pin, unless it shares no cell
with anyone (`Disjoint`).

### RbTree, Dictionary

**RbTree** writes insertion, removal and both fixups of swym-rbtree as operators
on a transaction: cells as the closure sees them, reads that are logged, writes.
Two symmetrical branches of the code are one definition with the side as a
parameter.  Closures are sequences of calls (`RBTreeMap::atomic`, `entry`,
`insert`, `remove`, `get`) that run on a snapshot, which is what `Opacity`
justifies, and commit if nothing they logged or write has changed.  Removed
nodes stay as long as an open transaction mentions them (Gc).

**Dictionary** is the abstract specification: a map whose closures happen at
once.  `IsDictionary == Abstract!Spec` with `map <- contents`, the keys and
values found in the committed tree, states that the tree implements it.

### ThreadKey

**ThreadKey** is one thread of the operating system: the thread local `__SLOW`,
the cached pointer in front of it, reference counts, and as `frames` the call
stack of the transactions and collections that have not returned.  User code
runs outside of transactions, in closures and in the destructors that a
collection calls, and may get, clone and drop keys in all three, also after the
thread local is destroyed.  `try_new` refuses a transaction only on a Thread
that is pinned, so a closure may run one on another Thread.  `inside` (history)
has the epochs sealed by such transactions during the one they are inside of.
Of other threads there is only the clock and their minimal epoch: what they hold
up they let go of (`EveryoneReturns`).

### Proofs and instances

**StmInvariant**, **GcInvariant** and **ParkingInvariant** have the inductive
invariants of their components; those of WriteLog, Starvation and ThreadKey
(`LogInv`, `StarveInv`, `KeyInv`) are in the modules themselves.  **StmProofs**,
**WriteLogProofs**, **GcProofs**, **ParkingProofs**, **StarvationProofs** and
**ThreadKeyProofs** have the proofs, **SeqLemmas** what several of them need to
know of `Append`, `SubSeq` and smallest elements.  The **MC** modules have the
instances for TLC.

## Properties

* `Opacity`: everything a transaction has borrowed, whether it commits or not,
  is the store at the epoch it is pinned at.
* `GarbageExact`: a commit that can no longer fail has queued exactly the
  values it replaces, although `set` read them without a check afterwards.
* `LockDiscipline`: an EpochLock has one owner; without an owner the cell holds
  the value committed last, and its epoch has come.
* `LocksReleased`: whoever holds EpochLocks lets go of them.
* `WritersSerialize`, `ReadersSerialize`: the order of StmHistory explains what
  every transaction has read.
* `IsSerial`: transactions implement Serial.  Besides the two above this says
  that effects are for good and at once, that a transaction sees all that was
  over when it began, and that one that fails leaves nothing behind.
* `ReadsOwnWrites`: through filter, map and vector a transaction finds the
  value it set last, and nothing for a cell it has not set.
* `PublishesPending`: commit walks over one live entry per cell that was set,
  with the value set last.
* `OnlyWritesRemoved`: `commit_soft` drops a logged read only if it is going to
  lock its cell.
* `MapOnlyOverflowed`: `Bloom::clear` leaves nothing in the map, whatever the
  closure does with its errors.
* `NoUseAfterFree`: no value is destroyed that a running closure has borrowed
  or that is still in its cell.
* `BagsConserved`: the bags of a thread always add up, and one is at hand
  whenever a commit takes one unchecked, unless destructors panic.
* `NothingLeftBehind`: a thread that leaves the list has collected all.
* `ListFrozen`: nobody changes the list of threads under a collector, which
  holds nothing but its own shard of the lock.
* `NoCircularWait`: in no group of threads does each wait for another one of
  the group, be it for a shard of the list's lock, its mutex or the end of a
  transaction.
  `EveryoneReturns`: whoever collects, comes or goes is done some time.
* `NoLostWakeup`: a cell that a sleeper watches is unchanged with its bit
  clear, or somebody who knows of sleepers has locked it or is still going to
  look at this one.  `Woken`: a sleeper whose cells have changed wakes up.
* `NoFreedCellWatched`: of the cells that have their guard before them in the
  log (`Anchored`), neither a thread that clears the bits of its cells, nor the
  filter of `unpark`, looks at one whose memory is gone.
  `NoFreedCellCleaned` says the same of the cleanup, and does not hold.
* `ControlAccounted`: bits, queue and starving threads agree at every step.
  `FairHandoff`: who sleeps as a starver is let go only as the next starver.
  `FailedProgress`: a thread that has failed gets its transaction done.
* `Verified`: the assertions of `RBNode::verify` hold after every commit.
  `IsDictionary`: every closure returns and leaves what it would alone.
* `RefCounted`: references counted are references that exist, and the cached
  pointer leads to one.  `LogsUnique`: the logs and bags of a Thread are used
  by one frame of the stack at a time.  `OnlyNestedSelfWaits`: a collection
  waits for a transaction further down in its own stack, and so for ever, exactly
  if the bag it waits for was sealed inside that transaction.

## Runs

| run | instance | shows |
|---|---|---|
| stm_two_cells | 2 threads, 2 cells, hardware transactions, `Frugal` closures, clock beyond `LOCK_BIT` = 6; with fairness | TypeOK, Opacity, GarbageExact, LockDiscipline, IInv, LocksReleased |
| history_three | 3 threads with one attempt each, 2 cells, hardware or software | WritersSerialize, ReadersSerialize, HInv, IsSerial |
| write_log | 3 cells, 2 values, 2 bits, 3 entries | WriteLogTypeOK, MapOnlyOverflowed, ReadsOwnWrites, PublishesPending, LogInv, OnlyWritesRemoved |
| gc_safety | 3 threads, 1 cell, 3 bags, commits up to epoch 9 | GcTypeOK, NoUseAfterFree, BagsConserved, NothingLeftBehind, GcInv, ListFrozen |
| gc_liveness | 2 threads that commit, one of them behind a store buffer, 1 that comes and goes; 2 bags, two commits, destructors panic; with fairness | NoCircularWait, EveryoneReturns |
| parking | 2 threads, a root, a node behind it and another cell, logs with and without the root, hardware transactions, drops that panic; with fairness | NoLostWakeup, NoFreedCellWatched, ParkInv (with ParkingTypeOK), Woken |
| starvation | 3 threads, one of them without conflicts; with fairness | StarvationTypeOK, ControlAccounted, FairHandoff, StarveInv, FailedProgress |
| rb_tree | 2 threads; 8 keys alone or beside an insertion that climbs, 4 for any overlap, 2 for closures of two calls | Verified, IsDictionary |
| thread_key | 4 addresses, 3 bags, 2 keys to each Thread, four commits | ThreadKeyTypeOK, RefCounted, LogsUnique, OnlyNestedSelfWaits, KeyInv |
| rb_unlogged | `insert` and `remove`, 4 keys, 2 threads | an assertion of `verify` is violated |
| gc_store_buffer | 2 threads, both behind store buffers | the documentation of `is_quiesced` is violated |
| parking_cleanup | as parking, every log with the root, without fairness | the documentation of `is_quiesced` is violated |

### The bounds

*Stm.*  Two threads and two cells are what write skew and opposite lock orders
need; three threads are what it takes for a reader to tell apart two commits
that lock and tick in opposite orders.  The cells of the runs have one word:
torn copies are left to the proof of `Opacity`, which has any number of words.
With `LOCK_BIT` = 6 the clock runs into the lock bit at the second tick, and
`ClockBound` lets the commits under way then end their ticks.  `Frugal` closures
log every borrow, set a cell once and write a value that names the thread; they
return any result, whatever they got, and panic.  `MaxAccesses` stops a closure
of either run after two accesses: a borrow and a set for write skew, two sets
for locks in opposite orders and a garbage bag of two, two borrows for a torn
snapshot.  `OneAttempt` gives each thread of history_three one transaction that
borrows and then sets; a cycle of conflicts takes two accesses of each.  Locks,
checks, the tick and each unlock remain steps of their own; a copy with its check,
and the writes to memory, are over before another thread moves (stm_two_cells
interleaves them).  With `LOCK_BIT` = 8 the third commit of history_three reaches
the end of time.

*WriteLog.*  Two bits make the filter collide and fill up at once, and three
cells give a collision beside a cell on its own; every assignment of cells to
bits is an initial state.  `OneInvalid` has at most one invalid cell at a time:
an action looks at one cell.  `EntryBound` stops at `MaxEntries` entries,
tombstones included.  The run may deadlock: nothing is said of a thread after
undefined behaviour.

*Gc.*  Three bags are one speculative and two sealed: a collection may find one
of them due or both, and nine as the last epoch to commit at is enough for
a thread to fill them and go on.  Three threads give a collector, a reader it waits for and one
that comes or goes; `Crowd` has all three at once only up to epoch 5, and
afterwards one is gone at any time.  One cell is enough: the collector looks at
epochs, never at cells.

In gc_liveness a thread has one sealed bag and collects after each commit.  Two
commits (epoch 7) give two collectors at a time, and a collector that waits for a
pinned thread which is going to commit and collect itself, while the visitor
announces itself as a writer of the list and takes the shards one by one.  That
is what it takes to tell the order in which `freeze_list` stores the end of time
and takes its shard: the other way round, a pinned thread would wait for its
shard behind the writer, the writer for the other collector, and that one for the
pinned thread.  `Roles` fixes who commits and who comes and goes, which
leaves out steps that no fairness asks for; closures there write without
borrowing, since nobody waits for a Ref but for a pin.

*Parking.*  One sleeper and one committer suffice for each of the races; the
epoch 9 allows three commits: one that changes what parking fails on, one that
unlinks the node, and one more.  `ReadLogs` are root, node, other, so that
parking can fail with two bits to be set again, and node, other, for a closure
that has logged nothing on its way to the node.  `WriteLogs` are other, root,
which locks a cell that nobody may watch before one that somebody does and
unlinks the node, and the node alone, after which sleepers may still come.
parking_cleanup leaves out the log without the root, for which the property would
fail on other grounds.  All threads may sleep for ever, so the runs do not check
for deadlock.

*Starvation.*  `SPIN_LIMIT`, `YIELD_LIMIT` and `MAX_ELAPSED` are 0, 1 and 1:
only which of them has been reached matters.

*RbTree.*  Eight keys reach every case of both fixups.  Transactions that
overlap are bounded by `SmallOverlap`: any two of one call on four keys, where
one transaction rotates what the other has walked through; and, on all eight
keys, an insertion that turns a black node below the root red and climbs on from
there or rotates (`Climbs`), beside any insertion or removal: with four
keys `insert_fixup` would only ever end at the root.  `MAX_NODES` nodes of one key are a committed one and those that open
transactions allocate or still mention.

*ThreadKey.*  Four addresses are the Thread of the thread local and three
temporaries, each made by the destructor that another runs or inside the closure
that another runs.  Four commits are two bags of one Thread, which makes it
collect, inside a transaction of another that then commits twice itself.
`MaxKeys`,
`MaxEpoch` and the addresses run out, hence no check for deadlock.

Symmetry permutes threads, cells, values, bits or addresses in runs without
liveness; no definition tells them apart except by `\E` and `\A`.  (In the runs
of Stm the values written are the threads' names.)

### Fairness

No fairness is assumed of what a thread does of its own accord: begin, come,
go, commit or park.

* Stm: `FairSpec` is weakly fair to the commit steps of a thread that holds
  EpochLocks.  Between the first `try_lock` and the last unlock the code calls
  nothing that blocks: `wait_for_starvers` comes before, `unpark` and the wait
  for quiescence in `seal_with_epoch` come after.
* Gc: a thread that has started goes on, and a closure that is not stuck in a
  loop returns (weak); the mutex and the shards of parking_lot are fair locks, so
  whoever waits is served in the end (strong, for `LockMutex` and `Freeze`).
  `RolesSpec` of gc_liveness states the same for each thread's part: only the
  visitor takes the mutex, only the others freeze the list.
* Parking: the same of threads that are awake, strong for the queue's lock.
* Starvation: the module's own documentation asks for "a fair scheduler".  Weak
  fairness is not enough: between setting the parked bit and the validation of
  `park` the bit can be cleared, and a thread in its loop can lose that race
  every time.  `NoBadLuckSpec` assumes that it does not (strong, for `Park` and
  for the check that ends `wait_for_starvers`).

## Findings

* `swym-rbtree/src/lib.rs:114`: `insert` and `remove` walk down the tree with
  `Ordering::Read`, which logs nothing, and then log and write only what they
  touch.  With keys 1, 2, 3 in the tree, `insert(4)` finds 3 and recolors 1 and
  3, while `remove(3)` writes only `2.right`.  Both commit: 4 hangs below a node
  that is no longer in the tree, and the black depths asserted at
  `base.rs:1068` differ (rb_unlogged).  Closures whose insertions go through
  `entry`, which walks with `Ordering::ReadWrite`, do not have the problem
  (rb_tree).
* `internal/thread.rs:259`: a pin is a store with `Release`, which does not
  order it before the loads of the transaction that follow.  As long as it is
  in the store buffer, `quiesce` takes the thread for inactive and destroys what
  it may be reading (gc_store_buffer), against the documentation of
  `is_quiesced` (`synch.rs:50`).  `NoUseAfterFree` in gc_safety is therefore
  conditional on stores of pins that are visible before the first load.
* `internal/parking.rs:132`: a thread that parks has unpinned (`thread.rs:458`).
  What keeps the memory of its cells alive from then on is that a commit which
  overwrites one of them finds the cleared unpark bit and has to take the
  queue's lock before it collects.  `park_failure_cleanup` gives this up cell
  after cell.  Log root, node, other, where the node is reached through the root:
  other has changed, so parking fails; the bit of the root is set again; a
  commit overwrites the root, finds nothing cleared, collects and frees the
  node; then the cleanup does its `fetch_or` on the EpochLock in the freed node
  (parking_cleanup).  `NoFreedCellWatched` is what remains true.  Setting the
  bits in the opposite order, or a pin around the cleanup, would close the gap.

Seen while modelling, without a run:

* The protection of parked cells rests on the guard of a node being in the log,
  before the node.  A closure that reaches a node by a borrow with
  `Ordering::Read`, as swym-rbtree does, does not log the guard, and nothing
  keeps the node alive while the thread sleeps: the validation of `park`, its
  cleanup and `should_unpark` may then read an EpochLock in freed memory.  The run
  parking has such logs; wakeups are not lost because of them as long as the word
  is intact, and `NoFreedCellWatched` claims nothing of their cells.
* `tx.rs:22` says that a TCell that has returned `Error` keeps returning errors
  for the rest of the transaction.  Nothing remembers the error: if the cell was
  merely locked and its owner fails, `unlock_undo` gives it its old epoch back
  and the same borrow succeeds.  Opacity is not affected.
* `epoch.rs:182` says that `fetch_and_tick` only returns epochs with a valid
  `next`.  At the end of time it does not, and `unlock_publish` stores a word
  with the lock bit set.  Opacity still holds (stm_two_cells), because `now`
  refuses to pin from then on.  This concerns 32 bit platforms only.
* A `set` that leaves the fast path reserves an index in the map
  (`write_log.rs:237`) before it checks the cell, and a SetError leaves the
  reservation there.  In a closure that goes on, a second `set` succeeds
  (against `tx.rs:59`) and overwrites another cell's entry or reaches past the
  vector, and an earlier read of the cell is dropped at commit unvalidated.
  This is why the properties of WriteLog exempt the time between a SetError and
  the next clear.
* `borrow_unlogged` of an invalid cell overflows the filter of an empty log
  (`rw.rs:113`), and a closure that then returns Ok fails the assertion of
  `is_empty` (`write_log.rs:151`) in a debug build.  In a release build this
  costs time and nothing else: `LogInv` does not need the assertion.
* A destructor that panics while several bags are drained loses the bags that
  have not been recycled (`thread_garbage.rs:267`), against the assertion "lost
  or gained a bag!" (`thread_garbage.rs:206`); without it, `open_bag_unchecked`
  ends up without a bag.  gc_safety with `DestructorsPanic` violates
  `BagsConserved`.  The theorem has it for destructors that do not panic, or for
  two bags, of which only one is ever drained; the code has 64.
* `ParkPinMutRef::drop` (`thread.rs:457`) pins again after a panic in the drop
  of a pending write has unwound past the pin, against the assertion at
  `epoch.rs:445` if the thread is pinned already.
* `starvation.rs:10` promises progress.  It holds for threads that have failed
  (`FailedProgress`); one that never failed may wait for starvers for ever, as
  new ones can take control each time before it looks.
* `remove` and `insert` with `Ordering::Read` inside `atomic`: a key that is
  not found leaves no logged read behind, so the rest of the closure is not
  serializable with it.
* `thread_key.rs:93` says that nested transactions are refused.  They are on the
  Thread that is pinned; but after the destruction of the thread local each `get`
  makes a new Thread, and a transaction on it runs inside of another.  When it
  commits garbage and the temporary collects while the outer transaction is still
  running, because its bags are full or its last key is dropped, the collection
  waits for that transaction, and so for ever.  `OnlyNestedSelfWaits` says that
  this is the only way, and that it always ends so.
* A `get` inside a closure after the destruction of the thread local registers
  a Thread (`phoenix_tls.rs:181`) while another one of the same stack is pinned.
  Registration waits for collectors, and collectors wait for pins: Gc lets only
  unpinned threads come and go, and ThreadKey has no other threads, so neither
  covers this wait.

## Proofs

StmProofs proves, for every set of threads, cells, words and values, with and
without hardware transactions and for every even `LOCK_BIT` above `FIRST`:
`Spec => []IInv`, and from it `TypeOK`, `Opacity`, `GarbageExact` and
`LockDiscipline`.  The only assumptions are `LockBitAssumption` and
`StmAssumption`, which say that the constants are of the right kind.

The argument.  A borrow looks at the EpochLock only after its copy.  Opacity
alone is therefore not inductive: nothing in it speaks of the words in `buf`
that have not been checked.  `IInv` says that such a word is the right one *or*
the copy is `Doomed`: the cell is too new for the reader already, or its owner
is past the point of no return and will make it so.  `DoomedStep` shows that
doom is for good as long as the reader stays pinned, `ValidIsNotDoomed` that
the check fails for a doomed cell, and `CopyIsRight` that a word loaded at any
moment is right or doomed.  The same disjunction covers the value that `set`
queues for destruction; there the lock taken at commit is the check.
`CellInv` ties every cell to the snapshots: a free cell has not changed since
the epoch in its lock, a held cell has changed by exactly the words written so
far.  The proof has one step per action and one lemma per part of the
invariant.

StmHistoryProofs proves from it, under the same assumptions, that transactions
are serializable: `WritersSerialize` and `ReadersSerialize`, for any number of
commits, and with `HistoryIsStm` that the history leaves Stm as it is.
Transactions lock in one order, tick in another, and validate in between; `HInv`
ties the three together.  `OrderedInv`: two that write the same cell tick in the
order of their entries, because the second has the lock only after the first has
published.  `StoreInv`: therefore each snapshot is what the entries dated by then
say, although other entries are dated out of order.  `VisibleInv`: a date shows
in the EpochLock of each cell it stands for, or its owner still holds the cell.
So a check that succeeds (`ValidSeesAll`) has seen every writer of the cell that
has an entry; whoever comes later ticks later than the pin.  For a commit this is
`PendingInv` (what has been validated stays validated until the end, whatever
others do) and `DecidedInv` (nobody that it has read from can fail any more); for
a reader it is `ReadInv`, by which the transactions that its pin shows are a
prefix of the order as far as the cells it has borrowed are concerned.
`LoggedInv` says that the reads which `commit_soft` drops from the log are checked
by a lock.  There is one lemma per way a step changes the history: `AppendStep`,
`WithdrawStep`, `DateStep`, `KeptStep`.

`TransactionsAreSerial` is the refinement, `HistorySpec => IsSerial`, again under
the same assumptions.  `EntryInv` adds to `HInv` what the mapping needs: an entry
has the reads its owner is to uphold, and a cell that is being borrowed has not
been set.  `SerialKinds` sorts the steps of StmHistory by what they are to
Serial, and there is one lemma for each kind: `SilentIsStutter`, `PinIsBegin`,
`BorrowIsBorrow`, `SetIsSet`, `LockIsTurn`, `EndIsEnd`, `TickIsCommit`.  Two of
them have something to say.  A borrow returns what the last entry dated by the
pin has left: entries that come earlier in the order but are dated later, or
not yet, do not matter, by `ReadInv`.  A tick finds its reads as its turn has them (`TickReadsNow`), since by
`DecidedInv` nobody they come from can still fail; and nobody has missed its
writes (`TickUnseen`): had an entry behind it that is dated, or the prefix of a
pinned transaction, looked at such a cell, this entry would have a date by
`DecidedInv` or by `ReadInv`.  That `Begin` looks at the dated
entries makes the order strict: who begins after a commit comes after it.

WriteLogProofs proves, for every set of cells, values and bits and every
assignment of cells to bits, that `LogInv` is invariant, and from it
`WriteLogTypeOK`, `MapOnlyOverflowed`, `ReadsOwnWrites`, `PublishesPending` and
`OnlyWritesRemoved`.  `LogInv` has two parts that need each other: `Exact`, the
live entries of the vector are the pending values, each once, and the filter
knows them; `Mapped`, an overflowed filter comes with a map of exactly the live
entries.  A filter that has not overflowed must have an empty map, or the next
overflow would mix in old indices.  A SetError breaks `Mapped`, so both are
claimed except between a SetError and the end of its transaction; what makes
that inductive is that the filter stays overflowed until the clear, which then
empties the map.  `ExactStep` has the actions while nothing has failed,
`SpoiledStep` those after.

GcProofs proves, for any number of threads, cells and bags, that `GcInv` is
invariant, and from it `GcTypeOK`, `NothingLeftBehind`, `ListFrozen` and
`NoCircularWait`; `NoUseAfterFree` for threads whose pins are seen at once (`Buffered = {}`); and
`BagsConserved` if destructors do not panic or there are two bags.  The runs
gc_store_buffer and, for three bags, the findings above show that neither
condition can be dropped.  The argument for `NoUseAfterFree` follows a value from
its cell to its destruction.  `PinInv`: who holds a Ref is pinned at the epoch it
reads at.  `CellInv`: a value is replaced by the one commit that has its cell
locked.  `TrashInv`: what is in a bag is `Replaced`, so that nobody can borrow
it any more, and whoever holds it is pinned no later than the epoch of the
bag.  `WalkInv` is the heart: of the bags that are due at the minimum found so
far, no thread that `quiesce` has walked past holds anything, and the one it
waits for holds nothing unless it is still pinned where it was.  For the walk to
mean all threads the list must stay as it is, which is `ListInv`: a collector's
own shard is enough, because whoever changes the list has all of them.
`NoCircularWait` needs `WaitInv`: who is not in a transaction shows the end of
time or later, also while it waits for its own shard, so that no collector waits
for it; and a shard is held only by who has frozen the list.  By
`WaitsDescend` the waits of a circle would have to go down from the one kind of
wait to the next without end.

ParkingProofs proves, for any threads and cells, any logs and write logs, and any
way in which cells live behind each other, that `ParkInv` is invariant, and from it
`ParkingTypeOK`, `NoLostWakeup` and `NoFreedCellWatched`.  Lock bit and unpark
bit of a word are changed by threads that share no lock, so that there is
little to say about a word.  The proof follows what the word says about time
once it is unlocked (`newer`), which only `unlock_publish` changes.  `ClearInv`:
a watched cell that has not changed has its bit clear.  `OwnerInv`: whoever has
locked a word without its unpark bit knows that there may be sleepers.
`UndoInv`: what the two steps of `unlock_undo` may lose is at most an unpark bit
that nobody relies on.  `CleanupInv`: a bit that was still set when a parking
thread cleared it is none that a sleeper relies on.  `AlarmInv` needs its
strengthening: for a cell that has changed there is not only somebody who will
look at the sleeper, but one who has ticked no later than any commit that has
published the cell since.  Such a thread is still pinned, so a collector that has
ticked later waits for it: that is why no memory is freed that the sleeper's
log leads to (`FreeInv`).
All of this is asked only of cells that have their guard before them in the log,
which is a condition in the property; `ParkingAssumption` says what kind the
constants are of and nothing else.

StarvationProofs proves `StarveInv`, and from it `StarvationTypeOK`,
`ControlAccounted` and `FairHandoff`, for any threads and limits.  `QueueInv`
(who sleeps is in the queue once), `StarverInv` (one starver, which is awake, and
the bits that say so) and `BackoffInv` (who wants control has failed long
enough) need each other: a handoff looks at the queue, the bits and the backoff
of somebody else.

ThreadKeyProofs proves `KeyInv`, and from it `ThreadKeyTypeOK`, `RefCounted`,
`LogsUnique` and `OnlyNestedSelfWaits`, for any number of Threads, keys and frames
and transactions inside of each other.  `InsideInv` is the reason for the last:
of the bags that are sealed, a Thread is pinned no later than exactly those that
were sealed inside its transaction.  Everything else that was committed here is
older than its pin.

Gc, Parking and ThreadKey commit only while the clock is below `MaxEpoch`, which
is any number below `LOCK_BIT`: their theorems are about any number of commits
before the end of time, the theorems of Stm also about what comes after it.

Only model-checked: the red-black tree, whose operators are recursive
(`Verified`, `IsDictionary`); and everything that needs fairness
(`LocksReleased`, `EveryoneReturns`, `Woken`, `FailedProgress`), which is out of
the prover's reach.

## Plan

Done: Epoch, Stm, StmHistory, WriteLog, Gc, Parking, Starvation, RbTree with
Dictionary, ThreadKey, Serial, and the proofs above.  Left: a proof about the
red-black tree, whose operators would have to do without recursion, and an
abstract specification of parking.

Not modelled: statistics, which nothing reads; the containers of raw memory
(`FVec`, `DynVec`), whose pointer arithmetic has no state that a property here
tells apart; the instructions behind swym-htm; examples and benches; the layout
of types and the `Debug` views of cells; panics in the destructors of thread
locals, which abort the process.
