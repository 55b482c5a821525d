-------------------------------- MODULE Stm --------------------------------
(***************************************************************************)
(* The transactions of swym: per-object TL2 (src/rw.rs, src/read.rs,       *)
(* src/internal/thread.rs, src/internal/commit.rs).                        *)
(*                                                                         *)
(* One step is one access to memory that other threads share: a word of a  *)
(* TCell, its EpochLock, or the EPOCH_CLOCK.  The user's closure is        *)
(* arbitrary: at every moment it may borrow or set any cell, finish, give  *)
(* up or panic, and it may carry on after a CONFLICT.                      *)
(***************************************************************************)
EXTENDS Epoch, FiniteSets

CONSTANTS
  Threads,     \* the threads with a ThreadKey
  Cells,       \* the TCells
  Words,       \* the words of a TCell's value, copied one at a time
  Vals,        \* what a word can hold
  CellVals,    \* the values of a TCell: some functions from Words to Vals
  InitVal,     \* the value every TCell is created with
  None,        \* "not there" in a log
  Htm          \* does the processor have transactional memory?

ASSUME StmAssumption ==
  /\ CellVals \subseteq [Words -> Vals]
  /\ InitVal \in CellVals
  /\ None \notin [Words -> Vals]
  /\ None \notin Vals
  /\ None \notin Cells
  /\ Htm \in BOOLEAN

VARIABLES
  clock,        \* EPOCH_CLOCK
  epoch_lock,   \* TCellErased::current_epoch, the raw word of each cell
  value,        \* TCell::value, word by word
  thread_epoch, \* Synch::current_epoch of each thread
  pc,           \* where each thread is
  mode,         \* "read" or "rw": run_read or run_rw
  read_log,     \* the cells of the ReadLog
  write_log,    \* the pending values of the WriteLog
  garbage,      \* the speculative bag: the old value queued for each cell
  cursor,       \* the cell a borrow or a set is working on
  buf,          \* the words of that cell loaded so far
  locked,       \* the EpochLocks this thread has acquired in its commit
  unvalidated,  \* logged reads not checked yet by validate_reads
  unwritten,    \* words not copied yet by perform_writes
  sync_epoch,   \* result of fetch_and_tick, until everything is published
  aborted,      \* the process has called abort!()
  reads,        \* history: what the closure's borrows returned
  snap          \* history: the committed store at every epoch so far

shared   == <<clock, epoch_lock, value, snap>>
logs     == <<read_log, write_log, garbage>>
borrowing == <<cursor, buf>>
committing == <<locked, unvalidated, unwritten, sync_epoch>>
vars == <<shared, thread_epoch, pc, mode, logs, borrowing, committing,
          aborted, reads>>

(* Where a thread can be; the last three cannot fail any more.             *)
Irrevocable == {"write", "tick", "publish"}
CommitPcs == {"commit", "lock", "validate", "undo"} \cup Irrevocable
Pcs == {"idle", "run", "load", "err", "failed", "dispose", "repin"}
         \cup CommitPcs

NoEntries == [c \in Cells |-> None]
NoWords   == [w \in Words |-> None]

WriteSet(t) == {c \in Cells : write_log[t][c] # None}

Goto(t, label) == pc' = [pc EXCEPT ![t] = label]

(* Mutant: the lock bit is masked away.                                    *)
rw_valid_unlocked(t, c) ==
  read_write_valid(thread_epoch[t], epoch_lock[c] % LOCK_BIT)

(* RwTxImpl::rw_valid, and the check of ReadTx::borrow.                    *)
rw_valid(t, c) == read_write_valid(thread_epoch[t], epoch_lock[c])

-----------------------------------------------------------------------------
Init ==
  /\ clock = FIRST
  /\ epoch_lock = [c \in Cells |-> FIRST]
  /\ value = [c \in Cells |-> InitVal]
  /\ snap = [e \in {FIRST} |-> [c \in Cells |-> InitVal]]
  /\ thread_epoch = [t \in Threads |-> INACTIVE_EPOCH]
  /\ pc = [t \in Threads |-> "idle"]
  /\ mode = [t \in Threads |-> "read"]
  /\ read_log = [t \in Threads |-> {}]
  /\ write_log = [t \in Threads |-> NoEntries]
  /\ garbage = [t \in Threads |-> NoEntries]
  /\ cursor = [t \in Threads |-> None]
  /\ buf = [t \in Threads |-> NoWords]
  /\ locked = [t \in Threads |-> {}]
  /\ unvalidated = [t \in Threads |-> {}]
  /\ unwritten = [t \in Threads |-> {}]
  /\ sync_epoch = [t \in Threads |-> FIRST]
  /\ aborted = FALSE
  /\ reads = [t \in Threads |-> NoEntries]

-----------------------------------------------------------------------------
(* Starting, restarting and ending a transaction.                          *)

(* Mutant: the clock is assumed to be in range.                            *)
now_assumed == TRUE

(* EpochClock::now: is there a time to pin to?                             *)
now == ~ lock_bit_set(clock)

(* Mutant: pinned to the time of the thread's last commit.                 *)
TryPinCached(t, m) ==
  /\ pc[t] = "idle"
  /\ now
  /\ thread_epoch' = [thread_epoch EXCEPT ![t] = sync_epoch[t]]
  /\ mode' = [mode EXCEPT ![t] = m]
  /\ Goto(t, "run")
  /\ UNCHANGED <<shared, logs, borrowing, committing, aborted, reads>>

(* Pin::try_new: EPOCH_CLOCK.now() and ThreadEpoch::pin.  The store is     *)
(* only read by the garbage collector, so the two are one step here.       *)
TryPin(t, m) ==
  /\ pc[t] = "idle"
  /\ now
  /\ thread_epoch' = [thread_epoch EXCEPT ![t] = clock]
  /\ mode' = [mode EXCEPT ![t] = m]
  /\ Goto(t, "run")
  /\ UNCHANGED <<shared, logs, borrowing, committing, aborted, reads>>

(* snooze_repin after a failed attempt; the logs are already empty.        *)
Repin(t) ==
  /\ pc[t] = "repin"
  /\ now
  /\ thread_epoch' = [thread_epoch EXCEPT ![t] = clock]
  /\ Goto(t, "run")
  /\ UNCHANGED <<shared, mode, logs, borrowing, committing, aborted, reads>>

(* EpochClock::now saw the lock bit in the clock: abort!().                *)
ClockOverflow(t) ==
  /\ pc[t] \in {"idle", "repin"}
  /\ ~ now
  /\ aborted' = TRUE
  /\ UNCHANGED <<shared, thread_epoch, pc, mode, logs, borrowing, committing,
                 reads>>

(* Mutant: without abort_speculative_garbage.                              *)
ClearLogsOnly(t) ==
  /\ read_log' = [read_log EXCEPT ![t] = {}]
  /\ write_log' = [write_log EXCEPT ![t] = NoEntries]
  /\ garbage' = garbage
  /\ reads' = [reads EXCEPT ![t] = NoEntries]

(* Everything PinRw::drop and a finished commit throw away.                *)
ClearLogs(t) ==
  /\ read_log' = [read_log EXCEPT ![t] = {}]
  /\ write_log' = [write_log EXCEPT ![t] = NoEntries]
  /\ garbage' = [garbage EXCEPT ![t] = NoEntries]
  /\ reads' = [reads EXCEPT ![t] = NoEntries]

(* The end of an attempt that is to be retried.                            *)
FailAttempt(t) == ClearLogs(t) /\ Goto(t, "repin")

(* The end of run_read or run_rw: the Pin is gone.                         *)
Unpin(t) ==
  /\ mode' = [mode EXCEPT ![t] = "read"]
  /\ thread_epoch' = [thread_epoch EXCEPT ![t] = INACTIVE_EPOCH]
  /\ Goto(t, "idle")

DoneBorrowing(t) ==
  /\ cursor' = [cursor EXCEPT ![t] = None]
  /\ buf' = [buf EXCEPT ![t] = NoWords]

(* The closure panics: PinRw::drop, Pin::drop.                             *)
Panic(t) ==
  /\ pc[t] \in {"run", "err", "failed"}
  /\ ClearLogs(t)
  /\ Unpin(t)
  /\ DoneBorrowing(t)
  /\ UNCHANGED <<shared, committing, aborted>>

(* The closure returns an Error, the one just given or one it has kept,    *)
(* and the attempt is over.                                                *)
ReturnConflict(t) ==
  /\ pc[t] \in {"run", "err", "failed"}
  /\ FailAttempt(t)
  /\ DoneBorrowing(t)
  /\ UNCHANGED <<shared, thread_epoch, mode, committing, aborted>>

(* "this is not required": the closure may also ignore the Error of a      *)
(* borrow.  A SetError always ends the attempt here: what the WriteLog     *)
(* does when it is ignored is a matter of its own.                         *)
IgnoreConflict(t) ==
  /\ pc[t] = "err"
  /\ DoneBorrowing(t)
  /\ Goto(t, "run")
  /\ UNCHANGED <<shared, thread_epoch, mode, logs, committing, aborted, reads>>

-----------------------------------------------------------------------------
(* Borrowing and setting cells.                                            *)

(* A borrow of a cell that this transaction has not set: optimistic read.  *)
BorrowShared(t, c) ==
  /\ pc[t] = "run"
  /\ write_log[t][c] = None
  /\ cursor' = [cursor EXCEPT ![t] = c]
  /\ Goto(t, "load")
  /\ UNCHANGED <<shared, thread_epoch, mode, logs, buf, committing, aborted,
                 reads>>

(* A borrow of a cell that this transaction has set returns the pending    *)
(* value, but still fails if the cell itself is no longer valid.           *)
BorrowPending(t, c) ==
  /\ pc[t] = "run"
  /\ write_log[t][c] # None
  /\ ~ rw_valid(t, c)
  /\ cursor' = [cursor EXCEPT ![t] = c]
  /\ Goto(t, "err")
  /\ UNCHANGED <<shared, thread_epoch, mode, logs, buf, committing, aborted,
                 reads>>

(* optimistic_read_acquire and optimistic_read_relaxed copy the value      *)
(* without synchronization: each word may be old or new.                   *)
LoadWord(t, w) ==
  /\ pc[t] \in {"load", "dispose"}
  /\ buf[t][w] = None
  /\ buf' = [buf EXCEPT ![t][w] = value[cursor[t]][w]]
  /\ UNCHANGED <<shared, thread_epoch, pc, mode, logs, cursor, committing,
                 aborted, reads>>

Loaded(t) == \A w \in Words : buf[t][w] # None

(* The check after the copy succeeds.  A read-write transaction records    *)
(* the cell unless the borrow asked for Ordering::Read.                    *)
BorrowOk(t, logged) ==
  /\ pc[t] = "load"
  /\ Loaded(t)
  /\ rw_valid(t, cursor[t])
  /\ reads' = [reads EXCEPT ![t][cursor[t]] = buf[t]]
  /\ read_log' = IF mode[t] = "rw" /\ logged
                   THEN [read_log EXCEPT ![t] = @ \cup {cursor[t]}]
                   ELSE read_log
  /\ DoneBorrowing(t)
  /\ Goto(t, "run")
  /\ UNCHANGED <<shared, thread_epoch, mode, write_log, garbage, committing,
                 aborted>>

(* The check of the fast path fails: borrow_slow copies the value again.   *)
(* A ReadTx has no slow path.                                              *)
BorrowSlow(t) ==
  /\ pc[t] = "load" /\ mode[t] = "rw"
  /\ Loaded(t)
  /\ ~ rw_valid(t, cursor[t])
  /\ buf' = [buf EXCEPT ![t] = NoWords]
  /\ UNCHANGED <<shared, thread_epoch, pc, mode, logs, cursor, committing,
                 aborted, reads>>

(* The last check fails.                                                   *)
BorrowConflict(t) ==
  /\ pc[t] = "load"
  /\ Loaded(t)
  /\ ~ rw_valid(t, cursor[t])
  /\ buf' = [buf EXCEPT ![t] = NoWords]
  /\ Goto(t, "err")
  /\ UNCHANGED <<shared, thread_epoch, mode, logs, cursor, committing, aborted,
                 reads>>

(* The first set of a cell: check, then record.                            *)
SetNew(t, c, v) ==
  /\ pc[t] = "run" /\ mode[t] = "rw"
  /\ write_log[t][c] = None
  /\ rw_valid(t, c)
  /\ write_log' = [write_log EXCEPT ![t][c] = v]
  /\ cursor' = [cursor EXCEPT ![t] = c]
  /\ Goto(t, "dispose")
  /\ UNCHANGED <<shared, thread_epoch, mode, read_log, garbage, buf,
                 committing, aborted, reads>>

(* The value to be dropped is read after the check, and never checked.     *)
DisposeOld(t) ==
  /\ pc[t] = "dispose"
  /\ Loaded(t)
  /\ garbage' = [garbage EXCEPT ![t][cursor[t]] = buf[t]]
  /\ DoneBorrowing(t)
  /\ Goto(t, "run")
  /\ UNCHANGED <<shared, thread_epoch, mode, read_log, write_log, committing,
                 aborted, reads>>

(* A cell that is in the write log already is overwritten, unchecked.      *)
SetAgain(t, c, v) ==
  /\ pc[t] = "run"
  /\ write_log[t][c] # None
  /\ write_log' = [write_log EXCEPT ![t][c] = v]
  /\ UNCHANGED <<shared, thread_epoch, pc, mode, read_log, garbage, borrowing,
                 committing, aborted, reads>>

SetConflict(t, c) ==
  /\ pc[t] = "run" /\ mode[t] = "rw"
  /\ write_log[t][c] = None
  /\ ~ rw_valid(t, c)
  /\ Goto(t, "failed")
  /\ UNCHANGED <<shared, thread_epoch, mode, logs, borrowing, committing,
                 aborted, reads>>

-----------------------------------------------------------------------------
(* Committing.                                                             *)

(* run_read returns, or commit_empty_write_log, which clears the read log  *)
(* only: the rest is expected to be empty.                                 *)
FinishNoWrites(t) ==
  /\ pc[t] = "run"
  /\ WriteSet(t) = {}
  /\ read_log' = [read_log EXCEPT ![t] = {}]
  /\ reads' = [reads EXCEPT ![t] = NoEntries]
  /\ Unpin(t)
  /\ UNCHANGED <<shared, write_log, garbage, borrowing, committing, aborted>>

(* The closure returns Ok and there is something to publish; commit_slow   *)
(* returns from wait_for_starvers, which may hold it up.                   *)
Commit(t) ==
  /\ pc[t] = "run"
  /\ WriteSet(t) # {}
  /\ Goto(t, "commit")
  /\ UNCHANGED <<shared, thread_epoch, mode, logs, borrowing, committing,
                 aborted, reads>>

(* Mutant: the hardware transaction checks only what it writes.            *)
validate_nothing_htm(t) == TRUE

(* ReadLog::validate_reads_htm.                                            *)
validate_reads_htm(t) == \A c \in read_log[t] : rw_valid(t, c)

(* commit_hard: validate_reads_htm and write_and_lock_htm, all in one      *)
(* hardware transaction.                                                   *)
CommitHard(t) ==
  /\ Htm
  /\ pc[t] = "commit"
  /\ validate_reads_htm(t)
  /\ \A c \in WriteSet(t) : lockable(thread_epoch[t], epoch_lock[c])
  /\ value' = [c \in Cells |-> IF c \in WriteSet(t) THEN write_log[t][c]
                                                    ELSE value[c]]
  /\ epoch_lock' = [c \in Cells |-> IF c \in WriteSet(t)
                                      THEN toggle_lock_bit(epoch_lock[c])
                                      ELSE epoch_lock[c]]
  /\ locked' = [locked EXCEPT ![t] = WriteSet(t)]
  /\ Goto(t, "tick")
  /\ UNCHANGED <<clock, snap, thread_epoch, mode, logs, borrowing,
                 unvalidated, unwritten, sync_epoch, aborted, reads>>

(* The hardware transaction aborted, explicitly or on a conflict.          *)
CommitHardFails(t) ==
  /\ Htm
  /\ pc[t] = "commit"
  /\ FailAttempt(t)
  /\ UNCHANGED <<shared, thread_epoch, mode, borrowing, committing, aborted>>

(* Mutant: the filter the wrong way round.                                 *)
retain_writes_in_reads(t) == read_log[t] \cap WriteSet(t)

(* Logs::remove_writes_from_reads.                                         *)
remove_writes_from_reads(t) == read_log[t] \ WriteSet(t)

(* commit_soft: reads that are also writes are validated by their lock.    *)
CommitSoft(t) ==
  /\ pc[t] = "commit"
  /\ read_log' = [read_log EXCEPT ![t] = remove_writes_from_reads(t)]
  /\ Goto(t, "lock")
  /\ UNCHANGED <<shared, thread_epoch, mode, write_log, garbage, borrowing,
                 committing, aborted, reads>>

(* EpochLock::try_lock.                                                    *)
TryLock(t, c) ==
  /\ pc[t] = "lock"
  /\ c \in WriteSet(t) \ locked[t]
  /\ lockable(thread_epoch[t], epoch_lock[c])
  /\ epoch_lock' = [epoch_lock EXCEPT ![c] = toggle_lock_bit(@)]
  /\ locked' = [locked EXCEPT ![t] = @ \cup {c}]
  /\ UNCHANGED <<clock, value, snap, thread_epoch, pc, mode, logs, borrowing,
                 unvalidated, unwritten, sync_epoch, aborted, reads>>

(* Mutant: a lock that is waited for.                                      *)
TryLockSpins(t) ==
  /\ pc[t] = "lock"
  /\ locked[t] # WriteSet(t)
  /\ UNCHANGED vars

(* The cell is newer or locked, or the compare_exchange lost a race (which *)
(* is "allowed to fail spuriously").                                       *)
TryLockFails(t) ==
  /\ pc[t] = "lock"
  /\ locked[t] # WriteSet(t)
  /\ Goto(t, "undo")
  /\ UNCHANGED <<shared, thread_epoch, mode, logs, borrowing, committing,
                 aborted, reads>>

(* write_log_lock_success.                                                 *)
AllLocked(t) ==
  /\ pc[t] = "lock"
  /\ locked[t] = WriteSet(t)
  /\ unvalidated' = [unvalidated EXCEPT ![t] = read_log[t]]
  /\ Goto(t, "validate")
  /\ UNCHANGED <<shared, thread_epoch, mode, logs, borrowing, locked,
                 unwritten, sync_epoch, aborted, reads>>

(* One turn of ReadLog::validate_reads.                                    *)
ValidateRead(t, c) ==
  /\ pc[t] = "validate"
  /\ c \in unvalidated[t]
  /\ rw_valid(t, c)
  /\ unvalidated' = [unvalidated EXCEPT ![t] = @ \ {c}]
  /\ UNCHANGED <<shared, thread_epoch, pc, mode, logs, borrowing, locked,
                 unwritten, sync_epoch, aborted, reads>>

ValidationFailure(t, c) ==
  /\ pc[t] = "validate"
  /\ c \in unvalidated[t]
  /\ ~ rw_valid(t, c)
  /\ unvalidated' = [unvalidated EXCEPT ![t] = {}]
  /\ Goto(t, "undo")
  /\ UNCHANGED <<shared, thread_epoch, mode, logs, borrowing, locked,
                 unwritten, sync_epoch, aborted, reads>>

(* The transaction can no longer fail.                                     *)
ValidationSuccess(t) ==
  /\ pc[t] = "validate"
  /\ unvalidated[t] = {}
  /\ unwritten' = [unwritten EXCEPT ![t] = WriteSet(t) \X Words]
  /\ Goto(t, "write")
  /\ UNCHANGED <<shared, thread_epoch, mode, logs, borrowing, locked,
                 unvalidated, sync_epoch, aborted, reads>>

(* perform_writes, word by word.                                           *)
PerformWrite(t, c, w) ==
  /\ pc[t] = "write"
  /\ <<c, w>> \in unwritten[t]
  /\ value' = [value EXCEPT ![c][w] = write_log[t][c][w]]
  /\ unwritten' = [unwritten EXCEPT ![t] = @ \ {<<c, w>>}]
  /\ UNCHANGED <<clock, epoch_lock, snap, thread_epoch, pc, mode, logs,
                 borrowing, locked, unvalidated, sync_epoch, aborted, reads>>

WritesPerformed(t) ==
  /\ pc[t] = "write"
  /\ unwritten[t] = {}
  /\ Goto(t, "tick")
  /\ UNCHANGED <<shared, thread_epoch, mode, logs, borrowing, committing,
                 aborted, reads>>

(* The store after t's writes.                                             *)
Overwrite(t, store) ==
  [c \in Cells |-> IF write_log[t][c] # None THEN write_log[t][c]
                                             ELSE store[c]]

(* EpochClock::fetch_and_tick.                                             *)
FetchAndTick(t) ==
  /\ pc[t] = "tick"
  /\ sync_epoch' = [sync_epoch EXCEPT ![t] = clock]
  /\ clock' = next(clock)
  /\ snap' = [e \in DOMAIN snap \cup {next(clock)} |->
                IF e = next(clock) THEN Overwrite(t, snap[clock]) ELSE snap[e]]
  /\ Goto(t, "publish")
  /\ UNCHANGED <<epoch_lock, value, thread_epoch, mode, logs, borrowing,
                 locked, unvalidated, unwritten, aborted, reads>>

(* Mutant: published with the epoch before the tick.                       *)
publish_now(t) == sync_epoch[t]

(* The epoch that commit gives to WriteLog::publish.                       *)
publish_epoch(t) == next(sync_epoch[t])

(* WriteLog::publish, one EpochLock::unlock_publish at a time.             *)
UnlockPublish(t, c) ==
  /\ pc[t] = "publish"
  /\ c \in locked[t]
  /\ epoch_lock' = [epoch_lock EXCEPT ![c] = publish_epoch(t)]
  /\ locked' = [locked EXCEPT ![t] = @ \ {c}]
  /\ UNCHANGED <<clock, value, snap, thread_epoch, pc, mode, logs, borrowing,
                 unvalidated, unwritten, sync_epoch, aborted, reads>>

(* The logs are cleared, the bag is sealed (which may wait for a grace     *)
(* period, with no lock held), commit returns true.                        *)
CommitDone(t) ==
  /\ pc[t] = "publish"
  /\ locked[t] = {}
  /\ sync_epoch' = [sync_epoch EXCEPT ![t] = FIRST]
  /\ ClearLogs(t)
  /\ Unpin(t)
  /\ UNCHANGED <<shared, borrowing, locked, unvalidated, unwritten,
                 aborted>>

(* Mutant: the lock that was not acquired is released with the others.     *)
unlock_all(t) == WriteSet(t)

(* The locks before `unlock_until`.                                        *)
unlock_until(t) == locked[t]

(* write_log_lock_failure and validation_failure: EpochLock::unlock_undo.  *)
UnlockUndo(t, c) ==
  /\ pc[t] = "undo"
  /\ c \in unlock_until(t)
  /\ epoch_lock' = [epoch_lock EXCEPT ![c] = toggle_lock_bit(@)]
  /\ locked' = [locked EXCEPT ![t] = @ \ {c}]
  /\ UNCHANGED <<clock, value, snap, thread_epoch, pc, mode, logs, borrowing,
                 unvalidated, unwritten, sync_epoch, aborted, reads>>

(* commit returns false; dropping the PinRw cleans the logs.               *)
CommitFails(t) ==
  /\ pc[t] = "undo"
  /\ locked[t] = {}
  /\ FailAttempt(t)
  /\ UNCHANGED <<shared, thread_epoch, mode, borrowing, committing, aborted>>

-----------------------------------------------------------------------------
PinStep(t) ==
  \/ \E m \in {"read", "rw"} : TryPin(t, m)
  \/ Repin(t)
  \/ ClockOverflow(t)

ClosureStep(t) ==
  \/ \E c \in Cells :
       \/ BorrowShared(t, c)
       \/ BorrowPending(t, c)
       \/ SetConflict(t, c)
       \/ \E v \in CellVals : SetNew(t, c, v) \/ SetAgain(t, c, v)
  \/ \E w \in Words : LoadWord(t, w)
  \/ \E logged \in BOOLEAN : BorrowOk(t, logged)
  \/ BorrowSlow(t)
  \/ BorrowConflict(t)
  \/ DisposeOld(t)
  \/ ReturnConflict(t)
  \/ IgnoreConflict(t)
  \/ Panic(t)
  \/ FinishNoWrites(t)
  \/ Commit(t)

CommitStep(t) ==
  \/ CommitHard(t)
  \/ CommitHardFails(t)
  \/ CommitSoft(t)
  \/ TryLockFails(t)
  \/ AllLocked(t)
  \/ ValidationSuccess(t)
  \/ \E c \in Cells :
       \/ TryLock(t, c)
       \/ ValidateRead(t, c)
       \/ ValidationFailure(t, c)
       \/ UnlockPublish(t, c)
       \/ UnlockUndo(t, c)
       \/ \E w \in Words : PerformWrite(t, c, w)
  \/ WritesPerformed(t)
  \/ FetchAndTick(t)
  \/ CommitDone(t)
  \/ CommitFails(t)

Step(t) == ~ aborted /\ (PinStep(t) \/ ClosureStep(t) \/ CommitStep(t))

(* After abort!() nothing runs.                                            *)
Halted == aborted /\ UNCHANGED vars

Next == (\E t \in Threads : Step(t)) \/ Halted

Spec == Init /\ [][Next]_vars

(* The scheduler keeps running a thread that holds EpochLocks, and what    *)
(* commit calls while it holds them never blocks.                          *)
FairSpec ==
  Spec /\ \A t \in Threads :
            WF_vars(~ aborted /\ locked[t] # {} /\ CommitStep(t))

-----------------------------------------------------------------------------
(* Properties.                                                             *)

(* Every variable keeps its type.                                          *)
TypeOK ==
  /\ clock \in Nat
  /\ epoch_lock \in [Cells -> Nat]
  /\ value \in [Cells -> [Words -> Vals]]
  /\ thread_epoch \in [Threads -> Nat]
  /\ pc \in [Threads -> Pcs]
  /\ mode \in [Threads -> {"read", "rw"}]
  /\ read_log \in [Threads -> SUBSET Cells]
  /\ write_log \in [Threads -> [Cells -> CellVals \cup {None}]]
  /\ garbage \in [Threads -> [Cells -> [Words -> Vals] \cup {None}]]
  /\ cursor \in [Threads -> Cells \cup {None}]
  /\ buf \in [Threads -> [Words -> Vals \cup {None}]]
  /\ locked \in [Threads -> SUBSET Cells]
  /\ unvalidated \in [Threads -> SUBSET Cells]
  /\ unwritten \in [Threads -> SUBSET (Cells \X Words)]
  /\ sync_epoch \in [Threads -> Nat]
  /\ aborted \in BOOLEAN
  /\ reads \in [Threads -> [Cells -> [Words -> Vals] \cup {None}]]
  /\ DOMAIN snap \subseteq Nat
  /\ \A e \in DOMAIN snap : snap[e] \in [Cells -> CellVals]

(* Whatever a transaction has borrowed so far, committed or not, is the    *)
(* store at the epoch it is pinned at: no torn values, and no mixture of   *)
(* two moments (rw.rs: "Reads don't have to read the per object epoch      *)
(* _before_ and after loading the value").                                 *)
Opacity ==
  \A t \in Threads, c \in Cells :
    reads[t][c] # None => reads[t][c] = snap[thread_epoch[t]][c]

(* set reads the value it queues for destruction after its validity check  *)
(* and never looks again; still, once the commit cannot fail any more,     *)
(* exactly the values that it is replacing are in the bag.                 *)
GarbageExact ==
  \A t \in Threads, c \in Cells :
    c \in WriteSet(t) =>
      /\ pc[t] \in {"write", "tick"} => garbage[t][c] = snap[clock][c]
      /\ pc[t] = "publish" => garbage[t][c] = snap[sync_epoch[t]][c]

Held(c) == \E t \in Threads : c \in locked[t]

(* An EpochLock has one owner, its lock bit is set while it is owned, and  *)
(* an owner that fails or succeeds leaves no lock behind: without an owner *)
(* the word is a time that has already come, and the cell holds the value  *)
(* committed last.                                                         *)
LockDiscipline ==
  /\ \A t, u \in Threads : t # u => locked[t] \cap locked[u] = {}
  /\ \A c \in Cells :
       IF Held(c) THEN lock_bit_set(epoch_lock[c])
                  ELSE epoch_lock[c] <= clock /\ value[c] = snap[clock][c]

(* EpochLocks are not taken in any order, and one thread may hold what     *)
(* another needs; still, whoever holds any releases them all without       *)
(* waiting for anybody (commit_soft, write_log_lock_failure).              *)
LocksReleased ==
  \A t \in Threads : locked[t] # {} ~> (locked[t] = {} \/ aborted)
=============================================================================
