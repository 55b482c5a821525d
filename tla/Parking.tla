------------------------------ MODULE Parking -------------------------------
(***************************************************************************)
(* AWAIT_RETRY: src/internal/parking.rs, with the unpark bit of EpochLock. *)
(*                                                                         *)
(* A closure that wants something to change first parks its thread: under  *)
(* the lock of parking_lot's queue it clears the unpark bit of every cell  *)
(* in its logs.  A commit that finds a cleared bit when it locks a cell    *)
(* calls unpark after it has published, and that wakes every parked thread *)
(* whose logs are no longer valid.  A parked thread is not pinned: the     *)
(* collector does not wait for it.                                         *)
(*                                                                         *)
(* A cell may live inside the value of another cell, its guard (a TCell    *)
(* behind a TPtr).  Whoever overwrites the guard unlinks it, and its       *)
(* memory goes with the garbage of that commit.                            *)
(***************************************************************************)
EXTENDS Epoch, Sequences

CONSTANTS
  Threads,
  Cells,
  Guard,         \* the cell in whose value a cell lives, or None
  Logs,          \* read log and write log of a closure, a sequence of cells
  WriteLogs,     \* the write logs of the closures that commit
  Htm,           \* may a thread park with a hardware transaction?
  DropsPanic,    \* may a pending write panic when it is dropped?
  MaxEpoch,      \* bound: no commit ticks the clock beyond this
  None

Cellsof(log) == {log[i] : i \in DOMAIN log}

ASSUME ParkingAssumption ==
  /\ Guard \in [Cells -> Cells \cup {None}]
  /\ MaxEpoch \in Nat /\ MaxEpoch < LOCK_BIT - 1
  /\ Htm \in BOOLEAN /\ DropsPanic \in BOOLEAN
  /\ None \notin Cells \cup Threads
  /\ Logs \subseteq Seq(Cells) /\ WriteLogs \subseteq Seq(Cells)

VARIABLES
  clock,         \* EPOCH_CLOCK
  epoch_lock,    \* the EpochLock of each cell, with its unpark bit
  thread_epoch,  \* Synch::current_epoch
  pin_epoch,     \* the epoch of the transaction, or ParkPinMutRef::pin_epoch
  reached,       \* the cells that its closure can get to, by any borrows
  pc,            \* where each thread is
  log,           \* read log, then write log
  position,      \* how far a walk over a log has got
  park_statuses, \* the positions at which it has cleared a bit itself
  has_parked,    \* park_status = HasParked
  sync_epoch,    \* result of fetch_and_tick
  undo_word,     \* the word that unlock_undo has loaded
  queue_lock,    \* who holds the lock of parking_lot's queue
  queue,         \* the parked threads
  unchecked,     \* those that the filter of unpark has not seen yet
  unlinked,      \* the cells whose guard has been overwritten
  freed          \* the cells whose memory is gone

words  == <<clock, epoch_lock>>
pins   == <<thread_epoch, pin_epoch, reached>>
parking == <<park_statuses, queue_lock, queue, unchecked>>
commit == <<has_parked, sync_epoch, undo_word>>
heap   == <<unlinked, freed>>
vars == <<words, pins, pc, log, position, parking, commit, heap>>

unpark_bit_set(e) == e % 2 = UNPARK_BIT

clear_unpark_bit(e) == e - UNPARK_BIT

set_unpark_bit(e) == IF unpark_bit_set(e) THEN e ELSE e + UNPARK_BIT

Goto(t, label) == pc' = [pc EXCEPT ![t] = label]

(* A parked thread, or one about to park, judges by its old epoch.         *)
valid(t, c) == read_write_valid(pin_epoch[t], epoch_lock[c])

-----------------------------------------------------------------------------
Init ==
  /\ clock = FIRST
  /\ epoch_lock = [c \in Cells |-> FIRST]
  /\ thread_epoch = [t \in Threads |-> INACTIVE_EPOCH]
  /\ pin_epoch = [t \in Threads |-> FIRST]
  /\ reached = [t \in Threads |-> {}]
  /\ pc = [t \in Threads |-> "idle"]
  /\ log = [t \in Threads |-> <<>>]
  /\ position = [t \in Threads |-> 0]
  /\ park_statuses = [t \in Threads |-> {}]
  /\ has_parked = [t \in Threads |-> FALSE]
  /\ sync_epoch = [t \in Threads |-> FIRST]
  /\ undo_word = [t \in Threads |-> 0]
  /\ queue_lock = None
  /\ queue = {}
  /\ unchecked = [t \in Threads |-> {}]
  /\ unlinked = {}
  /\ freed = {}

-----------------------------------------------------------------------------
(* A pin, or a repin: what is unlinked by now is out of reach.             *)
Pin(t) ==
  /\ thread_epoch' = [thread_epoch EXCEPT ![t] = clock]
  /\ pin_epoch' = [pin_epoch EXCEPT ![t] = clock]
  /\ reached' = [reached EXCEPT ![t] = Cells \ unlinked]

(* The closure has borrowed and set the cells of its logs.  A cell that it *)
(* has borrowed with Ordering::Read, on its way, is in none of them.       *)
Run(t, l) ==
  /\ pc[t] = "idle"
  /\ \A c \in Cellsof(l) :
       c \notin unlinked /\ read_write_valid(clock, epoch_lock[c])
  /\ Pin(t)
  /\ log' = [log EXCEPT ![t] = l]
  /\ Goto(t, "run")
  /\ UNCHANGED <<words, position, parking, commit, heap>>

Unpin(t) == thread_epoch' = [thread_epoch EXCEPT ![t] = INACTIVE_EPOCH]

(* run_rw is over: Pin::drop.                                              *)
Return(t) ==
  /\ Unpin(t)
  /\ pin_epoch' = [pin_epoch EXCEPT ![t] = FIRST]
  /\ reached' = [reached EXCEPT ![t] = {}]
  /\ log' = [log EXCEPT ![t] = <<>>]
  /\ Goto(t, "idle")

(* It returns Ok without writes, or a CONFLICT.                            *)
Finish(t) ==
  /\ pc[t] = "run"
  /\ Return(t)
  /\ UNCHANGED <<words, position, parking, commit, heap>>

-----------------------------------------------------------------------------
(* Parking.                                                                *)

(* AWAIT_RETRY with something in the logs: ParkPinMutRef::new.             *)
AwaitRetry(t) ==
  /\ pc[t] = "run"
  /\ log[t] # <<>>
  /\ Unpin(t)
  /\ Goto(t, "park")
  /\ UNCHANGED <<words, pin_epoch, reached, log, position, parking, commit,
                 heap>>

(* The same, but drop_writes panics before the unpin.                      *)
AwaitRetryPanics(t) ==
  /\ DropsPanic
  /\ pc[t] = "run"
  /\ log[t] # <<>>
  /\ Goto(t, "unwind")
  /\ UNCHANGED <<words, pins, log, position, parking, commit, heap>>

(* parking_lot_core::park locks the queue, then calls validate.            *)
Park(t) ==
  /\ pc[t] = "park"
  /\ queue_lock = None
  /\ queue_lock' = t
  /\ position' = [position EXCEPT ![t] = 1]
  /\ Goto(t, "clear")
  /\ UNCHANGED <<words, pins, log, park_statuses, queue, unchecked, commit,
                 heap>>

Current(t) == log[t][position[t]]

(* EpochLock::try_clear_unpark_bit: the bit was clear, or is cleared.      *)
TryClearUnparkBit(t) ==
  /\ pc[t] = "clear"
  /\ position[t] <= Len(log[t])
  /\ LET c == Current(t)
     IN /\ valid(t, c)
        /\ IF unpark_bit_set(epoch_lock[c])
             THEN /\ epoch_lock' = [epoch_lock EXCEPT ![c] =
                                      clear_unpark_bit(@)]
                  /\ park_statuses' = [park_statuses EXCEPT ![t] =
                                         @ \cup {position[t]}]
             ELSE UNCHANGED <<epoch_lock, park_statuses>>
  /\ position' = [position EXCEPT ![t] = @ + 1]
  /\ UNCHANGED <<clock, pins, pc, log, queue_lock, queue, unchecked, commit,
                 heap>>

(* The cell has changed or is locked, at the load or by the time of the    *)
(* compare_exchange.                                                       *)
TryClearFails(t) ==
  /\ pc[t] = "clear"
  /\ position[t] <= Len(log[t])
  /\ ~ valid(t, Current(t))
  /\ Goto(t, "cleanup")
  /\ UNCHANGED <<words, pins, log, position, parking, commit, heap>>

(* begin_htx_park: all the bits in one hardware transaction, or it fails.  *)
ClearAllHtm(t) ==
  /\ Htm
  /\ pc[t] = "clear" /\ position[t] = 1
  /\ \A c \in Cellsof(log[t]) : valid(t, c)
  /\ epoch_lock' = [c \in Cells |->
                      IF c \in Cellsof(log[t]) /\ unpark_bit_set(epoch_lock[c])
                        THEN clear_unpark_bit(epoch_lock[c])
                        ELSE epoch_lock[c]]
  /\ position' = [position EXCEPT ![t] = Len(log[t]) + 1]
  /\ UNCHANGED <<clock, pins, pc, log, parking, commit, heap>>

(* Mutant: also the bits that were clear before.                           *)
cleared_by_anyone(t) == 1..(position[t] - 1)

(* Where try_clear_unpark_bit has returned NoParked.                       *)
cleared_by_us(t) == park_statuses[t]

(* park_failure_cleanup: EpochLock::set_unpark_bit, in the order of the    *)
(* logs.                                                                   *)
Cleanup(t, i) ==
  /\ pc[t] = "cleanup"
  /\ i \in cleared_by_us(t)
  /\ \A j \in park_statuses[t] : i <= j
  /\ epoch_lock' = [epoch_lock EXCEPT ![log[t][i]] = set_unpark_bit(@)]
  /\ park_statuses' = [park_statuses EXCEPT ![t] = @ \ {i}]
  /\ UNCHANGED <<clock, pins, pc, log, position, queue_lock, queue, unchecked,
                 commit, heap>>

(* validate returned false: ParkResult::Invalid.                           *)
ParkInvalid(t) ==
  /\ pc[t] = "cleanup"
  /\ park_statuses[t] = {}
  /\ queue_lock' = None
  /\ Goto(t, "wake")
  /\ UNCHANGED <<words, pins, log, position, park_statuses, queue, unchecked,
                 commit, heap>>

(* validate returned true: the thread joins the queue and sleeps.          *)
Sleep(t) ==
  /\ pc[t] = "clear"
  /\ position[t] > Len(log[t])
  /\ queue' = queue \cup {t}
  /\ queue_lock' = None
  /\ park_statuses' = [park_statuses EXCEPT ![t] = {}]
  /\ Goto(t, "parked")
  /\ UNCHANGED <<words, pins, log, position, unchecked, commit, heap>>

(* The closure is called again, with empty logs.                           *)
Again(t) ==
  /\ log' = [log EXCEPT ![t] = <<>>]
  /\ position' = [position EXCEPT ![t] = 0]
  /\ Goto(t, "run")

(* Unparked or not parked at all: ParkPinMutRef::drop pins again, run_rw   *)
(* repins, and the closure is called again.                                *)
Wake(t) ==
  /\ pc[t] = "wake"
  /\ Pin(t)
  /\ Again(t)
  /\ UNCHANGED <<words, parking, commit, heap>>

(* The same drop, while the panic unwinds; then Pin::drop unpins.          *)
Unwind(t) ==
  /\ pc[t] = "unwind"
  /\ Return(t)
  /\ UNCHANGED <<words, position, parking, commit, heap>>

-----------------------------------------------------------------------------
(* Committing, as in Stm; the steps that concern sleepers are these.       *)
Commit(t, l) ==
  /\ pc[t] = "run"
  /\ Cellsof(l) \subseteq reached[t]
  /\ log' = [log EXCEPT ![t] = l]
  /\ position' = [position EXCEPT ![t] = 1]
  /\ has_parked' = [has_parked EXCEPT ![t] = FALSE]
  /\ Goto(t, "lock")
  /\ UNCHANGED <<words, pins, parking, sync_epoch, undo_word, heap>>

(* Mutant: the status of the last lock counts.                             *)
merge_last(status, actual) == ~ unpark_bit_set(actual)

(* ParkStatus::merge: one cleared bit is enough.                           *)
merge(status, actual) == status \/ ~ unpark_bit_set(actual)

(* EpochLock::try_lock: is there somebody parked?                          *)
TryLock(t) ==
  /\ pc[t] = "lock"
  /\ position[t] <= Len(log[t])
  /\ LET c == Current(t)
     IN /\ lockable(pin_epoch[t], epoch_lock[c])
        /\ epoch_lock' = [epoch_lock EXCEPT ![c] = toggle_lock_bit(@)]
        /\ has_parked' = [has_parked EXCEPT ![t] = merge(@, epoch_lock[c])]
  /\ position' = [position EXCEPT ![t] = @ + 1]
  /\ UNCHANGED <<clock, pins, pc, log, parking, sync_epoch, undo_word, heap>>

(* A lock cannot be had, or a read is not valid any more.                  *)
CommitFails(t) ==
  /\ pc[t] = "lock"
  /\ Goto(t, "undo")
  /\ UNCHANGED <<words, pins, log, position, parking, commit, heap>>

(* EpochLock::unlock_undo loads the word ...                               *)
UndoLoad(t) ==
  /\ pc[t] = "undo"
  /\ position[t] > 1
  /\ undo_word' = [undo_word EXCEPT ![t] = epoch_lock[log[t][position[t] - 1]]]
  /\ Goto(t, "undo_store")
  /\ UNCHANGED <<words, pins, log, position, parking, has_parked, sync_epoch,
                 heap>>

(* ... and stores it, which may undo a set_unpark_bit in between.          *)
UndoStore(t) ==
  /\ pc[t] = "undo_store"
  /\ epoch_lock' = [epoch_lock EXCEPT ![log[t][position[t] - 1]] =
                      toggle_lock_bit(undo_word[t])]
  /\ undo_word' = [undo_word EXCEPT ![t] = 0]
  /\ position' = [position EXCEPT ![t] = @ - 1]
  /\ Goto(t, "undo")
  /\ UNCHANGED <<clock, pins, log, parking, has_parked, sync_epoch, heap>>

(* snooze_repin: the closure is called again.                              *)
Retry(t) ==
  /\ pc[t] = "undo"
  /\ position[t] = 1
  /\ Pin(t)
  /\ Again(t)
  /\ UNCHANGED <<words, parking, commit, heap>>

(* perform_writes and fetch_and_tick.                                      *)
FetchAndTick(t) ==
  /\ pc[t] = "lock"
  /\ position[t] > Len(log[t])
  /\ clock < MaxEpoch
  /\ sync_epoch' = [sync_epoch EXCEPT ![t] = clock]
  /\ clock' = next(clock)
  /\ unlinked' = unlinked \cup {c \in Cells : Guard[c] \in Cellsof(log[t])}
  /\ position' = [position EXCEPT ![t] = 1]
  /\ Goto(t, "publish")
  /\ UNCHANGED <<epoch_lock, pins, log, parking, has_parked, undo_word, freed>>

(* EpochLock::unlock_publish: a new epoch, with the unpark bit set.        *)
UnlockPublish(t) ==
  /\ pc[t] = "publish"
  /\ position[t] <= Len(log[t])
  /\ epoch_lock' = [epoch_lock EXCEPT ![Current(t)] = next(sync_epoch[t])]
  /\ position' = [position EXCEPT ![t] = @ + 1]
  /\ UNCHANGED <<clock, pins, pc, log, parking, commit, heap>>

(* Mutant: the garbage is sealed, and may be collected, before unpark.     *)
after_publish_collects(t) == "collect"

after_publish(t) == IF has_parked[t] THEN "unpark" ELSE "collect"

Published(t) ==
  /\ pc[t] = "publish"
  /\ position[t] > Len(log[t])
  /\ Goto(t, after_publish(t))
  /\ UNCHANGED <<words, pins, log, position, parking, commit, heap>>

(* unpark: unpark_filter locks the queue ...                               *)
Unpark(t) ==
  /\ pc[t] = "unpark"
  /\ queue_lock = None
  /\ queue_lock' = t
  /\ unchecked' = [unchecked EXCEPT ![t] = queue]
  /\ Goto(t, "filter")
  /\ UNCHANGED <<words, pins, log, position, park_statuses, queue, commit,
                 heap>>

(* ... and wakes those whose logs are not valid any more (should_unpark).  *)
should_unpark(u) == \E c \in Cellsof(log[u]) : ~ valid(u, c)

UnparkFilter(t, u) ==
  /\ pc[t] = "filter"
  /\ u \in unchecked[t]
  /\ unchecked' = [unchecked EXCEPT ![t] = @ \ {u}]
  /\ IF should_unpark(u)
       THEN queue' = queue \ {u} /\ Goto(u, "wake")
       ELSE UNCHANGED <<queue, pc>>
  /\ UNCHANGED <<words, pins, log, position, park_statuses, queue_lock, commit,
                 heap>>

UnparkDone(t) ==
  /\ pc[t] = "filter"
  /\ unchecked[t] = {}
  /\ queue_lock' = None
  /\ Goto(t, "collect")
  /\ UNCHANGED <<words, pins, log, position, park_statuses, queue, unchecked,
                 commit, heap>>

(* seal_with_epoch, which at the worst collects at once: quiesce waits for *)
(* the threads that are pinned, and only for them.  Then run_rw returns.   *)
Collect(t) ==
  /\ pc[t] = "collect"
  /\ LET garbage == {c \in Cells : Guard[c] \in Cellsof(log[t])}
     IN /\ garbage # {} => \A u \in Threads \ {t} :
                              thread_epoch[u] > sync_epoch[t]
        /\ freed' = freed \cup garbage
  /\ Return(t)
  /\ position' = [position EXCEPT ![t] = 0]
  /\ has_parked' = [has_parked EXCEPT ![t] = FALSE]
  /\ sync_epoch' = [sync_epoch EXCEPT ![t] = FIRST]
  /\ UNCHANGED <<words, parking, undo_word, unlinked>>

-----------------------------------------------------------------------------
Start(t) == \E l \in Logs \cup {<<>>} : Run(t, l)

Closure(t) ==
  \/ AwaitRetry(t)
  \/ AwaitRetryPanics(t)
  \/ \E l \in WriteLogs : Commit(t, l)

Continue(t) ==
  \/ Finish(t)
  \/ Park(t)
  \/ TryClearUnparkBit(t)
  \/ TryClearFails(t)
  \/ ClearAllHtm(t)
  \/ \E i \in DOMAIN log[t] : Cleanup(t, i)
  \/ ParkInvalid(t)
  \/ Sleep(t)
  \/ Wake(t)
  \/ Unwind(t)
  \/ TryLock(t)
  \/ CommitFails(t)
  \/ UndoLoad(t)
  \/ UndoStore(t)
  \/ Retry(t)
  \/ FetchAndTick(t)
  \/ UnlockPublish(t)
  \/ Published(t)
  \/ Unpark(t)
  \/ \E u \in Threads : UnparkFilter(t, u)
  \/ UnparkDone(t)
  \/ Collect(t)

Next == \E t \in Threads : Start(t) \/ Closure(t) \/ Continue(t)

Spec == Init /\ [][Next]_vars

(* A thread that is not asleep is scheduled, a closure returns, and the    *)
(* lock of the queue, which is fair, is acquired by whoever waits for it.  *)
FairSpec ==
  Spec /\ \A t \in Threads : /\ WF_vars(Continue(t))
                             /\ SF_vars(Park(t))
                             /\ SF_vars(Unpark(t))

-----------------------------------------------------------------------------
(* Properties.                                                             *)

Pcs == {"idle", "run", "park", "clear", "cleanup", "parked", "wake", "unwind",
        "lock", "undo", "undo_store", "publish", "unpark", "filter", "collect"}

(* Every variable keeps its type.                                          *)
ParkingTypeOK ==
  /\ clock \in Nat
  /\ epoch_lock \in [Cells -> Nat]
  /\ thread_epoch \in [Threads -> Nat]
  /\ pin_epoch \in [Threads -> Nat]
  /\ reached \in [Threads -> SUBSET Cells]
  /\ pc \in [Threads -> Pcs]
  /\ log \in [Threads -> Seq(Cells)]
  /\ position \in [Threads -> Nat]
  /\ park_statuses \in [Threads -> SUBSET Nat]
  /\ has_parked \in [Threads -> BOOLEAN]
  /\ sync_epoch \in [Threads -> Nat]
  /\ undo_word \in [Threads -> Nat]
  /\ queue_lock \in Threads \cup {None}
  /\ queue \subseteq Threads
  /\ unchecked \in [Threads -> SUBSET Threads]
  /\ unlinked \subseteq Cells
  /\ freed \subseteq Cells

(* Who has locked a cell in its commit, and not published it yet.          *)
Owns(t, c) ==
  \/ pc[t] \in {"lock", "undo", "undo_store"}
       /\ \E i \in 1..(position[t] - 1) : log[t][i] = c
  \/ pc[t] = "publish" /\ \E i \in position[t]..Len(log[t]) : log[t][i] = c

(* A thread that will look at the logs of sleeper u before it is done.     *)
WillCheck(t, u) ==
  /\ has_parked[t]
  /\ \/ pc[t] \in {"publish", "unpark"}
     \/ pc[t] = "filter" /\ u \in unchecked[t]

(* No wakeup is lost, although bits are cleared, set and restored without  *)
(* a common lock (try_clear_unpark_bit, set_unpark_bit, unlock_undo): a    *)
(* cell that a sleeper watches either is unchanged, with its bit clear, or *)
(* belongs to a commit that knows of sleepers, or has been changed by one  *)
(* that is still going to look at this sleeper.                            *)
NoLostWakeup ==
  \A u \in queue, c \in Cells :
    c \in Cellsof(log[u]) =>
      \/ valid(u, c) /\ ~ unpark_bit_set(epoch_lock[c])
      \/ \E t \in Threads : Owns(t, c) /\ has_parked[t]
      \/ \E t \in Threads : WillCheck(t, u)

(* A sleeper whose logs are not valid any more is woken up.                *)
Woken ==
  \A u \in Threads :
    (/\ u \in queue
     /\ \E c \in Cellsof(log[u]) : epoch_lock[c] % LOCK_BIT > pin_epoch[u])
    ~> u \notin queue

(* Has the log of t, before its k-th entry, the cell that leads to that?   *)
Anchored(t, k) ==
  LET guard == Guard[log[t][k]]
  IN  guard = None \/ \E j \in 1..(k - 1) : log[t][j] = guard

(* The entries of sleeper u that should_unpark looks at: up to the first   *)
(* that is not valid (validate_reads returns early).                       *)
LookedAt(u) ==
  {k \in DOMAIN log[u] : \A j \in 1..(k - 1) : valid(u, log[u][j])}

(* A thread that parks is not pinned and the collector does not wait for   *)
(* it, yet it goes on clearing the bits of the cells in its logs, and      *)
(* those that look for sleepers read them.  A cell that was borrowed after *)
(* its guard, and with it, is not gone.  (One whose guard is not in the    *)
(* log, because it was borrowed with Ordering::Read, or comes later,       *)
(* because it was set, may be; its word then just stays as it was.)        *)
NoFreedCellWatched ==
  /\ \A t \in Threads :
       pc[t] = "clear" /\ position[t] <= Len(log[t])
                       /\ Anchored(t, position[t]) =>
         Current(t) \notin freed
  /\ \A t \in Threads : pc[t] = "filter" =>
       \A u \in unchecked[t] : \A k \in LookedAt(u) :
         Anchored(u, k) => log[u][k] \notin freed

(* "Checks that the thread owning this Synch is no longer accessing data   *)
(* that existed before the quiesce epoch" (Synch::is_quiesced): a thread   *)
(* that failed to park is not pinned, either, while it sets the bits again *)
(* that it has cleared.                                                    *)
NoFreedCellCleaned ==
  \A t \in Threads :
    pc[t] = "cleanup" => \A i \in park_statuses[t] : log[t][i] \notin freed
=============================================================================
