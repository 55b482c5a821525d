--------------------------------- MODULE Gc ---------------------------------
(***************************************************************************)
(* The garbage collector: src/internal/gc.  A commit queues the values it  *)
(* replaces in a bag; full bags are sealed with the epoch of the commit    *)
(* and destroyed once quiesce has seen every registered thread move past   *)
(* that epoch.  The list of threads is guarded by a sharded lock: a        *)
(* collector holds its own shard, a thread that comes or goes holds them   *)
(* all.                                                                    *)
(*                                                                         *)
(* Transactions are those of Stm, seen from the collector: the checks are  *)
(* the same, a commit locks its cells at once (Stm interleaves that), and  *)
(* the bag is known to hold exactly what the commit replaces (theorem      *)
(* GarbageIsExact).  All values need dropping; the value of a cell is      *)
(* named by the cell and the epoch under which it was published.           *)
(***************************************************************************)
EXTENDS Epoch, Sequences, FiniteSets

CONSTANTS
  Threads,
  Cells,
  BAG_COUNT,         \* UNUSED_BAG_COUNT
  MaxEpoch,          \* bound: no commit ticks the clock beyond this
  DestructorsPanic,  \* may a destructor panic while it is collected?
  Buffered,          \* the threads whose stores to a ThreadEpoch are delayed
  None

ASSUME GcAssumption ==
  /\ IsFiniteSet(Threads)
  /\ BAG_COUNT \in Nat \ {0, 1}
  /\ MaxEpoch \in Nat /\ FIRST <= MaxEpoch /\ MaxEpoch + 1 < LOCK_BIT
  /\ DestructorsPanic \in BOOLEAN
  /\ Buffered \subseteq Threads
  /\ None \notin Threads \cup Nat

VARIABLES
  clock,          \* EPOCH_CLOCK
  epoch_lock,     \* the EpochLock of each cell
  current_epoch,  \* Synch::current_epoch, as other threads see it
  store_buffer,   \* a store to it that they do not see yet
  pc,             \* where each thread is
  now,            \* the epoch loaded from the clock, then pinned
  borrowed,       \* the values the running closure holds a Ref to
  writes,         \* the cells a commit has locked
  speculative_bag,\* what a commit is replacing
  sealed_bags,    \* ThreadGarbage::sealed_bags
  unused_bags,    \* how many bags are in ThreadGarbage::unused_bags
  draining,       \* the sealed bags taken out by collect, not recycled yet
  leaving,        \* is the thread in unsubscribe?
  synchs,         \* the SynchList
  mutex,          \* GlobalSynchList::mutex
  exclusive,      \* who has, or waits for, each Synch's lock exclusively
  shared,         \* is each Synch's lock held by its owner's FreezeList?
  visit,          \* the position of a walk over the SynchList
  min_epoch,      \* the minimum that quiesce has found so far
  dropped         \* history: the values that have been destroyed

memory   == <<clock, epoch_lock>>
garbage  == <<sealed_bags, unused_bags, draining>>
lists    == <<synchs, mutex, exclusive, shared>>
walk     == <<visit, min_epoch>>
tx       == <<now, borrowed, writes, speculative_bag>>
vars == <<memory, current_epoch, store_buffer, pc, tx, garbage, leaving,
          lists, walk, dropped>>

END_OF_TIME == LOCK_BIT - 1

Goto(t, label) == pc' = [pc EXCEPT ![t] = label]

(* Where a thread holds its FreezeList, and walks over the SynchList.      *)
Frozen == {"quiesce", "wait"}

-----------------------------------------------------------------------------
(* Every thread but the ones in `gone` has been registered.                *)
InitWith(gone) ==
  /\ clock = FIRST
  /\ epoch_lock = [c \in Cells |-> FIRST]
  /\ current_epoch = [t \in Threads |-> INACTIVE_EPOCH]
  /\ store_buffer = [t \in Threads |-> None]
  /\ pc = [t \in Threads |-> IF t \in gone THEN "gone" ELSE "idle"]
  /\ now = [t \in Threads |-> FIRST]
  /\ borrowed = [t \in Threads |-> {}]
  /\ writes = [t \in Threads |-> {}]
  /\ speculative_bag = [t \in Threads |-> {}]
  /\ sealed_bags = [t \in Threads |-> <<>>]
  /\ unused_bags = [t \in Threads |-> BAG_COUNT - 1]
  /\ draining = [t \in Threads |-> <<>>]
  /\ leaving = [t \in Threads |-> FALSE]
  /\ synchs \in {s \in [1..Cardinality(Threads \ gone) -> Threads \ gone] :
                   \A i, j \in DOMAIN s : s[i] = s[j] => i = j}
  /\ mutex = None
  /\ exclusive = [t \in Threads |-> None]
  /\ shared = [t \in Threads |-> FALSE]
  /\ visit = [t \in Threads |-> 0]
  /\ min_epoch = [t \in Threads |-> INACTIVE_EPOCH]
  /\ dropped = {}

Init == \E gone \in SUBSET Threads : InitWith(gone)

-----------------------------------------------------------------------------
(* ThreadEpoch::set.  A plain store: out of a store buffer, others see it  *)
(* only after Drain, and an atomic read-modify-write waits for that.       *)
StoreEpoch(t, e) ==
  IF t \in Buffered
    THEN /\ store_buffer[t] = None
         /\ store_buffer' = [store_buffer EXCEPT ![t] = e]
         /\ UNCHANGED current_epoch
    ELSE /\ current_epoch' = [current_epoch EXCEPT ![t] = e]
         /\ UNCHANGED store_buffer

Drained(t) == store_buffer[t] = None

Drain(t) ==
  /\ ~ Drained(t)
  /\ current_epoch' = [current_epoch EXCEPT ![t] = store_buffer[t]]
  /\ store_buffer' = [store_buffer EXCEPT ![t] = None]
  /\ UNCHANGED <<memory, pc, tx, garbage, leaving, lists, walk, dropped>>

epochs == <<current_epoch, store_buffer>>

(* Pin::try_new loads the clock ...                                        *)
LoadNow(t) ==
  /\ pc[t] = "idle"
  /\ now' = [now EXCEPT ![t] = clock]
  /\ Goto(t, "pin")
  /\ UNCHANGED <<memory, epochs, borrowed, writes, speculative_bag, garbage,
                 leaving, lists, walk, dropped>>

(* ... and store what they have loaded.  Until then a thread that was      *)
(* idle is still inactive, and one that repins is still at its old epoch.  *)
Pin(t) ==
  /\ pc[t] = "pin"
  /\ StoreEpoch(t, now[t])
  /\ Goto(t, "run")
  /\ UNCHANGED <<memory, tx, garbage, leaving, lists, walk, dropped>>

rw_valid(t, c) == read_write_valid(now[t], epoch_lock[c])

Borrow(t, c) ==
  /\ pc[t] = "run"
  /\ rw_valid(t, c)
  /\ borrowed' = [borrowed EXCEPT ![t] = @ \cup {<<c, epoch_lock[c]>>}]
  /\ UNCHANGED <<memory, epochs, pc, now, writes, speculative_bag, garbage,
                 leaving, lists, walk, dropped>>

(* The closure returns an Error, or its commit fails: Pin::repin.          *)
Fail(t) ==
  /\ pc[t] = "run"
  /\ borrowed' = [borrowed EXCEPT ![t] = {}]
  /\ now' = [now EXCEPT ![t] = clock]
  /\ Goto(t, "pin")
  /\ UNCHANGED <<memory, epochs, writes, speculative_bag, garbage, leaving,
                 lists, walk, dropped>>

Unpin(t) == StoreEpoch(t, INACTIVE_EPOCH)

(* run_read returns, or there is nothing to commit, or the closure panics. *)
Finish(t) ==
  /\ pc[t] = "run"
  /\ borrowed' = [borrowed EXCEPT ![t] = {}]
  /\ Unpin(t)
  /\ Goto(t, "idle")
  /\ UNCHANGED <<memory, now, writes, speculative_bag, garbage, leaving, lists,
                 walk, dropped>>

(* The commits that are going to tick the clock.                           *)
Ticking == {t \in Threads : pc[t] = "tick"}

(* A commit has locked its write set and validated its reads.              *)
LockWrites(t, cells) ==
  /\ pc[t] = "run"
  /\ clock + TICK_SIZE * Cardinality(Ticking) < MaxEpoch
  /\ Drained(t)
  /\ \A c \in cells : lockable(now[t], epoch_lock[c])
  /\ epoch_lock' = [c \in Cells |-> IF c \in cells
                                      THEN toggle_lock_bit(epoch_lock[c])
                                      ELSE epoch_lock[c]]
  /\ borrowed' = [borrowed EXCEPT ![t] = {}]
  /\ writes' = [writes EXCEPT ![t] = cells]
  /\ Goto(t, "tick")
  /\ UNCHANGED <<clock, epochs, now, speculative_bag, garbage, leaving, lists,
                 walk, dropped>>

(* perform_writes and fetch_and_tick; `now` becomes the sync epoch.        *)
FetchAndTick(t) ==
  /\ pc[t] = "tick"
  /\ now' = [now EXCEPT ![t] = clock]
  /\ clock' = next(clock)
  /\ speculative_bag' = [speculative_bag EXCEPT ![t] =
                           {<<c, toggle_lock_bit(epoch_lock[c])>> :
                              c \in writes[t]}]
  /\ Goto(t, "publish")
  /\ UNCHANGED <<epoch_lock, epochs, borrowed, writes, garbage, leaving, lists,
                 walk, dropped>>

(* WriteLog::publish.                                                      *)
Publish(t) ==
  /\ pc[t] = "publish"
  /\ epoch_lock' = [c \in Cells |-> IF c \in writes[t] THEN next(now[t])
                                                       ELSE epoch_lock[c]]
  /\ writes' = [writes EXCEPT ![t] = {}]
  /\ Goto(t, "seal")
  /\ UNCHANGED <<clock, epochs, now, borrowed, speculative_bag, garbage,
                 leaving, lists, walk, dropped>>

-----------------------------------------------------------------------------
(* Sealing.                                                                *)

(* Mutant: off by one.                                                     *)
next_seal_overflows(bags) == Len(bags) = BAG_COUNT

(* sealed_bags.next_push_allocates(): its capacity is BAG_COUNT - 1.       *)
next_push_allocates(bags) == Len(bags) = BAG_COUNT - 1

(* Bag::seal, with the epoch that fetch_and_tick returned.                 *)
SealedBag(t) == [epoch |-> now[t], trash |-> speculative_bag[t]]

(* Mutant: set_collect_epoch is forgotten.                                 *)
SealStaysPinned(t) ==
  /\ pc[t] = "seal"
  /\ unused_bags' = [unused_bags EXCEPT ![t] = @ - 1]
  /\ sealed_bags' = [sealed_bags EXCEPT ![t] = Append(@, SealedBag(t))]
  /\ speculative_bag' = [speculative_bag EXCEPT ![t] = {}]
  /\ IF next_push_allocates(sealed_bags'[t])
       THEN Goto(t, "freeze") /\ UNCHANGED epochs
       ELSE Goto(t, "idle") /\ Unpin(t)
  /\ UNCHANGED <<memory, now, borrowed, writes, draining, leaving, lists, walk,
                 dropped>>

(* seal_with_epoch.  If that was the last bag, synch_and_collect begins    *)
(* with FreezeList::new: set_collect_epoch.  Otherwise run_rw unpins.      *)
Seal(t) ==
  /\ pc[t] = "seal"
  /\ unused_bags' = [unused_bags EXCEPT ![t] = @ - 1]
  /\ sealed_bags' = [sealed_bags EXCEPT ![t] = Append(@, SealedBag(t))]
  /\ speculative_bag' = [speculative_bag EXCEPT ![t] = {}]
  /\ IF next_push_allocates(sealed_bags'[t])
       THEN Goto(t, "freeze") /\ StoreEpoch(t, END_OF_TIME)
       ELSE Goto(t, "idle") /\ Unpin(t)
  /\ UNCHANGED <<memory, now, borrowed, writes, draining, leaving, lists, walk,
                 dropped>>

(* Thread::unsubscribe: the thread exits; synch_and_collect_all.           *)
Unsubscribe(t) ==
  /\ pc[t] = "idle"
  /\ leaving' = [leaving EXCEPT ![t] = TRUE]
  /\ IF sealed_bags[t] = <<>>
       THEN Goto(t, "write") /\ UNCHANGED epochs
       ELSE Goto(t, "freeze") /\ StoreEpoch(t, END_OF_TIME)
  /\ UNCHANGED <<memory, tx, garbage, lists, walk, dropped>>

-----------------------------------------------------------------------------
(* Quiescing.                                                              *)

(* earliest_epoch_unchecked or latest_epoch_unchecked.                     *)
quiesce_epoch(t) ==
  LET bags == sealed_bags[t]
  IN  bags[IF leaving[t] THEN Len(bags) ELSE 1].epoch

(* FreezeList::new: lock_shared, which waits while a writer has the lock   *)
(* or waits for it.                                                        *)
Freeze(t) ==
  /\ pc[t] = "freeze"
  /\ Drained(t)
  /\ exclusive[t] = None
  /\ shared' = [shared EXCEPT ![t] = TRUE]
  /\ visit' = [visit EXCEPT ![t] = 1]
  /\ min_epoch' = [min_epoch EXCEPT ![t] = INACTIVE_EPOCH]
  /\ Goto(t, "quiesce")
  /\ UNCHANGED <<memory, epochs, tx, garbage, leaving, synchs, mutex,
                 exclusive, dropped>>

(* Mutant: a thread pinned at the epoch of the bag is no reason to wait.   *)
is_quiesced_at(s, e) == current_epoch[s] >= e

(* ThreadEpoch::is_quiesced, and the same test in quiesce.                 *)
is_quiesced(s, e) == current_epoch[s] > e

Lesser(a, b) == IF a < b THEN a ELSE b

(* FreezeList::quiesce, one Synch of the list: it is past the epoch ...    *)
QuiesceNext(t) ==
  /\ pc[t] = "quiesce"
  /\ visit[t] <= Len(synchs)
  /\ LET s == synchs[visit[t]]
     IN IF is_quiesced(s, quiesce_epoch(t))
          THEN /\ min_epoch' = [min_epoch EXCEPT ![t] =
                                  Lesser(@, current_epoch[s])]
               /\ visit' = [visit EXCEPT ![t] = @ + 1]
               /\ UNCHANGED pc
          ELSE /\ Goto(t, "wait")
               /\ UNCHANGED <<visit, min_epoch>>
  /\ UNCHANGED <<memory, epochs, tx, garbage, leaving, lists, dropped>>

(* Mutant: a repin is not enough.                                          *)
LocalQuiesceUnpinned(t) ==
  /\ pc[t] = "wait"
  /\ current_epoch[synchs[visit[t]]] >= END_OF_TIME
  /\ visit' = [visit EXCEPT ![t] = @ + 1]
  /\ Goto(t, "quiesce")
  /\ UNCHANGED <<memory, epochs, tx, garbage, leaving, lists, min_epoch,
                 dropped>>

(* ... or local_quiesce spins until it is; then it does not count.         *)
LocalQuiesce(t) ==
  /\ pc[t] = "wait"
  /\ is_quiesced(synchs[visit[t]], quiesce_epoch(t))
  /\ visit' = [visit EXCEPT ![t] = @ + 1]
  /\ Goto(t, "quiesce")
  /\ UNCHANGED <<memory, epochs, tx, garbage, leaving, lists, min_epoch,
                 dropped>>

(* Mutant: the bags of the minimum itself go, too.                         *)
collects_min(bag, max_epoch) == bag.epoch <= max_epoch

(* ThreadGarbage::collect: epochs [0..max_epoch).                          *)
collects(bag, max_epoch) == bag.epoch < max_epoch

(* The bags that collect drains: those before the first that must stay.    *)
max_idx(t) ==
  LET bags == sealed_bags[t]
      stay == {i \in DOMAIN bags : ~ collects(bags[i], min_epoch[t])}
  IN  IF stay = {} THEN Len(bags)
                   ELSE (CHOOSE i \in stay : \A j \in stay : i <= j) - 1

(* quiesce returns, the FreezeList is dropped, collect drains.             *)
Unfreeze(t) ==
  /\ pc[t] = "quiesce"
  /\ visit[t] > Len(synchs)
  /\ shared' = [shared EXCEPT ![t] = FALSE]
  /\ visit' = [visit EXCEPT ![t] = 0]
  /\ min_epoch' = [min_epoch EXCEPT ![t] = INACTIVE_EPOCH]
  /\ draining' = [draining EXCEPT ![t] = SubSeq(sealed_bags[t], 1, max_idx(t))]
  /\ sealed_bags' = [sealed_bags EXCEPT ![t] =
                       SubSeq(@, max_idx(t) + 1, Len(@))]
  /\ Goto(t, "collect")
  /\ UNCHANGED <<memory, epochs, tx, unused_bags, leaving, synchs, mutex,
                 exclusive, dropped>>

(* recycle_bag_unchecked: the bag goes back first, then its values go.     *)
Recycle(t) ==
  /\ pc[t] = "collect"
  /\ draining[t] # <<>>
  /\ unused_bags' = [unused_bags EXCEPT ![t] = @ + 1]
  /\ dropped' = dropped \cup Head(draining[t]).trash
  /\ draining' = [draining EXCEPT ![t] = Tail(@)]
  /\ UNCHANGED <<memory, epochs, pc, tx, sealed_bags, leaving, lists, walk>>

(* A destructor panics, after any of the others of its bag: Drain's drop   *)
(* drops the SealedBags it still has, and Pin's unpins.                    *)
RecyclePanics(t) ==
  /\ DestructorsPanic
  /\ pc[t] = "collect" /\ ~ leaving[t]
  /\ draining[t] # <<>>
  /\ unused_bags' = [unused_bags EXCEPT ![t] = @ + 1]
  /\ \E some \in SUBSET Head(draining[t]).trash \ {{}} :
       dropped' = dropped \cup some
  /\ draining' = [draining EXCEPT ![t] = <<>>]
  /\ Unpin(t)
  /\ Goto(t, "idle")
  /\ UNCHANGED <<memory, tx, sealed_bags, leaving, lists, walk>>

(* Back in commit and run_rw, or in unsubscribe.                           *)
Collected(t) ==
  /\ pc[t] = "collect"
  /\ draining[t] = <<>>
  /\ IF leaving[t] THEN Goto(t, "write") /\ UNCHANGED epochs
                   ELSE Goto(t, "idle") /\ Unpin(t)
  /\ UNCHANGED <<memory, tx, garbage, leaving, lists, walk, dropped>>

-----------------------------------------------------------------------------
(* Coming and going.                                                       *)

(* Thread::new, with ThreadGarbage::new, and subscribe.                    *)
Subscribe(t) ==
  /\ pc[t] = "gone"
  /\ sealed_bags' = [sealed_bags EXCEPT ![t] = <<>>]
  /\ unused_bags' = [unused_bags EXCEPT ![t] = BAG_COUNT - 1]
  /\ Goto(t, "write")
  /\ UNCHANGED <<memory, epochs, tx, draining, leaving, lists, walk, dropped>>

(* Write::new: the outer mutex ...                                         *)
LockMutex(t) ==
  /\ pc[t] = "write"
  /\ Drained(t)
  /\ mutex = None
  /\ mutex' = t
  /\ visit' = [visit EXCEPT ![t] = 1]
  /\ Goto(t, "shards")
  /\ UNCHANGED <<memory, epochs, tx, garbage, leaving, synchs, exclusive,
                 shared, min_epoch, dropped>>

(* ... and every Synch of the list.  lock_exclusive announces itself,      *)
(* which holds off the owner's next lock_shared, and waits for the owner.  *)
LockShard(t) ==
  /\ pc[t] = "shards"
  /\ visit[t] <= Len(synchs)
  /\ LET s == synchs[visit[t]]
     IN \/ /\ exclusive[s] = None
           /\ exclusive' = [exclusive EXCEPT ![s] = t]
           /\ UNCHANGED visit
        \/ /\ exclusive[s] = t
           /\ ~ shared[s]
           /\ visit' = [visit EXCEPT ![t] = @ + 1]
           /\ UNCHANGED exclusive
  /\ UNCHANGED <<memory, epochs, pc, tx, garbage, leaving, synchs, mutex,
                 shared, min_epoch, dropped>>

(* Mutant: the last shard is not waited for.                               *)
AllButOneLocked(t) == visit[t] >= Len(synchs)

AllShardsLocked(t) == visit[t] > Len(synchs)

PositionOf(t) == CHOOSE i \in DOMAIN synchs : synchs[i] = t

(* SynchList::unregister: Vec::swap_remove.                                *)
swap_remove(i) ==
  SubSeq([synchs EXCEPT ![i] = synchs[Len(synchs)]], 1, Len(synchs) - 1)

(* register or unregister, and the drop of Write: unlock every Synch.      *)
Modify(t) ==
  /\ pc[t] = "shards"
  /\ AllShardsLocked(t)
  /\ synchs' = IF leaving[t] THEN swap_remove(PositionOf(t))
                             ELSE Append(synchs, t)
  /\ exclusive' = [s \in Threads |-> None]
  /\ mutex' = None
  /\ visit' = [visit EXCEPT ![t] = 0]
  /\ IF leaving[t] THEN Goto(t, "gone") ELSE Goto(t, "idle")
  /\ leaving' = [leaving EXCEPT ![t] = FALSE]
  /\ current_epoch' = [current_epoch EXCEPT ![t] = INACTIVE_EPOCH]
  /\ UNCHANGED <<memory, store_buffer, tx, garbage, shared, min_epoch, dropped>>

-----------------------------------------------------------------------------
(* What a thread does of its own accord.                                   *)
Start(t) ==
  \/ LoadNow(t)
  \/ Subscribe(t)
  \/ Unsubscribe(t)

Closure(t) ==
  \/ \E c \in Cells : Borrow(t, c)
  \/ \E cells \in SUBSET Cells \ {{}} : LockWrites(t, cells)
  \/ Fail(t)

(* What it goes on doing once it has started; a closure comes to an end.   *)
Continue(t) ==
  \/ Drain(t)
  \/ Pin(t)
  \/ Finish(t)
  \/ FetchAndTick(t)
  \/ Publish(t)
  \/ Seal(t)
  \/ Freeze(t)
  \/ QuiesceNext(t)
  \/ LocalQuiesce(t)
  \/ Unfreeze(t)
  \/ Recycle(t)
  \/ RecyclePanics(t)
  \/ Collected(t)
  \/ LockMutex(t)
  \/ LockShard(t)
  \/ Modify(t)

Next == \E t \in Threads : Start(t) \/ Closure(t) \/ Continue(t)

Spec == Init /\ [][Next]_vars

(* A thread that runs is scheduled, a closure that is not stuck in a loop  *)
(* returns, and a lock that keeps being released is acquired in the end.   *)
Fairness ==
  \A t \in Threads : /\ WF_vars(Continue(t))
                     /\ SF_vars(LockMutex(t))
                     /\ SF_vars(Freeze(t))

FairSpec == Spec /\ Fairness

-----------------------------------------------------------------------------
(* Properties.                                                             *)

Pcs == {"gone", "idle", "pin", "run", "tick", "publish", "seal", "freeze",
        "quiesce", "wait", "collect", "write", "shards"}

Bag == [epoch : Nat, trash : SUBSET (Cells \X Nat)]

(* Every variable keeps its type.                                          *)
GcTypeOK ==
  /\ clock \in Nat
  /\ epoch_lock \in [Cells -> Nat]
  /\ current_epoch \in [Threads -> Nat]
  /\ store_buffer \in [Threads -> Nat \cup {None}]
  /\ pc \in [Threads -> Pcs]
  /\ now \in [Threads -> Nat]
  /\ borrowed \in [Threads -> SUBSET (Cells \X Nat)]
  /\ writes \in [Threads -> SUBSET Cells]
  /\ speculative_bag \in [Threads -> SUBSET (Cells \X Nat)]
  /\ sealed_bags \in [Threads -> Seq(Bag)]
  /\ draining \in [Threads -> Seq(Bag)]
  /\ unused_bags \in [Threads -> Int]
  /\ leaving \in [Threads -> BOOLEAN]
  /\ synchs \in Seq(Threads)
  /\ mutex \in Threads \cup {None}
  /\ exclusive \in [Threads -> Threads \cup {None}]
  /\ shared \in [Threads -> BOOLEAN]
  /\ visit \in [Threads -> Nat]
  /\ min_epoch \in [Threads -> Nat]
  /\ dropped \subseteq Cells \X Nat

(* The epoch of the value in a cell, whether its lock is held or not.      *)
PublishedAt(c) == IF lock_bit_set(epoch_lock[c])
                    THEN toggle_lock_bit(epoch_lock[c]) ELSE epoch_lock[c]

(* is_quiesced, synch.rs: "Checks that the thread owning this Synch is no  *)
(* longer accessing data that existed before the quiesce epoch."  A value  *)
(* that a running closure holds a Ref to has not been destroyed, nor has   *)
(* one that is still in its cell.                                          *)
NoUseAfterFree ==
  /\ \A t \in Threads : borrowed[t] \cap dropped = {}
  /\ \A c \in Cells : <<c, PublishedAt(c)>> \notin dropped

(* thread_garbage.rs: "to ensure that a bag is never lost", and "lost or   *)
(* gained a bag!".  All bags of a thread are accounted for, and there is   *)
(* one, and room for it, whenever a commit takes one unchecked.            *)
BagsConserved ==
  \A t \in Threads :
    /\ Len(sealed_bags[t]) + Len(draining[t]) + unused_bags[t] + 1 = BAG_COUNT
    /\ pc[t] = "seal" =>
         unused_bags[t] > 0 /\ Len(sealed_bags[t]) < BAG_COUNT - 1

(* ThreadGarbage::drop: "dropping the thread garbage while there is still  *)
(* uncollected garbage".  The latest epoch is enough to collect everything *)
(* before a thread unregisters.                                            *)
NothingLeftBehind ==
  \A t \in Threads :
    leaving[t] /\ pc[t] \in {"write", "shards"} => sealed_bags[t] = <<>>

(* FreezeList: nobody changes the SynchList while a collector, which holds *)
(* only its own shard of the lock, walks over it.                          *)
ListFrozen ==
  [][synchs' # synchs => \A t \in Threads : pc[t] \notin Frozen]_vars

(* Thread t cannot go on before thread u does: a collector before who is   *)
(* taking, or has, its shard, and before the thread that it has found      *)
(* pinned; who changes the list before the holder of the mutex, and before *)
(* the collector that holds the next shard.                                *)
WaitsFor(t, u) ==
  \/ pc[t] = "freeze" /\ Drained(t) /\ exclusive[t] = u
  \/ pc[t] = "wait" /\ synchs[visit[t]] = u /\ ~ is_quiesced(u, quiesce_epoch(t))
  \/ pc[t] = "write" /\ Drained(t) /\ mutex = u
  \/ /\ pc[t] = "shards" /\ visit[t] <= Len(synchs)
     /\ synchs[visit[t]] = u
     /\ exclusive[u] = t /\ shared[u]

(* quiesce: "deadlock detected. `wait_until_epoch_end` called by an active *)
(* thread".  Not only one thread, but any number of them, never all wait   *)
(* for each other: a collector that a writer of the list holds off is not  *)
(* one that the collector in that writer's way waits for.                  *)
NoCircularWait ==
  \A S \in SUBSET Threads :
    S # {} => \E t \in S : \A u \in S : ~ WaitsFor(t, u)

(* Collectors wait for pinned threads, threads that come or go wait for    *)
(* collectors, and a thread that wants to collect waits for them: still    *)
(* all of them get through, even if closures are retried for ever.         *)
EveryoneReturns ==
  \A t \in Threads :
    pc[t] \in {"freeze", "write"} ~> pc[t] \in {"idle", "gone"}
=============================================================================
