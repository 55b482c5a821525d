---------------------------- MODULE GcInvariant ----------------------------
(***************************************************************************)
(* The inductive invariant behind the safety properties of Gc.             *)
(***************************************************************************)
EXTENDS Gc

Registered(t) == \E i \in DOMAIN synchs : synchs[i] = t

(* A thread is in the list from subscribe to unsubscribe.  Its walk over   *)
(* the list is that of a collector, which has its own shard, or that of    *)
(* the holder of the mutex, which has the shards of those before.          *)
ThreadInList(t) ==
  /\ Registered(t) <=> leaving[t] \/ pc[t] \notin {"gone", "write", "shards"}
  /\ leaving[t] => pc[t] \in {"freeze", "quiesce", "wait", "collect",
                              "write", "shards"}
  /\ pc[t] = "shards" <=> mutex = t
  /\ pc[t] \in Frozen => shared[t]
  /\ \A s \in Threads : exclusive[s] = t => mutex = t
  /\ pc[t] = "shards" =>
       \A j \in DOMAIN synchs : j < visit[t] =>
         exclusive[synchs[j]] = t /\ ~ shared[synchs[j]]
  /\ pc[t] \in Frozen \cup {"shards"} => visit[t] > 0
  /\ pc[t] = "wait" => visit[t] \in DOMAIN synchs

ListInv ==
  /\ \A i, j \in DOMAIN synchs : synchs[i] = synchs[j] => i = j
  /\ \A t \in Threads : ThreadInList(t)

(* The clock stops before the lock bit, the commits under way included.    *)
ClockInv == clock + TICK_SIZE * Cardinality(Ticking) <= MaxEpoch + 1

(* The bags of a thread are sealed in the order of their epochs, and those *)
(* that quiesce has been waiting for are due when it returns.              *)
ThreadBags(t) ==
  /\ \A i, j \in DOMAIN sealed_bags[t] :
       i <= j => sealed_bags[t][i].epoch <= sealed_bags[t][j].epoch
  /\ \A i \in DOMAIN sealed_bags[t] :
       /\ sealed_bags[t][i].epoch < clock
       /\ pc[t] \in {"publish", "seal"} => sealed_bags[t][i].epoch <= now[t]
  /\ pc[t] \in {"publish", "seal"} => next(now[t]) <= clock
  /\ pc[t] \in {"freeze"} \cup Frozen => sealed_bags[t] # <<>>
  /\ pc[t] \in Frozen => min_epoch[t] > quiesce_epoch(t)
  /\ leaving[t] /\ pc[t] \in {"collect", "write", "shards"} =>
       sealed_bags[t] = <<>>
  /\ pc[t] # "collect" => draining[t] = <<>>

BagInv == \A t \in Threads : ThreadBags(t)

(* The bags add up, and only a thread that is going to collect has used    *)
(* them up.                                                                *)
ThreadCount(t) ==
  /\ Len(sealed_bags[t]) + Len(draining[t]) + unused_bags[t] + 1 = BAG_COUNT
  /\ unused_bags[t] >= 0
  /\ pc[t] \notin {"freeze"} \cup Frozen => Len(sealed_bags[t]) < BAG_COUNT - 1

CountInv == \A t \in Threads : ThreadCount(t)

(* The epoch that a thread has stored last, seen by others or not.         *)
StoredEpoch(t) == IF Drained(t) THEN current_epoch[t] ELSE store_buffer[t]

Transacting == {"pin", "run", "tick", "publish", "seal"}

(* Who is not in a transaction has said so, before it waits for a lock of  *)
(* the list, and holds its shard for the walk only.                        *)
ThreadWaits(t) ==
  /\ t \notin Buffered => Drained(t)
  /\ pc[t] \in Frozen \cup {"shards"} => Drained(t)
  /\ shared[t] => pc[t] \in Frozen
  /\ pc[t] \notin Transacting => StoredEpoch(t) >= END_OF_TIME

WaitInv == \A t \in Threads : ThreadWaits(t)

-----------------------------------------------------------------------------
(* What follows is about threads whose stores are seen at once.            *)

(* A Ref is held only while a closure runs, and the pin of the closure is  *)
(* the epoch it reads at.                                                  *)
ThreadPin(t) ==
  /\ store_buffer[t] = None
  /\ now[t] <= clock
  /\ pc[t] = "run" => current_epoch[t] = now[t]
  /\ borrowed[t] # {} => pc[t] = "run"

PinInv == \A t \in Threads : ThreadPin(t)

Committing(t) == pc[t] \in {"tick", "publish"}

(* A cell is locked by the one commit that is going to publish it.         *)
ThreadCells(t) ==
  /\ ~ Committing(t) => writes[t] = {}
  /\ \A c \in writes[t] : lock_bit_set(epoch_lock[c])
  /\ \A u \in Threads : writes[t] \cap writes[u] # {} => t = u
  /\ pc[t] = "publish" => \A c \in writes[t] : PublishedAt(c) <= now[t]

CellInv ==
  /\ \A t \in Threads : ThreadCells(t)
  /\ \A c \in Cells : epoch_lock[c] < 2 * LOCK_BIT /\ PublishedAt(c) <= clock

(* A value that is no longer in its cell, and cannot get back there.       *)
Replaced(v) == v[2] < PublishedAt(v[1])

(* Whoever holds a value in a bag has been pinned since before the epoch   *)
(* of the bag.                                                             *)
HeldBefore(trash, e) ==
  \A u \in Threads : borrowed[u] \cap trash # {} => now[u] <= e

NobodyHolds(trash) == \A u \in Threads : borrowed[u] \cap trash = {}

(* What a commit is replacing, then what it has replaced.                  *)
SpeculativeTrash(t) ==
  /\ pc[t] \notin {"publish", "seal"} => speculative_bag[t] = {}
  /\ pc[t] = "publish" =>
       \A v \in speculative_bag[t] :
         v[1] \in writes[t] /\ v[2] = PublishedAt(v[1])
  /\ pc[t] = "seal" => \A v \in speculative_bag[t] : Replaced(v)
  /\ HeldBefore(speculative_bag[t], now[t])

SealedTrash(t) ==
  \A i \in DOMAIN sealed_bags[t] :
    /\ \A v \in sealed_bags[t][i].trash : Replaced(v)
    /\ HeldBefore(sealed_bags[t][i].trash, sealed_bags[t][i].epoch)

DrainedTrash(t) ==
  \A i \in DOMAIN draining[t] :
    /\ \A v \in draining[t][i].trash : Replaced(v)
    /\ NobodyHolds(draining[t][i].trash)

TrashInv ==
  /\ \A t \in Threads : SpeculativeTrash(t) /\ SealedTrash(t) /\ DrainedTrash(t)
  /\ \A v \in dropped : Replaced(v)
  /\ NobodyHolds(dropped)

(* The threads that quiesce has seen hold nothing of the bags that will be *)
(* collected; one that it waits for holds nothing unless it is still       *)
(* pinned where it was.                                                    *)
WalkedPast(t, trash) ==
  /\ \A j \in DOMAIN synchs :
       j < visit[t] => borrowed[synchs[j]] \cap trash = {}
  /\ pc[t] = "wait" /\ borrowed[synchs[visit[t]]] \cap trash # {} =>
       ~ is_quiesced(synchs[visit[t]], quiesce_epoch(t))

WalkInv ==
  \A t \in Threads :
    pc[t] \in Frozen =>
      \A i \in DOMAIN sealed_bags[t] :
        sealed_bags[t][i].epoch < min_epoch[t] =>
          WalkedPast(t, sealed_bags[t][i].trash)

(* All of it, and the safety properties that follow.                       *)
GcInv ==
  /\ GcTypeOK /\ ListInv /\ ClockInv /\ BagInv /\ WaitInv
  /\ (DestructorsPanic => BAG_COUNT = 2) => CountInv
  /\ Buffered = {} => PinInv /\ CellInv /\ TrashInv /\ WalkInv
=============================================================================
