-------------------------- MODULE ParkingInvariant --------------------------
(***************************************************************************)
(* The inductive invariant of Parking.                                     *)
(*                                                                         *)
(* The unpark bit and the lock bit of a word change without a common lock. *)
(* What the proof follows is therefore not the word but what it says about *)
(* an epoch: is the cell newer than that, once it is unlocked?  Only       *)
(* unlock_publish changes this.                                            *)
(***************************************************************************)
EXTENDS Parking

(* The word without its lock bit.                                          *)
unlocked(e) == IF lock_bit_set(e) THEN e - LOCK_BIT ELSE e

newer(e, epoch) == unlocked(e) > epoch

(* The positions of the log whose cells t has locked and not published.    *)
Held(t) ==
  IF pc[t] \in {"lock", "undo", "undo_store"} THEN 1..(position[t] - 1)
  ELSE IF pc[t] = "publish" THEN position[t]..Len(log[t])
  ELSE {}

(* Those it has published, in a commit that has not returned.              *)
Released(t) ==
  IF pc[t] = "publish" THEN 1..(position[t] - 1)
  ELSE IF pc[t] \in {"unpark", "filter", "collect"} THEN 1..Len(log[t])
  ELSE {}

(* Those whose bit u has cleared or found clear.                           *)
Watched(u) ==
  IF pc[u] = "parked" THEN 1..Len(log[u])
  ELSE IF pc[u] = "clear" THEN 1..(position[u] - 1)
  ELSE {}

Ticked(t) == pc[t] \in {"publish", "unpark", "filter", "collect"}

(* The log of t is what its closure has borrowed, under pin_epoch.         *)
Borrows(t) == pc[t] \in {"run", "park", "clear", "cleanup", "parked"}

Pinned(t) == Ticked(t) \/ pc[t] \in {"run", "unwind", "lock", "undo", "undo_store"}

Odd(e) == e % 2 = 1

-----------------------------------------------------------------------------
(* The bits of a word that do not say when are never taken for a time.     *)
WordInv ==
  /\ FIRST <= clock /\ clock < LOCK_BIT /\ Odd(clock)
  /\ \A c \in Cells : ~ newer(epoch_lock[c], clock)
  /\ \A t \in Threads : /\ Odd(pin_epoch[t]) /\ pin_epoch[t] <= clock
                        /\ Odd(sync_epoch[t]) /\ sync_epoch[t] <= clock

(* Where t is, and what it has there.                                      *)
ThreadPhase(t) ==
  /\ pc[t] \in {"clear", "cleanup", "lock", "undo", "undo_store", "publish"} =>
       position[t] \in 1..(Len(log[t]) + 1)
  /\ pc[t] = "undo_store" => position[t] > 1
  /\ t \in queue <=> pc[t] = "parked"
  /\ queue_lock = t <=> pc[t] \in {"clear", "cleanup", "filter"}
  /\ Pinned(t) => thread_epoch[t] = pin_epoch[t]
  /\ Ticked(t) => pin_epoch[t] <= sync_epoch[t] /\ sync_epoch[t] < clock
  /\ Borrows(t) => log[t] \in Logs \cup {<<>>}
  /\ IF pc[t] \in {"clear", "cleanup"}
       THEN \A i \in park_statuses[t] : 1 <= i /\ i < position[t]
       ELSE park_statuses[t] = {}
  /\ IF pc[t] = "filter" THEN unchecked[t] \subseteq queue
                         ELSE unchecked[t] = {}

PhaseInv == \A t \in Threads : ThreadPhase(t)

(* A locked word has one owner, who was entitled to lock it, and who knows *)
(* whether there may be sleepers.                                          *)
OwnerInv ==
  /\ \A c \in Cells : lock_bit_set(epoch_lock[c]) =>
       \E t \in Threads : \E i \in Held(t) : log[t][i] = c
  /\ \A t \in Threads : \A i \in Held(t) :
       /\ lock_bit_set(epoch_lock[log[t][i]])
       /\ ~ newer(epoch_lock[log[t][i]], pin_epoch[t])
       /\ unpark_bit_set(epoch_lock[log[t][i]]) \/ has_parked[t]
  /\ \A s, t \in Threads : \A i \in Held(s), j \in Held(t) :
       log[s][i] = log[t][j] => s = t /\ i = j

(* What unlock_undo has loaded may only lack an unpark bit.                *)
UndoInv ==
  \A t \in Threads : pc[t] = "undo_store" =>
    LET word == epoch_lock[log[t][position[t] - 1]]
    IN  \/ undo_word[t] = word
        \/ unpark_bit_set(word) /\ undo_word[t] = word - UNPARK_BIT

(* What has been published stays new.                                      *)
PublishInv ==
  \A t \in Threads : \A i \in Released(t) :
    newer(epoch_lock[log[t][i]], sync_epoch[t])

(* Who has borrowed a cell that is being overwritten, or that lives in one *)
(* that is, did so before the clock ticked.                                *)
BorrowInv ==
  /\ \A t \in Threads, c \in Cells :
       Ticked(t) /\ Guard[c] \in Cellsof(log[t]) => c \in unlinked
  /\ \A t, u \in Threads : Ticked(t) /\ Borrows(u) =>
       \A c \in Cellsof(log[u]) :
         (Guard[c] \in Cellsof(log[t]) \/ \E i \in Held(t) : log[t][i] = c) =>
           pin_epoch[u] <= sync_epoch[t]

(* A cell that somebody watches and that has not changed has its bit       *)
(* clear.                                                                  *)
ClearInv ==
  \A u \in Threads : \A k \in Watched(u) :
    \/ newer(epoch_lock[log[u][k]], pin_epoch[u])
    \/ ~ unpark_bit_set(epoch_lock[log[u][k]])

(* t will look at u, and no commit that has published c since u borrowed   *)
(* it has ticked before t.                                                 *)
Alarm(t, u, c) ==
  /\ WillCheck(t, u)
  /\ newer(epoch_lock[c], sync_epoch[t])
  /\ \A s \in Threads : \A i \in Released(s) :
       log[s][i] = c /\ pin_epoch[u] <= sync_epoch[s] =>
         sync_epoch[t] <= sync_epoch[s]

(* If one of the cells that somebody watches has changed, the alarm is on. *)
AlarmInv ==
  \A u \in Threads : \A k \in Watched(u) :
    newer(epoch_lock[log[u][k]], pin_epoch[u]) =>
      \E t \in Threads : Alarm(t, u, log[u][k])

(* A bit that was still set when a thread cleared it was none that a       *)
(* sleeper relies on, so that it may be set again.                         *)
CleanupInv ==
  \A t \in Threads : \A i \in park_statuses[t] :
    \A u \in queue : \A k \in DOMAIN log[u] :
      log[u][k] = log[t][i] => newer(epoch_lock[log[t][i]], pin_epoch[u])

(* The memory of a cell is gone only after its guard has changed; and it   *)
(* is not gone as long as somebody watches the guard to get to the cell.   *)
FreeInv ==
  /\ \A c \in freed : c \in unlinked /\ Guard[c] \in Cells
  /\ \A u \in Threads : Borrows(u) =>
       \A c \in Cellsof(log[u]) :
         c \in freed => newer(epoch_lock[Guard[c]], pin_epoch[u])
  /\ \A u \in Threads : pc[u] = "clear" =>
       \A k \in Watched(u), c \in Cellsof(log[u]) :
         Guard[c] = log[u][k] => c \notin freed

ParkInv ==
  /\ ParkingTypeOK /\ WordInv /\ PhaseInv /\ OwnerInv /\ UndoInv /\ PublishInv
  /\ BorrowInv /\ ClearInv /\ AlarmInv /\ CleanupInv /\ FreeInv
=============================================================================
