---------------------------- MODULE StmInvariant ----------------------------
(***************************************************************************)
(* The inductive invariant behind the safety properties of Stm.            *)
(***************************************************************************)
EXTENDS Stm

(* Where a thread may hold EpochLocks, and where what it holds is settled. *)
Locking == {"lock", "validate", "undo", "write", "tick", "publish"}

(* What each place in the code knows about its own thread.                 *)
ThreadInv(t) ==
  /\ pc[t] \in {"load", "dispose", "err"} => cursor[t] \in Cells
  /\ pc[t] \notin {"load", "dispose"} => buf[t] = NoWords
  /\ pc[t] # "idle" => /\ thread_epoch[t] \in DOMAIN snap
                       /\ thread_epoch[t] < LOCK_BIT
  /\ pc[t] \in {"idle", "repin"} => /\ reads[t] = NoEntries
                                    /\ write_log[t] = NoEntries
                                    /\ garbage[t] = NoEntries
  /\ \A c \in Cells : write_log[t][c] = None => garbage[t][c] = None
  /\ pc[t] = "dispose" => write_log[t][cursor[t]] # None
  /\ locked[t] \subseteq WriteSet(t)
  /\ pc[t] \notin Locking => locked[t] = {}
  /\ pc[t] \in {"validate", "write", "tick"} => locked[t] = WriteSet(t)
  /\ pc[t] = "write" => unwritten[t] \subseteq WriteSet(t) \X Words

(* The snapshots so far, the newest of which is the present.               *)
SnapInv ==
  /\ clock \in DOMAIN snap
  /\ \A e \in DOMAIN snap : e <= clock

(* Since epoch f nothing has been committed to c.                          *)
Stable(c, f) == \A e \in DOMAIN snap : e >= f => snap[e][c] = snap[clock][c]

FreeInv(c) ==
  /\ epoch_lock[c] <= clock
  /\ Stable(c, epoch_lock[c])
  /\ value[c] = snap[clock][c]

(* The time stored in the EpochLock of a cell that is locked.              *)
LockedEpoch(c) == epoch_lock[c] - LOCK_BIT

(* Has t written word w of a cell it holds?                                *)
Written(t, c, w) ==
  \/ pc[t] = "write" /\ <<c, w>> \notin unwritten[t]
  \/ pc[t] = "tick"

(* A cell held by a thread whose commit is not visible yet.                *)
HeldInv(t, c) ==
  /\ lock_bit_set(epoch_lock[c])
  /\ LockedEpoch(c) <= thread_epoch[t]
  /\ Stable(c, LockedEpoch(c))
  /\ \A w \in Words :
       value[c][w] = IF Written(t, c, w) THEN write_log[t][c][w]
                                         ELSE snap[clock][c][w]

(* A cell held by a thread whose commit has its place in time.             *)
PublishInv(t, c) ==
  /\ lock_bit_set(epoch_lock[c])
  /\ LockedEpoch(c) <= sync_epoch[t]
  /\ value[c] = write_log[t][c]
  /\ \A e \in DOMAIN snap : e >= next(sync_epoch[t]) =>
                              snap[e][c] = write_log[t][c]

CellInv ==
  /\ \A c \in Cells : ~ Held(c) => FreeInv(c)
  /\ \A t \in Threads : \A c \in locked[t] :
       IF pc[t] = "publish" THEN PublishInv(t, c) ELSE HeldInv(t, c)

Exclusive == \A t, u \in Threads : t # u => locked[t] \cap locked[u] = {}

(* The check after a copy is bound to fail: the cell was too new for t     *)
(* already, or another thread is about to make it so.                      *)
Doomed(t, c) ==
  \/ ~ Held(c) /\ epoch_lock[c] > thread_epoch[t]
  \/ \E u \in Threads \ {t} :
       /\ c \in locked[u]
       /\ \/ pc[u] \in {"write", "tick"}
          \/ pc[u] = "publish" /\ next(sync_epoch[u]) > thread_epoch[t]
          \/ LockedEpoch(c) > thread_epoch[t]

(* An unchecked copy is right, or will never be used.                      *)
BufInv(t) ==
  pc[t] \in {"load", "dispose"} =>
    \A w \in Words :
      buf[t][w] # None => \/ buf[t][w] = snap[thread_epoch[t]][cursor[t]][w]
                          \/ Doomed(t, cursor[t])

GarbageInv(t) ==
  \A c \in Cells :
    /\ garbage[t][c] # None => \/ garbage[t][c] = snap[thread_epoch[t]][c]
                               \/ Doomed(t, c)
    /\ c \in WriteSet(t) => \/ garbage[t][c] # None
                            \/ pc[t] = "dispose" /\ cursor[t] = c

TickInv(t) ==
  pc[t] = "publish" =>
    /\ sync_epoch[t] \in DOMAIN snap
    /\ next(sync_epoch[t]) <= clock
    /\ thread_epoch[t] <= sync_epoch[t]
    /\ \A c \in WriteSet(t) : garbage[t][c] = snap[sync_epoch[t]][c]

(* All of it, with the type invariant; it implies Opacity, GarbageExact    *)
(* and LockDiscipline.                                                     *)
IInv ==
  /\ TypeOK
  /\ \A t \in Threads : ThreadInv(t)
  /\ SnapInv
  /\ CellInv
  /\ Exclusive
  /\ \A t \in Threads : BufInv(t) /\ GarbageInv(t) /\ TickInv(t)
  /\ Opacity
=============================================================================
