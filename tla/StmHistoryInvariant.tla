------------------------- MODULE StmHistoryInvariant -------------------------
(***************************************************************************)
(* What holds of the history in addition to the invariant of Stm, so that  *)
(* together they are inductive and imply serializability.                  *)
(***************************************************************************)
EXTENDS StmHistory, StmInvariant

Entries ==
  [owner : Threads, reads : [Cells -> [Words -> Vals] \cup {None}],
   writes : [Cells -> CellVals \cup {None}], epoch : Int]

HistoryTypeOK ==
  /\ order \in Seq(Entries)
  /\ logged \in [Threads -> SUBSET Cells]

Writes(i, c) == order[i].writes[c] # None

IsPending(i) == order[i].epoch = Pending

(* Ticked by epoch e.                                                      *)
By(i, e) == order[i].epoch \in 1..e

(* Where a thread's entry has no place in time yet.                        *)
Undated == {"validate", "write", "tick"}

(* An entry is dated, withdrawn or pending.                                *)
Placed(i) ==
  LET entry == order[i] IN
  \/ entry.epoch \in DOMAIN snap /\ entry.epoch >= 1
  \/ entry.epoch = Undone /\ entry.reads = NoEntries
                          /\ entry.writes = NoEntries
  \/ IsPending(i) /\ pc[entry.owner] \in Undated
                  /\ entry.writes = write_log[entry.owner]

(* The pending entry of a thread is there exactly while the thread is      *)
(* between its last lock and its tick.                                     *)
PlacedInv ==
  /\ \A i \in DOMAIN order : Placed(i)
  /\ \A i, j \in DOMAIN order :
       IsPending(i) /\ IsPending(j) /\ order[i].owner = order[j].owner => i = j
  /\ \A t \in Threads : pc[t] \in Undated =>
       \E i \in DOMAIN order : IsPending(i) /\ order[i].owner = t

(* Two that write the same cell tick in the order of their entries.        *)
OrderedInv ==
  \A i, j \in DOMAIN order, c \in Cells :
    i < j /\ Writes(i, c) /\ Writes(j, c) =>
      /\ order[i].epoch >= 1
      /\ IsPending(j) \/ order[i].epoch < order[j].epoch

(* The writers of c that had ticked by epoch e.                            *)
Past(e, c) == {i \in DOMAIN order : Writes(i, c) /\ By(i, e)}

(* The snapshots are what the dated entries say.                           *)
StoreInv ==
  \A e \in DOMAIN snap, c \in Cells : snap[e][c] = Latest(Past(e, c), c)

(* The EpochLock of c shows that c has been committed at e.                *)
Visible(e, c) ==
  /\ ~ Held(c) => e <= epoch_lock[c]
  /\ \A t \in Threads : c \in locked[t] =>
       \/ e <= LockedEpoch(c)
       \/ pc[t] = "publish" /\ e = next(sync_epoch[t])

VisibleInv ==
  \A i \in DOMAIN order, c \in Cells :
    Writes(i, c) /\ order[i].epoch >= 1 => Visible(order[i].epoch, c)

(* If a thread has borrowed c, then the transactions that ticked by its    *)
(* pin have no writer of c before them that ticked later, or not yet.      *)
ReadInv ==
  \A t \in Threads, c \in Cells : reads[t][c] # None =>
    \A i, j \in DOMAIN order :
      i < j /\ Writes(i, c) /\ By(j, thread_epoch[t]) => By(i, thread_epoch[t])

(* The epoch e separates the writers of c before i from those after i.     *)
Sees(i, c, e) ==
  \A j \in DOMAIN order : Writes(j, c) => (j < i <=> By(j, e))

(* What a pending transaction has checked already stays checked, whoever   *)
(* locks and ticks meanwhile.                                              *)
StillValid(i) ==
  LET t == order[i].owner IN
  /\ \A j \in DOMAIN order : j >= i => ~ By(j, thread_epoch[t])
  /\ pc[t] = "validate" =>
       \A c \in Cells : order[i].reads[c] # None =>
         /\ order[i].reads[c] = reads[t][c]
         /\ c \in unvalidated[t] \/ Sees(i, c, thread_epoch[t])

PendingInv == \A i \in DOMAIN order : IsPending(i) => StillValid(i)

(* When nothing can fail any more, the transactions that have been read    *)
(* from cannot fail either.                                                *)
DecidedInv ==
  \A i \in DOMAIN order : Decided(order[i]) =>
    \A c \in Cells : order[i].reads[c] # None =>
      /\ order[i].reads[c] = ValueAfter(i - 1, c)
      /\ \A j \in 1..(i - 1) : Writes(j, c) => order[j].epoch >= 1

(* The cells that a commit has to check are still in one of its logs.      *)
LoggedInv ==
  \A t \in Threads :
    pc[t] = "lock" => logged[t] \subseteq read_log[t] \cup WriteSet(t)

(* Inductive together with IInv.                                           *)
HInv ==
  /\ HistoryTypeOK
  /\ PlacedInv
  /\ OrderedInv
  /\ StoreInv
  /\ VisibleInv
  /\ ReadInv
  /\ PendingInv
  /\ DecidedInv
  /\ LoggedInv
=============================================================================
