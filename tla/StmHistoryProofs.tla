-------------------------- MODULE StmHistoryProofs --------------------------
(***************************************************************************)
(* Proofs that the transactions of Stm are serializable, and that they     *)
(* implement Serial, for any number of threads, cells, words and commits.  *)
(***************************************************************************)
EXTENDS StmSerial, StmProofs, SeqLemmas

(* Names for parts of actions, expanded everywhere.                        *)
USE DEF now, lockable, remove_writes_from_reads, publish_epoch, unlock_until

-----------------------------------------------------------------------------
(* The history.                                                            *)

(* The history starts empty, and then everything holds of it.              *)
LEMMA InitHInv == HistoryInit => HInv
<1> SUFFICES ASSUME HistoryInit PROVE HInv
  OBVIOUS
<1>1. DOMAIN order = {} /\ order \in Seq(Entries)
  BY DEF HistoryInit
<1>2. HistoryTypeOK
  BY <1>1 DEF HistoryInit, HistoryTypeOK
<1>3. PlacedInv
  BY <1>1 DEF HistoryInit, Init, PlacedInv, Undated
<1>4. StoreInv
  <2>1. \A e \in DOMAIN snap, c \in Cells : snap[e][c] = InitVal
    BY DEF HistoryInit, Init
  <2> QED BY <1>1, <2>1 DEF StoreInv, Past, Latest
<1>5. OrderedInv /\ VisibleInv /\ PendingInv /\ DecidedInv
  BY <1>1 DEF OrderedInv, VisibleInv, PendingInv, DecidedInv
<1>6. ReadInv /\ LoggedInv
  BY <1>1 DEF HistoryInit, Init, ReadInv, LoggedInv
<1> QED
  BY <1>2, <1>3, <1>4, <1>5, <1>6 DEF HInv

(* A step that the history does not record.                                *)
Plain(t) ==
  /\ clock' = clock /\ snap' = snap
  /\ pc'[t] \in Undated <=> pc[t] \in Undated
  /\ pc[t] \in Undated =>
       /\ write_log'[t] = write_log[t] /\ reads'[t] = reads[t]
       /\ thread_epoch'[t] = thread_epoch[t]
       /\ pc'[t] = "validate" <=> pc[t] = "validate"
       /\ \A c \in unvalidated[t] : c \in unvalidated'[t] \/ rw_valid(t, c)
  /\ \A c \in Cells : reads'[t][c] # None =>
       /\ thread_epoch'[t] = thread_epoch[t] /\ pc[t] # "idle"
       /\ reads'[t][c] = reads[t][c] \/ rw_valid(t, c)
  /\ pc'[t] = "lock" =>
       /\ pc[t] \in {"lock", "commit"}
       /\ read_log'[t] \cup WriteSet(t)' = read_log[t] \cup WriteSet(t)

(* All steps are plain but five.                                           *)
LEMMA PlainStep ==
  ASSUME TypeOK, NEW t \in Threads, ThreadInv(t), Step(t)
  PROVE  \/ Plain(t)
         \/ AllLocked(t) \/ CommitHard(t)
         \/ \E c \in Cells : ValidationFailure(t, c)
         \/ ValidationSuccess(t) \/ FetchAndTick(t)
<1> USE DEF TypeOK, ThreadInv, Plain, Undated, WriteSet, NoEntries, shared,
            logs, borrowing, committing, Goto
<1>1. ASSUME NEW m \in {"read", "rw"}, TryPin(t, m) PROVE Plain(t)
  BY <1>1 DEF TryPin
<1>2. CASE Repin(t)
  BY <1>2 DEF Repin
<1>3. CASE ClockOverflow(t)
  BY <1>3 DEF ClockOverflow
<1>4. ASSUME NEW c \in Cells, BorrowShared(t, c) PROVE Plain(t)
  BY <1>4 DEF BorrowShared
<1>5. ASSUME NEW c \in Cells, BorrowPending(t, c) PROVE Plain(t)
  BY <1>5 DEF BorrowPending
<1>6. ASSUME NEW c \in Cells, SetConflict(t, c) PROVE Plain(t)
  BY <1>6 DEF SetConflict
<1>7. ASSUME NEW c \in Cells, NEW v \in CellVals, SetNew(t, c, v) PROVE Plain(t)
  BY <1>7 DEF SetNew
<1>8. ASSUME NEW c \in Cells, NEW v \in CellVals, SetAgain(t, c, v) PROVE Plain(t)
  BY <1>8 DEF SetAgain
<1>9. ASSUME NEW w \in Words, LoadWord(t, w) PROVE Plain(t)
  BY <1>9 DEF LoadWord
<1>10. ASSUME NEW logging \in BOOLEAN, BorrowOk(t, logging) PROVE Plain(t)
  BY <1>10 DEF BorrowOk, DoneBorrowing
<1>11. CASE BorrowSlow(t)
  BY <1>11 DEF BorrowSlow
<1>12. CASE BorrowConflict(t)
  BY <1>12 DEF BorrowConflict
<1>13. CASE DisposeOld(t)
  BY <1>13 DEF DisposeOld
<1>14. CASE ReturnConflict(t)
  BY <1>14 DEF ReturnConflict, FailAttempt, ClearLogs
<1>15. CASE IgnoreConflict(t)
  BY <1>15 DEF IgnoreConflict
<1>16. CASE Panic(t)
  BY <1>16 DEF Panic, Unpin, ClearLogs
<1>17. CASE FinishNoWrites(t)
  BY <1>17 DEF FinishNoWrites, Unpin
<1>18. CASE Commit(t)
  BY <1>18 DEF Commit
<1>19. CASE CommitHardFails(t)
  BY <1>19 DEF CommitHardFails, FailAttempt, ClearLogs
<1>20. CASE CommitSoft(t)
  <2>1. pc[t] = "commit" /\ pc'[t] = "lock" /\ write_log' = write_log
    BY <1>20 DEF CommitSoft
  <2>2. read_log'[t] = read_log[t] \ WriteSet(t)
    BY <1>20 DEF CommitSoft
  <2>3. read_log'[t] \cup WriteSet(t)' = read_log[t] \cup WriteSet(t)
    BY <2>1, <2>2
  <2>4. /\ clock' = clock /\ snap' = snap /\ reads' = reads
        /\ thread_epoch' = thread_epoch
    BY <1>20 DEF CommitSoft
  <2> QED BY <2>1, <2>3, <2>4
<1>21. CASE TryLockFails(t)
  BY <1>21 DEF TryLockFails
<1>22. ASSUME NEW c \in Cells, TryLock(t, c) PROVE Plain(t)
  BY <1>22 DEF TryLock
<1>23. ASSUME NEW c \in Cells, ValidateRead(t, c) PROVE Plain(t)
  BY <1>23 DEF ValidateRead
<1>24. ASSUME NEW c \in Cells, UnlockPublish(t, c) PROVE Plain(t)
  BY <1>24 DEF UnlockPublish
<1>25. ASSUME NEW c \in Cells, UnlockUndo(t, c) PROVE Plain(t)
  BY <1>25 DEF UnlockUndo
<1>26. ASSUME NEW c \in Cells, NEW w \in Words, PerformWrite(t, c, w) PROVE Plain(t)
  BY <1>26 DEF PerformWrite
<1>27. CASE WritesPerformed(t)
  BY <1>27 DEF WritesPerformed
<1>28. CASE CommitDone(t)
  BY <1>28 DEF CommitDone, Unpin, ClearLogs
<1>29. CASE CommitFails(t)
  BY <1>29 DEF CommitFails, FailAttempt, ClearLogs
<1> QED
  BY <1>1, <1>2, <1>3, <1>4, <1>5, <1>6, <1>7, <1>8, <1>9, <1>10, <1>11,
     <1>12, <1>13, <1>14, <1>15, <1>16, <1>17, <1>18, <1>19, <1>20, <1>21,
     <1>22, <1>23, <1>24, <1>25, <1>26, <1>27, <1>28, <1>29
     DEF Step, PinStep, ClosureStep, CommitStep

-----------------------------------------------------------------------------
(* What becomes of the entries.                                            *)

(* The fields of an entry.                                                 *)
LEMMA EntryTypes ==
  ASSUME HistoryTypeOK
  PROVE  /\ Len(order) \in Nat /\ DOMAIN order = 1..Len(order)
         /\ \A i \in DOMAIN order :
              /\ order[i] \in Entries
              /\ order[i].owner \in Threads /\ order[i].epoch \in Int
<1>1. Len(order) \in Nat /\ DOMAIN order = 1..Len(order)
  BY SeqElements DEF HistoryTypeOK
<1>2. \A i \in DOMAIN order : order[i] \in Entries
  BY SeqElements DEF HistoryTypeOK
<1> QED BY <1>1, <1>2 DEF Entries

(* The new entry of a thread is an entry, without a date.                  *)
LEMMA EntryFields ==
  ASSUME TypeOK, NEW t \in Threads
  PROVE  /\ Entry(t) \in Entries
         /\ Entry(t).owner = t /\ Entry(t).epoch = Pending
         /\ Entry(t).writes = write_log[t]
         /\ Entry(t).reads = CheckedReads(t)
BY DEF TypeOK, Entry, Entries, CheckedReads, Pending

(* A plain step, and success of the validation, leave the history alone.   *)
LEMMA Kept ==
  ASSUME TypeOK, NEW t \in Threads, Plain(t) \/ ValidationSuccess(t)
  PROVE  Recorded(t) = order
<1>1. /\ ~ (pc[t] \in {"lock", "commit"} /\ pc'[t] \in {"validate", "tick"})
      /\ ~ (pc[t] = "validate" /\ pc'[t] = "undo")
      /\ ~ (pc[t] = "tick" /\ pc'[t] = "publish")
  BY DEF TypeOK, Plain, Undated, ValidationSuccess, Goto
<1> QED BY <1>1 DEF Recorded

(* The thread that takes its last lock goes to the end.                    *)
LEMMA Appended ==
  ASSUME TypeOK, HistoryTypeOK, NEW t \in Threads, HistoryStep(t),
         AllLocked(t) \/ CommitHard(t)
  PROVE  /\ order' \in Seq(Entries) /\ Len(order) \in Nat
         /\ DOMAIN order = 1..Len(order) /\ DOMAIN order' = 1..(Len(order) + 1)
         /\ \A i \in DOMAIN order : i \in DOMAIN order' /\ order'[i] = order[i]
         /\ order'[Len(order) + 1] = Entry(t)
<1>1. pc[t] \in {"lock", "commit"} /\ pc'[t] \in {"validate", "tick"}
  BY DEF TypeOK, AllLocked, CommitHard, Goto
<1>2. order' = Append(order, Entry(t))
  BY <1>1 DEF HistoryStep, Recorded
<1>3. order \in Seq(Entries) /\ Entry(t) \in Entries
  BY EntryFields DEF HistoryTypeOK
<1>4. Len(order) \in Nat /\ DOMAIN order = 1..Len(order)
  BY EntryTypes
<1> QED BY <1>2, <1>3, <1>4, SeqAppended

(* A validation that fails withdraws the entry of its thread,              *)
LEMMA WithdrawnEntries ==
  ASSUME TypeOK, HistoryTypeOK, NEW t \in Threads, HistoryStep(t),
         NEW c \in Cells, ValidationFailure(t, c)
  PROVE  /\ order' \in Seq(Entries) /\ DOMAIN order' = DOMAIN order
         /\ \A i \in DOMAIN order :
              IF PendingOf(t, order[i])
                THEN /\ order'[i].owner = t /\ order'[i].epoch = Undone
                     /\ order'[i].reads = NoEntries
                     /\ order'[i].writes = NoEntries
                ELSE order'[i] = order[i]
<1>1. pc[t] = "validate" /\ pc'[t] = "undo"
  BY DEF TypeOK, ValidationFailure, Goto
<1>2. order' = [i \in DOMAIN order |->
                  Revised(t, order[i], Withdrawn(order[i]))]
  BY <1>1 DEF HistoryStep, Recorded
<1>3. \A x \in Entries :
        /\ Withdrawn(x) \in Entries
        /\ Withdrawn(x).owner = x.owner /\ Withdrawn(x).epoch = Undone
        /\ Withdrawn(x).reads = NoEntries /\ Withdrawn(x).writes = NoEntries
  BY DEF Entries, Withdrawn, NoEntries, Undone
<1>4. \A i \in DOMAIN order :
        order[i] \in Entries /\ Revised(t, order[i], Withdrawn(order[i])) \in Entries
  BY <1>3, EntryTypes DEF Revised
<1>5. order' \in Seq(Entries)
  BY <1>2, <1>4, EntryTypes, FunctionIsSeq
<1> QED BY <1>2, <1>3, <1>4, <1>5 DEF Revised, PendingOf

(* and a tick of the clock dates it.                                       *)
LEMMA DatedEntries ==
  ASSUME TypeOK, TypeOK', HistoryTypeOK, NEW t \in Threads, HistoryStep(t),
         FetchAndTick(t)
  PROVE  /\ order' \in Seq(Entries) /\ DOMAIN order' = DOMAIN order
         /\ \A i \in DOMAIN order :
              IF PendingOf(t, order[i])
                THEN /\ order'[i].owner = t /\ order'[i].epoch = clock'
                     /\ order'[i].reads = order[i].reads
                     /\ order'[i].writes = order[i].writes
                ELSE order'[i] = order[i]
<1> DEFINE Dated(x) == [x EXCEPT !.epoch = clock']
<1>1. pc[t] = "tick" /\ pc'[t] = "publish"
  BY DEF TypeOK, FetchAndTick, Goto
<1>2. order' = [i \in DOMAIN order |-> Revised(t, order[i], Dated(order[i]))]
  BY <1>1 DEF HistoryStep, Recorded
<1>3. \A x \in Entries :
        /\ Dated(x) \in Entries
        /\ Dated(x).owner = x.owner /\ Dated(x).epoch = clock'
        /\ Dated(x).reads = x.reads /\ Dated(x).writes = x.writes
  <2> TAKE x \in Entries
  <2>1. Dated(x) = [owner |-> x.owner, reads |-> x.reads,
                    writes |-> x.writes, epoch |-> clock']
    BY DEF Entries
  <2>2. clock' \in Int
    BY DEF TypeOK
  <2> HIDE DEF Dated
  <2> QED BY <2>1, <2>2 DEF Entries
<1> HIDE DEF Dated
<1>4. \A i \in DOMAIN order :
        order[i] \in Entries /\ Revised(t, order[i], Dated(order[i])) \in Entries
  BY <1>3, EntryTypes DEF Revised
<1>5. order' \in Seq(Entries)
  BY <1>2, <1>4, EntryTypes, FunctionIsSeq
<1> QED BY <1>2, <1>3, <1>4, <1>5 DEF Revised, PendingOf

-----------------------------------------------------------------------------
(* What the EpochLocks show.                                               *)

(* A date that shows in an EpochLock goes on showing.                      *)
LEMMA VisibleStep ==
  ASSUME IInv, NEW t \in Threads, Step(t), NEW e \in Nat, NEW c \in Cells,
         Visible(e, c)
  PROVE  Visible(e, c)'
<1> USE DEF IInv
<1>1. TypeOK /\ TypeOK' /\ OnlyThread(t) /\ epoch_lock[c] \in Nat
  BY TypeStep, Frame DEF TypeOK
<1>2. ASSUME locked' = locked, epoch_lock' = epoch_lock,
             c \in locked[t] /\ pc[t] = "publish" =>
               pc'[t] = "publish" /\ sync_epoch'[t] = sync_epoch[t]
      PROVE  Visible(e, c)'
  BY <1>1, <1>2 DEF Visible, Held, LockedEpoch, OnlyThread
<1>3. CASE Quiet(t)
  BY <1>2, <1>3 DEF Quiet, Unwritten, Settled
<1>4. CASE FetchAndTick(t)
  BY <1>2, <1>4 DEF FetchAndTick, committing
<1>5. ASSUME NEW d \in Cells, NEW w \in Words, PerformWrite(t, d, w)
      PROVE  Visible(e, c)'
  BY <1>2, <1>5 DEF PerformWrite
<1>6. ASSUME locked'[t] = locked[t] \cup {c}, ~ Held(c),
             epoch_lock'[c] = epoch_lock[c] + LOCK_BIT
      PROVE  Visible(e, c)'
  <2>1. c \in locked'[t] /\ LockedEpoch(c)' = epoch_lock[c]
    BY <1>1, <1>6, EpochFacts DEF LockedEpoch
  <2>2. e <= epoch_lock[c]
    BY <1>6 DEF Visible
  <2> QED BY <2>1, <2>2 DEF Visible, Held
<1>7. ASSUME c \notin locked[t], c \notin locked'[t],
             epoch_lock'[c] = epoch_lock[c]
      PROVE  Visible(e, c)'
  BY <1>1, <1>7 DEF Visible, Held, LockedEpoch, OnlyThread
<1>8. CASE CommitHard(t)
  <2>1. locked'[t] = WriteSet(t) /\ locked[t] = {} /\ pc[t] = "commit"
    BY <1>1, <1>8 DEF CommitHard, TypeOK, ThreadInv, Locking
  <2>2. CASE c \in WriteSet(t)
    <3>1. rw_valid(t, c) /\ epoch_lock'[c] = toggle_lock_bit(epoch_lock[c])
      BY <1>8, <2>2 DEF CommitHard, rw_valid
    <3>2. ~ Held(c) /\ epoch_lock'[c] = epoch_lock[c] + LOCK_BIT
      BY <2>1, <3>1, ValidIsFree
    <3>3. e <= epoch_lock[c] /\ LockedEpoch(c)' = epoch_lock[c]
      BY <1>1, <3>2, EpochFacts DEF Visible, LockedEpoch
    <3> QED BY <2>1, <2>2, <3>3 DEF Visible, Held
  <2>3. CASE c \notin WriteSet(t)
    <3>1. epoch_lock'[c] = epoch_lock[c]
      BY <1>8, <2>3 DEF CommitHard
    <3> QED BY <1>7, <2>1, <2>3, <3>1
  <2> QED BY <2>2, <2>3
<1>9. ASSUME NEW d \in Cells, TryLock(t, d) PROVE Visible(e, c)'
  <2>1. /\ locked'[t] = locked[t] \cup {d} /\ pc[t] = "lock"
        /\ pc'[t] = "lock" /\ sync_epoch' = sync_epoch
        /\ rw_valid(t, d)
        /\ epoch_lock' = [epoch_lock EXCEPT ![d] = toggle_lock_bit(@)]
    BY <1>1, <1>9 DEF TryLock, TypeOK, rw_valid
  <2>2. CASE c = d
    BY <1>1, <1>6, <2>1, <2>2, ValidIsFree DEF TypeOK
  <2>3. CASE c # d
    <3>1. /\ epoch_lock'[c] = epoch_lock[c]
          /\ c \in locked'[t] <=> c \in locked[t]
      BY <1>1, <2>1, <2>3 DEF TypeOK
    <3> QED
      BY <1>1, <2>1, <3>1 DEF Visible, Held, LockedEpoch, OnlyThread
  <2> QED BY <2>2, <2>3
<1>10. ASSUME NEW d \in Cells, UnlockPublish(t, d) \/ UnlockUndo(t, d)
       PROVE  Visible(e, c)'
  <2>1. /\ d \in locked[t] /\ locked'[t] = locked[t] \ {d}
        /\ pc' = pc /\ sync_epoch' = sync_epoch
        /\ \/ pc[t] = "undo" /\ epoch_lock' =
                [epoch_lock EXCEPT ![d] = toggle_lock_bit(@)]
           \/ pc[t] = "publish" /\ epoch_lock' =
                [epoch_lock EXCEPT ![d] = next(sync_epoch[t])]
    BY <1>1, <1>10 DEF UnlockPublish, UnlockUndo, TypeOK
  <2>2. CASE c = d
    <3>1. ~ Held(c)'
      BY <1>1, <2>1, <2>2 DEF Held, Exclusive, OnlyThread
    <3>2. \/ e <= LockedEpoch(c)
          \/ pc[t] = "publish" /\ e = next(sync_epoch[t])
      BY <2>1, <2>2 DEF Visible
    <3>3. CASE pc[t] = "undo"
      <4>1. lock_bit_set(epoch_lock[c])
        BY <2>1, <2>2, <3>3 DEF CellInv, HeldInv
      <4>2. epoch_lock'[c] = LockedEpoch(c)
        BY <1>1, <2>1, <2>2, <3>3, <4>1
           DEF TypeOK, toggle_lock_bit, LockedEpoch
      <4>3. e <= epoch_lock'[c]
        BY <3>2, <3>3, <4>2
      <4> QED BY <3>1, <4>3 DEF Visible, Held
    <3>4. CASE pc[t] = "publish"
      <4>1. LockedEpoch(c) <= sync_epoch[t]
        BY <2>1, <2>2, <3>4 DEF CellInv, PublishInv
      <4>2. /\ sync_epoch[t] \in Nat /\ next(sync_epoch[t]) \in Nat
            /\ next(sync_epoch[t]) > sync_epoch[t] /\ LockedEpoch(c) \in Int
        BY <1>1, EpochFacts DEF TypeOK, LockedEpoch
      <4>3. epoch_lock'[c] = next(sync_epoch[t])
        BY <1>1, <2>1, <2>2, <3>4 DEF TypeOK
      <4>4. e <= epoch_lock'[c]
        BY <3>2, <4>1, <4>2, <4>3
      <4> QED BY <3>1, <4>4 DEF Visible, Held
    <3> QED BY <2>1, <3>3, <3>4
  <2>3. CASE c # d
    <3>1. /\ epoch_lock'[c] = epoch_lock[c]
          /\ c \in locked'[t] <=> c \in locked[t]
      BY <1>1, <2>1, <2>3 DEF TypeOK
    <3> QED
      BY <1>1, <2>1, <3>1 DEF Visible, Held, LockedEpoch, OnlyThread
  <2> QED BY <2>2, <2>3
<1> QED
  BY <1>1, <1>3, <1>4, <1>5, <1>8, <1>9, <1>10, QuietStep

(* A cell whose writer is pending is held by that writer.                  *)
LEMMA PendingHolds ==
  ASSUME IInv, HistoryTypeOK, PlacedInv, NEW i \in DOMAIN order,
         NEW c \in Cells, Writes(i, c)
  PROVE  \/ order[i].epoch >= 1 /\ order[i].epoch \in DOMAIN snap
         \/ /\ IsPending(i) /\ pc[order[i].owner] \in Undated
            /\ c \in locked[order[i].owner]
<1>1. order[i].owner \in Threads
  BY EntryTypes
<1>2. order[i].writes # NoEntries
  BY DEF Writes, NoEntries
<1>3. CASE IsPending(i)
  <2>1. pc[order[i].owner] \in Undated /\ c \in WriteSet(order[i].owner)
    BY <1>3 DEF PlacedInv, Placed, IsPending, Pending, Undone, Writes, WriteSet
  <2> QED BY <1>1, <1>3, <2>1 DEF IInv, ThreadInv, Undated
<1> QED BY <1>2, <1>3 DEF PlacedInv, Placed

(* A cell that passes a check has no writer but those the pin has seen.    *)
LEMMA ValidSeesAll ==
  ASSUME IInv, HistoryTypeOK, PlacedInv, VisibleInv, NEW t \in Threads,
         pc[t] # "idle", NEW c \in Cells, rw_valid(t, c),
         NEW i \in DOMAIN order, Writes(i, c)
  PROVE  By(i, thread_epoch[t])
<1>1. ~ Held(c) /\ epoch_lock[c] <= thread_epoch[t]
  BY ValidIsFree DEF IInv
<1>2. order[i].epoch >= 1 /\ order[i].owner \in Threads /\ order[i].epoch \in Int
  BY <1>1, PendingHolds, EntryTypes DEF Held
<1>3. order[i].epoch <= epoch_lock[c]
  BY <1>1, <1>2 DEF VisibleInv, Visible
<1> QED BY <1>1, <1>2, <1>3 DEF By, IInv, TypeOK

(* So does a cell that the thread has just locked.                         *)
LEMMA LockedSeesAll ==
  ASSUME IInv, HistoryTypeOK, PlacedInv, VisibleInv, NEW t \in Threads,
         pc[t] = "lock", NEW c \in locked[t],
         NEW i \in DOMAIN order, Writes(i, c)
  PROVE  By(i, thread_epoch[t])
<1>1. c \in Cells /\ thread_epoch[t] \in Nat /\ epoch_lock[c] \in Nat
  BY DEF IInv, TypeOK
<1>2. LockedEpoch(c) <= thread_epoch[t] /\ LockedEpoch(c) \in Int
  BY <1>1, EpochFacts DEF IInv, CellInv, HeldInv, LockedEpoch
<1>3. order[i].owner \in Threads /\ order[i].epoch \in Int
  BY EntryTypes
<1>4. order[i].epoch >= 1
  <2> SUFFICES ASSUME ~ (order[i].epoch >= 1) PROVE FALSE
    OBVIOUS
  <2>1. pc[order[i].owner] \in Undated /\ c \in locked[order[i].owner]
    BY <1>1, PendingHolds
  <2> QED BY <1>3, <2>1 DEF Undated, IInv, Exclusive
<1>5. order[i].epoch <= LockedEpoch(c)
  BY <1>1, <1>4 DEF VisibleInv, Visible
<1> QED BY <1>1, <1>2, <1>3, <1>4, <1>5 DEF By

-----------------------------------------------------------------------------
(* What entries leave in a cell.                                           *)

(* The last of some entries is one of them.                                *)
LEMMA LastOne ==
  ASSUME NEW n \in Nat, NEW S \in SUBSET (1..n), S # {}
  PROVE  Max(S) \in S /\ \A i \in S : i <= Max(S)
<1>1. S \in SUBSET Nat /\ \A i \in S : i <= n
  OBVIOUS
<1>2. \E i \in S : \A j \in S : j <= i
  BY <1>1, GreatestNatural
<1>3. \E i \in S : \A j \in S : i >= j
  BY <1>1, <1>2
<1>4. Max(S) \in S /\ \A j \in S : Max(S) >= j
  BY <1>3 DEF Max
<1> QED BY <1>1, <1>4

(* Only what the entries write matters, and which of them count.           *)
LEMMA SameLatest ==
  ASSUME HistoryTypeOK, NEW c \in Cells, NEW S \in SUBSET DOMAIN order,
         \A i \in S : order'[i].writes = order[i].writes
  PROVE  (IF S = {} THEN InitVal ELSE order'[Max(S)].writes[c]) = Latest(S, c)
<1>1. S # {} => Max(S) \in S
  BY LastOne, EntryTypes
<1> QED BY <1>1 DEF Latest

(* The first entries leave what they left before the step.                 *)
LEMMA SameValueAfter ==
  ASSUME HistoryTypeOK, NEW c \in Cells, NEW k \in Nat, 1..k \subseteq DOMAIN order,
         \A j \in 1..k : Writes(j, c)' <=> Writes(j, c),
         \A j \in 1..k : Writes(j, c) => order'[j].writes = order[j].writes
  PROVE  ValueAfter(k, c)' = ValueAfter(k, c)
<1> DEFINE S == {j \in 1..k : order[j].writes[c] # None}
<1>1. S \in SUBSET DOMAIN order /\ \A j \in S : order'[j].writes = order[j].writes
  BY DEF Writes
<1>2. {j \in 1..k : order'[j].writes[c] # None} = S
  BY DEF Writes
<1>3. ValueAfter(k, c) = Latest(S, c)
  BY DEF ValueAfter
<1>4. ValueAfter(k, c)' = IF S = {} THEN InitVal ELSE order'[Max(S)].writes[c]
  BY <1>2 DEF ValueAfter, Latest
<1> HIDE DEF S
<1> QED BY <1>1, <1>3, <1>4, SameLatest

(* The writers that a pin has seen are those before an entry: then they    *)
(* leave in the cell what the pin shows.                                   *)
LEMMA PinShowsPrefix ==
  ASSUME HistoryTypeOK, StoreInv, NEW e \in DOMAIN snap, NEW c \in Cells,
         NEW k \in Nat, k <= Len(order),
         \A j \in DOMAIN order : Writes(j, c) => (j <= k <=> By(j, e))
  PROVE  ValueAfter(k, c) = snap[e][c]
<1>1. Len(order) \in Nat /\ DOMAIN order = 1..Len(order)
  BY EntryTypes
<1>2. {j \in 1..k : order[j].writes[c] # None} = Past(e, c)
  BY <1>1 DEF Past, Writes
<1> QED BY <1>2 DEF ValueAfter, StoreInv

(* The prefix at an epoch ends with the last entry that is dated by then.  *)
LEMMA LastSeen ==
  ASSUME HistoryTypeOK, NEW e
  PROVE  /\ PrefixAt(e) \in 0..Len(order)
         /\ PrefixAt(e) > 0 => By(PrefixAt(e), e)
         /\ \A j \in DOMAIN order : By(j, e) => j <= PrefixAt(e)
<1> DEFINE S == {0} \cup {i \in DOMAIN order : order[i].epoch \in 1..e}
<1>1. Len(order) \in Nat /\ DOMAIN order = 1..Len(order)
  BY EntryTypes
<1>2. S \in SUBSET Nat /\ S # {} /\ \A i \in S : i <= Len(order)
  BY <1>1
<1>3. PICK k : k = PrefixAt(e) /\ k = Max(S)
  BY DEF PrefixAt
<1>4. /\ \A i \in S : (i \in DOMAIN order /\ By(i, e)) \/ i = 0
      /\ \A i \in DOMAIN order : By(i, e) => i \in S
  BY DEF By
<1> HIDE DEF S
<1>5. \E i \in S : \A j \in S : j <= i
  BY <1>1, <1>2, GreatestNatural
<1>6. \E i \in S : \A j \in S : i >= j
  BY <1>2, <1>5
<1>7. k \in S /\ \A j \in S : k >= j
  BY <1>3, <1>6 DEF Max
<1>8. k \in 0..Len(order) /\ \A j \in S : j <= k
  BY <1>1, <1>2, <1>7
<1>9. k > 0 => By(k, e)
  BY <1>4, <1>7, <1>8
<1> QED BY <1>3, <1>4, <1>8, <1>9

-----------------------------------------------------------------------------
(* The invariant when a thread has taken its last lock.                    *)

(* What the thread must check has no writers but those its pin has seen,   *)
(* if they are checked already.                                            *)
LEMMA CommitSeesAll ==
  ASSUME IInv, HInv, NEW t \in Threads, AllLocked(t) \/ CommitHard(t),
         NEW c \in Cells,
         c \in WriteSet(t) \/ (CommitHard(t) /\ c \in read_log[t]),
         NEW i \in DOMAIN order, Writes(i, c)
  PROVE  By(i, thread_epoch[t])
<1> USE DEF HInv
<1>1. CASE AllLocked(t)
  <2>1. pc[t] = "lock" /\ c \in locked[t]
    BY <1>1 DEF AllLocked, CommitHard
  <2> QED BY <2>1, LockedSeesAll
<1>2. CASE CommitHard(t)
  <2>1. pc[t] # "idle" /\ rw_valid(t, c)
    BY <1>2 DEF CommitHard, validate_reads_htm, rw_valid
  <2> QED BY <2>1, ValidSeesAll
<1> QED BY <1>1, <1>2

(* What such a step changes besides the history.                           *)
LEMMA CommitFrame ==
  ASSUME TypeOK, NEW t \in Threads, HistoryStep(t), HistoryTypeOK,
         AllLocked(t) \/ CommitHard(t)
  PROVE  /\ clock' = clock /\ snap' = snap /\ thread_epoch' = thread_epoch
         /\ reads' = reads /\ write_log' = write_log /\ read_log' = read_log
         /\ \A u \in Threads \ {t} :
              /\ pc'[u] = pc[u] /\ unvalidated'[u] = unvalidated[u]
              /\ logged'[u] = logged[u]
         /\ \/ AllLocked(t) /\ pc[t] = "lock" /\ pc'[t] = "validate"
                            /\ unvalidated'[t] = read_log[t]
            \/ CommitHard(t) /\ pc[t] = "commit" /\ pc'[t] = "tick"
<1>1. OnlyThread(t)
  BY Frame DEF HistoryStep
<1>2. \A u \in Threads \ {t} : logged'[u] = logged[u]
  BY DEF HistoryStep, HistoryTypeOK
<1> QED
  BY <1>1, <1>2 DEF TypeOK, AllLocked, CommitHard, shared, logs, committing,
                    Goto, OnlyThread

(* The set of cells that a commit has to check keeps its type.             *)
LEMMA LoggedType ==
  ASSUME TypeOK, HistoryTypeOK, NEW t \in Threads, HistoryStep(t)
  PROVE  logged' \in [Threads -> SUBSET Cells]
<1>1. Logged(t) \subseteq Cells
  BY DEF Logged, TypeOK, HistoryTypeOK
<1> QED BY <1>1 DEF HistoryStep, HistoryTypeOK

(* The new entry keeps everything that is known of the history.            *)
LEMMA AppendStep ==
  ASSUME IInv, HInv, NEW t \in Threads, HistoryStep(t),
         AllLocked(t) \/ CommitHard(t)
  PROVE  HInv'
<1> USE DEF HInv
<1>1. TypeOK /\ HistoryTypeOK /\ Step(t)
  BY DEF IInv, HistoryStep
<1>0. PICK n \in Nat : n = Len(order)
  BY <1>1, EntryTypes
<1>2. /\ order' \in Seq(Entries)
      /\ DOMAIN order = 1..n /\ DOMAIN order' = 1..(n + 1)
      /\ \A i \in 1..n : order'[i] = order[i]
      /\ order'[n + 1] = Entry(t)
  BY <1>0, <1>1, Appended
<1>3. /\ order'[n + 1].owner = t /\ order'[n + 1].epoch = Pending
      /\ order'[n + 1].writes = write_log[t]
      /\ order'[n + 1].reads = CheckedReads(t)
  BY <1>1, <1>2, EntryFields
<1>4. \A i \in 1..n : order[i].owner \in Threads /\ order[i].epoch \in Int
  BY <1>1, <1>2, EntryTypes
<1>5. \A i \in 1..(n + 1) : i \in 1..n \/ i = n + 1
  BY <1>2
<1>6. /\ clock' = clock /\ snap' = snap /\ thread_epoch' = thread_epoch
      /\ reads' = reads /\ write_log' = write_log /\ read_log' = read_log
      /\ \A u \in Threads \ {t} :
           /\ pc'[u] = pc[u] /\ unvalidated'[u] = unvalidated[u]
           /\ logged'[u] = logged[u]
      /\ \/ AllLocked(t) /\ pc[t] = "lock" /\ pc'[t] = "validate"
                         /\ unvalidated'[t] = read_log[t]
         \/ CommitHard(t) /\ pc[t] = "commit" /\ pc'[t] = "tick"
  BY <1>1, CommitFrame
<1>7. /\ \A i \in 1..n : IsPending(i)' <=> IsPending(i)
      /\ IsPending(n + 1)'
      /\ \A i \in 1..n : IsPending(i) => order[i].owner # t
  BY <1>2, <1>3, <1>6 DEF IsPending, PlacedInv, Placed, Undated, Pending, Undone
<1>8. /\ \A i \in 1..n, c \in Cells : Writes(i, c)' <=> Writes(i, c)
      /\ \A c \in Cells : Writes(n + 1, c)' <=> c \in WriteSet(t)
  BY <1>2, <1>3 DEF Writes, WriteSet
<1>9. \A e : /\ \A i \in 1..n : order'[i].epoch \in 1..e <=> By(i, e)
             /\ ~ (order'[n + 1].epoch \in 1..e)
  <2>1. \A e : Pending \notin 1..e
    BY DEF Pending
  <2> QED BY <1>2, <1>3, <2>1 DEF By
<1>10. \A c \in Cells, i \in 1..n :
         /\ c \in WriteSet(t) \/ (CommitHard(t) /\ c \in read_log[t])
         /\ Writes(i, c)
         => By(i, thread_epoch[t])
  BY <1>2, CommitSeesAll
<1>11. \A i \in 1..n : \A e : By(i, e) => order[i].epoch >= 1
  BY <1>4 DEF By
<1>12. HistoryTypeOK'
  BY <1>1, <1>2, LoggedType DEF HistoryTypeOK
<1>13. PlacedInv'
  <2>1. ASSUME NEW i \in DOMAIN order'
        PROVE  Placed(i)'
    <3>1. CASE i \in 1..n
      BY <1>2, <1>4, <1>6, <1>7, <3>1 DEF PlacedInv, Placed
    <3>2. CASE i = n + 1
      BY <1>3, <1>6, <1>7, <3>2 DEF Placed, Undated
    <3> QED BY <1>2, <1>5, <3>1, <3>2
  <2>2. \A i, j \in DOMAIN order' :
          IsPending(i)' /\ IsPending(j)' /\ order'[i].owner = order'[j].owner
            => i = j
    BY <1>2, <1>3, <1>5, <1>7 DEF PlacedInv
  <2>3. ASSUME NEW u \in Threads, pc'[u] \in Undated
        PROVE  \E i \in DOMAIN order' : IsPending(i)' /\ order'[i].owner = u
    <3>1. CASE u = t
      BY <1>2, <1>3, <1>7, <3>1
    <3>2. CASE u # t
      <4>1. \E i \in 1..n : IsPending(i) /\ order[i].owner = u
        BY <1>2, <1>6, <2>3, <3>2 DEF PlacedInv
      <4> QED BY <1>2, <1>7, <4>1
    <3> QED BY <3>1, <3>2
  <2> QED BY <2>1, <2>2, <2>3 DEF PlacedInv
<1>14. OrderedInv'
  <2> SUFFICES ASSUME NEW i \in DOMAIN order', NEW j \in DOMAIN order',
                      NEW c \in Cells, i < j, Writes(i, c)', Writes(j, c)'
               PROVE  /\ order'[i].epoch >= 1
                      /\ IsPending(j)' \/ order'[i].epoch < order'[j].epoch
    BY DEF OrderedInv
  <2>1. i \in 1..n
    BY <1>2, <1>5
  <2>2. CASE j \in 1..n
    BY <1>2, <1>7, <1>8, <2>1, <2>2 DEF OrderedInv
  <2>3. CASE j = n + 1
    BY <1>2, <1>7, <1>8, <1>10, <1>11, <2>1, <2>3
  <2> QED BY <1>2, <1>5, <2>2, <2>3
<1>15. StoreInv'
  <2> SUFFICES ASSUME NEW e \in DOMAIN snap, NEW c \in Cells
               PROVE  snap[e][c] = Latest(Past(e, c), c)'
    BY <1>6 DEF StoreInv
  <2>1. Past(e, c)' = Past(e, c)
    BY <1>2, <1>5, <1>8, <1>9 DEF Past, By
  <2>2. Past(e, c) \in SUBSET DOMAIN order
    BY DEF Past
  <2>3. Latest(Past(e, c), c)' = IF Past(e, c) = {} THEN InitVal
                                 ELSE order'[Max(Past(e, c))].writes[c]
    BY <2>1 DEF Latest
  <2>4. Latest(Past(e, c), c)' = Latest(Past(e, c), c)
    BY <1>1, <1>2, <2>2, <2>3, SameLatest
  <2> QED BY <2>4 DEF StoreInv
<1>16. VisibleInv'
  <2> SUFFICES ASSUME NEW i \in DOMAIN order', NEW c \in Cells,
                      Writes(i, c)', order'[i].epoch >= 1
               PROVE  Visible(order[i].epoch, c)'
    BY DEF VisibleInv
  <2>1. i \in 1..n
    BY <1>2, <1>3, <1>5 DEF Pending
  <2>2. order'[i].epoch = order[i].epoch /\ Visible(order[i].epoch, c)
    BY <1>2, <1>8, <2>1 DEF VisibleInv
  <2>3. order[i].epoch \in Nat
    BY <1>4, <2>1, <2>2
  <2> QED BY <1>1, <2>2, <2>3, VisibleStep DEF Visible
<1>17. ReadInv'
  BY <1>2, <1>5, <1>6, <1>8, <1>9 DEF ReadInv, By
<1>18. PendingInv'
  <2> SUFFICES ASSUME NEW i \in DOMAIN order', IsPending(i)'
               PROVE  StillValid(i)'
    BY DEF PendingInv
  <2>1. CASE i \in 1..n
    <3>0. PICK u \in Threads : u = order[i].owner
      BY <1>4, <2>1
    <3>1. IsPending(i) /\ u # t /\ order'[i] = order[i]
      BY <1>2, <1>7, <2>1, <3>0
    <3>2. \A j \in DOMAIN order' : j >= i => ~ By(j, thread_epoch[u])'
      BY <1>2, <1>5, <1>6, <1>9, <2>1, <3>0, <3>1 DEF PendingInv, StillValid, By
    <3>3. ASSUME pc'[u] = "validate", NEW c \in Cells,
                 order'[i].reads[c] # None
          PROVE  /\ order'[i].reads[c] = reads'[u][c]
                 /\ c \in unvalidated'[u] \/ Sees(i, c, thread_epoch[u])'
      <4>1. /\ order[i].reads[c] = reads[u][c]
            /\ c \in unvalidated[u] \/ Sees(i, c, thread_epoch[u])
        BY <1>2, <1>6, <2>1, <3>0, <3>1, <3>3 DEF PendingInv, StillValid
      <4>2. Sees(i, c, thread_epoch[u]) => Sees(i, c, thread_epoch[u])'
        BY <1>2, <1>5, <1>6, <1>8, <1>9, <2>1, <3>1 DEF Sees, By
      <4> QED BY <1>6, <3>1, <4>1, <4>2
    <3> QED BY <3>0, <3>1, <3>2, <3>3 DEF StillValid
  <2>2. CASE i = n + 1
    <3>1. \A j \in DOMAIN order' : j >= i => ~ By(j, thread_epoch[t])'
      BY <1>2, <1>5, <1>9, <2>2 DEF By
    <3>2. ASSUME pc'[t] = "validate", NEW c \in Cells,
                 order'[i].reads[c] # None
          PROVE  /\ order'[i].reads[c] = reads'[t][c]
                 /\ c \in unvalidated'[t] \/ Sees(i, c, thread_epoch[t])'
      <4>1. /\ reads[t][c] = order'[i].reads[c]
            /\ c \in Logged(t) \cup WriteSet(t)
        BY <1>3, <2>2, <3>2 DEF CheckedReads
      <4>2. pc[t] = "lock" /\ unvalidated'[t] = read_log[t]
        BY <1>6, <3>2
      <4>3. c \in read_log[t] \cup WriteSet(t)
        BY <4>1, <4>2 DEF LoggedInv, Logged
      <4>4. c \in WriteSet(t) => Sees(i, c, thread_epoch[t])'
        BY <1>2, <1>5, <1>6, <1>8, <1>9, <1>10, <2>2 DEF Sees, By
      <4> QED BY <1>6, <4>1, <4>2, <4>3, <4>4
    <3> QED BY <1>3, <2>2, <3>1, <3>2 DEF StillValid
  <2> QED BY <1>2, <1>5, <2>1, <2>2
<1>19. DecidedInv'
  <2> SUFFICES ASSUME NEW i \in DOMAIN order', Decided(order[i])',
                      NEW c \in Cells, order'[i].reads[c] # None
               PROVE  /\ order'[i].reads[c] = ValueAfter(i - 1, c)'
                      /\ \A j \in 1..(i - 1) :
                           Writes(j, c)' => order'[j].epoch >= 1
    BY DEF DecidedInv
  <2>1. /\ i - 1 \in Nat /\ 1..(i - 1) \subseteq 1..n
        /\ i - 1 <= n
    BY <1>2
  <2>2. ValueAfter(i - 1, c)' = ValueAfter(i - 1, c)
    BY <1>1, <1>2, <1>8, <2>1, SameValueAfter
  <2>3. CASE i \in 1..n
    <3>1. Decided(order[i])
      BY <1>2, <1>4, <1>6, <1>7, <2>3 DEF Decided, IsPending
    <3> QED BY <1>2, <1>8, <2>1, <2>2, <2>3, <3>1 DEF DecidedInv
  <2>4. CASE i = n + 1
    <3>1. CommitHard(t) /\ pc[t] = "commit"
      BY <1>3, <1>6, <2>4 DEF Decided, Irrevocable
    <3>2. /\ reads[t][c] = order'[i].reads[c]
          /\ c \in read_log[t] \cup WriteSet(t)
      BY <1>3, <2>4, <3>1 DEF CheckedReads, Logged, Checking
    <3>3. \A j \in 1..n : Writes(j, c) => By(j, thread_epoch[t])
      BY <1>10, <3>1, <3>2
    <3>4. thread_epoch[t] \in DOMAIN snap
      BY <3>1 DEF IInv, ThreadInv
    <3>5. ValueAfter(n, c) = snap[thread_epoch[t]][c]
      BY <1>0, <1>1, <1>2, <3>3, <3>4, PinShowsPrefix
    <3>6. order'[i].reads[c] = snap[thread_epoch[t]][c]
      BY <3>2 DEF IInv, Opacity
    <3>7. i - 1 = n
      BY <1>2, <2>4
    <3> QED BY <1>2, <1>8, <1>11, <2>2, <3>3, <3>5, <3>6, <3>7
  <2> QED BY <1>2, <1>5, <2>3, <2>4
<1>20. LoggedInv'
  BY <1>6 DEF LoggedInv, WriteSet
<1> QED
  BY <1>12, <1>13, <1>14, <1>15, <1>16, <1>17, <1>18, <1>19, <1>20

-----------------------------------------------------------------------------
(* The invariant when a validation fails.                                  *)

(* What is left after the withdrawal of an entry was there before.         *)
LEMMA WithdrawStep ==
  ASSUME IInv, HInv, NEW t \in Threads, HistoryStep(t),
         NEW d \in Cells, ValidationFailure(t, d)
  PROVE  HInv'
<1> USE DEF HInv
<1>1. TypeOK /\ HistoryTypeOK /\ Step(t) /\ OnlyThread(t)
  BY Frame DEF IInv, HistoryStep
<1>2. /\ order' \in Seq(Entries) /\ DOMAIN order' = DOMAIN order
      /\ \A i \in DOMAIN order :
           IF PendingOf(t, order[i])
             THEN /\ order'[i].owner = t /\ order'[i].epoch = Undone
                  /\ order'[i].reads = NoEntries
                  /\ order'[i].writes = NoEntries
             ELSE order'[i] = order[i]
  BY <1>1, WithdrawnEntries
<1>3. \A i \in DOMAIN order : order[i].owner \in Threads /\ order[i].epoch \in Int
  BY <1>1, EntryTypes
<1>4. /\ clock' = clock /\ snap' = snap /\ thread_epoch' = thread_epoch
      /\ reads' = reads /\ write_log' = write_log /\ read_log' = read_log
      /\ pc[t] = "validate" /\ pc'[t] = "undo"
      /\ \A u \in Threads \ {t} :
           /\ pc'[u] = pc[u] /\ unvalidated'[u] = unvalidated[u]
           /\ logged'[u] = logged[u]
  BY <1>1 DEF OnlyThread, TypeOK, HistoryTypeOK, HistoryStep, ValidationFailure,
              shared, logs, Goto
<1>5. \A i \in DOMAIN order, c \in Cells :
        Writes(i, c)' => Writes(i, c) /\ order'[i] = order[i]
  BY <1>2 DEF Writes, NoEntries
<1>6. /\ \A i \in DOMAIN order : order'[i].owner = order[i].owner
      /\ \A i \in DOMAIN order :
           IsPending(i)' <=> IsPending(i) /\ order[i].owner # t
      /\ \A i \in DOMAIN order : IsPending(i)' => order'[i] = order[i]
      /\ \A i \in DOMAIN order : ~ IsPending(i) => order'[i] = order[i]
  BY <1>2 DEF PendingOf, IsPending, Pending, Undone
<1>7. \A e : \A i \in DOMAIN order : order'[i].epoch \in 1..e <=> By(i, e)
  <2>1. \A e : Pending \notin 1..e /\ Undone \notin 1..e
    BY DEF Pending, Undone
  <2> QED BY <1>2, <2>1 DEF By, PendingOf
<1>8. HistoryTypeOK'
  BY <1>1, <1>2, LoggedType DEF HistoryTypeOK
<1>9. PlacedInv'
  <2>1. ASSUME NEW i \in DOMAIN order' PROVE Placed(i)'
    <3>1. Placed(i) /\ i \in DOMAIN order
      BY <1>2 DEF PlacedInv
    <3>2. CASE PendingOf(t, order[i])
      BY <1>2, <3>1, <3>2 DEF Placed
    <3>3. CASE ~ PendingOf(t, order[i])
      BY <1>2, <1>3, <1>4, <1>6, <3>1, <3>3 DEF Placed, PendingOf, IsPending
    <3> QED BY <3>2, <3>3
  <2>2. \A i, j \in DOMAIN order' :
          IsPending(i)' /\ IsPending(j)' /\ order'[i].owner = order'[j].owner
            => i = j
    BY <1>2, <1>6 DEF PlacedInv
  <2>3. ASSUME NEW u \in Threads, pc'[u] \in Undated
        PROVE  \E i \in DOMAIN order' : IsPending(i)' /\ order'[i].owner = u
    <3>1. u # t /\ pc[u] \in Undated
      BY <1>4, <2>3 DEF Undated
    <3>2. \E i \in DOMAIN order : IsPending(i) /\ order[i].owner = u
      BY <3>1 DEF PlacedInv
    <3> QED BY <1>2, <1>6, <3>1, <3>2
  <2> QED BY <2>1, <2>2, <2>3 DEF PlacedInv
<1>10. OrderedInv'
  <2> SUFFICES ASSUME NEW i \in DOMAIN order, NEW j \in DOMAIN order,
                      NEW c \in Cells, i < j, Writes(i, c)', Writes(j, c)'
               PROVE  /\ order'[i].epoch >= 1
                      /\ IsPending(j)' \/ order'[i].epoch < order'[j].epoch
    BY <1>2 DEF OrderedInv
  <2>1. /\ order[i].epoch >= 1
        /\ IsPending(j) \/ order[i].epoch < order[j].epoch
    BY <1>5 DEF OrderedInv
  <2>2. order'[i] = order[i] /\ order'[j] = order[j]
    BY <1>5
  <2> QED BY <2>1, <2>2 DEF IsPending
<1>11. StoreInv'
  <2> SUFFICES ASSUME NEW e \in DOMAIN snap, NEW c \in Cells
               PROVE  snap[e][c] = Latest(Past(e, c), c)'
    BY <1>4 DEF StoreInv
  <2>1. \A i \in Past(e, c) : order'[i] = order[i]
    <3>1. \A i \in Past(e, c) : i \in DOMAIN order /\ ~ IsPending(i)
      BY DEF Past, By, IsPending, Pending
    <3> QED BY <1>6, <3>1
  <2>2. Past(e, c)' = Past(e, c)
    BY <1>2, <1>5, <1>7, <2>1 DEF Past, By, Writes
  <2>3. Past(e, c) \in SUBSET DOMAIN order
    BY DEF Past
  <2>4. Latest(Past(e, c), c)' = IF Past(e, c) = {} THEN InitVal
                                 ELSE order'[Max(Past(e, c))].writes[c]
    BY <2>2 DEF Latest
  <2>5. Latest(Past(e, c), c)' = Latest(Past(e, c), c)
    BY <1>1, <2>1, <2>3, <2>4, SameLatest
  <2> QED BY <2>5 DEF StoreInv
<1>12. VisibleInv'
  <2> SUFFICES ASSUME NEW i \in DOMAIN order, NEW c \in Cells,
                      Writes(i, c)', order'[i].epoch >= 1
               PROVE  Visible(order[i].epoch, c)'
    BY <1>2 DEF VisibleInv
  <2>1. order'[i] = order[i] /\ Visible(order[i].epoch, c)
    BY <1>5 DEF VisibleInv
  <2>2. order[i].epoch \in Nat
    BY <1>3, <2>1
  <2> QED BY <1>1, <2>1, <2>2, VisibleStep DEF Visible
<1>13. ReadInv'
  BY <1>2, <1>4, <1>5, <1>7 DEF ReadInv, By
<1>14. PendingInv'
  <2> SUFFICES ASSUME NEW i \in DOMAIN order, IsPending(i)'
               PROVE  StillValid(i)'
    BY <1>2 DEF PendingInv
  <2>1. PICK u \in Threads : u = order[i].owner
    BY <1>3
  <2>2. u # t /\ order'[i] = order[i] /\ StillValid(i)
    BY <1>6, <2>1 DEF PendingInv
  <2>3. \A j \in DOMAIN order' : j >= i => ~ By(j, thread_epoch[u])'
    BY <1>2, <1>4, <1>7, <2>1, <2>2 DEF StillValid, By
  <2>4. ASSUME pc'[u] = "validate", NEW c \in Cells, order'[i].reads[c] # None
        PROVE  /\ order'[i].reads[c] = reads'[u][c]
               /\ c \in unvalidated'[u] \/ Sees(i, c, thread_epoch[u])'
    <3>1. /\ order[i].reads[c] = reads[u][c]
          /\ c \in unvalidated[u] \/ Sees(i, c, thread_epoch[u])
      BY <1>4, <2>1, <2>2, <2>4 DEF StillValid
    <3>2. Sees(i, c, thread_epoch[u]) => Sees(i, c, thread_epoch[u])'
      BY <1>2, <1>4, <1>5, <1>7 DEF Sees, By
    <3> QED BY <1>4, <2>2, <3>1, <3>2
  <2> QED BY <2>1, <2>2, <2>3, <2>4 DEF StillValid
<1>15. DecidedInv'
  <2> SUFFICES ASSUME NEW i \in DOMAIN order, Decided(order[i])',
                      NEW c \in Cells, order'[i].reads[c] # None
               PROVE  /\ order'[i].reads[c] = ValueAfter(i - 1, c)'
                      /\ \A j \in 1..(i - 1) :
                           Writes(j, c)' => order'[j].epoch >= 1
    BY <1>2 DEF DecidedInv
  <2>1. i - 1 \in Nat /\ 1..(i - 1) \subseteq DOMAIN order
    BY <1>1, EntryTypes
  <2>2. order'[i] = order[i]
    BY <1>2 DEF NoEntries
  <2>3. Decided(order[i])
    BY <1>2, <1>3, <1>4, <2>2 DEF Decided, Irrevocable
  <2>4. /\ order[i].reads[c] = ValueAfter(i - 1, c)
        /\ \A j \in 1..(i - 1) : Writes(j, c) => order[j].epoch >= 1
    BY <2>2, <2>3 DEF DecidedInv
  <2>5. \A j \in 1..(i - 1) : Writes(j, c) => order'[j] = order[j]
    <3>1. \A j \in 1..(i - 1) : Writes(j, c) => ~ IsPending(j)
      BY <2>4 DEF IsPending, Pending
    <3> QED BY <1>6, <2>1, <3>1
  <2>6. \A j \in 1..(i - 1) : Writes(j, c)' <=> Writes(j, c)
    BY <1>5, <2>1, <2>5 DEF Writes
  <2>7. ValueAfter(i - 1, c)' = ValueAfter(i - 1, c)
    BY <1>1, <2>1, <2>5, <2>6, SameValueAfter
  <2> QED BY <2>2, <2>4, <2>5, <2>6, <2>7
<1>16. LoggedInv'
  BY <1>4 DEF LoggedInv, WriteSet
<1> QED
  BY <1>8, <1>9, <1>10, <1>11, <1>12, <1>13, <1>14, <1>15, <1>16

-----------------------------------------------------------------------------
(* The invariant at a tick of the clock.                                   *)

(* The date of an entry is later than those of all others, and than every  *)
(* pin.                                                                    *)
LEMMA DateStep ==
  ASSUME IInv, IInv', HInv, NEW t \in Threads, HistoryStep(t), FetchAndTick(t)
  PROVE  HInv'
<1> USE DEF HInv
<1>1. /\ TypeOK /\ TypeOK' /\ HistoryTypeOK /\ Step(t) /\ OnlyThread(t)
      /\ SnapInv /\ ThreadInv(t)
  BY Frame DEF IInv, HistoryStep
<1>2. /\ order' \in Seq(Entries) /\ DOMAIN order' = DOMAIN order
      /\ \A i \in DOMAIN order :
           IF PendingOf(t, order[i])
             THEN /\ order'[i].owner = t /\ order'[i].epoch = clock'
                  /\ order'[i].reads = order[i].reads
                  /\ order'[i].writes = order[i].writes
             ELSE order'[i] = order[i]
  BY <1>1, DatedEntries
<1>3. \A i \in DOMAIN order :
        i \in Nat /\ order[i].owner \in Threads /\ order[i].epoch \in Int
  BY <1>1, EntryTypes
<1>4. /\ thread_epoch' = thread_epoch /\ reads' = reads
      /\ write_log' = write_log /\ read_log' = read_log
      /\ locked' = locked /\ epoch_lock' = epoch_lock
      /\ pc[t] = "tick" /\ pc'[t] = "publish" /\ sync_epoch'[t] = clock
      /\ \A u \in Threads \ {t} :
           /\ pc'[u] = pc[u] /\ unvalidated'[u] = unvalidated[u]
           /\ logged'[u] = logged[u]
  BY <1>1 DEF OnlyThread, TypeOK, HistoryTypeOK, HistoryStep, FetchAndTick,
              logs, Goto
<1>5. /\ clock \in Nat /\ clock' \in Nat /\ clock' = next(clock)
      /\ clock < clock' /\ clock' >= 1
      /\ DOMAIN snap' = DOMAIN snap \cup {clock'}
      /\ \A e \in DOMAIN snap : e <= clock /\ e \in Nat /\ snap'[e] = snap[e]
      /\ snap'[clock'] = Overwrite(t, snap[clock])
  <2>1. clock \in Nat /\ clock' = next(clock) /\ next(clock) > clock
    BY <1>1, EpochFacts DEF TypeOK, FetchAndTick
  <2>2. \A e \in DOMAIN snap : e <= clock /\ e \in Nat
    BY <1>1 DEF TypeOK, SnapInv
  <2>3. snap' = [e \in DOMAIN snap \cup {clock'} |->
                   IF e = clock' THEN Overwrite(t, snap[clock]) ELSE snap[e]]
    BY <2>1 DEF FetchAndTick
  <2>4. \A e \in DOMAIN snap : e # clock'
    BY <2>1, <2>2
  <2> QED BY <1>1, <2>1, <2>2, <2>3, <2>4 DEF TypeOK
<1>6. PICK p \in DOMAIN order : IsPending(p) /\ order[p].owner = t
  BY <1>4 DEF PlacedInv, Undated
<1>7. /\ order'[p].epoch = clock' /\ order[p].writes = write_log[t]
      /\ \A i \in DOMAIN order : i # p => order'[i] = order[i]
  <2>1. PendingOf(t, order[p])
    BY <1>6 DEF PendingOf, IsPending
  <2>2. \A i \in DOMAIN order : i # p => ~ PendingOf(t, order[i])
    BY <1>6 DEF PlacedInv, PendingOf, IsPending
  <2>3. order[p].writes = write_log[t]
    BY <1>6 DEF PlacedInv, Placed, IsPending, Pending, Undone
  <2> QED BY <1>2, <2>1, <2>2, <2>3
<1>8. \A i \in DOMAIN order :
        /\ order'[i].owner = order[i].owner /\ order'[i].reads = order[i].reads
        /\ order'[i].writes = order[i].writes
        /\ \A c \in Cells : Writes(i, c)' <=> Writes(i, c)
        /\ IsPending(i)' <=> IsPending(i) /\ i # p
  <2>1. \A i \in DOMAIN order :
        /\ order'[i].owner = order[i].owner /\ order'[i].reads = order[i].reads
        /\ order'[i].writes = order[i].writes
    BY <1>2 DEF PendingOf
  <2>2. ~ IsPending(p)'
    BY <1>5, <1>7 DEF IsPending, Pending
  <2> QED BY <1>2, <1>7, <2>1, <2>2 DEF Writes, IsPending
<1>9. \A i \in DOMAIN order : order[i].epoch <= clock
  <2>1. \A i \in DOMAIN order : Placed(i)
    BY DEF PlacedInv
  <2> QED BY <1>5, <2>1 DEF Placed, IsPending, Pending, Undone
<1>10. \A e \in Nat : e <= clock =>
         \A i \in DOMAIN order : order'[i].epoch \in 1..e <=> By(i, e)
  <2>1. order[p].epoch = Pending
    BY <1>6 DEF IsPending
  <2> QED BY <1>5, <1>7, <2>1 DEF By, Pending
<1>11. \A i \in DOMAIN order : order'[i].epoch \in 1..clock' <=>
                                 By(i, clock) \/ i = p
  <2>1. order[p].epoch = Pending
    BY <1>6 DEF IsPending
  <2>2. ASSUME NEW i \in DOMAIN order, i # p
        PROVE  order'[i].epoch \in 1..clock' <=> By(i, clock)
    BY <1>3, <1>5, <1>7, <1>9, <2>2 DEF By
  <2> QED BY <1>5, <1>7, <2>2
<1>12. \A u \in Threads : pc[u] # "idle" =>
         thread_epoch[u] \in Nat /\ thread_epoch[u] <= clock
  BY <1>5 DEF IInv, ThreadInv
<1>13. HistoryTypeOK'
  BY <1>1, <1>2, LoggedType DEF HistoryTypeOK
<1>14. PlacedInv'
  <2>1. ASSUME NEW i \in DOMAIN order' PROVE Placed(i)'
    <3>1. Placed(i) /\ i \in DOMAIN order
      BY <1>2 DEF PlacedInv
    <3>2. CASE i = p
      BY <1>5, <1>7, <3>2 DEF Placed
    <3>3. CASE i # p
      <4>1. order'[i] = order[i] /\ IsPending(i)' = IsPending(i)
        BY <1>7, <3>1, <3>3 DEF IsPending
      <4>2. IsPending(i) => order[i].owner # t
        BY <1>6, <3>1, <3>3 DEF PlacedInv
      <4> QED BY <1>3, <1>4, <1>5, <3>1, <4>1, <4>2 DEF Placed
    <3> QED BY <3>2, <3>3
  <2>2. \A i, j \in DOMAIN order' :
          IsPending(i)' /\ IsPending(j)' /\ order'[i].owner = order'[j].owner
            => i = j
    BY <1>2, <1>8 DEF PlacedInv
  <2>3. ASSUME NEW u \in Threads, pc'[u] \in Undated
        PROVE  \E i \in DOMAIN order' : IsPending(i)' /\ order'[i].owner = u
    <3>1. u # t /\ pc[u] \in Undated
      BY <1>4, <2>3 DEF Undated
    <3>2. \E i \in DOMAIN order : IsPending(i) /\ order[i].owner = u
      BY <3>1 DEF PlacedInv
    <3> QED BY <1>2, <1>6, <1>8, <3>1, <3>2
  <2> QED BY <2>1, <2>2, <2>3 DEF PlacedInv
<1>15. OrderedInv'
  <2> SUFFICES ASSUME NEW i \in DOMAIN order, NEW j \in DOMAIN order,
                      NEW c \in Cells, i < j, Writes(i, c)', Writes(j, c)'
               PROVE  /\ order'[i].epoch >= 1
                      /\ IsPending(j)' \/ order'[i].epoch < order'[j].epoch
    BY <1>2 DEF OrderedInv
  <2>1. /\ order[i].epoch >= 1
        /\ IsPending(j) \/ order[i].epoch < order[j].epoch
    BY <1>8 DEF OrderedInv
  <2>2. order'[i] = order[i]
    BY <1>6, <1>7, <2>1 DEF IsPending, Pending
  <2>3. CASE j = p
    BY <1>3, <1>5, <1>7, <1>9, <2>1, <2>2, <2>3
  <2>4. CASE j # p
    BY <1>7, <1>8, <2>1, <2>2, <2>4
  <2> QED BY <2>3, <2>4
<1>16. StoreInv'
  <2>1. ASSUME NEW e \in DOMAIN snap, NEW c \in Cells
        PROVE  snap[e][c] = Latest(Past(e, c), c)'
    <3>1. Past(e, c)' = Past(e, c)
      BY <1>2, <1>5, <1>8, <1>10 DEF Past, By
    <3>2. Past(e, c) \in SUBSET DOMAIN order
      BY DEF Past
    <3>3. Latest(Past(e, c), c)' = IF Past(e, c) = {} THEN InitVal
                                   ELSE order'[Max(Past(e, c))].writes[c]
      BY <3>1 DEF Latest
    <3>4. Latest(Past(e, c), c)' = Latest(Past(e, c), c)
      BY <1>1, <1>8, <3>2, <3>3, SameLatest
    <3> QED BY <3>4 DEF StoreInv
  <2>2. ASSUME NEW c \in Cells
        PROVE  snap'[clock'][c] = Latest(Past(clock, c), c)'
    <3>1. clock' \in Nat /\ p \in Nat /\ Len(order) \in Nat
          /\ DOMAIN order = 1..Len(order)
      BY <1>1, <1>3, <1>5, EntryTypes
    <3>2. Past(clock, c)' =
            {i \in DOMAIN order : Writes(i, c) /\ (By(i, clock) \/ i = p)}
      BY <1>2, <1>8, <1>11 DEF Past, By
    <3>3. Latest(Past(clock, c), c)' =
            IF Past(clock, c)' = {} THEN InitVal
                                    ELSE order'[Max(Past(clock, c)')].writes[c]
      BY DEF Latest
    <3>4. snap'[clock'][c] = IF write_log[t][c] # None THEN write_log[t][c]
                                                       ELSE snap[clock][c]
      BY <1>5 DEF Overwrite
    <3>5. CASE Writes(p, c)
      <4>1. p \in Past(clock, c)'
        BY <3>2, <3>5
      <4>2. \A i \in Past(clock, c)' : i <= p
        <5>1. ASSUME NEW i \in DOMAIN order, Writes(i, c), i > p
              PROVE  FALSE
          <6>1. order[p].epoch >= 1
            BY <1>3, <3>1, <3>5, <5>1 DEF OrderedInv
          <6> QED BY <1>6, <6>1 DEF IsPending, Pending
        <5> QED BY <1>3, <3>1, <3>2, <5>1
      <4>3. Past(clock, c)' \in SUBSET (1..Len(order))
        BY <3>1, <3>2
      <4>4. Max(Past(clock, c)') = p
        <5>1. /\ Max(Past(clock, c)') \in Past(clock, c)'
              /\ p <= Max(Past(clock, c)')
          BY <3>1, <4>1, <4>3, LastOne
        <5> QED BY <1>3, <3>1, <4>2, <4>3, <5>1
      <4> QED BY <1>7, <1>8, <3>3, <3>4, <3>5, <4>1, <4>4 DEF Writes
    <3>6. CASE ~ Writes(p, c)
      <4>1. Past(clock, c)' = Past(clock, c)
        BY <3>2, <3>6 DEF Past
      <4>2. Past(clock, c) \in SUBSET DOMAIN order
        BY DEF Past
      <4>3. Latest(Past(clock, c), c)' = Latest(Past(clock, c), c)
        BY <1>1, <1>8, <3>3, <4>1, <4>2, SameLatest
      <4>4. snap[clock][c] = Latest(Past(clock, c), c)
        BY <1>1 DEF StoreInv, SnapInv
      <4> QED BY <1>7, <3>4, <3>6, <4>3, <4>4 DEF Writes
    <3> QED BY <3>5, <3>6
  <2> QED BY <1>5, <2>1, <2>2 DEF StoreInv
<1>17. VisibleInv'
  <2> SUFFICES ASSUME NEW i \in DOMAIN order, NEW c \in Cells,
                      Writes(i, c)', order'[i].epoch >= 1
               PROVE  Visible(order[i].epoch, c)'
    BY <1>2 DEF VisibleInv
  <2>1. CASE i = p
    <3>1. c \in locked'[t]
      BY <1>1, <1>4, <1>7, <1>8, <2>1 DEF Writes, ThreadInv, WriteSet
    <3>2. Held(c)' /\ \A u \in Threads : c \in locked'[u] => u = t
      BY <3>1 DEF Held, IInv, Exclusive
    <3> QED BY <1>4, <1>5, <1>7, <2>1, <3>2 DEF Visible
  <2>2. CASE i # p
    <3>1. order'[i] = order[i] /\ Visible(order[i].epoch, c)
      BY <1>7, <1>8, <2>2 DEF VisibleInv
    <3>2. order[i].epoch \in Nat
      BY <1>3, <3>1
    <3> QED BY <1>1, <3>1, <3>2, VisibleStep DEF Visible
  <2> QED BY <2>1, <2>2
<1>18. ReadInv'
  <2> SUFFICES ASSUME NEW u \in Threads, NEW c \in Cells, reads'[u][c] # None,
                      NEW i \in DOMAIN order, NEW j \in DOMAIN order, i < j,
                      Writes(i, c)', By(j, thread_epoch[u])'
               PROVE  By(i, thread_epoch[u])'
    BY <1>2 DEF ReadInv
  <2>1. reads[u][c] # None /\ pc[u] # "idle"
    BY <1>4 DEF IInv, ThreadInv, NoEntries
  <2>2. By(j, thread_epoch[u])
    BY <1>4, <1>10, <1>12, <2>1 DEF By
  <2>3. By(i, thread_epoch[u])
    BY <1>8, <2>1, <2>2 DEF ReadInv
  <2> QED BY <1>4, <1>10, <1>12, <2>1, <2>3 DEF By
<1>19. PendingInv'
  <2> SUFFICES ASSUME NEW i \in DOMAIN order, IsPending(i)'
               PROVE  StillValid(i)'
    BY <1>2 DEF PendingInv
  <2>1. PICK u \in Threads : u = order[i].owner
    BY <1>3
  <2>2. u # t /\ order'[i] = order[i] /\ StillValid(i) /\ pc[u] # "idle"
    <3>1. IsPending(i) /\ i # p
      BY <1>8
    <3>2. u # t
      BY <1>6, <2>1, <3>1 DEF PlacedInv
    <3>3. pc[u] # "idle"
      BY <2>1, <3>1 DEF PlacedInv, Placed, Undated, IsPending, Pending, Undone
    <3> QED BY <1>7, <3>1, <3>2, <3>3 DEF PendingInv
  <2>3. \A j \in DOMAIN order :
          By(j, thread_epoch[u])' <=> By(j, thread_epoch[u])
    BY <1>4, <1>10, <1>12, <2>2 DEF By
  <2>4. \A j \in DOMAIN order' : j >= i => ~ By(j, thread_epoch[u])'
    BY <1>2, <2>1, <2>2, <2>3 DEF StillValid
  <2>5. ASSUME pc'[u] = "validate", NEW c \in Cells, order'[i].reads[c] # None
        PROVE  /\ order'[i].reads[c] = reads'[u][c]
               /\ c \in unvalidated'[u] \/ Sees(i, c, thread_epoch[u])'
    <3>1. /\ order[i].reads[c] = reads[u][c]
          /\ c \in unvalidated[u] \/ Sees(i, c, thread_epoch[u])
      BY <1>4, <2>1, <2>2, <2>5 DEF StillValid
    <3>2. Sees(i, c, thread_epoch[u]) => Sees(i, c, thread_epoch[u])'
      BY <1>2, <1>8, <2>3 DEF Sees
    <3> QED BY <1>4, <2>2, <3>1, <3>2
  <2> QED BY <2>1, <2>2, <2>4, <2>5 DEF StillValid
<1>20. DecidedInv'
  <2> SUFFICES ASSUME NEW i \in DOMAIN order, Decided(order[i])',
                      NEW c \in Cells, order'[i].reads[c] # None
               PROVE  /\ order'[i].reads[c] = ValueAfter(i - 1, c)'
                      /\ \A j \in 1..(i - 1) :
                           Writes(j, c)' => order'[j].epoch >= 1
    BY <1>2 DEF DecidedInv
  <2>1. i - 1 \in Nat /\ 1..(i - 1) \subseteq DOMAIN order
    BY <1>1, EntryTypes
  <2>2. Decided(order[i])
    <3>1. CASE i = p
      BY <1>4, <1>6, <3>1 DEF Decided, Irrevocable
    <3>2. CASE i # p
      <4>1. order'[i] = order[i]
        BY <1>7, <3>2
      <4>2. IsPending(i) => order[i].owner # t
        BY <1>6, <3>2 DEF PlacedInv
      <4> QED BY <1>3, <1>4, <4>1, <4>2 DEF Decided, IsPending
    <3> QED BY <3>1, <3>2
  <2>3. /\ order[i].reads[c] = ValueAfter(i - 1, c)
        /\ \A j \in 1..(i - 1) : Writes(j, c) => order[j].epoch >= 1
    BY <1>8, <2>2 DEF DecidedInv
  <2>4. ValueAfter(i - 1, c)' = ValueAfter(i - 1, c)
    BY <1>1, <1>8, <2>1, SameValueAfter
  <2>5. \A j \in 1..(i - 1) : Writes(j, c)' => order'[j].epoch >= 1
    BY <1>5, <1>7, <1>8, <2>1, <2>3
  <2> QED BY <1>8, <2>3, <2>4, <2>5
<1>21. LoggedInv'
  BY <1>4 DEF LoggedInv, WriteSet
<1> QED
  BY <1>13, <1>14, <1>15, <1>16, <1>17, <1>18, <1>19, <1>20, <1>21

-----------------------------------------------------------------------------
(* The invariant at all other steps.                                       *)

(* What the thread that moves knows of its own entry.                      *)
LEMMA OwnEntryKept ==
  ASSUME IInv, HInv, NEW t \in Threads, Plain(t), order' = order,
         NEW i \in DOMAIN order, IsPending(i), order[i].owner = t
  PROVE  StillValid(i)'
<1> USE DEF HInv
<1>1. StillValid(i) /\ pc[t] \in Undated
  BY DEF PendingInv, PlacedInv, Placed, IsPending, Pending, Undone
<1>2. /\ thread_epoch'[t] = thread_epoch[t] /\ reads'[t] = reads[t]
      /\ pc'[t] = "validate" <=> pc[t] = "validate"
      /\ \A c \in unvalidated[t] : c \in unvalidated'[t] \/ rw_valid(t, c)
  BY <1>1 DEF Plain
<1>3. \A j \in DOMAIN order' : j >= i => ~ By(j, thread_epoch[t])'
  BY <1>1, <1>2 DEF StillValid, By
<1>4. ASSUME pc'[t] = "validate", NEW c \in Cells, order'[i].reads[c] # None
      PROVE  /\ order'[i].reads[c] = reads'[t][c]
             /\ c \in unvalidated'[t] \/ Sees(i, c, thread_epoch[t])'
  <2>1. /\ order[i].reads[c] = reads[t][c]
        /\ c \in unvalidated[t] \/ Sees(i, c, thread_epoch[t])
    BY <1>1, <1>2, <1>4 DEF StillValid
  <2>2. rw_valid(t, c) => Sees(i, c, thread_epoch[t])
    <3> SUFFICES ASSUME rw_valid(t, c), NEW j \in DOMAIN order, Writes(j, c)
                 PROVE  j < i /\ By(j, thread_epoch[t])
      BY DEF Sees
    <3>1. By(j, thread_epoch[t])
      BY <1>1, ValidSeesAll DEF Undated
    <3>2. ~ (j >= i) /\ i \in Nat /\ j \in Nat
      BY <1>1, <3>1, EntryTypes DEF StillValid
    <3> QED BY <3>1, <3>2
  <2>3. Sees(i, c, thread_epoch[t]) => Sees(i, c, thread_epoch[t])'
    BY <1>2 DEF Sees, Writes, By
  <2> QED BY <1>2, <2>1, <2>2, <2>3
<1> QED BY <1>3, <1>4 DEF StillValid

(* A validation that succeeds decides the entry of its thread.             *)
LEMMA ValidationDecides ==
  ASSUME IInv, HInv, NEW t \in Threads, ValidationSuccess(t),
         NEW i \in DOMAIN order, IsPending(i), order[i].owner = t,
         NEW c \in Cells, order[i].reads[c] # None
  PROVE  /\ order[i].reads[c] = ValueAfter(i - 1, c)
         /\ \A j \in 1..(i - 1) : Writes(j, c) => order[j].epoch >= 1
<1> USE DEF HInv
<1>1. pc[t] = "validate" /\ unvalidated[t] = {}
  BY DEF ValidationSuccess
<1>2. order[i].reads[c] = reads[t][c] /\ Sees(i, c, thread_epoch[t])
  BY <1>1 DEF PendingInv, StillValid
<1>3. /\ DOMAIN order = 1..Len(order) /\ Len(order) \in Nat
      /\ \A j \in DOMAIN order : order[j].epoch \in Int
  BY EntryTypes
<1>4. thread_epoch[t] \in DOMAIN snap
  BY <1>1 DEF IInv, ThreadInv
<1>5. i - 1 \in Nat /\ i - 1 <= Len(order)
  BY <1>3
<1>6. \A j \in DOMAIN order :
        Writes(j, c) => (j <= i - 1 <=> By(j, thread_epoch[t]))
  BY <1>2, <1>3 DEF Sees
<1>7. ValueAfter(i - 1, c) = snap[thread_epoch[t]][c]
  BY <1>4, <1>5, <1>6, PinShowsPrefix
<1>8. \A j \in 1..(i - 1) : Writes(j, c) => order[j].epoch >= 1
  BY <1>3, <1>6 DEF By
<1> QED BY <1>2, <1>7, <1>8 DEF IInv, Opacity

(* Where nothing is recorded, what is known of the history stays true.     *)
LEMMA KeptStep ==
  ASSUME IInv, HInv, NEW t \in Threads, HistoryStep(t),
         Plain(t) \/ ValidationSuccess(t)
  PROVE  HInv'
<1> USE DEF HInv
<1>1. TypeOK /\ HistoryTypeOK /\ Step(t) /\ OnlyThread(t)
  BY Frame DEF IInv, HistoryStep
<1>2. order' = order
  BY <1>1, Kept DEF HistoryStep
<1>3. \A i \in DOMAIN order :
        i \in Nat /\ order[i].owner \in Threads /\ order[i].epoch \in Int
  BY <1>1, EntryTypes
<1>4. \A u \in Threads \ {t} :
        /\ pc'[u] = pc[u] /\ unvalidated'[u] = unvalidated[u]
        /\ thread_epoch'[u] = thread_epoch[u] /\ reads'[u] = reads[u]
        /\ write_log'[u] = write_log[u] /\ read_log'[u] = read_log[u]
        /\ logged'[u] = logged[u]
  BY <1>1 DEF OnlyThread, HistoryTypeOK, HistoryStep
<1>5. ValidationSuccess(t) =>
        /\ pc[t] = "validate" /\ pc'[t] = "write"
        /\ clock' = clock /\ snap' = snap /\ write_log' = write_log
        /\ reads' = reads /\ thread_epoch' = thread_epoch
  BY <1>1 DEF TypeOK, ValidationSuccess, shared, logs, Goto
<1>6. /\ clock' = clock /\ snap' = snap
      /\ pc'[t] \in Undated <=> pc[t] \in Undated
      /\ pc[t] \in Undated => /\ write_log'[t] = write_log[t]
                              /\ thread_epoch'[t] = thread_epoch[t]
      /\ \A c \in Cells : reads'[t][c] # None =>
           /\ thread_epoch'[t] = thread_epoch[t] /\ pc[t] # "idle"
           /\ reads'[t][c] = reads[t][c] \/ rw_valid(t, c)
  BY <1>5 DEF Plain, Undated
<1>7. /\ \A i \in DOMAIN order : IsPending(i)' = IsPending(i)
      /\ \A i \in DOMAIN order, c \in Cells : Writes(i, c)' = Writes(i, c)
      /\ \A i \in DOMAIN order : IsPending(i) => pc[order[i].owner] \in Undated
  BY <1>2 DEF IsPending, Writes, PlacedInv, Placed, Pending, Undone
<1>8. HistoryTypeOK'
  BY <1>1, <1>2, LoggedType DEF HistoryTypeOK
<1>9. PlacedInv'
  <2>1. ASSUME NEW i \in DOMAIN order PROVE Placed(i)'
    <3>1. Placed(i)
      BY DEF PlacedInv
    <3> QED BY <1>2, <1>3, <1>4, <1>6, <3>1 DEF Placed, IsPending
  <2>2. ASSUME NEW u \in Threads, pc'[u] \in Undated PROVE pc[u] \in Undated
    BY <1>4, <1>6, <2>2
  <2> QED BY <1>2, <2>1, <2>2 DEF PlacedInv, IsPending
<1>10. OrderedInv'
  BY <1>2 DEF OrderedInv, Writes, IsPending
<1>11. StoreInv'
  BY <1>2, <1>6 DEF StoreInv, Past, Writes, By, Latest
<1>12. VisibleInv'
  <2> SUFFICES ASSUME NEW i \in DOMAIN order, NEW c \in Cells,
                      Writes(i, c)', order'[i].epoch >= 1
               PROVE  Visible(order[i].epoch, c)'
    BY <1>2 DEF VisibleInv
  <2>1. Visible(order[i].epoch, c) /\ order[i].epoch \in Nat
    BY <1>2, <1>3, <1>7 DEF VisibleInv
  <2> QED BY <1>1, <1>2, <2>1, VisibleStep DEF Visible
<1>13. ReadInv'
  <2> SUFFICES ASSUME NEW u \in Threads, NEW c \in Cells, reads'[u][c] # None,
                      NEW i \in DOMAIN order, NEW j \in DOMAIN order, i < j,
                      Writes(i, c), By(j, thread_epoch[u])'
               PROVE  By(i, thread_epoch[u])'
    BY <1>2, <1>7 DEF ReadInv
  <2>1. thread_epoch'[u] = thread_epoch[u]
    BY <1>4, <1>6
  <2>2. By(j, thread_epoch[u])
    BY <1>2, <2>1 DEF By
  <2>3. CASE reads'[u][c] = reads[u][c]
    <3>1. By(i, thread_epoch[u])
      BY <2>2, <2>3 DEF ReadInv
    <3> QED BY <1>2, <2>1, <3>1 DEF By
  <2>4. CASE reads'[u][c] # reads[u][c]
    <3>1. pc[u] # "idle" /\ rw_valid(u, c)
      BY <1>4, <1>6, <2>4
    <3>2. By(i, thread_epoch[u])
      BY <1>1, <3>1, ValidSeesAll
    <3> QED BY <1>2, <2>1, <3>2 DEF By
  <2> QED BY <2>3, <2>4
<1>14. PendingInv'
  <2> SUFFICES ASSUME NEW i \in DOMAIN order, IsPending(i)
               PROVE  StillValid(i)'
    BY <1>2, <1>7 DEF PendingInv
  <2>1. PICK u \in Threads : u = order[i].owner
    BY <1>3
  <2>2. StillValid(i) /\ order'[i].owner = u
    BY <1>2, <2>1 DEF PendingInv
  <2>3. CASE u # t
    <3>1. /\ \A j \in DOMAIN order : By(j, thread_epoch[u])' =
                                       By(j, thread_epoch[u])
          /\ \A c \in Cells : Sees(i, c, thread_epoch[u])' =
                                Sees(i, c, thread_epoch[u])
      BY <1>2, <1>4, <2>3 DEF By, Sees, Writes
    <3> QED BY <1>2, <1>4, <2>1, <2>2, <2>3, <3>1 DEF StillValid
  <2>4. CASE u = t /\ Plain(t)
    BY <1>2, <2>1, <2>4, OwnEntryKept
  <2>5. CASE u = t /\ ValidationSuccess(t)
    <3>1. \A j \in DOMAIN order : By(j, thread_epoch[u])' =
                                    By(j, thread_epoch[u])
      BY <1>2, <1>5, <2>5 DEF By
    <3>2. pc'[u] = "write"
      BY <1>5, <2>5
    <3> QED BY <1>2, <2>1, <2>2, <3>1, <3>2 DEF StillValid
  <2> QED BY <2>3, <2>4, <2>5
<1>15. DecidedInv'
  <2> SUFFICES ASSUME NEW i \in DOMAIN order, Decided(order[i])',
                      NEW c \in Cells, order[i].reads[c] # None
               PROVE  /\ order[i].reads[c] = ValueAfter(i - 1, c)
                      /\ \A j \in 1..(i - 1) :
                           Writes(j, c) => order[j].epoch >= 1
    <3>1. \A k, c : ValueAfter(k, c)' = ValueAfter(k, c)
      BY <1>2 DEF ValueAfter, Latest
    <3> QED BY <1>2, <3>1 DEF DecidedInv, Writes
  <2>1. CASE Decided(order[i])
    BY <2>1 DEF DecidedInv
  <2>2. CASE ~ Decided(order[i])
    <3>1. IsPending(i) /\ pc[order[i].owner] \notin Irrevocable
      BY <2>2 DEF Decided, IsPending
    <3>2. pc'[order[i].owner] \in Irrevocable
      BY <1>2, <3>1 DEF Decided, IsPending
    <3>3. pc[order[i].owner] = "validate"
      BY <1>7, <3>1 DEF Undated, Irrevocable
    <3>4. order[i].owner = t
      BY <1>3, <1>4, <3>1, <3>2
    <3>5. ~ Plain(t)
      BY <3>2, <3>3, <3>4 DEF Plain, Undated, Irrevocable
    <3> QED BY <3>1, <3>4, <3>5, ValidationDecides
  <2> QED BY <2>1, <2>2
<1>16. LoggedInv'
  <2> SUFFICES ASSUME NEW u \in Threads, pc'[u] = "lock"
               PROVE  logged'[u] \subseteq read_log'[u] \cup WriteSet(u)'
    BY DEF LoggedInv
  <2>1. CASE u # t
    BY <1>4, <2>1 DEF LoggedInv, WriteSet
  <2>2. CASE u = t
    <3>1. /\ pc[t] \in {"lock", "commit"}
          /\ read_log'[t] \cup WriteSet(t)' = read_log[t] \cup WriteSet(t)
      BY <1>5, <2>2 DEF Plain
    <3>2. logged'[t] = Logged(t)
      BY <1>1, <2>2 DEF HistoryStep, HistoryTypeOK, Checking
    <3>3. Logged(t) \subseteq read_log[t] \cup WriteSet(t)
      BY <3>1 DEF Logged, Checking, LoggedInv
    <3> QED BY <2>2, <3>1, <3>2, <3>3
  <2> QED BY <2>1, <2>2
<1> QED
  BY <1>8, <1>9, <1>10, <1>11, <1>12, <1>13, <1>14, <1>15, <1>16

-----------------------------------------------------------------------------
(* Serializability.                                                        *)

(* Every step with its record preserves what is known of the history.      *)
LEMMA HInvStep == IInv /\ IInv' /\ HInv /\ [HistoryNext]_historyVars => HInv'
<1>1. ASSUME IInv, IInv', HInv, NEW t \in Threads, HistoryStep(t) PROVE HInv'
  <2>1. \/ Plain(t)
        \/ AllLocked(t) \/ CommitHard(t)
        \/ \E c \in Cells : ValidationFailure(t, c)
        \/ ValidationSuccess(t) \/ FetchAndTick(t)
    BY <1>1, PlainStep DEF IInv, HistoryStep
  <2> QED BY <1>1, <2>1, AppendStep, WithdrawStep, DateStep, KeptStep
<1>2. ASSUME HInv, UNCHANGED historyVars PROVE HInv'
  <2>1. /\ order' = order /\ logged' = logged /\ snap' = snap /\ pc' = pc
        /\ write_log' = write_log /\ read_log' = read_log /\ reads' = reads
        /\ thread_epoch' = thread_epoch /\ epoch_lock' = epoch_lock
        /\ locked' = locked /\ sync_epoch' = sync_epoch
        /\ unvalidated' = unvalidated
    BY <1>2 DEF historyVars, vars, shared, logs, committing
  <2>2. /\ HistoryTypeOK' = HistoryTypeOK /\ LoggedInv' = LoggedInv
        /\ PlacedInv' = PlacedInv /\ OrderedInv' = OrderedInv
    BY <2>1 DEF HistoryTypeOK, PlacedInv, Placed, OrderedInv, Writes, IsPending,
                LoggedInv, WriteSet
  <2>3. StoreInv' = StoreInv
    BY <2>1 DEF StoreInv, Past, Writes, By, Latest
  <2>4. VisibleInv' = VisibleInv
    BY <2>1 DEF VisibleInv, Visible, Held, Writes, LockedEpoch
  <2>5. ReadInv' = ReadInv
    BY <2>1 DEF ReadInv, Writes, By
  <2>6. PendingInv' = PendingInv
    <3>1. \A i : StillValid(i)' = StillValid(i)
      BY <2>1 DEF StillValid, Sees, By, Writes
    <3> QED BY <2>1, <3>1 DEF PendingInv, IsPending
  <2>7. DecidedInv' = DecidedInv
    <3>1. \A k, c : ValueAfter(k, c)' = ValueAfter(k, c)
      BY <2>1 DEF ValueAfter, Latest
    <3> QED BY <2>1, <3>1 DEF DecidedInv, Decided, Writes
  <2> QED BY <1>2, <2>2, <2>3, <2>4, <2>5, <2>6, <2>7 DEF HInv
<1> QED BY <1>1, <1>2 DEF HistoryNext, Halted, historyVars

(* The history changes nothing: Stm runs as it does without.               *)
LEMMA HistoryIsStm == HistorySpec => Spec
<1>1. HistoryInit => Init
  BY DEF HistoryInit
<1>2. [HistoryNext]_historyVars => [Next]_vars
  BY DEF HistoryNext, HistoryStep, historyVars, Next
<1> QED BY <1>1, <1>2, PTL DEF HistorySpec, Spec

(* The invariant of Stm and that of the history hold together.             *)
THEOREM HistoryInvariance == HistorySpec => [](IInv /\ HInv)
<1>1. HistorySpec => []IInv
  BY HistoryIsStm, Invariance, PTL
<1> QED BY <1>1, InitHInv, HInvStep, PTL DEF HistorySpec

(* Whoever commits, and however their locks, checks and ticks interleave:  *)
(* a transaction that can no longer fail has read what the transactions    *)
(* before it leave.                                                        *)
THEOREM WritersAreSerializable == HistorySpec => []WritersSerialize
<1>1. HInv => WritersSerialize
  BY DEF HInv, DecidedInv, WritersSerialize
<1> QED BY <1>1, HistoryInvariance, PTL

(* A thread has borrowed what the dated entries leave up to its pin.       *)
LEMMA ReadersFollow == IInv /\ HInv => ReadersSerialize
<1> SUFFICES ASSUME IInv, HInv, NEW t \in Threads, NEW c \in Cells,
                    reads[t][c] # None
             PROVE  reads[t][c] = ValueAfter(PrefixAt(thread_epoch[t]), c)
  BY DEF ReadersSerialize
<1>1. /\ Len(order) \in Nat /\ DOMAIN order = 1..Len(order)
      /\ HistoryTypeOK /\ StoreInv /\ ReadInv
  BY EntryTypes DEF HInv
<1>2. pc[t] # "idle"
  BY DEF IInv, ThreadInv, NoEntries
<1>3. PICK e \in DOMAIN snap : e = thread_epoch[t]
  BY <1>2 DEF IInv, ThreadInv
<1>4. reads[t][c] = snap[e][c]
  BY <1>3 DEF IInv, Opacity
<1>5. PICK k : k = PrefixAt(e)
  OBVIOUS
<1>6. /\ k \in 0..Len(order)
      /\ k > 0 => By(k, e)
      /\ \A j \in DOMAIN order : By(j, e) => j <= k
  BY <1>1, <1>5, LastSeen
<1>7. ASSUME NEW j \in DOMAIN order, Writes(j, c)
      PROVE  j <= k <=> By(j, e)
  <2>1. ASSUME j <= k PROVE By(j, e)
    <3>1. k \in DOMAIN order /\ By(k, e)
      BY <1>1, <1>6, <2>1
    <3> QED BY <1>1, <1>3, <1>7, <2>1, <3>1 DEF ReadInv
  <2> QED BY <1>6, <2>1
<1> QED BY <1>1, <1>3, <1>4, <1>5, <1>6, <1>7, PinShowsPrefix

(* A transaction, read-only or not, has borrowed what one prefix of that   *)
(* order leaves, and the prefix holds all that committed before its pin,   *)
(* although the clock dates transactions in another order.                 *)
THEOREM ReadersAreSerializable == HistorySpec => []ReadersSerialize
BY ReadersFollow, HistoryInvariance, PTL

-----------------------------------------------------------------------------
(* The kinds of steps.                                                     *)

(* What a step of a thread is, seen from Serial.                           *)
Silent(t) ==
  /\ InTransaction(t)' <=> InTransaction(t)
  /\ InTransaction(t) =>
       /\ reads'[t] = reads[t] /\ write_log'[t] = write_log[t]
       /\ thread_epoch'[t] = thread_epoch[t]
       /\ Logged(t)' = Logged(t)
  /\ pc'[t] \in Undated <=> pc[t] \in Undated

Begins(t) ==
  /\ pc[t] \in {"idle", "repin"} /\ pc'[t] = "run"
  /\ thread_epoch'[t] = clock
  /\ reads' = reads /\ write_log' = write_log /\ read_log' = read_log

Borrows(t, c, uphold) ==
  /\ pc[t] = "load" /\ pc'[t] = "run" /\ c = cursor[t]
  /\ reads' = [reads EXCEPT ![t][c] = buf[t]] /\ buf[t] # None
  /\ read_log' = IF uphold THEN [read_log EXCEPT ![t] = @ \cup {c}]
                           ELSE read_log
  /\ thread_epoch' = thread_epoch /\ write_log' = write_log

Sets(t, c, v) ==
  /\ pc[t] = "run" /\ pc'[t] \in {"run", "dispose"}
  /\ write_log' = [write_log EXCEPT ![t][c] = v]
  /\ thread_epoch' = thread_epoch /\ reads' = reads /\ read_log' = read_log

Ends(t) == InTransaction(t) /\ ~ InTransaction(t)' /\ pc[t] # "tick"

(* The ReadLog of a commit is remembered up to its tick.                   *)
LEMMA LoggedKept ==
  ASSUME HistoryTypeOK, NEW t \in Threads, HistoryStep(t), pc'[t] \in Checking
  PROVE  Logged(t)' = Logged(t)
BY DEF HistoryStep, Logged, HistoryTypeOK

(* What a step must leave alone to be silent.                              *)
LEMMA SilentStep ==
  ASSUME HistoryTypeOK, NEW t \in Threads, HistoryStep(t),
         InTransaction(t)' <=> InTransaction(t),
         pc'[t] \in Undated <=> pc[t] \in Undated,
         InTransaction(t) =>
           /\ reads'[t] = reads[t] /\ write_log'[t] = write_log[t]
           /\ thread_epoch'[t] = thread_epoch[t]
           /\ \/ pc'[t] \in Checking
              \/ pc[t] \notin Checking /\ read_log'[t] = read_log[t]
  PROVE  Silent(t)
<1>1. ASSUME InTransaction(t) PROVE Logged(t)' = Logged(t)
  <2>1. CASE pc'[t] \in Checking
    BY <2>1, LoggedKept
  <2>2. CASE pc'[t] \notin Checking
    BY <1>1, <2>2 DEF Logged
  <2> QED BY <2>1, <2>2
<1> QED BY <1>1 DEF Silent

(* Every step is one of these, or takes a turn, or ticks.                  *)
LEMMA SerialKinds ==
  ASSUME TypeOK, HistoryTypeOK, NEW t \in Threads, ThreadInv(t), HistoryStep(t)
  PROVE  \/ Silent(t) \/ Begins(t) \/ Ends(t)
         \/ \E c \in Cells, uphold \in BOOLEAN : Borrows(t, c, uphold)
         \/ \E c \in Cells, v \in CellVals : Sets(t, c, v)
         \/ AllLocked(t) \/ CommitHard(t) \/ FetchAndTick(t)
<1> USE DEF TypeOK, Undated, Checking, shared, logs, borrowing, committing,
            Goto, InTransaction
<1>0. Step(t)
  BY DEF HistoryStep
<1>1. ASSUME NEW m \in {"read", "rw"}, TryPin(t, m) PROVE Begins(t)
  BY <1>1 DEF TryPin, Begins
<1>2. CASE Repin(t)
  BY <1>2 DEF Repin, Begins
<1>3. CASE ClockOverflow(t)
  BY <1>3, SilentStep DEF ClockOverflow
<1>4. ASSUME NEW c \in Cells, BorrowShared(t, c) PROVE Silent(t)
  BY <1>4, SilentStep DEF BorrowShared
<1>5. ASSUME NEW c \in Cells, BorrowPending(t, c) PROVE Silent(t)
  BY <1>5, SilentStep DEF BorrowPending
<1>6. ASSUME NEW c \in Cells, SetConflict(t, c) PROVE Silent(t)
  BY <1>6, SilentStep DEF SetConflict
<1>7. ASSUME NEW c \in Cells, NEW v \in CellVals, SetNew(t, c, v)
      PROVE  Sets(t, c, v)
  BY <1>7 DEF SetNew, Sets
<1>8. ASSUME NEW c \in Cells, NEW v \in CellVals, SetAgain(t, c, v)
      PROVE  Sets(t, c, v)
  BY <1>8 DEF SetAgain, Sets
<1>9. ASSUME NEW w \in Words, LoadWord(t, w) PROVE Silent(t)
  BY <1>9, SilentStep DEF LoadWord
<1>10. ASSUME NEW logging \in BOOLEAN, BorrowOk(t, logging)
       PROVE  \E c \in Cells, uphold \in BOOLEAN : Borrows(t, c, uphold)
  <2>1. cursor[t] \in Cells
    BY <1>10 DEF BorrowOk, ThreadInv
  <2>2. buf[t] \in [Words -> Vals]
    BY <1>10 DEF BorrowOk, Loaded
  <2>3. buf[t] # None
    BY <2>2, StmAssumption
  <2>4. Borrows(t, cursor[t], mode[t] = "rw" /\ logging)
    BY <1>10, <2>3 DEF BorrowOk, Borrows
  <2> QED BY <2>1, <2>4
<1>11. CASE BorrowSlow(t)
  BY <1>11, SilentStep DEF BorrowSlow
<1>12. CASE BorrowConflict(t)
  BY <1>12, SilentStep DEF BorrowConflict
<1>13. CASE DisposeOld(t)
  BY <1>13, SilentStep DEF DisposeOld
<1>14. CASE ReturnConflict(t)
  BY <1>14 DEF ReturnConflict, FailAttempt, Ends
<1>15. CASE IgnoreConflict(t)
  BY <1>15, SilentStep DEF IgnoreConflict
<1>16. CASE Panic(t)
  BY <1>16 DEF Panic, Unpin, Ends
<1>17. CASE FinishNoWrites(t)
  BY <1>17 DEF FinishNoWrites, Unpin, Ends
<1>18. CASE Commit(t)
  BY <1>18, SilentStep DEF Commit
<1>19. CASE CommitHardFails(t)
  BY <1>19 DEF CommitHardFails, FailAttempt, Ends
<1>20. CASE CommitSoft(t)
  BY <1>20, SilentStep DEF CommitSoft
<1>21. CASE TryLockFails(t)
  BY <1>21 DEF TryLockFails, Ends
<1>22. ASSUME NEW c \in Cells, TryLock(t, c) PROVE Silent(t)
  BY <1>22, SilentStep DEF TryLock
<1>23. ASSUME NEW c \in Cells, ValidateRead(t, c) PROVE Silent(t)
  BY <1>23, SilentStep DEF ValidateRead
<1>24. ASSUME NEW c \in Cells, ValidationFailure(t, c) PROVE Ends(t)
  BY <1>24 DEF ValidationFailure, Ends
<1>25. CASE ValidationSuccess(t)
  BY <1>25, SilentStep DEF ValidationSuccess
<1>26. ASSUME NEW c \in Cells, UnlockPublish(t, c) PROVE Silent(t)
  BY <1>26, SilentStep DEF UnlockPublish
<1>27. ASSUME NEW c \in Cells, UnlockUndo(t, c) PROVE Silent(t)
  BY <1>27, SilentStep DEF UnlockUndo
<1>28. ASSUME NEW c \in Cells, NEW w \in Words, PerformWrite(t, c, w)
       PROVE  Silent(t)
  BY <1>28, SilentStep DEF PerformWrite
<1>29. CASE WritesPerformed(t)
  BY <1>29, SilentStep DEF WritesPerformed
<1>30. CASE CommitDone(t)
  BY <1>30, SilentStep DEF CommitDone, Unpin
<1>31. CASE CommitFails(t)
  BY <1>31, SilentStep DEF CommitFails, FailAttempt
<1> QED
  BY <1>0, <1>1, <1>2, <1>3, <1>4, <1>5, <1>6, <1>7, <1>8, <1>9, <1>10, <1>11,
     <1>12, <1>13, <1>14, <1>15, <1>16, <1>17, <1>18, <1>19, <1>20, <1>21,
     <1>22, <1>23, <1>24, <1>25, <1>26, <1>27, <1>28, <1>29, <1>30, <1>31
     DEF Step, PinStep, ClosureStep, CommitStep

-----------------------------------------------------------------------------
(* What else is known of the entries.                                      *)

(* No entries, no reads, no logs.                                          *)
LEMMA InitEntryInv == HistoryInit => EntryInv
BY DEF HistoryInit, Init, EntryInv

(* What a borrow and the end of an attempt know of the logs.               *)
LEMMA LogsStep ==
  ASSUME TypeOK, NEW t \in Threads, ThreadInv(t), Step(t),
         pc[t] = "load" => write_log[t][cursor[t]] = None,
         pc[t] \in {"idle", "repin"} => read_log[t] = {}
  PROVE  /\ pc'[t] = "load" => write_log'[t][cursor'[t]] = None
         /\ pc'[t] \in {"idle", "repin"} => read_log'[t] = {}
<1> USE DEF TypeOK, shared, logs, borrowing, committing, Goto
<1>1. CASE PinStep(t)
  BY <1>1 DEF PinStep, TryPin, Repin, ClockOverflow
<1>2. CASE ClosureStep(t)
  BY <1>2 DEF ClosureStep, BorrowShared, BorrowPending, SetConflict, SetNew,
              SetAgain, LoadWord, BorrowOk, BorrowSlow, BorrowConflict,
              DisposeOld, ReturnConflict, IgnoreConflict, Panic,
              FinishNoWrites, Commit, FailAttempt, ClearLogs, Unpin,
              DoneBorrowing
<1>3. CASE CommitStep(t)
  BY <1>3 DEF CommitStep, CommitHard, CommitHardFails, CommitSoft,
              TryLockFails, AllLocked, ValidationSuccess, TryLock,
              ValidateRead, ValidationFailure, UnlockPublish, UnlockUndo,
              PerformWrite, WritesPerformed, FetchAndTick, CommitDone,
              CommitFails, FailAttempt, ClearLogs, Unpin
<1> QED BY <1>1, <1>2, <1>3 DEF Step

(* The entries of other threads stay, and so does what they have read.     *)
LEMMA EntryStep ==
  ASSUME IInv, IInv', HInv, EntryInv, NEW t \in Threads, HistoryStep(t)
  PROVE  EntryInv'
<1>1. /\ TypeOK /\ TypeOK' /\ HistoryTypeOK /\ PlacedInv /\ ThreadInv(t)
      /\ Step(t) /\ OnlyThread(t)
  BY Frame DEF IInv, HInv, HistoryStep
<1>2. ASSUME NEW u \in Threads
      PROVE  /\ pc'[u] = "load" => write_log'[u][cursor'[u]] = None
             /\ pc'[u] \in {"idle", "repin"} => read_log'[u] = {}
  <2>1. CASE u = t
    BY <1>1, <2>1, LogsStep DEF EntryInv
  <2>2. CASE u # t
    BY <1>1, <2>2 DEF EntryInv, OnlyThread
  <2> QED BY <2>1, <2>2
<1>3. ASSUME NEW u \in Threads \ {t} PROVE CheckedReads(u)' = CheckedReads(u)
  <2>1. Logged(u)' = Logged(u) /\ WriteSet(u)' = WriteSet(u)
    BY <1>1 DEF OnlyThread, Logged, HistoryStep, HistoryTypeOK, WriteSet
  <2> QED BY <1>1, <2>1 DEF CheckedReads, OnlyThread
<1>4. ASSUME pc'[t] \in Checking, reads'[t] = reads[t],
             write_log'[t] = write_log[t]
      PROVE  CheckedReads(t)' = CheckedReads(t)
  <2>1. Logged(t)' = Logged(t) /\ WriteSet(t)' = WriteSet(t)
    BY <1>1, <1>4, LoggedKept DEF WriteSet
  <2> QED BY <1>4, <2>1 DEF CheckedReads
<1>5. ASSUME NEW u \in Threads, NEW i \in DOMAIN order, PendingOf(u, order[i])
      PROVE  order[i].reads = CheckedReads(u) /\ pc[u] \in Undated
  BY <1>1, <1>5
     DEF EntryInv, PlacedInv, Placed, IsPending, PendingOf, Pending, Undone
<1>6. ASSUME NEW u \in Threads, NEW i \in DOMAIN order', PendingOf(u, order[i])'
      PROVE  order'[i].reads = CheckedReads(u)'
  <2>1. CASE Plain(t) \/ ValidationSuccess(t)
    <3>1. order' = order /\ PendingOf(u, order[i])
      BY <1>1, <1>6, <2>1, Kept DEF HistoryStep, PendingOf
    <3>2. CASE u = t
      <4>1. pc[t] \in Undated
        BY <1>5, <3>1, <3>2
      <4>2. /\ pc'[t] \in Checking /\ reads'[t] = reads[t]
            /\ write_log'[t] = write_log[t]
        BY <1>1, <2>1, <4>1
           DEF Plain, Undated, Checking, ValidationSuccess, TypeOK, Goto, logs
      <4> QED BY <1>4, <1>5, <3>1, <3>2, <4>2
    <3> QED BY <1>3, <1>5, <3>1, <3>2
  <2>2. CASE AllLocked(t) \/ CommitHard(t)
    <3>1. /\ DOMAIN order = 1..Len(order)
          /\ DOMAIN order' = 1..(Len(order) + 1) /\ Len(order) \in Nat
          /\ \A j \in DOMAIN order : order'[j] = order[j]
          /\ order'[Len(order) + 1] = Entry(t)
      BY <1>1, <2>2, Appended
    <3>2. /\ reads' = reads /\ write_log' = write_log
          /\ pc'[t] \in Checking /\ pc[t] \notin Undated
      BY <1>1, <2>2, CommitFrame DEF Checking, Undated
    <3>3. CASE i = Len(order) + 1
      <4>1. u = t /\ order'[i].reads = CheckedReads(t)
        BY <1>1, <1>6, <3>1, <3>3, EntryFields DEF PendingOf
      <4> QED BY <1>4, <3>2, <4>1
    <3>4. CASE i # Len(order) + 1
      <4>1. i \in DOMAIN order /\ order'[i] = order[i]
        BY <3>1, <3>4
      <4>2. PendingOf(u, order[i])
        BY <1>6, <4>1 DEF PendingOf
      <4> QED BY <1>3, <1>5, <3>2, <4>1, <4>2
    <3> QED BY <3>3, <3>4
  <2>3. ASSUME NEW c \in Cells, ValidationFailure(t, c)
        PROVE  order'[i].reads = CheckedReads(u)'
    <3>1. i \in DOMAIN order /\ order'[i] = order[i] /\ u # t
      BY <1>1, <1>6, <2>3, WithdrawnEntries DEF PendingOf, Pending, Undone
    <3> QED BY <1>3, <1>5, <1>6, <3>1 DEF PendingOf
  <2>4. CASE FetchAndTick(t)
    <3>1. clock' # Pending
      BY <1>1, <2>4, EpochFacts DEF TypeOK, FetchAndTick, Pending
    <3>2. i \in DOMAIN order /\ order'[i] = order[i] /\ u # t
      BY <1>1, <1>6, <2>4, <3>1, DatedEntries DEF PendingOf
    <3> QED BY <1>3, <1>5, <1>6, <3>2 DEF PendingOf
  <2> QED BY <1>1, <2>1, <2>2, <2>3, <2>4, PlainStep
<1> QED BY <1>2, <1>6 DEF EntryInv

(* The entries keep the reads that their owners are to uphold.             *)
LEMMA EntryInvariance == HistorySpec => []EntryInv
<1>1. IInv /\ IInv' /\ HInv /\ EntryInv /\ [HistoryNext]_historyVars
        => EntryInv'
  <2>1. ASSUME EntryInv, UNCHANGED historyVars PROVE EntryInv'
    BY <2>1 DEF EntryInv, historyVars, vars, logs, borrowing, CheckedReads,
                Logged, WriteSet, PendingOf
  <2> QED BY <2>1, EntryStep DEF HistoryNext, Halted, historyVars
<1> QED BY <1>1, InitEntryInv, HistoryInvariance, PTL DEF HistorySpec

-----------------------------------------------------------------------------
(* The turns.                                                              *)

(* How to recognize a maximum.                                             *)
LEMMA MaxIs ==
  ASSUME NEW S \in SUBSET Int, NEW m \in S, \A i \in S : i <= m
  PROVE  Max(S) = m
<1>1. \E k \in S : \A i \in S : k >= i
  OBVIOUS
<1>2. PICK k : k = Max(S)
  OBVIOUS
<1>3. k \in S /\ \A i \in S : k >= i
  BY <1>1, <1>2 DEF Max
<1>4. k \in Int /\ m \in Int /\ k >= m /\ k <= m
  BY <1>3
<1> QED BY <1>2, <1>4

(* The turn of a thread is the place of its entry, if it has one.          *)
LEMMA TurnIs ==
  ASSUME HistoryTypeOK, PlacedInv, NEW t \in Threads
  PROVE  /\ pc[t] \in Undated =>
              /\ TurnOf(t) \in DOMAIN order /\ PendingOf(t, order[TurnOf(t)])
              /\ TurnOf(t) \in Nat /\ TurnOf(t) > 0
         /\ pc[t] \notin Undated => TurnOf(t) = 0
         /\ \A i \in DOMAIN order : PendingOf(t, order[i]) => TurnOf(t) = i
<1> DEFINE S == {0} \cup {i \in DOMAIN order : PendingOf(t, order[i])}
<1>1. DOMAIN order = 1..Len(order) /\ Len(order) \in Nat
  BY EntryTypes
<1>2. ASSUME NEW i \in DOMAIN order, PendingOf(t, order[i])
      PROVE  TurnOf(t) = i /\ i \in Nat /\ i > 0 /\ pc[t] \in Undated
  <2>1. S \in SUBSET Int /\ i \in S /\ i \in Nat /\ i > 0
    BY <1>1, <1>2
  <2>2. \A j \in S : j <= i
    BY <1>1, <1>2 DEF PlacedInv, PendingOf, IsPending
  <2>3. Max(S) = i
    <3> HIDE DEF S
    <3> QED BY <2>1, <2>2, MaxIs
  <2>4. pc[t] \in Undated
    BY <1>2 DEF PlacedInv, Placed, PendingOf, IsPending, Pending, Undone
  <2> QED BY <2>1, <2>3, <2>4 DEF TurnOf
<1>3. CASE pc[t] \in Undated
  <2>1. \E i \in DOMAIN order : PendingOf(t, order[i])
    BY <1>3 DEF PlacedInv, PendingOf, IsPending
  <2> QED BY <1>2, <1>3, <2>1
<1>4. CASE pc[t] \notin Undated
  <2>1. S = {0}
    BY <1>2, <1>4
  <2>2. \A j \in S : j <= 0
    BY <2>1
  <2>3. Max(S) = 0
    BY <2>1, <2>2, MaxIs
  <2>4. TurnOf(t) = 0
    BY <2>3 DEF TurnOf
  <2> QED BY <1>2, <1>4, <2>4
<1> QED BY <1>3, <1>4

(* No entry is later than the clock, and no pin.                           *)
LEMMA NoneLater ==
  ASSUME IInv, HInv
  PROVE  /\ \A i \in DOMAIN order : order[i].epoch \in Int
                                    /\ order[i].epoch <= clock
         /\ \A t \in Threads : InTransaction(t) => thread_epoch[t] <= clock
         /\ clock \in Nat
<1>1. clock \in Nat /\ \A e \in DOMAIN snap : e <= clock
  BY DEF IInv, TypeOK, SnapInv
<1>2. \A i \in DOMAIN order : Placed(i) /\ order[i].epoch \in Int
  BY EntryTypes DEF HInv, PlacedInv
<1>3. \A i \in DOMAIN order : order[i].epoch <= clock
  BY <1>1, <1>2 DEF Placed, IsPending, Pending, Undone
<1>4. \A t \in Threads : InTransaction(t) => thread_epoch[t] \in DOMAIN snap
  BY DEF IInv, ThreadInv, InTransaction
<1> QED BY <1>1, <1>2, <1>3, <1>4

(* What is dated stays as it is, and only a tick dates something.          *)
LEMMA DatedStay ==
  ASSUME IInv, IInv', HInv, NEW t \in Threads, HistoryStep(t)
  PROVE  /\ \A i \in DOMAIN order : i \in DOMAIN order'
         /\ \A i \in DOMAIN order :
              ~ PendingOf(t, order[i]) => order'[i] = order[i]
         /\ \A i \in DOMAIN order' : \A e \in Nat : e <= clock =>
              (order'[i].epoch \in 1..e <=> i \in DOMAIN order /\ By(i, e))
         /\ ~ FetchAndTick(t) =>
              \A i \in DOMAIN order' :
                order'[i].epoch >= 1 <=>
                  i \in DOMAIN order /\ order[i].epoch >= 1
         /\ \A u \in Threads \ {t} : \A i \in DOMAIN order' :
              PendingOf(u, order'[i]) <=>
                i \in DOMAIN order /\ PendingOf(u, order[i])
<1>1. TypeOK /\ TypeOK' /\ HistoryTypeOK /\ ThreadInv(t) /\ Step(t)
  BY DEF IInv, HInv, HistoryStep
<1>2. CASE order' = order
  BY <1>2 DEF By
<1>3. CASE AllLocked(t) \/ CommitHard(t)
  <2>1. /\ DOMAIN order = 1..Len(order) /\ Len(order) \in Nat
        /\ DOMAIN order' = 1..(Len(order) + 1)
        /\ \A i \in DOMAIN order : i \in DOMAIN order' /\ order'[i] = order[i]
        /\ order'[Len(order) + 1] = Entry(t)
    BY <1>1, <1>3, Appended
  <2>2. order'[Len(order) + 1].epoch = Pending /\ order'[Len(order) + 1].owner = t
    BY <1>1, <2>1, EntryFields
  <2>3. \A i \in DOMAIN order' : i \in DOMAIN order \/ i = Len(order) + 1
    BY <2>1
  <2>4. \A e : Pending \notin 1..e
    BY DEF Pending
  <2>5. ~ (Pending >= 1)
    BY DEF Pending
  <2>6. Len(order) + 1 \notin DOMAIN order
    BY <2>1
  <2> HIDE DEF Pending
  <2> QED BY <2>1, <2>2, <2>3, <2>4, <2>5, <2>6 DEF By, PendingOf
<1>4. ASSUME NEW c \in Cells, ValidationFailure(t, c)
      PROVE  /\ DOMAIN order' = DOMAIN order
             /\ \A i \in DOMAIN order : IF PendingOf(t, order[i])
                  THEN order'[i].epoch = Undone /\ order'[i].owner = t
                  ELSE order'[i] = order[i]
  BY <1>1, <1>4, WithdrawnEntries
<1>5. CASE FetchAndTick(t)
  <2>1. /\ DOMAIN order' = DOMAIN order
        /\ \A i \in DOMAIN order : IF PendingOf(t, order[i])
             THEN order'[i].epoch = clock' /\ order'[i].owner = t
             ELSE order'[i] = order[i]
    BY <1>1, <1>5, DatedEntries
  <2>2. clock \in Nat /\ clock' > clock /\ clock' \in Nat
    BY <1>1, <1>5, EpochFacts DEF TypeOK, FetchAndTick
  <2>3. \A e \in Nat : e <= clock => clock' \notin 1..e /\ Pending \notin 1..e
    BY <2>2 DEF Pending
  <2> QED BY <1>5, <2>1, <2>3 DEF By, PendingOf
<1>6. CASE \E c \in Cells : ValidationFailure(t, c)
  <2>1. \A e : Pending \notin 1..e /\ Undone \notin 1..e
    BY DEF Pending, Undone
  <2>2. ~ (Pending >= 1) /\ ~ (Undone >= 1)
    BY DEF Pending, Undone
  <2> QED BY <1>4, <1>6, <2>1, <2>2 DEF By, PendingOf
<1> QED BY <1>1, <1>2, <1>3, <1>5, <1>6, PlainStep, Kept DEF HistoryStep

(* A prefix stays as long as the pin.                                      *)
LEMMA PrefixStays ==
  ASSUME IInv, IInv', HInv, NEW t \in Threads, HistoryStep(t),
         NEW u \in Threads, InTransaction(u),
         thread_epoch'[u] = thread_epoch[u]
  PROVE  PrefixAt(thread_epoch[u])' = PrefixAt(thread_epoch[u])
<1>1. thread_epoch[u] \in Nat /\ thread_epoch[u] <= clock
  BY NoneLater DEF IInv, TypeOK
<1>2. {i \in DOMAIN order' : order'[i].epoch \in 1..thread_epoch'[u]}
        = {i \in DOMAIN order : order[i].epoch \in 1..thread_epoch[u]}
  BY <1>1, DatedStay DEF By
<1> QED BY <1>2 DEF PrefixAt

(* So do the effects, unless the clock ticks.                              *)
LEMMA EffectsStay ==
  ASSUME IInv, IInv', HInv, NEW t \in Threads, HistoryStep(t), ~ FetchAndTick(t)
  PROVE  Effects' = Effects
<1>1. /\ \A i \in DOMAIN order : i \in DOMAIN order'
      /\ \A i \in DOMAIN order' : order'[i].epoch >= 1 <=>
           i \in DOMAIN order /\ order[i].epoch >= 1
  BY DatedStay
<1>2. TurnsOver' = TurnsOver
  BY <1>1 DEF TurnsOver
<1>3. \A i \in TurnsOver : order'[i] = order[i]
  <2>1. \A i \in TurnsOver : i \in DOMAIN order /\ ~ PendingOf(t, order[i])
    BY DEF TurnsOver, PendingOf, Pending
  <2> QED BY <2>1, DatedStay
<1> QED BY <1>2, <1>3 DEF Effects

(* So do the turns of others.                                              *)
LEMMA TurnStays ==
  ASSUME IInv, IInv', HInv, NEW t \in Threads, HistoryStep(t),
         NEW u \in Threads \ {t}
  PROVE  TurnOf(u)' = TurnOf(u)
<1>1. {i \in DOMAIN order' : PendingOf(u, order'[i])}
        = {i \in DOMAIN order : PendingOf(u, order[i])}
  BY DatedStay
<1>2. TurnOf(u)' = Max({0} \cup {i \in DOMAIN order' : PendingOf(u, order'[i])})
  BY DEF TurnOf, PendingOf
<1> QED BY <1>1, <1>2 DEF TurnOf

(* The turn of a thread after a step.                                      *)
LEMMA TurnIsNext ==
  HistoryTypeOK' /\ PlacedInv' =>
    \A t \in Threads :
      /\ (pc[t] \in Undated => TurnOf(t) \in Nat /\ TurnOf(t) > 0)'
      /\ (pc[t] \notin Undated => TurnOf(t) = 0)'
      /\ (\A i \in DOMAIN order : PendingOf(t, order[i]) => TurnOf(t) = i)'
<1>1. HistoryTypeOK /\ PlacedInv =>
        \A t \in Threads :
          /\ pc[t] \in Undated => TurnOf(t) \in Nat /\ TurnOf(t) > 0
          /\ pc[t] \notin Undated => TurnOf(t) = 0
          /\ \A i \in DOMAIN order : PendingOf(t, order[i]) => TurnOf(t) = i
  BY TurnIs
<1>2. (HistoryTypeOK /\ PlacedInv)' =>
        (\A t \in Threads :
          /\ pc[t] \in Undated => TurnOf(t) \in Nat /\ TurnOf(t) > 0
          /\ pc[t] \notin Undated => TurnOf(t) = 0
          /\ \A i \in DOMAIN order : PendingOf(t, order[i]) => TurnOf(t) = i)'
  BY <1>1, PTL
<1> QED BY <1>2

(* What readers have seen, after a step.                                   *)
LEMMA ReadersNext == IInv' /\ HInv' => ReadersSerialize'
BY ReadersFollow, PTL

(* A step changes only what belongs to its thread.                         *)
LEMMA MappedFrame ==
  ASSUME IInv, IInv', HInv, NEW t \in Threads, HistoryStep(t)
  PROVE  /\ Turn' = [Turn EXCEPT ![t] = TurnOf(t)']
         /\ Since' = [Since EXCEPT ![t] =
                        During(t, PrefixAt(thread_epoch[t]), 0)']
         /\ Got' = [Got EXCEPT ![t] = During(t, reads[t], NoEntries)']
         /\ Keeps' = [Keeps EXCEPT ![t] = During(t, Logged(t), {})']
         /\ Puts' = [Puts EXCEPT ![t] = During(t, write_log[t], NoEntries)']
         /\ \A u \in Threads \ {t} : u \in Active' <=> u \in Active
<1>1. OnlyThread(t)
  BY Frame DEF IInv, HistoryStep
<1>2. ASSUME NEW u \in Threads \ {t}
      PROVE  /\ InTransaction(u)' <=> InTransaction(u)
             /\ thread_epoch'[u] = thread_epoch[u] /\ reads'[u] = reads[u]
             /\ write_log'[u] = write_log[u] /\ Logged(u)' = Logged(u)
  BY <1>1 DEF OnlyThread, InTransaction, Logged, HistoryStep, HInv,
              HistoryTypeOK
<1>3. ASSUME NEW u \in Threads \ {t}
      PROVE  During(u, PrefixAt(thread_epoch[u]), 0)'
               = During(u, PrefixAt(thread_epoch[u]), 0)
  BY <1>2, PrefixStays DEF During
<1>4. \A u \in Threads \ {t} :
        /\ During(u, reads[u], NoEntries)' = During(u, reads[u], NoEntries)
        /\ During(u, Logged(u), {})' = During(u, Logged(u), {})
        /\ During(u, write_log[u], NoEntries)'
             = During(u, write_log[u], NoEntries)
  BY <1>2 DEF During
<1>5. Turn' = [Turn EXCEPT ![t] = TurnOf(t)']
  BY TurnStays DEF Turn
<1>6. Since' = [Since EXCEPT ![t] =
                  During(t, PrefixAt(thread_epoch[t]), 0)']
  BY <1>3 DEF Since
<1>7. Got' = [Got EXCEPT ![t] = During(t, reads[t], NoEntries)']
  BY <1>4 DEF Got
<1>8. Keeps' = [Keeps EXCEPT ![t] = During(t, Logged(t), {})']
  BY <1>4 DEF Keeps
<1>9. Puts' = [Puts EXCEPT ![t] = During(t, write_log[t], NoEntries)']
  BY <1>4 DEF Puts
<1> QED BY <1>2, <1>5, <1>6, <1>7, <1>8, <1>9 DEF Active

(* A turn has left what the dated entries say, as long as there are no     *)
(* others behind it that write.                                            *)
LEMMA ValueAtIs ==
  ASSUME HistoryTypeOK, NEW c \in Cells, NEW n \in Nat, n <= Len(order),
         \A i \in 1..n : Writes(i, c) => order[i].epoch >= 1
  PROVE  Abstract!ValueAt(n, c) = ValueAfter(n, c)
<1> DEFINE S == {i \in 1..n : order[i].writes[c] # None}
<1>1. DOMAIN order = 1..Len(order) /\ Len(order) \in Nat
  BY EntryTypes
<1>2. DOMAIN Effects = TurnsOver /\ \A i \in TurnsOver :
        Effects[i].writes = order[i].writes
  BY DEF Effects
<1>3. {i \in DOMAIN Effects : i <= n /\ Effects[i].writes[c] # None} = S
  BY <1>1, <1>2 DEF TurnsOver, Writes
<1>4. S # {} => Max(S) \in S
  BY LastOne
<1>5. S # {} => Max(S) \in TurnsOver
  BY <1>1, <1>4 DEF TurnsOver, Writes
<1>6. Abstract!Max(S) = Max(S)
  BY DEF Abstract!Max, Max
<1>7. Abstract!ValueAt(n, c) =
        IF S = {} THEN InitVal ELSE Effects[Abstract!Max(S)].writes[c]
  BY <1>3 DEF Abstract!ValueAt
<1> QED BY <1>2, <1>5, <1>6, <1>7 DEF ValueAfter, Latest

-----------------------------------------------------------------------------
(* The steps of Stm as steps of Serial.                                    *)

(* Nothing that Serial knows of changes.                                   *)
LEMMA SilentIsStutter ==
  ASSUME IInv, IInv', HInv, HInv', NEW t \in Threads, HistoryStep(t), Silent(t)
  PROVE  UNCHANGED Mapped
<1>1. order' = order
  <2>1. /\ ~ (pc[t] \in {"lock", "commit"} /\ pc'[t] \in {"validate", "tick"})
        /\ ~ (pc[t] = "validate" /\ pc'[t] = "undo")
        /\ ~ (pc[t] = "tick" /\ pc'[t] = "publish")
    BY DEF Silent, Undated
  <2> QED BY <2>1 DEF HistoryStep, Recorded
<1>2. Effects' = Effects /\ TurnsTaken' = TurnsTaken
  BY <1>1 DEF Effects, TurnsOver, TurnsTaken
<1>3. TurnOf(t)' = TurnOf(t)
  BY <1>1 DEF TurnOf, PendingOf
<1>4. InTransaction(t) => PrefixAt(thread_epoch[t])' = PrefixAt(thread_epoch[t])
  BY PrefixStays DEF Silent
<1>5. /\ During(t, PrefixAt(thread_epoch[t]), 0)'
           = During(t, PrefixAt(thread_epoch[t]), 0)
      /\ During(t, reads[t], NoEntries)' = During(t, reads[t], NoEntries)
      /\ During(t, Logged(t), {})' = During(t, Logged(t), {})
      /\ During(t, write_log[t], NoEntries)'
           = During(t, write_log[t], NoEntries)
  BY <1>4 DEF Silent, During
<1>6. Active' = Active
  BY MappedFrame DEF Active, Silent
<1>7. Turn' = Turn
  BY <1>3, MappedFrame DEF Turn
<1>8. Since' = Since
  BY <1>5, MappedFrame DEF Since
<1>9. Got' = Got /\ Keeps' = Keeps
  BY <1>5, MappedFrame DEF Got, Keeps
<1>10. Puts' = Puts
  BY <1>5, MappedFrame DEF Puts
<1> QED BY <1>2, <1>6, <1>7, <1>8, <1>9, <1>10 DEF Mapped

(* A pin begins a transaction that sees all that the clock has dated.      *)
LEMMA PinIsBegin ==
  ASSUME IInv, IInv', HInv, HInv', EntryInv, NEW t \in Threads,
         HistoryStep(t), Begins(t)
  PROVE  Abstract!Begin(t)
<1>1. order' = order
  BY DEF HistoryStep, Recorded, Begins
<1>2. UNCHANGED <<TurnsTaken, Effects>>
  BY <1>1 DEF Effects, TurnsOver, TurnsTaken
<1>3. ~ InTransaction(t) /\ InTransaction(t)'
  BY DEF Begins, InTransaction
<1>4. t \notin Active /\ Active' = Active \cup {t}
  BY <1>3, MappedFrame DEF Active
<1>5. PrefixAt(thread_epoch[t])' = Abstract!Max({0} \cup DOMAIN Effects)
  <2>1. {i \in DOMAIN order' : order'[i].epoch \in 1..thread_epoch'[t]}
          = DOMAIN Effects
    <3>1. \A i \in DOMAIN order : order[i].epoch \in Int
                                  /\ order[i].epoch <= clock
      BY NoneLater
    <3>2. clock \in Nat
      BY NoneLater
    <3> QED BY <1>1, <3>1, <3>2 DEF Begins, Effects, TurnsOver
  <2>2. PrefixAt(thread_epoch[t])' =
          Max({0} \cup
              {i \in DOMAIN order' : order'[i].epoch \in 1..thread_epoch'[t]})
    BY DEF PrefixAt
  <2> QED BY <2>1, <2>2 DEF Abstract!Max, Max
<1>6. Since' = [Since EXCEPT ![t] = Abstract!Max({0} \cup DOMAIN Effects)]
  BY <1>3, <1>5, MappedFrame DEF During
<1>7. Turn' = Turn
  <2>1. TurnOf(t)' = TurnOf(t)
    BY <1>1 DEF TurnOf, PendingOf
  <2> QED BY <2>1, MappedFrame DEF Turn
<1>8. reads'[t] = NoEntries /\ write_log'[t] = NoEntries /\ Logged(t)' = {}
  BY DEF Begins, IInv, ThreadInv, EntryInv, Logged, Checking
<1>9. Got[t] = NoEntries /\ Keeps[t] = {} /\ Puts[t] = NoEntries
  BY <1>3 DEF During, Got, Keeps, Puts
<1>10. Got' = [Got EXCEPT ![t] = Got[t]]
  BY <1>3, <1>8, <1>9, MappedFrame DEF During
<1>11. Keeps' = [Keeps EXCEPT ![t] = Keeps[t]]
  BY <1>3, <1>8, <1>9, MappedFrame DEF During
<1>12. Puts' = [Puts EXCEPT ![t] = Puts[t]]
  BY <1>3, <1>8, <1>9, MappedFrame DEF During
<1>13. Got' = Got /\ Keeps' = Keeps /\ Puts' = Puts
  BY <1>10, <1>11, <1>12 DEF Got, Keeps, Puts
<1> QED BY <1>2, <1>4, <1>6, <1>7, <1>13 DEF Abstract!Begin

(* A borrow that passes its check returns what it should.                  *)
LEMMA BorrowIsBorrow ==
  ASSUME IInv, IInv', HInv, HInv', EntryInv, NEW t \in Threads,
         HistoryStep(t), NEW c \in Cells, NEW uphold \in BOOLEAN,
         Borrows(t, c, uphold)
  PROVE  Abstract!Borrow(t, c, uphold)
<1>1. order' = order
  BY DEF HistoryStep, Recorded, Borrows
<1>2. UNCHANGED <<TurnsTaken, Effects>>
  BY <1>1 DEF Effects, TurnsOver, TurnsTaken
<1>3. InTransaction(t) /\ InTransaction(t)' /\ pc[t] = "load" /\ pc'[t] = "run"
  BY DEF Borrows, InTransaction
<1>4. Active' = Active /\ t \in Active
  BY <1>3, MappedFrame DEF Active
<1>5. PrefixAt(thread_epoch[t])' = PrefixAt(thread_epoch[t])
  BY <1>1 DEF Borrows, PrefixAt
<1>6. Since' = Since /\ Since[t] = PrefixAt(thread_epoch[t])
  BY <1>3, <1>5, MappedFrame DEF During, Since
<1>7. TurnOf(t)' = TurnOf(t) /\ TurnOf(t) = 0
  BY <1>1, <1>3, TurnIs DEF TurnOf, PendingOf, HInv, Undated
<1>8. Turn' = Turn /\ Turn[t] = 0
  BY <1>7, MappedFrame DEF Turn
<1>9. Puts' = Puts /\ Puts[t][c] = None
  BY <1>3, MappedFrame DEF During, Puts, Borrows, EntryInv
<1>10. Keeps' = IF uphold THEN [Keeps EXCEPT ![t] = @ \cup {c}] ELSE Keeps
  <2>1. Logged(t) = read_log[t] /\ Logged(t)' = read_log'[t]
    BY <1>3 DEF Logged, Checking
  <2>2. read_log'[t] = IF uphold THEN read_log[t] \cup {c} ELSE read_log[t]
    BY DEF Borrows, IInv, TypeOK
  <2> QED BY <1>3, <2>1, <2>2, MappedFrame DEF During, Keeps
<1>11. reads'[t][c] = Abstract!ValueAt(Since[t], c)
  <2>1. reads'[t][c] # None
    BY DEF Borrows, IInv, TypeOK
  <2>2. reads'[t][c] = ValueAfter(PrefixAt(thread_epoch[t]), c)'
    BY <2>1, ReadersNext DEF ReadersSerialize
  <2>3. ValueAfter(PrefixAt(thread_epoch[t]), c)'
          = ValueAfter(PrefixAt(thread_epoch[t]), c)
    BY <1>1, <1>5 DEF ValueAfter, Latest
  <2>4. PICK k : k = PrefixAt(thread_epoch[t])
    OBVIOUS
  <2>5. /\ k \in Nat /\ k <= Len(order)
        /\ k > 0 => k \in DOMAIN order /\ By(k, thread_epoch[t])
        /\ \A i \in 1..k : i \in DOMAIN order /\ i <= k /\ k > 0
        /\ \A i \in DOMAIN order : order[i].epoch \in Int
    <3>1. PICK n \in Nat : n = Len(order) /\ DOMAIN order = 1..n
      BY EntryTypes DEF HInv
    <3>2. k \in 0..n /\ (k > 0 => By(k, thread_epoch[t]))
      BY <2>4, <3>1, LastSeen DEF HInv
    <3>3. \A i \in DOMAIN order : order[i].epoch \in Int
      BY EntryTypes DEF HInv
    <3> QED BY <3>1, <3>2, <3>3
  <2>6. ASSUME NEW i \in 1..k, Writes(i, c) PROVE order[i].epoch >= 1
    <3>1. k \in DOMAIN order /\ i \in DOMAIN order /\ By(k, thread_epoch[t])
      BY <2>5
    <3>2. i # k => By(i, thread_epoch[t])
      <4>1. \A j \in DOMAIN order :
              i < j /\ Writes(i, c) /\ By(j, thread_epoch[t])
                => By(i, thread_epoch[t])
        BY <1>1, <2>1, <3>1 DEF HInv, ReadInv, Borrows, Writes, By
      <4>2. i # k => i < k
        BY <2>5
      <4> QED BY <2>6, <3>1, <4>1, <4>2
    <3> QED BY <2>5, <3>1, <3>2 DEF By
  <2>7. Abstract!ValueAt(k, c) = ValueAfter(k, c)
    BY <2>5, <2>6, ValueAtIs DEF HInv
  <2> QED BY <1>6, <2>2, <2>3, <2>4, <2>7
<1>12. Got' = [Got EXCEPT ![t][c] = Abstract!ValueAt(Since[t], c)]
  <2>1. reads'[t] = [reads[t] EXCEPT ![c] = reads'[t][c]]
    BY DEF Borrows, IInv, TypeOK
  <2> QED BY <1>3, <1>11, <2>1, MappedFrame DEF During, Got
<1> QED
  BY <1>2, <1>4, <1>6, <1>8, <1>9, <1>10, <1>12
     DEF Abstract!Borrow, Abstract!Running, Abstract!NoTurn

(* As many entries are as many turns.                                      *)
LEMMA SameTurns ==
  ASSUME HistoryTypeOK, HistoryTypeOK', DOMAIN order' = DOMAIN order
  PROVE  TurnsTaken' = TurnsTaken
<1>1. PICK n \in Nat : n = Len(order) /\ DOMAIN order = 1..n
  BY EntryTypes
<1>2. order' \in Seq(Entries)
  BY DEF HistoryTypeOK
<1>3. order' \in [1..n -> Entries]
  BY <1>1, <1>2, ElementOfSeq, LenProperties
<1>4. Len(order') = n
  BY <1>3, FunctionIsSeq
<1> QED BY <1>1, <1>4 DEF TurnsTaken

(* So is a set.                                                            *)
LEMMA SetIsSet ==
  ASSUME IInv, IInv', HInv, HInv', NEW t \in Threads, HistoryStep(t),
         NEW c \in Cells, NEW v \in CellVals, Sets(t, c, v)
  PROVE  Abstract!Set(t, c, v)
<1>1. order' = order
  BY DEF HistoryStep, Recorded, Sets
<1>2. UNCHANGED <<TurnsTaken, Effects>>
  BY <1>1 DEF Effects, TurnsOver, TurnsTaken
<1>3. InTransaction(t) /\ InTransaction(t)' /\ pc[t] = "run"
  BY DEF Sets, InTransaction
<1>4. Active' = Active /\ t \in Active
  BY <1>3, MappedFrame DEF Active
<1>5. PrefixAt(thread_epoch[t])' = PrefixAt(thread_epoch[t])
  BY <1>1 DEF Sets, PrefixAt
<1>6. Since' = Since
  BY <1>3, <1>5, MappedFrame DEF During, Since
<1>7. TurnOf(t)' = TurnOf(t) /\ TurnOf(t) = 0
  BY <1>1, <1>3, TurnIs DEF TurnOf, PendingOf, HInv, Undated
<1>8. Turn' = Turn /\ Turn[t] = 0
  BY <1>7, MappedFrame DEF Turn
<1>9. Logged(t)' = Logged(t)
  BY DEF Sets, Logged, Checking
<1>10. Got' = Got /\ Keeps' = Keeps
  <2>1. Got' = [Got EXCEPT ![t] = Got[t]]
    BY <1>3, MappedFrame DEF During, Got, Sets
  <2>2. Keeps' = [Keeps EXCEPT ![t] = Keeps[t]]
    BY <1>3, <1>9, MappedFrame DEF During, Keeps
  <2> QED BY <2>1, <2>2 DEF Got, Keeps
<1>11. Puts' = [Puts EXCEPT ![t][c] = v]
  <2>1. write_log'[t] = [write_log[t] EXCEPT ![c] = v]
    BY DEF Sets, IInv, TypeOK
  <2> QED BY <1>3, <2>1, MappedFrame DEF During, Puts
<1> QED
  BY <1>2, <1>4, <1>6, <1>8, <1>10, <1>11
     DEF Abstract!Set, Abstract!Running, Abstract!NoTurn

(* What Serial sees of a thread outside of its transactions.               *)
LEMMA EndMapped ==
  ASSUME IInv, IInv', HInv, HInv', NEW t \in Threads, HistoryStep(t),
         InTransaction(t), ~ InTransaction(t)'
  PROVE  t \in Active /\ Abstract!Ended(t)
<1>1. t \in Active /\ Active' = Active \ {t}
  BY MappedFrame DEF Active
<1>2. TurnOf(t)' = 0
  <2>1. pc'[t] \notin Undated
    BY DEF InTransaction, Undated
  <2> QED BY <2>1, TurnIsNext DEF HInv
<1>3. Turn' = [Turn EXCEPT ![t] = 0]
  BY <1>2, MappedFrame
<1>4. Since' = [Since EXCEPT ![t] = 0]
  BY MappedFrame DEF During
<1>5. Got' = [Got EXCEPT ![t] = NoEntries] /\ Keeps' = [Keeps EXCEPT ![t] = {}]
  BY MappedFrame DEF During
<1>6. Puts' = [Puts EXCEPT ![t] = NoEntries]
  BY MappedFrame DEF During
<1> QED
  BY <1>1, <1>3, <1>4, <1>5, <1>6
     DEF Abstract!Ended, Abstract!NoTurn, Abstract!NoEntries, NoEntries

(* An attempt that fails, even one that has taken its turn, and one that   *)
(* has nothing to write, end without an effect.                            *)
LEMMA EndIsEnd ==
  ASSUME IInv, IInv', HInv, HInv', NEW t \in Threads, HistoryStep(t), Ends(t)
  PROVE  Abstract!End(t)
<1>1. ~ FetchAndTick(t)
  BY DEF Ends, FetchAndTick
<1>2. Effects' = Effects
  BY <1>1, EffectsStay
<1>3. TurnsTaken' = TurnsTaken
  <2>1. \/ order' = order
        \/ order' = [i \in DOMAIN order |->
                       Revised(t, order[i], Withdrawn(order[i]))]
    BY DEF HistoryStep, Recorded, Ends, InTransaction
  <2>2. CASE order' = order
    BY <2>2 DEF TurnsTaken
  <2>3. CASE order' = [i \in DOMAIN order |->
                       Revised(t, order[i], Withdrawn(order[i]))]
    BY <2>3, SameTurns DEF HInv
  <2> QED BY <2>1, <2>2, <2>3
<1> QED BY <1>2, <1>3, EndMapped DEF Abstract!End, Ends

(* Whoever holds the last of its locks has taken its turn.                 *)
LEMMA LockIsTurn ==
  ASSUME IInv, IInv', HInv, HInv', NEW t \in Threads, HistoryStep(t),
         AllLocked(t) \/ CommitHard(t)
  PROVE  Abstract!TakeTurn(t)
<1>1. /\ TypeOK /\ HistoryTypeOK /\ Step(t)
  BY DEF IInv, HInv, HistoryStep
<1>2. /\ thread_epoch' = thread_epoch /\ reads' = reads
      /\ write_log' = write_log /\ pc[t] \in {"lock", "commit"}
      /\ pc'[t] \in Checking /\ pc'[t] \in {"validate", "tick"}
  BY <1>1, CommitFrame DEF Checking
<1>3. InTransaction(t) /\ InTransaction(t)' /\ ~ FetchAndTick(t)
  BY <1>2 DEF InTransaction, FetchAndTick
<1>4. Effects' = Effects
  BY <1>3, EffectsStay
<1>5. Active' = Active /\ t \in Active
  BY <1>3, MappedFrame DEF Active
<1>6. Turn[t] = 0
  BY <1>1, <1>2, TurnIs DEF Turn, HInv, Undated
<1>7. /\ TurnsTaken' = TurnsTaken + 1 /\ TurnOf(t)' = TurnsTaken + 1
  <2>1. PICK n \in Nat : /\ n = Len(order) /\ order'[n + 1] = Entry(t)
                         /\ DOMAIN order' = 1..(n + 1)
    BY <1>1, Appended
  <2>2. order' \in [1..(n + 1) -> Entries]
    BY <2>1, ElementOfSeq, LenProperties DEF HInv, HistoryTypeOK
  <2>3. Len(order') = n + 1
    BY <2>1, <2>2, FunctionIsSeq
  <2>4. n + 1 \in DOMAIN order' /\ PendingOf(t, order'[n + 1])
    BY <1>1, <2>1, EntryFields DEF PendingOf
  <2>5. TurnOf(t)' = n + 1
    BY <2>4, TurnIsNext DEF HInv, PendingOf
  <2> QED BY <2>1, <2>3, <2>5 DEF TurnsTaken
<1>8. Turn' = [Turn EXCEPT ![t] = TurnsTaken']
  BY <1>7, MappedFrame
<1>9. Since' = [Since EXCEPT ![t] = Since[t]]
  <2>1. PrefixAt(thread_epoch[t])' = PrefixAt(thread_epoch[t])
    BY <1>2, <1>3, PrefixStays
  <2> QED BY <1>3, <2>1, MappedFrame DEF During, Since
<1>10. Got' = [Got EXCEPT ![t] = Got[t]] /\ Puts' = [Puts EXCEPT ![t] = Puts[t]]
  BY <1>2, <1>3, MappedFrame DEF During, Got, Puts
<1>11. Keeps' = [Keeps EXCEPT ![t] = Keeps[t]]
  BY <1>1, <1>2, <1>3, LoggedKept, MappedFrame DEF During, Keeps
<1>12. Since' = Since /\ Got' = Got /\ Puts' = Puts /\ Keeps' = Keeps
  BY <1>9, <1>10, <1>11 DEF Since, Got, Puts, Keeps
<1> QED
  BY <1>4, <1>5, <1>6, <1>7, <1>8, <1>12
     DEF Abstract!TakeTurn, Abstract!Running, Abstract!NoTurn

(* What t is to uphold is in its entry.                                    *)
LEMMA UpheldIsChecked ==
  ASSUME NEW t \in Threads, InTransaction(t)
  PROVE  Abstract!Upheld(t) = CheckedReads(t)
BY DEF Abstract!Upheld, CheckedReads, Keeps, Puts, Got, During, WriteSet

(* At the tick, what t upholds is what the turns before its own have left. *)
LEMMA TickReadsNow ==
  ASSUME IInv, HInv, EntryInv, NEW t \in Threads, pc[t] = "tick"
  PROVE  Abstract!ReadsNow(t)
<1>1. InTransaction(t) /\ HistoryTypeOK /\ PlacedInv /\ DecidedInv
  BY DEF InTransaction, HInv
<1>2. PICK p \in DOMAIN order : p = TurnOf(t) /\ PendingOf(t, order[p])
  BY <1>1, TurnIs DEF Undated
<1>3. Turn[t] = p /\ order[p].reads = Abstract!Upheld(t)
  BY <1>1, <1>2, UpheldIsChecked DEF Turn, EntryInv
<1>4. Decided(order[p])
  BY <1>2 DEF Decided, PendingOf, Irrevocable
<1>5. p - 1 \in Nat /\ p - 1 <= Len(order)
  BY <1>1, EntryTypes
<1>6. ASSUME NEW c \in Cells, order[p].reads[c] # None
      PROVE  order[p].reads[c] = Abstract!ValueAt(p - 1, c)
  <2>1. /\ order[p].reads[c] = ValueAfter(p - 1, c)
        /\ \A j \in 1..(p - 1) : Writes(j, c) => order[j].epoch >= 1
    BY <1>1, <1>4, <1>6 DEF DecidedInv
  <2> QED BY <1>1, <1>5, <2>1, ValueAtIs
<1> QED BY <1>3, <1>6 DEF Abstract!ReadsNow

(* Nobody has looked past the turn of t at what t is about to publish.     *)
LEMMA TickUnseen ==
  ASSUME IInv, HInv, NEW t \in Threads, pc[t] = "tick"
  PROVE  Abstract!Unseen(t)
<1>1. /\ InTransaction(t) /\ HistoryTypeOK /\ PlacedInv /\ DecidedInv /\ ReadInv
  BY DEF InTransaction, HInv
<1>2. PICK p \in DOMAIN order : p = TurnOf(t) /\ PendingOf(t, order[p])
  BY <1>1, TurnIs DEF Undated
<1>3. Turn[t] = p /\ Puts[t] = order[p].writes /\ order[p].epoch = Pending
  BY <1>1, <1>2
     DEF Turn, Puts, During, PlacedInv, Placed, PendingOf, Pending, Undone
<1>4. PICK n \in Nat : n = Len(order) /\ DOMAIN order = 1..n
  BY EntryTypes, <1>1
<1>5. ASSUME NEW c \in Cells, Puts[t][c] # None, NEW i \in DOMAIN Effects,
             Effects[i].reads[c] # None
      PROVE  i < Turn[t]
  <2>1. /\ i \in DOMAIN order /\ order[i].epoch >= 1
        /\ order[i].reads[c] # None
    BY <1>5 DEF Effects, TurnsOver
  <2>2. Decided(order[i])
    BY <2>1 DEF Decided, Pending
  <2>3. \A j \in 1..(i - 1) : Writes(j, c) => order[j].epoch >= 1
    BY <1>1, <2>1, <2>2 DEF DecidedInv
  <2>4. Writes(p, c) /\ ~ (order[p].epoch >= 1)
    BY <1>3, <1>5 DEF Writes, Pending
  <2>5. p \notin 1..(i - 1) /\ i # p
    BY <2>1, <2>3, <2>4
  <2> QED BY <1>3, <1>4, <2>1, <2>5
<1>6. ASSUME NEW c \in Cells, Puts[t][c] # None, NEW u \in Active \ {t},
             Got[u][c] # None
      PROVE  Since[u] < Turn[t]
  <2>1. u \in Threads /\ InTransaction(u) /\ reads[u][c] # None
    BY <1>6 DEF Active, Got, During
  <2>2. Since[u] = PrefixAt(thread_epoch[u])
    BY <2>1 DEF Since, During
  <2>3. PICK k \in 0..n : /\ k = PrefixAt(thread_epoch[u])
                          /\ k > 0 => By(k, thread_epoch[u])
    BY <1>1, <1>4, LastSeen
  <2>4. Writes(p, c) /\ ~ By(p, thread_epoch[u])
    BY <1>3, <1>6 DEF Writes, Pending, By
  <2>5. ~ (p < k) /\ p # k
    BY <1>1, <1>4, <2>1, <2>3, <2>4 DEF ReadInv
  <2> QED BY <1>3, <1>4, <2>2, <2>3, <2>5
<1> QED BY <1>5, <1>6 DEF Abstract!Unseen

(* The tick of the clock gives the turn of t its effect.                   *)
LEMMA TickIsCommit ==
  ASSUME IInv, IInv', HInv, HInv', EntryInv, NEW t \in Threads,
         HistoryStep(t), FetchAndTick(t)
  PROVE  Abstract!Commit(t)
<1>1. /\ TypeOK /\ TypeOK' /\ HistoryTypeOK /\ HistoryTypeOK' /\ PlacedInv
      /\ pc[t] = "tick" /\ pc'[t] = "publish"
  BY DEF IInv, HInv, FetchAndTick, TypeOK, Goto
<1>2. InTransaction(t) /\ ~ InTransaction(t)'
  BY <1>1 DEF InTransaction
<1>3. PICK p \in DOMAIN order : /\ p = TurnOf(t) /\ PendingOf(t, order[p])
                                /\ p \in Nat /\ p > 0
  BY <1>1, TurnIs DEF Undated
<1>4. Turn[t] = p
  BY <1>3 DEF Turn
<1>5. /\ DOMAIN order' = DOMAIN order
      /\ order'[p].epoch = clock' /\ order'[p].reads = order[p].reads
      /\ order'[p].writes = order[p].writes
      /\ \A i \in DOMAIN order : i # p => order'[i] = order[i]
  <2>1. \A i \in DOMAIN order : i # p => ~ PendingOf(t, order[i])
    BY <1>1, <1>3, TurnIs
  <2> QED BY <1>1, <1>3, <2>1, DatedEntries
<1>6. clock' >= 1
  BY <1>1, EpochFacts DEF TypeOK, FetchAndTick
<1>7. TurnsOver' = TurnsOver \cup {p} /\ p \notin TurnsOver
  BY <1>3, <1>5, <1>6 DEF TurnsOver, PendingOf, Pending
<1>8. /\ order'[p].reads = Abstract!Upheld(t) /\ order'[p].writes = Puts[t]
  BY <1>1, <1>2, <1>3, <1>5, UpheldIsChecked
     DEF EntryInv, Puts, During, PlacedInv, Placed, PendingOf, Pending, Undone
<1>9. Effects' = [i \in DOMAIN Effects \cup {p} |->
                    IF i = p
                      THEN [reads |-> Abstract!Upheld(t), writes |-> Puts[t]]
                      ELSE Effects[i]]
  <2>1. \A i \in TurnsOver : i \in DOMAIN order /\ order'[i] = order[i]
    BY <1>5, <1>7 DEF TurnsOver
  <2> QED BY <1>7, <1>8, <2>1 DEF Effects
<1>10. TurnsTaken' = TurnsTaken
  BY <1>1, <1>5, SameTurns
<1>11. Abstract!ReadsNow(t) /\ Abstract!Unseen(t)
  BY <1>1, TickReadsNow, TickUnseen
<1>12. t \in Active /\ Abstract!Ended(t)
  BY <1>2, EndMapped
<1> QED
  BY <1>3, <1>4, <1>9, <1>10, <1>11, <1>12
     DEF Abstract!Commit, Abstract!NoTurn

(* Every step of a thread is a step of Serial, or changes nothing there.   *)
LEMMA SerialStep ==
  ASSUME IInv, IInv', HInv, HInv', EntryInv, NEW t \in Threads, HistoryStep(t)
  PROVE  [Abstract!Next]_Mapped
<1>1. TypeOK /\ HistoryTypeOK /\ ThreadInv(t)
  BY DEF IInv, HInv
<1>2. CASE Silent(t)
  BY <1>2, SilentIsStutter
<1>3. CASE Begins(t)
  BY <1>3, PinIsBegin DEF Abstract!Next
<1>4. ASSUME NEW c \in Cells, NEW uphold \in BOOLEAN, Borrows(t, c, uphold)
      PROVE  Abstract!Next
  BY <1>4, BorrowIsBorrow DEF Abstract!Next
<1>5. ASSUME NEW c \in Cells, NEW v \in CellVals, Sets(t, c, v)
      PROVE  Abstract!Next
  BY <1>5, SetIsSet DEF Abstract!Next
<1>6. CASE Ends(t)
  BY <1>6, EndIsEnd DEF Abstract!Next
<1>7. CASE AllLocked(t) \/ CommitHard(t)
  BY <1>7, LockIsTurn DEF Abstract!Next
<1>8. CASE FetchAndTick(t)
  BY <1>8, TickIsCommit DEF Abstract!Next
<1> QED
  BY <1>1, <1>2, <1>3, <1>4, <1>5, <1>6, <1>7, <1>8, SerialKinds

(* Nobody has taken a turn yet.                                            *)
LEMMA SerialInit == HistoryInit => Abstract!Init
<1> SUFFICES ASSUME HistoryInit PROVE Abstract!Init
  OBVIOUS
<1>1. /\ order = <<>> /\ DOMAIN order = {} /\ Len(order) = 0
      /\ \A t \in Threads : ~ InTransaction(t)
  BY DEF HistoryInit, Init, InTransaction
<1>2. TurnsTaken = 0 /\ Effects = [i \in {} |-> None] /\ Active = {}
  BY <1>1 DEF TurnsTaken, Effects, TurnsOver, Active
<1>3. \A t \in Threads : TurnOf(t) = 0
  <2>1. HistoryTypeOK /\ PlacedInv
    BY InitHInv DEF HInv
  <2> QED BY <2>1, TurnIs DEF HistoryInit, Init, Undated
<1>4. /\ Turn = [t \in Threads |-> 0] /\ Since = [t \in Threads |-> 0]
      /\ Got = [t \in Threads |-> NoEntries]
      /\ Keeps = [t \in Threads |-> {}]
      /\ Puts = [t \in Threads |-> NoEntries]
  BY <1>1, <1>3 DEF Turn, Since, Got, Keeps, Puts, During
<1> QED
  BY <1>2, <1>4 DEF Abstract!Init, Abstract!NoTurn, Abstract!NoEntries, NoEntries

(* Transactions implement turns in one order, whatever their number and    *)
(* that of the cells, and however their borrows, locks, checks, copies and *)
(* ticks interleave (lib.rs: "Behaves as though a single global lock were  *)
(* held for the duration of every transaction").                           *)
THEOREM TransactionsAreSerial == HistorySpec => IsSerial
<1>1. IInv /\ IInv' /\ HInv /\ HInv' /\ EntryInv /\ [HistoryNext]_historyVars
        => [Abstract!Next]_Mapped
  <2>1. ASSUME UNCHANGED historyVars PROVE UNCHANGED Mapped
    BY <2>1 DEF Mapped, TurnsTaken, Effects, TurnsOver, Active, Turn, TurnOf,
                Since, Got, Keeps, Puts, During, InTransaction, PrefixAt,
                Logged, PendingOf, historyVars, vars, logs
  <2> QED BY <2>1, SerialStep DEF HistoryNext, Halted, historyVars
<1> QED
  BY <1>1, SerialInit, HistoryInvariance, EntryInvariance, PTL
     DEF HistorySpec, IsSerial, Abstract!Spec, Mapped
=============================================================================
