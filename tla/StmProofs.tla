----------------------------- MODULE StmProofs -----------------------------
(***************************************************************************)
(* Proofs that every behaviour of Stm satisfies its safety properties, for *)
(* any number of threads, cells and words.                                 *)
(***************************************************************************)
EXTENDS StmInvariant, TLAPS

(* Names for parts of actions, expanded everywhere.                        *)
USE DEF now, lockable, remove_writes_from_reads, publish_epoch, unlock_until

(* The arithmetic of epoch words that the proofs need.                     *)
LEMMA EpochFacts ==
  /\ LOCK_BIT \in Nat /\ FIRST \in Nat /\ FIRST < LOCK_BIT
  /\ INACTIVE_EPOCH \in Nat
  /\ \A e \in Nat : next(e) \in Nat /\ next(e) > e
  /\ \A e \in Nat : toggle_lock_bit(e) \in Nat
BY LockBitAssumption
   DEF FIRST, TICK_SIZE, UNPARK_BIT, INACTIVE_EPOCH, next, toggle_lock_bit,
       lock_bit_set

-----------------------------------------------------------------------------
(* The initial state.                                                      *)

(* The variables start in their types.                                     *)
LEMMA InitTypeOK == Init => TypeOK
<1> SUFFICES ASSUME Init PROVE TypeOK
  OBVIOUS
<1>1. InitVal \in [Words -> Vals]
  BY StmAssumption
<1>2. /\ DOMAIN snap \subseteq Nat
      /\ \A e \in DOMAIN snap : snap[e] \in [Cells -> CellVals]
  BY StmAssumption, EpochFacts DEF Init
<1>3. aborted \in BOOLEAN
  BY DEF Init
<1> QED
  BY <1>1, <1>2, <1>3, EpochFacts
     DEF Init, TypeOK, NoEntries, NoWords, Pcs, CommitPcs, Irrevocable

(* The invariant holds before any thread has run.                          *)
LEMMA InitIInv == Init => IInv
<1> SUFFICES ASSUME Init PROVE IInv
  OBVIOUS
<1>1. TypeOK
  BY InitTypeOK
<1>2. ASSUME NEW t \in Threads
      PROVE  ThreadInv(t) /\ BufInv(t) /\ GarbageInv(t) /\ TickInv(t)
  BY DEF Init, ThreadInv, BufInv, GarbageInv, TickInv, WriteSet, NoEntries,
         NoWords, Locking
<1>3. SnapInv
  BY EpochFacts DEF Init, SnapInv
<1>4. CellInv /\ Exclusive
  BY EpochFacts DEF Init, CellInv, Exclusive, FreeInv, Stable
<1>5. Opacity
  BY DEF Init, Opacity, NoEntries
<1> QED
  BY <1>1, <1>2, <1>3, <1>4, <1>5 DEF IInv

-----------------------------------------------------------------------------
(* Types.                                                                  *)

(* One step of any thread keeps every variable in its type.                *)
LEMMA TypeStep ==
  ASSUME TypeOK, NEW t \in Threads, ThreadInv(t), SnapInv, Step(t)
  PROVE  TypeOK'
<1> USE EpochFacts, StmAssumption
        DEF TypeOK, Pcs, CommitPcs, Irrevocable, shared, logs, borrowing,
            committing, Goto, NoEntries, NoWords
<1>1. ASSUME NEW m \in {"read", "rw"}, TryPin(t, m) PROVE TypeOK'
  BY <1>1 DEF TryPin
<1>2. CASE Repin(t)
  BY <1>2 DEF Repin
<1>3. CASE ClockOverflow(t)
  BY <1>3 DEF ClockOverflow
<1>4. ASSUME NEW c \in Cells, BorrowShared(t, c) PROVE TypeOK'
  BY <1>4 DEF BorrowShared
<1>5. ASSUME NEW c \in Cells, BorrowPending(t, c) PROVE TypeOK'
  BY <1>5 DEF BorrowPending
<1>6. ASSUME NEW c \in Cells, SetConflict(t, c) PROVE TypeOK'
  BY <1>6 DEF SetConflict
<1>7. ASSUME NEW c \in Cells, NEW v \in CellVals, SetNew(t, c, v) PROVE TypeOK'
  BY <1>7 DEF SetNew
<1>8. ASSUME NEW c \in Cells, NEW v \in CellVals, SetAgain(t, c, v) PROVE TypeOK'
  BY <1>8 DEF SetAgain
<1>9. ASSUME NEW w \in Words, LoadWord(t, w) PROVE TypeOK'
  BY <1>9 DEF LoadWord, ThreadInv
<1>10. ASSUME NEW logged \in BOOLEAN, BorrowOk(t, logged) PROVE TypeOK'
  BY <1>10 DEF BorrowOk, DoneBorrowing, Loaded, ThreadInv
<1>11. CASE BorrowSlow(t)
  BY <1>11 DEF BorrowSlow
<1>12. CASE BorrowConflict(t)
  BY <1>12 DEF BorrowConflict
<1>13. CASE DisposeOld(t)
  BY <1>13 DEF DisposeOld, DoneBorrowing, Loaded, ThreadInv
<1>14. CASE ReturnConflict(t)
  BY <1>14 DEF ReturnConflict, FailAttempt, ClearLogs, DoneBorrowing
<1>15. CASE IgnoreConflict(t)
  BY <1>15 DEF IgnoreConflict, DoneBorrowing
<1>16. CASE Panic(t)
  BY <1>16 DEF Panic, Unpin, ClearLogs, DoneBorrowing
<1>17. CASE FinishNoWrites(t)
  BY <1>17 DEF FinishNoWrites, Unpin
<1>18. CASE Commit(t)
  BY <1>18 DEF Commit
<1>19. CASE CommitHard(t)
  BY <1>19 DEF CommitHard, WriteSet
<1>20. CASE CommitHardFails(t)
  BY <1>20 DEF CommitHardFails, FailAttempt, ClearLogs
<1>21. CASE CommitSoft(t)
  BY <1>21 DEF CommitSoft, WriteSet
<1>22. CASE TryLockFails(t)
  BY <1>22 DEF TryLockFails
<1>23. CASE AllLocked(t)
  BY <1>23 DEF AllLocked
<1>24. CASE ValidationSuccess(t)
  BY <1>24 DEF ValidationSuccess, WriteSet
<1>25. ASSUME NEW c \in Cells, TryLock(t, c) PROVE TypeOK'
  BY <1>25 DEF TryLock
<1>26. ASSUME NEW c \in Cells, ValidateRead(t, c) PROVE TypeOK'
  BY <1>26 DEF ValidateRead
<1>27. ASSUME NEW c \in Cells, ValidationFailure(t, c) PROVE TypeOK'
  BY <1>27 DEF ValidationFailure
<1>28. ASSUME NEW c \in Cells, UnlockPublish(t, c) PROVE TypeOK'
  BY <1>28 DEF UnlockPublish
<1>29. ASSUME NEW c \in Cells, UnlockUndo(t, c) PROVE TypeOK'
  BY <1>29 DEF UnlockUndo
<1>30. ASSUME NEW c \in Cells, NEW w \in Words, PerformWrite(t, c, w) PROVE TypeOK'
  BY <1>30 DEF PerformWrite, ThreadInv, WriteSet
<1>31. CASE WritesPerformed(t)
  BY <1>31 DEF WritesPerformed
<1>32. CASE FetchAndTick(t)
  BY <1>32 DEF FetchAndTick, Overwrite, SnapInv
<1>33. CASE CommitDone(t)
  BY <1>33 DEF CommitDone, Unpin, ClearLogs
<1>34. CASE CommitFails(t)
  BY <1>34 DEF CommitFails, FailAttempt, ClearLogs
<1> QED
  BY <1>1, <1>2, <1>3, <1>4, <1>5, <1>6, <1>7, <1>8, <1>9, <1>10, <1>11,
     <1>12, <1>13, <1>14, <1>15, <1>16, <1>17, <1>18, <1>19, <1>20,
     <1>21, <1>22, <1>23, <1>24, <1>25, <1>26, <1>27, <1>28, <1>29,
     <1>30, <1>31, <1>32, <1>33, <1>34
     DEF Step, PinStep, ClosureStep, CommitStep

-----------------------------------------------------------------------------
(* What a step leaves alone.                                               *)

(* Only t's own places in the per-thread variables change.                 *)
OnlyThread(t) ==
  \A u \in Threads \ {t} :
    /\ pc'[u] = pc[u] /\ thread_epoch'[u] = thread_epoch[u]
    /\ write_log'[u] = write_log[u] /\ garbage'[u] = garbage[u]
    /\ cursor'[u] = cursor[u] /\ buf'[u] = buf[u] /\ reads'[u] = reads[u]
    /\ locked'[u] = locked[u] /\ unwritten'[u] = unwritten[u]
    /\ sync_epoch'[u] = sync_epoch[u]
    /\ read_log'[u] = read_log[u] /\ unvalidated'[u] = unvalidated[u]

(* A step of t moves only what belongs to t, the cells and the clock.      *)
LEMMA Frame ==
  ASSUME TypeOK, NEW t \in Threads, Step(t)
  PROVE  OnlyThread(t)
<1> USE DEF TypeOK, OnlyThread, shared, logs, borrowing, committing, Goto
<1>1. ASSUME NEW m \in {"read", "rw"}, TryPin(t, m) PROVE OnlyThread(t)
  BY <1>1 DEF TryPin
<1>2. CASE Repin(t)
  BY <1>2 DEF Repin
<1>3. CASE ClockOverflow(t)
  BY <1>3 DEF ClockOverflow
<1>4. ASSUME NEW c \in Cells, BorrowShared(t, c) PROVE OnlyThread(t)
  BY <1>4 DEF BorrowShared
<1>5. ASSUME NEW c \in Cells, BorrowPending(t, c) PROVE OnlyThread(t)
  BY <1>5 DEF BorrowPending
<1>6. ASSUME NEW c \in Cells, SetConflict(t, c) PROVE OnlyThread(t)
  BY <1>6 DEF SetConflict
<1>7. ASSUME NEW c \in Cells, NEW v \in CellVals, SetNew(t, c, v) PROVE OnlyThread(t)
  BY <1>7 DEF SetNew
<1>8. ASSUME NEW c \in Cells, NEW v \in CellVals, SetAgain(t, c, v) PROVE OnlyThread(t)
  BY <1>8 DEF SetAgain
<1>9. ASSUME NEW w \in Words, LoadWord(t, w) PROVE OnlyThread(t)
  BY <1>9 DEF LoadWord
<1>10. ASSUME NEW logged \in BOOLEAN, BorrowOk(t, logged) PROVE OnlyThread(t)
  BY <1>10 DEF BorrowOk, DoneBorrowing
<1>11. CASE BorrowSlow(t)
  BY <1>11 DEF BorrowSlow
<1>12. CASE BorrowConflict(t)
  BY <1>12 DEF BorrowConflict
<1>13. CASE DisposeOld(t)
  BY <1>13 DEF DisposeOld, DoneBorrowing
<1>14. CASE ReturnConflict(t)
  BY <1>14 DEF ReturnConflict, FailAttempt, ClearLogs, DoneBorrowing
<1>15. CASE IgnoreConflict(t)
  BY <1>15 DEF IgnoreConflict, DoneBorrowing
<1>16. CASE Panic(t)
  BY <1>16 DEF Panic, Unpin, ClearLogs, DoneBorrowing
<1>17. CASE FinishNoWrites(t)
  BY <1>17 DEF FinishNoWrites, Unpin
<1>18. CASE Commit(t)
  BY <1>18 DEF Commit
<1>19. CASE CommitHard(t)
  BY <1>19 DEF CommitHard
<1>20. CASE CommitHardFails(t)
  BY <1>20 DEF CommitHardFails, FailAttempt, ClearLogs
<1>21. CASE CommitSoft(t)
  BY <1>21 DEF CommitSoft
<1>22. CASE TryLockFails(t)
  BY <1>22 DEF TryLockFails
<1>23. CASE AllLocked(t)
  BY <1>23 DEF AllLocked
<1>24. CASE ValidationSuccess(t)
  BY <1>24 DEF ValidationSuccess
<1>25. ASSUME NEW c \in Cells, TryLock(t, c) PROVE OnlyThread(t)
  BY <1>25 DEF TryLock
<1>26. ASSUME NEW c \in Cells, ValidateRead(t, c) PROVE OnlyThread(t)
  BY <1>26 DEF ValidateRead
<1>27. ASSUME NEW c \in Cells, ValidationFailure(t, c) PROVE OnlyThread(t)
  BY <1>27 DEF ValidationFailure
<1>28. ASSUME NEW c \in Cells, UnlockPublish(t, c) PROVE OnlyThread(t)
  BY <1>28 DEF UnlockPublish
<1>29. ASSUME NEW c \in Cells, UnlockUndo(t, c) PROVE OnlyThread(t)
  BY <1>29 DEF UnlockUndo
<1>30. ASSUME NEW c \in Cells, NEW w \in Words, PerformWrite(t, c, w) PROVE OnlyThread(t)
  BY <1>30 DEF PerformWrite
<1>31. CASE WritesPerformed(t)
  BY <1>31 DEF WritesPerformed
<1>32. CASE FetchAndTick(t)
  BY <1>32 DEF FetchAndTick
<1>33. CASE CommitDone(t)
  BY <1>33 DEF CommitDone, Unpin, ClearLogs
<1>34. CASE CommitFails(t)
  BY <1>34 DEF CommitFails, FailAttempt, ClearLogs
<1> QED
  BY <1>1, <1>2, <1>3, <1>4, <1>5, <1>6, <1>7, <1>8, <1>9, <1>10, <1>11,
     <1>12, <1>13, <1>14, <1>15, <1>16, <1>17, <1>18, <1>19, <1>20,
     <1>21, <1>22, <1>23, <1>24, <1>25, <1>26, <1>27, <1>28, <1>29,
     <1>30, <1>31, <1>32, <1>33, <1>34
     DEF Step, PinStep, ClosureStep, CommitStep

(* Memory that all threads see is as before, and so is who holds what.     *)
Unwritten(t) == UNCHANGED <<clock, epoch_lock, value, snap, locked>>

(* What others can see of the locks that t holds is as before.             *)
Settled(t) ==
  locked[t] # {} =>
    /\ thread_epoch'[t] = thread_epoch[t] /\ write_log'[t] = write_log[t]
    /\ garbage'[t] = garbage[t] /\ sync_epoch'[t] = sync_epoch[t]
    /\ pc'[t] = "publish" <=> pc[t] = "publish"
    /\ pc[t] \in {"write", "tick"} => pc'[t] \in {"write", "tick"}
    /\ \A c \in locked[t], w \in Words :
         Written(t, c, w)' <=> Written(t, c, w)

Quiet(t) == Unwritten(t) /\ Settled(t)

(* All steps are quiet but six.                                            *)
LEMMA QuietStep ==
  ASSUME TypeOK, NEW t \in Threads, ThreadInv(t), Step(t)
  PROVE  \/ Quiet(t)
         \/ CommitHard(t) \/ FetchAndTick(t)
         \/ \E c \in Cells : \/ TryLock(t, c) \/ UnlockPublish(t, c)
                             \/ UnlockUndo(t, c)
                             \/ \E w \in Words : PerformWrite(t, c, w)
<1> USE DEF TypeOK, ThreadInv, Locking, Quiet, Unwritten, Settled, Written,
            shared, logs, borrowing, committing, Goto
<1>1. ASSUME NEW m \in {"read", "rw"}, TryPin(t, m) PROVE Quiet(t)
  BY <1>1 DEF TryPin
<1>2. CASE Repin(t)
  BY <1>2 DEF Repin
<1>3. CASE ClockOverflow(t)
  BY <1>3 DEF ClockOverflow
<1>4. ASSUME NEW c \in Cells, BorrowShared(t, c) PROVE Quiet(t)
  BY <1>4 DEF BorrowShared
<1>5. ASSUME NEW c \in Cells, BorrowPending(t, c) PROVE Quiet(t)
  BY <1>5 DEF BorrowPending
<1>6. ASSUME NEW c \in Cells, SetConflict(t, c) PROVE Quiet(t)
  BY <1>6 DEF SetConflict
<1>7. ASSUME NEW c \in Cells, NEW v \in CellVals, SetNew(t, c, v) PROVE Quiet(t)
  BY <1>7 DEF SetNew
<1>8. ASSUME NEW c \in Cells, NEW v \in CellVals, SetAgain(t, c, v) PROVE Quiet(t)
  BY <1>8 DEF SetAgain
<1>9. ASSUME NEW w \in Words, LoadWord(t, w) PROVE Quiet(t)
  BY <1>9 DEF LoadWord
<1>10. ASSUME NEW logged \in BOOLEAN, BorrowOk(t, logged) PROVE Quiet(t)
  BY <1>10 DEF BorrowOk
<1>11. CASE BorrowSlow(t)
  BY <1>11 DEF BorrowSlow
<1>12. CASE BorrowConflict(t)
  BY <1>12 DEF BorrowConflict
<1>13. CASE DisposeOld(t)
  BY <1>13 DEF DisposeOld
<1>14. CASE ReturnConflict(t)
  BY <1>14 DEF ReturnConflict, FailAttempt, ClearLogs
<1>15. CASE IgnoreConflict(t)
  BY <1>15 DEF IgnoreConflict
<1>16. CASE Panic(t)
  BY <1>16 DEF Panic, Unpin, ClearLogs
<1>17. CASE FinishNoWrites(t)
  BY <1>17 DEF FinishNoWrites, Unpin
<1>18. CASE Commit(t)
  BY <1>18 DEF Commit
<1>19. CASE CommitHardFails(t)
  BY <1>19 DEF CommitHardFails, FailAttempt, ClearLogs
<1>20. CASE CommitSoft(t)
  BY <1>20 DEF CommitSoft
<1>21. CASE TryLockFails(t)
  BY <1>21 DEF TryLockFails
<1>22. CASE AllLocked(t)
  BY <1>22 DEF AllLocked
<1>23. CASE ValidationSuccess(t)
  BY <1>23 DEF ValidationSuccess, WriteSet
<1>24. ASSUME NEW c \in Cells, ValidateRead(t, c) PROVE Quiet(t)
  BY <1>24 DEF ValidateRead
<1>25. ASSUME NEW c \in Cells, ValidationFailure(t, c) PROVE Quiet(t)
  BY <1>25 DEF ValidationFailure
<1>26. CASE WritesPerformed(t)
  BY <1>26 DEF WritesPerformed
<1>27. CASE CommitDone(t)
  BY <1>27 DEF CommitDone, Unpin, ClearLogs
<1>28. CASE CommitFails(t)
  BY <1>28 DEF CommitFails, FailAttempt, ClearLogs
<1> QED
  BY <1>1, <1>2, <1>3, <1>4, <1>5, <1>6, <1>7, <1>8, <1>9, <1>10, <1>11,
     <1>12, <1>13, <1>14, <1>15, <1>16, <1>17, <1>18, <1>19, <1>20,
     <1>21, <1>22, <1>23, <1>24, <1>25, <1>26, <1>27, <1>28
     DEF Step, PinStep, ClosureStep, CommitStep

(* The past is never rewritten.                                            *)
SnapGrows ==
  /\ clock <= clock'
  /\ \A e \in DOMAIN snap : e \in DOMAIN snap' /\ snap'[e] = snap[e]

(* The past never changes, and the clock never goes back.                  *)
LEMMA SnapStep ==
  ASSUME TypeOK, SnapInv, NEW t \in Threads, ThreadInv(t), Step(t)
  PROVE  SnapInv' /\ SnapGrows
<1> USE DEF TypeOK, SnapInv, SnapGrows
<1>1. CASE FetchAndTick(t)
  BY <1>1, EpochFacts DEF FetchAndTick
<1>2. CASE UNCHANGED <<clock, snap>>
  BY <1>2
<1> QED
  BY <1>1, <1>2, QuietStep
     DEF Quiet, Unwritten, CommitHard, TryLock, UnlockPublish, UnlockUndo,
         PerformWrite

-----------------------------------------------------------------------------
(* The invariant, one part at a time.                                      *)

(* A thread keeps what it knows about itself.                              *)
LEMMA ThreadStep ==
  ASSUME TypeOK, SnapInv, NEW t \in Threads, ThreadInv(t), Step(t)
  PROVE  ThreadInv(t)'
<1>a. SnapGrows /\ clock \in DOMAIN snap
  BY SnapStep DEF SnapInv
<1> USE EpochFacts, StmAssumption
        DEF TypeOK, ThreadInv, Locking, WriteSet, SnapGrows, lock_bit_set,
            NoEntries, NoWords, shared, logs, borrowing, committing, Goto
<1>1. ASSUME NEW m \in {"read", "rw"}, TryPin(t, m) PROVE ThreadInv(t)'
  BY <1>1, <1>a DEF TryPin
<1>2. CASE Repin(t)
  BY <1>2, <1>a DEF Repin
<1>3. CASE ClockOverflow(t)
  BY <1>3, <1>a DEF ClockOverflow
<1>4. ASSUME NEW c \in Cells, BorrowShared(t, c) PROVE ThreadInv(t)'
  BY <1>4, <1>a DEF BorrowShared
<1>5. ASSUME NEW c \in Cells, BorrowPending(t, c) PROVE ThreadInv(t)'
  BY <1>5, <1>a DEF BorrowPending
<1>6. ASSUME NEW c \in Cells, SetConflict(t, c) PROVE ThreadInv(t)'
  BY <1>6, <1>a DEF SetConflict
<1>7. ASSUME NEW c \in Cells, NEW v \in CellVals, SetNew(t, c, v) PROVE ThreadInv(t)'
  BY <1>7, <1>a DEF SetNew
<1>8. ASSUME NEW c \in Cells, NEW v \in CellVals, SetAgain(t, c, v) PROVE ThreadInv(t)'
  BY <1>8, <1>a DEF SetAgain
<1>9. ASSUME NEW w \in Words, LoadWord(t, w) PROVE ThreadInv(t)'
  BY <1>9, <1>a DEF LoadWord
<1>10. ASSUME NEW logged \in BOOLEAN, BorrowOk(t, logged) PROVE ThreadInv(t)'
  BY <1>10, <1>a DEF BorrowOk, DoneBorrowing
<1>11. CASE BorrowSlow(t)
  BY <1>11, <1>a DEF BorrowSlow
<1>12. CASE BorrowConflict(t)
  BY <1>12, <1>a DEF BorrowConflict
<1>13. CASE DisposeOld(t)
  BY <1>13, <1>a DEF DisposeOld, DoneBorrowing
<1>14. CASE ReturnConflict(t)
  BY <1>14, <1>a DEF ReturnConflict, FailAttempt, ClearLogs, DoneBorrowing
<1>15. CASE IgnoreConflict(t)
  BY <1>15, <1>a DEF IgnoreConflict, DoneBorrowing
<1>16. CASE Panic(t)
  BY <1>16, <1>a DEF Panic, Unpin, ClearLogs, DoneBorrowing
<1>17. CASE FinishNoWrites(t)
  BY <1>17, <1>a DEF FinishNoWrites, Unpin
<1>18. CASE Commit(t)
  BY <1>18, <1>a DEF Commit
<1>19. CASE CommitHard(t)
  BY <1>19, <1>a DEF CommitHard
<1>20. CASE CommitHardFails(t)
  BY <1>20, <1>a DEF CommitHardFails, FailAttempt, ClearLogs
<1>21. CASE CommitSoft(t)
  BY <1>21, <1>a DEF CommitSoft
<1>22. CASE TryLockFails(t)
  BY <1>22, <1>a DEF TryLockFails
<1>23. CASE AllLocked(t)
  BY <1>23, <1>a DEF AllLocked
<1>24. CASE ValidationSuccess(t)
  BY <1>24, <1>a DEF ValidationSuccess
<1>25. ASSUME NEW c \in Cells, TryLock(t, c) PROVE ThreadInv(t)'
  BY <1>25, <1>a DEF TryLock
<1>26. ASSUME NEW c \in Cells, ValidateRead(t, c) PROVE ThreadInv(t)'
  BY <1>26, <1>a DEF ValidateRead
<1>27. ASSUME NEW c \in Cells, ValidationFailure(t, c) PROVE ThreadInv(t)'
  BY <1>27, <1>a DEF ValidationFailure
<1>28. ASSUME NEW c \in Cells, UnlockPublish(t, c) PROVE ThreadInv(t)'
  BY <1>28, <1>a DEF UnlockPublish
<1>29. ASSUME NEW c \in Cells, UnlockUndo(t, c) PROVE ThreadInv(t)'
  BY <1>29, <1>a DEF UnlockUndo
<1>30. ASSUME NEW c \in Cells, NEW w \in Words, PerformWrite(t, c, w) PROVE ThreadInv(t)'
  BY <1>30, <1>a DEF PerformWrite
<1>31. CASE WritesPerformed(t)
  BY <1>31, <1>a DEF WritesPerformed
<1>32. CASE FetchAndTick(t)
  BY <1>32, <1>a DEF FetchAndTick
<1>33. CASE CommitDone(t)
  BY <1>33, <1>a DEF CommitDone, Unpin, ClearLogs
<1>34. CASE CommitFails(t)
  BY <1>34, <1>a DEF CommitFails, FailAttempt, ClearLogs
<1> QED
  BY <1>1, <1>2, <1>3, <1>4, <1>5, <1>6, <1>7, <1>8, <1>9, <1>10, <1>11,
     <1>12, <1>13, <1>14, <1>15, <1>16, <1>17, <1>18, <1>19, <1>20,
     <1>21, <1>22, <1>23, <1>24, <1>25, <1>26, <1>27, <1>28, <1>29,
     <1>30, <1>31, <1>32, <1>33, <1>34
     DEF Step, PinStep, ClosureStep, CommitStep

(* So does a thread that does not move.                                    *)
LEMMA OtherThread ==
  ASSUME TypeOK, NEW t \in Threads, NEW u \in Threads \ {t},
         SnapGrows, OnlyThread(t)
  PROVE  /\ ThreadInv(u) => ThreadInv(u)'
         /\ WriteSet(u)' = WriteSet(u)
BY DEF TypeOK, OnlyThread, ThreadInv, WriteSet, SnapGrows

(* A cell that passes the check of try_lock has no owner.                  *)
LEMMA ValidIsFree ==
  ASSUME TypeOK, CellInv, NEW t \in Threads, ThreadInv(t), pc[t] # "idle",
         NEW c \in Cells, rw_valid(t, c)
  PROVE  /\ ~ Held(c) /\ FreeInv(c)
         /\ epoch_lock[c] <= thread_epoch[t]
         /\ toggle_lock_bit(epoch_lock[c]) = epoch_lock[c] + LOCK_BIT
         /\ lock_bit_set(epoch_lock[c] + LOCK_BIT)
<1>1. epoch_lock[c] <= thread_epoch[t] /\ ~ lock_bit_set(epoch_lock[c])
  BY EpochFacts
     DEF rw_valid, read_write_valid, TypeOK, ThreadInv, lock_bit_set
<1>2. ASSUME NEW u \in Threads, c \in locked[u] PROVE lock_bit_set(epoch_lock[c])
  BY <1>2 DEF CellInv, HeldInv, PublishInv
<1> QED
  BY <1>1, <1>2, EpochFacts
     DEF Held, CellInv, TypeOK, toggle_lock_bit, lock_bit_set

(* Steps that touch no EpochLock and no value keep the cell invariant.     *)
LEMMA CellQuiet ==
  ASSUME TypeOK, TypeOK', NEW t \in Threads, OnlyThread(t), Quiet(t),
         CellInv, Exclusive
  PROVE  CellInv' /\ Exclusive'
<1> USE DEF Quiet, Unwritten
<1>1. \A c \in Cells : Held(c)' = Held(c)
  BY DEF Held
<1>2. ASSUME NEW c \in Cells, ~ Held(c)' PROVE FreeInv(c)'
  BY <1>1, <1>2 DEF CellInv, FreeInv, Stable
<1>3. ASSUME NEW u \in Threads, NEW c \in locked'[u]
      PROVE  /\ pc'[u] = "publish" => PublishInv(u, c)'
             /\ pc'[u] # "publish" => HeldInv(u, c)'
  <2>1. /\ thread_epoch'[u] = thread_epoch[u] /\ write_log'[u] = write_log[u]
        /\ sync_epoch'[u] = sync_epoch[u]
        /\ pc'[u] = "publish" <=> pc[u] = "publish"
        /\ \A w \in Words : Written(u, c, w)' <=> Written(u, c, w)
    BY <1>3 DEF OnlyThread, Settled, Written
  <2>2. CASE pc[u] = "publish"
    BY <1>3, <2>1, <2>2 DEF CellInv, PublishInv, LockedEpoch
  <2>3. CASE pc[u] # "publish"
    BY <1>3, <2>1, <2>3 DEF CellInv, HeldInv, Stable, LockedEpoch
  <2> QED BY <2>1, <2>2, <2>3
<1> QED
  BY <1>2, <1>3 DEF CellInv, Exclusive

(* So does taking a free lock,                                             *)
LEMMA CellTryLock ==
  ASSUME TypeOK, NEW t \in Threads, OnlyThread(t), ThreadInv(t),
         CellInv, Exclusive, NEW d \in Cells, TryLock(t, d)
  PROVE  CellInv' /\ Exclusive'
<1>1. /\ ~ Held(d) /\ FreeInv(d) /\ epoch_lock[d] <= thread_epoch[t]
      /\ epoch_lock'[d] = epoch_lock[d] + LOCK_BIT
      /\ lock_bit_set(epoch_lock'[d])
  BY ValidIsFree DEF TryLock, rw_valid, TypeOK
<1>2. /\ UNCHANGED <<clock, value, snap, pc, thread_epoch, write_log,
                     sync_epoch, unwritten>>
      /\ \A c \in Cells \ {d} : epoch_lock'[c] = epoch_lock[c]
      /\ locked'[t] = locked[t] \cup {d}
      /\ \A u \in Threads \ {t} : locked'[u] = locked[u]
      /\ pc[t] = "lock"
  BY DEF TryLock, TypeOK, logs
<1>3. Exclusive'
  BY <1>1, <1>2 DEF Exclusive, Held
<1>4. ASSUME NEW c \in Cells, ~ Held(c)' PROVE FreeInv(c)'
  <2>1. c # d /\ ~ Held(c)
    BY <1>2, <1>4 DEF Held
  <2> QED BY <1>2, <2>1 DEF CellInv, FreeInv, Stable
<1>5. HeldInv(t, d)'
  BY <1>1, <1>2, EpochFacts
     DEF HeldInv, FreeInv, Stable, LockedEpoch, Written, TypeOK
<1>6. ASSUME NEW u \in Threads, NEW c \in locked'[u], c # d
      PROVE  /\ pc'[u] = "publish" => PublishInv(u, c)'
             /\ pc'[u] # "publish" => HeldInv(u, c)'
  <2>1. c \in locked[u] /\ c \in Cells
    <3>1. locked[u] \subseteq Cells
      BY DEF TypeOK
    <3>2. c \in locked[u]
      BY <1>2, <1>6
    <3> QED BY <3>1, <3>2
  <2>2. CASE pc[u] = "publish"
    <3>1. PublishInv(u, c)
      BY <2>1, <2>2 DEF CellInv
    <3>2. epoch_lock'[c] = epoch_lock[c]
      BY <1>2, <1>6, <2>1
    <3> QED BY <1>2, <2>2, <3>1, <3>2 DEF PublishInv, LockedEpoch
  <2>3. CASE pc[u] # "publish"
    BY <1>2, <1>6, <2>1, <2>3
       DEF CellInv, HeldInv, Stable, LockedEpoch, Written
  <2> QED BY <1>2, <2>2, <2>3
<1>7. ASSUME NEW u \in Threads, d \in locked'[u] PROVE u = t
  BY <1>1, <1>2, <1>7 DEF Held
<1> QED
  BY <1>2, <1>3, <1>4, <1>5, <1>6, <1>7 DEF CellInv

(* releasing one, by publishing or by undoing,                             *)
LEMMA CellUnlock ==
  ASSUME TypeOK, NEW t \in Threads, OnlyThread(t), ThreadInv(t), TickInv(t),
         SnapInv, CellInv, Exclusive, NEW d \in Cells,
         UnlockUndo(t, d) \/ UnlockPublish(t, d)
  PROVE  CellInv' /\ Exclusive'
<1>1. /\ UNCHANGED <<clock, value, snap, pc, thread_epoch, write_log,
                     sync_epoch, unwritten>>
      /\ \A c \in Cells \ {d} : epoch_lock'[c] = epoch_lock[c]
      /\ d \in locked[t] /\ locked'[t] = locked[t] \ {d}
      /\ \A u \in Threads \ {t} : locked'[u] = locked[u]
  BY DEF UnlockUndo, UnlockPublish, TypeOK, logs
<1>2. Exclusive'
  BY <1>1 DEF Exclusive
<1>3. \A u \in Threads : d \notin locked'[u]
  BY <1>1 DEF Exclusive
<1>4. FreeInv(d)'
  <2>1. CASE UnlockUndo(t, d)
    <3>1. HeldInv(t, d) /\ pc[t] = "undo"
      BY <1>1, <2>1 DEF CellInv, UnlockUndo
    <3>2. epoch_lock'[d] = LockedEpoch(d)
      BY <2>1, <3>1
         DEF UnlockUndo, HeldInv, LockedEpoch, toggle_lock_bit, TypeOK
    <3>3. \A w \in Words : value[d][w] = snap[clock][d][w]
      BY <3>1 DEF HeldInv, Written
    <3>4. value[d] \in [Words -> Vals] /\ snap[clock][d] \in [Words -> Vals]
      BY StmAssumption DEF TypeOK, SnapInv
    <3>5. value[d] = snap[clock][d]
      BY <3>3, <3>4
    <3>6. thread_epoch[t] \in Nat /\ thread_epoch[t] <= clock
      BY <3>1 DEF ThreadInv, SnapInv, TypeOK
    <3>7. LockedEpoch(d) <= clock
      BY <3>1, <3>6, EpochFacts DEF HeldInv, LockedEpoch, TypeOK
    <3> QED
      BY <1>1, <3>1, <3>2, <3>5, <3>7 DEF FreeInv, Stable, HeldInv
  <2>2. CASE UnlockPublish(t, d)
    <3>1. PublishInv(t, d) /\ pc[t] = "publish"
      BY <1>1, <2>2 DEF CellInv, UnlockPublish
    <3>2. epoch_lock'[d] = next(sync_epoch[t])
      BY <2>2 DEF UnlockPublish, TypeOK
    <3>3. next(sync_epoch[t]) <= clock
      BY <3>1 DEF TickInv
    <3> QED
      BY <1>1, <3>1, <3>2, <3>3 DEF FreeInv, Stable, PublishInv, SnapInv
  <2> QED BY <2>1, <2>2
<1>5. ASSUME NEW c \in Cells, c # d, ~ Held(c)' PROVE FreeInv(c)'
  <2>1. ~ Held(c)
    BY <1>1, <1>5 DEF Held
  <2> QED BY <1>1, <1>5, <2>1 DEF CellInv, FreeInv, Stable
<1>6. ASSUME NEW u \in Threads, NEW c \in locked'[u]
      PROVE  /\ pc'[u] = "publish" => PublishInv(u, c)'
             /\ pc'[u] # "publish" => HeldInv(u, c)'
  <2>1. c \in locked[u] /\ c \in Cells /\ c # d
    BY <1>1, <1>3 DEF TypeOK
  <2>2. CASE pc[u] = "publish"
    BY <1>1, <2>1, <2>2 DEF CellInv, PublishInv, LockedEpoch
  <2>3. CASE pc[u] # "publish"
    BY <1>1, <2>1, <2>3 DEF CellInv, HeldInv, Stable, LockedEpoch, Written
  <2> QED BY <1>1, <2>2, <2>3
<1> QED
  BY <1>2, <1>4, <1>5, <1>6 DEF CellInv

(* writing one word of a cell that is held,                                *)
LEMMA CellPerformWrite ==
  ASSUME TypeOK, NEW t \in Threads, ThreadInv(t), CellInv, Exclusive,
         NEW d \in Cells, NEW x \in Words, PerformWrite(t, d, x)
  PROVE  CellInv' /\ Exclusive'
<1>1. /\ UNCHANGED <<clock, epoch_lock, snap, locked, pc, thread_epoch,
                     write_log, sync_epoch>>
      /\ pc[t] = "write" /\ d \in locked[t]
      /\ \A u \in Threads \ {t} : unwritten'[u] = unwritten[u]
      /\ unwritten'[t] = unwritten[t] \ {<<d, x>>}
      /\ \A c \in Cells \ {d} : value'[c] = value[c]
      /\ \A w \in Words \ {x} : value'[d][w] = value[d][w]
      /\ value'[d][x] = write_log[t][d][x]
  BY DEF PerformWrite, TypeOK, ThreadInv, logs
<1>2. Exclusive'
  BY <1>1 DEF Exclusive
<1>3. ASSUME NEW c \in Cells, ~ Held(c)' PROVE FreeInv(c)'
  <2>1. ~ Held(c) /\ c # d
    BY <1>1, <1>3 DEF Held
  <2> QED BY <1>1, <2>1 DEF CellInv, FreeInv, Stable
<1>4. HeldInv(t, d)'
  <2>1. HeldInv(t, d)
    BY <1>1 DEF CellInv
  <2>2. \A w \in Words \ {x} : Written(t, d, w)' <=> Written(t, d, w)
    BY <1>1 DEF Written
  <2>3. Written(t, d, x)'
    BY <1>1 DEF Written
  <2> QED
    BY <1>1, <2>1, <2>2, <2>3 DEF HeldInv, Stable, LockedEpoch
<1>5. ASSUME NEW u \in Threads, NEW c \in locked[u], c # d
      PROVE  /\ pc[u] = "publish" => PublishInv(u, c)'
             /\ pc[u] # "publish" => HeldInv(u, c)'
  <2>1. c \in Cells /\ value'[c] = value[c]
    BY <1>1, <1>5 DEF TypeOK
  <2>2. CASE pc[u] = "publish"
    BY <1>1, <2>1, <2>2 DEF CellInv, PublishInv, LockedEpoch
  <2>3. CASE pc[u] # "publish"
    <3>1. \A w \in Words : Written(u, c, w)' <=> Written(u, c, w)
      BY <1>1, <1>5 DEF Written
    <3> QED
      BY <1>1, <2>1, <2>3, <3>1 DEF CellInv, HeldInv, Stable, LockedEpoch
  <2> QED BY <2>2, <2>3
<1>6. ASSUME NEW u \in Threads, d \in locked[u] PROVE u = t
  BY <1>1, <1>6 DEF Exclusive
<1> QED
  BY <1>1, <1>2, <1>3, <1>4, <1>5, <1>6 DEF CellInv

(* giving a commit its place in time,                                      *)
LEMMA CellTick ==
  ASSUME TypeOK, \A u \in Threads : ThreadInv(u) /\ TickInv(u),
         NEW t \in Threads, OnlyThread(t), SnapInv, CellInv, Exclusive,
         FetchAndTick(t)
  PROVE  CellInv' /\ Exclusive'
<1>1. /\ UNCHANGED <<epoch_lock, value, locked, thread_epoch, write_log,
                     unwritten>>
      /\ pc[t] = "tick" /\ pc'[t] = "publish" /\ sync_epoch'[t] = clock
      /\ clock' = next(clock)
      /\ locked[t] = WriteSet(t)
  BY DEF FetchAndTick, TypeOK, ThreadInv, Goto, logs
<1>2. clock \in Nat /\ next(clock) \in Nat /\ next(clock) > clock
  BY EpochFacts DEF TypeOK
<1>3. /\ DOMAIN snap' = DOMAIN snap \cup {next(clock)}
      /\ \A e \in DOMAIN snap : snap'[e] = snap[e]
      /\ \A c \in Cells : c \in locked[t] => snap'[clock'][c] = write_log[t][c]
      /\ \A c \in Cells : c \notin locked[t] => snap'[clock'][c] = snap[clock][c]
  <2>1. DOMAIN snap' = DOMAIN snap \cup {next(clock)}
    BY DEF FetchAndTick
  <2>2. \A e \in DOMAIN snap : e # next(clock) /\ snap'[e] = snap[e]
    BY <1>2 DEF FetchAndTick, SnapInv, TypeOK
  <2>3. snap'[clock'] = Overwrite(t, snap[clock])
    BY DEF FetchAndTick
  <2> QED BY <1>1, <2>1, <2>2, <2>3 DEF Overwrite, WriteSet
<1>4. Exclusive'
  BY <1>1 DEF Exclusive
<1>5. \A c \in Cells, f \in Int :
        c \notin locked[t] /\ Stable(c, f) => Stable(c, f)'
  BY <1>1, <1>3 DEF Stable
<1>6. ASSUME NEW c \in Cells, ~ Held(c)' PROVE FreeInv(c)'
  <2>1. ~ Held(c) /\ c \notin locked[t] /\ FreeInv(c)
    BY <1>1, <1>6 DEF Held, CellInv
  <2>2. epoch_lock[c] \in Nat
    BY DEF TypeOK
  <2> QED BY <1>1, <1>2, <1>3, <1>5, <2>1, <2>2 DEF FreeInv
<1>7. ASSUME NEW c \in locked[t] PROVE PublishInv(t, c)'
  <2>1. HeldInv(t, c) /\ c \in Cells /\ write_log[t][c] \in [Words -> Vals]
    BY <1>1, StmAssumption DEF CellInv, TypeOK, WriteSet
  <2>2. \A w \in Words : value[c][w] = write_log[t][c][w]
    BY <1>1, <2>1 DEF HeldInv, Written
  <2>3. value[c] = write_log[t][c]
    BY <2>1, <2>2 DEF TypeOK
  <2>4. LockedEpoch(c) \in Int /\ LockedEpoch(c) <= clock
    <3>1. thread_epoch[t] \in Nat /\ thread_epoch[t] <= clock
      BY <1>1 DEF ThreadInv, SnapInv, TypeOK
    <3>2. epoch_lock[c] \in Nat
      BY <2>1 DEF TypeOK
    <3> QED BY <1>2, <2>1, <3>1, <3>2, EpochFacts DEF HeldInv, LockedEpoch
  <2>5. \A e \in DOMAIN snap' : e >= next(clock) => snap'[e][c] = write_log[t][c]
    BY <1>1, <1>2, <1>3, <2>1 DEF SnapInv, TypeOK
  <2> QED
    BY <1>1, <2>1, <2>3, <2>4, <2>5 DEF PublishInv, HeldInv, LockedEpoch
<1>8. ASSUME NEW u \in Threads \ {t}, NEW c \in locked[u]
      PROVE  /\ pc'[u] = "publish" => PublishInv(u, c)'
             /\ pc'[u] # "publish" => HeldInv(u, c)'
  <2>1. /\ c \in Cells /\ c \notin locked[t]
        /\ pc'[u] = pc[u] /\ sync_epoch'[u] = sync_epoch[u]
    BY <1>8 DEF TypeOK, Exclusive, OnlyThread
  <2>2. CASE pc[u] = "publish"
    <3>1. PublishInv(u, c) /\ next(sync_epoch[u]) <= clock
      BY <1>8, <2>2 DEF CellInv, TickInv
    <3>2. snap'[clock'][c] = write_log[u][c]
      BY <1>3, <2>1, <3>1 DEF PublishInv, SnapInv
    <3>3. \A e \in DOMAIN snap' :
            e >= next(sync_epoch[u]) => snap'[e][c] = write_log[u][c]
      BY <1>1, <1>3, <3>1, <3>2 DEF PublishInv
    <3> QED
      BY <1>1, <2>1, <2>2, <3>1, <3>3 DEF PublishInv, LockedEpoch
  <2>3. CASE pc[u] # "publish"
    <3>1. HeldInv(u, c) /\ LockedEpoch(c) \in Int
      BY <1>8, <2>1, <2>3, EpochFacts DEF CellInv, LockedEpoch, TypeOK
    <3>2. \A w \in Words : Written(u, c, w)' <=> Written(u, c, w)
      BY <1>1, <2>1 DEF Written
    <3> QED
      BY <1>1, <1>3, <1>5, <2>1, <2>3, <3>1, <3>2 DEF HeldInv, LockedEpoch
  <2> QED BY <2>1, <2>2, <2>3
<1> QED
  BY <1>1, <1>4, <1>6, <1>7, <1>8 DEF CellInv

(* and doing it all in one hardware transaction.                           *)
LEMMA CellHard ==
  ASSUME TypeOK, NEW t \in Threads, OnlyThread(t), ThreadInv(t),
         CellInv, Exclusive, CommitHard(t)
  PROVE  CellInv' /\ Exclusive'
<1>1. /\ UNCHANGED <<clock, snap, thread_epoch, write_log, sync_epoch, unwritten>>
      /\ pc[t] = "commit" /\ pc'[t] = "tick"
      /\ locked[t] = {} /\ locked'[t] = WriteSet(t)
      /\ \A c \in Cells \ WriteSet(t) : /\ epoch_lock'[c] = epoch_lock[c]
                                        /\ value'[c] = value[c]
  BY DEF CommitHard, TypeOK, ThreadInv, Locking, Goto, logs
<1>2. ASSUME NEW c \in WriteSet(t)
      PROVE  /\ ~ Held(c) /\ FreeInv(c) /\ epoch_lock[c] <= thread_epoch[t]
             /\ epoch_lock'[c] = epoch_lock[c] + LOCK_BIT
             /\ lock_bit_set(epoch_lock'[c])
             /\ value'[c] = write_log[t][c]
  <2>1. c \in Cells /\ rw_valid(t, c)
    BY DEF CommitHard, WriteSet, rw_valid
  <2>2. /\ epoch_lock'[c] = toggle_lock_bit(epoch_lock[c])
        /\ value'[c] = write_log[t][c]
    BY <2>1 DEF CommitHard
  <2> QED BY <1>1, <2>1, <2>2, ValidIsFree
<1>3. Exclusive'
  <2>1. ASSUME NEW u \in Threads \ {t} PROVE locked'[t] \cap locked'[u] = {}
    BY <1>1, <1>2 DEF OnlyThread, Held
  <2> QED BY <2>1 DEF Exclusive, OnlyThread
<1>4. ASSUME NEW c \in Cells, ~ Held(c)' PROVE FreeInv(c)'
  <2>1. ~ Held(c) /\ c \notin WriteSet(t)
    BY <1>1, <1>4 DEF Held, OnlyThread
  <2> QED BY <1>1, <2>1 DEF CellInv, FreeInv, Stable
<1>5. ASSUME NEW c \in WriteSet(t) PROVE HeldInv(t, c)'
  <2>1. c \in Cells /\ epoch_lock[c] \in Nat
    BY DEF WriteSet, TypeOK
  <2>2. LockedEpoch(c)' = epoch_lock[c]
    BY <1>2, <2>1, EpochFacts DEF LockedEpoch
  <2>3. \A w \in Words : Written(t, c, w)'
    BY <1>1 DEF Written
  <2> QED BY <1>1, <1>2, <2>1, <2>2, <2>3 DEF HeldInv, FreeInv, Stable
<1>6. ASSUME NEW u \in Threads \ {t}, NEW c \in locked'[u]
      PROVE  /\ pc'[u] = "publish" => PublishInv(u, c)'
             /\ pc'[u] # "publish" => HeldInv(u, c)'
  <2>1. /\ pc'[u] = pc[u] /\ c \in locked[u] /\ c \in Cells
        /\ c \notin WriteSet(t)
    BY <1>2, <1>6 DEF OnlyThread, TypeOK, Held
  <2>2. epoch_lock'[c] = epoch_lock[c] /\ value'[c] = value[c]
    BY <1>1, <2>1
  <2>3. CASE pc[u] = "publish"
    BY <1>1, <2>1, <2>2, <2>3 DEF CellInv, PublishInv, LockedEpoch
  <2>4. CASE pc[u] # "publish"
    <3>1. \A w \in Words : Written(u, c, w)' <=> Written(u, c, w)
      BY <1>1, <2>1 DEF Written
    <3> QED
      BY <1>1, <2>1, <2>2, <2>4, <3>1 DEF CellInv, HeldInv, Stable, LockedEpoch
  <2> QED BY <2>1, <2>3, <2>4
<1> QED
  BY <1>1, <1>3, <1>4, <1>5, <1>6 DEF CellInv

(* Hence every step does.                                                  *)
LEMMA CellStep ==
  ASSUME IInv, NEW t \in Threads, Step(t)
  PROVE  CellInv' /\ Exclusive'
<1> USE DEF IInv
<1>1. OnlyThread(t) /\ TypeOK'
  BY Frame, TypeStep
<1> QED
  BY <1>1, QuietStep, CellQuiet, CellTryLock, CellUnlock, CellPerformWrite,
     CellTick, CellHard

-----------------------------------------------------------------------------
(* Doomed copies.                                                          *)

(* What is doomed stays so for as long as its reader stays pinned.         *)
LEMMA DoomedStep ==
  ASSUME IInv, NEW t \in Threads, Step(t),
         NEW u \in Threads, pc[u] # "idle", thread_epoch'[u] = thread_epoch[u],
         NEW c \in Cells, Doomed(u, c)
  PROVE  Doomed(u, c)'
<1> USE DEF IInv
<1>1. OnlyThread(t) /\ \A v \in Threads \ {t} : locked'[v] = locked[v]
  BY Frame DEF OnlyThread
<1>2. /\ epoch_lock[c] \in Nat /\ LOCK_BIT \in Nat /\ clock \in Nat
      /\ thread_epoch[u] \in Nat /\ thread_epoch[u] <= clock
  BY EpochFacts DEF TypeOK, ThreadInv, SnapInv
<1>3. CASE Quiet(t)
  <2>1. Held(c)' = Held(c) /\ epoch_lock' = epoch_lock /\ locked' = locked
    BY <1>3 DEF Quiet, Unwritten, Held
  <2>2. CASE ~ Held(c)
    BY <2>1, <2>2 DEF Doomed, Held
  <2>3. CASE Held(c)
    <3>1. PICK v \in Threads \ {u} :
            /\ c \in locked[v]
            /\ \/ pc[v] \in {"write", "tick"}
               \/ pc[v] = "publish" /\ next(sync_epoch[v]) > thread_epoch[u]
               \/ LockedEpoch(c) > thread_epoch[u]
      BY <2>3 DEF Doomed
    <3>2. /\ pc[v] \in {"write", "tick"} => pc'[v] \in {"write", "tick"}
          /\ pc[v] = "publish" =>
               pc'[v] = "publish" /\ sync_epoch'[v] = sync_epoch[v]
      BY <1>1, <1>3, <3>1 DEF OnlyThread, Quiet, Settled
    <3> QED BY <2>1, <3>1, <3>2 DEF Doomed, LockedEpoch
  <2> QED BY <2>2, <2>3
<1>4. ASSUME NEW d \in Cells, TryLock(t, d) PROVE Doomed(u, c)'
  <2>1. /\ ~ Held(d) /\ epoch_lock[d] <= thread_epoch[t]
        /\ epoch_lock'[d] = epoch_lock[d] + LOCK_BIT
        /\ UNCHANGED <<pc, sync_epoch>> /\ locked'[t] = locked[t] \cup {d}
    BY <1>4, ValidIsFree DEF TryLock, rw_valid, TypeOK
  <2>2. CASE c = d
    <3>1. epoch_lock[c] > thread_epoch[u]
      BY <2>1, <2>2 DEF Doomed, Held
    <3>2. u # t
      BY <1>2, <2>1, <2>2, <3>1
    <3>3. LockedEpoch(c)' > thread_epoch[u]
      BY <1>2, <2>1, <2>2, <3>1 DEF LockedEpoch
    <3> QED BY <2>1, <2>2, <3>2, <3>3 DEF Doomed
  <2>3. CASE c # d
    <3>1. epoch_lock'[c] = epoch_lock[c]
      BY <1>4, <2>3 DEF TryLock, TypeOK
    <3>2. \A v \in Threads : c \in locked'[v] <=> c \in locked[v]
      BY <1>1, <2>1, <2>3
    <3> QED BY <2>1, <3>1, <3>2 DEF Doomed, Held, LockedEpoch
  <2> QED BY <2>2, <2>3
<1>5. ASSUME NEW d \in Cells, UnlockUndo(t, d) \/ UnlockPublish(t, d)
      PROVE  Doomed(u, c)'
  <2>1. /\ UNCHANGED <<pc, sync_epoch>> /\ d \in locked[t]
        /\ locked'[t] = locked[t] \ {d}
    BY <1>5 DEF UnlockUndo, UnlockPublish, TypeOK
  <2>2. CASE c = d
    <3>1. ~ Held(c)'
      BY <1>1, <2>1, <2>2 DEF Held, Exclusive
    <3>2. \A v \in Threads : c \in locked[v] => v = t
      BY <2>1, <2>2 DEF Exclusive
    <3>3. \/ pc[t] \in {"write", "tick"}
          \/ pc[t] = "publish" /\ next(sync_epoch[t]) > thread_epoch[u]
          \/ LockedEpoch(c) > thread_epoch[u]
      BY <2>1, <2>2, <3>2 DEF Doomed, Held
    <3>4. CASE UnlockUndo(t, d)
      <4>1. pc[t] = "undo" /\ lock_bit_set(epoch_lock[c])
        BY <2>1, <2>2, <3>4 DEF UnlockUndo, CellInv, HeldInv
      <4>2. epoch_lock'[c] = LockedEpoch(c)
        BY <2>2, <3>4, <4>1 DEF UnlockUndo, toggle_lock_bit, LockedEpoch, TypeOK
      <4> QED BY <3>1, <3>3, <4>1, <4>2 DEF Doomed
    <3>5. CASE UnlockPublish(t, d)
      <4>1. pc[t] = "publish" /\ LockedEpoch(c) <= sync_epoch[t]
        BY <2>1, <2>2, <3>5 DEF UnlockPublish, CellInv, PublishInv
      <4>2. epoch_lock'[c] = next(sync_epoch[t])
        BY <2>2, <3>5 DEF UnlockPublish, TypeOK
      <4>3. sync_epoch[t] \in Nat
        BY DEF TypeOK
      <4>4. next(sync_epoch[t]) > thread_epoch[u]
        BY <1>2, <3>3, <4>1, <4>3, EpochFacts DEF LockedEpoch
      <4> QED BY <3>1, <4>2, <4>4 DEF Doomed
    <3> QED BY <1>5, <3>4, <3>5
  <2>3. CASE c # d
    <3>1. epoch_lock'[c] = epoch_lock[c]
      BY <1>5, <2>3 DEF UnlockUndo, UnlockPublish, TypeOK
    <3>2. \A v \in Threads : c \in locked'[v] <=> c \in locked[v]
      BY <1>1, <2>1, <2>3
    <3> QED BY <2>1, <3>1, <3>2 DEF Doomed, Held, LockedEpoch
  <2> QED BY <2>2, <2>3
<1>6. ASSUME NEW d \in Cells, NEW w \in Words, PerformWrite(t, d, w)
      PROVE  Doomed(u, c)'
  BY <1>6 DEF PerformWrite, Doomed, Held, LockedEpoch
<1>7. CASE FetchAndTick(t)
  <2>1. /\ UNCHANGED <<epoch_lock, locked>>
        /\ pc'[t] = "publish" /\ sync_epoch'[t] = clock
        /\ next(clock) > thread_epoch[u]
        /\ \A v \in Threads \ {t} :
             pc'[v] = pc[v] /\ sync_epoch'[v] = sync_epoch[v]
    BY <1>2, <1>7, EpochFacts DEF FetchAndTick, Goto, TypeOK
  <2> QED BY <2>1 DEF Doomed, Held, LockedEpoch
<1>8. CASE CommitHard(t)
  <2>1. /\ pc'[t] = "tick" /\ pc[t] = "commit" /\ locked[t] = {}
        /\ locked'[t] = WriteSet(t)
        /\ \A v \in Threads \ {t} :
             pc'[v] = pc[v] /\ sync_epoch'[v] = sync_epoch[v]
    BY <1>8 DEF CommitHard, ThreadInv, Locking, Goto, TypeOK
  <2>2. CASE c \in WriteSet(t)
    <3>1. ~ Held(c) /\ epoch_lock[c] <= thread_epoch[t]
      BY <1>8, <2>1, <2>2, ValidIsFree DEF CommitHard, rw_valid
    <3>2. u # t
      BY <1>2, <3>1 DEF Doomed, Held
    <3> QED BY <2>1, <2>2, <3>2 DEF Doomed
  <2>3. CASE c \notin WriteSet(t)
    <3>1. epoch_lock'[c] = epoch_lock[c]
      BY <1>8, <2>3 DEF CommitHard
    <3>2. \A v \in Threads : c \in locked'[v] <=> c \in locked[v]
      BY <1>1, <2>1, <2>3
    <3> QED BY <2>1, <3>1, <3>2 DEF Doomed, Held, LockedEpoch
  <2> QED BY <2>2, <2>3
<1> QED
  BY <1>3, <1>4, <1>5, <1>6, <1>7, <1>8, QuietStep

(* A word copied at any moment is right, or the copy is doomed.            *)
LEMMA CopyIsRight ==
  ASSUME IInv, NEW t \in Threads, pc[t] # "idle", locked[t] = {},
         NEW c \in Cells, NEW w \in Words
  PROVE  value[c][w] = snap[thread_epoch[t]][c][w] \/ Doomed(t, c)
<1> USE DEF IInv
<1>1. /\ thread_epoch[t] \in DOMAIN snap /\ thread_epoch[t] \in Nat
      /\ epoch_lock[c] \in Nat /\ LOCK_BIT \in Nat
  BY EpochFacts DEF ThreadInv, TypeOK
<1>2. CASE ~ Held(c)
  BY <1>1, <1>2 DEF CellInv, FreeInv, Stable, Doomed
<1>3. ASSUME NEW u \in Threads, c \in locked[u], pc[u] = "publish"
      PROVE  value[c][w] = snap[thread_epoch[t]][c][w] \/ Doomed(t, c)
  <2>1. PublishInv(u, c) /\ u # t
    BY <1>3 DEF CellInv
  <2>2. sync_epoch[u] \in Nat /\ next(sync_epoch[u]) \in Nat
    BY EpochFacts DEF TypeOK
  <2> QED BY <1>1, <1>3, <2>1, <2>2 DEF PublishInv, Doomed
<1>4. ASSUME NEW u \in Threads, c \in locked[u], pc[u] # "publish"
      PROVE  value[c][w] = snap[thread_epoch[t]][c][w] \/ Doomed(t, c)
  <2>1. HeldInv(u, c) /\ u # t
    BY <1>4 DEF CellInv
  <2>2. CASE Written(u, c, w)
    BY <1>4, <2>1, <2>2 DEF Written, Doomed
  <2>3. CASE LockedEpoch(c) > thread_epoch[t]
    BY <1>4, <2>1, <2>3 DEF Doomed
  <2>4. CASE ~ Written(u, c, w) /\ thread_epoch[t] >= LockedEpoch(c)
    BY <1>1, <2>1, <2>4 DEF HeldInv, Stable
  <2> QED BY <1>1, <2>2, <2>3, <2>4 DEF LockedEpoch
<1> QED
  BY <1>2, <1>3, <1>4 DEF Held

(* A check that succeeds, or a lock, saves from doom.                      *)
LEMMA ValidIsNotDoomed ==
  ASSUME IInv, NEW t \in Threads, pc[t] # "idle", NEW c \in Cells
  PROVE  /\ rw_valid(t, c) => ~ Doomed(t, c)
         /\ c \in locked[t] => ~ Doomed(t, c)
<1> USE DEF IInv
<1>1. epoch_lock[c] \in Nat /\ thread_epoch[t] \in Nat
  BY DEF TypeOK
<1>2. ASSUME rw_valid(t, c) PROVE ~ Doomed(t, c)
  BY <1>1, <1>2, ValidIsFree DEF Doomed, Held
<1>3. ASSUME c \in locked[t] PROVE ~ Doomed(t, c)
  BY <1>3 DEF Doomed, Held, Exclusive
<1> QED BY <1>2, <1>3

-----------------------------------------------------------------------------
(* What a thread has copied, borrowed and queued for destruction.          *)

Fresh(t) ==
  /\ reads'[t] = NoEntries /\ write_log'[t] = NoEntries
  /\ garbage'[t] = NoEntries
  /\ pc'[t] \notin {"load", "dispose", "publish"}

SameLogs(t) ==
  /\ reads'[t] = reads[t] /\ garbage'[t] = garbage[t]
  /\ WriteSet(t)' = WriteSet(t)
  /\ thread_epoch'[t] = thread_epoch[t]
  /\ pc[t] \notin {"idle", "dispose"}
  /\ pc'[t] \notin {"load", "dispose", "publish"}

(* All but eight steps throw the logs away, or add nothing to them.        *)
LEMMA LogKinds ==
  ASSUME TypeOK, NEW t \in Threads, ThreadInv(t), Step(t)
  PROVE  \/ Fresh(t) \/ SameLogs(t)
         \/ DisposeOld(t) \/ BorrowSlow(t) \/ FetchAndTick(t)
         \/ \E c \in Cells : \/ BorrowShared(t, c) \/ UnlockPublish(t, c)
                             \/ \E v \in CellVals : SetNew(t, c, v)
         \/ \E w \in Words : LoadWord(t, w)
         \/ \E logged \in BOOLEAN : BorrowOk(t, logged)
<1> USE StmAssumption
        DEF TypeOK, ThreadInv, Fresh, SameLogs, WriteSet, shared, logs,
            borrowing, committing, Goto
<1>1. ASSUME NEW m \in {"read", "rw"}, TryPin(t, m) PROVE Fresh(t) \/ SameLogs(t)
  BY <1>1 DEF TryPin
<1>2. CASE Repin(t)
  BY <1>2 DEF Repin
<1>3. CASE ClockOverflow(t)
  BY <1>3 DEF ClockOverflow
<1>4. ASSUME NEW c \in Cells, BorrowPending(t, c) PROVE Fresh(t) \/ SameLogs(t)
  BY <1>4 DEF BorrowPending
<1>5. ASSUME NEW c \in Cells, SetConflict(t, c) PROVE Fresh(t) \/ SameLogs(t)
  BY <1>5 DEF SetConflict
<1>6. ASSUME NEW c \in Cells, NEW v \in CellVals, SetAgain(t, c, v) PROVE Fresh(t) \/ SameLogs(t)
  BY <1>6 DEF SetAgain
<1>7. CASE BorrowConflict(t)
  BY <1>7 DEF BorrowConflict
<1>8. CASE ReturnConflict(t)
  BY <1>8 DEF ReturnConflict, FailAttempt, ClearLogs
<1>9. CASE IgnoreConflict(t)
  BY <1>9 DEF IgnoreConflict
<1>10. CASE Panic(t)
  BY <1>10 DEF Panic, Unpin, ClearLogs
<1>11. CASE FinishNoWrites(t)
  <2>1. \A c \in Cells : write_log[t][c] = None /\ garbage[t][c] = None
    BY <1>11 DEF FinishNoWrites
  <2> QED BY <1>11, <2>1 DEF FinishNoWrites, Unpin, NoEntries
<1>12. CASE Commit(t)
  BY <1>12 DEF Commit
<1>13. CASE CommitHard(t)
  BY <1>13 DEF CommitHard
<1>14. CASE CommitHardFails(t)
  BY <1>14 DEF CommitHardFails, FailAttempt, ClearLogs
<1>15. CASE CommitSoft(t)
  BY <1>15 DEF CommitSoft
<1>16. CASE TryLockFails(t)
  BY <1>16 DEF TryLockFails
<1>17. CASE AllLocked(t)
  BY <1>17 DEF AllLocked
<1>18. CASE ValidationSuccess(t)
  BY <1>18 DEF ValidationSuccess
<1>19. ASSUME NEW c \in Cells, TryLock(t, c) PROVE Fresh(t) \/ SameLogs(t)
  BY <1>19 DEF TryLock
<1>20. ASSUME NEW c \in Cells, ValidateRead(t, c) PROVE Fresh(t) \/ SameLogs(t)
  BY <1>20 DEF ValidateRead
<1>21. ASSUME NEW c \in Cells, ValidationFailure(t, c) PROVE Fresh(t) \/ SameLogs(t)
  BY <1>21 DEF ValidationFailure
<1>22. ASSUME NEW c \in Cells, UnlockUndo(t, c) PROVE Fresh(t) \/ SameLogs(t)
  BY <1>22 DEF UnlockUndo
<1>23. ASSUME NEW c \in Cells, NEW w \in Words, PerformWrite(t, c, w) PROVE Fresh(t) \/ SameLogs(t)
  BY <1>23 DEF PerformWrite
<1>24. CASE WritesPerformed(t)
  BY <1>24 DEF WritesPerformed
<1>25. CASE CommitDone(t)
  BY <1>25 DEF CommitDone, Unpin, ClearLogs
<1>26. CASE CommitFails(t)
  BY <1>26 DEF CommitFails, FailAttempt, ClearLogs
<1> QED
  BY <1>1, <1>2, <1>3, <1>4, <1>5, <1>6, <1>7, <1>8, <1>9, <1>10, <1>11,
     <1>12, <1>13, <1>14, <1>15, <1>16, <1>17, <1>18, <1>19, <1>20,
     <1>21, <1>22, <1>23, <1>24, <1>25, <1>26
     DEF Step, PinStep, ClosureStep, CommitStep

(* A copy in progress stays right or doomed.                               *)
LEMMA BufStep ==
  ASSUME IInv, NEW t \in Threads, Step(t)
  PROVE  BufInv(t)'
<1> USE DEF IInv
<1>1. SnapGrows
  BY SnapStep
<1>2. ASSUME pc'[t] \notin {"load", "dispose"} PROVE BufInv(t)'
  BY <1>2 DEF BufInv
<1>3. ASSUME buf'[t] = NoWords PROVE BufInv(t)'
  BY <1>3 DEF BufInv, NoWords
<1>4. ASSUME NEW c \in Cells, NEW v \in CellVals,
             BorrowShared(t, c) \/ SetNew(t, c, v)
      PROVE  BufInv(t)'
  BY <1>3, <1>4 DEF BorrowShared, SetNew, ThreadInv
<1>5. CASE BorrowSlow(t)
  BY <1>3, <1>5 DEF BorrowSlow, TypeOK
<1>6. ASSUME NEW w \in Words, LoadWord(t, w) PROVE BufInv(t)'
  <2>1. /\ pc[t] \in {"load", "dispose"} /\ locked[t] = {}
        /\ cursor[t] \in Cells
    BY <1>6 DEF LoadWord, ThreadInv, Locking
  <2>2. /\ UNCHANGED <<value, snap, thread_epoch, cursor, pc>>
        /\ buf'[t][w] = value[cursor[t]][w]
        /\ \A x \in Words \ {w} : buf'[t][x] = buf[t][x]
    BY <1>6 DEF LoadWord, TypeOK, shared
  <2>3. \A x \in Words : \/ buf'[t][x] = None
                         \/ buf'[t][x] = snap[thread_epoch[t]][cursor[t]][x]
                         \/ Doomed(t, cursor[t])
    BY <2>1, <2>2, CopyIsRight DEF BufInv
  <2>4. Doomed(t, cursor[t]) => Doomed(t, cursor[t])'
    <3>1. UNCHANGED <<epoch_lock, locked, sync_epoch>>
      BY <1>6 DEF LoadWord, shared, committing
    <3> QED BY <2>2, <3>1 DEF Doomed, Held, LockedEpoch
  <2> QED BY <2>2, <2>3, <2>4 DEF BufInv
<1>7. ASSUME NEW logged \in BOOLEAN, BorrowOk(t, logged) PROVE BufInv(t)'
  BY <1>2, <1>7 DEF BorrowOk, Goto, TypeOK
<1>8. CASE DisposeOld(t) \/ FetchAndTick(t)
  BY <1>2, <1>8 DEF DisposeOld, FetchAndTick, Goto, TypeOK
<1>9. ASSUME NEW c \in Cells, UnlockPublish(t, c) PROVE BufInv(t)'
  BY <1>2, <1>9 DEF UnlockPublish
<1> QED
  BY <1>2, <1>4, <1>5, <1>6, <1>7, <1>8, <1>9, LogKinds, StmAssumption
     DEF Fresh, SameLogs

(* So does the value that a set has queued for destruction.                *)
LEMMA GarbageStep ==
  ASSUME IInv, NEW t \in Threads, Step(t)
  PROVE  GarbageInv(t)'
<1> USE DEF IInv
<1>1. SnapGrows
  BY SnapStep
(* Entries that stay are as right, or as doomed, as they were.             *)
<1>2. ASSUME NEW c \in Cells, garbage'[t][c] = garbage[t][c],
             thread_epoch'[t] = thread_epoch[t], garbage[t][c] # None
      PROVE  garbage'[t][c] = snap[thread_epoch[t]]'[c] \/ Doomed(t, c)'
  <2>1. pc[t] # "idle" /\ thread_epoch[t] \in DOMAIN snap
    BY <1>2 DEF ThreadInv, NoEntries
  <2>2. garbage[t][c] = snap[thread_epoch[t]][c] \/ Doomed(t, c)
    BY <1>2 DEF GarbageInv
  <2> QED BY <1>1, <1>2, <2>1, <2>2, DoomedStep DEF SnapGrows
<1>3. CASE Fresh(t)
  BY <1>3 DEF Fresh, GarbageInv, NoEntries, WriteSet
<1>4. ASSUME garbage'[t] = garbage[t], thread_epoch'[t] = thread_epoch[t],
             WriteSet(t)' = WriteSet(t),
             pc[t] = "dispose" => pc'[t] = "dispose" /\ cursor'[t] = cursor[t]
      PROVE  GarbageInv(t)'
  BY <1>2, <1>4 DEF GarbageInv
<1>5. CASE DisposeOld(t)
  <2>1. PICK d \in Cells : d = cursor[t]
    BY <1>5 DEF DisposeOld, ThreadInv
  <2>2. /\ pc[t] = "dispose" /\ thread_epoch[t] \in DOMAIN snap
        /\ UNCHANGED <<snap, thread_epoch, write_log>>
        /\ garbage'[t][d] = buf[t]
        /\ \A c \in Cells \ {d} : garbage'[t][c] = garbage[t][c]
    BY <1>5, <2>1 DEF DisposeOld, ThreadInv, TypeOK, shared
  <2>3. buf[t] \in [Words -> Vals] /\ buf[t] # None
    BY <1>5, StmAssumption DEF DisposeOld, Loaded, TypeOK
  <2>4. buf[t] = snap[thread_epoch[t]][d] \/ Doomed(t, d)'
    <3>1. CASE Doomed(t, d)
      BY <2>2, <3>1, DoomedStep
    <3>2. CASE ~ Doomed(t, d)
      <4>1. \A w \in Words : buf[t][w] = snap[thread_epoch[t]][d][w]
        BY <1>5, <2>1, <2>2, <3>2 DEF DisposeOld, Loaded, BufInv
      <4>2. snap[thread_epoch[t]][d] \in [Words -> Vals]
        BY <2>2, StmAssumption DEF TypeOK
      <4> QED BY <2>3, <4>1, <4>2
    <3> QED BY <3>1, <3>2
  <2>5. ASSUME NEW c \in Cells
        PROVE  /\ garbage'[t][c] # None =>
                    \/ garbage'[t][c] = snap[thread_epoch[t]]'[c]
                    \/ Doomed(t, c)'
               /\ c \in WriteSet(t)' => garbage'[t][c] # None
    <3>1. CASE c = d
      BY <2>2, <2>3, <2>4, <3>1
    <3>2. CASE c # d
      BY <1>2, <2>1, <2>2, <3>2 DEF GarbageInv, WriteSet
    <3> QED BY <3>1, <3>2
  <2> QED BY <2>5 DEF GarbageInv
<1>6. ASSUME NEW d \in Cells, NEW v \in CellVals, SetNew(t, d, v)
      PROVE  GarbageInv(t)'
  <2>1. /\ UNCHANGED <<garbage, thread_epoch>>
        /\ pc[t] = "run" /\ pc'[t] = "dispose" /\ cursor'[t] = d
        /\ \A c \in Cells \ {d} : write_log'[t][c] = write_log[t][c]
    BY <1>6 DEF SetNew, Goto, TypeOK
  <2> QED BY <1>2, <2>1 DEF GarbageInv, WriteSet
<1>7. CASE BorrowSlow(t) \/ FetchAndTick(t)
  BY <1>4, <1>7 DEF BorrowSlow, FetchAndTick, WriteSet, logs
<1>8. ASSUME NEW c \in Cells, BorrowShared(t, c) \/ UnlockPublish(t, c)
      PROVE  GarbageInv(t)'
  BY <1>4, <1>8 DEF BorrowShared, UnlockPublish, WriteSet, logs
<1>9. ASSUME NEW logged \in BOOLEAN, BorrowOk(t, logged) PROVE GarbageInv(t)'
  BY <1>4, <1>9 DEF BorrowOk, WriteSet
<1>10. ASSUME NEW w \in Words, LoadWord(t, w) PROVE GarbageInv(t)'
  BY <1>4, <1>10 DEF LoadWord, WriteSet, logs
<1>11. CASE SameLogs(t)
  BY <1>4, <1>11 DEF SameLogs
<1> QED
  BY <1>3, <1>5, <1>6, <1>7, <1>8, <1>9, <1>10, <1>11, LogKinds

(* A commit keeps its place in time until everything is published.         *)
LEMMA TickStep ==
  ASSUME IInv, NEW t \in Threads, Step(t)
  PROVE  TickInv(t)'
<1> USE DEF IInv
<1>1. CASE pc'[t] # "publish"
  BY <1>1 DEF TickInv
<1>2. CASE FetchAndTick(t)
  <2>1. /\ UNCHANGED <<garbage, thread_epoch, write_log>> /\ pc[t] = "tick"
        /\ sync_epoch'[t] = clock /\ clock' = next(clock)
    BY <1>2 DEF FetchAndTick, TypeOK, logs
  <2>2. SnapGrows /\ clock \in DOMAIN snap /\ clock \in Nat
    BY SnapStep DEF SnapInv, TypeOK
  <2>3. /\ thread_epoch[t] \in DOMAIN snap /\ thread_epoch[t] \in Nat
        /\ thread_epoch[t] <= clock
    BY <2>1 DEF ThreadInv, SnapInv, TypeOK
  <2>4. ASSUME NEW c \in WriteSet(t) PROVE garbage[t][c] = snap[clock][c]
    <3>1. c \in Cells /\ c \in locked[t] /\ garbage[t][c] # None
      BY <2>1 DEF WriteSet, ThreadInv, GarbageInv
    <3>2. garbage[t][c] = snap[thread_epoch[t]][c]
      BY <2>1, <3>1, ValidIsNotDoomed DEF GarbageInv
    <3>3. HeldInv(t, c)
      BY <2>1, <3>1 DEF CellInv
    <3> QED
      BY <2>3, <3>2, <3>3 DEF HeldInv, Stable
  <2>5. next(clock) \in Nat
    BY <2>2, EpochFacts
  <2> QED
    BY <2>1, <2>2, <2>3, <2>4, <2>5 DEF TickInv, SnapGrows, WriteSet
<1>3. ASSUME NEW c \in Cells, UnlockPublish(t, c) PROVE TickInv(t)'
  BY <1>3 DEF UnlockPublish, TickInv, WriteSet, logs
<1>4. ASSUME NEW w \in Words, LoadWord(t, w) PROVE TickInv(t)'
  BY <1>1, <1>4 DEF LoadWord
<1>5. ASSUME NEW logged \in BOOLEAN, BorrowOk(t, logged) PROVE TickInv(t)'
  BY <1>1, <1>5 DEF BorrowOk, Goto, TypeOK
<1>6. ASSUME NEW c \in Cells, NEW v \in CellVals,
             BorrowShared(t, c) \/ SetNew(t, c, v)
      PROVE  TickInv(t)'
  BY <1>1, <1>6 DEF BorrowShared, SetNew, Goto, TypeOK
<1>7. CASE DisposeOld(t) \/ BorrowSlow(t)
  BY <1>1, <1>7 DEF DisposeOld, BorrowSlow, Goto, TypeOK
<1> QED
  BY <1>1, <1>2, <1>3, <1>4, <1>5, <1>6, <1>7, LogKinds, StmAssumption
     DEF Fresh, SameLogs

(* What the closure is given is right, and stays right.                    *)
LEMMA OpacityStep ==
  ASSUME IInv, NEW t \in Threads, Step(t)
  PROVE  Opacity'
<1> USE DEF IInv
<1>1. SnapGrows /\ OnlyThread(t)
  BY SnapStep, Frame
<1>2. ASSUME NEW u \in Threads, NEW c \in Cells, reads'[u][c] # None,
             reads'[u][c] = reads[u][c], thread_epoch'[u] = thread_epoch[u]
      PROVE  reads'[u][c] = snap'[thread_epoch'[u]][c]
  <2>1. thread_epoch[u] \in DOMAIN snap
    BY <1>2 DEF ThreadInv, NoEntries
  <2> QED BY <1>1, <1>2, <2>1 DEF Opacity, SnapGrows
<1>3. ASSUME NEW u \in Threads \ {t}, NEW c \in Cells, reads'[u][c] # None
      PROVE  reads'[u][c] = snap'[thread_epoch'[u]][c]
  BY <1>1, <1>2, <1>3 DEF OnlyThread
<1>4. ASSUME NEW c \in Cells, reads'[t][c] # None
      PROVE  reads'[t][c] = snap'[thread_epoch'[t]][c]
  <2>1. CASE Fresh(t)
    BY <1>4, <2>1 DEF Fresh, NoEntries
  <2>2. CASE UNCHANGED <<reads, thread_epoch>>
    BY <1>2, <1>4, <2>2
  <2>3. CASE SameLogs(t)
    BY <1>2, <1>4, <2>3 DEF SameLogs
  <2>4. ASSUME NEW logged \in BOOLEAN, BorrowOk(t, logged)
        PROVE  reads'[t][c] = snap'[thread_epoch'[t]][c]
    <3>1. PICK d \in Cells : d = cursor[t]
      BY <2>4 DEF BorrowOk, ThreadInv
    <3>2. /\ pc[t] = "load" /\ thread_epoch[t] \in DOMAIN snap
          /\ UNCHANGED <<snap, thread_epoch>>
          /\ reads'[t][d] = buf[t] /\ rw_valid(t, d)
          /\ c # d => reads'[t][c] = reads[t][c]
      BY <2>4, <3>1 DEF BorrowOk, ThreadInv, TypeOK, shared
    <3>3. ~ Doomed(t, d)
      BY <3>2, ValidIsNotDoomed
    <3>4. \A w \in Words : buf[t][w] = snap[thread_epoch[t]][d][w]
      BY <2>4, <3>1, <3>2, <3>3 DEF BorrowOk, Loaded, BufInv
    <3>5. /\ snap[thread_epoch[t]][d] \in [Words -> Vals]
          /\ buf[t] \in [Words -> Vals]
      BY <2>4, <3>2, StmAssumption DEF TypeOK, BorrowOk, Loaded
    <3>6. buf[t] = snap[thread_epoch[t]][d]
      BY <3>4, <3>5
    <3> QED BY <1>2, <1>4, <3>2, <3>6
  <2>5. ASSUME ~ Fresh(t), ~ SameLogs(t),
               \A logged \in BOOLEAN : ~ BorrowOk(t, logged)
        PROVE  UNCHANGED <<reads, thread_epoch>>
    BY <2>5, LogKinds
       DEF DisposeOld, BorrowSlow, FetchAndTick, BorrowShared, UnlockPublish,
           SetNew, LoadWord
  <2> QED BY <2>1, <2>2, <2>3, <2>4, <2>5
<1> QED
  BY <1>3, <1>4 DEF Opacity

-----------------------------------------------------------------------------
(* The invariant is inductive.                                             *)

(* A thread that does not move keeps its part of the invariant.            *)
LEMMA OtherStep ==
  ASSUME IInv, NEW t \in Threads, Step(t), NEW u \in Threads \ {t}
  PROVE  (ThreadInv(u) /\ BufInv(u) /\ GarbageInv(u) /\ TickInv(u))'
<1> USE DEF IInv
<1>1. SnapGrows /\ OnlyThread(t)
  BY SnapStep, Frame
<1>2. ThreadInv(u)' /\ WriteSet(u)' = WriteSet(u)
  BY <1>1, OtherThread
<1>3. pc[u] # "idle" =>
        /\ thread_epoch[u] \in DOMAIN snap
        /\ \A c \in Cells : Doomed(u, c) => Doomed(u, c)'
  BY <1>1, DoomedStep DEF OnlyThread, ThreadInv
<1>4. BufInv(u)'
  BY <1>1, <1>3 DEF BufInv, OnlyThread, SnapGrows, ThreadInv
<1>5. GarbageInv(u)'
  <2>1. CASE pc[u] = "idle"
    BY <1>1, <1>2, <2>1 DEF GarbageInv, OnlyThread, ThreadInv, NoEntries, WriteSet
  <2>2. CASE pc[u] # "idle"
    BY <1>1, <1>2, <1>3, <2>2 DEF GarbageInv, OnlyThread, SnapGrows
  <2> QED BY <2>1, <2>2
<1>6. TickInv(u)'
  <2>1. clock \in Nat /\ clock' \in Nat /\ next(sync_epoch[u]) \in Nat
    BY EpochFacts, TypeStep DEF TypeOK
  <2> QED BY <1>1, <1>2, <2>1 DEF TickInv, OnlyThread, SnapGrows
<1> QED BY <1>2, <1>4, <1>5, <1>6

(* Every step of every thread preserves the invariant.                     *)
LEMMA IInvStep == IInv /\ [Next]_vars => IInv'
<1>1. ASSUME IInv, NEW t \in Threads, Step(t) PROVE IInv'
  <2>1. TypeOK' /\ SnapInv' /\ ThreadInv(t)'
    BY <1>1, TypeStep, SnapStep, ThreadStep DEF IInv
  <2>2. CellInv' /\ Exclusive'
    BY <1>1, CellStep
  <2>3. BufInv(t)' /\ GarbageInv(t)' /\ TickInv(t)'
    BY <1>1, BufStep, GarbageStep, TickStep
  <2>4. Opacity'
    BY <1>1, OpacityStep
  <2>5. \A u \in Threads \ {t} :
          (ThreadInv(u) /\ BufInv(u) /\ GarbageInv(u) /\ TickInv(u))'
    BY <1>1, OtherStep
  <2> QED BY <2>1, <2>2, <2>3, <2>4, <2>5 DEF IInv
<1>2. ASSUME IInv, UNCHANGED vars PROVE IInv'
  BY <1>2
     DEF vars, shared, logs, borrowing, committing, IInv, TypeOK, ThreadInv,
         WriteSet, SnapInv, CellInv, Held, FreeInv, HeldInv, PublishInv,
         LockedEpoch, Stable, Written, Exclusive, BufInv, GarbageInv, TickInv,
         Doomed, Opacity
<1> QED
  BY <1>1, <1>2 DEF Next, Halted

(* The inductive invariant holds in every reachable state of Stm.          *)
THEOREM Invariance == Spec => []IInv
BY InitIInv, IInvStep, PTL DEF Spec

(* Every variable keeps its type in every behaviour of Stm.                *)
THEOREM TypeCorrectness == Spec => []TypeOK
<1>1. IInv => TypeOK
  BY DEF IInv
<1> QED BY <1>1, Invariance, PTL

(* Borrows of any transaction, with any number of threads, cells and words *)
(* per cell, return the store as of the epoch the transaction is pinned    *)
(* at, although a borrow looks at the EpochLock only after its copy.       *)
THEOREM OpacityHolds == Spec => []Opacity
<1>1. IInv => Opacity
  BY DEF IInv
<1> QED BY <1>1, Invariance, PTL

(* A commit that can no longer fail has queued exactly the values that it  *)
(* replaces, although set read them unchecked.                             *)
THEOREM GarbageIsExact == Spec => []GarbageExact
<1>1. ASSUME IInv PROVE GarbageExact
  <2>1. ASSUME NEW t \in Threads, NEW c \in WriteSet(t),
               pc[t] \in {"write", "tick"}
        PROVE  garbage[t][c] = snap[clock][c]
    <3>1. /\ c \in Cells /\ c \in locked[t] /\ garbage[t][c] # None
          /\ thread_epoch[t] \in DOMAIN snap
      BY <1>1, <2>1 DEF IInv, WriteSet, ThreadInv, GarbageInv
    <3>2. garbage[t][c] = snap[thread_epoch[t]][c]
      BY <1>1, <2>1, <3>1, ValidIsNotDoomed DEF IInv, GarbageInv
    <3>3. HeldInv(t, c)
      BY <1>1, <2>1, <3>1 DEF IInv, CellInv
    <3>4. thread_epoch[t] \in Nat /\ LockedEpoch(c) \in Int
      BY <1>1, <3>1, EpochFacts DEF IInv, TypeOK, LockedEpoch
    <3> QED BY <3>1, <3>2, <3>3, <3>4 DEF HeldInv, Stable
  <2>2. ASSUME NEW t \in Threads, NEW c \in WriteSet(t), pc[t] = "publish"
        PROVE  garbage[t][c] = snap[sync_epoch[t]][c]
    BY <1>1, <2>2 DEF IInv, TickInv
  <2> QED BY <2>1, <2>2 DEF GarbageExact
<1> QED BY <1>1, Invariance, PTL

(* Every EpochLock has at most one owner and its lock bit tells; a cell    *)
(* that nobody owns holds the value committed last.                        *)
THEOREM LocksAreDisciplined == Spec => []LockDiscipline
<1>1. ASSUME IInv PROVE LockDiscipline
  <2>1. ASSUME NEW c \in Cells, Held(c) PROVE lock_bit_set(epoch_lock[c])
    BY <1>1, <2>1 DEF IInv, CellInv, Held, HeldInv, PublishInv
  <2>2. ASSUME NEW c \in Cells, ~ Held(c)
        PROVE  epoch_lock[c] <= clock /\ value[c] = snap[clock][c]
    BY <1>1, <2>2 DEF IInv, CellInv, FreeInv
  <2> QED BY <1>1, <2>1, <2>2 DEF LockDiscipline, IInv, Exclusive
<1> QED BY <1>1, Invariance, PTL
=============================================================================
