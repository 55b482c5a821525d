--------------------------- MODULE ParkingProofs ----------------------------
(***************************************************************************)
(* ParkInv is inductive: no wakeup is lost, and neither a thread that      *)
(* parks nor one that looks for sleepers touches memory that is gone.      *)
(***************************************************************************)
EXTENDS ParkingInvariant, SeqLemmas

LEMMA EpochFacts ==
  /\ LOCK_BIT \in Nat /\ LOCK_BIT % 2 = 0 /\ LOCK_BIT > 3
  /\ FIRST = 3 /\ UNPARK_BIT = 1 /\ TICK_SIZE = 2
  /\ INACTIVE_EPOCH \in Nat /\ INACTIVE_EPOCH > LOCK_BIT
  /\ MaxEpoch \in Nat /\ MaxEpoch < LOCK_BIT - 1
BY LockBitAssumption, ParkingAssumption
DEF FIRST, TICK_SIZE, UNPARK_BIT, INACTIVE_EPOCH

(* Epochs are odd, and so a tick apart.                                    *)
LEMMA TickApart ==
  ASSUME NEW e \in Nat, NEW f \in Nat, Odd(e), Odd(f), e < f, f < LOCK_BIT
  PROVE  e + 2 <= f /\ e < LOCK_BIT - 2
<1>1. e + 2 <= f
  BY DEF Odd
<1> QED BY <1>1, EpochFacts

(* Two words that say the same to every pin.                               *)
SameTime(e, f) == \A p \in Nat : Odd(p) => (newer(e, p) <=> newer(f, p))

LEMMA ClearedWord ==
  ASSUME NEW e \in Nat, unpark_bit_set(e), unlocked(e) < LOCK_BIT
  PROVE  /\ clear_unpark_bit(e) \in Nat
         /\ ~ unpark_bit_set(clear_unpark_bit(e))
         /\ lock_bit_set(clear_unpark_bit(e)) <=> lock_bit_set(e)
         /\ unlocked(clear_unpark_bit(e)) <= unlocked(e)
         /\ SameTime(clear_unpark_bit(e), e)
BY EpochFacts
DEF unpark_bit_set, clear_unpark_bit, lock_bit_set, unlocked, SameTime, newer,
   Odd

LEMMA SetWord ==
  ASSUME NEW e \in Nat, unlocked(e) < LOCK_BIT
  PROVE  /\ set_unpark_bit(e) \in Nat
         /\ unpark_bit_set(set_unpark_bit(e))
         /\ lock_bit_set(set_unpark_bit(e)) <=> lock_bit_set(e)
         /\ SameTime(set_unpark_bit(e), e)
         /\ \/ set_unpark_bit(e) = e
            \/ ~ unpark_bit_set(e) /\ e = set_unpark_bit(e) - UNPARK_BIT
<1>1. CASE unpark_bit_set(e)
  BY <1>1 DEF set_unpark_bit, SameTime
<1>2. CASE ~ unpark_bit_set(e)
  <2>1. set_unpark_bit(e) = e + 1 /\ e % 2 = 0 /\ UNPARK_BIT = 1
    BY <1>2, EpochFacts DEF set_unpark_bit, unpark_bit_set
  <2>2. e + 1 \in Nat /\ (e + 1) % 2 = 1 /\ e = (e + 1) - 1
    BY <2>1
  <2>3. e + 1 >= LOCK_BIT <=> e >= LOCK_BIT
    BY <2>1, EpochFacts
  <2>4. \A p \in Nat : Odd(p) => (newer(e + 1, p) <=> newer(e, p))
    BY <2>1, <2>3, EpochFacts DEF lock_bit_set, unlocked, newer, Odd
  <2> QED BY <1>2, <2>1, <2>2, <2>3, <2>4
          DEF unpark_bit_set, lock_bit_set, SameTime
<1> QED BY <1>1, <1>2

LEMMA ToggledWord ==
  ASSUME NEW e \in Nat, unlocked(e) < LOCK_BIT
  PROVE  /\ toggle_lock_bit(e) \in Nat
         /\ unpark_bit_set(toggle_lock_bit(e)) <=> unpark_bit_set(e)
         /\ lock_bit_set(toggle_lock_bit(e)) <=> ~ lock_bit_set(e)
         /\ unlocked(toggle_lock_bit(e)) = unlocked(e)
         /\ SameTime(toggle_lock_bit(e), e)
BY EpochFacts
DEF unpark_bit_set, toggle_lock_bit, lock_bit_set, unlocked, SameTime, newer

LEMMA PublishedWord ==
  ASSUME NEW e \in Nat, Odd(e), e < LOCK_BIT - 2
  PROVE  /\ next(e) \in Nat /\ Odd(next(e)) /\ e < next(e)
         /\ unpark_bit_set(next(e)) /\ ~ lock_bit_set(next(e))
         /\ \A p \in Nat : newer(next(e), p) <=> next(e) > p
BY EpochFacts
DEF unpark_bit_set, lock_bit_set, unlocked, newer, next, Odd

-----------------------------------------------------------------------------
LEMMA EmptyLogIsSeq ==
  ASSUME NEW S
  PROVE  <<>> \in Seq(S)
OBVIOUS

LEMMA ThreadTypes ==
  ASSUME ParkInv, NEW t \in Threads
  PROVE  /\ ParkingTypeOK /\ ThreadPhase(t) /\ clock \in Nat
         /\ log[t] \in Seq(Cells) /\ position[t] \in Nat /\ Len(log[t]) \in Nat
         /\ pin_epoch[t] \in Nat /\ sync_epoch[t] \in Nat
<1>1. ParkingTypeOK /\ ThreadPhase(t)
  BY DEF ParkInv, PhaseInv
<1>2. clock \in Nat /\ position[t] \in Nat /\ pin_epoch[t] \in Nat /\ sync_epoch[t] \in Nat
  BY <1>1 DEF ParkingTypeOK
<1>3. log[t] \in Seq(Cells)
  BY <1>1 DEF ParkingTypeOK
<1> QED BY <1>1, <1>2, <1>3

(* What an action of another thread leaves alone.                          *)
SameThread(s) ==
  /\ pc'[s] = pc[s] /\ log'[s] = log[s] /\ position'[s] = position[s]
  /\ thread_epoch'[s] = thread_epoch[s] /\ pin_epoch'[s] = pin_epoch[s]
  /\ sync_epoch'[s] = sync_epoch[s] /\ has_parked'[s] = has_parked[s]
  /\ undo_word'[s] = undo_word[s] /\ park_statuses'[s] = park_statuses[s]
  /\ unchecked'[s] = unchecked[s]

LEMMA SameSets ==
  ASSUME NEW s \in Threads, SameThread(s)
  PROVE  /\ Held(s)' = Held(s) /\ Released(s)' = Released(s)
         /\ Watched(s)' = Watched(s) /\ Ticked(s)' = Ticked(s)
         /\ Borrows(s)' = Borrows(s) /\ Pinned(s)' = Pinned(s)
         /\ \A u \in Threads : WillCheck(s, u)' = WillCheck(s, u)
BY DEF SameThread, Held, Released, Watched, Ticked, Borrows, Pinned, WillCheck

(* Positions are positions of the log.                                     *)
LEMMA Positions ==
  ASSUME ParkingTypeOK, NEW t \in Threads, ThreadPhase(t)
  PROVE  /\ Len(log[t]) \in Nat /\ DOMAIN log[t] = 1..Len(log[t])
         /\ \A i \in DOMAIN log[t] : log[t][i] \in Cells
         /\ Held(t) \subseteq DOMAIN log[t]
         /\ Released(t) \subseteq DOMAIN log[t]
         /\ Watched(t) \subseteq DOMAIN log[t]
         /\ park_statuses[t] \subseteq DOMAIN log[t]
         /\ Released(t) # {} => Ticked(t)
         /\ Held(t) # {} => ~ Borrows(t)
         /\ Watched(t) # {} => Borrows(t)
<1>1. log[t] \in Seq(Cells) /\ position[t] \in Nat /\ park_statuses[t] \in SUBSET Nat
  BY DEF ParkingTypeOK
<1>2. /\ Len(log[t]) \in Nat /\ DOMAIN log[t] = 1..Len(log[t])
      /\ \A i \in DOMAIN log[t] : log[t][i] \in Cells
  BY <1>1, SeqElements
<1> DEFINE n == Len(log[t])
<1>3. n \in Nat /\ DOMAIN log[t] = 1..n
  BY <1>2
<1>4. pc[t] \in {"clear", "cleanup", "lock", "undo", "undo_store", "publish"} =>
        position[t] \in 1..(n + 1)
  BY DEF ThreadPhase
<1>5. Held(t) \subseteq 1..n /\ Released(t) \subseteq 1..n /\ Watched(t) \subseteq 1..n
  <2>0. /\ Held(t) = IF pc[t] \in {"lock", "undo", "undo_store"} THEN 1..(position[t] - 1)
                     ELSE IF pc[t] = "publish" THEN position[t]..n ELSE {}
        /\ Released(t) = IF pc[t] = "publish" THEN 1..(position[t] - 1)
                         ELSE IF pc[t] \in {"unpark", "filter", "collect"} THEN 1..n
                         ELSE {}
        /\ Watched(t) = IF pc[t] = "parked" THEN 1..n
                        ELSE IF pc[t] = "clear" THEN 1..(position[t] - 1) ELSE {}
    BY DEF Held, Released, Watched
  <2> HIDE DEF n
  <2>1. CASE pc[t] \in {"clear", "cleanup", "lock", "undo", "undo_store", "publish"}
    BY <1>3, <1>4, <2>0, <2>1
  <2>2. CASE pc[t] \notin {"clear", "cleanup", "lock", "undo", "undo_store", "publish"}
    BY <1>3, <2>0, <2>2
  <2> QED BY <2>1, <2>2
<1>6. park_statuses[t] \subseteq 1..n
  <2> HIDE DEF n
  <2>1. CASE pc[t] \in {"clear", "cleanup"}
    <3>1. \A i \in park_statuses[t] : 1 <= i /\ i < position[t]
      BY <2>1 DEF ThreadPhase
    <3> QED BY <1>1, <1>3, <1>4, <2>1, <3>1
  <2>2. CASE pc[t] \notin {"clear", "cleanup"}
    BY <2>2 DEF ThreadPhase
  <2> QED BY <2>1, <2>2
<1>7. /\ Released(t) # {} => Ticked(t)
      /\ Held(t) # {} => ~ Borrows(t)
      /\ Watched(t) # {} => Borrows(t)
  BY DEF Held, Released, Watched, Ticked, Borrows
<1> QED BY <1>2, <1>3, <1>5, <1>6, <1>7

(* A thread that has not moved is where it was.                            *)
LEMMA PhaseKept ==
  ASSUME ParkInv, NEW s \in Threads, SameThread(s),
         clock' \in Nat, clock <= clock',
         s \in queue' <=> s \in queue,
         queue_lock' = s <=> queue_lock = s,
         pc[s] = "filter" => queue \subseteq queue' \cup (queue \ unchecked[s])
  PROVE  ThreadPhase(s)'
<1>1. ThreadPhase(s) /\ sync_epoch[s] \in Nat /\ clock \in Nat
  BY DEF ParkInv, PhaseInv, ParkingTypeOK
<1>2. sync_epoch[s] < clock => sync_epoch'[s] < clock'
  BY <1>1 DEF SameThread
<1>3. /\ Ticked(s)' = Ticked(s) /\ Borrows(s)' = Borrows(s) /\ Pinned(s)' = Pinned(s)
  BY SameSets
<1>4. IF pc[s] = "filter" THEN unchecked[s] \subseteq queue' ELSE unchecked[s] = {}
  BY <1>1 DEF ThreadPhase
<1>5. /\ pc[s] \in {"clear", "cleanup", "lock", "undo", "undo_store", "publish"} =>
           position[s] \in 1..(Len(log[s]) + 1)
      /\ pc[s] = "undo_store" => position[s] > 1
      /\ Pinned(s) => thread_epoch[s] = pin_epoch[s]
      /\ Ticked(s) => pin_epoch[s] <= sync_epoch[s] /\ sync_epoch[s] < clock
      /\ Borrows(s) => log[s] \in Logs \cup {<<>>}
      /\ IF pc[s] \in {"clear", "cleanup"}
           THEN \A i \in park_statuses[s] : 1 <= i /\ i < position[s]
           ELSE park_statuses[s] = {}
  BY <1>1 DEF ThreadPhase
<1>6. /\ s \in queue' <=> pc[s] = "parked"
      /\ queue_lock' = s <=> pc[s] \in {"clear", "cleanup", "filter"}
  BY <1>1 DEF ThreadPhase
<1> QED BY <1>2, <1>3, <1>4, <1>5, <1>6 DEF ThreadPhase, SameThread

-----------------------------------------------------------------------------
(* The steps that do not change what a word says about the time.           *)
TimesKept == \A c \in Cells : SameTime(epoch_lock'[c], epoch_lock[c])

(* Nothing is published, and nobody watches anything new.                  *)
TickMove(s) ==
  Ticked(s)' => /\ Ticked(s) /\ log'[s] = log[s]
                /\ sync_epoch'[s] = sync_epoch[s]
                /\ Held(s)' \subseteq Held(s)

ReleaseMove(s) ==
  \A i \in Released(s)' :
    i \in Released(s) /\ log'[s] = log[s] /\ sync_epoch'[s] = sync_epoch[s]

BorrowMove(s) ==
  Borrows(s)' =>
    \/ log'[s] = <<>>
    \/ Borrows(s) /\ log'[s] = log[s] /\ pin_epoch'[s] = pin_epoch[s]
    \/ \A c \in Cellsof(log'[s]) :
         c \notin unlinked /\ ~ lock_bit_set(epoch_lock[c])

WatchMove(s) ==
  \A k \in Watched(s)' :
    /\ Borrows(s) /\ log'[s] = log[s] /\ pin_epoch'[s] = pin_epoch[s]
    /\ k \in DOMAIN log[s]
    /\ pc'[s] = "clear" => pc[s] = "clear"
    /\ k \in Watched(s) \/ ~ newer(epoch_lock[log[s][k]], pin_epoch[s])

CheckMove(s) ==
  \A u \in Threads :
    /\ WillCheck(s, u)
    /\ \E k \in Watched(u) \cap Watched(u)' :
         newer(epoch_lock[log[u][k]], pin_epoch[u])
    => WillCheck(s, u)' /\ sync_epoch'[s] = sync_epoch[s]

CleanMove(s) ==
  \A i \in park_statuses'[s] :
    /\ log'[s] = log[s] /\ i \in DOMAIN log[s]
    /\ i \in park_statuses[s] \/ unpark_bit_set(epoch_lock[log[s][i]])

LEMMA SameMoves ==
  ASSUME ParkInv, NEW s \in Threads, SameThread(s)
  PROVE  /\ TickMove(s) /\ ReleaseMove(s) /\ BorrowMove(s)
         /\ WatchMove(s) /\ CheckMove(s) /\ CleanMove(s)
<1>1. ThreadPhase(s) /\ ParkingTypeOK
  BY DEF ParkInv, PhaseInv
<1>2. Watched(s) # {} => Borrows(s)
  BY <1>1, Positions
<1>3. park_statuses[s] \subseteq DOMAIN log[s] /\ Watched(s) \subseteq DOMAIN log[s]
  BY <1>1, Positions
<1>4. CheckMove(s)
  BY SameSets DEF CheckMove, SameThread
<1>5. TickMove(s) /\ ReleaseMove(s) /\ BorrowMove(s)
  BY SameSets DEF SameThread, TickMove, ReleaseMove, BorrowMove
<1>6. WatchMove(s)
  BY <1>2, <1>3, SameSets DEF SameThread, WatchMove
<1>7. CleanMove(s)
  BY <1>3 DEF SameThread, CleanMove
<1> QED BY <1>4, <1>5, <1>6, <1>7

(* What is odd is a time that SameTime speaks about.                       *)
LEMMA OddTimes ==
  ASSUME ParkInv
  PROVE  \A s \in Threads : /\ pin_epoch[s] \in Nat /\ Odd(pin_epoch[s])
                            /\ sync_epoch[s] \in Nat /\ Odd(sync_epoch[s])
BY DEF ParkInv, ParkingTypeOK, WordInv

LEMMA NewerKept ==
  ASSUME ParkInv, TimesKept
  PROVE  \A c \in Cells, s \in Threads :
           /\ newer(epoch_lock'[c], pin_epoch[s]) <=> newer(epoch_lock[c], pin_epoch[s])
           /\ newer(epoch_lock'[c], sync_epoch[s]) <=> newer(epoch_lock[c], sync_epoch[s])
BY OddTimes DEF TimesKept, SameTime

LEMMA PositionsOfAll ==
  ASSUME ParkInv
  PROVE  \A t \in Threads :
         /\ Len(log[t]) \in Nat /\ DOMAIN log[t] = 1..Len(log[t])
         /\ \A i \in DOMAIN log[t] : log[t][i] \in Cells
         /\ Held(t) \subseteq DOMAIN log[t]
         /\ Released(t) \subseteq DOMAIN log[t]
         /\ Watched(t) \subseteq DOMAIN log[t]
         /\ park_statuses[t] \subseteq DOMAIN log[t]
         /\ Released(t) # {} => Ticked(t)
         /\ Held(t) # {} => ~ Borrows(t)
         /\ Watched(t) # {} => Borrows(t)
BY Positions DEF ParkInv, PhaseInv

(* PublishInv.                                                             *)
LEMMA PublishKept ==
  ASSUME ParkInv, TimesKept, \A s \in Threads : ReleaseMove(s)
  PROVE  PublishInv'
<1> SUFFICES ASSUME NEW s \in Threads, NEW i \in Released(s)'
             PROVE  newer(epoch_lock'[log'[s][i]], sync_epoch'[s])
  BY DEF PublishInv
<1>1. i \in Released(s) /\ log'[s] = log[s] /\ sync_epoch'[s] = sync_epoch[s]
  BY DEF ReleaseMove
<1>2. newer(epoch_lock[log[s][i]], sync_epoch[s])
  BY <1>1 DEF ParkInv, PublishInv
<1>3. log[s][i] \in Cells
  BY <1>1, PositionsOfAll
<1> QED BY <1>1, <1>2, <1>3, NewerKept

LEMMA CellsOfLogs ==
  ASSUME ParkingTypeOK'
  PROVE  \A u \in Threads : Cellsof(log'[u]) \subseteq Cells
<1> SUFFICES ASSUME NEW u \in Threads PROVE Cellsof(log'[u]) \subseteq Cells
  OBVIOUS
<1>1. log'[u] \in Seq(Cells)
  BY DEF ParkingTypeOK
<1> QED BY <1>1, SeqElements DEF Cellsof

(* BorrowInv.                                                              *)
LEMMA BorrowKept ==
  ASSUME ParkInv, \A s \in Threads : TickMove(s), \A s \in Threads : BorrowMove(s),
         unlinked \subseteq unlinked', ParkingTypeOK'
  PROVE  BorrowInv'
<1>1. ASSUME NEW t \in Threads, NEW c \in Cells, Ticked(t)', Guard[c] \in Cellsof(log'[t])
      PROVE  c \in unlinked'
  <2>1. Ticked(t) /\ log'[t] = log[t]
    BY <1>1 DEF TickMove
  <2>2. c \in unlinked
    BY <1>1, <2>1 DEF ParkInv, BorrowInv
  <2> QED BY <2>2
<1>2. ASSUME NEW t \in Threads, NEW u \in Threads, Ticked(t)', Borrows(u)',
             NEW c \in Cellsof(log'[u]),
             Guard[c] \in Cellsof(log'[t]) \/ \E i \in Held(t)' : log'[t][i] = c,
             c \in Cells
      PROVE  pin_epoch'[u] <= sync_epoch'[t]
  <2>1. Ticked(t) /\ log'[t] = log[t] /\ sync_epoch'[t] = sync_epoch[t]
    BY <1>2 DEF TickMove
  <2>2. Guard[c] \in Cellsof(log[t]) \/ \E i \in Held(t) : log[t][i] = c
    BY <1>2, <2>1 DEF TickMove
  <2>3. CASE log'[u] = <<>>
    BY <2>3 DEF Cellsof
  <2>4. CASE Borrows(u) /\ log'[u] = log[u] /\ pin_epoch'[u] = pin_epoch[u]
    BY <2>1, <2>2, <2>4 DEF ParkInv, BorrowInv
  <2>5. CASE c \notin unlinked /\ ~ lock_bit_set(epoch_lock[c])
    <3>1. Guard[c] \in Cellsof(log[t]) => c \in unlinked
      BY <1>2, <2>1 DEF ParkInv, BorrowInv
    <3>2. (\E i \in Held(t) : log[t][i] = c) => lock_bit_set(epoch_lock[c])
      BY DEF ParkInv, OwnerInv
    <3> QED BY <2>2, <2>5, <3>1, <3>2
  <2> QED BY <1>2, <2>3, <2>4, <2>5 DEF BorrowMove
<1>3. \A u \in Threads : Cellsof(log'[u]) \subseteq Cells
  BY CellsOfLogs
<1> QED BY <1>1, <1>2, <1>3 DEF BorrowInv

(* AlarmInv.                                                               *)
LEMMA AlarmKept ==
  ASSUME ParkInv, TimesKept, \A s \in Threads : ReleaseMove(s),
         \A s \in Threads : WatchMove(s), \A s \in Threads : CheckMove(s)
  PROVE  AlarmInv'
<1> SUFFICES ASSUME NEW u \in Threads, NEW k \in Watched(u)',
                    newer(epoch_lock'[log'[u][k]], pin_epoch'[u])
             PROVE  \E t \in Threads : Alarm(t, u, log[u][k])'
  BY DEF AlarmInv
<1> DEFINE c == log[u][k]
<1>1. /\ Borrows(u) /\ log'[u] = log[u] /\ pin_epoch'[u] = pin_epoch[u]
      /\ k \in Watched(u) \/ ~ newer(epoch_lock[c], pin_epoch[u])
  BY DEF WatchMove
<1>2. k \in Watched(u) /\ c \in Cells /\ newer(epoch_lock[c], pin_epoch[u])
  <2>1. k \in DOMAIN log[u]
    BY DEF WatchMove
  <2>2. c \in Cells
    BY <2>1, PositionsOfAll
  <2>3. newer(epoch_lock[c], pin_epoch[u])
    BY <1>1, <2>2, NewerKept
  <2> QED BY <1>1, <2>2, <2>3
<1>3. PICK t \in Threads : Alarm(t, u, c)
  BY <1>2 DEF ParkInv, AlarmInv
<1>4. WillCheck(t, u)' /\ sync_epoch'[t] = sync_epoch[t]
  BY <1>2, <1>3 DEF CheckMove, Alarm
<1>5. newer(epoch_lock'[c], sync_epoch'[t])
  BY <1>2, <1>3, <1>4, NewerKept DEF Alarm
<1>6. ASSUME NEW s \in Threads, NEW i \in Released(s)',
             log'[s][i] = c, pin_epoch'[u] <= sync_epoch'[s]
      PROVE  sync_epoch'[t] <= sync_epoch'[s]
  <2>1. i \in Released(s) /\ log'[s] = log[s] /\ sync_epoch'[s] = sync_epoch[s]
    BY <1>6 DEF ReleaseMove
  <2> QED BY <1>1, <1>3, <1>4, <1>6, <2>1 DEF Alarm
<1> QED BY <1>1, <1>4, <1>5, <1>6 DEF Alarm

(* CleanupInv.                                                             *)
LEMMA CleanupKept ==
  ASSUME ParkInv, TimesKept, PhaseInv', \A s \in Threads : WatchMove(s),
         \A s \in Threads : CleanMove(s),
         queue' \subseteq queue \/ \A s \in Threads : park_statuses'[s] = {},
         queue' \subseteq Threads,
         \A s \in Threads : DOMAIN log'[s] = 1..Len(log'[s])
  PROVE  CleanupInv'
<1> SUFFICES ASSUME NEW t \in Threads, NEW i \in park_statuses'[t],
                    NEW u \in queue', NEW k \in DOMAIN log'[u],
                    log'[u][k] = log'[t][i]
             PROVE  newer(epoch_lock'[log'[t][i]], pin_epoch'[u])
  BY DEF CleanupInv
<1>1. u \in queue /\ u \in Threads
  OBVIOUS
<1>2. pc[u] = "parked" /\ pc'[u] = "parked"
  BY <1>1 DEF ParkInv, PhaseInv, ThreadPhase
<1>3. k \in Watched(u)'
  BY <1>1, <1>2 DEF Watched
<1>4. log'[u] = log[u] /\ pin_epoch'[u] = pin_epoch[u]
  BY <1>1, <1>3 DEF WatchMove
<1>5. k \in Watched(u) /\ k \in DOMAIN log[u]
  BY <1>1, <1>2, <1>4 DEF Watched
<1>6. /\ log'[t] = log[t] /\ i \in DOMAIN log[t] /\ log[u][k] = log[t][i]
      /\ i \in park_statuses[t] \/ unpark_bit_set(epoch_lock[log[t][i]])
  BY <1>4 DEF CleanMove
<1>7. log[t][i] \in Cells
  BY <1>6, PositionsOfAll
<1>8. newer(epoch_lock[log[t][i]], pin_epoch[u])
  <2>1. CASE i \in park_statuses[t]
    BY <1>1, <1>5, <1>6, <2>1 DEF ParkInv, CleanupInv
  <2>2. CASE unpark_bit_set(epoch_lock[log[t][i]])
    BY <1>1, <1>5, <1>6, <2>2 DEF ParkInv, ClearInv
  <2> QED BY <1>6, <2>1, <2>2
<1> QED BY <1>1, <1>4, <1>6, <1>7, <1>8, NewerKept

(* FreeInv.                                                                *)
LEMMA FreeKept ==
  ASSUME ParkInv, TimesKept, ParkingTypeOK', \A s \in Threads : WatchMove(s),
         \A s \in Threads : BorrowMove(s),
         freed' = freed, unlinked \subseteq unlinked'
  PROVE  FreeInv'
<1>1. ASSUME NEW c \in freed
      PROVE  c \in unlinked /\ c \in unlinked' /\ Guard[c] \in Cells /\ c \in Cells
  BY DEF ParkInv, FreeInv, ParkingTypeOK
<1>2. ASSUME NEW u \in Threads, Borrows(u)', NEW c \in Cellsof(log'[u]), c \in freed
      PROVE  newer(epoch_lock'[Guard[c]], pin_epoch'[u])
  <2>1. CASE log'[u] = <<>>
    BY <2>1, <1>2 DEF Cellsof
  <2>2. CASE Borrows(u) /\ log'[u] = log[u] /\ pin_epoch'[u] = pin_epoch[u]
    <3>1. newer(epoch_lock[Guard[c]], pin_epoch[u])
      BY <1>2, <2>2 DEF ParkInv, FreeInv
    <3> QED BY <1>1, <1>2, <2>2, <3>1, NewerKept
  <2>3. CASE c \notin unlinked
    BY <1>1, <1>2, <2>3
  <2> QED BY <1>2, <2>1, <2>2, <2>3 DEF BorrowMove
<1>3. ASSUME NEW u \in Threads, pc'[u] = "clear", NEW k \in Watched(u)',
             NEW c \in Cellsof(log'[u]), Guard[c] = log'[u][k]
      PROVE  c \notin freed
  <2>1. /\ Borrows(u) /\ log'[u] = log[u] /\ pc[u] = "clear"
        /\ k \in Watched(u) \/ ~ newer(epoch_lock[log[u][k]], pin_epoch[u])
    BY <1>3 DEF WatchMove
  <2>2. CASE k \in Watched(u)
    BY <1>3, <2>1, <2>2 DEF ParkInv, FreeInv
  <2>3. CASE ~ newer(epoch_lock[log[u][k]], pin_epoch[u])
    BY <1>3, <2>1, <2>3 DEF ParkInv, FreeInv
  <2> QED BY <2>1, <2>2, <2>3
<1> QED BY <1>1, <1>2, <1>3 DEF FreeInv

(* ClearInv, when no bit is set.                                           *)
LEMMA ClearKept ==
  ASSUME ParkInv, TimesKept, \A s \in Threads : WatchMove(s),
         \A s \in Threads : \A k \in Watched(s)' \ Watched(s) :
           ~ unpark_bit_set(epoch_lock'[log'[s][k]]),
         \A c \in Cells : unpark_bit_set(epoch_lock'[c]) => unpark_bit_set(epoch_lock[c])
  PROVE  ClearInv'
<1> SUFFICES ASSUME NEW u \in Threads, NEW k \in Watched(u)', k \in Watched(u)
             PROVE  \/ newer(epoch_lock'[log'[u][k]], pin_epoch'[u])
                    \/ ~ unpark_bit_set(epoch_lock'[log'[u][k]])
  BY DEF ClearInv
<1>1. log'[u] = log[u] /\ pin_epoch'[u] = pin_epoch[u]
  BY DEF WatchMove
<1>2. log[u][k] \in Cells
  BY PositionsOfAll
<1>3. \/ newer(epoch_lock[log[u][k]], pin_epoch[u])
      \/ ~ unpark_bit_set(epoch_lock[log[u][k]])
  BY DEF ParkInv, ClearInv
<1> QED BY <1>1, <1>2, <1>3, NewerKept

(* OwnerInv, when nobody locks or unlocks.                                 *)
LEMMA OwnerKept ==
  ASSUME ParkInv, TimesKept,
         \A s \in Threads :
           /\ Held(s)' = Held(s)
           /\ Held(s) # {} => /\ log'[s] = log[s] /\ pin_epoch'[s] = pin_epoch[s]
                              /\ has_parked'[s] = has_parked[s],
         \A c \in Cells : (lock_bit_set(epoch_lock'[c]) <=> lock_bit_set(epoch_lock[c])),
         \A c \in Cells : lock_bit_set(epoch_lock[c]) /\ unpark_bit_set(epoch_lock[c]) =>
                            unpark_bit_set(epoch_lock'[c])
  PROVE  OwnerInv'
<1>1. ASSUME NEW c \in Cells, lock_bit_set(epoch_lock'[c])
      PROVE  \E t \in Threads : \E i \in Held(t)' : log'[t][i] = c
  <2>1. PICK t \in Threads : \E i \in Held(t) : log[t][i] = c
    BY <1>1 DEF ParkInv, OwnerInv
  <2> QED BY <2>1
<1>2. ASSUME NEW t \in Threads, NEW i \in Held(t)'
      PROVE  /\ lock_bit_set(epoch_lock'[log'[t][i]])
             /\ ~ newer(epoch_lock'[log'[t][i]], pin_epoch'[t])
             /\ unpark_bit_set(epoch_lock'[log'[t][i]]) \/ has_parked'[t]
  <2>1. i \in Held(t) /\ log'[t] = log[t] /\ pin_epoch'[t] = pin_epoch[t]
        /\ has_parked'[t] = has_parked[t]
    OBVIOUS
  <2>2. log[t][i] \in Cells
    BY <2>1, PositionsOfAll
  <2>3. /\ lock_bit_set(epoch_lock[log[t][i]])
        /\ ~ newer(epoch_lock[log[t][i]], pin_epoch[t])
        /\ unpark_bit_set(epoch_lock[log[t][i]]) \/ has_parked[t]
    BY <2>1 DEF ParkInv, OwnerInv
  <2> QED BY <2>1, <2>2, <2>3, NewerKept
<1>3. ASSUME NEW s \in Threads, NEW t \in Threads, NEW i \in Held(s)', NEW j \in Held(t)',
             log'[s][i] = log'[t][j]
      PROVE  s = t /\ i = j
  BY <1>3 DEF ParkInv, OwnerInv
<1> QED BY <1>1, <1>2, <1>3 DEF OwnerInv

-----------------------------------------------------------------------------
(* The steps that leave all words alone.                                   *)
QuietMove(s) ==
  /\ pin_epoch'[s] \in {pin_epoch[s], clock, FIRST}
  /\ sync_epoch'[s] \in {sync_epoch[s], FIRST}
  /\ Held(s)' = Held(s)
  /\ Held(s) # {} => /\ log'[s] = log[s] /\ pin_epoch'[s] = pin_epoch[s]
                     /\ has_parked'[s] = has_parked[s]
  /\ Watched(s)' \subseteq Watched(s)
  /\ pc'[s] = "undo_store" =>
       /\ log'[s] = log[s] /\ position'[s] = position[s]
       /\ \/ pc[s] = "undo_store" /\ undo_word'[s] = undo_word[s]
          \/ undo_word'[s] = epoch_lock[log[s][position[s] - 1]]
  /\ TickMove(s) /\ ReleaseMove(s) /\ BorrowMove(s)
  /\ WatchMove(s) /\ CheckMove(s) /\ CleanMove(s)

LEMMA SameQuiet ==
  ASSUME ParkInv, NEW s \in Threads, SameThread(s)
  PROVE  QuietMove(s)
<1>1. /\ TickMove(s) /\ ReleaseMove(s) /\ BorrowMove(s)
      /\ WatchMove(s) /\ CheckMove(s) /\ CleanMove(s)
  BY SameMoves
<1>2. Held(s)' = Held(s) /\ Watched(s)' = Watched(s)
  BY SameSets
<1> QED BY <1>1, <1>2 DEF QuietMove, SameThread

LEMMA QuietStep ==
  ASSUME ParkInv, ParkingTypeOK', PhaseInv',
         \A s \in Threads : QuietMove(s),
         clock' = clock, epoch_lock' = epoch_lock, unlinked' = unlinked,
         freed' = freed \/ FreeInv',
         queue' \subseteq queue \/ \A s \in Threads : park_statuses'[s] = {}
  PROVE  ParkInv'
<1>1. TimesKept
  BY DEF TimesKept, SameTime
<1>2. \A s \in Threads : /\ TickMove(s) /\ ReleaseMove(s) /\ BorrowMove(s)
                         /\ WatchMove(s) /\ CheckMove(s) /\ CleanMove(s)
  BY DEF QuietMove
<1>3. \A s \in Threads : DOMAIN log'[s] = 1..Len(log'[s])
  <2> TAKE s \in Threads
  <2>1. log'[s] \in Seq(Cells)
    BY DEF ParkingTypeOK
  <2> QED BY <2>1, SeqElements
<1>4. WordInv'
  <2>1. ASSUME NEW s \in Threads
        PROVE  /\ Odd(pin_epoch'[s]) /\ pin_epoch'[s] <= clock
               /\ Odd(sync_epoch'[s]) /\ sync_epoch'[s] <= clock
    <3>1. /\ pin_epoch'[s] \in {pin_epoch[s], clock, FIRST}
          /\ sync_epoch'[s] \in {sync_epoch[s], FIRST}
      BY DEF QuietMove
    <3>2. /\ Odd(pin_epoch[s]) /\ pin_epoch[s] <= clock /\ clock <= clock
          /\ Odd(sync_epoch[s]) /\ sync_epoch[s] <= clock /\ Odd(clock)
      BY DEF ParkInv, WordInv, ParkingTypeOK
    <3>3. FIRST <= clock /\ Odd(FIRST)
      BY EpochFacts DEF ParkInv, WordInv, Odd
    <3> QED BY <3>1, <3>2, <3>3
  <2> QED BY <2>1 DEF ParkInv, WordInv
<1>5. OwnerInv'
  <2>1. \A s \in Threads :
           /\ Held(s)' = Held(s)
           /\ Held(s) # {} => /\ log'[s] = log[s] /\ pin_epoch'[s] = pin_epoch[s]
                              /\ has_parked'[s] = has_parked[s]
    BY DEF QuietMove
  <2> QED BY <1>1, <2>1, OwnerKept
<1>6. UndoInv'
  <2> SUFFICES ASSUME NEW s \in Threads, pc'[s] = "undo_store"
               PROVE  LET word == epoch_lock'[log'[s][position'[s] - 1]]
                      IN  \/ undo_word'[s] = word
                          \/ unpark_bit_set(word) /\ undo_word'[s] = word - UNPARK_BIT
    BY DEF UndoInv
  <2>1. /\ log'[s] = log[s] /\ position'[s] = position[s]
        /\ \/ pc[s] = "undo_store" /\ undo_word'[s] = undo_word[s]
           \/ undo_word'[s] = epoch_lock[log[s][position[s] - 1]]
    BY DEF QuietMove
  <2> QED BY <2>1 DEF ParkInv, UndoInv
<1>7. PublishInv'
  BY <1>1, <1>2, <1>3, PublishKept
<1>8. BorrowInv'
  BY <1>2, BorrowKept
<1>9. ClearInv'
  <2>1. \A s \in Threads : Watched(s)' \subseteq Watched(s)
    BY DEF QuietMove
  <2> QED BY <1>1, <1>2, <2>1, ClearKept
<1>10. AlarmInv'
  BY <1>1, <1>2, <1>3, AlarmKept
<1>11. CleanupInv'
  <2>1. queue' \subseteq Threads
    BY DEF ParkingTypeOK
  <2> QED BY <1>1, <1>2, <1>3, <2>1, CleanupKept
<1>12. FreeInv'
  BY <1>1, <1>2, FreeKept
<1> QED BY <1>4, <1>5, <1>6, <1>7, <1>8, <1>9, <1>10, <1>11, <1>12 DEF ParkInv

(* The phases, when t is the only one that moves.                          *)
LEMMA PhasesKept ==
  ASSUME ParkInv, NEW t \in Threads, ThreadPhase(t)',
         \A s \in Threads : s # t => SameThread(s),
         clock' \in Nat, clock <= clock',
         queue \subseteq queue', queue' \subseteq queue \cup {t},
         \/ queue_lock' = queue_lock
         \/ {queue_lock, queue_lock'} \subseteq {None, t}
  PROVE  PhaseInv'
<1> SUFFICES ASSUME NEW s \in Threads, s # t PROVE ThreadPhase(s)'
  BY DEF PhaseInv
<1>1. SameThread(s) /\ s # None
  BY ParkingAssumption
<1>2. s \in queue' <=> s \in queue
  OBVIOUS
<1>3. queue_lock' = s <=> queue_lock = s
  BY <1>1
<1> QED BY <1>1, <1>2, <1>3, PhaseKept

LEMMA OneMoves ==
  ASSUME ParkInv, ParkingTypeOK', NEW t \in Threads, ThreadPhase(t)',
         \A s \in Threads : s # t => SameThread(s),
         QuietMove(t),
         clock' = clock, epoch_lock' = epoch_lock, unlinked' = unlinked,
         freed' = freed \/ FreeInv',
         queue' = queue,
         \/ queue_lock' = queue_lock
         \/ {queue_lock, queue_lock'} \subseteq {None, t}
  PROVE  ParkInv'
<1>1. clock \in Nat /\ clock <= clock'
  BY DEF ParkInv, ParkingTypeOK
<1>2. PhaseInv'
  BY <1>1, PhasesKept
<1>3. \A s \in Threads : QuietMove(s)
  BY SameQuiet
<1> QED BY <1>2, <1>3, QuietStep

-----------------------------------------------------------------------------
LEMMA RunStep ==
  ASSUME ParkInv, NEW t \in Threads, NEW l \in Logs \cup {<<>>}, Run(t, l)
  PROVE  ParkInv'
<1>0. /\ ParkingTypeOK /\ ThreadPhase(t) /\ clock \in Nat /\ pc[t] = "idle"
      /\ log[t] \in Seq(Cells) /\ position[t] \in Nat /\ Len(log[t]) \in Nat
      /\ pin_epoch[t] \in Nat /\ sync_epoch[t] \in Nat
  BY ThreadTypes DEF Run
<1>1. /\ pc'[t] = "run"
      /\ log'[t] = l
      /\ position'[t] = position[t]
      /\ thread_epoch'[t] = clock
      /\ pin_epoch'[t] = clock
      /\ sync_epoch'[t] = sync_epoch[t]
      /\ has_parked'[t] = has_parked[t]
      /\ undo_word'[t] = undo_word[t]
      /\ park_statuses'[t] = park_statuses[t]
      /\ unchecked'[t] = unchecked[t]
      /\ queue' = queue /\ queue_lock' = queue_lock
      /\ clock' = clock /\ epoch_lock' = epoch_lock
      /\ unlinked' = unlinked /\ freed' = freed
  BY <1>0 DEF ParkingTypeOK, Run, Pin, Goto, Unpin, words, pins, parking, commit,
     heap
<1>2. \A s \in Threads : s # t => SameThread(s)
  BY <1>0 DEF ParkingTypeOK, SameThread, Run, Pin, Goto, Unpin, words, pins,
     parking, commit, heap
<1>3. ParkingTypeOK'
  <2>1. l \in Seq(Cells)
    BY ParkingAssumption, EmptyLogIsSeq
  <2> QED BY <1>0, <2>1 DEF ParkingTypeOK, Pcs, Run, Pin, Goto, words, parking,
             commit, heap
<1>4. ThreadPhase(t)'
  BY <1>0, <1>1 DEF ThreadPhase, Pinned, Ticked, Borrows, Run
<1>5. QuietMove(t)
  <2>1. /\ Held(t)' = Held(t) /\ Watched(t)' \subseteq Watched(t)
        /\ Held(t) # {} => /\ log'[t] = log[t] /\ pin_epoch'[t] = pin_epoch[t]
                           /\ has_parked'[t] = has_parked[t]
    BY <1>0, <1>1 DEF Held, Watched, Run, ThreadPhase
  <2>2. TickMove(t) /\ ReleaseMove(t)
    BY <1>0, <1>1 DEF TickMove, ReleaseMove, Ticked, Held, Released
  <2>3. BorrowMove(t)
    <3> SUFFICES ASSUME NEW c \in Cellsof(l)
                 PROVE  c \notin unlinked /\ ~ lock_bit_set(epoch_lock[c])
      BY <1>1 DEF BorrowMove
    <3>1. c \notin unlinked /\ clock >= epoch_lock[c]
      BY DEF Run, read_write_valid
    <3>2. clock < LOCK_BIT /\ epoch_lock[c] \in Nat
      <4>1. c \in Cells
        BY <1>1, <1>3, CellsOfLogs
      <4> QED BY <4>1, <1>0 DEF ParkInv, WordInv, ParkingTypeOK
    <3> QED BY <1>0, <3>1, <3>2, EpochFacts DEF lock_bit_set
  <2>4. WatchMove(t)
    BY <1>0, <1>1, <2>1, Positions DEF WatchMove, Watched, Borrows
  <2>5. CheckMove(t)
    BY <1>0, <1>1 DEF CheckMove, WillCheck, Run
  <2>6. CleanMove(t)
    BY <1>0, <1>1, Positions DEF CleanMove, ThreadPhase
  <2> QED BY <1>0, <1>1, <2>1, <2>2, <2>3, <2>4, <2>5, <2>6 DEF QuietMove
<1>6. queue_lock' = queue_lock \/ {queue_lock, queue_lock'} \subseteq {None, t}
  BY <1>0, <1>1 DEF Run, ThreadPhase
<1> QED BY <1>1, <1>2, <1>3, <1>4, <1>5, <1>6, OneMoves

LEMMA FinishStep ==
  ASSUME ParkInv, NEW t \in Threads, Finish(t)
  PROVE  ParkInv'
<1>0. /\ ParkingTypeOK /\ ThreadPhase(t) /\ clock \in Nat /\ pc[t] = "run"
      /\ log[t] \in Seq(Cells) /\ position[t] \in Nat /\ Len(log[t]) \in Nat
      /\ pin_epoch[t] \in Nat /\ sync_epoch[t] \in Nat
  BY ThreadTypes DEF Finish
<1>1. /\ pc'[t] = "idle"
      /\ log'[t] = <<>>
      /\ position'[t] = position[t]
      /\ thread_epoch'[t] = INACTIVE_EPOCH
      /\ pin_epoch'[t] = FIRST
      /\ sync_epoch'[t] = sync_epoch[t]
      /\ has_parked'[t] = has_parked[t]
      /\ undo_word'[t] = undo_word[t]
      /\ park_statuses'[t] = park_statuses[t]
      /\ unchecked'[t] = unchecked[t]
      /\ queue' = queue /\ queue_lock' = queue_lock
      /\ clock' = clock /\ epoch_lock' = epoch_lock
      /\ unlinked' = unlinked /\ freed' = freed
  BY <1>0 DEF ParkingTypeOK, Finish, Return, Goto, Unpin, words, pins, parking, commit,
     heap
<1>2. \A s \in Threads : s # t => SameThread(s)
  BY <1>0 DEF ParkingTypeOK, SameThread, Finish, Return, Goto, Unpin, words, pins,
     parking, commit, heap
<1>3. ParkingTypeOK'
  <2>1. log' \in [Threads -> Seq(Cells)]
    BY <1>0, EmptyLogIsSeq DEF ParkingTypeOK, Finish, Return
  <2>2. thread_epoch' \in [Threads -> Nat] /\ pin_epoch' \in [Threads -> Nat]
    BY <1>0, EpochFacts DEF ParkingTypeOK, Finish, Return, Unpin
  <2>3. pc' \in [Threads -> Pcs]
    BY <1>0 DEF ParkingTypeOK, Finish, Return, Goto, Pcs
  <2> QED BY <1>0, <2>1, <2>2, <2>3
          DEF ParkingTypeOK, Finish, Return, Unpin, words, pins, parking, commit, heap
<1>4. ThreadPhase(t)'
  BY <1>0, <1>1 DEF ThreadPhase, Pinned, Ticked, Borrows, Finish
<1>5. QuietMove(t)
  <2>1. /\ Held(t)' = Held(t) /\ Watched(t)' \subseteq Watched(t)
        /\ Held(t) # {} => /\ log'[t] = log[t] /\ pin_epoch'[t] = pin_epoch[t]
                           /\ has_parked'[t] = has_parked[t]
    BY <1>0, <1>1 DEF Held, Watched, Finish, ThreadPhase
  <2>2. TickMove(t) /\ ReleaseMove(t)
    BY <1>0, <1>1 DEF TickMove, ReleaseMove, Ticked, Held, Released
  <2>3. BorrowMove(t)
    BY <1>0, <1>1 DEF BorrowMove, Borrows, Finish
  <2>4. WatchMove(t)
    BY <1>0, <1>1, <2>1, Positions DEF WatchMove, Watched, Borrows
  <2>5. CheckMove(t)
    BY <1>0, <1>1 DEF CheckMove, WillCheck, Finish
  <2>6. CleanMove(t)
    BY <1>0, <1>1, Positions DEF CleanMove, ThreadPhase
  <2> QED BY <1>0, <1>1, <2>1, <2>2, <2>3, <2>4, <2>5, <2>6 DEF QuietMove
<1>6. queue_lock' = queue_lock \/ {queue_lock, queue_lock'} \subseteq {None, t}
  BY <1>0, <1>1 DEF Finish, ThreadPhase
<1> QED BY <1>1, <1>2, <1>3, <1>4, <1>5, <1>6, OneMoves

LEMMA AwaitRetryStep ==
  ASSUME ParkInv, NEW t \in Threads, AwaitRetry(t)
  PROVE  ParkInv'
<1>0. /\ ParkingTypeOK /\ ThreadPhase(t) /\ clock \in Nat /\ pc[t] = "run"
      /\ log[t] \in Seq(Cells) /\ position[t] \in Nat /\ Len(log[t]) \in Nat
      /\ pin_epoch[t] \in Nat /\ sync_epoch[t] \in Nat
  BY ThreadTypes DEF AwaitRetry
<1>1. /\ pc'[t] = "park"
      /\ log'[t] = log[t]
      /\ position'[t] = position[t]
      /\ thread_epoch'[t] = INACTIVE_EPOCH
      /\ pin_epoch'[t] = pin_epoch[t]
      /\ sync_epoch'[t] = sync_epoch[t]
      /\ has_parked'[t] = has_parked[t]
      /\ undo_word'[t] = undo_word[t]
      /\ park_statuses'[t] = park_statuses[t]
      /\ unchecked'[t] = unchecked[t]
      /\ queue' = queue /\ queue_lock' = queue_lock
      /\ clock' = clock /\ epoch_lock' = epoch_lock
      /\ unlinked' = unlinked /\ freed' = freed
  BY <1>0 DEF ParkingTypeOK, AwaitRetry, Goto, Unpin, words, pins, parking,
     commit, heap
<1>2. \A s \in Threads : s # t => SameThread(s)
  BY <1>0 DEF ParkingTypeOK, SameThread, AwaitRetry, Goto, Unpin, words, pins,
     parking, commit, heap
<1>3. ParkingTypeOK'
  BY <1>0, ParkingAssumption, EpochFacts DEF ParkingTypeOK, Pcs, AwaitRetry,
     Goto, Unpin, words, pins, parking, commit, heap
<1>4. ThreadPhase(t)'
  BY <1>0, <1>1 DEF ThreadPhase, Pinned, Ticked, Borrows, AwaitRetry
<1>5. QuietMove(t)
  <2>1. /\ Held(t)' = Held(t) /\ Watched(t)' \subseteq Watched(t)
        /\ Held(t) # {} => /\ log'[t] = log[t] /\ pin_epoch'[t] = pin_epoch[t]
                           /\ has_parked'[t] = has_parked[t]
    BY <1>0, <1>1 DEF Held, Watched, AwaitRetry, ThreadPhase
  <2>2. TickMove(t) /\ ReleaseMove(t)
    BY <1>0, <1>1 DEF TickMove, ReleaseMove, Ticked, Held, Released
  <2>3. BorrowMove(t)
    BY <1>0, <1>1 DEF BorrowMove, Borrows, AwaitRetry
  <2>4. WatchMove(t)
    BY <1>0, <1>1, <2>1, Positions DEF WatchMove, Watched, Borrows
  <2>5. CheckMove(t)
    BY <1>0, <1>1 DEF CheckMove, WillCheck, AwaitRetry
  <2>6. CleanMove(t)
    BY <1>0, <1>1, Positions DEF CleanMove, ThreadPhase
  <2> QED BY <1>0, <1>1, <2>1, <2>2, <2>3, <2>4, <2>5, <2>6 DEF QuietMove
<1>6. queue_lock' = queue_lock \/ {queue_lock, queue_lock'} \subseteq {None, t}
  BY <1>0, <1>1 DEF AwaitRetry, ThreadPhase
<1> QED BY <1>1, <1>2, <1>3, <1>4, <1>5, <1>6, OneMoves

LEMMA AwaitRetryPanicsStep ==
  ASSUME ParkInv, NEW t \in Threads, AwaitRetryPanics(t)
  PROVE  ParkInv'
<1>0. /\ ParkingTypeOK /\ ThreadPhase(t) /\ clock \in Nat /\ pc[t] = "run"
      /\ log[t] \in Seq(Cells) /\ position[t] \in Nat /\ Len(log[t]) \in Nat
      /\ pin_epoch[t] \in Nat /\ sync_epoch[t] \in Nat
  BY ThreadTypes DEF AwaitRetryPanics
<1>1. /\ pc'[t] = "unwind"
      /\ log'[t] = log[t]
      /\ position'[t] = position[t]
      /\ thread_epoch'[t] = thread_epoch[t]
      /\ pin_epoch'[t] = pin_epoch[t]
      /\ sync_epoch'[t] = sync_epoch[t]
      /\ has_parked'[t] = has_parked[t]
      /\ undo_word'[t] = undo_word[t]
      /\ park_statuses'[t] = park_statuses[t]
      /\ unchecked'[t] = unchecked[t]
      /\ queue' = queue /\ queue_lock' = queue_lock
      /\ clock' = clock /\ epoch_lock' = epoch_lock
      /\ unlinked' = unlinked /\ freed' = freed
  BY <1>0 DEF ParkingTypeOK, AwaitRetryPanics, Goto, Unpin, words, pins,
     parking, commit, heap
<1>2. \A s \in Threads : s # t => SameThread(s)
  BY <1>0 DEF ParkingTypeOK, SameThread, AwaitRetryPanics, Goto, Unpin, words,
     pins, parking, commit, heap
<1>3. ParkingTypeOK'
  BY <1>0, ParkingAssumption, EpochFacts DEF ParkingTypeOK, Pcs,
     AwaitRetryPanics, Goto, Unpin, words, pins, parking, commit, heap
<1>4. ThreadPhase(t)'
  BY <1>0, <1>1 DEF ThreadPhase, Pinned, Ticked, Borrows, AwaitRetryPanics
<1>5. QuietMove(t)
  <2>1. /\ Held(t)' = Held(t) /\ Watched(t)' \subseteq Watched(t)
        /\ Held(t) # {} => /\ log'[t] = log[t] /\ pin_epoch'[t] = pin_epoch[t]
                           /\ has_parked'[t] = has_parked[t]
    BY <1>0, <1>1 DEF Held, Watched, AwaitRetryPanics, ThreadPhase
  <2>2. TickMove(t) /\ ReleaseMove(t)
    BY <1>0, <1>1 DEF TickMove, ReleaseMove, Ticked, Held, Released
  <2>3. BorrowMove(t)
    BY <1>0, <1>1 DEF BorrowMove, Borrows, AwaitRetryPanics
  <2>4. WatchMove(t)
    BY <1>0, <1>1, <2>1, Positions DEF WatchMove, Watched, Borrows
  <2>5. CheckMove(t)
    BY <1>0, <1>1 DEF CheckMove, WillCheck, AwaitRetryPanics
  <2>6. CleanMove(t)
    BY <1>0, <1>1, Positions DEF CleanMove, ThreadPhase
  <2> QED BY <1>0, <1>1, <2>1, <2>2, <2>3, <2>4, <2>5, <2>6 DEF QuietMove
<1>6. queue_lock' = queue_lock \/ {queue_lock, queue_lock'} \subseteq {None, t}
  BY <1>0, <1>1 DEF AwaitRetryPanics, ThreadPhase
<1> QED BY <1>1, <1>2, <1>3, <1>4, <1>5, <1>6, OneMoves

LEMMA ParkStepOf ==
  ASSUME ParkInv, NEW t \in Threads, Park(t)
  PROVE  ParkInv'
<1>0. /\ ParkingTypeOK /\ ThreadPhase(t) /\ clock \in Nat /\ pc[t] = "park"
      /\ log[t] \in Seq(Cells) /\ position[t] \in Nat /\ Len(log[t]) \in Nat
      /\ pin_epoch[t] \in Nat /\ sync_epoch[t] \in Nat
  BY ThreadTypes DEF Park
<1>1. /\ pc'[t] = "clear"
      /\ log'[t] = log[t]
      /\ position'[t] = 1
      /\ thread_epoch'[t] = thread_epoch[t]
      /\ pin_epoch'[t] = pin_epoch[t]
      /\ sync_epoch'[t] = sync_epoch[t]
      /\ has_parked'[t] = has_parked[t]
      /\ undo_word'[t] = undo_word[t]
      /\ park_statuses'[t] = park_statuses[t]
      /\ unchecked'[t] = unchecked[t]
      /\ queue' = queue /\ queue_lock' = t
      /\ clock' = clock /\ epoch_lock' = epoch_lock
      /\ unlinked' = unlinked /\ freed' = freed
  BY <1>0 DEF ParkingTypeOK, Park, Goto, Unpin, words, pins, parking, commit,
     heap
<1>2. \A s \in Threads : s # t => SameThread(s)
  BY <1>0 DEF ParkingTypeOK, SameThread, Park, Goto, Unpin, words, pins,
     parking, commit, heap
<1>3. ParkingTypeOK'
  BY <1>0, ParkingAssumption, EpochFacts DEF ParkingTypeOK, Pcs, Park, Goto,
     Unpin, words, pins, parking, commit, heap
<1>4. ThreadPhase(t)'
  BY <1>0, <1>1 DEF ThreadPhase, Pinned, Ticked, Borrows, Park
<1>5. QuietMove(t)
  <2>1. /\ Held(t)' = Held(t) /\ Watched(t)' \subseteq Watched(t)
        /\ Held(t) # {} => /\ log'[t] = log[t] /\ pin_epoch'[t] = pin_epoch[t]
                           /\ has_parked'[t] = has_parked[t]
    BY <1>0, <1>1 DEF Held, Watched, Park, ThreadPhase
  <2>2. TickMove(t) /\ ReleaseMove(t)
    BY <1>0, <1>1 DEF TickMove, ReleaseMove, Ticked, Held, Released
  <2>3. BorrowMove(t)
    BY <1>0, <1>1 DEF BorrowMove, Borrows, Park
  <2>4. WatchMove(t)
    BY <1>0, <1>1, <2>1, Positions DEF WatchMove, Watched, Borrows
  <2>5. CheckMove(t)
    BY <1>0, <1>1 DEF CheckMove, WillCheck, Park
  <2>6. CleanMove(t)
    BY <1>0, <1>1, Positions DEF CleanMove, ThreadPhase
  <2> QED BY <1>0, <1>1, <2>1, <2>2, <2>3, <2>4, <2>5, <2>6 DEF QuietMove
<1>6. queue_lock' = queue_lock \/ {queue_lock, queue_lock'} \subseteq {None, t}
  BY <1>0, <1>1 DEF Park, ThreadPhase
<1> QED BY <1>1, <1>2, <1>3, <1>4, <1>5, <1>6, OneMoves

LEMMA TryClearFailsStep ==
  ASSUME ParkInv, NEW t \in Threads, TryClearFails(t)
  PROVE  ParkInv'
<1>0. /\ ParkingTypeOK /\ ThreadPhase(t) /\ clock \in Nat /\ pc[t] = "clear"
      /\ log[t] \in Seq(Cells) /\ position[t] \in Nat /\ Len(log[t]) \in Nat
      /\ pin_epoch[t] \in Nat /\ sync_epoch[t] \in Nat
  BY ThreadTypes DEF TryClearFails
<1>1. /\ pc'[t] = "cleanup"
      /\ log'[t] = log[t]
      /\ position'[t] = position[t]
      /\ thread_epoch'[t] = thread_epoch[t]
      /\ pin_epoch'[t] = pin_epoch[t]
      /\ sync_epoch'[t] = sync_epoch[t]
      /\ has_parked'[t] = has_parked[t]
      /\ undo_word'[t] = undo_word[t]
      /\ park_statuses'[t] = park_statuses[t]
      /\ unchecked'[t] = unchecked[t]
      /\ queue' = queue /\ queue_lock' = queue_lock
      /\ clock' = clock /\ epoch_lock' = epoch_lock
      /\ unlinked' = unlinked /\ freed' = freed
  BY <1>0 DEF ParkingTypeOK, TryClearFails, Goto, Unpin, words, pins, parking,
     commit, heap
<1>2. \A s \in Threads : s # t => SameThread(s)
  BY <1>0 DEF ParkingTypeOK, SameThread, TryClearFails, Goto, Unpin, words,
     pins, parking, commit, heap
<1>3. ParkingTypeOK'
  BY <1>0, ParkingAssumption, EpochFacts DEF ParkingTypeOK, Pcs, TryClearFails,
     Goto, Unpin, words, pins, parking, commit, heap
<1>4. ThreadPhase(t)'
  BY <1>0, <1>1 DEF ThreadPhase, Pinned, Ticked, Borrows, TryClearFails
<1>5. QuietMove(t)
  <2>1. /\ Held(t)' = Held(t) /\ Watched(t)' \subseteq Watched(t)
        /\ Held(t) # {} => /\ log'[t] = log[t] /\ pin_epoch'[t] = pin_epoch[t]
                           /\ has_parked'[t] = has_parked[t]
    BY <1>0, <1>1 DEF Held, Watched, TryClearFails, ThreadPhase
  <2>2. TickMove(t) /\ ReleaseMove(t)
    BY <1>0, <1>1 DEF TickMove, ReleaseMove, Ticked, Held, Released
  <2>3. BorrowMove(t)
    BY <1>0, <1>1 DEF BorrowMove, Borrows, TryClearFails
  <2>4. WatchMove(t)
    BY <1>0, <1>1, <2>1, Positions DEF WatchMove, Watched, Borrows
  <2>5. CheckMove(t)
    BY <1>0, <1>1 DEF CheckMove, WillCheck, TryClearFails
  <2>6. CleanMove(t)
    BY <1>0, <1>1, Positions DEF CleanMove, ThreadPhase
  <2> QED BY <1>0, <1>1, <2>1, <2>2, <2>3, <2>4, <2>5, <2>6 DEF QuietMove
<1>6. queue_lock' = queue_lock \/ {queue_lock, queue_lock'} \subseteq {None, t}
  BY <1>0, <1>1 DEF TryClearFails, ThreadPhase
<1> QED BY <1>1, <1>2, <1>3, <1>4, <1>5, <1>6, OneMoves

LEMMA ParkInvalidStep ==
  ASSUME ParkInv, NEW t \in Threads, ParkInvalid(t)
  PROVE  ParkInv'
<1>0. /\ ParkingTypeOK /\ ThreadPhase(t) /\ clock \in Nat /\ pc[t] = "cleanup"
      /\ log[t] \in Seq(Cells) /\ position[t] \in Nat /\ Len(log[t]) \in Nat
      /\ pin_epoch[t] \in Nat /\ sync_epoch[t] \in Nat
  BY ThreadTypes DEF ParkInvalid
<1>1. /\ pc'[t] = "wake"
      /\ log'[t] = log[t]
      /\ position'[t] = position[t]
      /\ thread_epoch'[t] = thread_epoch[t]
      /\ pin_epoch'[t] = pin_epoch[t]
      /\ sync_epoch'[t] = sync_epoch[t]
      /\ has_parked'[t] = has_parked[t]
      /\ undo_word'[t] = undo_word[t]
      /\ park_statuses'[t] = park_statuses[t]
      /\ unchecked'[t] = unchecked[t]
      /\ queue' = queue /\ queue_lock' = None
      /\ clock' = clock /\ epoch_lock' = epoch_lock
      /\ unlinked' = unlinked /\ freed' = freed
  BY <1>0 DEF ParkingTypeOK, ParkInvalid, Goto, Unpin, words, pins, parking,
     commit, heap
<1>2. \A s \in Threads : s # t => SameThread(s)
  BY <1>0 DEF ParkingTypeOK, SameThread, ParkInvalid, Goto, Unpin, words, pins,
     parking, commit, heap
<1>3. ParkingTypeOK'
  BY <1>0, ParkingAssumption, EpochFacts DEF ParkingTypeOK, Pcs, ParkInvalid,
     Goto, Unpin, words, pins, parking, commit, heap
<1>4. ThreadPhase(t)'
  BY <1>0, <1>1, ParkingAssumption DEF ThreadPhase, Pinned, Ticked, Borrows,
     ParkInvalid
<1>5. QuietMove(t)
  <2>1. /\ Held(t)' = Held(t) /\ Watched(t)' \subseteq Watched(t)
        /\ Held(t) # {} => /\ log'[t] = log[t] /\ pin_epoch'[t] = pin_epoch[t]
                           /\ has_parked'[t] = has_parked[t]
    BY <1>0, <1>1 DEF Held, Watched, ParkInvalid, ThreadPhase
  <2>2. TickMove(t) /\ ReleaseMove(t)
    BY <1>0, <1>1 DEF TickMove, ReleaseMove, Ticked, Held, Released
  <2>3. BorrowMove(t)
    BY <1>0, <1>1 DEF BorrowMove, Borrows, ParkInvalid
  <2>4. WatchMove(t)
    BY <1>0, <1>1, <2>1, Positions DEF WatchMove, Watched, Borrows
  <2>5. CheckMove(t)
    BY <1>0, <1>1 DEF CheckMove, WillCheck, ParkInvalid
  <2>6. CleanMove(t)
    BY <1>0, <1>1, Positions DEF CleanMove, ThreadPhase
  <2> QED BY <1>0, <1>1, <2>1, <2>2, <2>3, <2>4, <2>5, <2>6 DEF QuietMove
<1>6. queue_lock' = queue_lock \/ {queue_lock, queue_lock'} \subseteq {None, t}
  BY <1>0, <1>1 DEF ParkInvalid, ThreadPhase
<1> QED BY <1>1, <1>2, <1>3, <1>4, <1>5, <1>6, OneMoves

LEMMA WakeStep ==
  ASSUME ParkInv, NEW t \in Threads, Wake(t)
  PROVE  ParkInv'
<1>0. /\ ParkingTypeOK /\ ThreadPhase(t) /\ clock \in Nat /\ pc[t] = "wake"
      /\ log[t] \in Seq(Cells) /\ position[t] \in Nat /\ Len(log[t]) \in Nat
      /\ pin_epoch[t] \in Nat /\ sync_epoch[t] \in Nat
  BY ThreadTypes DEF Wake
<1>1. /\ pc'[t] = "run"
      /\ log'[t] = <<>>
      /\ position'[t] = 0
      /\ thread_epoch'[t] = clock
      /\ pin_epoch'[t] = clock
      /\ sync_epoch'[t] = sync_epoch[t]
      /\ has_parked'[t] = has_parked[t]
      /\ undo_word'[t] = undo_word[t]
      /\ park_statuses'[t] = park_statuses[t]
      /\ unchecked'[t] = unchecked[t]
      /\ queue' = queue /\ queue_lock' = queue_lock
      /\ clock' = clock /\ epoch_lock' = epoch_lock
      /\ unlinked' = unlinked /\ freed' = freed
  BY <1>0 DEF ParkingTypeOK, Wake, Pin, Again, Goto, Unpin, words, pins, parking, commit,
     heap
<1>2. \A s \in Threads : s # t => SameThread(s)
  BY <1>0 DEF ParkingTypeOK, SameThread, Wake, Pin, Again, Goto, Unpin, words, pins,
     parking, commit, heap
<1>3. ParkingTypeOK'
  <2>1. log' \in [Threads -> Seq(Cells)]
    BY <1>0, EmptyLogIsSeq DEF ParkingTypeOK, Wake, Pin, Again
  <2>2. thread_epoch' \in [Threads -> Nat] /\ pin_epoch' \in [Threads -> Nat]
    BY <1>0, EpochFacts DEF ParkingTypeOK, Wake, Pin, Again, Unpin
  <2>3. pc' \in [Threads -> Pcs]
    BY <1>0 DEF ParkingTypeOK, Wake, Pin, Again, Goto, Pcs
  <2> QED BY <1>0, <2>1, <2>2, <2>3
          DEF ParkingTypeOK, Wake, Pin, Again, Unpin, words, pins, parking, commit, heap
<1>4. ThreadPhase(t)'
  BY <1>0, <1>1 DEF ThreadPhase, Pinned, Ticked, Borrows, Wake
<1>5. QuietMove(t)
  <2>1. /\ Held(t)' = Held(t) /\ Watched(t)' \subseteq Watched(t)
        /\ Held(t) # {} => /\ log'[t] = log[t] /\ pin_epoch'[t] = pin_epoch[t]
                           /\ has_parked'[t] = has_parked[t]
    BY <1>0, <1>1 DEF Held, Watched, Wake, ThreadPhase
  <2>2. TickMove(t) /\ ReleaseMove(t)
    BY <1>0, <1>1 DEF TickMove, ReleaseMove, Ticked, Held, Released
  <2>3. BorrowMove(t)
    BY <1>0, <1>1 DEF BorrowMove, Borrows, Wake
  <2>4. WatchMove(t)
    BY <1>0, <1>1, <2>1, Positions DEF WatchMove, Watched, Borrows
  <2>5. CheckMove(t)
    BY <1>0, <1>1 DEF CheckMove, WillCheck, Wake
  <2>6. CleanMove(t)
    BY <1>0, <1>1, Positions DEF CleanMove, ThreadPhase
  <2> QED BY <1>0, <1>1, <2>1, <2>2, <2>3, <2>4, <2>5, <2>6 DEF QuietMove
<1>6. queue_lock' = queue_lock \/ {queue_lock, queue_lock'} \subseteq {None, t}
  BY <1>0, <1>1 DEF Wake, ThreadPhase
<1> QED BY <1>1, <1>2, <1>3, <1>4, <1>5, <1>6, OneMoves

LEMMA UnwindStep ==
  ASSUME ParkInv, NEW t \in Threads, Unwind(t)
  PROVE  ParkInv'
<1>0. /\ ParkingTypeOK /\ ThreadPhase(t) /\ clock \in Nat /\ pc[t] = "unwind"
      /\ log[t] \in Seq(Cells) /\ position[t] \in Nat /\ Len(log[t]) \in Nat
      /\ pin_epoch[t] \in Nat /\ sync_epoch[t] \in Nat
  BY ThreadTypes DEF Unwind
<1>1. /\ pc'[t] = "idle"
      /\ log'[t] = <<>>
      /\ position'[t] = position[t]
      /\ thread_epoch'[t] = INACTIVE_EPOCH
      /\ pin_epoch'[t] = FIRST
      /\ sync_epoch'[t] = sync_epoch[t]
      /\ has_parked'[t] = has_parked[t]
      /\ undo_word'[t] = undo_word[t]
      /\ park_statuses'[t] = park_statuses[t]
      /\ unchecked'[t] = unchecked[t]
      /\ queue' = queue /\ queue_lock' = queue_lock
      /\ clock' = clock /\ epoch_lock' = epoch_lock
      /\ unlinked' = unlinked /\ freed' = freed
  BY <1>0 DEF ParkingTypeOK, Unwind, Return, Goto, Unpin, words, pins, parking, commit,
     heap
<1>2. \A s \in Threads : s # t => SameThread(s)
  BY <1>0 DEF ParkingTypeOK, SameThread, Unwind, Return, Goto, Unpin, words, pins,
     parking, commit, heap
<1>3. ParkingTypeOK'
  <2>1. log' \in [Threads -> Seq(Cells)]
    BY <1>0, EmptyLogIsSeq DEF ParkingTypeOK, Unwind, Return
  <2>2. thread_epoch' \in [Threads -> Nat] /\ pin_epoch' \in [Threads -> Nat]
    BY <1>0, EpochFacts DEF ParkingTypeOK, Unwind, Return, Unpin
  <2>3. pc' \in [Threads -> Pcs]
    BY <1>0 DEF ParkingTypeOK, Unwind, Return, Goto, Pcs
  <2> QED BY <1>0, <2>1, <2>2, <2>3
          DEF ParkingTypeOK, Unwind, Return, Unpin, words, pins, parking, commit, heap
<1>4. ThreadPhase(t)'
  BY <1>0, <1>1 DEF ThreadPhase, Pinned, Ticked, Borrows, Unwind
<1>5. QuietMove(t)
  <2>1. /\ Held(t)' = Held(t) /\ Watched(t)' \subseteq Watched(t)
        /\ Held(t) # {} => /\ log'[t] = log[t] /\ pin_epoch'[t] = pin_epoch[t]
                           /\ has_parked'[t] = has_parked[t]
    BY <1>0, <1>1 DEF Held, Watched, Unwind, ThreadPhase
  <2>2. TickMove(t) /\ ReleaseMove(t)
    BY <1>0, <1>1 DEF TickMove, ReleaseMove, Ticked, Held, Released
  <2>3. BorrowMove(t)
    BY <1>0, <1>1 DEF BorrowMove, Borrows, Unwind
  <2>4. WatchMove(t)
    BY <1>0, <1>1, <2>1, Positions DEF WatchMove, Watched, Borrows
  <2>5. CheckMove(t)
    BY <1>0, <1>1 DEF CheckMove, WillCheck, Unwind
  <2>6. CleanMove(t)
    BY <1>0, <1>1, Positions DEF CleanMove, ThreadPhase
  <2> QED BY <1>0, <1>1, <2>1, <2>2, <2>3, <2>4, <2>5, <2>6 DEF QuietMove
<1>6. queue_lock' = queue_lock \/ {queue_lock, queue_lock'} \subseteq {None, t}
  BY <1>0, <1>1 DEF Unwind, ThreadPhase
<1> QED BY <1>1, <1>2, <1>3, <1>4, <1>5, <1>6, OneMoves

LEMMA CommitStep ==
  ASSUME ParkInv, NEW t \in Threads, NEW l \in WriteLogs, Commit(t, l)
  PROVE  ParkInv'
<1>0. /\ ParkingTypeOK /\ ThreadPhase(t) /\ clock \in Nat /\ pc[t] = "run"
      /\ log[t] \in Seq(Cells) /\ position[t] \in Nat /\ Len(log[t]) \in Nat
      /\ pin_epoch[t] \in Nat /\ sync_epoch[t] \in Nat
  BY ThreadTypes DEF Commit
<1>1. /\ pc'[t] = "lock"
      /\ log'[t] = l
      /\ position'[t] = 1
      /\ thread_epoch'[t] = thread_epoch[t]
      /\ pin_epoch'[t] = pin_epoch[t]
      /\ sync_epoch'[t] = sync_epoch[t]
      /\ has_parked'[t] = FALSE
      /\ undo_word'[t] = undo_word[t]
      /\ park_statuses'[t] = park_statuses[t]
      /\ unchecked'[t] = unchecked[t]
      /\ queue' = queue /\ queue_lock' = queue_lock
      /\ clock' = clock /\ epoch_lock' = epoch_lock
      /\ unlinked' = unlinked /\ freed' = freed
  BY <1>0 DEF ParkingTypeOK, Commit, Goto, Unpin, words, pins, parking, commit,
     heap
<1>2. \A s \in Threads : s # t => SameThread(s)
  BY <1>0 DEF ParkingTypeOK, SameThread, Commit, Goto, Unpin, words, pins,
     parking, commit, heap
<1>3. ParkingTypeOK'
  BY <1>0, ParkingAssumption, EpochFacts DEF ParkingTypeOK, Pcs, Commit, Goto,
     Unpin, words, pins, parking, commit, heap
<1>4. ThreadPhase(t)'
  BY <1>0, <1>1 DEF ThreadPhase, Pinned, Ticked, Borrows, Commit
<1>5. QuietMove(t)
  <2>1. /\ Held(t)' = Held(t) /\ Watched(t)' \subseteq Watched(t)
        /\ Held(t) # {} => /\ log'[t] = log[t] /\ pin_epoch'[t] = pin_epoch[t]
                           /\ has_parked'[t] = has_parked[t]
    BY <1>0, <1>1 DEF Held, Watched, Commit, ThreadPhase
  <2>2. TickMove(t) /\ ReleaseMove(t)
    BY <1>0, <1>1 DEF TickMove, ReleaseMove, Ticked, Held, Released
  <2>3. BorrowMove(t)
    BY <1>0, <1>1 DEF BorrowMove, Borrows, Commit
  <2>4. WatchMove(t)
    BY <1>0, <1>1, <2>1, Positions DEF WatchMove, Watched, Borrows
  <2>5. CheckMove(t)
    BY <1>0, <1>1 DEF CheckMove, WillCheck, Commit
  <2>6. CleanMove(t)
    BY <1>0, <1>1, Positions DEF CleanMove, ThreadPhase
  <2> QED BY <1>0, <1>1, <2>1, <2>2, <2>3, <2>4, <2>5, <2>6 DEF QuietMove
<1>6. queue_lock' = queue_lock \/ {queue_lock, queue_lock'} \subseteq {None, t}
  BY <1>0, <1>1 DEF Commit, ThreadPhase
<1> QED BY <1>1, <1>2, <1>3, <1>4, <1>5, <1>6, OneMoves

LEMMA CommitFailsStep ==
  ASSUME ParkInv, NEW t \in Threads, CommitFails(t)
  PROVE  ParkInv'
<1>0. /\ ParkingTypeOK /\ ThreadPhase(t) /\ clock \in Nat /\ pc[t] = "lock"
      /\ log[t] \in Seq(Cells) /\ position[t] \in Nat /\ Len(log[t]) \in Nat
      /\ pin_epoch[t] \in Nat /\ sync_epoch[t] \in Nat
  BY ThreadTypes DEF CommitFails
<1>1. /\ pc'[t] = "undo"
      /\ log'[t] = log[t]
      /\ position'[t] = position[t]
      /\ thread_epoch'[t] = thread_epoch[t]
      /\ pin_epoch'[t] = pin_epoch[t]
      /\ sync_epoch'[t] = sync_epoch[t]
      /\ has_parked'[t] = has_parked[t]
      /\ undo_word'[t] = undo_word[t]
      /\ park_statuses'[t] = park_statuses[t]
      /\ unchecked'[t] = unchecked[t]
      /\ queue' = queue /\ queue_lock' = queue_lock
      /\ clock' = clock /\ epoch_lock' = epoch_lock
      /\ unlinked' = unlinked /\ freed' = freed
  BY <1>0 DEF ParkingTypeOK, CommitFails, Goto, Unpin, words, pins, parking,
     commit, heap
<1>2. \A s \in Threads : s # t => SameThread(s)
  BY <1>0 DEF ParkingTypeOK, SameThread, CommitFails, Goto, Unpin, words, pins,
     parking, commit, heap
<1>3. ParkingTypeOK'
  BY <1>0, ParkingAssumption, EpochFacts DEF ParkingTypeOK, Pcs, CommitFails,
     Goto, Unpin, words, pins, parking, commit, heap
<1>4. ThreadPhase(t)'
  BY <1>0, <1>1 DEF ThreadPhase, Pinned, Ticked, Borrows, CommitFails
<1>5. QuietMove(t)
  <2>1. /\ Held(t)' = Held(t) /\ Watched(t)' \subseteq Watched(t)
        /\ Held(t) # {} => /\ log'[t] = log[t] /\ pin_epoch'[t] = pin_epoch[t]
                           /\ has_parked'[t] = has_parked[t]
    BY <1>0, <1>1 DEF Held, Watched, CommitFails, ThreadPhase
  <2>2. TickMove(t) /\ ReleaseMove(t)
    BY <1>0, <1>1 DEF TickMove, ReleaseMove, Ticked, Held, Released
  <2>3. BorrowMove(t)
    BY <1>0, <1>1 DEF BorrowMove, Borrows, CommitFails
  <2>4. WatchMove(t)
    BY <1>0, <1>1, <2>1, Positions DEF WatchMove, Watched, Borrows
  <2>5. CheckMove(t)
    BY <1>0, <1>1 DEF CheckMove, WillCheck, CommitFails
  <2>6. CleanMove(t)
    BY <1>0, <1>1, Positions DEF CleanMove, ThreadPhase
  <2> QED BY <1>0, <1>1, <2>1, <2>2, <2>3, <2>4, <2>5, <2>6 DEF QuietMove
<1>6. queue_lock' = queue_lock \/ {queue_lock, queue_lock'} \subseteq {None, t}
  BY <1>0, <1>1 DEF CommitFails, ThreadPhase
<1> QED BY <1>1, <1>2, <1>3, <1>4, <1>5, <1>6, OneMoves

LEMMA UndoLoadStep ==
  ASSUME ParkInv, NEW t \in Threads, UndoLoad(t)
  PROVE  ParkInv'
<1>0. /\ ParkingTypeOK /\ ThreadPhase(t) /\ clock \in Nat /\ pc[t] = "undo"
      /\ log[t] \in Seq(Cells) /\ position[t] \in Nat /\ Len(log[t]) \in Nat
      /\ pin_epoch[t] \in Nat /\ sync_epoch[t] \in Nat
  BY ThreadTypes DEF UndoLoad
<1>1. /\ pc'[t] = "undo_store"
      /\ log'[t] = log[t]
      /\ position'[t] = position[t]
      /\ thread_epoch'[t] = thread_epoch[t]
      /\ pin_epoch'[t] = pin_epoch[t]
      /\ sync_epoch'[t] = sync_epoch[t]
      /\ has_parked'[t] = has_parked[t]
      /\ undo_word'[t] = epoch_lock[log[t][position[t] - 1]]
      /\ park_statuses'[t] = park_statuses[t]
      /\ unchecked'[t] = unchecked[t]
      /\ queue' = queue /\ queue_lock' = queue_lock
      /\ clock' = clock /\ epoch_lock' = epoch_lock
      /\ unlinked' = unlinked /\ freed' = freed
  BY <1>0 DEF ParkingTypeOK, UndoLoad, Goto, Unpin, words, pins, parking,
     commit, heap
<1>2. \A s \in Threads : s # t => SameThread(s)
  BY <1>0 DEF ParkingTypeOK, SameThread, UndoLoad, Goto, Unpin, words, pins,
     parking, commit, heap
<1>3. ParkingTypeOK'
  <2>1. epoch_lock[log[t][position[t] - 1]] \in Nat
    <3>1. position[t] - 1 \in DOMAIN log[t]
      <4> DEFINE n == Len(log[t])
      <4>1. position[t] \in 1..(n + 1) /\ position[t] > 1 /\ n \in Nat
        BY <1>0 DEF ThreadPhase, UndoLoad
      <4>2. DOMAIN log[t] = 1..n
        BY <1>0, Positions
      <4> QED BY <4>1, <4>2
    <3> QED BY <1>0, <3>1, Positions DEF ParkingTypeOK
  <2> QED BY <1>0, <2>1 DEF ParkingTypeOK, Pcs, UndoLoad, Goto, words, pins,
             parking, heap
<1>4. ThreadPhase(t)'
  BY <1>0, <1>1 DEF ThreadPhase, Pinned, Ticked, Borrows, UndoLoad
<1>5. QuietMove(t)
  <2>1. /\ Held(t)' = Held(t) /\ Watched(t)' \subseteq Watched(t)
        /\ Held(t) # {} => /\ log'[t] = log[t] /\ pin_epoch'[t] = pin_epoch[t]
                           /\ has_parked'[t] = has_parked[t]
    BY <1>0, <1>1 DEF Held, Watched, UndoLoad, ThreadPhase
  <2>2. TickMove(t) /\ ReleaseMove(t)
    BY <1>0, <1>1 DEF TickMove, ReleaseMove, Ticked, Held, Released
  <2>3. BorrowMove(t)
    BY <1>0, <1>1 DEF BorrowMove, Borrows, UndoLoad
  <2>4. WatchMove(t)
    BY <1>0, <1>1, <2>1, Positions DEF WatchMove, Watched, Borrows
  <2>5. CheckMove(t)
    BY <1>0, <1>1 DEF CheckMove, WillCheck, UndoLoad
  <2>6. CleanMove(t)
    BY <1>0, <1>1, Positions DEF CleanMove, ThreadPhase
  <2> QED BY <1>0, <1>1, <2>1, <2>2, <2>3, <2>4, <2>5, <2>6 DEF QuietMove
<1>6. queue_lock' = queue_lock \/ {queue_lock, queue_lock'} \subseteq {None, t}
  BY <1>0, <1>1 DEF UndoLoad, ThreadPhase
<1> QED BY <1>1, <1>2, <1>3, <1>4, <1>5, <1>6, OneMoves

LEMMA RetryStep ==
  ASSUME ParkInv, NEW t \in Threads, Retry(t)
  PROVE  ParkInv'
<1>0. /\ ParkingTypeOK /\ ThreadPhase(t) /\ clock \in Nat /\ pc[t] = "undo"
      /\ log[t] \in Seq(Cells) /\ position[t] \in Nat /\ Len(log[t]) \in Nat
      /\ pin_epoch[t] \in Nat /\ sync_epoch[t] \in Nat
  BY ThreadTypes DEF Retry
<1>1. /\ pc'[t] = "run"
      /\ log'[t] = <<>>
      /\ position'[t] = 0
      /\ thread_epoch'[t] = clock
      /\ pin_epoch'[t] = clock
      /\ sync_epoch'[t] = sync_epoch[t]
      /\ has_parked'[t] = has_parked[t]
      /\ undo_word'[t] = undo_word[t]
      /\ park_statuses'[t] = park_statuses[t]
      /\ unchecked'[t] = unchecked[t]
      /\ queue' = queue /\ queue_lock' = queue_lock
      /\ clock' = clock /\ epoch_lock' = epoch_lock
      /\ unlinked' = unlinked /\ freed' = freed
  BY <1>0 DEF ParkingTypeOK, Retry, Pin, Again, Goto, Unpin, words, pins, parking, commit,
     heap
<1>2. \A s \in Threads : s # t => SameThread(s)
  BY <1>0 DEF ParkingTypeOK, SameThread, Retry, Pin, Again, Goto, Unpin, words, pins,
     parking, commit, heap
<1>3. ParkingTypeOK'
  BY <1>0, ParkingAssumption, EpochFacts DEF ParkingTypeOK, Pcs, Retry, Pin, Again, Goto,
     Unpin, words, pins, parking, commit, heap
<1>4. ThreadPhase(t)'
  BY <1>0, <1>1 DEF ThreadPhase, Pinned, Ticked, Borrows, Retry
<1>5. QuietMove(t)
  <2>1. /\ Held(t)' = Held(t) /\ Watched(t)' \subseteq Watched(t)
        /\ Held(t) # {} => /\ log'[t] = log[t] /\ pin_epoch'[t] = pin_epoch[t]
                           /\ has_parked'[t] = has_parked[t]
    BY <1>0, <1>1 DEF Held, Watched, Retry, ThreadPhase
  <2>2. TickMove(t) /\ ReleaseMove(t)
    BY <1>0, <1>1 DEF TickMove, ReleaseMove, Ticked, Held, Released
  <2>3. BorrowMove(t)
    BY <1>0, <1>1 DEF BorrowMove, Borrows, Retry
  <2>4. WatchMove(t)
    BY <1>0, <1>1, <2>1, Positions DEF WatchMove, Watched, Borrows
  <2>5. CheckMove(t)
    BY <1>0, <1>1 DEF CheckMove, WillCheck, Retry
  <2>6. CleanMove(t)
    BY <1>0, <1>1, Positions DEF CleanMove, ThreadPhase
  <2> QED BY <1>0, <1>1, <2>1, <2>2, <2>3, <2>4, <2>5, <2>6 DEF QuietMove
<1>6. queue_lock' = queue_lock \/ {queue_lock, queue_lock'} \subseteq {None, t}
  BY <1>0, <1>1 DEF Retry, ThreadPhase
<1> QED BY <1>1, <1>2, <1>3, <1>4, <1>5, <1>6, OneMoves

LEMMA PublishedStep ==
  ASSUME ParkInv, NEW t \in Threads, Published(t)
  PROVE  ParkInv'
<1>0. /\ ParkingTypeOK /\ ThreadPhase(t) /\ clock \in Nat /\ pc[t] = "publish"
      /\ log[t] \in Seq(Cells) /\ position[t] \in Nat /\ Len(log[t]) \in Nat
      /\ pin_epoch[t] \in Nat /\ sync_epoch[t] \in Nat
  BY ThreadTypes DEF Published
<1>1. /\ pc'[t] = after_publish(t)
      /\ log'[t] = log[t]
      /\ position'[t] = position[t]
      /\ thread_epoch'[t] = thread_epoch[t]
      /\ pin_epoch'[t] = pin_epoch[t]
      /\ sync_epoch'[t] = sync_epoch[t]
      /\ has_parked'[t] = has_parked[t]
      /\ undo_word'[t] = undo_word[t]
      /\ park_statuses'[t] = park_statuses[t]
      /\ unchecked'[t] = unchecked[t]
      /\ queue' = queue /\ queue_lock' = queue_lock
      /\ clock' = clock /\ epoch_lock' = epoch_lock
      /\ unlinked' = unlinked /\ freed' = freed
  BY <1>0 DEF ParkingTypeOK, Published, Goto, Unpin, words, pins, parking,
     commit, heap
<1>a. has_parked[t] \in BOOLEAN
  BY <1>0 DEF ParkingTypeOK
<1>b. \/ pc'[t] = "unpark" /\ has_parked[t]
      \/ pc'[t] = "collect" /\ ~ has_parked[t]
  <2>1. CASE has_parked[t]
    <3>1. after_publish(t) = "unpark"
      BY <2>1, Zenon DEF after_publish
    <3> QED BY <1>1, <2>1, <3>1
  <2>2. CASE ~ has_parked[t]
    <3>1. after_publish(t) = "collect"
      BY <2>2, Zenon DEF after_publish
    <3> QED BY <1>1, <2>2, <3>1
  <2> QED BY <1>a, <2>1, <2>2
<1>c. position[t] = Len(log[t]) + 1
  BY <1>0 DEF ThreadPhase, Published
<1>2. \A s \in Threads : s # t => SameThread(s)
  BY <1>0 DEF ParkingTypeOK, SameThread, Published, Goto, Unpin, words, pins,
     parking, commit, heap
<1>3. ParkingTypeOK'
  <2>1. after_publish(t) \in Pcs
    BY <1>1, <1>b DEF Pcs
  <2> QED BY <1>0, <2>1 DEF ParkingTypeOK, Published, Goto, words, pins,
             parking, commit, heap
<1>4. ThreadPhase(t)'
  BY <1>0, <1>1, <1>b, <1>c DEF ThreadPhase, Pinned, Ticked, Borrows, Published
<1>5. QuietMove(t)
  <2>1. /\ Held(t)' = Held(t) /\ Watched(t)' \subseteq Watched(t)
        /\ Held(t) # {} => /\ log'[t] = log[t] /\ pin_epoch'[t] = pin_epoch[t]
                           /\ has_parked'[t] = has_parked[t]
    BY <1>0, <1>1, <1>b, <1>c DEF Held, Watched, Published, ThreadPhase
  <2>2. TickMove(t) /\ ReleaseMove(t)
    BY <1>0, <1>1, <1>b, <1>c DEF TickMove, ReleaseMove, Ticked, Held, Released
  <2>3. BorrowMove(t)
    BY <1>0, <1>1, <1>b, <1>c DEF BorrowMove, Borrows, Published
  <2>4. WatchMove(t)
    BY <1>0, <1>1, <2>1, Positions DEF WatchMove, Watched, Borrows
  <2>5. CheckMove(t)
    BY <1>0, <1>1, <1>b, <1>c DEF CheckMove, WillCheck, Published
  <2>6. CleanMove(t)
    BY <1>0, <1>1, Positions DEF CleanMove, ThreadPhase
  <2> QED BY <1>0, <1>1, <1>b, <2>1, <2>2, <2>3, <2>4, <2>5, <2>6 DEF QuietMove
<1>6. queue_lock' = queue_lock \/ {queue_lock, queue_lock'} \subseteq {None, t}
  BY <1>0, <1>1, <1>b, <1>c DEF Published, ThreadPhase
<1> QED BY <1>1, <1>2, <1>3, <1>4, <1>5, <1>6, OneMoves

LEMMA UnparkStep ==
  ASSUME ParkInv, NEW t \in Threads, Unpark(t)
  PROVE  ParkInv'
<1>0. /\ ParkingTypeOK /\ ThreadPhase(t) /\ clock \in Nat /\ pc[t] = "unpark"
      /\ log[t] \in Seq(Cells) /\ position[t] \in Nat /\ Len(log[t]) \in Nat
      /\ pin_epoch[t] \in Nat /\ sync_epoch[t] \in Nat
  BY ThreadTypes DEF Unpark
<1>1. /\ pc'[t] = "filter"
      /\ log'[t] = log[t]
      /\ position'[t] = position[t]
      /\ thread_epoch'[t] = thread_epoch[t]
      /\ pin_epoch'[t] = pin_epoch[t]
      /\ sync_epoch'[t] = sync_epoch[t]
      /\ has_parked'[t] = has_parked[t]
      /\ undo_word'[t] = undo_word[t]
      /\ park_statuses'[t] = park_statuses[t]
      /\ unchecked'[t] = queue
      /\ queue' = queue /\ queue_lock' = t
      /\ clock' = clock /\ epoch_lock' = epoch_lock
      /\ unlinked' = unlinked /\ freed' = freed
  BY <1>0 DEF ParkingTypeOK, Unpark, Goto, Unpin, words, pins, parking, commit,
     heap
<1>2. \A s \in Threads : s # t => SameThread(s)
  BY <1>0 DEF ParkingTypeOK, SameThread, Unpark, Goto, Unpin, words, pins,
     parking, commit, heap
<1>3. ParkingTypeOK'
  BY <1>0, ParkingAssumption, EpochFacts DEF ParkingTypeOK, Pcs, Unpark, Goto,
     Unpin, words, pins, parking, commit, heap
<1>4. ThreadPhase(t)'
  BY <1>0, <1>1 DEF ThreadPhase, Pinned, Ticked, Borrows, Unpark
<1>5. QuietMove(t)
  <2>1. /\ Held(t)' = Held(t) /\ Watched(t)' \subseteq Watched(t)
        /\ Held(t) # {} => /\ log'[t] = log[t] /\ pin_epoch'[t] = pin_epoch[t]
                           /\ has_parked'[t] = has_parked[t]
    BY <1>0, <1>1 DEF Held, Watched, Unpark, ThreadPhase
  <2>2. TickMove(t) /\ ReleaseMove(t)
    BY <1>0, <1>1 DEF TickMove, ReleaseMove, Ticked, Held, Released
  <2>3. BorrowMove(t)
    BY <1>0, <1>1 DEF BorrowMove, Borrows, Unpark
  <2>4. WatchMove(t)
    BY <1>0, <1>1, <2>1, Positions DEF WatchMove, Watched, Borrows
  <2>5. CheckMove(t)
    <3>1. \A u \in Threads : Watched(u) # {} => u \in queue
      <4> SUFFICES ASSUME NEW u \in Threads, Watched(u) # {} PROVE u \in queue
        OBVIOUS
      <4>1. ThreadPhase(u) /\ queue_lock # u
        BY ParkingAssumption DEF ParkInv, PhaseInv, Unpark
      <4> QED BY <4>1 DEF Watched, ThreadPhase
    <3> QED BY <1>0, <1>1, <3>1 DEF CheckMove, WillCheck
  <2>6. CleanMove(t)
    BY <1>0, <1>1, Positions DEF CleanMove, ThreadPhase
  <2> QED BY <1>0, <1>1, <2>1, <2>2, <2>3, <2>4, <2>5, <2>6 DEF QuietMove
<1>6. queue_lock' = queue_lock \/ {queue_lock, queue_lock'} \subseteq {None, t}
  BY <1>0, <1>1 DEF Unpark, ThreadPhase
<1> QED BY <1>1, <1>2, <1>3, <1>4, <1>5, <1>6, OneMoves

LEMMA UnparkDoneStep ==
  ASSUME ParkInv, NEW t \in Threads, UnparkDone(t)
  PROVE  ParkInv'
<1>0. /\ ParkingTypeOK /\ ThreadPhase(t) /\ clock \in Nat /\ pc[t] = "filter"
      /\ log[t] \in Seq(Cells) /\ position[t] \in Nat /\ Len(log[t]) \in Nat
      /\ pin_epoch[t] \in Nat /\ sync_epoch[t] \in Nat
  BY ThreadTypes DEF UnparkDone
<1>1. /\ pc'[t] = "collect"
      /\ log'[t] = log[t]
      /\ position'[t] = position[t]
      /\ thread_epoch'[t] = thread_epoch[t]
      /\ pin_epoch'[t] = pin_epoch[t]
      /\ sync_epoch'[t] = sync_epoch[t]
      /\ has_parked'[t] = has_parked[t]
      /\ undo_word'[t] = undo_word[t]
      /\ park_statuses'[t] = park_statuses[t]
      /\ unchecked'[t] = unchecked[t]
      /\ queue' = queue /\ queue_lock' = None
      /\ clock' = clock /\ epoch_lock' = epoch_lock
      /\ unlinked' = unlinked /\ freed' = freed
  BY <1>0 DEF ParkingTypeOK, UnparkDone, Goto, Unpin, words, pins, parking,
     commit, heap
<1>2. \A s \in Threads : s # t => SameThread(s)
  BY <1>0 DEF ParkingTypeOK, SameThread, UnparkDone, Goto, Unpin, words, pins,
     parking, commit, heap
<1>3. ParkingTypeOK'
  BY <1>0, ParkingAssumption, EpochFacts DEF ParkingTypeOK, Pcs, UnparkDone,
     Goto, Unpin, words, pins, parking, commit, heap
<1>4. ThreadPhase(t)'
  BY <1>0, <1>1, ParkingAssumption DEF ThreadPhase, Pinned, Ticked, Borrows,
     UnparkDone
<1>5. QuietMove(t)
  <2>1. /\ Held(t)' = Held(t) /\ Watched(t)' \subseteq Watched(t)
        /\ Held(t) # {} => /\ log'[t] = log[t] /\ pin_epoch'[t] = pin_epoch[t]
                           /\ has_parked'[t] = has_parked[t]
    BY <1>0, <1>1 DEF Held, Watched, UnparkDone, ThreadPhase
  <2>2. TickMove(t) /\ ReleaseMove(t)
    BY <1>0, <1>1 DEF TickMove, ReleaseMove, Ticked, Held, Released
  <2>3. BorrowMove(t)
    BY <1>0, <1>1 DEF BorrowMove, Borrows, UnparkDone
  <2>4. WatchMove(t)
    BY <1>0, <1>1, <2>1, Positions DEF WatchMove, Watched, Borrows
  <2>5. CheckMove(t)
    BY <1>0, <1>1 DEF CheckMove, WillCheck, UnparkDone
  <2>6. CleanMove(t)
    BY <1>0, <1>1, Positions DEF CleanMove, ThreadPhase
  <2> QED BY <1>0, <1>1, <2>1, <2>2, <2>3, <2>4, <2>5, <2>6 DEF QuietMove
<1>6. queue_lock' = queue_lock \/ {queue_lock, queue_lock'} \subseteq {None, t}
  BY <1>0, <1>1 DEF UnparkDone, ThreadPhase
<1> QED BY <1>1, <1>2, <1>3, <1>4, <1>5, <1>6, OneMoves

LEMMA SleepStep ==
  ASSUME ParkInv, NEW t \in Threads, Sleep(t)
  PROVE  ParkInv'
<1>0. /\ ParkingTypeOK /\ ThreadPhase(t) /\ clock \in Nat /\ pc[t] = "clear"
      /\ log[t] \in Seq(Cells) /\ position[t] \in Nat /\ Len(log[t]) \in Nat
      /\ pin_epoch[t] \in Nat /\ sync_epoch[t] \in Nat
  BY ThreadTypes DEF Sleep
<1>1. /\ pc'[t] = "parked" /\ log'[t] = log[t] /\ position'[t] = position[t]
      /\ thread_epoch'[t] = thread_epoch[t] /\ pin_epoch'[t] = pin_epoch[t]
      /\ sync_epoch'[t] = sync_epoch[t] /\ has_parked'[t] = has_parked[t]
      /\ undo_word'[t] = undo_word[t] /\ park_statuses'[t] = {}
      /\ unchecked'[t] = unchecked[t]
      /\ queue' = queue \cup {t} /\ queue_lock' = None
      /\ clock' = clock /\ epoch_lock' = epoch_lock
      /\ unlinked' = unlinked /\ freed' = freed
  BY <1>0 DEF ParkingTypeOK, Sleep, Goto, words, pins, commit, heap
<1>2. \A s \in Threads : s # t => SameThread(s)
  BY <1>0 DEF ParkingTypeOK, SameThread, Sleep, Goto, words, pins, commit, heap
<1>3. ParkingTypeOK'
  BY <1>0, ParkingAssumption
  DEF ParkingTypeOK, Pcs, Sleep, Goto, words, pins, commit, heap
<1>4. ThreadPhase(t)'
  BY <1>0, <1>1, ParkingAssumption DEF ThreadPhase, Pinned, Ticked, Borrows
<1>5. QuietMove(t)
  <2>1. position[t] = Len(log[t]) + 1
    BY <1>0 DEF ThreadPhase, Sleep
  <2>2. Held(t)' = Held(t) /\ Held(t) = {} /\ Watched(t)' = Watched(t)
    BY <1>0, <1>1, <2>1 DEF Held, Watched
  <2>3. TickMove(t) /\ ReleaseMove(t) /\ BorrowMove(t)
    BY <1>0, <1>1 DEF TickMove, ReleaseMove, BorrowMove, Ticked, Borrows,
       Released
  <2>4. WatchMove(t)
    BY <1>0, <1>1, <2>2, Positions DEF WatchMove, Borrows
  <2>5. CheckMove(t) /\ CleanMove(t)
    BY <1>0, <1>1 DEF CheckMove, WillCheck, CleanMove
  <2> QED BY <1>0, <1>1, <2>2, <2>3, <2>4, <2>5 DEF QuietMove
<1>6. queue_lock = t
  BY <1>0 DEF ThreadPhase
<1>7. PhaseInv'
  BY <1>0, <1>1, <1>2, <1>4, <1>6, PhasesKept
<1>8. \A s \in Threads : park_statuses'[s] = {}
  <2> SUFFICES ASSUME NEW s \in Threads, s # t PROVE park_statuses'[s] = {}
    BY <1>1
  <2>1. ThreadPhase(s) /\ queue_lock # s /\ SameThread(s)
    BY <1>2, <1>6 DEF ParkInv, PhaseInv
  <2> QED BY <2>1 DEF ThreadPhase, SameThread
<1>9. \A s \in Threads : QuietMove(s)
  BY <1>2, <1>5, SameQuiet
<1> QED BY <1>1, <1>3, <1>7, <1>8, <1>9, QuietStep

(* A sleeper is woken, or all that it has borrowed is still valid.         *)
LEMMA UnparkFilterStep ==
  ASSUME ParkInv, NEW t \in Threads, NEW u \in Threads, UnparkFilter(t, u)
  PROVE  ParkInv'
<1>0. /\ ParkingTypeOK /\ ThreadPhase(t) /\ ThreadPhase(u) /\ clock \in Nat
      /\ pc[t] = "filter" /\ u \in unchecked[t]
  BY DEF ParkInv, PhaseInv, ParkingTypeOK, UnparkFilter
<1>1. u \in queue /\ pc[u] = "parked" /\ t # u /\ t \notin queue
  BY <1>0 DEF ThreadPhase
<1>2. /\ unchecked' = [unchecked EXCEPT ![t] = @ \ {u}]
      /\ log' = log /\ position' = position /\ thread_epoch' = thread_epoch
      /\ pin_epoch' = pin_epoch /\ reached' = reached /\ sync_epoch' = sync_epoch
      /\ has_parked' = has_parked /\ undo_word' = undo_word
      /\ park_statuses' = park_statuses /\ queue_lock' = queue_lock
      /\ clock' = clock /\ epoch_lock' = epoch_lock
      /\ unlinked' = unlinked /\ freed' = freed
  BY DEF UnparkFilter, words, pins, commit, heap
<1>3. \/ should_unpark(u) /\ queue' = queue \ {u} /\ pc' = [pc EXCEPT ![u] = "wake"]
      \/ ~ should_unpark(u) /\ queue' = queue /\ pc' = pc
  BY DEF UnparkFilter, Goto
<1>4. ParkingTypeOK'
  BY <1>0, <1>2, <1>3 DEF ParkingTypeOK, Pcs
<1>5. /\ unchecked'[t] = unchecked[t] \ {u} /\ pc'[t] = pc[t]
      /\ \A s \in Threads : s # t => unchecked'[s] = unchecked[s]
      /\ \A s \in Threads : s # u => pc'[s] = pc[s]
      /\ pc'[u] = "wake" \/ (pc'[u] = pc[u] /\ ~ should_unpark(u))
  BY <1>0, <1>1, <1>2, <1>3 DEF ParkingTypeOK
<1>6. \A s \in Threads : s # t /\ s # u => SameThread(s)
  BY <1>2, <1>5 DEF SameThread
<1>7. PhaseInv'
  <2>1. ThreadPhase(t)'
    <3>1. unchecked'[t] \subseteq queue' /\ t \notin queue'
      BY <1>0, <1>1, <1>3, <1>5 DEF ThreadPhase
    <3> QED BY <1>0, <1>1, <1>2, <1>5, <3>1 DEF ThreadPhase, Pinned, Ticked,
               Borrows
  <2>2. ThreadPhase(u)'
    <3>1. u \in queue' <=> pc'[u] = "parked"
      BY <1>0, <1>1, <1>3 DEF ParkingTypeOK
    <3> QED BY <1>0, <1>1, <1>2, <1>5, <3>1 DEF ThreadPhase, Pinned, Ticked,
               Borrows
  <2>3. ASSUME NEW s \in Threads, s # t, s # u PROVE ThreadPhase(s)'
    <3>1. ThreadPhase(s) /\ queue_lock = t
      BY <1>0 DEF ParkInv, PhaseInv, ThreadPhase
    <3>2. pc[s] # "filter"
      BY <2>3, <3>1 DEF ThreadPhase
    <3>3. s \in queue' <=> s \in queue
      BY <1>3, <2>3
    <3>4. clock <= clock' /\ clock' \in Nat
      BY <1>0, <1>2
    <3> QED BY <1>2, <1>6, <2>3, <3>2, <3>3, <3>4, PhaseKept
  <2> QED BY <2>1, <2>2, <2>3 DEF PhaseInv
<1>8. Watched(u)' \subseteq Watched(u)
  BY <1>1, <1>2, <1>5 DEF Watched
<1>9. QuietMove(u)
  <2>1. Held(u)' = Held(u) /\ Held(u) = {} /\ WatchMove(u)
    BY <1>0, <1>1, <1>2, <1>5, <1>8, Positions DEF Held, WatchMove, Borrows
  <2>2. TickMove(u) /\ ReleaseMove(u) /\ BorrowMove(u) /\ CheckMove(u)
    BY <1>0, <1>1, <1>2, <1>5
    DEF TickMove, ReleaseMove, Released, Ticked, BorrowMove, Borrows,
       CheckMove, WillCheck
  <2>3. CleanMove(u)
    BY <1>0, <1>2, Positions DEF CleanMove
  <2> QED BY <1>1, <1>2, <1>5, <1>8, <2>1, <2>2, <2>3 DEF QuietMove
<1>10. QuietMove(t)
  <2>1. /\ Held(t)' = Held(t) /\ Watched(t)' = Watched(t) /\ Watched(t) = {}
        /\ Held(t) = {} /\ Released(t)' = Released(t)
    BY <1>0, <1>2, <1>5 DEF Held, Watched, Released
  <2>2. TickMove(t) /\ ReleaseMove(t) /\ BorrowMove(t) /\ WatchMove(t)
    BY <1>0, <1>2, <1>5, <2>1 DEF TickMove, ReleaseMove, Ticked, BorrowMove,
       Borrows, WatchMove
  <2>3. CleanMove(t)
    BY <1>0, <1>2, Positions DEF CleanMove
  <2>4. CheckMove(t)
    <3> SUFFICES ASSUME NEW v \in Threads, WillCheck(t, v),
                        NEW k \in Watched(v), k \in Watched(v)',
                        newer(epoch_lock[log[v][k]], pin_epoch[v])
                 PROVE  WillCheck(t, v)'
      BY <1>2 DEF CheckMove
    <3>1. has_parked[t] /\ v \in unchecked[t]
      BY <1>0 DEF WillCheck
    <3>2. v # u
      <4> SUFFICES ASSUME v = u PROVE FALSE
        OBVIOUS
      <4>1. pc'[u] # "wake"
        BY DEF Watched
      <4>2. ~ should_unpark(u)
        BY <1>5, <4>1
      <4>3. k \in DOMAIN log[u] /\ log[u][k] \in Cells
        BY PositionsOfAll
      <4>4. pin_epoch[u] >= epoch_lock[log[u][k]]
        BY <4>2, <4>3 DEF should_unpark, valid, read_write_valid, Cellsof
      <4>5. /\ pin_epoch[u] \in Nat /\ epoch_lock[log[u][k]] \in Nat
            /\ pin_epoch[u] <= clock /\ clock < LOCK_BIT
        BY <1>0, <4>3 DEF ParkingTypeOK, ParkInv, WordInv
      <4> QED BY <1>0, <4>4, <4>5, EpochFacts DEF newer, unlocked, lock_bit_set
    <3> QED BY <1>0, <1>2, <1>5, <3>1, <3>2 DEF WillCheck
  <2> QED BY <1>0, <1>2, <1>5, <2>1, <2>2, <2>3, <2>4 DEF QuietMove
<1>11. \A s \in Threads : QuietMove(s)
  BY <1>6, <1>9, <1>10, SameQuiet
<1>12. queue' \subseteq queue
  BY <1>3
<1> QED BY <1>2, <1>4, <1>7, <1>11, <1>12, QuietStep

-----------------------------------------------------------------------------
(* The steps that change a bit of a word and not its time.                 *)
LEMMA WordBounds ==
  ASSUME ParkInv
  PROVE  /\ clock \in Nat /\ clock < LOCK_BIT
         /\ \A c \in Cells : epoch_lock[c] \in Nat /\ unlocked(epoch_lock[c]) < LOCK_BIT
<1>1. clock \in Nat /\ clock < LOCK_BIT
  BY DEF ParkInv, ParkingTypeOK, WordInv
<1>2. ASSUME NEW c \in Cells
      PROVE  epoch_lock[c] \in Nat /\ unlocked(epoch_lock[c]) < LOCK_BIT
  <2>1. epoch_lock[c] \in Nat /\ ~ newer(epoch_lock[c], clock)
    BY DEF ParkInv, ParkingTypeOK, WordInv
  <2> QED BY <1>1, <2>1, EpochFacts DEF newer, unlocked, lock_bit_set
<1> QED BY <1>1, <1>2

LEMMA ValidWord ==
  ASSUME ParkInv, NEW t \in Threads, NEW c \in Cells,
         read_write_valid(pin_epoch[t], epoch_lock[c])
  PROVE  ~ lock_bit_set(epoch_lock[c]) /\ ~ newer(epoch_lock[c], pin_epoch[t])
<1>1. /\ pin_epoch[t] \in Nat /\ pin_epoch[t] <= clock
      /\ clock \in Nat /\ clock < LOCK_BIT /\ epoch_lock[c] \in Nat
  BY DEF ParkInv, ParkingTypeOK, WordInv
<1> QED BY <1>1, EpochFacts DEF read_write_valid, lock_bit_set, newer, unlocked

LEMMA WordStep ==
  ASSUME ParkInv, ParkingTypeOK', NEW t \in Threads, ThreadPhase(t)',
         \A s \in Threads : s # t => SameThread(s),
         TimesKept, TickMove(t), ReleaseMove(t), BorrowMove(t), WatchMove(t), CheckMove(t), CleanMove(t),
         pin_epoch' = pin_epoch, sync_epoch' = sync_epoch,
         clock' = clock, unlinked' = unlinked, freed' = freed,
         queue' = queue, queue_lock' = queue_lock,
         OwnerInv', UndoInv', ClearInv'
  PROVE  ParkInv'
<1>0. clock \in Nat /\ clock <= clock'
  BY DEF ParkInv, ParkingTypeOK
<1>1. PhaseInv'
  BY <1>0, PhasesKept
<1>2. \A s \in Threads : /\ TickMove(s) /\ ReleaseMove(s) /\ BorrowMove(s)
                         /\ WatchMove(s) /\ CheckMove(s) /\ CleanMove(s)
  BY SameMoves
<1>3. \A s \in Threads : DOMAIN log'[s] = 1..Len(log'[s])
  <2> TAKE s \in Threads
  <2>1. log'[s] \in Seq(Cells)
    BY DEF ParkingTypeOK
  <2> QED BY <2>1, SeqElements
<1>4. WordInv'
  <2>1. \A c \in Cells : ~ newer(epoch_lock'[c], clock)
    BY <1>0 DEF ParkInv, WordInv, TimesKept, SameTime
  <2> QED BY <2>1 DEF ParkInv, WordInv
<1>5. PublishInv' /\ BorrowInv'
  BY <1>2, <1>3, PublishKept, BorrowKept
<1>6. AlarmInv'
  BY <1>2, <1>3, AlarmKept
<1>7. CleanupInv'
  <2>1. queue' \subseteq Threads /\ queue' \subseteq queue
    BY DEF ParkingTypeOK
  <2> QED BY <1>1, <1>2, <1>3, <2>1, CleanupKept
<1>8. FreeInv'
  BY <1>2, FreeKept
<1> QED BY <1>1, <1>4, <1>5, <1>6, <1>7, <1>8 DEF ParkInv

(* The cell whose lock is being undone is held.                            *)
LEMMA UndoHeld ==
  ASSUME ParkInv, NEW s \in Threads, pc[s] = "undo_store"
  PROVE  position[s] - 1 \in Held(s)
<1>1. position[s] \in Nat /\ position[s] > 1
  BY DEF ParkInv, ParkingTypeOK, PhaseInv, ThreadPhase
<1> QED BY <1>1 DEF Held

LEMMA UndoKept ==
  ASSUME ParkInv,
         \A s \in Threads : pc'[s] = "undo_store" =>
           /\ pc[s] = "undo_store" /\ log'[s] = log[s] /\ position'[s] = position[s]
           /\ undo_word'[s] = undo_word[s]
           /\ epoch_lock'[log[s][position[s] - 1]] = epoch_lock[log[s][position[s] - 1]]
  PROVE  UndoInv'
BY DEF ParkInv, UndoInv

(* Bits are cleared in words that are not locked.                          *)
LEMMA BitsCleared ==
  ASSUME ParkInv, NEW t \in Threads, NEW S \in SUBSET Cells,
         \A c \in S : valid(t, c),
         epoch_lock' = [c \in Cells |->
                          IF c \in S /\ unpark_bit_set(epoch_lock[c])
                            THEN clear_unpark_bit(epoch_lock[c])
                            ELSE epoch_lock[c]]
  PROVE  /\ epoch_lock' \in [Cells -> Nat]
         /\ TimesKept
         /\ \A c \in Cells : /\ (lock_bit_set(epoch_lock'[c]) <=> lock_bit_set(epoch_lock[c]))
                             /\ unpark_bit_set(epoch_lock'[c]) => unpark_bit_set(epoch_lock[c])
                             /\ lock_bit_set(epoch_lock[c]) => epoch_lock'[c] = epoch_lock[c]
         /\ \A c \in S : ~ unpark_bit_set(epoch_lock'[c]) /\ ~ newer(epoch_lock[c], pin_epoch[t])
<1>1. ASSUME NEW c \in Cells
      PROVE  /\ epoch_lock'[c] \in Nat
             /\ SameTime(epoch_lock'[c], epoch_lock[c])
             /\ (lock_bit_set(epoch_lock'[c]) <=> lock_bit_set(epoch_lock[c]))
             /\ unpark_bit_set(epoch_lock'[c]) => unpark_bit_set(epoch_lock[c])
             /\ lock_bit_set(epoch_lock[c]) => epoch_lock'[c] = epoch_lock[c]
             /\ c \in S => ~ unpark_bit_set(epoch_lock'[c]) /\ ~ newer(epoch_lock[c], pin_epoch[t])
  <2>0. epoch_lock[c] \in Nat /\ unlocked(epoch_lock[c]) < LOCK_BIT
    BY WordBounds
  <2>1. c \in S => ~ lock_bit_set(epoch_lock[c]) /\ ~ newer(epoch_lock[c], pin_epoch[t])
    BY ValidWord DEF valid
  <2>2. CASE c \in S /\ unpark_bit_set(epoch_lock[c])
    <3>1. epoch_lock'[c] = clear_unpark_bit(epoch_lock[c])
      BY <2>2
    <3> QED BY <2>0, <2>1, <2>2, <3>1, ClearedWord
  <2>3. CASE ~ (c \in S /\ unpark_bit_set(epoch_lock[c]))
    <3>1. epoch_lock'[c] = epoch_lock[c]
      BY <2>3
    <3> QED BY <2>0, <2>1, <2>3, <3>1 DEF SameTime
  <2> QED BY <2>2, <2>3
<1>2. epoch_lock' \in [Cells -> Nat]
  <2>1. epoch_lock' = [c \in Cells |-> epoch_lock'[c]]
    OBVIOUS
  <2> QED BY <1>1, <2>1
<1> QED BY <1>1, <1>2 DEF TimesKept

(* One bit, or all of them in a hardware transaction.                      *)
LEMMA ClearStep ==
  ASSUME ParkInv, ParkingTypeOK', NEW t \in Threads, NEW S \in SUBSET Cells,
         \A s \in Threads : s # t => SameThread(s),
         \A c \in S : valid(t, c),
         epoch_lock' = [c \in Cells |->
                          IF c \in S /\ unpark_bit_set(epoch_lock[c])
                            THEN clear_unpark_bit(epoch_lock[c])
                            ELSE epoch_lock[c]],
         pc[t] = "clear", pc' = pc, log' = log, pin_epoch' = pin_epoch,
         sync_epoch' = sync_epoch, thread_epoch' = thread_epoch, has_parked' = has_parked,
         undo_word' = undo_word, unchecked' = unchecked,
         clock' = clock, unlinked' = unlinked, freed' = freed,
         queue' = queue, queue_lock' = queue_lock,
         position'[t] \in 1..(Len(log[t]) + 1),
         \A k \in 1..(position'[t] - 1) : k < position[t] \/ log[t][k] \in S,
         \A i \in park_statuses'[t] : /\ 1 <= i /\ i < position'[t]
                                      /\ \/ i \in park_statuses[t]
                                         \/ unpark_bit_set(epoch_lock[log[t][i]])
  PROVE  ParkInv'
<1>0. /\ ThreadPhase(t) /\ ParkingTypeOK /\ position[t] \in Nat /\ position'[t] \in Nat
      /\ Len(log[t]) \in Nat /\ DOMAIN log[t] = 1..Len(log[t])
      /\ park_statuses'[t] \in SUBSET Nat
  BY PositionsOfAll DEF ParkInv, PhaseInv, ParkingTypeOK
<1>1. /\ TimesKept
      /\ \A c \in Cells : /\ (lock_bit_set(epoch_lock'[c]) <=> lock_bit_set(epoch_lock[c]))
                          /\ unpark_bit_set(epoch_lock'[c]) => unpark_bit_set(epoch_lock[c])
                          /\ lock_bit_set(epoch_lock[c]) => epoch_lock'[c] = epoch_lock[c]
      /\ \A c \in S : ~ unpark_bit_set(epoch_lock'[c]) /\ ~ newer(epoch_lock[c], pin_epoch[t])
  BY BitsCleared
<1>2. ThreadPhase(t)'
  BY <1>0 DEF ThreadPhase, Pinned, Ticked, Borrows
<1>3. Held(t) = {} /\ Held(t)' = {} /\ Watched(t) = 1..(position[t] - 1)
      /\ Watched(t)' = 1..(position'[t] - 1)
  BY DEF Held, Watched
<1>4. TickMove(t) /\ ReleaseMove(t) /\ BorrowMove(t) /\ CheckMove(t)
  BY DEF TickMove, ReleaseMove, Released, Ticked, BorrowMove, Borrows,
     CheckMove, WillCheck
<1>5. ASSUME NEW k \in Watched(t)' PROVE k \in DOMAIN log[t] /\ (k \in Watched(t) \/ log[t][k] \in S)
  <2> DEFINE n == Len(log[t])
  <2>1. k \in 1..(position'[t] - 1) /\ position'[t] \in 1..(n + 1) /\ n \in Nat
    BY <1>0, <1>3
  <2>2. k \in 1..n
    BY <2>1
  <2>3. k < position[t] => k \in 1..(position[t] - 1)
    BY <1>0, <2>1
  <2> QED BY <1>0, <1>3, <2>1, <2>2, <2>3
<1>6. WatchMove(t)
  BY <1>1, <1>5 DEF WatchMove, Borrows
<1>7. CleanMove(t)
  <2> SUFFICES ASSUME NEW i \in park_statuses'[t] PROVE i \in DOMAIN log[t]
    BY DEF CleanMove
  <2> DEFINE n == Len(log[t])
  <2>1. position'[t] \in 1..(n + 1) /\ n \in Nat /\ i \in Nat /\ 1 <= i /\ i < position'[t]
    BY <1>0
  <2>2. i \in 1..n
    BY <2>1
  <2> QED BY <1>0, <2>2
<1>8. OwnerInv'
  <2>1. \A s \in Threads : Held(s)' = Held(s)
    BY <1>3, SameSets
  <2> QED BY <1>1, <2>1, OwnerKept
<1>9. UndoInv'
  <2>1. ASSUME NEW s \in Threads, pc'[s] = "undo_store"
        PROVE  /\ pc[s] = "undo_store" /\ log'[s] = log[s] /\ position'[s] = position[s]
               /\ undo_word'[s] = undo_word[s]
               /\ epoch_lock'[log[s][position[s] - 1]] = epoch_lock[log[s][position[s] - 1]]
    <3>1. s # t /\ SameThread(s) /\ pc[s] = "undo_store"
      BY <2>1
    <3>2. position[s] - 1 \in Held(s)
      BY <3>1, UndoHeld
    <3>3. log[s][position[s] - 1] \in Cells /\ lock_bit_set(epoch_lock[log[s][position[s] - 1]])
      BY <3>2, PositionsOfAll DEF ParkInv, OwnerInv
    <3> QED BY <1>1, <3>1, <3>3 DEF SameThread
  <2> QED BY <2>1, UndoKept
<1>10. ClearInv'
  <2>1. \A s \in Threads : WatchMove(s)
    BY <1>6, SameMoves
  <2>2. \A s \in Threads : \A k \in Watched(s)' \ Watched(s) :
           ~ unpark_bit_set(epoch_lock'[log'[s][k]])
    BY <1>1, <1>5, SameSets
  <2> QED BY <1>1, <2>1, <2>2, ClearKept
<1> QED BY <1>1, <1>2, <1>4, <1>6, <1>7, <1>8, <1>9, <1>10, WordStep

LEMMA ClearAllHtmStep ==
  ASSUME ParkInv, NEW t \in Threads, ClearAllHtm(t)
  PROVE  ParkInv'
<1>0. /\ ParkingTypeOK /\ ThreadPhase(t) /\ pc[t] = "clear" /\ position[t] = 1
      /\ log[t] \in Seq(Cells) /\ Len(log[t]) \in Nat
      /\ park_statuses[t] \in SUBSET Nat /\ DOMAIN log[t] = 1..Len(log[t])
  BY PositionsOfAll DEF ParkInv, PhaseInv, ParkingTypeOK, ClearAllHtm
<1> DEFINE S == Cellsof(log[t])
<1>1. S \in SUBSET Cells
  BY PositionsOfAll DEF Cellsof
<1>2. /\ \A c \in S : valid(t, c)
      /\ epoch_lock' = [c \in Cells |->
                          IF c \in S /\ unpark_bit_set(epoch_lock[c])
                            THEN clear_unpark_bit(epoch_lock[c])
                            ELSE epoch_lock[c]]
      /\ pc' = pc /\ log' = log /\ pin_epoch' = pin_epoch /\ reached' = reached
      /\ sync_epoch' = sync_epoch /\ thread_epoch' = thread_epoch
      /\ has_parked' = has_parked /\ undo_word' = undo_word /\ unchecked' = unchecked
      /\ clock' = clock /\ unlinked' = unlinked /\ freed' = freed
      /\ queue' = queue /\ queue_lock' = queue_lock /\ park_statuses' = park_statuses
      /\ position' = [position EXCEPT ![t] = Len(log[t]) + 1]
  BY DEF ClearAllHtm, pins, parking, commit, heap
<1>3. position'[t] = Len(log[t]) + 1
  BY <1>0, <1>2 DEF ParkingTypeOK
<1>4. \A s \in Threads : s # t => SameThread(s)
  BY <1>0, <1>2 DEF ParkingTypeOK, SameThread
<1>5. ParkingTypeOK'
  <2>1. epoch_lock' \in [Cells -> Nat]
    BY <1>1, <1>2, BitsCleared
  <2> QED BY <1>0, <1>2, <2>1 DEF ParkingTypeOK
<1>6. park_statuses'[t] = {}
  BY <1>0, <1>2 DEF ThreadPhase
<1>7. position'[t] \in 1..(Len(log[t]) + 1)
  BY <1>0, <1>3
<1>8. \A k \in 1..(position'[t] - 1) : log[t][k] \in S
  BY <1>0, <1>3 DEF Cellsof
<1> QED BY <1>0, <1>1, <1>2, <1>4, <1>5, <1>6, <1>7, <1>8, ClearStep

LEMMA TryClearUnparkBitStep ==
  ASSUME ParkInv, NEW t \in Threads, TryClearUnparkBit(t)
  PROVE  ParkInv'
<1> DEFINE c == log[t][position[t]]
<1>0. /\ ParkingTypeOK /\ ThreadPhase(t) /\ pc[t] = "clear" /\ position[t] <= Len(log[t])
      /\ log[t] \in Seq(Cells) /\ Len(log[t]) \in Nat /\ position[t] \in Nat
      /\ park_statuses[t] \in SUBSET Nat /\ DOMAIN log[t] = 1..Len(log[t])
  BY PositionsOfAll DEF ParkInv, PhaseInv, ParkingTypeOK, TryClearUnparkBit
<1>1. position[t] \in DOMAIN log[t] /\ 1 <= position[t]
  BY <1>0 DEF ThreadPhase
<1>2. c \in Cells /\ {c} \in SUBSET Cells
  BY <1>1, PositionsOfAll
<1>3. /\ valid(t, c)
      /\ pc' = pc /\ log' = log /\ pin_epoch' = pin_epoch /\ reached' = reached
      /\ sync_epoch' = sync_epoch /\ thread_epoch' = thread_epoch
      /\ has_parked' = has_parked /\ undo_word' = undo_word /\ unchecked' = unchecked
      /\ clock' = clock /\ unlinked' = unlinked /\ freed' = freed
      /\ queue' = queue /\ queue_lock' = queue_lock
      /\ position' = [position EXCEPT ![t] = @ + 1]
  BY DEF TryClearUnparkBit, Current, pins, commit, heap
<1>4. \/ /\ unpark_bit_set(epoch_lock[c])
         /\ epoch_lock' = [epoch_lock EXCEPT ![c] = clear_unpark_bit(@)]
         /\ park_statuses' = [park_statuses EXCEPT ![t] = @ \cup {position[t]}]
      \/ /\ ~ unpark_bit_set(epoch_lock[c])
         /\ epoch_lock' = epoch_lock /\ park_statuses' = park_statuses
  BY DEF TryClearUnparkBit, Current
<1>5. epoch_lock' = [d \in Cells |->
                       IF d \in {c} /\ unpark_bit_set(epoch_lock[d])
                         THEN clear_unpark_bit(epoch_lock[d])
                         ELSE epoch_lock[d]]
  BY <1>0, <1>2, <1>4 DEF ParkingTypeOK
<1>a. park_statuses \in [Threads -> SUBSET Nat] /\ position \in [Threads -> Nat]
  BY <1>0 DEF ParkingTypeOK
<1>b. \/ unpark_bit_set(epoch_lock[c]) /\ park_statuses'[t] = park_statuses[t] \cup {position[t]}
      \/ park_statuses'[t] = park_statuses[t]
  BY <1>4, <1>a
<1>6. /\ position'[t] = position[t] + 1
      /\ \A s \in Threads : s # t => park_statuses'[s] = park_statuses[s]
      /\ \A i \in park_statuses'[t] :
           \/ i \in park_statuses[t]
           \/ i = position[t] /\ unpark_bit_set(epoch_lock[c])
  <2>1. position'[t] = position[t] + 1
    BY <1>3, <1>a
  <2>2. \A s \in Threads : s # t => park_statuses'[s] = park_statuses[s]
    BY <1>4, <1>a
  <2> HIDE DEF c
  <2>3. ASSUME NEW i \in park_statuses'[t], i \notin park_statuses[t]
        PROVE  i = position[t] /\ unpark_bit_set(epoch_lock[c])
    BY <1>b, <2>3
  <2> QED BY <2>1, <2>2, <2>3
<1>7. \A s \in Threads : s # t => SameThread(s)
  BY <1>0, <1>3, <1>6 DEF ParkingTypeOK, SameThread
<1>8. ParkingTypeOK'
  <2>1. epoch_lock' \in [Cells -> Nat]
    BY <1>2, <1>3, <1>5, BitsCleared
  <2>2. position' \in [Threads -> Nat]
    BY <1>3, <1>a
  <2>3. park_statuses' \in [Threads -> SUBSET Nat]
    <3>1. park_statuses[t] \cup {position[t]} \in SUBSET Nat
      BY <1>0
    <3> QED BY <1>4, <1>a, <3>1
  <2> QED BY <1>0, <1>3, <2>1, <2>2, <2>3 DEF ParkingTypeOK
<1>9. position'[t] \in 1..(Len(log[t]) + 1)
  BY <1>0, <1>1, <1>6
<1>10. \A k \in 1..(position'[t] - 1) : k < position[t] \/ log[t][k] \in {c}
  BY <1>0, <1>6
<1>11. ASSUME NEW i \in park_statuses'[t]
       PROVE  /\ 1 <= i /\ i < position'[t]
              /\ i \in park_statuses[t] \/ unpark_bit_set(epoch_lock[log[t][i]])
  <2>1. CASE i \in park_statuses[t]
    <3>1. 1 <= i /\ i < position[t] /\ i \in Nat
      BY <1>0, <2>1 DEF ThreadPhase
    <3> QED BY <1>0, <1>6, <2>1, <3>1
  <2>2. CASE i = position[t] /\ unpark_bit_set(epoch_lock[c])
    BY <1>0, <1>1, <1>6, <2>2
  <2> QED BY <1>6, <2>1, <2>2
<1>12. \A d \in {c} : valid(t, d)
  BY <1>3
<1> HIDE DEF c
<1> QED BY <1>0, <1>2, <1>3, <1>5, <1>7, <1>8, <1>9, <1>10, <1>11, <1>12,
           ClearStep

(* The bit is set again, in a cell that no sleeper relies on.              *)
LEMMA CleanupStep ==
  ASSUME ParkInv, NEW t \in Threads, NEW i \in DOMAIN log[t], Cleanup(t, i)
  PROVE  ParkInv'
<1> DEFINE c == log[t][i]
<1>0. /\ ParkingTypeOK /\ ThreadPhase(t) /\ pc[t] = "cleanup" /\ i \in park_statuses[t]
      /\ park_statuses \in [Threads -> SUBSET Nat] /\ epoch_lock \in [Cells -> Nat]
  BY DEF ParkInv, PhaseInv, ParkingTypeOK, Cleanup, cleared_by_us
<1>1. c \in Cells
  BY PositionsOfAll
<1>2. /\ pc' = pc /\ log' = log /\ pin_epoch' = pin_epoch /\ reached' = reached /\ position' = position
      /\ sync_epoch' = sync_epoch /\ thread_epoch' = thread_epoch
      /\ has_parked' = has_parked /\ undo_word' = undo_word /\ unchecked' = unchecked
      /\ clock' = clock /\ unlinked' = unlinked /\ freed' = freed
      /\ queue' = queue /\ queue_lock' = queue_lock
      /\ epoch_lock' = [epoch_lock EXCEPT ![c] = set_unpark_bit(@)]
      /\ park_statuses' = [park_statuses EXCEPT ![t] = @ \ {i}]
  BY DEF Cleanup, pins, commit, heap
<1>3. /\ epoch_lock'[c] = set_unpark_bit(epoch_lock[c])
      /\ \A d \in Cells : d # c => epoch_lock'[d] = epoch_lock[d]
      /\ park_statuses'[t] = park_statuses[t] \ {i}
      /\ \A s \in Threads : s # t => park_statuses'[s] = park_statuses[s]
  BY <1>0, <1>1, <1>2
<1>4. /\ set_unpark_bit(epoch_lock[c]) \in Nat
      /\ unpark_bit_set(epoch_lock'[c])
      /\ (lock_bit_set(epoch_lock'[c]) <=> lock_bit_set(epoch_lock[c]))
      /\ SameTime(epoch_lock'[c], epoch_lock[c])
      /\ \/ epoch_lock'[c] = epoch_lock[c]
         \/ ~ unpark_bit_set(epoch_lock[c]) /\ epoch_lock[c] = epoch_lock'[c] - UNPARK_BIT
  BY <1>1, <1>3, WordBounds, SetWord
<1> HIDE DEF c
<1>5. TimesKept
  BY <1>3, <1>4 DEF TimesKept, SameTime
<1>6. ParkingTypeOK'
  <2>1. epoch_lock' \in [Cells -> Nat] /\ park_statuses' \in [Threads -> SUBSET Nat]
    BY <1>0, <1>2, <1>3, <1>4
  <2> QED BY <1>0, <1>2, <2>1 DEF ParkingTypeOK
<1>7. \A s \in Threads : s # t => SameThread(s)
  BY <1>2, <1>3 DEF SameThread
<1>8. ThreadPhase(t)'
  BY <1>0, <1>2, <1>3 DEF ThreadPhase, Pinned, Ticked, Borrows
<1>9. /\ Held(t) = {} /\ Held(t)' = {} /\ Watched(t) = {} /\ Watched(t)' = {}
      /\ ~ Ticked(t)' /\ ~ WillCheck(t, t) /\ \A u \in Threads : ~ WillCheck(t, u)
  BY <1>0, <1>2 DEF Held, Watched, Ticked, WillCheck
<1>10. TickMove(t) /\ ReleaseMove(t) /\ BorrowMove(t) /\ CheckMove(t) /\ WatchMove(t)
  BY <1>0, <1>2, <1>9 DEF TickMove, ReleaseMove, Released, BorrowMove, Borrows,
     CheckMove, WatchMove
<1>11. CleanMove(t)
  <2>1. park_statuses[t] \subseteq DOMAIN log[t]
    BY PositionsOfAll
  <2> QED BY <1>2, <1>3, <2>1 DEF CleanMove
<1>12. OwnerInv'
  <2>1. \A s \in Threads : Held(s)' = Held(s)
    BY <1>7, <1>9, SameSets
  <2>2. \A d \in Cells : (lock_bit_set(epoch_lock'[d]) <=> lock_bit_set(epoch_lock[d]))
    BY <1>3, <1>4
  <2>3. \A d \in Cells : lock_bit_set(epoch_lock[d]) /\ unpark_bit_set(epoch_lock[d]) =>
                           unpark_bit_set(epoch_lock'[d])
    BY <1>3, <1>4
  <2> QED BY <1>2, <1>5, <2>1, <2>2, <2>3, OwnerKept
<1>13. UndoInv'
  <2> SUFFICES ASSUME NEW s \in Threads, pc[s] = "undo_store"
               PROVE  LET word == epoch_lock'[log[s][position[s] - 1]]
                      IN  \/ undo_word[s] = word
                          \/ unpark_bit_set(word) /\ undo_word[s] = word - UNPARK_BIT
    BY <1>2 DEF UndoInv
  <2> DEFINE d == log[s][position[s] - 1]
  <2>1. \/ undo_word[s] = epoch_lock[d]
        \/ unpark_bit_set(epoch_lock[d]) /\ undo_word[s] = epoch_lock[d] - UNPARK_BIT
    BY DEF ParkInv, UndoInv
  <2>2. d \in Cells
    BY UndoHeld, PositionsOfAll
  <2> HIDE DEF d
  <2>3. \/ undo_word[s] = epoch_lock'[d]
        \/ unpark_bit_set(epoch_lock'[d]) /\ undo_word[s] = epoch_lock'[d] - UNPARK_BIT
    <3>1. CASE d # c
      BY <1>3, <2>1, <2>2, <3>1
    <3>2. CASE d = c
      BY <1>4, <2>1, <3>2
    <3> QED BY <3>1, <3>2
  <2> QED BY <2>3 DEF d
<1>14. ClearInv'
  <2> SUFFICES ASSUME NEW u \in Threads, NEW k \in Watched(u)'
               PROVE  \/ newer(epoch_lock'[log[u][k]], pin_epoch[u])
                      \/ ~ unpark_bit_set(epoch_lock'[log[u][k]])
    BY <1>2 DEF ClearInv
  <2>1. u # t /\ k \in Watched(u) /\ k \in DOMAIN log[u] /\ log[u][k] \in Cells
    BY <1>7, <1>9, SameSets, PositionsOfAll
  <2>2. \/ newer(epoch_lock[log[u][k]], pin_epoch[u])
        \/ ~ unpark_bit_set(epoch_lock[log[u][k]])
    BY <2>1 DEF ParkInv, ClearInv
  <2>3. CASE log[u][k] # c
    BY <1>3, <2>1, <2>2, <2>3
  <2>4. CASE log[u][k] = c
    <3>1. ThreadPhase(u) /\ queue_lock = t
      BY <1>0 DEF ParkInv, PhaseInv, ThreadPhase
    <3>2. pc[u] # "clear"
      BY <2>1, <3>1 DEF ThreadPhase
    <3>3. u \in queue
      BY <2>1, <3>1, <3>2 DEF Watched, ThreadPhase
    <3>4. newer(epoch_lock[c], pin_epoch[u])
      BY <1>0, <2>1, <2>4, <3>3 DEF ParkInv, CleanupInv, c
    <3> QED BY <1>1, <1>5, <2>4, <3>4, NewerKept
  <2> QED BY <2>3, <2>4
<1> QED BY <1>2, <1>5, <1>6, <1>7, <1>8, <1>10, <1>11, <1>12, <1>13, <1>14,
           WordStep

(* OwnerInv and UndoInv, when only t locks or unlocks, and only cell c.    *)
LEMMA OthersKeep ==
  ASSUME ParkInv, NEW t \in Threads, NEW c \in Cells,
         \A s \in Threads : s # t => SameThread(s),
         \A d \in Cells : d # c => epoch_lock'[d] = epoch_lock[d],
         \A s \in Threads : s # t => \A i \in Held(s) : log[s][i] # c
  PROVE  /\ \A s \in Threads : s # t => \A i \in Held(s)' :
              /\ lock_bit_set(epoch_lock'[log'[s][i]])
              /\ ~ newer(epoch_lock'[log'[s][i]], pin_epoch'[s])
              /\ unpark_bit_set(epoch_lock'[log'[s][i]]) \/ has_parked'[s]
         /\ pc'[t] # "undo_store" => UndoInv'
<1>1. ASSUME NEW s \in Threads, s # t, NEW i \in Held(s)'
      PROVE  /\ lock_bit_set(epoch_lock'[log'[s][i]])
             /\ ~ newer(epoch_lock'[log'[s][i]], pin_epoch'[s])
             /\ unpark_bit_set(epoch_lock'[log'[s][i]]) \/ has_parked'[s]
  <2>1. i \in Held(s) /\ SameThread(s)
    BY <1>1, SameSets
  <2>2. log[s][i] \in Cells /\ log[s][i] # c
    BY <1>1, <2>1, PositionsOfAll
  <2>3. /\ lock_bit_set(epoch_lock[log[s][i]])
        /\ ~ newer(epoch_lock[log[s][i]], pin_epoch[s])
        /\ unpark_bit_set(epoch_lock[log[s][i]]) \/ has_parked[s]
    BY <2>1 DEF ParkInv, OwnerInv
  <2> QED BY <2>1, <2>2, <2>3 DEF SameThread
<1>2. ASSUME pc'[t] # "undo_store"
      PROVE  UndoInv'
  <2>1. ASSUME NEW s \in Threads, pc'[s] = "undo_store"
        PROVE  /\ pc[s] = "undo_store" /\ log'[s] = log[s] /\ position'[s] = position[s]
               /\ undo_word'[s] = undo_word[s]
               /\ epoch_lock'[log[s][position[s] - 1]] = epoch_lock[log[s][position[s] - 1]]
    <3>1. s # t /\ SameThread(s) /\ pc[s] = "undo_store"
      BY <1>2, <2>1 DEF SameThread
    <3>2. position[s] - 1 \in Held(s)
      BY <3>1, UndoHeld
    <3>3. log[s][position[s] - 1] \in Cells /\ log[s][position[s] - 1] # c
      BY <3>1, <3>2, PositionsOfAll
    <3> QED BY <3>1, <3>3 DEF SameThread
  <2> QED BY <2>1, UndoKept
<1> QED BY <1>1, <1>2

LEMMA TryLockStep ==
  ASSUME ParkInv, NEW t \in Threads, TryLock(t)
  PROVE  ParkInv'
<1> DEFINE p == position[t]
           c == log[t][p]
<1>0. /\ ParkingTypeOK /\ ThreadPhase(t) /\ pc[t] = "lock" /\ p <= Len(log[t])
      /\ Len(log[t]) \in Nat /\ p \in Nat /\ DOMAIN log[t] = 1..Len(log[t])
      /\ epoch_lock \in [Cells -> Nat] /\ position \in [Threads -> Nat]
      /\ has_parked \in [Threads -> BOOLEAN]
  BY PositionsOfAll DEF ParkInv, PhaseInv, ParkingTypeOK, TryLock
<1>1. p \in DOMAIN log[t] /\ 1 <= p
  BY <1>0 DEF ThreadPhase
<1>2. c \in Cells
  BY <1>1, PositionsOfAll
<1>3. /\ read_write_valid(pin_epoch[t], epoch_lock[c])
      /\ pc' = pc /\ log' = log /\ pin_epoch' = pin_epoch /\ reached' = reached
      /\ sync_epoch' = sync_epoch /\ thread_epoch' = thread_epoch
      /\ undo_word' = undo_word /\ unchecked' = unchecked
      /\ clock' = clock /\ unlinked' = unlinked /\ freed' = freed
      /\ queue' = queue /\ queue_lock' = queue_lock /\ park_statuses' = park_statuses
      /\ epoch_lock' = [epoch_lock EXCEPT ![c] = toggle_lock_bit(@)]
      /\ has_parked' = [has_parked EXCEPT ![t] = merge(@, epoch_lock[c])]
      /\ position' = [position EXCEPT ![t] = @ + 1]
  BY DEF TryLock, Current, lockable, pins, parking, heap
<1>4. ~ lock_bit_set(epoch_lock[c]) /\ ~ newer(epoch_lock[c], pin_epoch[t])
  BY <1>2, <1>3, ValidWord
<1>5. /\ epoch_lock'[c] = toggle_lock_bit(epoch_lock[c])
      /\ \A d \in Cells : d # c => epoch_lock'[d] = epoch_lock[d]
      /\ position'[t] = p + 1
      /\ \A s \in Threads : s # t => /\ position'[s] = position[s]
                                     /\ has_parked'[s] = has_parked[s]
  BY <1>0, <1>2, <1>3
<1>6. /\ has_parked[t] => has_parked'[t]
      /\ unpark_bit_set(epoch_lock[c]) \/ has_parked'[t]
  BY <1>0, <1>3 DEF merge
<1>7. /\ toggle_lock_bit(epoch_lock[c]) \in Nat
      /\ (unpark_bit_set(epoch_lock'[c]) <=> unpark_bit_set(epoch_lock[c]))
      /\ lock_bit_set(epoch_lock'[c])
      /\ SameTime(epoch_lock'[c], epoch_lock[c])
  BY <1>2, <1>4, <1>5, WordBounds, ToggledWord
<1>8. ParkingTypeOK'
  <2>1. epoch_lock' \in [Cells -> Nat]
    <3> DEFINE w == toggle_lock_bit(epoch_lock[c])
    <3>1. epoch_lock' = [epoch_lock EXCEPT ![c] = w] /\ w \in Nat
      BY <1>3, <1>7
    <3> HIDE DEF w, c
    <3> QED BY <1>0, <3>1
  <2>a. position' \in [Threads -> Nat]
    BY <1>0, <1>3
  <2>2. has_parked' \in [Threads -> BOOLEAN]
    BY <1>0, <1>3 DEF merge
  <2> QED BY <1>0, <1>3, <2>1, <2>a, <2>2 DEF ParkingTypeOK
<1> HIDE DEF c
<1>9. TimesKept
  BY <1>5, <1>7 DEF TimesKept, SameTime
<1>10. \A s \in Threads : s # t => SameThread(s)
  BY <1>3, <1>5 DEF SameThread
<1>11. ThreadPhase(t)'
  BY <1>0, <1>1, <1>3, <1>5 DEF ThreadPhase, Pinned, Ticked, Borrows
<1>12. /\ Held(t) = 1..(p - 1) /\ Held(t)' = 1..p /\ Watched(t) = {} /\ Watched(t)' = {}
       /\ ~ Ticked(t)' /\ ~ Borrows(t)' /\ \A u \in Threads : ~ WillCheck(t, u)
  BY <1>0, <1>3, <1>5 DEF Held, Watched, Ticked, Borrows, WillCheck
<1>13. TickMove(t) /\ ReleaseMove(t) /\ BorrowMove(t) /\ CheckMove(t) /\ WatchMove(t)
  BY <1>0, <1>3, <1>12 DEF TickMove, ReleaseMove, Released, BorrowMove,
     CheckMove, WatchMove
<1>14. CleanMove(t)
  BY <1>3, PositionsOfAll DEF CleanMove
<1>15. \A s \in Threads : \A i \in Held(s) : log[s][i] # c
  BY <1>4 DEF ParkInv, OwnerInv
<1>16. UndoInv'
  BY <1>0, <1>2, <1>3, <1>5, <1>10, <1>15, OthersKeep
<1>17. OwnerInv'
  <2>0. \A i \in Held(t)' : i = p \/ i \in Held(t)
    BY <1>0, <1>12
  <2>a. \A s \in Threads : s # t => Held(s)' = Held(s)
    BY <1>10, SameSets
  <2>1. ASSUME NEW d \in Cells, lock_bit_set(epoch_lock'[d])
        PROVE  \E s \in Threads : \E i \in Held(s)' : log'[s][i] = d
    <3>1. CASE d = c
      <4>1. p \in Held(t)' /\ log'[t][p] = c
        BY <1>0, <1>1, <1>3, <1>12 DEF c
      <4> QED BY <3>1, <4>1
    <3>2. CASE d # c
      <4>1. PICK s \in Threads : \E i \in Held(s) : log[s][i] = d
        BY <1>5, <2>1, <3>2 DEF ParkInv, OwnerInv
      <4>2. Held(s) \subseteq Held(s)'
        BY <1>0, <1>12, <2>a
      <4> QED BY <1>3, <4>1, <4>2
    <3> QED BY <3>1, <3>2
  <2>2. ASSUME NEW i \in Held(t)'
        PROVE  /\ lock_bit_set(epoch_lock'[log'[t][i]])
               /\ ~ newer(epoch_lock'[log'[t][i]], pin_epoch'[t])
               /\ unpark_bit_set(epoch_lock'[log'[t][i]]) \/ has_parked'[t]
    <3>1. CASE i = p
      <4>1. log'[t][i] = c
        BY <1>3, <3>1 DEF c
      <4>2. ~ newer(epoch_lock'[c], pin_epoch[t])
        BY <1>2, <1>4, <1>9, NewerKept
      <4> QED BY <1>3, <1>6, <1>7, <4>1, <4>2
    <3>2. CASE i \in Held(t)
      <4>1. log[t][i] \in Cells /\ log[t][i] # c
        BY <1>15, <3>2, PositionsOfAll
      <4>2. /\ lock_bit_set(epoch_lock[log[t][i]])
            /\ ~ newer(epoch_lock[log[t][i]], pin_epoch[t])
            /\ unpark_bit_set(epoch_lock[log[t][i]]) \/ has_parked[t]
        BY <3>2 DEF ParkInv, OwnerInv
      <4> QED BY <1>3, <1>5, <1>6, <4>1, <4>2
    <3> QED BY <2>0, <3>1, <3>2
  <2>3. \A s \in Threads : s # t => \A i \in Held(s)' :
              /\ lock_bit_set(epoch_lock'[log'[s][i]])
              /\ ~ newer(epoch_lock'[log'[s][i]], pin_epoch'[s])
              /\ unpark_bit_set(epoch_lock'[log'[s][i]]) \/ has_parked'[s]
    BY <1>2, <1>5, <1>10, <1>15, OthersKeep
  <2>4. ASSUME NEW r \in Threads, NEW s \in Threads, NEW i \in Held(r)', NEW j \in Held(s)',
               log'[r][i] = log'[s][j]
        PROVE  r = s /\ i = j
    <3>1. /\ i \in Held(r) \/ (r = t /\ i = p /\ log[r][i] = c)
          /\ j \in Held(s) \/ (s = t /\ j = p /\ log[s][j] = c)
      BY <2>0, <2>a DEF c
    <3> QED BY <1>3, <1>15, <2>4, <3>1 DEF ParkInv, OwnerInv
  <2> QED BY <2>1, <2>2, <2>3, <2>4 DEF OwnerInv
<1>18. ClearInv'
  <2>1. \A s \in Threads : WatchMove(s) /\ Watched(s)' = Watched(s)
    BY <1>10, <1>12, <1>13, SameMoves, SameSets
  <2>2. \A d \in Cells : unpark_bit_set(epoch_lock'[d]) => unpark_bit_set(epoch_lock[d])
    BY <1>5, <1>7
  <2> QED BY <1>9, <2>1, <2>2, ClearKept
<1> QED BY <1>3, <1>8, <1>9, <1>10, <1>11, <1>13, <1>14, <1>16, <1>17, <1>18,
           WordStep

LEMMA UndoStoreStep ==
  ASSUME ParkInv, NEW t \in Threads, UndoStore(t)
  PROVE  ParkInv'
<1> DEFINE p == position[t] - 1
           c == log[t][p]
           w == toggle_lock_bit(undo_word[t])
<1>0. /\ ParkingTypeOK /\ ThreadPhase(t) /\ pc[t] = "undo_store" /\ position[t] > 1
      /\ position[t] \in Nat /\ p \in Nat
      /\ epoch_lock \in [Cells -> Nat] /\ position \in [Threads -> Nat]
      /\ undo_word \in [Threads -> Nat] /\ pc \in [Threads -> Pcs]
  <2>1. ParkingTypeOK /\ ThreadPhase(t) /\ pc[t] = "undo_store"
    BY DEF ParkInv, PhaseInv, UndoStore
  <2>2. position[t] > 1
    BY <2>1 DEF ThreadPhase
  <2>3. /\ epoch_lock \in [Cells -> Nat] /\ position \in [Threads -> Nat]
        /\ undo_word \in [Threads -> Nat] /\ pc \in [Threads -> Pcs]
    BY <2>1 DEF ParkingTypeOK
  <2>4. position[t] \in Nat
    BY <2>3
  <2> QED BY <2>1, <2>2, <2>3, <2>4
<1>1. p \in Held(t) /\ p \in DOMAIN log[t] /\ c \in Cells
  BY <1>0, UndoHeld, PositionsOfAll
<1>2. /\ log' = log /\ pin_epoch' = pin_epoch /\ reached' = reached
      /\ sync_epoch' = sync_epoch /\ thread_epoch' = thread_epoch
      /\ has_parked' = has_parked /\ unchecked' = unchecked
      /\ clock' = clock /\ unlinked' = unlinked /\ freed' = freed
      /\ queue' = queue /\ queue_lock' = queue_lock /\ park_statuses' = park_statuses
      /\ epoch_lock' = [epoch_lock EXCEPT ![c] = w]
      /\ undo_word' = [undo_word EXCEPT ![t] = 0]
      /\ position' = [position EXCEPT ![t] = @ - 1]
      /\ pc' = [pc EXCEPT ![t] = "undo"]
  BY DEF UndoStore, Goto, pins, parking, heap
<1>3. lock_bit_set(epoch_lock[c]) /\ ~ newer(epoch_lock[c], pin_epoch[t])
  BY <1>1 DEF ParkInv, OwnerInv
<1>4. /\ w \in Nat /\ ~ lock_bit_set(w) /\ SameTime(w, epoch_lock[c])
      /\ unpark_bit_set(w) => unpark_bit_set(epoch_lock[c])
  <2>0. epoch_lock[c] \in Nat /\ unlocked(epoch_lock[c]) < LOCK_BIT
    BY <1>1, WordBounds
  <2>1. \/ undo_word[t] = epoch_lock[c]
        \/ unpark_bit_set(epoch_lock[c]) /\ undo_word[t] = clear_unpark_bit(epoch_lock[c])
    BY <1>0 DEF ParkInv, UndoInv, clear_unpark_bit
  <2>2. /\ undo_word[t] \in Nat /\ unlocked(undo_word[t]) <= unlocked(epoch_lock[c])
        /\ lock_bit_set(undo_word[t]) /\ SameTime(undo_word[t], epoch_lock[c])
        /\ unpark_bit_set(undo_word[t]) => unpark_bit_set(epoch_lock[c])
    <3>1. CASE undo_word[t] = epoch_lock[c]
      BY <1>3, <2>0, <3>1, EpochFacts DEF SameTime, unlocked, lock_bit_set
    <3>2. CASE unpark_bit_set(epoch_lock[c]) /\ undo_word[t] = clear_unpark_bit(epoch_lock[c])
      BY <1>3, <2>0, <3>2, ClearedWord
    <3> QED BY <2>1, <3>1, <3>2
  <2>3. unlocked(undo_word[t]) < LOCK_BIT
    BY <2>0, <2>2, EpochFacts DEF unlocked, lock_bit_set
  <2>4. /\ w \in Nat /\ ~ lock_bit_set(w) /\ SameTime(w, undo_word[t])
        /\ unpark_bit_set(w) => unpark_bit_set(undo_word[t])
    BY <2>2, <2>3, ToggledWord
  <2> HIDE DEF w
  <2> QED BY <2>2, <2>4 DEF SameTime
<1> HIDE DEF w, c
<1>5. /\ epoch_lock'[c] = w
      /\ \A d \in Cells : d # c => epoch_lock'[d] = epoch_lock[d]
      /\ position'[t] = p /\ pc'[t] = "undo"
      /\ \A s \in Threads : s # t => /\ position'[s] = position[s] /\ pc'[s] = pc[s]
                                     /\ undo_word'[s] = undo_word[s]
  BY <1>0, <1>1, <1>2
<1>6. ParkingTypeOK'
  <2>1. epoch_lock' \in [Cells -> Nat]
    BY <1>0, <1>2, <1>4
  <2>2. position' \in [Threads -> Nat] /\ undo_word' \in [Threads -> Nat]
    BY <1>0, <1>2
  <2>3. pc' \in [Threads -> Pcs]
    BY <1>0, <1>2 DEF Pcs
  <2> QED BY <1>0, <1>2, <2>1, <2>2, <2>3 DEF ParkingTypeOK
<1>7. TimesKept
  BY <1>4, <1>5 DEF TimesKept, SameTime
<1>8. \A s \in Threads : s # t => SameThread(s)
  BY <1>2, <1>5 DEF SameThread
<1>9. ThreadPhase(t)'
  BY <1>0, <1>2, <1>5 DEF ThreadPhase, Pinned, Ticked, Borrows
<1>10. /\ Held(t) = 1..p /\ Held(t)' = 1..(p - 1) /\ Watched(t) = {} /\ Watched(t)' = {}
       /\ ~ Ticked(t)' /\ ~ Borrows(t)' /\ \A u \in Threads : ~ WillCheck(t, u)
  BY <1>0, <1>2, <1>5 DEF Held, Watched, Ticked, Borrows, WillCheck
<1>11. TickMove(t) /\ ReleaseMove(t) /\ BorrowMove(t) /\ CheckMove(t) /\ WatchMove(t)
  BY <1>5, <1>10 DEF TickMove, ReleaseMove, Released, BorrowMove, CheckMove,
     WatchMove
<1>12. CleanMove(t)
  BY <1>2, PositionsOfAll DEF CleanMove
<1>13. \A s \in Threads : \A i \in Held(s) : log[s][i] = c => s = t /\ i = p
  BY <1>1 DEF ParkInv, OwnerInv, c
<1>14. UndoInv'
  <2>1. pc'[t] # "undo_store"
    BY <1>5
  <2> QED BY <1>1, <1>5, <1>8, <1>13, <2>1, OthersKeep
<1>15. OwnerInv'
  <2>0. \A i \in Held(t)' : i \in Held(t) /\ i # p
    BY <1>0, <1>10
  <2>a. \A s \in Threads : s # t => Held(s)' = Held(s)
    BY <1>8, SameSets
  <2>1. ASSUME NEW d \in Cells, lock_bit_set(epoch_lock'[d])
        PROVE  \E s \in Threads : \E i \in Held(s)' : log'[s][i] = d
    <3>1. d # c
      BY <1>4, <1>5, <2>1
    <3>2. PICK s \in Threads : \E i \in Held(s) : log[s][i] = d
      BY <1>5, <2>1, <3>1 DEF ParkInv, OwnerInv
    <3>3. PICK i \in Held(s) : log[s][i] = d
      BY <3>2
    <3>4. s = t => i # p
      BY <3>1, <3>3 DEF c
    <3>5. i \in Held(s)'
      BY <1>0, <1>10, <2>a, <3>4
    <3> QED BY <1>2, <3>3, <3>5
  <2>2. ASSUME NEW i \in Held(t)'
        PROVE  /\ lock_bit_set(epoch_lock'[log'[t][i]])
               /\ ~ newer(epoch_lock'[log'[t][i]], pin_epoch'[t])
               /\ unpark_bit_set(epoch_lock'[log'[t][i]]) \/ has_parked'[t]
    <3>1. log[t][i] \in Cells /\ log[t][i] # c
      BY <1>13, <2>0, PositionsOfAll
    <3>2. /\ lock_bit_set(epoch_lock[log[t][i]])
          /\ ~ newer(epoch_lock[log[t][i]], pin_epoch[t])
          /\ unpark_bit_set(epoch_lock[log[t][i]]) \/ has_parked[t]
      BY <2>0 DEF ParkInv, OwnerInv
    <3> QED BY <1>2, <1>5, <3>1, <3>2
  <2>3. \A s \in Threads : s # t => \A i \in Held(s)' :
              /\ lock_bit_set(epoch_lock'[log'[s][i]])
              /\ ~ newer(epoch_lock'[log'[s][i]], pin_epoch'[s])
              /\ unpark_bit_set(epoch_lock'[log'[s][i]]) \/ has_parked'[s]
    BY <1>1, <1>5, <1>8, <1>13, OthersKeep
  <2>4. ASSUME NEW r \in Threads, NEW s \in Threads, NEW i \in Held(r)', NEW j \in Held(s)',
               log'[r][i] = log'[s][j]
        PROVE  r = s /\ i = j
    <3>1. i \in Held(r) /\ j \in Held(s)
      BY <2>0, <2>a
    <3> QED BY <1>2, <2>4, <3>1 DEF ParkInv, OwnerInv
  <2> QED BY <2>1, <2>2, <2>3, <2>4 DEF OwnerInv
<1>16. ClearInv'
  <2>1. \A s \in Threads : WatchMove(s) /\ Watched(s)' = Watched(s)
    BY <1>8, <1>10, <1>11, SameMoves, SameSets
  <2>2. \A d \in Cells : unpark_bit_set(epoch_lock'[d]) => unpark_bit_set(epoch_lock[d])
    BY <1>4, <1>5
  <2> QED BY <1>7, <2>1, <2>2, ClearKept
<1> QED BY <1>2, <1>6, <1>7, <1>8, <1>9, <1>11, <1>12, <1>14, <1>15, <1>16,
           WordStep

-----------------------------------------------------------------------------
(* The tick of the clock.                                                  *)
LEMMA FetchAndTickStep ==
  ASSUME ParkInv, NEW t \in Threads, FetchAndTick(t)
  PROVE  ParkInv'
<1>0. /\ ParkingTypeOK /\ ThreadPhase(t) /\ pc[t] = "lock" /\ clock \in Nat
      /\ Len(log[t]) \in Nat /\ position[t] \in Nat /\ position[t] > Len(log[t])
      /\ pc \in [Threads -> Pcs] /\ position \in [Threads -> Nat]
      /\ sync_epoch \in [Threads -> Nat] /\ unlinked \subseteq Cells
      /\ pin_epoch[t] \in Nat /\ pin_epoch[t] <= clock
  BY PositionsOfAll DEF ParkInv, PhaseInv, ParkingTypeOK, WordInv, FetchAndTick
<1>1. /\ log' = log /\ pin_epoch' = pin_epoch /\ reached' = reached /\ thread_epoch' = thread_epoch
      /\ has_parked' = has_parked /\ unchecked' = unchecked /\ undo_word' = undo_word
      /\ epoch_lock' = epoch_lock /\ freed' = freed
      /\ queue' = queue /\ queue_lock' = queue_lock /\ park_statuses' = park_statuses
      /\ sync_epoch' = [sync_epoch EXCEPT ![t] = clock]
      /\ position' = [position EXCEPT ![t] = 1]
      /\ pc' = [pc EXCEPT ![t] = "publish"]
      /\ clock' = clock + 2 /\ clock < MaxEpoch
      /\ unlinked' = unlinked \cup {c \in Cells : Guard[c] \in Cellsof(log[t])}
  BY EpochFacts DEF FetchAndTick, Goto, pins, parking, next
<1>2. /\ sync_epoch'[t] = clock /\ position'[t] = 1 /\ pc'[t] = "publish"
      /\ \A s \in Threads : s # t => /\ position'[s] = position[s] /\ pc'[s] = pc[s]
                                     /\ sync_epoch'[s] = sync_epoch[s]
  BY <1>0, <1>1
<1>3. \A s \in Threads : s # t => SameThread(s)
  BY <1>1, <1>2 DEF SameThread
<1>4. ParkingTypeOK'
  <2>1. /\ pc' \in [Threads -> Pcs] /\ position' \in [Threads -> Nat]
        /\ sync_epoch' \in [Threads -> Nat] /\ clock' \in Nat
    BY <1>0, <1>1 DEF Pcs
  <2>2. unlinked' \subseteq Cells
    BY <1>0, <1>1
  <2> QED BY <1>0, <1>1, <2>1, <2>2 DEF ParkingTypeOK
<1>a. clock \in Nat /\ clock' = clock + 2 /\ clock < MaxEpoch
  BY <1>0, <1>1
<1>5. clock' \in Nat /\ clock < clock' /\ clock <= clock' /\ clock' < LOCK_BIT
  BY <1>a, EpochFacts
<1>6. ThreadPhase(t)'
  BY <1>0, <1>1, <1>2, <1>5 DEF ThreadPhase, Pinned, Ticked, Borrows
<1>7. PhaseInv'
  BY <1>1, <1>3, <1>5, <1>6, PhasesKept
<1>8. position[t] = Len(log[t]) + 1
  BY <1>0 DEF ThreadPhase
<1>9. /\ Held(t)' = Held(t) /\ Released(t)' = {} /\ Released(t) = {}
      /\ Watched(t)' = {} /\ Watched(t) = {} /\ ~ Borrows(t)'
      /\ \A u \in Threads : ~ WillCheck(t, u)
  <2>1. Held(t)' = Held(t)
    BY <1>0, <1>1, <1>2, <1>8 DEF Held
  <2>2. Released(t)' = {}
    BY <1>2 DEF Released
  <2> QED BY <1>0, <1>2, <2>1, <2>2 DEF Released, Watched, Borrows, WillCheck
<1>10. \A s \in Threads : /\ ReleaseMove(s) /\ BorrowMove(s) /\ WatchMove(s)
                          /\ CheckMove(s) /\ CleanMove(s)
  <2>1. ReleaseMove(t) /\ BorrowMove(t) /\ WatchMove(t) /\ CheckMove(t)
    BY <1>9 DEF ReleaseMove, BorrowMove, WatchMove, CheckMove
  <2>2. CleanMove(t)
    BY <1>1, PositionsOfAll DEF CleanMove
  <2> QED BY <1>3, <2>1, <2>2, SameMoves
<1>11. TimesKept
  BY <1>1 DEF TimesKept, SameTime
<1>12. WordInv'
  <2>1. FIRST <= clock' /\ clock' < LOCK_BIT /\ Odd(clock')
    <3>1. FIRST <= clock /\ Odd(clock)
      BY DEF ParkInv, WordInv
    <3> QED BY <1>a, <1>5, <3>1, EpochFacts DEF Odd
  <2>2. ASSUME NEW c \in Cells PROVE ~ newer(epoch_lock'[c], clock')
    <3>1. /\ epoch_lock[c] \in Nat /\ ~ newer(epoch_lock[c], clock)
          /\ epoch_lock'[c] = epoch_lock[c]
      BY <1>1 DEF ParkInv, WordInv, ParkingTypeOK
    <3> QED BY <1>0, <1>5, <3>1, EpochFacts DEF newer, unlocked, lock_bit_set
  <2>3. ASSUME NEW s \in Threads
        PROVE  /\ Odd(pin_epoch'[s]) /\ pin_epoch'[s] <= clock'
               /\ Odd(sync_epoch'[s]) /\ sync_epoch'[s] <= clock'
    <3>1. /\ Odd(pin_epoch[s]) /\ pin_epoch[s] <= clock /\ pin_epoch[s] \in Nat
          /\ Odd(sync_epoch[s]) /\ sync_epoch[s] <= clock /\ sync_epoch[s] \in Nat
          /\ Odd(clock)
      BY DEF ParkInv, WordInv, ParkingTypeOK
    <3>2. pin_epoch'[s] = pin_epoch[s] /\ (sync_epoch'[s] = sync_epoch[s] \/ sync_epoch'[s] = clock)
      BY <1>1, <1>2
    <3> QED BY <1>0, <1>5, <3>1, <3>2
  <2> QED BY <2>1, <2>2, <2>3 DEF WordInv
<1>13. OwnerInv'
  <2>1. \A s \in Threads : Held(s)' = Held(s)
    BY <1>3, <1>9, SameSets
  <2> QED BY <1>1, <1>11, <2>1, OwnerKept
<1>14. UndoInv'
  BY <1>1, <1>2, UndoKept
<1>15. PublishInv'
  BY <1>10, <1>11, PublishKept
<1>16. BorrowInv'
  <2>1. ASSUME NEW s \in Threads, NEW c \in Cells, Ticked(s)', Guard[c] \in Cellsof(log[s])
        PROVE  c \in unlinked'
    <3>1. CASE s = t
      BY <1>1, <2>1, <3>1
    <3>2. CASE s # t
      <4>1. Ticked(s)
        BY <1>3, <2>1, <3>2, SameSets
      <4>2. c \in unlinked
        BY <2>1, <4>1 DEF ParkInv, BorrowInv
      <4> QED BY <1>1, <4>2
    <3> QED BY <3>1, <3>2
  <2>2. ASSUME NEW s \in Threads, NEW u \in Threads, Ticked(s)', Borrows(u)',
               NEW c \in Cellsof(log[u]),
               Guard[c] \in Cellsof(log[s]) \/ \E i \in Held(s)' : log[s][i] = c
        PROVE  pin_epoch[u] <= sync_epoch'[s]
    <3>1. Borrows(u)
      BY <1>3, <1>9, <2>2, SameSets
    <3>2. CASE s = t
      BY <1>2, <3>2 DEF ParkInv, WordInv
    <3>3. CASE s # t
      <4>1. Ticked(s) /\ Held(s)' = Held(s) /\ sync_epoch'[s] = sync_epoch[s]
        BY <1>2, <1>3, <2>2, <3>3, SameSets
      <4> QED BY <2>2, <3>1, <4>1 DEF ParkInv, BorrowInv
    <3> QED BY <3>2, <3>3
  <2> QED BY <1>1, <2>1, <2>2 DEF BorrowInv
<1>17. ClearInv'
  <2>1. \A s \in Threads : Watched(s)' = Watched(s)
    BY <1>3, <1>9, SameSets
  <2> QED BY <1>1, <1>10, <1>11, <2>1, ClearKept
<1>18. AlarmInv'
  BY <1>10, <1>11, AlarmKept
<1>19. CleanupInv'
  <2>1. queue' \subseteq Threads /\ queue' \subseteq queue
    BY <1>0, <1>1 DEF ParkingTypeOK
  <2>2. \A s \in Threads : DOMAIN log'[s] = 1..Len(log'[s])
    BY <1>1, PositionsOfAll
  <2> QED BY <1>7, <1>10, <1>11, <2>1, <2>2, CleanupKept
<1>20. FreeInv'
  <2>1. unlinked \subseteq unlinked'
    BY <1>1
  <2> QED BY <1>1, <1>4, <1>10, <1>11, <2>1, FreeKept
<1> QED BY <1>4, <1>7, <1>12, <1>13, <1>14, <1>15, <1>16, <1>17, <1>18, <1>19,
           <1>20
        DEF ParkInv

-----------------------------------------------------------------------------
(* The garbage of a commit is collected.  Whoever still watches the guard  *)
(* of a cell in it will be looked at by a commit that ticked no later than *)
(* the collector, and that one is pinned: the collector waits for it.      *)
LEMMA CollectStep ==
  ASSUME ParkInv, NEW t \in Threads, Collect(t)
  PROVE  ParkInv'
<1> DEFINE garbage == {c \in Cells : Guard[c] \in Cellsof(log[t])}
<1>0. /\ ParkingTypeOK /\ ThreadPhase(t) /\ pc[t] = "collect"
      /\ pc \in [Threads -> Pcs] /\ log \in [Threads -> Seq(Cells)]
      /\ thread_epoch \in [Threads -> Nat] /\ has_parked \in [Threads -> BOOLEAN]
      /\ position \in [Threads -> Nat] /\ pin_epoch \in [Threads -> Nat]
      /\ sync_epoch \in [Threads -> Nat]
      /\ reached \in [Threads -> SUBSET Cells]
  BY DEF ParkInv, PhaseInv, ParkingTypeOK, Collect
<1>1. /\ position' = [position EXCEPT ![t] = 0]
      /\ pin_epoch' = [pin_epoch EXCEPT ![t] = FIRST]
      /\ sync_epoch' = [sync_epoch EXCEPT ![t] = FIRST]
      /\ reached' = [reached EXCEPT ![t] = {}]
      /\ unchecked' = unchecked /\ undo_word' = undo_word
      /\ clock' = clock /\ epoch_lock' = epoch_lock /\ unlinked' = unlinked
      /\ queue' = queue /\ queue_lock' = queue_lock /\ park_statuses' = park_statuses
      /\ has_parked' = [has_parked EXCEPT ![t] = FALSE]
      /\ log' = [log EXCEPT ![t] = <<>>]
      /\ thread_epoch' = [thread_epoch EXCEPT ![t] = INACTIVE_EPOCH]
      /\ pc' = [pc EXCEPT ![t] = "idle"]
  BY DEF Collect, Return, Goto, Unpin, words, parking
<1>2. /\ freed' = freed \cup garbage
      /\ garbage # {} => \A u \in Threads \ {t} : thread_epoch[u] > sync_epoch[t]
  BY DEF Collect
<1>3. /\ pc'[t] = "idle" /\ log'[t] = <<>> /\ has_parked'[t] = FALSE
      /\ thread_epoch'[t] = INACTIVE_EPOCH /\ position'[t] = 0
      /\ pin_epoch'[t] = FIRST /\ sync_epoch'[t] = FIRST
      /\ \A s \in Threads : s # t => /\ pc'[s] = pc[s] /\ log'[s] = log[s]
                                     /\ has_parked'[s] = has_parked[s]
                                     /\ thread_epoch'[s] = thread_epoch[s]
                                     /\ pin_epoch'[s] = pin_epoch[s]
                                     /\ sync_epoch'[s] = sync_epoch[s]
                                     /\ position'[s] = position[s]
  BY <1>0, <1>1
<1>4. \A s \in Threads : s # t => SameThread(s)
  BY <1>1, <1>3 DEF SameThread
<1>5. ParkingTypeOK'
  <2>1. /\ pc' \in [Threads -> Pcs] /\ log' \in [Threads -> Seq(Cells)]
        /\ thread_epoch' \in [Threads -> Nat] /\ has_parked' \in [Threads -> BOOLEAN]
    BY <1>0, <1>1, EpochFacts, EmptyLogIsSeq DEF Pcs
  <2>2. /\ position' \in [Threads -> Nat] /\ pin_epoch' \in [Threads -> Nat]
        /\ sync_epoch' \in [Threads -> Nat]
        /\ reached' \in [Threads -> SUBSET Cells]
    BY <1>0, <1>1, EpochFacts
  <2>3. freed' \subseteq Cells
    BY <1>0, <1>2 DEF ParkingTypeOK
  <2> QED BY <1>0, <1>1, <2>1, <2>2, <2>3 DEF ParkingTypeOK
<1>6. ThreadPhase(t)'
  BY <1>0, <1>1, <1>3 DEF ThreadPhase, Pinned, Ticked, Borrows
<1>7. QuietMove(t)
  <2>1. /\ Held(t)' = Held(t) /\ Held(t) = {} /\ Watched(t)' = {}
        /\ Released(t)' = {} /\ ~ Ticked(t)' /\ ~ Borrows(t)'
        /\ \A u \in Threads : ~ WillCheck(t, u)
    BY <1>0, <1>3 DEF Held, Watched, Released, Ticked, Borrows, WillCheck
  <2>2. park_statuses'[t] = {}
    BY <1>0, <1>1 DEF ThreadPhase
  <2> QED BY <1>1, <1>3, <2>1, <2>2
          DEF QuietMove, TickMove, ReleaseMove, BorrowMove, WatchMove,
             CheckMove, CleanMove
<1>8. ASSUME NEW c \in garbage, NEW u \in Threads, Borrows(u), c \in Cellsof(log[u])
      PROVE  /\ newer(epoch_lock[Guard[c]], pin_epoch[u])
             /\ pin_epoch[u] <= sync_epoch[t]
             /\ \E i \in Released(t) : log[t][i] = Guard[c]
  <2>0. Ticked(t) /\ c \in Cells /\ Guard[c] \in Cellsof(log[t])
    BY <1>0 DEF Ticked
  <2>1. PICK i \in DOMAIN log[t] : log[t][i] = Guard[c]
    BY <2>0 DEF Cellsof
  <2>2. i \in Released(t)
    BY <1>0, <2>1, PositionsOfAll DEF Released
  <2>3. newer(epoch_lock[Guard[c]], sync_epoch[t])
    BY <2>1, <2>2 DEF ParkInv, PublishInv
  <2>4. pin_epoch[u] <= sync_epoch[t]
    BY <1>8, <2>0 DEF ParkInv, BorrowInv
  <2>5. /\ epoch_lock[Guard[c]] \in Nat /\ pin_epoch[u] \in Nat /\ sync_epoch[t] \in Nat
    BY <1>0, <2>1, PositionsOfAll DEF ParkingTypeOK
  <2>6. newer(epoch_lock[Guard[c]], pin_epoch[u])
    BY <2>3, <2>4, <2>5, EpochFacts DEF newer, unlocked, lock_bit_set
  <2> QED BY <2>1, <2>2, <2>4, <2>6
<1>9. FreeInv'
  <2>1. ASSUME NEW c \in freed'
        PROVE  c \in unlinked' /\ Guard[c] \in Cells
    <3>1. CASE c \in freed
      BY <1>1, <3>1 DEF ParkInv, FreeInv
    <3>2. CASE c \in garbage
      <4>1. Ticked(t) /\ c \in Cells /\ Guard[c] \in Cellsof(log[t])
        BY <1>0, <3>2 DEF Ticked
      <4>2. Guard[c] \in Cells
        BY <4>1, PositionsOfAll DEF Cellsof
      <4>3. c \in unlinked
        BY <4>1 DEF ParkInv, BorrowInv
      <4> QED BY <1>1, <4>2, <4>3
    <3> QED BY <1>2, <3>1, <3>2
  <2>2. ASSUME NEW u \in Threads, Borrows(u)', NEW c \in Cellsof(log'[u]), c \in freed'
        PROVE  newer(epoch_lock'[Guard[c]], pin_epoch'[u])
    <3>1. Borrows(u) /\ log'[u] = log[u] /\ u # t
      BY <1>3, <1>4, <2>2, SameSets DEF Borrows
    <3>2. CASE c \in freed
      BY <1>1, <2>2, <3>1, <3>2 DEF ParkInv, FreeInv
    <3>3. CASE c \in garbage
      BY <1>1, <1>8, <2>2, <3>1, <3>3
    <3> QED BY <1>2, <2>2, <3>2, <3>3
  <2>3. ASSUME NEW u \in Threads, pc'[u] = "clear", NEW k \in Watched(u)',
               NEW c \in Cellsof(log'[u]), Guard[c] = log'[u][k]
        PROVE  c \notin freed'
    <3>1. Borrows(u) /\ log'[u] = log[u] /\ u # t /\ pc[u] = "clear" /\ k \in Watched(u)
      BY <1>3, <1>4, <2>3, SameSets DEF Borrows
    <3>2. c \notin freed
      BY <2>3, <3>1 DEF ParkInv, FreeInv
    <3>3. c \notin garbage
      <4> SUFFICES ASSUME c \in garbage PROVE FALSE
        OBVIOUS
      <4>1. /\ newer(epoch_lock[Guard[c]], pin_epoch[u])
            /\ pin_epoch[u] <= sync_epoch[t]
            /\ \E i \in Released(t) : log[t][i] = Guard[c]
        BY <1>8, <2>3, <3>1
      <4>2. PICK s \in Threads : Alarm(s, u, Guard[c])
        BY <2>3, <3>1, <4>1 DEF ParkInv, AlarmInv
      <4>3. sync_epoch[s] <= sync_epoch[t]
        BY <4>1, <4>2 DEF Alarm
      <4>4. Ticked(s) /\ Pinned(s) /\ s # t
        BY <1>0, <4>2 DEF Alarm, WillCheck, Ticked, Pinned
      <4>5. thread_epoch[s] = pin_epoch[s] /\ pin_epoch[s] <= sync_epoch[s]
        BY <4>4 DEF ParkInv, PhaseInv, ThreadPhase
      <4>6. thread_epoch[s] > sync_epoch[t]
        BY <1>2, <4>4
      <4>7. /\ thread_epoch[s] \in Nat /\ pin_epoch[s] \in Nat
            /\ sync_epoch[s] \in Nat /\ sync_epoch[t] \in Nat
        BY <1>0 DEF ParkingTypeOK
      <4> HIDE DEF garbage
      <4> QED BY <4>3, <4>5, <4>6, <4>7
    <3> QED BY <1>2, <3>2, <3>3
  <2> QED BY <2>1, <2>2, <2>3 DEF FreeInv
<1> QED BY <1>1, <1>4, <1>5, <1>6, <1>7, <1>9, OneMoves

-----------------------------------------------------------------------------
(* A cell is published: the one step that makes a cell newer.              *)
LEMMA UnlockPublishStep ==
  ASSUME ParkInv, NEW t \in Threads, UnlockPublish(t)
  PROVE  ParkInv'
<1> DEFINE p == position[t]
           c == log[t][p]
           e == sync_epoch[t]
<1>0. /\ ParkingTypeOK /\ ThreadPhase(t) /\ pc[t] = "publish" /\ p <= Len(log[t])
      /\ Len(log[t]) \in Nat /\ p \in Nat /\ DOMAIN log[t] = 1..Len(log[t])
      /\ epoch_lock \in [Cells -> Nat] /\ position \in [Threads -> Nat]
      /\ clock \in Nat
  BY PositionsOfAll DEF ParkInv, PhaseInv, ParkingTypeOK, UnlockPublish
<1>1. /\ p \in DOMAIN log[t] /\ 1 <= p /\ p \in Held(t) /\ Ticked(t)
  <2>1. 1 <= p
    BY <1>0 DEF ThreadPhase
  <2>2. Held(t) = p..Len(log[t])
    BY <1>0 DEF Held
  <2> QED BY <1>0, <2>1, <2>2 DEF Ticked
<1>2. c \in Cells
  BY <1>1, PositionsOfAll
<1>3. /\ pc' = pc /\ log' = log /\ pin_epoch' = pin_epoch /\ reached' = reached
      /\ sync_epoch' = sync_epoch /\ thread_epoch' = thread_epoch
      /\ has_parked' = has_parked /\ undo_word' = undo_word /\ unchecked' = unchecked
      /\ clock' = clock /\ unlinked' = unlinked /\ freed' = freed
      /\ queue' = queue /\ queue_lock' = queue_lock /\ park_statuses' = park_statuses
      /\ epoch_lock' = [epoch_lock EXCEPT ![c] = next(e)]
      /\ position' = [position EXCEPT ![t] = @ + 1]
  BY DEF UnlockPublish, Current, words, pins, parking, commit, heap
<1>4. /\ lock_bit_set(epoch_lock[c]) /\ ~ newer(epoch_lock[c], pin_epoch[t])
      /\ unpark_bit_set(epoch_lock[c]) \/ has_parked[t]
      /\ \A s \in Threads : \A i \in Held(s) : log[s][i] = c => s = t /\ i = p
  BY <1>1 DEF ParkInv, OwnerInv
<1>5. /\ e \in Nat /\ Odd(e) /\ e < clock /\ pin_epoch[t] <= e /\ pin_epoch[t] \in Nat
      /\ Odd(clock) /\ clock < LOCK_BIT
  BY <1>0, <1>1 DEF ParkInv, PhaseInv, ThreadPhase, WordInv, ParkingTypeOK
<1> HIDE DEF c, e
<1>6. e < LOCK_BIT - 2 /\ next(e) <= clock
  <2>1. e + 2 <= clock /\ e < LOCK_BIT - 2
    BY <1>0, <1>5, TickApart
  <2> QED BY <2>1, EpochFacts DEF next
<1>7. /\ next(e) \in Nat /\ e < next(e)
      /\ ~ lock_bit_set(next(e))
      /\ \A q \in Nat : newer(next(e), q) <=> next(e) > q
  BY <1>5, <1>6, PublishedWord
<1>8. next(e) = e + 2
  BY EpochFacts DEF next
<1>9. /\ epoch_lock'[c] = next(e)
      /\ \A d \in Cells : d # c => epoch_lock'[d] = epoch_lock[d]
      /\ position'[t] = p + 1
      /\ \A s \in Threads : s # t => position'[s] = position[s]
  BY <1>0, <1>2, <1>3
<1>10. ParkingTypeOK'
  <2>1. epoch_lock' \in [Cells -> Nat]
    BY <1>0, <1>3, <1>7
  <2>2. position' \in [Threads -> Nat]
    BY <1>0, <1>3
  <2> QED BY <1>0, <1>3, <2>1, <2>2 DEF ParkingTypeOK
<1>11. \A s \in Threads : s # t => SameThread(s)
  BY <1>3, <1>9 DEF SameThread
<1>12. ThreadPhase(t)'
  BY <1>0, <1>1, <1>3, <1>9 DEF ThreadPhase, Pinned, Ticked, Borrows
<1>13. PhaseInv'
  <2>1. clock <= clock'
    BY <1>0, <1>3
  <2> QED BY <1>0, <1>3, <1>11, <1>12, <2>1, PhasesKept
<1>14. /\ Held(t) = p..Len(log[t]) /\ Held(t)' = (p + 1)..Len(log[t])
       /\ Released(t) = 1..(p - 1) /\ Released(t)' = 1..p
       /\ Watched(t) = {} /\ Watched(t)' = {}
       /\ Ticked(t)' = Ticked(t) /\ Borrows(t)' = Borrows(t)
       /\ \A u \in Threads : WillCheck(t, u)' = WillCheck(t, u)
  BY <1>0, <1>3, <1>9 DEF Held, Released, Watched, Ticked, Borrows, WillCheck
<1>15. \A s \in Threads :
         /\ Watched(s)' = Watched(s) /\ Ticked(s)' = Ticked(s) /\ Borrows(s)' = Borrows(s)
         /\ Held(s)' \subseteq Held(s)
         /\ \A u \in Threads : WillCheck(s, u)' = WillCheck(s, u)
         /\ s # t => Held(s)' = Held(s) /\ Released(s)' = Released(s)
  <2>1. Held(t)' \subseteq Held(t)
    BY <1>0, <1>14
  <2> QED BY <1>11, <1>14, <2>1, SameSets
<1>16. \A i \in Released(t)' : i \in Released(t) \/ i = p
  BY <1>0, <1>14
(* Nothing becomes older.                                                  *)
<1>17. ASSUME NEW d \in Cells, NEW q \in Nat, newer(epoch_lock[d], q)
       PROVE  newer(epoch_lock'[d], q)
  <2>1. CASE d # c
    BY <1>9, <1>17, <2>1
  <2>2. CASE d = c
    <3>1. epoch_lock[c] \in Nat
      BY <1>0, <1>2
    <3>2. next(e) > q
      BY <1>4, <1>5, <1>7, <1>17, <2>2, <3>1, EpochFacts DEF newer, unlocked,
         lock_bit_set
    <3> QED BY <1>7, <1>9, <2>2, <3>2
  <2> QED BY <2>1, <2>2
<1>18. \A d \in Cells, s \in Threads :
         /\ newer(epoch_lock[d], pin_epoch[s]) => newer(epoch_lock'[d], pin_epoch[s])
         /\ newer(epoch_lock[d], sync_epoch[s]) => newer(epoch_lock'[d], sync_epoch[s])
  BY <1>17, OddTimes
(* Whoever watches the cell has borrowed it before.                        *)
<1>19. ASSUME NEW u \in Threads, NEW k \in Watched(u), log[u][k] = c
       PROVE  pin_epoch[u] <= e /\ newer(next(e), pin_epoch[u])
  <2>1. Borrows(u) /\ c \in Cellsof(log[u])
    BY <1>19, PositionsOfAll DEF Cellsof
  <2>2. pin_epoch[u] <= e
    BY <1>1, <2>1 DEF ParkInv, BorrowInv, c, e
  <2>3. pin_epoch[u] \in Nat
    BY OddTimes
  <2> QED BY <1>5, <1>7, <2>2, <2>3
<1>20. WordInv'
  <2>1. ASSUME NEW d \in Cells PROVE ~ newer(epoch_lock'[d], clock)
    <3>1. CASE d = c
      BY <1>0, <1>6, <1>7, <1>9, <3>1
    <3>2. CASE d # c
      BY <1>9, <3>2 DEF ParkInv, WordInv
    <3> QED BY <3>1, <3>2
  <2> QED BY <1>3, <2>1 DEF ParkInv, WordInv
<1>21. UndoInv'
  <2>1. pc'[t] # "undo_store"
    BY <1>0, <1>3
  <2> QED BY <1>2, <1>4, <1>9, <1>11, <2>1, OthersKeep
<1>22. OwnerInv'
  <2>0. \A i \in Held(t)' : i \in Held(t) /\ i # p
    BY <1>0, <1>14
  <2>1. ASSUME NEW d \in Cells, lock_bit_set(epoch_lock'[d])
        PROVE  \E s \in Threads : \E i \in Held(s)' : log'[s][i] = d
    <3>1. d # c
      BY <1>7, <1>9, <2>1
    <3>2. PICK s \in Threads : \E i \in Held(s) : log[s][i] = d
      BY <1>9, <2>1, <3>1 DEF ParkInv, OwnerInv
    <3>3. PICK i \in Held(s) : log[s][i] = d
      BY <3>2
    <3>4. s = t => i # p
      BY <3>1, <3>3 DEF c
    <3>5. i \in Held(s)'
      BY <1>0, <1>14, <1>15, <3>4
    <3> QED BY <1>3, <3>3, <3>5
  <2>2. ASSUME NEW i \in Held(t)'
        PROVE  /\ lock_bit_set(epoch_lock'[log'[t][i]])
               /\ ~ newer(epoch_lock'[log'[t][i]], pin_epoch'[t])
               /\ unpark_bit_set(epoch_lock'[log'[t][i]]) \/ has_parked'[t]
    <3>1. log[t][i] \in Cells /\ log[t][i] # c
      BY <1>4, <2>0, PositionsOfAll
    <3>2. /\ lock_bit_set(epoch_lock[log[t][i]])
          /\ ~ newer(epoch_lock[log[t][i]], pin_epoch[t])
          /\ unpark_bit_set(epoch_lock[log[t][i]]) \/ has_parked[t]
      BY <2>0 DEF ParkInv, OwnerInv
    <3> QED BY <1>3, <1>9, <3>1, <3>2
  <2>3. \A s \in Threads : s # t => \A i \in Held(s)' :
              /\ lock_bit_set(epoch_lock'[log'[s][i]])
              /\ ~ newer(epoch_lock'[log'[s][i]], pin_epoch'[s])
              /\ unpark_bit_set(epoch_lock'[log'[s][i]]) \/ has_parked'[s]
    BY <1>2, <1>4, <1>9, <1>11, OthersKeep
  <2>4. ASSUME NEW r \in Threads, NEW s \in Threads, NEW i \in Held(r)', NEW j \in Held(s)',
               log'[r][i] = log'[s][j]
        PROVE  r = s /\ i = j
    BY <1>3, <1>15, <2>4 DEF ParkInv, OwnerInv
  <2> QED BY <2>1, <2>2, <2>3, <2>4 DEF OwnerInv
<1>23. PublishInv'
  <2> SUFFICES ASSUME NEW s \in Threads, NEW i \in Released(s)'
               PROVE  newer(epoch_lock'[log[s][i]], sync_epoch[s])
    BY <1>3 DEF PublishInv
  <2>1. CASE i \in Released(s)
    <3>1. newer(epoch_lock[log[s][i]], sync_epoch[s]) /\ log[s][i] \in Cells
      BY <2>1, PositionsOfAll DEF ParkInv, PublishInv
    <3> QED BY <1>18, <3>1
  <2>2. CASE s = t /\ i = p
    BY <1>5, <1>7, <1>9, <2>2 DEF c, e
  <2> QED BY <1>15, <1>16, <2>1, <2>2
<1>24. BorrowInv'
  <2>1. \A s \in Threads : TickMove(s) /\ BorrowMove(s)
    BY <1>3, <1>15 DEF TickMove, BorrowMove
  <2> QED BY <1>3, <1>10, <2>1, BorrowKept
<1>25. ClearInv'
  <2> SUFFICES ASSUME NEW u \in Threads, NEW k \in Watched(u)
               PROVE  \/ newer(epoch_lock'[log[u][k]], pin_epoch[u])
                      \/ ~ unpark_bit_set(epoch_lock'[log[u][k]])
    BY <1>3, <1>15 DEF ClearInv
  <2>1. log[u][k] \in Cells
    BY PositionsOfAll
  <2>2. CASE log[u][k] = c
    BY <1>9, <1>19, <2>2
  <2>3. CASE log[u][k] # c
    BY <1>9, <2>1, <2>3 DEF ParkInv, ClearInv
  <2> QED BY <2>2, <2>3
<1>26. AlarmInv'
  <2> SUFFICES ASSUME NEW u \in Threads, NEW k \in Watched(u),
                      newer(epoch_lock'[log[u][k]], pin_epoch[u])
               PROVE  \E s \in Threads : Alarm(s, u, log[u][k])'
    BY <1>3, <1>15 DEF AlarmInv
  <2> DEFINE d == log[u][k]
  <2>0. d \in Cells /\ log'[u][k] = d
    BY <1>3, PositionsOfAll
  (* To show of the old witness that it is still one, or of t.             *)
  <2>1. ASSUME NEW s \in Threads, WillCheck(s, u), newer(epoch_lock'[d], sync_epoch[s]),
               \A r \in Threads : \A i \in Released(r)' :
                 log[r][i] = d /\ pin_epoch[u] <= sync_epoch[r] =>
                   sync_epoch[s] <= sync_epoch[r]
        PROVE  Alarm(s, u, log[u][k])'
    BY <1>3, <1>15, <2>1 DEF Alarm
  <2> HIDE DEF d
  <2>2. CASE newer(epoch_lock[d], pin_epoch[u])
    <3>1. PICK s \in Threads : Alarm(s, u, d)
      BY <2>2 DEF ParkInv, AlarmInv, d
    <3>2. WillCheck(s, u) /\ newer(epoch_lock[d], sync_epoch[s])
      BY <3>1 DEF Alarm
    <3>3. newer(epoch_lock'[d], sync_epoch[s])
      BY <1>18, <2>0, <3>2
    <3>4. ASSUME NEW r \in Threads, NEW i \in Released(r)',
                 log[r][i] = d, pin_epoch[u] <= sync_epoch[r]
          PROVE  sync_epoch[s] <= sync_epoch[r]
      <4>1. CASE i \in Released(r)
        BY <3>1, <3>4, <4>1 DEF Alarm
      <4>2. CASE r = t /\ i = p
        <5>1. d = c
          BY <3>4, <4>2 DEF c
        <5>2. /\ newer(epoch_lock[c], sync_epoch[s]) /\ sync_epoch[s] \in Nat
              /\ epoch_lock[c] \in Nat
          BY <1>0, <1>2, <3>2, <5>1, OddTimes
        <5>3. sync_epoch[s] <= e
          BY <1>4, <1>5, <5>2, EpochFacts DEF newer, unlocked, lock_bit_set
        <5> QED BY <4>2, <5>3 DEF e
      <4> QED BY <1>15, <1>16, <4>1, <4>2
    <3> QED BY <2>1, <3>2, <3>3, <3>4
  <2>3. CASE ~ newer(epoch_lock[d], pin_epoch[u])
    <3>1. d = c
      BY <1>9, <2>0, <2>3 DEF d
    <3>2. has_parked[t]
      <4>1. ~ unpark_bit_set(epoch_lock[c])
        BY <2>3, <3>1 DEF ParkInv, ClearInv, d
      <4> QED BY <1>4, <4>1
    <3>3. WillCheck(t, u)
      BY <1>0, <3>2 DEF WillCheck
    <3>4. newer(epoch_lock'[d], sync_epoch[t])
      BY <1>5, <1>7, <1>9, <3>1 DEF e
    <3>5. ASSUME NEW r \in Threads, NEW i \in Released(r)',
                 log[r][i] = d, pin_epoch[u] <= sync_epoch[r]
          PROVE  sync_epoch[t] <= sync_epoch[r]
      <4>0. sync_epoch[t] \in Nat /\ sync_epoch[r] \in Nat /\ pin_epoch[u] \in Nat
        BY OddTimes
      <4>1. CASE r = t
        BY <4>0, <4>1
      <4>2. CASE r # t
        <5>1. i \in Released(r)
          BY <1>15, <4>2
        <5>2. newer(epoch_lock[d], sync_epoch[r])
          BY <3>5, <5>1 DEF ParkInv, PublishInv
        <5>3. epoch_lock[d] \in Nat
          BY <1>0, <2>0
        <5> QED BY <2>3, <3>5, <4>0, <5>2, <5>3, EpochFacts DEF newer,
                   unlocked, lock_bit_set
      <4> QED BY <4>1, <4>2
    <3> QED BY <2>1, <3>3, <3>4, <3>5
  <2> QED BY <2>2, <2>3
<1>27. CleanupInv'
  <2> SUFFICES ASSUME NEW s \in Threads, NEW i \in park_statuses[s],
                      NEW u \in queue, NEW k \in DOMAIN log[u], log[u][k] = log[s][i]
               PROVE  newer(epoch_lock'[log[s][i]], pin_epoch[u])
    BY <1>3 DEF CleanupInv
  <2>1. newer(epoch_lock[log[s][i]], pin_epoch[u]) /\ log[s][i] \in Cells /\ u \in Threads
    BY <1>0, PositionsOfAll DEF ParkInv, CleanupInv, ParkingTypeOK
  <2> QED BY <1>18, <2>1
<1>28. FreeInv'
  <2>1. ASSUME NEW u \in Threads, Borrows(u), NEW d \in Cellsof(log[u]), d \in freed
        PROVE  newer(epoch_lock'[Guard[d]], pin_epoch[u])
    <3>1. newer(epoch_lock[Guard[d]], pin_epoch[u]) /\ Guard[d] \in Cells
      BY <2>1 DEF ParkInv, FreeInv
    <3> QED BY <1>18, <3>1
  <2>2. \A d \in freed : d \in unlinked /\ Guard[d] \in Cells
    BY DEF ParkInv, FreeInv
  <2>3. \A u \in Threads : pc[u] = "clear" =>
          \A k \in Watched(u), d \in Cellsof(log[u]) : Guard[d] = log[u][k] => d \notin freed
    BY DEF ParkInv, FreeInv
  <2> QED BY <1>3, <1>15, <2>1, <2>2, <2>3 DEF FreeInv
<1> QED BY <1>10, <1>13, <1>20, <1>21, <1>22, <1>23, <1>24, <1>25, <1>26,
           <1>27, <1>28
        DEF ParkInv

-----------------------------------------------------------------------------
LEMMA ParkInit == Init => ParkInv
<1> SUFFICES ASSUME Init PROVE ParkInv
  OBVIOUS
<1>1. ParkingTypeOK
  BY EpochFacts, ParkingAssumption, EmptyLogIsSeq DEF Init, ParkingTypeOK, Pcs
<1>2. \A t \in Threads :
        /\ pc[t] = "idle" /\ log[t] = <<>> /\ park_statuses[t] = {} /\ unchecked[t] = {}
        /\ pin_epoch[t] = 3 /\ sync_epoch[t] = 3 /\ t # None
  BY EpochFacts, ParkingAssumption DEF Init
<1>3. \A t \in Threads : /\ Held(t) = {} /\ Released(t) = {} /\ Watched(t) = {}
                         /\ ~ Ticked(t) /\ ~ Borrows(t) /\ ~ Pinned(t)
  BY <1>2 DEF Held, Released, Watched, Ticked, Borrows, Pinned
<1>4. clock = 3 /\ \A c \in Cells : epoch_lock[c] = 3
  BY EpochFacts DEF Init
<1>5. WordInv
  BY <1>2, <1>4, EpochFacts DEF WordInv, Odd, newer, unlocked, lock_bit_set
<1>6. PhaseInv
  BY <1>2, <1>3 DEF Init, PhaseInv, ThreadPhase
<1>7. OwnerInv
  BY <1>3, <1>4, EpochFacts DEF OwnerInv, lock_bit_set
<1>8. UndoInv /\ PublishInv /\ BorrowInv /\ ClearInv /\ AlarmInv
  BY <1>2, <1>3 DEF UndoInv, PublishInv, BorrowInv, ClearInv, AlarmInv
<1>9. CleanupInv /\ FreeInv
  BY <1>2, <1>3 DEF Init, CleanupInv, FreeInv
<1> QED BY <1>1, <1>5, <1>6, <1>7, <1>8, <1>9 DEF ParkInv

LEMMA ParkStutter ==
  ASSUME ParkInv, UNCHANGED vars
  PROVE  ParkInv'
<1>1. /\ clock' = clock /\ epoch_lock' = epoch_lock /\ thread_epoch' = thread_epoch
      /\ pin_epoch' = pin_epoch /\ reached' = reached
      /\ pc' = pc /\ log' = log /\ position' = position
      /\ park_statuses' = park_statuses /\ has_parked' = has_parked
      /\ sync_epoch' = sync_epoch /\ undo_word' = undo_word
      /\ queue_lock' = queue_lock /\ queue' = queue /\ unchecked' = unchecked
      /\ unlinked' = unlinked /\ freed' = freed
  BY DEF vars, words, pins, parking, commit, heap
<1>2. \A s \in Threads : SameThread(s)
  BY <1>1 DEF SameThread
<1>3. ParkingTypeOK'
  BY <1>1 DEF ParkInv, ParkingTypeOK
<1>4. PhaseInv'
  <2>1. clock' \in Nat /\ clock <= clock'
    BY <1>1 DEF ParkInv, ParkingTypeOK
  <2> SUFFICES ASSUME NEW s \in Threads PROVE ThreadPhase(s)'
    BY DEF PhaseInv
  <2> QED BY <1>1, <1>2, <2>1, PhaseKept
<1>5. \A s \in Threads : QuietMove(s)
  BY <1>2, SameQuiet
<1> QED BY <1>1, <1>3, <1>4, <1>5, QuietStep

LEMMA ParkStep ==
  ASSUME ParkInv, Next
  PROVE  ParkInv'
<1>1. PICK t \in Threads : Start(t) \/ Closure(t) \/ Continue(t)
  BY DEF Next
<1>2. CASE Start(t)
  BY <1>2, RunStep DEF Start
<1>3. CASE Closure(t)
  BY <1>3, AwaitRetryStep, AwaitRetryPanicsStep, CommitStep DEF Closure
<1>4. CASE Continue(t)
  <2>1. CASE Finish(t) \/ Park(t) \/ TryClearUnparkBit(t) \/ TryClearFails(t) \/ ClearAllHtm(t)
    BY <2>1, FinishStep, ParkStepOf, TryClearUnparkBitStep, TryClearFailsStep,
       ClearAllHtmStep
  <2>2. CASE \E i \in DOMAIN log[t] : Cleanup(t, i)
    BY <2>2, CleanupStep
  <2>3. CASE ParkInvalid(t) \/ Sleep(t) \/ Wake(t) \/ Unwind(t)
    BY <2>3, ParkInvalidStep, SleepStep, WakeStep, UnwindStep
  <2>4. CASE TryLock(t) \/ CommitFails(t) \/ UndoLoad(t) \/ UndoStore(t) \/ Retry(t)
    BY <2>4, TryLockStep, CommitFailsStep, UndoLoadStep, UndoStoreStep,
       RetryStep
  <2>5. CASE FetchAndTick(t) \/ UnlockPublish(t) \/ Published(t)
    BY <2>5, FetchAndTickStep, UnlockPublishStep, PublishedStep
  <2>6. CASE Unpark(t) \/ (\E u \in Threads : UnparkFilter(t, u)) \/ UnparkDone(t) \/ Collect(t)
    BY <2>6, UnparkStep, UnparkFilterStep, UnparkDoneStep, CollectStep
  <2> QED BY <1>4, <2>1, <2>2, <2>3, <2>4, <2>5, <2>6 DEF Continue
<1> QED BY <1>1, <1>2, <1>3, <1>4

(* ParkInv holds in every state, for any number of threads and cells, any  *)
(* logs and write logs, and any way in which cells live in other cells:    *)
(* what the bits of the EpochLocks, the queue and the commits under way    *)
(* say of each other.                                                      *)
THEOREM ParkInvariance == Spec => []ParkInv
<1>1. Init => ParkInv
  BY ParkInit
<1>2. ParkInv /\ [Next]_vars => ParkInv'
  BY ParkStep, ParkStutter
<1> QED BY <1>1, <1>2, PTL DEF Spec

(* Every variable of the parking protocol keeps its type.                  *)
THEOREM ParkingTypes == Spec => []ParkingTypeOK
<1>1. ParkInv => ParkingTypeOK
  BY DEF ParkInv
<1> QED BY <1>1, ParkInvariance, PTL

-----------------------------------------------------------------------------
LEMMA HeldIsOwned ==
  ASSUME NEW t \in Threads, NEW i \in Held(t), NEW c, log[t][i] = c
  PROVE  Owns(t, c)
BY DEF Held, Owns

(* No wakeup is lost (unpark after a commit, try_clear_unpark_bit and      *)
(* set_unpark_bit by a thread that parks): a cell that a sleeper watches   *)
(* is unchanged with its bit clear, or belongs to a commit that knows of   *)
(* sleepers, or was changed by one that is still going to look.            *)
THEOREM NoWakeupIsLost == Spec => []NoLostWakeup
<1>1. ASSUME ParkInv PROVE NoLostWakeup
  <2> SUFFICES ASSUME NEW u \in queue, NEW c \in Cells, c \in Cellsof(log[u])
               PROVE  \/ valid(u, c) /\ ~ unpark_bit_set(epoch_lock[c])
                      \/ \E t \in Threads : Owns(t, c) /\ has_parked[t]
                      \/ \E t \in Threads : WillCheck(t, u)
    BY DEF NoLostWakeup
  <2>1. u \in Threads /\ pc[u] = "parked"
    BY <1>1 DEF ParkInv, ParkingTypeOK, PhaseInv, ThreadPhase
  <2>2. PICK k \in DOMAIN log[u] : log[u][k] = c
    BY DEF Cellsof
  <2>3. k \in Watched(u)
    BY <1>1, <2>1, PositionsOfAll DEF Watched
  <2>4. CASE newer(epoch_lock[c], pin_epoch[u])
    BY <1>1, <2>1, <2>2, <2>3, <2>4 DEF ParkInv, AlarmInv, Alarm
  <2>5. CASE ~ newer(epoch_lock[c], pin_epoch[u])
    <3>1. ~ unpark_bit_set(epoch_lock[c])
      BY <1>1, <2>1, <2>2, <2>3, <2>5 DEF ParkInv, ClearInv
    <3>2. CASE lock_bit_set(epoch_lock[c])
      <4>1. PICK t \in Threads : \E i \in Held(t) : log[t][i] = c
        BY <1>1, <3>2 DEF ParkInv, OwnerInv
      <4>2. has_parked[t]
        BY <1>1, <3>1, <4>1 DEF ParkInv, OwnerInv
      <4> QED BY <4>1, <4>2, HeldIsOwned
    <3>3. CASE ~ lock_bit_set(epoch_lock[c])
      <4>1. epoch_lock[c] \in Nat /\ pin_epoch[u] \in Nat
        BY <1>1, <2>1 DEF ParkInv, ParkingTypeOK
      <4>2. valid(u, c)
        BY <2>5, <3>3, <4>1 DEF valid, read_write_valid, newer, unlocked
      <4> QED BY <3>1, <4>2
    <3> QED BY <3>2, <3>3
  <2> QED BY <2>4, <2>5
<1> QED BY <1>1, ParkInvariance, PTL

(* A guard that is not newer than a borrow has not been overwritten since. *)
LEMMA GuardUnchanged ==
  ASSUME ParkInv, NEW u \in Threads, Borrows(u), NEW k \in DOMAIN log[u],
         Guard[log[u][k]] # None => ~ newer(epoch_lock[Guard[log[u][k]]], pin_epoch[u])
  PROVE  log[u][k] \notin freed
<1> SUFFICES ASSUME log[u][k] \in freed PROVE FALSE
  OBVIOUS
<1> DEFINE c == log[u][k]
<1>1. Guard[c] \in Cells /\ newer(epoch_lock[Guard[c]], pin_epoch[u])
  BY DEF ParkInv, FreeInv, Cellsof
<1>2. Guard[c] # None
  BY <1>1, ParkingAssumption
<1> QED BY <1>1, <1>2

(* A thread that is about to park clears bits, and one that looks for      *)
(* sleepers reads words, of cells that no pin protects: if the log has the *)
(* cell's guard before it, or it has none, its memory is not gone          *)
(* (parking::park, should_unpark, quiesce).  Nothing is asked of the logs  *)
(* and of the write logs.                                                  *)
THEOREM WatchedCellsLive == Spec => []NoFreedCellWatched
<1>1. ASSUME ParkInv PROVE NoFreedCellWatched
  <2>1. ASSUME NEW t \in Threads, pc[t] = "clear", position[t] <= Len(log[t]),
               Anchored(t, position[t])
        PROVE  Current(t) \notin freed
    <3> DEFINE p == position[t]
               c == log[t][p]
    <3>0. /\ p \in DOMAIN log[t] /\ Borrows(t) /\ Watched(t) = 1..(p - 1)
      <4>1. p \in Nat /\ 1 <= p /\ Len(log[t]) \in Nat /\ DOMAIN log[t] = 1..Len(log[t])
        BY <1>1, <2>1, PositionsOfAll DEF ParkInv, ParkingTypeOK, PhaseInv,
           ThreadPhase
      <4> QED BY <2>1, <4>1 DEF Borrows, Watched
    <3> SUFFICES ASSUME c \in freed PROVE FALSE
      BY DEF Current
    <3>1. Guard[c] \in Cells /\ c \in Cellsof(log[t])
      BY <1>1, <3>0 DEF ParkInv, FreeInv, Cellsof
    <3>2. PICK j \in 1..(p - 1) : log[t][j] = Guard[c]
      BY <2>1, <3>1, ParkingAssumption DEF Anchored
    <3> QED BY <1>1, <2>1, <3>0, <3>1, <3>2 DEF ParkInv, FreeInv
  <2>2. ASSUME NEW t \in Threads, pc[t] = "filter", NEW u \in unchecked[t],
               NEW k \in LookedAt(u), Anchored(u, k)
        PROVE  log[u][k] \notin freed
    <3>1. u \in Threads /\ pc[u] = "parked" /\ Borrows(u)
      BY <1>1, <2>2 DEF ParkInv, ParkingTypeOK, PhaseInv, ThreadPhase, Borrows
    <3>2. k \in DOMAIN log[u] /\ \A j \in 1..(k - 1) : valid(u, log[u][j])
      BY DEF LookedAt
    <3>3. ASSUME NEW j \in 1..(k - 1) PROVE ~ newer(epoch_lock[log[u][j]], pin_epoch[u])
      <4>1. Len(log[u]) \in Nat /\ DOMAIN log[u] = 1..Len(log[u])
        BY <1>1, <3>1, PositionsOfAll
      <4>2. j \in DOMAIN log[u]
        BY <3>2, <4>1
      <4>3. log[u][j] \in Cells
        BY <1>1, <3>1, <4>2, PositionsOfAll
      <4> QED BY <1>1, <3>1, <3>2, <4>3, ValidWord DEF valid
    <3>4. Guard[log[u][k]] # None =>
            ~ newer(epoch_lock[Guard[log[u][k]]], pin_epoch[u])
      BY <2>2, <3>3 DEF Anchored
    <3> QED BY <1>1, <3>1, <3>2, <3>4, GuardUnchanged
  <2> QED BY <2>1, <2>2 DEF NoFreedCellWatched
<1> QED BY <1>1, ParkInvariance, PTL
=============================================================================
