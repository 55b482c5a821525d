------------------------------ MODULE GcProofs ------------------------------
(***************************************************************************)
(* GcInvariant is inductive, and the safety properties of Gc follow.       *)
(***************************************************************************)
EXTENDS GcInvariant, FiniteSetTheorems, SeqLemmas

LEMMA EpochConstants ==
  /\ LOCK_BIT \in Nat /\ FIRST = 3 /\ TICK_SIZE = 2 /\ 3 < LOCK_BIT
  /\ INACTIVE_EPOCH \in Nat /\ INACTIVE_EPOCH = 2 * LOCK_BIT - 1
  /\ END_OF_TIME \in Nat
  /\ \A e \in Nat : next(e) \in Nat /\ next(e) = e + 2
  /\ \A e \in Nat : toggle_lock_bit(e) \in Nat
BY LockBitAssumption
   DEF FIRST, TICK_SIZE, UNPARK_BIT, INACTIVE_EPOCH, END_OF_TIME, next,
       toggle_lock_bit, lock_bit_set

LEMMA InitType == Init => GcTypeOK
<1> SUFFICES ASSUME NEW gone \in SUBSET Threads, InitWith(gone)
             PROVE  GcTypeOK
  BY DEF Init
<1>1. \A S : <<>> \in Seq(S)
  BY EmptySeq
<1>2. synchs \in Seq(Threads)
  <2>1. Cardinality(Threads \ gone) \in Nat
    BY GcAssumption, FS_Subset, FS_CardinalityType
  <2>2. synchs \in [1..Cardinality(Threads \ gone) -> Threads \ gone]
    BY DEF InitWith
  <2>3. synchs \in [1..Cardinality(Threads \ gone) -> Threads]
    BY <2>2
  <2> QED
    BY <2>1, <2>3, FunctionIsSeq
<1> QED
  BY <1>1, <1>2, EpochConstants, GcAssumption DEF InitWith, GcTypeOK, Pcs

LEMMA StoreEpochType ==
  ASSUME GcTypeOK, NEW t \in Threads, NEW e \in Nat, StoreEpoch(t, e)
  PROVE  /\ current_epoch' \in [Threads -> Nat]
         /\ store_buffer' \in [Threads -> Nat \cup {None}]
BY DEF StoreEpoch, GcTypeOK

(* What collect drains is a prefix of the bags, all of them due.           *)
LEMMA MaxIdx ==
  ASSUME GcTypeOK, NEW t \in Threads
  PROVE  /\ max_idx(t) \in 0..Len(sealed_bags[t])
         /\ \A i \in 1..max_idx(t) : sealed_bags[t][i].epoch < min_epoch[t]
         /\ max_idx(t) < Len(sealed_bags[t]) =>
              ~ (sealed_bags[t][max_idx(t) + 1].epoch < min_epoch[t])
<1> DEFINE bags == sealed_bags[t]
           stay == {i \in DOMAIN bags : ~ collects(bags[i], min_epoch[t])}
<1>1. bags \in Seq(Bag) /\ min_epoch[t] \in Nat
  BY DEF GcTypeOK
<1>2. DOMAIN bags = 1..Len(bags) /\ Len(bags) \in Nat
  BY <1>1
<1>3. CASE stay = {}
  BY <1>1, <1>2, <1>3 DEF max_idx, collects
<1>4. CASE stay # {}
  <2> DEFINE first == CHOOSE i \in stay : \A j \in stay : i <= j
  <2>1. stay \in SUBSET Nat
    BY <1>2
  <2>2. \E i \in stay : \A j \in stay : i <= j
    BY <2>1, <1>4, LeastNatural
  <2>3. first \in stay /\ \A j \in stay : first <= j
    BY <2>2
  <2>4. max_idx(t) = first - 1
    BY <1>4 DEF max_idx
  <2>5. first \in 1..Len(bags) /\ ~ (bags[first].epoch < min_epoch[t])
    BY <1>2, <2>3 DEF collects
  <2>6. \A i \in 1..(first - 1) : bags[i].epoch < min_epoch[t]
    <3> SUFFICES ASSUME NEW i \in 1..(first - 1), ~ (bags[i].epoch < min_epoch[t])
                 PROVE  FALSE
      OBVIOUS
    <3>1. i \in stay
      BY <1>2, <2>5 DEF collects
    <3> QED
      BY <2>3, <2>5, <3>1
  <2> HIDE DEF first
  <2> QED
    BY <1>1, <1>2, <2>4, <2>5, <2>6
<1> QED
  BY <1>3, <1>4

-----------------------------------------------------------------------------
(* Type correctness.                                                       *)

LEMMA SwapRemove ==
  ASSUME GcTypeOK, ListInv, NEW t \in Threads, Registered(t)
  PROVE  /\ swap_remove(PositionOf(t)) \in Seq(Threads)
         /\ \A i, j \in DOMAIN swap_remove(PositionOf(t)) :
              swap_remove(PositionOf(t))[i] = swap_remove(PositionOf(t))[j]
                => i = j
         /\ \A s \in Threads :
              (\E i \in DOMAIN swap_remove(PositionOf(t)) :
                 swap_remove(PositionOf(t))[i] = s)
              <=> s # t /\ Registered(s)
<1> DEFINE n == Len(synchs)
           k == PositionOf(t)
           moved == [synchs EXCEPT ![k] = synchs[n]]
           rest == swap_remove(k)
<1>1. synchs \in Seq(Threads) /\ n \in Nat /\ DOMAIN synchs = 1..n
  BY DEF GcTypeOK
<1>2. k \in 1..n /\ synchs[k] = t
  BY <1>1 DEF Registered, PositionOf
<1>3. \A i \in 1..n : synchs[i] \in Threads
  BY <1>1
<1>4. /\ moved \in [1..n -> Threads]
      /\ \A i \in 1..n : moved[i] = IF i = k THEN synchs[n] ELSE synchs[i]
  <2> HIDE DEF k
  <2> QED BY <1>1, <1>2, <1>3
<1>5. /\ rest \in Seq(Threads)
      /\ Len(rest) = n - 1
      /\ \A i \in 1..(n - 1) : rest[i] = moved[i]
  <2>1. \A i \in 1..(n - 1) : moved[i] \in Threads
    <3> HIDE DEF moved
    <3> QED BY <1>4, <1>1
  <2>2. /\ SubSeq(moved, 1, n - 1) \in Seq(Threads)
        /\ Len(SubSeq(moved, 1, n - 1)) = IF 1 <= n - 1 THEN n - 1 - 1 + 1 ELSE 0
        /\ \A i \in 1..(n - 1 - 1 + 1) :
             SubSeq(moved, 1, n - 1)[i] = moved[1 + i - 1]
    <3>1. 1 \in Int /\ n - 1 \in Int
      BY <1>1
    <3> HIDE DEF moved, n
    <3> QED BY <2>1, <3>1, SubSeqProperties
  <2>3. rest = SubSeq(moved, 1, n - 1)
    BY DEF swap_remove
  <2>4. n >= 1
    <3> HIDE DEF k
    <3> QED BY <1>1, <1>2
  <2> HIDE DEF rest, moved, n
  <2> QED BY <1>1, <2>2, <2>3, <2>4
<1>6. DOMAIN rest = 1..(n - 1)
  <2> HIDE DEF rest
  <2> QED BY <1>5
<1>7. \A i, j \in 1..n : synchs[i] = synchs[j] => i = j
  BY <1>1 DEF ListInv
<1>8. \A s \in Threads : Registered(s) <=> \E i \in 1..n : synchs[i] = s
  BY <1>1 DEF Registered
<1>9. \A i, j \in 1..(n - 1) : rest[i] = rest[j] => i = j
  <2> HIDE DEF rest, k, moved, n
  <2> QED BY <1>1, <1>2, <1>4, <1>5, <1>7
<1>10. ASSUME NEW s \in Threads
       PROVE  (\E i \in 1..(n - 1) : rest[i] = s) <=> s # t /\ Registered(s)
  <2>1. ASSUME NEW i \in 1..(n - 1), rest[i] = s
        PROVE  s # t /\ Registered(s)
    <3> HIDE DEF rest, k, moved, n
    <3> QED BY <1>1, <1>2, <1>4, <1>5, <1>7, <1>8, <2>1
  <2>2. ASSUME s # t, NEW i \in 1..n, synchs[i] = s
        PROVE  \E j \in 1..(n - 1) : rest[j] = s
    <3> HIDE DEF rest, k, moved, n
    <3>1. CASE i = n
      BY <1>1, <1>2, <1>4, <1>5, <2>2, <3>1
    <3>2. CASE i # n
      BY <1>1, <1>2, <1>4, <1>5, <2>2, <3>2
    <3> QED BY <3>1, <3>2
  <2> HIDE DEF rest, k, moved, n
  <2> QED BY <1>8, <2>1, <2>2
<1> QED BY <1>5, <1>6, <1>9, <1>10

LEMMA QuiesceEpochType ==
  ASSUME GcTypeOK, NEW t \in Threads, sealed_bags[t] # <<>>
  PROVE  quiesce_epoch(t) \in Nat
<1>1. sealed_bags[t] \in Seq(Bag)
  BY DEF GcTypeOK
<1>2. Len(sealed_bags[t]) \in Nat \ {0}
  BY <1>1, EmptySeq
<1>3. \A i \in 1..Len(sealed_bags[t]) : sealed_bags[t][i].epoch \in Nat
  <2>1. \A i \in 1..Len(sealed_bags[t]) : sealed_bags[t][i] \in Bag
    BY <1>1, ElementOfSeq
  <2> QED BY <2>1 DEF Bag
<1> QED
  BY <1>2, <1>3 DEF quiesce_epoch

LEMMA TypeStep ==
  ASSUME GcTypeOK, ListInv, BagInv, NEW t \in Threads,
         Start(t) \/ Closure(t) \/ Continue(t)
  PROVE  GcTypeOK'
<1> USE DEF memory, epochs, tx, garbage, lists, walk, Goto
<1>0. /\ visit \in [Threads -> Nat]
      /\ unused_bags \in [Threads -> Int]
      /\ min_epoch \in [Threads -> Nat]
      /\ current_epoch \in [Threads -> Nat]
      /\ epoch_lock \in [Cells -> Nat]
      /\ writes \in [Threads -> SUBSET Cells]
      /\ dropped \subseteq Cells \X Nat
      /\ synchs \in Seq(Threads)
      /\ leaving \in [Threads -> BOOLEAN]
  BY DEF GcTypeOK
<1>1. CASE LoadNow(t)
  BY <1>1, EpochConstants DEF GcTypeOK, LoadNow, Pcs
<1>2. CASE Pin(t)
  <2>1. now[t] \in Nat BY DEF GcTypeOK
  <2> QED BY <1>2, <2>1, StoreEpochType DEF GcTypeOK, Pin, Pcs
<1>3. ASSUME NEW c \in Cells, Borrow(t, c)
      PROVE  GcTypeOK'
  <2>1. <<c, epoch_lock[c]>> \in Cells \X Nat
    BY DEF GcTypeOK
  <2> QED BY <1>3, <2>1 DEF GcTypeOK, Borrow
<1>4. CASE Fail(t)
  BY <1>4, EpochConstants DEF GcTypeOK, Fail, Pcs
<1>5. CASE Finish(t)
  BY <1>5, StoreEpochType, EpochConstants DEF GcTypeOK, Finish, Unpin, Pcs
<1>6. ASSUME NEW cells \in SUBSET Cells, LockWrites(t, cells)
      PROVE  GcTypeOK'
  BY <1>6, EpochConstants DEF GcTypeOK, LockWrites, Pcs
<1>7. CASE FetchAndTick(t)
  <2>1. {<<c, toggle_lock_bit(epoch_lock[c])>> : c \in writes[t]}
          \in SUBSET (Cells \X Nat)
    <3> SUFFICES ASSUME NEW c \in writes[t]
                 PROVE  c \in Cells /\ toggle_lock_bit(epoch_lock[c]) \in Nat
      OBVIOUS
    <3>1. c \in Cells /\ epoch_lock[c] \in Nat
      BY <1>0
    <3> QED BY <3>1, EpochConstants
  <2> QED BY <1>7, <2>1, EpochConstants DEF GcTypeOK, FetchAndTick, Pcs
<1>8. CASE Publish(t)
  BY <1>8, EpochConstants DEF GcTypeOK, Publish, Pcs
<1>9. CASE Seal(t)
  <2>1. SealedBag(t) \in Bag
    BY DEF GcTypeOK, SealedBag, Bag
  <2>2. sealed_bags' \in [Threads -> Seq(Bag)]
    BY <1>9, <2>1 DEF GcTypeOK, Seal
  <2>3. unused_bags' \in [Threads -> Int]
    BY <1>0, <1>9 DEF Seal
  <2>4. /\ current_epoch' \in [Threads -> Nat]
        /\ store_buffer' \in [Threads -> Nat \cup {None}]
    BY <1>9, StoreEpochType, EpochConstants DEF GcTypeOK, Seal, Unpin
  <2>5. pc' \in [Threads -> Pcs]
    <3>1. pc' = [pc EXCEPT ![t] = "freeze"] \/ pc' = [pc EXCEPT ![t] = "idle"]
      BY <1>9, Zenon DEF Seal, Goto
    <3>2. pc \in [Threads -> Pcs]
      BY DEF GcTypeOK
    <3> QED BY <3>1, <3>2 DEF Pcs
  <2>6. speculative_bag' \in [Threads -> SUBSET (Cells \X Nat)]
    BY <1>9 DEF GcTypeOK, Seal
  <2> QED BY <1>9, <2>2, <2>3, <2>4, <2>5, <2>6
          DEF GcTypeOK, Seal, memory, lists, walk
<1>10. CASE Drain(t)
  BY <1>10 DEF GcTypeOK, Drain, Drained
<1>11. CASE Unsubscribe(t)
  BY <1>11, StoreEpochType, EpochConstants DEF GcTypeOK, Unsubscribe, Pcs
<1>12. CASE Freeze(t)
  BY <1>12, EpochConstants DEF GcTypeOK, Freeze, Pcs
<1>13. CASE QuiesceNext(t)
  <2> DEFINE s == synchs[visit[t]]
  <2>1. visit[t] \in 1..Len(synchs)
    BY <1>13 DEF GcTypeOK, ListInv, ThreadInList, QuiesceNext, Frozen
  <2>2. s \in Threads
    BY <2>1, ElementOfSeq DEF GcTypeOK
  <2>3. Lesser(min_epoch[t], current_epoch[s]) \in Nat /\ visit[t] + 1 \in Nat
    BY <1>0, <2>2 DEF Lesser
  <2>4. /\ min_epoch' \in [Threads -> Nat]
        /\ visit' \in [Threads -> Nat]
        /\ pc' \in [Threads -> Pcs]
    BY <1>13, <2>3 DEF GcTypeOK, QuiesceNext, Pcs
  <2> QED BY <1>13, <2>4 DEF GcTypeOK, QuiesceNext
<1>14. CASE LocalQuiesce(t)
  <2>1. visit' \in [Threads -> Nat]
    <3>1. visit' = [visit EXCEPT ![t] = @ + 1]
      BY <1>14 DEF LocalQuiesce
    <3>2. visit \in [Threads -> Nat]
      BY DEF GcTypeOK
    <3> QED BY <3>1, <3>2
  <2>2. pc' \in [Threads -> Pcs]
    BY <1>14 DEF GcTypeOK, LocalQuiesce, Pcs
  <2> QED BY <1>14, <2>1, <2>2 DEF GcTypeOK, LocalQuiesce
<1>15. CASE Unfreeze(t)
  <2>1. sealed_bags[t] \in Seq(Bag)
    BY DEF GcTypeOK
  <2>3. max_idx(t) \in 0..Len(sealed_bags[t]) /\ Len(sealed_bags[t]) \in Nat
    BY <2>1, MaxIdx, LenProperties
  <2>4. SubSeq(sealed_bags[t], 1, max_idx(t)) \in Seq(Bag)
    BY <2>1, <2>3, SeqPrefix
  <2>5. SubSeq(sealed_bags[t], max_idx(t) + 1, Len(sealed_bags[t])) \in Seq(Bag)
    BY <2>1, <2>3, SeqSuffix
  <2>6. /\ sealed_bags' \in [Threads -> Seq(Bag)]
        /\ draining' \in [Threads -> Seq(Bag)]
    BY <1>15, <2>4, <2>5 DEF GcTypeOK, Unfreeze
  <2> QED BY <1>15, <2>6, EpochConstants DEF GcTypeOK, Unfreeze, Pcs
<1>16. CASE Recycle(t)
  <2>1. draining[t] \in Seq(Bag) /\ draining[t] # <<>>
    BY <1>16 DEF GcTypeOK, Recycle
  <2>2. Head(draining[t]) \in Bag /\ Tail(draining[t]) \in Seq(Bag)
    BY <2>1, HeadTailProperties
  <2>3. Head(draining[t]).trash \in SUBSET (Cells \X Nat)
    BY <2>2 DEF Bag
  <2>4. draining' \in [Threads -> Seq(Bag)]
    BY <1>16, <2>2 DEF GcTypeOK, Recycle
  <2>5. dropped' \subseteq Cells \X Nat /\ unused_bags' \in [Threads -> Int]
    BY <1>0, <1>16, <2>3 DEF Recycle
  <2> QED BY <1>16, <2>4, <2>5 DEF GcTypeOK, Recycle
<1>17. CASE RecyclePanics(t)
  <2>1. draining[t] \in Seq(Bag) /\ draining[t] # <<>>
    BY <1>17 DEF GcTypeOK, RecyclePanics
  <2>2. Head(draining[t]) \in Bag
    BY <2>1, HeadTailProperties
  <2>3. Head(draining[t]).trash \in SUBSET (Cells \X Nat)
    BY <2>2 DEF Bag
  <2>4. draining' \in [Threads -> Seq(Bag)]
    BY <1>17, EmptySeq DEF GcTypeOK, RecyclePanics
  <2>5. dropped' \subseteq Cells \X Nat /\ unused_bags' \in [Threads -> Int]
    BY <1>0, <1>17, <2>3 DEF RecyclePanics
  <2> QED BY <1>17, <2>4, <2>5, StoreEpochType, EpochConstants
          DEF GcTypeOK, RecyclePanics, Unpin, Pcs
<1>18. CASE Collected(t)
  BY <1>18, StoreEpochType, EpochConstants DEF GcTypeOK, Collected, Unpin, Pcs
<1>19. CASE Subscribe(t)
  <2>1. sealed_bags' \in [Threads -> Seq(Bag)]
    BY <1>19, EmptySeq DEF GcTypeOK, Subscribe
  <2>2. unused_bags' \in [Threads -> Int]
    BY <1>19, GcAssumption DEF GcTypeOK, Subscribe
  <2> QED BY <1>19, <2>1, <2>2 DEF GcTypeOK, Subscribe, Pcs
<1>20. CASE LockMutex(t)
  BY <1>20 DEF GcTypeOK, LockMutex, Pcs
<1>21. CASE LockShard(t)
  <2>1. exclusive' \in [Threads -> Threads \cup {None}]
    BY <1>21 DEF GcTypeOK, LockShard
  <2>2. visit' \in [Threads -> Nat]
    <3>1. visit' = visit \/ visit' = [visit EXCEPT ![t] = visit[t] + 1]
      BY <1>21 DEF LockShard
    <3>2. visit \in [Threads -> Nat] /\ visit[t] + 1 \in Nat
      BY <1>0
    <3>3. CASE visit' = visit
      BY <3>2, <3>3
    <3>4. CASE visit' = [visit EXCEPT ![t] = visit[t] + 1]
      BY <3>2, <3>4
    <3> QED BY <3>1, <3>3, <3>4
  <2> QED BY <1>21, <2>1, <2>2 DEF GcTypeOK, LockShard
<1>22. CASE Modify(t)
  <2>1. synchs' \in Seq(Threads)
    <3>1. CASE leaving[t]
      BY <1>22, <3>1, SwapRemove DEF Modify, ListInv, ThreadInList
    <3>2. CASE ~ leaving[t]
      BY <1>0, <1>22, <3>2, AppendProperties DEF Modify
    <3> QED BY <3>1, <3>2
  <2>2. pc' \in [Threads -> Pcs] /\ leaving' \in [Threads -> BOOLEAN]
    BY <1>22 DEF GcTypeOK, Modify, Pcs
  <2> QED BY <1>22, <2>1, <2>2, EpochConstants DEF GcTypeOK, Modify
<1> QED
  BY <1>1, <1>2, <1>3, <1>4, <1>5, <1>6, <1>7, <1>8, <1>9, <1>10, <1>11,
     <1>12, <1>13, <1>14, <1>15, <1>16, <1>17, <1>18, <1>19, <1>20, <1>21,
     <1>22
     DEF Start, Closure, Continue

(* A step of t changes nothing that belongs to another thread.             *)
LEMMA OthersKept ==
  ASSUME GcTypeOK, NEW t \in Threads, Start(t) \/ Closure(t) \/ Continue(t),
         NEW u \in Threads, u # t
  PROVE  /\ pc'[u] = pc[u] /\ now'[u] = now[u]
         /\ borrowed'[u] = borrowed[u] /\ writes'[u] = writes[u]
         /\ speculative_bag'[u] = speculative_bag[u]
         /\ sealed_bags'[u] = sealed_bags[u]
         /\ unused_bags'[u] = unused_bags[u] /\ draining'[u] = draining[u]
         /\ leaving'[u] = leaving[u]
         /\ visit'[u] = visit[u] /\ min_epoch'[u] = min_epoch[u]
         /\ current_epoch'[u] = current_epoch[u]
         /\ store_buffer'[u] = store_buffer[u]
<1> USE DEF Goto, memory, epochs, tx, garbage, lists, walk
<1>1. /\ pc \in [Threads -> Pcs] /\ now \in [Threads -> Nat]
      /\ borrowed \in [Threads -> SUBSET (Cells \X Nat)]
      /\ writes \in [Threads -> SUBSET Cells]
      /\ speculative_bag \in [Threads -> SUBSET (Cells \X Nat)]
      /\ sealed_bags \in [Threads -> Seq(Bag)]
      /\ draining \in [Threads -> Seq(Bag)]
      /\ unused_bags \in [Threads -> Int] /\ leaving \in [Threads -> BOOLEAN]
      /\ visit \in [Threads -> Nat] /\ min_epoch \in [Threads -> Nat]
      /\ current_epoch \in [Threads -> Nat]
      /\ store_buffer \in [Threads -> Nat \cup {None}]
  BY DEF GcTypeOK
<1>2. CASE Start(t)
  BY <1>1, <1>2 DEF Start, LoadNow, Subscribe, Unsubscribe, StoreEpoch
<1>3. CASE Closure(t)
  BY <1>1, <1>3 DEF Closure, Borrow, LockWrites, Fail
<1>4. CASE Drain(t) \/ Pin(t) \/ Finish(t) \/ FetchAndTick(t) \/ Publish(t)
  BY <1>1, <1>4 DEF Drain, Pin, Finish, FetchAndTick, Publish, Unpin, StoreEpoch
<1>5. CASE Seal(t)
  BY <1>1, <1>5 DEF Seal, Unpin, StoreEpoch
<1>6. CASE Freeze(t) \/ QuiesceNext(t) \/ LocalQuiesce(t)
  BY <1>1, <1>6 DEF Freeze, QuiesceNext, LocalQuiesce
<1>7. CASE Unfreeze(t) \/ Recycle(t)
  BY <1>1, <1>7 DEF Unfreeze, Recycle
<1>8. CASE RecyclePanics(t) \/ Collected(t)
  BY <1>1, <1>8 DEF RecyclePanics, Collected, Unpin, StoreEpoch
<1>9. CASE LockMutex(t) \/ LockShard(t) \/ Modify(t)
  BY <1>1, <1>9 DEF LockMutex, LockShard, Modify
<1> QED
  BY <1>2, <1>3, <1>4, <1>5, <1>6, <1>7, <1>8, <1>9 DEF Continue

-----------------------------------------------------------------------------
(* The list of threads and its locks.                                      *)

LEMMA InitList == Init => ListInv
<1> SUFFICES ASSUME NEW gone \in SUBSET Threads, InitWith(gone)
             PROVE  ListInv
  BY DEF Init
<1>1. synchs \in [1..Cardinality(Threads \ gone) -> Threads \ gone]
  BY DEF InitWith
<1>2. \A i, j \in DOMAIN synchs : synchs[i] = synchs[j] => i = j
  BY DEF InitWith
<1>3. Cardinality(Threads \ gone) \in Nat /\ IsFiniteSet(Threads \ gone)
  BY GcAssumption, FS_Subset, FS_CardinalityType
<1>4. \A t \in Threads \ gone : Registered(t)
  <2>1. synchs \in Injection(1..Cardinality(Threads \ gone), Threads \ gone)
    BY <1>1, <1>2 DEF Injection, IsInjective
  <2>2. Cardinality(1..Cardinality(Threads \ gone)) = Cardinality(Threads \ gone)
    BY <1>3, FS_Interval
  <2>3. synchs \in Surjection(1..Cardinality(Threads \ gone), Threads \ gone)
    BY <1>3, <2>1, <2>2, FS_Injection
  <2> QED BY <1>1, <2>3 DEF Surjection, Registered
<1>5. \A t \in gone : ~ Registered(t)
  BY <1>1 DEF Registered
<1> QED
  BY <1>2, <1>4, <1>5, GcAssumption DEF InitWith, ListInv, ThreadInList, Frozen

(* Steps that have nothing to do with the list.                            *)
LEMMA ListKept ==
  ASSUME ListInv, GcTypeOK, NEW t \in Threads, UNCHANGED <<lists, leaving, visit>>,
         pc[t] \notin {"gone", "write", "shards"},
         \A s \in Threads : s # t => pc'[s] = pc[s],
         pc'[t] = "write" => leaving[t],
         pc'[t] \notin {"gone", "shards"} \cup Frozen,
         leaving[t] => pc'[t] \in {"freeze", "collect", "write"}
  PROVE  ListInv'
<1> USE DEF lists
<1>1. \A s \in Threads : Registered(s)' <=> Registered(s)
  BY DEF Registered
<1>2. (\A i, j \in DOMAIN synchs : synchs[i] = synchs[j] => i = j)'
  BY DEF ListInv
<1>3. ASSUME NEW s \in Threads, s # t
      PROVE  ThreadInList(s)'
  BY <1>1, <1>3 DEF ListInv, ThreadInList, Frozen
<1>4. ThreadInList(t)'
  BY <1>1 DEF ListInv, ThreadInList, Frozen
<1> QED
  BY <1>2, <1>3, <1>4 DEF ListInv

LEMMA ListStep ==
  ASSUME GcTypeOK, ListInv, BagInv, NEW t \in Threads,
         Start(t) \/ Closure(t) \/ Continue(t)
  PROVE  ListInv'
<1> USE DEF Goto
<1>0. /\ pc \in [Threads -> Pcs] /\ leaving \in [Threads -> BOOLEAN]
      /\ visit \in [Threads -> Nat] /\ shared \in [Threads -> BOOLEAN]
      /\ exclusive \in [Threads -> Threads \cup {None}]
      /\ synchs \in Seq(Threads)
      /\ DOMAIN synchs = 1..Len(synchs) /\ Len(synchs) \in Nat
      /\ \A i \in DOMAIN synchs : synchs[i] \in Threads
  <2>1. synchs \in Seq(Threads)
    BY DEF GcTypeOK
  <2>2. /\ pc \in [Threads -> Pcs] /\ leaving \in [Threads -> BOOLEAN]
        /\ visit \in [Threads -> Nat] /\ shared \in [Threads -> BOOLEAN]
        /\ exclusive \in [Threads -> Threads \cup {None}]
    BY DEF GcTypeOK
  <2> QED BY <2>1, <2>2, SeqElements
<1>1. CASE Drain(t)
  BY <1>1 DEF Drain, ListInv, ThreadInList, Registered, lists, walk
<1>2. CASE \/ LoadNow(t) \/ Pin(t) \/ Fail(t) \/ Finish(t) \/ FetchAndTick(t)
           \/ Publish(t) \/ Seal(t)
  <2>1. /\ UNCHANGED <<lists, leaving, visit>>
        /\ pc[t] \in {"idle", "pin", "run", "tick", "publish", "seal"}
        /\ \E l \in {"idle", "pin", "run", "publish", "seal", "freeze"} :
             pc' = [pc EXCEPT ![t] = l]
    BY <1>2 DEF LoadNow, Pin, Fail, Finish, FetchAndTick, Publish, Seal, walk
  <2>2. ~ leaving[t]
    BY <2>1 DEF ListInv, ThreadInList
  <2> QED BY <1>0, <2>1, <2>2, ListKept DEF Frozen
<1>3. ASSUME NEW cells \in SUBSET Cells, LockWrites(t, cells)
      PROVE  ListInv'
  <2>1. /\ UNCHANGED <<lists, leaving, visit>>
        /\ pc[t] = "run" /\ pc' = [pc EXCEPT ![t] = "tick"]
    BY <1>3 DEF LockWrites, walk
  <2>2. ~ leaving[t]
    BY <2>1 DEF ListInv, ThreadInList
  <2> QED BY <1>0, <2>1, <2>2, ListKept DEF Frozen
<1>4. ASSUME NEW c \in Cells, Borrow(t, c)
      PROVE  ListInv'
  BY <1>4 DEF Borrow, ListInv, ThreadInList, Registered, lists, walk
<1>5. CASE Recycle(t)
  BY <1>5 DEF Recycle, ListInv, ThreadInList, Registered, lists, walk
<1>6. CASE RecyclePanics(t) \/ Collected(t)
  <2>1. /\ UNCHANGED <<lists, leaving, visit>>
        /\ pc[t] = "collect"
        /\ \/ pc' = [pc EXCEPT ![t] = "idle"] /\ ~ leaving[t]
           \/ pc' = [pc EXCEPT ![t] = "write"] /\ leaving[t]
    BY <1>6 DEF RecyclePanics, Collected, walk
  <2> QED BY <1>0, <2>1, ListKept DEF Frozen
<1>7. CASE Unsubscribe(t)
  <2>1. /\ UNCHANGED lists /\ UNCHANGED visit
        /\ pc[t] = "idle" /\ leaving' = [leaving EXCEPT ![t] = TRUE]
        /\ \E l \in {"write", "freeze"} : pc' = [pc EXCEPT ![t] = l]
    BY <1>7 DEF Unsubscribe, walk
  <2>2. \A s \in Threads : Registered(s)' <=> Registered(s)
    BY <2>1 DEF Registered, lists
  <2>3. \A s \in Threads : ThreadInList(s)'
    BY <1>0, <2>1, <2>2 DEF ListInv, ThreadInList, lists, Frozen
  <2> QED BY <2>1, <2>3 DEF ListInv, lists
<1>8. CASE Freeze(t)
  <2>1. \A s \in Threads : Registered(s)' <=> Registered(s)
    BY <1>8 DEF Freeze, Registered
  <2>2. ASSUME NEW s \in Threads
        PROVE  ThreadInList(s)'
    BY <1>0, <1>8, <2>1, GcAssumption DEF Freeze, ListInv, ThreadInList, Frozen
  <2> QED BY <1>8, <2>2 DEF ListInv, Freeze
<1>9. CASE QuiesceNext(t) \/ LocalQuiesce(t)
  <2>1. /\ UNCHANGED <<lists, leaving>>
        /\ pc[t] \in Frozen
        /\ \/ UNCHANGED pc \/ pc' = [pc EXCEPT ![t] = "quiesce"]
           \/ pc' = [pc EXCEPT ![t] = "wait"] /\ visit[t] <= Len(synchs) /\ UNCHANGED visit
        /\ UNCHANGED visit \/ visit' = [visit EXCEPT ![t] = visit[t] + 1]
        /\ pc'[t] = "wait" => visit'[t] = visit[t] /\ visit[t] <= Len(synchs)
    BY <1>0, <1>9 DEF QuiesceNext, LocalQuiesce, Frozen
  <2>2. \A s \in Threads : Registered(s)' <=> Registered(s)
    BY <2>1 DEF Registered, lists
  <2>3. ASSUME NEW s \in Threads, s # t
        PROVE  ThreadInList(s)'
    BY <1>0, <2>1, <2>2, <2>3 DEF ListInv, ThreadInList, lists, Frozen
  <2>4. ThreadInList(t)'
    BY <1>0, <2>1, <2>2 DEF ListInv, ThreadInList, lists, Frozen
  <2> QED BY <2>1, <2>3, <2>4 DEF ListInv, lists
<1>10. CASE Unfreeze(t)
  <2>1. \A s \in Threads : Registered(s)' <=> Registered(s)
    BY <1>10 DEF Unfreeze, Registered
  <2>2. ASSUME NEW s \in Threads
        PROVE  ThreadInList(s)'
    BY <1>0, <1>10, <2>1, GcAssumption DEF Unfreeze, ListInv, ThreadInList, Frozen
  <2> QED BY <1>10, <2>2 DEF ListInv, Unfreeze
<1>11. CASE Subscribe(t)
  <2>1. \A s \in Threads : Registered(s)' <=> Registered(s)
    BY <1>11 DEF Subscribe, Registered, lists
  <2>2. ASSUME NEW s \in Threads
        PROVE  ThreadInList(s)'
    BY <1>0, <1>11, <2>1 DEF Subscribe, ListInv, ThreadInList, Frozen, lists, walk
  <2> QED BY <1>11, <2>2 DEF ListInv, Subscribe, lists
<1>12. CASE LockMutex(t)
  <2>1. \A s \in Threads : Registered(s)' <=> Registered(s)
    BY <1>12 DEF LockMutex, Registered
  <2>2. ASSUME NEW s \in Threads
        PROVE  ThreadInList(s)'
    BY <1>0, <1>12, <2>1, GcAssumption DEF LockMutex, ListInv, ThreadInList, Frozen
  <2> QED BY <1>12, <2>2 DEF ListInv, LockMutex
<1>13. CASE LockShard(t)
  <2> DEFINE s == synchs[visit[t]]
  <2>1. /\ UNCHANGED <<synchs, mutex, shared, leaving, pc>>
        /\ pc[t] = "shards" /\ mutex = t /\ visit[t] \in DOMAIN synchs
    BY <1>0, <1>13 DEF LockShard, ListInv, ThreadInList
  <2>2. \A u \in Threads : Registered(u)' <=> Registered(u)
    BY <2>1 DEF Registered
  <2>3. CASE exclusive' = [exclusive EXCEPT ![s] = t] /\ UNCHANGED visit
    <3>1. \A u \in Threads : ThreadInList(u)'
      BY <1>0, <2>1, <2>2, <2>3 DEF ListInv, ThreadInList, Frozen
    <3> QED BY <2>1, <3>1 DEF ListInv
  <2>4. CASE /\ exclusive[s] = t /\ ~ shared[s] /\ UNCHANGED exclusive
             /\ visit' = [visit EXCEPT ![t] = visit[t] + 1]
    <3>1. ASSUME NEW u \in Threads
          PROVE  ThreadInList(u)'
      BY <1>0, <2>1, <2>2, <2>4 DEF ListInv, ThreadInList, Frozen
    <3> QED BY <2>1, <3>1 DEF ListInv
  <2> QED BY <1>13, <2>3, <2>4 DEF LockShard
<1>14. CASE Modify(t)
  <2>1. /\ pc[t] = "shards" /\ mutex' = None
        /\ exclusive' = [s \in Threads |-> None]
        /\ leaving' = [leaving EXCEPT ![t] = FALSE]
        /\ pc' = [pc EXCEPT ![t] = IF leaving[t] THEN "gone" ELSE "idle"]
        /\ UNCHANGED shared
        /\ visit' = [visit EXCEPT ![t] = 0]
    BY <1>14 DEF Modify
  <2>2. \A s \in Threads : pc[s] \notin Frozen /\ (pc[s] = "shards" => s = t)
    BY <1>0, <1>14 DEF Modify, ListInv, ThreadInList, AllShardsLocked, Registered, Frozen
  <2>3. /\ \A i, j \in DOMAIN synchs' : synchs'[i] = synchs'[j] => i = j
        /\ \A s \in Threads \ {t} : Registered(s)' <=> Registered(s)
        /\ Registered(t)' <=> ~ leaving[t]
    <3>1. CASE leaving[t]
      BY <1>14, <3>1, SwapRemove DEF Modify, ListInv, ThreadInList, Registered
    <3>2. CASE ~ leaving[t]
      <4>0. DOMAIN synchs = 1..Len(synchs) /\ Len(synchs) \in Nat
        BY <1>0
      <4>1. ~ Registered(t)
        BY <2>1, <3>2 DEF ListInv, ThreadInList
      <4>2. synchs' = Append(synchs, t)
        BY <1>14, <3>2 DEF Modify
      <4>3. /\ DOMAIN synchs' = 1..(Len(synchs) + 1)
            /\ \A i \in DOMAIN synchs : synchs'[i] = synchs[i]
            /\ synchs'[Len(synchs) + 1] = t
        BY <1>0, <4>2, AppendProperties
      <4>4. \A i \in DOMAIN synchs : synchs[i] # t
        BY <4>1 DEF Registered
      <4>5. \A i, j \in DOMAIN synchs' : synchs'[i] = synchs'[j] => i = j
        <5> SUFFICES ASSUME NEW i \in 1..(Len(synchs) + 1),
                            NEW j \in 1..(Len(synchs) + 1),
                            synchs'[i] = synchs'[j]
                     PROVE  i = j
          BY <4>3
        <5>1. CASE i \in DOMAIN synchs /\ j \in DOMAIN synchs
          BY <4>3, <5>1 DEF ListInv
        <5>2. CASE i = Len(synchs) + 1 \/ j = Len(synchs) + 1
          <6>1. \A k \in 1..(Len(synchs) + 1) :
                  k # Len(synchs) + 1 => k \in DOMAIN synchs
            BY <4>0
          <6>2. \A k \in 1..(Len(synchs) + 1) :
                  synchs'[k] = t => k = Len(synchs) + 1
            BY <4>3, <4>4, <6>1
          <6>3. synchs'[i] = t /\ synchs'[j] = t
            BY <4>3, <5>2
          <6> QED BY <6>2, <6>3
        <5> QED BY <4>0, <5>1, <5>2
      <4>6. ASSUME NEW s \in Threads \ {t}
            PROVE  Registered(s)' <=> Registered(s)
        <5>1. ASSUME NEW i \in DOMAIN synchs', synchs'[i] = s
              PROVE  Registered(s)
          BY <4>0, <4>3, <5>1 DEF Registered
        <5>2. ASSUME NEW i \in DOMAIN synchs, synchs[i] = s
              PROVE  Registered(s)'
          BY <4>0, <4>3, <5>2 DEF Registered
        <5> QED BY <5>1, <5>2 DEF Registered
      <4>7. Registered(t)'
        <5>1. Len(synchs) + 1 \in DOMAIN synchs'
          BY <1>0, <4>3
        <5>2. synchs'[Len(synchs) + 1] = t
          BY <4>3
        <5> QED BY <5>1, <5>2 DEF Registered
      <4> QED BY <3>2, <4>5, <4>6, <4>7
    <3> QED BY <3>1, <3>2
  <2>4. ASSUME NEW s \in Threads
        PROVE  ThreadInList(s)'
    BY <1>0, <2>1, <2>2, <2>3, GcAssumption DEF ThreadInList, ListInv, Frozen
  <2> QED BY <2>3, <2>4 DEF ListInv
<1> QED
  BY <1>1, <1>2, <1>3, <1>4, <1>5, <1>6, <1>7, <1>8, <1>9, <1>10, <1>11,
     <1>12, <1>13, <1>14
     DEF Start, Closure, Continue

(* Whoever changes the list has every shard, and a collector would have    *)
(* one of them.                                                            *)
LEMMA FrozenStep ==
  ASSUME GcTypeOK, ListInv, [Next]_vars, synchs' # synchs, NEW s \in Threads
  PROVE  pc[s] \notin Frozen
<1>1. PICK t \in Threads : Start(t) \/ Closure(t) \/ Continue(t)
  BY DEF Next, vars, lists
<1>2. Modify(t)
  BY <1>1 DEF Start, Closure, Continue, lists, LoadNow, Subscribe, Unsubscribe,
     Borrow, LockWrites, Fail, Drain, Pin, Finish, FetchAndTick, Publish, Seal,
     Freeze, QuiesceNext, LocalQuiesce, Unfreeze, Recycle, RecyclePanics,
     Collected, LockMutex, LockShard
<1>3. \A j \in DOMAIN synchs : j < visit[t]
  BY <1>2 DEF Modify, AllShardsLocked, GcTypeOK
<1> QED
  BY <1>2, <1>3 DEF Modify, ListInv, ThreadInList, Registered, Frozen

-----------------------------------------------------------------------------
(* The clock.                                                              *)

LEMMA TickingFinite ==
  /\ IsFiniteSet(Ticking) /\ Cardinality(Ticking) \in Nat
  /\ IsFiniteSet(Ticking') /\ Cardinality(Ticking') \in Nat
<1>1. Ticking \in SUBSET Threads /\ Ticking' \in SUBSET Threads
  BY DEF Ticking
<1> QED BY <1>1, GcAssumption, FS_Subset, FS_CardinalityType

LEMMA ClockBounded ==
  ASSUME GcTypeOK, ClockInv
  PROVE  clock \in Nat /\ clock < LOCK_BIT
<1>1. clock \in Nat
  BY DEF GcTypeOK
<1> QED
  BY <1>1, TickingFinite, EpochConstants, GcAssumption DEF ClockInv

LEMMA ClockStep ==
  ASSUME GcTypeOK, ClockInv, NEW t \in Threads,
         Start(t) \/ Closure(t) \/ Continue(t)
  PROVE  ClockInv' /\ clock <= clock'
<1> USE DEF Goto, memory
<1>0. pc \in [Threads -> Pcs] /\ clock \in Nat
  BY DEF GcTypeOK
<1>1. ASSUME NEW cells \in SUBSET Cells, LockWrites(t, cells)
      PROVE  ClockInv' /\ clock <= clock'
  <2>1. Ticking' = Ticking \cup {t} /\ t \notin Ticking
    BY <1>0, <1>1 DEF LockWrites, Ticking
  <2>2. Cardinality(Ticking') = Cardinality(Ticking) + 1
    BY <2>1, TickingFinite, FS_AddElement
  <2>3. /\ clock + TICK_SIZE * Cardinality(Ticking) < MaxEpoch
        /\ clock' = clock
    BY <1>1 DEF LockWrites
  <2> QED
    BY <1>0, <2>2, <2>3, TickingFinite, EpochConstants, GcAssumption DEF ClockInv
<1>2. CASE FetchAndTick(t)
  <2>1. Ticking' = Ticking \ {t} /\ t \in Ticking
    BY <1>0, <1>2 DEF FetchAndTick, Ticking
  <2>2. Cardinality(Ticking') = Cardinality(Ticking) - 1
    BY <2>1, TickingFinite, FS_RemoveElement
  <2>3. clock' = clock + 2
    BY <1>0, <1>2, EpochConstants DEF FetchAndTick
  <2> QED
    BY <1>0, <2>2, <2>3, TickingFinite, EpochConstants, GcAssumption DEF ClockInv
<1>3. CASE clock' = clock /\ Ticking' = Ticking
  BY <1>0, <1>3 DEF ClockInv
<1>4. CASE UNCHANGED <<clock, pc>>
  BY <1>3, <1>4 DEF Ticking
<1>5. CASE /\ clock' = clock /\ pc[t] # "tick"
           /\ \E l \in Pcs \ {"tick"} : pc' = [pc EXCEPT ![t] = l]
  BY <1>0, <1>3, <1>5 DEF Ticking
<1>6. CASE Start(t)
  BY <1>5, <1>6
     DEF Start, LoadNow, Subscribe, Unsubscribe, Pcs
<1>7. CASE Closure(t)
  <2>1. CASE \E c \in Cells : Borrow(t, c)
    BY <1>4, <2>1 DEF Borrow
  <2>2. CASE Fail(t)
    BY <1>5, <2>2 DEF Fail, Pcs
  <2> QED BY <1>1, <1>7, <2>1, <2>2 DEF Closure
<1>8. CASE Drain(t) \/ Recycle(t) \/ LockShard(t)
  BY <1>4, <1>8 DEF Drain, Recycle, LockShard
<1>9. CASE \/ Pin(t) \/ Finish(t) \/ Publish(t) \/ Seal(t) \/ Freeze(t)
           \/ LocalQuiesce(t) \/ Unfreeze(t) \/ RecyclePanics(t)
           \/ Collected(t) \/ LockMutex(t) \/ Modify(t)
  BY <1>5, <1>9 DEF Pin, Finish, Publish, Seal, Freeze, LocalQuiesce, Unfreeze,
     RecyclePanics, Collected, LockMutex, Modify, Pcs
<1>10. CASE QuiesceNext(t)
  BY <1>4, <1>5, <1>10 DEF QuiesceNext, Pcs
<1> QED
  BY <1>2, <1>6, <1>7, <1>8, <1>9, <1>10 DEF Continue

-----------------------------------------------------------------------------
(* The bags.                                                               *)

LEMMA InitBags == Init => BagInv /\ ClockInv
<1> SUFFICES ASSUME NEW gone \in SUBSET Threads, InitWith(gone)
             PROVE  BagInv /\ ClockInv
  BY DEF Init
<1>1. BagInv
  BY DEF InitWith, BagInv, ThreadBags, Frozen
<1>2. Ticking = {}
  BY DEF InitWith, Ticking
<1>3. Cardinality(Ticking) = 0
  BY <1>2, FS_EmptySet
<1> QED
  BY <1>1, <1>3, EpochConstants, GcAssumption DEF InitWith, ClockInv

(* The sealed bags of a thread, and their epochs.                          *)
LEMMA SealedType ==
  ASSUME GcTypeOK, NEW t \in Threads
  PROVE  /\ sealed_bags[t] \in Seq(Bag) /\ Len(sealed_bags[t]) \in Nat
         /\ DOMAIN sealed_bags[t] = 1..Len(sealed_bags[t])
         /\ sealed_bags[t] = <<>> <=> Len(sealed_bags[t]) = 0
         /\ \A i \in 1..Len(sealed_bags[t]) :
              /\ sealed_bags[t][i] \in Bag
              /\ sealed_bags[t][i].epoch \in Nat
              /\ sealed_bags[t][i].trash \in SUBSET (Cells \X Nat)
<1>1. sealed_bags[t] \in Seq(Bag)
  BY DEF GcTypeOK
<1>2. /\ Len(sealed_bags[t]) \in Nat
      /\ DOMAIN sealed_bags[t] = 1..Len(sealed_bags[t])
      /\ \A i \in DOMAIN sealed_bags[t] : sealed_bags[t][i] \in Bag
      /\ sealed_bags[t] = <<>> <=> Len(sealed_bags[t]) = 0
  BY <1>1, SeqElements
<1> QED BY <1>1, <1>2 DEF Bag

(* What quiesce waits for is at least the first bag, and the last one in   *)
(* unsubscribe.                                                            *)
LEMMA QuiesceEpochBounds ==
  ASSUME GcTypeOK, NEW t \in Threads, ThreadBags(t), sealed_bags[t] # <<>>
  PROVE  /\ quiesce_epoch(t) \in Nat /\ quiesce_epoch(t) < clock
         /\ sealed_bags[t][1].epoch <= quiesce_epoch(t)
         /\ leaving[t] => \A i \in DOMAIN sealed_bags[t] :
                            sealed_bags[t][i].epoch <= quiesce_epoch(t)
<1>1. quiesce_epoch(t) \in Nat
  BY QuiesceEpochType
<1>2. 1 \in 1..Len(sealed_bags[t]) /\ Len(sealed_bags[t]) \in 1..Len(sealed_bags[t])
  BY SealedType
<1> QED BY <1>1, <1>2, SealedType DEF ThreadBags, quiesce_epoch

(* collect drains at least one bag, and all in unsubscribe.                *)
LEMMA DrainedBags ==
  ASSUME GcTypeOK, NEW t \in Threads, ThreadBags(t), pc[t] \in Frozen
  PROVE  /\ max_idx(t) \in 1..Len(sealed_bags[t])
         /\ leaving[t] => max_idx(t) = Len(sealed_bags[t])
<1>1. /\ sealed_bags[t] # <<>>
      /\ quiesce_epoch(t) < min_epoch[t] /\ min_epoch[t] \in Nat
  BY QuiesceEpochType DEF ThreadBags, GcTypeOK
<1>2. sealed_bags[t][1].epoch < min_epoch[t]
  <2>1. sealed_bags[t][1].epoch \in Nat
    BY <1>1, SealedType
  <2> QED BY <1>1, <2>1, QuiesceEpochBounds
<1>3. max_idx(t) # 0
  BY <1>1, <1>2, MaxIdx, SealedType
<1>4. ASSUME leaving[t], max_idx(t) < Len(sealed_bags[t])
      PROVE  FALSE
  <2>1. max_idx(t) + 1 \in DOMAIN sealed_bags[t]
    BY <1>4, MaxIdx, SealedType
  <2>2. sealed_bags[t][max_idx(t) + 1].epoch <= quiesce_epoch(t)
    BY <1>1, <1>4, <2>1, QuiesceEpochBounds
  <2>3. sealed_bags[t][max_idx(t) + 1].epoch \in Nat
    BY <2>1, SealedType
  <2> QED BY <1>1, <1>4, <2>2, <2>3, MaxIdx, QuiesceEpochType
<1> QED BY <1>3, <1>4, MaxIdx, SealedType

LEMMA BagStep ==
  ASSUME GcTypeOK, ListInv, ClockInv, BagInv, NEW t \in Threads,
         Start(t) \/ Closure(t) \/ Continue(t)
  PROVE  BagInv'
<1> USE DEF Goto
<1>0. /\ clock \in Nat /\ clock' \in Nat /\ clock <= clock' /\ clock < LOCK_BIT
      /\ pc \in [Threads -> Pcs] /\ now \in [Threads -> Nat]
      /\ leaving \in [Threads -> BOOLEAN] /\ min_epoch \in [Threads -> Nat]
      /\ draining \in [Threads -> Seq(Bag)]
      /\ sealed_bags \in [Threads -> Seq(Bag)]
  BY ClockStep, TypeStep, ClockBounded DEF GcTypeOK
<1>s. /\ Len(sealed_bags[t]) \in Nat
      /\ DOMAIN sealed_bags[t] = 1..Len(sealed_bags[t])
      /\ \A i \in DOMAIN sealed_bags[t] : sealed_bags[t][i].epoch \in Nat
  BY SealedType
<1>b. ThreadBags(t)
  BY DEF BagInv
<1>l. ThreadInList(t)
  BY DEF ListInv
<1>o. ASSUME NEW u \in Threads, u # t
      PROVE  ThreadBags(u)'
  <2>1. /\ pc'[u] = pc[u] /\ now'[u] = now[u] /\ sealed_bags'[u] = sealed_bags[u]
        /\ draining'[u] = draining[u] /\ leaving'[u] = leaving[u]
        /\ min_epoch'[u] = min_epoch[u]
    BY <1>o, OthersKept
  <2>2. quiesce_epoch(u)' = quiesce_epoch(u)
    BY <2>1 DEF quiesce_epoch
  <2>3. /\ DOMAIN sealed_bags[u] = 1..Len(sealed_bags[u])
        /\ \A i \in DOMAIN sealed_bags[u] : sealed_bags[u][i].epoch \in Nat
    BY SealedType
  <2>4. next(now[u]) \in Nat
    BY <1>0, EpochConstants
  <2>5. ThreadBags(u)
    BY DEF BagInv
  <2>6. \A i \in DOMAIN sealed_bags[u] : sealed_bags[u][i].epoch < clock'
    <3> SUFFICES ASSUME NEW i \in DOMAIN sealed_bags[u]
                 PROVE  sealed_bags[u][i].epoch < clock'
      OBVIOUS
    <3>1. sealed_bags[u][i].epoch < clock
      BY <2>5 DEF ThreadBags
    <3> QED BY <1>0, <2>3, <3>1
  <2>7. pc[u] \in {"publish", "seal"} => next(now[u]) <= clock'
    <3>1. pc[u] \in {"publish", "seal"} => next(now[u]) <= clock
      BY <2>5 DEF ThreadBags
    <3> QED BY <1>0, <2>4, <3>1
  <2>8. next(now[u])' = next(now[u])
    BY <2>1 DEF next
  <2> QED BY <2>1, <2>2, <2>5, <2>6, <2>7, <2>8 DEF ThreadBags
<1>n. ThreadBags(t)' => BagInv'
  BY <1>o DEF BagInv
<1>1. CASE LoadNow(t) \/ Pin(t) \/ Fail(t) \/ Finish(t)
  <2>1. UNCHANGED <<clock, sealed_bags, draining>>
    BY <1>1 DEF LoadNow, Pin, Fail, Finish, garbage, memory
  <2>2. pc'[t] \in {"pin", "run", "idle"} /\ draining[t] = <<>>
    BY <1>0, <1>1, <1>b DEF LoadNow, Pin, Fail, Finish, ThreadBags
  <2> QED BY <1>n, <1>b, <2>1, <2>2 DEF ThreadBags, Frozen
<1>2. ASSUME NEW cells \in SUBSET Cells, LockWrites(t, cells)
      PROVE  ThreadBags(t)'
  <2>1. UNCHANGED <<clock, sealed_bags, draining>>
    BY <1>2 DEF LockWrites, garbage
  <2>2. pc'[t] = "tick" /\ draining[t] = <<>>
    BY <1>0, <1>2, <1>b DEF LockWrites, ThreadBags
  <2> QED BY <1>b, <2>1, <2>2 DEF ThreadBags, Frozen
<1>3. CASE (\E c \in Cells : Borrow(t, c)) \/ Drain(t) \/ LockShard(t)
  <2>1. UNCHANGED <<clock, pc, now, sealed_bags, draining, leaving, min_epoch>>
    BY <1>3 DEF Borrow, Drain, LockShard, garbage, memory, tx, walk
  <2>2. quiesce_epoch(t)' = quiesce_epoch(t)
    BY <2>1 DEF quiesce_epoch
  <2> QED BY <1>n, <1>b, <2>1, <2>2 DEF ThreadBags
<1>4. CASE FetchAndTick(t)
  <2>1. /\ UNCHANGED <<sealed_bags, draining>>
        /\ pc'[t] = "publish" /\ now'[t] = clock /\ clock' = next(clock)
        /\ pc[t] = "tick"
    BY <1>0, <1>4 DEF FetchAndTick, garbage
  <2>2. clock' = clock + 2
    BY <1>0, <2>1, EpochConstants
  <2> QED BY <1>0, <1>n, <1>b, <1>s, <2>1, <2>2 DEF ThreadBags, Frozen
<1>5. CASE Publish(t)
  <2>1. /\ UNCHANGED <<sealed_bags, draining, clock, now>>
        /\ pc'[t] = "seal" /\ pc[t] = "publish"
    BY <1>0, <1>5 DEF Publish, garbage
  <2> QED BY <1>n, <1>b, <2>1 DEF ThreadBags, Frozen
<1>6. CASE Seal(t)
  <2> DEFINE n == Len(sealed_bags[t])
  <2>1. /\ sealed_bags'[t] = Append(sealed_bags[t], SealedBag(t))
        /\ draining' = draining /\ clock' = clock /\ pc[t] = "seal"
        /\ pc'[t] \in {"freeze", "idle"}
    BY <1>0, <1>6 DEF Seal, memory
  <2>2. SealedBag(t) \in Bag /\ SealedBag(t).epoch = now[t] /\ now[t] \in Nat
    BY DEF GcTypeOK, SealedBag, Bag
  <2>3. sealed_bags[t] \in Seq(Bag)
    BY <1>0
  <2>4. /\ DOMAIN sealed_bags'[t] = 1..(n + 1)
        /\ \A i \in 1..n : sealed_bags'[t][i] = sealed_bags[t][i]
        /\ sealed_bags'[t][n + 1] = SealedBag(t)
        /\ sealed_bags'[t] # <<>>
    BY <2>1, <2>2, <2>3, AppendProperties, LenProperties
  <2>5. /\ \A i \in 1..n : /\ sealed_bags[t][i].epoch < clock
                           /\ sealed_bags[t][i].epoch <= now[t]
        /\ \A i, j \in 1..n :
             i <= j => sealed_bags[t][i].epoch <= sealed_bags[t][j].epoch
        /\ draining[t] = <<>>
    BY <1>b, <1>s, <2>1 DEF ThreadBags
  <2>9. now[t] < clock
    <3>1. next(now[t]) = now[t] + 2
      BY <2>2, EpochConstants
    <3>2. next(now[t]) <= clock
      BY <1>b, <2>1 DEF ThreadBags
    <3> QED BY <1>0, <2>2, <3>1, <3>2
  <2>6. \A i \in 1..(n + 1) : sealed_bags'[t][i].epoch < clock'
    <3>1. \A i \in 1..(n + 1) : i \in 1..n \/ i = n + 1
      BY <1>s
    <3> QED BY <2>1, <2>2, <2>4, <2>5, <2>9, <3>1
  <2>7. \A i, j \in 1..(n + 1) :
          i <= j => sealed_bags'[t][i].epoch <= sealed_bags'[t][j].epoch
    <3> SUFFICES ASSUME NEW i \in 1..(n + 1), NEW j \in 1..(n + 1), i <= j
                 PROVE  sealed_bags'[t][i].epoch <= sealed_bags'[t][j].epoch
      OBVIOUS
    <3>1. CASE j = n + 1 /\ i = n + 1
      BY <2>2, <2>4, <3>1
    <3>2. CASE j = n + 1 /\ i \in 1..n
      BY <2>2, <2>4, <2>5, <3>2
    <3>3. CASE j \in 1..n /\ i \in 1..n
      BY <2>4, <2>5, <3>3
    <3> QED BY <1>s, <3>1, <3>2, <3>3
  <2>8. ~ leaving'[t]
    BY <1>6, <1>l DEF Seal, ThreadInList
  <2> QED BY <1>n, <2>1, <2>4, <2>5, <2>6, <2>7, <2>8 DEF ThreadBags, Frozen
<1>7. CASE Unsubscribe(t)
  <2>1. UNCHANGED <<clock, sealed_bags, draining>> /\ pc[t] = "idle"
    BY <1>7 DEF Unsubscribe, memory, garbage
  <2>2. IF sealed_bags[t] = <<>> THEN pc'[t] = "write" ELSE pc'[t] = "freeze"
    BY <1>0, <1>7 DEF Unsubscribe
  <2> QED BY <1>n, <1>b, <2>1, <2>2 DEF ThreadBags, Frozen
<1>8. CASE Freeze(t)
  <2>1. /\ UNCHANGED <<clock, sealed_bags, draining, leaving>>
        /\ pc[t] = "freeze" /\ pc'[t] = "quiesce"
        /\ min_epoch'[t] = INACTIVE_EPOCH
    BY <1>0, <1>8 DEF Freeze, memory, garbage
  <2>2. sealed_bags[t] # <<>> /\ draining[t] = <<>>
    BY <1>b, <2>1 DEF ThreadBags
  <2>3. quiesce_epoch(t)' = quiesce_epoch(t)
    BY <2>1 DEF quiesce_epoch
  <2>4. min_epoch'[t] > quiesce_epoch(t)'
    BY <1>0, <1>b, <2>1, <2>2, <2>3, QuiesceEpochBounds, EpochConstants
  <2> QED BY <1>n, <1>b, <2>1, <2>2, <2>4 DEF ThreadBags, Frozen
<1>9. CASE QuiesceNext(t)
  <2> DEFINE s == synchs[visit[t]]
  <2>1. /\ UNCHANGED <<clock, sealed_bags, draining, leaving>>
        /\ pc[t] = "quiesce" /\ pc'[t] \in {"quiesce", "wait"}
        /\ \/ min_epoch' = min_epoch
           \/ /\ is_quiesced(s, quiesce_epoch(t))
              /\ min_epoch'[t] = Lesser(min_epoch[t], current_epoch[s])
    BY <1>0, <1>9 DEF QuiesceNext, memory, garbage
  <2>2. quiesce_epoch(t)' = quiesce_epoch(t)
    BY <2>1 DEF quiesce_epoch
  <2>3. min_epoch'[t] > quiesce_epoch(t)
    BY <1>b, <2>1 DEF ThreadBags, Lesser, is_quiesced, Frozen
  <2> QED BY <1>n, <1>b, <2>1, <2>2, <2>3 DEF ThreadBags, Frozen
<1>10. CASE LocalQuiesce(t)
  <2>1. /\ UNCHANGED <<clock, sealed_bags, draining, leaving, min_epoch>>
        /\ pc[t] = "wait" /\ pc'[t] = "quiesce"
    BY <1>0, <1>10 DEF LocalQuiesce, memory, garbage
  <2>2. quiesce_epoch(t)' = quiesce_epoch(t)
    BY <2>1 DEF quiesce_epoch
  <2> QED BY <1>n, <1>b, <2>1, <2>2 DEF ThreadBags, Frozen
<1>11. CASE Unfreeze(t)
  <2> DEFINE k == max_idx(t)
             n == Len(sealed_bags[t])
  <2>1. /\ sealed_bags'[t] = SubSeq(sealed_bags[t], k + 1, n)
        /\ pc[t] = "quiesce" /\ pc'[t] = "collect" /\ clock' = clock
        /\ leaving' = leaving
    BY <1>0, <1>11 DEF Unfreeze, memory
  <2>2. k \in 1..n /\ (leaving[t] => k = n)
    BY <1>b, <2>1, DrainedBags DEF Frozen
  <2>3. n \in Nat /\ sealed_bags[t] \in Seq(Bag)
    BY SealedType
  <2>4. /\ Len(sealed_bags'[t]) = n - k
        /\ DOMAIN sealed_bags'[t] = 1..(n - k)
        /\ \A i \in 1..(n - k) : sealed_bags'[t][i] = sealed_bags[t][k + i]
        /\ \A i \in 1..(n - k) : k + i \in DOMAIN sealed_bags[t]
    <3>1. k \in 0..n
      BY <2>2, <2>3
    <3> HIDE DEF k
    <3> QED BY <2>1, <2>3, <3>1, SeqSuffix
  <2> HIDE DEF k, n
  <2>7. leaving[t] => sealed_bags'[t] = <<>>
    <3>1. sealed_bags'[t] \in Seq(Bag)
      BY TypeStep DEF GcTypeOK
    <3> QED BY <2>2, <2>3, <2>4, <3>1, EmptySeq
  <2>8. \A i, j \in 1..(n - k) :
          i <= j => sealed_bags'[t][i].epoch <= sealed_bags'[t][j].epoch
    <3> SUFFICES ASSUME NEW i \in 1..(n - k), NEW j \in 1..(n - k), i <= j
                 PROVE  sealed_bags[t][k + i].epoch <= sealed_bags[t][k + j].epoch
      BY <2>4
    <3>1. k + i <= k + j
      BY <2>2, <2>3
    <3> QED BY <1>b, <2>4, <3>1 DEF ThreadBags
  <2>9. \A i \in 1..(n - k) : sealed_bags'[t][i].epoch < clock
    BY <1>b, <2>4 DEF ThreadBags
  <2> QED BY <1>n, <2>1, <2>4, <2>7, <2>8, <2>9 DEF ThreadBags, Frozen
<1>12. CASE Recycle(t)
  <2>1. UNCHANGED <<clock, sealed_bags, pc, now, leaving>> /\ pc[t] = "collect"
    BY <1>12 DEF Recycle, memory, tx
  <2> QED BY <1>n, <1>b, <2>1 DEF ThreadBags, Frozen
<1>13. CASE RecyclePanics(t)
  <2>1. /\ UNCHANGED <<clock, sealed_bags, leaving>>
        /\ pc'[t] = "idle" /\ draining'[t] = <<>>
    BY <1>0, <1>13 DEF RecyclePanics, memory, tx
  <2> QED BY <1>n, <1>b, <2>1 DEF ThreadBags, Frozen
<1>14. CASE Collected(t)
  <2>1. /\ UNCHANGED <<clock, sealed_bags, draining, leaving>>
        /\ pc'[t] \in {"idle", "write"} /\ draining[t] = <<>> /\ pc[t] = "collect"
    BY <1>0, <1>14 DEF Collected, memory, garbage
  <2> QED BY <1>n, <1>b, <2>1 DEF ThreadBags, Frozen
<1>15. CASE Subscribe(t)
  <2>1. /\ UNCHANGED <<clock, draining, leaving>>
        /\ sealed_bags'[t] = <<>> /\ pc[t] = "gone" /\ pc'[t] = "write"
    BY <1>0, <1>15 DEF Subscribe, memory
  <2> QED BY <1>n, <1>b, <2>1 DEF ThreadBags, Frozen
<1>16. CASE LockMutex(t)
  <2>1. /\ UNCHANGED <<clock, sealed_bags, draining, leaving>>
        /\ pc[t] = "write" /\ pc'[t] = "shards"
    BY <1>0, <1>16 DEF LockMutex, memory, garbage
  <2> QED BY <1>n, <1>b, <2>1 DEF ThreadBags, Frozen
<1>17. CASE Modify(t)
  <2>1. /\ UNCHANGED <<clock, sealed_bags, draining>>
        /\ pc[t] = "shards" /\ pc'[t] \in {"gone", "idle"}
    BY <1>0, <1>17 DEF Modify, memory, garbage
  <2> QED BY <1>n, <1>b, <2>1 DEF ThreadBags, Frozen
<1> QED
  BY <1>n, <1>1, <1>2, <1>3, <1>4, <1>5, <1>6, <1>7, <1>8, <1>9, <1>10, <1>11,
     <1>12, <1>13, <1>14, <1>15, <1>16, <1>17
     DEF Start, Closure, Continue
-----------------------------------------------------------------------------
(* The number of bags.                                                     *)

LEMMA InitCount == Init => CountInv
<1> SUFFICES ASSUME NEW gone \in SUBSET Threads, InitWith(gone)
             PROVE  CountInv
  BY DEF Init
<1>1. Len(<<>>) = 0
  OBVIOUS
<1> QED BY <1>1, GcAssumption DEF InitWith, CountInv, ThreadCount

(* A panic loses the bags that are still to be drained, so it is harmless  *)
(* only if there is no more than one of them.                              *)
LEMMA CountStep ==
  ASSUME DestructorsPanic => BAG_COUNT = 2,
         GcTypeOK, ListInv, ClockInv, BagInv, CountInv, NEW t \in Threads,
         Start(t) \/ Closure(t) \/ Continue(t)
  PROVE  CountInv'
<1> USE DEF Goto
<1>0. /\ pc \in [Threads -> Pcs] /\ unused_bags \in [Threads -> Int]
      /\ draining \in [Threads -> Seq(Bag)]
      /\ sealed_bags \in [Threads -> Seq(Bag)]
      /\ BAG_COUNT \in Nat /\ BAG_COUNT > 1
  <2>1. /\ pc \in [Threads -> Pcs] /\ unused_bags \in [Threads -> Int]
        /\ draining \in [Threads -> Seq(Bag)]
        /\ sealed_bags \in [Threads -> Seq(Bag)]
    BY DEF GcTypeOK
  <2>2. BAG_COUNT \in Nat /\ BAG_COUNT > 1
    BY GcAssumption
  <2> QED BY <2>1, <2>2
<1>s. /\ Len(sealed_bags[t]) \in Nat /\ Len(draining[t]) \in Nat
      /\ sealed_bags[t] \in Seq(Bag) /\ draining[t] \in Seq(Bag)
      /\ unused_bags[t] \in Int
      /\ draining[t] = <<>> <=> Len(draining[t]) = 0
  BY <1>0, LenProperties, EmptySeq
<1>b. ThreadBags(t) /\ ThreadCount(t)
  BY DEF BagInv, CountInv
<1>n. ThreadCount(t)' => CountInv'
  <2>1. ASSUME NEW u \in Threads, u # t
        PROVE  ThreadCount(u)'
    <3>1. /\ pc'[u] = pc[u] /\ sealed_bags'[u] = sealed_bags[u]
          /\ draining'[u] = draining[u] /\ unused_bags'[u] = unused_bags[u]
      BY <2>1, OthersKept
    <3> QED BY <3>1 DEF CountInv, ThreadCount
  <2> QED BY <2>1 DEF CountInv
<1>1. CASE \/ LoadNow(t) \/ Pin(t) \/ Fail(t) \/ Finish(t) \/ FetchAndTick(t)
           \/ Publish(t) \/ LockMutex(t) \/ Modify(t) \/ Collected(t)
           \/ \E cells \in SUBSET Cells : LockWrites(t, cells)
  <2>1. /\ UNCHANGED <<sealed_bags, draining, unused_bags>>
        /\ pc[t] \notin {"freeze"} \cup Frozen
    BY <1>1 DEF LoadNow, Pin, Fail, Finish, FetchAndTick, Publish, LockMutex,
       Modify, Collected, LockWrites, garbage, Frozen
  <2> QED BY <1>n, <1>b, <2>1 DEF ThreadCount
<1>2. CASE \/ (\E c \in Cells : Borrow(t, c)) \/ Drain(t) \/ LockShard(t)
           \/ Unsubscribe(t) \/ Freeze(t) \/ QuiesceNext(t) \/ LocalQuiesce(t)
  <2>1. /\ UNCHANGED <<sealed_bags, draining, unused_bags>>
        /\ pc'[t] \in {pc[t], "freeze"} \cup Frozen \/ pc[t] = "idle"
    BY <1>0, <1>2 DEF Borrow, Drain, LockShard, Unsubscribe, Freeze, QuiesceNext,
       LocalQuiesce, garbage, Frozen
  <2>2. pc[t] = "idle" => pc[t] \notin {"freeze"} \cup Frozen
    BY DEF Frozen
  <2> QED BY <1>n, <1>b, <2>1, <2>2 DEF ThreadCount
<1>3. CASE Seal(t)
  <2>1. /\ sealed_bags'[t] = Append(sealed_bags[t], SealedBag(t))
        /\ draining' = draining /\ pc[t] = "seal"
        /\ unused_bags'[t] = unused_bags[t] - 1
        /\ pc'[t] = IF next_push_allocates(sealed_bags'[t]) THEN "freeze"
                                                           ELSE "idle"
    BY <1>0, <1>3 DEF Seal
  <2>2. SealedBag(t) \in Bag
    BY DEF GcTypeOK, SealedBag, Bag
  <2>3. Len(sealed_bags'[t]) = Len(sealed_bags[t]) + 1
    BY <1>s, <2>1, <2>2, AppendProperties
  <2>4. Len(sealed_bags[t]) < BAG_COUNT - 1 /\ Len(draining[t]) = 0
    BY <1>b, <1>s, <2>1 DEF ThreadCount, ThreadBags, Frozen
  <2>5. pc'[t] # "freeze" => Len(sealed_bags'[t]) # BAG_COUNT - 1
    BY <2>1 DEF next_push_allocates
  <2> QED BY <1>0, <1>n, <1>b, <1>s, <2>1, <2>3, <2>4, <2>5 DEF ThreadCount
<1>4. CASE Unfreeze(t)
  <2> DEFINE k == max_idx(t)
             n == Len(sealed_bags[t])
  <2>1. /\ sealed_bags'[t] = SubSeq(sealed_bags[t], k + 1, n)
        /\ draining'[t] = SubSeq(sealed_bags[t], 1, k)
        /\ pc[t] = "quiesce" /\ unused_bags' = unused_bags
    BY <1>0, <1>4 DEF Unfreeze
  <2>2. k \in 1..n /\ n \in Nat
    BY <1>b, <1>s, <2>1, DrainedBags DEF Frozen
  <2>3. Len(draining[t]) = 0
    BY <1>b, <1>s, <2>1 DEF ThreadBags
  <2> HIDE DEF k
  <2>4. k \in 0..n
    BY <2>2
  <2>5. Len(sealed_bags'[t]) = n - k
    BY <1>s, <2>1, <2>4, SeqSuffix
  <2>6. Len(draining'[t]) = k
    BY <1>s, <2>1, <2>4, SeqPrefix
  <2> QED BY <1>0, <1>n, <1>b, <1>s, <2>1, <2>2, <2>3, <2>5, <2>6 DEF ThreadCount
<1>5. CASE Recycle(t)
  <2>1. /\ UNCHANGED <<sealed_bags, pc>> /\ pc[t] = "collect"
        /\ draining[t] # <<>> /\ draining'[t] = Tail(draining[t])
        /\ unused_bags'[t] = unused_bags[t] + 1
    BY <1>0, <1>5 DEF Recycle
  <2>2. Len(draining'[t]) = Len(draining[t]) - 1
    BY <1>s, <2>1, HeadTailProperties
  <2>3. /\ Len(sealed_bags[t]) + Len(draining[t]) + unused_bags[t] + 1 = BAG_COUNT
        /\ unused_bags[t] >= 0
        /\ Len(sealed_bags[t]) < BAG_COUNT - 1
    BY <1>b, <2>1 DEF ThreadCount, Frozen
  <2>4. /\ Len(sealed_bags'[t]) + Len(draining'[t]) + unused_bags'[t] + 1 = BAG_COUNT
        /\ unused_bags'[t] >= 0
    <3> DEFINE a == Len(sealed_bags[t])
               b == Len(draining[t])
               c == unused_bags[t]
    <3>1. a \in Nat /\ b \in Nat /\ c \in Int /\ a + b + c + 1 = BAG_COUNT /\ c >= 0
      BY <1>s, <2>3
    <3>2. Len(sealed_bags'[t]) = a /\ Len(draining'[t]) = b - 1
          /\ unused_bags'[t] = c + 1
      BY <2>1, <2>2
    <3> HIDE DEF a, b, c
    <3> QED BY <1>0, <3>1, <3>2
  <2> QED BY <1>n, <2>1, <2>3, <2>4 DEF ThreadCount
<1>6. CASE RecyclePanics(t)
  <2>1. /\ UNCHANGED sealed_bags /\ pc[t] = "collect"
        /\ draining[t] # <<>> /\ draining'[t] = <<>> /\ DestructorsPanic
        /\ unused_bags'[t] = unused_bags[t] + 1
    BY <1>0, <1>6 DEF RecyclePanics
  <2>2. Len(draining'[t]) = 0
    BY <2>1
  <2>3. Len(draining[t]) = 1 /\ Len(sealed_bags[t]) < BAG_COUNT - 1
    <3>1. /\ Len(sealed_bags[t]) + Len(draining[t]) + unused_bags[t] + 1 = 2
          /\ unused_bags[t] >= 0 /\ Len(draining[t]) # 0
          /\ Len(sealed_bags[t]) < BAG_COUNT - 1
      BY <1>b, <1>s, <2>1 DEF ThreadCount, Frozen
    <3> DEFINE a == Len(sealed_bags[t])
               b == Len(draining[t])
               c == unused_bags[t]
    <3>2. a \in Nat /\ b \in Nat /\ c \in Int
      BY <1>s
    <3>3. a + b + c + 1 = 2 /\ c >= 0 /\ b # 0 /\ a < BAG_COUNT - 1
      BY <3>1
    <3>4. b = 1
      <4> HIDE DEF a, b, c
      <4> QED BY <3>2, <3>3
    <3> QED BY <3>3, <3>4
  <2> QED BY <1>0, <1>n, <1>b, <1>s, <2>1, <2>2, <2>3 DEF ThreadCount
<1>7. CASE Subscribe(t)
  <2>1. /\ UNCHANGED draining /\ pc[t] = "gone"
        /\ sealed_bags'[t] = <<>> /\ unused_bags'[t] = BAG_COUNT - 1
    BY <1>0, <1>7 DEF Subscribe
  <2>2. Len(draining'[t]) = 0 /\ Len(sealed_bags'[t]) = 0
    BY <1>b, <1>s, <2>1 DEF ThreadBags
  <2> QED BY <1>0, <1>n, <2>1, <2>2 DEF ThreadCount
<1> QED
  BY <1>1, <1>2, <1>3, <1>4, <1>5, <1>6, <1>7 DEF Start, Closure, Continue
-----------------------------------------------------------------------------
(* Pins.                                                                   *)

LEMMA InitPin == Init => PinInv
<1> SUFFICES ASSUME NEW gone \in SUBSET Threads, InitWith(gone)
             PROVE  PinInv
  BY DEF Init
<1>1. FIRST <= clock
  BY EpochConstants DEF InitWith
<1> QED BY <1>1 DEF InitWith, PinInv, ThreadPin

(* Without store buffers a store to a ThreadEpoch is seen at once.         *)
LEMMA StoreSeen ==
  ASSUME Buffered = {}, NEW t, NEW e, StoreEpoch(t, e)
  PROVE  /\ current_epoch' = [current_epoch EXCEPT ![t] = e]
         /\ store_buffer' = store_buffer
BY DEF StoreEpoch

LEMMA PinStep ==
  ASSUME Buffered = {}, GcTypeOK, ListInv, ClockInv, BagInv, PinInv,
         NEW t \in Threads, Start(t) \/ Closure(t) \/ Continue(t)
  PROVE  PinInv'
<1> USE DEF Goto
<1>0. /\ clock \in Nat /\ clock' \in Nat /\ clock <= clock'
      /\ pc \in [Threads -> Pcs] /\ now \in [Threads -> Nat]
      /\ borrowed \in [Threads -> SUBSET (Cells \X Nat)]
      /\ current_epoch \in [Threads -> Nat]
  BY ClockStep, TypeStep DEF GcTypeOK
<1>p. ThreadPin(t)
  BY DEF PinInv
<1>l. now[t] <= clock'
  BY <1>0, <1>p DEF ThreadPin
<1>n. ThreadPin(t)' => PinInv'
  <2>1. ASSUME NEW u \in Threads, u # t
        PROVE  ThreadPin(u)'
    <3>1. /\ pc'[u] = pc[u] /\ now'[u] = now[u] /\ borrowed'[u] = borrowed[u]
          /\ current_epoch'[u] = current_epoch[u]
          /\ store_buffer'[u] = store_buffer[u]
      BY <2>1, OthersKept
    <3>2. now[u] <= clock'
      BY <1>0 DEF PinInv, ThreadPin
    <3> QED BY <3>1, <3>2 DEF PinInv, ThreadPin
  <2> QED BY <2>1 DEF PinInv
<1>1. CASE LoadNow(t) \/ Fail(t)
  <2>1. /\ store_buffer' = store_buffer /\ now'[t] = clock
        /\ pc'[t] = "pin" /\ borrowed'[t] = {}
    BY <1>0, <1>1, <1>p DEF LoadNow, Fail, epochs, ThreadPin
  <2> QED BY <1>0, <1>n, <1>p, <2>1 DEF ThreadPin
<1>2. CASE Pin(t)
  <2>1. /\ store_buffer' = store_buffer /\ UNCHANGED <<now, borrowed>>
        /\ pc'[t] = "run" /\ current_epoch'[t] = now[t]
    BY <1>0, <1>2, StoreSeen DEF Pin, tx
  <2> QED BY <1>n, <1>p, <1>l, <2>1 DEF ThreadPin
<1>3. CASE \E c \in Cells : Borrow(t, c)
  <2>1. /\ UNCHANGED <<store_buffer, now, current_epoch, pc>>
        /\ pc[t] = "run"
    BY <1>3 DEF Borrow, epochs
  <2> QED BY <1>n, <1>p, <1>l, <2>1 DEF ThreadPin
<1>4. CASE Finish(t)
  <2>1. /\ store_buffer' = store_buffer /\ UNCHANGED now
        /\ pc'[t] = "idle" /\ borrowed'[t] = {}
    BY <1>0, <1>4, StoreSeen DEF Finish, Unpin
  <2> QED BY <1>n, <1>p, <1>l, <2>1 DEF ThreadPin
<1>5. CASE \E cells \in SUBSET Cells : LockWrites(t, cells)
  <2>1. /\ UNCHANGED <<store_buffer, now>>
        /\ pc'[t] = "tick" /\ borrowed'[t] = {}
    BY <1>0, <1>5 DEF LockWrites, epochs
  <2> QED BY <1>n, <1>p, <1>l, <2>1 DEF ThreadPin
<1>6. CASE FetchAndTick(t)
  <2>1. /\ UNCHANGED <<store_buffer, borrowed>> /\ now'[t] = clock
        /\ pc[t] = "tick" /\ pc'[t] = "publish"
    BY <1>0, <1>6 DEF FetchAndTick, epochs
  <2> QED BY <1>0, <1>n, <1>p, <2>1 DEF ThreadPin
<1>7. CASE \/ Publish(t) \/ Freeze(t) \/ QuiesceNext(t) \/ LocalQuiesce(t)
           \/ Unfreeze(t) \/ Subscribe(t) \/ LockMutex(t) \/ Modify(t)
           \/ Recycle(t) \/ LockShard(t)
  <2>1. /\ UNCHANGED <<store_buffer, now, borrowed>>
        /\ pc[t] # "run" /\ pc'[t] # "run"
    BY <1>0, <1>7 DEF Publish, Freeze, QuiesceNext, LocalQuiesce, Unfreeze,
       Subscribe, LockMutex, Modify, Recycle, LockShard, epochs, tx
  <2> QED BY <1>n, <1>p, <1>l, <2>1 DEF ThreadPin
<1>8. CASE Seal(t) \/ Unsubscribe(t) \/ RecyclePanics(t) \/ Collected(t)
  <2>1. /\ UNCHANGED <<store_buffer, now, borrowed>>
        /\ pc[t] # "run" /\ pc'[t] # "run"
    BY <1>0, <1>8, StoreSeen DEF Seal, Unsubscribe, RecyclePanics, Collected,
       Unpin, epochs, tx
  <2> QED BY <1>n, <1>p, <1>l, <2>1 DEF ThreadPin
<1>9. CASE Drain(t)
  BY <1>9, <1>p DEF Drain, Drained, ThreadPin
<1> QED
  BY <1>1, <1>2, <1>3, <1>4, <1>5, <1>6, <1>7, <1>8, <1>9
     DEF Start, Closure, Continue

(* Whoever holds a Ref after a step is still pinned where it was.          *)
LEMMA HolderPinned ==
  ASSUME Buffered = {}, GcTypeOK, PinInv, NEW t \in Threads,
         Start(t) \/ Closure(t) \/ Continue(t),
         NEW u \in Threads, borrowed'[u] # {}
  PROVE  now'[u] = now[u] /\ current_epoch'[u] = current_epoch[u]
<1> USE DEF Goto
<1>0. /\ pc \in [Threads -> Pcs]
      /\ borrowed \in [Threads -> SUBSET (Cells \X Nat)]
  BY DEF GcTypeOK
<1>1. CASE u # t
  BY <1>1, OthersKept
<1>2. CASE u = t
  <2>1. ThreadPin(t)
    BY DEF PinInv
  <2>2. CASE \E c \in Cells : Borrow(t, c)
    BY <1>2, <2>2 DEF Borrow, epochs
  <2>3. CASE pc[t] # "run"
    <3>1. borrowed[t] = {}
      BY <2>1, <2>3 DEF ThreadPin
    <3>2. borrowed' = borrowed
      BY <2>3 DEF Start, Closure, Continue, LoadNow, Subscribe, Unsubscribe,
         Borrow, LockWrites, Fail, Drain, Pin, Finish, FetchAndTick, Publish,
         Seal, Freeze, QuiesceNext, LocalQuiesce, Unfreeze, Recycle,
         RecyclePanics, Collected, LockMutex, LockShard, Modify, tx
    <3> QED BY <1>2, <3>1, <3>2
  <2>4. CASE Fail(t) \/ Finish(t) \/ \E cells \in SUBSET Cells : LockWrites(t, cells)
    BY <1>0, <1>2, <2>4 DEF Fail, Finish, LockWrites
  <2>5. ~ Drain(t)
    BY <2>1 DEF Drain, Drained, ThreadPin
  <2> QED
    BY <2>2, <2>3, <2>4, <2>5 DEF Start, Closure, Continue, LoadNow, Subscribe,
       Unsubscribe, Pin, FetchAndTick, Publish, Seal, Freeze, QuiesceNext,
       LocalQuiesce, Unfreeze, Recycle, RecyclePanics, Collected, LockMutex,
       LockShard, Modify
<1> QED BY <1>1, <1>2
-----------------------------------------------------------------------------
(* Cells.                                                                  *)

LEMMA InitCells == Init => CellInv
<1> SUFFICES ASSUME NEW gone \in SUBSET Threads, InitWith(gone)
             PROVE  CellInv
  BY DEF Init
<1>1. \A c \in Cells : epoch_lock[c] < 2 * LOCK_BIT /\ PublishedAt(c) <= clock
  BY EpochConstants DEF InitWith, PublishedAt, lock_bit_set
<1> QED BY <1>1 DEF InitWith, CellInv, ThreadCells

LEMMA PublishedType ==
  ASSUME GcTypeOK, NEW c \in Cells
  PROVE  epoch_lock[c] \in Nat /\ PublishedAt(c) \in Nat
<1>1. epoch_lock[c] \in Nat
  BY DEF GcTypeOK
<1> QED BY <1>1, EpochConstants DEF PublishedAt

(* A pinned thread may lock, or read, only a cell that is not locked.      *)
LEMMA ValidUnlocked ==
  ASSUME GcTypeOK, ClockInv, PinInv, NEW t \in Threads, NEW c \in Cells,
         epoch_lock[c] <= now[t]
  PROVE  ~ lock_bit_set(epoch_lock[c]) /\ PublishedAt(c) = epoch_lock[c]
<1>1. epoch_lock[c] \in Nat /\ now[t] \in Nat /\ now[t] <= clock
  BY DEF GcTypeOK, PinInv, ThreadPin
<1>2. epoch_lock[c] < LOCK_BIT
  BY <1>1, ClockBounded, EpochConstants
<1> QED BY <1>1, <1>2, EpochConstants DEF PublishedAt, lock_bit_set

(* Locking a cell does not change what is published there.                 *)
LEMMA LockedStill ==
  ASSUME GcTypeOK, NEW c \in Cells, ~ lock_bit_set(epoch_lock[c]),
         epoch_lock'[c] = toggle_lock_bit(epoch_lock[c])
  PROVE  /\ lock_bit_set(epoch_lock'[c]) /\ epoch_lock'[c] < 2 * LOCK_BIT
         /\ PublishedAt(c)' = PublishedAt(c)
<1>1. epoch_lock[c] \in Nat /\ epoch_lock[c] < LOCK_BIT
  BY PublishedType, EpochConstants DEF lock_bit_set
<1>2. epoch_lock'[c] = epoch_lock[c] + LOCK_BIT
  BY <1>1 DEF toggle_lock_bit
<1>3. lock_bit_set(epoch_lock'[c]) /\ epoch_lock'[c] < 2 * LOCK_BIT
  BY <1>1, <1>2, EpochConstants DEF lock_bit_set
<1>4. epoch_lock'[c] - LOCK_BIT = epoch_lock[c]
  BY <1>1, <1>2, EpochConstants
<1> QED BY <1>3, <1>4 DEF PublishedAt, toggle_lock_bit

LEMMA PublishStep ==
  ASSUME GcTypeOK, ClockInv, BagInv, CellInv, NEW t \in Threads, Publish(t),
         NEW c \in Cells
  PROVE  /\ c \in writes[t] =>
              /\ ~ lock_bit_set(epoch_lock'[c]) /\ epoch_lock'[c] < LOCK_BIT
              /\ PublishedAt(c)' = next(now[t]) /\ next(now[t]) <= clock
              /\ PublishedAt(c) < PublishedAt(c)'
         /\ c \notin writes[t] =>
              epoch_lock'[c] = epoch_lock[c] /\ PublishedAt(c)' = PublishedAt(c)
<1>1. CASE c \in writes[t]
  <2>1. /\ epoch_lock'[c] = next(now[t]) /\ now[t] \in Nat /\ pc[t] = "publish"
        /\ clock \in Nat /\ clock < LOCK_BIT
    BY <1>1, ClockBounded DEF Publish, GcTypeOK
  <2>2. next(now[t]) = now[t] + 2
    BY <2>1, EpochConstants
  <2>3. next(now[t]) <= clock /\ PublishedAt(c) <= now[t]
    BY <1>1, <2>1 DEF BagInv, ThreadBags, CellInv, ThreadCells
  <2>4. epoch_lock'[c] < LOCK_BIT
    BY <2>1, <2>2, <2>3, EpochConstants
  <2>5. PublishedAt(c)' = epoch_lock'[c] /\ ~ lock_bit_set(epoch_lock'[c])
    BY <2>1, <2>2, <2>4, EpochConstants DEF PublishedAt, lock_bit_set
  <2>6. PublishedAt(c) < next(now[t])
    BY <2>1, <2>2, <2>3, PublishedType
  <2> QED BY <1>1, <2>1, <2>3, <2>4, <2>5, <2>6
<1>2. CASE c \notin writes[t]
  BY <1>2 DEF Publish, PublishedAt
<1> QED BY <1>1, <1>2

(* Only LockWrites and Publish touch the cells, and only they and          *)
(* FetchAndTick begin or end a commit.                                     *)
LEMMA CellsKept ==
  ASSUME GcTypeOK, NEW t \in Threads, Start(t) \/ Closure(t) \/ Continue(t),
         ~ Publish(t), \A cells \in SUBSET Cells : ~ LockWrites(t, cells)
  PROVE  /\ UNCHANGED <<epoch_lock, writes>>
         /\ \A c \in Cells : PublishedAt(c)' = PublishedAt(c)
         /\ ~ FetchAndTick(t) =>
              /\ UNCHANGED clock
              /\ pc'[t] = pc[t] \/ pc[t] \notin {"tick", "publish"}
              /\ pc'[t] = pc[t] \/ pc'[t] \notin {"tick", "publish"}
              /\ pc[t] = "publish" => now'[t] = now[t]
<1> USE DEF Goto
<1>1. UNCHANGED <<epoch_lock, writes>>
  BY DEF Start, Closure, Continue, LoadNow, Subscribe, Unsubscribe, Borrow, Fail,
     Drain, Pin, Finish, FetchAndTick, Seal, Freeze, QuiesceNext, LocalQuiesce,
     Unfreeze, Recycle, RecyclePanics, Collected, LockMutex, LockShard, Modify,
     tx, memory
<1>2. ASSUME ~ FetchAndTick(t) PROVE UNCHANGED clock
  BY <1>2 DEF Start, Closure, Continue, LoadNow, Subscribe, Unsubscribe, Borrow,
     Fail, Drain, Pin, Finish, Seal, Freeze, QuiesceNext, LocalQuiesce,
     Unfreeze, Recycle, RecyclePanics, Collected, LockMutex, LockShard, Modify,
     memory
<1>3. pc \in [Threads -> Pcs]
  BY DEF GcTypeOK
<1>4. ASSUME ~ FetchAndTick(t)
      PROVE  /\ pc'[t] = pc[t] \/ pc[t] \notin {"tick", "publish"}
             /\ pc'[t] = pc[t] \/ pc'[t] \notin {"tick", "publish"}
             /\ pc[t] = "publish" => now'[t] = now[t]
  BY <1>3, <1>4 DEF Start, Closure, Continue, LoadNow, Subscribe, Unsubscribe, Borrow,
     Fail, Drain, Pin, Finish, Seal, Freeze, QuiesceNext, LocalQuiesce,
     Unfreeze, Recycle, RecyclePanics, Collected, LockMutex, LockShard, Modify, tx
<1>5. \A c \in Cells : PublishedAt(c)' = PublishedAt(c)
  BY <1>1 DEF PublishedAt
<1> QED BY <1>1, <1>2, <1>4, <1>5

LEMMA CellStep ==
  ASSUME Buffered = {}, GcTypeOK, ListInv, ClockInv, BagInv, PinInv, CellInv,
         NEW t \in Threads, Start(t) \/ Closure(t) \/ Continue(t)
  PROVE  CellInv'
<1> USE DEF Goto
<1>0. /\ pc \in [Threads -> Pcs] /\ now \in [Threads -> Nat]
      /\ writes \in [Threads -> SUBSET Cells]
      /\ epoch_lock \in [Cells -> Nat]
      /\ clock \in Nat /\ clock' \in Nat /\ clock <= clock' /\ clock < LOCK_BIT
      /\ now[t] \in Nat /\ now[t] <= clock
  BY ClockStep, TypeStep, ClockBounded DEF GcTypeOK, PinInv, ThreadPin
<1>o. ASSUME NEW u \in Threads, u # t
      PROVE  /\ pc'[u] = pc[u] /\ now'[u] = now[u] /\ writes'[u] = writes[u]
             /\ Committing(u)' = Committing(u)
  BY <1>o, OthersKept DEF Committing
<1>1. ASSUME NEW cells \in SUBSET Cells, LockWrites(t, cells)
      PROVE  CellInv'
  <2>1. /\ \A c \in cells : /\ epoch_lock[c] <= now[t]
                            /\ epoch_lock'[c] = toggle_lock_bit(epoch_lock[c])
        /\ \A c \in Cells \ cells : epoch_lock'[c] = epoch_lock[c]
        /\ writes'[t] = cells /\ pc'[t] = "tick" /\ clock' = clock
    BY <1>0, <1>1 DEF LockWrites, lockable, read_write_valid
  <2>2. \A c \in cells : /\ ~ lock_bit_set(epoch_lock[c])
                         /\ lock_bit_set(epoch_lock'[c])
                         /\ epoch_lock'[c] < 2 * LOCK_BIT
                         /\ PublishedAt(c)' = PublishedAt(c)
    BY <2>1, ValidUnlocked, LockedStill
  <2>3. \A c \in Cells \ cells : PublishedAt(c)' = PublishedAt(c)
    BY <2>1 DEF PublishedAt
  <2>4. \A c \in Cells : epoch_lock'[c] < 2 * LOCK_BIT /\ PublishedAt(c)' <= clock'
    BY <2>1, <2>2, <2>3 DEF CellInv
  <2>5. \A u \in Threads : writes[u] \cap cells = {}
    BY <2>2 DEF CellInv, ThreadCells
  <2>6. ThreadCells(t)'
    <3>1. \A u \in Threads : writes'[t] \cap writes'[u] # {} => t = u
      BY <1>o, <2>1, <2>5
    <3> QED BY <2>1, <2>2, <3>1 DEF ThreadCells, Committing
  <2>7. ASSUME NEW u \in Threads, u # t
        PROVE  ThreadCells(u)'
    <3>1. ThreadCells(u)
      BY DEF CellInv
    <3>2. writes[u] \subseteq Cells \ cells
      BY <1>0, <2>5
    <3>3. \A c \in writes[u] : /\ epoch_lock'[c] = epoch_lock[c]
                              /\ PublishedAt(c)' = PublishedAt(c)
      BY <2>1, <2>3, <3>2
    <3>4. \A s \in Threads : writes'[u] \cap writes'[s] # {} => u = s
      BY <1>o, <2>1, <2>5, <2>7, <3>1 DEF ThreadCells
    <3> QED BY <1>o, <2>7, <3>1, <3>3, <3>4 DEF ThreadCells
  <2> QED BY <2>4, <2>6, <2>7 DEF CellInv
<1>2. CASE FetchAndTick(t)
  <2>1. /\ UNCHANGED <<epoch_lock, writes>> /\ now'[t] = clock
        /\ pc[t] = "tick" /\ pc'[t] = "publish"
    BY <1>0, <1>2 DEF FetchAndTick
  <2>2. \A c \in Cells : PublishedAt(c)' = PublishedAt(c)
    BY <2>1 DEF PublishedAt
  <2>3. \A c \in Cells : /\ epoch_lock'[c] < 2 * LOCK_BIT
                         /\ PublishedAt(c)' <= clock /\ PublishedAt(c)' <= clock'
    BY <1>0, <2>1, <2>2, PublishedType DEF CellInv
  <2>4. ThreadCells(t)'
    BY <1>0, <2>1, <2>3 DEF CellInv, ThreadCells, Committing
  <2>5. ASSUME NEW u \in Threads, u # t
        PROVE  ThreadCells(u)'
    BY <1>0, <1>o, <2>1, <2>2, <2>5 DEF CellInv, ThreadCells
  <2> QED BY <2>3, <2>4, <2>5 DEF CellInv
<1>3. CASE Publish(t)
  <2>1. /\ pc[t] = "publish" /\ pc'[t] = "seal" /\ writes'[t] = {}
        /\ clock' = clock
    BY <1>0, <1>3 DEF Publish
  <2>2. \A c \in Cells : epoch_lock'[c] < 2 * LOCK_BIT /\ PublishedAt(c)' <= clock'
    <3> SUFFICES ASSUME NEW c \in Cells
                 PROVE  epoch_lock'[c] < 2 * LOCK_BIT /\ PublishedAt(c)' <= clock'
      OBVIOUS
    <3>1. CASE c \in writes[t]
      <4>1. epoch_lock'[c] < LOCK_BIT /\ epoch_lock'[c] \in Nat
        BY <1>3, <3>1, PublishStep, TypeStep DEF GcTypeOK
      <4>2. PublishedAt(c)' <= clock
        BY <1>3, <3>1, PublishStep
      <4> QED BY <2>1, <4>1, <4>2, EpochConstants
    <3>2. CASE c \notin writes[t]
      BY <1>3, <2>1, <3>2, PublishStep DEF CellInv
    <3> QED BY <3>1, <3>2
  <2>3. ThreadCells(t)'
    BY <2>1 DEF ThreadCells
  <2>4. ASSUME NEW u \in Threads, u # t
        PROVE  ThreadCells(u)'
    <3>1. ThreadCells(u)
      BY DEF CellInv
    <3>2. writes[u] \cap writes[t] = {}
      BY <2>4, <3>1 DEF ThreadCells
    <3>3. \A c \in writes[u] : /\ epoch_lock'[c] = epoch_lock[c]
                              /\ PublishedAt(c)' = PublishedAt(c)
      BY <1>0, <1>3, <3>2, PublishStep
    <3>4. \A s \in Threads : writes'[u] \cap writes'[s] # {} => u = s
      BY <1>o, <2>1, <2>4, <3>1 DEF ThreadCells
    <3> QED BY <1>o, <2>4, <3>1, <3>3, <3>4 DEF ThreadCells
  <2> QED BY <2>2, <2>3, <2>4 DEF CellInv
<1>4. CASE /\ ~ Publish(t) /\ ~ FetchAndTick(t)
           /\ \A cells \in SUBSET Cells : ~ LockWrites(t, cells)
  <2>1. /\ UNCHANGED <<epoch_lock, writes, clock>>
        /\ \A c \in Cells : PublishedAt(c)' = PublishedAt(c)
        /\ pc'[t] = pc[t] \/ pc[t] \notin {"tick", "publish"}
        /\ pc'[t] = pc[t] \/ pc'[t] \notin {"tick", "publish"}
        /\ pc[t] = "publish" => now'[t] = now[t]
    BY <1>4, CellsKept
  <2>2. ASSUME NEW u \in Threads
        PROVE  ThreadCells(u)'
    <3>1. ThreadCells(u)
      BY DEF CellInv
    <3>2. Committing(u)' = Committing(u)
      BY <1>o, <2>1 DEF Committing
    <3>3. pc'[u] = "publish" => pc[u] = "publish" /\ now'[u] = now[u]
      BY <1>o, <2>1
    <3> QED BY <1>0, <2>1, <3>1, <3>2, <3>3 DEF ThreadCells
  <2> QED BY <2>1, <2>2 DEF CellInv
<1> QED BY <1>1, <1>2, <1>3, <1>4
-----------------------------------------------------------------------------
(* Trash.                                                                  *)

LEMMA InitTrash == Init => TrashInv /\ WalkInv
<1> SUFFICES ASSUME NEW gone \in SUBSET Threads, InitWith(gone)
             PROVE  TrashInv /\ WalkInv
  BY DEF Init
<1>1. \A t \in Threads : SpeculativeTrash(t) /\ SealedTrash(t) /\ DrainedTrash(t)
  BY DEF InitWith, SpeculativeTrash, SealedTrash, DrainedTrash, HeldBefore
<1>2. WalkInv
  BY DEF InitWith, WalkInv, Frozen
<1> QED BY <1>1, <1>2 DEF InitWith, TrashInv, NobodyHolds

(* What is published in a cell only ever becomes newer.                    *)
LEMMA PublishedGrows ==
  ASSUME Buffered = {}, GcTypeOK, ListInv, ClockInv, BagInv, PinInv, CellInv,
         NEW t \in Threads, Start(t) \/ Closure(t) \/ Continue(t), NEW c \in Cells
  PROVE  /\ PublishedAt(c) <= PublishedAt(c)'
         /\ ~ (Publish(t) /\ c \in writes[t]) => PublishedAt(c)' = PublishedAt(c)
<1>0. PublishedAt(c) \in Nat /\ PublishedAt(c)' \in Nat
  <2>1. GcTypeOK'
    BY TypeStep
  <2>2. epoch_lock'[c] \in Nat
    BY <2>1 DEF GcTypeOK
  <2>3. PublishedAt(c)' \in Nat
    BY <2>2, EpochConstants DEF PublishedAt
  <2> QED BY <2>3, PublishedType
<1>1. CASE Publish(t)
  BY <1>0, <1>1, PublishStep
<1>2. ASSUME NEW cells \in SUBSET Cells, LockWrites(t, cells)
      PROVE  PublishedAt(c)' = PublishedAt(c)
  <2>1. CASE c \in cells
    <3>1. epoch_lock[c] <= now[t] /\ epoch_lock'[c] = toggle_lock_bit(epoch_lock[c])
      BY <1>2, <2>1 DEF LockWrites, lockable, read_write_valid
    <3> QED BY <3>1, ValidUnlocked, LockedStill
  <2>2. CASE c \notin cells
    BY <1>2, <2>2 DEF LockWrites, PublishedAt
  <2> QED BY <2>1, <2>2
<1>3. CASE ~ Publish(t) /\ \A cells \in SUBSET Cells : ~ LockWrites(t, cells)
  BY <1>0, <1>3, CellsKept
<1> QED BY <1>0, <1>1, <1>2, <1>3

LEMMA ReplacedKept ==
  ASSUME Buffered = {}, GcTypeOK, ListInv, ClockInv, BagInv, PinInv, CellInv,
         NEW t \in Threads, Start(t) \/ Closure(t) \/ Continue(t),
         NEW v \in Cells \X Nat, Replaced(v)
  PROVE  v[2] < PublishedAt(v[1])'
<1>1. v[1] \in Cells /\ v[2] \in Nat
  OBVIOUS
<1>2. GcTypeOK'
  BY TypeStep
<1>3. epoch_lock'[v[1]] \in Nat
  BY <1>1, <1>2 DEF GcTypeOK
<1>4. PublishedAt(v[1])' \in Nat
  BY <1>3, EpochConstants DEF PublishedAt
<1>5. PublishedAt(v[1]) <= PublishedAt(v[1])'
  BY <1>1, PublishedGrows
<1>6. PublishedAt(v[1]) \in Nat
  BY <1>1, PublishedType
<1> QED BY <1>1, <1>4, <1>5, <1>6 DEF Replaced

(* Nobody gets hold of a value that has been replaced, or whose cell is    *)
(* locked.                                                                 *)
LEMMA HeldLess ==
  ASSUME GcTypeOK, ClockInv, PinInv, NEW t \in Threads,
         Start(t) \/ Closure(t) \/ Continue(t),
         NEW v \in Cells \X Nat, Replaced(v) \/ lock_bit_set(epoch_lock[v[1]]),
         NEW u \in Threads, v \in borrowed'[u]
  PROVE  v \in borrowed[u]
<1>0. borrowed \in [Threads -> SUBSET (Cells \X Nat)]
  BY DEF GcTypeOK
<1>1. CASE u # t
  BY <1>1, OthersKept
<1>2. ASSUME u = t, NEW c \in Cells, Borrow(t, c)
      PROVE  v \in borrowed[u]
  <2>1. /\ epoch_lock[c] <= now[t]
        /\ borrowed'[t] = borrowed[t] \cup {<<c, epoch_lock[c]>>}
    BY <1>0, <1>2, EpochConstants DEF Borrow, rw_valid, read_write_valid, GcTypeOK
  <2>2. ~ lock_bit_set(epoch_lock[c]) /\ PublishedAt(c) = epoch_lock[c]
    BY <2>1, ValidUnlocked
  <2>3. epoch_lock[c] \in Nat
    BY PublishedType
  <2>4. v # <<c, epoch_lock[c]>>
    BY <2>2, <2>3 DEF Replaced
  <2> QED BY <1>2, <2>1, <2>4
<1>3. CASE u = t /\ \A c \in Cells : ~ Borrow(t, c)
  <2>1. borrowed'[t] \in {borrowed[t], {}}
    BY <1>0, <1>3 DEF Start, Closure, Continue, LoadNow, Subscribe, Unsubscribe,
       LockWrites, Fail, Drain, Pin, Finish, FetchAndTick, Publish,
       Seal, Freeze, QuiesceNext, LocalQuiesce, Unfreeze, Recycle,
       RecyclePanics, Collected, LockMutex, LockShard, Modify, tx
  <2> QED BY <1>3, <2>1
<1> QED BY <1>1, <1>2, <1>3

LEMMA TrashHeldLess ==
  ASSUME Buffered = {}, GcTypeOK, ClockInv, PinInv, NEW t \in Threads,
         Start(t) \/ Closure(t) \/ Continue(t),
         NEW T \in SUBSET (Cells \X Nat),
         \A v \in T : Replaced(v) \/ lock_bit_set(epoch_lock[v[1]])
  PROVE  /\ \A u \in Threads : borrowed'[u] \cap T # {} => borrowed[u] \cap T # {}
         /\ \A u \in Threads : borrowed'[u] \cap T # {} =>
              now'[u] = now[u] /\ current_epoch'[u] = current_epoch[u]
<1>1. \A u \in Threads : borrowed'[u] \cap T # {} => borrowed[u] \cap T # {}
  BY HeldLess
<1>2. \A u \in Threads : borrowed'[u] \cap T # {} =>
        now'[u] = now[u] /\ current_epoch'[u] = current_epoch[u]
  BY HolderPinned
<1> QED BY <1>1, <1>2

(* A thread that holds something is in the list.                           *)
LEMMA HolderRegistered ==
  ASSUME ListInv, PinInv, NEW u \in Threads, borrowed[u] # {}
  PROVE  \E j \in DOMAIN synchs : synchs[j] = u
<1>1. pc[u] = "run"
  BY DEF PinInv, ThreadPin
<1> QED BY <1>1 DEF ListInv, ThreadInList, Registered

(* When the walk is over, nobody holds anything of a bag that is drained.  *)
LEMMA QuiescedFree ==
  ASSUME GcTypeOK, ListInv, BagInv, PinInv, WalkInv, NEW t \in Threads,
         pc[t] = "quiesce", visit[t] > Len(synchs),
         NEW i \in 1..max_idx(t), NEW u \in Threads
  PROVE  i \in DOMAIN sealed_bags[t] /\ borrowed[u] \cap sealed_bags[t][i].trash = {}
<1>1. /\ max_idx(t) \in 0..Len(sealed_bags[t]) /\ sealed_bags[t][i].epoch < min_epoch[t]
  BY MaxIdx
<1>2. i \in DOMAIN sealed_bags[t]
  BY <1>1, SealedType
<1>3. /\ DOMAIN synchs = 1..Len(synchs) /\ Len(synchs) \in Nat
      /\ visit[t] \in Nat
  BY DEF GcTypeOK
<1>4. \A j \in DOMAIN synchs : j < visit[t]
  BY <1>3
<1>5. \A j \in DOMAIN synchs : borrowed[synchs[j]] \cap sealed_bags[t][i].trash = {}
  BY <1>1, <1>2, <1>4 DEF WalkInv, WalkedPast, Frozen
<1>6. CASE borrowed[u] = {}
  BY <1>2, <1>6
<1>7. CASE borrowed[u] # {}
  BY <1>2, <1>5, <1>7, HolderRegistered
<1> QED BY <1>6, <1>7

LEMMA SpeculativeStep ==
  ASSUME Buffered = {}, GcTypeOK, ListInv, ClockInv, BagInv, PinInv, CellInv,
         TrashInv, NEW t \in Threads, Start(t) \/ Closure(t) \/ Continue(t),
         NEW u \in Threads
  PROVE  SpeculativeTrash(u)'
<1> USE DEF Goto
<1>0. /\ pc \in [Threads -> Pcs] /\ now \in [Threads -> Nat]
      /\ writes \in [Threads -> SUBSET Cells]
      /\ speculative_bag \in [Threads -> SUBSET (Cells \X Nat)]
      /\ epoch_lock \in [Cells -> Nat]
      /\ borrowed \in [Threads -> SUBSET (Cells \X Nat)]
      /\ clock \in Nat
  BY DEF GcTypeOK
<1>s. SpeculativeTrash(u) /\ speculative_bag[u] \in SUBSET (Cells \X Nat)
  BY <1>0 DEF TrashInv
<1>1. ASSUME pc'[u] = pc[u], now'[u] = now[u], writes'[u] = writes[u],
             speculative_bag'[u] = speculative_bag[u],
             pc[u] = "publish" => u # t
      PROVE  SpeculativeTrash(u)'
  <2>1. CASE pc[u] \notin {"publish", "seal"}
    BY <1>1, <1>s, <2>1 DEF SpeculativeTrash, HeldBefore
  <2>2. CASE pc[u] = "seal"
    <3>1. \A v \in speculative_bag[u] : Replaced(v)
      BY <1>s, <2>2 DEF SpeculativeTrash
    <3>2. \A v \in speculative_bag[u] : Replaced(v)'
      BY <1>s, <3>1, ReplacedKept DEF Replaced
    <3>3. \A w \in Threads : borrowed'[w] \cap speculative_bag[u] # {} =>
            now'[w] <= now[u]
      BY <1>s, <3>1, TrashHeldLess DEF SpeculativeTrash, HeldBefore
    <3> QED BY <1>1, <2>2, <3>2, <3>3 DEF SpeculativeTrash, HeldBefore
  <2>3. CASE pc[u] = "publish"
    <3>1. \A v \in speculative_bag[u] : v[1] \in writes[u] /\ v[2] = PublishedAt(v[1])
      BY <1>s, <2>3 DEF SpeculativeTrash
    <3>2. \A v \in speculative_bag[u] : lock_bit_set(epoch_lock[v[1]])
      BY <3>1 DEF CellInv, ThreadCells
    <3>3. \A w \in Threads : borrowed'[w] \cap speculative_bag[u] # {} =>
            now'[w] <= now[u]
      BY <1>s, <3>2, TrashHeldLess DEF SpeculativeTrash, HeldBefore
    <3>4. writes[u] \cap writes[t] = {}
      BY <1>1, <2>3 DEF CellInv, ThreadCells
    <3>5. \A c \in writes[u] : PublishedAt(c)' = PublishedAt(c)
      BY <1>0, <3>4, PublishedGrows
    <3> QED BY <1>1, <2>3, <3>1, <3>3, <3>5 DEF SpeculativeTrash, HeldBefore
  <2> QED BY <2>1, <2>2, <2>3
<1>2. CASE u # t
  BY <1>1, <1>2, OthersKept
<1>3. CASE u = t /\ FetchAndTick(t)
  <2>1. /\ pc'[t] = "publish" /\ now'[t] = clock /\ writes' = writes
        /\ borrowed' = borrowed /\ epoch_lock' = epoch_lock /\ pc[t] = "tick"
        /\ speculative_bag'[t] =
             {<<c, toggle_lock_bit(epoch_lock[c])>> : c \in writes[t]}
    BY <1>0, <1>3 DEF FetchAndTick
  <2>2. \A c \in writes[t] : PublishedAt(c)' = toggle_lock_bit(epoch_lock[c])
    BY <2>1 DEF CellInv, ThreadCells, PublishedAt
  <2>3. \A v \in speculative_bag'[t] : v[1] \in writes'[t] /\ v[2] = PublishedAt(v[1])'
    BY <2>1, <2>2
  <2>4. \A w \in Threads : borrowed'[w] # {} => now'[w] <= now'[t]
    <3>1. borrowed[t] = {}
      BY <2>1 DEF PinInv, ThreadPin
    <3>2. \A w \in Threads \ {t} : now'[w] = now[w] /\ now[w] <= clock
      BY OthersKept DEF PinInv, ThreadPin
    <3> QED BY <2>1, <3>1, <3>2
  <2> QED BY <1>3, <2>1, <2>3, <2>4 DEF SpeculativeTrash, HeldBefore
<1>4. CASE u = t /\ Publish(t)
  <2>1. /\ pc'[t] = "seal" /\ now' = now /\ speculative_bag' = speculative_bag
        /\ borrowed' = borrowed /\ pc[t] = "publish"
    BY <1>0, <1>4 DEF Publish
  <2>2. \A v \in speculative_bag[t] : Replaced(v)'
    <3> SUFFICES ASSUME NEW v \in speculative_bag[t]
                 PROVE  v[2] < PublishedAt(v[1])'
      BY DEF Replaced
    <3>1. v[1] \in writes[t] /\ v[2] = PublishedAt(v[1]) /\ v[1] \in Cells
      BY <1>0, <1>4, <1>s, <2>1 DEF SpeculativeTrash
    <3> QED BY <1>4, <3>1, PublishStep
  <2> QED BY <1>4, <1>s, <2>1, <2>2 DEF SpeculativeTrash, HeldBefore
<1>5. CASE u = t /\ Seal(t)
  <2>1. speculative_bag'[t] = {} /\ pc'[t] \in {"freeze", "idle"}
    BY <1>0, <1>5 DEF Seal
  <2> QED BY <1>5, <2>1 DEF SpeculativeTrash, HeldBefore
<1>6. CASE u = t /\ ~ FetchAndTick(t) /\ ~ Publish(t) /\ ~ Seal(t)
  <2>1. speculative_bag' = speculative_bag
    BY <1>6 DEF Start, Closure, Continue, LoadNow, Subscribe, Unsubscribe,
       Borrow, LockWrites, Fail, Drain, Pin, Finish, Freeze, QuiesceNext,
       LocalQuiesce, Unfreeze, Recycle, RecyclePanics, Collected, LockMutex,
       LockShard, Modify, tx
  <2>2. pc[t] \notin {"publish", "seal"} /\ pc'[t] \notin {"publish", "seal"}
    <3>1. ~ Drain(t)
      BY DEF Drain, Drained, PinInv, ThreadPin
    <3> QED
      BY <1>0, <1>6, <3>1 DEF Start, Closure, Continue, LoadNow, Subscribe,
         Unsubscribe, Borrow, LockWrites, Fail, Pin, Finish, Freeze,
         QuiesceNext, LocalQuiesce, Unfreeze, Recycle, RecyclePanics, Collected,
         LockMutex, LockShard, Modify
  <2> QED BY <1>6, <1>s, <2>1, <2>2 DEF SpeculativeTrash, HeldBefore
<1> QED BY <1>2, <1>3, <1>4, <1>5, <1>6

LEMMA SealedStep ==
  ASSUME Buffered = {}, GcTypeOK, ListInv, ClockInv, BagInv, PinInv, CellInv,
         TrashInv, NEW t \in Threads, Start(t) \/ Closure(t) \/ Continue(t),
         NEW u \in Threads
  PROVE  SealedTrash(u)'
<1> USE DEF Goto
<1>0. /\ pc \in [Threads -> Pcs] /\ now \in [Threads -> Nat]
      /\ speculative_bag \in [Threads -> SUBSET (Cells \X Nat)]
      /\ sealed_bags \in [Threads -> Seq(Bag)]
  BY DEF GcTypeOK
<1>s. /\ SealedTrash(u) /\ DOMAIN sealed_bags[u] = 1..Len(sealed_bags[u])
      /\ Len(sealed_bags[u]) \in Nat
      /\ \A i \in DOMAIN sealed_bags[u] :
           sealed_bags[u][i] \in Bag /\ sealed_bags[u][i].trash \in SUBSET (Cells \X Nat)
  BY SealedType DEF TrashInv
<1>k. ASSUME NEW T \in SUBSET (Cells \X Nat), NEW e,
             \A v \in T : Replaced(v), HeldBefore(T, e)
      PROVE  /\ \A v \in T : v[2] < PublishedAt(v[1])'
             /\ \A w \in Threads : borrowed'[w] \cap T # {} => now'[w] <= e
  BY <1>k, ReplacedKept, TrashHeldLess DEF HeldBefore
<1>b. ASSUME NEW i \in DOMAIN sealed_bags[u]
      PROVE  /\ \A v \in sealed_bags[u][i].trash : v[2] < PublishedAt(v[1])'
             /\ \A w \in Threads :
                  borrowed'[w] \cap sealed_bags[u][i].trash # {} =>
                    now'[w] <= sealed_bags[u][i].epoch
  BY <1>k, <1>s DEF SealedTrash
<1>1. CASE sealed_bags'[u] = sealed_bags[u]
  BY <1>1, <1>b DEF SealedTrash, HeldBefore, Replaced
<1>2. CASE u = t /\ Seal(t)
  <2> DEFINE n == Len(sealed_bags[t])
  <2>1. /\ sealed_bags'[t] = Append(sealed_bags[t], SealedBag(t))
        /\ pc[t] = "seal"
    BY <1>0, <1>2 DEF Seal
  <2>2. /\ SealedBag(t) \in Bag /\ SealedBag(t).epoch = now[t]
        /\ SealedBag(t).trash = speculative_bag[t]
    BY <1>0 DEF SealedBag, Bag
  <2>3. /\ DOMAIN sealed_bags'[t] = 1..(n + 1)
        /\ \A i \in 1..n : sealed_bags'[t][i] = sealed_bags[t][i]
        /\ sealed_bags'[t][n + 1] = SealedBag(t)
    BY <1>0, <2>1, <2>2, AppendProperties, LenProperties
  <2>4. \A i \in 1..(n + 1) : i \in 1..n \/ i = n + 1
    BY <1>2, <1>s
  <2>5. /\ \A v \in speculative_bag[t] : v[2] < PublishedAt(v[1])'
        /\ \A w \in Threads :
             borrowed'[w] \cap speculative_bag[t] # {} => now'[w] <= now[t]
    <3>1. SpeculativeTrash(t)
      BY DEF TrashInv
    <3> QED BY <1>0, <1>k, <2>1, <3>1 DEF SpeculativeTrash
  <2>6. ASSUME NEW i \in DOMAIN sealed_bags'[t]
        PROVE  /\ \A v \in sealed_bags'[t][i].trash : v[2] < PublishedAt(v[1])'
               /\ \A w \in Threads :
                    borrowed'[w] \cap sealed_bags'[t][i].trash # {} =>
                      now'[w] <= sealed_bags'[t][i].epoch
    <3>1. CASE i \in 1..n
      BY <1>2, <1>b, <1>s, <2>3, <3>1
    <3>2. CASE i = n + 1
      BY <2>2, <2>3, <2>5, <3>2
    <3> QED BY <2>3, <2>4, <3>1, <3>2
  <2> QED BY <1>2, <2>6 DEF SealedTrash, HeldBefore, Replaced
<1>3. CASE u = t /\ Unfreeze(t)
  <2> DEFINE k == max_idx(t)
             n == Len(sealed_bags[t])
  <2>1. sealed_bags'[t] = SubSeq(sealed_bags[t], k + 1, n)
    BY <1>0, <1>3 DEF Unfreeze
  <2>2. k \in 0..n /\ sealed_bags[t] \in Seq(Bag)
    BY <1>0, MaxIdx
  <2> HIDE DEF k
  <2>3. /\ DOMAIN sealed_bags'[t] = 1..(n - k)
        /\ \A i \in 1..(n - k) : /\ k + i \in DOMAIN sealed_bags[t]
                                /\ sealed_bags'[t][i] = sealed_bags[t][k + i]
    BY <2>1, <2>2, SeqSuffix
  <2>7. ASSUME NEW i \in DOMAIN sealed_bags'[t]
        PROVE  /\ \A v \in sealed_bags'[t][i].trash : v[2] < PublishedAt(v[1])'
               /\ \A w \in Threads :
                    borrowed'[w] \cap sealed_bags'[t][i].trash # {} =>
                      now'[w] <= sealed_bags'[t][i].epoch
    BY <1>3, <1>b, <2>3
  <2> QED BY <1>3, <2>7 DEF SealedTrash, HeldBefore, Replaced
<1>4. CASE u = t /\ Subscribe(t)
  <2>1. sealed_bags'[t] = <<>>
    BY <1>0, <1>4 DEF Subscribe
  <2> QED BY <1>4, <2>1 DEF SealedTrash
<1>5. CASE u # t
  BY <1>1, <1>5, OthersKept
<1> QED
  BY <1>1, <1>2, <1>3, <1>4, <1>5 DEF Start, Closure, Continue, LoadNow,
     Unsubscribe, Borrow, LockWrites, Fail, Drain, Pin, Finish, FetchAndTick,
     Publish, Freeze, QuiesceNext, LocalQuiesce, Recycle, RecyclePanics,
     Collected, LockMutex, LockShard, Modify, garbage

LEMMA DrainedStep ==
  ASSUME Buffered = {}, GcTypeOK, ListInv, ClockInv, BagInv, PinInv, CellInv,
         TrashInv, WalkInv, NEW t \in Threads,
         Start(t) \/ Closure(t) \/ Continue(t), NEW u \in Threads
  PROVE  DrainedTrash(u)'
<1> USE DEF Goto
<1>0. /\ pc \in [Threads -> Pcs]
      /\ draining \in [Threads -> Seq(Bag)]
      /\ sealed_bags \in [Threads -> Seq(Bag)]
  BY DEF GcTypeOK
<1>s. /\ DrainedTrash(u) /\ DOMAIN draining[u] = 1..Len(draining[u])
      /\ Len(draining[u]) \in Nat /\ draining[u] \in Seq(Bag)
      /\ \A i \in DOMAIN draining[u] :
           draining[u][i] \in Bag /\ draining[u][i].trash \in SUBSET (Cells \X Nat)
  <2>1. draining[u] \in Seq(Bag)
    BY <1>0
  <2>2. \A i \in 1..Len(draining[u]) : draining[u][i] \in Bag
    BY <2>1, ElementOfSeq
  <2> QED BY <2>1, <2>2, LenProperties DEF TrashInv, Bag
<1>k. ASSUME NEW T \in SUBSET (Cells \X Nat),
             \A v \in T : Replaced(v), NobodyHolds(T)
      PROVE  /\ \A v \in T : v[2] < PublishedAt(v[1])'
             /\ \A w \in Threads : borrowed'[w] \cap T = {}
  BY <1>k, ReplacedKept, TrashHeldLess DEF NobodyHolds
<1>b. ASSUME NEW i \in DOMAIN draining[u]
      PROVE  /\ \A v \in draining[u][i].trash : v[2] < PublishedAt(v[1])'
             /\ \A w \in Threads : borrowed'[w] \cap draining[u][i].trash = {}
  BY <1>k, <1>s DEF DrainedTrash
<1>1. CASE draining'[u] = draining[u]
  BY <1>1, <1>b DEF DrainedTrash, NobodyHolds, Replaced
<1>2. CASE u = t /\ Unfreeze(t)
  <2> DEFINE k == max_idx(t)
             n == Len(sealed_bags[t])
  <2>1. /\ draining'[t] = SubSeq(sealed_bags[t], 1, k)
        /\ pc[t] = "quiesce" /\ visit[t] > Len(synchs)
    BY <1>0, <1>2 DEF Unfreeze
  <2>2. k \in 0..n /\ sealed_bags[t] \in Seq(Bag)
    BY <1>0, MaxIdx
  <2>4. \A i \in 1..k : /\ i \in DOMAIN sealed_bags[t]
                        /\ NobodyHolds(sealed_bags[t][i].trash)
    BY <2>1, QuiescedFree DEF NobodyHolds
  <2> HIDE DEF k
  <2>5. /\ DOMAIN draining'[t] = 1..k
        /\ \A i \in 1..k : draining'[t][i] = sealed_bags[t][i]
    BY <2>1, <2>2, SeqPrefix
  <2>6. ASSUME NEW i \in DOMAIN draining'[t]
        PROVE  /\ \A v \in draining'[t][i].trash : v[2] < PublishedAt(v[1])'
               /\ \A w \in Threads : borrowed'[w] \cap draining'[t][i].trash = {}
    <3>1. i \in 1..k /\ draining'[t][i] = sealed_bags[t][i]
      BY <2>5
    <3>2. \A v \in sealed_bags[t][i].trash : Replaced(v)
      BY <2>4, <3>1 DEF TrashInv, SealedTrash
    <3>3. sealed_bags[t][i].trash \in SUBSET (Cells \X Nat)
      BY <2>4, <3>1, SealedType
    <3> QED BY <1>k, <2>4, <3>1, <3>2, <3>3
  <2> QED BY <1>2, <2>6 DEF DrainedTrash, NobodyHolds, Replaced
<1>3. CASE u = t /\ Recycle(t)
  <2>1. draining'[t] = Tail(draining[t]) /\ draining[t] # <<>>
    BY <1>0, <1>3 DEF Recycle
  <2>2. /\ DOMAIN draining'[t] = 1..(Len(draining[t]) - 1)
        /\ \A i \in 1..(Len(draining[t]) - 1) : draining'[t][i] = draining[t][i + 1]
    <3>1. /\ Tail(draining[t]) \in Seq(Bag)
          /\ Len(Tail(draining[t])) = Len(draining[t]) - 1
          /\ \A i \in 1..Len(Tail(draining[t])) : Tail(draining[t])[i] = draining[t][i + 1]
      BY <1>3, <1>s, <2>1, HeadTailProperties
    <3> QED BY <2>1, <3>1, LenProperties
  <2>3. \A i \in 1..(Len(draining[t]) - 1) : i + 1 \in DOMAIN draining[t]
    BY <1>3, <1>s
  <2>4. ASSUME NEW i \in DOMAIN draining'[t]
        PROVE  /\ \A v \in draining'[t][i].trash : v[2] < PublishedAt(v[1])'
               /\ \A w \in Threads : borrowed'[w] \cap draining'[t][i].trash = {}
    BY <1>3, <1>b, <2>2, <2>3
  <2> QED BY <1>3, <2>4 DEF DrainedTrash, NobodyHolds, Replaced
<1>4. CASE u = t /\ RecyclePanics(t)
  <2>1. draining'[t] = <<>>
    BY <1>0, <1>4 DEF RecyclePanics
  <2> QED BY <1>4, <2>1 DEF DrainedTrash
<1>5. CASE u # t
  BY <1>1, <1>5, OthersKept
<1> QED
  BY <1>1, <1>2, <1>3, <1>4, <1>5 DEF Start, Closure, Continue, LoadNow,
     Subscribe, Unsubscribe, Borrow, LockWrites, Fail, Drain, Pin, Finish,
     FetchAndTick, Publish, Seal, Freeze, QuiesceNext, LocalQuiesce,
     Collected, LockMutex, LockShard, Modify, garbage

LEMMA DroppedStep ==
  ASSUME Buffered = {}, GcTypeOK, ListInv, ClockInv, BagInv, PinInv, CellInv,
         TrashInv, NEW t \in Threads, Start(t) \/ Closure(t) \/ Continue(t)
  PROVE  (\A v \in dropped' : Replaced(v)') /\ NobodyHolds(dropped)'
<1>k. ASSUME NEW T \in SUBSET (Cells \X Nat),
             \A v \in T : Replaced(v), NobodyHolds(T)
      PROVE  /\ \A v \in T : v[2] < PublishedAt(v[1])'
             /\ \A w \in Threads : borrowed'[w] \cap T = {}
  BY <1>k, ReplacedKept, TrashHeldLess DEF NobodyHolds
<1>1. /\ \A v \in dropped : v[2] < PublishedAt(v[1])'
      /\ \A w \in Threads : borrowed'[w] \cap dropped = {}
  <2>1. dropped \in SUBSET (Cells \X Nat)
    BY DEF GcTypeOK
  <2> QED BY <1>k, <2>1 DEF TrashInv
<1>2. CASE dropped' = dropped
  BY <1>1, <1>2 DEF NobodyHolds, Replaced
<1>3. CASE Recycle(t) \/ RecyclePanics(t)
  <2>1. draining[t] # <<>> /\ dropped' \subseteq dropped \cup Head(draining[t]).trash
    BY <1>3 DEF Recycle, RecyclePanics
  <2>2. draining[t] \in Seq(Bag)
    BY DEF GcTypeOK
  <2>3. /\ Head(draining[t]) \in Bag /\ Head(draining[t]) = draining[t][1]
        /\ 1 \in DOMAIN draining[t]
    BY <2>1, <2>2, HeadTailProperties, EmptySeq, LenProperties
  <2>4. /\ \A v \in Head(draining[t]).trash : Replaced(v)
        /\ NobodyHolds(Head(draining[t]).trash)
        /\ Head(draining[t]).trash \in SUBSET (Cells \X Nat)
    BY <2>3 DEF TrashInv, DrainedTrash, Bag
  <2>5. /\ \A v \in Head(draining[t]).trash : v[2] < PublishedAt(v[1])'
        /\ \A w \in Threads : borrowed'[w] \cap Head(draining[t]).trash = {}
    BY <1>k, <2>4
  <2> QED BY <1>1, <2>1, <2>5 DEF NobodyHolds, Replaced
<1> QED
  BY <1>2, <1>3 DEF Start, Closure, Continue, LoadNow,
     Subscribe, Unsubscribe, Borrow, LockWrites, Fail, Drain, Pin, Finish,
     FetchAndTick, Publish, Seal, Freeze, QuiesceNext, LocalQuiesce, Unfreeze,
     Collected, LockMutex, LockShard, Modify

-----------------------------------------------------------------------------
(* The walk over the list.                                                 *)

LEMMA WalkStep ==
  ASSUME Buffered = {}, GcTypeOK, ListInv, ClockInv, BagInv, PinInv, CellInv,
         TrashInv, WalkInv, NEW t \in Threads,
         Start(t) \/ Closure(t) \/ Continue(t)
  PROVE  WalkInv'
<1> USE DEF Goto
<1>0. /\ pc \in [Threads -> Pcs] /\ visit \in [Threads -> Nat]
      /\ min_epoch \in [Threads -> Nat] /\ now \in [Threads -> Nat]
      /\ current_epoch \in [Threads -> Nat]
      /\ DOMAIN synchs = 1..Len(synchs) /\ Len(synchs) \in Nat
      /\ \A j \in DOMAIN synchs : synchs[j] \in Threads
  <2>1. synchs \in Seq(Threads)
    BY DEF GcTypeOK
  <2>2. /\ pc \in [Threads -> Pcs] /\ visit \in [Threads -> Nat]
        /\ min_epoch \in [Threads -> Nat] /\ now \in [Threads -> Nat]
        /\ current_epoch \in [Threads -> Nat]
    BY DEF GcTypeOK
  <2> QED BY <2>1, <2>2, SeqElements
<1> SUFFICES ASSUME NEW u \in Threads, pc'[u] \in Frozen,
                    NEW i \in DOMAIN sealed_bags'[u],
                    sealed_bags'[u][i].epoch < min_epoch'[u]
             PROVE  WalkedPast(u, sealed_bags[u][i].trash)'
  BY DEF WalkInv
<1>1. sealed_bags'[u] = sealed_bags[u] /\ (pc[u] \in Frozen \/ (u = t /\ Freeze(t)))
  <2>1. CASE u # t
    BY <2>1, OthersKept
  <2>2. CASE u = t
    BY <1>0, <2>2 DEF Start, Closure, Continue, LoadNow, Subscribe, Unsubscribe,
       Borrow, LockWrites, Fail, Drain, Pin, Finish, FetchAndTick, Publish, Seal,
       QuiesceNext, LocalQuiesce, Unfreeze, Recycle, RecyclePanics, Collected,
       LockMutex, LockShard, Modify, Freeze, Frozen, garbage
  <2> QED BY <2>1, <2>2
<1> DEFINE T == sealed_bags[u][i].trash
<1>2. /\ i \in DOMAIN sealed_bags[u] /\ T \in SUBSET (Cells \X Nat)
      /\ sealed_bags[u][i].epoch \in Nat
      /\ sealed_bags[u][i].epoch < min_epoch'[u]
  BY <1>1, SealedType
<1>3. (\A v \in T : Replaced(v)) /\ HeldBefore(T, sealed_bags[u][i].epoch)
  BY <1>2 DEF TrashInv, SealedTrash
<1>g. SUFFICES /\ \A j \in DOMAIN synchs' :
                   j < visit'[u] => borrowed'[synchs'[j]] \cap T = {}
               /\ pc'[u] = "wait" /\ borrowed'[synchs'[visit'[u]]] \cap T # {} =>
                    ~ (current_epoch'[synchs'[visit'[u]]] > quiesce_epoch(u)')
  BY <1>1 DEF WalkedPast, is_quiesced
<1> HIDE DEF T
<1>4. \A w \in Threads : borrowed'[w] \cap T # {} =>
        borrowed[w] \cap T # {} /\ current_epoch'[w] = current_epoch[w]
  BY <1>2, <1>3, TrashHeldLess
<1>5. CASE u = t /\ Freeze(t)
  <2>1. visit'[t] = 1 /\ pc'[t] = "quiesce" /\ synchs' = synchs
    BY <1>0, <1>5 DEF Freeze
  <2> QED BY <1>0, <1>5, <2>1
<1>6. CASE pc[u] \in Frozen
  <2>1. synchs' = synchs
    <3>1. [Next]_vars
      BY DEF Next
    <3> QED BY <1>6, <3>1, FrozenStep
  <2>w. sealed_bags[u][i].epoch < min_epoch[u] => WalkedPast(u, T)
    BY <1>2, <1>6 DEF WalkInv, T
  <2>2. CASE /\ pc'[u] = pc[u] /\ visit'[u] = visit[u]
             /\ min_epoch'[u] = min_epoch[u] /\ leaving'[u] = leaving[u]
    <3>1. quiesce_epoch(u)' = quiesce_epoch(u)
      BY <1>1, <2>2 DEF quiesce_epoch
    <3>2. WalkedPast(u, T)
      BY <1>2, <2>2, <2>w
    <3>3. \A j \in DOMAIN synchs : j < visit[u] => borrowed'[synchs[j]] \cap T = {}
      BY <1>0, <1>4, <3>2 DEF WalkedPast
    <3>4. pc[u] = "wait" => synchs[visit[u]] \in Threads
      BY <1>0 DEF ListInv, ThreadInList
    <3>5. pc[u] = "wait" /\ borrowed'[synchs[visit[u]]] \cap T # {} =>
            ~ (current_epoch'[synchs[visit[u]]] > quiesce_epoch(u))
      BY <1>4, <3>2, <3>4 DEF WalkedPast, is_quiesced
    <3> QED BY <2>1, <2>2, <3>1, <3>3, <3>5
  <2>3. CASE u = t /\ QuiesceNext(t)
    <3> DEFINE s == synchs[visit[t]]
    <3>1. /\ pc[t] = "quiesce" /\ visit[t] <= Len(synchs)
          /\ UNCHANGED <<current_epoch, borrowed, leaving>>
      BY <2>3 DEF QuiesceNext, epochs, tx
    <3>2. visit[t] \in DOMAIN synchs /\ s \in Threads
      <4>1. visit[t] > 0
        BY <3>1 DEF ListInv, ThreadInList, Frozen
      <4>2. visit[t] \in 1..Len(synchs)
        BY <1>0, <3>1, <4>1
      <4> QED BY <1>0, <4>2
    <3>3. quiesce_epoch(t)' = quiesce_epoch(t)
      BY <1>1, <2>3, <3>1 DEF quiesce_epoch
    <3> HIDE DEF s
    <3>4. CASE is_quiesced(s, quiesce_epoch(t))
      <4>1. /\ min_epoch'[t] = Lesser(min_epoch[t], current_epoch[s])
            /\ visit'[t] = visit[t] + 1 /\ pc'[t] = "quiesce"
        BY <1>0, <2>3, <3>1, <3>4 DEF QuiesceNext, s
      <4>2. /\ sealed_bags[u][i].epoch < min_epoch[t]
            /\ sealed_bags[u][i].epoch < current_epoch[s]
        <5>1. current_epoch[s] \in Nat /\ min_epoch[t] \in Nat
          BY <1>0, <3>2
        <5> QED BY <1>2, <2>3, <4>1, <5>1 DEF Lesser
      <4>3. \A j \in DOMAIN synchs : j < visit[t] => borrowed[synchs[j]] \cap T = {}
        BY <2>3, <2>w, <4>2 DEF WalkedPast
      <4>4. borrowed[s] \cap T = {}
        <5> SUFFICES ASSUME borrowed[s] \cap T # {} PROVE FALSE
          OBVIOUS
        <5>1. now[s] <= sealed_bags[u][i].epoch
          BY <1>3, <3>2 DEF HeldBefore
        <5>2. current_epoch[s] = now[s]
          BY <3>2 DEF PinInv, ThreadPin
        <5>3. now[s] \in Nat
          BY <1>0, <3>2
        <5> QED BY <1>2, <4>2, <5>1, <5>2, <5>3
      <4>5. \A j \in DOMAIN synchs : j < visit[t] + 1 => j < visit[t] \/ j = visit[t]
        BY <1>0
      <4> QED BY <2>1, <2>3, <3>1, <4>1, <4>3, <4>4, <4>5 DEF s
    <3>5. CASE ~ is_quiesced(s, quiesce_epoch(t))
      <4>1. pc'[t] = "wait" /\ visit' = visit /\ min_epoch' = min_epoch
        BY <1>0, <2>3, <3>1, <3>5 DEF QuiesceNext, s
      <4>2. \A j \in DOMAIN synchs : j < visit[t] => borrowed[synchs[j]] \cap T = {}
        BY <1>2, <2>3, <2>w, <4>1 DEF WalkedPast
      <4>3. ~ (current_epoch[s] > quiesce_epoch(t))
        BY <3>5 DEF is_quiesced
      <4> QED BY <2>1, <2>3, <3>1, <3>3, <4>1, <4>2, <4>3 DEF s
    <3> QED BY <3>4, <3>5
  <2>4. CASE u = t /\ LocalQuiesce(t)
    <3>1. /\ pc[t] = "wait" /\ is_quiesced(synchs[visit[t]], quiesce_epoch(t))
          /\ UNCHANGED <<current_epoch, borrowed, min_epoch>>
          /\ visit'[t] = visit[t] + 1 /\ pc'[t] = "quiesce"
      BY <1>0, <2>4 DEF LocalQuiesce, epochs, tx
    <3>2. WalkedPast(t, T)
      BY <1>2, <2>4, <2>w, <3>1
    <3>3. \A j \in DOMAIN synchs : j < visit[t] => borrowed[synchs[j]] \cap T = {}
      BY <3>2 DEF WalkedPast
    <3>4. borrowed[synchs[visit[t]]] \cap T = {}
      BY <3>1, <3>2 DEF WalkedPast
    <3>5. \A j \in DOMAIN synchs : j < visit[t] + 1 => j < visit[t] \/ j = visit[t]
      BY <1>0
    <3> QED BY <2>1, <2>4, <3>1, <3>3, <3>4, <3>5
  <2>5. CASE u # t
    BY <2>2, <2>5, OthersKept
  <2>6. CASE u = t /\ ~ QuiesceNext(t) /\ ~ LocalQuiesce(t)
    <3>1. ~ Drain(t)
      BY DEF Drain, Drained, PinInv, ThreadPin
    <3> QED
      BY <1>0, <1>6, <2>6, <3>1 DEF Start, Closure, Continue, LoadNow, Subscribe,
         Unsubscribe, Borrow, LockWrites, Fail, Pin, Finish, FetchAndTick,
         Publish, Seal, Freeze, Unfreeze, Recycle, RecyclePanics, Collected,
         LockMutex, LockShard, Modify, Frozen
  <2> QED BY <2>3, <2>4, <2>5, <2>6
<1> QED BY <1>1, <1>5, <1>6

-----------------------------------------------------------------------------
(* The theorems.                                                           *)

-----------------------------------------------------------------------------
(* Who waits for whom.                                                     *)

LEMMA InitWaits == Init => WaitInv
<1> SUFFICES ASSUME NEW gone \in SUBSET Threads, InitWith(gone)
             PROVE  WaitInv
  BY DEF Init
<1>1. INACTIVE_EPOCH >= END_OF_TIME
  BY EpochConstants DEF END_OF_TIME
<1> QED
  BY <1>1 DEF InitWith, WaitInv, ThreadWaits, StoredEpoch, Drained, Frozen

(* A store is the epoch stored last, whether the others see it or not.     *)
LEMMA StoreIsLast ==
  ASSUME GcTypeOK, WaitInv, NEW t \in Threads, NEW e \in Nat, StoreEpoch(t, e)
  PROVE  /\ StoredEpoch(t)' = e
         /\ t \notin Buffered => Drained(t)'
<1>1. /\ current_epoch \in [Threads -> Nat]
      /\ store_buffer \in [Threads -> Nat \cup {None}]
      /\ t \notin Buffered => store_buffer[t] = None
  BY DEF GcTypeOK, WaitInv, ThreadWaits, Drained
<1>2. e # None
  BY GcAssumption
<1>3. CASE t \in Buffered
  BY <1>1, <1>2, <1>3 DEF StoreEpoch, StoredEpoch, Drained
<1>4. CASE t \notin Buffered
  BY <1>1, <1>4 DEF StoreEpoch, StoredEpoch, Drained
<1> QED BY <1>3, <1>4

LEMMA WaitStep ==
  ASSUME GcTypeOK, ListInv, WaitInv, NEW t \in Threads,
         Start(t) \/ Closure(t) \/ Continue(t)
  PROVE  WaitInv'
<1> USE DEF Goto, epochs, lists
<1>0. /\ current_epoch \in [Threads -> Nat]
      /\ store_buffer \in [Threads -> Nat \cup {None}]
      /\ pc \in [Threads -> Pcs]
      /\ shared \in [Threads -> BOOLEAN]
  BY DEF GcTypeOK
<1>a. /\ INACTIVE_EPOCH \in Nat /\ END_OF_TIME \in Nat
      /\ INACTIVE_EPOCH >= END_OF_TIME /\ END_OF_TIME >= END_OF_TIME
  BY EpochConstants DEF END_OF_TIME
<1>b. \A u \in Threads : ThreadWaits(u)
  BY DEF WaitInv
<1>1. ASSUME NEW u \in Threads, u # t PROVE ThreadWaits(u)'
  <2>1. UNCHANGED <<current_epoch[u], store_buffer[u], pc[u], shared[u]>>
    <3>1. CASE Start(t)
      BY <1>0, <1>1, <3>1
         DEF Start, LoadNow, Subscribe, Unsubscribe, StoreEpoch
    <3>2. CASE Closure(t)
      BY <1>0, <1>1, <3>2 DEF Closure, Borrow, LockWrites, Fail
    <3>3. CASE \/ Drain(t) \/ Pin(t) \/ Finish(t) \/ FetchAndTick(t)
               \/ Publish(t) \/ Seal(t)
      BY <1>0, <1>1, <3>3
         DEF Drain, Pin, Finish, FetchAndTick, Publish, Seal, Unpin, StoreEpoch
    <3>4. CASE \/ Freeze(t) \/ QuiesceNext(t) \/ LocalQuiesce(t) \/ Unfreeze(t)
      BY <1>0, <1>1, <3>4
         DEF Freeze, QuiesceNext, LocalQuiesce, Unfreeze, walk
    <3>5. CASE \/ Recycle(t) \/ RecyclePanics(t) \/ Collected(t)
      BY <1>0, <1>1, <3>5
         DEF Recycle, RecyclePanics, Collected, Unpin, StoreEpoch
    <3>6. CASE LockMutex(t) \/ LockShard(t) \/ Modify(t)
      BY <1>0, <1>1, <3>6 DEF LockMutex, LockShard, Modify
    <3> QED BY <3>1, <3>2, <3>3, <3>4, <3>5, <3>6 DEF Continue
  <2> QED BY <1>b, <2>1 DEF ThreadWaits, StoredEpoch, Drained, Frozen, Transacting
<1>2. ThreadWaits(t)'
  <2>0. ThreadWaits(t)
    BY <1>b
  <2>1. ASSUME NEW e \in {INACTIVE_EPOCH, END_OF_TIME}, StoreEpoch(t, e),
               shared'[t] = shared[t], pc[t] \notin Frozen,
               pc'[t] \in {"idle", "freeze"}
        PROVE  ThreadWaits(t)'
    <3>1. StoredEpoch(t)' = e /\ (t \notin Buffered => Drained(t)')
      BY <1>a, <2>1, StoreIsLast
    <3> QED BY <1>0, <1>a, <2>0, <2>1, <3>1 DEF ThreadWaits, Frozen
  <2>2. ASSUME UNCHANGED <<current_epoch[t], store_buffer[t], shared[t]>>,
               pc[t] \notin Frozen, pc'[t] \notin Frozen \cup {"shards"},
               pc'[t] \notin Transacting => pc[t] \notin Transacting
        PROVE  ThreadWaits(t)'
    BY <1>0, <2>0, <2>2 DEF ThreadWaits, StoredEpoch, Drained
  <2>3. CASE LoadNow(t) \/ Subscribe(t)
    BY <1>0, <2>2, <2>3 DEF LoadNow, Subscribe, Frozen, Transacting
  <2>4. CASE Unsubscribe(t)
    <3>1. CASE pc'[t] = "write" /\ UNCHANGED epochs
      BY <1>0, <2>2, <2>4, <3>1 DEF Unsubscribe, Frozen, Transacting
    <3>2. CASE pc'[t] = "freeze" /\ StoreEpoch(t, END_OF_TIME)
      BY <1>0, <2>1, <2>4, <3>2 DEF Unsubscribe, Frozen
    <3> QED BY <1>0, <2>4, <3>1, <3>2 DEF Unsubscribe
  <2>5. CASE Closure(t)
    <3>1. CASE \E c \in Cells : Borrow(t, c)
      BY <1>0, <2>2, <3>1 DEF Borrow, Frozen, Transacting
    <3>2. CASE \E cells \in SUBSET Cells \ {{}} : LockWrites(t, cells)
      BY <1>0, <2>2, <3>2 DEF LockWrites, Frozen, Transacting
    <3>3. CASE Fail(t)
      BY <1>0, <2>2, <3>3 DEF Fail, Frozen, Transacting
    <3> QED BY <2>5, <3>1, <3>2, <3>3 DEF Closure
  <2>6. CASE Drain(t)
    <3>1. /\ current_epoch'[t] = store_buffer[t] /\ store_buffer'[t] = None
          /\ ~ Drained(t) /\ pc' = pc /\ shared' = shared
      BY <1>0, <2>6 DEF Drain
    <3> QED BY <2>0, <3>1 DEF ThreadWaits, StoredEpoch, Drained
  <2>7. CASE Pin(t)
    <3>1. now[t] \in Nat /\ StoreEpoch(t, now[t]) /\ shared' = shared
      BY <2>7 DEF Pin, GcTypeOK
    <3>2. pc[t] = "pin" /\ pc'[t] = "run"
      BY <1>0, <2>7 DEF Pin
    <3>3. t \notin Buffered => Drained(t)'
      BY <3>1, StoreIsLast
    <3> QED BY <2>0, <3>1, <3>2, <3>3 DEF ThreadWaits, Frozen, Transacting
  <2>8. CASE Finish(t) \/ RecyclePanics(t)
    BY <1>0, <2>1, <2>8 DEF Finish, RecyclePanics, Unpin, Frozen
  <2>9. CASE FetchAndTick(t) \/ Publish(t)
    BY <1>0, <2>2, <2>9 DEF FetchAndTick, Publish, Frozen, Transacting
  <2>10. CASE Seal(t)
    <3>1. \/ pc'[t] = "freeze" /\ StoreEpoch(t, END_OF_TIME)
          \/ pc'[t] = "idle" /\ StoreEpoch(t, INACTIVE_EPOCH)
      BY <1>0, <2>10 DEF Seal, Unpin
    <3> QED BY <1>0, <2>1, <2>10, <3>1 DEF Seal, Frozen
  <2>11. CASE Freeze(t) \/ LockMutex(t)
    BY <1>0, <2>0, <2>11
       DEF Freeze, LockMutex, ThreadWaits, StoredEpoch, Drained, Frozen,
           Transacting
  <2>12. CASE QuiesceNext(t) \/ LocalQuiesce(t)
    <3>1. /\ UNCHANGED <<current_epoch, store_buffer, shared>>
          /\ pc[t] \in Frozen /\ pc'[t] \in Frozen
      BY <1>0, <2>12 DEF QuiesceNext, LocalQuiesce, Frozen
    <3> QED
      BY <2>0, <3>1 DEF ThreadWaits, StoredEpoch, Drained, Frozen, Transacting
  <2>13. CASE Unfreeze(t)
    <3>1. /\ UNCHANGED <<current_epoch, store_buffer>> /\ shared'[t] = FALSE
          /\ pc[t] = "quiesce" /\ pc'[t] = "collect"
      BY <1>0, <2>13 DEF Unfreeze
    <3> QED
      BY <2>0, <3>1 DEF ThreadWaits, StoredEpoch, Drained, Frozen, Transacting
  <2>14. CASE Recycle(t)
    <3>1. UNCHANGED <<current_epoch, store_buffer, shared, pc>>
      BY <2>14 DEF Recycle
    <3> QED BY <2>0, <3>1 DEF ThreadWaits, StoredEpoch, Drained
  <2>15. CASE Collected(t)
    <3>1. CASE leaving[t]
      BY <1>0, <2>2, <2>15, <3>1 DEF Collected, Frozen, Transacting
    <3>2. CASE ~ leaving[t]
      BY <1>0, <2>1, <2>15, <3>2 DEF Collected, Unpin, Frozen
    <3> QED BY <3>1, <3>2
  <2>16. CASE LockShard(t)
    <3>1. UNCHANGED <<current_epoch, store_buffer, shared, pc>>
      BY <2>16 DEF LockShard
    <3> QED BY <2>0, <3>1 DEF ThreadWaits, StoredEpoch, Drained
  <2>17. CASE Modify(t)
    <3>1. /\ current_epoch'[t] = INACTIVE_EPOCH
          /\ store_buffer' = store_buffer /\ shared' = shared
          /\ pc[t] = "shards" /\ pc'[t] \in {"gone", "idle"}
      BY <1>0, <2>17 DEF Modify
    <3> QED
      BY <1>a, <2>0, <3>1 DEF ThreadWaits, StoredEpoch, Drained, Frozen
  <2> QED
    BY <2>3, <2>4, <2>5, <2>6, <2>7, <2>8, <2>9, <2>10, <2>11, <2>12, <2>13,
       <2>14, <2>15, <2>16, <2>17 DEF Start, Continue
<1> QED BY <1>1, <1>2 DEF WaitInv

LEMMA GcInit == Init => GcInv
BY InitType, InitList, InitBags, InitWaits, InitCount, InitPin, InitCells,
   InitTrash DEF GcInv

LEMMA GcStutter == GcInv /\ UNCHANGED vars => GcInv'
<1> SUFFICES ASSUME GcInv, UNCHANGED vars PROVE GcInv'
  OBVIOUS
<1>0. UNCHANGED <<clock, epoch_lock, current_epoch, store_buffer, pc, now,
                  borrowed, writes, speculative_bag, sealed_bags, unused_bags,
                  draining, leaving, synchs, mutex, exclusive, shared, visit,
                  min_epoch, dropped>>
  BY DEF vars, memory, tx, garbage, lists, walk
<1>1. GcTypeOK' /\ ListInv'
  <2>1. GcTypeOK'
    BY <1>0 DEF GcInv, GcTypeOK
  <2>2. ListInv'
    BY <1>0 DEF GcInv, ListInv, ThreadInList, Registered
  <2> QED BY <2>1, <2>2
<1>2. ClockInv' /\ BagInv' /\ WaitInv'
  <2>1. ClockInv'
    BY <1>0 DEF GcInv, ClockInv, Ticking
  <2>2. \A t \in Threads : quiesce_epoch(t)' = quiesce_epoch(t)
    BY <1>0 DEF quiesce_epoch
  <2>3. WaitInv'
    BY <1>0 DEF GcInv, WaitInv, ThreadWaits, StoredEpoch, Drained
  <2>4. BagInv'
    BY <1>0, <2>2 DEF GcInv, BagInv, ThreadBags, next
  <2> QED BY <2>1, <2>3, <2>4
<1>3. (DestructorsPanic => BAG_COUNT = 2) => CountInv'
  BY <1>0 DEF GcInv, CountInv, ThreadCount
<1>4. ASSUME Buffered = {} PROVE PinInv' /\ CellInv' /\ TrashInv' /\ WalkInv'
  <2>1. \A c \in Cells : PublishedAt(c)' = PublishedAt(c)
    BY <1>0 DEF PublishedAt
  <2>2. PinInv'
    BY <1>0, <1>4 DEF GcInv, PinInv, ThreadPin
  <2>3. CellInv'
    <3>1. \A t \in Threads : ThreadCells(t)'
      <4> SUFFICES ASSUME NEW t \in Threads PROVE ThreadCells(t)'
        OBVIOUS
      <4>1. ThreadCells(t) /\ writes[t] \subseteq Cells
        BY <1>4 DEF GcInv, CellInv, GcTypeOK
      <4>2. Committing(t)' = Committing(t)
        BY <1>0 DEF Committing
      <4> QED BY <1>0, <2>1, <4>1, <4>2 DEF ThreadCells
    <3> QED BY <1>0, <1>4, <2>1, <3>1 DEF GcInv, CellInv
  <2>4. TrashInv'
    <3>1. \A v \in Cells \X Nat : Replaced(v)' = Replaced(v)
      BY <2>1 DEF Replaced
    <3>2. GcTypeOK /\ TrashInv
      BY <1>4 DEF GcInv
    <3>3. ASSUME NEW t \in Threads
          PROVE  SpeculativeTrash(t)' /\ SealedTrash(t)' /\ DrainedTrash(t)'
      <4>1. SpeculativeTrash(t)'
        <5>1. /\ SpeculativeTrash(t) /\ speculative_bag[t] \subseteq Cells \X Nat
              /\ writes[t] \subseteq Cells
          BY <3>2 DEF TrashInv, GcTypeOK
        <5> QED BY <1>0, <2>1, <3>1, <5>1 DEF SpeculativeTrash, HeldBefore
      <4>2. SealedTrash(t)'
        BY <1>0, <3>1, <3>2, SealedType DEF TrashInv, SealedTrash, HeldBefore
      <4>3. DrainedTrash(t)'
        <5>1. \A i \in DOMAIN draining[t] : draining[t][i].trash \subseteq Cells \X Nat
          <6>1. draining[t] \in Seq(Bag)
            BY <3>2 DEF GcTypeOK
          <6>2. \A i \in 1..Len(draining[t]) : draining[t][i] \in Bag
            BY <6>1, ElementOfSeq
          <6> QED BY <6>1, <6>2, LenProperties DEF Bag
        <5> QED BY <1>0, <3>1, <3>2, <5>1 DEF TrashInv, DrainedTrash, NobodyHolds
      <4> QED BY <4>1, <4>2, <4>3
    <3>4. (\A v \in dropped' : Replaced(v)') /\ NobodyHolds(dropped)'
      BY <1>0, <3>1, <3>2 DEF TrashInv, NobodyHolds, GcTypeOK
    <3> QED BY <3>3, <3>4 DEF TrashInv
  <2>5. WalkInv'
    <3>1. \A t \in Threads : quiesce_epoch(t)' = quiesce_epoch(t)
      BY <1>0 DEF quiesce_epoch
    <3> QED BY <1>0, <1>4, <3>1 DEF GcInv, WalkInv, WalkedPast, is_quiesced
  <2> QED BY <2>2, <2>3, <2>4, <2>5
<1> QED BY <1>1, <1>2, <1>3, <1>4 DEF GcInv

LEMMA GcStep == GcInv /\ [Next]_vars => GcInv'
<1> SUFFICES ASSUME GcInv, NEW t \in Threads,
                    Start(t) \/ Closure(t) \/ Continue(t)
             PROVE  GcInv'
  BY GcStutter DEF Next
<1>0. GcTypeOK /\ ListInv /\ ClockInv /\ BagInv /\ WaitInv
  BY DEF GcInv
<1>1. GcTypeOK' /\ ListInv' /\ ClockInv' /\ BagInv' /\ WaitInv'
  BY <1>0, TypeStep, ListStep, ClockStep, BagStep, WaitStep
<1>2. (DestructorsPanic => BAG_COUNT = 2) => CountInv'
  BY <1>0, CountStep DEF GcInv
<1>3. ASSUME Buffered = {} PROVE PinInv' /\ CellInv' /\ TrashInv' /\ WalkInv'
  <2>1. PinInv /\ CellInv /\ TrashInv /\ WalkInv
    BY <1>3 DEF GcInv
  <2>2. PinInv' /\ CellInv'
    BY <1>0, <1>3, <2>1, PinStep, CellStep
  <2>3. TrashInv'
    BY <1>0, <1>3, <2>1, SpeculativeStep, SealedStep, DrainedStep, DroppedStep
       DEF TrashInv
  <2>4. WalkInv'
    BY <1>0, <1>3, <2>1, WalkStep
  <2> QED BY <2>2, <2>3, <2>4
<1> QED BY <1>1, <1>2, <1>3 DEF GcInv

(* GcInv holds in every state, for any number of threads, cells and bags:  *)
(* who is in the list and holds which shard, what is in the bags, and what *)
(* the threads that quiesce has walked past may still hold.                *)
THEOREM GcInvariance == Spec => []GcInv
BY GcInit, GcStep, PTL DEF Spec

(* Every variable of the collector keeps its type, for any number of       *)
(* threads and cells: quiesce finds a bag to wait for, and collect never   *)
(* drains more than there is.                                              *)
THEOREM GcTypeCorrect == Spec => []GcTypeOK
<1>1. GcInv => GcTypeOK
  BY DEF GcInv
<1> QED BY <1>1, GcInvariance, PTL

(* quiesce and collect of gc/quiesce.rs and thread_garbage.rs never        *)
(* destroy a value that a closure holds a Ref to or that is still in its   *)
(* cell, provided that the store of ThreadEpoch::set is seen at once.      *)
THEOREM NothingUsedAfterFree ==
  ASSUME Buffered = {}
  PROVE  Spec => []NoUseAfterFree
<1>1. GcInv => NoUseAfterFree
  <2> SUFFICES ASSUME GcInv PROVE NoUseAfterFree
    OBVIOUS
  <2>1. GcTypeOK /\ TrashInv
    BY DEF GcInv
  <2>2. \A t \in Threads : borrowed[t] \cap dropped = {}
    BY <2>1 DEF TrashInv, NobodyHolds
  <2>3. ASSUME NEW c \in Cells, <<c, PublishedAt(c)>> \in dropped
        PROVE  FALSE
    <3>1. Replaced(<<c, PublishedAt(c)>>)
      BY <2>1, <2>3 DEF TrashInv
    <3>2. PublishedAt(c) < PublishedAt(c) /\ PublishedAt(c) \in Nat
      BY <2>1, <3>1, PublishedType DEF Replaced
    <3> QED BY <3>2
  <2> QED BY <2>2, <2>3 DEF NoUseAfterFree
<1> QED BY <1>1, GcInvariance, PTL

(* thread_garbage.rs neither loses nor gains a bag, and seal always finds  *)
(* one, for any number of them if no destructor panics, and for two if     *)
(* one may.                                                                *)
THEOREM NoBagIsLost ==
  ASSUME DestructorsPanic => BAG_COUNT = 2
  PROVE  Spec => []BagsConserved
<1>1. GcInv => BagsConserved
  <2> SUFFICES ASSUME GcInv, NEW t \in Threads
               PROVE  /\ Len(sealed_bags[t]) + Len(draining[t]) + unused_bags[t] + 1
                           = BAG_COUNT
                      /\ pc[t] = "seal" => /\ unused_bags[t] > 0
                                           /\ Len(sealed_bags[t]) < BAG_COUNT - 1
    BY DEF BagsConserved
  <2>1. ThreadCount(t) /\ ThreadBags(t)
    BY DEF GcInv, CountInv, BagInv
  <2>2. ASSUME pc[t] = "seal"
        PROVE  Len(sealed_bags[t]) < BAG_COUNT - 1 /\ draining[t] = <<>>
    BY <2>1, <2>2 DEF ThreadCount, ThreadBags, Frozen
  <2>3. ASSUME pc[t] = "seal" PROVE unused_bags[t] > 0
    <3>1. /\ Len(sealed_bags[t]) \in Nat /\ unused_bags[t] \in Int
          /\ BAG_COUNT \in Nat /\ Len(draining[t]) = 0
      BY <2>2, <2>3, SealedType, GcAssumption DEF GcInv, GcTypeOK
    <3>2. Len(sealed_bags[t]) + 0 + unused_bags[t] + 1 = BAG_COUNT
      BY <2>1, <3>1 DEF ThreadCount
    <3> DEFINE n == Len(sealed_bags[t])
               m == unused_bags[t]
    <3>3. n \in Nat /\ m \in Int /\ n + 0 + m + 1 = BAG_COUNT /\ n < BAG_COUNT - 1
      BY <2>2, <2>3, <3>1, <3>2
    <3>4. m > 0
      <4> HIDE DEF n, m
      <4> QED BY <3>1, <3>3
    <3> QED BY <3>4
  <2> QED BY <2>1, <2>2, <2>3 DEF ThreadCount
<1> QED BY <1>1, GcInvariance, PTL

(* ThreadGarbage's drop never finds garbage: unsubscribe has waited for    *)
(* the latest bag.                                                         *)
THEOREM AllIsCollected == Spec => []NothingLeftBehind
<1>1. GcInv => NothingLeftBehind
  BY DEF GcInv, BagInv, ThreadBags, NothingLeftBehind
<1> QED BY <1>1, GcInvariance, PTL

(* freeze_list.rs: the shard of one collector is enough to keep register   *)
(* and unregister away from the list it walks over.                        *)
THEOREM ListStaysFrozen == Spec => ListFrozen
<1>1. GcInv /\ [Next]_vars =>
        [synchs' # synchs => \A t \in Threads : pc[t] \notin Frozen]_vars
  BY FrozenStep DEF GcInv
<1> QED BY <1>1, GcInvariance, PTL DEF Spec, ListFrozen

(* Who waits for whom: who asks for a lock for the holder of the mutex,    *)
(* that one for a collector, and a collector for a thread that is in a     *)
(* transaction, and waits for nobody.                                      *)
LEMMA WaitsDescend ==
  ASSUME GcInv, NEW t \in Threads, NEW u \in Threads, WaitsFor(t, u)
  PROVE  \/ pc[t] \in {"freeze", "write"} /\ pc[u] = "shards"
         \/ pc[t] = "shards" /\ pc[u] \in Frozen
         \/ pc[t] = "wait" /\ \A w \in Threads : ~ WaitsFor(u, w)
<1>0. GcTypeOK /\ ListInv /\ ClockInv /\ BagInv /\ WaitInv
  BY DEF GcInv
<1>1. ThreadInList(t) /\ ThreadInList(u) /\ ThreadWaits(t) /\ ThreadWaits(u)
  BY <1>0 DEF ListInv, WaitInv
<1>2. CASE pc[t] = "freeze"
  <2>1. exclusive[t] = u
    BY <1>2 DEF WaitsFor
  <2> QED BY <1>1, <1>2, <2>1 DEF ThreadInList
<1>3. CASE pc[t] = "write"
  BY <1>1, <1>3 DEF WaitsFor, ThreadInList
<1>4. CASE pc[t] = "shards"
  BY <1>1, <1>4 DEF WaitsFor, ThreadWaits
<1>5. CASE pc[t] = "wait"
  <2>1. ~ is_quiesced(u, quiesce_epoch(t)) /\ sealed_bags[t] # <<>>
    BY <1>0, <1>5 DEF WaitsFor, BagInv, ThreadBags, Frozen
  <2>2. quiesce_epoch(t) \in Nat /\ quiesce_epoch(t) < clock
    <3>1. /\ Len(sealed_bags[t]) \in Nat /\ Len(sealed_bags[t]) > 0
          /\ DOMAIN sealed_bags[t] = 1..Len(sealed_bags[t])
          /\ \A i \in 1..Len(sealed_bags[t]) : sealed_bags[t][i].epoch \in Nat
      BY <1>0, <2>1, SealedType
    <3>2. \A i \in 1..Len(sealed_bags[t]) : sealed_bags[t][i].epoch < clock
      BY <1>0, <3>1 DEF BagInv, ThreadBags
    <3> QED BY <3>1, <3>2 DEF quiesce_epoch
  <2>3. clock < LOCK_BIT
    <3>1. clock \in Nat /\ Cardinality(Ticking) \in Nat
      BY <1>0, TickingFinite DEF GcTypeOK
    <3>2. clock + TICK_SIZE * Cardinality(Ticking) <= MaxEpoch + 1
      BY <1>0 DEF ClockInv
    <3> QED BY <3>1, <3>2, EpochConstants, GcAssumption
  <2>4. current_epoch[u] < END_OF_TIME
    <3>1. current_epoch[u] \in Nat /\ clock \in Nat /\ LOCK_BIT \in Nat
      BY <1>0, EpochConstants DEF GcTypeOK
    <3>2. ~ (current_epoch[u] > quiesce_epoch(t))
      BY <2>1 DEF is_quiesced
    <3> QED BY <2>2, <2>3, <3>1, <3>2 DEF END_OF_TIME
  <2>5. Drained(u) => pc[u] \in Transacting
    <3>1. current_epoch[u] \in Nat /\ END_OF_TIME \in Nat
      BY <1>0, EpochConstants DEF GcTypeOK
    <3>2. pc[u] \notin Transacting => StoredEpoch(u) >= END_OF_TIME
      BY <1>1 DEF ThreadWaits
    <3> QED BY <2>4, <3>1, <3>2 DEF StoredEpoch
  <2>6. ASSUME NEW w \in Threads, WaitsFor(u, w) PROVE FALSE
    <3>1. \/ pc[u] \in {"freeze", "write"} /\ Drained(u)
          \/ pc[u] \in {"wait", "shards"}
      BY <2>6 DEF WaitsFor
    <3> QED BY <1>1, <2>5, <3>1 DEF ThreadWaits, Frozen, Transacting
  <2> QED BY <1>5, <2>6
<1> QED BY <1>2, <1>3, <1>4, <1>5 DEF WaitsFor

(* The lock of the thread list in gc/quiesce/global.rs, and quiesce, never *)
(* have threads wait for each other in a circle, however many there are    *)
(* and whether their stores are seen at once or not.                       *)
THEOREM NobodyWaitsInCircles == Spec => []NoCircularWait
<1>1. GcInv => NoCircularWait
  <2> SUFFICES ASSUME GcInv, NEW S \in SUBSET Threads, S # {}
               PROVE  \E t \in S : \A u \in S : ~ WaitsFor(t, u)
    BY DEF NoCircularWait
  <2> SUFFICES ASSUME ~ \E t \in S : \A u \in S : ~ WaitsFor(t, u)
               PROVE  FALSE
    OBVIOUS
  <2>0. \A t \in S : \E u \in S : WaitsFor(t, u)
    OBVIOUS
  <2> PICK a \in S : TRUE
    OBVIOUS
  <2>1. PICK b \in S : WaitsFor(a, b)
    BY <2>0
  <2>2. PICK c \in S : WaitsFor(b, c)
    BY <2>0
  <2>3. PICK d \in S : WaitsFor(c, d)
    BY <2>0
  <2>4. PICK e \in S : WaitsFor(d, e)
    BY <2>0
  <2>5. \A t \in S : t \in Threads
    OBVIOUS
  <2>6. pc[b] \in {"shards"} \cup Frozen
    BY <2>1, <2>2, <2>5, WaitsDescend
  <2>7. pc[c] \in Frozen
    BY <2>2, <2>3, <2>5, <2>6, WaitsDescend DEF Frozen
  <2>8. pc[c] = "wait"
    BY <2>3, <2>5, <2>7, WaitsDescend DEF Frozen
  <2>9. \A w \in Threads : ~ WaitsFor(d, w)
    BY <2>3, <2>5, <2>8, WaitsDescend
  <2> QED BY <2>4, <2>5, <2>9
<1> QED BY <1>1, GcInvariance, PTL
=============================================================================
