-------------------------- MODULE StarvationProofs --------------------------
(***************************************************************************)
(* StarveInv is inductive; control is never lost and never shared.         *)
(***************************************************************************)
EXTENDS Starvation, FiniteSetTheorems, SeqLemmas

LEMMA InitStarve == Init => StarveInv
<1> SUFFICES ASSUME Init PROVE StarveInv
  OBVIOUS
<1>1. StarvationTypeOK
  <2>1. 0 \in 0..MAX_ELAPSED /\ 0 \in 0..(YIELD_LIMIT + 1)
    BY StarvationAssumption
  <2>2. queue \in Seq(Threads)
    BY EmptySeq DEF Init
  <2> QED BY <2>1, <2>2 DEF Init, StarvationTypeOK, Pcs
<1>2. QueueInv
  BY DEF Init, QueueInv, Asleep
<1> QED BY <1>1, <1>2 DEF Init, StarveInv, StarverInv, BackoffInv

LEMMA CappedType ==
  ASSUME NEW n \in Nat
  PROVE  Capped(n) \in 0..MAX_ELAPSED
BY StarvationAssumption DEF Capped

(* What unpark_filter takes off the queue: all of it, or up to the first   *)
(* thread that is starving, too.                                           *)
LEMMA UnparkedThreads ==
  ASSUME StarvationTypeOK
  PROVE  /\ unparked_threads \in 0..Len(queue)
         /\ Upgradable # {} => unparked_threads \in Upgradable
<1>1. Len(queue) \in Nat /\ DOMAIN queue = 1..Len(queue)
  BY SeqElements DEF StarvationTypeOK
<1>2. Upgradable \in SUBSET (1..Len(queue)) /\ Upgradable \in SUBSET Nat
  BY <1>1 DEF Upgradable
<1>3. CASE Upgradable = {}
  BY <1>1, <1>3 DEF unparked_threads
<1>4. CASE Upgradable # {}
  <2>1. \E i \in Upgradable : \A j \in Upgradable : i <= j
    BY <1>2, <1>4, LeastNatural
  <2>2. unparked_threads \in Upgradable
    BY <1>4, <2>1 DEF unparked_threads
  <2>3. unparked_threads \in 1..Len(queue)
    BY <1>2, <2>2
  <2> QED BY <1>1, <2>2, <2>3
<1> QED BY <1>3, <1>4

(* Those that are let go slept, and the one that is handed control is one  *)
(* of them.                                                                *)
LEMMA UnparkedAsleep ==
  ASSUME StarvationTypeOK, QueueInv
  PROVE  /\ \A u \in Unparked : u \in Threads /\ Asleep(u)
         /\ NextStarved \subseteq Unparked
         /\ \A u, v \in NextStarved : u = v
         /\ NextStarved = {} => queue_emptied
<1>1. queue \in Seq(Threads) /\ unparked_threads \in 0..Len(queue)
  BY UnparkedThreads DEF StarvationTypeOK
<1>2. /\ Len(queue) \in Nat /\ DOMAIN queue = 1..Len(queue)
      /\ \A i \in DOMAIN queue : queue[i] \in Threads
  BY <1>1, SeqElements
<1>3. \A u \in Unparked : u \in Threads /\ Asleep(u)
  BY <1>1, <1>2 DEF Unparked, QueueInv
<1>4. ASSUME Upgradable # {}
      PROVE  NextStarved = {queue[unparked_threads]} /\ NextStarved \subseteq Unparked
  <2>1. unparked_threads \in 1..Len(queue)
    BY <1>2, <1>4, UnparkedThreads DEF Upgradable
  <2>2. unparked_threads \in 1..unparked_threads
    BY <1>2, <2>1
  <2> QED BY <1>4, <2>2 DEF NextStarved, Unparked
<1>5. Upgradable = {} => NextStarved = {} /\ queue_emptied
  BY DEF NextStarved, queue_emptied, unparked_threads
<1> QED BY <1>3, <1>4, <1>5

-----------------------------------------------------------------------------
LEMMA TypeStep ==
  ASSUME StarveInv, NEW t \in Threads, Begin(t) \/ Continue(t)
  PROVE  StarvationTypeOK'
<1> USE DEF Goto, Repin, state, progress, ticks
<1>0. /\ StarvationTypeOK
      /\ SPIN_LIMIT \in Nat /\ YIELD_LIMIT \in Nat /\ SPIN_LIMIT < YIELD_LIMIT
      /\ MAX_ELAPSED \in Nat
  BY StarvationAssumption DEF StarveInv
<1>e. /\ elapsed \in [Threads -> 0..MAX_ELAPSED]
      /\ elapsed[t] \in 0..MAX_ELAPSED /\ since_pin[t] \in 0..MAX_ELAPSED
      /\ 0 \in 0..MAX_ELAPSED /\ 0 \in 0..(YIELD_LIMIT + 1)
  BY <1>0 DEF StarvationTypeOK
<1>1. CASE \/ Begin(t) \/ Starve(t) \/ ParkInvalid(t) \/ WaitForStarvers(t)
           \/ StarversGone(t) \/ Commit(t) \/ FinishNoWrites(t)
  BY <1>0, <1>1 DEF StarvationTypeOK, Begin, Starve, ParkInvalid,
     WaitForStarvers, StarversGone, Commit, FinishNoWrites, Pcs
<1>2. CASE BackOff(t)
  <2>1. backoff' \in [Threads -> 0..(YIELD_LIMIT + 1)]
    <3>1. backoff[t] \in 0..YIELD_LIMIT
      BY <1>0, <1>2 DEF BackOff, backs_off, StarvationTypeOK
    <3>2. backoff[t] + 1 \in 0..(YIELD_LIMIT + 1) /\ SPIN_LIMIT + 1 \in 0..(YIELD_LIMIT + 1)
      BY <1>0, <3>1
    <3> QED BY <1>0, <1>2, <3>2 DEF BackOff, StarvationTypeOK
  <2>2. elapsed' \in [Threads -> 0..MAX_ELAPSED] /\ elapsed'[t] \in 0..MAX_ELAPSED
    BY <1>e, <1>2 DEF BackOff
  <2> QED BY <1>0, <1>e, <1>2, <2>1, <2>2 DEF BackOff, StarvationTypeOK, Pcs
<1>3. CASE StarverFails(t) \/ StarveLock(t)
  <2>1. /\ elapsed' = elapsed
        /\ pin_elapsed' = [pin_elapsed EXCEPT ![t] = elapsed[t]]
        /\ since_pin' = [since_pin EXCEPT ![t] = 0]
        /\ pc' = [pc EXCEPT ![t] = "run"]
        /\ UNCHANGED <<failed, backoff, queue, parked_bit>>
    BY <1>3 DEF StarverFails, StarveLock
  <2>2. /\ pin_elapsed' \in [Threads -> 0..MAX_ELAPSED]
        /\ since_pin' \in [Threads -> 0..MAX_ELAPSED]
        /\ pc' \in [Threads -> Pcs]
    BY <1>0, <1>e, <2>1 DEF StarvationTypeOK, Pcs
  <2>3. locked_bit' \in BOOLEAN /\ starving' \in [Threads -> BOOLEAN]
    BY <1>0, <1>3 DEF StarverFails, StarveLock, StarvationTypeOK
  <2> QED BY <1>0, <2>1, <2>2, <2>3 DEF StarvationTypeOK
<1>4. CASE SetParkedBit(t)
  BY <1>0, <1>4 DEF SetParkedBit, StarvationTypeOK, Pcs
<1>5. CASE Park(t)
  <2>1. queue' \in Seq(Threads)
    BY <1>0, <1>5, AppendProperties DEF Park, StarvationTypeOK
  <2> QED BY <1>0, <1>5, <2>1 DEF Park, StarvationTypeOK, Pcs
<1>6. CASE Tick(t)
  <2>1. since_pin' \in [Threads -> 0..MAX_ELAPSED]
    <3>1. \A u \in Threads : since_pin[u] + 1 \in Nat
      BY <1>0 DEF StarvationTypeOK
    <3> QED BY <1>e, <1>6, <3>1, CappedType DEF Tick
  <2>2. elapsed' \in [Threads -> 0..MAX_ELAPSED]
    <3>1. \A u \in Threads : elapsed[u] + 1 \in Nat
      BY <1>0 DEF StarvationTypeOK
    <3> QED BY <1>e, <1>6, <3>1, CappedType DEF Tick
  <2> QED BY <1>0, <1>6, <2>1, <2>2 DEF Tick, StarvationTypeOK, Pcs
<1>7. CASE Progressed(t) \/ StarveUnlock(t)
  <2>1. /\ UNCHANGED <<queue, parked_bit>> /\ pc' = [pc EXCEPT ![t] = "idle"]
        /\ failed' = [failed EXCEPT ![t] = FALSE]
        /\ backoff' = [backoff EXCEPT ![t] = 0]
        /\ elapsed' = [elapsed EXCEPT ![t] = 0]
        /\ pin_elapsed' = [pin_elapsed EXCEPT ![t] = 0]
        /\ since_pin' = [since_pin EXCEPT ![t] = 0]
    BY <1>7 DEF Progressed, StarveUnlock, Reset
  <2>2. locked_bit' \in BOOLEAN /\ starving' \in [Threads -> BOOLEAN]
    BY <1>0, <1>7 DEF Progressed, StarveUnlock, StarvationTypeOK
  <2>3. failed' \in [Threads -> BOOLEAN] /\ pc' \in [Threads -> Pcs]
    BY <1>0, <2>1 DEF StarvationTypeOK, Pcs
  <2>4. /\ backoff' \in [Threads -> 0..(YIELD_LIMIT + 1)]
        /\ elapsed' \in [Threads -> 0..MAX_ELAPSED]
        /\ pin_elapsed' \in [Threads -> 0..MAX_ELAPSED]
        /\ since_pin' \in [Threads -> 0..MAX_ELAPSED]
    BY <1>0, <1>e, <2>1 DEF StarvationTypeOK
  <2> QED BY <1>0, <2>1, <2>2, <2>3, <2>4 DEF StarvationTypeOK
<1>8. CASE StarveUnlockSlow(t)
  <2>1. queue' \in Seq(Threads)
    <3>1. queue \in Seq(Threads) /\ unparked_threads \in 0..Len(queue)
      BY <1>0, UnparkedThreads DEF StarvationTypeOK
    <3> QED BY <1>8, <3>1, SeqSuffix DEF StarveUnlockSlow
  <2>2. pc' \in [Threads -> Pcs]
    <3>1. \A u \in Threads : AfterPark(u) \in {"run", "ready", "wait"}
      BY DEF AfterPark
    <3> QED BY <1>0, <1>8, <3>1 DEF StarveUnlockSlow, StarvationTypeOK, Pcs
  <2>3. starving' \in [Threads -> BOOLEAN]
    BY <1>0, <1>8 DEF StarveUnlockSlow, StarvationTypeOK
  <2>4. locked_bit' \in BOOLEAN /\ parked_bit' \in BOOLEAN
    BY <1>0, <1>8 DEF StarveUnlockSlow, StarvationTypeOK
  <2>5. /\ pin_elapsed' \in [Threads -> 0..MAX_ELAPSED]
        /\ since_pin' \in [Threads -> 0..MAX_ELAPSED]
    BY <1>0, <1>e, <1>8 DEF StarveUnlockSlow, StarvationTypeOK
  <2>6. /\ failed' \in [Threads -> BOOLEAN]
        /\ backoff' \in [Threads -> 0..(YIELD_LIMIT + 1)]
        /\ elapsed' \in [Threads -> 0..MAX_ELAPSED]
    BY <1>0, <1>e, <1>8 DEF StarveUnlockSlow, StarvationTypeOK
  <2> QED BY <2>1, <2>2, <2>3, <2>4, <2>5, <2>6 DEF StarvationTypeOK
<1> QED
  BY <1>1, <1>2, <1>3, <1>4, <1>5, <1>6, <1>7, <1>8 DEF Continue

-----------------------------------------------------------------------------
(* What a step of one thread does to the others.                           *)
LEMMA OthersKept ==
  ASSUME StarvationTypeOK, NEW t \in Threads, Begin(t) \/ Continue(t),
         NEW u \in Threads, u # t
  PROVE  /\ backoff'[u] = backoff[u] /\ failed'[u] = failed[u]
         /\ ~ StarveUnlockSlow(t) => pc'[u] = pc[u] /\ starving'[u] = starving[u]
<1> USE DEF Goto, Repin, progress, Reset
<1>0. /\ pc \in [Threads -> Pcs] /\ starving \in [Threads -> BOOLEAN]
      /\ failed \in [Threads -> BOOLEAN]
      /\ backoff \in [Threads -> 0..(YIELD_LIMIT + 1)]
  BY DEF StarvationTypeOK
<1>1. CASE \/ Begin(t) \/ Starve(t) \/ ParkInvalid(t) \/ WaitForStarvers(t)
           \/ StarversGone(t) \/ Commit(t) \/ FinishNoWrites(t) \/ Tick(t)
           \/ StarverFails(t) \/ SetParkedBit(t) \/ Park(t)
  BY <1>0, <1>1 DEF Begin, Starve, ParkInvalid, WaitForStarvers, StarversGone,
     Commit, FinishNoWrites, Tick, StarverFails, SetParkedBit, Park
<1>2. CASE BackOff(t) \/ StarveLock(t) \/ Progressed(t) \/ StarveUnlock(t)
  BY <1>0, <1>2 DEF BackOff, StarveLock, Progressed, StarveUnlock
<1>3. CASE StarveUnlockSlow(t)
  BY <1>0, <1>3 DEF StarveUnlockSlow
<1> QED BY <1>1, <1>2, <1>3 DEF Continue

LEMMA QueueStep ==
  ASSUME StarveInv, NEW t \in Threads, Begin(t) \/ Continue(t)
  PROVE  QueueInv'
<1> USE DEF Goto, state
<1>0. /\ StarvationTypeOK /\ QueueInv /\ pc \in [Threads -> Pcs]
      /\ queue \in Seq(Threads)
  BY DEF StarveInv, StarvationTypeOK
<1>s. /\ Len(queue) \in Nat /\ DOMAIN queue = 1..Len(queue)
      /\ \A i \in DOMAIN queue : queue[i] \in Threads
  BY <1>0, SeqElements
<1>1. CASE Park(t)
  <2>1. queue' = Append(queue, t) /\ ~ Asleep(t) /\ Asleep(t)'
    BY <1>0, <1>1 DEF Park, Asleep
  <2>2. \A u \in Threads : u # t => Asleep(u)' = Asleep(u)
    BY <1>0, <1>1 DEF Park, Asleep
  <2>3. /\ DOMAIN queue' = 1..(Len(queue) + 1)
        /\ \A i \in DOMAIN queue : i \in DOMAIN queue' /\ queue'[i] = queue[i]
        /\ Len(queue) + 1 \in DOMAIN queue' /\ queue'[Len(queue) + 1] = t
        /\ \A i \in DOMAIN queue' : i \in DOMAIN queue \/ i = Len(queue) + 1
    BY <1>0, <1>s, <2>1, SeqAppended
  <2>4. \A i \in DOMAIN queue : queue[i] # t
    BY <1>0, <2>1 DEF QueueInv
  <2> QED BY <1>0, <2>1, <2>2, <2>3, <2>4 DEF QueueInv
<1>2. CASE StarveUnlockSlow(t)
  <2> DEFINE k == unparked_threads
  <2>1. /\ pc[t] = "progress" /\ pc'[t] = "idle"
        /\ queue' = SubSeq(queue, k + 1, Len(queue))
        /\ \A u \in Threads \ {t} :
             pc'[u] = IF u \in Unparked THEN AfterPark(u) ELSE pc[u]
    BY <1>0, <1>2 DEF StarveUnlockSlow
  <2>2. k \in 0..Len(queue)
    BY <1>0, UnparkedThreads
  <2>3. /\ DOMAIN queue' = 1..(Len(queue) - k)
        /\ \A i \in 1..(Len(queue) - k) :
             k + i \in DOMAIN queue /\ queue'[i] = queue[k + i]
    <3> HIDE DEF k
    <3> QED BY <1>0, <2>1, <2>2, SeqSuffix
  <2>4. \A i, j \in DOMAIN queue' : queue'[i] = queue'[j] => i = j
    <3> SUFFICES ASSUME NEW i \in DOMAIN queue', NEW j \in DOMAIN queue',
                        queue'[i] = queue'[j]
                 PROVE  i = j
      OBVIOUS
    <3>1. k + i = k + j
      BY <1>0, <2>3 DEF QueueInv
    <3> HIDE DEF k
    <3> QED BY <1>s, <2>2, <2>3, <3>1
  <2>5. ~ Asleep(t) /\ ~ Asleep(t)'
    BY <2>1 DEF Asleep
  <2>6. \A u \in Threads \ {t} : Asleep(u)' <=> Asleep(u) /\ u \notin Unparked
    BY <2>1 DEF AfterPark, Asleep
  <2>7. \A j \in DOMAIN queue : j <= k => queue[j] \in Unparked
    BY <1>s, <2>2 DEF Unparked
  <2>8. \A i \in DOMAIN queue' : queue'[i] \notin Unparked
    <3> SUFFICES ASSUME NEW i \in DOMAIN queue', NEW j \in 1..k,
                        queue'[i] = queue[j]
                 PROVE  FALSE
      BY DEF Unparked
    <3>1. j \in DOMAIN queue
      BY <1>s, <2>2
    <3>2. k + i = j
      BY <1>0, <2>3, <3>1 DEF QueueInv
    <3> HIDE DEF k
    <3> QED BY <1>s, <2>2, <2>3, <3>2
  <2>9. ASSUME NEW u \in Threads
        PROVE  Asleep(u)' <=> \E i \in DOMAIN queue' : queue'[i] = u
    <3>1. ASSUME NEW i \in DOMAIN queue', queue'[i] = u
          PROVE  Asleep(u)'
      <4>1. Asleep(u) /\ u \notin Unparked
        BY <1>0, <2>3, <2>8, <3>1 DEF QueueInv
      <4> QED BY <2>5, <2>6, <4>1
    <3>2. ASSUME Asleep(u)'
          PROVE  \E i \in DOMAIN queue' : queue'[i] = u
      <4>1. u # t /\ Asleep(u) /\ u \notin Unparked
        BY <2>5, <2>6, <3>2
      <4>2. PICK j \in DOMAIN queue : queue[j] = u
        BY <1>0, <4>1 DEF QueueInv
      <4>3. j > k
        BY <1>s, <2>2, <2>7, <4>1, <4>2
      <4> HIDE DEF k
      <4>4. j - k \in 1..(Len(queue) - k) /\ k + (j - k) = j
        BY <1>s, <2>2, <4>3
      <4> QED BY <2>3, <4>2, <4>4
    <3> QED BY <3>1, <3>2
  <2> QED BY <2>4, <2>9 DEF QueueInv
<1>3. CASE ~ Park(t) /\ ~ StarveUnlockSlow(t)
  <2>1. queue' = queue
    BY <1>3 DEF Begin, Continue, BackOff, Starve, StarverFails, StarveLock,
       SetParkedBit, ParkInvalid, WaitForStarvers, StarversGone, Commit, Tick,
       FinishNoWrites, Progressed, StarveUnlock
  <2>2. ~ Asleep(t) /\ ~ Asleep(t)'
    BY <1>0, <1>3 DEF Begin, Continue, BackOff, Starve, StarverFails, StarveLock,
       SetParkedBit, ParkInvalid, WaitForStarvers, StarversGone, Commit, Tick,
       FinishNoWrites, Progressed, StarveUnlock, Asleep, Repin
  <2>3. \A u \in Threads : u # t => Asleep(u)' = Asleep(u)
    BY <1>0, <1>3, OthersKept DEF Asleep
  <2> QED BY <1>0, <2>1, <2>2, <2>3 DEF QueueInv
<1> QED BY <1>1, <1>2, <1>3

LEMMA StarverStep ==
  ASSUME StarveInv, NEW t \in Threads, Begin(t) \/ Continue(t)
  PROVE  StarverInv'
<1> USE DEF Goto, state, progress
<1>0. /\ StarvationTypeOK /\ StarverInv /\ QueueInv
      /\ pc \in [Threads -> Pcs] /\ starving \in [Threads -> BOOLEAN]
      /\ locked_bit \in BOOLEAN /\ parked_bit \in BOOLEAN
      /\ queue \in Seq(Threads)
  BY DEF StarveInv, StarvationTypeOK
<1>1. CASE StarveLock(t)
  <2>1. /\ locked_bit' /\ ~ locked_bit /\ ~ parked_bit /\ queue' = queue
        /\ parked_bit' = parked_bit
        /\ starving' = [starving EXCEPT ![t] = TRUE] /\ pc'[t] = "run"
    BY <1>0, <1>1 DEF StarveLock, Repin
  <2>2. \A u \in Threads : starving'[u] <=> u = t
    BY <1>0, <2>1 DEF StarverInv
  <2> QED BY <1>0, <2>1, <2>2 DEF StarverInv
<1>2. CASE StarveUnlock(t)
  <2>1. /\ ~ locked_bit' /\ ~ parked_bit /\ queue' = queue
        /\ parked_bit' = parked_bit /\ starving[t]
        /\ starving' = [starving EXCEPT ![t] = FALSE]
    BY <1>2 DEF StarveUnlock
  <2>2. \A u \in Threads : ~ starving'[u]
    BY <1>0, <2>1 DEF StarverInv
  <2> QED BY <1>0, <2>1, <2>2 DEF StarverInv
<1>3. CASE StarveUnlockSlow(t)
  <2>1. /\ starving[t] /\ parked_bit /\ pc[t] = "progress"
        /\ \A u \in Threads :
             starving'[u] = IF u = t THEN FALSE ELSE starving[u] \/ u \in NextStarved
        /\ \A u \in Threads \ {t} :
             pc'[u] = IF u \in Unparked THEN AfterPark(u) ELSE pc[u]
    BY <1>0, <1>3 DEF StarveUnlockSlow
  <2>2. \A u \in Threads : starving'[u] <=> u # t /\ u \in NextStarved
    BY <1>0, <2>1 DEF StarverInv
  <2>3. /\ NextStarved \subseteq Unparked /\ \A u, v \in NextStarved : u = v
        /\ \A u \in Unparked : u \in Threads /\ Asleep(u)
        /\ NextStarved = {} => queue_emptied
    BY <1>0, UnparkedAsleep
  <2>4. t \notin NextStarved
    BY <2>1, <2>3 DEF Asleep
  <2>5. \A u \in NextStarved : pc'[u] \in {"run", "ready"}
    <3> SUFFICES ASSUME NEW u \in NextStarved PROVE pc'[u] \in {"run", "ready"}
      OBVIOUS
    <3>1. pc'[u] = AfterPark(u) /\ Asleep(u) /\ NextStarved \subseteq {u}
      BY <2>1, <2>3, <2>4
    <3> QED BY <3>1 DEF AfterPark, Asleep
  <2>6. locked_bit' <=> NextStarved # {}
    <3>1. locked_bit
      BY <1>0, <2>1 DEF StarverInv
    <3> QED BY <1>3, <2>3, <3>1 DEF StarveUnlockSlow
  <2>7. parked_bit' => locked_bit'
    BY <1>0, <1>3, <2>1 DEF StarveUnlockSlow, StarverInv
  <2>8. queue' # <<>> => parked_bit'
    <3>1. CASE queue_emptied
      <4>1. unparked_threads = Len(queue) /\ unparked_threads \in 0..Len(queue)
        BY <1>0, <3>1, UnparkedThreads DEF queue_emptied
      <4>2. Len(queue) \in Nat
        BY <1>0, SeqElements
      <4>3. /\ queue' \in Seq(Threads)
            /\ Len(queue') = Len(queue) - unparked_threads
        BY <1>0, <1>3, <4>1, SeqSuffix DEF StarveUnlockSlow
      <4>4. Len(queue') = 0
        BY <4>1, <4>2, <4>3
      <4> QED BY <4>3, <4>4, SeqElements
    <3>2. CASE ~ queue_emptied
      BY <1>3, <2>1, <3>2 DEF StarveUnlockSlow
    <3> QED BY <3>1, <3>2
  <2>9. NextStarved \subseteq Threads
    BY <2>3
  <2> QED BY <2>2, <2>3, <2>4, <2>5, <2>6, <2>7, <2>8, <2>9 DEF StarverInv
<1>4. CASE SetParkedBit(t)
  <2>1. /\ parked_bit' /\ UNCHANGED <<locked_bit, queue, starving>>
        /\ locked_bit \/ parked_bit
        /\ pc[t] \in {"starve", "wait"}
    BY <1>4 DEF SetParkedBit
  <2>2. \A u \in Threads : u # t => pc'[u] = pc[u]
    BY <1>0, <1>4 DEF SetParkedBit
  <2>3. ~ starving[t]
    BY <1>0, <2>1 DEF StarverInv
  <2> QED BY <1>0, <2>1, <2>2, <2>3 DEF StarverInv
<1>5. CASE Park(t)
  <2>1. /\ parked_bit /\ UNCHANGED <<locked_bit, parked_bit, starving>>
        /\ pc[t] \in {"starve_park", "wait_park"}
    BY <1>5 DEF Park, validate
  <2>2. \A u \in Threads : u # t => pc'[u] = pc[u]
    BY <1>0, <1>5 DEF Park
  <2>3. ~ starving[t]
    BY <1>0, <2>1 DEF StarverInv
  <2> QED BY <1>0, <2>1, <2>2, <2>3 DEF StarverInv
<1>6. CASE \/ Begin(t) \/ BackOff(t) \/ Starve(t) \/ StarverFails(t)
           \/ ParkInvalid(t) \/ WaitForStarvers(t) \/ StarversGone(t)
           \/ Commit(t) \/ Tick(t) \/ FinishNoWrites(t) \/ Progressed(t)
  <2>1. UNCHANGED <<locked_bit, parked_bit, queue, starving>>
    BY <1>6 DEF Begin, BackOff, Starve, StarverFails, ParkInvalid,
       WaitForStarvers, StarversGone, Commit, Tick, FinishNoWrites, Progressed
  <2>2. \A u \in Threads : u # t => pc'[u] = pc[u]
    BY <1>0, <1>6 DEF Begin, BackOff, Starve, StarverFails, ParkInvalid,
       WaitForStarvers, StarversGone, Commit, Tick, FinishNoWrites, Progressed,
       Repin
  <2>3. starving[t] => pc'[t] \in {"run", "ready", "commit", "progress"}
    <3>1. starving[t] => pc[t] \in {"run", "ready", "commit", "progress"}
      BY <1>0 DEF StarverInv
    <3> QED
      BY <1>0, <1>6, <3>1 DEF Begin, BackOff, Starve, StarverFails, ParkInvalid,
         WaitForStarvers, StarversGone, Commit, Tick, FinishNoWrites, Progressed,
         Repin
  <2> QED BY <1>0, <2>1, <2>2, <2>3 DEF StarverInv
<1> QED BY <1>1, <1>2, <1>3, <1>4, <1>5, <1>6 DEF Continue

LEMMA BackoffStep ==
  ASSUME StarveInv, NEW t \in Threads, Begin(t) \/ Continue(t)
  PROVE  BackoffInv'
<1> USE DEF Goto, progress
<1> DEFINE Wants(l) == l \in {"starve", "starve_park", "starve_parked"}
<1>0. /\ StarvationTypeOK /\ BackoffInv /\ QueueInv
      /\ pc \in [Threads -> Pcs] /\ failed \in [Threads -> BOOLEAN]
      /\ backoff \in [Threads -> 0..(YIELD_LIMIT + 1)]
      /\ YIELD_LIMIT \in Nat /\ backoff[t] \in Nat
  BY StarvationAssumption DEF StarveInv, StarvationTypeOK
<1>1. ASSUME NEW u \in Threads, u # t
      PROVE  /\ backoff'[u] > 0 => failed'[u]
             /\ Wants(pc'[u]) => backoff'[u] > YIELD_LIMIT
  <2>1. backoff'[u] = backoff[u] /\ failed'[u] = failed[u]
    BY <1>0, <1>1, OthersKept
  <2>2. Wants(pc'[u]) => Wants(pc[u])
    <3>1. CASE StarveUnlockSlow(t)
      BY <1>0, <1>1, <3>1 DEF StarveUnlockSlow, AfterPark
    <3>2. CASE ~ StarveUnlockSlow(t)
      BY <1>0, <1>1, <3>2, OthersKept
    <3> QED BY <3>1, <3>2
  <2> QED BY <1>0, <2>1, <2>2 DEF BackoffInv
<1>2. /\ backoff'[t] > 0 => failed'[t]
      /\ Wants(pc'[t]) => backoff'[t] > YIELD_LIMIT
  <2>b. /\ backoff[t] > 0 => failed[t]
        /\ Wants(pc[t]) => backoff[t] > YIELD_LIMIT
    BY <1>0 DEF BackoffInv
  <2>1. CASE BackOff(t)
    BY <1>0, <2>1 DEF BackOff, Repin
  <2>2. CASE Starve(t)
    BY <1>0, <2>b, <2>2 DEF Starve, backs_off
  <2>3. CASE Progressed(t) \/ StarveUnlock(t) \/ StarveUnlockSlow(t)
    <3>1. backoff'[t] = 0 /\ pc'[t] = "idle"
      BY <1>0, <2>3 DEF Progressed, StarveUnlock, StarveUnlockSlow, Reset
    <3> QED BY <3>1
  <2>4. CASE \/ Begin(t) \/ StarverFails(t) \/ StarveLock(t) \/ SetParkedBit(t)
             \/ Park(t) \/ ParkInvalid(t) \/ WaitForStarvers(t)
             \/ StarversGone(t) \/ Commit(t) \/ Tick(t) \/ FinishNoWrites(t)
    <3>1. UNCHANGED <<backoff, failed>> /\ (Wants(pc'[t]) => Wants(pc[t]))
      BY <1>0, <2>4 DEF Begin, StarverFails, StarveLock, SetParkedBit, Park,
         ParkInvalid, WaitForStarvers, StarversGone, Commit, Tick,
         FinishNoWrites, Repin
    <3> QED BY <2>b, <3>1
  <2> QED BY <2>1, <2>2, <2>3, <2>4 DEF Continue
<1> QED BY <1>1, <1>2 DEF BackoffInv

LEMMA StarveStutter == StarveInv /\ UNCHANGED vars => StarveInv'
BY DEF vars, state, progress, ticks, StarveInv, StarvationTypeOK, QueueInv,
   Asleep, StarverInv, BackoffInv

(* The invariant behind starve_lock, wait_for_starvers and starve_unlock,  *)
(* for any number of threads and any limits of the backoff.                *)
THEOREM StarveInvariance == Spec => []StarveInv
<1>1. StarveInv /\ [Next]_vars => StarveInv'
  BY StarveStutter, TypeStep, QueueStep, StarverStep, BackoffStep
     DEF Next, StarveInv
<1> QED BY <1>1, InitStarve, PTL DEF Spec

(* Every variable keeps its type; the backoff does not pass its limit.     *)
THEOREM StarvationTypes == Spec => []StarvationTypeOK
<1>1. StarveInv => StarvationTypeOK
  BY DEF StarveInv
<1> QED BY <1>1, StarveInvariance, PTL

(* starvation.rs: LOCKED_BIT stands for exactly one starver, and whoever   *)
(* sleeps is in the queue once and has a starver that sees PARKED_BIT.     *)
THEOREM ControlIsAccounted == Spec => []ControlAccounted
<1>1. StarveInv => ControlAccounted
  <2> SUFFICES ASSUME StarveInv PROVE ControlAccounted
    OBVIOUS
  <2>0. StarvationTypeOK /\ QueueInv /\ StarverInv
    BY DEF StarveInv
  <2>1. Cardinality(Starvers) = IF locked_bit THEN 1 ELSE 0
    <3>1. CASE locked_bit
      <4>1. PICK t \in Threads : starving[t]
        BY <2>0, <3>1 DEF StarverInv
      <4>2. Starvers = {t}
        BY <2>0, <4>1 DEF StarverInv, Starvers
      <4> QED BY <3>1, <4>2, FS_Singleton
    <3>2. CASE ~ locked_bit
      <4>1. Starvers = {}
        BY <2>0, <3>2 DEF StarverInv, Starvers
      <4> QED BY <3>2, <4>1, FS_EmptySet
    <3> QED BY <3>1, <3>2
  <2>2. \A t \in Threads : Asleep(t) =>
          Cardinality({i \in DOMAIN queue : queue[i] = t}) = 1
    <3> SUFFICES ASSUME NEW t \in Threads, Asleep(t)
                 PROVE  Cardinality({i \in DOMAIN queue : queue[i] = t}) = 1
      OBVIOUS
    <3>1. PICK j \in DOMAIN queue : queue[j] = t
      BY <2>0 DEF QueueInv
    <3>2. {i \in DOMAIN queue : queue[i] = t} = {j}
      BY <2>0, <3>1 DEF QueueInv
    <3> QED BY <3>2, FS_Singleton
  <2> QED BY <2>0, <2>1, <2>2 DEF ControlAccounted, StarverInv, Asleep
<1> QED BY <1>1, StarveInvariance, PTL

(* starve_lock_slow's "unfairly unparking a starving thread" is never      *)
(* reached: whoever sleeps there passes should_upgrade.                    *)
THEOREM HandoffIsFair == Spec => []FairHandoff
<1>1. StarveInv => FairHandoff
  <2> SUFFICES ASSUME StarveInv, NEW i \in DOMAIN queue,
                      pc[queue[i]] = "starve_parked"
               PROVE  should_upgrade(queue[i])
    BY DEF FairHandoff
  <2>1. queue[i] \in Threads
    BY SeqElements DEF StarveInv, StarvationTypeOK
  <2>2. backoff[queue[i]] > YIELD_LIMIT /\ backoff[queue[i]] \in Nat
        /\ YIELD_LIMIT \in Nat
    BY <2>1, StarvationAssumption DEF StarveInv, BackoffInv, StarvationTypeOK
  <2>3. failed[queue[i]] /\ backoff[queue[i]] >= YIELD_LIMIT
    BY <2>1, <2>2 DEF StarveInv, BackoffInv
  <2> QED BY <2>3 DEF should_upgrade
<1> QED BY <1>1, StarveInvariance, PTL
=============================================================================
