-------------------------- MODULE ThreadKeyProofs ---------------------------
(***************************************************************************)
(* KeyInv is inductive: the reference counts are right, nobody uses the    *)
(* logs of a Thread twice at a time, and nobody waits for its own pin, but *)
(* for what was committed inside of it.                                    *)
(***************************************************************************)
EXTENDS ThreadKey, FiniteSetTheorems, SeqLemmas

Kinds == {"tx", "quiesce", "collect"}

Frames == [kind : Kinds, impl : Impls]

(* Of the constants of Epoch, this is all that matters here.               *)
LEMMA EpochFacts ==
  /\ LOCK_BIT \in Nat /\ LOCK_BIT > 3 /\ FIRST = 3
  /\ END_OF_TIME \in Nat \ {0} /\ END_OF_TIME = LOCK_BIT - 1
  /\ INACTIVE_EPOCH \in Nat \ {0} /\ INACTIVE_EPOCH > LOCK_BIT
  /\ \A e \in Nat : e < MaxEpoch => next(e) \in Nat /\ e < next(e)
                                    /\ next(e) < LOCK_BIT /\ e < END_OF_TIME
BY LockBitAssumption, ThreadKeyAssumption
DEF FIRST, TICK_SIZE, UNPARK_BIT, END_OF_TIME, INACTIVE_EPOCH, next

(* The stack.                                                              *)
LEMMA FramesType ==
  ASSUME ThreadKeyTypeOK
  PROVE  /\ frames \in Seq(Frames) /\ Len(frames) \in Nat
         /\ DOMAIN frames = 1..Len(frames)
         /\ \A n \in DOMAIN frames : /\ frames[n].kind \in Kinds
                                     /\ frames[n].impl \in Impls
         /\ frames = <<>> => DOMAIN frames = {}
         /\ frames # <<>> => Len(frames) \in DOMAIN frames
<1>1. frames \in Seq(Frames)
  BY DEF ThreadKeyTypeOK, Frames, Kinds
<1>2. /\ Len(frames) \in Nat /\ DOMAIN frames = 1..Len(frames)
      /\ \A n \in DOMAIN frames : frames[n] \in Frames
      /\ frames = <<>> <=> Len(frames) = 0
  BY <1>1, SeqElements
<1> QED BY <1>1, <1>2 DEF Frames

LEMMA PushedFrames ==
  ASSUME ThreadKeyTypeOK, NEW k \in Kinds, NEW i \in Impls,
         frames' = Pushed(k, i)
  PROVE  /\ frames' \in Seq(Frames)
         /\ \A n \in DOMAIN frames : n \in DOMAIN frames' /\ frames'[n] = frames[n]
         /\ \E m \in DOMAIN frames' :
              /\ m \notin DOMAIN frames
              /\ frames'[m].kind = k /\ frames'[m].impl = i
              /\ \A n \in DOMAIN frames' : n \in DOMAIN frames \/ n = m
<1> DEFINE f == [kind |-> k, impl |-> i]
           m == Len(frames) + 1
<1>1. f \in Frames /\ f.kind = k /\ f.impl = i
  BY DEF Frames
<1>2. frames \in Seq(Frames) /\ Len(frames) \in Nat /\ DOMAIN frames = 1..Len(frames)
  BY FramesType
<1>3. frames' = Append(frames, f)
  BY DEF Pushed
<1> HIDE DEF f
<1>4. /\ frames' \in Seq(Frames)
      /\ DOMAIN frames' = 1..(Len(frames) + 1)
      /\ \A n \in 1..Len(frames) : frames'[n] = frames[n]
      /\ frames'[m] = f
      /\ \A n \in DOMAIN frames' : n \in DOMAIN frames \/ n = m
  BY <1>1, <1>2, <1>3, SeqAppended
<1>5. m \in DOMAIN frames' /\ m \notin DOMAIN frames
  BY <1>2, <1>4
<1>6. \A n \in DOMAIN frames : n \in DOMAIN frames'
  BY <1>2, <1>4
<1> QED BY <1>1, <1>2, <1>4, <1>5, <1>6

LEMMA PoppedFrames ==
  ASSUME ThreadKeyTypeOK, frames # <<>>, frames' = Popped
  PROVE  /\ frames' \in Seq(Frames)
         /\ \A n \in DOMAIN frames' : /\ n \in DOMAIN frames
                                      /\ n # Len(frames)
                                      /\ frames'[n] = frames[n]
         /\ \A n \in DOMAIN frames : n \in DOMAIN frames' \/ n = Len(frames)
<1>1. /\ frames \in Seq(Frames) /\ Len(frames) \in Nat
      /\ DOMAIN frames = 1..Len(frames) /\ Len(frames) \in DOMAIN frames
  BY FramesType
<1>2. Len(frames) - 1 \in 0..Len(frames)
  BY <1>1
<1>3. /\ frames' \in Seq(Frames) /\ DOMAIN frames' = 1..(Len(frames) - 1)
      /\ \A n \in 1..(Len(frames) - 1) :
           n \in DOMAIN frames /\ frames'[n] = frames[n]
  BY <1>1, <1>2, SeqPrefix DEF Popped
<1> QED BY <1>1, <1>3

LEMMA ChangedFrames ==
  ASSUME ThreadKeyTypeOK, frames # <<>>, NEW k \in Kinds, frames' = Becomes(k)
  PROVE  /\ frames' \in Seq(Frames)
         /\ DOMAIN frames' = DOMAIN frames
         /\ Len(frames) \in DOMAIN frames
         /\ \A n \in DOMAIN frames : /\ frames'[n].impl = frames[n].impl
                                     /\ n # Len(frames) => frames'[n] = frames[n]
         /\ frames'[Len(frames)].kind = k
<1> DEFINE N == Len(frames)
<1>1. /\ frames \in Seq(Frames) /\ N \in Nat
      /\ DOMAIN frames = 1..N /\ N \in DOMAIN frames
  BY FramesType
<1>2. \A n \in DOMAIN frames : frames[n] \in Frames
  BY <1>1, SeqElements
<1>3. frames' = [frames EXCEPT ![N] = [frames[N] EXCEPT !.kind = k]]
  BY <1>1, <1>2 DEF Becomes, Frames
<1> DEFINE f == [frames[N] EXCEPT !.kind = k]
<1>4. f \in Frames /\ f.kind = k /\ f.impl = frames[N].impl
  BY <1>1, <1>2 DEF Frames
<1> HIDE DEF f, N
<1>5. frames \in [1..N -> Frames]
  BY <1>1, <1>2, SeqElements DEF N
<1>6. frames' = [frames EXCEPT ![N] = f]
  BY <1>3 DEF f
<1>7. /\ frames' \in [1..N -> Frames]
      /\ \A n \in 1..N : frames'[n] = IF n = N THEN f ELSE frames[n]
  BY <1>1, <1>4, <1>5, <1>6
<1>8. frames' \in Seq(Frames)
  BY <1>1, <1>7, FunctionIsSeq
<1>9. DOMAIN frames' = 1..N
  BY <1>7
<1> QED BY <1>1, <1>4, <1>7, <1>8, <1>9 DEF N

(* Who borrows a key leaves a frame.                                       *)
LEMMA BorrowedFrames ==
  ASSUME ThreadKeyTypeOK, NEW i \in Impls
  PROVE  /\ Borrowed(i) \in Nat
         /\ ~ Dying(i) => \A n \in DOMAIN frames :
                            frames[n].impl = i => Borrowed(i) > 0
<1> DEFINE B == {n \in DOMAIN frames : frames[n].impl = i /\ ~ Dying(i)}
<1>1. Len(frames) \in Nat /\ DOMAIN frames = 1..Len(frames)
  BY FramesType
<1>2. IsFiniteSet(1..Len(frames))
  BY <1>1, FS_Interval
<1>3. IsFiniteSet(B)
  BY <1>1, <1>2, FS_Subset
<1>4. Borrowed(i) = Cardinality(B)
  BY DEF Borrowed
<1>5. ~ Dying(i) => \A n \in DOMAIN frames : frames[n].impl = i => n \in B
  OBVIOUS
<1> HIDE DEF B
<1>6. Cardinality(B) \in Nat /\ (Cardinality(B) = 0 <=> B = {})
  BY <1>3, FS_CardinalityType, FS_EmptySet
<1> QED BY <1>4, <1>5, <1>6

LEMMA InitKey == Init => KeyInv
<1> SUFFICES ASSUME Init PROVE KeyInv
  OBVIOUS
<1>1. DOMAIN frames = {} /\ frames \in Seq(Frames)
  BY EmptySeq DEF Init
<1>2. ThreadKeyTypeOK
  BY <1>1, EpochFacts DEF Init, ThreadKeyTypeOK, Frames, Kinds
<1>3. RefCounted
  BY <1>1, ThreadKeyAssumption DEF Init, RefCounted
<1>4. LogsUnique /\ FrameInv /\ IdleInv /\ InsideInv
  BY <1>1 DEF Init, LogsUnique, FrameInv, IdleInv, InsideInv
<1>5. ClockInv /\ CacheInv
  BY EpochFacts DEF Init, ClockInv, CacheInv
<1> QED BY <1>2, <1>3, <1>4, <1>5 DEF KeyInv

-----------------------------------------------------------------------------
(* One more key to a Thread that has references.                           *)
LEMMA CountStep ==
  ASSUME KeyInv, NEW i \in Impls, Get(i) \/ Clone(i)
  PROVE  KeyInv'
<1> USE DEF tls
<1>0. /\ ThreadKeyTypeOK /\ RefCounted
      /\ ref_count \in [Impls -> Nat] /\ keys \in [Impls -> Nat]
  BY DEF KeyInv, ThreadKeyTypeOK
<1>1. ref_count[i] > 0
  <2>1. CASE Get(i)
    BY <1>0, <2>1, ThreadKeyAssumption DEF Get, RefCounted
  <2>2. CASE Clone(i)
    BY <1>0, <2>2, ThreadKeyAssumption DEF Clone, RefCounted
  <2> QED BY <2>1, <2>2
<1>2. /\ ref_count' = [ref_count EXCEPT ![i] = @ + 1]
      /\ keys' = [keys EXCEPT ![i] = @ + 1]
      /\ UNCHANGED <<slow, cached, clear_tls, clock, current_epoch, sealed,
                     synchs, frames, inside>>
  BY DEF Get, Clone
<1>3. /\ ref_count' \in [Impls -> Nat] /\ keys' \in [Impls -> Nat]
      /\ \A j \in Impls : /\ keys'[j] >= keys[j] /\ ref_count'[j] >= ref_count[j]
                          /\ ref_count'[j] > 0 <=> ref_count[j] > 0
                          /\ ref_count'[j] - keys'[j] = ref_count[j] - keys[j]
  BY <1>0, <1>1, <1>2
<1>4. ThreadKeyTypeOK'
  BY <1>0, <1>2, <1>3 DEF ThreadKeyTypeOK
<1>5. RefCounted'
  <2>1. cached' # None => ref_count'[cached'] > 0
    BY <1>0, <1>2, <1>3 DEF RefCounted, ThreadKeyTypeOK
  <2>2. \A j \in Impls : ref_count'[j] = keys'[j] + (IF slow' = j THEN 1 ELSE 0)
    BY <1>0, <1>2, <1>3 DEF RefCounted
  <2> QED BY <1>0, <1>2, <1>3, <2>1, <2>2 DEF RefCounted
<1>6. FrameInv'
  <2>1. \A n \in DOMAIN frames : frames[n].impl \in Impls
    BY <1>0, FramesType
  <2>2. \A n \in DOMAIN frames :
          keys[frames[n].impl] > 0 => keys'[frames[n].impl] > 0
    BY <1>0, <1>3, <2>1
  <2> QED BY <1>2, <2>2 DEF KeyInv, FrameInv
<1>7. /\ LogsUnique' /\ ClockInv' /\ IdleInv' /\ CacheInv'
      /\ InsideInv'
  BY <1>2 DEF KeyInv, LogsUnique, ClockInv, IdleInv, CacheInv, InsideInv,
              InTransaction
<1> QED BY <1>4, <1>5, <1>6, <1>7 DEF KeyInv

(* A new Thread.                                                           *)
LEMMA NewStep ==
  ASSUME KeyInv, NEW i \in Impls, GetFirst(i) \/ GetTemporary(i)
  PROVE  KeyInv'
<1> USE DEF tls
<1>0. /\ ThreadKeyTypeOK /\ RefCounted /\ FrameInv /\ ClockInv
      /\ ref_count \in [Impls -> Nat] /\ keys \in [Impls -> Nat]
      /\ clear_tls \in [Impls -> BOOLEAN]
      /\ current_epoch \in [Impls -> Nat \ {0}]
      /\ cached = None
  BY DEF KeyInv, ThreadKeyTypeOK, GetFirst, GetTemporary
<1>1. /\ i \notin synchs
      /\ keys' = [keys EXCEPT ![i] = 1]
      /\ clear_tls' = [clear_tls EXCEPT ![i] = clears(slow)]
      /\ current_epoch' = [current_epoch EXCEPT ![i] = INACTIVE_EPOCH]
      /\ synchs' = synchs \cup {i}
      /\ UNCHANGED <<clock, sealed, frames, inside>>
  BY DEF GetFirst, GetTemporary, New
<1>2. \/ /\ slow = Unborn /\ slow' = i /\ cached' = i
         /\ ref_count' = [ref_count EXCEPT ![i] = 2]
      \/ /\ slow = Destroyed /\ slow' = slow /\ cached' = None
         /\ ref_count' = [ref_count EXCEPT ![i] = 1]
  BY <1>0 DEF GetFirst, GetTemporary, New
<1>3. /\ clears(slow) \in BOOLEAN
      /\ slow = Unborn => clears(slow)
      /\ slow \notin Impls
  BY <1>2, ThreadKeyAssumption DEF clears
<1>4. \A n \in DOMAIN frames : frames[n].impl \in Impls /\ frames[n].impl # i
  BY <1>0, <1>1, FramesType DEF FrameInv
<1>5. /\ ref_count' \in [Impls -> Nat] /\ ref_count'[i] > 0
      /\ ref_count'[i] = keys'[i] + (IF slow' = i THEN 1 ELSE 0)
      /\ \A j \in Impls : j # i => ref_count'[j] = ref_count[j]
  BY <1>0, <1>1, <1>2, <1>3
<1>6. /\ keys' \in [Impls -> Nat]
      /\ \A j \in Impls : j # i => keys'[j] = keys[j]
      /\ \A j \in Impls : j # i => slow' # j /\ slow # j
  BY <1>0, <1>1, <1>2, <1>3
<1>7. /\ current_epoch' \in [Impls -> Nat \ {0}]
      /\ current_epoch'[i] = INACTIVE_EPOCH
      /\ \A j \in Impls : j # i => current_epoch'[j] = current_epoch[j]
  BY <1>0, <1>1, EpochFacts
<1>8. ThreadKeyTypeOK'
  <2>1. clear_tls' \in [Impls -> BOOLEAN]
    BY <1>0, <1>1, <1>3
  <2> QED BY <1>0, <1>1, <1>2, <1>5, <1>6, <1>7, <2>1 DEF ThreadKeyTypeOK
<1>9. RefCounted'
  <2>1. cached' # None => ref_count'[cached'] > 0
    BY <1>2, <1>5
  <2>2. \A j \in Impls : ref_count'[j] = keys'[j] + (IF slow' = j THEN 1 ELSE 0)
    BY <1>0, <1>5, <1>6 DEF RefCounted
  <2>3. \A j \in Impls :
          j \in synchs' <=> \/ ref_count'[j] > 0
                           \/ \E n \in DOMAIN frames : frames[n].impl = j
    BY <1>0, <1>1, <1>5 DEF RefCounted
  <2> QED BY <1>1, <2>1, <2>2, <2>3 DEF RefCounted
<1>10. FrameInv'
  <2>1. \A n \in DOMAIN frames :
          /\ keys'[frames[n].impl] = keys[frames[n].impl]
          /\ current_epoch'[frames[n].impl] = current_epoch[frames[n].impl]
          /\ slow' # frames[n].impl
    BY <1>4, <1>6, <1>7
  <2> QED BY <1>0, <1>1, <2>1 DEF FrameInv
<1>11. CacheInv'
  BY <1>0, <1>1, <1>2, <1>3 DEF CacheInv
<1>12. IdleInv'
  BY <1>0, <1>1, <1>7 DEF KeyInv, IdleInv, ThreadKeyTypeOK
<1>13. InsideInv'
  <2>1. \A j \in Impls : \A e \in sealed[j] : ~ (current_epoch'[i] <= e)
    BY <1>0, <1>7, EpochFacts DEF ClockInv, ThreadKeyTypeOK
  <2>2. \A j \in synchs : current_epoch'[j] = current_epoch[j]
    BY <1>0, <1>1, <1>7 DEF ThreadKeyTypeOK
  <2>3. InsideInv /\ inside[i] = {}
    BY <1>4 DEF KeyInv, InsideInv, InTransaction
  <2> QED BY <1>1, <2>1, <2>2, <2>3 DEF InsideInv, InTransaction
<1>14. LogsUnique' /\ ClockInv'
  BY <1>1 DEF KeyInv, LogsUnique, ClockInv
<1> QED BY <1>8, <1>9, <1>10, <1>11, <1>12, <1>13, <1>14 DEF KeyInv

(* One reference less, and no Thread any more after the last.              *)
LEMMA ReleaseStep ==
  ASSUME KeyInv, NEW i \in Impls, DropKey(i) \/ DestroySlow(i)
  PROVE  KeyInv'
<1>0. /\ ThreadKeyTypeOK /\ RefCounted /\ FrameInv /\ ClockInv /\ LogsUnique
      /\ IdleInv /\ CacheInv /\ InsideInv
      /\ ref_count \in [Impls -> Nat] /\ keys \in [Impls -> Nat]
      /\ current_epoch \in [Impls -> Nat \ {0}]
      /\ sealed \in [Impls -> SUBSET Nat] /\ synchs \subseteq Impls
      /\ slow \in Impls \cup {Unborn, Destroyed}
      /\ Destroyed \notin Impls /\ None \notin Impls
  BY ThreadKeyAssumption DEF KeyInv, ThreadKeyTypeOK
<1>1. /\ Release(i)
      /\ \/ slow' = slow /\ keys' = [keys EXCEPT ![i] = @ - 1]
            /\ keys[i] > Borrowed(i)
         \/ slow = i /\ slow' = Destroyed /\ keys' = keys /\ frames = <<>>
  BY DEF DropKey, DestroySlow
<1>2. /\ ref_count' = [ref_count EXCEPT ![i] = @ - 1]
      /\ UNCHANGED <<clear_tls, clock, sealed, inside>>
      /\ cached' = IF ref_count[i] = 1 /\ clear_tls[i] THEN None ELSE cached
  BY <1>1 DEF Release
<1>r. /\ \A j \in Impls : ref_count[j] = keys[j] + (IF slow = j THEN 1 ELSE 0)
      /\ \A j \in Impls :
           j \in synchs <=> \/ ref_count[j] > 0
                           \/ \E n \in DOMAIN frames : frames[n].impl = j
  BY <1>0 DEF RefCounted
<1>3. ref_count[i] > 0 /\ i \in synchs /\ ~ Dying(i)
  <2>1. Borrowed(i) \in Nat
    BY <1>0, BorrowedFrames
  <2>2. ref_count[i] > 0
    BY <1>0, <1>1, <2>1 DEF RefCounted
  <2> QED BY <1>0, <2>2 DEF RefCounted, Dying
<1>4. /\ \A n \in DOMAIN frames : frames[n].impl = i => keys'[i] > 0
      /\ keys' \in [Impls -> Nat]
      /\ \A j \in Impls : j # i => keys'[j] = keys[j]
  <2>1. Borrowed(i) \in Nat
    BY <1>0, BorrowedFrames
  <2>2. \A n \in DOMAIN frames : frames[n].impl = i => Borrowed(i) > 0
    BY <1>0, <1>3, BorrowedFrames
  <2>3. frames = <<>> => DOMAIN frames = {}
    BY <1>0, FramesType
  <2> QED BY <1>0, <1>1, <2>1, <2>2, <2>3
<1>c. /\ ref_count' \in [Impls -> Nat]
      /\ ref_count'[i] = ref_count[i] - 1
      /\ \A j \in Impls : j # i => ref_count'[j] = ref_count[j]
  BY <1>0, <1>2, <1>3
<1>s. \A j \in Impls : j # i => (slow' = j <=> slow = j)
  BY <1>0, <1>1
<1>5. ref_count'[i] = keys'[i] + (IF slow' = i THEN 1 ELSE 0)
  <2>1. ref_count[i] = keys[i] + (IF slow = i THEN 1 ELSE 0)
    BY <1>r
  <2> QED BY <1>0, <1>1, <1>c, <2>1
<1>6. /\ \A j \in Impls : ref_count'[j] = keys'[j] + (IF slow' = j THEN 1 ELSE 0)
      /\ slow' \in Impls \cup {Unborn, Destroyed}
      /\ cached' # None => cached' = cached /\ ref_count'[cached] > 0
      /\ cached' \in Impls \cup {None}
  <2>1. \A j \in Impls : ref_count'[j] = keys'[j] + (IF slow' = j THEN 1 ELSE 0)
    <3> SUFFICES ASSUME NEW j \in Impls, j # i
                 PROVE  ref_count'[j] = keys'[j] + (IF slow' = j THEN 1 ELSE 0)
      BY <1>5, <1>c, <1>s
    <3>1. ref_count[j] = keys[j] + (IF slow = j THEN 1 ELSE 0)
      BY <1>r
    <3>2. /\ ref_count'[j] = ref_count[j] /\ keys'[j] = keys[j]
          /\ slow' = j <=> slow = j
      BY <1>4, <1>c, <1>s
    <3> QED BY <3>1, <3>2
  <2>2. cached' # None => cached' = cached /\ ref_count'[cached] > 0
    BY <1>0, <1>2, <1>3, <1>5, <1>c, <1>s DEF RefCounted, CacheInv, ThreadKeyTypeOK
  <2> QED BY <1>0, <1>1, <1>2, <2>1, <2>2 DEF ThreadKeyTypeOK
<1>7. ClockInv' /\ CacheInv'
  BY <1>0, <1>2, <1>6 DEF ClockInv, CacheInv
<1>8. CASE ref_count[i] # 1
  <2>1. UNCHANGED <<current_epoch, synchs, frames>>
    BY <1>1, <1>8 DEF Release
  <2>2. ThreadKeyTypeOK'
    BY <1>0, <1>2, <1>4, <1>5, <1>c, <1>s, <1>6, <2>1 DEF ThreadKeyTypeOK
  <2>3. RefCounted'
    <3>1. \A j \in Impls : ref_count'[j] > 0 <=> ref_count[j] > 0
      BY <1>0, <1>3, <1>c, <1>8
    <3>2. \A j \in Impls :
            j \in synchs' <=> \/ ref_count'[j] > 0
                             \/ \E n \in DOMAIN frames' : frames'[n].impl = j
      BY <1>r, <2>1, <3>1
    <3> QED BY <1>6, <3>2 DEF RefCounted
  <2>4. FrameInv'
    <3>1. \A n \in DOMAIN frames : frames[n].impl \in Impls
      BY <1>0, FramesType
    <3> QED BY <1>0, <1>2, <1>4, <1>5, <1>c, <1>s, <2>1, <3>1 DEF FrameInv
  <2>5. LogsUnique' /\ IdleInv' /\ InsideInv'
    BY <1>0, <1>2, <2>1 DEF LogsUnique, IdleInv, InsideInv, InTransaction
  <2> QED BY <1>7, <2>2, <2>3, <2>4, <2>5 DEF KeyInv
<1>9. CASE ref_count[i] = 1
  <2>1. /\ Unsubscribe(i) /\ ref_count'[i] = 0 /\ keys'[i] = 0 /\ slow' # i
    BY <1>0, <1>1, <1>4, <1>5, <1>c, <1>s, <1>9 DEF Release
  <2>2. \A n \in DOMAIN frames : frames[n].impl # i /\ frames[n].impl \in Impls
    BY <1>0, <1>4, <2>1, FramesType
  <2>3. current_epoch[i] = INACTIVE_EPOCH
    BY <1>0, <1>3, <2>2 DEF IdleInv
  <2>4. CASE sealed[i] = {}
    <3>1. synchs' = synchs \ {i} /\ UNCHANGED <<current_epoch, frames>>
      BY <2>1, <2>4 DEF Unsubscribe
    <3>2. ThreadKeyTypeOK'
      BY <1>0, <1>2, <1>4, <1>5, <1>c, <1>s, <1>6, <3>1 DEF ThreadKeyTypeOK
    <3>3. RefCounted'
      <4>1. \A j \in Impls :
              j \in synchs' <=> \/ ref_count'[j] > 0
                               \/ \E n \in DOMAIN frames' : frames'[n].impl = j
        BY <1>r, <1>c, <2>1, <2>2, <3>1
      <4> QED BY <1>6, <4>1 DEF RefCounted
    <3>4. FrameInv'
      BY <1>0, <1>2, <1>4, <1>5, <1>c, <1>s, <2>2, <3>1 DEF FrameInv
    <3>5. LogsUnique' /\ IdleInv' /\ InsideInv'
      BY <1>0, <1>2, <3>1 DEF LogsUnique, IdleInv, InsideInv, InTransaction
    <3> QED BY <1>7, <3>2, <3>3, <3>4, <3>5 DEF KeyInv
  <2>5. CASE sealed[i] # {}
    <3>1. /\ current_epoch' = [current_epoch EXCEPT ![i] = END_OF_TIME]
          /\ frames' = Pushed("quiesce", i) /\ synchs' = synchs
      BY <2>1, <2>5 DEF Unsubscribe, collect_epoch
    <3>2. /\ frames' \in Seq(Frames)
          /\ \A n \in DOMAIN frames :
               n \in DOMAIN frames' /\ frames'[n] = frames[n]
      BY <1>0, <3>1, PushedFrames DEF Kinds
    <3>3. PICK m \in DOMAIN frames' :
            /\ m \notin DOMAIN frames
            /\ frames'[m].kind = "quiesce" /\ frames'[m].impl = i
            /\ \A n \in DOMAIN frames' : n \in DOMAIN frames \/ n = m
      BY <1>0, <3>1, PushedFrames DEF Kinds
    <3>4. /\ current_epoch' \in [Impls -> Nat \ {0}]
          /\ current_epoch'[i] = END_OF_TIME
          /\ \A j \in Impls : j # i => current_epoch'[j] = current_epoch[j]
      BY <1>0, <3>1, EpochFacts
    <3>5. ThreadKeyTypeOK'
      BY <1>0, <1>2, <1>4, <1>5, <1>c, <1>s, <1>6, <3>1, <3>2, <3>4
      DEF ThreadKeyTypeOK, Frames, Kinds
    <3>6. RefCounted'
      <4>1. \A j \in Impls : j # i =>
              ((\E n \in DOMAIN frames' : frames'[n].impl = j) <=>
               (\E n \in DOMAIN frames : frames[n].impl = j))
        BY <3>2, <3>3
      <4>2. \A j \in Impls :
              j \in synchs' <=> \/ ref_count'[j] > 0
                               \/ \E n \in DOMAIN frames' : frames'[n].impl = j
        BY <1>r, <1>3, <1>c, <3>1, <3>3, <4>1
      <4> QED BY <1>6, <4>2 DEF RefCounted
    <3>7. FrameInv'
      <4> SUFFICES ASSUME NEW n \in DOMAIN frames'
                   PROVE  LET j == frames'[n].impl
                          IN  /\ j \in synchs'
                              /\ frames'[n].kind = "tx" \/ slow' = j => keys'[j] > 0
                              /\ frames'[n].kind = "tx" => current_epoch'[j] <= clock'
                              /\ frames'[n].kind # "tx" => current_epoch'[j] = END_OF_TIME
                              /\ frames'[n].kind = "quiesce" => sealed'[j] # {}
        BY DEF FrameInv
      <4>1. CASE n = m
        BY <1>2, <1>3, <2>1, <2>5, <3>1, <3>3, <3>4, <4>1
      <4>2. CASE n \in DOMAIN frames
        <5>1. frames'[n] = frames[n] /\ frames[n].impl # i /\ frames[n].impl \in Impls
          BY <2>2, <3>2, <4>2
        <5> QED BY <1>0, <1>2, <1>4, <1>5, <1>c, <1>s, <3>1, <3>4, <4>2, <5>1 DEF FrameInv
      <4> QED BY <3>3, <4>1, <4>2
    <3>8. LogsUnique'
      BY <1>0, <2>2, <3>2, <3>3 DEF LogsUnique
    <3>9. IdleInv'
      <4> SUFFICES ASSUME NEW j \in synchs',
                          \A n \in DOMAIN frames' : frames'[n].impl # j
                   PROVE  current_epoch'[j] = INACTIVE_EPOCH
        BY DEF IdleInv
      <4>1. j \in synchs /\ j \in Impls /\ j # i
        BY <1>0, <3>1, <3>3
      <4>2. \A n \in DOMAIN frames : frames[n].impl # j
        BY <3>2
      <4> QED BY <1>0, <3>4, <4>1, <4>2 DEF IdleInv
    <3>10. InsideInv'
      <4>1. \A j \in Impls : \A e \in sealed[j] : ~ (END_OF_TIME <= e)
        BY <1>0, EpochFacts DEF ClockInv, ThreadKeyTypeOK
      <4>2. \A s \in Impls : InTransaction(s) => InTransaction(s)'
        BY <3>2 DEF InTransaction
      <4>3. inside[i] = {}
        BY <1>0, <2>2 DEF InsideInv, InTransaction
      <4>4. ASSUME NEW s \in synchs, NEW j \in Impls, NEW e \in sealed[j]
            PROVE  current_epoch'[s] <= e <=> e \in inside[s]
        <5>1. CASE s = i
          BY <3>4, <4>1, <4>3, <5>1
        <5>2. CASE s # i
          <6>1. current_epoch'[s] = current_epoch[s]
            BY <1>0, <3>4, <5>2
          <6> QED BY <1>0, <6>1 DEF InsideInv
        <5> QED BY <5>1, <5>2
      <4> QED BY <1>0, <1>2, <3>1, <4>2, <4>4 DEF InsideInv
    <3> QED BY <1>7, <3>5, <3>6, <3>7, <3>8, <3>9, <3>10 DEF KeyInv
  <2> QED BY <2>4, <2>5
<1> QED BY <1>8, <1>9

-----------------------------------------------------------------------------
(* What the steps of transactions and collections start from.              *)
LEMMA RunFacts ==
  ASSUME KeyInv
  PROVE  /\ ThreadKeyTypeOK /\ RefCounted /\ FrameInv /\ ClockInv /\ LogsUnique
         /\ IdleInv /\ CacheInv /\ InsideInv
         /\ inside \in [Impls -> SUBSET Nat]
         /\ clock \in Nat /\ clock # 0 /\ clock < LOCK_BIT
         /\ current_epoch \in [Impls -> Nat \ {0}]
         /\ sealed \in [Impls -> SUBSET Nat] /\ synchs \subseteq Impls
         /\ \A j \in Impls : \A e \in sealed[j] :
              e < clock /\ e < END_OF_TIME /\ e < INACTIVE_EPOCH
         /\ \A j \in Impls :
              j \in synchs <=> \/ ref_count[j] > 0
                              \/ \E n \in DOMAIN frames : frames[n].impl = j
<1>1. /\ ThreadKeyTypeOK /\ RefCounted /\ FrameInv /\ ClockInv /\ LogsUnique
      /\ IdleInv /\ CacheInv /\ InsideInv
      /\ inside \in [Impls -> SUBSET Nat]
  BY DEF KeyInv, ThreadKeyTypeOK
<1>2. /\ clock \in Nat /\ clock # 0 /\ clock < LOCK_BIT
      /\ current_epoch \in [Impls -> Nat \ {0}]
      /\ sealed \in [Impls -> SUBSET Nat] /\ synchs \subseteq Impls
  BY <1>1, EpochFacts DEF ThreadKeyTypeOK, ClockInv
<1>3. \A j \in Impls : \A e \in sealed[j] :
        e < clock /\ e < END_OF_TIME /\ e < INACTIVE_EPOCH
  BY <1>1, <1>2, EpochFacts DEF ClockInv
<1>4. \A j \in Impls :
        j \in synchs <=> \/ ref_count[j] > 0
                        \/ \E n \in DOMAIN frames : frames[n].impl = j
  BY <1>1 DEF RefCounted
<1> QED BY <1>1, <1>2, <1>3, <1>4

(* Where the references stay, only the list and the stack count.           *)
LEMMA RefsKept ==
  ASSUME RefCounted, UNCHANGED <<slow, cached, ref_count, keys>>,
         \A j \in Impls :
           j \in synchs' <=> \/ ref_count[j] > 0
                            \/ \E n \in DOMAIN frames' : frames'[n].impl = j
  PROVE  RefCounted'
BY DEF RefCounted

LEMMA TryPinStep ==
  ASSUME KeyInv, NEW i \in Impls, TryPin(i)
  PROVE  KeyInv'
<1> USE DEF tls, refs
<1>0. /\ ThreadKeyTypeOK /\ RefCounted /\ FrameInv /\ ClockInv /\ LogsUnique
      /\ IdleInv /\ CacheInv
      /\ clock \in Nat /\ clock # 0 /\ clock < LOCK_BIT
      /\ current_epoch \in [Impls -> Nat \ {0}]
      /\ synchs \subseteq Impls
  BY RunFacts
<1>1. /\ keys[i] > 0 /\ current_epoch[i] = INACTIVE_EPOCH
      /\ current_epoch' = [current_epoch EXCEPT ![i] = clock]
      /\ frames' = Pushed("tx", i)
      /\ UNCHANGED <<slow, cached, ref_count, clear_tls, keys, clock, sealed,
                     synchs>>
      /\ inside' = [inside EXCEPT ![i] = {}]
  BY DEF TryPin, Forget, is_pinned
<1>2. i \in synchs
  <2>1. ref_count[i] > 0
    <3>1. keys[i] \in Nat /\ keys[i] > 0
      BY <1>0, <1>1 DEF ThreadKeyTypeOK, TryPin
    <3>2. ref_count[i] = keys[i] + (IF slow = i THEN 1 ELSE 0)
      BY <1>0 DEF RefCounted
    <3> QED BY <3>1, <3>2
  <2> QED BY <2>1, RunFacts
<1>3. \A n \in DOMAIN frames : frames[n].impl # i /\ frames[n].impl \in Impls
  <2> SUFFICES ASSUME NEW n \in DOMAIN frames, frames[n].impl = i PROVE FALSE
    BY <1>0, FramesType
  <2>1. current_epoch[i] <= clock \/ current_epoch[i] = END_OF_TIME
    BY <1>0 DEF FrameInv
  <2> QED BY <1>0, <1>1, <2>1, EpochFacts
<1>4. /\ frames' \in Seq(Frames)
      /\ \A n \in DOMAIN frames : n \in DOMAIN frames' /\ frames'[n] = frames[n]
  BY <1>0, <1>1, PushedFrames DEF Kinds
<1>5. PICK m \in DOMAIN frames' :
        /\ m \notin DOMAIN frames
        /\ frames'[m].kind = "tx" /\ frames'[m].impl = i
        /\ \A n \in DOMAIN frames' : n \in DOMAIN frames \/ n = m
  BY <1>0, <1>1, PushedFrames DEF Kinds
<1>6. /\ current_epoch' \in [Impls -> Nat \ {0}]
      /\ current_epoch'[i] = clock
      /\ \A j \in Impls : j # i => current_epoch'[j] = current_epoch[j]
  BY <1>0, <1>1
<1>7. ThreadKeyTypeOK'
  <2>1. inside' \in [Impls -> SUBSET Nat]
    BY <1>1, RunFacts
  <2> QED BY <1>0, <1>1, <1>4, <1>6, <2>1 DEF ThreadKeyTypeOK, Frames, Kinds
<1>8. RefCounted'
  <2>1. \A j \in Impls : j # i =>
          ((\E n \in DOMAIN frames' : frames'[n].impl = j) <=>
           (\E n \in DOMAIN frames : frames[n].impl = j))
    BY <1>4, <1>5
  <2>2. \A j \in Impls :
          j \in synchs' <=> \/ ref_count[j] > 0
                           \/ \E n \in DOMAIN frames' : frames'[n].impl = j
    BY <1>1, <1>2, <1>5, <2>1, RunFacts
  <2> QED BY <1>0, <1>1, <2>2, RefsKept
<1>9. FrameInv'
  <2> SUFFICES ASSUME NEW n \in DOMAIN frames'
               PROVE  LET j == frames'[n].impl
                      IN  /\ j \in synchs'
                          /\ frames'[n].kind = "tx" \/ slow' = j => keys'[j] > 0
                          /\ frames'[n].kind = "tx" => current_epoch'[j] <= clock'
                          /\ frames'[n].kind # "tx" => current_epoch'[j] = END_OF_TIME
                          /\ frames'[n].kind = "quiesce" => sealed'[j] # {}
    BY DEF FrameInv
  <2>1. CASE n = m
    BY <1>0, <1>1, <1>2, <1>5, <1>6, <2>1 DEF TryPin
  <2>2. CASE n \in DOMAIN frames
    <3>1. frames'[n] = frames[n] /\ frames[n].impl # i /\ frames[n].impl \in Impls
      BY <1>3, <1>4, <2>2
    <3> QED BY <1>0, <1>1, <1>6, <2>2, <3>1 DEF FrameInv
  <2> QED BY <1>5, <2>1, <2>2
<1>10. LogsUnique'
  BY <1>0, <1>3, <1>4, <1>5 DEF LogsUnique
<1>11. IdleInv'
  <2> SUFFICES ASSUME NEW j \in synchs',
                      \A n \in DOMAIN frames' : frames'[n].impl # j
               PROVE  current_epoch'[j] = INACTIVE_EPOCH
    BY DEF IdleInv
  <2>1. j \in synchs /\ j \in Impls /\ j # i
    BY <1>0, <1>1, <1>5
  <2>2. \A n \in DOMAIN frames : frames[n].impl # j
    BY <1>4
  <2> QED BY <1>0, <1>6, <2>1, <2>2 DEF IdleInv
<1>12. InsideInv'
  <2>1. \A s \in Impls : InTransaction(s) => InTransaction(s)'
    BY <1>4 DEF InTransaction
  <2>2. \A j \in Impls : \A e \in sealed[j] : ~ (clock <= e)
    BY RunFacts
  <2>3. InsideInv /\ inside'[i] = {} /\ \A s \in Impls : s # i => inside'[s] = inside[s]
    BY <1>1, RunFacts
  <2> QED BY <1>0, <1>1, <1>6, <2>1, <2>2, <2>3 DEF InsideInv
<1>13. ClockInv' /\ CacheInv'
  BY <1>0, <1>1 DEF ClockInv, CacheInv
<1> QED BY <1>7, <1>8, <1>9, <1>10, <1>11, <1>12, <1>13 DEF KeyInv

(* Another attempt, or the commit of another thread.                       *)
LEMMA RepinStep ==
  ASSUME KeyInv, Repin
  PROVE  KeyInv'
<1> USE DEF tls, refs
<1> DEFINE i == Top.impl
<1>0. /\ ThreadKeyTypeOK /\ RefCounted /\ FrameInv /\ ClockInv /\ LogsUnique
      /\ IdleInv /\ CacheInv
      /\ clock \in Nat /\ clock # 0
      /\ current_epoch \in [Impls -> Nat \ {0}]
      /\ synchs \subseteq Impls
  BY RunFacts
<1>1. /\ current_epoch' = [current_epoch EXCEPT ![i] = clock]
      /\ UNCHANGED <<slow, cached, ref_count, clear_tls, keys, clock, sealed,
                     synchs, frames>>
      /\ inside' = [inside EXCEPT ![i] = {}]
      /\ frames # <<>> /\ Top.kind = "tx"
  BY DEF Repin, Forget, Running
<1>2. /\ Len(frames) \in DOMAIN frames
      /\ \A n \in DOMAIN frames : frames[n].impl \in Impls
      /\ i = frames[Len(frames)].impl /\ frames[Len(frames)].kind = "tx"
      /\ i \in Impls
  BY <1>0, <1>1, FramesType DEF Top
<1> HIDE DEF i
<1>3. \A n \in DOMAIN frames : frames[n].impl = i => n = Len(frames)
  BY <1>0, <1>2 DEF LogsUnique
<1>4. /\ current_epoch' \in [Impls -> Nat \ {0}]
      /\ current_epoch'[i] = clock
      /\ \A j \in Impls : j # i => current_epoch'[j] = current_epoch[j]
  BY <1>0, <1>1, <1>2
<1>5. ThreadKeyTypeOK'
  <2>1. inside' \in [Impls -> SUBSET Nat]
    BY <1>1, RunFacts
  <2> QED BY <1>0, <1>1, <1>4, <2>1 DEF ThreadKeyTypeOK
<1>6. FrameInv'
  <2> SUFFICES ASSUME NEW n \in DOMAIN frames
               PROVE  LET j == frames[n].impl
                      IN  /\ j \in synchs
                          /\ frames[n].kind = "tx" \/ slow = j => keys[j] > 0
                          /\ frames[n].kind = "tx" => current_epoch'[j] <= clock
                          /\ frames[n].kind # "tx" => current_epoch'[j] = END_OF_TIME
                          /\ frames[n].kind = "quiesce" => sealed[j] # {}
    BY <1>1 DEF FrameInv
  <2>1. CASE n = Len(frames)
    BY <1>0, <1>2, <1>4, <2>1 DEF FrameInv
  <2>2. CASE n # Len(frames)
    BY <1>0, <1>2, <1>3, <1>4, <2>2 DEF FrameInv
  <2> QED BY <2>1, <2>2
<1>7. IdleInv'
  BY <1>0, <1>1, <1>2, <1>4 DEF IdleInv
<1>8. InsideInv'
  <2>1. \A j \in Impls : \A e \in sealed[j] : ~ (clock <= e)
    BY RunFacts
  <2>2. InsideInv /\ inside'[i] = {} /\ \A s \in Impls : s # i => inside'[s] = inside[s]
    BY <1>1, <1>2, RunFacts
  <2> QED BY <1>0, <1>1, <1>4, <2>1, <2>2 DEF InsideInv, InTransaction
<1>9. RefCounted' /\ LogsUnique' /\ ClockInv' /\ CacheInv'
  BY <1>0, <1>1 DEF RefCounted, LogsUnique, ClockInv, CacheInv
<1> QED BY <1>5, <1>6, <1>7, <1>8, <1>9 DEF KeyInv

LEMMA TickStep ==
  ASSUME KeyInv, Tick
  PROVE  KeyInv'
<1> USE DEF tls, refs
<1>0. /\ ThreadKeyTypeOK /\ RefCounted /\ FrameInv /\ ClockInv /\ LogsUnique
      /\ IdleInv /\ CacheInv
      /\ clock \in Nat /\ FIRST <= clock
      /\ current_epoch \in [Impls -> Nat \ {0}]
      /\ sealed \in [Impls -> SUBSET Nat]
  BY RunFacts DEF ClockInv
<1>1. /\ clock' \in Nat /\ clock < clock' /\ clock' < LOCK_BIT
      /\ UNCHANGED <<slow, cached, ref_count, clear_tls, keys, current_epoch,
                     sealed, synchs, frames, inside>>
  BY <1>0, EpochFacts DEF Tick
<1>2. ThreadKeyTypeOK'
  BY <1>0, <1>1 DEF ThreadKeyTypeOK
<1>3. FrameInv'
  <2>1. \A n \in DOMAIN frames : frames[n].impl \in Impls
    BY <1>0, FramesType
  <2>2. \A n \in DOMAIN frames :
          frames[n].kind = "tx" => current_epoch[frames[n].impl] <= clock'
    BY <1>0, <1>1, <2>1 DEF FrameInv
  <2> QED BY <1>0, <1>1, <2>2 DEF FrameInv
<1>4. ClockInv'
  BY <1>0, <1>1, EpochFacts DEF ClockInv
<1>5. /\ RefCounted' /\ LogsUnique' /\ IdleInv' /\ CacheInv'
      /\ InsideInv'
  BY <1>0, <1>1, RunFacts
     DEF RefCounted, LogsUnique, IdleInv, CacheInv, InsideInv, InTransaction
<1> QED BY <1>2, <1>3, <1>4, <1>5 DEF KeyInv

(* The innermost transaction or collection returns, and unpins.            *)
LEMMA ReturnStep ==
  ASSUME KeyInv, frames # <<>>, ref_count[Top.impl] > 0,
         frames' = Popped, Unpin(Top.impl),
         UNCHANGED <<slow, cached, ref_count, clear_tls, keys, synchs>>,
         clock' \in Nat, clock <= clock', ClockInv',
         sealed' \in [Impls -> SUBSET Nat],
         \A j \in Impls : sealed[j] \subseteq sealed'[j],
         inside' \in [Impls -> SUBSET Nat], inside'[Top.impl] = {},
         \A s \in Impls : ~ InTransaction(s) => inside'[s] = {},
         \A s \in synchs \ {Top.impl}, j \in Impls :
           \A e \in sealed'[j] : current_epoch[s] <= e <=> e \in inside'[s]
  PROVE  KeyInv'
<1> DEFINE i == Top.impl
           N == Len(frames)
<1>0. /\ ThreadKeyTypeOK /\ RefCounted /\ FrameInv /\ LogsUnique
      /\ IdleInv /\ CacheInv
      /\ clock \in Nat
      /\ current_epoch \in [Impls -> Nat \ {0}]
      /\ synchs \subseteq Impls
  BY RunFacts
<1>1. /\ N \in DOMAIN frames /\ i = frames[N].impl /\ i \in Impls
      /\ \A n \in DOMAIN frames : frames[n].impl \in Impls
  BY <1>0, FramesType DEF Top
<1>2. /\ frames' \in Seq(Frames)
      /\ \A n \in DOMAIN frames' : /\ n \in DOMAIN frames
                                   /\ n # N /\ frames'[n] = frames[n]
      /\ \A n \in DOMAIN frames : n \in DOMAIN frames' \/ n = N
  BY <1>0, PoppedFrames
<1>3. current_epoch' = [current_epoch EXCEPT ![i] = INACTIVE_EPOCH]
  BY DEF Unpin, inactive
<1>4. ref_count[i] > 0
  OBVIOUS
<1>5. /\ inside'[i] = {}
      /\ \A s \in Impls : ~ InTransaction(s) => inside'[s] = {}
      /\ \A s \in synchs \ {i}, j \in Impls :
           \A e \in sealed'[j] : current_epoch[s] <= e <=> e \in inside'[s]
  OBVIOUS
<1> HIDE DEF i, N
<1>6. \A n \in DOMAIN frames' : frames[n].impl # i
  BY <1>0, <1>1, <1>2 DEF LogsUnique
<1>7. /\ current_epoch' \in [Impls -> Nat \ {0}]
      /\ current_epoch'[i] = INACTIVE_EPOCH
      /\ \A j \in Impls : j # i => current_epoch'[j] = current_epoch[j]
  BY <1>0, <1>1, <1>3, EpochFacts
<1>8. ThreadKeyTypeOK'
  BY <1>0, <1>2, <1>7 DEF ThreadKeyTypeOK, Frames, Kinds
<1>9. RefCounted'
  <2>1. \A j \in Impls : j # i =>
          ((\E n \in DOMAIN frames' : frames'[n].impl = j) <=>
           (\E n \in DOMAIN frames : frames[n].impl = j))
    BY <1>1, <1>2
  <2>2. \A j \in Impls :
          j \in synchs' <=> \/ ref_count[j] > 0
                           \/ \E n \in DOMAIN frames' : frames'[n].impl = j
    BY <1>4, <2>1, RunFacts
  <2> QED BY <1>0, <2>2, RefsKept
<1>10. FrameInv'
  <2> SUFFICES ASSUME NEW n \in DOMAIN frames'
               PROVE  LET j == frames'[n].impl
                      IN  /\ j \in synchs'
                          /\ frames'[n].kind = "tx" \/ slow' = j => keys'[j] > 0
                          /\ frames'[n].kind = "tx" => current_epoch'[j] <= clock'
                          /\ frames'[n].kind # "tx" => current_epoch'[j] = END_OF_TIME
                          /\ frames'[n].kind = "quiesce" => sealed'[j] # {}
    BY DEF FrameInv
  <2>1. /\ n \in DOMAIN frames /\ frames'[n] = frames[n]
        /\ frames[n].impl # i /\ frames[n].impl \in Impls
    BY <1>1, <1>2, <1>6
  <2>2. current_epoch'[frames[n].impl] = current_epoch[frames[n].impl]
    BY <1>7, <2>1
  <2>3. sealed[frames[n].impl] # {} => sealed'[frames[n].impl] # {}
    BY <2>1
  <2>4. frames[n].kind = "tx" => current_epoch[frames[n].impl] <= clock'
    BY <1>0, <2>1 DEF FrameInv
  <2> QED BY <1>0, <2>1, <2>2, <2>3, <2>4 DEF FrameInv
<1>11. LogsUnique'
  BY <1>0, <1>2 DEF LogsUnique
<1>12. IdleInv'
  <2> SUFFICES ASSUME NEW j \in synchs, j # i,
                      \A n \in DOMAIN frames' : frames'[n].impl # j
               PROVE  current_epoch'[j] = INACTIVE_EPOCH
    BY <1>7 DEF IdleInv
  <2>1. \A n \in DOMAIN frames : frames[n].impl # j
    BY <1>1, <1>2
  <2> QED BY <1>0, <1>7, <2>1 DEF IdleInv
<1>13. InsideInv'
  <2>1. \A s \in Impls \ {i} : InTransaction(s) => InTransaction(s)'
    BY <1>1, <1>2 DEF InTransaction
  <2>2. \A j \in Impls : \A e \in sealed'[j] : ~ (INACTIVE_EPOCH <= e)
    BY EpochFacts DEF ClockInv
  <2> QED BY <1>0, <1>5, <1>7, <2>1, <2>2 DEF InsideInv
<1>14. CacheInv'
  BY <1>0 DEF CacheInv
<1> QED BY <1>8, <1>9, <1>10, <1>11, <1>12, <1>13, <1>14 DEF KeyInv

LEMMA FinishStep ==
  ASSUME KeyInv, Finish
  PROVE  KeyInv'
<1>1. /\ frames # <<>> /\ Top.kind = "tx" /\ frames' = Popped /\ Unpin(Top.impl)
      /\ UNCHANGED <<slow, cached, ref_count, clear_tls, keys, synchs, clock,
                     sealed>>
      /\ inside' = [inside EXCEPT ![Top.impl] = {}]
  BY DEF Finish, Forget, Running, tls, refs
<1>2. ref_count[Top.impl] > 0
  <2>1. Len(frames) \in DOMAIN frames /\ Top.impl \in Impls
    BY <1>1, RunFacts, FramesType DEF Top
  <2>2. keys[Top.impl] > 0 /\ keys[Top.impl] \in Nat
    BY <1>1, <2>1, RunFacts DEF FrameInv, Top, ThreadKeyTypeOK
  <2>3. ref_count[Top.impl] = keys[Top.impl] + (IF slow = Top.impl THEN 1 ELSE 0)
    BY <2>1, RunFacts DEF RefCounted
  <2> QED BY <2>2, <2>3
<1>3. /\ clock' \in Nat /\ clock <= clock' /\ ClockInv'
      /\ sealed' \in [Impls -> SUBSET Nat]
      /\ \A j \in Impls : sealed[j] \subseteq sealed'[j]
  BY <1>1, RunFacts DEF ClockInv
<1>4. /\ inside' \in [Impls -> SUBSET Nat] /\ inside'[Top.impl] = {}
      /\ \A s \in Impls : s # Top.impl => inside'[s] = inside[s]
  <2>1. Top.impl \in Impls
    BY <1>1, RunFacts, FramesType DEF Top
  <2> QED BY <1>1, <2>1, RunFacts
<1>5. /\ \A s \in Impls : ~ InTransaction(s) => inside'[s] = {}
      /\ \A s \in synchs \ {Top.impl}, j \in Impls :
           \A e \in sealed'[j] : current_epoch[s] <= e <=> e \in inside'[s]
  BY <1>1, <1>4, RunFacts DEF InsideInv
<1> QED BY <1>1, <1>2, <1>3, <1>4, <1>5, ReturnStep

(* Storing an epoch in a ThreadEpoch keeps the type.                       *)
LEMMA EpochStored ==
  ASSUME NEW f \in [Impls -> Nat \ {0}], NEW i, NEW e \in Nat \ {0}
  PROVE  [f EXCEPT ![i] = e] \in [Impls -> Nat \ {0}]
OBVIOUS

(* The innermost transaction or collection becomes a (later) collection.   *)
LEMMA CollectStep ==
  ASSUME KeyInv, frames # <<>>, NEW k \in {"quiesce", "collect"},
         frames' = Becomes(k),
         current_epoch' = [current_epoch EXCEPT ![Top.impl] = END_OF_TIME],
         UNCHANGED <<slow, cached, ref_count, clear_tls, keys, synchs>>,
         clock' \in Nat, clock <= clock', ClockInv',
         sealed' \in [Impls -> SUBSET Nat],
         k = "quiesce" => sealed'[Top.impl] # {},
         \A j \in Impls \ {Top.impl} : sealed[j] \subseteq sealed'[j],
         inside' \in [Impls -> SUBSET Nat], inside'[Top.impl] = {},
         \A s \in Impls : ~ InTransaction(s) => inside'[s] = {},
         \A s \in synchs \ {Top.impl}, j \in Impls :
           \A e \in sealed'[j] : current_epoch[s] <= e <=> e \in inside'[s]
  PROVE  KeyInv'
<1> DEFINE i == Top.impl
           N == Len(frames)
<1>0. /\ ThreadKeyTypeOK /\ RefCounted /\ FrameInv /\ LogsUnique
      /\ IdleInv /\ CacheInv
      /\ clock \in Nat
      /\ current_epoch \in [Impls -> Nat \ {0}]
      /\ synchs \subseteq Impls
  BY RunFacts
<1>1. /\ N \in DOMAIN frames /\ i = frames[N].impl /\ i \in Impls
      /\ \A n \in DOMAIN frames : frames[n].impl \in Impls
  BY <1>0, FramesType DEF Top
<1>2. /\ frames' \in Seq(Frames)
      /\ DOMAIN frames' = DOMAIN frames
      /\ \A n \in DOMAIN frames : /\ frames'[n].impl = frames[n].impl
                                  /\ n # N => frames'[n] = frames[n]
      /\ frames'[N].kind = k
  BY <1>0, ChangedFrames DEF Kinds
<1>3. /\ current_epoch' = [current_epoch EXCEPT ![i] = END_OF_TIME]
      /\ k = "quiesce" => sealed'[i] # {}
      /\ \A j \in Impls \ {i} : sealed[j] \subseteq sealed'[j]
  OBVIOUS
<1>4. /\ inside'[i] = {}
      /\ \A s \in Impls : ~ InTransaction(s) => inside'[s] = {}
      /\ \A s \in synchs \ {i}, j \in Impls :
           \A e \in sealed'[j] : current_epoch[s] <= e <=> e \in inside'[s]
  OBVIOUS
<1> HIDE DEF i, N
<1>5. \A n \in DOMAIN frames : n # N => frames[n].impl # i
  BY <1>0, <1>1 DEF LogsUnique
<1>6. /\ current_epoch' \in [Impls -> Nat \ {0}]
      /\ current_epoch'[i] = END_OF_TIME
      /\ \A j \in Impls : j # i => current_epoch'[j] = current_epoch[j]
  <2>1. END_OF_TIME \in Nat \ {0}
    BY EpochFacts
  <2>2. current_epoch' \in [Impls -> Nat \ {0}]
    <3>1. current_epoch' = [current_epoch EXCEPT ![i] = END_OF_TIME]
      BY <1>3
    <3>2. [current_epoch EXCEPT ![i] = END_OF_TIME] \in [Impls -> Nat \ {0}]
      BY <1>0, <2>1, EpochStored
    <3> QED BY <3>1, <3>2, Zenon
  <2>3. /\ current_epoch'[i] = END_OF_TIME
        /\ \A j \in Impls : j # i => current_epoch'[j] = current_epoch[j]
    BY <1>0, <1>1, <1>3
  <2> QED BY <2>2, <2>3
<1>7. ThreadKeyTypeOK'
  <2>1. /\ slow' \in Impls \cup {Unborn, Destroyed}
        /\ cached' \in Impls \cup {None}
        /\ ref_count' \in [Impls -> Nat] /\ clear_tls' \in [Impls -> BOOLEAN]
        /\ keys' \in [Impls -> Nat] /\ synchs' \subseteq Impls
    BY <1>0 DEF ThreadKeyTypeOK
  <2>2. /\ clock' \in Nat /\ sealed' \in [Impls -> SUBSET Nat]
        /\ inside' \in [Impls -> SUBSET Nat]
    OBVIOUS
  <2> QED BY <1>2, <1>6, <2>1, <2>2 DEF ThreadKeyTypeOK, Frames, Kinds
<1>8. RefCounted'
  <2>1. \A j \in Impls :
          j \in synchs' <=> \/ ref_count[j] > 0
                           \/ \E n \in DOMAIN frames' : frames'[n].impl = j
    BY <1>2, RunFacts
  <2> QED BY <1>0, <2>1, RefsKept
<1>9. FrameInv'
  <2> SUFFICES ASSUME NEW n \in DOMAIN frames
               PROVE  LET j == frames'[n].impl
                      IN  /\ j \in synchs'
                          /\ frames'[n].kind = "tx" \/ slow' = j => keys'[j] > 0
                          /\ frames'[n].kind = "tx" => current_epoch'[j] <= clock'
                          /\ frames'[n].kind # "tx" => current_epoch'[j] = END_OF_TIME
                          /\ frames'[n].kind = "quiesce" => sealed'[j] # {}
    BY <1>2 DEF FrameInv
  <2>1. CASE n = N
    <3>1. frames'[n].impl = i /\ frames'[n].kind = k
      BY <1>1, <1>2, <2>1
    <3>2. i \in synchs /\ (slow = i => keys[i] > 0)
      BY <1>0, <1>1 DEF FrameInv
    <3> QED BY <1>3, <1>6, <3>1, <3>2
  <2>2. CASE n # N
    <3>1. /\ frames'[n] = frames[n] /\ frames[n].impl # i
          /\ frames[n].impl \in Impls
      BY <1>1, <1>2, <1>5, <2>2
    <3>2. current_epoch'[frames[n].impl] = current_epoch[frames[n].impl]
      BY <1>6, <3>1
    <3>3. sealed[frames[n].impl] # {} => sealed'[frames[n].impl] # {}
      BY <1>3, <3>1
    <3>4. frames[n].kind = "tx" => current_epoch[frames[n].impl] <= clock'
      BY <1>0, <3>1 DEF FrameInv
    <3> QED BY <1>0, <3>1, <3>2, <3>3, <3>4 DEF FrameInv
  <2> QED BY <2>1, <2>2
<1>10. LogsUnique'
  BY <1>0, <1>2 DEF LogsUnique
<1>11. IdleInv'
  <2> SUFFICES ASSUME NEW j \in synchs,
                      \A n \in DOMAIN frames : frames[n].impl # j
               PROVE  current_epoch'[j] = INACTIVE_EPOCH
    BY <1>2 DEF IdleInv
  <2>1. j # i /\ j \in Impls
    BY <1>0, <1>1
  <2> QED BY <1>0, <1>6, <2>1 DEF IdleInv
<1>12. InsideInv'
  <2>1. \A s \in Impls \ {i} : InTransaction(s) => InTransaction(s)'
    BY <1>1, <1>2 DEF InTransaction
  <2>2. \A j \in Impls : \A e \in sealed'[j] : ~ (END_OF_TIME <= e)
    BY EpochFacts DEF ClockInv
  <2> QED BY <1>0, <1>4, <1>6, <2>1, <2>2 DEF InsideInv
<1>13. CacheInv'
  BY <1>0 DEF CacheInv
<1> QED BY <1>7, <1>8, <1>9, <1>10, <1>11, <1>12, <1>13 DEF KeyInv

(* The transactions further down in the stack are pinned in the past, and  *)
(* everybody else is ahead of the commit.                                  *)
LEMMA CommitStep ==
  ASSUME KeyInv, Commit
  PROVE  KeyInv'
<1> DEFINE i == Top.impl
           N == Len(frames)
<1>0. /\ ThreadKeyTypeOK /\ RefCounted /\ FrameInv /\ ClockInv /\ IdleInv
      /\ clock \in Nat /\ FIRST <= clock
      /\ sealed \in [Impls -> SUBSET Nat] /\ synchs \subseteq Impls
  BY RunFacts DEF ClockInv
<1>1. /\ frames # <<>> /\ Top.kind = "tx" /\ clock < MaxEpoch
      /\ sealed' = [sealed EXCEPT ![i] = @ \cup {clock}]
      /\ inside' = [s \in Impls |->
                     IF s = i THEN {}
                     ELSE IF InTransaction(s) THEN inside[s] \cup {clock}
                                              ELSE inside[s]]
      /\ clock' = next(clock)
      /\ UNCHANGED <<slow, cached, ref_count, clear_tls, keys, synchs>>
  BY DEF Commit, Running, tls, refs
<1>2. \/ /\ current_epoch' = [current_epoch EXCEPT ![i] = END_OF_TIME]
         /\ frames' = Becomes("quiesce")
      \/ Unpin(i) /\ frames' = Popped
  BY DEF Commit, collect_epoch
<1>3. /\ N \in DOMAIN frames /\ i = frames[N].impl /\ i \in Impls
      /\ frames[N].kind = "tx"
      /\ \A n \in DOMAIN frames : frames[n].impl \in Impls
  BY <1>0, <1>1, FramesType DEF Top
<1>4. /\ clock' \in Nat /\ clock < clock' /\ clock' < LOCK_BIT
      /\ clock < END_OF_TIME /\ clock < INACTIVE_EPOCH
  BY <1>0, <1>1, EpochFacts
<1>5. /\ sealed' \in [Impls -> SUBSET Nat] /\ sealed'[i] # {}
      /\ \A j \in Impls : sealed[j] \subseteq sealed'[j]
      /\ \A j \in Impls : \A e \in sealed'[j] : e \in sealed[j] \/ e = clock
  <2> HIDE DEF i
  <2> QED BY <1>0, <1>1, <1>3
<1>6. ClockInv'
  BY <1>0, <1>4, <1>5, EpochFacts DEF ClockInv
<1>7. ref_count[i] > 0
  <2>1. keys[i] > 0 /\ keys[i] \in Nat
    BY <1>0, <1>3 DEF FrameInv, ThreadKeyTypeOK
  <2>2. ref_count[i] = keys[i] + (IF slow = i THEN 1 ELSE 0)
    BY <1>0, <1>3 DEF RefCounted
  <2> HIDE DEF i
  <2> QED BY <2>1, <2>2
<1>a. /\ inside' \in [Impls -> SUBSET Nat] /\ inside'[i] = {}
      /\ \A s \in Impls : ~ InTransaction(s) => inside'[s] = {}
      /\ \A s \in Impls \ {i} :
           inside'[s] = IF InTransaction(s) THEN inside[s] \cup {clock}
                                            ELSE inside[s]
  <2>1. InsideInv /\ inside \in [Impls -> SUBSET Nat]
    BY RunFacts
  <2> HIDE DEF i
  <2> QED BY <1>0, <1>1, <1>3, <2>1 DEF InsideInv
<1>8. \A s \in synchs \ {i}, j \in Impls :
        \A e \in sealed'[j] : current_epoch[s] <= e <=> e \in inside'[s]
  <2> SUFFICES ASSUME NEW s \in synchs, s # i, NEW j \in Impls,
                      NEW e \in sealed'[j]
               PROVE  current_epoch[s] <= e <=> e \in inside'[s]
    OBVIOUS
  <2>1. InsideInv /\ s \in Impls /\ current_epoch[s] \in Nat
    BY <1>0, RunFacts
  <2>2. CASE e \in sealed[j]
    <3>1. e # clock
      BY <1>0, <2>2, RunFacts
    <3>2. e \in inside'[s] <=> e \in inside[s]
      BY <1>a, <2>1, <3>1
    <3> QED BY <2>1, <2>2, <3>2 DEF InsideInv
  <2>3. CASE e = clock
    <3>1. CASE InTransaction(s)
      <4>1. current_epoch[s] <= clock
        BY <1>0, <3>1 DEF InTransaction, FrameInv
      <4> QED BY <1>a, <2>1, <2>3, <3>1, <4>1
    <3>2. CASE ~ InTransaction(s)
      <4>1. current_epoch[s] \in {END_OF_TIME, INACTIVE_EPOCH}
        BY <1>0, <3>2 DEF InTransaction, FrameInv, IdleInv
      <4>2. e \notin inside'[s]
        BY <1>a, <2>1, <3>2
      <4> QED BY <1>0, <1>4, <2>3, <4>1, <4>2, EpochFacts
    <3> QED BY <3>1, <3>2
  <2> QED BY <1>5, <2>2, <2>3
<1>9. CASE Unpin(i) /\ frames' = Popped
  <2>1. clock <= clock'
    BY <1>0, <1>4
  <2>2. KeyInv /\ frames # <<>>
    BY <1>1
  <2> QED BY <1>1, <1>4, <1>5, <1>6, <1>7, <1>8, <1>9, <1>a, <2>1, <2>2, ReturnStep
<1>10. CASE /\ current_epoch' = [current_epoch EXCEPT ![i] = END_OF_TIME]
            /\ frames' = Becomes("quiesce")
  <2>1. \A j \in Impls \ {i} : sealed[j] \subseteq sealed'[j]
    BY <1>5
  <2>2. clock <= clock'
    BY <1>0, <1>4
  <2> QED BY <1>1, <1>4, <1>5, <1>6, <1>8, <1>10, <1>a, <2>1, <2>2, CollectStep
<1> QED BY <1>2, <1>9, <1>10

LEMMA QuiesceStep ==
  ASSUME KeyInv, Quiesce
  PROVE  KeyInv'
<1> DEFINE i == Top.impl
           N == Len(frames)
<1>0. /\ ThreadKeyTypeOK /\ FrameInv /\ ClockInv
      /\ clock \in Nat /\ current_epoch \in [Impls -> Nat \ {0}]
      /\ sealed \in [Impls -> SUBSET Nat] /\ synchs \subseteq Impls
  BY RunFacts
<1>1. /\ frames # <<>> /\ Top.kind = "quiesce"
      /\ frames' = Becomes("collect")
      /\ UNCHANGED <<slow, cached, ref_count, clear_tls, keys, synchs, clock,
                     current_epoch, inside>>
  BY DEF Quiesce, Running, tls, refs
<1>2. PICK others : sealed' = [sealed EXCEPT ![i] =
                                {e \in @ : e >= others
                                   \/ \E s \in synchs : current_epoch[s] <= e}]
  BY DEF Quiesce
<1>3. N \in DOMAIN frames /\ i = frames[N].impl /\ i \in Impls
  BY <1>0, <1>1, FramesType DEF Top
<1>4. current_epoch' = [current_epoch EXCEPT ![i] = END_OF_TIME]
  <2>1. current_epoch[i] = END_OF_TIME
    BY <1>0, <1>1, <1>3 DEF FrameInv, Top
  <2> HIDE DEF i
  <2> QED BY <1>0, <1>1, <1>3, <2>1
<1>5. /\ sealed' \in [Impls -> SUBSET Nat]
      /\ \A j \in Impls \ {i} : sealed[j] \subseteq sealed'[j]
      /\ \A j \in Impls : sealed'[j] \subseteq sealed[j]
  <2> HIDE DEF i
  <2> QED BY <1>0, <1>2, <1>3
<1>6. ClockInv'
  BY <1>0, <1>1, <1>5 DEF ClockInv
<1>7. /\ \A s \in synchs \ {i}, j \in Impls :
           \A e \in sealed'[j] : current_epoch[s] <= e <=> e \in inside'[s]
      /\ \A s \in Impls : ~ InTransaction(s) => inside'[s] = {}
      /\ inside' \in [Impls -> SUBSET Nat]
  BY <1>1, <1>5, RunFacts DEF InsideInv
<1>a. inside'[i] = {}
  <2>1. ~ InTransaction(i)
    BY <1>1, <1>3, RunFacts DEF InTransaction, LogsUnique, Top
  <2> QED BY <1>3, <1>7, <2>1
<1>8. clock' \in Nat /\ clock <= clock'
  BY <1>0, <1>1
<1>9. "collect" \in {"quiesce", "collect"} /\ "collect" # "quiesce"
  OBVIOUS
<1> QED BY <1>1, <1>4, <1>5, <1>6, <1>7, <1>8, <1>9, <1>a, CollectStep, Zenon

LEMMA CollectedStep ==
  ASSUME KeyInv, Collected
  PROVE  KeyInv'
<1> DEFINE i == Top.impl
           N == Len(frames)
<1>0. /\ ThreadKeyTypeOK /\ RefCounted /\ FrameInv /\ ClockInv /\ LogsUnique
      /\ IdleInv /\ CacheInv
      /\ clock \in Nat /\ synchs \subseteq Impls
      /\ sealed \in [Impls -> SUBSET Nat]
      /\ ref_count \in [Impls -> Nat]
  BY RunFacts DEF ThreadKeyTypeOK
<1>1. /\ frames # <<>> /\ frames' = Popped
      /\ UNCHANGED <<slow, cached, ref_count, clear_tls, keys, clock, sealed,
                     inside>>
      /\ Top.kind = "collect"
  BY DEF Collected, Running, tls, refs
<1>2. /\ N \in DOMAIN frames /\ i = frames[N].impl /\ i \in Impls
      /\ \A n \in DOMAIN frames : frames[n].impl \in Impls
  BY <1>0, <1>1, FramesType DEF Top
<1>a. ~ InTransaction(i)
  BY <1>0, <1>1, <1>2 DEF InTransaction, LogsUnique, Top
<1>3. CASE ~ Dying(i)
  <2>1. Unpin(i) /\ synchs' = synchs
    BY <1>3 DEF Collected
  <2>2. ref_count[i] > 0
    BY <1>0, <1>2, <1>3 DEF Dying
  <2>3. /\ \A s \in synchs \ {i}, j \in Impls :
             \A e \in sealed'[j] : current_epoch[s] <= e <=> e \in inside'[s]
        /\ \A s \in Impls : ~ InTransaction(s) => inside'[s] = {}
        /\ inside' \in [Impls -> SUBSET Nat]
    BY <1>1, RunFacts DEF InsideInv
  <2>5. inside'[i] = {}
    BY <1>2, <1>a, <2>3
  <2>4. /\ clock' \in Nat /\ clock <= clock' /\ ClockInv'
        /\ sealed' \in [Impls -> SUBSET Nat]
        /\ \A j \in Impls : sealed[j] \subseteq sealed'[j]
    BY <1>0, <1>1 DEF ClockInv
  <2> QED BY <1>1, <2>1, <2>2, <2>3, <2>4, <2>5, ReturnStep
<1>4. CASE Dying(i)
  <2>1. synchs' = synchs \ {i} /\ current_epoch' = current_epoch
    BY <1>4 DEF Collected
  <2>2. /\ frames' \in Seq(Frames)
        /\ \A n \in DOMAIN frames' : /\ n \in DOMAIN frames
                                     /\ n # N /\ frames'[n] = frames[n]
        /\ \A n \in DOMAIN frames : n \in DOMAIN frames' \/ n = N
    BY <1>0, <1>1, PoppedFrames
  <2>3. ref_count[i] = 0
    BY <1>4 DEF Dying
  <2> HIDE DEF i, N
  <2>4. \A n \in DOMAIN frames' : frames'[n].impl # i
    BY <1>0, <1>2, <2>2 DEF LogsUnique
  <2>5. ThreadKeyTypeOK'
    BY <1>0, <1>1, <2>1, <2>2 DEF ThreadKeyTypeOK, Frames, Kinds
  <2>6. RefCounted'
    <3>1. \A j \in Impls : j # i =>
            ((\E n \in DOMAIN frames' : frames'[n].impl = j) <=>
             (\E n \in DOMAIN frames : frames[n].impl = j))
      BY <1>2, <2>2
    <3>2. \A j \in Impls :
            j \in synchs' <=> \/ ref_count[j] > 0
                             \/ \E n \in DOMAIN frames' : frames'[n].impl = j
      BY <2>1, <2>3, <2>4, <3>1, RunFacts
    <3> QED BY <1>0, <1>1, <3>2, RefsKept
  <2>7. FrameInv'
    BY <1>0, <1>1, <2>1, <2>2, <2>4 DEF FrameInv
  <2>8. LogsUnique'
    BY <1>0, <2>2 DEF LogsUnique
  <2>9. IdleInv'
    <3> SUFFICES ASSUME NEW j \in synchs, j # i,
                        \A n \in DOMAIN frames' : frames'[n].impl # j
                 PROVE  current_epoch[j] = INACTIVE_EPOCH
      BY <2>1 DEF IdleInv
    <3>1. \A n \in DOMAIN frames : frames[n].impl # j
      BY <1>2, <2>2
    <3> QED BY <1>0, <3>1 DEF IdleInv
  <2>10. InsideInv'
    <3>1. \A s \in Impls : InTransaction(s) => InTransaction(s)'
      BY <1>2, <1>a, <2>2 DEF InTransaction
    <3> QED BY <1>1, <2>1, <3>1, RunFacts DEF InsideInv
  <2>11. ClockInv' /\ CacheInv'
    BY <1>0, <1>1 DEF ClockInv, CacheInv
  <2> QED BY <2>5, <2>6, <2>7, <2>8, <2>9, <2>10, <2>11 DEF KeyInv
<1> QED BY <1>3, <1>4

-----------------------------------------------------------------------------
(* The references, the stack and the pins agree, whatever destructors do   *)
(* while their Thread is being unsubscribed, for any number of Threads.    *)
THEOREM KeyInvariance == Spec => []KeyInv
<1>1. KeyInv /\ [Next]_vars => KeyInv'
  <2> SUFFICES ASSUME KeyInv, [Next]_vars PROVE KeyInv'
    OBVIOUS
  <2>1. CASE UNCHANGED vars
    BY <2>1 DEF vars, tls, refs, KeyInv, ThreadKeyTypeOK, RefCounted,
                LogsUnique, FrameInv, ClockInv, IdleInv, CacheInv, InsideInv,
                InTransaction
  <2>2. ASSUME NEW i \in Impls, Get(i) \/ Clone(i) PROVE KeyInv'
    BY <2>2, CountStep
  <2>3. ASSUME NEW i \in Impls, GetFirst(i) \/ GetTemporary(i) PROVE KeyInv'
    BY <2>3, NewStep
  <2>4. ASSUME NEW i \in Impls, DropKey(i) \/ DestroySlow(i) PROVE KeyInv'
    BY <2>4, ReleaseStep
  <2>5. ASSUME NEW i \in Impls, TryPin(i) PROVE KeyInv'
    BY <2>5, TryPinStep
  <2>6. CASE Finish BY <2>6, FinishStep
  <2>7. CASE Repin BY <2>7, RepinStep
  <2>8. CASE Tick BY <2>8, TickStep
  <2>9. CASE Commit BY <2>9, CommitStep
  <2>10. CASE Quiesce BY <2>10, QuiesceStep
  <2>11. CASE Collected BY <2>11, CollectedStep
  <2> QED BY <2>1, <2>2, <2>3, <2>4, <2>5, <2>6, <2>7, <2>8, <2>9, <2>10,
             <2>11 DEF Next
<1> QED BY <1>1, InitKey, PTL DEF Spec

(* Every variable keeps its type; in particular, no epoch becomes zero     *)
(* (ThreadEpoch::get).                                                     *)
THEOREM ThreadKeyTypes == Spec => []ThreadKeyTypeOK
<1>1. KeyInv => ThreadKeyTypeOK
  BY DEF KeyInv
<1> QED BY <1>1, KeyInvariance, PTL

(* Phoenix::clone, Phoenix::drop and the cached pointer of thread_key::get *)
(* keep an exact count, before, during and after the exit of the thread.   *)
THEOREM ReferencesAreCounted == Spec => []RefCounted
<1>1. KeyInv => RefCounted
  BY DEF KeyInv
<1> QED BY <1>1, KeyInvariance, PTL

(* The mutable access of try_pin to the Logs is exclusive, also if a       *)
(* destructor runs transactions while a collection calls it.               *)
THEOREM LogsAreUnique == Spec => []LogsUnique
<1>1. KeyInv => LogsUnique
  BY DEF KeyInv
<1> QED BY <1>1, KeyInvariance, PTL

(* A thread waits in local_quiesce for a transaction of its own exactly if *)
(* the bag in question was sealed inside of that transaction: nothing else *)
(* that closures and destructors do with keys makes it wait for itself.    *)
THEOREM SelfWaitsAreNested == Spec => []OnlyNestedSelfWaits
<1>1. KeyInv => OnlyNestedSelfWaits
  <2> SUFFICES ASSUME KeyInv, Running("quiesce"), NEW s \in synchs
               PROVE  is_quiesced(s, quiesce_epoch(Top.impl)) <=>
                        quiesce_epoch(Top.impl) \notin inside[s]
    BY DEF OnlyNestedSelfWaits
  <2> DEFINE T == sealed[Top.impl]
  <2>1. frames # <<>> /\ Top.kind = "quiesce"
    BY DEF Running
  <2>2. Len(frames) \in DOMAIN frames /\ Top.impl \in Impls
    BY <2>1, RunFacts, FramesType DEF Top
  <2>3. /\ T \in SUBSET Nat /\ T # {} /\ clock \in Nat
        /\ \A e \in T : e <= clock
    BY <2>1, <2>2, RunFacts DEF FrameInv, Top
  <2>4. quiesce_epoch(Top.impl) \in T
    <3> HIDE DEF T
    <3>1. \E e \in T : \A d \in T : e >= d
      BY <2>3, GreatestNatural
    <3>2. \E e \in T : \A d \in T : e =< d
      BY <2>3, LeastNatural
    <3>3. Max(T) \in T /\ Min(T) \in T
      BY <3>1, <3>2, Zenon DEF Max, Min
    <3> QED BY <3>3 DEF quiesce_epoch, T
  <2>5. /\ current_epoch[s] <= quiesce_epoch(Top.impl) <=>
             quiesce_epoch(Top.impl) \in inside[s]
        /\ current_epoch[s] \in Nat /\ quiesce_epoch(Top.impl) \in Nat
    BY <2>2, <2>3, <2>4, RunFacts DEF InsideInv
  <2> QED BY <2>5 DEF is_quiesced
<1> QED BY <1>1, KeyInvariance, PTL
=============================================================================
