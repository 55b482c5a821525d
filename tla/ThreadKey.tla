----------------------------- MODULE ThreadKey -----------------------------
(***************************************************************************)
(* thread_key::get and the phoenix thread local behind it                  *)
(* (src/thread_key.rs, src/internal/phoenix_tls.rs), on one thread of the  *)
(* operating system.  A Phoenix is a reference counted Thread.  The first  *)
(* one belongs to the thread local __SLOW and is cached; when the thread   *)
(* exits, __SLOW is destroyed, and later calls of get make temporaries.    *)
(*                                                                         *)
(* User code runs outside of transactions, in closures, and in the         *)
(* destructors that a collection calls; it may use keys in all three.      *)
(* `frames` is the call stack of the transactions and collections that     *)
(* have not returned.  Of the other threads there is only their clock and  *)
(* their minimal epoch: whatever they hold up, they let go of (Gc).        *)
(***************************************************************************)
EXTENDS Epoch, Sequences, FiniteSets, FiniteSetsExt

CONSTANTS
  Impls,       \* the addresses that a PhoenixImpl may get
  BAG_COUNT,   \* UNUSED_BAG_COUNT
  MaxKeys,     \* bound: keys to one Phoenix
  MaxEpoch,    \* bound: no commit ticks the clock beyond this
  None, Unborn, Destroyed

ASSUME ThreadKeyAssumption ==
  /\ BAG_COUNT \in Nat \ {0, 1}
  /\ MaxKeys \in Nat \ {0}
  /\ MaxEpoch \in Nat /\ MaxEpoch < LOCK_BIT - 1
  /\ Impls \cap {None, Unborn, Destroyed} = {}

VARIABLES
  slow,           \* __SLOW
  cached,         \* THREAD_KEY, the pointer in front of it
  ref_count,      \* PhoenixImpl::ref_count
  clear_tls,      \* PhoenixImpl::clear_tls: is there a function?
  keys,           \* the ThreadKeys that the user's code owns
  clock,          \* EPOCH_CLOCK
  current_epoch,  \* Synch::current_epoch
  sealed,         \* the epochs of the sealed bags
  synchs,         \* the registered Threads
  frames,         \* what is running
  inside          \* history: the epochs that commits further up in the stack
                  \* have sealed since a transaction has last been pinned

tls  == <<slow, cached>>
refs == <<ref_count, clear_tls, keys>>
vars == <<tls, refs, clock, current_epoch, sealed, synchs, frames, inside>>

END_OF_TIME == LOCK_BIT - 1

Top == frames[Len(frames)]
Popped == SubSeq(frames, 1, Len(frames) - 1)
Pushed(kind, i) == Append(frames, [kind |-> kind, impl |-> i])
Becomes(kind) == [frames EXCEPT ![Len(frames)].kind = kind]

Running(kind) == frames # <<>> /\ Top.kind = kind

UserRuns == ~ Running("quiesce")

InTransaction(i) ==
  \E n \in DOMAIN frames : frames[n].kind = "tx" /\ frames[n].impl = i

Dying(i) == ref_count[i] = 0

Init ==
  /\ slow = Unborn
  /\ cached = None
  /\ ref_count = [i \in Impls |-> 0]
  /\ clear_tls = [i \in Impls |-> FALSE]
  /\ keys = [i \in Impls |-> 0]
  /\ clock = FIRST
  /\ current_epoch = [i \in Impls |-> INACTIVE_EPOCH]
  /\ sealed = [i \in Impls |-> {}]
  /\ synchs = {}
  /\ frames = <<>>
  /\ inside = [i \in Impls |-> {}]

-----------------------------------------------------------------------------
(* Getting and cloning keys.                                               *)

(* Mutant: the cached pointer is never cleared.                            *)
clears_never(owner) == FALSE

(* __SLOW is made with a function that clears the cache, a temporary       *)
(* without one.                                                            *)
clears(owner) == owner = Unborn

(* Phoenix::new, with Thread::new and subscribe, for a first key.          *)
New(i, count) ==
  /\ i \notin synchs
  /\ ref_count' = [ref_count EXCEPT ![i] = count]
  /\ clear_tls' = [clear_tls EXCEPT ![i] = clears(slow)]
  /\ keys' = [keys EXCEPT ![i] = 1]
  /\ current_epoch' = [current_epoch EXCEPT ![i] = INACTIVE_EPOCH]
  /\ synchs' = synchs \cup {i}
  /\ UNCHANGED <<clock, sealed, frames, inside>>

(* get, when there is a cached pointer: clone_raw.                         *)
Get(i) ==
  /\ UserRuns
  /\ cached = i
  /\ keys[i] < MaxKeys
  /\ ref_count' = [ref_count EXCEPT ![i] = @ + 1]
  /\ keys' = [keys EXCEPT ![i] = @ + 1]
  /\ UNCHANGED <<tls, clear_tls, clock, current_epoch, sealed, synchs, frames,
                 inside>>

(* init, the first time: __SLOW holds a reference, and so does the key.    *)
GetFirst(i) ==
  /\ UserRuns
  /\ cached = None /\ slow = Unborn
  /\ New(i, 2)
  /\ slow' = i
  /\ cached' = i

(* init, when try_with fails: the temporary is dropped after the clone.    *)
GetTemporary(i) ==
  /\ UserRuns
  /\ cached = None /\ slow = Destroyed
  /\ New(i, 1)
  /\ UNCHANGED tls

(* ThreadKey::clone.                                                       *)
Clone(i) ==
  /\ UserRuns
  /\ keys[i] \in 1..MaxKeys - 1
  /\ ref_count' = [ref_count EXCEPT ![i] = @ + 1]
  /\ keys' = [keys EXCEPT ![i] = @ + 1]
  /\ UNCHANGED <<tls, clear_tls, clock, current_epoch, sealed, synchs, frames,
                 inside>>

-----------------------------------------------------------------------------
(* Dropping them.                                                          *)

(* Mutant: a thread that collects looks like one that is not pinned.       *)
collect_epoch_inactive == INACTIVE_EPOCH

(* ThreadEpoch::set_collect_epoch.                                         *)
collect_epoch == END_OF_TIME

(* Thread::unsubscribe: synch_and_collect_all first, if there is garbage.  *)
Unsubscribe(i) ==
  IF sealed[i] = {}
    THEN /\ synchs' = synchs \ {i}
         /\ UNCHANGED <<current_epoch, frames>>
    ELSE /\ current_epoch' = [current_epoch EXCEPT ![i] = collect_epoch]
         /\ frames' = Pushed("quiesce", i)
         /\ UNCHANGED synchs

(* Phoenix::drop: the last reference clears the cache and unsubscribes.    *)
Release(i) ==
  /\ ref_count' = [ref_count EXCEPT ![i] = @ - 1]
  /\ IF ref_count[i] = 1
       THEN /\ cached' = IF clear_tls[i] THEN None ELSE cached
            /\ Unsubscribe(i)
       ELSE UNCHANGED <<cached, current_epoch, synchs, frames>>
  /\ UNCHANGED <<clear_tls, clock, sealed, inside>>

(* A transaction borrows the key that it runs on.                          *)
Borrowed(i) ==
  Cardinality({n \in DOMAIN frames : frames[n].impl = i /\ ~ Dying(i)})

DropKey(i) ==
  /\ UserRuns
  /\ keys[i] > Borrowed(i)
  /\ keys' = [keys EXCEPT ![i] = @ - 1]
  /\ Release(i)
  /\ UNCHANGED slow

(* The thread exits and its thread locals are destroyed; those of the user *)
(* may still hold keys and run transactions afterwards.                    *)
DestroySlow(i) ==
  /\ frames = <<>>
  /\ slow = i
  /\ slow' = Destroyed
  /\ Release(i)
  /\ UNCHANGED keys

-----------------------------------------------------------------------------
(* Transactions.                                                           *)

(* Thread::is_pinned.                                                      *)
is_pinned(i) == current_epoch[i] # INACTIVE_EPOCH

Forget(i) == inside' = [inside EXCEPT ![i] = {}]

(* try_read and try_rw: Pin::try_new.  A pinned Thread returns an error,   *)
(* but a closure may run a transaction on another one.                     *)
TryPin(i) ==
  /\ UserRuns
  /\ keys[i] > 0
  /\ ~ is_pinned(i)
  /\ current_epoch' = [current_epoch EXCEPT ![i] = clock]
  /\ frames' = Pushed("tx", i)
  /\ Forget(i)
  /\ UNCHANGED <<tls, refs, clock, sealed, synchs>>

(* Mutant: the pin is reset to zero.                                       *)
inactive_zero == 0

(* ThreadEpoch::unpin.                                                     *)
inactive == INACTIVE_EPOCH

Unpin(i) == current_epoch' = [current_epoch EXCEPT ![i] = inactive]

(* run_read or run_rw returns, or the closure panics.                      *)
Finish ==
  /\ Running("tx")
  /\ Unpin(Top.impl)
  /\ frames' = Popped
  /\ Forget(Top.impl)
  /\ UNCHANGED <<tls, refs, clock, sealed, synchs>>

(* Another attempt, at the present.                                        *)
Repin ==
  /\ Running("tx")
  /\ current_epoch' = [current_epoch EXCEPT ![Top.impl] = clock]
  /\ Forget(Top.impl)
  /\ UNCHANGED <<tls, refs, clock, sealed, synchs, frames>>

(* Another thread commits.                                                 *)
Tick ==
  /\ clock < MaxEpoch
  /\ clock' = next(clock)
  /\ UNCHANGED <<tls, refs, current_epoch, sealed, synchs, frames, inside>>

(* run_rw commits and has something to destroy: seal_with_epoch.           *)
Commit ==
  /\ Running("tx")
  /\ clock < MaxEpoch
  /\ LET i == Top.impl
     IN /\ sealed' = [sealed EXCEPT ![i] = @ \cup {clock}]
        /\ IF Cardinality(sealed'[i]) = BAG_COUNT - 1
             THEN /\ current_epoch' =
                       [current_epoch EXCEPT ![i] = collect_epoch]
                  /\ frames' = Becomes("quiesce")
             ELSE /\ Unpin(i)
                  /\ frames' = Popped
        /\ inside' = [s \in Impls |->
                       IF s = i THEN {}
                       ELSE IF InTransaction(s) THEN inside[s] \cup {clock}
                                                ELSE inside[s]]
  /\ clock' = next(clock)
  /\ UNCHANGED <<tls, refs, synchs>>

-----------------------------------------------------------------------------
(* Collections.                                                            *)

(* Mutant: the collector waits for the present.                            *)
quiesce_now(i) == clock

(* earliest_epoch_unchecked, or latest_epoch_unchecked in unsubscribe.     *)
quiesce_epoch(i) == IF Dying(i) THEN Max(sealed[i]) ELSE Min(sealed[i])

is_quiesced(s, e) == current_epoch[s] > e

(* FreezeList::quiesce has seen every Synch of the list, and collect drops *)
(* the bags before their minimum; `others` is that of the other threads.   *)
Quiesce ==
  /\ Running("quiesce")
  /\ \A s \in synchs : is_quiesced(s, quiesce_epoch(Top.impl))
  /\ \E others \in sealed[Top.impl] \cup {INACTIVE_EPOCH} :
       /\ others > quiesce_epoch(Top.impl)
       /\ sealed' = [sealed EXCEPT ![Top.impl] =
                       {e \in @ : e >= others
                                  \/ \E s \in synchs : current_epoch[s] <= e}]
  /\ frames' = Becomes("collect")
  /\ UNCHANGED <<tls, refs, clock, current_epoch, synchs, inside>>

(* collect has run the destructors: back in run_rw, or in unsubscribe.     *)
Collected ==
  /\ Running("collect")
  /\ IF Dying(Top.impl)
       THEN synchs' = synchs \ {Top.impl} /\ UNCHANGED current_epoch
       ELSE Unpin(Top.impl) /\ UNCHANGED synchs
  /\ frames' = Popped
  /\ UNCHANGED <<tls, refs, clock, sealed, inside>>

Next ==
  \/ \E i \in Impls : \/ Get(i)
                      \/ GetFirst(i)
                      \/ GetTemporary(i)
                      \/ Clone(i)
                      \/ DropKey(i)
                      \/ DestroySlow(i)
                      \/ TryPin(i)
  \/ Finish
  \/ Repin
  \/ Tick
  \/ Commit
  \/ Quiesce
  \/ Collected

Spec == Init /\ [][Next]_vars

-----------------------------------------------------------------------------
(* Properties.                                                             *)

(* Every variable keeps its type.  ThreadEpoch::get relies on an epoch     *)
(* that is never zero.                                                     *)
ThreadKeyTypeOK ==
  /\ slow \in Impls \cup {Unborn, Destroyed}
  /\ cached \in Impls \cup {None}
  /\ ref_count \in [Impls -> Nat]
  /\ clear_tls \in [Impls -> BOOLEAN]
  /\ keys \in [Impls -> Nat]
  /\ clock \in Nat
  /\ current_epoch \in [Impls -> Nat \ {0}]
  /\ sealed \in [Impls -> SUBSET Nat]
  /\ synchs \subseteq Impls
  /\ frames \in Seq([kind : {"tx", "quiesce", "collect"}, impl : Impls])
  /\ inside \in [Impls -> SUBSET Nat]

(* "this is safe as long as the reference counting logic is safe"          *)
(* (phoenix_tls.rs): whatever a destructor does while its Thread is being  *)
(* unsubscribed, the cached pointer leads to a Thread with references, the *)
(* references are those that exist, and a Thread is in the list from its   *)
(* subscribe until the end of its unsubscribe.                             *)
RefCounted ==
  /\ cached # None => ref_count[cached] > 0
  /\ \A i \in Impls :
       /\ ref_count[i] = keys[i] + (IF slow = i THEN 1 ELSE 0)
       /\ i \in synchs <=> \/ ref_count[i] > 0
                           \/ \E n \in DOMAIN frames : frames[n].impl = i

(* try_pin "makes mutable access to Logs safe" (thread.rs): the logs and   *)
(* bags of a Thread are used by one transaction or collection at a time,   *)
(* the destructors that a collection calls included.                       *)
LogsUnique ==
  \A m, n \in DOMAIN frames : frames[m].impl = frames[n].impl => m = n

(* Synch::local_quiesce: "The calling thread must be different from the    *)
(* thread owning self, or self must be inactive, else deadlock".  A        *)
(* collection waits for a transaction further down in its own stack, which *)
(* is for ever, exactly if the bag it has to wait for was sealed inside of *)
(* that transaction, by a transaction that its closure ran on another key. *)
(* No other use of keys in closures and destructors does that.             *)
OnlyNestedSelfWaits ==
  Running("quiesce") =>
    \A s \in synchs :
      is_quiesced(s, quiesce_epoch(Top.impl)) <=>
        quiesce_epoch(Top.impl) \notin inside[s]

-----------------------------------------------------------------------------
(* What makes these properties inductive.                                  *)

(* A transaction keeps the key that it borrows and is pinned in the past;  *)
(* a collection looks like the end of time, and has something to collect.  *)
FrameInv ==
  \A n \in DOMAIN frames :
    LET i == frames[n].impl
    IN  /\ i \in synchs
        /\ frames[n].kind = "tx" \/ slow = i => keys[i] > 0
        /\ frames[n].kind = "tx" => current_epoch[i] <= clock
        /\ frames[n].kind # "tx" => current_epoch[i] = END_OF_TIME
        /\ frames[n].kind = "quiesce" => sealed[i] # {}

(* Who is pinned at or before a bag was so when the bag was sealed.        *)
InsideInv ==
  /\ \A s \in Impls : ~ InTransaction(s) => inside[s] = {}
  /\ \A s \in synchs, i \in Impls : \A e \in sealed[i] :
       current_epoch[s] <= e <=> e \in inside[s]

(* What was committed here was committed in the past.                      *)
ClockInv ==
  /\ FIRST <= clock /\ clock < LOCK_BIT
  /\ \A i \in Impls : \A e \in sealed[i] : e < clock

(* A registered Thread that nothing runs on is not pinned.                 *)
IdleInv ==
  \A i \in synchs :
    (\A n \in DOMAIN frames : frames[n].impl # i) =>
      current_epoch[i] = INACTIVE_EPOCH

(* Whoever drops the last reference to what is cached clears the cache.    *)
CacheInv == cached # None => clear_tls[cached]

(* The inductive invariant.                                                *)
KeyInv ==
  /\ ThreadKeyTypeOK /\ RefCounted /\ LogsUnique
  /\ FrameInv /\ ClockInv /\ IdleInv /\ CacheInv /\ InsideInv
=============================================================================
