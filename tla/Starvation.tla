----------------------------- MODULE Starvation -----------------------------
(***************************************************************************)
(* src/internal/starvation.rs: a thread that keeps failing becomes the     *)
(* starver, and until it has made progress no other thread enters its      *)
(* commit.  Waiting threads sleep in a queue of parking_lot; the starver   *)
(* wakes them in order up to the first that is starving, too, and hands    *)
(* control to it.                                                          *)
(*                                                                         *)
(* Epochs are counted relative to each thread, in ticks, and only up to    *)
(* MAX_ELAPSED, which is all that Progress compares them with: behaviours  *)
(* do not end, and liveness can be checked.  A transaction may fail when   *)
(* another one is committing or has committed since it was pinned.         *)
(***************************************************************************)
EXTENDS Integers, Sequences, FiniteSets

CONSTANTS
  Threads,
  Disjoint,       \* those whose transactions share no cell with the others
  SPIN_LIMIT,
  YIELD_LIMIT,
  MAX_ELAPSED     \* MAX_ELAPSED_EPOCHS, in ticks

ASSUME StarvationAssumption ==
  /\ Disjoint \subseteq Threads
  /\ SPIN_LIMIT \in Nat /\ YIELD_LIMIT \in Nat
  /\ SPIN_LIMIT < YIELD_LIMIT
  /\ MAX_ELAPSED \in Nat \ {0}

VARIABLES
  locked_bit,    \* LOCKED_BIT of Starvation::state
  parked_bit,    \* PARKED_BIT of Starvation::state
  queue,         \* the threads parked on it, in order
  pc,            \* where each thread is
  starving,      \* ProgressImpl::Starving, else NotStarving with ...
  failed,        \* ... first_failed_epoch.is_some()
  backoff,       \* ... and backoff
  elapsed,       \* ticks since first_failed_epoch
  pin_elapsed,   \* ticks from first_failed_epoch to the pin
  since_pin      \* ticks since the pin

state    == <<locked_bit, parked_bit, queue>>
progress == <<starving, failed, backoff>>
ticks    == <<elapsed, pin_elapsed, since_pin>>
vars == <<state, pc, progress, ticks>>

Goto(t, label) == pc' = [pc EXCEPT ![t] = label]

Capped(n) == IF n < MAX_ELAPSED THEN n ELSE MAX_ELAPSED

-----------------------------------------------------------------------------
Init ==
  /\ locked_bit = FALSE
  /\ parked_bit = FALSE
  /\ queue = <<>>
  /\ pc = [t \in Threads |-> "idle"]
  /\ starving = [t \in Threads |-> FALSE]
  /\ failed = [t \in Threads |-> FALSE]
  /\ backoff = [t \in Threads |-> 0]
  /\ elapsed = [t \in Threads |-> 0]
  /\ pin_elapsed = [t \in Threads |-> 0]
  /\ since_pin = [t \in Threads |-> 0]

-----------------------------------------------------------------------------
(* Pin::try_new.                                                           *)
Begin(t) ==
  /\ pc[t] = "idle"
  /\ Goto(t, "run")
  /\ UNCHANGED <<state, progress, ticks>>

(* What a transaction can fail on.                                         *)
MayConflict(t) ==
  /\ t \notin Disjoint
  /\ \/ since_pin[t] > 0
     \/ \E u \in Threads \ (Disjoint \union {t}) : pc[u] = "commit"

(* Pin::repin, at the end of snooze_repin.                                 *)
Repin(t) ==
  /\ pin_elapsed' = [pin_elapsed EXCEPT ![t] = elapsed'[t]]
  /\ since_pin' = [since_pin EXCEPT ![t] = 0]
  /\ Goto(t, "run")

(* Mutant: backs off for ever.                                             *)
backs_off_always(t) == TRUE

(* failed_to_progress: whether there is room left in the backoff.          *)
backs_off(t) == backoff[t] <= YIELD_LIMIT

(* failed_to_progress with room left in the backoff.                       *)
BackOff(t) ==
  /\ pc[t] \in {"run", "ready", "commit"} /\ MayConflict(t)
  /\ ~ starving[t]
  /\ backs_off(t)
  /\ failed' = [failed EXCEPT ![t] = TRUE]
  /\ elapsed' = [elapsed EXCEPT ![t] = IF failed[t] THEN @ ELSE since_pin[t]]
  /\ backoff' = [backoff EXCEPT ![t] =
                   IF @ <= SPIN_LIMIT /\ failed[t]
                        /\ pin_elapsed[t] >= MAX_ELAPSED
                     THEN SPIN_LIMIT + 1
                     ELSE @ + 1]
  /\ Repin(t)
  /\ UNCHANGED <<state, starving>>

(* The same without: starve_lock.                                          *)
Starve(t) ==
  /\ pc[t] \in {"run", "ready", "commit"} /\ MayConflict(t)
  /\ ~ starving[t]
  /\ ~ backs_off(t)
  /\ Goto(t, "starve")
  /\ UNCHANGED <<state, progress, ticks>>

(* A starver that meets a straggler just tries again.                      *)
StarverFails(t) ==
  /\ pc[t] \in {"run", "ready", "commit"} /\ MayConflict(t)
  /\ starving[t]
  /\ elapsed' = elapsed
  /\ Repin(t)
  /\ UNCHANGED <<state, progress>>

-----------------------------------------------------------------------------
(* The turns of the loops in starve_lock_slow and wait_for_starvers_slow:  *)
(* a compare_exchange that fails only loads the state again.               *)

(* starve_lock: compare_exchange(0, LOCKED_BIT).                           *)
StarveLock(t) ==
  /\ pc[t] = "starve"
  /\ ~ locked_bit /\ ~ parked_bit
  /\ locked_bit' = TRUE
  /\ starving' = [starving EXCEPT ![t] = TRUE]
  /\ elapsed' = elapsed
  /\ Repin(t)
  /\ UNCHANGED <<parked_bit, queue, failed, backoff>>

(* Set the parked bit, if it is not, and call park.                        *)
SetParkedBit(t) ==
  /\ pc[t] \in {"starve", "wait"}
  /\ locked_bit \/ parked_bit
  /\ parked_bit' = TRUE
  /\ Goto(t, IF pc[t] = "starve" THEN "starve_park" ELSE "wait_park")
  /\ UNCHANGED <<locked_bit, queue, progress, ticks>>

(* Mutant: sleeps without a look at the bit.                               *)
validate_always == TRUE

(* What park checks under the lock of the queue.                           *)
validate == parked_bit

(* parking_lot_core::park.                                                 *)
Park(t) ==
  /\ pc[t] \in {"starve_park", "wait_park"}
  /\ validate
  /\ queue' = Append(queue, t)
  /\ Goto(t, IF pc[t] = "starve_park" THEN "starve_parked" ELSE "wait_parked")
  /\ UNCHANGED <<locked_bit, parked_bit, progress, ticks>>

ParkInvalid(t) ==
  /\ pc[t] \in {"starve_park", "wait_park"}
  /\ ~ validate
  /\ Goto(t, IF pc[t] = "starve_park" THEN "starve" ELSE "wait")
  /\ UNCHANGED <<state, progress, ticks>>

(* commit_slow calls wait_for_starvers.                                    *)
WaitForStarvers(t) ==
  /\ pc[t] = "run"
  /\ Goto(t, IF starving[t] \/ ~ (locked_bit \/ parked_bit) THEN "ready"
                                                            ELSE "wait")
  /\ UNCHANGED <<state, progress, ticks>>

(* wait_for_starvers_slow finds no starver.                                *)
StarversGone(t) ==
  /\ pc[t] = "wait"
  /\ ~ locked_bit /\ ~ parked_bit
  /\ Goto(t, "ready")
  /\ UNCHANGED <<state, progress, ticks>>

-----------------------------------------------------------------------------
(* Everything is locked.                                                   *)
Commit(t) ==
  /\ pc[t] = "ready"
  /\ Goto(t, "commit")
  /\ UNCHANGED <<state, progress, ticks>>

(* fetch_and_tick: time passes for everybody who is pinned.                *)
Tick(t) ==
  /\ pc[t] = "commit"
  /\ since_pin' = [u \in Threads |->
                     IF pc[u] = "idle" \/ u \in Disjoint THEN 0
                                        ELSE Capped(since_pin[u] + 1)]
  /\ elapsed' = [u \in Threads |-> IF failed[u] THEN Capped(elapsed[u] + 1)
                                                ELSE 0]
  /\ Goto(t, "progress")
  /\ UNCHANGED <<state, progress, pin_elapsed>>

(* No writes, AWAIT_RETRY or a panic count as progress, too.               *)
FinishNoWrites(t) ==
  /\ pc[t] = "run"
  /\ Goto(t, "progress")
  /\ UNCHANGED <<state, progress, ticks>>

(* ProgressImpl::new, and the transaction is over.                         *)
Reset(t) ==
  /\ failed' = [failed EXCEPT ![t] = FALSE]
  /\ backoff' = [backoff EXCEPT ![t] = 0]
  /\ elapsed' = [elapsed EXCEPT ![t] = 0]
  /\ pin_elapsed' = [pin_elapsed EXCEPT ![t] = 0]
  /\ since_pin' = [since_pin EXCEPT ![t] = 0]

(* progressed by a thread that is not starving.                            *)
Progressed(t) ==
  /\ pc[t] = "progress"
  /\ ~ starving[t]
  /\ Reset(t)
  /\ Goto(t, "idle")
  /\ UNCHANGED <<state, starving>>

(* starve_unlock: compare_exchange(LOCKED_BIT, 0).                         *)
StarveUnlock(t) ==
  /\ pc[t] = "progress"
  /\ starving[t]
  /\ ~ parked_bit
  /\ locked_bit' = FALSE
  /\ starving' = [starving EXCEPT ![t] = FALSE]
  /\ Reset(t)
  /\ Goto(t, "idle")
  /\ UNCHANGED <<parked_bit, queue>>

(* Mutant: only those whose transaction takes long.                        *)
should_upgrade_long(u) == failed[u] /\ elapsed[u] >= MAX_ELAPSED

(* ProgressImpl::should_upgrade.                                           *)
should_upgrade(u) ==
  failed[u] /\ (backoff[u] >= YIELD_LIMIT \/ elapsed[u] >= MAX_ELAPSED)

Upgradable == {i \in DOMAIN queue : should_upgrade(queue[i])}

(* How many threads the filter of unpark_filter lets go.                   *)
unparked_threads ==
  IF Upgradable = {} THEN Len(queue)
                     ELSE CHOOSE i \in Upgradable : \A j \in Upgradable : i <= j

Unparked == {queue[i] : i \in 1..unparked_threads}

(* The thread that is handed control, if there is one.                     *)
NextStarved ==
  IF Upgradable = {} THEN {} ELSE {queue[unparked_threads]}

(* Where a thread goes from park, given the token that all of them get.    *)
AfterPark(u) ==
  CASE pc[u] = "starve_parked" -> "run"
    [] pc[u] = "wait_parked" /\ NextStarved \subseteq {u} -> "ready"
    [] OTHER -> "wait"

(* Mutant: the parked bit is cleared whoever is left.                      *)
clear_parked_bit == TRUE

(* ! unpark_result.have_more_threads.                                      *)
queue_emptied == unparked_threads = Len(queue)

(* starve_unlock_slow, under the lock of the queue.                        *)
StarveUnlockSlow(t) ==
  /\ pc[t] = "progress"
  /\ starving[t]
  /\ parked_bit
  /\ queue' = SubSeq(queue, unparked_threads + 1, Len(queue))
  /\ IF queue_emptied
       THEN /\ locked_bit' = (NextStarved # {})
            /\ parked_bit' = FALSE
       ELSE UNCHANGED <<locked_bit, parked_bit>>
  /\ starving' = [u \in Threads |-> IF u = t THEN FALSE
                                    ELSE starving[u] \/ u \in NextStarved]
  /\ failed' = [failed EXCEPT ![t] = FALSE]
  /\ backoff' = [backoff EXCEPT ![t] = 0]
  /\ elapsed' = [elapsed EXCEPT ![t] = 0]
  /\ pin_elapsed' = [u \in Threads |->
                       IF u = t THEN 0
                       ELSE IF u \in Unparked /\ pc[u] = "starve_parked"
                              THEN elapsed[u] ELSE pin_elapsed[u]]
  /\ since_pin' = [u \in Threads |->
                     IF u = t \/ (u \in Unparked /\ pc[u] = "starve_parked")
                       THEN 0 ELSE since_pin[u]]
  /\ pc' = [u \in Threads |-> IF u = t THEN "idle"
                              ELSE IF u \in Unparked THEN AfterPark(u)
                              ELSE pc[u]]

-----------------------------------------------------------------------------
Continue(t) ==
  \/ BackOff(t)
  \/ Starve(t)
  \/ StarverFails(t)
  \/ StarveLock(t)
  \/ SetParkedBit(t)
  \/ Park(t)
  \/ ParkInvalid(t)
  \/ WaitForStarvers(t)
  \/ StarversGone(t)
  \/ Commit(t)
  \/ Tick(t)
  \/ FinishNoWrites(t)
  \/ Progressed(t)
  \/ StarveUnlock(t)
  \/ StarveUnlockSlow(t)

Next == \E t \in Threads : Begin(t) \/ Continue(t)

Spec == Init /\ [][Next]_vars

(* "In the presence of a fair scheduler and bounded critical sections":    *)
(* whoever is not asleep takes a step in the end.                          *)
FairSpec == Spec /\ \A t \in Threads : WF_vars(Continue(t))

(* No thread loses the races of its loop for ever, either: the parked bit  *)
(* may be cleared before its park, and control may be taken before it      *)
(* looks, but not every time.                                              *)
NoBadLuckSpec ==
  /\ FairSpec
  /\ \A t \in Threads : SF_vars(Park(t)) /\ SF_vars(StarversGone(t))

-----------------------------------------------------------------------------
(* Properties.                                                             *)

Pcs == {"idle", "run", "starve", "starve_park", "starve_parked", "wait",
        "wait_park", "wait_parked", "ready", "commit", "progress"}

(* Every variable keeps its type.                                          *)
StarvationTypeOK ==
  /\ locked_bit \in BOOLEAN /\ parked_bit \in BOOLEAN
  /\ queue \in Seq(Threads)
  /\ pc \in [Threads -> Pcs]
  /\ starving \in [Threads -> BOOLEAN]
  /\ failed \in [Threads -> BOOLEAN]
  /\ backoff \in [Threads -> 0..(YIELD_LIMIT + 1)]
  /\ elapsed \in [Threads -> 0..MAX_ELAPSED]
  /\ pin_elapsed \in [Threads -> 0..MAX_ELAPSED]
  /\ since_pin \in [Threads -> 0..MAX_ELAPSED]

Starvers == {t \in Threads : starving[t]}

(* The state byte, the queue and the Progress of the threads agree although *)
(* each is changed on its own: LOCKED_BIT is set as long as exactly one     *)
(* thread is starving, a sleeper has a starver that will wake it up, and    *)
(* the bits that make it do so are set.                                     *)
ControlAccounted ==
  /\ Cardinality(Starvers) = IF locked_bit THEN 1 ELSE 0
  /\ queue # <<>> => locked_bit /\ parked_bit
  /\ parked_bit => locked_bit
  /\ \A t \in Threads :
       pc[t] \in {"starve_parked", "wait_parked"} =>
         Cardinality({i \in DOMAIN queue : queue[i] = t}) = 1

(* starve_lock_slow: "unfairly unparking a starving thread".  Whoever      *)
(* sleeps there is let go only as the next starver.                        *)
FairHandoff ==
  \A i \in DOMAIN queue :
    pc[queue[i]] = "starve_parked" => should_upgrade(queue[i])

Asleep(t) == pc[t] \in {"starve_parked", "wait_parked"}

(* The queue holds those who sleep, once each.                             *)
QueueInv ==
  /\ \A i, j \in DOMAIN queue : queue[i] = queue[j] => i = j
  /\ \A t \in Threads : Asleep(t) <=> \E i \in DOMAIN queue : queue[i] = t

(* One starver at a time, which neither waits nor sleeps.                  *)
StarverInv ==
  /\ \A t, u \in Threads : starving[t] /\ starving[u] => t = u
  /\ locked_bit <=> \E t \in Threads : starving[t]
  /\ \A t \in Threads :
       starving[t] => pc[t] \in {"run", "ready", "commit", "progress"}
  /\ parked_bit => locked_bit
  /\ queue # <<>> => parked_bit

(* Who wants control has failed, and has used up its backoff.              *)
BackoffInv ==
  \A t \in Threads :
    /\ backoff[t] > 0 => failed[t]
    /\ pc[t] \in {"starve", "starve_park", "starve_parked"} =>
         backoff[t] > YIELD_LIMIT

(* What starve_lock, wait_for_starvers and starve_unlock rely on, whatever *)
(* the order of their steps: an inductive invariant.                       *)
StarveInv == StarvationTypeOK /\ QueueInv /\ StarverInv /\ BackoffInv

(* A thread that has failed gets its transaction done.                     *)
FailedProgress ==
  \A t \in Threads : failed[t] ~> ~ failed[t]
=============================================================================
