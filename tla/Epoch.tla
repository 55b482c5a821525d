------------------------------- MODULE Epoch -------------------------------
(***************************************************************************)
(* The words of src/internal/epoch.rs.  A `Storage` is a machine word whose *)
(* most significant bit is LOCK_BIT: words below LOCK_BIT are points in     *)
(* time, words from LOCK_BIT on are locked, and the all-ones word is the    *)
(* inactive sentinel of a thread that is not pinned.  LOCK_BIT is a         *)
(* parameter, so that the end of time is within reach of the model checker. *)
(***************************************************************************)
EXTENDS Integers

CONSTANT LOCK_BIT     \* 2^63 or 2^31 in the code

UNPARK_BIT == 1

TICK_SIZE == 2

FIRST == TICK_SIZE + UNPARK_BIT

INACTIVE_EPOCH == 2 * LOCK_BIT - 1

ASSUME LockBitAssumption ==
  /\ LOCK_BIT \in Nat
  /\ LOCK_BIT % 2 = 0
  /\ FIRST < LOCK_BIT

lock_bit_set(e) == e >= LOCK_BIT

(* Mutant: unlocking only.                                                 *)
clear_lock_bit(e) == e - LOCK_BIT

toggle_lock_bit(e) == IF lock_bit_set(e) THEN e - LOCK_BIT ELSE e + LOCK_BIT

(* QuiesceEpoch::read_write_valid: may a thread pinned at `self` use a     *)
(* location whose EpochLock holds the raw word `target`?  One comparison   *)
(* rejects both newer and locked words.                                    *)
read_write_valid(self, target) == self >= target

(* Mutant: a lock that anybody may take when it is free.                   *)
lockable_if_free(max_expected, actual) == ~ lock_bit_set(actual)

(* The condition of EpochLock::try_lock and try_lock_htm.                  *)
lockable(max_expected, actual) == read_write_valid(max_expected, actual)

(* QuiesceEpoch::next.                                                     *)
next(e) == e + TICK_SIZE
=============================================================================
