----------------------------- MODULE StmHistory -----------------------------
(***************************************************************************)
(* Stm with a history variable: the order in which the transactions that   *)
(* write take effect.  lib.rs: "Behaves as though a single global lock     *)
(* were held for the duration of every transaction."  This module names    *)
(* the moment at which that lock would be taken.  It is neither the pin    *)
(* nor the tick of the clock, but the moment a transaction holds the last  *)
(* EpochLock of its write log.                                             *)
(***************************************************************************)
EXTENDS Stm, Sequences, FiniteSetsExt

VARIABLES
  order,    \* the transactions that held all their locks, in that order
  logged    \* what each thread's ReadLog was when its commit began

historyVars == <<vars, order, logged>>

Pending == 0      \* the epoch of a transaction that has not ticked yet
Undone  == -1     \* that of one that failed: it has no effect, and no say

(* The cells that commit_soft has to check are in logged up to the tick.   *)
Checking == {"lock", "validate", "write", "tick"}

(* The ReadLog as the closure left it.                                     *)
Logged(t) == IF pc[t] \in Checking THEN logged[t] ELSE read_log[t]

(* What commit has to check of a transaction: the borrows it logged, and   *)
(* those of cells it has set since, but not those with Ordering::Read.     *)
CheckedReads(t) ==
  [c \in Cells |-> IF c \in Logged(t) \cup WriteSet(t) THEN reads[t][c]
                                                       ELSE None]

Entry(t) == [owner |-> t, reads |-> CheckedReads(t), writes |-> write_log[t],
             epoch |-> Pending]

PendingOf(t, entry) == entry.owner = t /\ entry.epoch = Pending

Withdrawn(entry) ==
  [owner |-> entry.owner, reads |-> NoEntries, writes |-> NoEntries,
   epoch |-> Undone]

(* What t's entry becomes; those of others stay.                           *)
Revised(t, entry, revision) ==
  IF PendingOf(t, entry) THEN revision ELSE entry

(* The step of t appends its entry, withdraws it or dates it.              *)
Recorded(t) ==
  CASE pc[t] \in {"lock", "commit"} /\ pc'[t] \in {"validate", "tick"} ->
         Append(order, Entry(t))
    [] pc[t] = "validate" /\ pc'[t] = "undo" ->
         [i \in DOMAIN order |->
            Revised(t, order[i], Withdrawn(order[i]))]
    [] pc[t] = "tick" /\ pc'[t] = "publish" ->
         [i \in DOMAIN order |->
            Revised(t, order[i], [order[i] EXCEPT !.epoch = clock'])]
    [] OTHER -> order

HistoryInit == Init /\ order = <<>> /\ logged = [t \in Threads |-> {}]

HistoryStep(t) ==
  /\ Step(t)
  /\ order' = Recorded(t)
  /\ logged' = [logged EXCEPT ![t] = IF pc'[t] \in Checking THEN Logged(t)
                                                            ELSE {}]

HistoryNext ==
  \/ \E t \in Threads : HistoryStep(t)
  \/ Halted /\ UNCHANGED <<order, logged>>

HistorySpec == HistoryInit /\ [][HistoryNext]_historyVars

-----------------------------------------------------------------------------
(* What the last of some transactions that write c leaves in c, and the    *)
(* value of c after the first n.                                           *)
Latest(writers, c) ==
  IF writers = {} THEN InitVal ELSE order[Max(writers)].writes[c]

ValueAfter(n, c) == Latest({i \in 1..n : order[i].writes[c] # None}, c)

Decided(entry) == entry.epoch # Pending \/ pc[entry.owner] \in Irrevocable

(* A transaction that can no longer fail has read what the transactions    *)
(* before it in the order have left, although it locks its writes, and     *)
(* validates its reads, one by one while others do the same (commit_soft,  *)
(* commit_hard).                                                           *)
WritersSerialize ==
  \A i \in DOMAIN order : Decided(order[i]) =>
    \A c \in Cells :
      order[i].reads[c] # None => order[i].reads[c] = ValueAfter(i - 1, c)

(* The transactions that have ticked by epoch e, and all before them.      *)
PrefixAt(e) ==
  Max({0} \cup {i \in DOMAIN order : order[i].epoch \in 1..e})

(* Everything a transaction has borrowed, read-only ones included, is what *)
(* one prefix of that order leaves, and the prefix holds every transaction *)
(* that committed before the pin: the clock dates transactions in another  *)
(* order, and nobody can tell.                                             *)
ReadersSerialize ==
  \A t \in Threads, c \in Cells :
    reads[t][c] # None =>
      reads[t][c] = ValueAfter(PrefixAt(thread_epoch[t]), c)
=============================================================================
