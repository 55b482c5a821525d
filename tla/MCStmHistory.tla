---------------------------- MODULE MCStmHistory ----------------------------
(***************************************************************************)
(* Three threads, each with one attempt at one transaction.                *)
(***************************************************************************)
EXTENDS StmSerial, FiniteSets, TLC

CONSTANTS
  v0,           \* what the words of every cell hold in the beginning
  MaxAccesses   \* borrows and sets of one closure

MCCellVals == [Words -> Vals]

MCInitVal == [w \in Words |-> v0]

Symmetry == Permutations(Threads) \cup Permutations(Cells)

(* The borrows and sets of t so far.                                       *)
Accesses(t) ==
  Cardinality({c \in Cells : reads[t][c] # None}) + Cardinality(WriteSet(t))

(* A closure borrows cells and then sets cells, each at most once and      *)
(* MaxAccesses in all (a cycle of conflicts takes two of each), logs its   *)
(* borrows, and writes its thread's name.  Loads, writes and the way back  *)
(* after the last unlock are over before the thread does anything else:    *)
(* stm_two_cells has failures and results in between.  A thread that       *)
(* finishes its closure without writing, or that fails, stays where it is. *)
(* A read-only transaction is one that sets nothing.                       *)
OneAttempt ==
  \A t \in Threads :
    /\ pc[t] = "idle" /\ pc'[t] = "run" =>
         mode'[t] = "rw" /\ \A i \in DOMAIN order : order[i].owner # t
    /\ pc[t] = "run" /\ pc'[t] = "load" =>
         WriteSet(t) = {} /\ reads[t][cursor'[t]] = None
    /\ pc[t] = "run" /\ pc'[t] = "run" => write_log[t] = write_log'[t]
    /\ pc[t] = "run" /\ pc'[t] = "dispose" =>
         /\ Accesses(t) < MaxAccesses
         /\ \A w \in Words : write_log'[t][cursor'[t]][w] = t
    /\ pc[t] \in {"load", "dispose"} => pc'[t] = "run" \/ buf'[t] # buf[t]
    /\ pc[t] = "write" => pc'[t] = "tick" \/ unwritten'[t] # unwritten[t]
    /\ pc[t] = "publish" /\ locked[t] = {} => pc'[t] = "idle"
    /\ pc[t] = "load" /\ pc'[t] = "run" /\ mode[t] = "rw" =>
         cursor[t] \in read_log'[t]
    /\ buf'[t] = NoWords => buf[t] = NoWords \/ pc'[t] = "run"
    /\ pc[t] = "run" => pc'[t] # "idle"
    /\ pc'[t] \notin {"err", "failed", "repin"}
=============================================================================
