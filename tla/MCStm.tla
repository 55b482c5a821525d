------------------------------- MODULE MCStm -------------------------------
(***************************************************************************)
(* Small instances of Stm.                                                 *)
(***************************************************************************)
EXTENDS StmInvariant, TLC

CONSTANTS
  v0,         \* what the words of every cell hold in the beginning
  MaxClock,   \* the clock stops here
  MaxAccesses \* borrows and sets of one closure

(* Values whose words must agree: a torn read is not a value.              *)
MCCellVals == {v \in [Words -> Vals] : \A w, x \in Words : v[w] = v[x]}

MCInitVal == [w \in Words |-> v0]

Symmetry == Permutations(Threads) \cup Permutations(Cells)

ClockBound == clock <= MaxClock

(* The borrows and sets of t so far.                                       *)
Accesses(t) ==
  Cardinality({c \in Cells : reads[t][c] # None}) + Cardinality(WriteSet(t))

(* Closures that borrow and set a cell at most once, log every borrow, and *)
(* put their own thread's name into the cells they set.  They may return   *)
(* any result, whatever they got, and panic.                               *)
Frugal ==
  \A t \in Threads :
    /\ pc[t] = "run" /\ pc'[t] = "load" => reads[t][cursor'[t]] = None
    /\ pc[t] = "run" /\ pc'[t] = "run" => write_log[t] = write_log'[t]
    /\ pc[t] = "run" /\ pc'[t] = "dispose" =>
         \A w \in Words : write_log'[t][cursor'[t]][w] = t
    /\ pc[t] = "run" /\ pc'[t] \in {"load", "dispose"} =>
         Accesses(t) < MaxAccesses
    /\ pc[t] = "load" /\ pc'[t] = "run" /\ mode[t] = "rw" =>
         cursor[t] \in read_log'[t]
=============================================================================
