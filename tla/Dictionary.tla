----------------------------- MODULE Dictionary -----------------------------
(***************************************************************************)
(* What swym-rbtree promises: a map under transactions.  The calls of a    *)
(* closure happen at once, and each returns what was there before it.      *)
(***************************************************************************)
EXTENDS Sequences, SequencesExt

CONSTANTS
  Threads,
  Keys,
  Closures,   \* what transactions do: sequences of calls
  None

VARIABLES
  map,        \* the value of each key, or None
  calls,      \* what each thread is about to do, or None
  done        \* the results of what it did last

(* How a call changes the map.                                             *)
Effect(m, call) ==
  CASE call.op = "get"       -> m
    [] call.op = "insert"    -> [m EXCEPT ![call.key] = call.value]
    [] call.op = "remove"    -> [m EXCEPT ![call.key] = None]
    [] call.op = "or_insert" -> IF m[call.key] # None THEN m
                                ELSE [m EXCEPT ![call.key] = call.value]

After(m, closure) == FoldLeft(Effect, m, closure)

Results(m, closure) ==
  [i \in DOMAIN closure |->
     After(m, SubSeq(closure, 1, i - 1))[closure[i].key]]

Init ==
  /\ map = [k \in Keys |-> None]
  /\ calls = [t \in Threads |-> None]
  /\ done = [t \in Threads |-> None]

Invoke(t, closure) ==
  /\ calls[t] = None
  /\ calls' = [calls EXCEPT ![t] = closure]
  /\ done' = [done EXCEPT ![t] = None]
  /\ UNCHANGED map

Transact(t) ==
  /\ calls[t] # None
  /\ calls' = [calls EXCEPT ![t] = None]
  /\ map' = After(map, calls[t])
  /\ done' = [done EXCEPT ![t] = Results(map, calls[t])]

Next == \E t \in Threads : Transact(t) \/ \E c \in Closures : Invoke(t, c)

Spec == Init /\ [][Next]_<<map, calls, done>>
=============================================================================
