------------------------------ MODULE MCRbTree ------------------------------
(***************************************************************************)
(* Closures for small instances of RbTree.                                 *)
(***************************************************************************)
EXTENDS RbTree

CONSTANTS
  SharedKeys,   \* transactions overlap only on keys up to this one, ...
  MovedKeys     \* ... and closures make two calls only up to this one

Call(op, ordering, key, value) ==
  [op |-> op, ordering |-> ordering, key |-> key, value |-> value]

(* RBTreeMap::entry, with or_insert, and remove.                           *)
Single ==
  UNION {{<<Call("or_insert", "ReadWrite", k, 1)>>,
          <<Call("remove", "Read", k, 1)>>} : k \in Keys}

(* RBTreeMap::atomic: entry removes one key and inserts another, or both   *)
(* are looked up.                                                          *)
Double ==
  UNION {{<<Call("remove", "ReadWrite", k, 1), Call("insert", "ReadWrite", l, 2)>>,
          <<Call("get", "ReadWrite", k, 1), Call("get", "ReadWrite", l, 1)>>} :
           k, l \in 1..MovedKeys}

EntryClosures == Single \union Double

(* RBTreeMap::insert and remove.                                           *)
InsertClosures ==
  UNION {{<<Call("insert", "Read", k, 1)>>,
          <<Call("remove", "Read", k, 1)>>} : k \in Keys}

Started == {t \in Threads : calls[t] # None}

Alone == Cardinality({t \in Threads : <<calls[t], done[t]>> # <<None, None>>}) <= 1

(* No closure that has started, and no node, has a key beyond k.           *)
KeysUpTo(k) ==
  /\ \A t \in Started : \A i \in DOMAIN calls[t] : calls[t][i].key <= k
  /\ \A n \in NodesOf(DOMAIN mem) : Key(n) <= k

SingleCalls ==
  /\ \A t \in Started : Len(calls[t]) = 1
  /\ \A c \in DOMAIN mem : c[2] = "value" => mem[c] = 1

(* An insertion that turns a black node red, below the root: insert_fixup  *)
(* goes up from there, or rotates.                                         *)
Climbs(t) ==
  /\ t \in Open /\ calls[t][1].op = "or_insert"
  /\ \E n \in NodesOf(DOMAIN mem) :
       /\ PC(n) \in tx[t].writes
       /\ mem[PC(n)][1] # Null
       /\ mem[PC(n)][2] = Black /\ tx[t].cells[PC(n)][2] = Red

(* All keys one transaction after the other, fewer with two at once unless *)
(* one of them climbs, and fewer still with two calls in each.             *)
Overlap ==
  \/ Alone /\ SingleCalls
  \/ SingleCalls /\ KeysUpTo(SharedKeys)
  \/ SingleCalls /\ \E t \in Threads : Climbs(t)
  \/ KeysUpTo(MovedKeys)

SmallOverlap == Overlap'

Symmetry == Permutations(Threads)
=============================================================================
