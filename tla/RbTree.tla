------------------------------- MODULE RbTree -------------------------------
(***************************************************************************)
(* swym-rbtree: a red-black tree whose links are transactional cells.      *)
(*                                                                         *)
(* The algorithm is given by operators on a transaction x: the cells as    *)
(* the closure sees them, the reads that commit will validate, and the     *)
(* writes.  What the code does twice, once for each side, is written once  *)
(* with the side as a parameter.  A read with Ordering::Read is not        *)
(* logged; where the same cell is then written, its lock is checked all    *)
(* the same, and the reads leave it out.                                   *)
(*                                                                         *)
(* Around it, closures run on a snapshot and commit if nothing that they   *)
(* logged or write has changed since: what Stm shows of transactions.      *)
(***************************************************************************)
EXTENDS Integers, Sequences, FiniteSets, TLC

CONSTANTS
  Threads,
  Keys,
  Values,
  Closures,     \* the closures that are run: sequences of calls
  None,
  MAX_NODES     \* how many nodes with one key are around at a time

ASSUME RbTreeAssumption ==
  /\ Keys \subseteq Nat
  /\ \A closure \in Closures : \A i \in DOMAIN closure :
       /\ closure[i].key \in Keys /\ closure[i].value \in Values
       /\ closure[i].op \in {"get", "insert", "remove", "or_insert"}
       /\ closure[i].ordering \in {"Read", "ReadWrite"}

VARIABLES
  mem,          \* the committed cells
  calls,        \* the closure that each thread runs, or None
  tx,           \* what it is about to commit
  done          \* the results of the last one

vars == <<mem, calls, tx, done>>

-----------------------------------------------------------------------------
(* Nodes and cells.                                                        *)

Null == <<>>
Black == "Black"
Red == "Red"

(* RBRoot::root.                                                           *)
Root == <<Null, "root">>

(* A node is its key and a number.                                         *)
Key(n) == n[1]

PC(n) == <<n, "parent_color">>
Value(n) == <<n, "value">>

child(x, n, side) == x.mem[<<n, side>>]
parent(x, n) == x.mem[PC(n)][1]
color(x, n) == x.mem[PC(n)][2]

opposite(side) == IF side = "left" THEN "right" ELSE "left"

(* The side of p where key belongs.                                        *)
side_of(key, p) == IF key < Key(p) THEN "left" ELSE "right"

seen(x, cells) == [x EXCEPT !.reads = @ \union cells]

set(x, cells) == [x EXCEPT !.mem = cells @@ @,
                           !.writes = @ \union DOMAIN cells]

(* The parent and color of a node that may not be there.                   *)
colored(n, p, c) == IF n = Null THEN <<>> ELSE PC(n) :> <<p, c>>

(* The color of a child that may not be there.                             *)
black(x, n) == n = Null \/ color(x, n) = Black

color_read(n) == IF n = Null THEN {} ELSE {PC(n)}

(* The link to n, below p or in the root, becomes one to m.                *)
relink(x, p, n, m) ==
  set(x, (IF p = Null THEN Root ELSE <<p, side_of(Key(n), p)>>) :> m)

-----------------------------------------------------------------------------
(* Insertion.                                                              *)

(* rotate_left_red_helper with side = "left", else the other one: g goes   *)
(* down on that side and turns red, r takes its place.                     *)
rotate_red_helper(x, g, side, r, inner) ==
  relink(set(x, (PC(g) :> <<r, Red>>) @@ (<<g, opposite(side)>> :> inner)
                  @@ (<<r, side>> :> g) @@ (PC(r) :> <<parent(x, g), Black>>)
                  @@ colored(inner, g, Black)),
         parent(x, g), g, r)

(* partial_rotate_right_red_helper with side = "left", else the other one. *)
partial_rotate_red_helper(x, p, side, this, outer) ==
  set(x, (<<p, side>> :> outer) @@ (PC(p) :> <<this, Red>>)
           @@ (<<this, opposite(side)>> :> p) @@ (PC(outer) :> <<p, Black>>))

(* this is red already in all but its word, and its children black.        *)
children_black(x, this) ==
  (PC(child(x, this, "left")) :> <<this, Black>>)
    @@ (PC(child(x, this, "right")) :> <<this, Black>>)

recolored(x, this, p) ==
  set(x, children_black(x, this) @@ (PC(this) :> <<p, Red>>))

(* uncle is the side of gp where the uncle is.                             *)
insert_case4(x, this, p, gp, uncle) ==
  LET inner == child(x, p, uncle) IN
  IF inner = this
    THEN rotate_red_helper(
           partial_rotate_red_helper(x, p, uncle, this,
                                     child(x, this, opposite(uncle))),
           gp, uncle, this, child(x, this, uncle))
    ELSE rotate_red_helper(recolored(x, this, p), gp, uncle, p, inner)

(* The same for a node that is not in the tree yet, on side of p.          *)
insert_case4_mut(x, n, p, gp, uncle, side) ==
  IF side = uncle
    THEN relink(
           set(x, (<<n, opposite(uncle)>> :> p) @@ (<<n, uncle>> :> gp)
                    @@ (PC(p) :> <<n, Red>>) @@ (PC(gp) :> <<n, Red>>)
                    @@ (<<gp, opposite(uncle)>> :> Null)
                    @@ (PC(n) :> <<parent(x, gp), Black>>)),
           parent(x, gp), gp, n)
    ELSE rotate_red_helper(
           set(x, (PC(n) :> <<p, Red>>) @@ (<<p, side>> :> n)),
           gp, uncle, p, child(x, p, uncle))

uncle_side(p, gp) == opposite(side_of(Key(p), gp))

(* Mutant: the uncle's color is read with Ordering::Read.                  *)
uncle_unread(x, p, gp) == {}

uncle_reads(x, p, gp) ==
  {<<gp, uncle_side(p, gp)>>} \union
    color_read(child(x, gp, uncle_side(p, gp)))

uncle_red(x, p, gp) == ~ black(x, child(x, gp, uncle_side(p, gp)))

RECURSIVE insert_loop(_, _)

(* The loop of insert_fixup: the children of this are red, this is to be.  *)
insert_loop(x, this) ==
  LET p  == parent(x, this)
      x1 == seen(x, {PC(p)})
      gp == parent(x, p)
      x2 == seen(x1, uncle_reads(x, p, gp))
  IN CASE p = Null -> set(x, children_black(x, this))
       [] p # Null /\ color(x, p) = Black -> recolored(x1, this, p)
       [] p # Null /\ color(x, p) = Red /\ uncle_red(x, p, gp) ->
            insert_loop(recolored(x2, this, p), gp)
       [] OTHER -> insert_case4(x2, this, p, gp, uncle_side(p, gp))

(* A new node on side of p.                                                *)
insert_fixup(x, n, p, side) ==
  LET x1 == seen(x, {PC(p)})
      linked == (<<p, side>> :> n) @@ (PC(n) :> <<p, Red>>)
      gp == parent(x, p)
      x2 == seen(x1, uncle_reads(x, p, gp))
  IN CASE color(x, p) = Black -> set(x1, linked)
       [] color(x, p) = Red /\ uncle_red(x, p, gp) ->
            insert_loop(set(x2, linked), gp)
       [] OTHER -> insert_case4_mut(x2, n, p, gp, uncle_side(p, gp), side)

(* RBRoot::insert, at the vacant link cell.                                *)
insert(x, n, value, cell) ==
  LET boxed == set(x, (<<n, "left">> :> Null) @@ (<<n, "right">> :> Null)
                        @@ (PC(n) :> <<Null, Black>>) @@ (Value(n) :> value))
  IN IF cell = Root THEN set(boxed, Root :> n)
                    ELSE insert_fixup(boxed, n, cell[1], cell[2])

-----------------------------------------------------------------------------
(* Removal.                                                                *)

RECURSIVE left_spine(_, _)

(* From n down to the node without a left child.                           *)
left_spine(x, n) ==
  IF child(x, n, "left") = Null
    THEN <<n>>
    ELSE <<n>> \o left_spine(x, child(x, n, "left"))

(* remove_nofix where both children are there: the successor takes n's     *)
(* place.                                                                  *)
remove_inner(x, n) ==
  LET l == child(x, n, "left")
      r == child(x, n, "right")
      spine == left_spine(x, r)
      successor == spine[Len(spine)]
      p  == IF successor = r THEN r ELSE spine[Len(spine) - 1]
      child2 == child(x, successor, "right")
      x1 == seen(x, {<<spine[i], "left">> : i \in DOMAIN spine}
                      \union {<<successor, "right">>})
      x2 == IF successor = r THEN x1
            ELSE set(x1, (<<p, "left">> :> child2)
                           @@ (<<successor, "right">> :> r)
                           @@ (PC(r) :> <<successor, color(x, r)>>))
      x3 == set(x2, (<<successor, "left">> :> l)
                      @@ (PC(l) :> <<successor, color(x, l)>>))
      x4 == relink(x3, parent(x, n), n, successor)
  IN [x |-> set(x4, colored(child2, p, Black)
                      @@ (PC(successor) :> x.mem[PC(n)])),
      rebalance |-> IF child2 = Null /\ color(x, successor) = Black
                      THEN p ELSE Null]

(* The transaction afterwards, and where to rebalance.                     *)
remove_nofix(x, n) ==
  LET x1 == seen(x, {<<n, "left">>, <<n, "right">>, PC(n)})
      l == child(x, n, "left")
      r == child(x, n, "right")
      p == parent(x, n)
      c == color(x, n)
  IN CASE l = Null ->
            [x |-> set(relink(x1, p, n, r), colored(r, p, c)),
             rebalance |-> IF r = Null /\ c = Black THEN p ELSE Null]
       [] l # Null /\ r = Null ->
            [x |-> relink(set(x1, colored(l, p, c)), p, n, l),
             rebalance |-> Null]
       [] OTHER -> remove_inner(x1, n)

(* The last rotation: the sibling takes the place of p.                    *)
rotate_sibling(x, p, side, sibling, outer) ==
  LET inner == child(x, sibling, side) IN
  relink(set(x, (<<sibling, side>> :> p) @@ (PC(p) :> <<sibling, Black>>)
                  @@ (<<p, opposite(side)>> :> inner)
                  @@ (IF inner = Null THEN <<>>
                      ELSE PC(inner) :> <<p, color(x, inner)>>)
                  @@ (PC(outer) :> <<sibling, Black>>)
                  @@ (PC(sibling) :> x.mem[PC(p)])),
         parent(x, p), sibling, sibling)

(* The inner child of the sibling is red and comes between it and p.       *)
rotate_inner(x, p, side, sibling, inner) ==
  LET o == opposite(side) IN
  set(x, (<<sibling, side>> :> child(x, inner, o))
           @@ (<<inner, o>> :> sibling) @@ (<<p, o>> :> inner)
           @@ colored(child(x, inner, o), sibling, Black))

RECURSIVE remove_fixup(_, _, _)

(* The paths through node, below p, have one black node too few.  Of the   *)
(* rotations of one call at most one reaches the root.                     *)
remove_fixup(x, p, node) ==
  LET side == IF child(x, p, "right") # node THEN "left" ELSE "right"
      o == opposite(side)
      first == child(x, p, o)
      x1 == seen(x, {<<p, "right">>, <<p, o>>, PC(first)})
      turned == color(x, first) = Red
      sibling == IF turned THEN child(x, first, side) ELSE first
      x2 == IF turned THEN rotate_red_helper(x1, p, side, first, sibling)
                      ELSE x1
      outer == child(x2, sibling, o)
      x3 == seen(x2, {<<sibling, o>>} \union color_read(outer))
      inner == child(x3, sibling, side)
      x4 == seen(x3, {<<sibling, side>>} \union color_read(inner))
      x5 == seen(set(x4, PC(sibling) :> <<p, Red>>), {PC(p)})
      gp == parent(x5, p)
  IN CASE ~ black(x3, outer) -> rotate_sibling(x3, p, side, sibling, outer)
       [] black(x3, outer) /\ ~ black(x4, inner) ->
            rotate_sibling(rotate_inner(x4, p, side, sibling, inner),
                           p, side, inner, sibling)
       [] OTHER ->
            CASE color(x5, p) = Red -> set(x5, PC(p) :> <<gp, Black>>)
              [] color(x5, p) = Black /\ gp # Null -> remove_fixup(x5, gp, p)
              [] OTHER -> x5

(* RBRoot::remove.                                                         *)
remove(x, n) ==
  LET removed == remove_nofix(x, n) IN
  IF removed.rebalance = Null
    THEN removed.x
    ELSE remove_fixup(removed.x, removed.rebalance, Null)

-----------------------------------------------------------------------------
(* Lookup, and the calls of the public interface.                          *)

RECURSIVE find_impl(_, _, _)

(* The links from cell down to where key is or would be.                   *)
find_impl(x, cell, key) ==
  LET n == x.mem[cell] IN
  IF n = Null \/ (n # Null /\ Key(n) = key)
    THEN <<cell>>
    ELSE <<cell>> \o find_impl(x, <<n, side_of(key, n)>>, key)

location(x, key) == LET path == find_impl(x, Root, key) IN path[Len(path)]

(* Mutant: finds the place of a key without logging the way.               *)
logged_never(x, key, ordering) == {Root}

(* RBRoot::location.  The root is always logged.                           *)
logged(x, key, ordering) ==
  LET path == find_impl(x, Root, key) IN
  IF ordering = "ReadWrite" THEN {path[i] : i \in DOMAIN path} ELSE {Root}

(* One call of a closure: n is the node that it allocates if it has to.    *)
Perform(x, call, n) ==
  LET cell == location(x, call.key)
      node == x.mem[cell]
      x1 == seen(x, logged(x, call.key, call.ordering))
  IN CASE node = Null /\ call.op \in {"insert", "or_insert"} ->
            insert(x1, n, call.value, cell)
       [] node # Null /\ call.op = "insert" ->
            set(x1, Value(node) :> call.value)
       [] node # Null /\ call.op = "remove" ->
            seen(remove(x1, node), {Value(node)})
       [] node # Null /\ call.op \in {"get", "or_insert"} ->
            seen(x1, {Value(node)})
       [] OTHER -> x1

Found(x, key) == LET node == x.mem[location(x, key)] IN
                 IF node = Null THEN None ELSE x.mem[Value(node)]

-----------------------------------------------------------------------------
(* Transactions.                                                           *)

NodesOf(cells) == {c[1] : c \in cells} \ {Null}

(* What a thread that allocates a node with this key gets.                 *)
fresh(x, key, others) ==
  LET used == NodesOf(DOMAIN x.mem) \union others
      free == {i \in 1..MAX_NODES : <<key, i>> \notin used}
  IN <<key, CHOOSE i \in free : \A j \in free : i <= j>>

RECURSIVE Perform_all(_, _, _)

(* The closure: the transaction with the results of its calls.             *)
Perform_all(x, closure, others) ==
  IF closure = <<>> THEN x
  ELSE LET call == Head(closure)
           y == Perform(x, call, fresh(x, call.key, others))
       IN Perform_all([y EXCEPT !.results = Append(@, Found(x, call.key))],
                      Tail(closure), others)

NoTx == [reads |-> {}, writes |-> {}, cells |-> <<>>, results |-> <<>>]

(* The transactions that have run and not committed yet.                   *)
Open == {t \in Threads : tx[t] # NoTx}

(* The nodes that they have to do with.                                    *)
Pending == UNION {NodesOf(tx[u].reads \union tx[u].writes) : u \in Open}

Closure(t) ==
  Perform_all([mem |-> mem, reads |-> {}, writes |-> {}, results |-> <<>>],
              calls[t], Pending)

Init ==
  /\ mem = (Root :> Null)
  /\ calls = [t \in Threads |-> None]
  /\ tx = [t \in Threads |-> NoTx]
  /\ done = [t \in Threads |-> None]

(* ThreadKey::rw or read is called.                                        *)
Start(t, closure) ==
  /\ calls[t] = None
  /\ calls' = [calls EXCEPT ![t] = closure]
  /\ done' = [done EXCEPT ![t] = None]
  /\ UNCHANGED <<mem, tx>>

Return(t, results) ==
  /\ calls' = [calls EXCEPT ![t] = None]
  /\ done' = [done EXCEPT ![t] = results]

(* The closure runs on a snapshot.  If it writes nothing it is done.       *)
RunRead(t) ==
  /\ calls[t] # None /\ t \notin Open
  /\ LET x == Closure(t) IN x.writes = {} /\ Return(t, x.results)
  /\ UNCHANGED <<mem, tx>>

(* If it does, it waits for its commit.                                    *)
RunWrite(t) ==
  /\ calls[t] # None /\ t \notin Open
  /\ LET x == Closure(t) IN
     /\ x.writes # {}
     /\ tx' = [tx EXCEPT ![t] =
                 [reads |-> x.reads, writes |-> x.writes,
                  cells |-> [c \in x.writes |-> x.mem[c]],
                  results |-> x.results]]
  /\ UNCHANGED <<mem, calls, done>>

(* The nodes that cells belong to or point to.                             *)
mentioned(cells) ==
  NodesOf(DOMAIN cells)
    \union {cells[c] : c \in {c \in DOMAIN cells :
                               c[2] \in {"root", "left", "right"}}}

RECURSIVE reachable(_, _)

(* The nodes below n.                                                      *)
reachable(m, n) ==
  IF <<n, "left">> \notin DOMAIN m THEN {}
  ELSE {n} \union reachable(m, m[<<n, "left">>])
           \union reachable(m, m[<<n, "right">>])

(* Removed nodes stay as long as a transaction may touch them.             *)
collected(m, others) ==
  LET roots == {m[Root]} \union UNION {mentioned(tx[u].cells) : u \in others}
      live  == UNION {reachable(m, n) : n \in roots}
  IN [c \in {c \in DOMAIN m : c = Root \/ c[1] \in live} |-> m[c]]

(* What is logged and what is written must be as it was in the snapshot.   *)
conflicts(u, writes) ==
  (tx[u].reads \union tx[u].writes) \intersect writes # {}

(* The commit succeeds, and with it those that conflict are bound to fail: *)
(* they free what they have allocated and run again.                       *)
Commit(t) ==
  /\ t \in Open
  /\ LET others == {u \in Open \ {t} : ~ conflicts(u, tx[t].writes)} IN
     /\ mem' = collected(tx[t].cells @@ mem, others)
     /\ tx' = [u \in Threads |-> IF u \in others THEN tx[u] ELSE NoTx]
  /\ Return(t, tx[t].results)

Next ==
  \E t \in Threads :
    \/ \E closure \in Closures : Start(t, closure)
    \/ RunRead(t)
    \/ RunWrite(t)
    \/ Commit(t)

Spec == Init /\ [][Next]_vars

-----------------------------------------------------------------------------
(* Properties.                                                             *)

RECURSIVE verify(_, _)

(* RBNode::verify: what its assertions are about, or ok = FALSE where one  *)
(* of them fails.                                                          *)
verify(m, n) ==
  IF n = Null
    THEN [ok |-> TRUE, black_depth |-> 1, min_depth |-> 1, max_depth |-> 1,
          keys |-> {}]
    ELSE LET l == verify(m, m[<<n, "left">>])
             r == verify(m, m[<<n, "right">>])
             c == m[PC(n)][2]
             min == IF l.min_depth < r.min_depth THEN l.min_depth
                                                 ELSE r.min_depth
             max == IF l.max_depth > r.max_depth THEN l.max_depth
                                                 ELSE r.max_depth
         IN [ok |-> /\ l.ok /\ r.ok
                    /\ \A side \in {"left", "right"} :
                         m[<<n, side>>] # Null =>
                           /\ m[PC(m[<<n, side>>])][1] = n
                           /\ c = Red => m[PC(m[<<n, side>>])][2] = Black
                    /\ l.black_depth = r.black_depth
                    /\ \A k \in l.keys : k < Key(n)
                    /\ \A k \in r.keys : Key(n) < k
                    /\ 2 * (min + 1) >= max + 1,
             black_depth |-> l.black_depth + (IF c = Black THEN 1 ELSE 0),
             min_depth |-> min + 1,
             max_depth |-> max + 1,
             keys |-> l.keys \union r.keys \union {Key(n)}]

(* What verify asserts of every committed tree, and what insert_fixup      *)
(* relies on: "the root must be black".                                    *)
Verified ==
  /\ verify(mem, mem[Root]).ok
  /\ mem[Root] # Null => mem[PC(mem[Root])] = <<Null, Black>>

RECURSIVE bindings(_, _)

(* The keys and values of the nodes below n.                               *)
bindings(m, n) ==
  IF n = Null THEN <<>>
  ELSE (Key(n) :> m[Value(n)]) @@ bindings(m, m[<<n, "left">>])
                               @@ bindings(m, m[<<n, "right">>])

(* The map that a committed tree stands for.                               *)
contents == bindings(mem, mem[Root]) @@ [k \in Keys |-> None]

Abstract == INSTANCE Dictionary WITH map <- contents

(* The tree is a map under transactions: every closure returns, and        *)
(* leaves behind, what it would if it ran alone at its commit.             *)
IsDictionary == Abstract!Spec
=============================================================================
