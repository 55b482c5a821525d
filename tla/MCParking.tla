----------------------------- MODULE MCParking ------------------------------
(***************************************************************************)
(* Three cells: a root, one in a node that is reached through it, and one  *)
(* that has nothing to do with them.                                       *)
(***************************************************************************)
EXTENDS ParkingInvariant, TLC

CONSTANTS root, node, other

RootAndNode == [x \in Cells |-> IF x = node THEN root ELSE None]

(* A transaction that borrows the root, then the node, and one that has    *)
(* got to the node with Ordering::Read and logs nothing on its way.        *)
ReadLogs == {<<root, node, other>>, <<node, other>>}

(* Only the first.                                                         *)
GuardedLogs == {<<root, node, other>>}

(* Commits that unlink the node, and commits inside of it.                 *)
BothLogs == {<<other, root>>, <<node>>}
=============================================================================
