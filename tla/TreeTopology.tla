---------------------------- MODULE TreeTopology ----------------------------
(***************************************************************************)
(* The balanced trees of processors that PEBBL communicates over:          *)
(* nAryTree of misc/treeTopology.h.  A tree is identified by its root; the *)
(* number of processors and the radix are the same for all of them.  Every *)
(* processor computes its own children and parent from these numbers, with *)
(* no message, so a broadcast is correct only if all the local answers fit *)
(* together.                                                               *)
(***************************************************************************)
EXTENDS Integers

CONSTANTS
  N,      \* number of processors in the communicator (size)
  Radix   \* maximal number of children of a node (radix)

ASSUME TreeAssumption == N \in Nat \ {0} /\ Radix \in Nat \ {0}

Proc == 0 .. N-1

(***************************************************************************)
(* Nodes are renumbered relative to the root, which becomes 0; the nodes   *)
(* of the relative tree are laid out as in a heap.                         *)
(***************************************************************************)
RelPosition(root, where) ==
  IF where < root THEN where - root + N ELSE where - root

RelFirstChild(root, node) == RelPosition(root, node) * Radix + 1

\* The radix, or what is left of the processors when that is less.
NumChildren(root, node) ==
  LET left == N - RelFirstChild(root, node)
  IN  IF left <= 0 THEN 0 ELSE IF left < Radix THEN left ELSE Radix

\* The i-th child that advanceChild() returns, wrapping at the last processor.
Child(root, node, i) == (RelFirstChild(root, node) + i + root) % N

Children(root, node) ==
  {Child(root, node, i) : i \in 0 .. NumChildren(root, node) - 1}

\* Meaningful for every node but the root.
Parent(root, node) == ((RelPosition(root, node) - 1) \div Radix + root) % N

=============================================================================
