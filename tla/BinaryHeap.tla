----------------------------- MODULE BinaryHeap -----------------------------
(***************************************************************************)
(* The heap of utilib/AbstractHeap.h: an array whose element i has the     *)
(* elements 2i and 2i+1 below it, used for the pool of subproblems.  A     *)
(* heap is a sequence here, an item is its key.  The order is a parameter: *)
(* the pool changes its own when the first incumbent ends a dive.          *)
(***************************************************************************)
EXTENDS Naturals, Sequences

CONSTANT Better(_, _)    \* does the first key go above the second one?

Swap(heap, a, b) == [heap EXCEPT ![a] = heap[b], ![b] = heap[a]]

\* An element rises while it is better than the one above it ...
RECURSIVE FloatUp(_, _)
FloatUp(heap, elem) ==
  LET next == elem \div 2
  IN  IF next >= 1 /\ Better(heap[elem], heap[next])
      THEN FloatUp(Swap(heap, elem, next), next)
      ELSE heap

\* ... and sinks, past the better of the two below it, unless it is better.
RECURSIVE SinkDown(_, _)
SinkDown(heap, elem) ==
  LET left  == 2 * elem
      child == IF left < Len(heap) /\ Better(heap[left + 1], heap[left])
               THEN left + 1 ELSE left
  IN  IF left > Len(heap) \/ Better(heap[elem], heap[child])
      THEN heap
      ELSE SinkDown(Swap(heap, elem, child), child)

\* refloatElement: sinks only what did not rise.
Refloat(heap, elem) ==
  LET floated == FloatUp(heap, elem)
  IN  IF floated = heap THEN SinkDown(heap, elem) ELSE floated

Insert(heap, key) == FloatUp(Append(heap, key), Len(heap) + 1)

\* The last element takes the place of the one that leaves.
Extract(heap, elem) ==
  LET used == Len(heap)
      rest == SubSeq(heap, 1, used - 1)
  IN  IF elem < used THEN Refloat([rest EXCEPT ![elem] = heap[used]], elem)
                     ELSE rest

RECURSIVE ReheapifyFrom(_, _)
ReheapifyFrom(heap, i) ==
  IF i = 0 THEN heap ELSE ReheapifyFrom(SinkDown(heap, i), i - 1)

Reheapify(heap) == ReheapifyFrom(heap, Len(heap) \div 2)

\* heapPool::prune goes through the last half of the heap, from its end, and
\* looks at an element again after something else has come in its place.
RECURSIVE PruneFrom(_, _, _)
PruneFrom(heap, n, doomed) ==
  IF n <= Len(heap) \div 2 THEN heap
  ELSE IF heap[n] \in doomed
       THEN LET rest == Extract(heap, n)
            IN  PruneFrom(rest, IF n > Len(rest) THEN Len(rest) ELSE n, doomed)
       ELSE PruneFrom(heap, n - 1, doomed)

Prune(heap, doomed) == PruneFrom(heap, Len(heap), doomed)

\* validate: no element is better than the one above it.
InOrder(heap) ==
  \A i \in 2 .. Len(heap) : ~Better(heap[i], heap[i \div 2])

=============================================================================
