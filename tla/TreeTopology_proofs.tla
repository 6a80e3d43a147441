------------------------ MODULE TreeTopology_proofs ------------------------
(***************************************************************************)
(* What a broadcast relies on: the answers that different processors       *)
(* compute locally describe one tree.                                      *)
(***************************************************************************)
EXTENDS TreeTopology, WellFoundedInduction, FiniteSetTheorems, FunctionTheorems, TLAPS

(***************************************************************************)
(* Division with remainder, in the form the tree arithmetic needs.         *)
(***************************************************************************)
LEMMA QuotientBounds ==
  ASSUME NEW r \in Nat, NEW d \in Nat \ {0}
  PROVE  /\ r \div d \in Nat
         /\ (r \div d) * d <= r
         /\ r < (r \div d) * d + d
         /\ r \div d <= r
BY Z3

(***************************************************************************)
(* Wrapping around at the last processor.                                  *)
(***************************************************************************)
LEMMA WrapOnce ==
  ASSUME NEW n \in Nat \ {0}, NEW a \in 0 .. n-1, NEW b \in 0 .. n-1
  PROVE  (a + b) % n = IF a + b < n THEN a + b ELSE a + b - n
BY Z3

(***************************************************************************)
(* RelPosition renumbers the processors one to one, the root becoming 0.   *)
(***************************************************************************)
LEMMA RelPositionType ==
  ASSUME NEW s \in Proc, NEW p \in Proc
  PROVE  /\ RelPosition(s, p) \in Proc
         /\ RelPosition(s, p) = 0 <=> p = s
BY TreeAssumption DEF Proc, RelPosition

LEMMA RelPositionInverse ==
  ASSUME NEW s \in Proc, NEW q \in Proc
  PROVE  /\ (q + s) % N \in Proc
         /\ RelPosition(s, (q + s) % N) = q
<1>. N \in Nat \ {0} /\ s \in 0 .. N-1 /\ q \in 0 .. N-1
  BY TreeAssumption DEF Proc
<1>1. (q + s) % N = IF q + s < N THEN q + s ELSE q + s - N
  BY WrapOnce
<1>. QED  BY <1>1 DEF Proc, RelPosition

LEMMA WrapRelPosition ==
  ASSUME NEW s \in Proc, NEW p \in Proc
  PROVE  (RelPosition(s, p) + s) % N = p
<1>. DEFINE r == RelPosition(s, p)
<1>1. /\ N \in Nat \ {0} /\ s \in 0 .. N-1 /\ p \in 0 .. N-1
      /\ r \in 0 .. N-1
  BY TreeAssumption, RelPositionType DEF Proc
<1>2. (r + s) % N = IF r + s < N THEN r + s ELSE r + s - N
  BY <1>1, WrapOnce
<1>. QED  BY <1>1, <1>2 DEF RelPosition

(***************************************************************************)
(* The parent of a node is a processor nearer to the root (so the climb    *)
(* from any node ends at the root), and the node is one of the children    *)
(* its parent sends to: parent() and advanceChild() agree.                 *)
(***************************************************************************)
THEOREM ParentOfChild ==
  ASSUME NEW s \in Proc, NEW p \in Proc, p # s
  PROVE  /\ Parent(s, p) \in Proc
         /\ RelPosition(s, Parent(s, p)) < RelPosition(s, p)
         /\ p \in Children(s, Parent(s, p))
<1>. DEFINE r == RelPosition(s, p)
            q == (r - 1) \div Radix
            i == r - 1 - q * Radix
<1>1. N \in Nat \ {0} /\ Radix \in Nat \ {0} /\ s \in Nat
  BY TreeAssumption DEF Proc
<1>2. r \in Nat /\ r < N /\ r # 0
  BY RelPositionType, <1>1 DEF Proc
<1>3. /\ q \in Nat /\ q * Radix <= r - 1
      /\ r - 1 < q * Radix + Radix /\ q <= r - 1
  <2>1. r - 1 \in Nat  BY <1>2
  <2>. QED  BY <2>1, <1>1, QuotientBounds
<1>4. q \in Proc  BY <1>1, <1>2, <1>3 DEF Proc
<1>5. Parent(s, p) \in Proc /\ RelPosition(s, Parent(s, p)) = q
  BY <1>4, RelPositionInverse DEF Parent
<1>6. RelFirstChild(s, Parent(s, p)) = q * Radix + 1
  BY <1>5 DEF RelFirstChild
<1>7. q * Radix \in Nat  BY <1>1, <1>3, Z3
<1>8. i \in 0 .. NumChildren(s, Parent(s, p)) - 1
  <2>. HIDE DEF q, r
  <2>. QED  BY <1>1, <1>2, <1>3, <1>6, <1>7 DEF NumChildren
<1>9. Child(s, Parent(s, p), i) = p
  <2>1. RelFirstChild(s, Parent(s, p)) + i = r
    <3>. HIDE DEF q, r
    <3>. QED  BY <1>2, <1>6, <1>7
  <2>. QED  BY <2>1, WrapRelPosition DEF Child
<1>. QED  BY <1>2, <1>3, <1>5, <1>8, <1>9 DEF Children

(***************************************************************************)
(* Every child a node sends to is a processor, and never the root: a       *)
(* broadcast does not return to the processor that started it.             *)
(***************************************************************************)
THEOREM ChildIsNotRoot ==
  ASSUME NEW s \in Proc, NEW p \in Proc, NEW c \in Children(s, p)
  PROVE  c \in Proc /\ c # s
<1>. DEFINE f == RelFirstChild(s, p)
<1>1. N \in Nat \ {0} /\ Radix \in Nat \ {0} /\ RelPosition(s, p) \in Nat
  BY TreeAssumption, RelPositionType DEF Proc
<1>2. f \in Nat /\ f >= 1
  <2>1. RelPosition(s, p) * Radix \in Nat  BY <1>1, Z3
  <2>. QED  BY <2>1 DEF RelFirstChild
<1>3. PICK i \in 0 .. NumChildren(s, p) - 1 : c = Child(s, p, i)
  BY DEF Children
<1>4. f + i \in Proc /\ f + i # 0
  BY <1>1, <1>2, <1>3 DEF NumChildren, Proc
<1>5. c \in Proc /\ RelPosition(s, c) = f + i
  BY <1>3, <1>4, RelPositionInverse DEF Child
<1>. QED  BY <1>4, <1>5, RelPositionType

(***************************************************************************)
(* Children follow one another in the relative order of the tree.          *)
(***************************************************************************)
LEMMA ChildPosition ==
  ASSUME NEW s \in Proc, NEW p \in Proc, NEW i \in 0 .. NumChildren(s, p) - 1
  PROVE  /\ Child(s, p, i) \in Proc
         /\ RelPosition(s, Child(s, p, i)) = RelFirstChild(s, p) + i
         /\ i < Radix
<1>. DEFINE f == RelFirstChild(s, p)
<1>1. N \in Nat \ {0} /\ Radix \in Nat \ {0} /\ RelPosition(s, p) \in Nat
  BY TreeAssumption, RelPositionType DEF Proc
<1>2. f \in Nat
  <2>1. RelPosition(s, p) * Radix \in Nat  BY <1>1, Z3
  <2>. QED  BY <2>1 DEF RelFirstChild
<1>3. f + i \in Proc /\ i < Radix
  BY <1>1, <1>2 DEF NumChildren, Proc
<1>. QED  BY <1>3, RelPositionInverse DEF Child

(***************************************************************************)
(* Division undoes the layout of a heap.                                   *)
(***************************************************************************)
LEMMA QuotientOfSum ==
  ASSUME NEW r \in Nat, NEW d \in Nat \ {0}, NEW i \in Nat, i < d
  PROVE  (r * d + i) \div d = r
<1>. DEFINE q == (r * d + i) \div d
<1>1. r * d + i \in Nat
  BY Z3
<1>2. q \in Nat /\ q * d <= r * d + i /\ r * d + i < q * d + d
  BY <1>1, QuotientBounds
<1>. HIDE DEF q
<1>3. ~(q < r)
  <2>1. q < r => q * d + d <= r * d
    BY <1>2, Z3
  <2>. QED  BY <2>1, <1>2, Z3
<1>4. ~(r < q)
  <2>1. r < q => r * d + d <= q * d
    BY <1>2, Z3
  <2>. QED  BY <2>1, <1>2, Z3
<1>. QED  BY <1>2, <1>3, <1>4 DEF q

(***************************************************************************)
(* A child's parent is the node that sends to it: nobody is a child of     *)
(* two nodes, so a broadcast reaches nobody twice.                         *)
(***************************************************************************)
THEOREM ParentOfItsChild ==
  ASSUME NEW s \in Proc, NEW p \in Proc, NEW c \in Children(s, p)
  PROVE  Parent(s, c) = p
<1>. DEFINE r == RelPosition(s, p)
<1>1. PICK i \in 0 .. NumChildren(s, p) - 1 : c = Child(s, p, i)
  BY DEF Children
<1>2. r \in Nat /\ Radix \in Nat \ {0} /\ i \in Nat /\ i < Radix
  BY <1>1, ChildPosition, TreeAssumption, RelPositionType DEF Proc
<1>3. r * Radix \in Nat
  BY <1>2, Z3
<1>4. RelPosition(s, c) - 1 = r * Radix + i
  BY <1>1, <1>2, <1>3, ChildPosition DEF RelFirstChild
<1>5. (RelPosition(s, c) - 1) \div Radix = r
  BY <1>2, <1>4, QuotientOfSum
<1>. QED  BY <1>5, WrapRelPosition DEF Parent

(***************************************************************************)
(* A node has as many children as it counts.                               *)
(***************************************************************************)
LEMMA CountChildren ==
  ASSUME NEW s \in Proc, NEW p \in Proc
  PROVE  /\ IsFiniteSet(Children(s, p))
         /\ Cardinality(Children(s, p)) = NumChildren(s, p)
<1>. DEFINE n == NumChildren(s, p)
            f == [i \in 0 .. n - 1 |-> Child(s, p, i)]
<1>1. n \in Nat
  <2>1. N \in Nat \ {0} /\ Radix \in Nat \ {0} /\ RelPosition(s, p) \in Nat
    BY TreeAssumption, RelPositionType DEF Proc
  <2>2. RelPosition(s, p) * Radix \in Nat  BY <2>1, Z3
  <2>. QED  BY <2>1, <2>2 DEF NumChildren, RelFirstChild
<1>2. IsFiniteSet(0 .. n - 1) /\ Cardinality(0 .. n - 1) = n
  <2>. HIDE DEF n
  <2>1. 0 \in Int /\ n - 1 \in Int
    BY <1>1
  <2>2. Cardinality(0 .. n - 1) = IF 0 > n - 1 THEN 0 ELSE n - 1 - 0 + 1
    BY <2>1, FS_Interval
  <2>. QED  BY <1>1, <2>1, <2>2, FS_Interval
<1>3. \A i, j \in 0 .. n - 1 : Child(s, p, i) = Child(s, p, j) => i = j
  <2>1. \A i \in 0 .. n - 1 : RelPosition(s, Child(s, p, i)) = RelFirstChild(s, p) + i
    BY ChildPosition
  <2>2. RelFirstChild(s, p) \in Int
    <3>1. RelPosition(s, p) \in Nat /\ Radix \in Nat
      BY TreeAssumption, RelPositionType DEF Proc
    <3>2. RelPosition(s, p) * Radix \in Nat  BY <3>1, Z3
    <3>. QED  BY <3>2 DEF RelFirstChild
  <2>. HIDE DEF n
  <2>. QED  BY <2>1, <2>2
<1>4. ExistsBijection(0 .. n - 1, Children(s, p))
  <2>1. f \in Bijection(0 .. n - 1, Children(s, p))
    <3>. HIDE DEF n
    <3>1. Children(s, p) = {Child(s, p, i) : i \in 0 .. n - 1}
      BY DEF Children, n
    <3>2. f \in [0 .. n - 1 -> Children(s, p)]
      BY <3>1
    <3>3. \A i, j \in 0 .. n - 1 : f[i] = f[j] => i = j
      BY <1>3
    <3>4. \A c \in Children(s, p) : \E i \in 0 .. n - 1 : f[i] = c
      BY <3>1
    <3>. HIDE DEF f
    <3>. QED  BY <3>2, <3>3, <3>4, Fun_IsBij
  <2>. QED  BY <2>1 DEF ExistsBijection
<1>. QED  BY <1>2, <1>4, FS_Bijection

(***************************************************************************)
(* A set of processors that is not empty has a member nearest to the root. *)
(***************************************************************************)
LEMMA NearestToRoot ==
  ASSUME NEW s \in Proc, NEW T \in SUBSET Proc, T # {}
  PROVE  \E p \in T : \A q \in T : ~(RelPosition(s, q) < RelPosition(s, p))
<1>. DEFINE positions == {RelPosition(s, p) : p \in T}
<1>1. positions \subseteq Nat /\ positions # {}
  <2>1. \A p \in T : RelPosition(s, p) \in Nat
    BY RelPositionType DEF Proc
  <2>. QED  BY <2>1
<1>2. PICK m \in positions : \A k \in positions : <<k, m>> \notin OpToRel(<, Nat)
  <2>. HIDE DEF positions
  <2>. QED  BY <1>1, WFMin, NatLessThanWellFounded, Zenon
<1>3. \A k \in positions : ~(k < m)
  <2>. HIDE DEF positions
  <2>. QED  BY <1>1, <1>2, Zenon DEF OpToRel
<1>. QED  BY <1>3

=============================================================================
