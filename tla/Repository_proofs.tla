-------------------------- MODULE Repository_proofs --------------------------
(***************************************************************************)
(* Proofs about Repository, for any number of processors, any radix, any   *)
(* solutions with any values and owners, any settings: no cut-off of an    *)
(* enumeration is too good, every solution can be routed to its owner,     *)
(* flow control neither overruns a link nor forgets what waits for it, and *)
(* the right solutions are output if no processor can own too many.        *)
(***************************************************************************)
EXTENDS Repository, TreeTopology_proofs

(***************************************************************************)
(* The subtree of a node: the node and its descendants, all farther from   *)
(* the root.                                                               *)
(***************************************************************************)
LEMMA BelowItself ==
  ASSUME NEW p \in Proc
  PROVE  /\ Below[p] \subseteq Proc
         /\ p \in Below[p]
         /\ \A x \in Below[p] : Children(0, x) \subseteq Below[p]
<1>1. \A x \in Proc : Children(0, x) \subseteq Proc
  BY ChildIsNotRoot, TreeAssumption DEF Proc
<1>. QED  BY <1>1 DEF Below

\* Below[p] is the least set that has p and the children of its members.
LEMMA BelowIsLeast ==
  ASSUME NEW p \in Proc, NEW S \in SUBSET Proc, p \in S,
         \A x \in S : Children(0, x) \subseteq S
  PROVE  Below[p] \subseteq S
BY DEF Below

\* A node below p is not nearer to the root than p.
LEMMA BelowIsFarther ==
  ASSUME NEW p \in Proc, NEW q \in Below[p]
  PROVE  RelPosition(0, p) <= RelPosition(0, q)
<1>. DEFINE S == {x \in Proc : RelPosition(0, p) <= RelPosition(0, x)}
<1>0. 0 \in Proc
  BY TreeAssumption DEF Proc
<1>1. p \in S
  BY <1>0, RelPositionType DEF Proc
<1>2. ASSUME NEW x \in S, NEW y \in Children(0, x)
      PROVE  y \in S
  <2>1. y \in Proc /\ y # 0 /\ Parent(0, y) = x
    BY <1>0, ChildIsNotRoot, ParentOfItsChild
  <2>2. RelPosition(0, x) < RelPosition(0, y)
    BY <1>0, <2>1, ParentOfChild
  <2>3. /\ RelPosition(0, x) \in Int /\ RelPosition(0, y) \in Int
        /\ RelPosition(0, p) \in Int
    BY <1>0, <2>1, RelPositionType DEF Proc
  <2>. QED  BY <2>1, <2>2, <2>3
<1>3. Below[p] \subseteq S
  <2>. HIDE DEF S
  <2>1. S \subseteq Proc
    BY DEF S
  <2>. QED  BY <1>1, <1>2, <2>1, BelowIsLeast
<1>. QED  BY <1>3

\* All nodes between p and a node below it are below p, too.
LEMMA BelowByParent ==
  ASSUME NEW p \in Proc, NEW q \in Below[p], q # p
  PROVE  q # 0 /\ Parent(0, q) \in Below[p]
<1>. DEFINE S == {x \in Below[p] : x = p \/ (x # 0 /\ Parent(0, x) \in Below[p])}
<1>0. 0 \in Proc
  BY TreeAssumption DEF Proc
<1>1. p \in S /\ S \subseteq Proc
  BY BelowItself
<1>2. ASSUME NEW x \in S, NEW y \in Children(0, x)
      PROVE  y \in S
  <2>1. x \in Proc /\ x \in Below[p] /\ y \in Below[p]
    BY BelowItself
  <2>2. y # 0 /\ Parent(0, y) = x
    BY <1>0, <2>1, ChildIsNotRoot, ParentOfItsChild
  <2>. QED  BY <2>1, <2>2
<1>3. Below[p] \subseteq S
  <2>. HIDE DEF S
  <2>. QED  BY <1>1, <1>2, BelowIsLeast
<1>. QED  BY <1>3

\* A child has part of the subtree of its parent, and not the parent.
LEMMA BelowChild ==
  ASSUME NEW p \in Proc, NEW c \in Children(0, p)
  PROVE  /\ c \in Proc
         /\ Below[c] \subseteq Below[p]
         /\ p \notin Below[c]
<1>0. 0 \in Proc
  BY TreeAssumption DEF Proc
<1>1. c \in Proc /\ c # 0 /\ Parent(0, c) = p
  BY <1>0, ChildIsNotRoot, ParentOfItsChild
<1>2. Below[c] \subseteq Below[p]
  <2>1. c \in Below[p] /\ Below[p] \subseteq Proc
    BY BelowItself
  <2>. QED  BY <1>1, <2>1, BelowItself, BelowIsLeast
<1>3. p \notin Below[c]
  <2>1. RelPosition(0, p) < RelPosition(0, c)
    BY <1>0, <1>1, ParentOfChild
  <2>2. RelPosition(0, p) \in Int /\ RelPosition(0, c) \in Int
    BY <1>0, <1>1, RelPositionType DEF Proc
  <2>. QED  BY <1>1, <2>1, <2>2, BelowIsFarther
<1>. QED  BY <1>1, <1>2, <1>3

\* Different children of a node share nothing, so merging their lists
\* counts no processor's solutions twice.
LEMMA SubtreesAreApart ==
  ASSUME NEW p \in Proc, NEW c \in Children(0, p), NEW d \in Children(0, p), c # d
  PROVE  Below[c] \cap Below[d] = {}
<1>. DEFINE S == Below[c] \ Below[d]
<1>0. 0 \in Proc
  BY TreeAssumption DEF Proc
<1>1. /\ c \in Proc /\ Parent(0, c) = p
      /\ d \in Proc /\ Parent(0, d) = p
      /\ p \notin Below[c] /\ p \notin Below[d]
  BY <1>0, BelowChild, ParentOfItsChild
<1>2. c \in S /\ S \subseteq Proc
  BY <1>1, BelowItself, BelowByParent
<1>3. ASSUME NEW x \in S, NEW y \in Children(0, x)
      PROVE  y \in S
  <2>1. x \in Proc /\ y \in Below[c]
    BY <1>1, BelowItself
  <2>2. Parent(0, y) = x
    BY <1>0, <2>1, ParentOfItsChild
  <2>3. y \notin Below[d]
    BY <1>1, <2>1, <2>2, BelowByParent
  <2>. QED  BY <2>1, <2>3
<1>4. Below[c] \subseteq S
  <2>. HIDE DEF S
  <2>. QED  BY <1>1, <1>2, <1>3, BelowIsLeast
<1>. QED  BY <1>4

-----------------------------------------------------------------------------
(***************************************************************************)
(* The order of solutions.  In a set in which any two are ordered, the     *)
(* better of two has fewer before it, and for each number up to the size   *)
(* there is one that has so many before it.                                *)
(***************************************************************************)
Rank(S, x) == Cardinality({y \in S : Before(y, x)})

Ordered(S) ==
  /\ IsFiniteSet(S) /\ S \subseteq Identifier
  /\ \A x, y \in S : x # y => Before(x, y) \/ Before(y, x)

\* Solutions are ordered by value, stamp and owner: a strict partial order.
LEMMA BeforeIsStrict ==
  ASSUME NEW x \in Identifier, NEW y \in Identifier, NEW z \in Identifier
  PROVE  /\ ~Before(x, x)
         /\ Before(x, y) => ~Before(y, x)
         /\ Before(x, y) /\ Before(y, z) => Before(x, z)
<1>. /\ x.value \in Int /\ y.value \in Int /\ z.value \in Int
     /\ x.serial \in Int /\ y.serial \in Int /\ z.serial \in Int
     /\ x.owner \in Int /\ y.owner \in Int /\ z.owner \in Int
  BY DEF Identifier, Proc
<1>. QED  BY DEF Before

\* The rank of a solution is the number of those before it.
LEMMA RankGrows ==
  ASSUME NEW S, Ordered(S), NEW x \in S
  PROVE  /\ Rank(S, x) \in Nat
         /\ \A y \in S : Before(y, x) => Rank(S, y) < Rank(S, x)
         /\ \A y \in S : y # x => Rank(S, y) # Rank(S, x)
<1>1. \A y \in S : IsFiniteSet({z \in S : Before(z, y)}) /\ Rank(S, y) \in Nat
  <2>. TAKE y \in S
  <2>1. {z \in S : Before(z, y)} \subseteq S
    OBVIOUS
  <2>2. IsFiniteSet({z \in S : Before(z, y)})
    BY <2>1, FS_Subset DEF Ordered
  <2>. QED  BY <2>2, FS_CardinalityType DEF Rank
<1>2. ASSUME NEW y \in S, NEW z \in S, Before(y, z)
      PROVE  Rank(S, y) < Rank(S, z)
  <2>. DEFINE Y == {w \in S : Before(w, y)}
              Z == {w \in S : Before(w, z)}
  <2>1. Y \subseteq Z
    BY <1>2, BeforeIsStrict DEF Ordered
  <2>2. y \in Z /\ y \notin Y
    BY <1>2, BeforeIsStrict DEF Ordered
  <2>3. IsFiniteSet(Z)
    BY <1>1
  <2>4. Cardinality(Y) <= Cardinality(Z) /\ Cardinality(Y) # Cardinality(Z)
    <3>. HIDE DEF Y, Z
    <3>. QED  BY <2>1, <2>2, <2>3, FS_Subset
  <2>5. Cardinality(Y) = Rank(S, y) /\ Cardinality(Z) = Rank(S, z)
    BY DEF Rank
  <2>6. Rank(S, y) \in Nat /\ Rank(S, z) \in Nat
    BY <1>1
  <2>. HIDE DEF Y, Z
  <2>. QED  BY <2>4, <2>5, <2>6
<1>3. ASSUME NEW y \in S, y # x
      PROVE  Rank(S, y) # Rank(S, x)
  <2>1. Rank(S, y) \in Nat /\ Rank(S, x) \in Nat
    BY <1>1
  <2>2. Before(x, y) \/ Before(y, x)
    BY <1>3 DEF Ordered
  <2>3. Rank(S, x) < Rank(S, y) \/ Rank(S, y) < Rank(S, x)
    BY <1>2, <2>2
  <2>. QED  BY <2>1, <2>3
<1>. QED  BY <1>1, <1>2, <1>3, Zenon

\* At most n solutions have a rank below n.
LEMMA RanksBound ==
  ASSUME NEW S, Ordered(S), NEW T \in SUBSET S, NEW n \in Nat,
         \A x \in T : Rank(S, x) < n
  PROVE  Cardinality(T) <= n
<1>. DEFINE f == [x \in T |-> Rank(S, x)]
<1>1. f \in Injection(T, 0 .. n - 1)
  <2>1. f \in [T -> 0 .. n - 1]
    BY RankGrows
  <2>2. ASSUME NEW x \in T, NEW y \in T, f[x] = f[y]
        PROVE  x = y
    BY <2>2, RankGrows
  <2>. QED
    <3>. HIDE DEF f
    <3>. QED  BY <2>1, <2>2 DEF Injection, IsInjective
<1>2. IsFiniteSet(0 .. n - 1) /\ Cardinality(0 .. n - 1) = n
  <2>1. 0 \in Int /\ n - 1 \in Int
    OBVIOUS
  <2>. QED  BY <2>1, FS_Interval
<1>. HIDE DEF f
<1>. QED  BY <1>1, <1>2, FS_Injection

\* A list that is cut to n has at most n members.
LEMMA BestAreFew ==
  ASSUME NEW S, Ordered(S), NEW n \in Nat
  PROVE  IsFiniteSet(BestOf(S, n)) /\ Cardinality(BestOf(S, n)) <= n
<1>1. BestOf(S, n) \in SUBSET S /\ \A x \in BestOf(S, n) : Rank(S, x) < n
  BY DEF BestOf, Rank
<1>2. IsFiniteSet(BestOf(S, n))
  BY <1>1, FS_Subset DEF Ordered
<1>. QED  BY <1>1, <1>2, RanksBound

\* A set of at least n has exactly one with n - 1 before it.
LEMMA NthExists ==
  ASSUME NEW S, Ordered(S), NEW n \in Nat \ {0}, n <= Cardinality(S)
  PROVE  Nth(S, n) \in S /\ Rank(S, Nth(S, n)) = n - 1
<1>. DEFINE ranks == {Rank(S, x) : x \in {y \in S : Rank(S, y) >= n - 1}}
<1>0. Cardinality(S) \in Nat
  BY FS_CardinalityType DEF Ordered
<1>1. ranks # {}
  <2>. SUFFICES ASSUME \A x \in S : ~(Rank(S, x) >= n - 1)
                PROVE  FALSE
    OBVIOUS
  <2>1. \A x \in S : Rank(S, x) < n - 1
    BY RankGrows
  <2>2. n - 1 \in Nat
    OBVIOUS
  <2>3. Cardinality(S) <= n - 1
    BY <2>1, <2>2, RanksBound
  <2>. QED  BY <1>0, <2>3
<1>2. ranks \subseteq Nat
  BY RankGrows
<1>3. PICK m \in ranks : \A k \in ranks : <<k, m>> \notin OpToRel(<, Nat)
  <2>. HIDE DEF ranks
  <2>. QED  BY <1>1, <1>2, WFMin, NatLessThanWellFounded, Zenon
<1>4. \A k \in ranks : ~(k < m)
  <2>. HIDE DEF ranks
  <2>. QED  BY <1>2, <1>3, Zenon DEF OpToRel
<1>5. PICK x \in S : Rank(S, x) = m /\ Rank(S, x) >= n - 1
  OBVIOUS
<1>6. \A y \in S : Before(y, x) => Rank(S, y) < n - 1
  <2>. TAKE y \in S
  <2>. HAVE Before(y, x)
  <2>1. Rank(S, y) < m /\ Rank(S, y) \in Nat
    BY <1>5, RankGrows
  <2>2. ~(Rank(S, y) >= n - 1)
    BY <1>4, <2>1
  <2>. QED  BY <2>1, <2>2
<1>7. Rank(S, x) <= n - 1
  <2>. DEFINE T == {y \in S : Before(y, x)}
  <2>1. T \in SUBSET S /\ \A y \in T : Rank(S, y) < n - 1
    BY <1>6
  <2>2. n - 1 \in Nat
    OBVIOUS
  <2>3. Cardinality(T) <= n - 1
    <3>. HIDE DEF T
    <3>. QED  BY <2>1, <2>2, RanksBound
  <2>. QED  BY <2>3 DEF Rank
<1>8. Rank(S, x) = n - 1
  BY <1>5, <1>7, RankGrows
<1>. QED  BY <1>8 DEF Nth, Rank

-----------------------------------------------------------------------------
\* Twice a power of two is one, too.
LEMMA DoublePower ==
  ASSUME NEW m \in Nat \ {0}, PowerOf2(m)
  PROVE  PowerOf2(2 * m)
<1>. SUFFICES ASSUME NEW d \in 2 .. 2 * m, (2 * m) % d = 0, d % 2 # 0
              PROVE  FALSE
  BY DEF PowerOf2
<1>. DEFINE k == (2 * m) \div d
            e == d \div 2
            j == m - e * k
<1>1. 2 * m = d * k /\ k \in Int
  BY Z3
<1>2. d = 2 * e + 1 /\ e \in Int
  BY Z3
<1>3. j \in Int /\ k = 2 * j
  <2>. HIDE DEF k, e
  <2>1. e * k \in Int
    BY <1>1, <1>2
  <2>2. d * k = 2 * (e * k) + k
    BY <1>1, <1>2, Z3
  <2>. QED  BY <1>1, <2>1, <2>2
<1>4. m = d * j
  <2>. HIDE DEF k, e, j
  <2>. QED  BY <1>1, <1>3, Z3
<1>5. d <= m /\ m % d = 0
  <2>. HIDE DEF k, e, j
  <2>1. j >= 1
    BY <1>3, <1>4, Z3
  <2>2. d <= d * j
    BY <1>3, <2>1, Z3
  <2>3. (d * j) % d = 0
    BY <1>3, Z3
  <2>. QED  BY <1>4, <2>2, <2>3
<1>. QED  BY <1>5 DEF PowerOf2

\* Bits move down by one when a number is halved.
LEMMA BitOfHalf ==
  ASSUME NEW p \in Nat, NEW m \in Nat \ {0}
  PROVE  Bit(p, 2 * m) = Bit(p \div 2, m)
<1>. DEFINE h == p \div 2
            q == h \div m
<1>1. h \in Nat /\ q \in Nat /\ q * m <= h /\ h < q * m + m
  BY QuotientBounds
<1>2. 2 * h <= p /\ p <= 2 * h + 1
  BY Z3
<1>. DEFINE i == p - q * (2 * m)
<1>3. i \in Nat /\ i < 2 * m /\ p = q * (2 * m) + i
  <2>. HIDE DEF h, q
  <2>1. q * (2 * m) = 2 * (q * m)
    BY <1>1, Z3
  <2>2. q * m \in Int
    BY <1>1
  <2>. QED  BY <1>1, <1>2, <2>1, <2>2
<1>4. p \div (2 * m) = q
  <2>. HIDE DEF h, q, i
  <2>1. 2 * m \in Nat \ {0}
    OBVIOUS
  <2>2. (q * (2 * m) + i) \div (2 * m) = q
    BY <1>1, <1>3, <2>1, QuotientOfSum
  <2>. QED  BY <1>3, <2>2
<1>. QED  BY <1>4 DEF Bit

\* Adding or subtracting a bit flips it.
LEMMA BitValue ==
  ASSUME NEW p \in Nat, NEW b \in Nat \ {0}
  PROVE  /\ Bit(p, b) \in {0, 1}
         /\ Bit(p, b) = 1 => b <= p /\ Bit(p - b, b) = 0
         /\ Bit(p, b) = 0 => Bit(p + b, b) = 1
<1>. DEFINE q == p \div b
            i == p - q * b
<1>1. q \in Nat /\ i \in Nat /\ i < b /\ p = q * b + i
  BY QuotientBounds
<1>2. Bit(p, b) = q % 2
  BY DEF Bit
<1>3. q % 2 \in {0, 1}
  BY <1>1, Z3
<1>4. ASSUME q % 2 = 1
      PROVE  b <= p /\ Bit(p - b, b) = 0
  <2>. HIDE DEF q, i
  <2>1. q >= 1 /\ (q - 1) % 2 = 0
    BY <1>1, <1>4, Z3
  <2>2. q * b = (q - 1) * b + b
    BY <1>1, Z3
  <2>3. q - 1 \in Nat /\ (q - 1) * b \in Nat
    BY <1>1, <2>1
  <2>4. p - b = (q - 1) * b + i
    BY <1>1, <2>2, <2>3
  <2>5. (p - b) \div b = q - 1
    BY <1>1, <2>3, <2>4, QuotientOfSum
  <2>. QED  BY <1>1, <2>1, <2>3, <2>4, <2>5 DEF Bit
<1>5. ASSUME q % 2 = 0
      PROVE  Bit(p + b, b) = 1
  <2>. HIDE DEF q, i
  <2>1. (q + 1) % 2 = 1
    BY <1>1, <1>5, Z3
  <2>2. (q + 1) * b = q * b + b
    BY <1>1, Z3
  <2>3. q + 1 \in Nat /\ q * b \in Nat
    BY <1>1
  <2>4. p + b = (q + 1) * b + i
    BY <1>1, <2>2, <2>3
  <2>5. (p + b) \div b = q + 1
    BY <1>1, <2>3, <2>4, QuotientOfSum
  <2>. QED  BY <2>1, <2>5 DEF Bit
<1>. HIDE DEF q, i
<1>. QED  BY <1>2, <1>3, <1>4, <1>5

\* The other end of a link has the link, too, and LinkTo finds it: what
\* solAckAction looks up by the sender's rank is the link that was used.
LEMMA NeighborOfNeighbor ==
  ASSUME NEW p \in Proc, NEW b \in Link
  PROVE  /\ Neighbor(p, b) \in Nat \ {p}
         /\ Neighbor(Neighbor(p, b), b) = p
         /\ \A c \in Link : Neighbor(p, c) = Neighbor(p, b) => c = b
         /\ LinkTo(p, Neighbor(p, b)) = b
<1>1. p \in Nat /\ Link \subseteq Nat \ {0}
  BY DEF Proc, Link
<1>2. \A c \in Link : /\ Bit(p, c) \in {0, 1}
                      /\ Bit(p, c) = 1 => c <= p /\ Bit(p - c, c) = 0
                      /\ Bit(p, c) = 0 => Bit(p + c, c) = 1
  BY <1>1, BitValue
<1>3. Neighbor(p, b) \in Nat \ {p}
  BY <1>1, <1>2 DEF Neighbor
<1>4. Neighbor(Neighbor(p, b), b) = p
  BY <1>1, <1>2 DEF Neighbor
<1>5. \A c \in Link : Neighbor(p, c) = Neighbor(p, b) => c = b
  BY <1>1, <1>2 DEF Neighbor
<1>. QED  BY <1>3, <1>4, <1>5 DEF LinkTo

\* Two ranks differ in a bit; if the smaller one lacks it, adding it does
\* not go beyond the larger one.
LEMMA BitThatDiffers ==
  \A p, q \in Nat : p # q =>
    \E m \in Nat \ {0} : /\ PowerOf2(m) /\ Bit(p, m) # Bit(q, m)
                         /\ Bit(p, m) = 1 \/ p + m <= q
<1>. DEFINE Fine(a, b) ==
              \E m \in Nat \ {0} : /\ PowerOf2(m) /\ Bit(a, m) # Bit(b, m)
                                   /\ Bit(a, m) = 1 \/ a + m <= b
            Bad == {n \in Nat : \E a, b \in Nat : n = a + b /\ a # b /\ ~Fine(a, b)}
<1>1. SUFFICES Bad = {}
  <2>. SUFFICES ASSUME NEW p \in Nat, NEW q \in Nat, p # q
                PROVE  Fine(p, q)
    OBVIOUS
  <2>1. p + q \notin Bad
    <3>. HIDE DEF Bad
    <3>. QED  BY <1>1
  <2>. DEFINE k == p + q
  <2>2. k \in Nat /\ k = p + q
    OBVIOUS
  <2>3. k \notin Bad
    BY <2>1
  <2>. HIDE DEF k, Fine
  <2>. QED  BY <2>2, <2>3
<1>2. SUFFICES ASSUME Bad # {}
               PROVE  FALSE
  OBVIOUS
<1>3. PICK n \in Bad : \A k \in Bad : <<k, n>> \notin OpToRel(<, Nat)
  <2>1. Bad \subseteq Nat
    OBVIOUS
  <2>. HIDE DEF Bad
  <2>. QED  BY <1>2, <2>1, WFMin, NatLessThanWellFounded, Zenon
<1>4. \A k \in Bad : ~(k < n)
  <2>1. Bad \subseteq Nat
    OBVIOUS
  <2>. HIDE DEF Bad
  <2>. QED  BY <1>3, <2>1, Zenon DEF OpToRel
<1>5. PICK p \in Nat, q \in Nat : n = p + q /\ p # q /\ ~Fine(p, q)
  OBVIOUS
<1>. DEFINE a == p \div 2
            b == q \div 2
<1>6. /\ a \in Nat /\ 2 * a <= p /\ p <= 2 * a + 1 /\ p = 2 * a + (p % 2)
      /\ b \in Nat /\ 2 * b <= q /\ q <= 2 * b + 1 /\ q = 2 * b + (q % 2)
      /\ p % 2 \in {0, 1} /\ q % 2 \in {0, 1}
  BY Z3
<1>7. ASSUME a # b
      PROVE  Fine(a, b)
  <2>. HIDE DEF a, b, Fine
  <2>1. a + b \in Nat /\ a + b < n
    BY <1>5, <1>6, <1>7
  <2>2. a + b \notin Bad
    BY <1>4, <2>1
  <2>. QED  BY <1>6, <1>7, <2>1, <2>2
<1>8. PowerOf2(1) /\ \A c \in Nat : Bit(c, 1) = c % 2
  <2>1. PowerOf2(1)
    BY DEF PowerOf2
  <2>2. \A c \in Nat : c \div 1 = c
    BY Z3
  <2>. QED  BY <2>1, <2>2 DEF Bit
<1>9. ASSUME NEW m \in Nat \ {0}, PowerOf2(m), Bit(a, m) # Bit(b, m),
             Bit(a, m) = 1 \/ 2 * a + 2 * m <= q - (p % 2)
      PROVE  Fine(p, q)
  <2>1. PowerOf2(2 * m) /\ 2 * m \in Nat \ {0}
    BY <1>9, DoublePower
  <2>2. Bit(p, 2 * m) = Bit(a, m) /\ Bit(q, 2 * m) = Bit(b, m)
    BY BitOfHalf
  <2>3. Bit(p, 2 * m) = 1 \/ p + 2 * m <= q
    <3>. HIDE DEF a, b
    <3>. QED  BY <1>6, <1>9, <2>2
  <2>. HIDE DEF a, b
  <2>. QED  BY <1>9, <2>1, <2>2, <2>3
<1>10. CASE p % 2 = q % 2
  <2>1. a # b
    <3>. HIDE DEF a, b
    <3>. QED  BY <1>5, <1>6, <1>10
  <2>2. PICK m \in Nat \ {0} : /\ PowerOf2(m) /\ Bit(a, m) # Bit(b, m)
                               /\ Bit(a, m) = 1 \/ a + m <= b
    BY <1>7, <2>1
  <2>3. Bit(a, m) = 1 \/ 2 * a + 2 * m <= q - (p % 2)
    <3>. HIDE DEF a, b
    <3>. QED  BY <1>6, <1>10, <2>2
  <2>. HIDE DEF a, b, Fine
  <2>. QED  BY <1>5, <1>9, <2>2, <2>3
<1>11. CASE p % 2 # q % 2 /\ (p % 2 = 1 \/ p < q)
  <2>1. Bit(p, 1) # Bit(q, 1) /\ (Bit(p, 1) = 1 \/ p + 1 <= q)
    BY <1>8, <1>11
  <2>. QED  BY <1>5, <1>8, <2>1
<1>12. CASE p % 2 = 0 /\ q % 2 = 1 /\ ~(p < q)
  <2>1. a > b
    <3>. HIDE DEF a, b
    <3>. QED  BY <1>5, <1>6, <1>12
  <2>2. PICK m \in Nat \ {0} : /\ PowerOf2(m) /\ Bit(a, m) # Bit(b, m)
                               /\ Bit(a, m) = 1 \/ a + m <= b
    <3>1. a # b
      BY <1>6, <2>1
    <3>. QED  BY <1>7, <3>1
  <2>3. Bit(a, m) = 1
    <3>. HIDE DEF a, b
    <3>. QED  BY <1>6, <2>1, <2>2
  <2>. HIDE DEF a, b, Fine
  <2>. QED  BY <1>5, <1>9, <2>2, <2>3
<1>. HIDE DEF a, b, Fine
<1>. QED  BY <1>6, <1>10, <1>11, <1>12

\* A solution can always go on: from any processor but its owner some link
\* leads to a processor of the (possibly incomplete) hypercube in a bit
\* that differs from the owner, so routePackedSolution never gives up with
\* "Could not find an outgoing link".
THEOREM LinkExists ==
  ASSUME NEW p \in Proc, NEW owner \in Proc, p # owner
  PROVE  \E b \in LinksTowards(p, owner) : Neighbor(p, b) \in Proc
<1>1. p \in Nat /\ owner \in Nat /\ p < N /\ owner < N /\ N \in Nat
  BY TreeAssumption DEF Proc
<1>2. PICK m \in Nat \ {0} : /\ PowerOf2(m) /\ Bit(p, m) # Bit(owner, m)
                             /\ Bit(p, m) = 1 \/ p + m <= owner
  BY <1>1, BitThatDiffers
<1>3. Bit(p, m) \in {0, 1} /\ (Bit(p, m) = 1 => m <= p)
  BY <1>1, BitValue
<1>4. m \in Link
  BY <1>1, <1>2, <1>3 DEF Link
<1>5. Neighbor(p, m) \in Nat /\ Neighbor(p, m) < N
  BY <1>1, <1>2, <1>3 DEF Neighbor
<1>. QED  BY <1>1, <1>2, <1>4, <1>5 DEF LinksTowards, Proc

-----------------------------------------------------------------------------
(***************************************************************************)
(* What is genuine remains so when more solutions are found.               *)
(***************************************************************************)
RealIn(f, n, x) == x # NoSolution => Cardinality({s \in f : Value[s] <= x.value}) >= n

GenuineIn(f, ids, owners) ==
  /\ IsFiniteSet(ids)
  /\ \A x \in ids : /\ x.sol \in f /\ x.value = Value[x.sol]
                    /\ x.owner = Owner[x.sol] /\ x.owner \in owners
  /\ \A x, y \in ids :
       x.sol = y.sol \/ (x.owner = y.owner /\ x.serial = y.serial) => x = y

MessageIn(f, n, q, p, m) ==
  /\ m.type \in {"hashSol", "forwardSol"} => m.sol \in f
  /\ m.type \in {"forwardSol", "ackSol"} => \E b \in Link : p = Neighbor(q, b)
  /\ m.type = "hashSol" => Owner[m.sol] = p
  /\ m.type = "reposArray" => /\ n > 1 /\ q # 0 /\ p = Parent(0, q)
                             /\ GenuineIn(f, m.ids, Below[q])
  /\ m.type = "newLastSol" => RealIn(f, n, m.id)

NetIn(f, n, net) ==
  /\ net \in [Proc -> [Proc -> Seq(Messages)]]
  /\ \A p, q \in Proc : \A i \in DOMAIN net[q][p] : MessageIn(f, n, q, p, net[q][p][i])

\* What is genuine or real stays so when more is found.
LEMMA FoundGrows ==
  ASSUME NEW f, NEW g, IsFiniteSet(g), f \subseteq g, g \subseteq Solution,
         NEW n \in Int
  PROVE  /\ \A x : RealIn(f, n, x) => RealIn(g, n, x)
         /\ \A ids, owners : GenuineIn(f, ids, owners) => GenuineIn(g, ids, owners)
         /\ \A net : NetIn(f, n, net) => NetIn(g, n, net)
<1>1. ASSUME NEW x, RealIn(f, n, x)
      PROVE  RealIn(g, n, x)
  <2>. DEFINE F == {s \in f : Value[s] <= x.value}
              G == {s \in g : Value[s] <= x.value}
  <2>1. IsFiniteSet(G)
    <3>1. G \subseteq g
      OBVIOUS
    <3>. HIDE DEF G
    <3>. QED  BY <3>1, FS_Subset
  <2>2. F \subseteq G
    OBVIOUS
  <2>3. IsFiniteSet(F) /\ Cardinality(F) <= Cardinality(G)
    <3>. HIDE DEF F, G
    <3>. QED  BY <2>1, <2>2, FS_Subset
  <2>4. Cardinality(F) \in Nat /\ Cardinality(G) \in Nat
    <3>. HIDE DEF F, G
    <3>. QED  BY <2>1, <2>3, FS_CardinalityType
  <2>5. x # NoSolution => Cardinality(F) >= n
    BY <1>1 DEF RealIn
  <2>6. x # NoSolution => Cardinality(G) >= n
    <3>. HIDE DEF F, G
    <3>. QED  BY <2>3, <2>4, <2>5
  <2>. QED  BY <2>6 DEF RealIn
<1>2. \A ids, owners : GenuineIn(f, ids, owners) => GenuineIn(g, ids, owners)
  BY DEF GenuineIn
<1>3. ASSUME NEW net, NetIn(f, n, net)
      PROVE  NetIn(g, n, net)
  <2>1. ASSUME NEW p, NEW q, NEW m, MessageIn(f, n, q, p, m)
        PROVE  MessageIn(g, n, q, p, m)
    BY <1>1, <1>2, <2>1 DEF MessageIn
  <2>. QED  BY <1>3, <2>1 DEF NetIn
<1>. QED  BY <1>1, <1>2, <1>3, Zenon

(***************************************************************************)
(* Receiving and sending.                                                  *)
(***************************************************************************)
LEMMA NetReceives ==
  ASSUME NEW f, NEW n, NEW net, NetIn(f, n, net), NEW p \in Proc, NEW q \in Proc,
         net[q][p] # <<>>
  PROVE  /\ Head(net[q][p]) \in Messages
         /\ MessageIn(f, n, q, p, Head(net[q][p]))
         /\ NetIn(f, n, [net EXCEPT ![q][p] = Tail(@)])
<1>. DEFINE s == net[q][p]
            t == Tail(s)
            new == [net EXCEPT ![q][p] = t]
<1>1. s \in Seq(Messages) /\ s # <<>>
  BY DEF NetIn
<1>2. /\ Head(s) \in Messages /\ Head(s) = s[1] /\ 1 \in DOMAIN s
      /\ t \in Seq(Messages)
      /\ \A i \in DOMAIN t : i + 1 \in DOMAIN s /\ t[i] = s[i + 1]
  <2>. HIDE DEF s
  <2>. QED  BY <1>1
<1>3. \A i \in DOMAIN s : MessageIn(f, n, q, p, s[i])
  BY DEF NetIn
<1>4. /\ new \in [Proc -> [Proc -> Seq(Messages)]]
      /\ \A a, b \in Proc : new[b][a] = IF b = q /\ a = p THEN t ELSE net[b][a]
  <2>. HIDE DEF t
  <2>. QED  BY <1>2 DEF NetIn
<1>5. ASSUME NEW a \in Proc, NEW b \in Proc, NEW i \in DOMAIN new[b][a]
      PROVE  MessageIn(f, n, b, a, new[b][a][i])
  <2>1. CASE b = q /\ a = p
    <3>1. i \in DOMAIN t /\ new[b][a][i] = t[i]
      <4>. HIDE DEF t, new
      <4>. QED  BY <1>4, <1>5, <2>1
    <3>. HIDE DEF s, t, new
    <3>. QED  BY <1>2, <1>3, <2>1, <3>1
  <2>2. CASE ~(b = q /\ a = p)
    <3>1. new[b][a] = net[b][a]
      <4>. HIDE DEF new
      <4>. QED  BY <1>4, <2>2
    <3>. HIDE DEF s, t, new
    <3>. QED  BY <1>5, <3>1 DEF NetIn
  <2>. QED  BY <2>1, <2>2
<1>6. NetIn(f, n, new)
  <2>. HIDE DEF new
  <2>. QED  BY <1>4, <1>5 DEF NetIn
<1>7. MessageIn(f, n, q, p, Head(s))
  <2>. HIDE DEF s, t
  <2>. QED  BY <1>2, <1>3
<1>. QED  BY <1>2, <1>6, <1>7

\* A genuine message may be sent.
LEMMA NetSends ==
  ASSUME NEW f, NEW n, NEW net, NetIn(f, n, net), NEW p \in Proc, NEW q,
         NEW m \in Messages, q \in Proc => MessageIn(f, n, p, q, m)
  PROVE  NetIn(f, n, [net EXCEPT ![p][q] = Append(@, m)])
<1>. DEFINE s == net[p][q]
            t == Append(s, m)
            new == [net EXCEPT ![p][q] = t]
<1>1. /\ new \in [Proc -> [Proc -> Seq(Messages)]]
      /\ \A a, b \in Proc : new[a][b] = IF a = p /\ b = q THEN t ELSE net[a][b]
  <2>1. q \in Proc => t \in Seq(Messages)
    <3>1. q \in Proc => s \in Seq(Messages)
      BY DEF NetIn
    <3>. HIDE DEF s
    <3>. QED  BY <3>1
  <2>. HIDE DEF t
  <2>. QED  BY <2>1 DEF NetIn
<1>2. ASSUME NEW a \in Proc, NEW b \in Proc, NEW i \in DOMAIN new[a][b]
      PROVE  MessageIn(f, n, a, b, new[a][b][i])
  <2>1. CASE a = p /\ b = q
    <3>1. s \in Seq(Messages) /\ \A j \in DOMAIN s : MessageIn(f, n, p, q, s[j])
      BY <2>1 DEF NetIn
    <3>2. t[i] = m \/ (i \in DOMAIN s /\ t[i] = s[i])
      <4>1. i \in DOMAIN t
        <5>. HIDE DEF t, new
        <5>. QED  BY <1>1, <1>2, <2>1
      <4>. HIDE DEF s
      <4>. QED  BY <3>1, <4>1
    <3>3. new[a][b][i] = t[i]
      <4>. HIDE DEF t, new
      <4>. QED  BY <1>1, <2>1
    <3>. HIDE DEF s, t, new
    <3>. QED  BY <2>1, <3>1, <3>2, <3>3
  <2>2. CASE ~(a = p /\ b = q)
    <3>1. new[a][b] = net[a][b]
      <4>. HIDE DEF new
      <4>. QED  BY <1>1, <2>2
    <3>. HIDE DEF s, t, new
    <3>. QED  BY <1>2, <3>1 DEF NetIn
  <2>. QED  BY <2>1, <2>2
<1>3. NetIn(f, n, new)
  <2>. HIDE DEF new
  <2>. QED  BY <1>1, <1>2 DEF NetIn
<1>. QED  BY <1>3

\* A real cut-off may be relayed to all children.
LEMMA NetRelays ==
  ASSUME NEW f, NEW n, NEW net, NetIn(f, n, net), NEW p \in Proc,
         NEW x \in Identifier \cup {NoSolution}, RealIn(f, n, x)
  PROVE  NetIn(f, n, Relayed(net, p, x))
<1>. DEFINE m == [type |-> "newLastSol", id |-> x]
            new == Relayed(net, p, x)
<1>1. m \in Messages /\ \A q \in Proc : MessageIn(f, n, p, q, m)
  BY DEF Messages, MessageIn
<1>2. /\ new \in [Proc -> [Proc -> Seq(Messages)]]
      /\ \A a, b \in Proc : new[a][b] = IF a = p /\ b \in Children(0, p)
                                        THEN Append(net[a][b], m) ELSE net[a][b]
  <2>1. \A q \in Proc : net[p][q] \in Seq(Messages)
    BY DEF NetIn
  <2>2. \A q \in Proc : Append(net[p][q], m) \in Seq(Messages)
    <3>. HIDE DEF m
    <3>. QED  BY <1>1, <2>1
  <2>3. new = [net EXCEPT ![p] = [q \in Proc |-> IF q \in Children(0, p)
                                    THEN Append(net[p][q], m) ELSE net[p][q]]]
    BY DEF Relayed
  <2>. HIDE DEF m, new
  <2>. QED  BY <2>1, <2>2, <2>3 DEF NetIn
<1>3. ASSUME NEW a \in Proc, NEW b \in Proc, NEW i \in DOMAIN new[a][b]
      PROVE  MessageIn(f, n, a, b, new[a][b][i])
  <2>. DEFINE s == net[a][b]
  <2>1. s \in Seq(Messages) /\ \A j \in DOMAIN s : MessageIn(f, n, a, b, s[j])
    BY DEF NetIn
  <2>2. CASE a = p /\ b \in Children(0, p)
    <3>1. new[a][b] = Append(s, m)
      <4>. HIDE DEF m, new
      <4>. QED  BY <1>2, <2>2
    <3>2. new[a][b][i] = m \/ (i \in DOMAIN s /\ new[a][b][i] = s[i])
      <4>. HIDE DEF s, m, new
      <4>. QED  BY <1>3, <2>1, <3>1
    <3>. HIDE DEF s, m, new
    <3>. QED  BY <1>1, <2>1, <2>2, <3>2
  <2>3. CASE ~(a = p /\ b \in Children(0, p))
    <3>1. new[a][b] = s
      <4>. HIDE DEF m, new
      <4>. QED  BY <1>2, <2>3
    <3>. HIDE DEF s, m, new
    <3>. QED  BY <1>3, <2>1, <3>1
  <2>. QED  BY <2>2, <2>3
<1>4. NetIn(f, n, new)
  <2>. HIDE DEF m, new
  <2>. QED  BY <1>2, <1>3 DEF NetIn
<1>. QED  BY <1>4

-----------------------------------------------------------------------------
(***************************************************************************)
(* Parts of the repository and lists of identifiers.                       *)
(***************************************************************************)
LEMMA Settings ==
  ASSUME TypeOK
  PROVE  /\ par.enumCount \in Int
         /\ \A s \in Solution : Value[s] \in Nat /\ Owner[s] \in Proc
BY RepositoryAssumption DEF TypeOK

\* Different solutions of a genuine list are comparable.
LEMMA GenuineIsOrdered ==
  ASSUME NEW f, NEW owners, NEW ids \in SUBSET Identifier, GenuineIn(f, ids, owners)
  PROVE  Ordered(ids)
<1>1. ASSUME NEW x \in ids, NEW y \in ids, x # y
      PROVE  Before(x, y) \/ Before(y, x)
  <2>1. x.owner # y.owner \/ x.serial # y.serial
    BY <1>1 DEF GenuineIn
  <2>2. /\ x.value \in Int /\ y.value \in Int
        /\ x.serial \in Int /\ y.serial \in Int
        /\ x.owner \in Int /\ y.owner \in Int
    BY DEF Identifier, Proc
  <2>. QED  BY <2>1, <2>2 DEF Before
<1>. QED  BY <1>1 DEF Ordered, GenuineIn

\* Part of a genuine list is genuine.
LEMMA GenuineSubset ==
  ASSUME NEW f, NEW ids, NEW owners, GenuineIn(f, ids, owners), NEW some \in SUBSET ids
  PROVE  GenuineIn(f, some, owners)
<1>1. IsFiniteSet(some)
  BY FS_Subset DEF GenuineIn
<1>. QED  BY <1>1 DEF GenuineIn

(***************************************************************************)
(* What a processor does to its part when it is offered a solution.        *)
(***************************************************************************)
LEMMA OfferedIsGenuine ==
  ASSUME TypeOK, NEW f, NEW p \in Proc, NEW inc, NEW s \in Solution, s \in f, Owner[s] = p,
         GenuineIn(f, repos[p], {p}),
         \A x \in repos[p] : x.serial <= parallelSolCounter[p],
         Counting => Cardinality(repos[p]) <= par.enumCount
  PROVE  /\ Offered(p, inc, s) \in SUBSET Identifier
         /\ GenuineIn(f, Offered(p, inc, s), {p})
         /\ \A x \in Offered(p, inc, s) : x.serial <= parallelSolCounter[p] + 1
         /\ Counting => Cardinality(Offered(p, inc, s)) <= par.enumCount
<1>. DEFINE old  == repos[p]
            n    == par.enumCount
            x    == Stamped(p, s)
            kept == IF n > 0 /\ Cardinality(old) = n THEN BestOf(old, n - 1) ELSE old
<1>1. /\ old \in SUBSET Identifier /\ parallelSolCounter[p] \in Nat /\ n \in Int
      /\ Value[s] \in Nat
  BY Settings DEF TypeOK
<1>2. \A y \in old : y.serial \in Nat
  BY <1>1 DEF Identifier
<1>3. kept \in SUBSET old
  BY DEF BestOf
<1>4. CASE ~Admits(p, inc, s)
  <2>1. Offered(p, inc, s) = old
    BY <1>4 DEF Offered
  <2>. HIDE DEF old
  <2>. QED  BY <1>1, <1>2, <2>1 DEF old
<1>5. CASE Admits(p, inc, s)
  <2>1. Offered(p, inc, s) = {x} \cup kept
    BY <1>5 DEF Offered
  <2>2. /\ x \in Identifier /\ x.sol = s /\ x.owner = p /\ x.value = Value[s]
        /\ x.serial = parallelSolCounter[p] + 1
    BY <1>1 DEF Stamped, Identifier
  <2>3. \A y \in old : y.sol # s
    BY <1>5 DEF Admits
  <2>4. GenuineIn(f, kept, {p})
    <3>. HIDE DEF kept
    <3>. QED  BY <1>3, GenuineSubset
  <2>5. x \notin old /\ \A y \in old : y.serial # x.serial
    <3>. HIDE DEF old, x
    <3>1. \A y \in old : y.serial <= parallelSolCounter[p]
      BY DEF old
    <3>. QED  BY <1>1, <1>2, <2>2, <2>3, <3>1
  <2>6. GenuineIn(f, {x} \cup kept, {p})
    <3>. HIDE DEF kept, x, old
    <3>1. IsFiniteSet({x} \cup kept)
      <4>1. IsFiniteSet(kept \cup {x})
        BY <2>4, FS_AddElement DEF GenuineIn
      <4>2. kept \cup {x} = {x} \cup kept
        OBVIOUS
      <4>. QED  BY <4>1, <4>2
    <3>. QED  BY <1>3, <2>2, <2>3, <2>4, <2>5, <3>1 DEF GenuineIn
  <2>7. \A y \in {x} \cup kept : y.serial <= parallelSolCounter[p] + 1
    <3>. HIDE DEF kept, x
    <3>. QED  BY <1>1, <1>2, <1>3, <2>2
  <2>8. ASSUME Counting
        PROVE  Cardinality({x} \cup kept) <= n
    <3>1. n > 1
      BY <2>8 DEF Counting
    <3>2. Cardinality(old) \in Nat /\ Cardinality(old) <= n
      BY <2>8, FS_CardinalityType DEF GenuineIn
    <3>3. Cardinality(kept) <= n - 1
      <4>1. CASE Cardinality(old) = n
        <5>1. n - 1 \in Nat
          BY <1>1, <3>1
        <5>2. Ordered(old)
          BY <1>1, GenuineIsOrdered
        <5>3. Cardinality(BestOf(old, n - 1)) <= n - 1
          <6>. HIDE DEF old, n
          <6>. QED  BY <5>1, <5>2, BestAreFew
        <5>. HIDE DEF old, n
        <5>. QED  BY <3>1, <4>1, <5>3, <1>1
      <4>2. CASE Cardinality(old) # n
        <5>. HIDE DEF old, n
        <5>. QED  BY <1>1, <3>2, <4>2
      <4>. QED  BY <4>1, <4>2
    <3>4. Cardinality(kept) \in Nat /\ IsFiniteSet(kept)
      <4>. HIDE DEF kept
      <4>. QED  BY <2>4, FS_CardinalityType DEF GenuineIn
    <3>5. Cardinality(kept \cup {x}) = Cardinality(kept) + 1
      <4>. HIDE DEF kept, x, old
      <4>. QED  BY <1>3, <2>5, <3>4, FS_AddElement
    <3>6. Cardinality({x} \cup kept) = Cardinality(kept) + 1
      <4>. HIDE DEF kept, x
      <4>1. kept \cup {x} = {x} \cup kept
        OBVIOUS
      <4>. QED  BY <3>5, <4>1, Zenon
    <3>. HIDE DEF kept, x, n
    <3>. QED  BY <1>1, <3>3, <3>4, <3>6
  <2>. HIDE DEF kept, x
  <2>. QED  BY <1>3, <2>1, <2>2, <2>6, <2>7, <2>8, <1>1
<1>. QED  BY <1>4, <1>5

(***************************************************************************)
(* A cut-off made of a genuine list is real.                               *)
(***************************************************************************)
LEMMA CutOffOfGenuine ==
  ASSUME TypeOK, Counting, NEW ids \in SUBSET Identifier, NEW owners,
         GenuineIn(found, ids, owners),
         NEW last \in Identifier \cup {NoSolution}, Real(last)
  PROVE  CutOff(ids, last) \in Identifier \cup {NoSolution} /\ Real(CutOff(ids, last))
<1>. DEFINE n == par.enumCount
            x == Nth(ids, n)
<1>1. n \in Nat \ {0}
  BY Settings DEF Counting
<1>2. IsFiniteSet(ids) /\ Ordered(ids) /\ Cardinality(ids) \in Nat
  BY GenuineIsOrdered, FS_CardinalityType DEF GenuineIn
<1>3. CASE Cardinality(ids) < n
  BY <1>3 DEF CutOff
<1>4. CASE ~(Cardinality(ids) < n)
  <2>1. x \in ids /\ Rank(ids, x) = n - 1
    <3>. HIDE DEF n
    <3>1. n <= Cardinality(ids)
      BY <1>1, <1>2, <1>4
    <3>. QED  BY <1>1, <1>2, <3>1, NthExists
  <2>. DEFINE P == {y \in ids : Before(y, x)}
              T == P \cup {x}
              F == {s \in found : Value[s] <= x.value}
              g == [y \in T |-> y.sol]
  <2>2. IsFiniteSet(P) /\ Cardinality(P) = n - 1 /\ x \notin P
    <3>1. P \subseteq ids
      OBVIOUS
    <3>2. IsFiniteSet(P)
      <4>. HIDE DEF P
      <4>. QED  BY <1>2, <3>1, FS_Subset
    <3>3. Cardinality(P) = n - 1
      BY <2>1 DEF Rank
    <3>4. ~Before(x, x)
      <4>. HIDE DEF x
      <4>. QED  BY <2>1, BeforeIsStrict
    <3>. QED  BY <3>2, <3>3, <3>4
  <2>3. Cardinality(T) = n
    <3>1. n - 1 + 1 = n
      <4>. HIDE DEF n
      <4>. QED  BY <1>1
    <3>. HIDE DEF P, x, n
    <3>. QED  BY <2>2, <3>1, FS_AddElement
  <2>4. g \in Injection(T, F)
    <3>1. T \subseteq ids
      BY <2>1
    <3>2. \A y \in T : y.sol \in F
      <4>1. \A y \in T : y = x \/ Before(y, x)
        OBVIOUS
      <4>2. \A y \in T : y.sol \in found /\ y.value = Value[y.sol] /\ y.value \in Nat
        <5>. HIDE DEF T
        <5>. QED  BY <3>1 DEF GenuineIn, Identifier
      <4>3. \A y \in T : y.value <= x.value
        <5>. HIDE DEF T, x
        <5>1. x \in T
          BY DEF T
        <5>. QED  BY <4>1, <4>2, <5>1 DEF Before
      <4>. HIDE DEF T, x
      <4>. QED  BY <4>2, <4>3
    <3>3. \A y, z \in T : y.sol = z.sol => y = z
      <4>. HIDE DEF T
      <4>. QED  BY <3>1 DEF GenuineIn
    <3>. HIDE DEF T, F
    <3>. QED  BY <3>2, <3>3 DEF Injection, IsInjective
  <2>5. IsFiniteSet(F)
    <3>1. F \subseteq found /\ IsFiniteSet(found)
      BY DEF TypeOK
    <3>. HIDE DEF F
    <3>. QED  BY <3>1, FS_Subset
  <2>6. Cardinality(F) >= n
    <3>1. Cardinality(T) <= Cardinality(F)
      <4>. HIDE DEF T, F, g
      <4>. QED  BY <2>4, <2>5, FS_Injection
    <3>2. Cardinality(F) \in Nat
      <4>. HIDE DEF F
      <4>. QED  BY <2>5, FS_CardinalityType
    <3>. HIDE DEF T, F, n
    <3>. QED  BY <1>1, <2>3, <3>1, <3>2
  <2>7. Real(x) /\ x \in Identifier
    BY <2>1, <2>6 DEF Real
  <2>8. CutOff(ids, last) = Updated(last, x)
    BY <1>4 DEF CutOff
  <2>. HIDE DEF x
  <2>. QED  BY <2>7, <2>8 DEF Updated
<1>. QED  BY <1>3, <1>4

-----------------------------------------------------------------------------
(***************************************************************************)
(* The definitions of the specification in these terms.                    *)
(***************************************************************************)
LEMMA InTermsOfFound ==
  /\ \A ids, owners : Genuine(ids, owners) = GenuineIn(found, ids, owners)
  /\ \A x : Real(x) = RealIn(found, par.enumCount, x)
  /\ \A q, p, m : GenuineMessage(q, p, m) = MessageIn(found, par.enumCount, q, p, m)
<1>1. \A ids, owners : Genuine(ids, owners) = GenuineIn(found, ids, owners)
  BY DEF Genuine, GenuineIn
<1>2. \A x : Real(x) = RealIn(found, par.enumCount, x)
  BY DEF Real, RealIn
<1>3. \A q, p, m : GenuineMessage(q, p, m) = MessageIn(found, par.enumCount, q, p, m)
  BY <1>1, <1>2 DEF GenuineMessage, MessageIn, Counting
<1>. QED  BY <1>1, <1>2, <1>3, Zenon

\* The invariant about messages in these terms.
LEMMA NetIsGenuine ==
  TypeOK => (MessagesAreGenuine <=> NetIn(found, par.enumCount, channel))
BY InTermsOfFound DEF MessagesAreGenuine, NetIn, TypeOK

\* What a step does to the solutions found.
Grows ==
  /\ par' = par /\ par.enumCount \in Int
  /\ found \subseteq found' /\ found' \subseteq Solution /\ IsFiniteSet(found')

\* A step that only adds to what has been found keeps what is genuine.
LEMMA StaysGenuine ==
  ASSUME Grows
  PROVE  /\ Counting' = Counting
         /\ \A ids, owners : GenuineIn(found, ids, owners) => GenuineIn(found', ids, owners)
         /\ \A x : RealIn(found, par.enumCount, x) => RealIn(found', par'.enumCount, x)
         /\ \A net : NetIn(found, par.enumCount, net) => NetIn(found', par'.enumCount, net)
<1>. DEFINE n == par.enumCount
            f == found
            g == found'
<1>1. /\ IsFiniteSet(g) /\ f \subseteq g /\ g \subseteq Solution /\ n \in Int
      /\ par'.enumCount = n
  BY DEF Grows
<1>2. /\ \A x : RealIn(f, n, x) => RealIn(g, n, x)
      /\ \A ids, owners : GenuineIn(f, ids, owners) => GenuineIn(g, ids, owners)
      /\ \A net : NetIn(f, n, net) => NetIn(g, n, net)
  <2>. HIDE DEF f, g, n
  <2>. QED  BY <1>1, FoundGrows
<1>3. Counting' = Counting
  BY DEF Grows, Counting
<1>. QED  BY <1>1, <1>2, <1>3

\* The same definitions in the next state.
LEMMA InTermsOfFoundNext ==
  /\ \A ids, owners : Genuine(ids, owners)' = GenuineIn(found', ids, owners)
  /\ \A x : Real(x)' = RealIn(found', par'.enumCount, x)
  /\ TypeOK' => (MessagesAreGenuine' <=> NetIn(found', par'.enumCount, channel'))
<1>1. \A ids, owners : Genuine(ids, owners)' = GenuineIn(found', ids, owners)
  BY DEF Genuine, GenuineIn
<1>2. \A x : Real(x)' = RealIn(found', par'.enumCount, x)
  BY DEF Real, RealIn
<1>3. TypeOK' => (MessagesAreGenuine' <=> NetIn(found', par'.enumCount, channel'))
  <2>1. (TypeOK => (MessagesAreGenuine <=> NetIn(found, par.enumCount, channel)))'
    BY NetIsGenuine, PTL
  <2>. QED  BY <2>1
<1>. QED  BY <1>1, <1>2, <1>3, Zenon

\* Parts that a step leaves alone stay genuine.
LEMMA PartsStay ==
  ASSUME Grows, PartsAreGenuine, repos' = repos, parallelSolCounter' = parallelSolCounter
  PROVE  PartsAreGenuine'
<1>1. ASSUME NEW p \in Proc
      PROVE  Genuine(repos[p], {p})'
  <2>1. GenuineIn(found, repos[p], {p})
    BY InTermsOfFound DEF PartsAreGenuine
  <2>. QED  BY <2>1, StaysGenuine, InTermsOfFoundNext
<1>. QED  BY <1>1, StaysGenuine DEF PartsAreGenuine, Grows

\* So do the children's lists,
LEMMA ListsStay ==
  ASSUME Grows, ListsAreGenuine, childReposArray' = childReposArray
  PROVE  ListsAreGenuine'
<1>1. ASSUME NEW p \in Proc, NEW c \in Children(0, p)
      PROVE  Genuine(childReposArray[p][c], Below[c])'
  <2>1. GenuineIn(found, childReposArray[p][c], Below[c])
    BY InTermsOfFound DEF ListsAreGenuine
  <2>. QED  BY <2>1, StaysGenuine, InTermsOfFoundNext
<1>. QED  BY <1>1 DEF ListsAreGenuine

\* the cut-offs,
LEMMA CutOffsStay ==
  ASSUME Grows, CutOffsAreReal, lastSol' = lastSol, needReposMerge' = needReposMerge
  PROVE  CutOffsAreReal'
<1>1. ASSUME NEW p \in Proc
      PROVE  Real(lastSol[p])'
  <2>1. RealIn(found, par.enumCount, lastSol[p])
    BY InTermsOfFound DEF CutOffsAreReal
  <2>. QED  BY <2>1, StaysGenuine, InTermsOfFoundNext
<1>. QED  BY <1>1, StaysGenuine DEF CutOffsAreReal

\* the messages
LEMMA MessagesStay ==
  ASSUME Grows, TypeOK, TypeOK', MessagesAreGenuine, channel' = channel
  PROVE  MessagesAreGenuine'
BY StaysGenuine, NetIsGenuine, InTermsOfFoundNext

\* and the queues, from which a step may remove solutions.
LEMMA QueuesStay ==
  ASSUME Grows, QueuesAreGenuine, rampUpSolQ' = rampUpSolQ,
         \A p \in Proc : \A b \in Link, s \in Solution :
           solSendQ'[p][b][s] > 0 => s \in found' \/ solSendQ[p][b][s] > 0
  PROVE  QueuesAreGenuine'
BY DEF QueuesAreGenuine, Grows

\* A step in which nothing is found.
LEMMA NothingFound ==
  ASSUME TypeOK, UNCHANGED asked
  PROVE  Grows
BY Settings DEF TypeOK, Grows, asked

-----------------------------------------------------------------------------
(***************************************************************************)
(* The steps that make no list and send no message.                        *)
(***************************************************************************)
LEMMA RampUpFindStep ==
  ASSUME ReposInv, NEW s \in Solution, RampUpFind(s)
  PROVE  ReposInv'
<1>. USE DEF ReposInv
<1>0. TypeOK
  OBVIOUS
<1>1. Grows
  <2>1. found' = found \cup {s} /\ par' = par
    BY DEF RampUpFind, CountFind
  <2>2. IsFiniteSet(found')
    BY <2>1, FS_AddElement DEF TypeOK
  <2>. QED  BY <2>1, <2>2, Settings DEF Grows, TypeOK
<1>2. PICK finders \in {Proc} \cup {{p} : p \in Proc} :
         /\ incumbent' = [p \in Proc |-> IF p \in finders /\ Value[s] < incumbent[p]
                                         THEN Value[s] ELSE incumbent[p]]
         /\ needPruning' = [p \in Proc |->
              needPruning[p] \/ (p \in finders /\ Value[s] < incumbent[p])]
         /\ rampUpSolQ' = [p \in Proc |->
              IF p \in (IF finders = Proc THEN {Owner[s]} ELSE finders)
              THEN Append(rampUpSolQ[p], s) ELSE rampUpSolQ[p]]
  BY DEF RampUpFind
<1>3. UNCHANGED <<phase, local, needHubPruning, merge, channel, flow, final>>
  BY DEF RampUpFind
<1>4. rampUpSolQ' \in [Proc -> Seq(Solution)]
  BY <1>2 DEF TypeOK
<1>5. TypeOK'
  <2>1. incumbent' \in [Proc -> Nat]
    BY <1>2, Settings DEF TypeOK
  <2>2. needPruning' \in [Proc -> BOOLEAN]
    BY <1>2 DEF TypeOK
  <2>3. finds' \in 0 .. MaxFound
    BY RepositoryAssumption DEF RampUpFind, CountFind, TypeOK
  <2>. QED  BY <1>1, <1>3, <1>4, <2>1, <2>2, <2>3 DEF TypeOK, Grows, local, merge, flow
<1>6. QueuesAreGenuine'
  <2>1. \A p \in Proc : \A i \in DOMAIN rampUpSolQ'[p] : rampUpSolQ'[p][i] \in found'
    <3>1. s \in found' /\ found \subseteq found'
      BY DEF RampUpFind, CountFind
    <3>2. ASSUME NEW p \in Proc, NEW i \in DOMAIN rampUpSolQ'[p]
          PROVE  rampUpSolQ'[p][i] = s \/ rampUpSolQ'[p][i] \in found
      <4>1. rampUpSolQ[p] \in Seq(Solution) /\ \A j \in DOMAIN rampUpSolQ[p] : rampUpSolQ[p][j] \in found
        BY DEF TypeOK, QueuesAreGenuine
      <4>2. rampUpSolQ'[p] \in {Append(rampUpSolQ[p], s), rampUpSolQ[p]}
        BY <1>2
      <4>. QED  BY <3>2, <4>1, <4>2
    <3>. QED  BY <3>1, <3>2
  <2>. QED  BY <1>1, <1>3, <2>1 DEF QueuesAreGenuine, Grows, flow
<1>. QED  BY <1>1, <1>3, <1>5, <1>6, PartsStay, ListsStay, MessagesStay, CutOffsStay
          DEF local, merge

\* The least of a set of values is one of them.
LEMMA LeastExists ==
  ASSUME NEW S \in SUBSET Nat, S # {}
  PROVE  Least(S) \in S
<1>1. PICK m \in S : \A k \in S : <<k, m>> \notin OpToRel(<, Nat)
  BY WFMin, NatLessThanWellFounded, Zenon
<1>2. \A k \in S : ~(k < m)
  BY <1>1, Zenon DEF OpToRel
<1>3. \A k \in S : m <= k
  BY <1>2
<1>. QED  BY <1>3 DEF Least

\* RampUpIncumbentSync preserves the invariant.
LEMMA RampUpIncumbentSyncStep ==
  ASSUME ReposInv, RampUpIncumbentSync
  PROVE  ReposInv'
<1>. USE DEF ReposInv
<1>1. Grows
  BY NothingFound DEF RampUpIncumbentSync
<1>2. UNCHANGED <<asked, rampUpSolQ, local, needHubPruning, merge, channel, flow, final>>
  BY DEF RampUpIncumbentSync
<1>3. TypeOK'
  <2>. DEFINE S == {incumbent[p] : p \in Proc}
              best == Least(S)
  <2>1. S \subseteq Nat /\ S # {}
    <3>1. \A p \in Proc : incumbent[p] \in Nat
      BY DEF TypeOK
    <3>2. 0 \in Proc
      BY TreeAssumption DEF Proc
    <3>. QED  BY <3>1, <3>2
  <2>2. best \in Nat
    <3>. HIDE DEF S
    <3>. QED  BY <2>1, LeastExists
  <2>3. /\ phase' = "hashing" /\ incumbent' = [p \in Proc |-> best]
        /\ needPruning' = [p \in Proc |-> needPruning[p] \/ incumbent[p] # best]
    BY DEF RampUpIncumbentSync
  <2>. HIDE DEF best
  <2>4. incumbent' \in [Proc -> Nat] /\ needPruning' \in [Proc -> BOOLEAN]
    BY <2>2, <2>3
  <2>. QED  BY <1>2, <2>3, <2>4 DEF TypeOK, asked, local, merge, flow
<1>. QED  BY <1>1, <1>2, <1>3, PartsStay, ListsStay, MessagesStay, QueuesStay, CutOffsStay
          DEF local, merge, flow

\* HearIncumbent preserves the invariant.
LEMMA HearIncumbentStep ==
  ASSUME ReposInv, NEW p \in Proc, HearIncumbent(p)
  PROVE  ReposInv'
<1>. USE DEF ReposInv
<1>1. Grows
  BY NothingFound DEF HearIncumbent
<1>2. UNCHANGED <<asked, phase, rampUpSolQ, local, merge, channel, flow, final>>
  BY DEF HearIncumbent
<1>3. TypeOK'
  <2>1. /\ incumbent' \in [Proc -> Nat] /\ needPruning' \in [Proc -> BOOLEAN]
        /\ needHubPruning' \in [Proc -> BOOLEAN]
    BY DEF HearIncumbent, TypeOK
  <2>. QED  BY <1>2, <2>1 DEF TypeOK, asked, local, merge, flow
<1>. QED  BY <1>1, <1>2, <1>3, PartsStay, ListsStay, MessagesStay, QueuesStay, CutOffsStay
          DEF local, merge, flow

(***************************************************************************)
(* Pruning leaves a part of what there is.                                 *)
(***************************************************************************)
LEMMA PruneRepositoryStep ==
  ASSUME ReposInv, Grows, parallelSolCounter' = parallelSolCounter,
         NEW p \in Proc, PruneRepository(p)
  PROVE  /\ repos' \in [Proc -> SUBSET Identifier]
         /\ solSendQ' \in [Proc -> [Link -> [Solution -> Nat]]]
         /\ PartsAreGenuine'
         /\ \A q \in Proc : \A b \in Link, s \in Solution :
              solSendQ'[q][b][s] > 0 => solSendQ[q][b][s] > 0
<1>. USE DEF ReposInv
<1>. DEFINE kept == {x \in repos[p] : ~OutOfRepository(p, x, lastSol[p])}
            rest == [b \in Link |-> [s \in Solution |->
                       IF Fathoms(p, incumbent[p], Value[s]) THEN 0 ELSE solSendQ[p][b][s]]]
<1>1. /\ repos' = [repos EXCEPT ![p] = kept]
      /\ solSendQ' = [solSendQ EXCEPT ![p] = rest]
      /\ kept \subseteq repos[p]
  BY DEF PruneRepository
<1>2. repos' \in [Proc -> SUBSET Identifier]
  <2>. HIDE DEF kept
  <2>. QED  BY <1>1 DEF TypeOK
<1>3. rest \in [Link -> [Solution -> Nat]]
  BY DEF TypeOK
<1>4. solSendQ' \in [Proc -> [Link -> [Solution -> Nat]]]
  <2>. HIDE DEF rest
  <2>. QED  BY <1>1, <1>3 DEF TypeOK
<1>5. ASSUME NEW q \in Proc, NEW b \in Link, NEW s \in Solution, solSendQ'[q][b][s] > 0
      PROVE  solSendQ[q][b][s] > 0
  <2>1. solSendQ \in [Proc -> [Link -> [Solution -> Nat]]]
    BY DEF TypeOK
  <2>2. rest[b][s] > 0 => solSendQ[p][b][s] > 0
    OBVIOUS
  <2>. HIDE DEF rest
  <2>. QED  BY <1>1, <1>5, <2>1, <2>2
<1>6. PartsAreGenuine'
  <2>1. \A q \in Proc : repos'[q] \subseteq repos[q]
    <3>. HIDE DEF kept
    <3>. QED  BY <1>1 DEF TypeOK
  <2>2. ASSUME NEW q \in Proc
        PROVE  /\ Genuine(repos[q], {q})'
               /\ Counting' => Cardinality(repos'[q]) <= par'.enumCount
    <3>1. GenuineIn(found, repos[q], {q})
      BY InTermsOfFound DEF PartsAreGenuine
    <3>2. GenuineIn(found, repos'[q], {q})
      BY <2>1, <3>1, GenuineSubset
    <3>3. Genuine(repos[q], {q})'
      BY <3>2, StaysGenuine, InTermsOfFoundNext
    <3>4. /\ IsFiniteSet(repos[q]) /\ IsFiniteSet(repos'[q])
          /\ Cardinality(repos'[q]) <= Cardinality(repos[q])
      BY <2>1, <3>1, FS_Subset DEF GenuineIn
    <3>5. Cardinality(repos'[q]) \in Nat /\ Cardinality(repos[q]) \in Nat
      BY <3>4, FS_CardinalityType
    <3>6. Counting => Cardinality(repos[q]) <= par.enumCount
      BY DEF PartsAreGenuine
    <3>. QED  BY <3>3, <3>4, <3>5, <3>6, StaysGenuine DEF Grows
  <2>. QED  BY <2>1, <2>2 DEF PartsAreGenuine
<1>. QED  BY <1>2, <1>4, <1>5, <1>6

\* WorkerPrune preserves the invariant.
LEMMA WorkerPruneStep ==
  ASSUME ReposInv, NEW p \in Proc, WorkerPrune(p)
  PROVE  ReposInv'
<1>. USE DEF ReposInv
<1>1. Grows
  BY NothingFound DEF WorkerPrune
<1>2. UNCHANGED <<asked, phase, rampUpSolQ, incumbent, parallelSolCounter, merge,
                  channel, solJustSent, final>>
  BY DEF WorkerPrune
<1>3. /\ repos' \in [Proc -> SUBSET Identifier]
      /\ solSendQ' \in [Proc -> [Link -> [Solution -> Nat]]]
      /\ PartsAreGenuine'
      /\ \A q \in Proc : \A b \in Link, s \in Solution :
           solSendQ'[q][b][s] > 0 => solSendQ[q][b][s] > 0
  BY <1>1, PruneRepositoryStep DEF WorkerPrune
<1>4. TypeOK'
  <2>1. needPruning' \in [Proc -> BOOLEAN] /\ needHubPruning' \in [Proc -> BOOLEAN]
    BY DEF WorkerPrune, TypeOK
  <2>. QED  BY <1>2, <1>3, <2>1 DEF TypeOK, asked, merge
<1>. QED  BY <1>1, <1>2, <1>3, <1>4, ListsStay, MessagesStay, QueuesStay, CutOffsStay
          DEF merge

\* HubPrune preserves the invariant.
LEMMA HubPruneStep ==
  ASSUME ReposInv, NEW p \in Proc, HubPrune(p)
  PROVE  ReposInv'
<1>. USE DEF ReposInv
<1>1. Grows
  BY NothingFound DEF HubPrune
<1>2. UNCHANGED <<asked, phase, rampUpSolQ, incumbent, parallelSolCounter, merge,
                  channel, solJustSent, final>>
  BY DEF HubPrune
<1>3. /\ repos' \in [Proc -> SUBSET Identifier]
      /\ solSendQ' \in [Proc -> [Link -> [Solution -> Nat]]]
      /\ PartsAreGenuine'
      /\ \A q \in Proc : \A b \in Link, s \in Solution :
           solSendQ'[q][b][s] > 0 => solSendQ[q][b][s] > 0
  <2>1. CASE PruneRepository(p)
    BY <1>1, <1>2, <2>1, PruneRepositoryStep
  <2>2. CASE UNCHANGED <<repos, solSendQ>>
    BY <1>1, <1>2, <2>2, PartsStay DEF TypeOK
  <2>. QED  BY <2>1, <2>2 DEF HubPrune
<1>4. TypeOK'
  <2>1. needPruning' \in [Proc -> BOOLEAN] /\ needHubPruning' \in [Proc -> BOOLEAN]
    BY DEF HubPrune, TypeOK
  <2>. QED  BY <1>2, <1>3, <2>1 DEF TypeOK, asked, merge
<1>. QED  BY <1>1, <1>2, <1>3, <1>4, ListsStay, MessagesStay, QueuesStay, CutOffsStay
          DEF merge

(***************************************************************************)
(* Offering a solution to its owner.                                       *)
(***************************************************************************)
LEMMA OfferStep ==
  ASSUME ReposInv, Grows, NEW p \in Proc, NEW inc, NEW s \in Solution, s \in found',
         Owner[s] = p, Offer(p, inc, s)
  PROVE  /\ repos' \in [Proc -> SUBSET Identifier]
         /\ parallelSolCounter' \in [Proc -> Nat]
         /\ PartsAreGenuine'
<1>. USE DEF ReposInv
<1>. DEFINE new == Offered(p, inc, s)
<1>1. /\ repos' = [repos EXCEPT ![p] = new]
      /\ parallelSolCounter' = [parallelSolCounter EXCEPT ![p] = @ + 1]
      /\ repos \in [Proc -> SUBSET Identifier] /\ parallelSolCounter \in [Proc -> Nat]
  BY DEF Offer, TypeOK
<1>2. \A q \in Proc : GenuineIn(found', repos[q], {q})
  BY InTermsOfFound, StaysGenuine DEF PartsAreGenuine
<1>3. /\ new \in SUBSET Identifier
      /\ GenuineIn(found', new, {p})
      /\ \A x \in new : x.serial <= parallelSolCounter[p] + 1
      /\ Counting => Cardinality(new) <= par.enumCount
  <2>1. /\ \A x \in repos[p] : x.serial <= parallelSolCounter[p]
        /\ Counting => Cardinality(repos[p]) <= par.enumCount
    BY DEF PartsAreGenuine
  <2>. DEFINE g == found'
  <2>2. GenuineIn(g, repos[p], {p}) /\ s \in g
    BY <1>2
  <2>3. GenuineIn(g, new, {p})
    <3>. HIDE DEF g
    <3>. QED  BY <2>1, <2>2, OfferedIsGenuine
  <2>4. /\ new \in SUBSET Identifier
        /\ \A x \in new : x.serial <= parallelSolCounter[p] + 1
        /\ Counting => Cardinality(new) <= par.enumCount
    <3>. HIDE DEF g
    <3>. QED  BY <2>1, <2>2, OfferedIsGenuine
  <2>. QED  BY <2>3, <2>4
<1>. HIDE DEF new
<1>4. repos' \in [Proc -> SUBSET Identifier] /\ parallelSolCounter' \in [Proc -> Nat]
  BY <1>1, <1>3
<1>5. ASSUME NEW q \in Proc
      PROVE  /\ GenuineIn(found', repos'[q], {q})
             /\ \A x \in repos'[q] : x.serial <= parallelSolCounter'[q]
             /\ Counting => Cardinality(repos'[q]) <= par.enumCount
  <2>1. CASE q = p
    <3>1. repos'[q] = new /\ parallelSolCounter'[q] = parallelSolCounter[p] + 1
      BY <1>1, <2>1
    <3>. QED  BY <1>3, <2>1, <3>1
  <2>2. CASE q # p
    <3>1. repos'[q] = repos[q] /\ parallelSolCounter'[q] = parallelSolCounter[q]
      BY <1>1, <2>2
    <3>. QED  BY <1>2, <3>1 DEF PartsAreGenuine
  <2>. QED  BY <2>1, <2>2
<1>6. PartsAreGenuine'
  BY <1>5, InTermsOfFoundNext, StaysGenuine DEF PartsAreGenuine, Grows
<1>. QED  BY <1>4, <1>6

\* HashSolution preserves the invariant.
LEMMA HashSolutionStep ==
  ASSUME ReposInv, NEW p \in Proc, HashSolution(p)
  PROVE  ReposInv'
<1>. USE DEF ReposInv
<1>1. Grows
  BY NothingFound DEF HashSolution
<1>2. UNCHANGED <<asked, phase, incumbent, prune, merge, channel, flow, final>>
  BY DEF HashSolution
<1>. DEFINE s == Head(rampUpSolQ[p])
            o == Owner[s]
<1>3. /\ rampUpSolQ[p] \in Seq(Solution) /\ rampUpSolQ[p] # <<>>
      /\ \A i \in DOMAIN rampUpSolQ[p] : rampUpSolQ[p][i] \in found
  BY DEF TypeOK, QueuesAreGenuine, HashSolution
<1>4. s \in Solution /\ s \in found /\ found' = found
  BY <1>2, <1>3 DEF asked
<1>5. o \in Proc
  <2>. HIDE DEF s
  <2>. QED  BY <1>4, Settings
<1>6. Offer(o, incumbent[o], s)
  BY DEF HashSolution
<1>7. /\ repos' \in [Proc -> SUBSET Identifier] /\ parallelSolCounter' \in [Proc -> Nat]
      /\ PartsAreGenuine'
  <2>. HIDE DEF s
  <2>1. o = Owner[s]
    OBVIOUS
  <2>. HIDE DEF o
  <2>. QED  BY <1>1, <1>4, <1>5, <1>6, <2>1, OfferStep
<1>8. /\ rampUpSolQ' \in [Proc -> Seq(Solution)]
      /\ \A q \in Proc : \A i \in DOMAIN rampUpSolQ'[q] : rampUpSolQ'[q][i] \in found
  <2>. DEFINE t == Tail(rampUpSolQ[p])
  <2>1. t \in Seq(Solution) /\ \A i \in DOMAIN t : t[i] \in found
    BY <1>3
  <2>2. rampUpSolQ' = [rampUpSolQ EXCEPT ![p] = t]
    BY DEF HashSolution
  <2>. HIDE DEF t
  <2>. QED  BY <2>1, <2>2 DEF TypeOK, QueuesAreGenuine
<1>. HIDE DEF s, o
<1>9. TypeOK'
  BY <1>2, <1>7, <1>8 DEF TypeOK, asked, prune, merge, flow
<1>10. QueuesAreGenuine'
  BY <1>2, <1>4, <1>8 DEF QueuesAreGenuine, flow
<1>. QED  BY <1>1, <1>2, <1>7, <1>9, <1>10, ListsStay, MessagesStay, CutOffsStay DEF merge


\* A solution that is routed is sent or queued, and both are genuine.
LEMMA RouteStep ==
  ASSUME ReposInv, Grows, NEW p \in Proc, NEW s \in Solution, s \in found',
         NEW net, NetIn(found', par'.enumCount, net), Route(p, s, net)
  PROVE  /\ solJustSent' \in [Proc -> [Link -> BOOLEAN]]
         /\ solSendQ' \in [Proc -> [Link -> [Solution -> Nat]]]
         /\ NetIn(found', par'.enumCount, channel')
         /\ \A q \in Proc : \A b \in Link, t \in Solution :
              solSendQ'[q][b][t] > 0 => t \in found' \/ solSendQ[q][b][t] > 0
<1>. USE DEF ReposInv
<1>1. PICK b \in LinksTowards(p, Owner[s]) :
        /\ solJustSent' = [solJustSent EXCEPT ![p][b] = TRUE]
        /\ solSendQ' = IF Free(p, b) THEN solSendQ ELSE [solSendQ EXCEPT ![p][b][s] = @ + 1]
        /\ channel' = IF Free(p, b)
                      THEN [net EXCEPT ![p][Neighbor(p, b)] = Append(@, Forward(s))]
                      ELSE net
  BY Zenon DEF Route
<1>2. b \in Link
  BY DEF LinksTowards
<1>3. solJustSent' \in [Proc -> [Link -> BOOLEAN]]
  BY <1>1, <1>2 DEF TypeOK
<1>4. /\ solSendQ' \in [Proc -> [Link -> [Solution -> Nat]]]
      /\ \A q \in Proc : \A c \in Link, t \in Solution :
           solSendQ'[q][c][t] > 0 => t = s \/ solSendQ[q][c][t] > 0
  <2>1. solSendQ \in [Proc -> [Link -> [Solution -> Nat]]]
    BY DEF TypeOK
  <2>2. CASE Free(p, b)
    BY <1>1, <2>1, <2>2
  <2>3. CASE ~Free(p, b)
    <3>. DEFINE new == [solSendQ EXCEPT ![p][b][s] = @ + 1]
    <3>1. solSendQ' = new
      BY <1>1, <2>3
    <3>2. new \in [Proc -> [Link -> [Solution -> Nat]]]
      BY <1>2, <2>1
    <3>3. \A q \in Proc : \A c \in Link, t \in Solution :
            ~(q = p /\ c = b /\ t = s) => new[q][c][t] = solSendQ[q][c][t]
      BY <1>2, <2>1
    <3>. HIDE DEF new
    <3>. QED  BY <3>1, <3>2, <3>3
  <2>. QED  BY <2>2, <2>3
<1>5. NetIn(found', par'.enumCount, channel')
  <2>. DEFINE g == found'
              n == par'.enumCount
              q == Neighbor(p, b)
              m == Forward(s)
  <2>1. m \in Messages /\ MessageIn(g, n, p, q, m)
    BY <1>2 DEF Messages, MessageIn, Forward
  <2>2. NetIn(g, n, [net EXCEPT ![p][q] = Append(@, m)])
    <3>. HIDE DEF g, n, q, m
    <3>1. NetIn(g, n, net)
      BY DEF g, n
    <3>. QED  BY <2>1, <3>1, NetSends
  <2>. QED  BY <1>1, <2>2
<1>. QED  BY <1>3, <1>4, <1>5

\* An owned solution reaches the part of the repository it belongs to.
LEMMA ProcessOwnedSolutionStep ==
  ASSUME ReposInv, Grows, NEW p \in Proc, NEW inc, NEW s \in Solution, s \in found',
         Owner[s] = p, ProcessOwnedSolution(p, inc, s), lastSol' = lastSol
  PROVE  /\ repos' \in [Proc -> SUBSET Identifier]
         /\ parallelSolCounter' \in [Proc -> Nat]
         /\ PartsAreGenuine'
         /\ needReposMerge' \in [Proc -> BOOLEAN]
         /\ CutOffsAreReal'
<1>. USE DEF ReposInv
<1>1. /\ repos' \in [Proc -> SUBSET Identifier] /\ parallelSolCounter' \in [Proc -> Nat]
      /\ PartsAreGenuine'
  BY OfferStep DEF ProcessOwnedSolution
<1>2. needReposMerge \in [Proc -> BOOLEAN]
  BY DEF TypeOK
<1>3. needReposMerge' = [needReposMerge EXCEPT ![p] = @ \/ (Counting /\ Admits(p, inc, s))]
  BY DEF ProcessOwnedSolution
<1>4. needReposMerge' \in [Proc -> BOOLEAN]
  BY <1>2, <1>3
<1>5. \A q \in Proc : needReposMerge'[q] => needReposMerge[q] \/ Counting
  BY <1>2, <1>3
<1>6. ASSUME NEW q \in Proc
      PROVE  Real(lastSol[q])' /\ (needReposMerge'[q] => Counting')
  <2>1. RealIn(found, par.enumCount, lastSol[q]) /\ (needReposMerge[q] => Counting)
    BY InTermsOfFound DEF CutOffsAreReal
  <2>2. Real(lastSol[q])'
    BY <2>1, StaysGenuine, InTermsOfFoundNext
  <2>. QED  BY <1>5, <2>1, <2>2, StaysGenuine
<1>. QED  BY <1>1, <1>4, <1>6 DEF CutOffsAreReal

\* Find preserves the invariant.
LEMMA FindStep ==
  ASSUME ReposInv, NEW p \in Proc, NEW s \in Solution, Find(p, s)
  PROVE  ReposInv'
<1>. USE DEF ReposInv
<1>. DEFINE improves == Value[s] < incumbent[p]
            inc      == IF improves THEN Value[s] ELSE incumbent[p]
<1>1. found' = found \cup {s} /\ par' = par /\ finds < MaxFound /\ finds' = finds + 1
  BY DEF Find, CountFind
<1>2. Grows
  <2>1. IsFiniteSet(found')
    BY <1>1, FS_AddElement DEF TypeOK
  <2>. QED  BY <1>1, <2>1, Settings DEF Grows, TypeOK
<1>3. /\ incumbent' = [incumbent EXCEPT ![p] = inc]
      /\ needPruning' = [needPruning EXCEPT ![p] = @ \/ improves]
      /\ needHubPruning' = [needHubPruning EXCEPT ![p] = @ \/ (improves /\ p \in Hub)]
      /\ UNCHANGED <<phase, rampUpSolQ, lastSol, childReposArray, final>>
  BY DEF Find
<1>4. /\ incumbent' \in [Proc -> Nat]
      /\ needPruning' \in [Proc -> BOOLEAN] /\ needHubPruning' \in [Proc -> BOOLEAN]
  BY <1>3, Settings DEF TypeOK
<1>5. finds' \in 0 .. MaxFound
  BY <1>1, RepositoryAssumption, Z3T(60) DEF TypeOK
<1>6. NetIn(found', par'.enumCount, channel) /\ s \in found'
  BY <1>1, <1>2, NetIsGenuine, StaysGenuine
<1>7. /\ repos' \in [Proc -> SUBSET Identifier] /\ parallelSolCounter' \in [Proc -> Nat]
      /\ needReposMerge' \in [Proc -> BOOLEAN]
      /\ solJustSent' \in [Proc -> [Link -> BOOLEAN]]
      /\ solSendQ' \in [Proc -> [Link -> [Solution -> Nat]]]
      /\ NetIn(found', par'.enumCount, channel')
      /\ PartsAreGenuine' /\ CutOffsAreReal'
      /\ \A q \in Proc : \A b \in Link, t \in Solution :
           solSendQ'[q][b][t] > 0 => t \in found' \/ solSendQ[q][b][t] > 0
  <2>1. CASE Owner[s] = p
    <3>1. ProcessOwnedSolution(p, inc, s) /\ UNCHANGED <<channel, flow>>
      BY <2>1 DEF Find
    <3>. HIDE DEF inc
    <3>. QED  BY <1>2, <1>3, <1>6, <2>1, <3>1, ProcessOwnedSolutionStep DEF flow, TypeOK
  <2>2. CASE Owner[s] # p
    <3>1. UNCHANGED <<local, needReposMerge>>
      BY <2>2 DEF Find
    <3>2. PartsAreGenuine' /\ CutOffsAreReal'
      BY <1>2, <1>3, <3>1, PartsStay, CutOffsStay DEF local
    <3>3. CASE Route(p, s, channel)
      BY <1>2, <1>6, <3>1, <3>2, <3>3, RouteStep DEF TypeOK, local
    <3>4. CASE /\ channel' = [channel EXCEPT ![p][Owner[s]] =
                               Append(@, [type |-> "hashSol", sol |-> s])]
               /\ UNCHANGED flow
      <4>. DEFINE g == found'
                  n == par'.enumCount
                  q == Owner[s]
                  m == [type |-> "hashSol", sol |-> s]
      <4>1. m \in Messages /\ MessageIn(g, n, p, q, m)
        BY <1>6 DEF Messages, MessageIn
      <4>2. NetIn(g, n, [channel EXCEPT ![p][q] = Append(@, m)])
        <5>. HIDE DEF g, n, q, m
        <5>1. NetIn(g, n, channel)
          BY <1>6 DEF g, n
        <5>. QED  BY <4>1, <5>1, NetSends
      <4>. QED  BY <3>1, <3>2, <3>4, <4>2 DEF TypeOK, local, flow
    <3>. QED  BY <2>2, <3>3, <3>4 DEF Find
  <2>. QED  BY <2>1, <2>2
<1>8. TypeOK'
  BY <1>2, <1>3, <1>4, <1>5, <1>7 DEF TypeOK, Grows, NetIn
<1>9. QueuesAreGenuine'
  BY <1>2, <1>3, <1>7, QueuesStay
<1>10. MessagesAreGenuine'
  BY <1>7, <1>8, InTermsOfFoundNext
<1>. QED  BY <1>2, <1>3, <1>7, <1>8, <1>9, <1>10, ListsStay

(***************************************************************************)
(* What a processor merges: its own part and its children's lists are of   *)
(* different processors, so that no solution is counted twice.             *)
(***************************************************************************)
LEMMA MergedIsGenuine ==
  ASSUME ReposInv, Counting, NEW p \in Proc
  PROVE  LET ids == BestOf(repos[p] \cup UNION {childReposArray[p][c] : c \in Children(0, p)},
                           par.enumCount)
         IN  ids \in SUBSET Identifier /\ GenuineIn(found, ids, Below[p])
<1>. USE DEF ReposInv
<1>. DEFINE lists == {childReposArray[p][c] : c \in Children(0, p)}
            all   == repos[p] \cup UNION lists
            best  == BestOf(all, par.enumCount)
<1>1. /\ repos[p] \subseteq Identifier
      /\ GenuineIn(found, repos[p], {p})
  BY InTermsOfFound DEF PartsAreGenuine, TypeOK
<1>2. \A c \in Children(0, p) : /\ childReposArray[p][c] \subseteq Identifier
                                /\ GenuineIn(found, childReposArray[p][c], Below[c])
  <2>. TAKE c \in Children(0, p)
  <2>1. childReposArray[p] \in [Children(0, p) -> SUBSET Identifier]
    BY DEF TypeOK
  <2>. QED  BY <2>1, InTermsOfFound DEF ListsAreGenuine
<1>3. all \subseteq Identifier
  BY <1>1, <1>2
<1>4. IsFiniteSet(all)
  <2>1. IsFiniteSet(lists)
    <3>1. IsFiniteSet(Children(0, p))
      BY CountChildren, TreeAssumption DEF Proc
    <3>. DEFINE f == [c \in Children(0, p) |-> childReposArray[p][c]]
    <3>2. f \in Surjection(Children(0, p), lists)
      BY DEF Surjection
    <3>. HIDE DEF f, lists
    <3>. QED  BY <3>1, <3>2, FS_Surjection
  <2>2. \A T \in lists : IsFiniteSet(T)
    BY <1>2 DEF GenuineIn
  <2>3. IsFiniteSet(UNION lists)
    <3>. HIDE DEF lists
    <3>. QED  BY <2>1, <2>2, FS_UNION
  <2>4. IsFiniteSet(repos[p])
    BY <1>1 DEF GenuineIn
  <2>. HIDE DEF lists
  <2>. QED  BY <2>3, <2>4, FS_Union
<1>5. ASSUME NEW x \in all
      PROVE  /\ x.sol \in found /\ x.value = Value[x.sol]
             /\ x.owner = Owner[x.sol] /\ x.owner \in Below[p]
             /\ \/ x \in repos[p] /\ x.owner = p
                \/ \E c \in Children(0, p) :
                     /\ x \in childReposArray[p][c] /\ x.owner \in Below[c]
                     /\ p \notin Below[c]
  <2>1. CASE x \in repos[p]
    BY <1>1, <2>1, BelowItself DEF GenuineIn
  <2>2. CASE x \in UNION lists
    <3>1. PICK c \in Children(0, p) : x \in childReposArray[p][c]
      BY <2>2
    <3>2. /\ x.sol \in found /\ x.value = Value[x.sol]
          /\ x.owner = Owner[x.sol] /\ x.owner \in Below[c]
      BY <1>2, <3>1 DEF GenuineIn
    <3>. QED  BY <3>1, <3>2, BelowChild
  <2>. QED  BY <2>1, <2>2
<1>6. ASSUME NEW x \in all, NEW y \in all, x.owner = y.owner,
             x.sol = y.sol \/ x.serial = y.serial
      PROVE  x = y
  <2>1. CASE x.owner = p
    <3>1. x \in repos[p] /\ y \in repos[p]
      BY <1>5, <1>6, <2>1
    <3>. QED  BY <1>1, <1>6, <3>1 DEF GenuineIn
  <2>2. CASE x.owner # p
    <3>1. PICK c \in Children(0, p) : x \in childReposArray[p][c] /\ x.owner \in Below[c]
      BY <1>5, <2>2
    <3>2. PICK d \in Children(0, p) : y \in childReposArray[p][d] /\ y.owner \in Below[d]
      BY <1>5, <1>6, <2>2
    <3>3. c = d
      BY <1>6, <3>1, <3>2, SubtreesAreApart
    <3>. QED  BY <1>2, <1>6, <3>1, <3>2, <3>3 DEF GenuineIn
  <2>. QED  BY <2>1, <2>2
<1>7. GenuineIn(found, all, Below[p])
  <2>1. \A x, y \in all : x.sol = y.sol => x.owner = y.owner
    BY <1>5
  <2>. HIDE DEF all
  <2>. QED  BY <1>4, <1>5, <1>6, <2>1 DEF GenuineIn
<1>8. best \subseteq all
  BY DEF BestOf
<1>9. best \in SUBSET Identifier /\ GenuineIn(found, best, Below[p])
  <2>. HIDE DEF all, best
  <2>. QED  BY <1>3, <1>7, <1>8, GenuineSubset
<1>. QED  BY <1>9

\* ReposArraySend preserves the invariant.
LEMMA ReposArraySendStep ==
  ASSUME ReposInv, NEW p \in Proc, ReposArraySend(p)
  PROVE  ReposInv'
<1>. USE DEF ReposInv
<1>. DEFINE ids  == BestOf(repos[p] \cup UNION {childReposArray[p][c] : c \in Children(0, p)},
                           par.enumCount)
            last == CutOff(ids, lastSol[p])
<1>1. Grows
  BY NothingFound DEF ReposArraySend
<1>2. UNCHANGED <<asked, phase, rampUpSolQ, incumbent, local, childReposArray, flow, final>>
  BY DEF ReposArraySend
<1>3. Counting
  BY DEF ReposArraySend, CutOffsAreReal
<1>4. ids \in SUBSET Identifier /\ GenuineIn(found, ids, Below[p])
  BY <1>3, MergedIsGenuine
<1>5. lastSol[p] \in Identifier \cup {NoSolution} /\ Real(lastSol[p])
  BY DEF TypeOK, CutOffsAreReal
<1>6. last \in Identifier \cup {NoSolution} /\ Real(last)
  <2>. HIDE DEF ids
  <2>. QED  BY <1>3, <1>4, <1>5, CutOffOfGenuine
<1>7. /\ needReposMerge' = [needReposMerge EXCEPT ![p] = FALSE]
      /\ IF p # 0
         THEN /\ channel' = [channel EXCEPT ![p][Parent(0, p)] =
                               Append(@, [type |-> "reposArray", ids |-> ids])]
              /\ UNCHANGED <<lastSol, prune>>
         ELSE /\ lastSol' = [lastSol EXCEPT ![p] = last]
              /\ needPruning' = [needPruning EXCEPT ![p] = @ \/ last # lastSol[p]]
              /\ needHubPruning' = [needHubPruning EXCEPT
                                      ![p] = @ \/ (last # lastSol[p] /\ p \in Hub)]
              /\ channel' = IF last = lastSol[p] THEN channel ELSE Relayed(channel, p, last)
  BY DEF ReposArraySend, Merged
<1>8. NetIn(found, par.enumCount, channel)
  BY NetIsGenuine
<1>9. NetIn(found, par.enumCount, channel')
  <2>1. CASE p # 0
    <3>. DEFINE q == Parent(0, p)
                m == [type |-> "reposArray", ids |-> ids]
    <3>1. m \in Messages /\ MessageIn(found, par.enumCount, p, q, m)
      <4>. HIDE DEF ids
      <4>. QED  BY <1>3, <1>4, <2>1 DEF Messages, MessageIn, Counting
    <3>2. NetIn(found, par.enumCount, [channel EXCEPT ![p][q] = Append(@, m)])
      <4>. HIDE DEF q, m
      <4>. QED  BY <1>8, <3>1, NetSends
    <3>. QED  BY <1>7, <2>1, <3>2
  <2>2. CASE p = 0
    <3>. HIDE DEF last, ids
    <3>1. RealIn(found, par.enumCount, last)
      BY <1>6, InTermsOfFound
    <3>2. NetIn(found, par.enumCount, Relayed(channel, p, last))
      BY <1>6, <1>8, <3>1, NetRelays
    <3>. QED  BY <1>7, <1>8, <2>2, <3>2
  <2>. QED  BY <2>1, <2>2
<1>. HIDE DEF last, ids
<1>10. /\ lastSol' \in [Proc -> Identifier \cup {NoSolution}]
       /\ \A q \in Proc : lastSol'[q] = lastSol[q] \/ lastSol'[q] = last
  <2>1. lastSol \in [Proc -> Identifier \cup {NoSolution}]
    BY DEF TypeOK
  <2>2. lastSol' = lastSol \/ lastSol' = [lastSol EXCEPT ![p] = last]
    BY <1>7
  <2>. QED  BY <1>6, <2>1, <2>2
<1>11. /\ needReposMerge' \in [Proc -> BOOLEAN]
       /\ \A q \in Proc : needReposMerge'[q] => needReposMerge[q]
  BY <1>7 DEF TypeOK
<1>12. needPruning' \in [Proc -> BOOLEAN] /\ needHubPruning' \in [Proc -> BOOLEAN]
  BY <1>7 DEF TypeOK, prune
<1>13. NetIn(found', par'.enumCount, channel')
  BY <1>2, <1>9 DEF asked
<1>14. TypeOK'
  BY <1>2, <1>10, <1>11, <1>12, <1>13 DEF TypeOK, NetIn, asked, local, flow
<1>15. CutOffsAreReal'
  <2>1. \A q \in Proc : Real(lastSol'[q])
    BY <1>6, <1>10 DEF CutOffsAreReal
  <2>2. ASSUME NEW q \in Proc
        PROVE  Real(lastSol[q])'
    <3>1. RealIn(found, par.enumCount, lastSol'[q])
      BY <2>1, InTermsOfFound
    <3>. QED  BY <1>1, <3>1, StaysGenuine, InTermsOfFoundNext
  <2>. QED  BY <1>1, <1>11, <2>2, StaysGenuine DEF CutOffsAreReal
<1>. QED  BY <1>1, <1>2, <1>13, <1>14, <1>15, PartsStay, ListsStay, QueuesStay,
             InTermsOfFoundNext DEF local, flow

(***************************************************************************)
(* The receiver.                                                           *)
(***************************************************************************)
LEMMA MessageTaken ==
  ASSUME ReposInv, NEW p \in Proc, NEW q \in Proc, NEW type, Message(p, q, type)
  PROVE  LET m == Head(channel[q][p])
         IN  /\ m \in Messages /\ m.type = type
             /\ MessageIn(found, par.enumCount, q, p, m)
             /\ NetIn(found, par.enumCount, Taken(p, q))
             /\ Grows /\ found' = found /\ par' = par
             /\ UNCHANGED <<asked, phase, rampUpSolQ, incumbent, final>>
<1>. USE DEF ReposInv
<1>1. /\ channel[q][p] # <<>> /\ Head(channel[q][p]).type = type
      /\ UNCHANGED <<asked, phase, rampUpSolQ, incumbent, final>>
  BY DEF Message
<1>2. NetIn(found, par.enumCount, channel)
  BY NetIsGenuine
<1>3. /\ Head(channel[q][p]) \in Messages
      /\ MessageIn(found, par.enumCount, q, p, Head(channel[q][p]))
      /\ NetIn(found, par.enumCount, [channel EXCEPT ![q][p] = Tail(@)])
  BY <1>1, <1>2, NetReceives
<1>4. Grows
  BY <1>1, NothingFound
<1>. QED  BY <1>1, <1>3, <1>4 DEF Taken, asked

\* HashSol preserves the invariant.
LEMMA HashSolStep ==
  ASSUME ReposInv, NEW p \in Proc, NEW q \in Proc, HashSol(p, q)
  PROVE  ReposInv'
<1>. USE DEF ReposInv
<1>. DEFINE m == Head(channel[q][p])
            s == m.sol
<1>1. /\ m \in Messages /\ m.type = "hashSol"
      /\ MessageIn(found, par.enumCount, q, p, m)
      /\ NetIn(found, par.enumCount, Taken(p, q))
      /\ Grows /\ found' = found /\ par' = par
      /\ UNCHANGED <<asked, phase, rampUpSolQ, incumbent, final>>
  BY MessageTaken DEF HashSol
<1>2. s \in Solution /\ s \in found' /\ Owner[s] = p
  <2>. HIDE DEF m
  <2>. QED  BY <1>1 DEF MessageIn, TypeOK
<1>3. /\ ProcessOwnedSolution(p, incumbent[p], s)
      /\ channel' = Taken(p, q)
      /\ UNCHANGED <<prune, lastSol, childReposArray, flow>>
  BY DEF HashSol
<1>. HIDE DEF m, s
<1>4. /\ repos' \in [Proc -> SUBSET Identifier] /\ parallelSolCounter' \in [Proc -> Nat]
      /\ needReposMerge' \in [Proc -> BOOLEAN]
      /\ PartsAreGenuine' /\ CutOffsAreReal'
  BY <1>1, <1>2, <1>3, ProcessOwnedSolutionStep
<1>5. NetIn(found', par'.enumCount, channel')
  BY <1>1, <1>3
<1>6. TypeOK'
  BY <1>1, <1>3, <1>4, <1>5 DEF TypeOK, NetIn, asked, prune, flow
<1>. QED  BY <1>1, <1>3, <1>4, <1>5, <1>6, ListsStay, QueuesStay, InTermsOfFoundNext DEF flow

\* ReposArray preserves the invariant.
LEMMA ReposArrayStep ==
  ASSUME ReposInv, NEW p \in Proc, NEW q \in Proc, ReposArray(p, q)
  PROVE  ReposInv'
<1>. USE DEF ReposInv
<1>. DEFINE m   == Head(channel[q][p])
            ids == m.ids
<1>1. /\ m \in Messages /\ m.type = "reposArray"
      /\ MessageIn(found, par.enumCount, q, p, m)
      /\ NetIn(found, par.enumCount, Taken(p, q))
      /\ Grows /\ found' = found /\ par' = par
      /\ UNCHANGED <<asked, phase, rampUpSolQ, incumbent, final>>
  BY MessageTaken DEF ReposArray
<1>2. /\ ids \in SUBSET Identifier /\ GenuineIn(found, ids, Below[q])
      /\ Counting /\ q # 0 /\ p = Parent(0, q)
  <2>. HIDE DEF m
  <2>. QED  BY <1>1 DEF MessageIn, Messages, Counting
<1>3. /\ childReposArray' = [childReposArray EXCEPT ![p][q] = ids]
      /\ needReposMerge' = [needReposMerge EXCEPT ![p] = TRUE]
      /\ channel' = Taken(p, q)
      /\ UNCHANGED <<local, prune, lastSol, flow>>
  BY DEF ReposArray
<1>4. q \in Children(0, p)
  BY <1>2, ParentOfChild, TreeAssumption DEF Proc
<1>. HIDE DEF m, ids
<1>5. NetIn(found', par'.enumCount, channel')
  BY <1>1, <1>3
<1>6. /\ childReposArray' = [a \in Proc |-> childReposArray'[a]]
      /\ \A a \in Proc : childReposArray'[a] \in [Children(0, a) -> SUBSET Identifier]
      /\ \A a \in Proc : \A c \in Children(0, a) :
           childReposArray'[a][c] = IF a = p /\ c = q THEN ids ELSE childReposArray[a][c]
  <2>1. /\ childReposArray = [a \in Proc |-> childReposArray[a]]
        /\ \A a \in Proc : childReposArray[a] \in [Children(0, a) -> SUBSET Identifier]
    BY DEF TypeOK
  <2>. DEFINE row == [childReposArray[p] EXCEPT ![q] = ids]
  <2>2. /\ row \in [Children(0, p) -> SUBSET Identifier]
        /\ \A c \in Children(0, p) : row[c] = IF c = q THEN ids ELSE childReposArray[p][c]
    BY <1>2, <1>4, <2>1
  <2>3. childReposArray' = [a \in Proc |-> IF a = p THEN row ELSE childReposArray[a]]
    BY <1>3, <2>1
  <2>. HIDE DEF row
  <2>. QED  BY <2>1, <2>2, <2>3
<1>7. needReposMerge' \in [Proc -> BOOLEAN]
  BY <1>3 DEF TypeOK
<1>8. TypeOK'
  <2>1. UNCHANGED <<par, found, finds, phase, rampUpSolQ, incumbent, repos, parallelSolCounter,
                    needPruning, needHubPruning, lastSol, solJustSent, solSendQ>>
    BY <1>1, <1>3 DEF asked, local, prune, flow
  <2>2. channel' \in [Proc -> [Proc -> Seq(Messages)]]
    BY <1>5 DEF NetIn
  <2>. QED  BY <1>6, <1>7, <2>1, <2>2, ZenonT(60) DEF TypeOK
<1>9. ListsAreGenuine'
  <2>. SUFFICES ASSUME NEW a \in Proc, NEW c \in Children(0, a)
                PROVE  Genuine(childReposArray[a][c], Below[c])'
    BY DEF ListsAreGenuine
  <2>1. GenuineIn(found, childReposArray[a][c], Below[c])
    BY InTermsOfFound DEF ListsAreGenuine
  <2>2. GenuineIn(found, childReposArray'[a][c], Below[c])
    BY <1>2, <1>6, <2>1
  <2>. QED  BY <1>1, <2>2, InTermsOfFoundNext
<1>10. CutOffsAreReal'
  <2>. SUFFICES ASSUME NEW a \in Proc
                PROVE  Real(lastSol[a])' /\ Counting'
    BY DEF CutOffsAreReal
  <2>1. RealIn(found, par.enumCount, lastSol[a])
    BY InTermsOfFound DEF CutOffsAreReal
  <2>. QED  BY <1>1, <1>2, <1>3, <2>1, StaysGenuine, InTermsOfFoundNext
<1>. QED  BY <1>1, <1>3, <1>5, <1>8, <1>9, <1>10, PartsStay, QueuesStay, InTermsOfFoundNext
          DEF local, flow

\* NewLastSol preserves the invariant.
LEMMA NewLastSolStep ==
  ASSUME ReposInv, NEW p \in Proc, NEW q \in Proc, NewLastSol(p, q)
  PROVE  ReposInv'
<1>. USE DEF ReposInv
<1>. DEFINE m    == Head(channel[q][p])
            last == Updated(lastSol[p], m.id)
<1>1. /\ m \in Messages /\ m.type = "newLastSol"
      /\ MessageIn(found, par.enumCount, q, p, m)
      /\ NetIn(found, par.enumCount, Taken(p, q))
      /\ Grows /\ found' = found /\ par' = par
      /\ UNCHANGED <<asked, phase, rampUpSolQ, incumbent, final>>
  BY MessageTaken DEF NewLastSol
<1>2. /\ lastSol' = [lastSol EXCEPT ![p] = last]
      /\ channel' = Relayed(Taken(p, q), p, last)
      /\ needPruning' = [needPruning EXCEPT ![p] = TRUE]
      /\ needHubPruning' = [needHubPruning EXCEPT ![p] = @ \/ p \in Hub]
      /\ UNCHANGED <<local, needReposMerge, childReposArray, flow>>
  BY DEF NewLastSol
<1>3. last \in Identifier \cup {NoSolution} /\ RealIn(found, par.enumCount, last)
  <2>1. m.id \in Identifier \cup {NoSolution} /\ RealIn(found, par.enumCount, m.id)
    <3>. HIDE DEF m
    <3>. QED  BY <1>1 DEF MessageIn, Messages
  <2>2. /\ lastSol[p] \in Identifier \cup {NoSolution}
        /\ RealIn(found, par.enumCount, lastSol[p])
    BY InTermsOfFound DEF TypeOK, CutOffsAreReal
  <2>. HIDE DEF m
  <2>. QED  BY <2>1, <2>2 DEF Updated
<1>. HIDE DEF m, last
<1>4. NetIn(found', par'.enumCount, channel')
  <2>. DEFINE net == Taken(p, q)
  <2>1. NetIn(found, par.enumCount, Relayed(net, p, last))
    <3>. HIDE DEF net
    <3>1. NetIn(found, par.enumCount, net)
      BY <1>1 DEF net
    <3>. QED  BY <1>3, <3>1, NetRelays
  <2>. QED  BY <1>1, <1>2, <2>1
<1>5. /\ lastSol' \in [Proc -> Identifier \cup {NoSolution}]
      /\ needPruning' \in [Proc -> BOOLEAN] /\ needHubPruning' \in [Proc -> BOOLEAN]
  BY <1>2, <1>3 DEF TypeOK
<1>6. TypeOK'
  <2>1. UNCHANGED <<par, found, finds, phase, rampUpSolQ, incumbent, repos, parallelSolCounter,
                    needReposMerge, childReposArray, solJustSent, solSendQ>>
    BY <1>1, <1>2 DEF asked, local, flow
  <2>2. channel' \in [Proc -> [Proc -> Seq(Messages)]]
    BY <1>4 DEF NetIn
  <2>. QED  BY <1>5, <2>1, <2>2 DEF TypeOK
<1>7. CutOffsAreReal'
  <2>. SUFFICES ASSUME NEW a \in Proc
                PROVE  Real(lastSol[a])' /\ (needReposMerge'[a] => Counting')
    BY DEF CutOffsAreReal
  <2>1. RealIn(found, par.enumCount, lastSol[a]) /\ (needReposMerge[a] => Counting)
    BY InTermsOfFound DEF CutOffsAreReal
  <2>2. lastSol'[a] \in {last, lastSol[a]}
    BY <1>2 DEF TypeOK
  <2>3. RealIn(found', par'.enumCount, lastSol'[a])
    BY <1>1, <1>3, <2>1, <2>2
  <2>. QED  BY <1>1, <1>2, <2>1, <2>3, StaysGenuine, InTermsOfFoundNext
<1>. QED  BY <1>1, <1>2, <1>4, <1>6, <1>7, PartsStay, ListsStay, QueuesStay,
             InTermsOfFoundNext DEF local, flow

\* ForwardSol preserves the invariant.
LEMMA ForwardSolStep ==
  ASSUME ReposInv, NEW p \in Proc, NEW q \in Proc, ForwardSol(p, q)
  PROVE  ReposInv'
<1>. USE DEF ReposInv
<1>. DEFINE m   == Head(channel[q][p])
            s   == m.sol
            net == [Taken(p, q) EXCEPT ![p][q] = Append(@, Ack)]
<1>1. /\ m \in Messages /\ m.type = "forwardSol"
      /\ MessageIn(found, par.enumCount, q, p, m)
      /\ NetIn(found, par.enumCount, Taken(p, q))
      /\ Grows /\ found' = found /\ par' = par
      /\ UNCHANGED <<asked, phase, rampUpSolQ, incumbent, final>>
  BY MessageTaken DEF ForwardSol
<1>2. s \in Solution /\ s \in found' /\ \E b \in Link : p = Neighbor(q, b)
  <2>. HIDE DEF m
  <2>. QED  BY <1>1 DEF MessageIn, TypeOK
<1>3. /\ IF Owner[s] = p
         THEN /\ ProcessOwnedSolution(p, incumbent[p], s)
              /\ channel' = net /\ UNCHANGED flow
         ELSE Route(p, s, net) /\ UNCHANGED <<local, needReposMerge>>
      /\ UNCHANGED <<prune, lastSol, childReposArray>>
  BY DEF ForwardSol
<1>. HIDE DEF m, s
<1>4. NetIn(found', par'.enumCount, net)
  <2>. DEFINE old == Taken(p, q)
  <2>1. Ack \in Messages
    BY DEF Ack, Messages
  <2>2. MessageIn(found, par.enumCount, p, q, Ack)
    <3>1. PICK b \in Link : p = Neighbor(q, b)
      BY <1>2
    <3>2. q = Neighbor(p, b)
      BY <3>1, NeighborOfNeighbor
    <3>. QED  BY <3>2 DEF MessageIn, Ack
  <2>3. NetIn(found, par.enumCount, [old EXCEPT ![p][q] = Append(@, Ack)])
    <3>. HIDE DEF old
    <3>1. NetIn(found, par.enumCount, old)
      BY <1>1 DEF old
    <3>. QED  BY <2>1, <2>2, <3>1, NetSends
  <2>. QED  BY <1>1, <2>3
<1>. HIDE DEF net
<1>5. /\ repos' \in [Proc -> SUBSET Identifier] /\ parallelSolCounter' \in [Proc -> Nat]
      /\ needReposMerge' \in [Proc -> BOOLEAN]
      /\ solJustSent' \in [Proc -> [Link -> BOOLEAN]]
      /\ solSendQ' \in [Proc -> [Link -> [Solution -> Nat]]]
      /\ NetIn(found', par'.enumCount, channel')
      /\ PartsAreGenuine' /\ CutOffsAreReal'
      /\ \A a \in Proc : \A b \in Link, t \in Solution :
           solSendQ'[a][b][t] > 0 => t \in found' \/ solSendQ[a][b][t] > 0
  <2>1. CASE Owner[s] = p
    BY <1>1, <1>2, <1>3, <1>4, <2>1, ProcessOwnedSolutionStep DEF flow, TypeOK
  <2>2. CASE Owner[s] # p
    <3>1. UNCHANGED <<local, needReposMerge>> /\ Route(p, s, net)
      BY <1>3, <2>2
    <3>2. PartsAreGenuine' /\ CutOffsAreReal'
      BY <1>1, <1>3, <3>1, PartsStay, CutOffsStay DEF local
    <3>. QED  BY <1>1, <1>2, <1>4, <3>1, <3>2, RouteStep DEF TypeOK, local
  <2>. QED  BY <2>1, <2>2
<1>6. TypeOK'
  <2>1. UNCHANGED <<par, found, finds, phase, rampUpSolQ, incumbent,
                    needPruning, needHubPruning, lastSol, childReposArray>>
    BY <1>1, <1>3 DEF asked, prune
  <2>2. channel' \in [Proc -> [Proc -> Seq(Messages)]]
    BY <1>5 DEF NetIn
  <2>. QED  BY <1>5, <2>1, <2>2 DEF TypeOK
<1>7. QueuesAreGenuine'
  BY <1>1, <1>5, QueuesStay
<1>. QED  BY <1>1, <1>3, <1>5, <1>6, <1>7, ListsStay, InTermsOfFoundNext

\* AckSol preserves the invariant.
LEMMA AckSolStep ==
  ASSUME ReposInv, NEW p \in Proc, NEW q \in Proc, AckSol(p, q)
  PROVE  ReposInv'
<1>. USE DEF ReposInv
<1>. DEFINE m    == Head(channel[q][p])
            b    == LinkTo(p, q)
            wait == solSendQ[p][b]
            live == {s \in Solution : wait[s] > 0 /\ ~Fathoms(p, incumbent[p], Value[s])}
            best == {s \in live : \A t \in live : Value[s] <= Value[t]}
            old  == Taken(p, q)
<1>1. /\ m \in Messages /\ m.type = "ackSol"
      /\ MessageIn(found, par.enumCount, q, p, m)
      /\ NetIn(found, par.enumCount, old)
      /\ Grows /\ found' = found /\ par' = par
      /\ UNCHANGED <<asked, phase, rampUpSolQ, incumbent, final>>
  BY MessageTaken DEF AckSol
<1>2. b \in Link /\ q = Neighbor(p, b)
  <2>1. PICK a \in Link : p = Neighbor(q, a)
    <3>. HIDE DEF m
    <3>. QED  BY <1>1 DEF MessageIn
  <2>2. q = Neighbor(p, a)
    BY <2>1, NeighborOfNeighbor
  <2>. QED  BY <2>2, NeighborOfNeighbor
<1>3. /\ solJustSent' = [solJustSent EXCEPT ![p][b] = live # {}]
      /\ \/ /\ live = {} /\ channel' = old
            /\ solSendQ' = [solSendQ EXCEPT ![p][b] = NoneQueued]
         \/ \E s \in best :
              /\ channel' = [old EXCEPT ![p][q] = Append(@, Forward(s))]
              /\ solSendQ' = [solSendQ EXCEPT ![p][b][s] = @ - 1]
      /\ UNCHANGED <<local, prune, merge>>
  BY DEF AckSol
<1>4. solSendQ \in [Proc -> [Link -> [Solution -> Nat]]]
  BY DEF TypeOK
<1>5. /\ NetIn(found', par'.enumCount, channel')
      /\ solSendQ' \in [Proc -> [Link -> [Solution -> Nat]]]
      /\ \A a \in Proc : \A c \in Link, t \in Solution :
           solSendQ'[a][c][t] > 0 => solSendQ[a][c][t] > 0
  <2>1. CASE live = {} /\ channel' = old
             /\ solSendQ' = [solSendQ EXCEPT ![p][b] = NoneQueued]
    <3>. HIDE DEF b, old, live
    <3>1. solSendQ' \in [Proc -> [Link -> [Solution -> Nat]]]
      BY <1>2, <1>4, <2>1 DEF NoneQueued
    <3>2. ASSUME NEW a \in Proc, NEW c \in Link, NEW t \in Solution,
                 solSendQ'[a][c][t] > 0
          PROVE  solSendQ[a][c][t] > 0
      <4>1. solSendQ'[a][c][t] \in {0, solSendQ[a][c][t]}
        BY <1>2, <1>4, <2>1 DEF NoneQueued
      <4>. QED  BY <3>2, <4>1
    <3>. QED  BY <1>1, <2>1, <3>1, <3>2
  <2>2. CASE \E s \in best :
               /\ channel' = [old EXCEPT ![p][q] = Append(@, Forward(s))]
               /\ solSendQ' = [solSendQ EXCEPT ![p][b][s] = @ - 1]
    <3>1. PICK s \in best :
            /\ channel' = [old EXCEPT ![p][q] = Append(@, Forward(s))]
            /\ solSendQ' = [solSendQ EXCEPT ![p][b][s] = @ - 1]
      BY <2>2
    <3>2. s \in Solution /\ solSendQ[p][b][s] > 0
      OBVIOUS
    <3>. HIDE DEF live, best, wait, b, old
    <3>3. s \in found
      BY <1>2, <3>2 DEF QueuesAreGenuine
    <3>4. Forward(s) \in Messages /\ MessageIn(found, par.enumCount, p, q, Forward(s))
      BY <1>2, <3>2, <3>3 DEF Forward, Messages, MessageIn
    <3>5. NetIn(found, par.enumCount, [old EXCEPT ![p][q] = Append(@, Forward(s))])
      BY <1>1, <3>4, NetSends
    <3>6. solSendQ[p][b][s] - 1 \in Nat
      BY <1>2, <1>4, <3>2
    <3>7. /\ solSendQ' \in [Proc -> [Link -> [Solution -> Nat]]]
          /\ \A a \in Proc : \A c \in Link, t \in Solution :
               solSendQ'[a][c][t] = IF a = p /\ c = b /\ t = s THEN solSendQ[p][b][s] - 1
                                    ELSE solSendQ[a][c][t]
      <4>. DEFINE k == solSendQ[p][b][s] - 1
                  row == [solSendQ[p][b] EXCEPT ![s] = k]
      <4>1. solSendQ' = [solSendQ EXCEPT ![p][b] = row]
        BY <3>1
      <4>2. /\ row \in [Solution -> Nat]
            /\ \A t \in Solution : row[t] = IF t = s THEN k ELSE solSendQ[p][b][t]
        <5>1. solSendQ[p][b] \in [Solution -> Nat]
          BY <1>2, <1>4
        <5>. HIDE DEF k
        <5>2. k \in Nat
          BY <3>6 DEF k
        <5>. QED  BY <3>2, <5>1, <5>2
      <4>3. solSendQ' \in [Proc -> [Link -> [Solution -> Nat]]]
        <5>. HIDE DEF row
        <5>. QED  BY <1>2, <1>4, <4>1, <4>2
      <4>4. \A a \in Proc : \A c \in Link :
               solSendQ'[a][c] = IF a = p /\ c = b THEN row ELSE solSendQ[a][c]
        <5>. HIDE DEF row
        <5>. QED  BY <1>2, <1>4, <4>1
      <4>5. ASSUME NEW a \in Proc, NEW c \in Link, NEW t \in Solution
            PROVE  solSendQ'[a][c][t] = IF a = p /\ c = b /\ t = s THEN k
                                        ELSE solSendQ[a][c][t]
        <5>. HIDE DEF row, k
        <5>1. solSendQ'[a][c] = IF a = p /\ c = b THEN row ELSE solSendQ[a][c]
          BY <4>4
        <5>2. row[t] = IF t = s THEN k ELSE solSendQ[p][b][t]
          BY <4>2
        <5>. QED  BY <5>1, <5>2
      <4>. HIDE DEF row
      <4>. QED  BY <4>3, <4>5
    <3>8. \A a \in Proc : \A c \in Link, t \in Solution :
            solSendQ'[a][c][t] > 0 => solSendQ[a][c][t] > 0
      <4>. SUFFICES ASSUME NEW a \in Proc, NEW c \in Link, NEW t \in Solution,
                           solSendQ'[a][c][t] > 0
                    PROVE  solSendQ[a][c][t] > 0
        OBVIOUS
      <4>1. CASE a = p /\ c = b /\ t = s
        BY <3>2, <4>1
      <4>2. CASE ~(a = p /\ c = b /\ t = s)
        <5>1. solSendQ'[a][c][t] = solSendQ[a][c][t]
          BY <3>7, <4>2
        <5>. QED  BY <5>1
      <4>. QED  BY <4>1, <4>2
    <3>. QED  BY <1>1, <3>1, <3>5, <3>7, <3>8
  <2>. QED  BY <1>3, <2>1, <2>2
<1>6. solJustSent' \in [Proc -> [Link -> BOOLEAN]]
  <2>. HIDE DEF live, b
  <2>1. solJustSent' = [solJustSent EXCEPT ![p][b] = live # {}]
    BY <1>3
  <2>. QED  BY <2>1 DEF TypeOK
<1>. HIDE DEF m, b, live, best, old
<1>7. TypeOK'
  <2>1. UNCHANGED <<par, found, finds, phase, rampUpSolQ, incumbent, repos, parallelSolCounter,
                    needPruning, needHubPruning, needReposMerge, lastSol, childReposArray>>
    BY <1>1, <1>3 DEF asked, prune, local, merge
  <2>2. channel' \in [Proc -> [Proc -> Seq(Messages)]]
    BY <1>5 DEF NetIn
  <2>. QED  BY <1>5, <1>6, <2>1, <2>2 DEF TypeOK
<1>8. QueuesAreGenuine'
  BY <1>1, <1>5, QueuesStay
<1>. QED  BY <1>1, <1>3, <1>5, <1>7, <1>8, PartsStay, ListsStay, CutOffsStay,
             InTermsOfFoundNext DEF local, merge

(***************************************************************************)
(* The synchronization at the end of ramp-up.                              *)
(***************************************************************************)
LEMMA SubtreeIsGenuine ==
  ASSUME ReposInv, NEW p \in Proc
  PROVE  Subtree(p) \in SUBSET Identifier /\ GenuineIn(found, Subtree(p), Below[p])
<1>. USE DEF ReposInv
<1>. DEFINE parts == {repos[q] : q \in Below[p]}
<1>1. Subtree(p) = UNION parts
  BY DEF Subtree
<1>2. Below[p] \subseteq Proc
  BY BelowItself
<1>3. \A q \in Below[p] : repos[q] \subseteq Identifier /\ GenuineIn(found, repos[q], {q})
  BY <1>2, InTermsOfFound DEF TypeOK, PartsAreGenuine
<1>4. IsFiniteSet(UNION parts)
  <2>1. IsFiniteSet(Below[p])
    <3>1. IsFiniteSet(Proc)
      BY FS_Interval, TreeAssumption DEF Proc
    <3>. QED  BY <1>2, <3>1, FS_Subset
  <2>2. IsFiniteSet(parts)
    <3>. DEFINE f == [q \in Below[p] |-> repos[q]]
    <3>1. f \in Surjection(Below[p], parts)
      BY DEF Surjection
    <3>. HIDE DEF f, parts
    <3>. QED  BY <2>1, <3>1, FS_Surjection
  <2>3. \A T \in parts : IsFiniteSet(T)
    BY <1>3 DEF GenuineIn
  <2>. HIDE DEF parts
  <2>. QED  BY <2>2, <2>3, FS_UNION
<1>5. UNION parts \subseteq Identifier
  BY <1>3
<1>6. ASSUME NEW x \in UNION parts
      PROVE  /\ x.sol \in found /\ x.value = Value[x.sol]
             /\ x.owner = Owner[x.sol] /\ x.owner \in Below[p]
             /\ x \in repos[x.owner]
  BY <1>3 DEF GenuineIn
<1>7. ASSUME NEW x \in UNION parts, NEW y \in UNION parts,
             x.sol = y.sol \/ (x.owner = y.owner /\ x.serial = y.serial)
      PROVE  x = y
  <2>1. x.owner = y.owner /\ x.owner \in Below[p] /\ x \in repos[x.owner] /\ y \in repos[x.owner]
    BY <1>6, <1>7
  <2>. QED  BY <1>3, <1>7, <2>1 DEF GenuineIn
<1>. HIDE DEF parts
<1>. QED  BY <1>1, <1>4, <1>5, <1>6, <1>7 DEF GenuineIn

\* SyncLastSol preserves the invariant.
LEMMA SyncLastSolStep ==
  ASSUME ReposInv, SyncLastSol
  PROVE  ReposInv'
<1>. USE DEF ReposInv
<1>1. Grows
  BY NothingFound DEF SyncLastSol
<1>2. /\ phase' = "search"
      /\ UNCHANGED <<asked, rampUpSolQ, incumbent, parallelSolCounter, needReposMerge,
                     channel, flow, final>>
  BY DEF SyncLastSol
<1>3. CASE ~Counting
  <2>1. UNCHANGED <<lastSol, childReposArray, needPruning, needHubPruning, repos>>
    BY <1>3 DEF SyncLastSol
  <2>2. TypeOK'
    BY <1>2, <2>1 DEF TypeOK, asked, flow
  <2>. QED  BY <1>1, <1>2, <2>1, <2>2, PartsStay, ListsStay, MessagesStay, QueuesStay,
               CutOffsStay DEF flow
<1>4. CASE Counting
  <2>. DEFINE last == CutOff(Subtree(0), NoSolution)
              must == [p \in Proc |-> needPruning[p] \/ last # NoSolution]
  <2>1. /\ lastSol' = [p \in Proc |-> last]
        /\ childReposArray' = [p \in Proc |-> [c \in Children(0, p) |->
                                 BestOf(Subtree(c), par.enumCount)]]
        /\ needHubPruning' = [p \in Proc |-> needHubPruning[p] \/ (p \in Hub /\ must[p])]
        /\ needPruning' = [p \in Proc |-> FALSE]
        /\ repos' = [p \in Proc |-> IF must[p]
             THEN {x \in repos[p] : ~OutOfRepository(p, x, last)} ELSE repos[p]]
    BY <1>4 DEF SyncLastSol
  <2>2. last \in Identifier \cup {NoSolution} /\ Real(last)
    <3>1. 0 \in Proc
      BY TreeAssumption DEF Proc
    <3>2. Real(NoSolution)
      BY DEF Real
    <3>. QED  BY <1>4, <3>1, <3>2, SubtreeIsGenuine, CutOffOfGenuine
  <2>3. \A p \in Proc : repos'[p] \subseteq repos[p]
    BY <2>1
  <2>4. repos' \in [Proc -> SUBSET Identifier]
    <3>1. \A p \in Proc : repos'[p] \in SUBSET Identifier
      BY <2>3 DEF TypeOK
    <3>2. repos' = [p \in Proc |-> repos'[p]]
      BY <2>1
    <3>. QED  BY <3>1, <3>2
  <2>5. PartsAreGenuine'
    <3>1. ASSUME NEW q \in Proc
          PROVE  /\ Genuine(repos[q], {q})'
                 /\ Counting' => Cardinality(repos'[q]) <= par'.enumCount
      <4>1. GenuineIn(found, repos[q], {q})
        BY InTermsOfFound DEF PartsAreGenuine
      <4>2. GenuineIn(found, repos'[q], {q})
        BY <2>3, <4>1, GenuineSubset
      <4>3. Genuine(repos[q], {q})'
        BY <1>1, <4>2, StaysGenuine, InTermsOfFoundNext
      <4>4. /\ IsFiniteSet(repos[q]) /\ IsFiniteSet(repos'[q])
            /\ Cardinality(repos'[q]) <= Cardinality(repos[q])
        BY <2>3, <4>1, FS_Subset DEF GenuineIn
      <4>5. Cardinality(repos'[q]) \in Nat /\ Cardinality(repos[q]) \in Nat
        BY <4>4, FS_CardinalityType
      <4>6. Counting => Cardinality(repos[q]) <= par.enumCount
        BY DEF PartsAreGenuine
      <4>. QED  BY <1>1, <4>3, <4>4, <4>5, <4>6, StaysGenuine DEF Grows
    <3>. QED  BY <1>2, <2>3, <3>1 DEF PartsAreGenuine
  <2>6. ASSUME NEW p \in Proc, NEW c \in Children(0, p)
        PROVE  /\ childReposArray'[p][c] \in SUBSET Identifier
               /\ GenuineIn(found, childReposArray'[p][c], Below[c])
    <3>1. c \in Proc
      BY BelowChild
    <3>. DEFINE all  == Subtree(c)
                best == BestOf(all, par.enumCount)
    <3>2. all \in SUBSET Identifier /\ GenuineIn(found, all, Below[c])
      BY <3>1, SubtreeIsGenuine
    <3>3. best \subseteq all
      BY DEF BestOf
    <3>4. best \in SUBSET Identifier /\ GenuineIn(found, best, Below[c])
      <4>. HIDE DEF all, best
      <4>. QED  BY <3>2, <3>3, GenuineSubset
    <3>5. childReposArray'[p][c] = best
      BY <2>1
    <3>. QED  BY <3>4, <3>5
  <2>7. ListsAreGenuine'
    <3>. SUFFICES ASSUME NEW p \in Proc, NEW c \in Children(0, p)
                  PROVE  Genuine(childReposArray[p][c], Below[c])'
      BY DEF ListsAreGenuine
    <3>. QED  BY <1>1, <2>6, StaysGenuine, InTermsOfFoundNext
  <2>8. CutOffsAreReal'
    <3>. SUFFICES ASSUME NEW p \in Proc
                  PROVE  Real(lastSol[p])' /\ (needReposMerge'[p] => Counting')
      BY DEF CutOffsAreReal
    <3>1. lastSol'[p] = last
      BY <2>1
    <3>. HIDE DEF last
    <3>2. RealIn(found', par'.enumCount, lastSol'[p])
      BY <1>1, <2>2, <3>1, InTermsOfFound, StaysGenuine
    <3>. QED  BY <1>1, <1>4, <3>2, StaysGenuine, InTermsOfFoundNext
  <2>9. TypeOK'
    <3>1. /\ childReposArray' = [p \in Proc |-> childReposArray'[p]]
          /\ \A p \in Proc : childReposArray'[p] \in [Children(0, p) -> SUBSET Identifier]
      <4>. DEFINE row(p) == [c \in Children(0, p) |-> BestOf(Subtree(c), par.enumCount)]
      <4>1. childReposArray' = [p \in Proc |-> row(p)]
        BY <2>1
      <4>2. ASSUME NEW p \in Proc
            PROVE  childReposArray'[p] \in [Children(0, p) -> SUBSET Identifier]
        <5>1. childReposArray'[p] = row(p)
          <6>. HIDE DEF row
          <6>. QED  BY <4>1
        <5>2. \A c \in Children(0, p) : childReposArray'[p][c] \in SUBSET Identifier
          BY <2>6
        <5>. QED  BY <5>1, <5>2
      <4>. HIDE DEF row
      <4>. QED  BY <4>1, <4>2
    <3>2. /\ lastSol' \in [Proc -> Identifier \cup {NoSolution}]
          /\ needPruning' \in [Proc -> BOOLEAN]
      <4>. HIDE DEF last
      <4>. QED  BY <2>1, <2>2
    <3>3. needHubPruning' \in [Proc -> BOOLEAN]
      BY <2>1 DEF TypeOK
    <3>4. UNCHANGED <<par, found, finds, rampUpSolQ, incumbent, parallelSolCounter,
                      needReposMerge, channel, solJustSent, solSendQ>>
      BY <1>2 DEF asked, flow
    <3>. HIDE DEF last, must
    <3>. QED  BY <1>2, <2>4, <3>1, <3>2, <3>3, <3>4 DEF TypeOK
  <2>. QED  BY <1>1, <1>2, <2>5, <2>7, <2>8, <2>9, MessagesStay, QueuesStay DEF flow
<1>. QED  BY <1>3, <1>4

\* The final scan preserves the invariant.
LEMMA ScanStep ==
  ASSUME ReposInv, StartRepositoryScan \/ NextRepositoryMember
  PROVE  ReposInv'
<1>. USE DEF ReposInv
<1>1. /\ UNCHANGED <<asked, rampUpSolQ, incumbent, local, prune, merge, channel, flow>>
      /\ phase' \in {phase, "scan"}
  BY DEF StartRepositoryScan, NextRepositoryMember
<1>2. Grows
  BY <1>1, NothingFound
<1>3. TypeOK'
  BY <1>1 DEF TypeOK, asked, local, prune, merge, flow
<1>. QED  BY <1>1, <1>2, <1>3, PartsStay, ListsStay, MessagesStay, QueuesStay, CutOffsStay
          DEF local, merge, flow

-----------------------------------------------------------------------------
\* At first there is nothing.
LEMMA InitRepos == Init => ReposInv
<1>. SUFFICES ASSUME Init
              PROVE  ReposInv
  OBVIOUS
<1>1. TypeOK
  <2>1. IsFiniteSet({})
    BY FS_EmptySet
  <2>2. 0 \in 0 .. MaxFound /\ Infinite \in Nat
    BY RepositoryAssumption DEF Infinite
  <2>. QED  BY <2>1, <2>2 DEF Init, TypeOK, NoneQueued
<1>2. PartsAreGenuine
  <2>1. Genuine({}, {}) /\ \A p : Genuine({}, {p})
    BY FS_EmptySet DEF Genuine
  <2>2. Counting => par.enumCount >= 0
    BY <1>1, Settings DEF Counting
  <2>. QED  BY <2>1, <2>2, FS_EmptySet DEF Init, PartsAreGenuine
<1>3. ListsAreGenuine
  <2>1. \A P : Genuine({}, P)
    BY FS_EmptySet DEF Genuine
  <2>. QED  BY <2>1 DEF Init, ListsAreGenuine
<1>4. MessagesAreGenuine
  BY DEF Init, MessagesAreGenuine
<1>5. QueuesAreGenuine
  BY DEF Init, QueuesAreGenuine, NoneQueued
<1>6. CutOffsAreReal
  BY DEF Init, CutOffsAreReal, Real
<1>. QED  BY <1>1, <1>2, <1>3, <1>4, <1>5, <1>6 DEF ReposInv

\* A stuttering step preserves the invariant.
LEMMA ReposStutter == ReposInv /\ UNCHANGED vars => ReposInv'
<1>. SUFFICES ASSUME ReposInv, UNCHANGED vars
              PROVE  ReposInv'
  OBVIOUS
<1>. USE DEF ReposInv
<1>1. UNCHANGED <<asked, phase, rampUpSolQ, incumbent, local, prune, merge, channel, flow>>
  BY DEF vars
<1>2. Grows
  BY <1>1, NothingFound
<1>3. TypeOK'
  BY <1>1 DEF TypeOK, asked, local, prune, merge, flow
<1>. QED  BY <1>1, <1>2, <1>3, PartsStay, ListsStay, MessagesStay, QueuesStay, CutOffsStay
          DEF local, merge, flow

\* The parts of the repository hold solutions that have been found, each at
\* its owner and once, within the limit; the lists a processor has or is
\* sent are of its children's subtrees; and every cut-off, kept or on its
\* way, has enumCount found solutions that are as good.
THEOREM ReposInvariant == Spec => []ReposInv
<1>1. ReposInv /\ [Next]_vars => ReposInv'
  <2>. SUFFICES ASSUME ReposInv, Next
                PROVE  ReposInv'
    BY ReposStutter
  <2>1. par.finders \subseteq Proc
    BY RepositoryAssumption DEF ReposInv, TypeOK
  <2>2. ASSUME NEW s \in Solution, RampUpFind(s) \/ \E p \in par.finders : Find(p, s)
        PROVE  ReposInv'
    BY <2>1, <2>2, RampUpFindStep, FindStep
  <2>3. CASE RampUpIncumbentSync \/ SyncLastSol \/ StartRepositoryScan \/ NextRepositoryMember
    BY <2>3, RampUpIncumbentSyncStep, SyncLastSolStep, ScanStep
  <2>4. ASSUME NEW p \in Proc, \/ HashSolution(p) \/ HearIncumbent(p)
                               \/ WorkerPrune(p) \/ HubPrune(p) \/ ReposArraySend(p)
        PROVE  ReposInv'
    BY <2>4, HashSolutionStep, HearIncumbentStep, WorkerPruneStep, HubPruneStep,
       ReposArraySendStep
  <2>5. ASSUME NEW p \in Proc, NEW q \in Proc,
               \/ HashSol(p, q) \/ ReposArray(p, q) \/ NewLastSol(p, q)
               \/ ForwardSol(p, q) \/ AckSol(p, q)
        PROVE  ReposInv'
    BY <2>5, HashSolStep, ReposArrayStep, NewLastSolStep, ForwardSolStep, AckSolStep
  <2>. QED  BY <2>2, <2>3, <2>4, <2>5 DEF Next, Step
<1>. QED  BY <1>1, InitRepos, PTL DEF Spec

\* pruneRepository and canFathom never cut off with too good a solution: at
\* any time at least enumCount solutions as good as the cut-off have been
\* found, however late the lists it was made of have arrived.
THEOREM CutOffsAreNotTooGood == Spec => []CutOffIsReal
<1>1. ReposInv => CutOffIsReal
  BY DEF ReposInv, CutOffsAreReal, CutOffIsReal, Real
<1>. QED  BY <1>1, ReposInvariant, PTL

-----------------------------------------------------------------------------
(***************************************************************************)
(* Flow control: how many messages of a type are in a channel, and what    *)
(* sending, taking and relaying change of it.                              *)
(***************************************************************************)
TypeCount(s, type) == Cardinality({i \in DOMAIN s : s[i].type = type})

\* How a message that is appended counts.
LEMMA CountAppend ==
  ASSUME NEW s \in Seq(Messages), NEW m \in Messages, NEW type
  PROVE  /\ TypeCount(s, type) \in Nat
         /\ TypeCount(Append(s, m), type) = TypeCount(s, type) + IF m.type = type THEN 1 ELSE 0
<1>. DEFINE A == {i \in DOMAIN s : s[i].type = type}
            B == {i \in DOMAIN Append(s, m) : Append(s, m)[i].type = type}
            k == Len(s) + 1
<1>1. k \in Nat /\ DOMAIN s = 1 .. Len(s) /\ k \notin DOMAIN s
  OBVIOUS
<1>2. IsFiniteSet(A) /\ Cardinality(A) \in Nat
  <2>1. IsFiniteSet(DOMAIN s)
    BY <1>1, FS_Interval
  <2>. QED  BY <2>1, FS_Subset, FS_CardinalityType
<1>3. /\ DOMAIN Append(s, m) = DOMAIN s \cup {k}
      /\ Append(s, m)[k] = m
      /\ \A i \in DOMAIN s : Append(s, m)[i] = s[i]
  BY <1>1
<1>4. CASE m.type = type
  <2>1. B = A \cup {k} /\ k \notin A
    <3>. HIDE DEF k
    <3>. QED  BY <1>1, <1>3, <1>4
  <2>2. Cardinality(A \cup {k}) = Cardinality(A) + 1
    <3>. HIDE DEF A, k
    <3>. QED  BY <1>2, <2>1, FS_AddElement
  <2>3. Cardinality(B) = Cardinality(A) + 1
    <3>. HIDE DEF A, B, k
    <3>. QED  BY <2>1, <2>2
  <2>4. TypeCount(s, type) = Cardinality(A) /\ TypeCount(Append(s, m), type) = Cardinality(B)
    BY DEF TypeCount
  <2>. HIDE DEF A, B
  <2>. QED  BY <1>2, <1>4, <2>3, <2>4
<1>5. CASE m.type # type
  <2>1. B = A
    <3>. HIDE DEF k
    <3>. QED  BY <1>1, <1>3, <1>5
  <2>2. Cardinality(B) = Cardinality(A)
    <3>. HIDE DEF A, B
    <3>. QED  BY <2>1
  <2>3. TypeCount(s, type) = Cardinality(A) /\ TypeCount(Append(s, m), type) = Cardinality(B)
    BY DEF TypeCount
  <2>. HIDE DEF A, B
  <2>. QED  BY <1>2, <1>5, <2>2, <2>3
<1>. QED  BY <1>4, <1>5

\* How a message that is taken counts.
LEMMA CountTail ==
  ASSUME NEW s \in Seq(Messages), s # <<>>, NEW type
  PROVE  TypeCount(Tail(s), type) = TypeCount(s, type) - IF Head(s).type = type THEN 1 ELSE 0
<1>. DEFINE A == {i \in DOMAIN s : s[i].type = type}
            B == {i \in DOMAIN Tail(s) : Tail(s)[i].type = type}
            C == A \ {1}
<1>1. /\ Len(s) \in Nat \ {0} /\ DOMAIN s = 1 .. Len(s) /\ DOMAIN Tail(s) = 1 .. Len(s) - 1
      /\ \A i \in 1 .. Len(s) - 1 : Tail(s)[i] = s[i + 1]
      /\ Head(s) = s[1]
  OBVIOUS
<1>2. IsFiniteSet(A) /\ Cardinality(A) \in Nat
  <2>1. IsFiniteSet(DOMAIN s)
    BY <1>1, FS_Interval
  <2>. QED  BY <2>1, FS_Subset, FS_CardinalityType
<1>3. Cardinality(B) = Cardinality(C)
  <2>. DEFINE f == [i \in B |-> i + 1]
  <2>1. f \in [B -> C]
    BY <1>1
  <2>2. \A i, j \in B : f[i] = f[j] => i = j
    BY <1>1
  <2>3. \A j \in C : \E i \in B : f[i] = j
    <3>. TAKE j \in C
    <3>1. j \in 1 .. Len(s) /\ j # 1 /\ s[j].type = type
      BY <1>1
    <3>2. j - 1 \in 1 .. Len(s) - 1 /\ Tail(s)[j - 1] = s[j]
      BY <1>1, <3>1
    <3>3. j - 1 \in B
      BY <1>1, <3>1, <3>2
    <3>4. f[j - 1] = j
      BY <3>1, <3>3
    <3>. QED  BY <3>3, <3>4
  <2>4. f \in Bijection(B, C)
    <3>. HIDE DEF f, B, C
    <3>. QED  BY <2>1, <2>2, <2>3 DEF Bijection, Injection, Surjection, IsInjective
  <2>5. IsFiniteSet(C)
    BY <1>2, FS_Subset
  <2>6. IsFiniteSet(B)
    <3>1. IsFiniteSet(1 .. Len(s) - 1)
      BY <1>1, FS_Interval
    <3>. QED  BY <1>1, <3>1, FS_Subset
  <2>. HIDE DEF f, B, C
  <2>. QED  BY <2>4, <2>5, <2>6, FS_Bijection DEF ExistsBijection
<1>4. CASE Head(s).type = type
  <2>1. 1 \in A
    BY <1>1, <1>4
  <2>2. Cardinality(A \ {1}) = Cardinality(A) - 1
    <3>. HIDE DEF A
    <3>. QED  BY <1>2, <2>1, FS_RemoveElement
  <2>3. TypeCount(s, type) = Cardinality(A) /\ TypeCount(Tail(s), type) = Cardinality(B)
    BY DEF TypeCount
  <2>. HIDE DEF A, B
  <2>. QED  BY <1>2, <1>3, <1>4, <2>2, <2>3
<1>5. CASE Head(s).type # type
  <2>1. C = A
    BY <1>1, <1>5
  <2>2. Cardinality(B) = Cardinality(A)
    <3>. HIDE DEF A, B, C
    <3>. QED  BY <1>3, <2>1
  <2>3. TypeCount(s, type) = Cardinality(A) /\ TypeCount(Tail(s), type) = Cardinality(B)
    BY DEF TypeCount
  <2>. HIDE DEF A, B
  <2>. QED  BY <1>2, <1>5, <2>2, <2>3
<1>. QED  BY <1>4, <1>5

\* Networks, and those after a message has been sent or taken.
Nets == [Proc -> [Proc -> Seq(Messages)]]

Sent(net, p, q, m) == [net EXCEPT ![p][q] = Append(@, m)]

Received(net, p, q) == [net EXCEPT ![q][p] = Tail(@)]

\* A message that is sent is counted in its channel,
LEMMA CountWhenSent ==
  ASSUME NEW net \in Nets, NEW p \in Proc, NEW q \in Proc, NEW m \in Messages,
         NEW type, m.type = type
  PROVE  TypeCount(Sent(net, p, q, m)[p][q], type) = TypeCount(net[p][q], type) + 1
<1>1. net[p][q] \in Seq(Messages) /\ Sent(net, p, q, m)[p][q] = Append(net[p][q], m)
  BY DEF Nets, Sent
<1>. QED  BY <1>1, CountAppend

\* and only with its type.
LEMMA OthersWhenSent ==
  ASSUME NEW net \in Nets, NEW p \in Proc, NEW q \in Proc, NEW m \in Messages,
         NEW type, m.type # type
  PROVE  TypeCount(Sent(net, p, q, m)[p][q], type) = TypeCount(net[p][q], type)
<1>1. net[p][q] \in Seq(Messages) /\ Sent(net, p, q, m)[p][q] = Append(net[p][q], m)
  BY DEF Nets, Sent
<1>. QED  BY <1>1, CountAppend

\* A message that is taken is no longer counted,
LEMMA CountWhenReceived ==
  ASSUME NEW net \in Nets, NEW p \in Proc, NEW q \in Proc, net[q][p] # <<>>,
         NEW type, Head(net[q][p]).type = type
  PROVE  TypeCount(Received(net, p, q)[q][p], type) = TypeCount(net[q][p], type) - 1
<1>1. net[q][p] \in Seq(Messages) /\ Received(net, p, q)[q][p] = Tail(net[q][p])
  BY DEF Nets, Received
<1>. QED  BY <1>1, CountTail

\* which changes no count of another type.
LEMMA OthersWhenReceived ==
  ASSUME NEW net \in Nets, NEW p \in Proc, NEW q \in Proc, net[q][p] # <<>>,
         NEW type, Head(net[q][p]).type # type
  PROVE  TypeCount(Received(net, p, q)[q][p], type) = TypeCount(net[q][p], type)
<1>1. net[q][p] \in Seq(Messages) /\ Received(net, p, q)[q][p] = Tail(net[q][p])
  BY DEF Nets, Received
<1>2. TypeCount(net[q][p], type) \in Nat
  <2>1. Ack \in Messages
    BY DEF Ack, Messages
  <2>. QED  BY <1>1, <2>1, CountAppend
<1>. QED  BY <1>1, <1>2, CountTail

\* What is sent or taken changes one channel only.
LEMMA OtherChannels ==
  ASSUME NEW net \in Nets, NEW a \in Proc, NEW c \in Proc, NEW p \in Proc, NEW q \in Proc, NEW m
  PROVE  /\ Sent(net, p, q, m) \in Nets \/ m \notin Messages
         /\ net[q][p] # <<>> => Received(net, p, q) \in Nets
         /\ ~(a = p /\ c = q) => Sent(net, p, q, m)[a][c] = net[a][c]
         /\ ~(a = q /\ c = p) => Received(net, p, q)[a][c] = net[a][c]
BY Z3T(60) DEF Nets, Sent, Received

\* Counts are numbers.
LEMMA CountIsNat ==
  ASSUME NEW net \in Nets, NEW a \in Proc, NEW c \in Proc
  PROVE  \A type : TypeCount(net[a][c], type) \in Nat
<1>1. net[a][c] \in Seq(Messages)
  BY DEF Nets
<1>2. Ack \in Messages
  BY DEF Ack, Messages
<1>. QED  BY <1>1, <1>2, CountAppend

\* A new cut-off changes no count that flow control depends on.
LEMMA CountsWhenRelayed ==
  ASSUME NEW net \in Nets, NEW p \in Proc, NEW x \in Identifier \cup {NoSolution}
  PROVE  /\ Relayed(net, p, x) \in Nets
         /\ \A a, c \in Proc : \A type \in {"forwardSol", "ackSol"} :
              TypeCount(Relayed(net, p, x)[a][c], type) = TypeCount(net[a][c], type)
<1>. DEFINE m == [type |-> "newLastSol", id |-> x]
            new == Relayed(net, p, x)
<1>1. m \in Messages
  BY DEF Messages
<1>2. /\ new \in Nets
      /\ \A a, c \in Proc : new[a][c] \in {net[a][c], Append(net[a][c], m)}
  <2>1. \A q \in Proc : Append(net[p][q], m) \in Seq(Messages)
    <3>. HIDE DEF m
    <3>. QED  BY <1>1 DEF Nets
  <2>. DEFINE row == [q \in Proc |-> IF q \in Children(0, p) THEN Append(net[p][q], m)
                                     ELSE net[p][q]]
  <2>2. new = [net EXCEPT ![p] = row]
    BY DEF Relayed
  <2>3. row \in [Proc -> Seq(Messages)]
    <3>. HIDE DEF m
    <3>. QED  BY <2>1 DEF Nets
  <2>4. \A c \in Proc : row[c] \in {net[p][c], Append(net[p][c], m)}
    OBVIOUS
  <2>5. new \in Nets
    <3>. HIDE DEF row, new
    <3>. QED  BY <2>2, <2>3 DEF Nets
  <2>6. \A a \in Proc : new[a] = IF a = p THEN row ELSE net[a]
    <3>. HIDE DEF row, new
    <3>. QED  BY <2>2, <2>3 DEF Nets
  <2>. HIDE DEF row, new, m
  <2>. QED  BY <2>4, <2>5, <2>6
<1>3. ASSUME NEW a \in Proc, NEW c \in Proc, NEW type \in {"forwardSol", "ackSol"}
      PROVE  TypeCount(new[a][c], type) = TypeCount(net[a][c], type)
  <2>1. net[a][c] \in Seq(Messages) /\ m.type # type
    BY DEF Nets
  <2>2. CASE new[a][c] = net[a][c]
    BY <2>2
  <2>3. CASE new[a][c] = Append(net[a][c], m)
    <3>. HIDE DEF new, m
    <3>. QED  BY <1>1, <2>1, <2>3, CountAppend
  <2>. QED  BY <1>2, <2>2, <2>3
<1>. QED  BY <1>2, <1>3

\* What is on its way over the link from p to q, in either direction.
OnItsWay(net, p, q) ==
  TypeCount(net[p][q], "forwardSol") + TypeCount(net[q][p], "ackSol")

\* FlowIsControlled of a network, the links that are marked and the queues.
FlowIn(net, just, queued) ==
  \A p \in Proc : \A b \in Link :
    IF Neighbor(p, b) \in Proc
    THEN /\ OnItsWay(net, p, Neighbor(p, b)) = IF just[p][b] THEN 1 ELSE 0
         /\ queued[p][b] # NoneQueued => just[p][b]
    ELSE ~just[p][b]

\* FlowIsControlled in these terms, in a state and the next.
LEMMA FlowInTermsOfLinks ==
  /\ FlowIsControlled <=> FlowIn(channel, solJustSent, solSendQ)
  /\ FlowIsControlled' <=> FlowIn(channel', solJustSent', solSendQ')
<1>1. \A p, q, type : Count(p, q, type) = TypeCount(channel[p][q], type)
  BY DEF Count, TypeCount
<1>2. \A p, q, type : Count(p, q, type)' = TypeCount(channel'[p][q], type)
  BY DEF Count, TypeCount
<1>3. FlowIsControlled <=> FlowIn(channel, solJustSent, solSendQ)
  BY <1>1 DEF FlowIsControlled, FlowIn, OnItsWay
<1>4. FlowIsControlled' <=> FlowIn(channel', solJustSent', solSendQ')
  BY <1>2 DEF FlowIsControlled, FlowIn, OnItsWay
<1>. QED  BY <1>3, <1>4

\* Nothing changes that flow control depends on.
LEMMA FlowStays ==
  ASSUME NEW net, NEW new, NEW just, NEW queued, NEW less, FlowIn(net, just, queued),
         \A a, c \in Proc : OnItsWay(new, a, c) = OnItsWay(net, a, c),
         \A p \in Proc : \A b \in Link : less[p][b] # NoneQueued => queued[p][b] # NoneQueued
  PROVE  FlowIn(new, just, less)
<1>. SUFFICES ASSUME NEW p \in Proc, NEW b \in Link
              PROVE  IF Neighbor(p, b) \in Proc
                     THEN /\ OnItsWay(new, p, Neighbor(p, b)) = IF just[p][b] THEN 1 ELSE 0
                          /\ less[p][b] # NoneQueued => just[p][b]
                     ELSE ~just[p][b]
  BY DEF FlowIn
<1>1. Neighbor(p, b) \in Proc => OnItsWay(new, p, Neighbor(p, b)) = OnItsWay(net, p, Neighbor(p, b))
  BY DEF OnItsWay
<1>. QED  BY <1>1 DEF FlowIn

\* What forwarding a solution changes.
LEMMA CountsWhenForwarded ==
  ASSUME NEW net \in Nets, NEW p \in Proc, NEW q \in Proc, NEW m \in Messages,
         m.type = "forwardSol", NEW x \in Proc, NEW y \in Proc
  PROVE  /\ x = p /\ y = q => TypeCount(Sent(net, p, q, m)[x][y], "forwardSol") =
                                TypeCount(net[x][y], "forwardSol") + 1
         /\ ~(x = p /\ y = q) => TypeCount(Sent(net, p, q, m)[x][y], "forwardSol") =
                                   TypeCount(net[x][y], "forwardSol")
         /\ TypeCount(Sent(net, p, q, m)[x][y], "ackSol") = TypeCount(net[x][y], "ackSol")
<1>1. CASE x = p /\ y = q
  <2>1. TypeCount(Sent(net, p, q, m)[p][q], "forwardSol") = TypeCount(net[p][q], "forwardSol") + 1
    BY CountWhenSent
  <2>2. TypeCount(Sent(net, p, q, m)[p][q], "ackSol") = TypeCount(net[p][q], "ackSol")
    BY OthersWhenSent
  <2>. QED  BY <1>1, <2>1, <2>2
<1>2. CASE ~(x = p /\ y = q)
  <2>1. Sent(net, p, q, m)[x][y] = net[x][y]
    BY <1>2, OtherChannels
  <2>. QED  BY <1>2, <2>1
<1>. QED  BY <1>1, <1>2

\* A solution that is routed is sent over a free link or waits for a busy one.
LEMMA FlowWhenRouted ==
  ASSUME TypeOK, NEW net \in Nets, FlowIn(net, solJustSent, solSendQ),
         NEW p \in Proc, NEW s \in Solution, Route(p, s, net)
  PROVE  FlowIn(channel', solJustSent', solSendQ')
<1>1. PICK b \in LinksTowards(p, Owner[s]) :
        /\ solJustSent' = [solJustSent EXCEPT ![p][b] = TRUE]
        /\ solSendQ' = IF Free(p, b) THEN solSendQ ELSE [solSendQ EXCEPT ![p][b][s] = @ + 1]
        /\ channel' = IF Free(p, b)
                      THEN [net EXCEPT ![p][Neighbor(p, b)] = Append(@, Forward(s))]
                      ELSE net
  BY Zenon DEF Route
<1>. DEFINE q == Neighbor(p, b)
<1>2. b \in Link /\ q \in Proc
  BY NeighborOfNeighbor, TreeAssumption DEF LinksTowards, Proc
<1>3. /\ solJustSent \in [Proc -> [Link -> BOOLEAN]]
      /\ solSendQ \in [Proc -> [Link -> [Solution -> Nat]]]
  BY DEF TypeOK
<1>4. \A a \in Proc : \A c \in Link :
        solJustSent'[a][c] = IF a = p /\ c = b THEN TRUE ELSE solJustSent[a][c]
  BY <1>1, <1>2, <1>3
<1>5. SUFFICES ASSUME NEW a \in Proc, NEW c \in Link
               PROVE  IF Neighbor(a, c) \in Proc
                      THEN /\ OnItsWay(channel', a, Neighbor(a, c)) = IF solJustSent'[a][c] THEN 1 ELSE 0
                           /\ solSendQ'[a][c] # NoneQueued => solJustSent'[a][c]
                      ELSE ~solJustSent'[a][c]
  BY DEF FlowIn
<1>6. IF Neighbor(a, c) \in Proc
      THEN /\ OnItsWay(net, a, Neighbor(a, c)) = IF solJustSent[a][c] THEN 1 ELSE 0
           /\ solSendQ[a][c] # NoneQueued => solJustSent[a][c]
      ELSE ~solJustSent[a][c]
  BY DEF FlowIn
<1>7. CASE ~Free(p, b)
  <2>1. channel' = net /\ solSendQ' = [solSendQ EXCEPT ![p][b][s] = @ + 1]
    BY <1>1, <1>7
  <2>2. ~(a = p /\ c = b) => solSendQ'[a][c] = solSendQ[a][c]
    BY <1>2, <1>3, <2>1
  <2>3. solJustSent[p][b]
    BY <1>2, <1>7 DEF FlowIn, Free
  <2>. QED  BY <1>2, <1>4, <1>6, <2>1, <2>2, <2>3
<1>8. CASE Free(p, b)
  <2>. DEFINE m == Forward(s)
  <2>1. channel' = [net EXCEPT ![p][q] = Append(@, m)] /\ solSendQ' = solSendQ
    BY <1>1, <1>8
  <2>2. m \in Messages /\ m.type = "forwardSol"
    BY DEF Forward, Messages
  <2>. HIDE DEF m, q
  <2>3. \A x, y \in Proc :
          /\ x = p /\ y = q =>
               TypeCount(channel'[x][y], "forwardSol") = TypeCount(net[x][y], "forwardSol") + 1
          /\ ~(x = p /\ y = q) =>
               TypeCount(channel'[x][y], "forwardSol") = TypeCount(net[x][y], "forwardSol")
          /\ TypeCount(channel'[x][y], "ackSol") = TypeCount(net[x][y], "ackSol")
    <3>. TAKE x \in Proc, y \in Proc
    <3>1. channel' = Sent(net, p, q, m)
      BY <2>1 DEF Sent
    <3>. QED  BY <1>2, <2>2, <3>1, CountsWhenForwarded
  <2>4. CASE a = p /\ c = b
    <3>1. ~solJustSent[p][b]
      BY <1>8 DEF Free
    <3>2. OnItsWay(net, p, q) = 0
      BY <1>2, <1>6, <2>4, <3>1 DEF q
    <3>3. TypeCount(net[p][q], "forwardSol") \in Nat /\ TypeCount(net[q][p], "ackSol") \in Nat
      BY <1>2, CountIsNat
    <3>4. TypeCount(channel'[p][q], "forwardSol") = TypeCount(net[p][q], "forwardSol") + 1
      BY <1>2, <2>2, <2>3
    <3>5. TypeCount(channel'[q][p], "ackSol") = TypeCount(net[q][p], "ackSol")
      BY <1>2, <2>2, <2>3
    <3>6. OnItsWay(channel', p, q) = 1
      BY <3>2, <3>3, <3>4, <3>5 DEF OnItsWay
    <3>. QED  BY <1>2, <1>4, <2>4, <3>6 DEF q
  <2>5. CASE ~(a = p /\ c = b)
    <3>1. ASSUME Neighbor(a, c) \in Proc
          PROVE  OnItsWay(channel', a, Neighbor(a, c)) = OnItsWay(net, a, Neighbor(a, c))
      <4>. DEFINE d == Neighbor(a, c)
      <4>1. ~(a = p /\ d = q)
        BY <1>2, <2>5, NeighborOfNeighbor DEF q
      <4>. HIDE DEF d
      <4>2. d \in Proc
        BY <3>1 DEF d
      <4>3. TypeCount(net[a][d], "forwardSol") \in Nat /\ TypeCount(net[d][a], "ackSol") \in Nat
        BY <4>2, CountIsNat
      <4>4. TypeCount(channel'[a][d], "forwardSol") = TypeCount(net[a][d], "forwardSol")
        BY <2>3, <4>1, <4>2
      <4>5. TypeCount(channel'[d][a], "ackSol") = TypeCount(net[d][a], "ackSol")
        BY <2>2, <2>3, <4>2
      <4>. QED  BY <4>3, <4>4, <4>5 DEF OnItsWay, d
    <3>. QED  BY <1>4, <1>6, <2>1, <2>5, <3>1
  <2>. QED  BY <2>4, <2>5
<1>. QED  BY <1>7, <1>8

\* A message of another type that is sent
LEMMA OtherSent ==
  ASSUME NEW net \in Nets, NEW p \in Proc, NEW q \in Proc, NEW m \in Messages,
         m.type # "forwardSol", m.type # "ackSol", NEW x \in Proc, NEW y \in Proc
  PROVE  OnItsWay(Sent(net, p, q, m), x, y) = OnItsWay(net, x, y)
<1>1. ASSUME NEW a \in Proc, NEW c \in Proc
      PROVE  /\ TypeCount(Sent(net, p, q, m)[a][c], "forwardSol") = TypeCount(net[a][c], "forwardSol")
             /\ TypeCount(Sent(net, p, q, m)[a][c], "ackSol") = TypeCount(net[a][c], "ackSol")
  <2>1. CASE a = p /\ c = q
    <3>1. TypeCount(Sent(net, p, q, m)[p][q], "forwardSol") = TypeCount(net[p][q], "forwardSol")
      BY OthersWhenSent
    <3>2. TypeCount(Sent(net, p, q, m)[p][q], "ackSol") = TypeCount(net[p][q], "ackSol")
      BY OthersWhenSent
    <3>. QED  BY <2>1, <3>1, <3>2
  <2>2. CASE ~(a = p /\ c = q)
    <3>1. Sent(net, p, q, m)[a][c] = net[a][c]
      BY <2>2, OtherChannels
    <3>. QED  BY <3>1
  <2>. QED  BY <2>1, <2>2
<1>. QED  BY <1>1 DEF OnItsWay

\* or taken does not concern the links,
LEMMA OtherReceived ==
  ASSUME NEW net \in Nets, NEW p \in Proc, NEW q \in Proc, net[q][p] # <<>>,
         Head(net[q][p]).type # "forwardSol", Head(net[q][p]).type # "ackSol",
         NEW x \in Proc, NEW y \in Proc
  PROVE  OnItsWay(Received(net, p, q), x, y) = OnItsWay(net, x, y)
<1>1. ASSUME NEW a \in Proc, NEW c \in Proc
      PROVE  /\ TypeCount(Received(net, p, q)[a][c], "forwardSol") = TypeCount(net[a][c], "forwardSol")
             /\ TypeCount(Received(net, p, q)[a][c], "ackSol") = TypeCount(net[a][c], "ackSol")
  <2>1. CASE a = q /\ c = p
    <3>1. TypeCount(Received(net, p, q)[q][p], "forwardSol") = TypeCount(net[q][p], "forwardSol")
      BY OthersWhenReceived
    <3>2. TypeCount(Received(net, p, q)[q][p], "ackSol") = TypeCount(net[q][p], "ackSol")
      BY OthersWhenReceived
    <3>. QED  BY <2>1, <3>1, <3>2
  <2>2. CASE ~(a = q /\ c = p)
    <3>1. Received(net, p, q)[a][c] = net[a][c]
      BY <2>2, OtherChannels
    <3>. QED  BY <3>1
  <2>. QED  BY <2>1, <2>2
<1>. QED  BY <1>1 DEF OnItsWay

\* nor does a cut-off that is relayed.
LEMMA OnItsWayWhenRelayed ==
  ASSUME NEW net \in Nets, NEW p \in Proc, NEW last \in Identifier \cup {NoSolution},
         NEW x \in Proc, NEW y \in Proc
  PROVE  OnItsWay(Relayed(net, p, last), x, y) = OnItsWay(net, x, y)
<1>1. TypeCount(Relayed(net, p, last)[x][y], "forwardSol") = TypeCount(net[x][y], "forwardSol")
  BY CountsWhenRelayed
<1>2. TypeCount(Relayed(net, p, last)[y][x], "ackSol") = TypeCount(net[y][x], "ackSol")
  BY CountsWhenRelayed
<1>. QED  BY <1>1, <1>2 DEF OnItsWay

\* A forwarded solution is replaced by its acknowledgement.
LEMMA OnItsWayWhenAcknowledged ==
  ASSUME NEW net \in Nets, NEW p \in Proc, NEW q \in Proc, p # q, net[q][p] # <<>>,
         Head(net[q][p]).type = "forwardSol", NEW x \in Proc, NEW y \in Proc
  PROVE  /\ Sent(Received(net, p, q), p, q, Ack) \in Nets
         /\ OnItsWay(Sent(Received(net, p, q), p, q, Ack), x, y) = OnItsWay(net, x, y)
<1>. DEFINE old == Received(net, p, q)
            new == Sent(old, p, q, Ack)
<1>1. Ack \in Messages /\ Ack.type = "ackSol" /\ Ack.type # "forwardSol"
  BY DEF Ack, Messages
<1>2. old \in Nets
  BY OtherChannels
<1>3. new \in Nets
  <2>. HIDE DEF old
  <2>. QED  BY <1>1, <1>2, OtherChannels
<1>4. ASSUME NEW a \in Proc, NEW c \in Proc
      PROVE  /\ TypeCount(net[a][c], "forwardSol") \in Nat
             /\ TypeCount(net[a][c], "ackSol") \in Nat
             /\ a = q /\ c = p => TypeCount(new[a][c], "forwardSol") = TypeCount(net[a][c], "forwardSol") - 1
             /\ ~(a = q /\ c = p) => TypeCount(new[a][c], "forwardSol") = TypeCount(net[a][c], "forwardSol")
             /\ a = p /\ c = q => TypeCount(new[a][c], "ackSol") = TypeCount(net[a][c], "ackSol") + 1
             /\ ~(a = p /\ c = q) => TypeCount(new[a][c], "ackSol") = TypeCount(net[a][c], "ackSol")
  <2>1. TypeCount(net[a][c], "forwardSol") \in Nat /\ TypeCount(net[a][c], "ackSol") \in Nat
    BY CountIsNat
  <2>2. CASE a = q /\ c = p
    <3>1. TypeCount(old[q][p], "forwardSol") = TypeCount(net[q][p], "forwardSol") - 1
      BY CountWhenReceived
    <3>2. TypeCount(old[q][p], "ackSol") = TypeCount(net[q][p], "ackSol")
      BY OthersWhenReceived
    <3>3. new[q][p] = old[q][p]
      <4>. HIDE DEF old
      <4>. QED  BY <1>2, OtherChannels
    <3>. HIDE DEF old, new
    <3>. QED  BY <2>1, <2>2, <3>1, <3>2, <3>3
  <2>3. CASE a = p /\ c = q
    <3>1. old[p][q] = net[p][q]
      BY OtherChannels
    <3>. HIDE DEF old
    <3>2. TypeCount(new[p][q], "ackSol") = TypeCount(old[p][q], "ackSol") + 1
      BY <1>1, <1>2, CountWhenSent
    <3>3. TypeCount(new[p][q], "forwardSol") = TypeCount(old[p][q], "forwardSol")
      BY <1>1, <1>2, OthersWhenSent, Z3
    <3>. HIDE DEF new
    <3>4. TypeCount(new[a][c], "ackSol") = TypeCount(net[a][c], "ackSol") + 1
      BY <2>3, <3>1, <3>2
    <3>5. TypeCount(new[a][c], "forwardSol") = TypeCount(net[a][c], "forwardSol")
      BY <2>3, <3>1, <3>3
    <3>6. ~(a = q /\ c = p)
      BY <2>3
    <3>. QED  BY <2>1, <2>3, <3>4, <3>5, <3>6
  <2>4. CASE ~(a = q /\ c = p) /\ ~(a = p /\ c = q)
    <3>1. old[a][c] = net[a][c]
      BY <2>4, OtherChannels
    <3>. HIDE DEF old
    <3>2. new[a][c] = old[a][c]
      BY <1>2, <2>4, OtherChannels
    <3>. HIDE DEF new
    <3>. QED  BY <2>1, <2>4, <3>1, <3>2
  <2>. QED  BY <2>2, <2>3, <2>4
<1>. HIDE DEF old, new
<1>5. OnItsWay(new, x, y) = OnItsWay(net, x, y)
  <2>1. CASE x = q /\ y = p
    <3>1. TypeCount(new[x][y], "forwardSol") = TypeCount(net[x][y], "forwardSol") - 1
      BY <1>4, <2>1
    <3>2. TypeCount(new[y][x], "ackSol") = TypeCount(net[y][x], "ackSol") + 1
      BY <1>4, <2>1
    <3>3. TypeCount(net[x][y], "forwardSol") \in Nat /\ TypeCount(net[y][x], "ackSol") \in Nat
      BY <1>4
    <3>. QED  BY <3>1, <3>2, <3>3 DEF OnItsWay
  <2>2. CASE ~(x = q /\ y = p)
    <3>1. TypeCount(new[x][y], "forwardSol") = TypeCount(net[x][y], "forwardSol")
      BY <1>4, <2>2
    <3>2. TypeCount(new[y][x], "ackSol") = TypeCount(net[y][x], "ackSol")
      BY <1>4, <2>2
    <3>. QED  BY <3>1, <3>2 DEF OnItsWay
  <2>. QED  BY <2>1, <2>2
<1>. QED  BY <1>3, <1>5 DEF old, new

\* An acknowledgement that is taken frees its link.
LEMMA OnItsWayWhenAckTaken ==
  ASSUME NEW net \in Nets, NEW p \in Proc, NEW q \in Proc, net[q][p] # <<>>,
         Head(net[q][p]).type = "ackSol", NEW x \in Proc, NEW y \in Proc
  PROVE  /\ Received(net, p, q) \in Nets
         /\ x = p /\ y = q => /\ OnItsWay(net, x, y) >= 1
                             /\ OnItsWay(Received(net, p, q), x, y) = OnItsWay(net, x, y) - 1
         /\ ~(x = p /\ y = q) => OnItsWay(Received(net, p, q), x, y) = OnItsWay(net, x, y)
<1>. DEFINE new == Received(net, p, q)
<1>1. new \in Nets
  BY OtherChannels
<1>2. ASSUME NEW a \in Proc, NEW c \in Proc
      PROVE  /\ TypeCount(net[a][c], "forwardSol") \in Nat
             /\ TypeCount(new[a][c], "ackSol") \in Nat
             /\ TypeCount(net[a][c], "ackSol") \in Nat
             /\ TypeCount(new[a][c], "forwardSol") = TypeCount(net[a][c], "forwardSol")
             /\ a = q /\ c = p => TypeCount(new[a][c], "ackSol") = TypeCount(net[a][c], "ackSol") - 1
             /\ ~(a = q /\ c = p) => TypeCount(new[a][c], "ackSol") = TypeCount(net[a][c], "ackSol")
  <2>1. /\ TypeCount(net[a][c], "forwardSol") \in Nat /\ TypeCount(net[a][c], "ackSol") \in Nat
        /\ TypeCount(new[a][c], "ackSol") \in Nat
    <3>. HIDE DEF new
    <3>. QED  BY <1>1, CountIsNat
  <2>2. CASE a = q /\ c = p
    <3>1. TypeCount(new[q][p], "ackSol") = TypeCount(net[q][p], "ackSol") - 1
      BY CountWhenReceived
    <3>2. TypeCount(new[q][p], "forwardSol") = TypeCount(net[q][p], "forwardSol")
      BY OthersWhenReceived
    <3>. HIDE DEF new
    <3>. QED  BY <2>1, <2>2, <3>1, <3>2
  <2>3. CASE ~(a = q /\ c = p)
    <3>1. new[a][c] = net[a][c]
      BY <2>3, OtherChannels
    <3>. HIDE DEF new
    <3>. QED  BY <2>1, <2>3, <3>1
  <2>. QED  BY <2>2, <2>3
<1>. HIDE DEF new
<1>3. CASE x = p /\ y = q
  <2>1. /\ TypeCount(net[x][y], "forwardSol") \in Nat
        /\ TypeCount(new[x][y], "forwardSol") = TypeCount(net[x][y], "forwardSol")
    BY <1>2
  <2>2. /\ TypeCount(new[y][x], "ackSol") \in Nat /\ TypeCount(net[y][x], "ackSol") \in Nat
        /\ TypeCount(new[y][x], "ackSol") = TypeCount(net[y][x], "ackSol") - 1
    BY <1>2, <1>3
  <2>. QED  BY <1>1, <1>3, <2>1, <2>2 DEF OnItsWay, new
<1>4. CASE ~(x = p /\ y = q)
  <2>1. TypeCount(new[x][y], "forwardSol") = TypeCount(net[x][y], "forwardSol")
    BY <1>2
  <2>2. TypeCount(new[y][x], "ackSol") = TypeCount(net[y][x], "ackSol")
    BY <1>2, <1>4
  <2>. QED  BY <1>1, <1>4, <2>1, <2>2 DEF OnItsWay, new
<1>. QED  BY <1>3, <1>4

\* The network has its type.
LEMMA NetsHaveType == ReposInv => channel \in Nets
BY DEF ReposInv, TypeOK, Nets

\* Steps that send and take nothing keep flow control.
LEMMA FlowUnchanged ==
  ASSUME FlowIsControlled, UNCHANGED <<channel, flow>>
  PROVE  FlowIsControlled'
BY FlowInTermsOfLinks DEF flow

\* Pruning can only empty the queues.
LEMMA FlowWhenPruned ==
  ASSUME ReposInv, FlowIsControlled, NEW p \in Proc,
         channel' = channel, solJustSent' = solJustSent,
         PruneRepository(p) \/ solSendQ' = solSendQ
  PROVE  FlowIsControlled'
<1>1. \A q \in Proc : \A b \in Link : solSendQ'[q][b] # NoneQueued => solSendQ[q][b] # NoneQueued
  <2>1. CASE solSendQ' = solSendQ
    BY <2>1
  <2>2. CASE PruneRepository(p)
    <3>1. solSendQ \in [Proc -> [Link -> [Solution -> Nat]]]
      BY DEF ReposInv, TypeOK
    <3>. SUFFICES ASSUME NEW q \in Proc, NEW b \in Link, solSendQ[q][b] = NoneQueued
                  PROVE  solSendQ'[q][b] = NoneQueued
      OBVIOUS
    <3>2. solSendQ' = [solSendQ EXCEPT ![p] = [c \in Link |->
            [s \in Solution |-> IF Fathoms(p, incumbent[p], Value[s]) THEN 0 ELSE solSendQ[p][c][s]]]]
      BY <2>2 DEF PruneRepository
    <3>3. CASE q = p
      <4>1. solSendQ'[q][b] =
              [s \in Solution |-> IF Fathoms(p, incumbent[p], Value[s]) THEN 0 ELSE solSendQ[p][b][s]]
        BY <3>1, <3>2, <3>3
      <4>2. \A s \in Solution : solSendQ[p][b][s] = 0
        BY <3>3 DEF NoneQueued
      <4>. QED  BY <4>1, <4>2 DEF NoneQueued
    <3>4. CASE q # p
      BY <3>1, <3>2, <3>4
    <3>. QED  BY <3>3, <3>4
  <2>. QED  BY <2>1, <2>2
<1>. DEFINE queued == solSendQ
            less   == solSendQ'
            net    == channel
<1>2. FlowIn(net, solJustSent, queued)
  BY FlowInTermsOfLinks
<1>3. FlowIn(net, solJustSent, less)
  <2>1. \A q \in Proc : \A b \in Link : less[q][b] # NoneQueued => queued[q][b] # NoneQueued
    BY <1>1
  <2>. HIDE DEF queued, less, net
  <2>. QED  BY <1>2, <2>1, FlowStays
<1>. QED  BY <1>3, FlowInTermsOfLinks

\* A network in which as much is on its way over each link.
LEMMA FlowInAnotherNet ==
  ASSUME FlowIsControlled, NEW new,
         \A x, y \in Proc : OnItsWay(new, x, y) = OnItsWay(channel, x, y)
  PROVE  FlowIn(new, solJustSent, solSendQ)
<1>. DEFINE queued == solSendQ
            net    == channel
            just   == solJustSent
<1>1. FlowIn(net, just, queued)
  BY FlowInTermsOfLinks
<1>2. \A x, y \in Proc : OnItsWay(new, x, y) = OnItsWay(net, x, y)
  OBVIOUS
<1>. HIDE DEF queued, net, just
<1>3. FlowIn(new, just, queued)
  BY <1>1, <1>2, FlowStays
<1>. QED  BY <1>3 DEF queued, just

\* A solution that is found is kept, routed or hashed.
LEMMA FlowWhenFound ==
  ASSUME ReposInv, FlowIsControlled, NEW p \in Proc, NEW s \in Solution, Find(p, s)
  PROVE  FlowIsControlled'
<1>1. channel \in Nets /\ FlowIn(channel, solJustSent, solSendQ)
  BY NetsHaveType, FlowInTermsOfLinks
<1>2. CASE UNCHANGED <<channel, flow>>
  BY <1>2, FlowUnchanged
<1>3. CASE Route(p, s, channel)
  <2>1. TypeOK
    BY DEF ReposInv
  <2>2. FlowIn(channel', solJustSent', solSendQ')
    BY <1>1, <1>3, <2>1, FlowWhenRouted
  <2>. QED  BY <2>2, FlowInTermsOfLinks
<1>4. CASE /\ channel' = [channel EXCEPT ![p][Owner[s]] = Append(@, [type |-> "hashSol", sol |-> s])]
           /\ UNCHANGED flow
  <2>. DEFINE m == [type |-> "hashSol", sol |-> s]
              q == Owner[s]
  <2>1. m \in Messages /\ m.type # "forwardSol" /\ m.type # "ackSol"
    BY DEF Messages
  <2>2. q \in Proc
    BY RepositoryAssumption
  <2>3. channel' = Sent(channel, p, q, m)
    BY <1>4 DEF Sent
  <2>. HIDE DEF m, q
  <2>4. \A x, y \in Proc : OnItsWay(channel', x, y) = OnItsWay(channel, x, y)
    BY <1>1, <2>1, <2>2, <2>3, OtherSent
  <2>5. FlowIn(channel', solJustSent, solSendQ)
    BY <2>4, FlowInAnotherNet
  <2>. QED  BY <1>4, <2>5, FlowInTermsOfLinks DEF flow
<1>. QED  BY <1>2, <1>3, <1>4 DEF Find

\* Lists and cut-offs do not take part in flow control.
LEMMA FlowWhenListsSent ==
  ASSUME ReposInv, FlowIsControlled, NEW p \in Proc, ReposArraySend(p)
  PROVE  FlowIsControlled'
<1>. DEFINE ids  == BestOf(repos[p] \cup UNION {childReposArray[p][c] : c \in Children(0, p)},
                           par.enumCount)
            last == CutOff(ids, lastSol[p])
<1>1. channel \in Nets
  BY NetsHaveType
<1>2. Counting
  BY DEF ReposArraySend, ReposInv, CutOffsAreReal
<1>3. ids \in SUBSET Identifier /\ GenuineIn(found, ids, Below[p])
  BY <1>2, MergedIsGenuine
<1>4. UNCHANGED flow
  BY DEF ReposArraySend
<1>5. \A x, y \in Proc : OnItsWay(channel', x, y) = OnItsWay(channel, x, y)
  <2>1. CASE p # 0
    <3>. DEFINE m == [type |-> "reposArray", ids |-> ids]
                q == Parent(0, p)
    <3>1. channel' = [channel EXCEPT ![p][q] = Append(@, m)]
      BY <2>1 DEF ReposArraySend
    <3>2. q \in Proc
      <4>1. 0 \in Proc
        BY TreeAssumption DEF Proc
      <4>. QED  BY <2>1, <4>1, ParentOfChild
    <3>. HIDE DEF ids, q
    <3>3. m \in Messages /\ m.type # "forwardSol" /\ m.type # "ackSol"
      BY <1>3 DEF Messages
    <3>. HIDE DEF m
    <3>4. channel' = Sent(channel, p, q, m)
      BY <3>1 DEF Sent
    <3>. QED  BY <1>1, <3>2, <3>3, <3>4, OtherSent
  <2>2. CASE p = 0
    <3>1. channel' = IF last = lastSol[p] THEN channel ELSE Relayed(channel, p, last)
      BY <2>2 DEF ReposArraySend
    <3>. HIDE DEF ids
    <3>2. last \in Identifier \cup {NoSolution}
      <4>1. lastSol[p] \in Identifier \cup {NoSolution} /\ Real(lastSol[p]) /\ TypeOK
        BY DEF ReposInv, TypeOK, CutOffsAreReal
      <4>. QED  BY <1>2, <1>3, <4>1, CutOffOfGenuine
    <3>. HIDE DEF last
    <3>. QED  BY <1>1, <3>1, <3>2, OnItsWayWhenRelayed
  <2>. QED  BY <2>1, <2>2
<1>6. FlowIn(channel', solJustSent, solSendQ)
  BY <1>5, FlowInAnotherNet
<1>. QED  BY <1>4, <1>6, FlowInTermsOfLinks DEF flow

\* Messages that flow control does not concern.
LEMMA FlowWhenOthersTaken ==
  ASSUME ReposInv, FlowIsControlled, NEW p \in Proc, NEW q \in Proc,
         \/ HashSol(p, q) \/ ReposArray(p, q) \/ NewLastSol(p, q)
  PROVE  FlowIsControlled'
<1>. DEFINE m == Head(channel[q][p])
<1>1. channel \in Nets
  BY NetsHaveType
<1>2. channel[q][p] # <<>> /\ m.type \in {"hashSol", "reposArray", "newLastSol"} /\ UNCHANGED flow
  BY DEF HashSol, ReposArray, NewLastSol, Message
<1>3. \A x, y \in Proc : OnItsWay(Received(channel, p, q), x, y) = OnItsWay(channel, x, y)
  <2>1. m.type # "forwardSol" /\ m.type # "ackSol"
    BY <1>2
  <2>. QED  BY <1>1, <1>2, <2>1, OtherReceived
<1>4. Received(channel, p, q) \in Nets
  BY <1>1, <1>2, OtherChannels
<1>5. \A x, y \in Proc : OnItsWay(channel', x, y) = OnItsWay(channel, x, y)
  <2>1. CASE HashSol(p, q) \/ ReposArray(p, q)
    <3>1. channel' = Received(channel, p, q)
      BY <2>1 DEF HashSol, ReposArray, Taken, Received
    <3>. QED  BY <1>3, <3>1
  <2>2. CASE NewLastSol(p, q)
    <3>. DEFINE last == Updated(lastSol[p], m.id)
                net  == Received(channel, p, q)
    <3>1. channel' = Relayed(net, p, last)
      BY <2>2 DEF NewLastSol, Taken, Received
    <3>2. lastSol[p] \in Identifier \cup {NoSolution}
      BY DEF ReposInv, TypeOK
    <3>3. m.id \in Identifier \cup {NoSolution}
      <4>1. m.type = "newLastSol"
        BY <2>2 DEF NewLastSol, Message
      <4>2. m \in Messages
        BY <1>1, <1>2 DEF Nets
      <4>. HIDE DEF m
      <4>. QED  BY <4>1, <4>2 DEF Messages
    <3>4. last \in Identifier \cup {NoSolution}
      <4>. HIDE DEF m
      <4>. QED  BY <3>2, <3>3 DEF Updated
    <3>. HIDE DEF last, net, m
    <3>5. \A x, y \in Proc : OnItsWay(channel', x, y) = OnItsWay(net, x, y)
      BY <1>4, <3>1, <3>4, OnItsWayWhenRelayed DEF net
    <3>. QED  BY <1>3, <3>5 DEF net
  <2>. QED  BY <2>1, <2>2
<1>6. FlowIn(channel', solJustSent, solSendQ)
  BY <1>5, FlowInAnotherNet
<1>. QED  BY <1>2, <1>6, FlowInTermsOfLinks DEF flow

\* The acknowledgement takes the place of what was forwarded.
LEMMA FlowWhenForwarded ==
  ASSUME ReposInv, FlowIsControlled, NEW p \in Proc, NEW q \in Proc, ForwardSol(p, q)
  PROVE  FlowIsControlled'
<1>. DEFINE m   == Head(channel[q][p])
            s   == m.sol
            net == Sent(Received(channel, p, q), p, q, Ack)
<1>1. channel \in Nets
  BY NetsHaveType
<1>2. channel[q][p] # <<>> /\ m.type = "forwardSol" /\ Message(p, q, "forwardSol")
  BY DEF ForwardSol, Message
<1>3. m \in Messages /\ MessageIn(found, par.enumCount, q, p, m)
  BY <1>2, MessageTaken
<1>4. p # q /\ s \in Solution
  <2>. HIDE DEF m
  <2>1. PICK b \in Link : p = Neighbor(q, b)
    BY <1>2, <1>3 DEF MessageIn
  <2>2. p # q
    BY <2>1, NeighborOfNeighbor
  <2>3. m.sol \in Solution
    BY <1>2, <1>3 DEF Messages
  <2>. QED  BY <2>2, <2>3
<1>5. net \in Nets
  BY <1>1, <1>2, <1>4, OnItsWayWhenAcknowledged
<1>6. \A x, y \in Proc : OnItsWay(net, x, y) = OnItsWay(channel, x, y)
  BY <1>1, <1>2, <1>4, OnItsWayWhenAcknowledged
<1>7. IF Owner[s] = p THEN channel' = net /\ UNCHANGED flow ELSE Route(p, s, net)
  BY DEF ForwardSol, Taken, Sent, Received
<1>. HIDE DEF m, s, net
<1>8. FlowIn(net, solJustSent, solSendQ)
  BY <1>6, FlowInAnotherNet
<1>9. TypeOK
  BY DEF ReposInv
<1>10. FlowIn(channel', solJustSent', solSendQ')
  <2>1. CASE Owner[s] = p
    BY <1>7, <1>8, <2>1 DEF flow
  <2>2. CASE Owner[s] # p
    BY <1>4, <1>5, <1>7, <1>8, <1>9, <2>2, FlowWhenRouted
  <2>. QED  BY <2>1, <2>2
<1>. QED  BY <1>10, FlowInTermsOfLinks

\* An acknowledgement frees the link or makes room for the next solution.
LEMMA FlowWhenAcknowledged ==
  ASSUME ReposInv, FlowIsControlled, NEW p \in Proc, NEW q \in Proc, AckSol(p, q)
  PROVE  FlowIsControlled'
<1>. DEFINE m    == Head(channel[q][p])
            b    == LinkTo(p, q)
            wait == solSendQ[p][b]
            live == {s \in Solution : wait[s] > 0 /\ ~Fathoms(p, incumbent[p], Value[s])}
            best == {s \in live : \A t \in live : Value[s] <= Value[t]}
            net  == Received(channel, p, q)
<1>1. channel \in Nets
  BY NetsHaveType
<1>2. channel[q][p] # <<>> /\ m.type = "ackSol" /\ Message(p, q, "ackSol")
  BY DEF AckSol, Message
<1>3. MessageIn(found, par.enumCount, q, p, m)
  BY <1>2, MessageTaken
<1>4. b \in Link /\ q = Neighbor(p, b)
  <2>1. PICK a \in Link : p = Neighbor(q, a)
    <3>. HIDE DEF m
    <3>. QED  BY <1>2, <1>3 DEF MessageIn
  <2>2. q = Neighbor(p, a)
    BY <2>1, NeighborOfNeighbor
  <2>. QED  BY <2>2, NeighborOfNeighbor
<1>5. /\ solJustSent' = [solJustSent EXCEPT ![p][b] = live # {}]
      /\ \/ /\ live = {} /\ channel' = net
            /\ solSendQ' = [solSendQ EXCEPT ![p][b] = NoneQueued]
         \/ \E s \in best :
              /\ channel' = [net EXCEPT ![p][q] = Append(@, Forward(s))]
              /\ solSendQ' = [solSendQ EXCEPT ![p][b][s] = @ - 1]
  BY DEF AckSol, Taken, Received
<1>6. /\ solJustSent \in [Proc -> [Link -> BOOLEAN]]
      /\ solSendQ \in [Proc -> [Link -> [Solution -> Nat]]]
  BY DEF ReposInv, TypeOK
<1>7. FlowIn(channel, solJustSent, solSendQ)
  BY FlowInTermsOfLinks
<1>8. net \in Nets /\ OnItsWay(channel, p, q) >= 1 /\ OnItsWay(net, p, q) = OnItsWay(channel, p, q) - 1
  BY <1>1, <1>2, OnItsWayWhenAckTaken
<1>9. \A x, y \in Proc : ~(x = p /\ y = q) => OnItsWay(net, x, y) = OnItsWay(channel, x, y)
  BY <1>1, <1>2, OnItsWayWhenAckTaken
<1>10. OnItsWay(net, p, q) = 0
  <2>1. OnItsWay(channel, p, q) = IF solJustSent[p][b] THEN 1 ELSE 0
    BY <1>4, <1>7 DEF FlowIn
  <2>. HIDE DEF net, b
  <2>. QED  BY <1>8, <2>1
<1>. DEFINE busy == live # {}
<1>11. busy \in BOOLEAN /\ solJustSent' = [solJustSent EXCEPT ![p][b] = busy]
  BY <1>5
<1>12. /\ \A x \in Proc : \A c \in Link : ~(x = p /\ c = b) => solSendQ'[x][c] = solSendQ[x][c]
       /\ ~busy => solSendQ'[p][b] = NoneQueued
       /\ \A x, y \in Proc : ~(x = p /\ y = q) => OnItsWay(channel', x, y) = OnItsWay(net, x, y)
       /\ OnItsWay(channel', p, q) = IF busy THEN 1 ELSE 0
  <2>1. CASE /\ live = {} /\ channel' = net
             /\ solSendQ' = [solSendQ EXCEPT ![p][b] = NoneQueued]
    <3>1. ~busy
      BY <2>1
    <3>. HIDE DEF live, b, net, busy
    <3>. QED  BY <1>4, <1>6, <1>10, <2>1, <3>1
  <2>2. ASSUME NEW s \in best,
               channel' = [net EXCEPT ![p][q] = Append(@, Forward(s))],
               solSendQ' = [solSendQ EXCEPT ![p][b][s] = @ - 1]
        PROVE  /\ \A x \in Proc : \A c \in Link : ~(x = p /\ c = b) => solSendQ'[x][c] = solSendQ[x][c]
               /\ ~busy => solSendQ'[p][b] = NoneQueued
               /\ \A x, y \in Proc : ~(x = p /\ y = q) => OnItsWay(channel', x, y) = OnItsWay(net, x, y)
               /\ OnItsWay(channel', p, q) = IF busy THEN 1 ELSE 0
    <3>1. busy /\ s \in Solution
      OBVIOUS
    <3>. HIDE DEF live, best, wait, b, net, busy
    <3>. DEFINE f == Forward(s)
    <3>2. f \in Messages /\ f.type = "forwardSol"
      BY <3>1 DEF Forward, Messages
    <3>. HIDE DEF f
    <3>3. channel' = Sent(net, p, q, f)
      BY <2>2 DEF Sent, f
    <3>4. \A x, y \in Proc : ~(x = p /\ y = q) => OnItsWay(channel', x, y) = OnItsWay(net, x, y)
      <4>. TAKE x \in Proc, y \in Proc
      <4>1. /\ ~(x = p /\ y = q) =>
                 TypeCount(channel'[x][y], "forwardSol") = TypeCount(net[x][y], "forwardSol")
            /\ TypeCount(channel'[y][x], "ackSol") = TypeCount(net[y][x], "ackSol")
        BY <1>8, <3>2, <3>3, CountsWhenForwarded
      <4>. QED  BY <4>1 DEF OnItsWay
    <3>5. OnItsWay(channel', p, q) = 1
      <4>1. /\ TypeCount(channel'[p][q], "forwardSol") = TypeCount(net[p][q], "forwardSol") + 1
            /\ TypeCount(channel'[q][p], "ackSol") = TypeCount(net[q][p], "ackSol")
        BY <1>8, <3>2, <3>3, CountsWhenForwarded
      <4>2. TypeCount(net[p][q], "forwardSol") \in Nat /\ TypeCount(net[q][p], "ackSol") \in Nat
        BY <1>8, CountIsNat
      <4>. QED  BY <1>10, <4>1, <4>2 DEF OnItsWay
    <3>6. \A x \in Proc : \A c \in Link : ~(x = p /\ c = b) => solSendQ'[x][c] = solSendQ[x][c]
      BY <1>4, <1>6, <2>2
    <3>. QED  BY <3>1, <3>4, <3>5, <3>6
  <2>. QED  BY <1>5, <2>1, <2>2
<1>13. ASSUME NEW x \in Proc, NEW c \in Link
       PROVE  IF Neighbor(x, c) \in Proc
              THEN /\ OnItsWay(channel', x, Neighbor(x, c)) = IF solJustSent'[x][c] THEN 1 ELSE 0
                   /\ solSendQ'[x][c] # NoneQueued => solJustSent'[x][c]
              ELSE ~solJustSent'[x][c]
  <2>. HIDE DEF live, b, net, busy
  <2>1. CASE x = p /\ c = b
    <3>1. solJustSent'[x][c] = busy
      BY <1>4, <1>6, <1>11, <2>1
    <3>. QED  BY <1>4, <1>11, <1>12, <2>1, <3>1
  <2>2. CASE ~(x = p /\ c = b)
    <3>1. solJustSent'[x][c] = solJustSent[x][c] /\ solSendQ'[x][c] = solSendQ[x][c]
      BY <1>4, <1>6, <1>11, <1>12, <2>2
    <3>. DEFINE y == Neighbor(x, c)
    <3>2. ASSUME y \in Proc
          PROVE  OnItsWay(channel', x, y) = OnItsWay(channel, x, y)
      <4>1. ~(x = p /\ y = q)
        BY <1>4, <2>2, NeighborOfNeighbor
      <4>. HIDE DEF y
      <4>. QED  BY <1>9, <1>12, <3>2, <4>1
    <3>3. IF y \in Proc
          THEN /\ OnItsWay(channel, x, y) = IF solJustSent[x][c] THEN 1 ELSE 0
               /\ solSendQ[x][c] # NoneQueued => solJustSent[x][c]
          ELSE ~solJustSent[x][c]
      BY <1>7 DEF FlowIn
    <3>. HIDE DEF y
    <3>4. IF y \in Proc
          THEN /\ OnItsWay(channel', x, y) = IF solJustSent'[x][c] THEN 1 ELSE 0
               /\ solSendQ'[x][c] # NoneQueued => solJustSent'[x][c]
          ELSE ~solJustSent'[x][c]
      BY <3>1, <3>2, <3>3
    <3>. QED  BY <3>4 DEF y
  <2>. QED  BY <2>1, <2>2
<1>14. FlowIn(channel', solJustSent', solSendQ')
  BY <1>13 DEF FlowIn
<1>. QED  BY <1>14, FlowInTermsOfLinks

\* At first no link is busy.
LEMMA FlowAtFirst == Init => FlowIsControlled
<1>. SUFFICES ASSUME Init
              PROVE  FlowIsControlled
  OBVIOUS
<1>1. \A p, q, type : p \in Proc /\ q \in Proc => Count(p, q, type) = 0
  BY FS_EmptySet DEF Init, Count
<1>2. \A p \in Proc : \A b \in Link : ~solJustSent[p][b] /\ solSendQ[p][b] = NoneQueued
  BY DEF Init
<1>. QED  BY <1>1, <1>2 DEF FlowIsControlled

(***************************************************************************)
(* Flow control: a link is busy exactly while one solution or its          *)
(* acknowledgement is on its way over it, and a solution waits only for a  *)
(* busy link, whose acknowledgement fetches it.                            *)
(***************************************************************************)
THEOREM FlowControl == Spec => []FlowIsControlled
<1>1. ReposInv /\ FlowIsControlled /\ [Next]_vars => FlowIsControlled'
  <2>. SUFFICES ASSUME ReposInv, FlowIsControlled, [Next]_vars
                PROVE  FlowIsControlled'
    OBVIOUS
  <2>1. CASE UNCHANGED vars
    BY <2>1, FlowUnchanged DEF vars
  <2>2. ASSUME NEW s \in Solution, RampUpFind(s)
        PROVE  FlowIsControlled'
    BY <2>2, FlowUnchanged DEF RampUpFind
  <2>3. ASSUME NEW s \in Solution, NEW p \in par.finders, Find(p, s)
        PROVE  FlowIsControlled'
    <3>1. p \in Proc
      BY RepositoryAssumption DEF ReposInv, TypeOK
    <3>. QED  BY <2>3, <3>1, FlowWhenFound
  <2>4. CASE RampUpIncumbentSync \/ SyncLastSol \/ StartRepositoryScan \/ NextRepositoryMember
    BY <2>4, FlowUnchanged
       DEF RampUpIncumbentSync, SyncLastSol, StartRepositoryScan, NextRepositoryMember
  <2>5. ASSUME NEW p \in Proc, HashSolution(p) \/ HearIncumbent(p)
        PROVE  FlowIsControlled'
    BY <2>5, FlowUnchanged DEF HashSolution, HearIncumbent
  <2>6. ASSUME NEW p \in Proc, WorkerPrune(p)
        PROVE  FlowIsControlled'
    BY <2>6, FlowWhenPruned DEF WorkerPrune
  <2>7. ASSUME NEW p \in Proc, HubPrune(p)
        PROVE  FlowIsControlled'
    <3>1. PruneRepository(p) \/ solSendQ' = solSendQ
      BY <2>7 DEF HubPrune
    <3>. QED  BY <2>7, <3>1, FlowWhenPruned DEF HubPrune
  <2>8. ASSUME NEW p \in Proc, ReposArraySend(p)
        PROVE  FlowIsControlled'
    BY <2>8, FlowWhenListsSent
  <2>9. ASSUME NEW p \in Proc, NEW q \in Proc,
               \/ HashSol(p, q) \/ ReposArray(p, q) \/ NewLastSol(p, q)
               \/ ForwardSol(p, q) \/ AckSol(p, q)
        PROVE  FlowIsControlled'
    BY <2>9, FlowWhenOthersTaken, FlowWhenForwarded, FlowWhenAcknowledged
  <2>. QED  BY <2>1, <2>2, <2>3, <2>4, <2>5, <2>6, <2>7, <2>8, <2>9 DEF Next, Step
<1>. QED  BY <1>1, FlowAtFirst, ReposInvariant, PTL DEF Spec

-----------------------------------------------------------------------------
(***************************************************************************)
(* What is printed in the end.  A solution may be dropped for two reasons, *)
(* which stay reasons: it is out of tolerance, or so many identifiers are  *)
(* before it that it cannot be printed.                                    *)
(***************************************************************************)
\* What the hypotheses say: no part of the repository can overflow, and a hub that does
\* not work need not prune its part by tolerance alone.
PartsSuffice ==
  \A m \in Parameters : \A p \in Proc :
    m.enumCount > 0 => \A S \in SUBSET {s \in Solution : Owner[s] = p} :
                         IsFiniteSet(S) => Cardinality(S) <= m.enumCount

HubsSuffice ==
  \A m \in Parameters : m.enumAbsTol >= 0 /\ m.enumCount <= 1 => Hub \subseteq Worker

\* All that is in the repository.
All == UNION {repos[p] : p \in Proc}

\* One of the solutions f is better than value v by more than the tolerance.
TooBad(c, f, v) == c.enumAbsTol >= 0 /\ \E s \in f : Value[s] + c.enumAbsTol < v

UpTo(all, x)    == {y \in all : y = x \/ Before(y, x)}
NoWorse(all, v) == {y \in all : y.value <= v}

\* Nothing after the identifier x is needed, and nothing of value v.
Final(c, f, all, x) ==
  \/ TooBad(c, f, x.value)
  \/ c.enumCount > 1 /\ Cardinality(UpTo(all, x)) >= c.enumCount

Beaten(c, f, all, v) ==
  \/ TooBad(c, f, v)
  \/ c.enumCount > 1 /\ Cardinality(NoWorse(all, v)) >= c.enumCount

\* What is in a list is in the repository or was dropped rightly, and a cut-off is right.
ListHolds(c, f, all, ids) == \A x \in ids : x \in all \/ Final(c, f, all, x)
CutHolds(c, f, all, x)    == x = NoSolution \/ Final(c, f, all, x)

MessageHolds(c, f, all, m) ==
  /\ m.type = "reposArray" => ListHolds(c, f, all, m.ids)
  /\ m.type = "newLastSol" => CutHolds(c, f, all, m.id)

NetHolds(c, f, all, net) ==
  \A p, q \in Proc : \A i \in DOMAIN net[p][q] : MessageHolds(c, f, all, net[p][q][i])

ListsHold ==
  /\ \A p \in Proc : /\ \A c \in Children(0, p) : ListHolds(par, found, All, childReposArray[p][c])
                     /\ CutHolds(par, found, All, lastSol[p])
  /\ NetHolds(par, found, All, channel)

\* Where a solution may be that is not in the repository yet.
Waits(queues, s)  == \E p \in Proc : \E i \in DOMAIN queues[p] : queues[p][i] = s
Flies(net, s)     == \E p, q \in Proc : \E i \in DOMAIN net[p][q] :
                       net[p][q][i].type \in {"hashSol", "forwardSol"} /\ net[p][q][i].sol = s
Stands(queued, s) == \E p \in Proc : \E b \in Link : Neighbor(p, b) \in Proc /\ queued[p][b][s] > 0
Stored(all, s)    == \E x \in all : x.sol = s

NothingForgotten ==
  \A s \in found : \/ Stored(All, s) \/ Waits(rampUpSolQ, s) \/ Flies(channel, s)
                   \/ Stands(solSendQ, s) \/ Beaten(par, found, All, Value[s])

\* p would prune what has value v.
Prunes(p, v) == par.enumAbsTol >= 0 /\ incumbent[p] - v < -par.enumAbsTol

PartsAreTidy ==
  \A p \in Proc : \A x \in repos[p] :
    Prunes(p, x.value) => /\ phase \in {"search", "scan"}
                          /\ IF p \in Worker THEN needPruning[p] ELSE needHubPruning[p]

IncumbentsAreBest ==
  /\ \A p \in Proc : incumbent[p] = Infinite \/ \E s \in found : Value[s] = incumbent[p]
  /\ \A s \in found : \E p \in Proc : incumbent[p] <= Value[s]

PhasesGoOn ==
  /\ phase = "rampUp" => \A p \in Proc : repos[p] = {}
  /\ phase \in {"search", "scan"} => \A p \in Proc : rampUpSolQ[p] = <<>>

\* The places of p among the first n of the list a.
PlacesOf(p, a, n) == {i \in 1 .. n : a[i].owner = p}

Size == IF Counting /\ Cardinality(All) > par.enumCount THEN par.enumCount ELSE Cardinality(All)

ScanIsInOrder ==
  IF phase = "scan"
  THEN /\ Quiet /\ treeReposArray = SubSeq(Sorted(All), 1, Size)
       /\ printed \in Seq(Solution) /\ Len(printed) <= Len(treeReposArray)
       /\ \A i \in DOMAIN printed : printed[i] = treeReposArray[i].sol
       /\ solPtrCursor = [p \in Proc |-> Cardinality(PlacesOf(p, treeReposArray, Len(printed)))]
  ELSE treeReposArray = <<>> /\ printed = <<>> /\ solPtrCursor = [p \in Proc |-> 0]

-----------------------------------------------------------------------------
(***************************************************************************)
(* Reasons to drop a solution stay reasons.                                *)
(***************************************************************************)
\* A part of a finite set has no more elements.
LEMMA PartIsSmaller ==
  ASSUME NEW S, IsFiniteSet(S), NEW T, T \subseteq S
  PROVE  /\ IsFiniteSet(T) /\ Cardinality(T) \in Nat /\ Cardinality(S) \in Nat
         /\ Cardinality(T) <= Cardinality(S)
<1>1. IsFiniteSet(T) /\ Cardinality(T) <= Cardinality(S)
  BY FS_Subset, Zenon
<1>. QED  BY <1>1, FS_CardinalityType, Zenon

\* What is too bad is so when more is found, and so is what is worse.
LEMMA TooBadStays ==
  ASSUME NEW c, NEW f, NEW g, f \subseteq g, NEW v, NEW w,
         g \subseteq Solution, \A s \in Solution : Value[s] \in Int,
         c.enumAbsTol \in Int, v \in Int, w \in Int, v <= w, TooBad(c, f, v)
  PROVE  TooBad(c, g, w)
<1>1. PICK s \in f : Value[s] + c.enumAbsTol < v
  BY DEF TooBad
<1>2. Value[s] + c.enumAbsTol < w /\ s \in g
  BY <1>1
<1>. QED  BY <1>2 DEF TooBad

\* What comes after what is final is final.
LEMMA FinalAfter ==
  ASSUME NEW c, NEW f, f \subseteq Solution, \A s \in Solution : Value[s] \in Int,
         c.enumAbsTol \in Int, c.enumCount \in Int,
         NEW A \in SUBSET Identifier, IsFiniteSet(A),
         NEW x \in Identifier, Final(c, f, A, x)
  PROVE  /\ \A y \in Identifier : Before(x, y) => Final(c, f, A, y)
         /\ \A v \in Int : x.value <= v => Beaten(c, f, A, v)
<1>1. x.value \in Int
  BY DEF Identifier
<1>2. CASE TooBad(c, f, x.value)
  <2>1. \A v \in Int : x.value <= v => TooBad(c, f, v)
    BY <1>1, <1>2, TooBadStays
  <2>2. \A y \in Identifier : Before(x, y) => y.value \in Int /\ x.value <= y.value
    BY DEF Identifier, Before
  <2>. QED  BY <2>1, <2>2 DEF Final, Beaten
<1>3. CASE c.enumCount > 1 /\ Cardinality(UpTo(A, x)) >= c.enumCount
  <2>1. ASSUME NEW y \in Identifier, Before(x, y)
        PROVE  Final(c, f, A, y)
    <3>1. UpTo(A, x) \subseteq UpTo(A, y)
      BY <2>1, BeforeIsStrict DEF UpTo
    <3>2. IsFiniteSet(UpTo(A, y))
      <4>1. UpTo(A, y) \subseteq A
        BY DEF UpTo
      <4>. QED  BY <4>1, PartIsSmaller
    <3>. QED  BY <1>3, <3>1, <3>2, PartIsSmaller DEF Final
  <2>2. ASSUME NEW v \in Int, x.value <= v
        PROVE  Beaten(c, f, A, v)
    <3>1. UpTo(A, x) \subseteq NoWorse(A, v)
      <4>1. ASSUME NEW y \in A, y = x \/ Before(y, x) PROVE y.value <= v
        <5>1. y.value \in Int /\ y.value <= x.value
          BY <1>1, <4>1 DEF Identifier, Before
        <5>. QED  BY <1>1, <2>2, <5>1
      <4>. QED  BY <4>1 DEF UpTo, NoWorse
    <3>2. IsFiniteSet(NoWorse(A, v))
      <4>1. NoWorse(A, v) \subseteq A
        BY DEF NoWorse
      <4>. QED  BY <4>1, PartIsSmaller
    <3>. QED  BY <1>3, <3>1, <3>2, PartIsSmaller DEF Beaten
  <2>. QED  BY <2>1, <2>2
<1>. QED  BY <1>2, <1>3 DEF Final

\* The repository becomes B instead of A: what it loses is out of tolerance or after the
\* cut-off last.
Turns(c, f, g, A, B, last) ==
  /\ f \subseteq g /\ g \subseteq Solution
  /\ c.enumAbsTol \in Int /\ c.enumCount \in Int
  /\ A \subseteq Identifier /\ B \subseteq Identifier
  /\ IsFiniteSet(A) /\ IsFiniteSet(B)
  /\ last \in Identifier \cup {NoSolution} /\ CutHolds(c, f, A, last)
  /\ \A x \in A \ B : TooBad(c, g, x.value) \/ (last # NoSolution /\ Before(last, x))

\* The cut-off is right afterwards, too.
LEMMA CutOffTurns ==
  ASSUME \A s \in Solution : Value[s] \in Int,
         NEW c, NEW f, NEW g, NEW A, NEW B, NEW last, Turns(c, f, g, A, B, last)
  PROVE  CutHolds(c, g, B, last)
<1>. SUFFICES ASSUME last # NoSolution PROVE Final(c, g, B, last)
  BY DEF CutHolds
<1>1. last \in Identifier /\ last.value \in Int /\ Final(c, f, A, last)
  BY DEF Turns, CutHolds, Identifier
<1>2. CASE TooBad(c, f, last.value)
  BY <1>1, <1>2, TooBadStays DEF Turns, Final
<1>3. CASE c.enumCount > 1 /\ Cardinality(UpTo(A, last)) >= c.enumCount
  <2>1. CASE UpTo(A, last) \subseteq UpTo(B, last)
    <3>1. IsFiniteSet(UpTo(B, last))
      <4>1. UpTo(B, last) \subseteq B /\ IsFiniteSet(B)
        BY DEF UpTo, Turns
      <4>. QED  BY <4>1, PartIsSmaller
    <3>2. c.enumCount \in Int
      BY DEF Turns
    <3>. QED  BY <1>3, <2>1, <3>1, <3>2, PartIsSmaller DEF Final
  <2>2. CASE ~(UpTo(A, last) \subseteq UpTo(B, last))
    <3>1. PICK y \in A \ B : y = last \/ Before(y, last)
      BY <2>2 DEF UpTo
    <3>2. y \in Identifier /\ ~Before(last, y)
      BY <1>1, <3>1, BeforeIsStrict DEF Turns
    <3>3. TooBad(c, g, y.value)
      BY <3>1, <3>2 DEF Turns
    <3>4. y.value \in Int /\ y.value <= last.value
      BY <1>1, <3>1, <3>2 DEF Identifier, Before
    <3>5. TooBad(c, g, last.value)
      BY <1>1, <3>3, <3>4, TooBadStays DEF Turns
    <3>. QED  BY <3>5 DEF Final
  <2>. QED  BY <2>1, <2>2
<1>. QED  BY <1>1, <1>2, <1>3 DEF Final

\* So is what was final, what was beaten, and the loss of what is dropped.
LEMMA ReasonsStay ==
  ASSUME \A s \in Solution : Value[s] \in Int,
         NEW c, NEW f, NEW g, NEW A, NEW B, NEW last, Turns(c, f, g, A, B, last)
  PROVE  /\ \A x \in Identifier : Final(c, f, A, x) => Final(c, g, B, x)
         /\ \A v \in Int : Beaten(c, f, A, v) => Beaten(c, g, B, v)
         /\ \A x \in A : x \in B \/ (Final(c, g, B, x) /\ Beaten(c, g, B, x.value))
<1>1. ASSUME NEW y \in A \ B
      PROVE  /\ y \in Identifier /\ y.value \in Int
             /\ TooBad(c, g, y.value)
                  \/ (last \in Identifier /\ Final(c, g, B, last) /\ Before(last, y))
  <2>1. y \in Identifier
    BY DEF Turns
  <2>. QED  BY <2>1, CutOffTurns DEF Turns, CutHolds, Identifier
<1>2. \A y \in A \ B : Final(c, g, B, y)
  BY <1>1, FinalAfter DEF Turns, Final
<1>3. ASSUME NEW x \in Identifier, Final(c, f, A, x)
      PROVE  Final(c, g, B, x)
  <2>1. CASE TooBad(c, f, x.value)
    <3>1. x.value \in Int
      BY DEF Identifier
    <3>. QED  BY <2>1, <3>1, TooBadStays DEF Turns, Final
  <2>2. CASE \E y \in UpTo(A, x) : y \notin B
    <3>1. PICK y \in A \ B : y = x \/ Before(y, x)
      BY <2>2 DEF UpTo
    <3>. QED  BY <1>1, <1>2, <3>1, FinalAfter DEF Turns
  <2>3. CASE c.enumCount > 1 /\ Cardinality(UpTo(A, x)) >= c.enumCount /\ UpTo(A, x) \subseteq B
    <3>1. UpTo(A, x) \subseteq UpTo(B, x)
      BY <2>3 DEF UpTo
    <3>2. UpTo(B, x) \subseteq B /\ IsFiniteSet(B) /\ c.enumCount \in Int
      BY DEF UpTo, Turns
    <3>3. IsFiniteSet(UpTo(B, x))
      BY <3>2, PartIsSmaller
    <3>. QED  BY <2>3, <3>1, <3>2, <3>3, PartIsSmaller DEF Final
  <2>. QED  BY <1>3, <2>1, <2>2, <2>3 DEF Final
<1>4. ASSUME NEW v \in Int, Beaten(c, f, A, v)
      PROVE  Beaten(c, g, B, v)
  <2>1. CASE TooBad(c, f, v)
    BY <2>1, TooBadStays DEF Turns, Beaten
  <2>2. CASE \E y \in NoWorse(A, v) : y \notin B
    <3>1. PICK y \in A \ B : y.value <= v
      BY <2>2 DEF NoWorse
    <3>. QED  BY <1>1, <1>2, <3>1, FinalAfter DEF Turns
  <2>3. CASE c.enumCount > 1 /\ Cardinality(NoWorse(A, v)) >= c.enumCount /\ NoWorse(A, v) \subseteq B
    <3>1. NoWorse(A, v) \subseteq NoWorse(B, v)
      BY <2>3 DEF NoWorse
    <3>2. NoWorse(B, v) \subseteq B /\ IsFiniteSet(B) /\ c.enumCount \in Int
      BY DEF NoWorse, Turns
    <3>3. IsFiniteSet(NoWorse(B, v))
      BY <3>2, PartIsSmaller
    <3>. QED  BY <2>3, <3>1, <3>2, <3>3, PartIsSmaller DEF Beaten
  <2>. QED  BY <1>4, <2>1, <2>2, <2>3 DEF Beaten
<1>5. ASSUME NEW x \in A, x \notin B
      PROVE  Final(c, g, B, x) /\ Beaten(c, g, B, x.value)
  <2>1. x \in Identifier /\ x.value \in Int /\ x.value <= x.value
    BY <1>1, <1>5
  <2>2. Final(c, g, B, x)
    BY <1>2, <1>5
  <2>. QED  BY <2>1, <2>2, FinalAfter DEF Turns
<1>. QED  BY <1>3, <1>4, <1>5

\* A cut-off that is made of a list that holds is right.
LEMMA CutOffHolds ==
  ASSUME \A s \in Solution : Value[s] \in Int, NEW f, f \subseteq Solution,
         par.enumAbsTol \in Int, par.enumCount \in Int, Counting,
         NEW A \in SUBSET Identifier, IsFiniteSet(A),
         NEW ids \in SUBSET Identifier, Ordered(ids), ListHolds(par, f, A, ids),
         NEW last \in Identifier \cup {NoSolution}, CutHolds(par, f, A, last)
  PROVE  CutHolds(par, f, A, CutOff(ids, last))
<1>. DEFINE n == par.enumCount
            w == Nth(ids, n)
<1>1. CASE Cardinality(ids) < n
  BY <1>1 DEF CutOff
<1>2. CASE ~(Cardinality(ids) < n)
  <2>1. n \in Nat \ {0} /\ n > 1 /\ Cardinality(ids) \in Nat /\ n <= Cardinality(ids)
    BY <1>2, FS_CardinalityType DEF Counting, Ordered
  <2>2. w \in ids /\ w \in Identifier /\ Rank(ids, w) = n - 1
    <3>. HIDE DEF n
    <3>. QED  BY <2>1, NthExists
  <2>. HIDE DEF w
  <2>3. ASSUME \E x \in UpTo(ids, w) : Final(par, f, A, x) PROVE Final(par, f, A, w)
    <3>1. PICK x \in ids : (x = w \/ Before(x, w)) /\ Final(par, f, A, x)
      BY <2>3 DEF UpTo
    <3>2. x \in Identifier
      OBVIOUS
    <3>. QED  BY <2>2, <3>1, <3>2, FinalAfter
  <2>4. ASSUME \A x \in UpTo(ids, w) : x \in A PROVE Final(par, f, A, w)
    <3>1. UpTo(ids, w) \subseteq UpTo(A, w)
      BY <2>4 DEF UpTo
    <3>2. Cardinality(UpTo(ids, w)) = n
      <4>. DEFINE T == {y \in ids : Before(y, w)}
      <4>1. T \subseteq ids /\ IsFiniteSet(ids) /\ w \notin T
        BY <2>2, BeforeIsStrict DEF Ordered
      <4>2. UpTo(ids, w) = T \cup {w}
        BY <2>2 DEF UpTo
      <4>3. Cardinality(T) = n - 1
        BY <2>2 DEF Rank
      <4>4. IsFiniteSet(T)
        <5>. HIDE DEF T
        <5>. QED  BY <4>1, PartIsSmaller
      <4>5. Cardinality(T \cup {w}) = Cardinality(T) + 1
        <5>. HIDE DEF T
        <5>. QED  BY <4>1, <4>4, FS_AddElement
      <4>. HIDE DEF T
      <4>. QED  BY <2>1, <4>2, <4>3, <4>5
    <3>3. IsFiniteSet(UpTo(A, w))
      <4>1. UpTo(A, w) \subseteq A
        BY DEF UpTo
      <4>. QED  BY <4>1, PartIsSmaller
    <3>4. Cardinality(UpTo(A, w)) >= n
      <4>. HIDE DEF n
      <4>. QED  BY <2>1, <3>1, <3>2, <3>3, PartIsSmaller
    <3>5. par.enumCount > 1 /\ Cardinality(UpTo(A, w)) >= par.enumCount
      BY <2>1, <3>4
    <3>. QED  BY <3>5, Zenon DEF Final
  <2>5. Final(par, f, A, w)
    <3>1. UpTo(ids, w) \subseteq ids
      BY DEF UpTo
    <3>2. \A x \in UpTo(ids, w) : x \in A \/ Final(par, f, A, x)
      BY <3>1 DEF ListHolds
    <3>. QED  BY <2>3, <2>4, <3>2, Zenon
  <2>6. CutOff(ids, last) \in {w, last}
    BY <1>2 DEF CutOff, Updated, w
  <2>. QED  BY <2>5, <2>6 DEF CutHolds
<1>. QED  BY <1>1, <1>2

-----------------------------------------------------------------------------
(***************************************************************************)
(* Messages on their way.                                                  *)
(***************************************************************************)
InNet(net, m) == \E p, q \in Proc : \E i \in DOMAIN net[p][q] : net[p][q][i] = m

LEMMA MailInNet ==
  /\ \A c, f, all, net : NetHolds(c, f, all, net)
                           <=> \A m : InNet(net, m) => MessageHolds(c, f, all, m)
  /\ \A net, s : Flies(net, s)
                   <=> \E m : InNet(net, m) /\ m.type \in {"hashSol", "forwardSol"} /\ m.sol = s
<1>1. \A c, f, all, net : NetHolds(c, f, all, net)
                            <=> \A m : InNet(net, m) => MessageHolds(c, f, all, m)
  BY Zenon DEF NetHolds, InNet
<1>2. ASSUME NEW net, NEW s, Flies(net, s)
      PROVE  \E m : InNet(net, m) /\ m.type \in {"hashSol", "forwardSol"} /\ m.sol = s
  <2>1. PICK p \in Proc, q \in Proc : \E i \in DOMAIN net[p][q] :
           net[p][q][i].type \in {"hashSol", "forwardSol"} /\ net[p][q][i].sol = s
    BY <1>2, Zenon DEF Flies
  <2>2. PICK i \in DOMAIN net[p][q] :
           net[p][q][i].type \in {"hashSol", "forwardSol"} /\ net[p][q][i].sol = s
    BY <2>1, Zenon
  <2>3. PICK m : m = net[p][q][i]
    OBVIOUS
  <2>4. InNet(net, m)
    BY <2>3, Zenon DEF InNet
  <2>. QED  BY <2>2, <2>3, <2>4
<1>3. ASSUME NEW net, NEW s, NEW m, InNet(net, m), m.type \in {"hashSol", "forwardSol"}, m.sol = s
      PROVE  Flies(net, s)
  <2>0. PICK p \in Proc, q \in Proc : \E i \in DOMAIN net[p][q] : net[p][q][i] = m
    BY <1>3, Zenon DEF InNet
  <2>1. PICK i \in DOMAIN net[p][q] : net[p][q][i] = m
    BY <2>0, Zenon
  <2>. QED  BY <1>3, <2>1, Zenon DEF Flies
<1>. QED  BY <1>1, <1>2, <1>3, Zenon

\* A message is taken.
LEMMA InNetReceived ==
  ASSUME NEW net \in Nets, NEW p \in Proc, NEW q \in Proc, net[q][p] # <<>>
  PROVE  /\ \A m : InNet(net, m) => InNet(Received(net, p, q), m) \/ m = Head(net[q][p])
         /\ \A m : InNet(Received(net, p, q), m) => InNet(net, m)
         /\ InNet(net, Head(net[q][p]))
<1>. DEFINE s == net[q][p]
            t == Tail(s)
            new == Received(net, p, q)
<1>1. s \in Seq(Messages) /\ s # <<>>
  BY DEF Nets
<1>2. /\ Head(s) = s[1] /\ 1 \in DOMAIN s
      /\ \A i \in DOMAIN t : i + 1 \in DOMAIN s /\ t[i] = s[i + 1]
      /\ \A i \in DOMAIN s : i # 1 => i - 1 \in DOMAIN t /\ t[i - 1] = s[i]
  <2>. HIDE DEF s
  <2>. QED  BY <1>1
<1>3. \A a, b \in Proc : new[b][a] = IF b = q /\ a = p THEN t ELSE net[b][a]
  <2>. HIDE DEF t
  <2>1. new = [net EXCEPT ![q][p] = t]
    BY DEF Received, t
  <2>. QED  BY <2>1 DEF Nets
<1>. HIDE DEF s, t, new
<1>4. ASSUME NEW m, InNet(net, m), m # Head(s)
      PROVE  InNet(new, m)
  <2>0. PICK b \in Proc, a \in Proc : \E i \in DOMAIN net[b][a] : net[b][a][i] = m
    BY <1>4, Zenon DEF InNet
  <2>1. PICK i \in DOMAIN net[b][a] : net[b][a][i] = m
    BY <2>0, Zenon
  <2>2. CASE b = q /\ a = p
    <3>1. i \in DOMAIN s /\ s[i] = m /\ i # 1
      BY <1>2, <1>4, <2>1, <2>2 DEF s
    <3>2. i - 1 \in DOMAIN new[q][p] /\ new[q][p][i - 1] = m
      BY <1>2, <1>3, <3>1
    <3>. QED  BY <3>2 DEF InNet
  <2>3. CASE ~(b = q /\ a = p)
    <3>1. new[b][a] = net[b][a]
      BY <1>3, <2>3
    <3>. QED  BY <2>1, <3>1 DEF InNet
  <2>. QED  BY <2>2, <2>3
<1>5. ASSUME NEW m, InNet(new, m)
      PROVE  InNet(net, m)
  <2>0. PICK b \in Proc, a \in Proc : \E i \in DOMAIN new[b][a] : new[b][a][i] = m
    BY <1>5, Zenon DEF InNet
  <2>1. PICK i \in DOMAIN new[b][a] : new[b][a][i] = m
    BY <2>0, Zenon
  <2>2. CASE b = q /\ a = p
    <3>1. i \in DOMAIN t /\ t[i] = m
      BY <1>3, <2>1, <2>2
    <3>2. i + 1 \in DOMAIN s /\ s[i + 1] = m
      BY <1>2, <3>1
    <3>. QED  BY <3>2 DEF InNet, s
  <2>3. CASE ~(b = q /\ a = p)
    <3>1. new[b][a] = net[b][a]
      BY <1>3, <2>3
    <3>. QED  BY <2>1, <3>1 DEF InNet
  <2>. QED  BY <2>2, <2>3
<1>6. InNet(net, Head(s))
  BY <1>2 DEF InNet, s
<1>. QED  BY <1>4, <1>5, <1>6 DEF s, new

\* A message is sent.
LEMMA InNetSent ==
  ASSUME NEW net \in Nets, NEW p \in Proc, NEW q \in Proc, NEW x
  PROVE  \A m : InNet(Sent(net, p, q, x), m) <=> InNet(net, m) \/ m = x
<1>. DEFINE s == net[p][q]
            t == Append(s, x)
            new == Sent(net, p, q, x)
<1>1. s \in Seq(Messages)
  BY DEF Nets
<1>2. /\ \A i \in DOMAIN s : i \in DOMAIN t /\ t[i] = s[i]
      /\ \A i \in DOMAIN t : t[i] = x \/ (i \in DOMAIN s /\ t[i] = s[i])
      /\ Len(s) + 1 \in DOMAIN t /\ t[Len(s) + 1] = x
  <2>. HIDE DEF s
  <2>. QED  BY <1>1
<1>3. \A a, b \in Proc : new[b][a] = IF b = p /\ a = q THEN t ELSE net[b][a]
  <2>. HIDE DEF t
  <2>1. new = [net EXCEPT ![p][q] = t]
    BY DEF Sent, t
  <2>. QED  BY <2>1 DEF Nets
<1>. HIDE DEF s, t, new
<1>4. ASSUME NEW m, InNet(net, m)
      PROVE  InNet(new, m)
  <2>0. PICK b \in Proc, a \in Proc : \E i \in DOMAIN net[b][a] : net[b][a][i] = m
    BY <1>4, Zenon DEF InNet
  <2>1. PICK i \in DOMAIN net[b][a] : net[b][a][i] = m
    BY <2>0, Zenon
  <2>2. i \in DOMAIN new[b][a] /\ new[b][a][i] = m
    BY <1>2, <1>3, <2>1 DEF s
  <2>. QED  BY <2>2 DEF InNet
<1>5. InNet(new, x)
  <2>1. Len(s) + 1 \in DOMAIN new[p][q] /\ new[p][q][Len(s) + 1] = x
    BY <1>2, <1>3
  <2>. QED  BY <2>1 DEF InNet
<1>6. ASSUME NEW m, InNet(new, m)
      PROVE  InNet(net, m) \/ m = x
  <2>0. PICK b \in Proc, a \in Proc : \E i \in DOMAIN new[b][a] : new[b][a][i] = m
    BY <1>6, Zenon DEF InNet
  <2>1. PICK i \in DOMAIN new[b][a] : new[b][a][i] = m
    BY <2>0, Zenon
  <2>2. m = x \/ (i \in DOMAIN net[b][a] /\ net[b][a][i] = m)
    BY <1>2, <1>3, <2>1 DEF s
  <2>. QED  BY <2>2 DEF InNet
<1>. QED  BY <1>4, <1>5, <1>6 DEF new

\* A cut-off is relayed.
LEMMA InNetRelayed ==
  ASSUME NEW net \in Nets, NEW p \in Proc, NEW x
  PROVE  /\ \A m : InNet(net, m) => InNet(Relayed(net, p, x), m)
         /\ \A m : InNet(Relayed(net, p, x), m)
                     => InNet(net, m) \/ m = [type |-> "newLastSol", id |-> x]
<1>. DEFINE y == [type |-> "newLastSol", id |-> x]
            new == Relayed(net, p, x)
<1>1. \A a, b \in Proc : new[b][a] = IF b = p /\ a \in Children(0, p)
                                     THEN Append(net[b][a], y) ELSE net[b][a]
  BY DEF Relayed, Nets
<1>. HIDE DEF y, new
<1>2. ASSUME NEW a \in Proc, NEW b \in Proc
      PROVE  /\ \A i \in DOMAIN net[b][a] : i \in DOMAIN new[b][a] /\ new[b][a][i] = net[b][a][i]
             /\ \A i \in DOMAIN new[b][a] : new[b][a][i] = y \/
                  (i \in DOMAIN net[b][a] /\ new[b][a][i] = net[b][a][i])
  <2>. DEFINE s == net[b][a]
  <2>1. s \in Seq(Messages)
    BY DEF Nets
  <2>2. new[b][a] = s \/ new[b][a] = Append(s, y)
    BY <1>1
  <2>. HIDE DEF s
  <2>3. /\ \A i \in DOMAIN s : i \in DOMAIN Append(s, y) /\ Append(s, y)[i] = s[i]
        /\ \A i \in DOMAIN Append(s, y) : Append(s, y)[i] = y \/
             (i \in DOMAIN s /\ Append(s, y)[i] = s[i])
    BY <2>1
  <2>4. /\ \A i \in DOMAIN s : i \in DOMAIN new[b][a] /\ new[b][a][i] = s[i]
        /\ \A i \in DOMAIN new[b][a] : new[b][a][i] = y \/
             (i \in DOMAIN s /\ new[b][a][i] = s[i])
    BY <2>2, <2>3
  <2>. QED  BY <2>4 DEF s
<1>3. ASSUME NEW m, InNet(net, m)
      PROVE  InNet(new, m)
  <2>0. PICK b \in Proc, a \in Proc : \E i \in DOMAIN net[b][a] : net[b][a][i] = m
    BY <1>3, Zenon DEF InNet
  <2>1. PICK i \in DOMAIN net[b][a] : net[b][a][i] = m
    BY <2>0, Zenon
  <2>2. i \in DOMAIN new[b][a] /\ new[b][a][i] = m
    BY <1>2, <2>1
  <2>. QED  BY <2>2 DEF InNet
<1>4. ASSUME NEW m, InNet(new, m)
      PROVE  InNet(net, m) \/ m = y
  <2>0. PICK b \in Proc, a \in Proc : \E i \in DOMAIN new[b][a] : new[b][a][i] = m
    BY <1>4, Zenon DEF InNet
  <2>1. PICK i \in DOMAIN new[b][a] : new[b][a][i] = m
    BY <2>0, Zenon
  <2>2. m = y \/ (i \in DOMAIN net[b][a] /\ net[b][a][i] = m)
    BY <1>2, <2>1
  <2>. QED  BY <2>2 DEF InNet
<1>. QED  BY <1>3, <1>4 DEF y, new

-----------------------------------------------------------------------------
(***************************************************************************)
(* From one state to the next.                                             *)
(***************************************************************************)
LEMMA Numbers ==
  ASSUME TypeOK
  PROVE  /\ par.enumCount \in Int /\ par.enumAbsTol \in Int /\ found \subseteq Solution
         /\ \A s \in Solution : /\ Value[s] \in Int /\ 0 <= Value[s] /\ Value[s] < Infinite
                                /\ Owner[s] \in Proc
<1>1. par \in Parameters /\ found \subseteq Solution
  BY DEF TypeOK
<1>2. par.enumCount \in Int /\ par.enumAbsTol \in Int
  BY <1>1, RepositoryAssumption
<1>3. \A s \in Solution : Value[s] \in 0 .. Infinite - 1 /\ Owner[s] \in Proc
  BY RepositoryAssumption
<1>. QED  BY <1>1, <1>2, <1>3 DEF Infinite

\* The whole repository is a genuine list.
LEMMA AllIsGenuine ==
  ReposInv => /\ All \in SUBSET Identifier /\ GenuineIn(found, All, Proc) /\ IsFiniteSet(All)
              /\ \A x \in All : x.owner \in Proc /\ x \in repos[x.owner]
              /\ \A p \in Proc : repos[p] \subseteq All /\ \A x \in repos[p] : x.owner = p
<1>. SUFFICES ASSUME ReposInv
              PROVE  /\ All \in SUBSET Identifier /\ GenuineIn(found, All, Proc) /\ IsFiniteSet(All)
                     /\ \A x \in All : x.owner \in Proc /\ x \in repos[x.owner]
                     /\ \A p \in Proc : repos[p] \subseteq All /\ \A x \in repos[p] : x.owner = p
  OBVIOUS
<1>. USE DEF ReposInv
<1>. DEFINE parts == {repos[q] : q \in Proc}
<1>1. All = UNION parts
  BY DEF All
<1>2. \A q \in Proc : repos[q] \subseteq Identifier /\ GenuineIn(found, repos[q], {q})
  BY InTermsOfFound DEF TypeOK, PartsAreGenuine
<1>3. IsFiniteSet(UNION parts)
  <2>1. IsFiniteSet(Proc)
    BY FS_Interval, TreeAssumption DEF Proc
  <2>2. IsFiniteSet(parts)
    <3>. DEFINE f == [q \in Proc |-> repos[q]]
    <3>1. f \in Surjection(Proc, parts)
      BY DEF Surjection
    <3>. HIDE DEF f, parts
    <3>. QED  BY <2>1, <3>1, FS_Surjection
  <2>3. \A T \in parts : IsFiniteSet(T)
    BY <1>2 DEF GenuineIn
  <2>. HIDE DEF parts
  <2>. QED  BY <2>2, <2>3, FS_UNION
<1>4. UNION parts \subseteq Identifier
  BY <1>2
<1>5. ASSUME NEW x \in UNION parts
      PROVE  /\ x.sol \in found /\ x.value = Value[x.sol]
             /\ x.owner = Owner[x.sol] /\ x.owner \in Proc
             /\ x \in repos[x.owner]
  BY <1>2 DEF GenuineIn
<1>6. ASSUME NEW x \in UNION parts, NEW y \in UNION parts,
             x.sol = y.sol \/ (x.owner = y.owner /\ x.serial = y.serial)
      PROVE  x = y
  <2>1. x.owner = y.owner
    BY <1>5, <1>6
  <2>2. x \in repos[x.owner] /\ y \in repos[x.owner] /\ x.owner \in Proc
    BY <1>5, <2>1
  <2>. HIDE DEF parts
  <2>. QED  BY <1>2, <1>6, <2>2 DEF GenuineIn
<1>7. \A p \in Proc : repos[p] \subseteq UNION parts /\ \A x \in repos[p] : x.owner = p
  BY <1>2 DEF GenuineIn
<1>. HIDE DEF parts
<1>. QED  BY <1>1, <1>3, <1>4, <1>5, <1>6, <1>7 DEF GenuineIn

LEMMA AllIsGenuineNext ==
  ReposInv' => /\ All' \in SUBSET Identifier /\ GenuineIn(found', All', Proc) /\ IsFiniteSet(All')
               /\ \A x \in All' : x.owner \in Proc /\ x \in repos'[x.owner]
               /\ \A p \in Proc : repos'[p] \subseteq All' /\ \A x \in repos'[p] : x.owner = p
<1>1. (ReposInv => /\ All \in SUBSET Identifier /\ GenuineIn(found, All, Proc) /\ IsFiniteSet(All)
                   /\ \A x \in All : x.owner \in Proc /\ x \in repos[x.owner]
                   /\ \A p \in Proc : repos[p] \subseteq All /\ \A x \in repos[p] : x.owner = p)'
  BY AllIsGenuine, PTL
<1>. QED  BY <1>1 DEF GenuineIn

\* What is known of a step.
Goes == /\ ReposInv /\ ReposInv' /\ PartsSuffice /\ HubsSuffice
        /\ par' = par /\ found \subseteq found'

\* A step that drops by tolerance and the cut-off last only.
LEMMA DropsTurn ==
  ASSUME Goes, NEW last \in Identifier \cup {NoSolution}, CutHolds(par, found, All, last),
         \A p \in Proc : \A x \in repos[p] :
           \/ x \in repos'[p] \/ TooBad(par, found', x.value)
           \/ last # NoSolution /\ Before(last, x)
  PROVE  Turns(par, found, found', All, All', last)
<1>1. /\ TypeOK /\ found' \subseteq Solution /\ found \subseteq found'
  BY DEF Goes, ReposInv, TypeOK
<1>2. par.enumAbsTol \in Int /\ par.enumCount \in Int
  BY <1>1, Numbers
<1>3. All \subseteq Identifier /\ All' \subseteq Identifier /\ IsFiniteSet(All) /\ IsFiniteSet(All')
  BY AllIsGenuine, AllIsGenuineNext DEF Goes
<1>4. ASSUME NEW x \in All \ All'
      PROVE  TooBad(par, found', x.value) \/ (last # NoSolution /\ Before(last, x))
  <2>1. x.owner \in Proc /\ x \in repos[x.owner]
    BY AllIsGenuine DEF Goes
  <2>2. x \notin repos'[x.owner]
    BY <2>1, AllIsGenuineNext DEF Goes
  <2>. QED  BY <2>1, <2>2
<1>. QED  BY <1>1, <1>2, <1>3, <1>4 DEF Turns

LEMMA MessageTypes ==
  ASSUME NEW m \in Messages
  PROVE  /\ m.type \in {"hashSol", "forwardSol"} => m.sol \in Solution
         /\ m.type = "reposArray" => m.ids \subseteq Identifier
         /\ m.type = "newLastSol" => m.id \in Identifier \cup {NoSolution}
  BY DEF Messages

LEMMA MailIsTyped ==
  ASSUME TypeOK
  PROVE  \A m : InNet(channel, m) => m \in Messages
<1>. SUFFICES ASSUME NEW m, InNet(channel, m) PROVE m \in Messages
  OBVIOUS
<1>1. PICK p \in Proc, q \in Proc : \E i \in DOMAIN channel[p][q] : channel[p][q][i] = m
  BY Zenon DEF InNet
<1>2. channel[p][q] \in Seq(Messages)
  BY DEF TypeOK
<1>. QED  BY <1>1, <1>2

\* Lists, cut-offs and messages still hold after such a step.
LEMMA HoldsAfter ==
  ASSUME Goes, NEW last, Turns(par, found, found', All, All', last)
  PROVE  /\ \A ids \in SUBSET Identifier :
              ListHolds(par, found, All, ids) => ListHolds(par', found', All', ids)
         /\ \A x \in Identifier \cup {NoSolution} :
              CutHolds(par, found, All, x) => CutHolds(par', found', All', x)
         /\ NetHolds(par, found, All, channel) => NetHolds(par', found', All', channel)
         /\ ListHolds(par', found', All', All)
<1>0. TypeOK /\ par' = par /\ All \subseteq Identifier /\ \A s \in Solution : Value[s] \in Int
  BY Numbers, AllIsGenuine DEF Goes, ReposInv
<1>1. /\ \A x \in Identifier : Final(par, found, All, x) => Final(par, found', All', x)
      /\ \A x \in All : x \in All' \/ Final(par, found', All', x)
  BY <1>0, ReasonsStay
<1>2. ASSUME NEW ids \in SUBSET Identifier, ListHolds(par, found, All, ids)
      PROVE  ListHolds(par', found', All', ids)
  BY <1>0, <1>1, <1>2 DEF ListHolds
<1>3. ASSUME NEW x \in Identifier \cup {NoSolution}, CutHolds(par, found, All, x)
      PROVE  CutHolds(par', found', All', x)
  BY <1>0, <1>1, <1>3 DEF CutHolds
<1>4. ASSUME NetHolds(par, found, All, channel)
      PROVE  NetHolds(par', found', All', channel)
  <2>1. ASSUME NEW m, InNet(channel, m)
        PROVE  MessageHolds(par', found', All', m)
    <3>1. MessageHolds(par, found, All, m)
      BY <1>4, <2>1, MailInNet, Zenon
    <3>2. m \in Messages
      BY <1>0, <2>1, MailIsTyped
    <3>. QED  BY <1>2, <1>3, <3>1, <3>2, MessageTypes DEF MessageHolds
  <2>. QED  BY <2>1, MailInNet, Zenon
<1>5. ListHolds(par', found', All', All)
  BY <1>0, <1>1 DEF ListHolds
<1>. QED  BY <1>2, <1>3, <1>4, <1>5

\* Where a solution is.
Kept(s) == \/ Stored(All, s) \/ Waits(rampUpSolQ, s) \/ Flies(channel, s)
           \/ Stands(solSendQ, s) \/ Beaten(par, found, All, Value[s])

\* A solution that is found or on its way has to be kept; the others are.
LEMMA RemembersAll ==
  ASSUME Goes, NothingForgotten, NEW last, Turns(par, found, found', All, All', last),
         \A s \in found' : s \notin found \/ Waits(rampUpSolQ, s) \/ Flies(channel, s)
                             \/ Stands(solSendQ, s) => Kept(s)'
  PROVE  NothingForgotten'
<1>0. TypeOK /\ par' = par /\ \A s \in Solution : Value[s] \in Int
  BY Numbers DEF Goes, ReposInv
<1>1. /\ \A v \in Int : Beaten(par, found, All, v) => Beaten(par, found', All', v)
      /\ \A x \in All : x \in All' \/ Beaten(par, found', All', x.value)
  BY <1>0, ReasonsStay
<1>2. ASSUME NEW s \in found', s \in found, Stored(All, s) \/ Beaten(par, found, All, Value[s])
      PROVE  Kept(s)'
  <2>1. CASE Stored(All, s)
    <3>1. PICK x \in All : x.sol = s
      BY <2>1 DEF Stored
    <3>2. x.value = Value[s]
      BY <3>1, AllIsGenuine DEF Goes, GenuineIn
    <3>. QED  BY <1>0, <1>1, <3>1, <3>2 DEF Kept, Stored
  <2>2. CASE Beaten(par, found, All, Value[s])
    <3>1. Value[s] \in Int
      BY <1>0, <1>2 DEF TypeOK
    <3>. QED  BY <1>0, <1>1, <2>2, <3>1 DEF Kept
  <2>. QED  BY <1>2, <2>1, <2>2
<1>3. \A s \in found' : Kept(s)'
  BY <1>2 DEF NothingForgotten
<1>. QED  BY <1>3 DEF NothingForgotten, Kept

EnumInv == /\ ListsHold /\ NothingForgotten /\ PartsAreTidy
           /\ IncumbentsAreBest /\ PhasesGoOn /\ ScanIsInOrder

GoesOn == Goes /\ FlowIsControlled /\ EnumInv

\* Nothing is scanned yet.
LEMMA ScanLater ==
  ASSUME ScanIsInOrder, phase # "scan", phase' # "scan", UNCHANGED final
  PROVE  ScanIsInOrder'
  BY DEF ScanIsInOrder, final

\* A step by which no part of the repository loses anything.
LEMMA NothingDropped ==
  ASSUME Goes, \A p \in Proc : repos[p] \subseteq repos'[p]
  PROVE  Turns(par, found, found', All, All', NoSolution)
<1>1. CutHolds(par, found, All, NoSolution)
  BY DEF CutHolds
<1>. QED  BY <1>1, DropsTurn

\* What is out of tolerance by an incumbent is too bad.
LEMMA ToleranceIsReal ==
  ASSUME NEW g, g \subseteq Solution, \A s \in Solution : Value[s] \in Int,
         par.enumAbsTol \in Int, NEW inc \in Int, NEW v \in Int, v < Infinite,
         inc = Infinite \/ \E s \in g : Value[s] = inc,
         par.enumAbsTol >= 0, inc - v < -par.enumAbsTol
  PROVE  TooBad(par, g, v)
<1>1. inc # Infinite
  BY DEF Infinite
<1>2. PICK s \in g : Value[s] = inc
  BY <1>1
<1>3. Value[s] + par.enumAbsTol < v
  BY <1>2
<1>. QED  BY <1>3 DEF TooBad

\* What is fathomed is beaten.
LEMMA FathomedIsBeaten ==
  ASSUME TypeOK, NEW g, g \subseteq Solution, NEW A \in SUBSET Identifier, IsFiniteSet(A),
         NEW p \in Proc, CutHolds(par, g, A, lastSol[p]),
         NEW inc \in Int, inc = Infinite \/ \E t \in g : Value[t] = inc,
         NEW s \in Solution, Fathoms(p, inc, Value[s])
  PROVE  Beaten(par, g, A, Value[s])
<1>1. /\ par.enumCount \in Int /\ par.enumAbsTol \in Int
      /\ Value[s] \in Int /\ Value[s] < Infinite /\ \A t \in Solution : Value[t] \in Int
  BY Numbers
<1>2. CASE par.enumAbsTol >= 0 /\ inc - Value[s] < -par.enumAbsTol
  <2>1. TooBad(par, g, Value[s])
    BY <1>1, <1>2, ToleranceIsReal
  <2>. QED  BY <2>1 DEF Beaten
<1>3. CASE Counting /\ lastSol[p].value <= Value[s]
  <2>1. lastSol[p] # NoSolution
    BY <1>1, <1>3 DEF NoSolution, Infinite
  <2>2. lastSol[p] \in Identifier /\ Final(par, g, A, lastSol[p])
    BY <2>1 DEF TypeOK, CutHolds
  <2>. QED  BY <1>1, <1>3, <2>2, FinalAfter
<1>. QED  BY <1>2, <1>3 DEF Fathoms

\* A part never has to give up a solution for another one.
LEMMA OfferGrows ==
  ASSUME Goes, NEW p \in Proc, NEW inc, NEW s \in found', Owner[s] = p, Offer(p, inc, s)
  PROVE  /\ \A q \in Proc : repos[q] \subseteq repos'[q]
         /\ \A q \in Proc : \A x \in repos'[q] :
              x \in repos[q] \/ (q = p /\ x.value = Value[s] /\ ~Fathoms(p, inc, Value[s]))
         /\ Fathoms(p, inc, Value[s]) \/ Stored(All', s)
<1>1. /\ repos \in [Proc -> SUBSET Identifier] /\ repos' = [repos EXCEPT ![p] = Offered(p, inc, s)]
      /\ s \in Solution /\ par \in Parameters
  BY DEF Goes, ReposInv, TypeOK, Offer
<1>2. repos'[p] \subseteq All'
  BY AllIsGenuineNext DEF Goes
<1>3. CASE ~Admits(p, inc, s)
  <2>1. Offered(p, inc, s) = repos[p]
    BY <1>3 DEF Offered
  <2>2. \A q \in Proc : repos'[q] = repos[q]
    BY <1>1, <2>1
  <2>3. Fathoms(p, inc, Value[s]) \/ Stored(All', s)
    BY <1>2, <1>3, <2>2 DEF Admits, Stored
  <2>. QED  BY <2>2, <2>3
<1>4. CASE Admits(p, inc, s)
  <2>1. ~(par.enumCount > 0 /\ Cardinality(repos[p]) = par.enumCount)
    <3>. SUFFICES ASSUME par.enumCount > 0, Cardinality(repos[p]) = par.enumCount
                  PROVE  FALSE
      OBVIOUS
    <3>. DEFINE f == [x \in repos[p] |-> x.sol]
                S == {x.sol : x \in repos[p]}
    <3>1. GenuineIn(found, repos[p], {p})
      BY InTermsOfFound DEF Goes, ReposInv, PartsAreGenuine
    <3>2. f \in Bijection(repos[p], S)
      <4>1. f \in [repos[p] -> S] /\ \A y \in S : \E x \in repos[p] : f[x] = y
        OBVIOUS
      <4>2. \A x, y \in repos[p] : f[x] = f[y] => x = y
        BY <3>1 DEF GenuineIn
      <4>. HIDE DEF f, S
      <4>. QED  BY <4>1, <4>2 DEF Bijection, Injection, Surjection, IsInjective
    <3>3. IsFiniteSet(S) /\ Cardinality(S) = par.enumCount
      <4>1. IsFiniteSet(repos[p])
        BY <3>1 DEF GenuineIn
      <4>. HIDE DEF f, S
      <4>. QED  BY <3>2, <4>1, FS_Bijection DEF ExistsBijection
    <3>4. s \notin S /\ S \cup {s} \subseteq {t \in Solution : Owner[t] = p}
      <4>1. s \notin S
        BY <1>4 DEF Admits
      <4>2. \A x \in repos[p] : x.sol \in Solution /\ Owner[x.sol] = p
        BY <1>1, <3>1 DEF GenuineIn, Identifier
      <4>. QED  BY <1>1, <4>1, <4>2
    <3>5. IsFiniteSet(S \cup {s}) /\ Cardinality(S \cup {s}) = par.enumCount + 1
      <4>. HIDE DEF S
      <4>. QED  BY <3>3, <3>4, FS_AddElement
    <3>6. Cardinality(S \cup {s}) <= par.enumCount
      <4>. HIDE DEF S
      <4>. QED  BY <1>1, <3>4, <3>5 DEF Goes, PartsSuffice
    <3>7. par.enumCount \in Int
      BY Numbers DEF Goes, ReposInv
    <3>. HIDE DEF S
    <3>. QED  BY <3>5, <3>6, <3>7
  <2>2. Offered(p, inc, s) = {Stamped(p, s)} \cup repos[p]
    BY <1>4, <2>1 DEF Offered
  <2>3. \A q \in Proc : repos'[q] = IF q = p THEN {Stamped(p, s)} \cup repos[p] ELSE repos[q]
    BY <1>1, <2>2
  <2>4. Stamped(p, s).sol = s /\ Stamped(p, s).value = Value[s]
    BY DEF Stamped
  <2>5. Stored(All', s)
    BY <1>2, <2>3, <2>4 DEF Stored
  <2>6. ~Fathoms(p, inc, Value[s])
    BY <1>4 DEF Admits
  <2>. HIDE DEF Stamped
  <2>. QED  BY <2>3, <2>4, <2>5, <2>6
<1>. QED  BY <1>3, <1>4

\* A solution that is routed goes or waits, and nothing else is lost.
LEMMA RouteKeeps ==
  ASSUME TypeOK, NEW net \in Nets, NEW p \in Proc, NEW s \in Solution, Route(p, s, net)
  PROVE  /\ \A m : InNet(net, m) => InNet(channel', m)
         /\ \A m : InNet(channel', m) => InNet(net, m) \/ m = Forward(s)
         /\ \A t \in Solution : Stands(solSendQ, t) => Stands(solSendQ', t)
         /\ Flies(channel', s) \/ Stands(solSendQ', s)
<1>1. PICK b \in LinksTowards(p, Owner[s]) :
        /\ solSendQ' = IF Free(p, b) THEN solSendQ ELSE [solSendQ EXCEPT ![p][b][s] = @ + 1]
        /\ channel' = IF Free(p, b)
                      THEN [net EXCEPT ![p][Neighbor(p, b)] = Append(@, Forward(s))]
                      ELSE net
  BY DEF Route
<1>2. b \in Link /\ Neighbor(p, b) \in Proc
  <2>1. b \in Link /\ Neighbor(p, b) < N
    BY DEF LinksTowards
  <2>2. Neighbor(p, b) \in Nat
    BY <2>1, NeighborOfNeighbor
  <2>. QED  BY <2>1, <2>2, TreeAssumption DEF Proc
<1>3. CASE Free(p, b)
  <2>1. channel' = Sent(net, p, Neighbor(p, b), Forward(s)) /\ solSendQ' = solSendQ
    BY <1>1, <1>3 DEF Sent
  <2>2. \A m : InNet(channel', m) <=> InNet(net, m) \/ m = Forward(s)
    BY <1>2, <2>1, InNetSent, Zenon
  <2>3. Flies(channel', s)
    <3>1. Forward(s).type = "forwardSol" /\ Forward(s).sol = s
      BY DEF Forward
    <3>. QED  BY <2>2, <3>1, MailInNet
  <2>. QED  BY <2>1, <2>2, <2>3
<1>4. CASE ~Free(p, b)
  <2>1. channel' = net /\ solSendQ' = [solSendQ EXCEPT ![p][b][s] = @ + 1]
    BY <1>1, <1>4
  <2>2. solSendQ \in [Proc -> [Link -> [Solution -> Nat]]]
    BY DEF TypeOK
  <2>3. /\ \A q \in Proc : \A c \in Link : \A t \in Solution :
             solSendQ[q][c][t] > 0 => solSendQ'[q][c][t] > 0
        /\ solSendQ'[p][b][s] > 0
    BY <1>2, <2>1, <2>2
  <2>4. Stands(solSendQ', s) /\ \A t \in Solution : Stands(solSendQ, t) => Stands(solSendQ', t)
    BY <1>2, <2>3 DEF Stands
  <2>. QED  BY <2>1, <2>4
<1>. QED  BY <1>3, <1>4

-----------------------------------------------------------------------------
(***************************************************************************)
(* Ramp-up.                                                                *)
(***************************************************************************)
\* Lists and cut-offs that a step leaves alone.
LEMMA ListsAlone ==
  ASSUME Goes, ListsHold, NEW last, Turns(par, found, found', All, All', last),
         UNCHANGED <<childReposArray, lastSol>>, NetHolds(par', found', All', channel')
  PROVE  ListsHold'
<1>1. TypeOK
  BY DEF Goes, ReposInv
<1>2. \A p \in Proc : \A c \in Children(0, p) :
        ListHolds(par', found', All', childReposArray[p][c])
  <2>1. \A p \in Proc : \A c \in Children(0, p) : childReposArray[p][c] \in SUBSET Identifier
    BY <1>1 DEF TypeOK
  <2>. QED  BY <2>1, HoldsAfter DEF ListsHold
<1>3. \A p \in Proc : CutHolds(par', found', All', lastSol[p])
  <2>1. \A p \in Proc : lastSol[p] \in Identifier \cup {NoSolution}
    BY <1>1 DEF TypeOK
  <2>. QED  BY <2>1, HoldsAfter DEF ListsHold
<1>. QED  BY <1>2, <1>3 DEF ListsHold

\* If messages are left alone, too.
LEMMA NothingListed ==
  ASSUME Goes, ListsHold, NEW last, Turns(par, found, found', All, All', last),
         UNCHANGED <<childReposArray, lastSol, channel>>
  PROVE  ListsHold'
<1>1. NetHolds(par', found', All', channel)
  BY HoldsAfter DEF ListsHold
<1>. QED  BY <1>1, ListsAlone

\* What waits in ramp-up goes on waiting if it is not the first.
LEMMA WaitsOn ==
  ASSUME TypeOK
  PROVE  /\ \A s, t, p : rampUpSolQ'[p] = Append(rampUpSolQ[p], s) /\ p \in Proc
                  => \A i \in DOMAIN rampUpSolQ[p] :
                       i \in DOMAIN rampUpSolQ'[p] /\ rampUpSolQ'[p][i] = rampUpSolQ[p][i]
         /\ \A s, p : rampUpSolQ'[p] = Append(rampUpSolQ[p], s) /\ p \in Proc
                  => \E i \in DOMAIN rampUpSolQ'[p] : rampUpSolQ'[p][i] = s
         /\ \A p : rampUpSolQ'[p] = Tail(rampUpSolQ[p]) /\ p \in Proc /\ rampUpSolQ[p] # <<>>
                  => \A i \in DOMAIN rampUpSolQ[p] :
                       i = 1 \/ (i - 1 \in DOMAIN rampUpSolQ'[p]
                                 /\ rampUpSolQ'[p][i - 1] = rampUpSolQ[p][i])
<1>1. ASSUME NEW p \in Proc
      PROVE  rampUpSolQ[p] \in Seq(Solution)
  BY DEF TypeOK
<1>2. ASSUME NEW p \in Proc, NEW s, rampUpSolQ'[p] = Append(rampUpSolQ[p], s)
      PROVE  /\ \A i \in DOMAIN rampUpSolQ[p] :
                  i \in DOMAIN rampUpSolQ'[p] /\ rampUpSolQ'[p][i] = rampUpSolQ[p][i]
             /\ \E i \in DOMAIN rampUpSolQ'[p] : rampUpSolQ'[p][i] = s
  <2>. DEFINE q == rampUpSolQ[p]
              r == Append(q, s)
  <2>1. q \in Seq(Solution)
    BY <1>1
  <2>2. /\ \A i \in DOMAIN q : i \in DOMAIN r /\ r[i] = q[i]
        /\ Len(q) + 1 \in DOMAIN r /\ r[Len(q) + 1] = s
    <3>. HIDE DEF q
    <3>. QED  BY <2>1
  <2>. HIDE DEF r
  <2>. QED  BY <1>2, <2>2 DEF r
<1>3. ASSUME NEW p \in Proc, rampUpSolQ'[p] = Tail(rampUpSolQ[p]), rampUpSolQ[p] # <<>>
      PROVE  \A i \in DOMAIN rampUpSolQ[p] :
               i = 1 \/ (i - 1 \in DOMAIN rampUpSolQ'[p]
                         /\ rampUpSolQ'[p][i - 1] = rampUpSolQ[p][i])
  <2>. DEFINE q == rampUpSolQ[p]
              r == Tail(q)
  <2>1. q \in Seq(Solution)
    BY <1>1
  <2>2. \A i \in DOMAIN q : i = 1 \/ (i - 1 \in DOMAIN r /\ r[i - 1] = q[i])
    <3>. HIDE DEF q
    <3>. QED  BY <1>3, <2>1 DEF q
  <2>. HIDE DEF r
  <2>. QED  BY <1>3, <2>2 DEF r
<1>. QED  BY <1>2, <1>3, Zenon

LEMMA RampUpFindPrint ==
  ASSUME GoesOn, NEW s \in Solution, RampUpFind(s)
  PROVE  EnumInv'
<1>1. /\ Goes /\ EnumInv /\ TypeOK /\ TypeOK' /\ phase = "rampUp" /\ phase' = phase
      /\ found' = found \cup {s} /\ s \in found'
      /\ UNCHANGED <<repos, childReposArray, lastSol, channel, solSendQ, final>>
  BY DEF GoesOn, Goes, ReposInv, RampUpFind, CountFind, local, merge, flow
<1>2. PICK finders \in {Proc} \cup {{p} : p \in Proc} :
       /\ incumbent' = [p \in Proc |-> IF p \in finders /\ Value[s] < incumbent[p]
                                       THEN Value[s] ELSE incumbent[p]]
       /\ rampUpSolQ' = [p \in Proc |-> IF p \in (IF finders = Proc THEN {Owner[s]} ELSE finders)
                                        THEN Append(rampUpSolQ[p], s) ELSE rampUpSolQ[p]]
  BY DEF RampUpFind
<1>3. /\ Value[s] \in Int /\ Owner[s] \in Proc /\ Value[s] < Infinite
      /\ \A t \in found : Value[t] \in Int
  BY <1>1, Numbers
<1>4. PICK f \in Proc : f \in finders
  BY <1>2, <1>3
<1>5. Turns(par, found, found', All, All', NoSolution)
  BY <1>1, NothingDropped
<1>6. ListsHold'
  BY <1>1, <1>5, NothingListed DEF EnumInv
<1>7. NothingForgotten'
  <2>1. PICK o \in Proc : rampUpSolQ'[o] = Append(rampUpSolQ[o], s)
    BY <1>2, <1>3, <1>4
  <2>2. Waits(rampUpSolQ', s)
    BY <1>1, <2>1, WaitsOn DEF Waits
  <2>3. ASSUME NEW t, Waits(rampUpSolQ, t)
        PROVE  Waits(rampUpSolQ', t)
    <3>1. PICK p \in Proc : \E i \in DOMAIN rampUpSolQ[p] : rampUpSolQ[p][i] = t
      BY <2>3 DEF Waits
    <3>2. PICK i \in DOMAIN rampUpSolQ[p] : rampUpSolQ[p][i] = t
      BY <3>1
    <3>3. rampUpSolQ'[p] = rampUpSolQ[p] \/ rampUpSolQ'[p] = Append(rampUpSolQ[p], s)
      BY <1>2
    <3>4. i \in DOMAIN rampUpSolQ'[p] /\ rampUpSolQ'[p][i] = t
      BY <1>1, <3>2, <3>3, WaitsOn
    <3>. QED  BY <3>4 DEF Waits
  <2>4. \A t \in found' : t \notin found \/ Waits(rampUpSolQ, t) \/ Flies(channel, t)
                            \/ Stands(solSendQ, t) => Kept(t)'
    BY <1>1, <2>2, <2>3 DEF Kept
  <2>. QED  BY <1>1, <1>5, <2>4, RemembersAll DEF EnumInv
<1>8. PartsAreTidy' /\ PhasesGoOn'
  BY <1>1 DEF EnumInv, PhasesGoOn, PartsAreTidy
<1>9. IncumbentsAreBest'
  <2>1. \A p \in Proc : incumbent[p] \in Int
    BY <1>1 DEF TypeOK
  <2>2. \A p \in Proc : incumbent'[p] = Value[s] \/ incumbent'[p] = incumbent[p]
    BY <1>2
  <2>3. \A p \in Proc : incumbent'[p] <= incumbent[p]
    BY <1>2, <1>3, <2>1
  <2>4. incumbent'[f] <= Value[s]
    BY <1>2, <1>3, <1>4, <2>1
  <2>5. \A p \in Proc : incumbent'[p] \in Int
    BY <1>1 DEF TypeOK
  <2>6. \A p \in Proc : incumbent'[p] = Infinite \/ \E t \in found' : Value[t] = incumbent'[p]
    BY <1>1, <2>2 DEF EnumInv, IncumbentsAreBest
  <2>7. ASSUME NEW t \in found'
        PROVE  \E p \in Proc : incumbent'[p] <= Value[t]
    <3>1. CASE t = s
      BY <2>4, <3>1
    <3>2. CASE t \in found
      <4>1. PICK p \in Proc : incumbent[p] <= Value[t]
        BY <3>2 DEF EnumInv, GoesOn, IncumbentsAreBest
      <4>. QED  BY <1>3, <2>1, <2>3, <2>5, <3>2, <4>1
    <3>. QED  BY <1>1, <3>1, <3>2
  <2>. QED  BY <2>6, <2>7 DEF IncumbentsAreBest
<1>10. ScanIsInOrder'
  BY <1>1, ScanLater DEF EnumInv
<1>. QED  BY <1>6, <1>7, <1>8, <1>9, <1>10 DEF EnumInv

\* The least one is the least.
LEMMA LeastIsLeast ==
  ASSUME NEW S \in SUBSET Nat, S # {}
  PROVE  Least(S) \in S /\ \A x \in S : Least(S) <= x
<1>1. PICK m \in S : \A k \in S : <<k, m>> \notin OpToRel(<, Nat)
  BY WFMin, NatLessThanWellFounded, Zenon
<1>2. \A k \in S : ~(k < m)
  BY <1>1, Zenon DEF OpToRel
<1>3. \A k \in S : m <= k
  BY <1>2
<1>. QED  BY <1>3 DEF Least

LEMMA RampUpIncumbentSyncPrint ==
  ASSUME GoesOn, RampUpIncumbentSync
  PROVE  EnumInv'
<1>1. /\ Goes /\ EnumInv /\ TypeOK /\ TypeOK' /\ phase = "rampUp" /\ phase' = "hashing"
      /\ found' = found
      /\ UNCHANGED <<repos, rampUpSolQ, childReposArray, lastSol, channel, solSendQ, final>>
  BY DEF GoesOn, Goes, ReposInv, RampUpIncumbentSync, asked, local, merge, flow
<1>2. Turns(par, found, found', All, All', NoSolution)
  BY <1>1, NothingDropped
<1>3. ListsHold'
  BY <1>1, <1>2, NothingListed DEF EnumInv
<1>4. NothingForgotten'
  <2>1. \A t \in found' : t \notin found \/ Waits(rampUpSolQ, t) \/ Flies(channel, t)
                            \/ Stands(solSendQ, t) => Kept(t)'
    BY <1>1 DEF Kept
  <2>. QED  BY <1>1, <1>2, <2>1, RemembersAll DEF EnumInv
<1>5. PartsAreTidy' /\ PhasesGoOn'
  BY <1>1 DEF EnumInv, PhasesGoOn, PartsAreTidy
<1>6. IncumbentsAreBest'
  <2>. DEFINE S == {incumbent[p] : p \in Proc}
              best == Least(S)
  <2>1. S \subseteq Nat /\ S # {}
    <3>1. \A p \in Proc : incumbent[p] \in Nat
      BY <1>1 DEF TypeOK
    <3>2. 0 \in Proc
      BY TreeAssumption DEF Proc
    <3>. QED  BY <3>1, <3>2
  <2>2. best \in S /\ \A x \in S : best <= x
    <3>. HIDE DEF S
    <3>. QED  BY <2>1, LeastIsLeast
  <2>3. \A p \in Proc : incumbent'[p] = best
    BY DEF RampUpIncumbentSync
  <2>. HIDE DEF best
  <2>4. \A p \in Proc : best <= incumbent[p]
    BY <2>2
  <2>5. PICK f \in Proc : best = incumbent[f]
    BY <2>2
  <2>6. \A p \in Proc : incumbent'[p] = Infinite \/ \E t \in found' : Value[t] = incumbent'[p]
    BY <1>1, <2>3, <2>5 DEF EnumInv, IncumbentsAreBest
  <2>7. ASSUME NEW t \in found'
        PROVE  \E p \in Proc : incumbent'[p] <= Value[t]
    <3>1. PICK p \in Proc : incumbent[p] <= Value[t]
      BY <1>1 DEF EnumInv, IncumbentsAreBest
    <3>2. best \in Int /\ incumbent[p] \in Int
      <4>1. best \in Nat
        BY <2>1, <2>2
      <4>2. incumbent[p] \in Nat
        BY <1>1 DEF TypeOK
      <4>. QED  BY <4>1, <4>2
    <3>3. Value[t] \in Int
      BY <1>1, Numbers
    <3>. QED  BY <2>3, <2>4, <3>1, <3>2, <3>3
  <2>. QED  BY <2>6, <2>7 DEF IncumbentsAreBest
<1>7. ScanIsInOrder'
  BY <1>1, ScanLater DEF EnumInv
<1>. QED  BY <1>3, <1>4, <1>5, <1>6, <1>7 DEF EnumInv

-----------------------------------------------------------------------------
(***************************************************************************)
(* The parts of the invariant that steps change in the same way.           *)
(***************************************************************************)
\* Incumbents get better only, and become values that have been found.
LEMMA IncumbentsStay ==
  ASSUME TypeOK, TypeOK', found \subseteq found', IncumbentsAreBest,
         \A p \in Proc : /\ incumbent'[p] <= incumbent[p]
                         /\ \/ \E q \in Proc : incumbent'[p] = incumbent[q]
                            \/ \E s \in found' : incumbent'[p] = Value[s],
         \A s \in found' : s \in found \/ \E p \in Proc : incumbent'[p] <= Value[s]
  PROVE  IncumbentsAreBest'
<1>1. \A p \in Proc : incumbent[p] \in Int /\ incumbent'[p] \in Int
  BY DEF TypeOK
<1>2. \A p \in Proc : incumbent'[p] = Infinite \/ \E s \in found' : Value[s] = incumbent'[p]
  BY DEF IncumbentsAreBest
<1>3. ASSUME NEW s \in found
      PROVE  \E p \in Proc : incumbent'[p] <= Value[s]
  <2>1. PICK p \in Proc : incumbent[p] <= Value[s]
    BY DEF IncumbentsAreBest
  <2>2. Value[s] \in Int
    BY Numbers
  <2>. QED  BY <1>1, <2>1, <2>2
<1>. QED  BY <1>2, <1>3 DEF IncumbentsAreBest

\* A step leaves all messages right if those it sends are.
LEMMA MailHolds ==
  ASSUME Goes, ListsHold, NEW last, Turns(par, found, found', All, All', last),
         \A m : InNet(channel', m) => InNet(channel, m) \/ MessageHolds(par', found', All', m)
  PROVE  NetHolds(par', found', All', channel')
<1>1. NetHolds(par', found', All', channel)
  BY HoldsAfter DEF ListsHold
<1>2. \A m : InNet(channel, m) => MessageHolds(par', found', All', m)
  BY <1>1, MailInNet, Zenon
<1>. QED  BY <1>2, MailInNet, Zenon

\* Messages with solutions say nothing of lists.
LEMMA SolutionsSayNothing ==
  /\ \A c, f, all, s : MessageHolds(c, f, all, Forward(s))
  /\ \A c, f, all : MessageHolds(c, f, all, Ack)
  /\ \A c, f, all, s : MessageHolds(c, f, all, [type |-> "hashSol", sol |-> s])
<1>1. \A c, f, all, s : MessageHolds(c, f, all, Forward(s))
  BY DEF MessageHolds, Forward
<1>2. \A c, f, all : MessageHolds(c, f, all, Ack)
  BY DEF MessageHolds, Ack
<1>3. \A c, f, all, s : MessageHolds(c, f, all, [type |-> "hashSol", sol |-> s])
  BY DEF MessageHolds
<1>. QED  BY <1>1, <1>2, <1>3, Zenon

\* A solution that is offered is kept, or need not be.
LEMMA OfferedIsKept ==
  ASSUME Goes, ListsHold, NEW last, Turns(par, found, found', All, All', last),
         lastSol' = lastSol, NEW p \in Proc, NEW inc \in Int,
         inc = Infinite \/ \E t \in found' : Value[t] = inc,
         NEW s \in found', Fathoms(p, inc, Value[s]) \/ Stored(All', s)
  PROVE  Kept(s)'
<1>1. /\ TypeOK /\ par' = par /\ found' \subseteq Solution
      /\ All' \in SUBSET Identifier /\ IsFiniteSet(All')
  BY AllIsGenuineNext DEF Goes, ReposInv, TypeOK
<1>2. CutHolds(par, found', All', lastSol[p])
  <2>1. lastSol[p] \in Identifier \cup {NoSolution}
    BY <1>1 DEF TypeOK
  <2>. QED  BY <1>1, <2>1, HoldsAfter DEF ListsHold
<1>3. Fathoms(p, inc, Value[s]) => Beaten(par', found', All', Value[s])
  BY <1>1, <1>2, FathomedIsBeaten
<1>. QED  BY <1>3 DEF Kept

\* What is queued in ramp-up reaches its owner.
LEMMA HashSolutionPrint ==
  ASSUME GoesOn, NEW p \in Proc, HashSolution(p)
  PROVE  EnumInv'
<1>. PICK s : s = Head(rampUpSolQ[p])
  OBVIOUS
<1>. PICK o : o = Owner[s]
  OBVIOUS
<1>. PICK inc : inc = incumbent[o]
  OBVIOUS
<1>1. /\ Goes /\ EnumInv /\ TypeOK /\ TypeOK' /\ phase = "hashing" /\ phase' = "hashing"
      /\ found' = found /\ par' = par /\ rampUpSolQ[p] # <<>>
      /\ rampUpSolQ' = [rampUpSolQ EXCEPT ![p] = Tail(@)] /\ Offer(o, inc, s)
      /\ UNCHANGED <<incumbent, childReposArray, lastSol, channel, solSendQ, final>>
  BY DEF GoesOn, Goes, ReposInv, HashSolution, asked, merge, flow
<1>2. 1 \in DOMAIN rampUpSolQ[p] /\ rampUpSolQ[p][1] = s /\ s \in found /\ s \in Solution
  <2>1. rampUpSolQ[p] \in Seq(Solution)
    BY <1>1 DEF TypeOK
  <2>2. 1 \in DOMAIN rampUpSolQ[p] /\ rampUpSolQ[p][1] = s
    BY <1>1, <2>1
  <2>3. rampUpSolQ[p][1] \in found
    BY <1>1, <2>2 DEF Goes, ReposInv, QueuesAreGenuine
  <2>. QED  BY <1>1, <2>2, <2>3, Numbers
<1>3. o \in Proc /\ inc \in Int
  <2>1. o \in Proc
    BY <1>1, <1>2, Numbers
  <2>. QED  BY <1>1, <2>1 DEF TypeOK
<1>4. inc = Infinite \/ \E t \in found' : Value[t] = inc
  BY <1>1, <1>3 DEF EnumInv, IncumbentsAreBest
<1>5. /\ \A q \in Proc : repos[q] \subseteq repos'[q]
      /\ \A q \in Proc : \A x \in repos'[q] :
           x \in repos[q] \/ (q = o /\ x.value = Value[s] /\ ~Fathoms(o, inc, Value[s]))
      /\ Fathoms(o, inc, Value[s]) \/ Stored(All', s)
  BY <1>1, <1>2, <1>3, OfferGrows
<1>6. Turns(par, found, found', All, All', NoSolution)
  BY <1>1, <1>5, NothingDropped
<1>7. ListsHold'
  BY <1>1, <1>6, NothingListed DEF EnumInv
<1>8. NothingForgotten'
  <2>1. Kept(s)'
    BY <1>1, <1>2, <1>3, <1>4, <1>5, <1>6, OfferedIsKept DEF EnumInv
  <2>2. ASSUME NEW t, Waits(rampUpSolQ, t), t # s
        PROVE  Waits(rampUpSolQ', t)
    <3>1. PICK q \in Proc : \E i \in DOMAIN rampUpSolQ[q] : rampUpSolQ[q][i] = t
      BY <2>2 DEF Waits
    <3>2. PICK i \in DOMAIN rampUpSolQ[q] : rampUpSolQ[q][i] = t
      BY <3>1
    <3>3. CASE q = p
      <4>1. i # 1 /\ rampUpSolQ'[p] = Tail(rampUpSolQ[p])
        BY <1>1, <1>2, <2>2, <3>2, <3>3 DEF TypeOK
      <4>2. i - 1 \in DOMAIN rampUpSolQ'[p] /\ rampUpSolQ'[p][i - 1] = t
        BY <1>1, <3>2, <3>3, <4>1, WaitsOn
      <4>. QED  BY <4>2 DEF Waits
    <3>4. CASE q # p
      <4>1. rampUpSolQ'[q] = rampUpSolQ[q]
        BY <1>1, <3>4 DEF TypeOK
      <4>. QED  BY <3>2, <4>1 DEF Waits
    <3>. QED  BY <3>3, <3>4
  <2>3. \A t \in found' : t \notin found \/ Waits(rampUpSolQ, t) \/ Flies(channel, t)
                            \/ Stands(solSendQ, t) => Kept(t)'
    BY <1>1, <2>1, <2>2 DEF Kept
  <2>. QED  BY <1>1, <1>6, <2>3, RemembersAll DEF EnumInv
<1>9. PartsAreTidy'
  <2>1. ASSUME NEW q \in Proc, NEW x \in repos'[q]
        PROVE  ~Prunes(q, x.value)
    <3>1. CASE x \in repos[q]
      BY <1>1, <3>1 DEF EnumInv, PartsAreTidy
    <3>2. CASE q = o /\ x.value = Value[s] /\ ~Fathoms(o, inc, Value[s])
      BY <3>2 DEF Prunes, Fathoms
    <3>. QED  BY <1>5, <3>1, <3>2
  <2>. QED  BY <1>1, <2>1 DEF PartsAreTidy, Prunes
<1>10. PhasesGoOn' /\ IncumbentsAreBest'
  BY <1>1 DEF EnumInv, PhasesGoOn, IncumbentsAreBest
<1>11. ScanIsInOrder'
  BY <1>1, ScanLater DEF EnumInv
<1>. QED  BY <1>7, <1>8, <1>9, <1>10, <1>11 DEF EnumInv

\* The part of p is pruned by a cut-off and by the incumbent of p.
LEMMA PruningTurns ==
  ASSUME Goes, EnumInv, NEW last \in Identifier \cup {NoSolution}, last # NoSolution => Counting,
         CutHolds(par, found, All, last),
         \A p \in Proc : \A x \in repos[p] : x \in repos'[p] \/ OutOfRepository(p, x, last)
  PROVE  Turns(par, found, found', All, All', last)
<1>1. TypeOK /\ found' \subseteq Solution /\ found \subseteq found'
  BY DEF Goes, ReposInv, TypeOK
<1>2. ASSUME NEW p \in Proc, NEW x \in repos[p], x \notin repos'[p]
      PROVE  TooBad(par, found', x.value) \/ (last # NoSolution /\ Before(last, x))
  <2>1. x.value \in Int /\ x.value < Infinite
    <3>1. x.value = Value[x.sol] /\ x.sol \in Solution
      BY <1>1, AllIsGenuine DEF Goes, GenuineIn
    <3>. QED  BY <1>1, <3>1, Numbers
  <2>2. incumbent[p] \in Int /\ (incumbent[p] = Infinite \/ \E t \in found' : Value[t] = incumbent[p])
    BY <1>1 DEF TypeOK, EnumInv, IncumbentsAreBest
  <2>3. CASE par.enumAbsTol >= 0 /\ incumbent[p] - x.value < -par.enumAbsTol
    BY <1>1, <2>1, <2>2, <2>3, Numbers, ToleranceIsReal
  <2>4. CASE Counting /\ Before(last, x)
    <3>1. last # NoSolution
      BY <2>1, <2>4 DEF NoSolution, Before, Infinite
    <3>. QED  BY <2>4, <3>1
  <2>. QED  BY <1>2, <2>3, <2>4 DEF OutOfRepository
<1>. QED  BY <1>2, DropsTurn

\* The end of ramp-up: the cut-off of the whole repository.
LEMMA SyncLastSolPrint ==
  ASSUME GoesOn, SyncLastSol
  PROVE  EnumInv'
<1>. DEFINE last == IF Counting THEN CutOff(Subtree(0), NoSolution) ELSE NoSolution
<1>1. /\ Goes /\ EnumInv /\ TypeOK /\ TypeOK' /\ phase = "hashing" /\ phase' = "search"
      /\ found' = found /\ par' = par /\ \A p \in Proc : rampUpSolQ[p] = <<>>
      /\ UNCHANGED <<rampUpSolQ, incumbent, channel, solSendQ, final>>
  BY DEF GoesOn, Goes, ReposInv, SyncLastSol, asked, flow
<1>2. 0 \in Proc
  BY TreeAssumption DEF Proc
<1>3. \A p \in Proc : Subtree(p) \subseteq All
  BY BelowItself DEF Subtree, All
<1>4. last \in Identifier \cup {NoSolution} /\ CutHolds(par, found, All, last)
  <2>1. CASE Counting
    <3>1. Subtree(0) \in SUBSET Identifier /\ Ordered(Subtree(0))
      BY <1>1, <1>2, SubtreeIsGenuine, GenuineIsOrdered DEF Goes
    <3>2. ListHolds(par, found, All, Subtree(0)) /\ CutHolds(par, found, All, NoSolution)
      BY <1>2, <1>3 DEF ListHolds, CutHolds
    <3>3. last \in Identifier \cup {NoSolution}
      <4>1. lastSol'[0] = CutOff(Subtree(0), NoSolution)
        BY <1>2, <2>1 DEF SyncLastSol
      <4>. QED  BY <1>1, <1>2, <2>1, <4>1 DEF TypeOK
    <3>4. All \in SUBSET Identifier /\ IsFiniteSet(All)
      BY <1>1, AllIsGenuine DEF Goes
    <3>5. CutHolds(par, found, All, CutOff(Subtree(0), NoSolution))
      BY <1>1, <2>1, <3>1, <3>2, <3>4, Numbers, CutOffHolds
    <3>. QED  BY <2>1, <3>3, <3>5
  <2>2. CASE ~Counting
    BY <2>2 DEF CutHolds
  <2>. QED  BY <2>1, <2>2
<1>5. \A p \in Proc : repos'[p] \subseteq repos[p]
                      /\ \A x \in repos[p] : x \in repos'[p] \/ OutOfRepository(p, x, last)
  BY DEF SyncLastSol
<1>6. /\ \A p \in Proc : lastSol'[p] = last \/ (~Counting /\ lastSol'[p] = lastSol[p])
      /\ \A p \in Proc : \A c \in Children(0, p) :
           childReposArray'[p][c] \subseteq All \/ childReposArray'[p][c] = childReposArray[p][c]
  <2>1. \A p \in Proc : \A c \in Children(0, p) : Subtree(c) \subseteq All
    BY <1>3, BelowChild
  <2>2. CASE Counting
    <3>1. \A p \in Proc : lastSol'[p] = last
      BY <2>2 DEF SyncLastSol
    <3>2. \A p \in Proc : \A c \in Children(0, p) :
            childReposArray'[p][c] = BestOf(Subtree(c), par.enumCount)
      BY <2>2 DEF SyncLastSol
    <3>3. \A S : BestOf(S, par.enumCount) \subseteq S
      BY DEF BestOf
    <3>. HIDE DEF last
    <3>. QED  BY <2>1, <3>1, <3>2, <3>3
  <2>3. CASE ~Counting
    <3>1. UNCHANGED <<lastSol, childReposArray>>
      BY <2>3 DEF SyncLastSol
    <3>. QED  BY <2>3, <3>1
  <2>. QED  BY <2>2, <2>3
<1>7. last # NoSolution => Counting
  OBVIOUS
<1>. HIDE DEF last
<1>8. Turns(par, found, found', All, All', last)
  BY <1>1, <1>4, <1>5, <1>7, PruningTurns
<1>9. ListsHold'
  <2>1. ASSUME NEW p \in Proc, NEW c \in Children(0, p)
        PROVE  ListHolds(par', found', All', childReposArray'[p][c])
    <3>1. CASE childReposArray'[p][c] \subseteq All
      <4>1. ListHolds(par', found', All', All)
        BY <1>1, <1>8, HoldsAfter
      <4>. QED  BY <3>1, <4>1 DEF ListHolds
    <3>2. CASE childReposArray'[p][c] = childReposArray[p][c]
      <4>1. childReposArray[p][c] \in SUBSET Identifier
        BY <1>1 DEF TypeOK
      <4>. QED  BY <1>1, <1>8, <3>2, <4>1, HoldsAfter DEF EnumInv, ListsHold
    <3>. QED  BY <1>6, <3>1, <3>2
  <2>2. ASSUME NEW p \in Proc
        PROVE  CutHolds(par', found', All', lastSol'[p])
    <3>1. lastSol[p] \in Identifier \cup {NoSolution} /\ CutHolds(par, found, All, lastSol[p])
      BY <1>1 DEF TypeOK, EnumInv, ListsHold
    <3>. QED  BY <1>1, <1>4, <1>6, <1>8, <3>1, HoldsAfter
  <2>3. NetHolds(par', found', All', channel')
    BY <1>1, <1>8, HoldsAfter DEF EnumInv, ListsHold
  <2>. QED  BY <2>1, <2>2, <2>3 DEF ListsHold
<1>10. NothingForgotten'
  <2>1. \A t : ~Waits(rampUpSolQ, t)
    BY <1>1 DEF Waits
  <2>2. \A t \in found' : t \notin found \/ Waits(rampUpSolQ, t) \/ Flies(channel, t)
                            \/ Stands(solSendQ, t) => Kept(t)'
    BY <1>1, <2>1 DEF Kept
  <2>. QED  BY <1>1, <1>8, <2>2, RemembersAll DEF EnumInv
<1>11. PartsAreTidy'
  <2>1. \A p \in Proc : \A x \in repos'[p] : ~Prunes(p, x.value)
    BY <1>1, <1>5 DEF EnumInv, PartsAreTidy
  <2>. QED  BY <1>1, <2>1 DEF PartsAreTidy, Prunes
<1>12. PhasesGoOn' /\ IncumbentsAreBest'
  BY <1>1 DEF EnumInv, PhasesGoOn, IncumbentsAreBest
<1>13. ScanIsInOrder'
  BY <1>1, ScanLater DEF EnumInv
<1>. QED  BY <1>9, <1>10, <1>11, <1>12, <1>13 DEF EnumInv

-----------------------------------------------------------------------------
(***************************************************************************)
(* The search.                                                             *)
(***************************************************************************)
\* What has to be pruned is marked: parts that get nothing that has to be, incumbents that
\* get better with a mark, and marks that stay.
LEMMA TidyStays ==
  ASSUME PartsAreTidy, par' = par, phase' = "search",
         \A p \in Proc : /\ needPruning[p] => needPruning'[p]
                         /\ needHubPruning[p] => needHubPruning'[p]
                         /\ \/ incumbent'[p] = incumbent[p]
                            \/ IF p \in Worker THEN needPruning'[p] ELSE needHubPruning'[p],
         \A p \in Proc : \A x \in repos'[p] : x \in repos[p] \/ ~Prunes(p, x.value)'
  PROVE  PartsAreTidy'
<1>. SUFFICES ASSUME NEW p \in Proc, NEW x \in repos'[p], Prunes(p, x.value)'
              PROVE  IF p \in Worker THEN needPruning'[p] ELSE needHubPruning'[p]
  BY DEF PartsAreTidy
<1>1. CASE incumbent'[p] = incumbent[p]
  <2>1. x \in repos[p] /\ Prunes(p, x.value)
    BY <1>1 DEF Prunes
  <2>. QED  BY <2>1 DEF PartsAreTidy
<1>. QED  BY <1>1

LEMMA FindPrint ==
  ASSUME GoesOn, NEW p \in Proc, NEW s \in Solution, Find(p, s)
  PROVE  EnumInv'
<1>. PICK inc : inc = IF Value[s] < incumbent[p] THEN Value[s] ELSE incumbent[p]
  OBVIOUS
<1>1. /\ Goes /\ EnumInv /\ TypeOK /\ TypeOK' /\ phase = "search" /\ phase' = "search"
      /\ found' = found \cup {s} /\ s \in found' /\ par' = par
      /\ UNCHANGED <<rampUpSolQ, childReposArray, lastSol, final>>
  BY DEF GoesOn, Goes, ReposInv, Find, CountFind
<1>2. /\ incumbent' = [incumbent EXCEPT ![p] = inc]
      /\ needPruning' = [needPruning EXCEPT ![p] = @ \/ Value[s] < incumbent[p]]
      /\ needHubPruning' = [needHubPruning EXCEPT ![p] = @ \/ (Value[s] < incumbent[p] /\ p \in Hub)]
      /\ IF Owner[s] = p
         THEN ProcessOwnedSolution(p, inc, s) /\ UNCHANGED <<channel, flow>>
         ELSE /\ UNCHANGED <<local, needReposMerge>>
              /\ IF par.enumFlowControl THEN Route(p, s, channel)
                 ELSE /\ channel' = [channel EXCEPT ![p][Owner[s]] =
                                       Append(@, [type |-> "hashSol", sol |-> s])]
                      /\ UNCHANGED flow
  BY DEF Find
<1>3. /\ Value[s] \in Int /\ Owner[s] \in Proc /\ incumbent[p] \in Int /\ inc \in Int
      /\ incumbent'[p] = inc /\ inc <= incumbent[p] /\ inc <= Value[s]
      /\ inc = Value[s] \/ inc = incumbent[p]
      /\ \A q \in Proc : q # p => incumbent'[q] = incumbent[q]
  <2>1. Value[s] \in Int /\ Owner[s] \in Proc
    BY <1>1, Numbers
  <2>2. incumbent[p] \in Int
    BY <1>1 DEF TypeOK
  <2>3. incumbent'[p] = inc /\ \A q \in Proc : q # p => incumbent'[q] = incumbent[q]
    BY <1>1, <1>2 DEF TypeOK
  <2>. QED  BY <2>1, <2>2, <2>3
<1>4. IncumbentsAreBest'
  <2>1. \A q \in Proc : incumbent'[q] <= incumbent[q]
    <3>1. \A q \in Proc : incumbent[q] \in Int
      BY <1>1 DEF TypeOK
    <3>. QED  BY <1>3, <3>1
  <2>2. \A q \in Proc : (\E r \in Proc : incumbent'[q] = incumbent[r])
                         \/ \E t \in found' : incumbent'[q] = Value[t]
    BY <1>1, <1>3
  <2>3. \A t \in found' : t \in found \/ \E q \in Proc : incumbent'[q] <= Value[t]
    BY <1>1, <1>3
  <2>. QED  BY <1>1, <2>1, <2>2, <2>3, IncumbentsStay DEF EnumInv, Goes
<1>5. inc = Infinite \/ \E t \in found' : Value[t] = inc
  BY <1>3, <1>4 DEF IncumbentsAreBest
<1>6. /\ \A q \in Proc : repos[q] \subseteq repos'[q]
      /\ \A q \in Proc : \A x \in repos'[q] :
           x \in repos[q] \/ (q = p /\ x.value = Value[s] /\ ~Fathoms(p, inc, Value[s]))
      /\ Owner[s] = p => Fathoms(p, inc, Value[s]) \/ Stored(All', s)
  <2>1. CASE Owner[s] = p
    <3>1. Offer(p, inc, s)
      BY <1>2, <2>1 DEF ProcessOwnedSolution
    <3>. QED  BY <1>1, <2>1, <3>1, OfferGrows
  <2>2. CASE Owner[s] # p
    BY <1>2, <2>2 DEF local
  <2>. QED  BY <2>1, <2>2
<1>7. Turns(par, found, found', All, All', NoSolution)
  BY <1>1, <1>6, NothingDropped
<1>8. /\ \A m : InNet(channel, m) => InNet(channel', m)
      /\ \A m : InNet(channel', m) => InNet(channel, m) \/ m = Forward(s)
                                       \/ m = [type |-> "hashSol", sol |-> s]
      /\ \A t \in Solution : Stands(solSendQ, t) => Stands(solSendQ', t)
      /\ Owner[s] # p => Flies(channel', s) \/ Stands(solSendQ', s)
  <2>1. CASE Owner[s] = p
    BY <1>2, <2>1 DEF flow
  <2>2. CASE Owner[s] # p /\ par.enumFlowControl
    BY <1>1, <1>2, <2>2, RouteKeeps, NetsHaveType DEF Goes
  <2>3. CASE Owner[s] # p /\ ~par.enumFlowControl
    <3>. PICK x : x = [type |-> "hashSol", sol |-> s]
      OBVIOUS
    <3>1. channel' = Sent(channel, p, Owner[s], x) /\ solSendQ' = solSendQ
      BY <1>2, <2>3 DEF Sent, flow
    <3>2. \A m : InNet(channel', m) <=> InNet(channel, m) \/ m = x
      BY <1>1, <1>3, <3>1, InNetSent, NetsHaveType DEF Goes
    <3>3. Flies(channel', s)
      <4>1. x.type = "hashSol" /\ x.sol = s
        OBVIOUS
      <4>. QED  BY <3>2, <4>1, MailInNet
    <3>. QED  BY <3>1, <3>2, <3>3
  <2>. QED  BY <2>1, <2>2, <2>3
<1>9. ListsHold'
  <2>1. NetHolds(par', found', All', channel')
    BY <1>1, <1>7, <1>8, MailHolds, SolutionsSayNothing DEF EnumInv
  <2>. QED  BY <1>1, <1>7, <2>1, ListsAlone DEF EnumInv
<1>10. NothingForgotten'
  <2>1. Kept(s)'
    <3>1. CASE Owner[s] = p
      <4>1. Kept(s)'
        BY <1>1, <1>3, <1>5, <1>6, <1>7, <3>1, OfferedIsKept DEF EnumInv
      <4>. QED  BY <4>1
    <3>2. CASE Owner[s] # p
      BY <1>8, <3>2 DEF Kept
    <3>. QED  BY <3>1, <3>2
  <2>2. \A t : Flies(channel, t) => Flies(channel', t)
    BY <1>8, MailInNet
  <2>3. found' \subseteq Solution
    BY <1>1 DEF TypeOK
  <2>4. \A t \in found' : Waits(rampUpSolQ, t) \/ Flies(channel, t) \/ Stands(solSendQ, t) => Kept(t)'
    BY <1>1, <1>8, <2>2, <2>3 DEF Kept
  <2>5. \A t \in found' : t \notin found => Kept(t)'
    BY <1>1, <2>1
  <2>6. \A t \in found' : t \notin found \/ Waits(rampUpSolQ, t) \/ Flies(channel, t)
                            \/ Stands(solSendQ, t) => Kept(t)'
    BY <2>4, <2>5
  <2>. QED  BY <1>1, <1>7, <2>6, RemembersAll DEF EnumInv
<1>11. PartsAreTidy'
  <2>1. \A q \in Proc : /\ needPruning[q] => needPruning'[q]
                        /\ needHubPruning[q] => needHubPruning'[q]
                        /\ \/ incumbent'[q] = incumbent[q]
                           \/ IF q \in Worker THEN needPruning'[q] ELSE needHubPruning'[q]
    <3>1. needPruning \in [Proc -> BOOLEAN] /\ needHubPruning \in [Proc -> BOOLEAN]
      BY <1>1 DEF TypeOK
    <3>2. p \in Worker \/ p \in Hub
      BY RepositoryAssumption
    <3>3. ~(Value[s] < incumbent[p]) => incumbent'[p] = incumbent[p]
      BY <1>3
    <3>. QED  BY <1>2, <1>3, <3>1, <3>2, <3>3
  <2>2. \A q \in Proc : \A x \in repos'[q] : x \in repos[q] \/ ~Prunes(q, x.value)'
    BY <1>1, <1>3, <1>6 DEF Prunes, Fathoms
  <2>. QED  BY <1>1, <2>1, <2>2, TidyStays DEF EnumInv
<1>12. PhasesGoOn'
  BY <1>1 DEF EnumInv, PhasesGoOn
<1>13. ScanIsInOrder'
  BY <1>1, ScanLater DEF EnumInv
<1>. QED  BY <1>4, <1>9, <1>10, <1>11, <1>12, <1>13 DEF EnumInv

LEMMA HearIncumbentPrint ==
  ASSUME GoesOn, NEW p \in Proc, HearIncumbent(p)
  PROVE  EnumInv'
<1>1. /\ Goes /\ EnumInv /\ TypeOK /\ TypeOK' /\ phase = "search" /\ phase' = "search"
      /\ found' = found /\ par' = par
      /\ UNCHANGED <<rampUpSolQ, repos, childReposArray, lastSol, channel, solSendQ, final>>
  BY DEF GoesOn, Goes, ReposInv, HearIncumbent, asked, local, merge, flow
<1>2. PICK q \in Proc : incumbent[q] < incumbent[p] /\ incumbent' = [incumbent EXCEPT ![p] = incumbent[q]]
  BY DEF HearIncumbent
<1>3. \A r \in Proc : /\ incumbent[r] \in Int
                      /\ incumbent'[r] = IF r = p THEN incumbent[q] ELSE incumbent[r]
  BY <1>1, <1>2 DEF TypeOK
<1>4. Turns(par, found, found', All, All', NoSolution)
  BY <1>1, NothingDropped
<1>5. ListsHold'
  BY <1>1, <1>4, NothingListed DEF EnumInv
<1>6. NothingForgotten'
  <2>1. \A t \in found' : t \notin found \/ Waits(rampUpSolQ, t) \/ Flies(channel, t)
                            \/ Stands(solSendQ, t) => Kept(t)'
    BY <1>1 DEF Kept
  <2>. QED  BY <1>1, <1>4, <2>1, RemembersAll DEF EnumInv
<1>7. IncumbentsAreBest'
  <2>1. \A r \in Proc : incumbent'[r] <= incumbent[r] /\ \E a \in Proc : incumbent'[r] = incumbent[a]
    BY <1>2, <1>3
  <2>. QED  BY <1>1, <2>1, IncumbentsStay DEF EnumInv
<1>8. PartsAreTidy'
  <2>1. \A r \in Proc : /\ needPruning[r] => needPruning'[r]
                        /\ needHubPruning[r] => needHubPruning'[r]
                        /\ \/ incumbent'[r] = incumbent[r]
                           \/ IF r \in Worker THEN needPruning'[r] ELSE needHubPruning'[r]
    <3>1. needPruning \in [Proc -> BOOLEAN] /\ needHubPruning \in [Proc -> BOOLEAN]
      BY <1>1 DEF TypeOK
    <3>2. p \in Worker \/ p \in Hub
      BY RepositoryAssumption
    <3>3. /\ needPruning' = [needPruning EXCEPT ![p] = TRUE]
          /\ needHubPruning' = [needHubPruning EXCEPT ![p] = @ \/ p \in Hub]
      BY DEF HearIncumbent
    <3>. QED  BY <1>3, <3>1, <3>2, <3>3
  <2>. QED  BY <1>1, <2>1, TidyStays DEF EnumInv
<1>9. PhasesGoOn'
  BY <1>1 DEF EnumInv, PhasesGoOn
<1>10. ScanIsInOrder'
  BY <1>1, ScanLater DEF EnumInv
<1>. QED  BY <1>5, <1>6, <1>7, <1>8, <1>9, <1>10 DEF EnumInv

\* The part of p and what waits at its links is pruned.
LEMMA PrunePrint ==
  ASSUME GoesOn, NEW p \in Proc, phase = "search", phase' = "search", PruneRepository(p),
         found' = found,
         UNCHANGED <<rampUpSolQ, incumbent, childReposArray, lastSol, channel, final>>
  PROVE  /\ ListsHold' /\ NothingForgotten' /\ IncumbentsAreBest' /\ PhasesGoOn' /\ ScanIsInOrder'
         /\ \A q \in Proc : repos'[q] \subseteq repos[q]
         /\ \A x \in repos'[p] : ~Prunes(p, x.value)
<1>0. Goes /\ EnumInv /\ TypeOK /\ TypeOK' /\ par' = par
  BY DEF GoesOn, Goes, ReposInv
<1>1. /\ Goes /\ EnumInv /\ TypeOK /\ TypeOK' /\ par' = par
      /\ lastSol[p] \in Identifier \cup {NoSolution} /\ incumbent[p] \in Int
      /\ CutHolds(par, found, All, lastSol[p])
      /\ incumbent[p] = Infinite \/ \E t \in found' : Value[t] = incumbent[p]
  <2>1. lastSol[p] \in Identifier \cup {NoSolution} /\ incumbent[p] \in Nat
    BY <1>0 DEF TypeOK
  <2>2. CutHolds(par, found, All, lastSol[p])
    BY <1>0 DEF EnumInv, ListsHold
  <2>3. incumbent[p] = Infinite \/ \E t \in found' : Value[t] = incumbent[p]
    BY <1>0 DEF EnumInv, IncumbentsAreBest
  <2>. QED  BY <1>0, <2>1, <2>2, <2>3
<1>2. /\ \A q \in Proc : repos'[q] = IF q = p THEN {x \in repos[p] : ~OutOfRepository(p, x, lastSol[p])}
                                            ELSE repos[q]
      /\ \A q \in Proc : \A b \in Link : \A t \in Solution :
           solSendQ'[q][b][t] = IF q = p /\ Fathoms(p, incumbent[p], Value[t]) THEN 0
                                ELSE solSendQ[q][b][t]
  BY <1>1 DEF PruneRepository, TypeOK
<1>3. PICK last \in {lastSol[p], NoSolution} :
        /\ last # NoSolution => Counting
        /\ last = lastSol[p] \/ ~Counting
  OBVIOUS
<1>4. last \in Identifier \cup {NoSolution} /\ CutHolds(par, found, All, last)
  BY <1>1 DEF CutHolds
<1>5. \A q \in Proc : \A x \in repos[q] : x \in repos'[q] \/ OutOfRepository(q, x, last)
  BY <1>2, <1>3 DEF OutOfRepository
<1>6. Turns(par, found, found', All, All', last)
  BY <1>1, <1>3, <1>4, <1>5, PruningTurns
<1>7. ListsHold'
  BY <1>1, <1>6, NothingListed DEF EnumInv
<1>8. NothingForgotten'
  <2>1. ASSUME NEW t \in found', Stands(solSendQ, t)
        PROVE  Kept(t)'
    <3>1. PICK q \in Proc : \E b \in Link : Neighbor(q, b) \in Proc /\ solSendQ[q][b][t] > 0
      BY <2>1 DEF Stands
    <3>2. PICK b \in Link : Neighbor(q, b) \in Proc /\ solSendQ[q][b][t] > 0
      BY <3>1
    <3>3. t \in Solution
      BY <1>1 DEF TypeOK
    <3>4. CASE q = p /\ Fathoms(p, incumbent[p], Value[t])
      <4>1. Fathoms(p, incumbent[p], Value[t]) \/ Stored(All', t)
        BY <3>4
      <4>2. Kept(t)'
        BY <1>1, <1>6, <4>1, OfferedIsKept DEF EnumInv
      <4>. QED  BY <4>2
    <3>5. CASE ~(q = p /\ Fathoms(p, incumbent[p], Value[t]))
      <4>1. solSendQ'[q][b][t] > 0
        BY <1>2, <3>2, <3>3, <3>5
      <4>. QED  BY <3>2, <4>1 DEF Stands, Kept
    <3>. QED  BY <3>4, <3>5
  <2>2. \A t \in found' : Waits(rampUpSolQ, t) \/ Flies(channel, t) => Kept(t)'
    BY DEF Kept
  <2>3. \A t \in found' : t \notin found \/ Waits(rampUpSolQ, t) \/ Flies(channel, t)
                            \/ Stands(solSendQ, t) => Kept(t)'
    BY <2>1, <2>2
  <2>. QED  BY <1>1, <1>6, <2>3, RemembersAll DEF EnumInv
<1>9. IncumbentsAreBest' /\ PhasesGoOn'
  BY <1>1 DEF EnumInv, IncumbentsAreBest, PhasesGoOn
<1>10. ScanIsInOrder'
  BY <1>1, ScanLater DEF EnumInv
<1>11. \A x \in repos'[p] : ~Prunes(p, x.value)
  BY <1>2 DEF OutOfRepository, Prunes
<1>. QED  BY <1>2, <1>7, <1>8, <1>9, <1>10, <1>11

LEMMA WorkerPrunePrint ==
  ASSUME GoesOn, NEW p \in Proc, WorkerPrune(p)
  PROVE  EnumInv'
<1>1. /\ Goes /\ EnumInv /\ TypeOK /\ phase = "search" /\ phase' = "search" /\ PruneRepository(p)
      /\ found' = found /\ par' = par
      /\ UNCHANGED <<rampUpSolQ, incumbent, childReposArray, lastSol, channel, final>>
  BY DEF GoesOn, Goes, ReposInv, WorkerPrune, asked, merge
<1>2. /\ ListsHold' /\ NothingForgotten' /\ IncumbentsAreBest' /\ PhasesGoOn' /\ ScanIsInOrder'
      /\ \A q \in Proc : repos'[q] \subseteq repos[q]
      /\ \A x \in repos'[p] : ~Prunes(p, x.value)
  BY <1>1, PrunePrint
<1>3. \A q \in Proc : q # p => needPruning'[q] = needPruning[q] /\ needHubPruning'[q] = needHubPruning[q]
  <2>1. needPruning \in [Proc -> BOOLEAN] /\ needHubPruning \in [Proc -> BOOLEAN]
    BY <1>1 DEF TypeOK
  <2>. QED  BY <2>1 DEF WorkerPrune
<1>4. PartsAreTidy'
  <2>. SUFFICES ASSUME NEW q \in Proc, NEW x \in repos'[q], Prunes(q, x.value)
                PROVE  IF q \in Worker THEN needPruning'[q] ELSE needHubPruning'[q]
    BY <1>1 DEF PartsAreTidy, Prunes
  <2>1. q # p /\ x \in repos[q]
    BY <1>2
  <2>. QED  BY <1>1, <1>3, <2>1 DEF EnumInv, PartsAreTidy
<1>. QED  BY <1>2, <1>4 DEF EnumInv

\* A part that a hub leaves as it is has nothing to be pruned.
LEMMA HubPrunePrint ==
  ASSUME GoesOn, NEW p \in Proc, HubPrune(p)
  PROVE  EnumInv'
<1>1. /\ Goes /\ EnumInv /\ TypeOK /\ TypeOK' /\ phase = "search" /\ phase' = "search"
      /\ found' = found /\ par' = par
      /\ UNCHANGED <<rampUpSolQ, incumbent, childReposArray, lastSol, channel, final>>
  BY DEF GoesOn, Goes, ReposInv, HubPrune, asked, merge
<1>2. /\ ListsHold' /\ NothingForgotten' /\ IncumbentsAreBest' /\ PhasesGoOn' /\ ScanIsInOrder'
      /\ \A q \in Proc : repos'[q] \subseteq repos[q]
      /\ \A x \in repos'[p] : ~Prunes(p, x.value)
  <2>1. CASE IF p \in Worker THEN needPruning[p] ELSE Counting
    <3>1. PruneRepository(p)
      BY <2>1 DEF HubPrune
    <3>. QED  BY <1>1, <3>1, PrunePrint
  <2>2. CASE ~(IF p \in Worker THEN needPruning[p] ELSE Counting)
    <3>1. repos' = repos /\ solSendQ' = solSendQ
      BY <2>2 DEF HubPrune
    <3>2. Turns(par, found, found', All, All', NoSolution)
      BY <1>1, <3>1, NothingDropped
    <3>3. ListsHold'
      BY <1>1, <3>2, NothingListed DEF EnumInv
    <3>4. NothingForgotten'
      <4>1. \A t \in found' : t \notin found \/ Waits(rampUpSolQ, t) \/ Flies(channel, t)
                                \/ Stands(solSendQ, t) => Kept(t)'
        BY <1>1, <3>1 DEF Kept
      <4>. QED  BY <1>1, <3>2, <4>1, RemembersAll DEF EnumInv
    <3>5. IncumbentsAreBest' /\ PhasesGoOn'
      BY <1>1 DEF EnumInv, IncumbentsAreBest, PhasesGoOn
    <3>6. ScanIsInOrder'
      BY <1>1, ScanLater DEF EnumInv
    <3>7. ASSUME NEW x \in repos'[p] PROVE ~Prunes(p, x.value)
      <4>1. CASE p \in Worker
        BY <1>1, <2>2, <3>1, <4>1 DEF EnumInv, PartsAreTidy
      <4>2. CASE p \notin Worker
        <5>1. p \in Hub /\ ~Counting /\ par \in Parameters
          BY <1>1, <2>2, <4>2, RepositoryAssumption DEF TypeOK
        <5>2. ~(par.enumAbsTol >= 0 /\ par.enumCount <= 1)
          BY <1>1, <4>2, <5>1 DEF Goes, HubsSuffice
        <5>3. par.enumCount \in Int
          BY <1>1, Numbers
        <5>. QED  BY <5>1, <5>2, <5>3 DEF Prunes, Counting
      <4>. QED  BY <4>1, <4>2
    <3>. QED  BY <3>1, <3>3, <3>4, <3>5, <3>6, <3>7
  <2>. QED  BY <2>1, <2>2
<1>3. \A q \in Proc : q # p => needPruning'[q] = needPruning[q] /\ needHubPruning'[q] = needHubPruning[q]
  <2>1. needPruning \in [Proc -> BOOLEAN] /\ needHubPruning \in [Proc -> BOOLEAN]
    BY <1>1 DEF TypeOK
  <2>. QED  BY <2>1 DEF HubPrune
<1>4. PartsAreTidy'
  <2>. SUFFICES ASSUME NEW q \in Proc, NEW x \in repos'[q], Prunes(q, x.value)
                PROVE  IF q \in Worker THEN needPruning'[q] ELSE needHubPruning'[q]
    BY <1>1 DEF PartsAreTidy, Prunes
  <2>1. q # p /\ x \in repos[q]
    BY <1>2
  <2>. QED  BY <1>1, <1>3, <2>1 DEF EnumInv, PartsAreTidy
<1>. QED  BY <1>2, <1>4 DEF EnumInv

\* What most steps of the search do to the rest of the invariant.
LEMMA SearchGoesOn ==
  ASSUME GoesOn, phase = "search", phase' = "search", found' = found,
         UNCHANGED <<rampUpSolQ, incumbent, final>>,
         \A q \in Proc : /\ needPruning[q] => needPruning'[q]
                         /\ needHubPruning[q] => needHubPruning'[q],
         \A q \in Proc : \A x \in repos'[q] : x \in repos[q] \/ ~Prunes(q, x.value)
  PROVE  PartsAreTidy' /\ IncumbentsAreBest' /\ PhasesGoOn' /\ ScanIsInOrder'
<1>1. EnumInv /\ par' = par /\ incumbent' = incumbent
  BY DEF GoesOn, Goes
<1>2. \A q \in Proc : \A x \in repos'[q] : x \in repos[q] \/ ~Prunes(q, x.value)'
  BY <1>1 DEF Prunes
<1>3. PartsAreTidy'
  BY <1>1, <1>2, TidyStays DEF EnumInv
<1>4. IncumbentsAreBest' /\ PhasesGoOn'
  BY <1>1 DEF EnumInv, IncumbentsAreBest, PhasesGoOn
<1>5. ScanIsInOrder'
  BY <1>1, ScanLater DEF EnumInv
<1>. QED  BY <1>3, <1>4, <1>5

LEMMA SearchRemembers ==
  ASSUME GoesOn, NEW last, Turns(par, found, found', All, All', last),
         found' = found, rampUpSolQ' = rampUpSolQ,
         \A t \in found : Flies(channel, t) \/ Stands(solSendQ, t) => Kept(t)'
  PROVE  NothingForgotten'
<1>1. \A t \in found' : t \notin found \/ Waits(rampUpSolQ, t) \/ Flies(channel, t)
                          \/ Stands(solSendQ, t) => Kept(t)'
  BY DEF Kept
<1>. QED  BY <1>1, RemembersAll DEF GoesOn, EnumInv

\* More mail brings more solutions.
LEMMA MoreFlies ==
  ASSUME NEW a, NEW b, \A m : InNet(a, m) => InNet(b, m)
  PROVE  \A t : Flies(a, t) => Flies(b, t)
  BY MailInNet, Zenon

\* What a message that is taken leaves behind.
LEMMA TakenMail ==
  ASSUME GoesOn, NEW p \in Proc, NEW q \in Proc, NEW type, Message(p, q, type)
  PROVE  LET m == Head(channel[q][p])
         IN  /\ Taken(p, q) \in Nets /\ \A x : InNet(Taken(p, q), x) => InNet(channel, x)
             /\ m \in Messages /\ m.type = type /\ MessageIn(found, par.enumCount, q, p, m)
             /\ MessageHolds(par, found, All, m)
             /\ \A t : Flies(channel, t) => \/ Flies(Taken(p, q), t)
                                            \/ type \in {"hashSol", "forwardSol"} /\ m.sol = t
             /\ Goes /\ EnumInv /\ TypeOK /\ TypeOK' /\ phase = "search" /\ phase' = "search"
             /\ found' = found /\ par' = par /\ UNCHANGED <<rampUpSolQ, incumbent, final>>
<1>. PICK m : m = Head(channel[q][p])
  OBVIOUS
<1>1. Goes /\ ReposInv /\ EnumInv /\ TypeOK /\ TypeOK' /\ channel \in Nets /\ channel[q][p] # <<>>
  BY NetsHaveType DEF GoesOn, Goes, ReposInv, Message
<1>2. /\ m \in Messages /\ m.type = type /\ MessageIn(found, par.enumCount, q, p, m)
      /\ found' = found /\ par' = par /\ UNCHANGED <<rampUpSolQ, incumbent, final>>
  BY <1>1, MessageTaken
<1>3. phase = "search" /\ phase' = "search"
  BY DEF Message
<1>4. Taken(p, q) = Received(channel, p, q)
  BY DEF Taken, Received
<1>5. /\ \A x : InNet(channel, x) => InNet(Taken(p, q), x) \/ x = m
      /\ \A x : InNet(Taken(p, q), x) => InNet(channel, x)
      /\ InNet(channel, m)
  BY <1>1, <1>4, InNetReceived
<1>6. Taken(p, q) \in Nets
  BY <1>1, <1>4, OtherChannels
<1>7. MessageHolds(par, found, All, m)
  BY <1>1, <1>5, MailInNet DEF EnumInv, ListsHold
<1>8. \A t : Flies(channel, t) => \/ Flies(Taken(p, q), t)
                                  \/ type \in {"hashSol", "forwardSol"} /\ m.sol = t
  <2>. TAKE t
  <2>. HAVE Flies(channel, t)
  <2>1. PICK x : InNet(channel, x) /\ x.type \in {"hashSol", "forwardSol"} /\ x.sol = t
    BY MailInNet, Zenon
  <2>. QED  BY <1>2, <1>5, <2>1, MailInNet
<1>. QED  BY <1>1, <1>2, <1>3, <1>5, <1>6, <1>7, <1>8

\* A solution arrives at its owner.
LEMMA OwnedPrint ==
  ASSUME GoesOn, NEW p \in Proc, NEW s \in found, Owner[s] = p,
         ProcessOwnedSolution(p, incumbent[p], s), found' = found, incumbent' = incumbent,
         lastSol' = lastSol
  PROVE  /\ Turns(par, found, found', All, All', NoSolution) /\ Kept(s)'
         /\ \A q \in Proc : \A x \in repos'[q] : x \in repos[q] \/ ~Prunes(q, x.value)
<1>. PICK inc : inc = incumbent[p]
  OBVIOUS
<1>1. Goes /\ EnumInv /\ TypeOK /\ Offer(p, inc, s)
  BY DEF GoesOn, Goes, ReposInv, ProcessOwnedSolution
<1>2. inc \in Int /\ (inc = Infinite \/ \E t \in found' : Value[t] = inc)
  <2>1. inc \in Nat
    BY <1>1 DEF TypeOK
  <2>. QED  BY <1>1, <2>1 DEF EnumInv, IncumbentsAreBest
<1>3. /\ \A q \in Proc : repos[q] \subseteq repos'[q]
      /\ \A q \in Proc : \A x \in repos'[q] :
           x \in repos[q] \/ (q = p /\ x.value = Value[s] /\ ~Fathoms(p, inc, Value[s]))
      /\ Fathoms(p, inc, Value[s]) \/ Stored(All', s)
  BY <1>1, OfferGrows
<1>4. Turns(par, found, found', All, All', NoSolution)
  BY <1>1, <1>3, NothingDropped
<1>5. Kept(s)'
  BY <1>1, <1>2, <1>3, <1>4, OfferedIsKept DEF EnumInv
<1>6. \A q \in Proc : \A x \in repos'[q] : x \in repos[q] \/ ~Prunes(q, x.value)
  BY <1>3 DEF Prunes, Fathoms
<1>. QED  BY <1>4, <1>5, <1>6

LEMMA HashSolPrint ==
  ASSUME GoesOn, NEW p \in Proc, NEW q \in Proc, HashSol(p, q)
  PROVE  EnumInv'
<1>. PICK m : m = Head(channel[q][p])
  OBVIOUS
<1>. PICK s : s = m.sol
  OBVIOUS
<1>0. Message(p, q, "hashSol")
  BY DEF HashSol
<1>1. /\ Taken(p, q) \in Nets /\ \A x : InNet(Taken(p, q), x) => InNet(channel, x)
      /\ m \in Messages /\ m.type = "hashSol" /\ MessageIn(found, par.enumCount, q, p, m)
      /\ \A t : Flies(channel, t) => Flies(Taken(p, q), t) \/ s = t
      /\ Goes /\ EnumInv /\ TypeOK /\ TypeOK' /\ phase = "search" /\ phase' = "search"
      /\ found' = found /\ par' = par /\ UNCHANGED <<rampUpSolQ, incumbent, final>>
  BY <1>0, TakenMail
<1>2. /\ ProcessOwnedSolution(p, incumbent[p], s) /\ channel' = Taken(p, q)
      /\ UNCHANGED <<needPruning, needHubPruning, lastSol, childReposArray, solSendQ>>
  BY DEF HashSol, prune, flow
<1>3. s \in found /\ Owner[s] = p
  BY <1>1 DEF MessageIn
<1>4. /\ Turns(par, found, found', All, All', NoSolution) /\ Kept(s)'
      /\ \A r \in Proc : \A x \in repos'[r] : x \in repos[r] \/ ~Prunes(r, x.value)
  BY <1>1, <1>2, <1>3, OwnedPrint
<1>5. ListsHold'
  <2>1. NetHolds(par', found', All', channel')
    BY <1>1, <1>2, <1>4, MailHolds DEF EnumInv
  <2>. QED  BY <1>1, <1>2, <1>4, <2>1, ListsAlone DEF EnumInv
<1>6. NothingForgotten'
  <2>1. \A t \in found : Flies(channel, t) \/ Stands(solSendQ, t) => Kept(t)'
    BY <1>1, <1>2, <1>4 DEF Kept
  <2>. QED  BY <1>1, <1>4, <2>1, SearchRemembers
<1>7. PartsAreTidy' /\ IncumbentsAreBest' /\ PhasesGoOn' /\ ScanIsInOrder'
  BY <1>1, <1>2, <1>4, SearchGoesOn
<1>. QED  BY <1>5, <1>6, <1>7 DEF EnumInv

\* A list arrives at the parent.
LEMMA ReposArrayPrint ==
  ASSUME GoesOn, NEW p \in Proc, NEW q \in Proc, ReposArray(p, q)
  PROVE  EnumInv'
<1>. PICK m : m = Head(channel[q][p])
  OBVIOUS
<1>0. Message(p, q, "reposArray")
  BY DEF ReposArray
<1>1. /\ Taken(p, q) \in Nets /\ \A x : InNet(Taken(p, q), x) => InNet(channel, x)
      /\ m \in Messages /\ m.type = "reposArray" /\ MessageHolds(par, found, All, m)
      /\ \A t : Flies(channel, t) => Flies(Taken(p, q), t)
      /\ Goes /\ EnumInv /\ TypeOK /\ TypeOK' /\ phase = "search" /\ phase' = "search"
      /\ found' = found /\ par' = par /\ UNCHANGED <<rampUpSolQ, incumbent, final>>
  BY <1>0, TakenMail
<1>2. /\ childReposArray' = [childReposArray EXCEPT ![p][q] = m.ids] /\ channel' = Taken(p, q)
      /\ UNCHANGED <<needPruning, needHubPruning, lastSol, repos, solSendQ>>
  BY DEF ReposArray, local, prune, flow
<1>3. Turns(par, found, found', All, All', NoSolution)
  BY <1>1, <1>2, NothingDropped
<1>4. m.ids \in SUBSET Identifier /\ ListHolds(par, found, All, m.ids)
  BY <1>1, MessageTypes DEF MessageHolds
<1>5. ListsHold'
  <2>1. NetHolds(par', found', All', channel')
    BY <1>1, <1>2, <1>3, MailHolds DEF EnumInv
  <2>2. ASSUME NEW r \in Proc, NEW c \in Children(0, r)
        PROVE  ListHolds(par', found', All', childReposArray'[r][c])
    <3>1. childReposArray'[r][c] \in {childReposArray[r][c], m.ids}
      <4>1. childReposArray' = [a \in Proc |->
              IF a = p THEN [childReposArray[p] EXCEPT ![q] = m.ids] ELSE childReposArray[a]]
        <5>1. childReposArray = [a \in Proc |-> childReposArray[a]]
          BY <1>1 DEF TypeOK
        <5>. QED  BY <1>2, <5>1
      <4>2. childReposArray[p] \in [Children(0, p) -> SUBSET Identifier]
        BY <1>1 DEF TypeOK
      <4>. QED  BY <4>1, <4>2
    <3>2. childReposArray[r][c] \in SUBSET Identifier /\ ListHolds(par, found, All, childReposArray[r][c])
      BY <1>1 DEF TypeOK, EnumInv, ListsHold
    <3>. QED  BY <1>1, <1>3, <1>4, <3>1, <3>2, HoldsAfter
  <2>3. ASSUME NEW r \in Proc
        PROVE  CutHolds(par', found', All', lastSol'[r])
    <3>1. lastSol[r] \in Identifier \cup {NoSolution} /\ CutHolds(par, found, All, lastSol[r])
      BY <1>1 DEF TypeOK, EnumInv, ListsHold
    <3>. QED  BY <1>1, <1>2, <1>3, <3>1, HoldsAfter
  <2>. QED  BY <2>1, <2>2, <2>3 DEF ListsHold
<1>6. NothingForgotten'
  <2>1. \A t \in found : Flies(channel, t) \/ Stands(solSendQ, t) => Kept(t)'
    BY <1>1, <1>2 DEF Kept
  <2>. QED  BY <1>1, <1>3, <2>1, SearchRemembers
<1>7. PartsAreTidy' /\ IncumbentsAreBest' /\ PhasesGoOn' /\ ScanIsInOrder'
  BY <1>1, <1>2, SearchGoesOn
<1>. QED  BY <1>5, <1>6, <1>7 DEF EnumInv

\* A right cut-off is taken over and passed on.
LEMMA CutOffSpreads ==
  ASSUME GoesOn, Turns(par, found, found', All, All', NoSolution),
         childReposArray' = childReposArray,
         NEW last \in Identifier \cup {NoSolution}, CutHolds(par, found, All, last),
         \A p \in Proc : lastSol'[p] \in {lastSol[p], last},
         \A m : InNet(channel', m) => \/ InNet(channel, m) \/ MessageHolds(par', found', All', m)
                                      \/ m = [type |-> "newLastSol", id |-> last]
  PROVE  ListsHold'
<1>1. Goes /\ ListsHold /\ TypeOK
  BY DEF GoesOn, Goes, ReposInv, EnumInv
<1>2. CutHolds(par', found', All', last)
  BY <1>1, HoldsAfter
<1>3. MessageHolds(par', found', All', [type |-> "newLastSol", id |-> last])
  BY <1>2 DEF MessageHolds
<1>4. NetHolds(par', found', All', channel')
  BY <1>1, <1>3, MailHolds
<1>5. ASSUME NEW p \in Proc, NEW c \in Children(0, p)
      PROVE  ListHolds(par', found', All', childReposArray'[p][c])
  <2>1. childReposArray[p][c] \in SUBSET Identifier /\ ListHolds(par, found, All, childReposArray[p][c])
    BY <1>1 DEF TypeOK, ListsHold
  <2>. QED  BY <1>1, <2>1, HoldsAfter
<1>6. ASSUME NEW p \in Proc
      PROVE  CutHolds(par', found', All', lastSol'[p])
  <2>1. lastSol[p] \in Identifier \cup {NoSolution} /\ CutHolds(par, found, All, lastSol[p])
    BY <1>1 DEF TypeOK, ListsHold
  <2>. QED  BY <1>1, <1>2, <2>1, HoldsAfter
<1>. QED  BY <1>4, <1>5, <1>6 DEF ListsHold

LEMMA NewLastSolPrint ==
  ASSUME GoesOn, NEW p \in Proc, NEW q \in Proc, NewLastSol(p, q)
  PROVE  EnumInv'
<1>. PICK m : m = Head(channel[q][p])
  OBVIOUS
<1>. PICK last : last = Updated(lastSol[p], m.id)
  OBVIOUS
<1>0. Message(p, q, "newLastSol")
  BY DEF NewLastSol
<1>1. /\ Taken(p, q) \in Nets /\ \A x : InNet(Taken(p, q), x) => InNet(channel, x)
      /\ m \in Messages /\ m.type = "newLastSol" /\ MessageHolds(par, found, All, m)
      /\ \A t : Flies(channel, t) => Flies(Taken(p, q), t)
      /\ Goes /\ EnumInv /\ TypeOK /\ TypeOK' /\ phase = "search" /\ phase' = "search"
      /\ found' = found /\ par' = par /\ UNCHANGED <<rampUpSolQ, incumbent, final>>
  BY <1>0, TakenMail
<1>2. /\ lastSol' = [lastSol EXCEPT ![p] = last] /\ channel' = Relayed(Taken(p, q), p, last)
      /\ needPruning' = [needPruning EXCEPT ![p] = TRUE]
      /\ needHubPruning' = [needHubPruning EXCEPT ![p] = @ \/ p \in Hub]
      /\ UNCHANGED <<repos, childReposArray, solSendQ>>
  BY DEF NewLastSol, local, flow
<1>3. Turns(par, found, found', All, All', NoSolution)
  BY <1>1, <1>2, NothingDropped
<1>4. last \in Identifier \cup {NoSolution} /\ CutHolds(par, found, All, last)
  <2>1. m.id \in Identifier \cup {NoSolution} /\ CutHolds(par, found, All, m.id)
    BY <1>1, MessageTypes DEF MessageHolds
  <2>2. lastSol[p] \in Identifier \cup {NoSolution} /\ CutHolds(par, found, All, lastSol[p])
    BY <1>1 DEF TypeOK, EnumInv, ListsHold
  <2>. QED  BY <2>1, <2>2 DEF Updated
<1>5. /\ \A x : InNet(Taken(p, q), x) => InNet(channel', x)
      /\ \A x : InNet(channel', x)
                  => InNet(Taken(p, q), x) \/ x = [type |-> "newLastSol", id |-> last]
  BY <1>1, <1>2, InNetRelayed
<1>6. ListsHold'
  <2>1. \A r \in Proc : lastSol'[r] \in {lastSol[r], last}
    BY <1>1, <1>2 DEF TypeOK
  <2>2. \A x : InNet(channel', x) => InNet(channel, x) \/ x = [type |-> "newLastSol", id |-> last]
    BY <1>1, <1>5
  <2>. QED  BY <1>2, <1>3, <1>4, <2>1, <2>2, CutOffSpreads
<1>7. NothingForgotten'
  <2>1. \A t : Flies(channel, t) => Flies(channel', t)
    <3>1. \A t : Flies(Taken(p, q), t) => Flies(channel', t)
      BY <1>5, MoreFlies
    <3>. QED  BY <1>1, <3>1
  <2>2. \A t \in found : Flies(channel, t) \/ Stands(solSendQ, t) => Kept(t)'
    BY <1>2, <2>1 DEF Kept
  <2>. QED  BY <1>1, <1>3, <2>2, SearchRemembers
<1>8. \A r \in Proc : /\ needPruning[r] => needPruning'[r]
                      /\ needHubPruning[r] => needHubPruning'[r]
  <2>1. needPruning \in [Proc -> BOOLEAN] /\ needHubPruning \in [Proc -> BOOLEAN]
    BY <1>1 DEF TypeOK
  <2>. QED  BY <1>2, <2>1
<1>9. PartsAreTidy' /\ IncumbentsAreBest' /\ PhasesGoOn' /\ ScanIsInOrder'
  BY <1>1, <1>2, <1>8, SearchGoesOn
<1>. QED  BY <1>6, <1>7, <1>9 DEF EnumInv

\* What p knows is sent to its parent, or, at the root, makes a cut-off.
LEMMA ReposArraySendPrint ==
  ASSUME GoesOn, NEW p \in Proc, ReposArraySend(p)
  PROVE  EnumInv'
<1>. PICK ids : ids = BestOf(repos[p] \cup UNION {childReposArray[p][c] : c \in Children(0, p)},
                             par.enumCount)
  OBVIOUS
<1>. PICK last : last = CutOff(ids, lastSol[p])
  OBVIOUS
<1>1. /\ Goes /\ ReposInv /\ EnumInv /\ TypeOK /\ TypeOK' /\ phase = "search" /\ phase' = "search"
      /\ found' = found /\ par' = par /\ Counting /\ channel \in Nets
      /\ UNCHANGED <<rampUpSolQ, incumbent, repos, childReposArray, solSendQ, final>>
  BY NetsHaveType DEF GoesOn, Goes, ReposInv, CutOffsAreReal, ReposArraySend, asked, local, flow
<1>2. IF p # 0
      THEN /\ channel' = [channel EXCEPT ![p][Parent(0, p)] =
                            Append(@, [type |-> "reposArray", ids |-> ids])]
           /\ UNCHANGED <<lastSol, needPruning, needHubPruning>>
      ELSE /\ lastSol' = [lastSol EXCEPT ![p] = last]
           /\ needPruning' = [needPruning EXCEPT ![p] = @ \/ last # lastSol[p]]
           /\ needHubPruning' = [needHubPruning EXCEPT
                                   ![p] = @ \/ (last # lastSol[p] /\ p \in Hub)]
           /\ channel' = IF last = lastSol[p] THEN channel ELSE Relayed(channel, p, last)
  BY DEF ReposArraySend, prune
<1>3. Turns(par, found, found', All, All', NoSolution)
  BY <1>1, NothingDropped
<1>4. ids \in SUBSET Identifier /\ Ordered(ids) /\ ListHolds(par, found, All, ids)
  <2>1. ids \in SUBSET Identifier /\ GenuineIn(found, ids, Below[p])
    BY <1>1, MergedIsGenuine
  <2>2. \A x \in ids : x \in repos[p] \/ \E c \in Children(0, p) : x \in childReposArray[p][c]
    BY DEF BestOf
  <2>3. repos[p] \subseteq All /\ \A c \in Children(0, p) :
                                    ListHolds(par, found, All, childReposArray[p][c])
    BY <1>1, AllIsGenuine DEF EnumInv, ListsHold
  <2>. QED  BY <2>1, <2>2, <2>3, GenuineIsOrdered DEF ListHolds
<1>5. last \in Identifier \cup {NoSolution} /\ CutHolds(par, found, All, last)
  <2>1. lastSol[p] \in Identifier \cup {NoSolution} /\ CutHolds(par, found, All, lastSol[p])
    BY <1>1 DEF TypeOK, EnumInv, ListsHold
  <2>2. CutHolds(par, found, All, last)
    BY <1>1, <1>4, <2>1, AllIsGenuine, Numbers, CutOffHolds
  <2>3. last \in Identifier \cup {NoSolution}
    <3>1. ids \in SUBSET Identifier /\ GenuineIn(found, ids, Below[p]) /\ Real(lastSol[p])
      BY <1>1, MergedIsGenuine DEF ReposInv, CutOffsAreReal
    <3>. QED  BY <1>1, <2>1, <3>1, CutOffOfGenuine
  <2>. QED  BY <2>2, <2>3
<1>6. /\ \A r \in Proc : lastSol'[r] \in {lastSol[r], last}
      /\ \A m : InNet(channel, m) => InNet(channel', m)
      /\ \A m : InNet(channel', m) => \/ InNet(channel, m) \/ MessageHolds(par', found', All', m)
                                      \/ m = [type |-> "newLastSol", id |-> last]
      /\ \A r \in Proc : /\ needPruning[r] => needPruning'[r]
                         /\ needHubPruning[r] => needHubPruning'[r]
  <2>1. CASE p # 0
    <3>. PICK x : x = [type |-> "reposArray", ids |-> ids]
      OBVIOUS
    <3>1. Parent(0, p) \in Proc
      <4>1. 0 \in Proc
        BY TreeAssumption DEF Proc
      <4>. QED  BY <2>1, <4>1, ParentOfChild
    <3>2. channel' = Sent(channel, p, Parent(0, p), x)
      BY <1>2, <2>1 DEF Sent
    <3>3. \A m : InNet(channel', m) <=> InNet(channel, m) \/ m = x
      BY <1>1, <3>1, <3>2, InNetSent
    <3>4. MessageHolds(par', found', All', x)
      <4>1. ListHolds(par', found', All', ids)
        BY <1>1, <1>3, <1>4, HoldsAfter
      <4>. QED  BY <4>1 DEF MessageHolds
    <3>. QED  BY <1>2, <2>1, <3>3, <3>4
  <2>2. CASE p = 0
    <3>1. /\ lastSol' = [lastSol EXCEPT ![p] = last]
          /\ needPruning' = [needPruning EXCEPT ![p] = @ \/ last # lastSol[p]]
          /\ needHubPruning' = [needHubPruning EXCEPT
                                  ![p] = @ \/ (last # lastSol[p] /\ p \in Hub)]
          /\ channel' = channel \/ channel' = Relayed(channel, p, last)
      BY <1>2, <2>2
    <3>2. /\ \A r \in Proc : lastSol'[r] \in {lastSol[r], last}
          /\ \A r \in Proc : /\ needPruning[r] => needPruning'[r]
                             /\ needHubPruning[r] => needHubPruning'[r]
      <4>1. /\ needPruning \in [Proc -> BOOLEAN] /\ needHubPruning \in [Proc -> BOOLEAN]
            /\ lastSol \in [Proc -> Identifier \cup {NoSolution}]
        BY <1>1 DEF TypeOK
      <4>. QED  BY <3>1, <4>1
    <3>3. /\ \A m : InNet(channel, m) => InNet(channel', m)
          /\ \A m : InNet(channel', m)
                      => InNet(channel, m) \/ m = [type |-> "newLastSol", id |-> last]
      <4>1. CASE channel' = channel
        BY <4>1
      <4>2. CASE channel' = Relayed(channel, p, last)
        BY <1>1, <4>2, InNetRelayed
      <4>. QED  BY <3>1, <4>1, <4>2
    <3>. QED  BY <3>2, <3>3
  <2>. QED  BY <2>1, <2>2
<1>7. ListsHold'
  BY <1>1, <1>3, <1>5, <1>6, CutOffSpreads
<1>8. NothingForgotten'
  <2>1. \A t : Flies(channel, t) => Flies(channel', t)
    <3>1. \A m : InNet(channel, m) => InNet(channel', m)
      BY <1>6
    <3>. QED  BY <3>1, MoreFlies
  <2>2. \A t \in found : Flies(channel, t) \/ Stands(solSendQ, t) => Kept(t)'
    BY <1>1, <2>1 DEF Kept
  <2>. QED  BY <1>1, <1>3, <2>2, SearchRemembers
<1>9. PartsAreTidy' /\ IncumbentsAreBest' /\ PhasesGoOn' /\ ScanIsInOrder'
  BY <1>1, <1>6, SearchGoesOn
<1>. QED  BY <1>7, <1>8, <1>9 DEF EnumInv

\* A solution arrives with flow control, or goes on.
LEMMA ForwardSolPrint ==
  ASSUME GoesOn, NEW p \in Proc, NEW q \in Proc, ForwardSol(p, q)
  PROVE  EnumInv'
<1>. PICK m : m = Head(channel[q][p])
  OBVIOUS
<1>. PICK s : s = m.sol
  OBVIOUS
<1>. PICK net : net = Sent(Taken(p, q), p, q, Ack)
  OBVIOUS
<1>0. Message(p, q, "forwardSol")
  BY DEF ForwardSol
<1>1. /\ Taken(p, q) \in Nets /\ \A x : InNet(Taken(p, q), x) => InNet(channel, x)
      /\ m \in Messages /\ m.type = "forwardSol" /\ MessageIn(found, par.enumCount, q, p, m)
      /\ \A t : Flies(channel, t) => Flies(Taken(p, q), t) \/ s = t
      /\ Goes /\ EnumInv /\ TypeOK /\ TypeOK' /\ phase = "search" /\ phase' = "search"
      /\ found' = found /\ par' = par /\ UNCHANGED <<rampUpSolQ, incumbent, final>>
  BY <1>0, TakenMail
<1>2. /\ IF Owner[s] = p
         THEN /\ ProcessOwnedSolution(p, incumbent[p], s)
              /\ channel' = net /\ solSendQ' = solSendQ
         ELSE Route(p, s, net) /\ UNCHANGED <<repos, parallelSolCounter, needReposMerge>>
      /\ UNCHANGED <<needPruning, needHubPruning, lastSol, childReposArray>>
  BY DEF ForwardSol, prune, flow, local, Sent
<1>3. s \in found /\ s \in Solution
  BY <1>1, Numbers DEF MessageIn
<1>4. /\ \A x : InNet(net, x) <=> InNet(Taken(p, q), x) \/ x = Ack
      /\ net \in Nets
  <2>1. \A x : InNet(net, x) <=> InNet(Taken(p, q), x) \/ x = Ack
    BY <1>1, InNetSent
  <2>2. Ack \in Messages
    BY DEF Ack, Messages
  <2>. QED  BY <1>1, <2>1, <2>2, OtherChannels
<1>5. /\ \A x : InNet(net, x) => InNet(channel', x)
      /\ \A x : InNet(channel', x) => InNet(net, x) \/ x = Forward(s)
      /\ \A t \in Solution : Stands(solSendQ, t) => Stands(solSendQ', t)
      /\ Owner[s] # p => Flies(channel', s) \/ Stands(solSendQ', s)
  <2>1. CASE Owner[s] = p
    BY <1>2, <2>1
  <2>2. CASE Owner[s] # p
    BY <1>1, <1>2, <1>3, <1>4, <2>2, RouteKeeps
  <2>. QED  BY <2>1, <2>2
<1>6. /\ Turns(par, found, found', All, All', NoSolution) /\ Kept(s)'
      /\ \A r \in Proc : \A x \in repos'[r] : x \in repos[r] \/ ~Prunes(r, x.value)
  <2>1. CASE Owner[s] = p
    BY <1>1, <1>2, <1>3, <2>1, OwnedPrint
  <2>2. CASE Owner[s] # p
    <3>1. Turns(par, found, found', All, All', NoSolution)
      BY <1>1, <1>2, <2>2, NothingDropped
    <3>. QED  BY <1>2, <1>5, <2>2, <3>1 DEF Kept
  <2>. QED  BY <2>1, <2>2
<1>7. ListsHold'
  <2>1. NetHolds(par', found', All', channel')
    BY <1>1, <1>4, <1>5, <1>6, MailHolds, SolutionsSayNothing DEF EnumInv
  <2>. QED  BY <1>1, <1>2, <1>6, <2>1, ListsAlone DEF EnumInv
<1>8. NothingForgotten'
  <2>1. \A t : Flies(Taken(p, q), t) => Flies(channel', t)
    <3>1. \A x : InNet(Taken(p, q), x) => InNet(channel', x)
      BY <1>4, <1>5
    <3>. QED  BY <3>1, MoreFlies
  <2>2. \A t \in found : t \in Solution
    BY <1>1, Numbers
  <2>3. \A t \in found : Flies(channel, t) \/ Stands(solSendQ, t) => Kept(t)'
    BY <1>1, <1>5, <1>6, <2>1, <2>2 DEF Kept
  <2>. QED  BY <1>1, <1>6, <2>3, SearchRemembers
<1>9. PartsAreTidy' /\ IncumbentsAreBest' /\ PhasesGoOn' /\ ScanIsInOrder'
  BY <1>1, <1>2, <1>6, SearchGoesOn
<1>. QED  BY <1>7, <1>8, <1>9 DEF EnumInv

\* An acknowledgement: the best solution that waits is sent, or all of them are beaten.
LEMMA AckSolPrint ==
  ASSUME GoesOn, NEW p \in Proc, NEW q \in Proc, AckSol(p, q)
  PROVE  EnumInv'
<1>. PICK b : b = LinkTo(p, q)
  OBVIOUS
<1>. DEFINE live == {s \in Solution : solSendQ[p][b][s] > 0 /\ ~Fathoms(p, incumbent[p], Value[s])}
<1>0. Message(p, q, "ackSol")
  BY DEF AckSol
<1>1. /\ Taken(p, q) \in Nets /\ \A x : InNet(Taken(p, q), x) => InNet(channel, x)
      /\ MessageIn(found, par.enumCount, q, p, Head(channel[q][p]))
      /\ Head(channel[q][p]).type = "ackSol"
      /\ \A t : Flies(channel, t) => Flies(Taken(p, q), t)
      /\ Goes /\ EnumInv /\ TypeOK /\ TypeOK' /\ phase = "search" /\ phase' = "search"
      /\ found' = found /\ par' = par /\ UNCHANGED <<rampUpSolQ, incumbent, final>>
  BY <1>0, TakenMail
<1>2. /\ \/ /\ live = {} /\ channel' = Taken(p, q)
            /\ solSendQ' = [solSendQ EXCEPT ![p][b] = NoneQueued]
         \/ \E s \in live :
              /\ channel' = Sent(Taken(p, q), p, q, Forward(s))
              /\ solSendQ' = [solSendQ EXCEPT ![p][b][s] = @ - 1]
      /\ UNCHANGED <<repos, needPruning, needHubPruning, lastSol, childReposArray>>
  BY DEF AckSol, prune, local, merge, Sent
<1>3. b \in Link
  <2>1. PICK a \in Link : p = Neighbor(q, a)
    BY <1>1 DEF MessageIn
  <2>2. q = Neighbor(p, a)
    BY <2>1, NeighborOfNeighbor
  <2>. QED  BY <2>2, NeighborOfNeighbor
<1>. HIDE DEF live
<1>4. Turns(par, found, found', All, All', NoSolution)
  BY <1>1, <1>2, NothingDropped
<1>5. solSendQ \in [Proc -> [Link -> [Solution -> Nat]]]
  BY <1>1 DEF TypeOK
<1>6. /\ \A x : InNet(Taken(p, q), x) => InNet(channel', x)
      /\ \A x : InNet(channel', x) => InNet(channel, x) \/ \E s \in Solution : x = Forward(s)
      /\ \A t \in Solution : Stands(solSendQ, t) =>
           \/ Stands(solSendQ', t) \/ Flies(channel', t) \/ Fathoms(p, incumbent[p], Value[t])
  <2>1. ASSUME NEW t \in Solution, Stands(solSendQ, t), ~Stands(solSendQ', t)
        PROVE  solSendQ[p][b][t] > 0 /\ solSendQ'[p][b] # solSendQ[p][b] /\ ~(solSendQ'[p][b][t] > 0)
    <3>1. PICK a \in Proc : \E c \in Link : Neighbor(a, c) \in Proc /\ solSendQ[a][c][t] > 0
      BY <2>1 DEF Stands
    <3>2. PICK c \in Link : Neighbor(a, c) \in Proc /\ solSendQ[a][c][t] > 0
      BY <3>1
    <3>3. ~(solSendQ'[a][c][t] > 0)
      BY <2>1, <3>2 DEF Stands
    <3>4. ~(a = p /\ c = b) => solSendQ'[a][c] = solSendQ[a][c]
      BY <1>2, <1>3, <1>5
    <3>. QED  BY <3>2, <3>3, <3>4
  <2>2. CASE /\ live = {} /\ channel' = Taken(p, q)
             /\ solSendQ' = [solSendQ EXCEPT ![p][b] = NoneQueued]
    <3>1. \A t \in Solution : solSendQ[p][b][t] > 0 => Fathoms(p, incumbent[p], Value[t])
      BY <2>2 DEF live
    <3>. QED  BY <1>1, <2>1, <2>2, <3>1
  <2>3. ASSUME NEW s \in live, channel' = Sent(Taken(p, q), p, q, Forward(s)),
               solSendQ' = [solSendQ EXCEPT ![p][b][s] = @ - 1]
        PROVE  /\ \A x : InNet(Taken(p, q), x) => InNet(channel', x)
               /\ \A x : InNet(channel', x) => InNet(channel, x) \/ \E t \in Solution : x = Forward(t)
               /\ \A t \in Solution : Stands(solSendQ, t) => \/ Stands(solSendQ', t) \/ Flies(channel', t)
    <3>1. \A x : InNet(channel', x) <=> InNet(Taken(p, q), x) \/ x = Forward(s)
      BY <1>1, <2>3, InNetSent
    <3>2. s \in Solution
      BY DEF live
    <3>3. Flies(channel', s)
      <4>1. Forward(s).type = "forwardSol" /\ Forward(s).sol = s
        BY DEF Forward
      <4>. QED  BY <3>1, <4>1, MailInNet
    <3>4. \A t \in Solution : t # s => solSendQ'[p][b][t] = solSendQ[p][b][t]
      BY <1>3, <1>5, <2>3
    <3>. QED  BY <1>1, <2>1, <3>1, <3>2, <3>3, <3>4
  <2>. QED  BY <1>2, <2>2, <2>3
<1>7. ListsHold'
  <2>1. NetHolds(par', found', All', channel')
    BY <1>1, <1>4, <1>6, MailHolds, SolutionsSayNothing DEF EnumInv
  <2>. QED  BY <1>1, <1>2, <1>4, <2>1, ListsAlone DEF EnumInv
<1>8. NothingForgotten'
  <2>1. ASSUME NEW t \in found, Flies(channel, t)
        PROVE  Kept(t)'
    <3>1. Flies(channel', t)
      <4>1. \A x : Flies(Taken(p, q), x) => Flies(channel', x)
        BY <1>6, MoreFlies
      <4>. QED  BY <1>1, <2>1, <4>1
    <3>. QED  BY <3>1 DEF Kept
  <2>2. ASSUME NEW t \in found, Stands(solSendQ, t)
        PROVE  Kept(t)'
    <3>1. t \in Solution /\ t \in found'
      BY <1>1, Numbers
    <3>2. CASE Fathoms(p, incumbent[p], Value[t])
      <4>. PICK inc : inc = incumbent[p]
        OBVIOUS
      <4>1. inc \in Int /\ (inc = Infinite \/ \E x \in found' : Value[x] = inc)
        <5>1. inc \in Nat
          BY <1>1 DEF TypeOK
        <5>. QED  BY <1>1, <5>1 DEF EnumInv, IncumbentsAreBest
      <4>2. Kept(t)'
        BY <1>1, <1>2, <1>4, <3>1, <3>2, <4>1, OfferedIsKept DEF EnumInv
      <4>. QED  BY <4>2
    <3>3. CASE ~Fathoms(p, incumbent[p], Value[t])
      BY <1>6, <2>2, <3>1, <3>3 DEF Kept
    <3>. QED  BY <3>2, <3>3
  <2>. QED  BY <1>1, <1>4, <2>1, <2>2, SearchRemembers
<1>9. PartsAreTidy' /\ IncumbentsAreBest' /\ PhasesGoOn' /\ ScanIsInOrder'
  BY <1>1, <1>2, SearchGoesOn
<1>. QED  BY <1>7, <1>8, <1>9 DEF EnumInv

-----------------------------------------------------------------------------
(***************************************************************************)
(* The end.                                                                *)
(***************************************************************************)
\* The rank of an identifier is its place in the order.
LEMMA RankIsPlace ==
  ASSUME NEW S, Ordered(S)
  PROVE  /\ Cardinality(S) \in Nat
         /\ \A x \in S : /\ Rank(S, x) \in Nat /\ Rank(S, x) < Cardinality(S)
                         /\ Nth(S, Rank(S, x) + 1) = x
         /\ \A x, y \in S : Rank(S, x) < Rank(S, y) <=> Before(x, y)
<1>1. IsFiniteSet(S) /\ S \subseteq Identifier /\ Cardinality(S) \in Nat
  BY FS_CardinalityType DEF Ordered
<1>2. ASSUME NEW x \in S
      PROVE  /\ Rank(S, x) \in Nat /\ Rank(S, x) < Cardinality(S)
             /\ Nth(S, Rank(S, x) + 1) = x
  <2>. DEFINE T == {y \in S : Before(y, x)}
  <2>1. T \subseteq S \ {x}
    BY <1>1, BeforeIsStrict
  <2>2. IsFiniteSet(S \ {x}) /\ Cardinality(S \ {x}) = Cardinality(S) - 1
    BY <1>1, FS_RemoveElement
  <2>3. Rank(S, x) = Cardinality(T)
    BY DEF Rank
  <2>. HIDE DEF T
  <2>4. Rank(S, x) \in Nat /\ Rank(S, x) < Cardinality(S)
    BY <1>1, <2>1, <2>2, <2>3, PartIsSmaller
  <2>. PICK n : n = Rank(S, x) + 1
    OBVIOUS
  <2>5. n \in Nat \ {0} /\ n <= Cardinality(S) /\ n - 1 = Rank(S, x)
    BY <1>1, <2>4
  <2>6. Nth(S, n) \in S /\ Rank(S, Nth(S, n)) = Rank(S, x)
    BY <2>5, NthExists
  <2>. QED  BY <2>4, <2>6, RankGrows
<1>3. ASSUME NEW x \in S, NEW y \in S
      PROVE  Rank(S, x) < Rank(S, y) <=> Before(x, y)
  <2>1. Before(x, y) => Rank(S, x) < Rank(S, y)
    BY RankGrows
  <2>2. Before(y, x) => Rank(S, y) < Rank(S, x)
    BY RankGrows
  <2>3. Rank(S, x) \in Nat /\ Rank(S, y) \in Nat
    BY <1>2
  <2>4. x = y \/ Before(x, y) \/ Before(y, x)
    BY DEF Ordered
  <2>. QED  BY <2>1, <2>2, <2>3, <2>4
<1>. QED  BY <1>1, <1>2, <1>3

\* The list a has the first n of the set S in their order.
InOrder(S, n, a) ==
  /\ Len(a) = n /\ DOMAIN a = 1 .. n
  /\ \A i \in 1 .. n : a[i] \in S /\ Rank(S, a[i]) = i - 1
  /\ \A x \in S : Rank(S, x) < n => a[Rank(S, x) + 1] = x

LEMMA SortedInOrder ==
  ASSUME NEW S, Ordered(S), NEW n \in Nat, n <= Cardinality(S)
  PROVE  InOrder(S, n, SubSeq(Sorted(S), 1, n))
<1>. PICK a : a = SubSeq(Sorted(S), 1, n)
  OBVIOUS
<1>1. Cardinality(S) \in Nat
  BY RankIsPlace
<1>2. \A i \in 1 .. Cardinality(S) : Nth(S, i) \in S /\ Rank(S, Nth(S, i)) = i - 1
  BY <1>1, NthExists
<1>3. \A x \in S : Rank(S, x) \in Nat /\ Nth(S, Rank(S, x) + 1) = x
  BY RankIsPlace
<1>4. Sorted(S) \in Seq(S) /\ Len(Sorted(S)) = Cardinality(S)
      /\ \A i \in 1 .. Cardinality(S) : Sorted(S)[i] = Nth(S, i)
  BY <1>1, <1>2 DEF Sorted
<1>. PICK s : s = Sorted(S)
  OBVIOUS
<1>5. a \in Seq(S) /\ Len(a) = n /\ \A i \in 1 .. n : a[i] = s[i]
  BY <1>1, <1>4
<1>6. DOMAIN a = 1 .. n
  BY <1>5
<1>7. \A i \in 1 .. n : a[i] = Nth(S, i) /\ i \in 1 .. Cardinality(S)
  BY <1>1, <1>4, <1>5
<1>8. \A x \in S : Rank(S, x) < n => a[Rank(S, x) + 1] = x
  BY <1>3, <1>7
<1>. QED  BY <1>2, <1>5, <1>6, <1>7, <1>8 DEF InOrder

\* How long the list is that is printed.
LEMMA SizeIsRight ==
  ASSUME ReposInv
  PROVE  /\ Ordered(All) /\ Cardinality(All) \in Nat /\ Size \in Nat /\ Size <= Cardinality(All)
         /\ Size < Cardinality(All) => Counting /\ Size = par.enumCount
         /\ Counting /\ Cardinality(All) >= par.enumCount => Size = par.enumCount
<1>1. Ordered(All)
  BY AllIsGenuine, GenuineIsOrdered
<1>2. Cardinality(All) \in Nat
  BY <1>1, RankIsPlace
<1>3. par.enumCount \in Int
  BY Numbers DEF ReposInv
<1>. QED  BY <1>1, <1>2, <1>3 DEF Size, Counting

\* The scan starts.
LEMMA StartRepositoryScanPrint ==
  ASSUME GoesOn, StartRepositoryScan
  PROVE  EnumInv'
<1>1. /\ Goes /\ EnumInv /\ TypeOK /\ TypeOK' /\ ReposInv /\ phase = "search" /\ phase' = "scan"
      /\ Quiet /\ found' = found /\ par' = par
      /\ UNCHANGED <<rampUpSolQ, incumbent, repos, needPruning, needHubPruning, needReposMerge,
                     lastSol, childReposArray, channel, solSendQ, solPtrCursor, printed>>
  BY DEF GoesOn, Goes, ReposInv, StartRepositoryScan, asked, local, prune, merge, flow
<1>2. Turns(par, found, found', All, All', NoSolution)
  BY <1>1, NothingDropped
<1>3. ListsHold'
  BY <1>1, <1>2, NothingListed DEF EnumInv
<1>4. NothingForgotten'
  <2>1. \A t \in found : Flies(channel, t) \/ Stands(solSendQ, t) => Kept(t)'
    BY <1>1 DEF Kept
  <2>. QED  BY <1>1, <1>2, <2>1, SearchRemembers
<1>5. PartsAreTidy' /\ IncumbentsAreBest' /\ PhasesGoOn'
  BY <1>1 DEF EnumInv, PartsAreTidy, Prunes, IncumbentsAreBest, PhasesGoOn
<1>6. ScanIsInOrder'
  <2>1. treeReposArray' = SubSeq(Sorted(All), 1, Size)
    BY DEF StartRepositoryScan, All, Size
  <2>2. Size \in Nat /\ Len(treeReposArray') = Size
    BY <1>1, <2>1, SizeIsRight, SortedInOrder DEF InOrder
  <2>3. printed' = <<>> /\ solPtrCursor' = [p \in Proc |-> 0]
    BY <1>1 DEF EnumInv, ScanIsInOrder
  <2>4. \A p \in Proc : PlacesOf(p, treeReposArray', Len(printed')) = {}
    BY <2>3 DEF PlacesOf
  <2>5. solPtrCursor' = [p \in Proc |-> Cardinality(PlacesOf(p, treeReposArray', Len(printed')))]
    BY <2>3, <2>4, FS_EmptySet
  <2>6. Quiet' /\ All' = All /\ Size' = Size
    BY <1>1 DEF Quiet, All, Size, Counting
  <2>7. printed' \in Seq(Solution) /\ Len(printed') = 0 /\ DOMAIN printed' = {}
    BY <2>3
  <2>8. treeReposArray' = SubSeq(Sorted(All'), 1, Size')
    BY <2>1, <2>6
  <2>. QED  BY <1>1, <2>2, <2>5, <2>6, <2>7, <2>8 DEF ScanIsInOrder
<1>. QED  BY <1>3, <1>4, <1>5, <1>6 DEF EnumInv

\* The owner of the next identifier has printed as many of its own as are before it.
LEMMA NextOfOwner ==
  ASSUME ReposInv, NEW n \in Nat, n < Size, NEW a, InOrder(All, Size, a), NEW k,
         k = Cardinality(PlacesOf(a[n + 1].owner, a, n))
  PROVE  /\ a[n + 1] \in All /\ a[n + 1].owner \in Proc
         /\ Sorted(repos[a[n + 1].owner])[k + 1] = a[n + 1]
<1>. PICK x : x = a[n + 1]
  OBVIOUS
<1>. PICK o : o = x.owner
  OBVIOUS
<1>1. Ordered(All) /\ Size \in Nat /\ Size <= Cardinality(All)
  BY SizeIsRight
<1>2. /\ \A i \in 1 .. Size : a[i] \in All /\ Rank(All, a[i]) = i - 1
      /\ \A y \in All : Rank(All, y) < Size => a[Rank(All, y) + 1] = y
  BY DEF InOrder
<1>3. n + 1 \in 1 .. Size /\ x \in All /\ Rank(All, x) = n
  BY <1>1, <1>2
<1>4. /\ o \in Proc /\ x \in repos[o] /\ \A y \in repos[o] : y \in All /\ y.owner = o
      /\ \A y \in All : y.owner = o => y \in repos[o]
  BY <1>3, AllIsGenuine
<1>. PICK R : R = repos[o]
  OBVIOUS
<1>5. Ordered(R)
  <2>1. R \subseteq Identifier /\ GenuineIn(found, R, {o})
    BY <1>4, InTermsOfFound DEF ReposInv, TypeOK, PartsAreGenuine
  <2>. QED  BY <2>1, GenuineIsOrdered
<1>6. Rank(R, x) = k
  <2>. DEFINE P == PlacesOf(o, a, n)
              B == {y \in R : Before(y, x)}
              f == [i \in P |-> a[i]]
  <2>1. \A y, z \in All : Rank(All, y) < Rank(All, z) <=> Before(y, z)
    BY <1>1, RankIsPlace
  <2>2. ASSUME NEW i \in P
        PROVE  a[i] \in B /\ Rank(All, a[i]) = i - 1 /\ i \in Nat
    <3>1. i \in 1 .. Size /\ i - 1 < n /\ i \in Nat /\ a[i].owner = o
      BY <1>1 DEF PlacesOf
    <3>2. a[i] \in All /\ Rank(All, a[i]) = i - 1
      BY <1>2, <3>1
    <3>3. Before(a[i], x)
      BY <1>3, <2>1, <3>1, <3>2
    <3>. QED  BY <1>4, <3>1, <3>2, <3>3
  <2>3. ASSUME NEW y \in B
        PROVE  \E i \in P : a[i] = y
    <3>1. y \in All /\ y.owner = o /\ Rank(All, y) < n
      BY <1>3, <1>4, <2>1
    <3>2. Rank(All, y) \in Nat
      BY <1>1, <3>1, RankIsPlace
    <3>3. Rank(All, y) + 1 \in 1 .. n /\ Rank(All, y) < Size
      BY <1>1, <3>1, <3>2
    <3>4. a[Rank(All, y) + 1] = y
      BY <1>2, <3>1, <3>3
    <3>5. Rank(All, y) + 1 \in P
      BY <3>1, <3>3, <3>4 DEF PlacesOf
    <3>. QED  BY <3>4, <3>5
  <2>. HIDE DEF P, B
  <2>4. f \in [P -> B] /\ (\A y \in B : \E i \in P : f[i] = y) /\ \A i \in P : f[i] = a[i]
    BY <2>2, <2>3
  <2>5. \A i, j \in P : f[i] = f[j] => i = j
    <3>. TAKE i \in P, j \in P
    <3>1. /\ Rank(All, a[i]) = i - 1 /\ i \in Nat /\ f[i] = a[i]
          /\ Rank(All, a[j]) = j - 1 /\ j \in Nat /\ f[j] = a[j]
      BY <2>2, <2>4
    <3>. HAVE f[i] = f[j]
    <3>2. i - 1 = j - 1
      BY <3>1
    <3>. QED  BY <3>1, <3>2
  <2>. HIDE DEF f
  <2>6. f \in Bijection(P, B)
    BY <2>4, <2>5 DEF Bijection, Injection, Surjection, IsInjective
  <2>7. IsFiniteSet(P)
    <3>1. P \subseteq 1 .. n /\ IsFiniteSet(1 .. n)
      BY FS_Interval DEF P, PlacesOf
    <3>. QED  BY <3>1, FS_Subset
  <2>8. Cardinality(B) = Cardinality(P)
    BY <2>6, <2>7, FS_Bijection DEF ExistsBijection
  <2>. QED  BY <2>8 DEF B, P, Rank
<1>7. Rank(R, x) \in Nat /\ Rank(R, x) < Cardinality(R) /\ Nth(R, Rank(R, x) + 1) = x
  BY <1>4, <1>5, RankIsPlace
<1>8. Cardinality(R) \in Nat
  BY <1>5, RankIsPlace
<1>9. Sorted(R)[k + 1] = Nth(R, k + 1)
  <2>1. k + 1 \in 1 .. Cardinality(R)
    BY <1>6, <1>7, <1>8
  <2>. QED  BY <2>1, Zenon DEF Sorted
<1>. QED  BY <1>3, <1>4, <1>6, <1>7, <1>9

\* The next of all is printed.
LEMMA NextRepositoryMemberPrint ==
  ASSUME GoesOn, NextRepositoryMember
  PROVE  EnumInv'
<1>. PICK n : n = Len(printed)
  OBVIOUS
<1>. PICK a : a = treeReposArray
  OBVIOUS
<1>. PICK o : o = a[n + 1].owner
  OBVIOUS
<1>. PICK k : k = Cardinality(PlacesOf(o, a, n))
  OBVIOUS
<1>1. /\ Goes /\ EnumInv /\ TypeOK /\ TypeOK' /\ ReposInv /\ phase = "scan" /\ phase' = "scan"
      /\ found' = found /\ par' = par /\ n < Len(a)
      /\ solPtrCursor' = [solPtrCursor EXCEPT ![o] = @ + 1]
      /\ printed' = Append(printed, Sorted(repos[o])[solPtrCursor[o] + 1].sol)
      /\ UNCHANGED <<rampUpSolQ, incumbent, repos, needPruning, needHubPruning, needReposMerge,
                     lastSol, childReposArray, channel, solSendQ, treeReposArray>>
  BY DEF GoesOn, Goes, ReposInv, NextRepositoryMember, asked, local, prune, merge, flow
<1>2. Turns(par, found, found', All, All', NoSolution)
  BY <1>1, NothingDropped
<1>3. ListsHold'
  BY <1>1, <1>2, NothingListed DEF EnumInv
<1>4. NothingForgotten'
  <2>1. \A t \in found : Flies(channel, t) \/ Stands(solSendQ, t) => Kept(t)'
    BY <1>1 DEF Kept
  <2>. QED  BY <1>1, <1>2, <2>1, SearchRemembers
<1>5. PartsAreTidy' /\ IncumbentsAreBest' /\ PhasesGoOn'
  BY <1>1 DEF EnumInv, PartsAreTidy, Prunes, IncumbentsAreBest, PhasesGoOn
<1>6. ScanIsInOrder'
  <2>1. /\ Quiet /\ a = SubSeq(Sorted(All), 1, Size) /\ printed \in Seq(Solution)
        /\ \A i \in DOMAIN printed : printed[i] = a[i].sol
        /\ solPtrCursor = [p \in Proc |-> Cardinality(PlacesOf(p, a, n))]
    BY <1>1 DEF EnumInv, ScanIsInOrder
  <2>2. InOrder(All, Size, a) /\ Size \in Nat
    BY <1>1, <2>1, SizeIsRight, SortedInOrder
  <2>3. n \in Nat /\ Len(a) = Size /\ n < Size
    BY <1>1, <2>1, <2>2 DEF InOrder
  <2>4. a[n + 1] \in All /\ o \in Proc /\ Sorted(repos[o])[k + 1] = a[n + 1]
    BY <1>1, <2>2, <2>3, NextOfOwner
  <2>5. solPtrCursor[o] = k
    BY <2>1, <2>4
  <2>. PICK s : s = a[n + 1].sol
    OBVIOUS
  <2>6. printed' = Append(printed, s) /\ s \in Solution
    <3>1. printed' = Append(printed, s)
      BY <1>1, <2>4, <2>5
    <3>2. s \in Solution
      BY <1>1, <2>4, AllIsGenuine DEF Identifier
    <3>. QED  BY <3>1, <3>2
  <2>7. /\ printed' \in Seq(Solution) /\ Len(printed') = n + 1
        /\ \A i \in DOMAIN printed' : printed'[i] = a[i].sol
    <3>. PICK old : old = printed
      OBVIOUS
    <3>. PICK new : new = Append(old, s)
      OBVIOUS
    <3>1. /\ new \in Seq(Solution) /\ Len(new) = n + 1
          /\ \A i \in DOMAIN new : \/ i = n + 1 /\ new[i] = s
                                   \/ i \in DOMAIN old /\ new[i] = old[i]
      <4>1. old \in Seq(Solution) /\ s \in Solution /\ n = Len(old)
        BY <2>1, <2>6
      <4>. QED  BY <4>1
    <3>2. printed' = new
      BY <2>6
    <3>3. ASSUME NEW i \in DOMAIN new
          PROVE  new[i] = a[i].sol
      <4>1. CASE i = n + 1 /\ new[i] = s
        BY <4>1
      <4>2. CASE i \in DOMAIN old /\ new[i] = old[i]
        BY <2>1, <4>2
      <4>. QED  BY <3>1, <4>1, <4>2
    <3>4. /\ new \in Seq(Solution) /\ Len(new) = n + 1
          /\ \A i \in DOMAIN new : new[i] = a[i].sol
      BY <3>1, <3>3
    <3>. QED  BY <3>2, <3>4
  <2>8. solPtrCursor' = [p \in Proc |-> Cardinality(PlacesOf(p, a, n + 1))]
    <3>1. ASSUME NEW p \in Proc
          PROVE  Cardinality(PlacesOf(p, a, n + 1))
                   = Cardinality(PlacesOf(p, a, n)) + IF p = o THEN 1 ELSE 0
      <4>. PICK P : P = PlacesOf(p, a, n)
        OBVIOUS
      <4>1. IsFiniteSet(P) /\ n + 1 \notin P
        <5>1. P \subseteq 1 .. n /\ n + 1 \notin P
          BY <2>3 DEF PlacesOf
        <5>2. IsFiniteSet(1 .. n)
          BY <2>3, FS_Interval
        <5>. QED  BY <5>1, <5>2, FS_Subset
      <4>2. PlacesOf(p, a, n + 1) = IF p = o THEN P \cup {n + 1} ELSE P
        BY <2>3 DEF PlacesOf
      <4>3. Cardinality(P \cup {n + 1}) = Cardinality(P) + 1 /\ Cardinality(P) \in Nat
        BY <4>1, FS_AddElement, FS_CardinalityType
      <4>. QED  BY <4>2, <4>3
    <3>2. \A p \in Proc : Cardinality(PlacesOf(p, a, n)) \in Nat
      <4>. TAKE p \in Proc
      <4>1. PlacesOf(p, a, n) \subseteq 1 .. n /\ IsFiniteSet(1 .. n)
        BY <2>3, FS_Interval DEF PlacesOf
      <4>. QED  BY <4>1, PartIsSmaller
    <3>3. solPtrCursor' = [p \in Proc |-> IF p = o THEN solPtrCursor[p] + 1 ELSE solPtrCursor[p]]
      BY <1>1, <2>1
    <3>4. \A p \in Proc : solPtrCursor'[p] = Cardinality(PlacesOf(p, a, n + 1))
      <4>. TAKE p \in Proc
      <4>1. solPtrCursor[p] = Cardinality(PlacesOf(p, a, n))
        BY <2>1
      <4>2. solPtrCursor'[p] = IF p = o THEN solPtrCursor[p] + 1 ELSE solPtrCursor[p]
        BY <3>3
      <4>3. Cardinality(PlacesOf(p, a, n)) \in Nat
        BY <3>2
      <4>4. Cardinality(PlacesOf(p, a, n + 1))
              = Cardinality(PlacesOf(p, a, n)) + IF p = o THEN 1 ELSE 0
        BY <3>1
      <4>. QED  BY <4>1, <4>2, <4>3, <4>4
    <3>. QED  BY <3>3, <3>4
  <2>9. Quiet' /\ All' = All /\ Size' = Size
    BY <1>1, <2>1 DEF Quiet, All, Size, Counting
  <2>10. treeReposArray' = a /\ treeReposArray' = SubSeq(Sorted(All'), 1, Size')
    BY <1>1, <2>1, <2>9
  <2>11. n + 1 <= Len(a)
    BY <1>1, <2>3
  <2>12. solPtrCursor' = [p \in Proc |-> Cardinality(PlacesOf(p, treeReposArray', Len(printed')))]
    BY <2>7, <2>8, <2>10
  <2>13. Len(printed') <= Len(treeReposArray')
    BY <2>7, <2>10, <2>11
  <2>14. \A i \in DOMAIN printed' : printed'[i] = treeReposArray'[i].sol
    BY <2>7, <2>10
  <2>15. Quiet' /\ treeReposArray' = SubSeq(Sorted(All'), 1, Size') /\ printed' \in Seq(Solution)
    BY <2>7, <2>9, <2>10
  <2>. QED  BY <1>1, <2>12, <2>13, <2>14, <2>15, Zenon DEF ScanIsInOrder
<1>. QED  BY <1>3, <1>4, <1>5, <1>6 DEF EnumInv

\* At first there is nothing.
LEMMA InitPrint == Init => EnumInv
<1>. SUFFICES ASSUME Init PROVE EnumInv
  OBVIOUS
<1>1. /\ phase = "rampUp" /\ found = {} /\ \A p \in Proc : incumbent[p] = Infinite
      /\ \A p \in Proc : repos[p] = {} /\ lastSol[p] = NoSolution
      /\ \A p \in Proc : \A c \in Children(0, p) : childReposArray[p][c] = {}
      /\ \A p, q \in Proc : channel[p][q] = <<>>
      /\ treeReposArray = <<>> /\ printed = <<>> /\ solPtrCursor = [p \in Proc |-> 0]
  BY DEF Init
<1>2. ListsHold
  BY <1>1 DEF ListsHold, ListHolds, CutHolds, NetHolds
<1>3. NothingForgotten /\ PartsAreTidy /\ IncumbentsAreBest /\ PhasesGoOn /\ ScanIsInOrder
  BY <1>1 DEF NothingForgotten, PartsAreTidy, IncumbentsAreBest, PhasesGoOn, ScanIsInOrder
<1>. QED  BY <1>2, <1>3 DEF EnumInv

LEMMA PrintStutter ==
  ASSUME GoesOn, UNCHANGED vars
  PROVE  EnumInv'
<1>1. /\ Goes /\ EnumInv /\ found' = found
      /\ UNCHANGED <<par, phase, found, rampUpSolQ, incumbent, repos, lastSol, needPruning,
                     needHubPruning, needReposMerge, childReposArray, channel, solSendQ,
                     treeReposArray, solPtrCursor, printed>>
  BY DEF GoesOn, vars, asked, local, prune, merge, flow, final
<1>2. Turns(par, found, found', All, All', NoSolution)
  BY <1>1, NothingDropped
<1>3. ListsHold'
  BY <1>1, <1>2, NothingListed DEF EnumInv
<1>4. NothingForgotten'
  <2>1. \A t \in found : Flies(channel, t) \/ Stands(solSendQ, t) => Kept(t)'
    BY <1>1 DEF Kept
  <2>. QED  BY <1>1, <1>2, <2>1, SearchRemembers
<1>5. PartsAreTidy' /\ IncumbentsAreBest' /\ PhasesGoOn'
  BY <1>1 DEF EnumInv, PartsAreTidy, Prunes, IncumbentsAreBest, PhasesGoOn
<1>6. ScanIsInOrder'
  BY <1>1 DEF EnumInv, ScanIsInOrder, Quiet, All, Size, Counting, PlacesOf
<1>. QED  BY <1>3, <1>4, <1>5, <1>6 DEF EnumInv

\* Found solutions are never forgotten, and parameters stay.
LEMMA FoundStays ==
  ASSUME Next \/ UNCHANGED vars
  PROVE  par' = par /\ found \subseteq found'
<1>1. ASSUME NEW s, RampUpFind(s) \/ \E p : Find(p, s) PROVE par' = par /\ found \subseteq found'
  BY <1>1 DEF RampUpFind, Find, CountFind
<1>2. ASSUME Step \/ UNCHANGED vars PROVE UNCHANGED asked
  <2>1. ASSUME NEW p, NEW q, \/ HashSol(p, q) \/ ReposArray(p, q) \/ NewLastSol(p, q)
                             \/ ForwardSol(p, q) \/ AckSol(p, q)
        PROVE  UNCHANGED asked
    BY <2>1 DEF HashSol, ReposArray, NewLastSol, ForwardSol, AckSol, Message
  <2>2. ASSUME NEW p, \/ HashSolution(p) \/ HearIncumbent(p)
                      \/ WorkerPrune(p) \/ HubPrune(p) \/ ReposArraySend(p)
        PROVE  UNCHANGED asked
    BY <2>2 DEF HashSolution, HearIncumbent, WorkerPrune, HubPrune, ReposArraySend
  <2>3. ASSUME \/ RampUpIncumbentSync \/ SyncLastSol
               \/ StartRepositoryScan \/ NextRepositoryMember \/ UNCHANGED vars
        PROVE  UNCHANGED asked
    BY <2>3 DEF RampUpIncumbentSync, SyncLastSol, StartRepositoryScan, NextRepositoryMember, vars
  <2>. QED  BY <1>2, <2>1, <2>2, <2>3 DEF Step
<1>3. Step \/ UNCHANGED vars => par' = par /\ found \subseteq found'
  BY <1>2 DEF asked
<1>. QED  BY <1>1, <1>3 DEF Next

\* Every step preserves the invariant.
LEMMA NextPrint ==
  ASSUME PartsSuffice, HubsSuffice, ReposInv, ReposInv', FlowIsControlled, EnumInv,
         Next \/ UNCHANGED vars
  PROVE  EnumInv'
<1>1. GoesOn
  BY FoundStays DEF GoesOn, Goes
<1>2. ASSUME NEW s \in Solution, RampUpFind(s) PROVE EnumInv'
  BY <1>1, <1>2, RampUpFindPrint
<1>3. ASSUME NEW s \in Solution, NEW p \in par.finders, Find(p, s) PROVE EnumInv'
  <2>1. p \in Proc
    BY RepositoryAssumption DEF ReposInv, TypeOK
  <2>. QED  BY <1>1, <1>3, <2>1, FindPrint
<1>4. ASSUME Step PROVE EnumInv'
  <2>1. ASSUME RampUpIncumbentSync PROVE EnumInv'
    BY <1>1, <2>1, RampUpIncumbentSyncPrint
  <2>2. ASSUME SyncLastSol PROVE EnumInv'
    BY <1>1, <2>2, SyncLastSolPrint
  <2>3. ASSUME StartRepositoryScan PROVE EnumInv'
    BY <1>1, <2>3, StartRepositoryScanPrint
  <2>4. ASSUME NextRepositoryMember PROVE EnumInv'
    BY <1>1, <2>4, NextRepositoryMemberPrint
  <2>5. ASSUME NEW p \in Proc, HashSolution(p) PROVE EnumInv'
    BY <1>1, <2>5, HashSolutionPrint
  <2>6. ASSUME NEW p \in Proc, HearIncumbent(p) PROVE EnumInv'
    BY <1>1, <2>6, HearIncumbentPrint
  <2>7. ASSUME NEW p \in Proc, WorkerPrune(p) PROVE EnumInv'
    BY <1>1, <2>7, WorkerPrunePrint
  <2>8. ASSUME NEW p \in Proc, HubPrune(p) PROVE EnumInv'
    BY <1>1, <2>8, HubPrunePrint
  <2>9. ASSUME NEW p \in Proc, ReposArraySend(p) PROVE EnumInv'
    BY <1>1, <2>9, ReposArraySendPrint
  <2>10. ASSUME NEW p \in Proc, NEW q \in Proc, HashSol(p, q) PROVE EnumInv'
    BY <1>1, <2>10, HashSolPrint
  <2>11. ASSUME NEW p \in Proc, NEW q \in Proc, ReposArray(p, q) PROVE EnumInv'
    BY <1>1, <2>11, ReposArrayPrint
  <2>12. ASSUME NEW p \in Proc, NEW q \in Proc, NewLastSol(p, q) PROVE EnumInv'
    BY <1>1, <2>12, NewLastSolPrint
  <2>13. ASSUME NEW p \in Proc, NEW q \in Proc, ForwardSol(p, q) PROVE EnumInv'
    BY <1>1, <2>13, ForwardSolPrint
  <2>14. ASSUME NEW p \in Proc, NEW q \in Proc, AckSol(p, q) PROVE EnumInv'
    BY <1>1, <2>14, AckSolPrint
  <2>. QED  BY <1>4, <2>1, <2>2, <2>3, <2>4, <2>5, <2>6, <2>7, <2>8, <2>9, <2>10, <2>11,
               <2>12, <2>13, <2>14 DEF Step
<1>5. ASSUME UNCHANGED vars PROVE EnumInv'
  BY <1>1, <1>5, PrintStutter
<1>. QED  BY <1>2, <1>3, <1>4, <1>5 DEF Next

\* When the scan is over, nothing is on its way or waits: what is found is in the repository
\* or is not needed.
LEMMA StoredAtTheEnd ==
  ASSUME ReposInv, FlowIsControlled, EnumInv, phase = "scan", NEW s \in found
  PROVE  Stored(All, s) \/ Beaten(par, found, All, Value[s])
<1>1. /\ Quiet /\ TypeOK /\ \A p \in Proc : rampUpSolQ[p] = <<>>
      /\ \A p, q \in Proc : channel[p][q] = <<>>
  BY DEF EnumInv, ScanIsInOrder, PhasesGoOn, ReposInv, Quiet
<1>2. ~Waits(rampUpSolQ, s) /\ ~Flies(channel, s)
  BY <1>1 DEF Waits, Flies
<1>3. ~Stands(solSendQ, s)
  <2>. SUFFICES ASSUME NEW p \in Proc, NEW b \in Link, Neighbor(p, b) \in Proc,
                       solSendQ[p][b][s] > 0
                PROVE  FALSE
    BY DEF Stands
  <2>1. s \in Solution
    BY <1>1, Numbers
  <2>2. solSendQ[p][b] # NoneQueued
    BY <2>1 DEF NoneQueued
  <2>3. FlowIn(channel, solJustSent, solSendQ)
    BY FlowInTermsOfLinks
  <2>4. OnItsWay(channel, p, Neighbor(p, b)) = 1
    BY <2>2, <2>3 DEF FlowIn
  <2>5. \A type : TypeCount(<<>>, type) = 0
    <3>. TAKE type
    <3>1. {i \in DOMAIN <<>> : <<>>[i].type = type} = {}
      OBVIOUS
    <3>. QED  BY <3>1, FS_EmptySet DEF TypeCount
  <2>6. OnItsWay(channel, p, Neighbor(p, b)) = 0
    BY <1>1, <2>5 DEF OnItsWay
  <2>. QED  BY <2>4, <2>6
<1>. QED  BY <1>2, <1>3 DEF EnumInv, NothingForgotten

\* When the scan is over, what is in the repository is within the tolerance.
LEMMA TidyAtTheEnd ==
  ASSUME ReposInv, EnumInv, phase = "scan", NEW x \in All
  PROVE  x.sol \in WithinTolerance
<1>1. Quiet /\ TypeOK
  BY DEF EnumInv, ScanIsInOrder, ReposInv
<1>2. /\ x.sol \in found /\ x.value = Value[x.sol] /\ x.owner \in Proc /\ x \in repos[x.owner]
  BY AllIsGenuine DEF GenuineIn
<1>3. x.owner \in Worker \/ x.owner \in Hub
  BY <1>2, RepositoryAssumption
<1>4. ~Prunes(x.owner, x.value)
  BY <1>1, <1>2, <1>3 DEF EnumInv, PartsAreTidy, Quiet
<1>5. ASSUME par.enumAbsTol >= 0, NEW t \in found
      PROVE  Value[x.sol] <= Value[t] + par.enumAbsTol
  <2>1. PICK p \in Proc : incumbent[p] <= Value[t]
    BY DEF EnumInv, IncumbentsAreBest
  <2>2. incumbent[x.owner] = incumbent[p]
    BY <1>1, <1>2 DEF Quiet
  <2>3. incumbent[p] \in Nat
    BY <1>1 DEF TypeOK
  <2>4. Value[t] \in Int /\ Value[x.sol] \in Int /\ par.enumAbsTol \in Int
    BY <1>1, <1>2, Numbers
  <2>5. ~(incumbent[p] - Value[x.sol] < -par.enumAbsTol)
    BY <1>2, <1>4, <1>5, <2>2 DEF Prunes
  <2>. QED  BY <2>1, <2>3, <2>4, <2>5
<1>. QED  BY <1>2, <1>5 DEF WithinTolerance

\* The invariant implies that the right solutions are printed.
LEMMA InvPrints ==
  ReposInv /\ FlowIsControlled /\ EnumInv => PrintsTheBest
<1>. SUFFICES ASSUME ReposInv, FlowIsControlled, EnumInv, Complete
              PROVE  PrintsTheBest
  BY DEF PrintsTheBest
<1>. PICK a : a = treeReposArray
  OBVIOUS
<1>1. /\ TypeOK /\ phase = "scan" /\ Len(printed) = Len(a)
      /\ a = SubSeq(Sorted(All), 1, Size) /\ printed \in Seq(Solution)
      /\ \A i \in DOMAIN printed : printed[i] = a[i].sol
  BY DEF ReposInv, Complete, EnumInv, ScanIsInOrder
<1>2. /\ Ordered(All) /\ Cardinality(All) \in Nat /\ Size \in Nat /\ Size <= Cardinality(All)
      /\ Size < Cardinality(All) => Counting /\ Size = par.enumCount
      /\ Counting /\ Cardinality(All) >= par.enumCount => Size = par.enumCount
  BY SizeIsRight
<1>3. InOrder(All, Size, a)
  BY <1>1, <1>2, SortedInOrder
<1>4. Len(printed) = Size /\ DOMAIN printed = 1 .. Size
  <2>1. Len(a) = Size
    BY <1>3 DEF InOrder
  <2>2. Len(printed) = Size
    BY <1>1, <2>1
  <2>. QED  BY <1>1, <2>2
<1>5. ASSUME NEW i \in 1 .. Size
      PROVE  /\ a[i] \in All /\ Rank(All, a[i]) = i - 1
             /\ printed[i] = a[i].sol /\ a[i].value = Value[printed[i]] /\ a[i].value \in Int
  <2>1. a[i] \in All /\ Rank(All, a[i]) = i - 1
    BY <1>3 DEF InOrder
  <2>2. printed[i] = a[i].sol
    BY <1>1, <1>4
  <2>3. a[i].value = Value[a[i].sol] /\ a[i].value \in Int
    BY <2>1, AllIsGenuine DEF GenuineIn, Identifier
  <2>. QED  BY <2>1, <2>2, <2>3
<1>6. \A x, y \in All : /\ Rank(All, x) < Rank(All, y) <=> Before(x, y)
                        /\ x.value \in Int /\ Rank(All, x) \in Nat
                        /\ Before(x, y) => x.value <= y.value
                        /\ x.value < y.value => Before(x, y)
  <2>. TAKE x \in All, y \in All
  <2>1. (Rank(All, x) < Rank(All, y) <=> Before(x, y)) /\ Rank(All, x) \in Nat
    BY <1>2, RankIsPlace
  <2>2. x.value \in Int /\ y.value \in Int
    BY AllIsGenuine DEF Identifier
  <2>. QED  BY <2>1, <2>2 DEF Before
<1>7. ASSUME NEW i \in DOMAIN printed, NEW j \in DOMAIN printed, i < j
      PROVE  printed[i] # printed[j] /\ Value[printed[i]] <= Value[printed[j]]
  <2>1. i \in 1 .. Size /\ j \in 1 .. Size /\ i - 1 < j - 1 /\ i - 1 # j - 1
    BY <1>2, <1>4, <1>7
  <2>2. a[i] # a[j] /\ Before(a[i], a[j])
    BY <1>5, <1>6, <2>1
  <2>3. a[i].sol # a[j].sol
    BY <1>5, <2>1, <2>2, AllIsGenuine DEF GenuineIn
  <2>. QED  BY <1>5, <1>6, <2>1, <2>2, <2>3
<1>8. Range(printed) \subseteq WithinTolerance
  <2>1. ASSUME NEW i \in DOMAIN printed
        PROVE  printed[i] \in WithinTolerance
    BY <1>1, <1>4, <1>5, TidyAtTheEnd
  <2>. QED  BY <2>1 DEF Range
<1>9. ASSUME NEW s \in WithinTolerance, s \notin Range(printed)
      PROVE  /\ Counting /\ Len(printed) = par.enumCount
             /\ \A i \in DOMAIN printed : Value[printed[i]] <= Value[s]
  <2>1. s \in found /\ Value[s] \in Int /\ ~TooBad(par, found, Value[s])
    <3>1. s \in found
      BY DEF WithinTolerance
    <3>2. par.enumAbsTol \in Int /\ found \subseteq Solution /\ \A t \in Solution : Value[t] \in Int
      BY <1>1, Numbers
    <3>3. \A t \in found : par.enumAbsTol >= 0 => Value[s] <= Value[t] + par.enumAbsTol
      BY DEF WithinTolerance
    <3>. QED  BY <3>1, <3>2, <3>3 DEF TooBad
  <2>2. CASE Stored(All, s)
    <3>1. PICK x \in All : x.sol = s
      BY <2>2 DEF Stored
    <3>2. x.value = Value[s]
      BY <3>1, AllIsGenuine DEF GenuineIn
    <3>3. ~(Rank(All, x) < Size)
      <4>. SUFFICES ASSUME Rank(All, x) < Size PROVE FALSE
        OBVIOUS
      <4>. PICK i : i = Rank(All, x) + 1
        OBVIOUS
      <4>1. i \in 1 .. Size /\ a[i] = x
        <5>1. a[i] = x
          BY <1>3 DEF InOrder
        <5>2. i \in 1 .. Size
          BY <1>2, <1>6
        <5>. QED  BY <5>1, <5>2
      <4>2. printed[i] = s /\ i \in DOMAIN printed
        BY <1>4, <1>5, <3>1, <4>1
      <4>. QED  BY <1>9, <4>2 DEF Range
    <3>4. Rank(All, x) < Cardinality(All) /\ Rank(All, x) \in Nat
      BY <1>2, RankIsPlace
    <3>5. Counting /\ Size = par.enumCount
      BY <1>2, <3>3, <3>4
    <3>6. ASSUME NEW i \in 1 .. Size PROVE Value[printed[i]] <= Value[s]
      <4>1. Rank(All, a[i]) < Rank(All, x)
        BY <1>2, <1>5, <3>3, <3>4
      <4>2. a[i].value <= x.value
        BY <1>5, <1>6, <4>1
      <4>. QED  BY <1>5, <3>2, <4>2
    <3>. QED  BY <1>4, <3>5, <3>6
  <2>3. CASE Beaten(par, found, All, Value[s])
    <3>. PICK v : v = Value[s]
      OBVIOUS
    <3>. PICK B : B = NoWorse(All, v)
      OBVIOUS
    <3>1. Counting /\ Cardinality(B) >= par.enumCount
      BY <2>1, <2>3 DEF Beaten, Counting
    <3>2. B \subseteq All /\ IsFiniteSet(All) /\ \A y \in B : y.value <= v
      BY AllIsGenuine DEF NoWorse
    <3>3. IsFiniteSet(B) /\ Cardinality(B) \in Nat /\ Cardinality(B) <= Cardinality(All)
      BY <3>2, PartIsSmaller
    <3>4. par.enumCount \in Int
      BY <1>1, Numbers
    <3>5. Size = par.enumCount
      BY <1>2, <3>1, <3>3, <3>4
    <3>6. ASSUME NEW i \in 1 .. Size, ~(Value[printed[i]] <= v) PROVE FALSE
      <4>. PICK w : w = a[i]
        OBVIOUS
      <4>. DEFINE T == {y \in All : Before(y, w)}
      <4>1. w \in All /\ w.value \in Int /\ v < w.value /\ Rank(All, w) = i - 1
        BY <1>5, <2>1, <3>6
      <4>2. ASSUME NEW y \in B PROVE y \in T
        <5>1. y \in All /\ y.value <= v /\ y.value \in Int
          BY <1>6, <3>2
        <5>2. y.value < w.value
          BY <2>1, <4>1, <5>1
        <5>. QED  BY <1>6, <4>1, <5>1, <5>2
      <4>3. B \subseteq T /\ T \subseteq All /\ Cardinality(T) = i - 1
        BY <4>1, <4>2 DEF Rank
      <4>. HIDE DEF T
      <4>4. IsFiniteSet(T)
        BY <3>2, <4>3, PartIsSmaller
      <4>5. Cardinality(B) <= i - 1
        BY <4>3, <4>4, PartIsSmaller
      <4>. QED  BY <1>2, <3>1, <3>3, <3>4, <3>5, <4>5
    <3>. QED  BY <1>4, <3>1, <3>5, <3>6
  <2>. QED  BY <1>1, <2>1, <2>2, <2>3, StoredAtTheEnd
<1>. QED  BY <1>7, <1>8, <1>9 DEF PrintsTheBest

\* What is output in the end are the solutions within the tolerance or, of these,
\* the enumCount best, each once and in order.  This is so if no processor can own more
\* solutions than enumCount (localReposOffer gives up the worst of a full part, however good
\* it is: see the run repository_full) and if a hub that does not work is not used with a
\* tolerance and without counting (hubPrune does not prune its part then).
THEOREM TheBestArePrinted ==
  ASSUME PartsSuffice, HubsSuffice
  PROVE  Spec => []PrintsTheBest
<1>1. Init => EnumInv
  BY InitPrint
<1>2. ReposInv /\ ReposInv' /\ FlowIsControlled /\ EnumInv /\ [Next]_vars => EnumInv'
  BY NextPrint
<1>3. ReposInv /\ FlowIsControlled /\ EnumInv => PrintsTheBest
  BY InvPrints
<1>4. Spec => []ReposInv
  BY ReposInvariant
<1>5. Spec => []FlowIsControlled
  BY FlowControl
<1>. QED  BY <1>1, <1>2, <1>3, <1>4, <1>5, PTL DEF Spec

=============================================================================
