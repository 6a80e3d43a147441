---------------------------- MODULE RampUp_proofs ----------------------------
(***************************************************************************)
(* For any clusters, any values and any bounds: in ramp-up all processors  *)
(* search the same tree.                                                   *)
(***************************************************************************)
EXTENDS RampUp, FiniteSetTheorems, WellFoundedInduction, TLAPS

(***************************************************************************)
(* Minima and maxima.                                                      *)
(***************************************************************************)
\* Sources may be AnySource, which is -1.
LEMMA LeastExists ==
  ASSUME NEW S, S \subseteq Nat \cup {-1}, S # {}
  PROVE  Min(S) \in S /\ \A x \in S : Min(S) <= x
<1> DEFINE T == {n \in Nat : n - 1 \in S}
<1>1. T \subseteq Nat /\ T # {}
  <2>1. PICK x \in S : TRUE
    OBVIOUS
  <2>2. x \in Int /\ x + 1 \in Nat /\ (x + 1) - 1 = x
    OBVIOUS
  <2>3. x + 1 \in T
    BY <2>1, <2>2
  <2> QED BY <2>3
<1>2. IsWellFoundedOn(OpToRel(<, Nat), Nat)
  BY NatLessThanWellFounded
<1>3. PICK n \in T : \A m \in T : ~(<<m, n>> \in OpToRel(<, Nat))
  <2> HIDE DEF T
  <2> QED BY <1>1, <1>2, WFMin, Zenon
<1>4. n \in Nat /\ n - 1 \in S /\ \A m \in T : m \in Nat /\ ~(m < n)
  BY <1>3 DEF OpToRel
<1>5. \A y \in S : n - 1 <= y
  <2>1. TAKE y \in S
  <2>2. y + 1 \in Nat /\ (y + 1) - 1 = y
    OBVIOUS
  <2>3. y + 1 \in T
    BY <2>2
  <2> QED BY <1>4, <2>2, <2>3
<1> HIDE DEF T
<1>6. \E x \in S : \A y \in S : x <= y
  BY <1>4, <1>5
<1> QED BY <1>6 DEF Min

\* Having no incumbent is worse than any value.
LEMMA InfiniteIsWorst ==
  ASSUME RampUpAssumption
  PROVE  /\ Infinite \in Nat /\ Infinite \notin Value
         /\ \A v \in Value : v \in Nat /\ v < Infinite
<1>1. PICK v \in Value : \A u \in Value : v >= u
  BY DEF RampUpAssumption
<1>2. Max(Value) \in Value /\ \A u \in Value : Max(Value) >= u
  BY <1>1 DEF Max
<1>3. Max(Value) \in Nat /\ Value \subseteq Nat
  BY <1>2 DEF RampUpAssumption
<1> QED BY <1>2, <1>3 DEF Infinite

-----------------------------------------------------------------------------
(***************************************************************************)
(* The inductive invariant: the types that matter, and what is the same on *)
(* all processors.                                                         *)
(***************************************************************************)
Incumbent == [value : Value \cup {Infinite}, source : Procs \cup {AnySource},
              held : Value \cup {None}]

Problem == [id : Nat, bound : Nat]

Shapes ==
  /\ c.size \in Nat \ {0}
  /\ incumbent \in [Procs -> Incumbent]
  /\ pool \in [Procs -> SUBSET Problem]
  /\ created \in Nat /\ found \subseteq Value

SearchInv == Shapes /\ SearchIsTheSame

LEMMA ClustersHaveSize ==
  ASSUME RampUpAssumption, Init
  PROVE  c.size \in Nat \ {0}
<1>1. PICK shape \in Shape : InitFor(shape)
  BY DEF Init
<1>2. shape \in [1 .. 3 -> Nat \ {0}] \X (Nat \ {0, 1})
  BY DEF RampUpAssumption
<1>3. shape[1][1] \in Nat \ {0}
  BY <1>2
<1>4. c.size = shape[1][1]
  BY <1>1 DEF InitFor, Clusters
<1> QED BY <1>3, <1>4

LEMMA InitIsSearchInv ==
  ASSUME RampUpAssumption, Init
  PROVE  SearchInv
<1>1. c.size \in Nat \ {0}
  BY ClustersHaveSize
<1>2. PICK shape \in Shape : InitFor(shape)
  BY DEF Init
<1>3. /\ found = {} /\ created = 0
      /\ incumbent = [p \in Procs |-> [value |-> Infinite, source |-> AnySource, held |-> None]]
      /\ pool = [p \in Procs |-> {}]
  BY <1>2 DEF InitFor
<1>4. Shapes
  BY <1>1, <1>3 DEF Shapes, Incumbent
<1>5. Min(found \cup {Infinite}) = Infinite
  <2>1. {Infinite} \subseteq Nat \cup {-1} /\ {Infinite} # {}
    BY InfiniteIsWorst
  <2>2. Min({Infinite}) = Infinite
    BY <2>1, LeastExists
  <2> QED BY <1>3, <2>2
<1>6. 0 \in Procs
  BY <1>1 DEF Procs
<1> QED BY <1>3, <1>4, <1>5, <1>6 DEF SearchInv, SearchIsTheSame

-----------------------------------------------------------------------------
(***************************************************************************)
(* Incumbents.                                                             *)
(***************************************************************************)
Values == [Procs -> Value \cup {Infinite}]

\* All know the best of the solutions f, and who has it.
Agreed(inc, f) ==
  /\ inc \in [Procs -> Incumbent]
  /\ \A p \in Procs :
       /\ inc[p].value = Min(f \cup {Infinite})
       /\ (inc[p].source = AnySource) <=> (f = {})
       /\ inc[p].source # AnySource => inc[inc[p].source].held = inc[p].value

LEMMA IsLeast ==
  ASSUME NEW S, S \subseteq Nat \cup {-1}, NEW m \in S, \A x \in S : m <= x
  PROVE  Min(S) = m
<1>1. Min(S) \in S /\ \A x \in S : Min(S) <= x
  BY LeastExists
<1>2. \A x \in S : x \in Int
  OBVIOUS
<1>3. m \in Int /\ Min(S) \in Int
  BY <1>1, <1>2
<1>4. m <= Min(S) /\ Min(S) <= m
  BY <1>1
<1> QED BY <1>3, <1>4

LEMMA BestFound ==
  ASSUME RampUpAssumption, NEW f, f \subseteq Value
  PROVE  /\ Min(f \cup {Infinite}) \in f \cup {Infinite}
         /\ \A x \in f \cup {Infinite} : Min(f \cup {Infinite}) <= x
         /\ Min(f \cup {Infinite}) \in Nat
<1>1. f \cup {Infinite} \subseteq Nat /\ f \cup {Infinite} # {}
  BY InfiniteIsWorst
<1>2. f \cup {Infinite} \subseteq Nat \cup {-1}
  BY <1>1
<1> HIDE DEF Infinite
<1>3. Min(f \cup {Infinite}) \in f \cup {Infinite} /\ \A x \in f \cup {Infinite} : Min(f \cup {Infinite}) <= x
  BY <1>1, <1>2, LeastExists, Zenon
<1> QED BY <1>1, <1>3

\* What a processor knows after its own solution.
LEMMA FoundValues ==
  ASSUME RampUpAssumption, NEW inc \in [Procs -> Incumbent], NEW v \in Values
  PROVE  /\ FoundSolution(inc, v) \in [Procs -> Incumbent]
         /\ \A p \in Procs :
              /\ v[p] < inc[p].value =>
                   /\ FoundSolution(inc, v)[p].value = v[p]
                   /\ FoundSolution(inc, v)[p].source = p
                   /\ FoundSolution(inc, v)[p].held = v[p]
              /\ ~(v[p] < inc[p].value) => FoundSolution(inc, v)[p] = inc[p]
<1>1. ASSUME NEW p \in Procs
      PROVE  /\ FoundSolution(inc, v)[p] \in Incumbent
             /\ v[p] < inc[p].value =>
                  /\ FoundSolution(inc, v)[p].value = v[p]
                  /\ FoundSolution(inc, v)[p].source = p
                  /\ FoundSolution(inc, v)[p].held = v[p]
             /\ ~(v[p] < inc[p].value) => FoundSolution(inc, v)[p] = inc[p]
  <2>1. v[p] \in Value \cup {Infinite} /\ inc[p] \in Incumbent
    BY DEF Values
  <2>2. CASE v[p] < inc[p].value
    <3>1. inc[p].value \in Value \cup {Infinite}
      BY <2>1 DEF Incumbent
    <3>2. v[p] # Infinite
      <4>1. inc[p].value \in Nat /\ inc[p].value <= Infinite /\ Infinite \in Nat
        BY <3>1, InfiniteIsWorst
      <4> QED BY <2>2, <4>1
    <3>3. v[p] \in Value
      BY <2>1, <3>2
    <3>4. FoundSolution(inc, v)[p] = [value |-> v[p], source |-> p, held |-> v[p]]
      BY <2>2 DEF FoundSolution
    <3> QED BY <2>2, <3>3, <3>4 DEF Incumbent
  <2>3. CASE ~(v[p] < inc[p].value)
    <3>1. FoundSolution(inc, v)[p] = inc[p]
      BY <2>3 DEF FoundSolution
    <3> QED BY <2>1, <2>3, <3>1
  <2> QED BY <2>2, <2>3
<1>2. FoundSolution(inc, v) = [p \in Procs |-> FoundSolution(inc, v)[p]]
  BY DEF FoundSolution
<1> QED BY <1>1, <1>2

LEMMA RecordedValues ==
  ASSUME RampUpAssumption, found \subseteq Value, NEW v \in Values
  PROVE  /\ Recorded(v) \subseteq Value
         /\ Recorded(v) \cup {Infinite} = found \cup {Infinite} \cup {v[p] : p \in Procs}
         /\ Recorded(v) = {} => found = {} /\ \A p \in Procs : v[p] = Infinite
         /\ (found = {} /\ \A p \in Procs : v[p] = Infinite) => Recorded(v) = {}
BY DEF Recorded, Values

\* The agreement on the incumbent, after some have found solutions.
LEMMA SyncAgrees ==
  ASSUME RampUpAssumption, 0 \in Procs, Procs \subseteq Nat, found \subseteq Value,
         NEW inc, Agreed(inc, found), NEW v \in Values
  PROVE  Agreed(IncumbentSync(FoundSolution(inc, v)), Recorded(v))
<1>1. PICK fs : fs = FoundSolution(inc, v)
  OBVIOUS
<1>2. PICK old : old = Min(found \cup {Infinite})
  OBVIOUS
<1>3. PICK best : best = Min({fs[p].value : p \in Procs})
  OBVIOUS
<1>4. PICK new : new = Min(Recorded(v) \cup {Infinite})
  OBVIOUS
<1>5. PICK lowest : lowest = Min({fs[p].source : p \in {q \in Procs : fs[q].value = best}})
  OBVIOUS
<1>6. /\ fs \in [Procs -> Incumbent] /\ inc \in [Procs -> Incumbent]
      /\ \A p \in Procs : /\ inc[p].value = old
                          /\ v[p] < old => fs[p].value = v[p] /\ fs[p].source = p /\ fs[p].held = v[p]
                          /\ ~(v[p] < old) => fs[p] = inc[p]
  <2>1. inc \in [Procs -> Incumbent] /\ \A p \in Procs : inc[p].value = old
    BY <1>2 DEF Agreed
  <2>2. /\ fs \in [Procs -> Incumbent]
        /\ \A p \in Procs :
             /\ v[p] < inc[p].value => fs[p].value = v[p] /\ fs[p].source = p /\ fs[p].held = v[p]
             /\ ~(v[p] < inc[p].value) => fs[p] = inc[p]
    BY <1>1, <2>1, FoundValues, SMT
  <2> QED BY <2>1, <2>2
<1>7. /\ old \in Nat /\ old \in found \cup {Infinite}
      /\ \A x \in found \cup {Infinite} : x \in Nat /\ old <= x
  <2>1. \A x \in found \cup {Infinite} : x \in Nat
    BY InfiniteIsWorst
  <2> QED BY <1>2, <2>1, BestFound
<1>8. \A p \in Procs : fs[p].value \in Nat /\ v[p] \in Nat
  <2>1. \A x \in Value \cup {Infinite} : x \in Nat
    BY InfiniteIsWorst
  <2>2. \A p \in Procs : fs[p].value \in Value \cup {Infinite} /\ v[p] \in Value \cup {Infinite}
    BY <1>6 DEF Incumbent, Values
  <2> QED BY <2>1, <2>2
<1>9. /\ best \in {fs[p].value : p \in Procs}
      /\ \A p \in Procs : best <= fs[p].value
      /\ best \in Nat
  <2>1. /\ {fs[p].value : p \in Procs} \subseteq Nat \cup {-1}
        /\ {fs[p].value : p \in Procs} # {}
    BY <1>8
  <2>2. /\ best \in {fs[p].value : p \in Procs}
        /\ \A x \in {fs[p].value : p \in Procs} : best <= x
    BY <1>3, <2>1, LeastExists
  <2> QED BY <1>8, <2>2
<1>10. best = new
  <2>1. /\ Recorded(v) \subseteq Value
        /\ Recorded(v) \cup {Infinite} = found \cup {Infinite} \cup {v[p] : p \in Procs}
    BY RecordedValues
  <2>2. best \in Recorded(v) \cup {Infinite}
    <3>1. PICK p \in Procs : best = fs[p].value
      BY <1>9
    <3>2. CASE v[p] < old
      <4>1. best = v[p]
        BY <1>6, <3>1, <3>2
      <4>2. v[p] \in {v[r] : r \in Procs}
        OBVIOUS
      <4> QED BY <4>1, <4>2, <2>1
    <3>3. CASE ~(v[p] < old)
      <4>1. best = old
        BY <1>6, <3>1, <3>3
      <4> QED BY <4>1, <1>7, <2>1
    <3> QED BY <3>2, <3>3
  <2>3. \A p \in Procs : best <= v[p] /\ best <= old
    <3>1. TAKE p \in Procs
    <3>2. CASE v[p] < old
      BY <1>6, <1>7, <1>8, <1>9, <3>2
    <3>3. CASE ~(v[p] < old)
      <4>1. fs[p].value = old /\ old <= v[p]
        BY <1>6, <1>7, <1>8, <3>3
      <4>2. best <= old
        BY <4>1, <1>9
      <4> QED BY <4>1, <4>2, <1>7, <1>8, <1>9
    <3> QED BY <3>2, <3>3
  <2>4. \A x \in Recorded(v) \cup {Infinite} : x \in Nat /\ best <= x
    <3>1. TAKE x \in Recorded(v) \cup {Infinite}
    <3>2. CASE x \in found \cup {Infinite}
      <4>1. best <= old
        BY <2>3
      <4> QED BY <4>1, <1>7, <1>9, <3>2
    <3>3. CASE x \in {v[p] : p \in Procs}
      BY <1>8, <2>3, <3>3
    <3> QED BY <2>1, <3>2, <3>3
  <2>5. Recorded(v) \cup {Infinite} \subseteq Nat \cup {-1}
    BY <2>4
  <2> HIDE DEF Infinite
  <2>6. Min(Recorded(v) \cup {Infinite}) = best
    BY <2>2, <2>4, <2>5, IsLeast
  <2> QED BY <1>4, <2>6
<1>11. PICK q \in Procs : fs[q].value = best /\ fs[q].source = lowest
  <2> DEFINE S == {fs[p].source : p \in {r \in Procs : fs[r].value = best}}
  <2>1. \A p \in Procs : fs[p].source \in Nat \cup {-1}
    BY <1>6 DEF Incumbent, AnySource
  <2>2. S \subseteq Nat \cup {-1} /\ S # {}
    BY <1>9, <2>1
  <2>3. lowest \in S
    <3> HIDE DEF S
    <3>1. Min(S) \in S
      BY <2>2, LeastExists
    <3> QED BY <1>5, <3>1 DEF S
  <2> QED BY <2>3
<1>12. lowest \in Procs \cup {AnySource}
  BY <1>6, <1>11 DEF Incumbent
<1>13. ASSUME lowest # AnySource
       PROVE  lowest \in Procs /\ fs[lowest].held = best
  <2>1. lowest \in Procs
    BY <1>12, <1>13
  <2>2. CASE v[q] < old
    BY <1>6, <1>11, <2>1, <2>2
  <2>3. CASE ~(v[q] < old)
    <3>1. inc[q].source = lowest /\ best = old
      BY <1>6, <1>11, <2>3
    <3>2. inc[lowest].held = old
      BY <1>6, <1>13, <3>1 DEF Agreed
    <3>3. ~(v[lowest] < old)
      BY <1>6, <1>7, <1>8, <1>9, <2>1, <3>1
    <3> QED BY <1>6, <2>1, <3>1, <3>2, <3>3
  <2> QED BY <2>2, <2>3
<1>14. (lowest = AnySource) <=> (Recorded(v) = {})
  <2>1. \A p \in Procs : v[p] = Infinite \/ v[p] < Infinite
    BY InfiniteIsWorst DEF Values
  <2>2. ASSUME lowest = AnySource
        PROVE  Recorded(v) = {}
    <3>1. AnySource \notin Procs
      BY DEF AnySource
    <3>2. ~(v[q] < old)
      BY <1>6, <1>11, <2>2, <3>1
    <3>3. inc[q].source = AnySource /\ best = old
      BY <1>6, <1>11, <2>2, <3>2
    <3>4. found = {}
      BY <3>3 DEF Agreed
    <3>5. old = Infinite
      BY <1>7, <3>4
    <3>6. \A p \in Procs : v[p] = Infinite
      <4>1. TAKE p \in Procs
      <4>2. ~(v[p] < old)
        BY <1>6, <1>7, <1>8, <1>9, <3>3
      <4> QED BY <2>1, <3>5, <4>2
    <3> QED BY <3>4, <3>6, RecordedValues
  <2>3. ASSUME Recorded(v) = {}
        PROVE  lowest = AnySource
    <3>1. found = {} /\ \A p \in Procs : v[p] = Infinite
      BY <2>3, RecordedValues
    <3>2. old = Infinite
      BY <1>7, <3>1
    <3>3. ~(v[q] < old)
      BY <1>7, <3>1, <3>2
    <3>4. inc[q].source = AnySource
      BY <3>1 DEF Agreed
    <3> QED BY <1>6, <1>11, <3>3, <3>4
  <2> QED BY <2>2, <2>3
<1>15. best \in Value \cup {Infinite}
  BY <1>6, <1>9 DEF Incumbent
<1>16. PICK sync : sync = IncumbentSync(fs)
  OBVIOUS
<1>17. sync = [p \in Procs |-> [value |-> best, source |-> lowest,
                 held |-> IF p = lowest THEN fs[p].held ELSE None]]
  BY <1>3, <1>5, <1>16 DEF IncumbentSync
<1>18. sync \in [Procs -> Incumbent]
  <2>1. \A p \in Procs : fs[p].held \in Value \cup {None}
    BY <1>6 DEF Incumbent
  <2>2. ASSUME NEW p \in Procs
        PROVE  sync[p] \in Incumbent
    <3>1. sync[p] = [value |-> best, source |-> lowest,
                     held |-> IF p = lowest THEN fs[p].held ELSE None]
      BY <1>17
    <3> QED BY <1>12, <1>15, <2>1, <3>1 DEF Incumbent
  <2> QED BY <1>17, <2>2
<1>19. ASSUME NEW p \in Procs
       PROVE  /\ sync[p].value = new
              /\ (sync[p].source = AnySource) <=> (Recorded(v) = {})
              /\ sync[p].source # AnySource => sync[sync[p].source].held = sync[p].value
  <2>1. sync[p].value = best /\ sync[p].source = lowest
    BY <1>17
  <2>2. lowest # AnySource => sync[lowest].held = best
    BY <1>13, <1>17
  <2> QED BY <1>10, <1>14, <2>1, <2>2
<1> QED BY <1>1, <1>4, <1>16, <1>18, <1>19 DEF Agreed

\* A solution that all find.
LEMMA FoundAgrees ==
  ASSUME RampUpAssumption, 0 \in Procs, found \subseteq Value,
         NEW inc, Agreed(inc, found), NEW v \in Value
  PROVE  Agreed(FoundSolution(inc, Everywhere(v)), Recorded(Everywhere(v)))
<1>1. PICK fs : fs = FoundSolution(inc, Everywhere(v))
  OBVIOUS
<1>2. PICK old : old = Min(found \cup {Infinite})
  OBVIOUS
<1>3. v \in Nat /\ v < Infinite /\ Infinite \in Nat /\ \A u \in Value : u \in Nat
  BY InfiniteIsWorst
<1>4. Everywhere(v) \in Values /\ \A p \in Procs : Everywhere(v)[p] = v
  BY DEF Everywhere, Values
<1>5. inc \in [Procs -> Incumbent] /\ \A p \in Procs : inc[p].value = old
  BY <1>2 DEF Agreed
<1>6. /\ fs \in [Procs -> Incumbent]
      /\ \A p \in Procs : /\ v < old => fs[p].value = v /\ fs[p].source = p /\ fs[p].held = v
                          /\ ~(v < old) => fs[p] = inc[p]
  <2>1. /\ fs \in [Procs -> Incumbent]
        /\ \A p \in Procs :
             /\ Everywhere(v)[p] < inc[p].value =>
                  /\ fs[p].value = Everywhere(v)[p]
                  /\ fs[p].source = p
                  /\ fs[p].held = Everywhere(v)[p]
             /\ ~(Everywhere(v)[p] < inc[p].value) => fs[p] = inc[p]
    BY <1>1, <1>4, <1>5, FoundValues, SMT
  <2> QED BY <1>4, <1>5, <2>1
<1>7. Recorded(Everywhere(v)) = found \cup {v}
  <2>1. {Everywhere(v)[p] : p \in Procs} = {v}
    BY <1>4
  <2>2. v # Infinite
    BY <1>3
  <2> QED BY <2>1, <2>2 DEF Recorded
<1>8. PICK new : new = Min(Recorded(Everywhere(v)) \cup {Infinite})
  OBVIOUS
<1>9. /\ old \in Nat /\ old \in found \cup {Infinite}
      /\ \A x \in found \cup {Infinite} : x \in Nat /\ old <= x
  <2>1. \A x \in found \cup {Infinite} : x \in Nat
    BY InfiniteIsWorst
  <2> QED BY <1>2, <2>1, BestFound
<1>10. new = IF v < old THEN v ELSE old
  <2> DEFINE S == Recorded(Everywhere(v)) \cup {Infinite}
             m == IF v < old THEN v ELSE old
  <2>1. S = (found \cup {Infinite}) \cup {v}
    BY <1>7
  <2>2. m \in S /\ \A x \in S : x \in Nat /\ m <= x
    <3>1. \A x \in S : x \in found \cup {Infinite} \/ x = v
      BY <2>1
    <3>2. v \in S /\ old \in S
      BY <1>9, <2>1
    <3> HIDE DEF S
    <3>3. CASE v < old
      BY <1>3, <1>9, <3>1, <3>2, <3>3
    <3>4. CASE ~(v < old)
      BY <1>3, <1>9, <3>1, <3>2, <3>4
    <3> QED BY <3>3, <3>4
  <2> HIDE DEF S, m
  <2>3. S \subseteq Nat \cup {-1}
    BY <2>2
  <2>4. Min(S) = m
    BY <2>2, <2>3, IsLeast
  <2> QED BY <1>8, <2>4 DEF S, m
<1>11. ASSUME NEW p \in Procs
       PROVE  /\ fs[p].value = new
              /\ (fs[p].source = AnySource) <=> (Recorded(Everywhere(v)) = {})
              /\ fs[p].source # AnySource => fs[fs[p].source].held = fs[p].value
  <2>1. CASE v < old
    <3>1. fs[p].value = v /\ fs[p].source = p /\ fs[p].held = v
      BY <1>6, <2>1
    <3>2. p # AnySource
      BY DEF Procs, AnySource
    <3> QED BY <1>7, <1>10, <2>1, <3>1, <3>2
  <2>2. CASE ~(v < old)
    <3>1. fs[p] = inc[p] /\ inc[p].value = old
      BY <1>5, <1>6, <2>2
    <3>2. found # {}
      BY <1>3, <1>9, <2>2
    <3>3. inc[p].source # AnySource /\ inc[inc[p].source].held = inc[p].value
      BY <3>2 DEF Agreed
    <3>4. inc[p].source \in Procs
      BY <1>5, <3>3 DEF Incumbent
    <3>5. fs[inc[p].source] = inc[inc[p].source]
      BY <1>6, <2>2, <3>4
    <3> QED BY <1>7, <1>10, <2>2, <3>1, <3>3, <3>5
  <2> QED BY <2>1, <2>2
<1> QED BY <1>1, <1>6, <1>8, <1>11 DEF Agreed

-----------------------------------------------------------------------------
(***************************************************************************)
(* The steps.                                                              *)
(***************************************************************************)
LEMMA KnownToAll ==
  ASSUME SearchInv
  PROVE  /\ Agreed(incumbent, found) /\ 0 \in Procs /\ Procs \subseteq Nat
         /\ \A p \in Procs : pool[p] = pool[0] /\ pool[p] \in SUBSET Problem
<1>1. c.size \in Nat \ {0}
  BY DEF SearchInv, Shapes
<1>2. 0 \in Procs /\ Procs \subseteq Nat
  BY <1>1 DEF Procs
<1> QED BY <1>2 DEF SearchInv, Shapes, SearchIsTheSame, Agreed

\* What a step has to do.
LEMMA SameAgain ==
  ASSUME SearchInv, c' = c, created' \in Nat, found' \subseteq Value,
         Agreed(incumbent', found'),
         pool' \in [Procs -> SUBSET Problem],
         \A p \in Procs : pool'[p] = pool'[0]
  PROVE  SearchInv'
<1>1. Procs' = Procs
  BY DEF Procs
<1>2. c'.size \in Nat \ {0}
  BY DEF SearchInv, Shapes
<1>3. Incumbent' = Incumbent
  BY <1>1 DEF Incumbent
<1>4. Shapes'
  BY <1>1, <1>2, <1>3 DEF Shapes, Agreed
<1>5. SearchIsTheSame'
  BY <1>1 DEF SearchIsTheSame, Agreed
<1> QED BY <1>4, <1>5 DEF SearchInv

\* All choose the same problem.
LEMMA SameChoice ==
  ASSUME SearchInv, NEW p \in Procs
  PROVE  Chosen(p) = Chosen(0)
<1>1. pool[p] = pool[0]
  BY KnownToAll
<1> QED BY <1>1, Zenon DEF Chosen

\* And prune alike.
LEMMA SamePruned ==
  ASSUME NEW S \in SUBSET Problem, NEW value
  PROVE  Pruned(S, value) \in SUBSET Problem
BY DEF Pruned

LEMMA StartStep ==
  ASSUME RampUpAssumption, SearchInv, Start
  PROVE  SearchInv'
<1>0. Agreed(incumbent, found) /\ 0 \in Procs /\ Procs \subseteq Nat /\ found \subseteq Value
  BY KnownToAll DEF SearchInv, Shapes
<1>1. PICK guess \in Value \cup {Infinite} :
        /\ incumbent' = IncumbentSync(FoundSolution(incumbent, Everywhere(guess)))
        /\ found' = Recorded(Everywhere(guess))
  BY DEF Start
<1>2. Everywhere(guess) \in Values
  BY DEF Everywhere, Values
<1>3. Agreed(IncumbentSync(FoundSolution(incumbent, Everywhere(guess))), Recorded(Everywhere(guess)))
  BY <1>0, <1>2, SyncAgrees
<1>4. Agreed(incumbent', found')
  BY <1>1, <1>3
<1>5. found' \subseteq Value
  BY <1>0, <1>1, <1>2, RecordedValues
<1>6. Min(Value) \in Nat
  <2>1. Value \subseteq Nat /\ Value # {} /\ Value \subseteq Nat \cup {-1}
    BY DEF RampUpAssumption
  <2>2. Min(Value) \in Value
    BY <2>1, LeastExists
  <2> QED BY <2>1, <2>2
<1>7. pool' = [p \in Procs |-> {[id |-> 1, bound |-> Min(Value)]}] /\ created' = 1 /\ c' = c
  BY DEF Start
<1>8. pool' \in [Procs -> SUBSET Problem] /\ \A p \in Procs : pool'[p] = pool'[0]
  BY <1>0, <1>6, <1>7 DEF Problem
<1> QED BY <1>4, <1>5, <1>7, <1>8, SameAgain

LEMMA FathomStep ==
  ASSUME RampUpAssumption, SearchInv, Fathom
  PROVE  SearchInv'
<1>0. /\ Agreed(incumbent, found) /\ 0 \in Procs /\ found \subseteq Value /\ created \in Nat
      /\ \A p \in Procs : pool[p] = pool[0] /\ pool[p] \in SUBSET Problem
  BY KnownToAll DEF SearchInv, Shapes
<1>1. /\ pool' = [p \in Procs |-> pool[p] \ {Chosen(p)}]
      /\ c' = c /\ incumbent' = incumbent /\ created' = created /\ found' = found
  BY DEF Fathom
<1>2. \A p \in Procs : pool'[p] = pool'[0] /\ pool'[p] \in SUBSET Problem
  BY <1>0, <1>1, SameChoice
<1>3. pool' \in [Procs -> SUBSET Problem]
  BY <1>1, <1>2
<1>4. Agreed(incumbent', found')
  BY <1>0, <1>1
<1> QED BY <1>0, <1>1, <1>2, <1>3, <1>4, SameAgain

LEMMA TerminalStep ==
  ASSUME RampUpAssumption, SearchInv, Terminal
  PROVE  SearchInv'
<1>0. /\ Agreed(incumbent, found) /\ 0 \in Procs /\ found \subseteq Value /\ created \in Nat
      /\ \A p \in Procs : pool[p] = pool[0] /\ pool[p] \in SUBSET Problem
  BY KnownToAll DEF SearchInv, Shapes
<1>1. PICK v \in Value :
        /\ incumbent' = FoundSolution(incumbent, Everywhere(v))
        /\ found' = Recorded(Everywhere(v))
  BY DEF Terminal
<1>2. Agreed(FoundSolution(incumbent, Everywhere(v)), Recorded(Everywhere(v)))
  BY <1>0, FoundAgrees
<1>3. Agreed(incumbent', found')
  BY <1>1, <1>2
<1>4. found' \subseteq Value
  <2>1. Everywhere(v) \in Values
    BY DEF Everywhere, Values
  <2> QED BY <1>0, <1>1, <2>1, RecordedValues
<1>5. /\ pool' = [p \in Procs |-> Pruned(pool[p] \ {Chosen(p)}, incumbent'[p].value)]
      /\ c' = c /\ created' = created
  BY DEF Terminal
<1>6. \A p \in Procs : incumbent'[p].value = incumbent'[0].value
  BY <1>0, <1>3 DEF Agreed
<1>7. ASSUME NEW p \in Procs
      PROVE  pool'[p] = pool'[0] /\ pool'[p] \in SUBSET Problem
  <2>1. pool[p] = pool[0] /\ Chosen(p) = Chosen(0) /\ incumbent'[p].value = incumbent'[0].value
    BY <1>0, <1>6, SameChoice
  <2>2. /\ pool'[p] = Pruned(pool[p] \ {Chosen(p)}, incumbent'[p].value)
        /\ pool'[0] = Pruned(pool[0] \ {Chosen(0)}, incumbent'[0].value)
    BY <1>0, <1>5
  <2>3. pool'[p] \in SUBSET Problem
    BY <1>0, <2>2 DEF Pruned
  <2> QED BY <2>1, <2>2, <2>3
<1>8. pool' \in [Procs -> SUBSET Problem]
  BY <1>5, <1>7
<1> QED BY <1>0, <1>3, <1>4, <1>5, <1>7, <1>8, SameAgain

LEMMA BranchStep ==
  ASSUME RampUpAssumption, SearchInv, Branch
  PROVE  SearchInv'
<1>0. /\ Agreed(incumbent, found) /\ 0 \in Procs /\ Procs \subseteq Nat /\ found \subseteq Value
      /\ created \in Nat /\ \A p \in Procs : pool[p] = pool[0] /\ pool[p] \in SUBSET Problem
  BY KnownToAll DEF SearchInv, Shapes
<1>1. PICK v \in Values : /\ incumbent' = IncumbentSync(FoundSolution(incumbent, v))
                          /\ found' = Recorded(v)
  <2>1. PICK p1, p2 \in Procs, v1, v2 \in Value \cup {Infinite} :
          /\ incumbent' = IncumbentSync(FoundSolution(incumbent,
               [p \in Procs |-> IF p = p1 THEN v1 ELSE IF p = p2 THEN v2 ELSE Infinite]))
          /\ found' = Recorded([p \in Procs |-> IF p = p1 THEN v1 ELSE IF p = p2 THEN v2 ELSE Infinite])
    BY ZenonT(60) DEF Branch
  <2>2. [p \in Procs |-> IF p = p1 THEN v1 ELSE IF p = p2 THEN v2 ELSE Infinite] \in Values
    BY DEF Values
  <2> QED BY <2>1, <2>2, Zenon
<1>2. Agreed(IncumbentSync(FoundSolution(incumbent, v)), Recorded(v))
  BY <1>0, SyncAgrees
<1>3. Agreed(incumbent', found')
  BY <1>1, <1>2
<1>4. found' \subseteq Value
  BY <1>0, <1>1, RecordedValues
<1>5. PICK n \in 1 .. 2 : \E bound \in [1 .. n -> Value] :
        /\ created' = created + n
        /\ pool' = [p \in Procs |->
             Pruned((pool[p] \ {Chosen(p)})
                      \cup {[id |-> created + i, bound |-> bound[i]] : i \in 1 .. n},
                    incumbent'[p].value)]
  BY DEF Branch
<1>6. PICK bound \in [1 .. n -> Value] :
        /\ created' = created + n
        /\ pool' = [p \in Procs |->
             Pruned((pool[p] \ {Chosen(p)})
                      \cup {[id |-> created + i, bound |-> bound[i]] : i \in 1 .. n},
                    incumbent'[p].value)]
  BY <1>5
<1>7. {[id |-> created + i, bound |-> bound[i]] : i \in 1 .. n} \in SUBSET Problem
  <2>1. \A u \in Value : u \in Nat
    BY DEF RampUpAssumption
  <2>2. ASSUME NEW i \in 1 .. n
        PROVE  [id |-> created + i, bound |-> bound[i]] \in Problem
    <3>1. created + i \in Nat
      BY <1>0
    <3>2. bound[i] \in Nat
      BY <2>1
    <3> QED BY <3>1, <3>2 DEF Problem
  <2> QED BY <2>2
<1>8. \A p \in Procs : incumbent'[p].value = incumbent'[0].value
  BY <1>0, <1>3 DEF Agreed
<1>9. PICK children : children = {[id |-> created + i, bound |-> bound[i]] : i \in 1 .. n}
  OBVIOUS
<1>10. ASSUME NEW p \in Procs
      PROVE  pool'[p] = pool'[0] /\ pool'[p] \in SUBSET Problem
  <2>1. pool[p] = pool[0] /\ Chosen(p) = Chosen(0) /\ incumbent'[p].value = incumbent'[0].value
    BY <1>0, <1>8, SameChoice
  <2>2. /\ pool'[p] = Pruned((pool[p] \ {Chosen(p)}) \cup children, incumbent'[p].value)
        /\ pool'[0] = Pruned((pool[0] \ {Chosen(0)}) \cup children, incumbent'[0].value)
    BY <1>0, <1>6, <1>9
  <2>3. pool'[p] \in SUBSET Problem
    BY <1>0, <1>7, <1>9, <2>2 DEF Pruned
  <2> QED BY <2>1, <2>2, <2>3
<1>11. pool' \in [Procs -> SUBSET Problem]
  BY <1>6, <1>10
<1>12. c' = c /\ created' \in Nat
  BY <1>0, <1>6 DEF Branch
<1> QED BY <1>3, <1>4, <1>10, <1>11, <1>12, SameAgain

LEMMA CrossoverStep ==
  ASSUME RampUpAssumption, SearchInv, Crossover
  PROVE  SearchInv'
<1>0. /\ Agreed(incumbent, found) /\ 0 \in Procs /\ Procs \subseteq Nat /\ found \subseteq Value
      /\ created \in Nat /\ pool \in [Procs -> SUBSET Problem]
      /\ \A p \in Procs : pool[p] = pool[0]
  BY KnownToAll DEF SearchInv, Shapes
<1>1. /\ incumbent' = IncumbentSync(incumbent)
      /\ c' = c /\ pool' = pool /\ created' = created /\ found' = found
  BY DEF Crossover
<1>2. Everywhere(Infinite) \in Values /\ \A p \in Procs : Everywhere(Infinite)[p] = Infinite
  BY DEF Everywhere, Values
<1>3. FoundSolution(incumbent, Everywhere(Infinite)) = incumbent
  <2>1. \A x \in Value \cup {Infinite} : ~(Infinite < x)
    BY InfiniteIsWorst
  <2>2. incumbent \in [Procs -> Incumbent] /\ \A p \in Procs : incumbent[p].value \in Value \cup {Infinite}
    BY <1>0 DEF Agreed, Incumbent
  <2> QED BY <1>2, <2>1, <2>2 DEF FoundSolution
<1>4. Recorded(Everywhere(Infinite)) = found
  BY <1>2 DEF Recorded
<1>5. Agreed(IncumbentSync(FoundSolution(incumbent, Everywhere(Infinite))), Recorded(Everywhere(Infinite)))
  BY <1>0, <1>2, SyncAgrees
<1>6. Agreed(incumbent', found')
  BY <1>1, <1>3, <1>4, <1>5
<1> QED BY <1>0, <1>1, <1>6, SameAgain

-----------------------------------------------------------------------------
(***************************************************************************)
(* Results.                                                                *)
(***************************************************************************)
LEMMA StepKeepsSearchInv ==
  ASSUME RampUpAssumption, SearchInv, [Next]_vars
  PROVE  SearchInv'
<1>1. CASE UNCHANGED vars
  BY <1>1 DEF vars, SearchInv, Shapes, SearchIsTheSame, Procs, Incumbent
<1> QED BY <1>1, StartStep, FathomStep, TerminalStep, BranchStep, CrossoverStep DEF Next

\* All processors keep the same pool in ramp-up, know the best value found, and
\* know a processor that holds that solution (rampUpSearch,
\* rampUpIncumbentSync), for any clusters and values, and whatever the
\* heuristics find.
THEOREM SameSearch ==
  ASSUME RampUpAssumption
  PROVE  Spec => []SearchIsTheSame
<1>1. Init => SearchInv
  BY InitIsSearchInv
<1>2. SearchInv /\ [Next]_vars => SearchInv'
  BY StepKeepsSearchInv
<1>3. SearchInv => SearchIsTheSame
  BY DEF SearchInv
<1> QED BY <1>1, <1>2, <1>3, PTL DEF Spec

=============================================================================
