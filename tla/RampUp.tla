-------------------------------- MODULE RampUp --------------------------------
(***************************************************************************)
(* The start of a parallel search (rampUpSearch of pbb/parBranching.cpp):  *)
(* all processors search the same tree, each with the whole pool, and only *)
(* exchange what their heuristics find.  At the crossover each keeps a     *)
(* part of its pool and throws away the rest, with no further message.     *)
(***************************************************************************)
EXTENDS Clustering, Sequences, FiniteSetsExt, SequencesExt

CONSTANTS
  Shape,         \* <<processors, clusterSize, numClusters, hubsDontWorkSize>>
  Value,         \* of bounds and solutions; smaller is better
  RampUpPoolLimit,
  MaxProblems    \* bound on the number of problems created

RampUpAssumption ==
  /\ Shape \subseteq [1 .. 3 -> Nat \ {0}] \X (Nat \ {0, 1})
  /\ Value \subseteq Nat /\ \E v \in Value : \A u \in Value : u <= v
  /\ {RampUpPoolLimit, MaxProblems} \subseteq Nat

Infinite  == 1 + Max(Value)  \* the incumbent's value when there is none
AnySource == -1
None      == -1

VARIABLES
  c,         \* the clusters
  phase,     \* "start", "search" or "done"
  incumbent, \* of each processor: value, source, and the solution held
  pool,      \* of each processor: a set of problems
  created,   \* how many there have been
  found,     \* values of all solutions found (history)
  tempPool,  \* what each processor keeps
  clusterLoad, workerLoad \* problems in the cluster, and at a hub's workers

loads == <<tempPool, clusterLoad, workerLoad>>
vars  == <<c, phase, incumbent, pool, created, found, loads>>

Procs == 0 .. c.size - 1

\* Two numbers: the value in which the pool is ordered, and the age.
Before(s, t) == s.bound < t.bound \/ (s.bound = t.bound /\ s.id < t.id)

InitFor(shape) ==
  /\ c = Clusters(shape[1][1], shape[1][2], shape[1][3], shape[2])
  /\ phase = "start" /\ created = 0 /\ found = {}
  /\ incumbent = [p \in Procs |-> [value |-> Infinite, source |-> AnySource, held |-> None]]
  /\ pool = [p \in Procs |-> {}] /\ tempPool = pool
  /\ clusterLoad = [p \in Procs |-> 0] /\ workerLoad = [p \in Procs |-> <<>>]

Init == \E shape \in Shape : InitFor(shape)

-----------------------------------------------------------------------------
(***************************************************************************)
(* Incumbents.                                                             *)
(***************************************************************************)
\* foundSolution, with the value v[p] or Infinite at processor p.
FoundSolution(inc, v) ==
  [p \in Procs |-> IF v[p] < inc[p].value
                   THEN [value |-> v[p], source |-> p, held |-> v[p]] ELSE inc[p]]

\* Mutant: everybody keeps what it knows.
NoSync(inc) == inc

\* rampUpIncumbentSync: the best value, and the lowest of its sources, which
\* alone keeps the solution.
IncumbentSync(inc) ==
  LET best   == Min({inc[p].value : p \in Procs})
      lowest == Min({inc[p].source : p \in {q \in Procs : inc[q].value = best}})
  IN  [p \in Procs |-> [value |-> best, source |-> lowest,
                        held |-> IF p = lowest THEN inc[p].held ELSE None]]

Recorded(v) == found \cup ({v[p] : p \in Procs} \ {Infinite})

-----------------------------------------------------------------------------
(***************************************************************************)
(* The synchronous search.  The code is the same on all processors, and so *)
(* is what a problem turns into; heuristics may find different solutions.  *)
(***************************************************************************)
Everywhere(v) == [p \in Procs |-> v]

\* initialGuess, and the root.
Start ==
  /\ phase = "start" /\ phase' = "search"
  /\ \E guess \in Value \cup {Infinite} :
       /\ incumbent' = IncumbentSync(FoundSolution(incumbent, Everywhere(guess)))
       /\ found' = Recorded(Everywhere(guess))
  /\ pool' = [p \in Procs |-> {[id |-> 1, bound |-> Min(Value)]}] /\ created' = 1
  /\ UNCHANGED <<c, loads>>

KeepRampingUp(p) == pool[p] # {} /\ Cardinality(pool[p]) <= RampUpPoolLimit

Chosen(p) == CHOOSE s \in pool[p] : \A t \in pool[p] \ {s} : Before(s, t)

\* pruneIfNeeded
Pruned(problems, value) == {s \in problems : s.bound < value}

\* A problem that can be fathomed is erased.
Fathom ==
  /\ phase = "search"
  /\ \A p \in Procs : KeepRampingUp(p) /\ Chosen(p).bound >= incumbent[p].value
  /\ pool' = [p \in Procs |-> pool[p] \ {Chosen(p)}]
  /\ UNCHANGED <<c, phase, incumbent, created, found, loads>>

\* Or it turns out to be a candidate solution, found by all.
Terminal ==
  /\ phase = "search"
  /\ \A p \in Procs : KeepRampingUp(p) /\ Chosen(p).bound < incumbent[p].value
  /\ \E v \in Value :
       /\ \A p \in Procs : v >= Chosen(p).bound
       /\ incumbent' = FoundSolution(incumbent, Everywhere(v))
       /\ found' = Recorded(Everywhere(v))
  /\ pool' = [p \in Procs |-> Pruned(pool[p] \ {Chosen(p)}, incumbent'[p].value)]
  /\ UNCHANGED <<c, phase, created, loads>>

\* Or the heuristics run, here with an outcome at no more than two processors,
\* and then the problem is split.
Branch ==
  /\ phase = "search"
  /\ \A p \in Procs : KeepRampingUp(p) /\ Chosen(p).bound < incumbent[p].value
  /\ \E p1, p2 \in Procs, v1, v2 \in Value \cup {Infinite} :
       LET v == [p \in Procs |-> IF p = p1 THEN v1 ELSE IF p = p2 THEN v2 ELSE Infinite]
       IN  /\ p1 < p2 \/ (p1 = p2 /\ v2 = Infinite)
           /\ incumbent' = IncumbentSync(FoundSolution(incumbent, v))
           /\ found' = Recorded(v)
  /\ \E n \in 1 .. 2 : \E bound \in [1 .. n -> Value] :
       /\ created + n <= MaxProblems /\ created' = created + n
       /\ \A i \in 1 .. n, p \in Procs : bound[i] >= Chosen(p).bound
       /\ bound[1] <= bound[n]
       /\ pool' = [p \in Procs |->
            Pruned((pool[p] \ {Chosen(p)})
                     \cup {[id |-> created + i, bound |-> bound[i]] : i \in 1 .. n},
                   incumbent'[p].value)]
  /\ UNCHANGED <<c, phase, loads>>

-----------------------------------------------------------------------------
(***************************************************************************)
(* The crossover.                                                          *)
(***************************************************************************)
Gcd(a, b) == Max({d \in 1 .. b : a % d = 0 /\ b % d = 0})

\* Mutant: the size of a cluster, whatever the number of workers.
ClusterSkip == TypicalFollowers(c)

\* The least number from the workers in a cluster up that is relatively prime
\* to all workers; each processor tries one.
SkipFactor ==
  LET total    == TotalNumFollowers(c)
      trial(p) == IF Gcd(TypicalFollowers(c) + p, total) = 1
                  THEN TypicalFollowers(c) + p ELSE total + 1
  IN  Min({trial(p) : p \in Procs})

\* Where the i-th problem of the pool goes.
Owner(i) == GlobalFollower(c, ((i - 1) * SkipFactor) % TotalNumFollowers(c))

\* Every processor goes through its own pool.
Crossover ==
  /\ phase = "search" /\ phase' = "done"
  /\ \A p \in Procs : ~KeepRampingUp(p)
  /\ incumbent' = IncumbentSync(incumbent)
  /\ LET order(p) == [i \in 1 .. Cardinality(pool[p]) |-> CHOOSE s \in pool[p] :
                        Cardinality({t \in pool[p] : Before(t, s)}) = i - 1]
         dealt(p, q) == {i \in DOMAIN order(p) : Owner(i) = q}
     IN  /\ tempPool' = [p \in Procs |-> {order(p)[i] : i \in dealt(p, p)}]
         /\ clusterLoad' = [p \in Procs |->
              Cardinality({i \in DOMAIN order(p) :
                             WhichCluster(c, Owner(i)) = WhichCluster(c, p)})]
         /\ workerLoad' = [h \in Procs |->
              IF ~IsLeader(c, h) THEN <<>>
              ELSE [w \in 0 .. NumFollowers(c, h) - 1 |->
                      Cardinality({i \in DOMAIN order(h) :
                        /\ WhichCluster(c, Owner(i)) = WhichCluster(c, h)
                        /\ WhichFollower(c, Owner(i)) = w})]]
  /\ UNCHANGED <<c, pool, created, found>>

Next == Start \/ Fathom \/ Terminal \/ Branch \/ Crossover

Spec == Init /\ [][Next]_vars

-----------------------------------------------------------------------------
(***************************************************************************)
(* Properties.                                                             *)
(***************************************************************************)
\* Whatever the heuristics find, all processors keep the same pool, know the
\* best value found, and hold the solution at the processor they believe to be
\* its source.
SearchIsTheSame ==
  \A p \in Procs :
    /\ pool[p] = pool[0]
    /\ incumbent[p].value = Min(found \cup {Infinite})
    /\ (incumbent[p].source = AnySource) <=> (found = {})
    /\ incumbent[p].source # AnySource =>
         incumbent[incumbent[p].source].held = incumbent[p].value

\* After the crossover each problem is at exactly one processor, a worker; no
\* worker has two more than another; and every cluster and hub has counted
\* what its workers have kept.
CrossoverIsRight ==
  phase = "done" =>
    LET workers == {p \in Procs : IsFollower(c, p)}
        has(p)  == Cardinality(tempPool[p])
    IN  /\ UNION {tempPool[p] : p \in workers} = pool[0]
        /\ MapThenSumSet(has, workers) = Cardinality(pool[0])
        /\ \A p, q \in workers : has(p) <= has(q) + 1
        /\ \A p \in Procs :
             LET members == Members(c, WhichCluster(c, p)) \cap workers
             IN  /\ clusterLoad[p] = MapThenSumSet(has, members)
                 /\ IsLeader(c, p) => \A w \in DOMAIN workerLoad[p] :
                      workerLoad[p][w] = has(Follower(c, p, w))
                 /\ IsLeader(c, p) => Cardinality(DOMAIN workerLoad[p]) = Cardinality(members)

=============================================================================
