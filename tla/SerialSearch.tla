---------------------------- MODULE SerialSearch ----------------------------
(***************************************************************************)
(* PEBBL's serial branch and bound (bb/branching.cpp, bb/branching.h): the *)
(* loop of searchFramework, the three handlers, the three pools, fathoming *)
(* with and without enumeration, and the repository of solutions.          *)
(*                                                                         *)
(* The search is sequential.  What varies is the problem, the parameters   *)
(* and what the application does: it may pause while it bounds or splits a *)
(* subproblem, tighten the bound of one whose children are being made, and *)
(* find a solution with its heuristic.  A step is one call of a handler.   *)
(* All is for minimization: the code multiplies by "sense" throughout.     *)
(***************************************************************************)
EXTENDS Integers, Sequences, FiniteSets, SequencesExt

CONSTANTS
  Problems,        \* search trees, see IsProblem
  Parameters,      \* settings, see IsSetting
  MaxHeuristic     \* bound on the solutions found by the heuristic

Infinite == 99     \* MAXDOUBLE
None     == "none"

\* A tree of subproblems: their children, final bounds and integrality
\* measures; what a feasible one yields; all solutions below each of them; and
\* the values of the solutions.
IsProblem(q) ==
  LET node == DOMAIN q.children
  IN  /\ 1 \in node /\ q.children \in [node -> Seq(node)]
      /\ q.bound \in [node -> Nat] /\ q.measure \in [node -> Nat]
      /\ q.value \in [DOMAIN q.value -> Nat]
      /\ q.solution \in [node -> DOMAIN q.value \union {None}]
      /\ \A n \in node :
           /\ \A i \in DOMAIN q.children[n] :
                q.bound[n] <= q.bound[q.children[n][i]]
           /\ q.solution[n] # None => q.bound[n] = q.value[q.solution[n]]
           /\ q.below[n] = ({q.solution[n]} \ {None}) \union
                          UNION {q.below[m] : m \in ToSet(q.children[n])}

\* -1 and Infinite stand for parameters that are not set.
IsSetting(m) ==
  /\ m.handler \in {"lazy", "hybrid", "eager"}
  /\ m.pool \in {"heap", "stack", "queue"}
  /\ {m.initialDive, m.integralityDive, m.pauses, m.stays, m.aborts}
       \subseteq BOOLEAN
  /\ m.absTolerance \in Nat /\ m.startIncumbent \in Nat
  /\ {m.enumCount, m.enumAbsTol} \subseteq Int /\ m.enumCutoff \in Nat

ASSUME SearchAssumption ==
  /\ \A q \in Problems : IsProblem(q)
  /\ \A m \in Parameters : IsSetting(m)
  /\ MaxHeuristic \in Nat

VARIABLES
  problem, par,    \* chosen at the start
  phase,           \* where the search is in its loop
  pool,            \* a heap, or a list from its head
  firstPrune,      \* of the heap: has it never been pruned?
  current,         \* the current subproblem, if any: a set
  probCounter,     \* number of subproblems made
  best,            \* the incumbent and its value
  repos, lastSol,  \* the repository, by serial number; lastSolId
  solCounter,      \* number of solutions stamped
  needPruning,
  heuristics,      \* number of solutions found by the heuristic
  dropped          \* subproblems an abort has cleared (history)

chosen == <<problem, par>>
store  == <<best, repos, lastSol, solCounter, needPruning>>
vars   == <<chosen, phase, pool, firstPrune, current, probCounter, store,
            heuristics, dropped>>

Least(a, b) == IF a < b THEN a ELSE b

-----------------------------------------------------------------------------
(***************************************************************************)
(* Fathoming.  The relative tolerance is there to fathom equal values.     *)
(***************************************************************************)
Enumerating == par.enumCutoff < Infinite \/ par.enumCount > 1
                 \/ par.enumAbsTol >= 0

WithinTolerance(threshold, value) ==
  /\ threshold < Infinite
  /\ threshold - value < par.absTolerance \/ threshold <= value

Fathoms(incumbentValue, lastValue, value) ==
  IF Enumerating
  THEN \/ par.enumCutoff < Infinite /\ par.enumCutoff <= value
       \/ par.enumAbsTol >= 0 /\ incumbentValue - value < -par.enumAbsTol
       \/ par.enumCount > 1 /\ WithinTolerance(lastValue, value)
  ELSE WithinTolerance(incumbentValue, value)

CanFathom(p) == \/ p.state = "dead"
                \/ Fathoms(best.value, lastSol.value, p.bound)

-----------------------------------------------------------------------------
(***************************************************************************)
(* Pools.  A dive goes by depth, or by integrality, to a first incumbent.  *)
(***************************************************************************)
Compare(a, b) ==
  \/ a.bound < b.bound
  \/ a.bound = b.bound /\ a.measure < b.measure
  \/ a.bound = b.bound /\ a.measure = b.measure /\ a.serial < b.serial

DeeperFirst(a, b) ==
  \/ a.depth > b.depth
  \/ a.depth = b.depth /\ Compare(a, b)

IntegralFirst(a, b) ==
  \/ a.measure < b.measure
  \/ a.measure = b.measure /\ DeeperFirst(a, b)

ByBound       == INSTANCE BinaryHeap WITH Better <- Compare
ByDepth       == INSTANCE BinaryHeap WITH Better <- DeeperFirst
ByIntegrality == INSTANCE BinaryHeap WITH Better <- IntegralFirst

\* dynamicSPCompare's choice of an order, by the value of the incumbent.
Order(value) ==
  IF ~(par.initialDive /\ value = Infinite) THEN "bound"
  ELSE IF par.integralityDive THEN "integrality" ELSE "depth"

InsertIn(list, p, value) ==
  CASE par.pool = "stack" -> <<p>> \o list
    [] par.pool = "queue" -> Append(list, p)
    [] par.pool = "heap"  ->
         CASE Order(value) = "bound"       -> ByBound!Insert(list, p)
           [] Order(value) = "depth"       -> ByDepth!Insert(list, p)
           [] Order(value) = "integrality" -> ByIntegrality!Insert(list, p)

RemoveTop ==
  IF par.pool # "heap" THEN Tail(pool)
  ELSE CASE Order(best.value) = "bound"       -> ByBound!Extract(pool, 1)
         [] Order(best.value) = "depth"       -> ByDepth!Extract(pool, 1)
         [] Order(best.value) = "integrality" -> ByIntegrality!Extract(pool, 1)

\* Mutant: the heap keeps the order of the dive.
PruneUnsorted(list) ==
  IF par.pool # "heap" THEN SelectSeq(list, LAMBDA p : ~CanFathom(p))
  ELSE ByBound!Prune(list, {p \in ToSet(list) : CanFathom(p)})

\* The heap's order is the one by bounds when it is pruned.
PrunePool(list) ==
  IF par.pool # "heap" THEN SelectSeq(list, LAMBDA p : ~CanFathom(p))
  ELSE ByBound!Prune(IF par.initialDive /\ firstPrune
                     THEN ByBound!Reheapify(list) ELSE list,
                     {p \in ToSet(list) : CanFathom(p)})

-----------------------------------------------------------------------------
(***************************************************************************)
(* Solutions: the incumbent, and the repository of those enumerated.       *)
(***************************************************************************)
Worse(s, t) == \/ s.value > t.value
               \/ s.value = t.value /\ s.serial > t.serial

\* worstReposSol: the top of the heap of solutions.
Worst(list) == list[CHOOSE i \in DOMAIN list :
                      \A j \in DOMAIN list \ {i} : Worse(list[i], list[j])]

\* Mutant: any repository that is not empty is taken to be full.
ReposNotEmpty(list) == par.enumCount > 0 /\ Len(list) > 0

ReposFull(list) == par.enumCount > 0 /\ Len(list) = par.enumCount

\* Mutant: only the last solution is compared.
DuplicateOfLast(content) ==
  repos # <<>> /\ repos[Len(repos)].content = content

Duplicate(content) == \E i \in DOMAIN repos : repos[i].content = content

\* reposOrDrop: a duplicate does not enter the repository, and when that is
\* full the worst makes room.  A new worst value asks for pruning.
Offer(content, newBest, signalled) ==
  LET sol      == [content |-> content, value |-> problem.value[content],
                   serial |-> solCounter + 1]
      admitted == /\ Enumerating
                  /\ ~Fathoms(newBest.value, lastSol.value, sol.value)
                  /\ ~Duplicate(content)
      room     == IF ReposFull(repos)
                  THEN SelectSeq(repos, LAMBDA s : s # Worst(repos)) ELSE repos
      newRepos == IF admitted THEN Append(room, sol) ELSE repos
      newLast  == IF /\ admitted /\ par.enumCount > 1 /\ ReposFull(newRepos)
                     /\ Worse(lastSol, Worst(newRepos))
                  THEN [value |-> Worst(newRepos).value,
                        serial |-> Worst(newRepos).serial]
                  ELSE lastSol
  IN  /\ best' = newBest
      /\ repos' = newRepos /\ lastSol' = newLast
      /\ solCounter' = solCounter + 1
      /\ needPruning' = (needPruning \/ signalled
                           \/ newLast.value # lastSol.value)

\* foundSolution: only a better solution becomes the incumbent.
FoundSolution(content) ==
  LET value    == problem.value[content]
      improves == value < best.value
  IN  Offer(content, IF improves THEN [value |-> value, solution |-> content]
                     ELSE best, improves)

\* canFathomFromRepository, and pruneRepository.
ReposFathoms(s) ==
  \/ par.enumAbsTol >= 0 /\ best.value - s.value < -par.enumAbsTol
  \/ par.enumCount > 1 /\ Worse(s, lastSol)

RECURSIVE PruneRepository(_)
PruneRepository(list) ==
  IF list = <<>> \/ ~ReposFathoms(Worst(list)) THEN list
  ELSE PruneRepository(SelectSeq(list, LAMBDA s : s # Worst(list)))

-----------------------------------------------------------------------------
(***************************************************************************)
(* What the application does to a subproblem.                              *)
(***************************************************************************)
\* A subproblem is bounded in one go or, perhaps, in two.
BoundOutcomes(p) ==
  LET final == problem.bound[p.node]
      done  == [p EXCEPT !.state = IF final = Infinite THEN "dead" ELSE "bounded",
                         !.bound = final, !.measure = problem.measure[p.node]]
  IN  {done} \union
      (IF par.pauses /\ p.state = "boundable"
       THEN {[p EXCEPT !.state = "beingBounded", !.bound = b] : b \in {p.bound, final}}
       ELSE {})

SplitOutcomes(p) ==
  LET n == Len(problem.children[p.node])
  IN  {[p EXCEPT !.state = IF n = 0 THEN "dead" ELSE "separated", !.left = n]}
      \union (IF par.pauses /\ p.state = "bounded"
              THEN {[p EXCEPT !.state = "beingSeparated"]} ELSE {})

\* The children a separated subproblem still has.
ChildrenLeft(p) ==
  LET all == problem.children[p.node]
  IN  SubSeq(all, Len(all) - p.left + 1, Len(all))

\* A child starts with what its parent knows (branchSubAsChildOf).
ChildOf(p) ==
  [p EXCEPT !.node = Head(ChildrenLeft(p)), !.state = "boundable", !.left = 0,
            !.depth = p.depth + 1, !.serial = probCounter + 1]

\* makeChild may leave the parent with a better bound, that of the others.
ParentOutcomes(p) ==
  LET rest   == Tail(ChildrenLeft(p))
      bounds == {problem.bound[rest[i]] : i \in DOMAIN rest}
      tight  == CHOOSE b \in bounds : \A d \in bounds : b <= d
  IN  {[p EXCEPT !.left = p.left - 1, !.bound = b] :
         b \in {p.bound} \union (IF par.pauses /\ rest # <<>> THEN {tight} ELSE {})}

Root(a) == [node |-> 1, state |-> "boundable", bound |-> 0, measure |-> Infinite,
            left |-> 0, depth |-> 1, serial |-> a]

-----------------------------------------------------------------------------
Init ==
  /\ problem \in Problems /\ par \in Parameters
  /\ phase = "guess"
  /\ pool = <<Root(1)>> /\ probCounter = 1
  /\ firstPrune = TRUE /\ current = {}
  /\ best = [value |-> par.startIncumbent, solution |-> None]
  /\ repos = <<>> /\ lastSol = [value |-> Infinite, serial |-> Infinite]
  /\ solCounter = 0 /\ needPruning = FALSE
  /\ heuristics = 0 /\ dropped = {}

\* initialGuess: its solution becomes the incumbent without a comparison.
GuessSolution ==
  /\ phase = "guess" /\ phase' = "top"
  /\ \/ UNCHANGED <<store, heuristics>>
     \/ /\ heuristics < MaxHeuristic /\ heuristics' = heuristics + 1
        /\ \E s \in DOMAIN problem.value :
             Offer(s, [value |-> problem.value[s], solution |-> s], FALSE)
  /\ UNCHANGED <<chosen, pool, firstPrune, current, probCounter, dropped>>

\* The next subproblem: erased if it can be fathomed, else the handler's.
Select ==
  /\ phase = "top"
  /\ \/ current # {} /\ UNCHANGED pool
     \/ current = {} /\ pool # <<>> /\ pool' = RemoveTop
  /\ LET p     == IF current # {} THEN CHOOSE q \in current : TRUE ELSE pool[1]
         erase == CanFathom(p)
     IN  /\ current' = IF erase THEN {} ELSE {p}
         /\ phase' = IF erase THEN "top"
                     ELSE CASE p.state \in {"boundable", "beingBounded"} -> "bound"
                            [] p.state = "bounded" -> IF par.handler = "hybrid"
                                                      THEN "split" ELSE "heuristic"
                            [] p.state = "beingSeparated" -> "split"
                            [] p.state = "separated" -> IF par.handler = "lazy"
                                                        THEN "heuristic" ELSE "children"
  /\ UNCHANGED <<chosen, firstPrune, probCounter, store, heuristics, dropped>>

\* computeBound offers the solution of a feasible subproblem.
BoundTo(q) ==
  IF q.state = "bounded" /\ ~CanFathom(q) /\ problem.solution[q.node] # None
  THEN FoundSolution(problem.solution[q.node])
  ELSE UNCHANGED store

\* The eager handler takes a subproblem that it has bounded to be "bounded".
Bound ==
  /\ phase = "bound"
  /\ UNCHANGED <<chosen, pool, firstPrune, probCounter, heuristics, dropped>>
  /\ \E p \in current : \E q \in BoundOutcomes(p) :
       /\ BoundTo(q)
       /\ current' = IF CanFathom(q)' THEN {} ELSE {q}
       /\ phase' = IF \/ CanFathom(q)'
                      \/ q.state = "beingBounded" /\ par.handler # "eager"
                   THEN "leave" ELSE "heuristic"

Heuristic ==
  /\ phase = "heuristic"
  /\ \/ UNCHANGED <<store, heuristics>>
     \/ /\ \A p \in current : problem.solution[p.node] = None
        /\ heuristics < MaxHeuristic /\ heuristics' = heuristics + 1
        /\ \E s \in DOMAIN problem.value : FoundSolution(s)
  /\ phase' = CASE par.handler = "hybrid"       -> "leave"
                [] \E p \in current : p.state = "separated" -> "children"
                [] OTHER                       -> "split"
  /\ UNCHANGED <<chosen, pool, firstPrune, current, probCounter, dropped>>

Split ==
  /\ phase = "split"
  /\ \E p \in current : \E q \in SplitOutcomes(p) :
       /\ p.state \in {"bounded", "beingSeparated"}
       /\ current' = IF CanFathom(q) THEN {} ELSE {q}
       /\ phase' = IF CanFathom(q) \/ q.state = "beingSeparated"
                   THEN "leave" ELSE "heuristic"
  /\ UNCHANGED <<chosen, pool, firstPrune, probCounter, store, heuristics, dropped>>

\* splitProblem raises an exception, which ends the program.
SplitUnbounded ==
  /\ phase = "split"
  /\ \E p \in current : p.state \notin {"bounded", "beingSeparated"}
  /\ phase' = "exception"
  /\ UNCHANGED <<chosen, pool, firstPrune, current, probCounter, store,
                 heuristics, dropped>>

StillNeedSP(p) == p.left > 0 /\ ~CanFathom(p)

\* One child.  The eager handler bounds it before it goes to the pool.  The
\* hybrid one goes on only as long as the parent's bound stays the same.
MakeChild ==
  /\ phase = "children"
  /\ UNCHANGED <<chosen, firstPrune, heuristics, dropped>>
  /\ \E p \in current :
       /\ StillNeedSP(p)
       /\ LET c == ChildOf(p)
          IN  \E d \in IF par.handler = "eager" /\ ~CanFathom(c)
                       THEN BoundOutcomes(c) ELSE {c} :
                /\ BoundTo(d)
                /\ pool' = IF CanFathom(c) \/ CanFathom(d)' THEN pool
                           ELSE InsertIn(pool, d, best'.value)
       /\ \E q \in ParentOutcomes(p) :
            /\ current' = {q}
            /\ phase' = IF /\ par.handler = "hybrid" /\ q.bound # p.bound
                           /\ StillNeedSP(q)
                        THEN "leave" ELSE "children"
  /\ probCounter' = probCounter + 1

EraseParent ==
  /\ phase = "children" /\ \A p \in current : ~StillNeedSP(p)
  /\ current' = {} /\ phase' = "leave"
  /\ UNCHANGED <<chosen, pool, firstPrune, probCounter, store, heuristics, dropped>>

\* What follows the handler: the subproblem goes back, the pools are pruned.
Leave ==
  /\ phase = "leave" /\ phase' = "top"
  /\ LET back == IF par.stays THEN {} ELSE current
         list == IF back = {} THEN pool
                 ELSE InsertIn(pool, CHOOSE p \in back : TRUE, best.value)
     IN  /\ pool' = IF needPruning THEN PrunePool(list) ELSE list
         /\ current' = current \ back
  /\ firstPrune' = (firstPrune /\ ~(needPruning /\ par.initialDive))
  /\ repos' = IF needPruning /\ Enumerating THEN PruneRepository(repos) ELSE repos
  /\ needPruning' = FALSE
  /\ UNCHANGED <<chosen, probCounter, best, lastSol, solCounter, heuristics, dropped>>

\* shouldAbort: too many subproblems, or too much time.
Abort ==
  /\ phase = "top" /\ par.aborts /\ phase' = "aborted"
  /\ dropped' = ToSet(pool) \union current
  /\ pool' = <<>> /\ current' = {}
  /\ UNCHANGED <<chosen, firstPrune, probCounter, store, heuristics>>

Finish ==
  /\ phase = "top" /\ pool = <<>> /\ current = {} /\ phase' = "done"
  /\ UNCHANGED <<chosen, pool, firstPrune, current, probCounter, store,
                 heuristics, dropped>>

Next == \/ GuessSolution \/ Select \/ Bound \/ Heuristic \/ Split
        \/ SplitUnbounded \/ MakeChild \/ EraseParent \/ Leave \/ Abort \/ Finish

Spec == Init /\ [][Next]_vars

\* The loop of one sequential program runs on.
FairSpec == Spec /\ WF_vars(Next)

-----------------------------------------------------------------------------
(***************************************************************************)
(* Properties.                                                             *)
(***************************************************************************)
Subproblem ==
  [node : DOMAIN problem.children,
   state : {"boundable", "beingBounded", "bounded", "beingSeparated", "separated"},
   bound : Nat, measure : Nat, left : Nat, depth : Nat \ {0},
   serial : 1 .. probCounter]

\* Every variable has its type.  In particular no subproblem that is dead is
\* kept, and the repository (localReposOffer) has no duplicate and at most
\* enumCount solutions.
TypeOK ==
  /\ problem \in Problems /\ par \in Parameters
  /\ phase \in {"guess", "top", "bound", "heuristic", "split", "children",
                 "leave", "done", "aborted", "exception"}
  /\ pool \in Seq(Subproblem)
  /\ current \subseteq Subproblem /\ Cardinality(current) <= 1
  /\ {firstPrune, needPruning} \subseteq BOOLEAN
  /\ best \in [value : Nat, solution : DOMAIN problem.value \union {None}]
  /\ repos \in Seq([content : DOMAIN problem.value, value : Nat,
                    serial : 1 .. solCounter])
  /\ \A i, j \in DOMAIN repos : repos[i].content = repos[j].content => i = j
  /\ par.enumCount > 0 => Len(repos) <= par.enumCount
  /\ lastSol \in [value : Nat, serial : Nat]
  /\ {probCounter, solCounter, heuristics} \subseteq Nat
  /\ dropped \subseteq Subproblem

Active == ToSet(pool) \union current

\* Whenever the loop is about to take a subproblem, the heap (heapPool) is in
\* the order that holds at that time, although that order changes while
\* subproblems are in it: when the first incumbent ends the initial dive.  And
\* no subproblem that can be fathomed is left in the pool, though prune starts
\* from the heap's leaves only.  (The root is there before the initial guess,
\* which asks for no pruning.)
PoolIsSound ==
  phase = "top" =>
    /\ \A i \in DOMAIN pool : pool[i].node = 1 \/ ~CanFathom(pool[i])
    /\ par.pool = "heap" =>
         CASE Order(best.value) = "bound"       -> ByBound!InOrder(pool)
           [] Order(best.value) = "depth"       -> ByDepth!InOrder(pool)
           [] Order(best.value) = "integrality" -> ByIntegrality!InOrder(pool)

\* The solutions a subproblem stands for.
Cover(p) ==
  LET kids == IF p.state = "separated" THEN ToSet(ChildrenLeft(p))
              ELSE ToSet(problem.children[p.node])
  IN  IF p.state \in {"boundable", "beingBounded"} THEN problem.below[p.node]
      ELSE UNION {problem.below[k] : k \in kids}

Remaining == UNION {Cover(p) : p \in Active \union dropped}

\* Mutant: during the dive, too.
KnowsWhileDiving == par.pool = "heap" /\ pool # <<>>

KnowsGlobalBound ==
  par.pool = "heap" /\ ~(par.initialDive /\ firstPrune) /\ pool # <<>>

\* The bound that updatedLoad reports, if the pool knows it, is one for all
\* that remains to be found: the status line and the gap rest on it.
BoundIsValid ==
  phase = "top" /\ KnowsGlobalBound =>
    \A s \in Remaining :
      \/ pool[1].bound <= problem.value[s]
      \/ \E p \in current : p.bound <= problem.value[s]

\* What the criteria refuse, as the user's guide states them (architecture.tex
\* 442-465), by what has been found.
Refused ==
  {s \in DOMAIN problem.value :
     LET v == problem.value[s]
     IN  IF Enumerating
         THEN \/ par.enumCutoff <= v
              \/ par.enumAbsTol >= 0 /\ best.value + par.enumAbsTol < v
              \/ /\ par.enumCount > 0
                 /\ par.enumCount <= Cardinality({i \in DOMAIN repos :
                       repos[i].content # s /\ repos[i].value <= v})
         ELSE s # best.solution /\ WithinTolerance(best.value, v)}

Kept == IF Enumerating THEN {repos[i].content : i \in DOMAIN repos}
                       ELSE {best.solution} \ {None}

Promise == INSTANCE BranchAndBound WITH
  solutions <- problem.below[1],
  remaining <- Remaining,
  kept      <- Kept,
  refused   <- Refused,
  outcome   <- CASE phase = "done"    -> "finished"
                 [] phase \in {"aborted", "exception"} -> "aborted"
                 [] OTHER             -> "searching"

\* The search loses no solution the criteria ask for, ends, and unless it has
\* been aborted stores then exactly what was asked for.
ImplementsBranchAndBound == Promise!Spec

=============================================================================
