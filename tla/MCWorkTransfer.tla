--------------------------- MODULE MCWorkTransfer ---------------------------
(***************************************************************************)
(* Two machines.  In the one of which this module extends WorkTransfer,    *)
(* processor 0 is a hub that does not work, and 1 and 2 are its workers.   *)
(* In the other there are two clusters of one processor each, hub and      *)
(* worker at once.  One of them runs, and the other stays as it is.        *)
(***************************************************************************)
EXTENDS WorkTransfer

CONSTANTS r, a, b, c, d

\* r has children a and b, solutions.
SmallTree         == {r, a, b}
SmallTreeChildren == [s \in SmallTree |-> IF s = r THEN {a, b} ELSE {}]
SmallTreeBound    == [s \in SmallTree |-> IF s = r THEN 1 ELSE 2]

OneHubOf == [w \in {1, 2} |-> 0]

\* r has children a and b, a has children c and d; b, c and d are solutions.
Tree         == {r, a, b, c, d}
TreeChildren ==
  [s \in Tree |-> CASE s = r -> {a, b} [] s = a -> {c, d} [] OTHER -> {}]
TreeBound    == [s \in Tree |-> CASE s = r -> 1 [] s \in {a, b, c} -> 2
                                  [] s = d -> 3]

TwoHubsOf == [w \in {0, 1} |-> w]

VARIABLES machine,
  incumbent2, needPruning2, workerPool2, serverPool2, separated2, childrenLeft2,
  tokenCount2, outBuffer2, acks2, hubQueue2, token2, hubPool2, transitPool2, network2,
  hubDispatch2, localScatter2, nonLocalScatter2

TwoHubs == INSTANCE WorkTransfer WITH
  Hub <- {0, 1}, Worker <- {0, 1}, HubOf <- TwoHubsOf, Sub <- Tree, Root <- r,
  Children <- TreeChildren, Bound <- TreeBound, Start <- 0, NoIncumbent <- 9,
  Address <- 1 .. 4, MaxBuffered <- 2,
  incumbent <- incumbent2, needPruning <- needPruning2, workerPool <- workerPool2,
  serverPool <- serverPool2, separated <- separated2, childrenLeft <- childrenLeft2,
  tokenCount <- tokenCount2, outBuffer <- outBuffer2, acks <- acks2,
  hubQueue <- hubQueue2, token <- token2, hubPool <- hubPool2,
  transitPool <- transitPool2, network <- network2, hubDispatch <- hubDispatch2,
  localScatter <- localScatter2, nonLocalScatter <- nonLocalScatter2

vars2 ==
  <<incumbent2, needPruning2, workerPool2, serverPool2, separated2, childrenLeft2,
    tokenCount2, outBuffer2, acks2, hubQueue2, token2, hubPool2, transitPool2, network2,
    hubDispatch2, localScatter2, nonLocalScatter2>>

ASSUME WorkAssumption /\ TwoHubs!WorkAssumption

MCInit == machine \in {"oneHub", "twoHubs"} /\ Init /\ TwoHubs!Init

MCNext == /\ machine' = machine
          /\ \/ machine = "oneHub" /\ Next /\ UNCHANGED vars2
             \/ machine = "twoHubs" /\ TwoHubs!Next /\ UNCHANGED vars

\* Liveness is for the two hubs, who have the larger tree.
MCFairness ==
  /\ \A w \in {0, 1} : /\ SF_vars2(machine = "twoHubs" /\ TwoHubs!Work(w))
                       /\ WF_vars2(machine = "twoHubs" /\ TwoHubs!Serve(w))
  /\ \A p \in {0, 1} : /\ WF_vars2(machine = "twoHubs" /\ TwoHubs!LearnIncumbent(p))
                       /\ WF_vars2(machine = "twoHubs" /\ TwoHubs!Prune(p))
                       /\ WF_vars2(machine = "twoHubs" /\ TwoHubs!Distribute(p))
  /\ \A h, p \in {0, 1} :
       WF_vars2(machine = "twoHubs" /\ TwoHubs!HandleHubMessage(h, p))

MCSpec == MCInit /\ [][MCNext]_<<vars, vars2, machine>> /\ MCFairness

\* Two clusters, of which each gives work to the other and whose hubs work, keep
\* their tokens and their work as one cluster does.
TwoHubsAreSound ==
  machine = "twoHubs" => TwoHubs!TokensAreSound /\ TwoHubs!WorkInv

\* The search of the two hubs ends.
EventuallyIdle == <>[](machine = "oneHub" \/ TwoHubs!Done)

=============================================================================
