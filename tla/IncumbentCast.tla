---------------------------- MODULE IncumbentCast ----------------------------
(***************************************************************************)
(* How a new incumbent reaches every processor and every subproblem pool:  *)
(* the broadcast thread (pbb/incumbCast.cpp, pbb/parBranchThreads.cpp),    *)
(* the processors that find solutions (signalIncumbent), the workers that  *)
(* prune and then report to their hub (pruneIfNeeded), and the hub threads *)
(* that prune the tokens they hold (hubPrune).  Objectives are minimized;  *)
(* the search starts when ramp-up has ended.                               *)
(*                                                                         *)
(* Each processor broadcasts its solutions over a tree rooted at itself.   *)
(* A receiver relays a message only when it adopts what the message says,  *)
(* so a broadcast may die out anywhere in its tree; nothing is retried.    *)
(***************************************************************************)
EXTENDS TreeTopology, Sequences, FiniteSets, Functions

CONSTANTS
  Hub,       \* processors that are hubs
  Worker,    \* processors that are workers
  HubOf,     \* the hub of each worker; a worker that is a hub is its own
  MaxValue   \* solutions have values 1 .. MaxValue

ASSUME ClusterAssumption ==
  /\ Hub \subseteq Proc /\ Worker \subseteq Proc
  /\ HubOf \in [Worker -> Hub]
  /\ \A w \in Worker \cap Hub : HubOf[w] = w
  /\ MaxValue \in Nat \ {0}

Value      == 1 .. MaxValue
NoValue    == MaxValue + 1     \* sense*MAXDOUBLE
AnySource  == -1               \* MPI_ANY_SOURCE: below every rank
RemoteWorker == Worker \ Hub

VARIABLES
  incumbentValue, incumbentSource,  \* what each processor believes
  incumbent,        \* value of the solution object each one stores, or NoValue
  needPruning, needHubPruning,
  network,          \* incumbent messages sent and not yet handled
  outstanding,      \* messages.general, all processors: sent less received
  running,          \* is the broadcast thread between two messages of one run?
  hubInbox,         \* reports a remote worker sent and its hub has not handled
  workerLoadReport, \* incumbent in the last report the hub handled
  poolBound,        \* every bound in the worker pool is below this value
  hubPoolBound,     \* every bound in the hub's pools is below this value
  best              \* history: the best incumbent ever signalled

belief   == <<incumbentValue, incumbentSource, incumbent>>
pruning  == <<needPruning, needHubPruning, poolBound, hubPoolBound>>
reports  == <<hubInbox, workerLoadReport>>
vars == <<belief, pruning, reports, network, outstanding, running, best>>

Message == [dest : Proc, value : Value, originator : Proc]

\* Mutant of Beats: the ranks do not break ties.
MutBeatsNoTie(v, s, u, t) == v < u

\* Does (v, s) beat (u, t)?  Lower value, ties to the lower rank.
Beats(v, s, u, t) == v < u \/ (v = u /\ s < t)

Belief(p) == <<incumbentValue[p], incumbentSource[p]>>

-----------------------------------------------------------------------------
(***************************************************************************)
(* rampUpIncumbentSync leaves every processor with the same value and      *)
(* source, and the solution object at the source only.                     *)
(***************************************************************************)
Init ==
  \E b \in {<<NoValue, AnySource>>} \cup (Value \X Proc) :
    /\ incumbentValue  = [p \in Proc |-> b[1]]
    /\ incumbentSource = [p \in Proc |-> b[2]]
    /\ incumbent = [p \in Proc |-> IF p = b[2] THEN b[1] ELSE NoValue]
    /\ best = b
    /\ workerLoadReport = [w \in RemoteWorker |-> b]
    /\ poolBound = [w \in Worker |-> b[1]]
    /\ hubPoolBound = [h \in Hub |-> b[1]]
    /\ needPruning    = [p \in Proc |-> FALSE]
    /\ needHubPruning = [p \in Proc |-> FALSE]
    /\ network = {}
    /\ outstanding = 0
    /\ running = [p \in Proc |-> FALSE]
    /\ hubInbox = [w \in RemoteWorker |-> <<>>]

\* Mutant of Relay: the tree is always one's own.
MutRelayOwnTree(p, s, v) ==
  {[dest |-> c, value |-> v, originator |-> s] : c \in Children(p, p)}

\* relay(): one counted message to each child of p in the tree of originator s.
Relay(p, s, v) == {[dest |-> c, value |-> v, originator |-> s] : c \in Children(s, p)}

(***************************************************************************)
(* foundSolution -> setIncumbent, signalIncumbent: a strictly better       *)
(* solution, found by the search or by a heuristic thread of worker p.     *)
(***************************************************************************)
FoundSolution(p, v) ==
  /\ ~running[p]
  /\ v < incumbentValue[p]
  /\ incumbentValue'  = [incumbentValue EXCEPT ![p] = v]
  /\ incumbentSource' = [incumbentSource EXCEPT ![p] = p]
  /\ incumbent'       = [incumbent EXCEPT ![p] = v]
  /\ needPruning'     = [needPruning EXCEPT ![p] = TRUE]
  /\ needHubPruning'  = [needHubPruning EXCEPT ![p] = @ \/ p \in Hub]
  /\ network' = network \cup Relay(p, p, v)
  /\ outstanding' = outstanding + NumChildren(p, p)
  /\ best' = IF Beats(v, p, best[1], best[2]) THEN <<v, p>> ELSE best
  /\ UNCHANGED <<running, reports, poolBound, hubPoolBound>>

\* Mutant of ResetIncumbent: the old solution object is kept.
MutKeepIncumbent(p) == UNCHANGED incumbent

ResetIncumbent(p) == incumbent' = [incumbent EXCEPT ![p] = NoValue]

(***************************************************************************)
(* handleMessage: count the message, and if what it says is better, adopt  *)
(* it, drop the solution object stored here, and relay.                    *)
(***************************************************************************)
Adopt(p, m) ==
  /\ Beats(m.value, m.originator, incumbentValue[p], incumbentSource[p])
  /\ incumbentValue'  = [incumbentValue EXCEPT ![p] = m.value]
  /\ incumbentSource' = [incumbentSource EXCEPT ![p] = m.originator]
  /\ ResetIncumbent(p)
  /\ needPruning'     = [needPruning EXCEPT ![p] = TRUE]
  /\ needHubPruning'  = [needHubPruning EXCEPT ![p] = @ \/ p \in Hub]
  /\ network' = (network \ {m}) \cup Relay(p, m.originator, m.value)
  /\ outstanding' = outstanding - 1 + NumChildren(m.originator, p)

Discard(p, m) ==
  /\ ~Beats(m.value, m.originator, incumbentValue[p], incumbentSource[p])
  /\ network' = network \ {m}
  /\ outstanding' = outstanding - 1
  /\ UNCHANGED <<belief, needPruning, needHubPruning>>

HandleMessage(p) ==
  /\ \E m \in network :
       /\ m.dest = p
       /\ Adopt(p, m) \/ Discard(p, m)
  /\ running' = [running EXCEPT ![p] = TRUE]
  /\ UNCHANGED <<reports, poolBound, hubPoolBound, best>>

\* Mutant of ActivateHub: of a hub that is a worker only the hub's pools are pruned.
MutActivateHubOnly(h) ==
  IF needHubPruning[h]
  THEN /\ hubPoolBound'   = [hubPoolBound EXCEPT ![h] = incumbentValue[h]]
       /\ needHubPruning' = [needHubPruning EXCEPT ![h] = FALSE]
       /\ needPruning'    = [needPruning EXCEPT ![h] = FALSE]
       /\ UNCHANGED poolBound
  ELSE UNCHANGED pruning

(***************************************************************************)
(* activateHub -> hubDistributeWork -> hubPrune when it is needed, which   *)
(* also prunes the worker pool of a hub that is a worker.                  *)
(***************************************************************************)
ActivateHub(h) ==
  IF needHubPruning[h]
  THEN /\ hubPoolBound'   = [hubPoolBound EXCEPT ![h] = incumbentValue[h]]
       /\ needHubPruning' = [needHubPruning EXCEPT ![h] = FALSE]
       /\ IF h \in Worker /\ needPruning[h]
          THEN /\ poolBound'   = [poolBound EXCEPT ![h] = incumbentValue[h]]
               /\ needPruning' = [needPruning EXCEPT ![h] = FALSE]
          ELSE UNCHANGED <<poolBound, needPruning>>
  ELSE UNCHANGED pruning

(***************************************************************************)
(* preExitAction ends a run of the broadcast thread.  A hub is activated   *)
(* unless reports that have arrived are about to make the hub thread run.  *)
(***************************************************************************)
HubMayBeReady(h) == \E w \in RemoteWorker : HubOf[w] = h /\ hubInbox[w] # <<>>

\* Mutant of PreExit: no preExitAction.
MutPreExitNoHub(p) ==
  /\ running[p]
  /\ running' = [running EXCEPT ![p] = FALSE]
  /\ UNCHANGED <<belief, pruning, network, outstanding, reports, best>>

PreExit(p) ==
  /\ running[p]
  /\ running' = [running EXCEPT ![p] = FALSE]
  /\ \/ p \in Hub /\ ActivateHub(p)
     \/ (p \notin Hub \/ HubMayBeReady(p)) /\ UNCHANGED pruning
  /\ UNCHANGED <<belief, network, outstanding, reports, best>>

(***************************************************************************)
(* A worker with no subproblems left still runs to prune its pools.  (One  *)
(* that has subproblems runs as well, and then begins with the same step.) *)
(***************************************************************************)
\* Mutant of WorkerReady: a worker that knows an equally good incumbent is not woken.
MutWorkerReadyIfBetter(p) ==
  ~running[p] /\ needPruning[p] /\ poolBound[p] > incumbentValue[p]

WorkerReady(p) == ~running[p] /\ needPruning[p]

(***************************************************************************)
(* workerExecute begins with pruneIfNeeded, which prunes the worker and    *)
(* server pools and reports to the hub, or prunes the hub's pools if the   *)
(* processor is the hub.                                                   *)
(***************************************************************************)
WorkerPrune(p) ==
  /\ WorkerReady(p)
  /\ poolBound'   = [poolBound EXCEPT ![p] = incumbentValue[p]]
  /\ needPruning' = [needPruning EXCEPT ![p] = FALSE]
  /\ IF p \in Hub
     THEN /\ IF needHubPruning[p]
             THEN hubPoolBound' = [hubPoolBound EXCEPT ![p] = incumbentValue[p]]
             ELSE UNCHANGED hubPoolBound
          /\ needHubPruning' = [needHubPruning EXCEPT ![p] = FALSE]
          /\ UNCHANGED hubInbox
     ELSE /\ hubInbox' = [hubInbox EXCEPT ![p] = Append(@, Belief(p))]
          /\ UNCHANGED <<hubPoolBound, needHubPruning>>
  /\ UNCHANGED <<belief, network, outstanding, workerLoadReport, running, best>>

(***************************************************************************)
(* A run of the hub thread: it handles some of the messages that wait for  *)
(* it, in the order each worker sent them, and then activates the hub.     *)
(***************************************************************************)
HubRun(h) ==
  /\ ~running[h]
  /\ \E w \in RemoteWorker :
       /\ HubOf[w] = h /\ hubInbox[w] # <<>>
       /\ workerLoadReport' = [workerLoadReport EXCEPT ![w] = Head(hubInbox[w])]
       /\ hubInbox' = [hubInbox EXCEPT ![w] = Tail(@)]
  /\ ActivateHub(h)
  /\ UNCHANGED <<belief, network, outstanding, running, best>>

Next ==
  \/ \E p \in Worker, v \in Value : FoundSolution(p, v)
  \/ \E p \in Proc : HandleMessage(p)
  \/ \E p \in Proc : PreExit(p)
  \/ \E p \in Worker : WorkerPrune(p)
  \/ \E h \in Hub : HubRun(h)

(***************************************************************************)
(* Every thread that can run is run in its turn (sched/Scheduler.cpp); how *)
(* many solutions there are to find is up to the problem.                  *)
(***************************************************************************)
Fairness ==
  /\ \A p \in Proc : WF_vars(HandleMessage(p)) /\ WF_vars(PreExit(p))
  /\ \A p \in Worker : WF_vars(WorkerPrune(p))
  /\ \A h \in Hub : WF_vars(HubRun(h))

Spec == Init /\ [][Next]_vars /\ Fairness

-----------------------------------------------------------------------------
(***************************************************************************)
(* Types: in particular a message is always for a processor that exists,   *)
(* although every sender works out its children by itself.                 *)
(***************************************************************************)
TypeOK ==
  /\ incumbentValue  \in [Proc -> Value \cup {NoValue}]
  /\ incumbentSource \in [Proc -> Proc \cup {AnySource}]
  /\ incumbent       \in [Proc -> Value \cup {NoValue}]
  /\ needPruning     \in [Proc -> BOOLEAN]
  /\ needHubPruning  \in [Proc -> BOOLEAN]
  /\ network \subseteq Message
  /\ outstanding \in Int
  /\ running  \in [Proc -> BOOLEAN]
  /\ hubInbox \in [RemoteWorker -> Seq((Value \cup {NoValue}) \X (Proc \cup {AnySource}))]
  /\ workerLoadReport \in [RemoteWorker -> (Value \cup {NoValue}) \X (Proc \cup {AnySource})]
  /\ poolBound    \in [Worker -> Value \cup {NoValue}]
  /\ hubPoolBound \in [Hub -> Value \cup {NoValue}]
  /\ best \in (Value \cup {NoValue}) \X (Proc \cup {AnySource})

(***************************************************************************)
(* No broadcast is in progress: every message sent has been handled.       *)
(***************************************************************************)
Quiescent == network = {}

(***************************************************************************)
(* Once every broadcast has died out, all the processors believe in the    *)
(* same incumbent, and it is the best that was ever signalled, although    *)
(* messages are relayed only by the processors that adopt them and two     *)
(* processors may find equally good solutions at the same time.            *)
(***************************************************************************)
AgreementAtQuiescence ==
  Quiescent => \A p \in Proc : Belief(p) = best

(***************************************************************************)
(* A processor stores the solution object exactly while it believes itself *)
(* the source of the incumbent, whatever messages reach it and with ties   *)
(* of any kind.  With agreement at quiescence, one processor is left with  *)
(* an object, the one that pbOutput.cpp has print it.                      *)
(***************************************************************************)
SourceHoldsSolution ==
  \A p \in Proc : incumbent[p] = IF incumbentSource[p] = p THEN incumbentValue[p] ELSE NoValue

(***************************************************************************)
(* Why AgreementAtQuiescence holds: nobody has seen anything better than   *)
(* the best incumbent, and its broadcast is never interrupted, since a     *)
(* processor that believes in it has a message on its way to each of its   *)
(* children that does not.  This is the inductive invariant of the proof.  *)
(***************************************************************************)
NoneBetter ==
  LET BestOr(b) == b = best \/ Beats(best[1], best[2], b[1], b[2])
  IN  /\ \A p \in Proc : BestOr(Belief(p))
      /\ \A m \in network : BestOr(<<m.value, m.originator>>)

BestOnItsWay ==
  LET s == best[2]
  IN  IF s = AnySource
      THEN network = {} /\ \A p \in Proc : Belief(p) = best
      ELSE /\ Belief(s) = best
           /\ \A p \in Proc : Belief(p) = best =>
                \A c \in Children(s, p) :
                  \/ Belief(c) = best
                  \/ [dest |-> c, value |-> best[1], originator |-> s] \in network

\* A broadcast never comes back to where it started.
NoEcho == \A m \in network : m.dest # m.originator

BroadcastInv == TypeOK /\ NoneBetter /\ BestOnItsWay /\ NoEcho /\ SourceHoldsSolution

(***************************************************************************)
(* messages.general counts exactly the messages in flight, so balanced     *)
(* totals mean that no broadcast is in progress.  The termination check    *)
(* rests on this.                                                          *)
(***************************************************************************)
CountsMatchNetwork == outstanding = Cardinality(network)

(***************************************************************************)
(* No thread of any processor has anything left to do for an incumbent.    *)
(***************************************************************************)
Idle ==
  /\ Quiescent
  /\ \A p \in Proc : ~running[p]
  /\ \A w \in Worker : ~needPruning[w]
  /\ \A w \in RemoteWorker : hubInbox[w] = <<>>

(***************************************************************************)
(* The threads never go idle while a pool is still to be pruned with the   *)
(* last incumbent, or while a hub takes a worker to have another incumbent *)
(* than it has (which the load summary shows as a mismatch).  This is what *)
(* the comment on preExitAction fears: workers already idle and hub data   *)
(* structures never updated.                                               *)
(***************************************************************************)
NothingLeftToPrune ==
  Idle =>
    /\ \A w \in Worker : poolBound[w] = incumbentValue[w]
    /\ \A h \in Hub : hubPoolBound[h] = incumbentValue[h] /\ ~needHubPruning[h]
    /\ \A w \in RemoteWorker : workerLoadReport[w] = Belief(w)

\* The counts of broadcast messages are those of the network, and when all is
\* at rest no pool holds what the last incumbent fathoms.
BroadcastLeavesNothing == CountsMatchNetwork /\ NothingLeftToPrune

(***************************************************************************)
(* Why BroadcastLeavesNothing holds.  A processor relays what it adopts,   *)
(* so the parent of the addressee of a message believes in nothing worse   *)
(* than what the message says, and never sends the same message twice.     *)
(***************************************************************************)
ParentKnows ==
  \A m \in network :
    LET p == Parent(m.originator, m.dest)
    IN  ~Beats(m.value, m.originator, incumbentValue[p], incumbentSource[p])

\* A pool that is behind its processor's incumbent is marked to be pruned.
PoolsFollow ==
  /\ \A w \in Worker : needPruning[w] \/ poolBound[w] = incumbentValue[w]
  /\ \A h \in Hub : needHubPruning[h] \/ hubPoolBound[h] = incumbentValue[h]

\* A hub that is to prune will run: its broadcast thread is to exit, its worker
\* is to prune, or reports have arrived.
HubsWillRun ==
  \A h \in Hub : needHubPruning[h] =>
    running[h] \/ (h \in Worker /\ needPruning[h]) \/ HubMayBeReady(h)

\* The last report that worker w sent to its hub.
LatestReport(w) ==
  IF hubInbox[w] = <<>> THEN workerLoadReport[w] ELSE hubInbox[w][Len(hubInbox[w])]

\* A worker that is not to prune has told its hub of its incumbent.
ReportsFollow == \A w \in RemoteWorker : needPruning[w] \/ LatestReport(w) = Belief(w)

\* The inductive invariant of the proof of BroadcastLeavesNothing.
PruningInv ==
  /\ BroadcastInv
  /\ IsFiniteSet(network) /\ CountsMatchNetwork /\ ParentKnows
  /\ PoolsFollow /\ HubsWillRun /\ ReportsFollow

(***************************************************************************)
(* Eventually the best incumbent is known everywhere and has been used     *)
(* everywhere, for good.                                                   *)
(***************************************************************************)
EventuallyIdle == <>[]Idle

=============================================================================
