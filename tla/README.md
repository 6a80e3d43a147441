# A TLA+ verification of PEBBL

PEBBL is a framework for branch and bound on one processor (`pebbl/bb`) and on
many, over MPI (`pebbl/pbb`, on the libraries in `pebbl/comm`, `pebbl/sched` and
`pebbl/misc`).  A run synchronously *ramps up* on all processors, then searches
asynchronously: processors are grouped in clusters, each with a *hub* that hands
out work to its *workers*, and hubs balance the work among clusters and find out
when the search is over.  On each processor cooperative threads (scheduler
slices, MPI message handlers) share memory without locks; between processors
there are only messages.

The modules in this directory model a search from its start to the output of its
solutions, on one processor and on many, check it with TLC on small systems and, where
listed, prove its properties for systems of every size with TLAPS.  Paths below are
relative to `src/src/pebbl` unless they begin with `doc`.

## 1. Inventory

| Component | State it keeps | Operations | Talks to |
|---|---|---|---|
| Broadcast trees, `misc/treeTopology.h` | position relative to an originator | children and parent of a rank | all broadcasts, hub trees |
| Incumbent broadcast, `pbb/incumbCast.cpp`, `parBranchThreads.cpp` | `incumbentValue`, `incumbentSource`, `incumbent`, `needPruning`, `needHubPruning` | `signalIncumbent`, `unloadBuffer`, `relay`, `preExitAction` | every processor; wakes workers and hubs |
| Worker, `pbb/pbWorker.cpp`, `workerThread.cpp` | `workerPool`, `serverPool`, `workerOutBuffer`, `spAckAddress`, `lastWorkerReport`, `messages` | execute, release, report, prune, deliver, abort, add, rebalance | its hub, hubs of other clusters, other workers |
| Hub, `pbb/pbHub.cpp`, `hubThread.cpp` | `hubPool`, `workerTransitPool`, `workerLoadReport`, `clusterLoad` | handle messages, activate, distribute, prune, alert, sum loads | its workers, owners of subproblems, other hubs |
| Server and receiver, `pbb/spServer.cpp`, `spReceiver.cpp` | none of their own | deliver or abort a subproblem, receive one | workers and hubs |
| Load accounting, `pbb/parLoadObject.*`, `bb/loadObject.cpp` | counts, bounds, incumbents, four pairs of message counters | add, compare, `readyToPoll`, `seemsReallyDone`, `reportablyDifferent` | workers, hubs, load balancer |
| Load balancer, `pbb/loadBal.*`, `comm/coTree.cpp` | `myState`, survey and count objects on a tree of hubs, `termCheckTarget`, partners | survey, poll, second count, rendezvous, transfer of tokens | hubs; workers by way of `workerAuxThread.cpp` |
| Ramp-up and crossover, `pbb/parBranching.cpp` | the same pool on all processors; loads of workers and clusters | synchronous search, division of the pool | all processors |
| Serial search, `bb/branching.cpp`, `bb/branching.h` | pool (heap, stack or queue), current subproblem, incumbent, repository, counts | lazy, hybrid and eager handlers; fathoming, pruning, dive, repository | the worker thread and ramp-up use its parts |
| Heap, `utilib/AbstractHeap.h` | an array of keys in order | insert, extract, refloat, reheapify | pool of subproblems, repository |
| Checkpoints, `pbb/pbCheckpoint.cpp` | `checkpointing`, suspended workers, files | start, write, restart, reconfigure | termination detection; file system |
| Enumeration, `pbb/pbEnumerate.cpp`, `reposThreads.cpp` | `repos`, `lastSolId`, lists of the children in a tree, links of a hypercube | own, route, acknowledge, merge, cut off, prune, scan | owners of solutions, the tree of all processors |
| Scheduler, `sched/*` | thread states, queues by group, array of MPI requests, priorities | insert, wait, block, unblock, run a slice | all threads |
| Send buffers, `comm/outBufferQ.cpp` | buffers in use, lists of partly filled messages | get, send, complete, segment | all senders |
| Clustering, `misc/clustering.cpp` | four numbers, the same everywhere | who leads, who follows, ranks among workers | start-up and crossover |
| Output, statistics, parameters, utilities | counters, command line | formatting, message chains | end of the run |

What is hard here: a subproblem's *address* is sent to a hub, from there back to its
owner, and the address of the hub's token makes a round trip by way of two workers,
while each processor prunes by itself; incumbents of equal value found at the same time;
reports, poll replies and dispatches in different orders, with different MPI tags and
threads; counts that are read at different times on different processors and
nevertheless decide that a run is over; workers that go idle with something still in
their buffers; cut-offs of an enumeration made of lists of different ages; a heap whose
order changes while subproblems are in it; arrays, lists and buffers of the scheduler
and the senders that change while something else refers to them; and processors that
must come to the same pool without comparing it.  MPI itself loses and duplicates
nothing, and no processor fails by itself; the one crash the program provides for is a
run that is killed and restarted from checkpoint files. `PROJECT.json` lists each hazard
at its line, with the properties for it.

What makes the components correct:

* Trees: every rank is reached once from every root; a child's parent is the
  rank that reckons it a child.
* Incumbents: when messages have died out all processors agree on the best
  incumbent; one processor has the solution object; every pool is pruned with it.
* Work transfer: no pointer that is followed dangles; nothing that can lead to a
  better solution is lost, and no subproblem is worked on twice; reference
  counts and message counts are exact; tokens do not stay in transit.
* Termination: declared only when nothing is left; all hubs decide alike; it
  is declared in the end.
* Balancing: every donor and every receiver have exactly one partner; tokens are
  conserved; nothing of one round is left when the next one surveys the loads.
* Checkpoints: the files of one checkpoint hold every open subproblem once, and a kill
  at any point leaves all files of one checkpoint.
* Serial search: whatever handler, pool and tolerances are combined, no wanted solution is
  fathomed, the search ends, and the bound it reports is one.
* Enumeration: a cut-off is never better than the last solution asked for; each link of
  the hypercube carries one solution at a time and is freed again; what is printed in
  the end are the right solutions, once and in order.
* Scheduler: each thread is in one queue, each message wakes the thread it is for, and
  every thread that can run does.
* Send buffers: nothing is overwritten while MPI may read it, nothing is left unsent,
  and no message is longer than what its receiver has room for.
* Ramp-up and crossover: all processors have the same pool and incumbent; each problem
  goes to one worker, evenly, and hubs count what their workers keep.

## 2. Modules and how they correspond to the code

`TreeTopology` is `nAryTree`: `RelPosition`, `RelFirstChild`, `NumChildren`,
`Children(root, p)` and `Parent(root, p)`, with the same modular arithmetic.

`IncumbentCast` extends it.  One action per handler: `FoundSolution` (the
`signalIncumbent` of any worker), `HandleMessage` (count, unload, adopt and relay,
or discard), `PreExit` (the end of a run of the broadcast thread, which activates
the hub unless the hub thread may be about to run), `WorkerPrune` and `HubRun`.
`running[p]` keeps other threads of `p` from running between two messages of one
run of the broadcast thread.  A pool is represented by a number that all the
bounds in it are below.  MPI messages with one tag between two processors keep
their order; the model's set of messages lets them be handled in any order, which
allows more.

`WorkTransfer` models the life of tokens and subproblems.  Subproblems are the
nodes of a constant search tree; `Bound` and `Children` are constants.  A hub's memory is
modelled by `Address`, of which the allocator takes free ones by any fixed rule, so that
it is reused at once and a stale address does point to another token.  `hubQueue[h][p]` is the queue of
messages with tag `hubTag`.  `Evaluate`, `Split`, `SpinOffChild`, `ReleaseChild`
and `ReleaseSelf` are the steps the handlers are made of; when a worker releases
and to which hub, and to which worker a hub dispatches, is any choice, which
includes every setting of the scatter parameters and load rules.  `HandleHubMessage`,
`HubSendWorkTo`, `SpServe` and `SpReceive` are whole handlers, with the nested
calls they make (a delivery to oneself ends in `AddToWorkerPool`, a full list of
acknowledgements in a report).

`Termination` models the counting.  Problems and tokens are numbers, and one
solution, once found, fathoms everything that is left.  A remote worker's load, its
report and the hub's copy are separate.  A run starts with one of the records in
`Scenario`: how many problems may be given up (`releases`), who may find the solution
(`finders`), and whether reports and poll replies of one worker are handled in the order
in which they were sent (`inOrder`): they have different tags and different threads, so
MPI and the scheduler do not promise it.  `Balance` is the state machine of the
load balancing thread: `StartRound`, `EndPoll`, `RelayUp`, `RelayDown`, where the
latter two are `coTree::run` for surveys and counts and end, at each hub that has
the result, in `Conclude` or `Confirm`.  `MidRun` keeps the other threads of a hub
from running while the load balancing thread goes from one state to the next
without returning to the scheduler.

`TerminationDetection` is the abstract specification: the search may become
`over`, stays so, and may then, and only then, be `detected`.  `Termination`
implements it (`ThreadsDetect` in `MCTermination`), with `detected` refined by any hub
in state `dead`.

`LoadBalance` is the other half of the load balancing thread, the rounds in which hubs
exchange tokens.  `UpMessage`, `UpRelay`, `Root` and `DownMessage` are `coTree::run` for
the survey and for the count object; since `coTree` sends from the object's buffers
without a copy, a message is a flag (`up`, `down`) and its content is read from the
sender's buffer when it is received.  `NumberSubtree` is the numbering of donors and
receivers on the way down.  From `Counted` on there is one action for each `case` of the
state machine, named after it; those that wait for a message are named for what arrives.
`Waiting` says when other threads of the hub may run: the thread goes on without
returning to the scheduler when it has not to wait.  Loads are not modelled, only
numbers of tokens: which hub is above or below its share, whether the survey is a reason
to balance, and how many tokens the loop of `FillLoadBalBuffer` packs are any choice
within the limits the code sets.  What the random generator returns is a constant; it is
the same on all hubs.

`Checkpoint` is `pbCheckpoint.cpp`: `SetupCheckpoint`, then `OpenFile`, `CloseFile` and
`EndCheckpoint`, the parts of `writeCheckpoint` between which other processors act (it
ends at a barrier); `End`, the deletion of the last files; `Kill` at any time; and
`ParallelRestart`, `ReconfigureRestart` and `RampUpAgain`, each as one step, since
nobody searches while files are read.  The number of processors is a variable, `n`.  A
search goes on all the while: `Work`, `Release`, `Dispatch`, `SpServe`, `SpReceive`,
`HearIncumbent` and `Prune` are those of `WorkTransfer` with less detail (an entry of a
pool is what can still come out of a subproblem), and broadcasts go straight to
everybody.  A file that was open when the program was killed holds any part of what was
to be written.  If a restart accepts part of the files of a checkpoint, `phase` is
`incomplete` and nothing more is modelled.  `Quiescent` is the verdict of the
termination check, which `Termination` is about, with suspended workers instead of idle
ones.

`SerialSearch` is `branching::searchFramework` on one processor.  `phase` is the place
in its loop: `Select` takes the next subproblem and erases or hands it to a handler,
`Bound`, `Heuristic`, `Split`, `MakeChild` and `EraseParent` are the calls a handler
makes, which each of the three handlers makes in another order, and `Leave` is what
follows the handler (the subproblem goes back to the pool, and the pool and the
repository are pruned).  `GuessSolution`, `Abort`, `Finish` and `SplitUnbounded` (an
exception of the eager handler) complete it.  A search tree is a constant record, chosen
at the start with the parameters; the application may pause, tighten a bound, or find a
solution with its heuristic.  `Compare`, `DeeperFirst` and `IntegralFirst` are the
orders of the heap, and `Order` is `dynamicSPCompare`.  `Offer` is the incumbent update
with `reposOrDrop` and `localReposOffer`. `BinaryHeap` is the heap itself, an array with
the code's way of floating and sinking, with the order as a parameter, so that the
change of order at the end of a dive can be seen. `BranchAndBound` is the abstract
specification of any search: a solution is dropped only if the criteria rule it out, and
at the end exactly what they ask for has been stored.  `SerialSearch` implements it
(`ImplementsBranchAndBound`), where `remaining` is refined by the solutions below the
subproblems in the pool.

`Repository` is enumeration in parallel.  Ramp-up queues solutions (`RampUpFind`);
`RampUpIncumbentSync`, `HashSolution` and `SyncLastSol` are what all processors do
together after it.  Then `Find` is `foundSolution` with `offerToRepository`: a solution
stays, is sent to its owner or, with flow control, is routed (`Route`).  `HashSol`,
`ForwardSol`, `AckSol`, `ReposArray` and `NewLastSol` are the cases of the repository
receiver, one per signal; `ReposArraySend` is the merger; `WorkerPrune` and `HubPrune`
are the prunings, with the queues of flow control.  `StartRepositoryScan` and
`NextRepositoryMember` print.  The hypercube's arithmetic (`Link`, `Neighbor`,
`BestLink`) is that of `hypercube.h`, with links known by the bit they change.  When a merge takes place is a matter of time in
the code and any time here.

`Scheduler` is the loop of `ThreadSched`: `Wake` is its first part (blocked threads
whose state has changed, then `check_waiting_threads`, which goes backwards through the
completed requests and compacts the array), `RunThread` the second (the head of the
first group that has any, with the bookkeeping of how it returns). `Arrive` is MPI: a
message matches the receive that was posted first, or waits for one.  Priorities are
those of `ThreadQueue`, with their resets; of the times of resets only the order is
kept.

`SendBuffers` is `outBufferQ` in its use by `deliverSP`: `DeliverSP` packs a subproblem
into the message that is being filled for a destination, warns the destination if that
becomes too long, and sends it if another one would not fit; `Flush` sends all;
`Receive` is MPI and `spReceiver`.  The linked lists of the code are kept as they are
(`firstProc`, `nextProc`, `prevProc`).  A buffer is an entry of `heap.content` and a
send refers to it, so a buffer that is filled again too early changes a message in
flight.

`Clustering` is `clusterObj`, as operators on a record of the numbers all processors
have in common. `RampUp` extends it: `Start`, `Fathom`, `Terminal` and `Branch` are what
all processors do with the best problem of their pools (`Branch` ends with the exchange
of incumbents, `rampUpIncumbentSync`), and `Crossover` divides the pool: every processor
deals its own pool with a stride (`SkipFactor`) and keeps what is its own.  `pool` and
`incumbent` are separate on each processor; nothing but the incumbent is ever exchanged.

`IncumbentCast` is the reason why `WorkTransfer` may let any better incumbent reach any
processor (`LearnIncumbent`), and `WorkTransfer` the reason why `Termination` may count
tokens instead of following them: `CountsMatchMessages` and `TransitTokensMove` are what
the counts of `Termination` stand for.  `Scheduler` is the reason for the fairness the
others assume, and `SendBuffers` for their reliable messages.

A module whose name begins with `MC` is a root for TLC.  Some of them start with a
choice, so that one run looks at several systems: `MCWorkTransfer` and `MCLoadBalance`
(variable `machine`), `MCTermination` (any scenario of `Scenario`), and `MCProcessor`
(variable `part`), which extends `RampUp` and has instances of two modules that do not
depend on it or on each other, `Scheduler` and `SendBuffers`.  Their properties say which
of the systems they are for.

## 3. Runs

| Run | System | Properties | Distinct states |
|---|---|---|---|
| `incumbent` | 3 processors in 2 clusters, one hub works and one does not, broadcasts along a chain, 2 values | `PruningInv`, `AgreementAtQuiescence`, `BroadcastInv`, `SourceHoldsSolution`, `BroadcastLeavesNothing`, `EventuallyIdle` | 47,015 |
| `work` | a pure hub with 2 workers, tree of 3 nodes; or 2 clusters of one processor, tree of 5 nodes; 4 addresses, 2 entries per buffer | `TokensAreSound`, `WorkInv`, `TwoHubsAreSound`, `DeliveriesAreLive`, `EventuallyIdle` | 324,306 |
| `term_orders` | 2 clusters, one hub works, one does not; messages in order, or in any order with 2 releases | `TypeOK`, `TerminationIsAgreed`, `OrderedViewIsCurrent`, `ThreadsDetect`, `OrderedTerminates` | 331,912 |
| `term_broadcast` | pure hub, 4 workers, a solution, no releases | `TerminationIsReal` | 993,932 |
| `balance` | 3 hubs in a chain, 2 rounds of balancing, a token that comes in and may leave at any time; or 4 hubs, one of them an inner node, 3 tokens | `MCTypeOK`, `PairsAreUnique`, `NoTokenIsMissed`, `ChainGoesOn` | 374,770 |
| `checkpoint` | 2 processors, killed once, restarted with 1, 2 or 3 (in 2 clusters), 2 checkpoints, tree of 3 nodes | `CheckpointInv`, `SearchSurvives`, `GenerationSurvives`, `SourceHasSolution`, `CheckpointCompletes` | 273,555 |
| `serial_search` | 2 trees of 6 and 7 nodes, 15 settings of the parameters | `TypeOK`, `PoolIsSound`, `BoundIsValid`, `ImplementsBranchAndBound` | 76,278 |
| `repository` | 3 processors, 3 solutions, `enumCount` 2 with and without flow control, or a tolerance | `ReposInv`, `CutOffIsReal`, `FlowIsControlled`, `PrintsTheBest`, `EventuallyComplete` | 380,166 |
| `processor` | scheduler: 6 threads, 3 messages; send buffers: 3 receivers, 4 subproblems; ramp-up: all clusters of up to 5 processors, 7 problems | `NobodyIsForgotten`, `EverybodyRuns`, `MessagesAreKept`, `SearchIsTheSame`, `CrossoverIsRight` | 317,431 |
| `checkpoint_reconfigure` | as `checkpoint`, restarted with 1 | `RestartIsPossible` is **violated** | 1,789 |
| `term_stale_view` | as `term_orders`, in any order, no solution | `EventuallyTerminated` is **violated** | 21,628 |
| `repository_full` | as `repository`, all solutions of one owner | `PrintsTheBest` is **violated** | 161,819 |

What they show.

*Incumbents.*  Nothing is retransmitted, and a processor relays only what it adopts, so
a broadcast can die out at a processor with an equally good incumbent. Since ties go to
the lower rank everywhere, the best pair (value, rank) is never stopped, and all
processors agree when the messages are gone (with ties broken by value alone they would
not).  `SourceHoldsSolution` says that the object is where the pair says it is.
`BroadcastLeavesNothing` is `CountsMatchNetwork`, which the counts of the termination
check rest on, and `NothingLeftToPrune`, which is what the comment on `preExitAction`
worries about: all workers of a cluster idle, and the hub's pools never pruned.

*Work.*  The bound that travels with an address decides whether the address may be
followed.  The owner decides with its own incumbent, before or after it has pruned; the
hub decides the same way about acknowledgements.  `NoDanglingSubproblem`,
`DeliveriesAreLive` and `NoDanglingToken` show this to be enough.  `TokensAreCounted`
relates the reference count at the owner to the tokens in buffers, messages and hubs, and
to what is left of the subproblem.
`NothingLost` says the search stays exhaustive, `NoDuplicate` that nothing is expanded
twice.  `TransitTokensMove` excludes tokens that nothing will ever acknowledge (an
aborted delivery leaves one, but its bound is one that the hub will prune).
`TokenToSend` is the "Should not happen" in `hubSendWorkTo`.  These three, with
`OneReturn` (no address comes back twice unless one of the two is ignored) and
`PoolsHaveTokens` (what is in a pool of a hub has not been deleted), are `AddressInv`.
`WorkInv` is that and `SearchInv`, which is `NothingLost` with what makes it inductive;
`TokensAreSound` is `TypeOK`, `NoDanglingSubproblem`, `TokensAreCounted`,
`CountsMatchMessages` and `NoDuplicate`; `TwoHubsAreSound` is both of the machine with
two clusters, the only one where hubs work and give work to each other.  That machine has
the larger tree and the liveness property, the other one a pure hub and remote workers.

*Termination.*  One count of messages may balance although a broadcast is in progress,
since processors are asked one after the other: it takes a hub and four workers for
that, hence `term_broadcast`.  The second count finds out, because messages sent after
the first count add to it.  In `term_orders` the verdict is right and common
(`TerminationIsAgreed`: `TerminationIsReal` and `HubsAgree`) whatever the order of
messages.  `HubsAgree` matters because a hub that goes back to the next survey would
wait for the others for ever.

*Balancing.*  No hub knows who else is a donor or a receiver; that they meet in pairs
rests on the numbers (`NumbersAreUnique`: two subtrees never overlap, and the random
offsets, drawn separately everywhere, are the same) and on partners being forgotten from
round to round (`OneDonorEach`).  A transfer is not counted as a message, so a survey
that was concluded while one is in flight would miss its tokens, and the check for
termination could succeed; `SurveyMissesNothing` says there is none, because the
receiver does not go on to the survey.  `RoundsGoOn` says that the price is never paid:
whoever waits for a message is sent one, be it an empty one.  (`PairsAreUnique` is
`NumbersAreUnique` and `OneDonorEach`; `NoTokenIsMissed` is `SurveyMissesNothing` and
`WorkIsConserved`; `ChainGoesOn` is `RoundsGoOn` of the chain.)

*Checkpoints.*  Tokens are not written: what they stand for is in the file of the owner
of the problem, because `packGeneric` writes `childrenLeft` and not `tokenCount`, and
only there, because nothing is on its way (`NothingLost`).  The barrier at the end of
`writeCheckpoint` keeps a processor that has written from giving a problem to one that
has not, which would write it again (`NothingTwice`), and from deleting its old file too
early (`GenerationSurvives`: while both kinds of files are on disk, those of one
checkpoint are complete; the program refuses to choose, and the user has to delete the
others). `SourceHasSolution` is about the solution object, which is in one file only and
moves to the I/O processor.  `CheckpointCompletes` would fail if a processor could be
stuck at the barrier.  (`SearchSurvives` is `NothingLost` and `NothingTwice`.)

*Serial search.*  A subproblem takes another path in each handler, may pause in the
middle of being bounded or split, and is fathomed at many places; enumeration changes
what may be fathomed. `ImplementsBranchAndBound` says that in all combinations nothing
wanted is lost, that the search ends and that what is stored then is what the criteria
of `architecture.tex` 442-465 ask for, and nothing else.  `PoolIsSound` is about the
heap, whose order is by depth or integrality up to the first incumbent and by bounds
after it: `heapPool::prune` reheapifies once, the first time, and looks at the leaves
only, which is enough because whatever is above a subproblem in the heap has a better
bound.  `BoundIsValid` is about `updatedLoad`, whose bound the status line and the gap
use.

*Enumeration.*  The lists a cut-off is made of are of different ages, and the same
solution may be found by several processors; since each solution has one owner and lists
only become better, a cut-off is still never too good (`CutOffIsReal`).
`FlowIsControlled` is the invariant of each link.  `PrintsTheBest` is what the user
sees. `AckSol` may drop all that waits for a link, and still frees the link;
`EventuallyComplete` would fail if it did not.

*Scheduler.*  The array of requests gets shorter while it is gone through, and several
threads may wait for one tag of which only the first has a request in the array:
`NobodyIsForgotten` says that for every tag waited for there is exactly one, of the
right thread.  `EverybodyRuns` is the fairness the other modules assume, for listeners
who have a message and for threads that are always ready to compute.

*Send buffers.*  `MessagesAreKept` is `SegmentsAreKept`, one equation for all that a
receiver has, is being sent and will be sent, and `MessagesFit`: the warning, which
travels in another queue of buffers, is there first because MPI keeps the order of
messages between two processors with one tag.

*Ramp-up.*  `SearchIsTheSame` is the "WE HOPE" in `parBranching.cpp`: it holds because
every outcome of a heuristic is synchronized before anything is pruned with it.
`CrossoverIsRight` is about the deal: the stride is relatively prime to the number of
workers, also when the last cluster has another size or another kind of hub.

### Bounds

* `MaxValue`, `releases`, `MaxDispatches`, the search trees, `Address` and `MaxBuffered`
  bound the runs. Every value is strictly better than the last one, so 2 values give an
  improvement, a tie and a message that is out of date.
* 3 processors in a chain give a relay by a processor that is neither source nor
  leaf.
* The small search tree has equally good solutions, so a token can be fathomed
  while it is dispatched; the larger one has a problem released as a whole and one
  released child by child.  4 addresses are more than the tokens a hub can have at
  once, so an allocation never fails, and few enough for reuse.  Buffers of 2
  entries fill up in the middle of handlers.
* Two releases let two tokens of one worker be in different stages.  Termination with
  releases alone is first miscounted with four or five of them, which is beyond TLC
  here; the broadcast does the same with none.
* `LbRandom` is as long as the rounds need that move work: after them hubs go on with
  surveys.  Two rounds show what one leaves to the next.  4 hubs are the least with two
  pairs at once (and both do transfer tokens at the same time in this run); hub 1 is
  then an inner node of the tree, hub 0 has two children.  With 2 tokens at hub 0 and 1
  at hub 3, and `MaxLoadBalSize = 1`, a donor gives nothing, all it has, or no more than
  fits.

* One kill and two checkpoints give a restart from the first checkpoint and the second
  one written by another number of processors; with three, a second hub comes to the
  verdict by itself.  The two solutions of the tree are equally good.

* `serial_search`: every handler, pool, order and criterion occurs, alone and in the
  combinations that share code, on a tree with an infeasible node and a solution at two
  nodes, and on one with solutions at inner nodes and equal values.  `MaxHeuristic = 1`:
  one solution from the heuristic or the initial guess, at any time. `Infinite` (99) is
  above all values.
* `repository`: 3 processors make an incomplete hypercube (1 and 2 reach each other by
  way of 0) and, with radix 1, a chain of merging; 3 finds with `enumCount = 2` give a
  full part, a cut-off and a duplicate; `MaxRampUp = 1` gives one of them to ramp-up.
  `finders` keeps one processor from finding anything in the setting with flow control
  and `enumCount`, which has the most states.
* `processor`: two listeners share a tag and one of the others may block, so the array
  of requests is compacted in the middle; 3 messages can complete all requests at once.
  `MaxProcPriority = 2` resets priorities often.  3 receivers are the least with a list
  that is cut in the middle; sizes 1 and 4 against a receive buffer of 5 give messages
  that fit, fill and overflow it; `ScavengeSize = 1` reuses buffers from the first
  chance on.  Clusters of up to 5 processors include last clusters of another size and
  with another kind of hub; a pool limit of 3 and 7 problems give every remainder of
  problems to workers.

No run needs symmetry: ranks are numbers and the trees depend on them.

### Fairness

The scheduler (`sched/Scheduler.cpp`) runs every thread that is ready in its turn:
message-triggered threads in round robin, the worker and others by stride. So every
handler that stays able to run does run (`WF`).  In `WorkTransfer` a worker that always
has something to give up still works on something, since releasing is part of a slice
that has worked on a problem (`SF` of `Work`).  In `Termination` the load balancing
thread switches the other threads of its processor off and on (`MidRun`), so these have
strong fairness as a processor (`SF` of `Act`).  Nothing is assumed of solutions being
found or problems being released.  In `LoadBalance` the load balancing threads are fair
(`WF` of `Run`): MPI delivers every message, and a leaf, which sets the pace, may start
a round once enough time has passed.  In `Checkpoint` handlers of messages and the steps
of `writeCheckpoint` are fair (`WF` of `Handle` and of `HearStart`, which are different
threads of the worker and the hub), the search and the start of checkpoints are not. In
`SerialSearch` one sequential program runs on (`WF` of `Next`), and so does the loop of
the scheduler (`WF` of `Loop`; nothing is assumed of single threads, whose fairness is
what is shown).  In `Repository` what the program does by itself goes on (`WF` of
`Step`, one action for all, since `Find` is bounded and every other step brings the end
nearer). The merged roots restrict each of these to the system it is for (`machine =
"twoHubs" /\ ...`, `scenario.inOrder /\ ...`), and the liveness properties are about
that system. `CHECK_DEADLOCK FALSE` is in all configurations but that of balancing,
because a search that is over stops; balancing never does.

### Findings

1. `term_stale_view`.  A poll reply and a later report of a worker reach the hub
  with different tags and are handled by different threads.  If the younger report
  is handled first, the older reply overwrites it (`pbb/loadBal.cpp:411`); the
  idle worker sees no difference from its last report, and the hub goes on
  counting a problem that is gone.  Every survey then finds work, so no hub polls
  again.  Safety does not depend on the order (`term_orders`); liveness is
  checked with `inOrder`.
2. `checkpoint_reconfigure`.  All files are in one directory when a run is reconfigured.
   With fewer processors than before, each deletes the old file with its own number
   after its next checkpoint (`pbb/pbCheckpoint.cpp:160-161`), and those with higher
   numbers stay for ever.  The next `--restart` or `--reconfigure` finds files for two
   checkpoints and throws (`:301-304`), although `doc/uguide/architecture.tex:539-545`
   says that the computation can be restarted, with a different number of processors, by
   either.  In run `checkpoint`, where this is possible too, no second restart is tried.
3. `repository_full`.  A full part of the repository swaps a new solution for its worst
   one without comparing the two (`bb/branching.cpp:2310`); the only test before is
   against `lastSolId` (`:2246`), which takes a merge and a broadcast to be up to date.
   A worse solution can so replace a better one and be printed.  The test against the
   worst stored solution is written (`:510-533`) and not called.  The settings of run
   `repository` have no more solutions of one owner than fit, so that the rest of the
   enumeration is checked there.
4. A hub that does not work prunes its part of the repository only if `enumCount > 1`
   (`pbb/pbHub.cpp:138-139`; the comment there says "To make sure repository is pruned on
   'pure' hubs"), although a tolerance or a cut-off makes an enumeration, too
   (`bb/branching.cpp:279-283`), and `pruneIfNeeded` asks for `enumerating`
   (`pbb/pbWorker.cpp:787-788`).  Pure hubs own solutions as others do
   (`parBranching.h:896-900`), and nothing else prunes their parts before the output.
   With a tolerance only, a solution owned by a pure hub is therefore printed although a
   better one by more than the tolerance was found after it, which
   `doc/uguide/architecture.tex:434-436` and `463-466` exclude.  The proof of
   `TheBestArePrinted` needs `HubsSuffice` for this reason.  To see it, change
   `MCRepositoryFull.cfg` so that `Worker = {1, 2}`, the owner of `s1` is 0 and the only
   setting is a tolerance of 0 without a count: `PrintsTheBest` is violated after 14 states,
   where `s1` of value 3 is printed beside `s2` of value 2.

Noticed, and not the subject of a run:

* At the crossover from ramp-up the hub adds every problem it assigns to a worker to
  `workerLoadReport` (`pbb/parBranching.cpp:1419`), but the worker's `lastWorkerReport`
  keeps its initial count of 0 (`:543`).  A remote worker that finishes its share within
  its first slice, without finding an incumbent or releasing anything, has nothing
  "reportably different" to tell; a single hub then never gets to poll, and the run does
  not end.  (`Termination` with `InitialLoad` at the worker, no `finders` and no
  `releases` shows it; `doc/uguide/architecture.tex:970-972` says a termination check
  takes place at least once at the end of every run.)
* A kill during the *first* checkpoint, or while the last files are deleted, can leave
  the files of processors `0 .. i` only, or files that were not closed; the check at
  `pbCheckpoint.cpp:322-331` compares the number of files with the highest number and
  accepts them, and numbers that cannot be read leave `numSPs` at -1, so problems are
  lost silently (`phase = "incomplete"`).
* `reconfigureRestart` sets `incumbentSource` even if there is no incumbent
  (`:586-588`), so that the next `writeCheckpoint` dereferences a null solution
  (`:86-87`); the runs start with an incumbent, as `initialGuess` or a heuristic gives
  one.
* A hub that does not work prunes its part of the repository only if `enumCount` is more
  than 1 (`pbHub.cpp:136-140`), so with `enumAbsTol` alone its part may hold, and print,
  solutions out of tolerance; in run `repository` the only hub works.
* The eager handler splits a subproblem whose bound it was allowed to pause on, and the
  exception at `branching.cpp:1321-1333` ends the program; `architecture.tex` (about
  line 190) describes the pause without this restriction.  The model has it as
  `SplitUnbounded`.
* `enumCount = 1` with `enumAbsTol >= 0` is accepted (`pebblParams.cpp:307-313`) and
  then counts nothing. `initialGuess` may replace a better `startIncumbent`
  (`branching.cpp`, about line 985).  The comment on `fathomValue`
  (`branching.cpp:669-715`) is not true with `enumRelTol`.
* `reposArrayBufSize` (`parBranching.cpp`, about line 466) is one integer smaller than
  the longest such message.
* `clusterObj` divides rounding up where `architecture.tex:698-709` rounds down, and
  `numClusters` is no minimum (`parPebblParams.cpp:105`): 6 processors and
  `numClusters=4` make 3 clusters.  `hubsDontWorkSize` is "at or above" and not "above"
  (`:110-113`).
* `ThreadQueue::unblock` resets a thread that has missed a reset of priorities with a
  fresh stamp, so that it is ahead of the others for once (`architecture.tex:1183-1186`
  wants the opposite).  With PEBBL's two threads that compute this has no effect.

## 4. Proofs

The runs check the invariants below on their instances, the inductive ones too
(`PruningInv`, `BroadcastInv`, `CheckpointInv`, `ReposInv`, `WorkInv`; of `TokenInv` what
`WorkInv` and `TokensAreSound` say); the theorems hold for all
values of the constants that satisfy the named assumptions, which say what the program's
own parameters and ranks satisfy.

`TreeTopology_proofs`, from `TreeAssumption`, proves facts about the trees for every
size, radix and root: every processor but the root has a parent nearer to the root,
which reckons it one of its children (`ParentOfChild`); the node that sends to a child
is the one the child takes for its parent, so nobody is sent a broadcast by two
(`ParentOfItsChild`); the root is nobody's child (`ChildIsNotRoot`).

`IncumbentCast_proofs` proves, for any number of processors, any radix, any assignment
of workers to hubs and any number of values, from `TreeAssumption` and
`ClusterAssumption` alone:

* `TypeCorrect`: `Spec => []TypeOK`;
* `BroadcastInvariant`: `Spec => []BroadcastInv`;
* `Agreement`: `Spec => []AgreementAtQuiescence`;
* `SourceHolds`: `Spec => []SourceHoldsSolution`;
* `PruningInvariant`: `Spec => []PruningInv`;
* `NothingIsLeft`: `Spec => []BroadcastLeavesNothing`.

`AgreementAtQuiescence` is not inductive, as it says nothing while messages are in
flight.  The strengthening is `BroadcastInv`: nobody believes in, and no message
carries, anything better than `best` (`NoneBetter`); and the broadcast of `best` is
uninterrupted (`BestOnItsWay`): its source believes in it, and if a processor does, each
of its children in the source's tree does or has a message on its way.  When no messages
are left, take, of the processors that do not believe in `best`, one nearest to the root
(there is one, since `<` on the naturals is well-founded).  It is not the root, so it is
a child of its parent, which is nearer and therefore does believe in `best`; so a
message is on its way to it, a contradiction.  `NoEcho` (a broadcast does not return to
its originator, by `ChildIsNotRoot`) is needed for `SourceHoldsSolution`, which would
otherwise be lost when a source adopts its own message.

`BroadcastLeavesNothing` needs more.  Its counts are exact only if no processor ever
sends a message that is still in the network: a processor relays what it adopts, so
whoever has sent a message believes in nothing worse (`ParentKnows`) and, since
incumbents only improve, does not adopt the same one again; `CountChildren` gives the
number of new messages.  And what is left to prune when all threads are idle is ruled out
by following the marks: a pool that is behind the incumbent is marked (`PoolsFollow`), a
marked hub is about to run or has a worker that will wake it (`HubsWillRun`), and a
worker that is not marked has reported its incumbent (`ReportsFollow`).

`Checkpoint_proofs` proves, for any number of processors before and after any number of
kills, any clusters, any search tree and any solutions in it, from
`CheckpointAssumption`:

* `GenerationIsSafe`: `Spec => []GenerationSurvives`;
* `SourceIsRight`: `Spec => []SourceHasSolution`.

`FilesInv`, which it proves inductive, follows a checkpoint through its stages.  Who is a checkpoint behind has
a message that tells it, and nobody is two behind (`StartsAreTold`), so that all write
files of the same number; files are written only while everybody is suspended or writes,
and who has written waits (`WritingIsTogether`); after the end nothing is written
(`EndIsTheEnd`).  Therefore memory does not change between the first file and the last,
the files of one checkpoint are made by the same number of processors and by each once
(`FilesAgree`), and a file has what its processor still has (`FilesMatchMemory`).  The
last checkpoint that anybody has finished is complete, and nothing deletes its files
before the next one is (`LastIsComplete`), which is `GenerationSurvives`; a restart reads
such files, with whatever number of processors, and starts in a state that satisfies all
of this again.  `SourceHasSolution` rests on two parts about incumbents, which checkpoints
do not hold back: everybody's incumbent is known, or about to be, to everybody
(`IncumbentsSpread`), and the source of an incumbent has its solution unless it knows a
better one (`SourcesAreBest`).

The second part of the module adds what is searched, from `SearchTreeAssumption` (every
problem but the root is made by one other, and all come out of the root):

* `CheckpointIsRight`: `Spec => []CheckpointInv`;
* `SearchIsSafe`: `Spec => []SearchSurvives`.

`CheckpointInv` is `FilesInv` and `SearchInv`, which looks at batches: the entries of the
pools and the problems on their way, each with the problems that still have to come out
of it.  No problem is below two of these (`Once`), the bound of an entry is no better
than they allow (`Bounded`), and unless somebody knows a best solution there is one below
one of them (`HasBest`).  What `Work`, `Release`, `SpServe` and `SpReceive` do is always to
replace one batch by others that are inside it and, but for what is fathomed, cover it
(`GoingOn`); what is fathomed is no better than an incumbent (`FathomedIsKnown`).  The
files of each checkpoint satisfy the same (`FilesGoOn`): while they are written nothing
is on its way and those there are have what is in memory (`FilesOfNow`), so any part of
them is sound from the first write, and when the last is closed they have everything.
A deletion makes a checkpoint incomplete, and a restart takes from its files each entry
once and all that it cannot fathom (`TakesUp`), whoever it is dealt to.  That children
are below their parent, apart from each other, and have no better bounds is proved from
the closure that defines `Below`, without induction (`BelowFacts`, `SiblingsApart`,
`BoundsGrow`).

`Repository_proofs` proves, for any number of processors, any radix, any solutions with
any values and owners and any settings of `enumCount`, `enumAbsTol` and
`enumFlowControl`, from `TreeAssumption` and `RepositoryAssumption`:

* `ReposInvariant`: `Spec => []ReposInv`;
* `CutOffsAreNotTooGood`: `Spec => []CutOffIsReal`;
* `LinkExists`: from any processor but the owner a link leads on towards the owner;
* `FlowControl`: `Spec => []FlowIsControlled`;
* `TheBestArePrinted`: `Spec => []PrintsTheBest`, if `PartsSuffice` and `HubsSuffice`.

The two hypotheses of the last one are what the code needs to be right, and run
`repository` satisfies both.  `PartsSuffice` says that no processor owns more solutions
than `enumCount`; run `repository_full` is the counterexample without it (finding 3).
`HubsSuffice` says that if there is a tolerance and no `enumCount`, every hub works, too;
the counterexample without it is finding 4.

`CutOffIsReal` alone is not inductive, since cut-offs are made of lists made of lists.
`ReposInv` says of all of them where they come from: a part of the repository holds found
solutions that its processor owns, once each, with different stamps (`PartsAreGenuine`);
the list of a child holds found solutions whose owners are in the child's subtree
(`ListsAreGenuine`, and `MessagesAreGenuine` of what is on its way).  The subtrees of
different children are disjoint, and the parent is in none of them (`SubtreesAreApart`, by
`ParentOfItsChild`), so merging lists never counts a solution twice, however old they
are. Among the solutions of such a list the order is strict, so the `enumCount`-th has
`enumCount - 1` others before it (`NthExists`): that many found solutions are as good.
What has been found stays found, so a cut-off that was real stays real (`StaysGenuine`).
`LinkExists` halves both ranks until they differ in the last bit; if the only bits that
differ are ones the processor lacks, adding one does not exceed the owner's rank, so the
neighbor exists although the hypercube is incomplete.  `FlowControl` counts, per link,
forwarded solutions in one direction and acknowledgements in the other; it needs
`NeighborOfNeighbor` (the other end of a link has it, too, and `LinkTo` finds it).

`PrintsTheBest` is about the end of the search only, so its invariant has to say of every
state why what is missing may be missing.  `EnumInv`, which TLC checked on three instances
before it was proved, has these parts beside `ReposInv` and `FlowIsControlled`:

* `NothingForgotten`: each found solution is stored, waits for a link, is on its way, or
  may be dropped;
* `ListsHold`: each identifier in a list, stored or on its way, is in the repository, or
  it may be dropped, and nothing after a cut-off is needed;
* `PartsAreTidy`: where a part holds a solution that the tolerance and its processor's
  incumbent prune, `needPruning` (on a pure hub `needHubPruning`) says so;
* `IncumbentsAreBest`: an incumbent is a found value or none, and for each found solution
  some processor has an incumbent that is as good;
* `PhasesGoOn`: parts are empty in ramp-up, and nothing waits for its end later;
* `ScanIsInOrder`: what is printed is the beginning of the sorted list of all that is
  stored, and each cursor counts its owner's share of it.

There are two reasons to drop a solution: a found solution is better by more than the
tolerance, or `enumCount` identifiers in the repository are as good.  The first stays a
reason since what is found stays found.  The second has to stay one although the
repository loses identifiers; it only loses those that are out of tolerance or after a
cut-off, which has `enumCount` up to it (`Turns`, `ReasonsStay`).  When all is quiet
nothing flies, by `FlowIsControlled` nothing waits, all have the best incumbent and nothing
is marked to be pruned, so the stored solutions are the wanted ones, up to those after
`enumCount` others (`StoredAtTheEnd`).  Each owner sends its solutions in its
own order, which is the global one restricted to it (`NextOfOwner`), so the solution that
arrives next is the one whose turn it is.

`WorkTransfer_proofs` proves, for any clusters, any search tree, any memory of the hubs
and any capacity of the buffers, from `WorkAssumption` (children make a tree of the
subproblems, none has a better bound than its parent, and a hub that works is its own
hub):

* `SearchInvariant`: `Spec => []SearchInv`;
* `SolutionsAreKept`: `Spec => []NothingLost`;
* `NothingTwice`: `Spec => []NoDuplicate`.

`NothingLost` is not inductive, since it does not say who would still find a solution
when a token is dispatched, or its subproblem delivered.  `SearchInv` follows the
*carriers* of a subproblem: the pool of a worker, a delivery, or a token for it, in a
buffer, in a message to a hub, in a hub's pool or in a dispatch.  There is never more
than one (`OneCarrier`), and if it is not a worker's pool the subproblem has not been
split; what a server keeps has no carrier but a token that names its owner
(`ServersKeep`), and what is left of a split subproblem has not been made
(`ChildrenAreKept`). Every action replaces a carrier by at most one, at another place:
`SendReport` moves tokens from a buffer to a queue, a hub from there to its pool, and so
on to `AddToWorkerPool`.  Lemmas for each of these moves (what it takes away, what it adds)
are put together per handler, with the handlers that deliver to themselves.  A token that
is deleted, by pruning or by an acknowledgement, takes nothing with it, since its owner
keeps what it stands for; that no token is deleted by mistake, so that what is kept is
also asked for, is `NoDanglingToken`, below.  For `NothingLost`, what a subproblem leads to is what its children lead to
(`LeavesBelow` is a closure, so this needs no induction), and pruning drops only what
leads to nothing better than an incumbent.

`WorkTokens_proofs` goes on from there, with the same assumption:

* `AddressesAreSound`: `Spec => []AddressInv`;
* `WorkInvariant`: `Spec => []WorkInv`.

An address makes a round trip from a hub by way of the owner of the data and the receiver;
`Returns(h)` is where all addresses of hub `h` are on that trip.  The argument has one
lemma for a hub that deletes nothing that may come back (`StaysSound`, for pruning,
releases, and every step of others), one for a hub that deletes what has come back
(`DeletesSound`, for acknowledgements and for deliveries to a hub that works), and one
for a hub that sends a token (`DispatchedAddr`); the rest says how each handler moves what
is on its way (`Follows`, `MovesOn`).  What makes the address safe to follow is that both
ends decide by the same bound: if the hub has pruned the token since, it cannot take the
bound that comes back for anything but fathomable, as its incumbent never gets worse;
and if it has not, the token is still where it was, since a token in a transit pool is
deleted by nothing else (`PoolsHaveTokens`, `OneReturn`).  `TransitTokensMove` allows
for the one way for an address to get lost, an aborted delivery.

`WorkCounts_proofs` counts, with the same assumption:

* `TokensPointToData`: `Spec => []TokensAreSound`;
* `DeliveriesFindData`: `Spec => DeliveriesAreLive`.

`TokenInv` is inductive: what has been proved of the search and of addresses, with
`Tallied` and `Balanced`.  A token has a place with a name (an entry of a buffer, of a
message in a queue, of a hub's pool, or a dispatch), and `Outstanding` is the set of those
names, so the number of tokens is a cardinality and not a sum.  A handler moves them: a
report turns entries of a buffer into entries of the last message of a queue, a hub turns
the first message of a queue into entries of its pool and moves all others up by one.
`Relocates` says where each goes, by a function under which no two names become one,
which are deleted and which are new; `CountClass` counts what it yields, for all tokens
of a problem or for the tokens on their way within a cluster or between clusters.  There
is a lemma of this kind per place (`PostWires`, `HubPlaces`, `HandledMoves` and so on),
and handlers that also deliver to themselves combine them (`MovesCombine`).

Pruning is what makes the statement delicate.  A hub drops tokens, so the count at the
owner is only an upper bound from then on; but then the problem is no better than the best
incumbent anywhere, so nobody who has that incumbent follows a token for it, and whoever
does not have it yet can still do so safely: data is deleted by its owner only when it is
fathomed there, or when the count says so, and the count is exact until the problem is as
bad as some incumbent and never less than the tokens.  So `Tallied` says for every token
that its owner can fathom it by its own incumbent or has the data (`DataOf`), relates the
count to the tokens (`CountsOf`), and to what is left in the data (`Supplied`: a problem
that has not been made or is on its way has no tokens, a server's has one per child left
or one for itself, a worker's fewer than it has children left).  That a delivery takes out
the last child exactly when it deletes the data is `TakenWhole` and `TakenChild`.
`StepIsLive` says it of each step that lowers a count.

`RampUp_proofs` proves, for any clusters, any values and any limits, from
`RampUpAssumption` (there is a worst value):

* `SameSearch`: `Spec => []SearchIsTheSame`.

Inductive is `SearchIsTheSame` with the shapes of the variables (`Shapes`).  A step reads
the pool of each processor and that processor's incumbent only, so equal pools stay equal
if equal values were compared; what has to be proved is that the values are equal again
after each exchange (`SyncAgrees`): the first of the processors that found the best value
becomes everybody's source, it has a solution of that value (its own, or the old one if
nothing better was found), and the best of what was found and the old best is the best of
all.

Only model-checked:

* `TwoHubsAreSound`, which is `TokensAreSound` and `WorkInv` of one of the two machines of
  `MCWorkTransfer`, both of which are proved of any.
* `CrossoverIsRight` of ramp-up: that a stride without a common divisor with the number of
  workers deals evenly is number theory that needs induction.
* `Termination` and `LoadBalance`, whose invariants relate sums over all processors, and
  `Scheduler`, `SendBuffers`, whose queues are rebuilt by folds over sequences: what a
  sum or a fold returns takes induction over data.  `SerialSearch` uses recursive
  operators (the heap is one array that is sifted), which the prover does not take.
* Everything temporal beyond invariants (`EventuallyIdle`, `OrderedTerminates`,
  `ChainGoesOn`, `CheckpointCompletes`, `EventuallyComplete`, `EverybodyRuns`, the end of
  the search in `ImplementsBranchAndBound`), since liveness under fairness and `ENABLED`
  are out of this prover's reach.

## 5. Not modelled

Half of the lines of the repository are not about the search: `utilib` (containers,
property dictionaries, serialization, exceptions: general data types, of which only the
heap and the ordered list decide what the search does), examples (applications that use
the library; the models take any application by its choices), registration of
parameters, output, statistics, memory and event logs, packing of messages field by
field.  They have no behaviour whose order or interleaving matters, so there is nothing
to check there that a unit test would not.

Of what is modelled, these parts are left out:

* The two halves of the load balancing thread together: in `Termination` hubs go back to
  `start` after a survey that finds work, in `LoadBalance` after one that finds none;
  `SurveyMissesNothing` is what the former may rely on.
* In `StartRound` a single hub looks at a fresh sum of loads; the code looks at the
  sum as of the last activation of the hub.
* In checkpoints: solutions in repositories, application data, the abort after a number of
  checkpoints (as good as a kill), separate directories (then `--restart` only), and
  processors that are pure hubs.  How counts decide that nothing is in flight
  is in `Termination`, without suspended workers.
* In the search: relative tolerances (which depend on real arithmetic), an application
  that changes what a subproblem's children are while it makes them, and logs.  Aborts
  for time are in `SerialSearch` only.
* In enumeration: `enumCutoff` and `enumRelTol` (in `SerialSearch` the former), the
  packing of lists, aborts.  That all is quiet when the scan starts (`Quiet`) is the
  verdict of `Termination`; repository messages are counted there as others are.
* In the scheduler: the queue type with weights by number of runs, which PEBBL does not
  use, and the time slices within a run of a thread.  In send buffers: `clear` and
  `completeAll`, which the I/O processor uses once, at the end.
* In ramp-up: `RampUpPoolLimit` stands for the larger of `rampUpPoolLimit` and
  `rampUpPoolLimitFac` times the number of processors; `forceContinueRampUp` and the
  application's own synchronization are left out.  Repositories in ramp-up are in
  `Repository`.
* Bounds and time tracking in load objects, quality balancing, choice of
  workers and hubs: any choice in the models.

## 6. Plan

What would add most, in this order:

1. Proofs: `HubsAgree` and the safety part of the refinement of `TerminationDetection`.
2. Both halves of the load balancing thread in one machine, with workers that are
   suspended for checkpoints.
3. Files that hold repositories, and a restart in the middle of an enumeration.
