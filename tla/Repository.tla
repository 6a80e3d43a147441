----------------------------- MODULE Repository -----------------------------
(***************************************************************************)
(* Enumeration in parallel (pbb/pbEnumerate.cpp, pbb/reposThreads.cpp):    *)
(* each solution belongs to the processor its contents hash to, which      *)
(* keeps it in its part of the repository.  Solutions are sent there       *)
(* directly or, with flow control, from neighbor to neighbor of a          *)
(* hypercube with one on its way per link.  Lists of the best solutions    *)
(* are merged up a tree of processors; its root finds the last solution    *)
(* that still belongs to the enumCount best and broadcasts it.             *)
(*                                                                         *)
(* All messages have one tag and one thread receives them, so those of one *)
(* processor to another keep their order.  Incumbents (IncumbentCast) are  *)
(* heard here from anybody who has one.  Values are minimized.             *)
(***************************************************************************)
EXTENDS TreeTopology, Sequences, FiniteSetsExt

CONSTANTS
  Hub, Worker,      \* processors that are hubs, that do work, or both
  Solution,         \* what may be found
  Value, Owner,     \* a solution's value, the processor it hashes to
  Parameters,       \* settings of enumCount, enumAbsTol and enumFlowControl,
                    \* each with the processors that find solutions (a bound)
  MaxRampUp,        \* bound on the solutions found in ramp-up,
  MaxFound          \* and on all that are found

Infinite == 99      \* MAXDOUBLE

ASSUME RepositoryAssumption ==
  /\ Hub \cup Worker = Proc
  /\ Value \in [Solution -> 0 .. Infinite - 1] /\ Owner \in [Solution -> Proc]
  /\ \A m \in Parameters : /\ {m.enumCount, m.enumAbsTol} \subseteq Int
                           /\ m.enumFlowControl \in BOOLEAN
                           /\ m.finders \subseteq Worker
  /\ MaxRampUp \in Nat /\ MaxFound \in Nat

VARIABLES
  par, phase,
  found, finds,             \* what has been found, how many times (history)
  rampUpSolQ,               \* [Proc -> Seq(Solution)]
  incumbent,                \* [Proc -> value]
  repos,                    \* [Proc -> set of identified solutions]
  parallelSolCounter,
  lastSol,                  \* lastSolId of each processor
  needPruning, needHubPruning, needReposMerge,
  childReposArray,          \* [Proc -> [Proc -> set of ids]]: of its children
  channel,                  \* [Proc -> [Proc -> Seq(message)]]
  solJustSent, solSendQ,    \* of each link of each processor, the latter how
                            \* often each solution is in the heap
  treeReposArray,           \* the final list, at the end
  solPtrCursor, printed

local  == <<repos, parallelSolCounter>>
prune  == <<needPruning, needHubPruning>>
merge  == <<lastSol, needReposMerge, childReposArray>>
flow   == <<solJustSent, solSendQ>>
final  == <<treeReposArray, solPtrCursor, printed>>
asked  == <<par, found, finds>>
vars   == <<asked, phase, rampUpSolQ, incumbent, local, prune, merge, channel,
            flow, final>>

-----------------------------------------------------------------------------
(***************************************************************************)
(* Solutions are ordered by value, then by the stamp of their owner.       *)
(***************************************************************************)
NoSolution == [sol |-> "none", value |-> Infinite, serial |-> 0, owner |-> 0]

Before(x, y) ==
  \/ x.value < y.value
  \/ x.value = y.value /\ x.serial < y.serial
  \/ x.value = y.value /\ x.serial = y.serial /\ x.owner < y.owner

\* The n-th of a set of them.
Nth(ids, n) == CHOOSE x \in ids : Cardinality({y \in ids : Before(y, x)}) = n - 1

Sorted(ids) == [n \in 1 .. Cardinality(ids) |-> Nth(ids, n)]

\* The best of a set of them, at most n.
BestOf(ids, n) == {x \in ids : Cardinality({y \in ids : Before(y, x)}) < n}

Counting == par.enumCount > 1

\* canFathom at processor p, when its incumbent has value inc.
Fathoms(p, inc, value) ==
  \/ par.enumAbsTol >= 0 /\ inc - value < -par.enumAbsTol
  \/ Counting /\ lastSol[p].value <= value

\* Mutant of OutOfRepository: the cut-off takes equal values along.
OutByValue(p, x, last) ==
  \/ par.enumAbsTol >= 0 /\ incumbent[p] - x.value < -par.enumAbsTol
  \/ Counting /\ last.value <= x.value

\* canFathomFromRepository
OutOfRepository(p, x, last) ==
  \/ par.enumAbsTol >= 0 /\ incumbent[p] - x.value < -par.enumAbsTol
  \/ Counting /\ Before(last, x)

\* assignId: each offer gets the next number of the owner.
Stamped(p, s) == [sol |-> s, value |-> Value[s],
                  serial |-> parallelSolCounter[p] + 1, owner |-> p]

\* Mutant: a solution that is there already is let in.
AdmitsTwice(p, inc, s) == ~Fathoms(p, inc, Value[s])

Admits(p, inc, s) == /\ ~Fathoms(p, inc, Value[s])
                     /\ s \notin {x.sol : x \in repos[p]}

\* localReposOffer: p's part of the repository, which gives up its worst
\* solution when it is full.
Offered(p, inc, s) ==
  IF ~Admits(p, inc, s) THEN repos[p]
  ELSE {Stamped(p, s)} \cup
       (IF par.enumCount > 0 /\ Cardinality(repos[p]) = par.enumCount
        THEN BestOf(repos[p], par.enumCount - 1) ELSE repos[p])

Offer(p, inc, s) ==
  /\ repos' = [repos EXCEPT ![p] = Offered(p, inc, s)]
  /\ parallelSolCounter' = [parallelSolCounter EXCEPT ![p] = @ + 1]

\* processOwnedSolution, and the receiver's treatment of a hashed solution.
ProcessOwnedSolution(p, inc, s) ==
  /\ Offer(p, inc, s)
  /\ needReposMerge' = [needReposMerge EXCEPT ![p] = @ \/ (Counting /\ Admits(p, inc, s))]

-----------------------------------------------------------------------------
(***************************************************************************)
(* The hypercube: neighbors differ in one bit of their ranks.              *)
(***************************************************************************)
\* A power of two: all its divisors but 1 are even.
PowerOf2(m) == \A d \in 2 .. m : m % d = 0 => d % 2 = 0

\* A link is known by its bit.
Link == {b \in 1 .. N - 1 : PowerOf2(b)}

Bit(p, b) == (p \div b) % 2

Neighbor(p, b) == IF Bit(p, b) = 1 THEN p - b ELSE p + b

LinkTo(p, q) == CHOOSE b \in Link : Neighbor(p, b) = q

LinksTowards(p, owner) ==
  {b \in Link : Neighbor(p, b) < N /\ Bit(p, b) # Bit(owner, b)}

NoneQueued == [s \in Solution |-> 0]

Load(p, b) == MapThenSumSet(LAMBDA s : solSendQ[p][b][s], Solution)
                + IF solJustSent[p][b] THEN 1 ELSE 0

\* The first of the least congested ones.
BestLink(p, owner, b) ==
  \A c \in LinksTowards(p, owner) \ {b} :
    Load(p, b) < Load(p, c) \/ (Load(p, b) = Load(p, c) /\ b < c)

\* Mutant: what is on its way is not counted.
NothingQueued(p, b) == solSendQ[p][b] = NoneQueued

\* Its load is zero.
Free(p, b) == solSendQ[p][b] = NoneQueued /\ ~solJustSent[p][b]

Forward(s) == [type |-> "forwardSol", sol |-> s]
Ack        == [type |-> "ackSol"]

\* routePackedSolution: a solution waits while another is on its way.
Route(p, s, net) ==
  \E b \in LinksTowards(p, Owner[s]) :
    /\ BestLink(p, Owner[s], b)
    /\ solJustSent' = [solJustSent EXCEPT ![p][b] = TRUE]
    /\ solSendQ' = IF Free(p, b) THEN solSendQ ELSE [solSendQ EXCEPT ![p][b][s] = @ + 1]
    /\ channel' = IF Free(p, b)
                  THEN [net EXCEPT ![p][Neighbor(p, b)] = Append(@, Forward(s))]
                  ELSE net

-----------------------------------------------------------------------------
Init ==
  /\ par \in Parameters /\ phase = "rampUp"
  /\ found = {} /\ finds = 0
  /\ rampUpSolQ = [p \in Proc |-> <<>>]
  /\ incumbent = [p \in Proc |-> Infinite]
  /\ repos = [p \in Proc |-> {}] /\ parallelSolCounter = [p \in Proc |-> 0]
  /\ lastSol = [p \in Proc |-> NoSolution]
  /\ needPruning = [p \in Proc |-> FALSE]
  /\ needHubPruning = [p \in Proc |-> FALSE]
  /\ needReposMerge = [p \in Proc |-> FALSE]
  /\ childReposArray = [p \in Proc |-> [c \in Children(0, p) |-> {}]]
  /\ channel = [p \in Proc |-> [q \in Proc |-> <<>>]]
  /\ solJustSent = [p \in Proc |-> [b \in Link |-> FALSE]]
  /\ solSendQ = [p \in Proc |-> [b \in Link |-> NoneQueued]]
  /\ treeReposArray = <<>> /\ solPtrCursor = [p \in Proc |-> 0]
  /\ printed = <<>>

CountFind(s) ==
  /\ finds < MaxFound /\ finds' = finds + 1
  /\ found' = found \cup {s} /\ par' = par

(***************************************************************************)
(* Ramp-up.  Either all processors find the same solution, and its owner   *)
(* queues it, or one finds it by itself.                                   *)
(***************************************************************************)
RampUpFind(s) ==
  /\ phase = "rampUp" /\ finds < MaxRampUp /\ CountFind(s)
  /\ \E finders \in {Proc} \cup {{p} : p \in Proc} :
       /\ incumbent' = [p \in Proc |-> IF p \in finders /\ Value[s] < incumbent[p]
                                       THEN Value[s] ELSE incumbent[p]]
       /\ needPruning' = [p \in Proc |->
            needPruning[p] \/ (p \in finders /\ Value[s] < incumbent[p])]
       /\ LET at == IF finders = Proc THEN {Owner[s]} ELSE finders
          IN  rampUpSolQ' = [p \in Proc |-> IF p \in at THEN Append(rampUpSolQ[p], s)
                                                        ELSE rampUpSolQ[p]]
  /\ UNCHANGED <<phase, local, needHubPruning, merge, channel, flow, final>>

Least(S) == CHOOSE x \in S : \A y \in S : x <= y

\* rampUpIncumbentSync, and the start of rampUpRepositorySync.
RampUpIncumbentSync ==
  /\ phase = "rampUp" /\ phase' = "hashing"
  /\ LET best == Least({incumbent[p] : p \in Proc})
     IN  /\ incumbent' = [p \in Proc |-> best]
         /\ needPruning' = [p \in Proc |-> needPruning[p] \/ incumbent[p] # best]
  /\ UNCHANGED <<asked, rampUpSolQ, local, needHubPruning, merge, channel, flow, final>>

\* Queued solutions reach their owners, those of different processors in any
\* order.
HashSolution(p) ==
  /\ phase = "hashing" /\ rampUpSolQ[p] # <<>>
  /\ LET s == Head(rampUpSolQ[p])
         o == Owner[s]
     IN  Offer(o, incumbent[o], s)
  /\ rampUpSolQ' = [rampUpSolQ EXCEPT ![p] = Tail(@)]
  /\ UNCHANGED <<asked, phase, incumbent, prune, merge, channel, flow, final>>

\* The nodes of the subtree of p: p, and with a node all its children.
Below ==
  [p \in Proc |-> {q \in Proc : \A S \in SUBSET Proc :
                    (p \in S /\ \A x \in S : Children(0, x) \subseteq S) => q \in S}]

\* All solutions in the subtree of p.
Subtree(p) == UNION {repos[q] : q \in Below[p]}

\* updateLastSolId: an id is replaced by one that is better.
Updated(last, x) == IF Before(x, last) THEN x ELSE last

\* Mutant: of a list that is one short.
CutOffEarly(ids, last) ==
  IF Cardinality(ids) < par.enumCount - 1 THEN last
  ELSE Updated(last, Nth(ids, Cardinality(ids)))

\* The last of the enumCount best in a list, if it is that long.
CutOff(ids, last) ==
  IF Cardinality(ids) < par.enumCount THEN last
  ELSE Updated(last, Nth(ids, par.enumCount))

\* syncLastSol, with syncReposArrays, on all processors; then they prune.
SyncLastSol ==
  /\ phase = "hashing" /\ \A p \in Proc : rampUpSolQ[p] = <<>>
  /\ phase' = "search"
  /\ IF ~Counting
     THEN UNCHANGED <<lastSol, childReposArray, needPruning, needHubPruning, repos>>
     ELSE LET last == CutOff(Subtree(0), NoSolution)
              must == [p \in Proc |-> needPruning[p] \/ last # NoSolution]
          IN  /\ lastSol' = [p \in Proc |-> last]
              /\ childReposArray' = [p \in Proc |-> [c \in Children(0, p) |->
                                       BestOf(Subtree(c), par.enumCount)]]
              /\ needHubPruning' = [p \in Proc |-> needHubPruning[p]
                                                     \/ (p \in Hub /\ must[p])]
              /\ needPruning' = [p \in Proc |-> FALSE]
              /\ repos' = [p \in Proc |-> IF must[p]
                   THEN {x \in repos[p] : ~OutOfRepository(p, x, last)} ELSE repos[p]]
  /\ UNCHANGED <<asked, rampUpSolQ, incumbent, parallelSolCounter, needReposMerge,
                 channel, flow, final>>

-----------------------------------------------------------------------------
(***************************************************************************)
(* The asynchronous search: foundSolution, with offerToRepository.         *)
(***************************************************************************)
Find(p, s) ==
  /\ phase = "search" /\ CountFind(s)
  /\ LET improves == Value[s] < incumbent[p]
         inc      == IF improves THEN Value[s] ELSE incumbent[p]
     IN  /\ incumbent' = [incumbent EXCEPT ![p] = inc]
         /\ needPruning' = [needPruning EXCEPT ![p] = @ \/ improves]
         /\ needHubPruning' = [needHubPruning EXCEPT ![p] = @ \/ (improves /\ p \in Hub)]
         /\ IF Owner[s] = p
            THEN ProcessOwnedSolution(p, inc, s) /\ UNCHANGED <<channel, flow>>
            ELSE /\ UNCHANGED <<local, needReposMerge>>
                 /\ IF par.enumFlowControl THEN Route(p, s, channel)
                    ELSE /\ channel' = [channel EXCEPT ![p][Owner[s]] =
                                          Append(@, [type |-> "hashSol", sol |-> s])]
                         /\ UNCHANGED flow
  /\ UNCHANGED <<phase, rampUpSolQ, lastSol, childReposArray, final>>

\* A better incumbent arrives.
HearIncumbent(p) ==
  /\ phase = "search"
  /\ \E q \in Proc :
       /\ incumbent[q] < incumbent[p]
       /\ incumbent' = [incumbent EXCEPT ![p] = incumbent[q]]
  /\ needPruning' = [needPruning EXCEPT ![p] = TRUE]
  /\ needHubPruning' = [needHubPruning EXCEPT ![p] = @ \/ p \in Hub]
  /\ UNCHANGED <<asked, phase, rampUpSolQ, local, merge, channel, flow, final>>

\* pruneRepository, with the queues of flow control.
PruneRepository(p) ==
  /\ repos' = [repos EXCEPT ![p] = {x \in @ : ~OutOfRepository(p, x, lastSol[p])}]
  /\ solSendQ' = [solSendQ EXCEPT ![p] = [b \in Link |->
       [s \in Solution |-> IF Fathoms(p, incumbent[p], Value[s]) THEN 0 ELSE @[b][s]]]]

\* pruneIfNeeded at a worker, which includes hubPrune if it is a hub, too.
WorkerPrune(p) ==
  /\ phase = "search" /\ p \in Worker /\ needPruning[p]
  /\ needPruning' = [needPruning EXCEPT ![p] = FALSE]
  /\ needHubPruning' = [needHubPruning EXCEPT ![p] = FALSE]
  /\ PruneRepository(p)
  /\ UNCHANGED <<asked, phase, rampUpSolQ, incumbent, parallelSolCounter, merge,
                 channel, solJustSent, final>>

\* hubPrune: a hub that does not work prunes its part if enumCount is used.
HubPrune(p) ==
  /\ phase = "search" /\ needHubPruning[p]
  /\ needHubPruning' = [needHubPruning EXCEPT ![p] = FALSE]
  /\ needPruning' = [needPruning EXCEPT ![p] = @ /\ p \notin Worker]
  /\ IF (IF p \in Worker THEN needPruning[p] ELSE Counting)
     THEN PruneRepository(p) ELSE UNCHANGED <<repos, solSendQ>>
  /\ UNCHANGED <<asked, phase, rampUpSolQ, incumbent, parallelSolCounter, merge,
                 channel, solJustSent, final>>

\* lastSolRelay: p passes its cut-off to its children.
Relayed(net, p, last) ==
  [net EXCEPT ![p] = [q \in Proc |-> IF q \in Children(0, p)
                                     THEN Append(@[q], [type |-> "newLastSol", id |-> last])
                                     ELSE @[q]]]

\* Mutant: the root takes its merge for done before it is.
MergedBelowRoot(p) == [needReposMerge EXCEPT ![p] = p = 0]

Merged(p) == [needReposMerge EXCEPT ![p] = FALSE]

\* reposArraySend: p merges what is in its part with the lists of its children
\* and sends the result up the tree.  The root makes a new cut-off of it.
\* When this is done is a matter of time only (mergeNow).
ReposArraySend(p) ==
  /\ phase = "search" /\ needReposMerge[p]
  /\ needReposMerge' = Merged(p)
  /\ LET ids  == BestOf(repos[p] \cup UNION {childReposArray[p][c] : c \in Children(0, p)},
                        par.enumCount)
         last == CutOff(ids, lastSol[p])
     IN  IF p # 0
         THEN /\ channel' = [channel EXCEPT ![p][Parent(0, p)] =
                               Append(@, [type |-> "reposArray", ids |-> ids])]
              /\ UNCHANGED <<lastSol, prune>>
         ELSE /\ lastSol' = [lastSol EXCEPT ![p] = last]
              /\ needPruning' = [needPruning EXCEPT ![p] = @ \/ last # lastSol[p]]
              /\ needHubPruning' = [needHubPruning EXCEPT
                                      ![p] = @ \/ (last # lastSol[p] /\ p \in Hub)]
              /\ channel' = IF last = lastSol[p] THEN channel ELSE Relayed(channel, p, last)
  /\ UNCHANGED <<asked, phase, rampUpSolQ, incumbent, local, childReposArray, flow, final>>

\* The repository receiver (handleMessage): p takes the next message of q.
Message(p, q, type) ==
  /\ phase = "search" /\ channel[q][p] # <<>> /\ Head(channel[q][p]).type = type
  /\ UNCHANGED <<asked, phase, rampUpSolQ, incumbent, final>>

Taken(p, q) == [channel EXCEPT ![q][p] = Tail(@)]

HashSol(p, q) ==
  /\ Message(p, q, "hashSol")
  /\ ProcessOwnedSolution(p, incumbent[p], Head(channel[q][p]).sol)
  /\ channel' = Taken(p, q)
  /\ UNCHANGED <<prune, lastSol, childReposArray, flow>>

\* incorporateReposArray, recordArrayArrival
ReposArray(p, q) ==
  /\ Message(p, q, "reposArray")
  /\ childReposArray' = [childReposArray EXCEPT ![p][q] = Head(channel[q][p]).ids]
  /\ needReposMerge' = [needReposMerge EXCEPT ![p] = TRUE]
  /\ channel' = Taken(p, q)
  /\ UNCHANGED <<local, prune, lastSol, flow>>

\* incorporateLastSol
NewLastSol(p, q) ==
  /\ Message(p, q, "newLastSol")
  /\ LET last == Updated(lastSol[p], Head(channel[q][p]).id)
     IN  /\ lastSol' = [lastSol EXCEPT ![p] = last]
         /\ channel' = Relayed(Taken(p, q), p, last)
  /\ needPruning' = [needPruning EXCEPT ![p] = TRUE]
  /\ needHubPruning' = [needHubPruning EXCEPT ![p] = @ \/ p \in Hub]
  /\ UNCHANGED <<local, needReposMerge, childReposArray, flow>>

\* solForwardAction: the solution has arrived or goes on, and is acknowledged.
ForwardSol(p, q) ==
  /\ Message(p, q, "forwardSol")
  /\ LET s   == Head(channel[q][p]).sol
         net == [Taken(p, q) EXCEPT ![p][q] = Append(@, Ack)]
     IN  IF Owner[s] = p
         THEN /\ ProcessOwnedSolution(p, incumbent[p], s)
              /\ channel' = net /\ UNCHANGED flow
         ELSE Route(p, s, net) /\ UNCHANGED <<local, needReposMerge>>
  /\ UNCHANGED <<prune, lastSol, childReposArray>>

\* solAckAction: the best one that waits for the link is sent, unless all of
\* them can be fathomed.
AckSol(p, q) ==
  /\ Message(p, q, "ackSol")
  /\ LET b    == LinkTo(p, q)
         wait == solSendQ[p][b]
         live == {s \in Solution : wait[s] > 0 /\ ~Fathoms(p, incumbent[p], Value[s])}
         best == {s \in live : \A t \in live : Value[s] <= Value[t]}
     IN  /\ solJustSent' = [solJustSent EXCEPT ![p][b] = live # {}]
         /\ \/ /\ live = {} /\ channel' = Taken(p, q)
               /\ solSendQ' = [solSendQ EXCEPT ![p][b] = NoneQueued]
            \/ \E s \in best :
                 /\ channel' = [Taken(p, q) EXCEPT ![p][q] = Append(@, Forward(s))]
                 /\ solSendQ' = [solSendQ EXCEPT ![p][b][s] = @ - 1]
  /\ UNCHANGED <<local, prune, merge>>

-----------------------------------------------------------------------------
(***************************************************************************)
(* The end: the repository is read in the order of all solutions.          *)
(***************************************************************************)
Quiet == /\ \A p, q \in Proc : channel[p][q] = <<>> /\ incumbent[p] = incumbent[q]
         /\ \A p \in Proc : ~needReposMerge[p] /\ ~needHubPruning[p]
         /\ \A p \in Worker : ~needPruning[p]

\* startRepositoryScan: finalReposSync gives all the same sorted list.
StartRepositoryScan ==
  /\ phase = "search" /\ Quiet /\ phase' = "scan"
  /\ LET all   == UNION {repos[p] : p \in Proc}
         total == Cardinality(all)
         size  == IF Counting /\ total > par.enumCount THEN par.enumCount ELSE total
     IN  treeReposArray' = SubSeq(Sorted(all), 1, size)
  /\ UNCHANGED <<asked, rampUpSolQ, incumbent, local, prune, merge, channel, flow,
                 solPtrCursor, printed>>

\* nextRepositoryMember: the owner of the next one takes the next of its own.
NextRepositoryMember ==
  /\ phase = "scan" /\ Len(printed) < Len(treeReposArray)
  /\ LET o == treeReposArray[Len(printed) + 1].owner
     IN  /\ solPtrCursor' = [solPtrCursor EXCEPT ![o] = @ + 1]
         /\ printed' = Append(printed, Sorted(repos[o])[solPtrCursor[o] + 1].sol)
  /\ UNCHANGED <<asked, phase, rampUpSolQ, incumbent, local, prune, merge, channel,
                 flow, treeReposArray>>

Step == \/ RampUpIncumbentSync \/ SyncLastSol
        \/ StartRepositoryScan \/ NextRepositoryMember
        \/ \E p \in Proc :
             \/ HashSolution(p) \/ HearIncumbent(p)
             \/ WorkerPrune(p) \/ HubPrune(p) \/ ReposArraySend(p)
             \/ \E q \in Proc : \/ HashSol(p, q) \/ ReposArray(p, q) \/ NewLastSol(p, q)
                                \/ ForwardSol(p, q) \/ AckSol(p, q)

Next == \/ \E s \in Solution : RampUpFind(s) \/ \E p \in par.finders : Find(p, s)
        \/ Step

\* All threads run and all messages arrive; what is found is up to the search.
Spec == Init /\ [][Next]_vars /\ WF_vars(Step)

-----------------------------------------------------------------------------
(***************************************************************************)
(* Properties.                                                             *)
(***************************************************************************)
Identifier == [sol : Solution, value : Nat, serial : Nat, owner : Proc]

Messages ==
  [type : {"hashSol", "forwardSol"}, sol : Solution] \cup [type : {"ackSol"}]
    \cup [type : {"reposArray"}, ids : SUBSET Identifier]
    \cup [type : {"newLastSol"}, id : Identifier \cup {NoSolution}]

\* Every variable has its type.
TypeOK ==
  /\ par \in Parameters /\ phase \in {"rampUp", "hashing", "search", "scan"}
  /\ found \subseteq Solution /\ IsFiniteSet(found) /\ finds \in 0 .. MaxFound
  /\ rampUpSolQ \in [Proc -> Seq(Solution)]
  /\ incumbent \in [Proc -> Nat]
  /\ repos \in [Proc -> SUBSET Identifier] /\ parallelSolCounter \in [Proc -> Nat]
  /\ lastSol \in [Proc -> Identifier \cup {NoSolution}]
  /\ {needPruning, needHubPruning, needReposMerge} \subseteq [Proc -> BOOLEAN]
  /\ childReposArray = [p \in Proc |-> childReposArray[p]]
  /\ \A p \in Proc : childReposArray[p] \in [Children(0, p) -> SUBSET Identifier]
  /\ channel \in [Proc -> [Proc -> Seq(Messages)]]
  /\ solJustSent \in [Proc -> [Link -> BOOLEAN]]
  /\ solSendQ \in [Proc -> [Link -> [Solution -> Nat]]]

\* Identifiers of different solutions that have been found, with different
\* stamps of their owners, which are among the given processors.
Genuine(ids, owners) ==
  /\ IsFiniteSet(ids)
  /\ \A x \in ids : /\ x.sol \in found /\ x.value = Value[x.sol]
                    /\ x.owner = Owner[x.sol] /\ x.owner \in owners
  /\ \A x, y \in ids :
       x.sol = y.sol \/ (x.owner = y.owner /\ x.serial = y.serial) => x = y

\* A solution is in the part of its owner only, once, with a stamp that its
\* owner has used, and no part has more than enumCount solutions.
PartsAreGenuine ==
  \A p \in Proc :
    /\ Genuine(repos[p], {p})
    /\ \A x \in repos[p] : x.serial <= parallelSolCounter[p]
    /\ Counting => Cardinality(repos[p]) <= par.enumCount

\* A list from a child is about solutions of processors in its subtree.
ListsAreGenuine ==
  \A p \in Proc : \A c \in Children(0, p) : Genuine(childReposArray[p][c], Below[c])

\* There are enumCount solutions that are as good as x, unless it is none.
Real(x) ==
  x # NoSolution => Cardinality({s \in found : Value[s] <= x.value}) >= par.enumCount

\* What a message from q to p may say.
GenuineMessage(q, p, m) ==
  /\ m.type \in {"hashSol", "forwardSol"} => m.sol \in found
  /\ m.type \in {"forwardSol", "ackSol"} => \E b \in Link : p = Neighbor(q, b)
  /\ m.type = "hashSol" => Owner[m.sol] = p
  /\ m.type = "reposArray" => /\ Counting /\ q # 0 /\ p = Parent(0, q)
                             /\ Genuine(m.ids, Below[q])
  /\ m.type = "newLastSol" => Real(m.id)

MessagesAreGenuine ==
  \A p, q \in Proc : \A i \in DOMAIN channel[q][p] : GenuineMessage(q, p, channel[q][p][i])

\* What waits to be sent has been found.
QueuesAreGenuine ==
  \A p \in Proc :
    /\ \A i \in DOMAIN rampUpSolQ[p] : rampUpSolQ[p][i] \in found
    /\ \A b \in Link, s \in Solution : solSendQ[p][b][s] > 0 => s \in found

CutOffsAreReal ==
  \A p \in Proc : Real(lastSol[p]) /\ (needReposMerge[p] => Counting)

\* The parts of the repository, all lists made of them and the cut-offs made
\* of those, wherever they are: an inductive invariant.
ReposInv ==
  /\ TypeOK
  /\ PartsAreGenuine
  /\ ListsAreGenuine
  /\ MessagesAreGenuine
  /\ QueuesAreGenuine
  /\ CutOffsAreReal

\* A processor never cuts off at a solution that is not among the enumCount
\* best: at any time enumCount solutions at least as good have been found,
\* however old the lists are that the cut-off was made of.
CutOffIsReal ==
  \A p \in Proc :
    lastSol[p] # NoSolution =>
      Cardinality({s \in found : Value[s] <= lastSol[p].value}) >= par.enumCount

\* Flow control: a link is marked busy exactly if one solution is on its way
\* over it or its acknowledgement is on its way back, so nothing that is
\* queued stays there for ever.
Count(p, q, type) ==
  Cardinality({i \in DOMAIN channel[p][q] : channel[p][q][i].type = type})

FlowIsControlled ==
  \A p \in Proc, b \in Link :
    LET q == Neighbor(p, b)
    IN  IF q \in Proc
        THEN /\ Count(p, q, "forwardSol") + Count(q, p, "ackSol")
                  = IF solJustSent[p][b] THEN 1 ELSE 0
             /\ solSendQ[p][b] # NoneQueued => solJustSent[p][b]
        ELSE ~solJustSent[p][b]

Complete == phase = "scan" /\ Len(printed) = Len(treeReposArray)

WithinTolerance ==
  {s \in found : par.enumAbsTol >= 0 =>
                   \A t \in found : Value[s] <= Value[t] + par.enumAbsTol}

\* What is output in the end: the solutions within the tolerance or, of these,
\* the enumCount best, each of them once and in their order.
PrintsTheBest ==
  Complete =>
    /\ \A i, j \in DOMAIN printed :
         i < j => printed[i] # printed[j] /\ Value[printed[i]] <= Value[printed[j]]
    /\ Range(printed) \subseteq WithinTolerance
    /\ \A s \in WithinTolerance \ Range(printed) :
         /\ Counting /\ Len(printed) = par.enumCount
         /\ \A i \in DOMAIN printed : Value[printed[i]] <= Value[s]

\* Messages die out, and everything is output.
EventuallyComplete == <>Complete

=============================================================================
