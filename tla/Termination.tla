----------------------------- MODULE Termination -----------------------------
(***************************************************************************)
(* How PEBBL finds out that its asynchronous search has ended: the counts  *)
(* of messages that every processor keeps (parLoadObject), the reports the *)
(* workers send to their hubs, the polls by which a hub makes its workers  *)
(* report, and the load balancing and termination thread of the hubs       *)
(* (loadBal.cpp), which adds the counts up over the tree of the clusters   *)
(* twice and compares what was received with what is sent later.           *)
(*                                                                         *)
(* The search itself is kept to what the detection can see: problems to    *)
(* work on, which worker has how many, and one solution that fathoms all   *)
(* that is left when it is found (modules WorkTransfer and IncumbentCast   *)
(* have the details).  Load balancing rounds, checkpoints, aborts and the  *)
(* merging of repositories are left out.                                   *)
(***************************************************************************)
EXTENDS Integers, Sequences, FiniteSets, FiniteSetsExt

CONSTANTS
  NumProc,       \* number of processors (searchSize)
  NumHub,        \* number of clusters; the hub of cluster i is processor i
  BroadcastRadix, ClusterRadix,  \* of the trees of broadcasts, of clusters
  HubOf,         \* the hub of each worker; a worker that is a hub is its own
  InitialLoad,   \* number of problems each worker has when ramp-up ends
  Scenario       \* what is supposed of a run: how many problems are given up at
                 \* most, who may find the solution if there is one, and whether
                 \* reports and answers to polls are handled in the order sent

Proc == 0 .. NumProc - 1
Hub  == 0 .. NumHub - 1
Worker == DOMAIN HubOf
RemoteWorker == Worker \ Hub
WorkersOf == [h \in Hub |-> {w \in Worker : HubOf[w] = h}]
Remote    == [h \in Hub |-> WorkersOf[h] \ {h}]

ASSUME TerminationAssumption ==
  /\ NumHub \in 1 .. NumProc
  /\ BroadcastRadix \in Nat \ {0} /\ ClusterRadix \in Nat \ {0}
  /\ Worker \subseteq Proc /\ Proc = Hub \cup Worker
  /\ HubOf \in [Worker -> Hub] /\ \A w \in Worker \cap Hub : HubOf[w] = w
  /\ InitialLoad \in [Worker -> Nat]
  /\ Scenario \subseteq [releases : Nat, finders : SUBSET Worker, inOrder : BOOLEAN]

Broadcast == INSTANCE TreeTopology WITH N <- NumProc, Radix <- BroadcastRadix
Clusters  == INSTANCE TreeTopology WITH N <- NumHub, Radix <- ClusterRadix
SubClusters == [h \in Hub |-> Clusters!Children(0, h)]

VARIABLES
  spCount,       \* problems in each worker's pool
  pool,          \* tokens in each hub's pool, by the worker that has the data
  transit,       \* tokens each worker's hub has in its transit pool
  buffered,      \* tokens in workerOutBuffer of each remote worker
  acks,          \* deliveries each remote worker has not acknowledged yet
  scenario,      \* with the problems that may still be given up
  knows,         \* does a processor know the solution?
  needPruning,   \* must a processor still prune because of it?
  sent, received,           \* message counts of each processor, by kind
  general,       \* broadcast messages in flight
  requests,      \* dispatches in flight: from owner, to worker
  deliveries,    \* problems in flight to each worker
  hubQueue,      \* messages (hubTag) from each processor to each hub
  workerLoadReport,         \* what a hub last heard from each remote worker
  lastWorkerReport,         \* what each remote worker last told its hub
  asked, reply,  \* poll signals to and replies from each remote worker
  epoch,         \* polls each worker has answered, modulo 2
  myState,       \* of each hub's load balancing thread
  surveyKnows,   \* did the hub know the solution when the survey began?
  sentUp,        \* has it sent its total up the tree?
  up, down,      \* totals in flight to each hub's parent, from it
  termCheckTarget, termCheckValue

search    == <<spCount, pool, transit, buffered, acks, scenario>>
solution  == <<knows, needPruning>>
counts    == <<sent, received>>
messages  == <<general, requests, deliveries, hubQueue>>
polls     == <<asked, reply, epoch>>
reports   == <<workerLoadReport, lastWorkerReport, polls>>
balancer  == <<myState, surveyKnows, sentUp, up, down, termCheckTarget, termCheckValue>>
vars      == <<search, solution, counts, messages, reports, balancer>>

-----------------------------------------------------------------------------
(***************************************************************************)
(* Loads: a number of problems, the incumbents the processors have, and    *)
(* the message counts.                                                     *)
(***************************************************************************)
Kind == {"general", "localScatter", "hubDispatch", "nonLocalScatter"}
Zero == [k \in Kind |-> 0]

Load == [count : Nat, incumbents : SUBSET BOOLEAN,
         sent : [Kind -> Nat], received : [Kind -> Nat]]

Plus(a, b) ==
  [count |-> a.count + b.count, incumbents |-> a.incumbents \cup b.incumbents,
   sent |-> [k \in Kind |-> a.sent[k] + b.sent[k]],
   received |-> [k \in Kind |-> a.received[k] + b.received[k]]]

SumOver(S, base, load(_)) ==
  FoldSet(LAMBDA x, l : Plus(load(x), l), base, S)

InBalance(l, k) == l.sent[k] = l.received[k]

ReadyToPoll(l) ==
  /\ l.count = 0
  /\ \A k \in {"hubDispatch", "localScatter", "nonLocalScatter"} : InBalance(l, k)

SeemsReallyDone(l) == ReadyToPoll(l) /\ InBalance(l, "general")

\* updatedPLoad of worker p, or the load of a hub that does not work.
OwnLoad(p) ==
  [count |-> IF p \in Worker THEN spCount[p] ELSE 0, incumbents |-> {knows[p]},
   sent |-> sent[p], received |-> received[p]]

\* Mutant of TokenCount: the tokens in the hub's pool are forgotten.
MutTokenCountNone(h) == 0

TokenCount(h) == MapThenSumSet(LAMBDA w : pool[h][w], Worker)

(***************************************************************************)
(* hubCalculateLoads: the hub's pool, its own load, and for every worker   *)
(* its last report and the tokens in transit to it.                        *)
(***************************************************************************)
ClusterLoad(h) ==
  LET own == [OwnLoad(h) EXCEPT !.count =
                @ + TokenCount(h) + MapThenSumSet(LAMBDA w : transit[w], WorkersOf[h])]
  IN  SumOver(Remote[h], own, LAMBDA w : workerLoadReport[w])

Sent(p, k, n)     == [sent EXCEPT ![p][k] = @ + n]
Received(p, k, n) == [received EXCEPT ![p][k] = @ + n]

(***************************************************************************)
(* shouldCommunicateWithHub for a worker that has run out of problems.     *)
(* Broadcast messages are no reason to report: the polls are for these.    *)
(***************************************************************************)
ReportablyDifferent(a, b) ==
  \/ a.count # b.count \/ a.incumbents # b.incumbents
  \/ \E k \in Kind \ {"general"} : a.sent[k] # b.sent[k] \/ a.received[k] # b.received[k]

\* Mutant of ShouldCommunicate: a different load is no reason.
MutReportOnlyAcks(w, load) == acks[w] > 0

ShouldCommunicate(w, load) ==
  acks[w] > 0 \/ ReportablyDifferent(load, lastWorkerReport[w])

Init ==
  /\ spCount = InitialLoad
  /\ pool    = [h \in Hub |-> [w \in Worker |-> 0]]
  /\ transit = [w \in Worker |-> 0]
  /\ buffered = [w \in RemoteWorker |-> 0]
  /\ acks     = [w \in RemoteWorker |-> 0]
  /\ scenario \in Scenario
  /\ knows = [p \in Proc |-> FALSE]
  /\ needPruning = [p \in Proc |-> FALSE]
  /\ sent     = [p \in Proc |-> Zero]
  /\ received = [p \in Proc |-> Zero]
  /\ general = {}
  /\ requests   = [w \in Worker |-> [v \in Worker |-> 0]]
  /\ deliveries = [w \in Worker |-> 0]
  /\ hubQueue = [h \in Hub |-> [p \in Worker |-> <<>>]]
  /\ workerLoadReport = [w \in RemoteWorker |-> OwnLoad(w)]
  /\ lastWorkerReport = [w \in RemoteWorker |-> [OwnLoad(w) EXCEPT !.count = 0]]
  /\ asked = [w \in RemoteWorker |-> FALSE]
  /\ reply = [w \in RemoteWorker |-> <<>>]
  /\ epoch = [w \in RemoteWorker |-> 0]
  /\ myState = [h \in Hub |-> "start"]
  /\ surveyKnows = [h \in Hub |-> FALSE]
  /\ sentUp  = [h \in Hub |-> FALSE]
  /\ up   = [h \in Hub |-> <<>>]
  /\ down = [h \in Hub |-> <<>>]
  /\ termCheckTarget = [h \in Hub |-> 0]
  /\ termCheckValue  = [h \in Hub |-> 0]

-----------------------------------------------------------------------------
(***************************************************************************)
(* The load balancing thread of hub h keeps the processor from the end of  *)
(* a poll until its next wait: a leaf of the tree adds up its cluster's    *)
(* load with the answers fresh.  A hub that is done does nothing.          *)
(***************************************************************************)
Polling(h)  == myState[h] \in {"gatherCluster", "termCheckCluster"}
PollDone(h) == \A w \in Remote[h] : ~asked[w] /\ reply[w] = <<>>
Surveying(h) == myState[h] \in {"surveying", "resurvey"}

MidRun(h) ==
  \/ Polling(h) /\ PollDone(h)
  \/ Surveying(h) /\ SubClusters[h] = {} /\ ~sentUp[h]

Free(p) == p \in Hub => myState[p] # "dead" /\ ~MidRun(p)

(***************************************************************************)
(* Worker threads                                                          *)
(***************************************************************************)
HubMessage(p, tokens, acked, adjust, load) ==
  [tokens |-> tokens, acks |-> acked, adjust |-> adjust, load |-> load,
   epoch |-> IF p \in RemoteWorker THEN epoch[p] ELSE 0]

Send(p, h, m) == hubQueue' = [hubQueue EXCEPT ![h][p] = Append(@, m)]

\* workerCommunicateWithHub, when updatedPLoad is load.
SendReport(w, load) ==
  /\ Send(w, HubOf[w], HubMessage(w, buffered[w], acks[w], 0, <<load>>))
  /\ buffered' = [buffered EXCEPT ![w] = 0]
  /\ acks'     = [acks EXCEPT ![w] = 0]
  /\ lastWorkerReport' = [lastWorkerReport EXCEPT ![w] = load]

NoReport == UNCHANGED <<hubQueue, buffered, acks, lastWorkerReport>>

(***************************************************************************)
(* A slice of the worker thread deals with a problem.  When that was the   *)
(* last one, a remote worker ends the slice with a report if it should.    *)
(***************************************************************************)
CanWork(w) == spCount[w] > 0 /\ ~needPruning[w] /\ Free(w)

Work(w) ==
  /\ CanWork(w)
  /\ spCount' = [spCount EXCEPT ![w] = @ - 1]
  /\ LET load == [OwnLoad(w) EXCEPT !.count = @ - 1]
     IN  IF w \in RemoteWorker /\ load.count = 0 /\ ShouldCommunicate(w, load)
         THEN SendReport(w, load)
         ELSE NoReport
  /\ UNCHANGED <<pool, transit, scenario, solution, counts, general, requests, deliveries,
                 workerLoadReport, polls, balancer>>

(***************************************************************************)
(* workerRelease of a child: a problem more, whose token goes to the pool  *)
(* of one's own hub, to the buffer for it, or to another cluster's hub.    *)
(***************************************************************************)
Release(w, h) ==
  /\ CanWork(w) /\ scenario.releases > 0
  /\ scenario' = [scenario EXCEPT !.releases = @ - 1]
  /\ \/ /\ h = w
        /\ pool' = [pool EXCEPT ![h][w] = @ + 1]
        /\ UNCHANGED <<buffered, hubQueue, sent>>
     \/ /\ h # w /\ h = HubOf[w]
        /\ buffered' = [buffered EXCEPT ![w] = @ + 1]
        /\ sent' = Sent(w, "localScatter", 1)
        /\ UNCHANGED <<pool, hubQueue>>
     \/ /\ h # HubOf[w]
        /\ Send(w, h, HubMessage(w, 1, 0, 0, <<>>))
        /\ sent' = Sent(w, "nonLocalScatter", 1)
        /\ UNCHANGED <<pool, buffered>>
  /\ UNCHANGED <<spCount, transit, acks, solution, received, general, requests, deliveries,
                 reports, balancer>>

Report(w) ==
  /\ ShouldCommunicate(w, OwnLoad(w))
  /\ SendReport(w, OwnLoad(w))
  /\ UNCHANGED <<spCount, pool, transit, scenario, solution, counts,
                 general, requests, deliveries, workerLoadReport, polls, balancer>>

(***************************************************************************)
(* The solution, and the pruning of everything else                        *)
(***************************************************************************)
\* relay(): general messages from p to its children in the tree of s.
Relay(p, s) == {[dest |-> c, originator |-> s] : c \in Broadcast!Children(s, p)}

ClearPools(p) ==
  /\ spCount' = [w \in Worker |-> IF w = p THEN 0 ELSE spCount[w]]
  /\ pool' = [h \in Hub |-> IF h = p THEN [w \in Worker |-> 0] ELSE pool[h]]
  /\ transit' = [w \in Worker |-> IF HubOf[w] = p THEN 0 ELSE transit[w]]

FindSolution(w) ==
  /\ CanWork(w) /\ w \in scenario.finders /\ \A p \in Proc : ~knows[p]
  /\ knows' = [knows EXCEPT ![w] = TRUE]
  /\ general' = Relay(w, w)
  /\ sent' = Sent(w, "general", Broadcast!NumChildren(w, w))
  /\ ClearPools(w)
  /\ IF w \in RemoteWorker
     THEN SendReport(w, [OwnLoad(w) EXCEPT !.count = 0, !.incumbents = {TRUE},
                                           !.sent = sent'[w]])
     ELSE NoReport
  /\ UNCHANGED <<scenario, needPruning, received, requests, deliveries,
                 workerLoadReport, polls, balancer>>

\* The broadcast thread; there is only one solution to be broadcast.
ReceiveGeneral(p) ==
  /\ Free(p)
  /\ \E m \in general :
       /\ m.dest = p
       /\ general' = (general \ {m}) \cup Relay(p, m.originator)
       /\ sent' = Sent(p, "general", Broadcast!NumChildren(m.originator, p))
  /\ received' = Received(p, "general", 1)
  /\ knows' = [knows EXCEPT ![p] = TRUE]
  /\ needPruning' = [needPruning EXCEPT ![p] = TRUE]
  /\ UNCHANGED <<search, requests, deliveries, hubQueue, reports, balancer>>

\* pruneIfNeeded and hubPrune.
Prune(p) ==
  /\ needPruning[p] /\ Free(p)
  /\ needPruning' = [needPruning EXCEPT ![p] = FALSE]
  /\ ClearPools(p)
  /\ IF p \in RemoteWorker
     THEN SendReport(p, [OwnLoad(p) EXCEPT !.count = 0])
     ELSE NoReport
  /\ UNCHANGED <<scenario, knows, counts, general, requests, deliveries,
                 workerLoadReport, polls, balancer>>

-----------------------------------------------------------------------------
(***************************************************************************)
(* Hubs, servers and receivers                                             *)
(***************************************************************************)

\* Mutant of TakeTokens: an acknowledgement of a token already pruned counts.
MutTakeAlways(h, p, m) ==
  /\ pool' = [pool EXCEPT ![h][p] = @ + (IF knows[h] THEN 0 ELSE m.tokens)]
  /\ transit' = [transit EXCEPT ![p] = @ - m.acks]

TakeTokens(h, p, m) ==
  IF knows[h]
  THEN UNCHANGED <<pool, transit>>
  ELSE /\ pool' = [pool EXCEPT ![h][p] = @ + m.tokens]
       /\ transit' = [transit EXCEPT ![p] = @ - m.acks]

\* handleHubMessage: tokens and acknowledgements mean nothing once all is fathomed.
HandleHubMessage(h, p) ==
  /\ hubQueue[h][p] # <<>> /\ Free(h)
  /\ scenario.inOrder /\ p \in Remote[h] =>
       reply[p] = <<>> \/ Head(hubQueue[h][p]).epoch # epoch[p]
  /\ LET m == Head(hubQueue[h][p])
         scatter == IF HubOf[p] = h THEN "localScatter" ELSE "nonLocalScatter"
     IN  /\ received' = [received EXCEPT ![h][scatter] = @ + m.tokens,
                                         ![h]["hubDispatch"] = @ + m.adjust]
         /\ TakeTokens(h, p, m)
         /\ IF m.load = <<>>
            THEN UNCHANGED workerLoadReport
            ELSE workerLoadReport' = [workerLoadReport EXCEPT ![p] = m.load[1]]
  /\ hubQueue' = [hubQueue EXCEPT ![h][p] = Tail(@)]
  /\ UNCHANGED <<spCount, buffered, acks, scenario, solution, sent, general, requests,
                 deliveries, lastWorkerReport, polls, balancer>>

(***************************************************************************)
(* addToWorkerPool at w: the problem is counted as received.  The token in *)
(* transit is gone at once if w is the hub, and acknowledged if it is not. *)
(***************************************************************************)
\* Mutant of AddToWorkerPool: a problem that is fathomed on arrival is not counted.
MutAddUncounted(w) ==
  IF knows[w]
  THEN /\ UNCHANGED <<received, spCount, transit>>
       /\ acks' = [v \in RemoteWorker |-> acks[v] + (IF v = w THEN 1 ELSE 0)]
  ELSE /\ received' = Received(w, "hubDispatch", 1)
       /\ spCount' = [spCount EXCEPT ![w] = @ + 1]
       /\ IF w \in Hub
          THEN transit' = [transit EXCEPT ![w] = @ - 1] /\ UNCHANGED acks
          ELSE acks' = [acks EXCEPT ![w] = @ + 1] /\ UNCHANGED transit

AddToWorkerPool(w) ==
  /\ received' = Received(w, "hubDispatch", 1)
  /\ spCount' = [spCount EXCEPT ![w] = @ + (IF knows[w] THEN 0 ELSE 1)]
  /\ IF w \in Hub
     THEN /\ transit' = [transit EXCEPT ![w] = @ - (IF knows[w] THEN 0 ELSE 1)]
          /\ UNCHANGED acks
     ELSE /\ acks' = [acks EXCEPT ![w] = @ + 1]
          /\ UNCHANGED transit

(***************************************************************************)
(* hubSendWorkTo(w) with a token whose data o has: o is asked to deliver,  *)
(* or the hub delivers, or the problem just moves to the hub's own pool.   *)
(***************************************************************************)
Dispatch(h, w, o) ==
  /\ pool[h][o] > 0 /\ Free(h) /\ ~needPruning[h]
  /\ pool' = [pool EXCEPT ![h][o] = @ - 1]
  /\ sent' = Sent(h, "hubDispatch", 1)
  /\ IF o = h /\ w = h
     THEN /\ spCount' = [spCount EXCEPT ![h] = @ + 1]
          /\ received' = Received(h, "hubDispatch", 1)
          /\ UNCHANGED <<transit, requests, deliveries>>
     ELSE /\ transit' = [transit EXCEPT ![w] = @ + 1]
          /\ IF o = h
             THEN deliveries' = [deliveries EXCEPT ![w] = @ + 1] /\ UNCHANGED requests
             ELSE requests' = [requests EXCEPT ![o][w] = @ + 1] /\ UNCHANGED deliveries
          /\ UNCHANGED <<spCount, received>>
  /\ UNCHANGED <<buffered, acks, scenario, solution, general, hubQueue, reports, balancer>>

(***************************************************************************)
(* The server of worker o delivers a problem to w, or aborts if it can     *)
(* fathom it: the dispatch is counted as received by o or, if o is of      *)
(* another cluster, by the hub that dispatched, when a message tells it.   *)
(***************************************************************************)
AbortDeliverSP(o, h) ==
  IF HubOf[o] = h
  THEN received' = Received(o, "hubDispatch", 1) /\ UNCHANGED hubQueue
  ELSE Send(o, h, HubMessage(o, 0, 0, 1, <<>>)) /\ UNCHANGED received

SpServe(o, w) ==
  /\ requests[o][w] > 0 /\ Free(o)
  /\ requests' = [requests EXCEPT ![o][w] = @ - 1]
  /\ \/ /\ knows[o]
        /\ AbortDeliverSP(o, HubOf[w])
        /\ UNCHANGED <<spCount, transit, acks, deliveries>>
     \/ /\ ~knows[o] /\ w = o
        /\ AddToWorkerPool(w)
        /\ UNCHANGED <<hubQueue, deliveries>>
     \/ /\ ~knows[o] /\ w # o
        /\ deliveries' = [deliveries EXCEPT ![w] = @ + 1]
        /\ UNCHANGED <<spCount, transit, acks, received, hubQueue>>
  /\ UNCHANGED <<pool, buffered, scenario, solution, sent, general, reports, balancer>>

SpReceive(w) ==
  /\ deliveries[w] > 0 /\ Free(w)
  /\ deliveries' = [deliveries EXCEPT ![w] = @ - 1]
  /\ AddToWorkerPool(w)
  /\ UNCHANGED <<pool, buffered, scenario, solution, sent, general, requests, hubQueue,
                 reports, balancer>>

-----------------------------------------------------------------------------
(***************************************************************************)
(* Polls (operateQuiescencePoll)                                           *)
(***************************************************************************)
StartPoll(h) == asked' = [w \in RemoteWorker |-> asked[w] \/ HubOf[w] = h]

\* The worker auxiliary thread, quiescencePollSignal.
PollReply(w) ==
  /\ asked[w]
  /\ asked' = [asked EXCEPT ![w] = FALSE]
  /\ reply' = [reply EXCEPT ![w] = <<OwnLoad(w)>>]
  /\ lastWorkerReport' = [lastWorkerReport EXCEPT ![w] = OwnLoad(w)]
  /\ epoch' = [epoch EXCEPT ![w] = 1 - @]
  /\ UNCHANGED <<search, solution, counts, messages, workerLoadReport, balancer>>

(***************************************************************************)
(* Reports and answers have tags of their own and threads of their own at  *)
(* the hub, so nothing keeps them in order.                                *)
(***************************************************************************)
Overtakes(w) ==
  \E i \in DOMAIN hubQueue[HubOf[w]][w] : hubQueue[HubOf[w]][w][i].epoch # epoch[w]

HandleReply(w) ==
  /\ reply[w] # <<>> /\ Free(HubOf[w])
  /\ scenario.inOrder => ~Overtakes(w)
  /\ workerLoadReport' = [workerLoadReport EXCEPT ![w] = reply[w][1]]
  /\ reply' = [reply EXCEPT ![w] = <<>>]
  /\ UNCHANGED <<search, solution, counts, messages, lastWorkerReport, asked, epoch, balancer>>

-----------------------------------------------------------------------------
(***************************************************************************)
(* The state machine of the load balancing thread (runWithinLogging).  Its *)
(* waits for the tree are the coTree objects surveyObject, termCheckObject *)
(***************************************************************************)
Jump(h, state) ==
  /\ myState' = [myState EXCEPT ![h] = state]
  /\ IF state \in {"gatherCluster", "termCheckCluster"}
     THEN StartPoll(h)
     ELSE UNCHANGED asked

(***************************************************************************)
(* canStart: with one hub, when its load looks quiet; with more, a leaf    *)
(* starts at any time and all other hubs do at once.                       *)
(***************************************************************************)
StartRound(h) ==
  /\ myState[h] = "start"
  /\ \/ NumHub = 1 /\ ReadyToPoll(ClusterLoad(h)) /\ Jump(h, "gatherCluster")
     \/ NumHub > 1 /\ Jump(h, "surveying")
  /\ surveyKnows' = [surveyKnows EXCEPT ![h] = knows[h]]
  /\ UNCHANGED <<search, solution, counts, messages, workerLoadReport, lastWorkerReport,
                 reply, epoch, sentUp, up, down, termCheckTarget, termCheckValue>>

SentCount(h) == LET total == ClusterLoad(h).sent
                IN  total["general"] + total["nonLocalScatter"]

(***************************************************************************)
(* A poll is complete.  The count for the termination check is taken from  *)
(* the answers of the second poll.                                         *)
(***************************************************************************)
EndPoll(h) ==
  /\ Polling(h) /\ PollDone(h)
  /\ IF myState[h] = "gatherCluster"
     THEN /\ Jump(h, "resurvey")
          /\ surveyKnows' = [surveyKnows EXCEPT ![h] = knows[h]]
          /\ UNCHANGED termCheckValue
     ELSE /\ Jump(h, "termCheckTree")
          /\ termCheckValue' = [termCheckValue EXCEPT ![h] = SentCount(h)]
          /\ UNCHANGED surveyKnows
  /\ UNCHANGED <<search, solution, counts, messages, workerLoadReport, lastWorkerReport,
                 reply, epoch, sentUp, up, down, termCheckTarget>>

\* The survey's result is known to h (runWithinLogging, surveying and resurvey).
Conclude(h, total) ==
  IF myState[h] = "surveying"
  THEN /\ IF Cardinality(total.incumbents) > 1 \/ ~ReadyToPoll(total)
          THEN Jump(h, "start")
          ELSE Jump(h, "gatherCluster")
       /\ UNCHANGED termCheckTarget
  ELSE IF SeemsReallyDone(total)
       THEN /\ Jump(h, "termCheckCluster")
            /\ termCheckTarget' = [termCheckTarget EXCEPT ![h] =
                 total.received["general"] + total.received["nonLocalScatter"]]
       ELSE Jump(h, "start") /\ UNCHANGED termCheckTarget

\* Mutants of Confirm: no comparison; a hub compares its own count, not the total.
MutConfirmAlways(h, total) == Jump(h, "dead") /\ UNCHANGED termCheckTarget
MutConfirmOwn(h, total) ==
  /\ Jump(h, IF termCheckValue[h] = termCheckTarget[h] THEN "dead" ELSE "start")
  /\ UNCHANGED termCheckTarget

Confirm(h, total) ==
  /\ Jump(h, IF total = termCheckTarget[h] THEN "dead" ELSE "start")
  /\ UNCHANGED termCheckTarget

Verdict(h, total) == IF Surveying(h) THEN Conclude(h, total) ELSE Confirm(h, total)

(***************************************************************************)
(* coTree::run, up: when all children have sent their totals, h adds its   *)
(* own and sends the sum to its parent, or at the root has the result,     *)
(* which goes down.                                                        *)
(***************************************************************************)
Total(h) ==
  IF Surveying(h)
  THEN LET own == Plus([count |-> 0, incumbents |-> {surveyKnows[h]},
                        sent |-> Zero, received |-> Zero], ClusterLoad(h))
       IN  SumOver(SubClusters[h], own, LAMBDA c : up[c][1])
  ELSE termCheckValue[h] + MapThenSumSet(LAMBDA c : up[c][1], SubClusters[h])

RelayUp(h) ==
  /\ Surveying(h) \/ myState[h] = "termCheckTree"
  /\ ~sentUp[h] /\ \A c \in SubClusters[h] : up[c] # <<>>
  /\ up' = [c \in Hub |-> IF c \in SubClusters[h] THEN <<>>
                          ELSE IF c = h /\ h # 0 THEN <<Total(h)>> ELSE up[c]]
  /\ IF h = 0
     THEN /\ down' = [c \in Hub |-> IF c \in SubClusters[h] THEN <<Total(h)>> ELSE down[c]]
          /\ Verdict(h, Total(h))
          /\ UNCHANGED sentUp
     ELSE /\ sentUp' = [sentUp EXCEPT ![h] = TRUE]
          /\ UNCHANGED <<down, myState, asked, termCheckTarget>>
  /\ UNCHANGED <<search, solution, counts, messages, workerLoadReport, lastWorkerReport,
                 reply, epoch, surveyKnows, termCheckValue>>

\* coTree::run, down: the result of the root, relayed to the children.
RelayDown(h) ==
  /\ sentUp[h] /\ down[h] # <<>>
  /\ sentUp' = [sentUp EXCEPT ![h] = FALSE]
  /\ down' = [c \in Hub |-> IF c = h THEN <<>>
                            ELSE IF c \in SubClusters[h] THEN down[h] ELSE down[c]]
  /\ Verdict(h, down[h][1])
  /\ UNCHANGED <<search, solution, counts, messages, workerLoadReport, lastWorkerReport,
                 reply, epoch, surveyKnows, up, termCheckValue>>

-----------------------------------------------------------------------------
WorkerActs(w) ==
  \/ Work(w)
  \/ FindSolution(w)
  \/ \E h \in Hub : Release(w, h)
  \/ w \in RemoteWorker /\ Report(w)
  \/ \E v \in Worker : SpServe(w, v)
  \/ SpReceive(w)

HubActs(h) ==
  \/ \E p \in Worker : HandleHubMessage(h, p)
  \/ \E w \in WorkersOf[h], o \in Worker : Dispatch(h, w, o)

Act(p) ==
  \/ p \in Worker /\ WorkerActs(p)
  \/ p \in Hub /\ HubActs(p)
  \/ ReceiveGeneral(p)
  \/ Prune(p)

Balance(h) == StartRound(h) \/ EndPoll(h) \/ RelayUp(h) \/ RelayDown(h)

Next ==
  \/ \E p \in Proc : Act(p)
  \/ \E w \in RemoteWorker : PollReply(w) \/ HandleReply(w)
  \/ \E h \in Hub : Balance(h)

(***************************************************************************)
(* The scheduler runs every thread that is ready, so no processor stops    *)
(* acting because its load balancing thread keeps running.                 *)
(***************************************************************************)
Fairness ==
  /\ \A p \in Proc : SF_vars(Act(p))
  /\ \A w \in RemoteWorker : WF_vars(PollReply(w)) /\ WF_vars(HandleReply(w))
  /\ \A h \in Hub : WF_vars(Balance(h))

Spec == Init /\ [][Next]_vars /\ Fairness

-----------------------------------------------------------------------------
QueuedMessage == [tokens : Nat, acks : Nat, adjust : {0, 1}, load : Seq(Load), epoch : {0, 1}]

(***************************************************************************)
(* Types: in particular no hub ever counts fewer than no tokens in transit *)
(* to a worker, whatever is acknowledged after the hub has pruned.         *)
(***************************************************************************)
TypeOK ==
  /\ spCount \in [Worker -> Nat] /\ pool \in [Hub -> [Worker -> Nat]]
  /\ transit \in [Worker -> Nat]
  /\ buffered \in [RemoteWorker -> Nat] /\ acks \in [RemoteWorker -> Nat]
  /\ scenario \in [releases : Nat, finders : SUBSET Worker, inOrder : BOOLEAN]
  /\ knows \in [Proc -> BOOLEAN] /\ needPruning \in [Proc -> BOOLEAN]
  /\ sent \in [Proc -> [Kind -> Nat]] /\ received \in [Proc -> [Kind -> Nat]]
  /\ general \subseteq [dest : Proc, originator : Proc]
  /\ requests \in [Worker -> [Worker -> Nat]] /\ deliveries \in [Worker -> Nat]
  /\ hubQueue \in [Hub -> [Worker -> Seq(QueuedMessage)]]
  /\ workerLoadReport \in [RemoteWorker -> Load]
  /\ lastWorkerReport \in [RemoteWorker -> Load]
  /\ asked \in [RemoteWorker -> BOOLEAN] /\ reply \in [RemoteWorker -> Seq(Load)]
  /\ epoch \in [RemoteWorker -> {0, 1}]
  /\ myState \in [Hub -> {"start", "surveying", "gatherCluster", "resurvey",
                          "termCheckCluster", "termCheckTree", "dead"}]
  /\ surveyKnows \in [Hub -> BOOLEAN] /\ sentUp \in [Hub -> BOOLEAN]
  /\ \A h \in Hub : LET totals == Seq(IF Surveying(h) THEN Load ELSE Nat)
                     IN  up[h] \in totals /\ down[h] \in totals
  /\ termCheckTarget \in [Hub -> Nat] /\ termCheckValue \in [Hub -> Nat]

(***************************************************************************)
(* The search is over: there are no problems, no token that still stands   *)
(* for one, no message that brings any, and no solution still to be told.  *)
(***************************************************************************)
Over ==
  /\ \A w \in Worker : spCount[w] = 0 /\ deliveries[w] = 0
  /\ \A w, o \in Worker : requests[o][w] = 0
  /\ \A w \in RemoteWorker : buffered[w] = 0
  /\ \A h \in Hub, w \in Worker :
       pool[h][w] = 0 /\ \A i \in DOMAIN hubQueue[h][w] : hubQueue[h][w][i].tokens = 0
  /\ general = {} /\ \A p, q \in Proc : knows[p] = knows[q]

Dead(h) == myState[h] = "dead"

(***************************************************************************)
(* Termination is never declared while any problem, token or broadcast is  *)
(* left anywhere, although no two processors are looked at simultaneously. *)
(***************************************************************************)
TerminationIsReal == (\E h \in Hub : Dead(h)) => Over

(***************************************************************************)
(* The hubs decide alike: none goes back to the search when another one    *)
(* has sent its workers home.                                              *)
(***************************************************************************)
HubsAgree ==
  \A g, h \in Hub : Dead(g) =>
    \/ Dead(h)
    \/ myState[h] = "termCheckTree" /\ termCheckTarget[h] = termCheckTarget[g]

(***************************************************************************)
(* A hub is not left with a wrong idea of a worker: if nothing is on its   *)
(* way between them and the worker is idle with nothing to report, the     *)
(* hub's view of it is what it would report.                               *)
(***************************************************************************)
ViewIsCurrent ==
  \A w \in RemoteWorker :
    \/ asked[w] \/ reply[w] # <<>> \/ hubQueue[HubOf[w]][w] # <<>>
    \/ spCount[w] > 0 \/ ShouldCommunicate(w, OwnLoad(w))
    \/ ~ReportablyDifferent(workerLoadReport[w], OwnLoad(w))

(***************************************************************************)
(* Termination detection, as the load balancing threads do it.             *)
(***************************************************************************)
Detection == INSTANCE TerminationDetection WITH
               over <- Over, detected <- \E h \in Hub : Dead(h)

(***************************************************************************)
(* Every search comes to its end, and every hub notices.                   *)
(***************************************************************************)
EventuallyTerminated == <>(\A h \in Hub : Dead(h))

=============================================================================
