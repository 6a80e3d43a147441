----------------------------- MODULE LoadBalance -----------------------------
(***************************************************************************)
(* Load balancing between PEBBL's hubs (pbb/loadBal.cpp).  Each hub has a  *)
(* thread that goes through rounds: a survey of the loads over the tree of *)
(* hubs; a second tree operation which counts the hubs that could give     *)
(* tokens away, and those that could take some, and numbers them; and a    *)
(* meeting of the donor and the receiver that got the same number at the   *)
(* hub of that number, the rendezvous point, which tells the donor of the  *)
(* receiver.  No hub ever knows more than its own numbers.                 *)
(*                                                                         *)
(* coTree sends from the buffers of its object, neither copying nor        *)
(* waiting, so a message here has what is in the buffer when it arrives.   *)
(* What else hubs do is reduced to the number of tokens in their pools:    *)
(* see WorkTransfer for the tokens, Termination for polls and termination. *)
(***************************************************************************)
EXTENDS Integers, Sequences, FiniteSets, SequencesExt

CONSTANTS
  NumHub, ClusterRadix,    \* the tree of hubs
  InitialPool,             \* number of tokens each hub has
  MaxReleases,             \* bounds on the tokens that come in later
  MaxDispatches,           \* and on those that leave
  LoadBalMinSourceCount, MaxLoadBalSize,
  LbRandom                 \* what lbRandom returns, two numbers for each round in
                           \* which work is moved: bounds the number of these

Hub == 0 .. NumHub - 1
Tree == INSTANCE TreeTopology WITH N <- NumHub, Radix <- ClusterRadix

BalanceAssumption ==
  /\ NumHub \in Nat \ {0, 1} /\ ClusterRadix \in Nat \ {0}
  /\ InitialPool \in [Hub -> Nat] /\ {MaxReleases, MaxDispatches} \subseteq Nat
  /\ LoadBalMinSourceCount \in Nat \ {0} /\ MaxLoadBalSize \in Nat \ {0}
  /\ LbRandom \in Seq(Nat)

VARIABLES
  pool,          \* number of tokens in each hub's pool
  released,      \* number of tokens that have come in
  gone,          \* number of tokens dispatched or pruned (history)
  myState,       \* of each hub's load balancing thread
  heard,         \* the children a hub has heard of in a tree operation
  up, down,      \* is a message of the operation in flight to, from the parent?
  globalLoad,    \* the last survey's verdict: is a round of balancing due?
  outBuf,        \* buffer of the survey object
  eligible,      \* can the hub be a donor, a receiver?
  clusterCount, childCount, upBuf, childBuf,    \* the count object
  total, myID,   \* donors and receivers in all; a hub's own numbers
  draws,         \* number of draws from LbRandom
  donorProc, receiverProc, myReceiver,
  network        \* messages of the rendezvous, and transfers

work   == <<pool, released, gone>>
tree   == <<heard, up, down>>
survey == <<globalLoad, outBuf>>
count  == <<eligible, clusterCount, childCount, upBuf, childBuf, total>>
number == <<myID, draws>>
match  == <<donorProc, receiverProc, myReceiver>>
vars   == <<work, myState, tree, survey, count, number, match, network>>

Unknown == -1

\* loadBalPair
NoPair      == [donors |-> 0, receivers |-> 0]
Plus(a, b)  == [donors |-> a.donors + b.donors, receivers |-> a.receivers + b.receivers]
Minus(a, b) == [donors |-> a.donors - b.donors, receivers |-> a.receivers - b.receivers]

SubClusters(h) == Tree!Children(0, h)
ChildIndex(h)  == 0 .. Tree!NumChildren(0, h) - 1

\* whichChild, for a hub that is not the root.
WhichChild(h) == (h - 1) % ClusterRadix

Init ==
  /\ pool = InitialPool /\ released = 0 /\ gone = 0
  /\ myState = [h \in Hub |-> "start"]
  /\ heard = [h \in Hub |-> {}]
  /\ up    = [h \in Hub |-> "none"]
  /\ down  = [h \in Hub |-> "none"]
  /\ globalLoad = [h \in Hub |-> FALSE]
  /\ outBuf     = [h \in Hub |-> FALSE]
  /\ eligible     = [h \in Hub |-> NoPair]
  /\ clusterCount = [h \in Hub |-> NoPair]
  /\ childCount   = [h \in Hub |-> [i \in ChildIndex(h) |-> NoPair]]
  /\ upBuf        = [h \in Hub |-> NoPair]
  /\ childBuf     = [h \in Hub |-> [i \in ChildIndex(h) |-> [all |-> NoPair, sub |-> NoPair]]]
  /\ total        = [h \in Hub |-> NoPair]
  /\ myID  = [h \in Hub |-> NoPair]
  /\ draws = [h \in Hub |-> 0]
  /\ donorProc    = [h \in Hub |-> Unknown]
  /\ receiverProc = [h \in Hub |-> Unknown]
  /\ myReceiver   = [h \in Hub |-> Unknown]
  /\ network = {}

Goto(h, state) == myState' = [myState EXCEPT ![h] = state]

(***************************************************************************)
(* The states of a tree operation: waiting for the children, waiting for   *)
(* the parent, and done.                                                   *)
(***************************************************************************)
Operation == {"survey", "count"}
UpWait   == [survey |-> "surveyUp",   count |-> "countUp"]
DownWait == [survey |-> "surveyDown", count |-> "countDown"]
OpDone   == [survey |-> "surveyed",   count |-> "counted"]

HeardAll(o, h) == myState[h] = UpWait[o] /\ heard[h] = SubClusters(h)

(***************************************************************************)
(* Elsewhere the thread does not wait, and keeps the processor.            *)
(***************************************************************************)
Waiting(h) ==
  \/ myState[h] \in {"start", "surveyDown", "countDown", "donorWait", "receiverWait",
                     "returnWait", "workWait"}
  \/ \E o \in Operation : myState[h] = UpWait[o] /\ ~ HeardAll(o, h)

-----------------------------------------------------------------------------
(***************************************************************************)
(* The rest of the hub: tokens come in, and are sent to workers or pruned. *)
(***************************************************************************)
Release(h) ==
  /\ Waiting(h) /\ released < MaxReleases
  /\ released' = released + 1
  /\ pool' = [pool EXCEPT ![h] = @ + 1]
  /\ UNCHANGED <<gone, myState, tree, survey, count, number, match, network>>

Dispatch(h) ==
  /\ Waiting(h) /\ pool[h] > 0 /\ gone < MaxDispatches
  /\ pool' = [pool EXCEPT ![h] = @ - 1]
  /\ gone' = gone + 1
  /\ UNCHANGED <<released, myState, tree, survey, count, number, match, network>>

-----------------------------------------------------------------------------
(***************************************************************************)
(* coTree::run, with the steps of the two objects that use it.             *)
(***************************************************************************)
StartSurvey(h) ==
  /\ myState[h] = "start"
  /\ Goto(h, UpWait["survey"])
  /\ UNCHANGED <<work, tree, survey, count, number, match, network>>

\* upMessageAction of the count object: upBuf was received into.
AddCount(h, i, c) ==
  /\ upBuf' = [upBuf EXCEPT ![h] = upBuf[c]]
  /\ childCount' = [childCount EXCEPT ![h][i] = upBuf[c]]
  /\ clusterCount' = [clusterCount EXCEPT ![h] = Plus(@, upBuf[c])]
  /\ UNCHANGED <<eligible, childBuf, total>>

UpMessage(o, h, i) ==
  LET c == Tree!Child(0, h, i)
  IN  /\ myState[h] = UpWait[o] /\ up[c] = o
      /\ up' = [up EXCEPT ![c] = "none"]
      /\ heard' = [heard EXCEPT ![h] = @ \cup {c}]
      /\ IF o = "count" THEN AddCount(h, i, c) ELSE UNCHANGED count
      /\ UNCHANGED <<work, myState, down, survey, number, match, network>>

\* Mutant of UpRelay: a hub does not wait for the last of its children.
MutUpRelayEarly(o, h) ==
  /\ h # 0
  /\ myState[h] = UpWait[o] /\ Cardinality(SubClusters(h) \ heard[h]) <= 1
  /\ clusterCount' = [clusterCount EXCEPT ![h] = IF o = "count" THEN Plus(@, eligible[h]) ELSE @]
  /\ upBuf' = [upBuf EXCEPT ![h] = IF o = "count" THEN clusterCount'[h] ELSE @]
  /\ up' = [up EXCEPT ![h] = o]
  /\ Goto(h, DownWait[o])
  /\ UNCHANGED <<work, heard, down, survey, eligible, childCount, childBuf, total, number,
                 match, network>>

(***************************************************************************)
(* A hub that has heard of its children adds itself and tells its parent.  *)
(***************************************************************************)
UpRelay(o, h) ==
  /\ h # 0 /\ HeardAll(o, h)
  /\ clusterCount' = [clusterCount EXCEPT ![h] = IF o = "count" THEN Plus(@, eligible[h]) ELSE @]
  /\ upBuf' = [upBuf EXCEPT ![h] = IF o = "count" THEN clusterCount'[h] ELSE @]
  /\ up' = [up EXCEPT ![h] = o]
  /\ Goto(h, DownWait[o])
  /\ UNCHANGED <<work, heard, down, survey, eligible, childCount, childBuf, total, number,
                 match, network>>

(***************************************************************************)
(* downRelayAction, downRelayLoopAction of the count object.  sub is what  *)
(* is left of the donors and receivers when h's subtree is numbered: the   *)
(* hub's own number is the highest, then come its children's subtrees.     *)
(***************************************************************************)
\* Mutant of NumberSubtree: the hub's own number is its first child's, too.
MutNumberSubtreeWithOwn(h, all, sub) ==
  LET Left(i) == FoldFunctionOnSet(Plus, NoPair, childCount[h], 0 .. i - 1)
  IN  /\ total' = [total EXCEPT ![h] = all]
      /\ myID'  = [myID EXCEPT ![h] = sub]
      /\ childBuf' = [childBuf EXCEPT ![h] =
           [i \in ChildIndex(h) |-> [all |-> all, sub |-> Minus(sub, Left(i))]]]

NumberSubtree(h, all, sub) ==
  LET Before(i) == FoldFunctionOnSet(Plus, eligible[h], childCount[h], 0 .. i - 1)
  IN  /\ total' = [total EXCEPT ![h] = all]
      /\ myID'  = [myID EXCEPT ![h] = sub]
      /\ childBuf' = [childBuf EXCEPT ![h] =
           [i \in ChildIndex(h) |-> [all |-> all, sub |-> Minus(sub, Before(i))]]]

\* What the tree operation does last on any hub.
DownRelay(o, h) ==
  /\ heard' = [heard EXCEPT ![h] = {}]
  /\ down' = [c \in Hub |-> IF c \in SubClusters(h) THEN o
                            ELSE IF c = h THEN "none" ELSE down[c]]
  /\ Goto(h, OpDone[o])
  /\ UNCHANGED <<work, up, eligible, childCount, draws, match, network>>

\* rootAction.  The verdict depends on loads that are not modelled.
Root(o, h) ==
  /\ h = 0 /\ HeardAll(o, h)
  /\ IF o = "survey"
     THEN /\ \E balance \in BOOLEAN :
               /\ balance => draws[h] + 2 <= Len(LbRandom)
               /\ globalLoad' = [globalLoad EXCEPT ![h] = balance]
          /\ outBuf' = [outBuf EXCEPT ![h] = globalLoad'[h]]
          /\ UNCHANGED <<clusterCount, upBuf, childBuf, total, myID>>
     ELSE /\ clusterCount' = [clusterCount EXCEPT ![h] = Plus(@, eligible[h])]
          /\ upBuf' = [upBuf EXCEPT ![h] = clusterCount'[h]]
          /\ NumberSubtree(h, clusterCount'[h], clusterCount'[h])
          /\ UNCHANGED survey
  /\ DownRelay(o, h)

DownMessage(o, h) ==
  LET p == Tree!Parent(0, h)
  IN  /\ h # 0 /\ myState[h] = DownWait[o] /\ down[h] = o
      /\ IF o = "survey"
         THEN /\ globalLoad' = [globalLoad EXCEPT ![h] = outBuf[p]]
              /\ outBuf' = [outBuf EXCEPT ![h] = outBuf[p]]
              /\ UNCHANGED <<childBuf, total, myID>>
         ELSE /\ LET buf == childBuf[p][WhichChild(h)]
                 IN  NumberSubtree(h, buf.all, buf.sub)
              /\ UNCHANGED survey
      /\ DownRelay(o, h)
      /\ UNCHANGED <<clusterCount, upBuf>>

-----------------------------------------------------------------------------
(***************************************************************************)
(* decideLoadBalAvailability: who is above its share and who below it is   *)
(* a matter of loads; a donor has tokens, and nobody is both.              *)
(***************************************************************************)
Eligibility(h) ==
  {e \in [donors : {0, 1}, receivers : {0, 1}] :
     /\ e.donors = 1 => pool[h] >= LoadBalMinSourceCount
     /\ e.donors + e.receivers < 2}

\* Mutant of Surveyed: the count goes on from that of the last round.
MutSurveyedNoReset(h) ==
  /\ myState[h] = "surveyed"
  /\ IF ~ globalLoad[h]
     THEN Goto(h, "start") /\ UNCHANGED eligible
     ELSE /\ \E e \in Eligibility(h) : eligible' = [eligible EXCEPT ![h] = e]
          /\ Goto(h, UpWait["count"])
  /\ UNCHANGED <<work, tree, survey, clusterCount, childCount, upBuf, childBuf, total, number,
                 match, network>>

\* A survey that found a mismatch, or nothing to do, is no reason to balance.
Surveyed(h) ==
  /\ myState[h] = "surveyed"
  /\ IF ~ globalLoad[h]
     THEN Goto(h, "start") /\ UNCHANGED <<eligible, clusterCount>>
     ELSE /\ \E e \in Eligibility(h) : eligible' = [eligible EXCEPT ![h] = e]
          /\ clusterCount' = [clusterCount EXCEPT ![h] = NoPair]
          /\ Goto(h, UpWait["count"])
  /\ UNCHANGED <<work, tree, survey, childCount, upBuf, childBuf, total, number, match,
                 network>>

LbPairs(h) == IF total[h].donors < total[h].receivers THEN total[h].donors
                                                      ELSE total[h].receivers

IAmDonor(h)    == eligible[h].donors = 1    /\ myID[h].donors < LbPairs(h)
IAmReceiver(h) == eligible[h].receivers = 1 /\ myID[h].receivers < LbPairs(h)
IAmRVPoint(h)  == h < LbPairs(h)

Random(h, k) == LbRandom[draws[h] + k]

Message(tag, src, dst, value) == [tag |-> tag, src |-> src, dst |-> dst, value |-> value]

\* Donors and receivers are renumbered from the same random numbers everywhere.
Counted(h) ==
  /\ myState[h] = "counted"
  /\ UNCHANGED <<work, tree, survey, count>>
  /\ IF LbPairs(h) = 0
     THEN Goto(h, "start") /\ UNCHANGED <<number, match, network>>
     ELSE /\ myID' = [myID EXCEPT ![h] =
               [donors    |-> (@.donors + Random(h, 1)) % total[h].donors,
                receivers |-> (@.receivers + Random(h, 2)) % total[h].receivers]]
          /\ draws' = [draws EXCEPT ![h] = @ + 2]
          /\ donorProc' = [donorProc EXCEPT ![h] =
               IF IAmDonor(h)' /\ myID'[h].donors = h THEN h ELSE Unknown]
          /\ receiverProc' = [receiverProc EXCEPT ![h] = Unknown]
          /\ myReceiver'   = [myReceiver EXCEPT ![h] = Unknown]
          /\ network' = network \cup
               IF IAmDonor(h)' /\ myID'[h].donors # h
               THEN {Message("donorRV", h, myID'[h].donors, 0)} ELSE {}
          /\ Goto(h, "receiverInfo")

ReceiverInfo(h) ==
  LET rv == myID[h].receivers
  IN  /\ myState[h] = "receiverInfo"
      /\ receiverProc' = [receiverProc EXCEPT ![h] =
           IF IAmReceiver(h) /\ rv = h THEN h ELSE @]
      /\ network' = network \cup
           IF IAmReceiver(h) /\ rv # h THEN {Message("receiverRV", h, rv, 0)} ELSE {}
      /\ Goto(h, "rendezvous")
      /\ UNCHANGED <<work, tree, survey, count, number, donorProc, myReceiver>>

Rendezvous(h) ==
  /\ myState[h] = "rendezvous"
  /\ Goto(h, IF ~ IAmRVPoint(h) THEN "rendezvousDone"
             ELSE IF donorProc[h] # Unknown THEN "knowDonor" ELSE "donorWait")
  /\ UNCHANGED <<work, tree, survey, count, number, match, network>>

DonorArrives(h, m) ==
  /\ myState[h] = "donorWait" /\ m.tag = "donorRV" /\ m.dst = h
  /\ donorProc' = [donorProc EXCEPT ![h] = m.src]
  /\ network' = network \ {m}
  /\ Goto(h, "knowDonor")
  /\ UNCHANGED <<work, tree, survey, count, number, receiverProc, myReceiver>>

KnowDonor(h) ==
  /\ myState[h] = "knowDonor"
  /\ Goto(h, IF receiverProc[h] # Unknown THEN "knowReceiver" ELSE "receiverWait")
  /\ UNCHANGED <<work, tree, survey, count, number, match, network>>

ReceiverArrives(h, m) ==
  /\ myState[h] = "receiverWait" /\ m.tag = "receiverRV" /\ m.dst = h
  /\ receiverProc' = [receiverProc EXCEPT ![h] = m.src]
  /\ network' = network \ {m}
  /\ Goto(h, "knowReceiver")
  /\ UNCHANGED <<work, tree, survey, count, number, donorProc, myReceiver>>

KnowReceiver(h) ==
  /\ myState[h] = "knowReceiver"
  /\ IF donorProc[h] = h
     THEN myReceiver' = [myReceiver EXCEPT ![h] = receiverProc[h]] /\ UNCHANGED network
     ELSE /\ network' = network \cup {Message("returnRV", h, donorProc[h], receiverProc[h])}
          /\ UNCHANGED myReceiver
  /\ Goto(h, "rendezvousDone")
  /\ UNCHANGED <<work, tree, survey, count, number, donorProc, receiverProc>>

RendezvousDone(h) ==
  /\ myState[h] = "rendezvousDone"
  /\ Goto(h, IF IAmDonor(h)
             THEN IF myReceiver[h] # Unknown THEN "donorKnowsReceiver" ELSE "returnWait"
             ELSE IF IAmReceiver(h) THEN "workWait" ELSE "start")
  /\ UNCHANGED <<work, tree, survey, count, number, match, network>>

ReturnArrives(h, m) ==
  /\ myState[h] = "returnWait" /\ m.tag = "returnRV" /\ m.dst = h
  /\ myReceiver' = [myReceiver EXCEPT ![h] = m.value]
  /\ network' = network \ {m}
  /\ Goto(h, "donorKnowsReceiver")
  /\ UNCHANGED <<work, tree, survey, count, number, donorProc, receiverProc>>

(***************************************************************************)
(* fillLoadBalBuffer.  The loop stops when the receiver would have the     *)
(* greater load, maybe at once, and sends whatever it has packed.          *)
(***************************************************************************)
FillLoadBalBuffer(h) ==
  {n \in 0 .. MaxLoadBalSize : \A i \in 0 .. n - 1 : pool[h] - i >= LoadBalMinSourceCount}

\* Mutant of Transfer: a donor that has nothing to give says nothing.
MutTransferNonempty(h) ==
  /\ myState[h] = "donorKnowsReceiver"
  /\ \E n \in FillLoadBalBuffer(h) :
       /\ pool' = [pool EXCEPT ![h] = @ - n]
       /\ network' = IF n = 0 THEN network
                     ELSE network \cup {Message("loadBal", h, myReceiver[h], n)}
  /\ Goto(h, "start")
  /\ UNCHANGED <<released, gone, tree, survey, count, number, match>>

Transfer(h) ==
  /\ myState[h] = "donorKnowsReceiver"
  /\ \E n \in FillLoadBalBuffer(h) :
       /\ pool' = [pool EXCEPT ![h] = @ - n]
       /\ network' = network \cup {Message("loadBal", h, myReceiver[h], n)}
  /\ Goto(h, "start")
  /\ UNCHANGED <<released, gone, tree, survey, count, number, match>>

\* unloadLoadBalBuffer: any of the tokens may be fathomed by now.
WorkArrives(h, m) ==
  /\ myState[h] = "workWait" /\ m.tag = "loadBal" /\ m.dst = h
  /\ \E keep \in 0 .. m.value :
       /\ pool' = [pool EXCEPT ![h] = @ + keep]
       /\ gone' = gone + (m.value - keep)
  /\ network' = network \ {m}
  /\ Goto(h, "start")
  /\ UNCHANGED <<released, tree, survey, count, number, match>>

-----------------------------------------------------------------------------
TreeStep(h) ==
  \/ StartSurvey(h)
  \/ \E o \in Operation : \/ \E i \in ChildIndex(h) : UpMessage(o, h, i)
                          \/ UpRelay(o, h)
                          \/ Root(o, h)
                          \/ DownMessage(o, h)
  \/ Surveyed(h)
  \/ Counted(h)

MatchStep(h) ==
  \/ ReceiverInfo(h) \/ Rendezvous(h) \/ KnowDonor(h) \/ KnowReceiver(h) \/ RendezvousDone(h)
  \/ Transfer(h)
  \/ \E m \in network : \/ DonorArrives(h, m) \/ ReceiverArrives(h, m)
                        \/ ReturnArrives(h, m) \/ WorkArrives(h, m)

Run(h) == TreeStep(h) \/ MatchStep(h)

Next == \E h \in Hub : Run(h) \/ Release(h) \/ Dispatch(h)

Spec     == Init /\ [][Next]_vars
FairSpec == Spec /\ \A h \in Hub : WF_vars(Run(h))

-----------------------------------------------------------------------------
Pair == [donors : 0 .. NumHub, receivers : 0 .. NumHub]
MatchState == {"receiverInfo", "rendezvous", "donorWait", "knowDonor", "receiverWait",
               "knowReceiver", "rendezvousDone", "returnWait", "donorKnowsReceiver",
               "workWait"}

\* Every variable has its type; buffers of the count object only hold counts
\* of hubs, so no number was subtracted twice.
TypeOK ==
  /\ pool \in [Hub -> Nat] /\ released \in 0 .. MaxReleases /\ gone \in Nat
  /\ myState \in [Hub -> MatchState \cup {"start", "surveyUp", "surveyDown", "surveyed",
                                          "countUp", "countDown", "counted"}]
  /\ \A h \in Hub : heard[h] \subseteq SubClusters(h)
  /\ up \in [Hub -> Operation \cup {"none"}] /\ down \in [Hub -> Operation \cup {"none"}]
  /\ globalLoad \in [Hub -> BOOLEAN] /\ outBuf \in [Hub -> BOOLEAN]
  /\ eligible \in [Hub -> [donors : {0, 1}, receivers : {0, 1}]]
  /\ clusterCount \in [Hub -> Pair] /\ upBuf \in [Hub -> Pair]
  /\ \A h \in Hub : /\ childCount[h] \in [ChildIndex(h) -> Pair]
                    /\ childBuf[h] \in [ChildIndex(h) -> [all : Pair, sub : Pair]]
  /\ total \in [Hub -> Pair] /\ myID \in [Hub -> Pair]
  /\ draws \in [Hub -> 0 .. Len(LbRandom)]
  /\ \A proc \in {donorProc, receiverProc, myReceiver} : proc \in [Hub -> Hub \cup {Unknown}]
  /\ network \subseteq [tag : {"donorRV", "receiverRV", "returnRV", "loadBal"},
                        src : Hub, dst : Hub, value : Nat]

Matching(h) == myState[h] \in MatchState

\* Hubs that are matching at the same time agree on the number of pairs, and
\* two donors never have the same number, nor two receivers (loadBalCount,
\* and the random offsets of case counting).
NumbersAreUnique ==
  \A g, h \in {k \in Hub : Matching(k)} :
    g # h => /\ total[g] = total[h]
             /\ eligible[g].donors * eligible[h].donors = 1
                  => myID[g].donors # myID[h].donors
             /\ eligible[g].receivers * eligible[h].receivers = 1
                  => myID[g].receivers # myID[h].receivers

\* d is about to send a transfer to r, or has sent one that is in flight.
GivesTo(d, r) ==
  \/ myState[d] \in {"rendezvousDone", "donorKnowsReceiver"} /\ myReceiver[d] = r
  \/ \E m \in network : \/ m.tag = "returnRV" /\ m.dst = d /\ m.value = r
                        \/ m.tag = "loadBal" /\ m.src = d /\ m.dst = r

\* A donor is only ever sent to a receiver that is in the same round and has
\* still to be given its transfer, by this donor and no other (states
\* knowReceiver to workWait).
OneDonorEach ==
  \A d, r \in Hub : GivesTo(d, r) =>
    /\ d # r /\ Matching(r) /\ IAmReceiver(r) /\ draws[r] = draws[d]
    /\ \A d2 \in Hub : GivesTo(d2, r) => d2 = d
    /\ \A r2 \in Hub : GivesTo(d, r2) => r2 = r

\* A survey is complete only when nothing of the last round is in flight, so
\* the loads that it added up missed no token between two hubs, and the
\* messages of two rounds cannot be taken for one another (case start).
SurveyMissesNothing ==
  (\E h \in Hub : myState[h] = "surveyed") => network = {}

InFlight == MapThenSumSet(LAMBDA m : IF m.tag = "loadBal" THEN m.value ELSE 0, network)

\* No token is lost or doubled on its way between two hubs (fillLoadBalBuffer
\* and unloadLoadBalBuffer).
WorkIsConserved ==
  SumFunction(pool) + InFlight + gone = SumFunction(InitialPool) + released

\* Hubs never wait for each other in a circle, or for a message that nobody
\* sends: every hub goes on to another round, again and again.
RoundsGoOn == \A h \in Hub : []<>(myState[h] = "start")

=============================================================================
