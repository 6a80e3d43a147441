---------------------------- MODULE MCLoadBalance ----------------------------
(***************************************************************************)
(* Three hubs, each under the one before it, and a token that may turn up  *)
(* at any of them at any time, in two rounds of balancing; or four hubs,   *)
(* the least number with two pairs of donor and receiver, in one round:    *)
(* hubs 1 and 2 under hub 0, and hub 3 under hub 1.                        *)
(***************************************************************************)
EXTENDS Integers, TLC

NoTokens  == [h \in 0 .. 2 |-> 0]
AtTwoHubs == (0 :> 2) @@ (1 :> 0) @@ (2 :> 0) @@ (3 :> 1)

\* What lbRandom returns in one and in two rounds.
OneRound  == <<1, 2>>
TwoRounds == <<1, 2, 0, 1>>

VARIABLES machine, pool, released, gone, myState, heard, up, down, globalLoad,
  outBuf, eligible, clusterCount, childCount, upBuf, childBuf, total, myID,
  draws, donorProc, receiverProc, myReceiver, network

Chain == INSTANCE LoadBalance WITH
  NumHub <- 3, ClusterRadix <- 1, InitialPool <- NoTokens, MaxReleases <- 1,
  MaxDispatches <- 1, LoadBalMinSourceCount <- 1, MaxLoadBalSize <- 1, LbRandom <- TwoRounds

FourHubs == INSTANCE LoadBalance WITH
  NumHub <- 4, ClusterRadix <- 2, InitialPool <- AtTwoHubs, MaxReleases <- 0,
  MaxDispatches <- 0, LoadBalMinSourceCount <- 1, MaxLoadBalSize <- 1, LbRandom <- OneRound

ASSUME Chain!BalanceAssumption /\ FourHubs!BalanceAssumption

vars == Chain!vars

MCInit == \/ machine = "chain" /\ Chain!Init
          \/ machine = "fourHubs" /\ FourHubs!Init

MCNext == /\ machine' = machine
          /\ \/ machine = "chain" /\ Chain!Next
             \/ machine = "fourHubs" /\ FourHubs!Next

\* Liveness is for the chain, which has rounds that follow each other.
MCSpec == /\ MCInit /\ [][MCNext]_<<vars, machine>>
          /\ \A h \in 0 .. 2 : WF_vars(machine = "chain" /\ Chain!Run(h))

MCTypeOK == CASE machine = "chain"    -> Chain!TypeOK
              [] machine = "fourHubs" -> FourHubs!TypeOK

\* Donors and receivers have numbers of their own, and meet in pairs.
PairsAreUnique ==
  CASE machine = "chain"    -> Chain!NumbersAreUnique /\ Chain!OneDonorEach
    [] machine = "fourHubs" -> FourHubs!NumbersAreUnique /\ FourHubs!OneDonorEach

\* No token is missed by a survey, or lost on its way.
NoTokenIsMissed ==
  CASE machine = "chain"    -> Chain!SurveyMissesNothing /\ Chain!WorkIsConserved
    [] machine = "fourHubs" -> FourHubs!SurveyMissesNothing /\ FourHubs!WorkIsConserved

\* The hubs of the chain go on to another round, again and again.
ChainGoesOn == machine = "chain" => Chain!RoundsGoOn

=============================================================================
