------------------------ MODULE IncumbentCast_proofs ------------------------
(***************************************************************************)
(* Proofs about IncumbentCast: agreement on the best incumbent once the    *)
(* broadcasts have died out, exact counts of their messages, and pools     *)
(* that are all pruned when the threads go idle, for any number of         *)
(* processors, any radix, any clusters and any number of solutions found   *)
(* at any time.                                                            *)
(***************************************************************************)
EXTENDS IncumbentCast, TreeTopology_proofs, SequenceTheorems

(***************************************************************************)
(* TypeOK: the messages a processor relays are addressed to processors.    *)
(***************************************************************************)
LEMMA RelayType ==
  ASSUME NEW s \in Proc, NEW p \in Proc, NEW v \in Value
  PROVE  Relay(p, s, v) \subseteq Message
BY ChildIsNotRoot DEF Relay, Message

(***************************************************************************)
(* The counts of messages are numbers.                                     *)
(***************************************************************************)
LEMMA NumChildrenType ==
  ASSUME NEW s \in Proc, NEW p \in Proc
  PROVE  NumChildren(s, p) \in Int
<1>1. N \in Nat \ {0} /\ Radix \in Nat \ {0} /\ RelPosition(s, p) \in Nat
  BY TreeAssumption, RelPositionType DEF Proc
<1>2. RelPosition(s, p) * Radix \in Nat  BY <1>1, Z3
<1>. QED  BY <1>1, <1>2 DEF NumChildren, RelFirstChild

(***************************************************************************)
(* The initial types.                                                      *)
(***************************************************************************)
LEMMA InitType == Init => TypeOK
BY ClusterAssumption DEF Init, TypeOK, Value, NoValue, AnySource, RemoteWorker

(***************************************************************************)
(* Running the hub keeps the types.                                        *)
(***************************************************************************)
LEMMA ActivateHubType ==
  ASSUME TypeOK, NEW h \in Hub, ActivateHub(h)
  PROVE  /\ needPruning' \in [Proc -> BOOLEAN] /\ needHubPruning' \in [Proc -> BOOLEAN]
         /\ poolBound' \in [Worker -> Value \cup {NoValue}]
         /\ hubPoolBound' \in [Hub -> Value \cup {NoValue}]
<1>1. h \in Proc  BY ClusterAssumption
<1>2. CASE needHubPruning[h]
  <2>1. CASE h \in Worker /\ needPruning[h]
    BY <1>1, <1>2, <2>1, ZenonT(60) DEF ActivateHub, TypeOK
  <2>2. CASE ~(h \in Worker /\ needPruning[h])
    BY <1>1, <1>2, <2>2 DEF ActivateHub, TypeOK
  <2>. QED  BY <2>1, <2>2
<1>3. CASE ~needHubPruning[h]
  BY <1>3 DEF ActivateHub, TypeOK, pruning
<1>. QED  BY <1>2, <1>3

(***************************************************************************)
(* Every step keeps the types.                                             *)
(***************************************************************************)
LEMMA StepType == TypeOK /\ [Next]_vars => TypeOK'
<1>. USE ClusterAssumption DEF TypeOK, Value, NoValue, AnySource, RemoteWorker
<1>. SUFFICES ASSUME TypeOK, [Next]_vars PROVE TypeOK'
  OBVIOUS
<1>1. ASSUME NEW p \in Worker, NEW v \in Value, FoundSolution(p, v)
      PROVE  TypeOK'
  <2>1. p \in Proc /\ Relay(p, p, v) \subseteq Message /\ NumChildren(p, p) \in Int
    BY RelayType, NumChildrenType
  <2>. QED  BY <1>1, <2>1 DEF FoundSolution, reports
<1>2. ASSUME NEW p \in Proc, HandleMessage(p)
      PROVE  TypeOK'
  <2>1. PICK m \in network : m.dest = p /\ (Adopt(p, m) \/ Discard(p, m))
    BY <1>2 DEF HandleMessage
  <2>2. m.value \in Value /\ m.originator \in Proc
    BY DEF Message
  <2>3. CASE Adopt(p, m)
    <3>1. /\ Relay(p, m.originator, m.value) \subseteq Message
          /\ NumChildren(m.originator, p) \in Int
      BY <2>2, RelayType, NumChildrenType
    <3>. QED  BY <1>2, <2>2, <2>3, <3>1, Z3T(60) DEF HandleMessage, Adopt, ResetIncumbent, reports
  <2>4. CASE Discard(p, m)
    BY <1>2, <2>4 DEF HandleMessage, Discard, belief, reports
  <2>. QED  BY <2>1, <2>3, <2>4
<1>3. ASSUME NEW p \in Proc, PreExit(p)
      PROVE  TypeOK'
  <2>1. /\ needPruning' \in [Proc -> BOOLEAN] /\ needHubPruning' \in [Proc -> BOOLEAN]
        /\ poolBound' \in [Worker -> Value \cup {NoValue}]
        /\ hubPoolBound' \in [Hub -> Value \cup {NoValue}]
    <3>1. CASE p \in Hub /\ ActivateHub(p)
      BY <3>1, ActivateHubType
    <3>2. CASE UNCHANGED pruning
      BY <3>2 DEF pruning
    <3>. QED  BY <1>3, <3>1, <3>2 DEF PreExit
  <2>. QED  BY <1>3, <2>1 DEF PreExit, belief, reports
<1>4. ASSUME NEW p \in Worker, WorkerPrune(p)
      PROVE  TypeOK'
  <2>1. CASE p \in Hub
    <3>1. hubPoolBound' \in [Hub -> Value \cup {NoValue}]
      <4>1. \/ hubPoolBound' = [hubPoolBound EXCEPT ![p] = incumbentValue[p]]
            \/ hubPoolBound' = hubPoolBound
        BY <1>4, <2>1, Zenon DEF WorkerPrune
      <4>2. incumbentValue[p] \in Value \cup {NoValue}
        OBVIOUS
      <4>. QED  BY <4>1, <4>2
    <3>. QED  BY <1>4, <2>1, <3>1 DEF WorkerPrune, belief
  <2>2. CASE p \notin Hub
    <3>1. Belief(p) \in (Value \cup {NoValue}) \X (Proc \cup {AnySource})
      BY DEF Belief
    <3>2. hubInbox' \in [RemoteWorker -> Seq((Value \cup {NoValue}) \X (Proc \cup {AnySource}))]
      <4>1. Append(hubInbox[p], Belief(p)) \in Seq((Value \cup {NoValue}) \X (Proc \cup {AnySource}))
        BY <2>2, <3>1, AppendProperties
      <4>. QED  BY <1>4, <2>2, <4>1 DEF WorkerPrune
    <3>. QED  BY <1>4, <2>2, <3>2 DEF WorkerPrune, belief
  <2>. QED  BY <2>1, <2>2
<1>5. ASSUME NEW h \in Hub, HubRun(h)
      PROVE  TypeOK'
  <2>1. PICK w \in RemoteWorker :
          /\ hubInbox[w] # <<>>
          /\ workerLoadReport' = [workerLoadReport EXCEPT ![w] = Head(hubInbox[w])]
          /\ hubInbox' = [hubInbox EXCEPT ![w] = Tail(@)]
    BY <1>5 DEF HubRun
  <2>2. /\ workerLoadReport' \in [RemoteWorker -> (Value \cup {NoValue}) \X (Proc \cup {AnySource})]
        /\ hubInbox' \in [RemoteWorker -> Seq((Value \cup {NoValue}) \X (Proc \cup {AnySource}))]
    <3>1. hubInbox[w] \in Seq((Value \cup {NoValue}) \X (Proc \cup {AnySource}))
      OBVIOUS
    <3>2. /\ Head(hubInbox[w]) \in (Value \cup {NoValue}) \X (Proc \cup {AnySource})
          /\ Tail(hubInbox[w]) \in Seq((Value \cup {NoValue}) \X (Proc \cup {AnySource}))
      BY <2>1, <3>1, HeadTailProperties
    <3>. QED  BY <2>1, <3>2
  <2>3. /\ needPruning' \in [Proc -> BOOLEAN] /\ needHubPruning' \in [Proc -> BOOLEAN]
        /\ poolBound' \in [Worker -> Value \cup {NoValue}]
        /\ hubPoolBound' \in [Hub -> Value \cup {NoValue}]
    BY <1>5, ActivateHubType DEF HubRun
  <2>. QED  BY <1>5, <2>2, <2>3 DEF HubRun, belief
<1>6. CASE UNCHANGED vars
  BY <1>6 DEF vars, belief, pruning, reports
<1>. QED  BY <1>1, <1>2, <1>3, <1>4, <1>5, <1>6 DEF Next

(***************************************************************************)
(* Every variable keeps its type: in particular a message is addressed to  *)
(* and attributed to processors of the communicator, whatever the tree.    *)
(***************************************************************************)
THEOREM TypeCorrect == Spec => []TypeOK
BY InitType, StepType, PTL DEF Spec

(***************************************************************************)
(* The inductive invariant.  Only FoundSolution and HandleMessage change   *)
(* what it is about.                                                       *)
(***************************************************************************)
LEMMA InitInv == Init => BroadcastInv
<1>. SUFFICES ASSUME Init PROVE NoneBetter /\ BestOnItsWay /\ NoEcho /\ SourceHoldsSolution
  BY InitType DEF BroadcastInv
<1>1. PICK b \in {<<NoValue, AnySource>>} \cup (Value \X Proc) :
        /\ incumbentValue  = [p \in Proc |-> b[1]]
        /\ incumbentSource = [p \in Proc |-> b[2]]
        /\ incumbent = [p \in Proc |-> IF p = b[2] THEN b[1] ELSE NoValue]
        /\ best = b
        /\ network = {}
  BY DEF Init
<1>2. b = <<b[1], b[2]>> /\ (b[2] = AnySource \/ b[2] \in Proc)
  OBVIOUS
<1>3. \A p \in Proc : Belief(p) = best
  BY <1>1, <1>2 DEF Belief
<1>4. NoneBetter
  BY <1>1, <1>3 DEF NoneBetter
<1>5. BestOnItsWay
  BY <1>1, <1>2, <1>3, ChildIsNotRoot DEF BestOnItsWay
<1>6. SourceHoldsSolution
  BY <1>1, <1>2 DEF SourceHoldsSolution
<1>7. NoEcho
  BY <1>1 DEF NoEcho
<1>. QED  BY <1>4, <1>5, <1>6, <1>7

(***************************************************************************)
(* A new solution is the best there is, or worse than the best, whose      *)
(* broadcast it does not touch.                                            *)
(***************************************************************************)
LEMMA FoundSolutionInv ==
  ASSUME BroadcastInv, NEW p \in Worker, NEW v \in Value, FoundSolution(p, v)
  PROVE  NoneBetter' /\ BestOnItsWay' /\ NoEcho' /\ SourceHoldsSolution'
<1>. DEFINE s == best[2]
<1>1. /\ TypeOK /\ TypeOK' /\ NoneBetter /\ BestOnItsWay /\ NoEcho /\ SourceHoldsSolution
      /\ p \in Proc
  BY StepType, ClusterAssumption DEF BroadcastInv, Next
<1>2. /\ v < incumbentValue[p] /\ Belief(p)' = <<v, p>>
      /\ \A q \in Proc : q # p => Belief(q)' = Belief(q)
      /\ network' = network \cup Relay(p, p, v)
      /\ best' = IF Beats(v, p, best[1], best[2]) THEN <<v, p>> ELSE best
  BY <1>1 DEF FoundSolution, Belief, TypeOK
<1>3. /\ best = <<best[1], s>> /\ best[1] \in Int /\ s \in Int
      /\ s = AnySource \/ s \in Proc
      /\ v \in Int /\ p \in Int /\ p # AnySource
      /\ \A q \in Proc : incumbentValue[q] \in Int /\ incumbentSource[q] \in Int
      /\ \A m \in network : m \in Message /\ m.value \in Int /\ m.originator \in Int
  BY <1>1, TreeAssumption, ClusterAssumption
     DEF TypeOK, Message, Value, NoValue, AnySource, Proc
<1>4. SourceHoldsSolution'
  BY <1>1 DEF SourceHoldsSolution, FoundSolution, TypeOK
<1>5. \A m \in Relay(p, p, v) : m.value = v /\ m.originator = p
  BY DEF Relay
<1>6. NoEcho'
  BY <1>1, <1>2, ChildIsNotRoot DEF NoEcho, Relay
<1>7. CASE Beats(v, p, best[1], best[2])
  <2>1. best' = <<v, p>>  BY <1>2, <1>7
  <2>2. \A q \in Proc : q # p => Belief(q)' # <<v, p>>
    BY <1>1, <1>2, <1>3, <1>7 DEF NoneBetter, Belief, Beats
  <2>3. NoneBetter'
    BY <1>1, <1>2, <1>3, <1>5, <1>7, <2>1 DEF NoneBetter, Belief, Beats
  <2>4. BestOnItsWay'
    <3>1. SUFFICES ASSUME NEW r \in Proc, Belief(r)' = <<v, p>>, NEW c \in Children(p, r)
                   PROVE  [dest |-> c, value |-> v, originator |-> p] \in network'
      BY <1>2, <1>3, <2>1 DEF BestOnItsWay
    <3>2. r = p  BY <2>2, <3>1
    <3>. QED  BY <1>2, <3>2 DEF Relay
  <2>. QED  BY <1>4, <1>6, <2>3, <2>4
<1>8. CASE ~Beats(v, p, best[1], best[2])
  <2>1. best' = best  BY <1>2, <1>8
  <2>2. Belief(p) # best /\ s # AnySource
    BY <1>1, <1>2, <1>3, <1>8 DEF Belief, Beats, BestOnItsWay
  <2>3. s # p /\ <<v, p>> # best /\ Beats(best[1], best[2], v, p)
    BY <1>1, <1>2, <1>3, <1>8, <2>2 DEF BestOnItsWay, Beats
  <2>4. NoneBetter'
    BY <1>1, <1>2, <1>3, <1>5, <2>1, <2>3 DEF NoneBetter
  <2>5. BestOnItsWay'
    <3>1. SUFFICES ASSUME NEW r \in Proc, Belief(r)' = best, NEW c \in Children(s, r)
                   PROVE  \/ Belief(c)' = best
                          \/ [dest |-> c, value |-> best[1], originator |-> s] \in network'
      BY <1>1, <1>2, <1>3, <2>1, <2>2, <2>3 DEF BestOnItsWay
    <3>2. Belief(r) = best
      BY <1>2, <2>3, <3>1
    <3>3. Belief(c) = best \/ [dest |-> c, value |-> best[1], originator |-> s] \in network
      BY <1>1, <2>2, <3>1, <3>2 DEF BestOnItsWay
    <3>4. c \in Proc
      BY <1>3, <2>2, <3>1, ChildIsNotRoot
    <3>. QED  BY <1>2, <2>2, <3>3, <3>4
  <2>. QED  BY <1>4, <1>6, <2>4, <2>5
<1>. QED  BY <1>7, <1>8

(***************************************************************************)
(* A message is adopted only by a processor that does not know the best    *)
(* incumbent, and never by its own originator.                             *)
(***************************************************************************)
LEMMA HandleMessageInv ==
  ASSUME BroadcastInv, NEW p \in Proc, HandleMessage(p)
  PROVE  NoneBetter' /\ BestOnItsWay' /\ NoEcho' /\ SourceHoldsSolution'
<1>. DEFINE s == best[2]
<1>1. /\ TypeOK /\ TypeOK' /\ NoneBetter /\ BestOnItsWay /\ NoEcho /\ SourceHoldsSolution
      /\ best' = best
  BY StepType DEF BroadcastInv, Next, HandleMessage
<1>2. PICK m \in network : m.dest = p /\ (Adopt(p, m) \/ Discard(p, m))
  BY DEF HandleMessage
<1>3. /\ best = <<best[1], s>> /\ best[1] \in Int /\ s \in Int
      /\ s = AnySource \/ s \in Proc
      /\ incumbentValue[p] \in Int /\ incumbentSource[p] \in Int
      /\ m.value \in Value /\ m.originator \in Proc
      /\ m.value \in Int /\ m.originator \in Int
      /\ m = [dest |-> p, value |-> m.value, originator |-> m.originator]
  BY <1>1, <1>2, TreeAssumption, ClusterAssumption, Z3T(60)
     DEF TypeOK, Message, Value, NoValue, AnySource, Proc
<1>4. s \in Proc
  BY <1>1, <1>2, <1>3 DEF BestOnItsWay
<1>5. \/ m.value = best[1] /\ m.originator = s
      \/ Beats(best[1], s, m.value, m.originator)
  BY <1>1, <1>2, <1>3 DEF NoneBetter
<1>6. CASE Discard(p, m)
  <2>1. /\ \A q \in Proc : Belief(q)' = Belief(q)
        /\ network' = network \ {m}
    BY <1>6 DEF Discard, belief, Belief
  <2>2. SourceHoldsSolution'
    BY <1>1, <1>6 DEF Discard, belief, SourceHoldsSolution
  <2>3. NoneBetter'
    BY <1>1, <2>1 DEF NoneBetter
  <2>4. (m.value = best[1] /\ m.originator = s) => Belief(p) = best
    BY <1>1, <1>3, <1>6 DEF Discard, NoneBetter, Belief, Beats
  <2>5. BestOnItsWay'
    <3>1. SUFFICES ASSUME NEW r \in Proc, Belief(r) = best, NEW c \in Children(s, r)
                   PROVE  \/ Belief(c) = best
                          \/ [dest |-> c, value |-> best[1], originator |-> s] \in network'
      <4>1. \A r \in Proc : \A c \in Children(s, r) : c \in Proc
        BY <1>4, ChildIsNotRoot
      <4>. QED  BY <1>1, <1>3, <1>4, <2>1, <4>1 DEF BestOnItsWay, AnySource, Proc
    <3>2. Belief(c) = best \/ [dest |-> c, value |-> best[1], originator |-> s] \in network
      BY <1>1, <1>4, <3>1 DEF BestOnItsWay, AnySource, Proc
    <3>. QED  BY <1>3, <2>1, <2>4, <3>2
  <2>6. NoEcho'
    BY <1>1, <2>1 DEF NoEcho
  <2>. QED  BY <2>2, <2>3, <2>5, <2>6
<1>7. CASE Adopt(p, m)
  <2>1. /\ Belief(p)' = <<m.value, m.originator>>
        /\ \A q \in Proc : q # p => Belief(q)' = Belief(q)
        /\ network' = (network \ {m}) \cup Relay(p, m.originator, m.value)
        /\ Beats(m.value, m.originator, incumbentValue[p], incumbentSource[p])
    BY <1>1, <1>7 DEF Adopt, Belief, TypeOK
  <2>2. Belief(p) # best
    BY <1>3, <1>5, <2>1 DEF Belief, Beats
  <2>3. SourceHoldsSolution'
    <3>1. m.originator # p
      BY <1>1, <1>2 DEF NoEcho
    <3>. QED  BY <1>1, <1>7, <3>1 DEF Adopt, ResetIncumbent, SourceHoldsSolution, TypeOK
  <2>4. NoneBetter'
    BY <1>1, <1>3, <1>5, <2>1 DEF NoneBetter, Relay
  <2>5. Belief(s)' = best
    BY <1>1, <1>4, <2>1, <2>2 DEF BestOnItsWay, AnySource, Proc
  <2>6. ASSUME NEW r \in Proc, Belief(r)' = best, NEW c \in Children(s, r)
        PROVE  \/ Belief(c)' = best
               \/ [dest |-> c, value |-> best[1], originator |-> s] \in network'
    <3>1. CASE r = p
      BY <1>3, <2>1, <2>6, <3>1 DEF Relay
    <3>2. CASE r # p
      <4>1. Belief(c) = best \/ [dest |-> c, value |-> best[1], originator |-> s] \in network
        BY <1>1, <1>4, <2>1, <2>6, <3>2 DEF BestOnItsWay, AnySource, Proc
      <4>2. c \in Proc
        BY <1>4, ChildIsNotRoot
      <4>. QED  BY <1>3, <2>1, <2>2, <4>1, <4>2
    <3>. QED  BY <3>1, <3>2
  <2>7. BestOnItsWay'
    BY <1>1, <1>4, <2>5, <2>6 DEF BestOnItsWay, AnySource, Proc
  <2>8. NoEcho'
    BY <1>1, <1>3, <2>1, ChildIsNotRoot DEF NoEcho, Relay
  <2>. QED  BY <2>3, <2>4, <2>7, <2>8
<1>. QED  BY <1>2, <1>6, <1>7

(***************************************************************************)
(* Every step preserves the invariant of the broadcasts.                   *)
(***************************************************************************)
LEMMA StepBroadcast == BroadcastInv /\ [Next]_vars => BroadcastInv'
<1>. SUFFICES ASSUME BroadcastInv, [Next]_vars PROVE BroadcastInv'
  OBVIOUS
<1>. SUFFICES NoneBetter' /\ BestOnItsWay' /\ NoEcho' /\ SourceHoldsSolution'
  BY StepType DEF BroadcastInv
<1>1. ASSUME NEW p \in Worker, NEW v \in Value, FoundSolution(p, v)
      PROVE  NoneBetter' /\ BestOnItsWay' /\ NoEcho' /\ SourceHoldsSolution'
  BY <1>1, FoundSolutionInv
<1>2. ASSUME NEW p \in Proc, HandleMessage(p)
      PROVE  NoneBetter' /\ BestOnItsWay' /\ NoEcho' /\ SourceHoldsSolution'
  BY <1>2, HandleMessageInv
<1>3. CASE UNCHANGED <<belief, network, best>>
  BY <1>3 DEF BroadcastInv, NoneBetter, BestOnItsWay, NoEcho,
                    SourceHoldsSolution, Belief, belief
<1>4. ASSUME NEW p \in Proc, PreExit(p)
      PROVE  UNCHANGED <<belief, network, best>>
  BY <1>4 DEF PreExit
<1>5. ASSUME NEW p \in Worker, WorkerPrune(p)
      PROVE  UNCHANGED <<belief, network, best>>
  BY <1>5 DEF WorkerPrune
<1>6. ASSUME NEW h \in Hub, HubRun(h)
      PROVE  UNCHANGED <<belief, network, best>>
  BY <1>6 DEF HubRun
<1>7. CASE UNCHANGED vars
  BY <1>3, <1>7 DEF vars
<1>. QED  BY <1>1, <1>2, <1>3, <1>4, <1>5, <1>6, <1>7 DEF Next

(***************************************************************************)
(* The inductive invariant of the broadcasts holds throughout.             *)
(***************************************************************************)
THEOREM BroadcastInvariant == Spec => []BroadcastInv
BY InitInv, StepBroadcast, PTL DEF Spec

(***************************************************************************)
(* The climb from a processor that does not know the best incumbent to the *)
(* root of its broadcast must cross an edge with a message on it.          *)
(***************************************************************************)
LEMMA InvImpliesAgreement == BroadcastInv => AgreementAtQuiescence
<1>. DEFINE s == best[2]
            unaware == {p \in Proc : Belief(p) # best}
<1>1. SUFFICES ASSUME BroadcastInv, network = {}, unaware # {}
               PROVE  FALSE
  BY DEF AgreementAtQuiescence, Quiescent
<1>2. s \in Proc /\ Belief(s) = best
  BY <1>1 DEF BroadcastInv, BestOnItsWay, TypeOK
<1>3. PICK p \in unaware : \A q \in unaware : ~(RelPosition(s, q) < RelPosition(s, p))
  <2>1. unaware \in SUBSET Proc
    OBVIOUS
  <2>. HIDE DEF unaware
  <2>. QED  BY <1>1, <1>2, <2>1, NearestToRoot
<1>4. /\ Parent(s, p) \in Proc
      /\ RelPosition(s, Parent(s, p)) < RelPosition(s, p)
      /\ p \in Children(s, Parent(s, p))
  BY <1>2, <1>3, ParentOfChild
<1>5. Belief(Parent(s, p)) = best
  BY <1>3, <1>4
<1>. QED  BY <1>1, <1>2, <1>3, <1>4, <1>5 DEF BroadcastInv, BestOnItsWay, AnySource, Proc

(***************************************************************************)
(* Once the broadcasts have died out every processor has the best          *)
(* incumbent ever signalled.                                               *)
(***************************************************************************)
THEOREM Agreement == Spec => []AgreementAtQuiescence
BY BroadcastInvariant, InvImpliesAgreement, PTL

(***************************************************************************)
(* The solution object is where the incumbent's source says it is.         *)
(***************************************************************************)
THEOREM SourceHolds == Spec => []SourceHoldsSolution
BY BroadcastInvariant, PTL DEF BroadcastInv

(***************************************************************************)
(* relay() sends as many messages as the tree counts children.             *)
(***************************************************************************)
LEMMA CountRelay ==
  ASSUME NEW s \in Proc, NEW p \in Proc, NEW v \in Value
  PROVE  /\ IsFiniteSet(Relay(p, s, v))
         /\ Cardinality(Relay(p, s, v)) = NumChildren(s, p)
<1>. DEFINE Msg(c) == [dest |-> c, value |-> v, originator |-> s]
            f == [c \in Children(s, p) |-> Msg(c)]
<1>1. \A c, d \in Children(s, p) : Msg(c) = Msg(d) => c = d
  OBVIOUS
<1>2. Relay(p, s, v) = {Msg(c) : c \in Children(s, p)}
  BY DEF Relay
<1>3. f \in Bijection(Children(s, p), Relay(p, s, v))
  <2>. HIDE DEF Msg
  <2>1. f \in [Children(s, p) -> Relay(p, s, v)]
    BY <1>2
  <2>2. \A c, d \in Children(s, p) : f[c] = f[d] => c = d
    BY <1>1
  <2>3. \A m \in Relay(p, s, v) : \E c \in Children(s, p) : f[c] = m
    BY <1>2
  <2>. HIDE DEF f
  <2>. QED  BY <2>1, <2>2, <2>3, Fun_IsBij
<1>4. ExistsBijection(Children(s, p), Relay(p, s, v))
  BY <1>3 DEF ExistsBijection
<1>. QED  BY <1>4, CountChildren, FS_Bijection

(***************************************************************************)
(* Sets without a common member add up.                                    *)
(***************************************************************************)
LEMMA CountDisjoint ==
  ASSUME NEW S, IsFiniteSet(S), NEW T, IsFiniteSet(T), S \cap T = {}
  PROVE  /\ IsFiniteSet(S \cup T)
         /\ Cardinality(S \cup T) = Cardinality(S) + Cardinality(T)
<1>1. Cardinality(S \cap T) = 0
  BY FS_EmptySet
<1>2. Cardinality(S) \in Nat /\ Cardinality(T) \in Nat
  BY FS_CardinalityType
<1>3. Cardinality(S \cup T) = Cardinality(S) + Cardinality(T) - Cardinality(S \cap T)
  BY FS_Union
<1>. QED  BY <1>1, <1>2, <1>3, FS_Union

(***************************************************************************)
(* The variables hold numbers, for the provers' arithmetic.                *)
(***************************************************************************)
LEMMA Numbers ==
  ASSUME TypeOK
  PROVE  /\ \A p \in Proc : incumbentValue[p] \in Int /\ incumbentSource[p] \in Int /\ p \in Int
         /\ \A m \in network : /\ m.value \in Value /\ m.originator \in Proc /\ m.dest \in Proc
                               /\ m.value \in Int /\ m.originator \in Int
BY TreeAssumption, ClusterAssumption DEF TypeOK, Message, Value, NoValue, AnySource, Proc

(***************************************************************************)
(* When ramp-up has ended all pools are pruned and nothing is in flight.   *)
(***************************************************************************)
LEMMA InitPruning == Init => PruningInv
<1>. SUFFICES ASSUME Init PROVE PruningInv
  OBVIOUS
<1>1. BroadcastInv
  BY InitInv
<1>2. IsFiniteSet(network) /\ CountsMatchNetwork
  BY FS_EmptySet DEF Init, CountsMatchNetwork
<1>3. ParentKnows
  BY DEF Init, ParentKnows
<1>4. PICK b \in {<<NoValue, AnySource>>} \cup (Value \X Proc) :
        /\ incumbentValue  = [p \in Proc |-> b[1]]
        /\ incumbentSource = [p \in Proc |-> b[2]]
        /\ workerLoadReport = [w \in RemoteWorker |-> b]
        /\ poolBound = [w \in Worker |-> b[1]]
        /\ hubPoolBound = [h \in Hub |-> b[1]]
        /\ needHubPruning = [p \in Proc |-> FALSE]
        /\ hubInbox = [w \in RemoteWorker |-> <<>>]
  BY DEF Init
<1>5. PoolsFollow /\ HubsWillRun
  BY <1>4, ClusterAssumption DEF PoolsFollow, HubsWillRun
<1>6. ReportsFollow
  <2>1. b = <<b[1], b[2]>>
    OBVIOUS
  <2>. QED  BY <1>4, <2>1, ClusterAssumption DEF ReportsFollow, LatestReport, Belief, RemoteWorker
<1>. QED  BY <1>1, <1>2, <1>3, <1>5, <1>6 DEF PruningInv

(***************************************************************************)
(* A new solution: nobody has sent word of it before.                      *)
(***************************************************************************)
LEMMA FoundSolutionCounts ==
  ASSUME PruningInv, NEW p \in Worker, NEW v \in Value, FoundSolution(p, v)
  PROVE  IsFiniteSet(network)' /\ CountsMatchNetwork' /\ ParentKnows'
<1>1. /\ TypeOK /\ NoEcho /\ ParentKnows /\ p \in Proc
      /\ IsFiniteSet(network) /\ outstanding = Cardinality(network)
  BY ClusterAssumption DEF PruningInv, BroadcastInv, CountsMatchNetwork
<1>2. /\ v < incumbentValue[p] /\ v \in Int
      /\ incumbentValue'[p] = v /\ incumbentSource'[p] = p
      /\ \A q \in Proc : q # p => /\ incumbentValue'[q] = incumbentValue[q]
                                  /\ incumbentSource'[q] = incumbentSource[q]
      /\ network' = network \cup Relay(p, p, v)
      /\ outstanding' = outstanding + NumChildren(p, p)
  BY <1>1, ClusterAssumption DEF FoundSolution, TypeOK, Value
<1>3. \A m \in Relay(p, p, v) :
        /\ m.value = v /\ m.originator = p
        /\ Parent(m.originator, m.dest) = p
  BY <1>1, ParentOfItsChild DEF Relay
<1>4. network \cap Relay(p, p, v) = {}
  <2>1. \A m \in network : m.originator = p /\ Parent(p, m.dest) = p => m.value # v
    BY <1>1, <1>2, Numbers DEF ParentKnows, Beats
  <2>. QED  BY <1>3, <2>1
<1>5. IsFiniteSet(network)' /\ CountsMatchNetwork'
  BY <1>1, <1>2, <1>4, CountRelay, CountDisjoint DEF CountsMatchNetwork
<1>6. ParentKnows'
  <2>1. \A m \in Relay(p, p, v) :
          LET q == Parent(m.originator, m.dest)
          IN  ~Beats(m.value, m.originator, incumbentValue'[q], incumbentSource'[q])
    BY <1>1, <1>2, <1>3, Numbers DEF Beats
  <2>2. ASSUME NEW m \in network
        PROVE  LET q == Parent(m.originator, m.dest)
               IN  ~Beats(m.value, m.originator, incumbentValue'[q], incumbentSource'[q])
    <3>. DEFINE q == Parent(m.originator, m.dest)
    <3>1. q \in Proc
      BY <1>1, Numbers, ParentOfChild DEF NoEcho
    <3>2. ~Beats(m.value, m.originator, incumbentValue[q], incumbentSource[q])
      BY <1>1 DEF ParentKnows
    <3>. HIDE DEF q
    <3>3. ~Beats(m.value, m.originator, incumbentValue'[q], incumbentSource'[q])
      <4>1. CASE q = p
        <5>1. /\ ~Beats(m.value, m.originator, incumbentValue[p], incumbentSource[p])
              /\ m.value \in Int /\ m.originator \in Int /\ p \in Int
              /\ incumbentValue[p] \in Int /\ incumbentSource[p] \in Int
          BY <1>1, <3>2, <4>1, Numbers
        <5>2. ~Beats(m.value, m.originator, v, p)
          BY <1>2, <5>1 DEF Beats
        <5>. QED  BY <1>2, <4>1, <5>2
      <4>2. CASE q # p
        BY <1>2, <3>1, <3>2, <4>2
      <4>. QED  BY <4>1, <4>2
    <3>. QED  BY <3>3 DEF q
  <2>. QED  BY <1>2, <2>1, <2>2 DEF ParentKnows
<1>. QED  BY <1>5, <1>6

(***************************************************************************)
(* A message that is handled is gone; if it is relayed, that is the first  *)
(* time this processor does so.                                            *)
(***************************************************************************)
LEMMA HandleMessageCounts ==
  ASSUME PruningInv, NEW p \in Proc, HandleMessage(p)
  PROVE  IsFiniteSet(network)' /\ CountsMatchNetwork' /\ ParentKnows'
<1>1. /\ TypeOK /\ NoEcho /\ ParentKnows
      /\ IsFiniteSet(network) /\ outstanding = Cardinality(network)
  BY DEF PruningInv, BroadcastInv, CountsMatchNetwork
<1>2. PICK m \in network : m.dest = p /\ (Adopt(p, m) \/ Discard(p, m))
  BY DEF HandleMessage
<1>. DEFINE s == m.originator
            v == m.value
            rest == network \ {m}
<1>3. s \in Proc /\ v \in Value /\ s \in Int /\ v \in Int
  BY <1>1, Numbers
<1>4. /\ IsFiniteSet(rest) /\ Cardinality(rest) = outstanding - 1
      /\ outstanding \in Int
  BY <1>1, FS_RemoveElement, FS_CardinalityType
<1>5. CASE Discard(p, m)
  <2>1. /\ network' = rest /\ outstanding' = outstanding - 1
        /\ incumbentValue' = incumbentValue /\ incumbentSource' = incumbentSource
    BY <1>5 DEF Discard, belief
  <2>2. ParentKnows'
    BY <1>1, <2>1 DEF ParentKnows
  <2>. QED  BY <1>4, <2>1, <2>2 DEF CountsMatchNetwork
<1>6. CASE Adopt(p, m)
  <2>1. /\ Beats(v, s, incumbentValue[p], incumbentSource[p])
        /\ incumbentValue'[p] = v /\ incumbentSource'[p] = s
        /\ \A q \in Proc : q # p => /\ incumbentValue'[q] = incumbentValue[q]
                                    /\ incumbentSource'[q] = incumbentSource[q]
        /\ network' = rest \cup Relay(p, s, v)
        /\ outstanding' = outstanding - 1 + NumChildren(s, p)
    BY <1>1, <1>6 DEF Adopt, TypeOK
  <2>2. \A n \in Relay(p, s, v) :
          n.value = v /\ n.originator = s /\ Parent(n.originator, n.dest) = p
    BY <1>3, ParentOfItsChild DEF Relay
  <2>3. rest \cap Relay(p, s, v) = {}
    <3>1. \A n \in network : n.originator = s /\ Parent(s, n.dest) = p => n.value # v
      BY <1>1, <2>1 DEF ParentKnows
    <3>. QED  BY <2>2, <3>1
  <2>4. IsFiniteSet(network)' /\ CountsMatchNetwork'
    <3>1. IsFiniteSet(Relay(p, s, v)) /\ Cardinality(Relay(p, s, v)) = NumChildren(s, p)
      BY <1>3, CountRelay
    <3>. HIDE DEF rest
    <3>. QED  BY <1>4, <2>1, <2>3, <3>1, CountDisjoint, Z3T(60) DEF CountsMatchNetwork
  <2>5. ParentKnows'
    <3>1. \A n \in Relay(p, s, v) :
            LET q == Parent(n.originator, n.dest)
            IN  ~Beats(n.value, n.originator, incumbentValue'[q], incumbentSource'[q])
      BY <1>3, <2>1, <2>2 DEF Beats
    <3>2. ASSUME NEW n \in network
          PROVE  LET q == Parent(n.originator, n.dest)
                 IN  ~Beats(n.value, n.originator, incumbentValue'[q], incumbentSource'[q])
      <4>. DEFINE q == Parent(n.originator, n.dest)
      <4>1. q \in Proc
        BY <1>1, Numbers, ParentOfChild DEF NoEcho
      <4>2. ~Beats(n.value, n.originator, incumbentValue[q], incumbentSource[q])
        BY <1>1 DEF ParentKnows
      <4>. HIDE DEF q
      <4>3. ~Beats(n.value, n.originator, incumbentValue'[q], incumbentSource'[q])
        <5>1. CASE q = p
          <6>1. /\ ~Beats(n.value, n.originator, incumbentValue[p], incumbentSource[p])
                /\ n.value \in Int /\ n.originator \in Int
                /\ incumbentValue[p] \in Int /\ incumbentSource[p] \in Int
            BY <1>1, <4>2, <5>1, Numbers
          <6>2. ~Beats(n.value, n.originator, v, s)
            BY <1>3, <2>1, <6>1 DEF Beats
          <6>. QED  BY <2>1, <5>1, <6>2
        <5>2. CASE q # p
          BY <2>1, <4>1, <4>2, <5>2
        <5>. QED  BY <5>1, <5>2
      <4>. QED  BY <4>3 DEF q
    <3>. QED  BY <2>1, <3>1, <3>2 DEF ParentKnows
  <2>. QED  BY <2>4, <2>5
<1>. QED  BY <1>2, <1>5, <1>6

(***************************************************************************)
(* A change of belief marks every pool it concerns.                        *)
(***************************************************************************)
LEMMA BeliefChangeIsMarked ==
  ASSUME TypeOK, TypeOK', PoolsFollow, HubsWillRun, ReportsFollow, NEW p \in Proc,
         \A q \in Proc : q # p => /\ incumbentValue'[q] = incumbentValue[q]
                                  /\ incumbentSource'[q] = incumbentSource[q],
         needPruning' = [needPruning EXCEPT ![p] = TRUE],
         needHubPruning' = [needHubPruning EXCEPT ![p] = @ \/ p \in Hub],
         \A q \in Proc : running[q] => running'[q],
         p \in Worker \/ running'[p],
         UNCHANGED <<reports, poolBound, hubPoolBound>>
  PROVE  PoolsFollow' /\ HubsWillRun' /\ ReportsFollow'
<1>1. /\ Worker \subseteq Proc /\ Hub \subseteq Proc /\ RemoteWorker \subseteq Worker
      /\ needPruning \in [Proc -> BOOLEAN] /\ needHubPruning \in [Proc -> BOOLEAN]
  BY ClusterAssumption DEF TypeOK, RemoteWorker
<1>2. /\ needPruning'[p]
      /\ \A q \in Proc : q # p => needPruning'[q] = needPruning[q]
  BY <1>1
<1>3. /\ p \in Hub => needHubPruning'[p]
      /\ \A q \in Proc : q # p => needHubPruning'[q] = needHubPruning[q]
  BY <1>1
<1>4. PoolsFollow'
  BY <1>1, <1>2, <1>3 DEF PoolsFollow
<1>5. HubsWillRun'
  <2>1. ASSUME NEW h \in Hub, needHubPruning'[h]
        PROVE  running'[h] \/ (h \in Worker /\ needPruning'[h]) \/ HubMayBeReady(h)'
    <3>1. HubMayBeReady(h)' = HubMayBeReady(h)
      BY DEF HubMayBeReady, reports
    <3>2. CASE h = p
      BY <1>2, <3>2
    <3>3. CASE h # p
      <4>1. running[h] \/ (h \in Worker /\ needPruning[h]) \/ HubMayBeReady(h)
        BY <1>1, <1>3, <2>1, <3>3 DEF HubsWillRun
      <4>. QED  BY <1>1, <1>2, <3>1, <3>3, <4>1
    <3>. QED  BY <3>2, <3>3
  <2>. QED  BY <2>1 DEF HubsWillRun
<1>6. ReportsFollow'
  BY <1>1, <1>2 DEF ReportsFollow, LatestReport, Belief, reports
<1>. QED  BY <1>4, <1>5, <1>6

(***************************************************************************)
(* Running the hub prunes what is marked.                                  *)
(***************************************************************************)
LEMMA ActivateHubPrunes ==
  ASSUME TypeOK, PoolsFollow, NEW h \in Hub, ActivateHub(h), UNCHANGED belief
  PROVE  /\ PoolsFollow'
         /\ ~needHubPruning'[h]
         /\ \A k \in Proc : k # h => /\ needHubPruning'[k] = needHubPruning[k]
                                     /\ needPruning'[k] = needPruning[k]
<1>1. /\ h \in Proc /\ Worker \subseteq Proc /\ Hub \subseteq Proc
      /\ incumbentValue' = incumbentValue
      /\ needPruning \in [Proc -> BOOLEAN] /\ needHubPruning \in [Proc -> BOOLEAN]
      /\ poolBound \in [Worker -> Value \cup {NoValue}]
      /\ hubPoolBound \in [Hub -> Value \cup {NoValue}]
  BY ClusterAssumption DEF TypeOK, belief
<1>2. CASE needHubPruning[h] /\ h \in Worker /\ needPruning[h]
  <2>1. /\ hubPoolBound'   = [hubPoolBound EXCEPT ![h] = incumbentValue[h]]
        /\ needHubPruning' = [needHubPruning EXCEPT ![h] = FALSE]
        /\ poolBound'      = [poolBound EXCEPT ![h] = incumbentValue[h]]
        /\ needPruning'    = [needPruning EXCEPT ![h] = FALSE]
    BY <1>2 DEF ActivateHub
  <2>. QED  BY <1>1, <1>2, <2>1 DEF PoolsFollow
<1>3. CASE needHubPruning[h] /\ ~(h \in Worker /\ needPruning[h])
  <2>1. /\ hubPoolBound'   = [hubPoolBound EXCEPT ![h] = incumbentValue[h]]
        /\ needHubPruning' = [needHubPruning EXCEPT ![h] = FALSE]
        /\ poolBound' = poolBound /\ needPruning' = needPruning
    BY <1>3 DEF ActivateHub
  <2>. QED  BY <1>1, <1>3, <2>1 DEF PoolsFollow
<1>4. CASE ~needHubPruning[h]
  BY <1>1, <1>4 DEF ActivateHub, pruning, PoolsFollow
<1>. QED  BY <1>2, <1>3, <1>4

(***************************************************************************)
(* The broadcast thread activates its hub, or leaves that to reports that  *)
(* have arrived.                                                           *)
(***************************************************************************)
LEMMA PreExitPrunes ==
  ASSUME TypeOK, PoolsFollow, HubsWillRun, ReportsFollow, NEW p \in Proc, PreExit(p)
  PROVE  PoolsFollow' /\ HubsWillRun' /\ ReportsFollow'
<1>1. /\ Worker \subseteq Proc /\ Hub \subseteq Proc
      /\ RemoteWorker \subseteq Worker /\ RemoteWorker \cap Hub = {}
      /\ incumbentValue' = incumbentValue /\ incumbentSource' = incumbentSource
      /\ UNCHANGED belief
      /\ hubInbox' = hubInbox /\ workerLoadReport' = workerLoadReport
      /\ running' = [running EXCEPT ![p] = FALSE] /\ running \in [Proc -> BOOLEAN]
  BY ClusterAssumption DEF TypeOK, RemoteWorker, PreExit, belief, reports
<1>2. CASE p \in Hub /\ ActivateHub(p)
  <2>1. /\ PoolsFollow' /\ ~needHubPruning'[p]
        /\ \A k \in Proc : k # p => /\ needHubPruning'[k] = needHubPruning[k]
                                    /\ needPruning'[k] = needPruning[k]
    BY <1>1, <1>2, ActivateHubPrunes
  <2>2. HubsWillRun'
    BY <1>1, <2>1 DEF HubsWillRun, HubMayBeReady
  <2>3. ReportsFollow'
    BY <1>1, <1>2, <2>1 DEF ReportsFollow, LatestReport, Belief
  <2>. QED  BY <2>1, <2>2, <2>3
<1>3. CASE (p \notin Hub \/ HubMayBeReady(p)) /\ UNCHANGED pruning
  BY <1>1, <1>3
     DEF pruning, PoolsFollow, HubsWillRun, HubMayBeReady, ReportsFollow, LatestReport, Belief
<1>. QED  BY <1>2, <1>3 DEF PreExit

(***************************************************************************)
(* A worker that prunes reports to its hub, or prunes the hub it is itself. *)
(***************************************************************************)
LEMMA WorkerPrunes ==
  ASSUME TypeOK, TypeOK', PoolsFollow, HubsWillRun, ReportsFollow,
         NEW p \in Worker, WorkerPrune(p)
  PROVE  PoolsFollow' /\ HubsWillRun' /\ ReportsFollow'
<1>1. /\ p \in Proc /\ Worker \subseteq Proc /\ Hub \subseteq Proc
      /\ RemoteWorker \subseteq Worker /\ RemoteWorker \cap Hub = {}
      /\ (p \notin Hub => p \in RemoteWorker)
  BY ClusterAssumption DEF RemoteWorker
<1>2. /\ incumbentValue' = incumbentValue /\ incumbentSource' = incumbentSource
      /\ workerLoadReport' = workerLoadReport /\ running' = running
      /\ poolBound'   = [poolBound EXCEPT ![p] = incumbentValue[p]]
      /\ needPruning' = [needPruning EXCEPT ![p] = FALSE]
  BY DEF WorkerPrune, belief
<1>3. /\ poolBound \in [Worker -> Value \cup {NoValue}]
      /\ needPruning \in [Proc -> BOOLEAN] /\ needHubPruning \in [Proc -> BOOLEAN]
      /\ hubPoolBound \in [Hub -> Value \cup {NoValue}]
      /\ hubInbox \in [RemoteWorker -> Seq((Value \cup {NoValue}) \X (Proc \cup {AnySource}))]
  BY DEF TypeOK
<1>4. \A w \in Worker : needPruning'[w] \/ poolBound'[w] = incumbentValue'[w]
  BY <1>1, <1>2, <1>3 DEF PoolsFollow
<1>5. CASE p \in Hub
  <2>1. /\ IF needHubPruning[p]
           THEN hubPoolBound' = [hubPoolBound EXCEPT ![p] = incumbentValue[p]]
           ELSE hubPoolBound' = hubPoolBound
        /\ needHubPruning' = [needHubPruning EXCEPT ![p] = FALSE]
        /\ hubInbox' = hubInbox
    BY <1>5 DEF WorkerPrune
  <2>2. \A h \in Hub : needHubPruning'[h] \/ hubPoolBound'[h] = incumbentValue'[h]
    BY <1>1, <1>2, <1>3, <1>5, <2>1 DEF PoolsFollow
  <2>3. HubsWillRun'
    BY <1>1, <1>2, <1>3, <2>1 DEF HubsWillRun, HubMayBeReady
  <2>4. ReportsFollow'
    BY <1>1, <1>2, <1>3, <1>5, <2>1 DEF ReportsFollow, LatestReport, Belief
  <2>. QED  BY <1>4, <2>2, <2>3, <2>4 DEF PoolsFollow
<1>6. CASE p \notin Hub
  <2>1. /\ hubInbox' = [hubInbox EXCEPT ![p] = Append(@, Belief(p))]
        /\ hubPoolBound' = hubPoolBound /\ needHubPruning' = needHubPruning
    BY <1>6 DEF WorkerPrune
  <2>2. /\ hubInbox'[p] # <<>>
        /\ hubInbox'[p][Len(hubInbox'[p])] = Belief(p)
        /\ \A w \in RemoteWorker : w # p => hubInbox'[w] = hubInbox[w]
    <3>1. hubInbox'[p] = Append(hubInbox[p], Belief(p))
      BY <1>1, <1>3, <1>6, <2>1
    <3>2. hubInbox[p] \in Seq((Value \cup {NoValue}) \X (Proc \cup {AnySource}))
      BY <1>1, <1>3, <1>6
    <3>3. Belief(p) \in (Value \cup {NoValue}) \X (Proc \cup {AnySource})
      BY <1>1 DEF TypeOK, Belief
    <3>4. /\ Append(hubInbox[p], Belief(p)) # <<>>
          /\ Append(hubInbox[p], Belief(p))[Len(hubInbox[p]) + 1] = Belief(p)
          /\ Len(Append(hubInbox[p], Belief(p))) = Len(hubInbox[p]) + 1
      BY <3>2, <3>3, AppendProperties, EmptySeq, LenProperties
    <3>5. \A w \in RemoteWorker : w # p => hubInbox'[w] = hubInbox[w]
      BY <1>3, <2>1
    <3>. QED  BY <3>1, <3>4, <3>5
  <2>3. \A h \in Hub : needHubPruning'[h] \/ hubPoolBound'[h] = incumbentValue'[h]
    BY <1>2, <2>1 DEF PoolsFollow
  <2>4. HubsWillRun'
    <3>1. \A h \in Hub : HubMayBeReady(h) => HubMayBeReady(h)'
      BY <2>2 DEF HubMayBeReady
    <3>. QED  BY <1>1, <1>2, <1>3, <1>6, <2>1, <3>1 DEF HubsWillRun
  <2>5. ReportsFollow'
    <3>1. LatestReport(p)' = Belief(p)'
      BY <1>2, <2>2 DEF LatestReport, Belief
    <3>2. \A w \in RemoteWorker : w # p =>
            /\ LatestReport(w)' = LatestReport(w) /\ Belief(w)' = Belief(w)
            /\ needPruning'[w] = needPruning[w]
      BY <1>1, <1>2, <1>3, <2>2 DEF LatestReport, Belief
    <3>. QED  BY <3>1, <3>2 DEF ReportsFollow
  <2>. QED  BY <1>4, <2>3, <2>4, <2>5 DEF PoolsFollow
<1>. QED  BY <1>5, <1>6

(***************************************************************************)
(* Taking the first report does not change the last one.                   *)
(***************************************************************************)
LEMMA LastOfTail ==
  ASSUME NEW S, NEW s \in Seq(S), s # <<>>
  PROVE  IF Tail(s) = <<>> THEN Head(s) = s[Len(s)]
                           ELSE Tail(s)[Len(Tail(s))] = s[Len(s)]
<1>. DEFINE t == Tail(s)
<1>1. /\ t \in Seq(S) /\ Len(t) = Len(s) - 1
      /\ \A i \in 1 .. Len(t) : t[i] = s[i + 1]
      /\ Len(s) \in Nat
  BY HeadTailProperties, LenProperties
<1>2. Head(s) = s[1]
  OBVIOUS
<1>. HIDE DEF t
<1>3. CASE t = <<>>
  <2>1. Len(t) = 0
    BY <1>3, EmptySeq
  <2>2. Len(s) = 1
    BY <1>1, <2>1
  <2>. QED  BY <1>2, <1>3, <2>2 DEF t
<1>4. CASE t # <<>>
  <2>1. Len(t) \in Nat \ {0}
    BY <1>1, <1>4, EmptySeq
  <2>2. t[Len(t)] = s[Len(s)]
    BY <1>1, <2>1
  <2>. QED  BY <1>4, <2>2 DEF t
<1>. QED  BY <1>3, <1>4

(***************************************************************************)
(* The hub thread takes a report and prunes.                               *)
(***************************************************************************)
LEMMA HubRunPrunes ==
  ASSUME TypeOK, PoolsFollow, HubsWillRun, ReportsFollow, NEW h \in Hub, HubRun(h)
  PROVE  PoolsFollow' /\ HubsWillRun' /\ ReportsFollow'
<1>1. /\ h \in Proc /\ Worker \subseteq Proc /\ Hub \subseteq Proc
      /\ RemoteWorker \subseteq Worker /\ RemoteWorker \cap Hub = {}
      /\ incumbentValue' = incumbentValue /\ incumbentSource' = incumbentSource
      /\ UNCHANGED belief /\ running' = running
      /\ hubInbox \in [RemoteWorker -> Seq((Value \cup {NoValue}) \X (Proc \cup {AnySource}))]
      /\ workerLoadReport \in [RemoteWorker -> (Value \cup {NoValue}) \X (Proc \cup {AnySource})]
  BY ClusterAssumption DEF TypeOK, RemoteWorker, HubRun, belief
<1>2. PICK w \in RemoteWorker :
        /\ HubOf[w] = h /\ hubInbox[w] # <<>>
        /\ workerLoadReport' = [workerLoadReport EXCEPT ![w] = Head(hubInbox[w])]
        /\ hubInbox' = [hubInbox EXCEPT ![w] = Tail(@)]
  BY DEF HubRun
<1>3. /\ PoolsFollow' /\ ~needHubPruning'[h]
      /\ \A k \in Proc : k # h => /\ needHubPruning'[k] = needHubPruning[k]
                                  /\ needPruning'[k] = needPruning[k]
  BY <1>1, ActivateHubPrunes DEF HubRun
<1>4. /\ workerLoadReport'[w] = Head(hubInbox[w]) /\ hubInbox'[w] = Tail(hubInbox[w])
      /\ \A u \in RemoteWorker : u # w => /\ hubInbox'[u] = hubInbox[u]
                                          /\ workerLoadReport'[u] = workerLoadReport[u]
  BY <1>1, <1>2
<1>5. HubsWillRun'
  <2>1. ASSUME NEW k \in Hub, k # h, HubMayBeReady(k)
        PROVE  HubMayBeReady(k)'
    BY <1>2, <1>4, <2>1 DEF HubMayBeReady
  <2>. QED  BY <1>1, <1>3, <2>1 DEF HubsWillRun
<1>6. LatestReport(w)' = LatestReport(w)
  <2>1. /\ hubInbox[w] # <<>>
        /\ IF Tail(hubInbox[w]) = <<>>
           THEN Head(hubInbox[w]) = hubInbox[w][Len(hubInbox[w])]
           ELSE Tail(hubInbox[w])[Len(Tail(hubInbox[w]))] = hubInbox[w][Len(hubInbox[w])]
    BY <1>1, <1>2, LastOfTail
  <2>. QED  BY <1>4, <2>1 DEF LatestReport
<1>7. ReportsFollow'
  <2>1. \A u \in RemoteWorker : LatestReport(u)' = LatestReport(u)
    BY <1>4, <1>6 DEF LatestReport
  <2>. QED  BY <1>1, <1>3, <2>1 DEF ReportsFollow, Belief
<1>. QED  BY <1>3, <1>5, <1>7

(***************************************************************************)
(* Each step preserves the part of the invariant about pools and reports,  *)
(* and the one about counts.                                               *)
(***************************************************************************)
LEMMA FoundSolutionMarks ==
  ASSUME PruningInv, TypeOK', NEW p \in Worker, NEW v \in Value, FoundSolution(p, v)
  PROVE  PoolsFollow' /\ HubsWillRun' /\ ReportsFollow'
<1>1. TypeOK /\ PoolsFollow /\ HubsWillRun /\ ReportsFollow /\ p \in Proc
  BY ClusterAssumption DEF PruningInv, BroadcastInv
<1>2. /\ \A q \in Proc : q # p => /\ incumbentValue'[q] = incumbentValue[q]
                                  /\ incumbentSource'[q] = incumbentSource[q]
      /\ needPruning' = [needPruning EXCEPT ![p] = TRUE]
      /\ needHubPruning' = [needHubPruning EXCEPT ![p] = @ \/ p \in Hub]
      /\ running' = running
      /\ UNCHANGED <<reports, poolBound, hubPoolBound>>
  BY <1>1 DEF FoundSolution, TypeOK
<1>. QED  BY <1>1, <1>2, BeliefChangeIsMarked

LEMMA HandleMessageMarks ==
  ASSUME PruningInv, TypeOK', NEW p \in Proc, HandleMessage(p)
  PROVE  PoolsFollow' /\ HubsWillRun' /\ ReportsFollow'
<1>1. TypeOK /\ PoolsFollow /\ HubsWillRun /\ ReportsFollow
  BY DEF PruningInv, BroadcastInv
<1>2. PICK m \in network : m.dest = p /\ (Adopt(p, m) \/ Discard(p, m))
  BY DEF HandleMessage
<1>3. /\ \A q \in Proc : running[q] => running'[q]
      /\ running'[p]
      /\ UNCHANGED <<reports, poolBound, hubPoolBound>>
  BY <1>1 DEF HandleMessage, TypeOK
<1>4. CASE Adopt(p, m)
  <2>1. /\ \A q \in Proc : q # p => /\ incumbentValue'[q] = incumbentValue[q]
                                    /\ incumbentSource'[q] = incumbentSource[q]
        /\ needPruning' = [needPruning EXCEPT ![p] = TRUE]
        /\ needHubPruning' = [needHubPruning EXCEPT ![p] = @ \/ p \in Hub]
    BY <1>1, <1>4 DEF Adopt, TypeOK
  <2>. QED  BY <1>1, <1>3, <2>1, BeliefChangeIsMarked
<1>5. CASE Discard(p, m)
  <2>1. UNCHANGED <<incumbentValue, incumbentSource, needPruning, needHubPruning,
                    poolBound, hubPoolBound, hubInbox, workerLoadReport>>
    BY <1>3, <1>5 DEF Discard, belief, reports
  <2>2. PoolsFollow' /\ ReportsFollow'
    BY <1>1, <2>1 DEF PoolsFollow, ReportsFollow, LatestReport, Belief
  <2>3. HubsWillRun'
    BY <1>1, <1>3, <2>1, ClusterAssumption DEF HubsWillRun, HubMayBeReady
  <2>. QED  BY <2>2, <2>3
<1>. QED  BY <1>2, <1>4, <1>5

(***************************************************************************)
(* Every step preserves the invariant about what broadcasts leave.         *)
(***************************************************************************)
LEMMA StepPruning == PruningInv /\ [Next]_vars => PruningInv'
<1>. SUFFICES ASSUME PruningInv, [Next]_vars PROVE PruningInv'
  OBVIOUS
<1>1. /\ BroadcastInv /\ BroadcastInv' /\ TypeOK /\ TypeOK'
      /\ PoolsFollow /\ HubsWillRun /\ ReportsFollow
  BY StepBroadcast DEF PruningInv, BroadcastInv
<1>2. ASSUME UNCHANGED <<belief, network, outstanding>>
      PROVE  IsFiniteSet(network)' /\ CountsMatchNetwork' /\ ParentKnows'
  BY <1>2 DEF PruningInv, CountsMatchNetwork, ParentKnows, belief
<1>3. ASSUME NEW p \in Worker, NEW v \in Value, FoundSolution(p, v)
      PROVE  PruningInv'
  BY <1>1, <1>3, FoundSolutionCounts, FoundSolutionMarks DEF PruningInv
<1>4. ASSUME NEW p \in Proc, HandleMessage(p)
      PROVE  PruningInv'
  BY <1>1, <1>4, HandleMessageCounts, HandleMessageMarks DEF PruningInv
<1>5. ASSUME NEW p \in Proc, PreExit(p)
      PROVE  PruningInv'
  <2>1. UNCHANGED <<belief, network, outstanding>>
    BY <1>5 DEF PreExit
  <2>. QED  BY <1>1, <1>2, <1>5, <2>1, PreExitPrunes DEF PruningInv
<1>6. ASSUME NEW p \in Worker, WorkerPrune(p)
      PROVE  PruningInv'
  <2>1. UNCHANGED <<belief, network, outstanding>>
    BY <1>6 DEF WorkerPrune
  <2>. QED  BY <1>1, <1>2, <1>6, <2>1, WorkerPrunes DEF PruningInv
<1>7. ASSUME NEW h \in Hub, HubRun(h)
      PROVE  PruningInv'
  <2>1. UNCHANGED <<belief, network, outstanding>>
    BY <1>7 DEF HubRun
  <2>. QED  BY <1>1, <1>2, <1>7, <2>1, HubRunPrunes DEF PruningInv
<1>8. CASE UNCHANGED vars
  <2>1. UNCHANGED <<belief, network, outstanding>>
    BY <1>8 DEF vars
  <2>2. PoolsFollow' /\ HubsWillRun' /\ ReportsFollow'
    BY <1>1, <1>8 DEF vars, belief, pruning, reports, PoolsFollow, HubsWillRun, HubMayBeReady,
                     ReportsFollow, LatestReport, Belief
  <2>. QED  BY <1>1, <1>2, <2>1, <2>2 DEF PruningInv
<1>. QED  BY <1>3, <1>4, <1>5, <1>6, <1>7, <1>8 DEF Next

(***************************************************************************)
(* The inductive invariant of what the broadcast leaves behind.            *)
(***************************************************************************)
THEOREM PruningInvariant == Spec => []PruningInv
BY InitPruning, StepPruning, PTL DEF Spec

(***************************************************************************)
(* At rest nothing is marked and no report is on its way.                  *)
(***************************************************************************)
LEMMA InvLeavesNothing == PruningInv => BroadcastLeavesNothing
<1>. SUFFICES ASSUME PruningInv, Idle PROVE
       /\ \A w \in Worker : poolBound[w] = incumbentValue[w]
       /\ \A h \in Hub : hubPoolBound[h] = incumbentValue[h] /\ ~needHubPruning[h]
       /\ \A w \in RemoteWorker : workerLoadReport[w] = Belief(w)
  BY DEF PruningInv, BroadcastLeavesNothing, NothingLeftToPrune
<1>1. PoolsFollow /\ HubsWillRun /\ ReportsFollow
  BY DEF PruningInv
<1>2. \A h \in Hub : ~needHubPruning[h]
  BY <1>1, ClusterAssumption DEF Idle, HubsWillRun, HubMayBeReady
<1>. QED  BY <1>1, <1>2 DEF Idle, PoolsFollow, ReportsFollow, LatestReport, RemoteWorker

(***************************************************************************)
(* The counts of incumbent messages are exact at any time, and when all    *)
(* the threads are idle every pool has been pruned with the last incumbent *)
(* and every hub knows that its workers know it.                           *)
(***************************************************************************)
THEOREM NothingIsLeft == Spec => []BroadcastLeavesNothing
BY PruningInvariant, InvLeavesNothing, PTL

=============================================================================
