------------------------- MODULE WorkTransfer_proofs -------------------------
(***************************************************************************)
(* No subproblem is lost or searched twice, whatever the clusters are, the *)
(* search tree, the incumbents and the order of messages.                  *)
(***************************************************************************)
EXTENDS WorkTransfer, TLAPS, FiniteSetTheorems, WellFoundedInduction

-----------------------------------------------------------------------------
(***************************************************************************)
(* The search tree.                                                        *)
(***************************************************************************)
\* From a leaf there is no way to anything else.
LEMMA BelowLeaf ==
  ASSUME WorkAssumption, NEW s \in Leaf, NEW l \in LeavesBelow[s]
  PROVE  l = s
<1>1. s \in Sub /\ \A t \in {s} : Children[t] \subseteq {s}
  BY DEF Leaf
<1> QED BY <1>1 DEF LeavesBelow

\* A leaf is below itself.
LEMMA LeafIsBelow ==
  ASSUME WorkAssumption, NEW s \in Leaf
  PROVE  s \in LeavesBelow[s]
BY DEF Leaf, LeavesBelow

\* All leaves are below the root.
LEMMA BelowRoot ==
  ASSUME WorkAssumption, NEW l \in Leaf
  PROVE  l \in LeavesBelow[Root]
BY DEF WorkAssumption, SearchTreeAssumption, LeavesBelow, Leaf

\* What is below a subproblem that has children is below one of these.
LEMMA BelowChild ==
  ASSUME WorkAssumption, NEW s \in Sub, s \notin Leaf, NEW l \in LeavesBelow[s]
  PROVE  \E c \in Children[s] : l \in LeavesBelow[c]
<1> DEFINE Closed(S) == \A t \in S : Children[t] \subseteq S
<1> DEFINE Reached(u) == {t \in Sub : \A S \in SUBSET Sub : u \in S /\ Closed(S) => t \in S}
<1> DEFINE All == {s} \cup {t \in Sub : \E c \in Children[s] : t \in Reached(c)}
<1>0. l \in Leaf /\ \A S \in SUBSET Sub : s \in S /\ Closed(S) => l \in S
  BY DEF LeavesBelow
<1>1. Children \in [Sub -> SUBSET Sub]
  BY DEF WorkAssumption, SearchTreeAssumption
<1>2. \A u \in Sub : u \in Reached(u) /\ Closed(Reached(u))
  <2> SUFFICES ASSUME NEW u \in Sub PROVE u \in Reached(u) /\ Closed(Reached(u))
    OBVIOUS
  <2>1. ASSUME NEW t \in Reached(u), NEW v \in Children[t] PROVE v \in Reached(u)
    BY <1>1, <2>1
  <2> QED BY <2>1
<1>3. Closed(All)
  <2> SUFFICES ASSUME NEW t \in All, NEW v \in Children[t] PROVE v \in All
    OBVIOUS
  <2>0. v \in Sub
    BY <1>1
  <2>1. CASE t = s
    BY <1>1, <1>2, <2>0, <2>1
  <2>2. CASE t # s
    <3>1. PICK c \in Children[s] : t \in Reached(c)
      BY <2>2
    <3>2. v \in Reached(c)
      BY <1>1, <1>2, <3>1
    <3> QED BY <2>0, <3>1, <3>2
  <2> QED BY <2>1, <2>2
<1>4. l \in All
  <2> HIDE DEF Closed
  <2>1. All \in SUBSET Sub /\ s \in All
    BY Zenon
  <2> QED BY <1>0, <1>3, <2>1
<1>5. PICK c \in Children[s] : l \in Reached(c)
  BY <1>0, <1>4
<1> QED BY <1>0, <1>1, <1>5 DEF LeavesBelow

\* Bounds grow from a subproblem to all leaves below it.
LEMMA BoundBelow ==
  ASSUME WorkAssumption, NEW s \in Sub, NEW l \in LeavesBelow[s]
  PROVE  /\ l \in Leaf /\ l \in Sub
         /\ Bound[s] \in Nat /\ Bound[l] \in Nat /\ Bound[s] <= Bound[l]
<1> DEFINE S == {t \in Sub : Bound[s] <= Bound[t]}
<1>0. /\ Children \in [Sub -> SUBSET Sub] /\ Bound \in [Sub -> Nat]
      /\ \A t \in Sub : \A c \in Children[t] : Bound[t] <= Bound[c]
  BY DEF WorkAssumption, SearchTreeAssumption
<1>1. ASSUME NEW t \in S, NEW c \in Children[t] PROVE c \in S
  <2>1. c \in Sub /\ Bound[t] <= Bound[c] /\ Bound[s] <= Bound[t]
    BY <1>0
  <2> QED BY <1>0, <2>1
<1>2. S \in SUBSET Sub /\ s \in S
  BY <1>0
<1> HIDE DEF S
<1>3. l \in S
  BY <1>1, <1>2 DEF LeavesBelow
<1> QED BY <1>0, <1>3 DEF S, LeavesBelow, Leaf

\* Nothing but its parent has a subproblem for a child.
LEMMA OneParent ==
  ASSUME WorkAssumption, NEW s \in Sub, NEW t \in Sub, NEW c \in Children[s], c \in Children[t]
  PROVE  s = t
BY DEF WorkAssumption, SearchTreeAssumption

-----------------------------------------------------------------------------
(***************************************************************************)
(* The best incumbent.                                                     *)
(***************************************************************************)
LEMMA LeastExists ==
  ASSUME NEW S, S \subseteq Nat, S # {}
  PROVE  Min(S) \in S /\ \A x \in S : Min(S) <= x
<1>1. IsWellFoundedOn(OpToRel(<, Nat), Nat)
  BY NatLessThanWellFounded
<1>2. PICK x \in S : \A y \in S : ~(<<y, x>> \in OpToRel(<, Nat))
  BY <1>1, WFMin, Zenon
<1>3. \A y \in S : ~(y < x)
  BY <1>2 DEF OpToRel
<1>4. \A y \in S : x <= y
  BY <1>3
<1> QED BY <1>4 DEF Min

\* Best, or any other minimum over the processors.
LEMMA LeastValue ==
  ASSUME WorkAssumption, NEW f \in [Proc -> Nat]
  PROVE  /\ Min(Range(f)) \in Nat
         /\ \A p \in Proc : Min(Range(f)) <= f[p]
         /\ \E p \in Proc : Min(Range(f)) = f[p]
<1>0. Range(f) \subseteq Nat /\ Range(f) # {} /\ \A v \in Range(f) : \E p \in Proc : v = f[p]
  BY DEF Range, WorkAssumption, Proc
<1>1. Min(Range(f)) \in Range(f) /\ \A u \in Range(f) : Min(Range(f)) <= u
  BY <1>0, LeastExists
<1> QED BY <1>0, <1>1 DEF Range

-----------------------------------------------------------------------------
(***************************************************************************)
(* The carriers of a subproblem, one kind after the other.                 *)
(***************************************************************************)
InBuffer(buffers, s, x) ==
  \E w \in RemoteWorker : \E i \in DOMAIN buffers[w] :
    x = <<"buffer", buffers[w][i].owner, w, i>> /\ StandsFor(buffers[w][i], s)

InQueue(queues, s, x) ==
  \E h \in Hub, p \in Worker : \E i \in DOMAIN queues[h][p] :
    \E j \in DOMAIN queues[h][p][i].tokens :
      /\ x = <<"queue", queues[h][p][i].tokens[j].owner, h, p, i, j>>
      /\ StandsFor(queues[h][p][i].tokens[j], s)

InHub(tokens, pools, s, x) ==
  \E h \in Hub : \E a \in pools[h] :
    x = <<"hub", tokens[h][a].owner, h, a>> /\ StandsFor(tokens[h][a], s)

InDispatch(messages, s, x) ==
  \E m \in messages :
    m.type = "dispatch" /\ x = <<"dispatch", m.token.owner, m>> /\ StandsFor(m.token, s)

InDelivery(messages, s, x) ==
  \E m \in messages : m.type = "deliver" /\ x = <<"delivery", m>> /\ m.sub = s

InPool(pools, s, x) == \E w \in Worker : x = <<"pool", w>> /\ s \in pools[w]

\* Buffers and queues together.
Wired(s, x) == InBuffer(outBuffer, s, x) \/ InQueue(hubQueue, s, x)

\* What carries s, kind by kind.
LEMMA CarriersNow ==
  \A s, x : x \in Carriers(s) <=> \/ Wired(s, x) \/ InHub(token, hubPool, s, x)
                                 \/ InDispatch(network, s, x) \/ InDelivery(network, s, x)
                                 \/ InPool(workerPool, s, x)
<1> SUFFICES ASSUME NEW s, NEW x
             PROVE  x \in Carriers(s) <=> \/ Wired(s, x) \/ InHub(token, hubPool, s, x)
                                          \/ InDispatch(network, s, x)
                                          \/ InDelivery(network, s, x)
                                          \/ InPool(workerPool, s, x)
  OBVIOUS
<1>1. x \in Buffered(s) <=> InBuffer(outBuffer, s, x)
  <2> DEFINE F(w) == {<<"buffer", outBuffer[w][i].owner, w, i>> : i \in Promised(outBuffer[w], s)}
  <2>1. x \in Buffered(s) <=> \E w \in RemoteWorker : x \in F(w)
    BY Zenon DEF Buffered
  <2>2. \A w : x \in F(w) <=> \E i \in DOMAIN outBuffer[w] :
          x = <<"buffer", outBuffer[w][i].owner, w, i>> /\ StandsFor(outBuffer[w][i], s)
    BY DEF Promised
  <2> HIDE DEF F
  <2> QED BY <2>1, <2>2, Zenon DEF InBuffer
<1>2. x \in Queued(s) <=> InQueue(hubQueue, s, x)
  <2> DEFINE G(h, p, i) == {<<"queue", hubQueue[h][p][i].tokens[j].owner, h, p, i, j>> :
                              j \in Promised(hubQueue[h][p][i].tokens, s)}
  <2>1. \A h, p, i : x \in G(h, p, i) <=> \E j \in DOMAIN hubQueue[h][p][i].tokens :
          /\ x = <<"queue", hubQueue[h][p][i].tokens[j].owner, h, p, i, j>>
          /\ StandsFor(hubQueue[h][p][i].tokens[j], s)
    BY DEF Promised
  <2>2. \A h, p : x \in QueuedFrom(s, h, p) <=> \E i \in DOMAIN hubQueue[h][p] : x \in G(h, p, i)
    <3> SUFFICES ASSUME NEW h, NEW p
                 PROVE  x \in QueuedFrom(s, h, p) <=> \E i \in DOMAIN hubQueue[h][p] : x \in G(h, p, i)
      OBVIOUS
    <3>1. QueuedFrom(s, h, p) = UNION {G(h, p, i) : i \in DOMAIN hubQueue[h][p]}
      BY DEF QueuedFrom
    <3> HIDE DEF G
    <3> QED BY <3>1
  <2>3. x \in Queued(s) <=> \E h \in Hub, p \in Worker : x \in QueuedFrom(s, h, p)
    BY DEF Queued
  <2> HIDE DEF G
  <2>4. \A h, p : x \in QueuedFrom(s, h, p) <=> \E i \in DOMAIN hubQueue[h][p] :
          \E j \in DOMAIN hubQueue[h][p][i].tokens :
            /\ x = <<"queue", hubQueue[h][p][i].tokens[j].owner, h, p, i, j>>
            /\ StandsFor(hubQueue[h][p][i].tokens[j], s)
    BY <2>1, <2>2
  <2> HIDE DEF StandsFor
  <2> QED BY <2>3, <2>4 DEF InQueue
<1>3. x \in Pooled(s) <=> InHub(token, hubPool, s, x)
  <2> DEFINE F(h) == {<<"hub", token[h][a].owner, h, a>> :
                        a \in {b \in hubPool[h] : StandsFor(token[h][b], s)}}
  <2>1. x \in Pooled(s) <=> \E h \in Hub : x \in F(h)
    BY Zenon DEF Pooled
  <2>2. \A h : x \in F(h) <=> \E a \in hubPool[h] :
          x = <<"hub", token[h][a].owner, h, a>> /\ StandsFor(token[h][a], s)
    OBVIOUS
  <2> HIDE DEF F
  <2> QED BY <2>1, <2>2, Zenon DEF InHub
<1>4. x \in Sent(s) <=> InDispatch(network, s, x) \/ InDelivery(network, s, x)
  BY Zenon DEF Sent, InDispatch, InDelivery, Dispatches, Deliveries
<1> QED BY <1>1, <1>2, <1>3, <1>4 DEF Carriers, InPool, Wired

\* ... also in the state after a step.
LEMMA CarriersNext ==
  \A s, x : x \in Carriers(s)' <=> \/ Wired(s, x)' \/ InHub(token', hubPool', s, x)
                                  \/ InDispatch(network', s, x) \/ InDelivery(network', s, x)
                                  \/ InPool(workerPool', s, x)
<1>1. (\A s, x : x \in Carriers(s) <=> \/ Wired(s, x) \/ InHub(token, hubPool, s, x)
                                 \/ InDispatch(network, s, x) \/ InDelivery(network, s, x)
                                 \/ InPool(workerPool, s, x))'
  BY CarriersNow, PTL
<1> QED BY <1>1, Zenon DEF InHub, InDispatch, InDelivery, InPool

\* What a carrier looks like.
LEMMA Kinds ==
  ASSUME NEW s, NEW x
  PROVE  /\ Wired(s, x) => x[1] \in {"buffer", "queue"}
         /\ \A tokens, pools : InHub(tokens, pools, s, x) => x[1] = "hub"
         /\ \A messages : InDispatch(messages, s, x) => x[1] = "dispatch"
         /\ \A messages : InDelivery(messages, s, x) => x[1] = "delivery"
         /\ \A pools : InPool(pools, s, x) => x[1] = "pool"
<1>1. Wired(s, x) => x[1] \in {"buffer", "queue"}
  BY DEF Wired, InBuffer, InQueue
<1>2. \A tokens, pools : InHub(tokens, pools, s, x) => x[1] = "hub"
  BY DEF InHub
<1>3. \A messages : InDispatch(messages, s, x) => x[1] = "dispatch"
  BY DEF InDispatch
<1>4. \A messages : InDelivery(messages, s, x) => x[1] = "delivery"
  BY DEF InDelivery
<1>5. \A pools : InPool(pools, s, x) => x[1] = "pool"
  BY DEF InPool
<1> QED BY <1>1, <1>2, <1>3, <1>4, <1>5

-----------------------------------------------------------------------------
(***************************************************************************)
(* What OneCarrier and ServersKeep say of one subproblem, and the steps    *)
(* that leave it so because each carrier takes the place of another.       *)
(***************************************************************************)
Single(s) ==
  /\ \A x, y \in Carriers(s) : x = y
  /\ Carriers(s) # {} => s \in Made
  /\ \A x \in Carriers(s) : /\ s \in separated => x[1] = "pool"
                            /\ IsToken(x) => tokenCount[s] = 1
  /\ \A w \in Worker : s \in serverPool[w] =>
       /\ s \in Made /\ \A v \in Worker : s \in serverPool[v] => v = w
       /\ \A x \in Carriers(s) : IsToken(x) /\ x[2] = w

\* OneCarrier and ServersKeep hold if each subproblem is as they say.
LEMMA SinglesNow ==
  serverPool \in [Worker -> SUBSET Sub] =>
    (OneCarrier /\ ServersKeep <=> \A s \in Sub : Single(s))
<1> SUFFICES ASSUME serverPool \in [Worker -> SUBSET Sub]
             PROVE  OneCarrier /\ ServersKeep <=> \A s \in Sub : Single(s)
  OBVIOUS
<1>1. OneCarrier /\ ServersKeep => \A s \in Sub : Single(s)
  BY DEF OneCarrier, ServersKeep, Single
<1>2. (\A s \in Sub : Single(s)) => OneCarrier
  BY DEF OneCarrier, Single
<1>3. (\A s \in Sub : Single(s)) => ServersKeep
  BY DEF ServersKeep, Single
<1> QED BY <1>1, <1>2, <1>3

\* The frame of a step for what has been made: it only grows.
Grows ==
  separated \subseteq separated' /\ \A s \in separated : childrenLeft'[s] \subseteq childrenLeft[s]

\* What has been made stays made.
LEMMA MadeGrows ==
  ASSUME Grows, NEW s \in Made
  PROVE  s \in Made'
<1>1. CASE s = Root
  BY <1>1 DEF Made
<1>2. CASE s # Root
  <2>1. PICK t \in separated : s \in Children[t] \ childrenLeft[t]
    BY <1>2 DEF Made
  <2>2. t \in separated' /\ s \in Children[t] \ childrenLeft'[t]
    BY <2>1 DEF Grows
  <2> QED BY <2>2 DEF Made
<1> QED BY <1>1, <1>2

\* One carrier is as good as another.
Kin(x, o) == /\ x[1] = "pool" <=> o[1] = "pool"
             /\ IsToken(x) <=> IsToken(o)
             /\ IsToken(x) => x[2] = o[2]

\* The frame of a step for s.
Keeps(s) ==
  /\ s \in separated' => s \in separated
  /\ s \in separated \/ tokenCount'[s] = tokenCount[s]
  /\ \A w \in Worker : s \in serverPool'[w] => s \in serverPool[w]

\* A step that puts one carrier in the place of another.
LEMMA KeepSingle ==
  ASSUME NEW s, Single(s), Keeps(s), Grows,
         \A x, y \in Carriers(s)' : x = y,
         \A x \in Carriers(s)' : \E o \in Carriers(s) : Kin(x, o)
  PROVE  Single(s)'
<1>1. Carriers(s)' # {} => s \in Made'
  BY MadeGrows DEF Single
<1>2. \A x \in Carriers(s)' : /\ s \in separated' => x[1] = "pool"
                              /\ IsToken(x) => tokenCount'[s] = 1
  BY DEF Single, Kin, Keeps, IsToken
<1>3. ASSUME NEW w \in Worker, s \in serverPool'[w]
      PROVE  /\ s \in Made' /\ \A v \in Worker : s \in serverPool'[v] => v = w
             /\ \A x \in Carriers(s)' : IsToken(x) /\ x[2] = w
  <2>1. s \in serverPool[w]
    BY <1>3 DEF Keeps
  <2>2. s \in Made'
    BY <2>1, MadeGrows DEF Single
  <2>3. \A v \in Worker : s \in serverPool'[v] => v = w
    BY <2>1 DEF Keeps, Single
  <2>4. \A x \in Carriers(s)' : IsToken(x) /\ x[2] = w
    BY <2>1 DEF Single, Kin
  <2> QED BY <2>2, <2>3, <2>4
<1> QED BY <1>1, <1>2, <1>3 DEF Single


-----------------------------------------------------------------------------
(***************************************************************************)
(* Messages to hubs.                                                       *)
(***************************************************************************)
\* Where a token goes when the buffer of w is emptied into a message.
Reaches(w, o) ==
  IF o[1] = "buffer" /\ o[3] = w
  THEN <<"queue", o[2], HubOf[w], w, Len(hubQueue[HubOf[w]][w]) + 1, o[4]>>
  ELSE o

\* The step moves no token for s but those in the buffer of w.
WiresFollow(w, s) ==
  \/ \A x : Wired(s, x)' => Wired(s, x)
  \/ \A x : Wired(s, x)' => \E o : Wired(s, o) /\ x = Reaches(w, o)

\* A message is as good a carrier as the buffer it is made of.
LEMMA ReachesKin ==
  ASSUME NEW w, NEW o
  PROVE  Kin(Reaches(w, o), o) /\ (o[1] # "buffer" => Reaches(w, o) = o)
<1>1. CASE o[1] = "buffer" /\ o[3] = w
  <2> DEFINE x == <<"queue", o[2], HubOf[w], w, Len(hubQueue[HubOf[w]][w]) + 1, o[4]>>
  <2>1. x[1] = "queue" /\ x[2] = o[2] /\ Reaches(w, o) = x
    BY <1>1 DEF Reaches
  <2> HIDE DEF x
  <2> QED BY <1>1, <2>1 DEF Kin, IsToken
<1>2. CASE ~(o[1] = "buffer" /\ o[3] = w)
  BY <1>2 DEF Reaches, Kin
<1> QED BY <1>1, <1>2

\* A message with the tokens in the buffer of w, and perhaps one more, t.
Posts(w, tokens, acked) ==
  /\ outBuffer' = [outBuffer EXCEPT ![w] = <<>>]
  /\ hubQueue' = [hubQueue EXCEPT ![HubOf[w]][w] =
                    Append(@, [tokens |-> tokens, acks |-> acked, adjust |-> 0])]

\* A sequence with one element more.
LEMMA Appended ==
  ASSUME NEW S, NEW q \in Seq(S), NEW e
  PROVE  /\ Len(q) \in Nat /\ DOMAIN q = 1 .. Len(q)
         /\ DOMAIN Append(q, e) = 1 .. Len(q) + 1 /\ Append(q, e)[Len(q) + 1] = e
         /\ \A i \in DOMAIN q : i \in DOMAIN Append(q, e) /\ Append(q, e)[i] = q[i]
         /\ \A i \in DOMAIN Append(q, e) : i # Len(q) + 1 => i \in DOMAIN q
OBVIOUS

\* Where each token that is buffered or in a message comes from.
LEMMA PostFollows ==
  ASSUME WorkAssumption, Shapes, NEW w \in RemoteWorker, NEW tokens \in Seq(Token), NEW acked,
         Posts(w, tokens, acked), NEW s, NEW x, Wired(s, x)',
         \A i \in DOMAIN outBuffer[w] : i \in DOMAIN tokens /\ tokens[i] = outBuffer[w][i]
  PROVE  \/ \E o : Wired(s, o) /\ x = Reaches(w, o)
         \/ \E i \in DOMAIN tokens \ DOMAIN outBuffer[w] :
              /\ x = <<"queue", tokens[i].owner, HubOf[w], w,
                       Len(hubQueue[HubOf[w]][w]) + 1, i>>
              /\ StandsFor(tokens[i], s)
<1> DEFINE h == HubOf[w]
           n == Len(hubQueue[h][w]) + 1
           msg == [tokens |-> tokens, acks |-> acked, adjust |-> 0]
<1>0. /\ w \in Worker /\ h \in Hub /\ hubQueue \in [Hub -> [Worker -> Seq(HubMessage)]]
      /\ outBuffer \in [RemoteWorker -> Seq(Token)]
  BY DEF Shapes, WorkAssumption, RemoteWorker
<1>1. CASE InBuffer(outBuffer', s, x)
  <2>1. PICK v \in RemoteWorker : \E i \in DOMAIN outBuffer'[v] :
          x = <<"buffer", outBuffer'[v][i].owner, v, i>> /\ StandsFor(outBuffer'[v][i], s)
    BY <1>1 DEF InBuffer
  <2>2. v # w /\ outBuffer'[v] = outBuffer[v]
    BY <1>0, <2>1 DEF Posts
  <2>3. InBuffer(outBuffer, s, x)
    BY <2>1, <2>2 DEF InBuffer
  <2>4. Reaches(w, x) = x
    BY <2>1, <2>2 DEF Reaches
  <2> QED BY <2>3, <2>4 DEF Wired
<1>2. CASE InQueue(hubQueue', s, x)
  <2>0. PICK g \in Hub, p \in Worker : \E i \in DOMAIN hubQueue'[g][p] :
          \E j \in DOMAIN hubQueue'[g][p][i].tokens :
            /\ x = <<"queue", hubQueue'[g][p][i].tokens[j].owner, g, p, i, j>>
            /\ StandsFor(hubQueue'[g][p][i].tokens[j], s)
    BY <1>2 DEF InQueue
  <2>a. PICK i \in DOMAIN hubQueue'[g][p] : \E j \in DOMAIN hubQueue'[g][p][i].tokens :
          /\ x = <<"queue", hubQueue'[g][p][i].tokens[j].owner, g, p, i, j>>
          /\ StandsFor(hubQueue'[g][p][i].tokens[j], s)
    BY <2>0
  <2>1. PICK j \in DOMAIN hubQueue'[g][p][i].tokens :
          /\ x = <<"queue", hubQueue'[g][p][i].tokens[j].owner, g, p, i, j>>
          /\ StandsFor(hubQueue'[g][p][i].tokens[j], s)
    BY <2>a
  <2>2. CASE ~(g = h /\ p = w /\ i = n)
    <3>1. i \in DOMAIN hubQueue[g][p] /\ hubQueue'[g][p][i] = hubQueue[g][p][i]
      <4>1. CASE g = h /\ p = w
        <5>1. hubQueue'[g][p] = Append(hubQueue[g][p], msg)
          BY <1>0, <4>1 DEF Posts
        <5>2. hubQueue[g][p] \in Seq(HubMessage)
          BY <1>0
        <5> HIDE DEF msg
        <5>3. i \in DOMAIN Append(hubQueue[g][p], msg) /\ i # Len(hubQueue[g][p]) + 1
          BY <2>2, <4>1, <5>1
        <5> QED BY <5>1, <5>2, <5>3, Appended
      <4>2. CASE ~(g = h /\ p = w)
        <5>1. hubQueue'[g][p] = hubQueue[g][p]
          BY <1>0, <4>2 DEF Posts
        <5> QED BY <2>1, <5>1
      <4> QED BY <4>1, <4>2
    <3>2. InQueue(hubQueue, s, x)
      BY <2>1, <3>1 DEF InQueue
    <3>3. Reaches(w, x) = x
      BY <2>1 DEF Reaches
    <3> QED BY <3>2, <3>3 DEF Wired
  <2>3. CASE g = h /\ p = w /\ i = n
    <3>1. hubQueue'[g][p][i] = msg
      <4>1. hubQueue'[g][p] = Append(hubQueue[g][p], msg)
        BY <1>0, <2>3 DEF Posts
      <4>2. hubQueue[g][p] \in Seq(HubMessage)
        BY <1>0
      <4> HIDE DEF msg
      <4> QED BY <2>3, <4>1, <4>2
    <3>2. /\ j \in DOMAIN tokens /\ StandsFor(tokens[j], s)
          /\ x = <<"queue", tokens[j].owner, h, w, n, j>>
      BY <2>1, <2>3, <3>1
    <3>3. CASE j \in DOMAIN outBuffer[w]
      <4> DEFINE o == <<"buffer", outBuffer[w][j].owner, w, j>>
      <4>1. InBuffer(outBuffer, s, o)
        BY <3>2, <3>3 DEF InBuffer
      <4>2. Reaches(w, o) = <<"queue", outBuffer[w][j].owner, h, w, n, j>>
        BY DEF Reaches
      <4>3. x = Reaches(w, o)
        BY <3>2, <3>3, <4>2
      <4> HIDE DEF o
      <4> QED BY <4>1, <4>3 DEF Wired
    <3> QED BY <3>2, <3>3
  <2> QED BY <2>2, <2>3
<1> QED BY <1>1, <1>2 DEF Wired

\* A report takes along what is in the buffer.
LEMMA ReportFollows ==
  ASSUME WorkAssumption, Shapes, NEW w \in RemoteWorker, NEW acked,
         SendReport(w, outBuffer[w], acked), NEW s
  PROVE  WiresFollow(w, s)
<1>1. outBuffer[w] \in Seq(Token) /\ Posts(w, outBuffer[w], acked)
  BY DEF Shapes, SendReport, Posts
<1>2. ASSUME NEW x, Wired(s, x)' PROVE \E o : Wired(s, o) /\ x = Reaches(w, o)
  BY <1>1, <1>2, PostFollows
<1> QED BY <1>2 DEF WiresFollow

\* A report leaves the buffers and queues what they are.
LEMMA ReportShapes ==
  ASSUME WorkAssumption, Shapes, NEW w \in RemoteWorker, NEW tokens \in Seq(Token),
         NEW acked \in Seq(Ack), SendReport(w, tokens, acked)
  PROVE  /\ outBuffer' \in [RemoteWorker -> Seq(Token)] /\ acks' \in [RemoteWorker -> Seq(Ack)]
         /\ hubQueue' \in [Hub -> [Worker -> Seq(HubMessage)]]
<1> DEFINE msg == [tokens |-> tokens, acks |-> acked, adjust |-> 0]
<1>0. /\ w \in Worker /\ HubOf[w] \in Hub
      /\ hubQueue \in [Hub -> [Worker -> Seq(HubMessage)]]
      /\ outBuffer \in [RemoteWorker -> Seq(Token)] /\ acks \in [RemoteWorker -> Seq(Ack)]
  BY DEF Shapes, WorkAssumption, RemoteWorker
<1>1. msg \in HubMessage
  BY DEF HubMessage
<1>2. outBuffer' = [outBuffer EXCEPT ![w] = <<>>] /\ acks' = [acks EXCEPT ![w] = <<>>]
  BY DEF SendReport
<1>3. hubQueue' = [hubQueue EXCEPT ![HubOf[w]][w] = Append(@, msg)]
  BY DEF SendReport
<1>4. Append(hubQueue[HubOf[w]][w], msg) \in Seq(HubMessage)
  <2> HIDE DEF msg
  <2> QED BY <1>0, <1>1
<1> HIDE DEF msg
<1>5. <<>> \in Seq(Token) /\ <<>> \in Seq(Ack)
  OBVIOUS
<1>6. outBuffer' \in [RemoteWorker -> Seq(Token)] /\ acks' \in [RemoteWorker -> Seq(Ack)]
  BY <1>0, <1>2, <1>5
<1>7. hubQueue' \in [Hub -> [Worker -> Seq(HubMessage)]]
  BY <1>0, <1>3, <1>4
<1> QED BY <1>6, <1>7

-----------------------------------------------------------------------------
(***************************************************************************)
(* Steps that make no new carrier of s.                                    *)
(***************************************************************************)
HubsFollow(s) == \A x : InHub(token', hubPool', s, x) => InHub(token, hubPool, s, x)

OthersFollow(s) ==
  /\ HubsFollow(s)
  /\ \A x : InDispatch(network', s, x) => InDispatch(network, s, x)
  /\ \A x : InDelivery(network', s, x) => InDelivery(network, s, x)
  /\ \A x : InPool(workerPool', s, x) => InPool(workerPool, s, x)

\* A step that only sends messages, or drops carriers.
LEMMA Followed ==
  ASSUME NEW s, Single(s), Keeps(s), Grows, NEW w, WiresFollow(w, s), OthersFollow(s)
  PROVE  Single(s)'
<1>1. \A x \in Carriers(s)' : Wired(s, x)' \/ (x \in Carriers(s) /\ x[1] # "buffer")
  <2>1. \A x : InHub(token, hubPool, s, x) => x[1] # "buffer"
    BY DEF InHub
  <2>2. \A x : InDispatch(network, s, x) => x[1] # "buffer"
    BY DEF InDispatch
  <2>3. \A x : InDelivery(network, s, x) => x[1] # "buffer"
    BY DEF InDelivery
  <2>4. \A x : InPool(workerPool, s, x) => x[1] # "buffer"
    BY DEF InPool
  <2> QED BY <2>1, <2>2, <2>3, <2>4, CarriersNow, CarriersNext DEF OthersFollow, HubsFollow
<1>3. CASE \A x : Wired(s, x)' => Wired(s, x)
  <2>1. \A x \in Carriers(s)' : x \in Carriers(s)
    BY <1>1, <1>3, CarriersNow
  <2>2. \A x \in Carriers(s)' : \E o \in Carriers(s) : Kin(x, o)
    BY <2>1 DEF Kin
  <2>3. \A x, y \in Carriers(s)' : x = y
    BY <2>1 DEF Single
  <2> QED BY <2>2, <2>3, KeepSingle
<1>4. CASE \A x : Wired(s, x)' => \E o : Wired(s, o) /\ x = Reaches(w, o)
  <2>1. ASSUME NEW x \in Carriers(s)' PROVE \E o \in Carriers(s) : x = Reaches(w, o)
    <3>1. CASE x \in Carriers(s) /\ x[1] # "buffer"
      <4>1. Reaches(w, x) = x
        BY <3>1, Zenon DEF Reaches
      <4> QED BY <3>1, <4>1
    <3>2. CASE Wired(s, x)'
      BY <1>4, <3>2, CarriersNow
    <3> QED BY <1>1, <3>1, <3>2
  <2>2. \A x \in Carriers(s)' : \E o \in Carriers(s) : Kin(x, o)
    BY <2>1, ReachesKin
  <2>3. \A x, y \in Carriers(s)' : x = y
    BY <2>1 DEF Single
  <2> QED BY <2>2, <2>3, KeepSingle
<1> QED BY <1>3, <1>4 DEF WiresFollow

\* All of SearchInv but NothingLost.
Core == /\ Shapes /\ PoolsArePruned /\ ChildrenAreKept
        /\ \A s \in Sub : Single(s)

-----------------------------------------------------------------------------
(***************************************************************************)
(* Pruning.                                                                *)
(***************************************************************************)
LEMMA PruneEffect ==
  ASSUME WorkAssumption, Shapes, NEW p \in Proc, NEW v \in Nat, PrunePools(p, v)
  PROVE  /\ workerPool' \in [Worker -> SUBSET Sub] /\ serverPool' \in [Worker -> SUBSET Sub]
         /\ \A w \in Worker :
              /\ workerPool'[w] = IF w = p THEN Below(v, workerPool[p]) ELSE workerPool[w]
              /\ serverPool'[w] = IF w = p THEN Below(v, serverPool[p]) ELSE serverPool[w]
         /\ outBuffer' \in [RemoteWorker -> Seq(Token)] /\ acks' \in [RemoteWorker -> Seq(Ack)]
         /\ hubQueue' \in [Hub -> [Worker -> Seq(HubMessage)]]
         /\ token' \in [Hub -> [Address -> Token \cup {NoToken}]]
         /\ hubPool' \in [Hub -> SUBSET Address]
         /\ \A s : WiresFollow(p, s) /\ HubsFollow(s)
<1>0. /\ workerPool \in [Worker -> SUBSET Sub] /\ serverPool \in [Worker -> SUBSET Sub]
      /\ token \in [Hub -> [Address -> Token \cup {NoToken}]]
      /\ hubPool \in [Hub -> SUBSET Address]
  BY DEF Shapes
<1>1. /\ workerPool' \in [Worker -> SUBSET Sub] /\ serverPool' \in [Worker -> SUBSET Sub]
      /\ \A w \in Worker :
           /\ workerPool'[w] = IF w = p THEN Below(v, workerPool[p]) ELSE workerPool[w]
           /\ serverPool'[w] = IF w = p THEN Below(v, serverPool[p]) ELSE serverPool[w]
  <2>1. CASE p \in Worker
    <3>1. /\ workerPool' = [workerPool EXCEPT ![p] = Below(v, @)]
          /\ serverPool' = [serverPool EXCEPT ![p] = Below(v, @)]
      BY <2>1 DEF PrunePools
    <3>2. Below(v, workerPool[p]) \subseteq Sub /\ Below(v, serverPool[p]) \subseteq Sub
      BY <1>0, <2>1 DEF Below
    <3> QED BY <1>0, <2>1, <3>1, <3>2
  <2>2. CASE p \notin Worker
    BY <1>0, <2>2 DEF PrunePools
  <2> QED BY <2>1, <2>2
<1>2. CASE p \in Hub
  <2>1. HubPrune(p, v) /\ UNCHANGED <<outBuffer, acks, hubQueue>>
    BY <1>2 DEF PrunePools, report
  <2>2. /\ outBuffer' \in [RemoteWorker -> Seq(Token)] /\ acks' \in [RemoteWorker -> Seq(Ack)]
        /\ hubQueue' \in [Hub -> [Worker -> Seq(HubMessage)]]
    BY <2>1 DEF Shapes
  <2> DEFINE live == {a \in Address : token[p][a] # NoToken /\ token[p][a].sub \in Below(v, Sub)}
  <2>3. /\ token' = [token EXCEPT ![p] = [a \in Address |-> IF a \in live THEN @[a] ELSE NoToken]]
        /\ hubPool' = [hubPool EXCEPT ![p] = @ \cap live]
    BY <2>1 DEF HubPrune
  <2> HIDE DEF live
  <2>4. token' \in [Hub -> [Address -> Token \cup {NoToken}]]
    BY <1>0, <2>3, <1>2
  <2>5. hubPool' \in [Hub -> SUBSET Address]
    BY <1>0, <2>3
  <2>6. \A s : WiresFollow(p, s)
    <3>1. UNCHANGED <<outBuffer, hubQueue>>
      BY <2>1
    <3> QED BY <3>1, Zenon DEF WiresFollow, Wired
  <2>7. \A s : HubsFollow(s)
    <3> SUFFICES ASSUME NEW s, NEW x, InHub(token', hubPool', s, x)
                 PROVE  InHub(token, hubPool, s, x)
      BY DEF HubsFollow
    <3>1. PICK h \in Hub : \E a \in hubPool'[h] :
            x = <<"hub", token'[h][a].owner, h, a>> /\ StandsFor(token'[h][a], s)
      BY DEF InHub
    <3>2. PICK a \in hubPool'[h] :
            x = <<"hub", token'[h][a].owner, h, a>> /\ StandsFor(token'[h][a], s)
      BY <3>1
    <3>3. a \in hubPool[h] /\ a \in Address
      BY <1>0, <2>3
    <3>4. token'[h][a] = token[h][a]
      <4>1. CASE h = p
        <5>1. a \in live
          BY <1>0, <2>3, <4>1
        <5> QED BY <1>0, <2>3, <3>3, <4>1, <5>1
      <4>2. CASE h # p
        BY <1>0, <2>3, <4>2
      <4> QED BY <4>1, <4>2
    <3> QED BY <3>2, <3>3, <3>4 DEF InHub
  <2> QED BY <1>1, <2>2, <2>4, <2>5, <2>6, <2>7
<1>3. CASE p \notin Hub
  <2>1. SendReport(p, outBuffer[p], acks[p]) /\ UNCHANGED <<token, hubPool>>
    BY <1>3 DEF PrunePools, hubState
  <2>2. p \in RemoteWorker
    BY <1>3 DEF Proc, RemoteWorker
  <2>3. outBuffer[p] \in Seq(Token) /\ acks[p] \in Seq(Ack)
    BY <2>2 DEF Shapes
  <2>4. /\ outBuffer' \in [RemoteWorker -> Seq(Token)] /\ acks' \in [RemoteWorker -> Seq(Ack)]
        /\ hubQueue' \in [Hub -> [Worker -> Seq(HubMessage)]]
    BY <2>1, <2>2, <2>3, ReportShapes
  <2>5. \A s : WiresFollow(p, s)
    BY <2>1, <2>2, ReportFollows
  <2>6. \A s : HubsFollow(s)
    BY <2>1 DEF HubsFollow
  <2> QED BY <1>0, <1>1, <2>1, <2>4, <2>5, <2>6
<1> QED BY <1>2, <1>3

\* A step that prunes and leaves the tree and the network alone.
LEMMA PruneKeeps ==
  ASSUME WorkAssumption, Core, NEW p \in Proc, NEW v \in Nat, PrunePools(p, v),
         UNCHANGED <<separated, childrenLeft, tokenCount, network>>
  PROVE  /\ incumbent' \in [Proc -> Nat] /\ needPruning' \in [Proc -> BOOLEAN] => Shapes'
         /\ ChildrenAreKept' /\ \A s \in Sub : Single(s)'
<1>0. /\ workerPool' \in [Worker -> SUBSET Sub] /\ serverPool' \in [Worker -> SUBSET Sub]
      /\ \A w \in Worker :
           /\ workerPool'[w] = IF w = p THEN Below(v, workerPool[p]) ELSE workerPool[w]
           /\ serverPool'[w] = IF w = p THEN Below(v, serverPool[p]) ELSE serverPool[w]
      /\ outBuffer' \in [RemoteWorker -> Seq(Token)] /\ acks' \in [RemoteWorker -> Seq(Ack)]
      /\ hubQueue' \in [Hub -> [Worker -> Seq(HubMessage)]]
      /\ token' \in [Hub -> [Address -> Token \cup {NoToken}]]
      /\ hubPool' \in [Hub -> SUBSET Address]
      /\ \A s : WiresFollow(p, s) /\ HubsFollow(s)
  BY PruneEffect DEF Core
<1>1. incumbent' \in [Proc -> Nat] /\ needPruning' \in [Proc -> BOOLEAN] => Shapes'
  BY <1>0 DEF Shapes, Core
<1>2. ChildrenAreKept'
  BY DEF ChildrenAreKept, Made, Core
<1>3. ASSUME NEW s \in Sub PROVE Single(s)'
  <2>1. \A w \in Worker : /\ s \in workerPool'[w] => s \in workerPool[w]
                          /\ s \in serverPool'[w] => s \in serverPool[w]
    BY <1>0 DEF Below
  <2>2. OthersFollow(s)
    BY <1>0, <2>1, Zenon DEF OthersFollow, InDispatch, InDelivery, InPool
  <2>3. Keeps(s) /\ Grows
    BY <2>1 DEF Keeps, Grows
  <2> QED BY <1>0, <2>2, <2>3, Followed DEF Core
<1> QED BY <1>1, <1>2, <1>3

\* The worker that finds a solution prunes with it.
LEMMA EvaluateCore ==
  ASSUME WorkAssumption, Core, NEW w \in Worker, NEW s \in workerPool[w], Evaluate(w, s)
  PROVE  Core'
<1>0. /\ s \in Sub /\ Bound[s] \in Nat /\ w \in Proc /\ PrunePools(w, Bound[s])
      /\ UNCHANGED <<separated, childrenLeft, tokenCount, network>>
  BY DEF WorkAssumption, Core, Shapes, Proc, Evaluate
<1>1. incumbent' = [incumbent EXCEPT ![w] = Bound[s]] /\ needPruning' = needPruning
  BY DEF Evaluate
<1>2. incumbent' \in [Proc -> Nat] /\ needPruning' \in [Proc -> BOOLEAN]
  BY <1>0, <1>1 DEF Core, Shapes
<1>3. Shapes' /\ ChildrenAreKept' /\ \A t \in Sub : Single(t)'
  BY <1>0, <1>2, PruneKeeps
<1>4. PoolsArePruned'
  <2>1. \A v \in Worker :
          workerPool'[v] = IF v = w THEN Below(Bound[s], workerPool[w]) ELSE workerPool[v]
    BY <1>0, PruneEffect DEF Core
  <2>2. ASSUME NEW v \in Worker, ~needPruning'[v]
        PROVE  workerPool'[v] \subseteq Below(incumbent'[v], Sub)
    <3>1. CASE v = w
      <4>1. incumbent'[v] = Bound[s] /\ workerPool[w] \subseteq Sub
        BY <1>0, <1>1, <3>1 DEF Core, Shapes
      <4> QED BY <2>1, <3>1, <4>1 DEF Below
    <3>2. CASE v # w
      <4>1. incumbent'[v] = incumbent[v] /\ workerPool'[v] = workerPool[v]
        BY <1>1, <2>1, <3>2 DEF Core, Shapes, Proc
      <4> QED BY <1>1, <2>2, <4>1 DEF Core, PoolsArePruned
    <3> QED BY <3>1, <3>2
  <2> QED BY <2>2 DEF PoolsArePruned
<1> QED BY <1>3, <1>4 DEF Core

\* A processor prunes with the incumbent it has learned of.
LEMMA PruneCore ==
  ASSUME WorkAssumption, Core, NEW p \in Proc, Prune(p)
  PROVE  Core'
<1>0. /\ incumbent[p] \in Nat /\ PrunePools(p, incumbent[p])
      /\ UNCHANGED <<separated, childrenLeft, tokenCount, network>>
  BY DEF Core, Shapes, Prune
<1>1. needPruning' = [needPruning EXCEPT ![p] = FALSE] /\ incumbent' = incumbent
  BY DEF Prune
<1>2. incumbent' \in [Proc -> Nat] /\ needPruning' \in [Proc -> BOOLEAN]
  BY <1>0, <1>1 DEF Core, Shapes
<1>3. Shapes' /\ ChildrenAreKept' /\ \A t \in Sub : Single(t)'
  BY <1>0, <1>2, PruneKeeps
<1>4. PoolsArePruned'
  <2>1. \A v \in Worker :
          workerPool'[v] = IF v = p THEN Below(incumbent[p], workerPool[p]) ELSE workerPool[v]
    BY <1>0, PruneEffect DEF Core
  <2>2. ASSUME NEW v \in Worker, ~needPruning'[v]
        PROVE  workerPool'[v] \subseteq Below(incumbent'[v], Sub)
    <3>1. CASE v = p
      <4>1. incumbent'[v] = incumbent[p] /\ workerPool[p] \subseteq Sub
        BY <1>1, <3>1 DEF Core, Shapes
      <4> QED BY <2>1, <3>1, <4>1 DEF Below
    <3>2. CASE v # p
      <4>1. needPruning'[v] = needPruning[v] /\ workerPool'[v] = workerPool[v]
        BY <1>1, <2>1, <3>2 DEF Core, Shapes, Proc
      <4> QED BY <1>1, <2>2, <4>1 DEF Core, PoolsArePruned
    <3> QED BY <3>1, <3>2
  <2> QED BY <2>2 DEF PoolsArePruned
<1> QED BY <1>3, <1>4 DEF Core

-----------------------------------------------------------------------------
(***************************************************************************)
(* Steps that only tell somebody something.                                *)
(***************************************************************************)
LEMMA CommunicateCore ==
  ASSUME WorkAssumption, Core, NEW w \in RemoteWorker, Communicate(w)
  PROVE  Core'
<1>0. /\ SendReport(w, outBuffer[w], acks[w]) /\ outBuffer[w] \in Seq(Token)
      /\ acks[w] \in Seq(Ack)
      /\ UNCHANGED <<incumbent, needPruning, workerPool, serverPool, separated, childrenLeft,
                     tokenCount, token, hubPool, network>>
  BY DEF Core, Shapes, Communicate, pruning, search, hubState
<1>1. Shapes'
  <2>1. /\ outBuffer' \in [RemoteWorker -> Seq(Token)] /\ acks' \in [RemoteWorker -> Seq(Ack)]
        /\ hubQueue' \in [Hub -> [Worker -> Seq(HubMessage)]]
    BY <1>0, ReportShapes DEF Core
  <2> QED BY <1>0, <2>1 DEF Shapes, Core
<1>2. PoolsArePruned' /\ ChildrenAreKept'
  BY <1>0 DEF PoolsArePruned, ChildrenAreKept, Made, Core
<1>3. ASSUME NEW s \in Sub PROVE Single(s)'
  <2>1. WiresFollow(w, s)
    BY <1>0, ReportFollows DEF Core
  <2>2. OthersFollow(s)
    BY <1>0, Zenon DEF OthersFollow, HubsFollow
  <2>3. Keeps(s) /\ Grows
    BY <1>0 DEF Keeps, Grows
  <2> QED BY <2>1, <2>2, <2>3, Followed DEF Core
<1> QED BY <1>1, <1>2, <1>3 DEF Core

\* A better incumbent moves no subproblem.
LEMMA LearnCore ==
  ASSUME WorkAssumption, Core, NEW p \in Proc, LearnIncumbent(p)
  PROVE  Core'
<1>0. /\ \E q \in Proc : incumbent' = [incumbent EXCEPT ![p] = incumbent[q]]
      /\ needPruning' = [needPruning EXCEPT ![p] = TRUE]
      /\ UNCHANGED <<workerPool, serverPool, separated, childrenLeft, tokenCount,
                     outBuffer, acks, hubQueue, token, hubPool, network>>
  BY DEF LearnIncumbent, search, report, hubState
<1>1. Shapes'
  <2>1. incumbent' \in [Proc -> Nat] /\ needPruning' \in [Proc -> BOOLEAN]
    BY <1>0 DEF Shapes, Core
  <2> QED BY <1>0, <2>1 DEF Shapes, Core
<1>2. PoolsArePruned'
  <2> SUFFICES ASSUME NEW w \in Worker, ~needPruning'[w]
               PROVE  workerPool'[w] \subseteq Below(incumbent'[w], Sub)
    BY DEF PoolsArePruned
  <2>1. w # p /\ ~needPruning[w] /\ incumbent'[w] = incumbent[w]
    BY <1>0 DEF Shapes, Core, Proc
  <2> QED BY <1>0, <2>1 DEF PoolsArePruned, Core
<1>3. ChildrenAreKept'
  BY <1>0 DEF ChildrenAreKept, Made, Core
<1>4. ASSUME NEW s \in Sub PROVE Single(s)'
  <2>1. WiresFollow(p, s)
    BY <1>0 DEF WiresFollow, Wired
  <2>2. OthersFollow(s)
    BY <1>0, Zenon DEF OthersFollow, HubsFollow
  <2>3. Keeps(s) /\ Grows
    BY <1>0 DEF Keeps, Grows
  <2> QED BY <2>1, <2>2, <2>3, Followed DEF Core
<1> QED BY <1>1, <1>2, <1>3, <1>4 DEF Core

-----------------------------------------------------------------------------
(***************************************************************************)
(* What a worker does with a subproblem in its pool.                       *)
(***************************************************************************)
\* A worker that has s in its pool is all that carries it.
LEMMA Owned ==
  ASSUME NEW s, NEW w \in Worker, s \in workerPool[w], Single(s)
  PROVE  /\ s \in Made
         /\ \A x \in Carriers(s) : x = <<"pool", w>>
         /\ \A v \in Worker : s \in workerPool[v] => v = w
         /\ \A v \in Worker : s \notin serverPool[v]
         /\ \A x : ~Wired(s, x) /\ ~InHub(token, hubPool, s, x)
         /\ \A x : ~InDispatch(network, s, x) /\ ~InDelivery(network, s, x)
<1> DEFINE o == <<"pool", w>>
<1>1. InPool(workerPool, s, o) /\ o \in Carriers(s)
  BY CarriersNow DEF InPool
<1>2. s \in Made /\ \A x \in Carriers(s) : x = o
  BY <1>1 DEF Single
<1>3. ASSUME NEW v \in Worker, s \in workerPool[v] PROVE v = w
  <2>1. <<"pool", v>> \in Carriers(s)
    BY <1>3, CarriersNow DEF InPool
  <2>2. <<"pool", v>> = o
    BY <1>2, <2>1
  <2> QED BY <2>2
<1>4. o[1] = "pool" /\ ~IsToken(o)
  BY DEF IsToken
<1>5. \A v \in Worker : s \notin serverPool[v]
  BY <1>1, <1>4 DEF Single
<1>6. \A x : Wired(s, x) \/ InHub(token, hubPool, s, x) \/ InDispatch(network, s, x)
               \/ InDelivery(network, s, x) => x \in Carriers(s) /\ x[1] # "pool"
  BY CarriersNow, Kinds
<1> HIDE DEF o
<1>7. \A x : ~(Wired(s, x) \/ InHub(token, hubPool, s, x) \/ InDispatch(network, s, x)
               \/ InDelivery(network, s, x))
  BY <1>2, <1>4, <1>6
<1> QED BY <1>2, <1>3, <1>5, <1>7 DEF o

\* What ChildrenAreKept says of one subproblem.
LEMMA ChildrenLeft ==
  ASSUME ChildrenAreKept, NEW s \in Sub
  PROVE  childrenLeft[s] \subseteq Children[s] /\ (childrenLeft[s] # {} => s \in separated)
BY Zenon DEF ChildrenAreKept

\* A child that is left is nowhere else.
LEMMA Unmade ==
  ASSUME WorkAssumption, Core, NEW s \in Sub, NEW c \in childrenLeft[s]
  PROVE  /\ c \in Sub /\ c \in Children[s] /\ s \in separated /\ c # s
         /\ c \notin Made /\ c \notin separated /\ Carriers(c) = {}
         /\ \A v \in Worker : c \notin serverPool[v] /\ c \notin workerPool[v]
         /\ \A x : ~Wired(c, x) /\ ~InHub(token, hubPool, c, x)
         /\ \A x : ~InDispatch(network, c, x) /\ ~InDelivery(network, c, x)
<1>0. Children \in [Sub -> SUBSET Sub] /\ \A t \in Sub : Root \notin Children[t]
  BY DEF WorkAssumption, SearchTreeAssumption
<1>1. c \in Sub /\ c \in Children[s] /\ s \in separated
  <2>1. childrenLeft[s] \subseteq Children[s] /\ (childrenLeft[s] # {} => s \in separated)
    BY ChildrenLeft DEF Core
  <2> QED BY <1>0, <2>1
<1>2. c \notin Made
  <2>1. ASSUME NEW t \in separated, c \in Children[t] \ childrenLeft[t] PROVE FALSE
    <3>1. t \in Sub
      BY DEF Core, Shapes
    <3>2. t = s
      BY <1>1, <2>1, <3>1, OneParent
    <3> QED BY <2>1, <3>2
  <2>2. c # Root
    BY <1>0, <1>1
  <2> QED BY <2>1, <2>2 DEF Made
<1>3. c \notin separated /\ c # s
  BY <1>1, <1>2 DEF Core, ChildrenAreKept
<1>4. Single(c)
  BY <1>1 DEF Core
<1>5. Carriers(c) = {}
  BY <1>2, <1>4 DEF Single
<1>6. \A v \in Worker : c \notin serverPool[v]
  BY <1>2, <1>4 DEF Single
<1>7. \A x : /\ ~Wired(c, x) /\ ~InHub(token, hubPool, c, x) /\ ~InDispatch(network, c, x)
             /\ ~InDelivery(network, c, x) /\ ~InPool(workerPool, c, x)
  BY <1>5, CarriersNow
<1>8. \A v \in Worker : c \notin workerPool[v]
  <2> SUFFICES ASSUME NEW v \in Worker, c \in workerPool[v] PROVE FALSE
    OBVIOUS
  <2>1. InPool(workerPool, c, <<"pool", v>>)
    BY DEF InPool
  <2> QED BY <1>7, <2>1
<1> QED BY <1>1, <1>2, <1>3, <1>5, <1>6, <1>7, <1>8

\* A subproblem that is split stays where it is.
LEMMA SplitCore ==
  ASSUME WorkAssumption, Core, NEW w \in Worker, NEW s \in workerPool[w], Split(w, s)
  PROVE  Core'
<1>0. /\ s \in Sub /\ s \notin separated
      /\ separated' = separated \cup {s}
      /\ childrenLeft' = [childrenLeft EXCEPT ![s] = Children[s]]
      /\ Children \in [Sub -> SUBSET Sub] /\ Single(s)
      /\ UNCHANGED <<incumbent, needPruning, workerPool, serverPool, tokenCount, outBuffer,
                     acks, hubQueue, token, hubPool, network>>
  BY DEF Core, Shapes, WorkAssumption, SearchTreeAssumption, Split, pruning, report, hubState
<1>1. Shapes'
  <2>1. separated' \subseteq Sub /\ childrenLeft' \in [Sub -> SUBSET Sub]
    BY <1>0 DEF Shapes, Core
  <2> QED BY <1>0, <2>1 DEF Shapes, Core
<1>2. PoolsArePruned'
  BY <1>0 DEF PoolsArePruned, Core
<1>3. Grows
  BY <1>0 DEF Grows, Core, Shapes
<1>4. ChildrenAreKept'
  <2>1. separated' \subseteq Made'
    <3>1. s \in Made
      BY <1>0, Owned
    <3> QED BY <1>0, <1>3, <3>1, MadeGrows DEF Core, ChildrenAreKept
  <2>2. \A t \in Sub : /\ childrenLeft'[t] \subseteq Children[t]
                       /\ childrenLeft'[t] # {} => t \in separated'
    <3> SUFFICES ASSUME NEW t \in Sub
                 PROVE  /\ childrenLeft'[t] \subseteq Children[t]
                        /\ childrenLeft'[t] # {} => t \in separated'
      OBVIOUS
    <3>1. childrenLeft[t] \subseteq Children[t] /\ (childrenLeft[t] # {} => t \in separated)
      BY ChildrenLeft DEF Core
    <3>2. childrenLeft'[t] = IF t = s THEN Children[s] ELSE childrenLeft[t]
      BY <1>0 DEF Core, Shapes
    <3> QED BY <1>0, <3>1, <3>2
  <2> QED BY <2>1, <2>2 DEF ChildrenAreKept
<1>5. ASSUME NEW t \in Sub PROVE Single(t)'
  <2>1. WiresFollow(w, t) /\ OthersFollow(t)
    BY <1>0, Zenon DEF WiresFollow, Wired, OthersFollow, HubsFollow
  <2>2. CASE t # s
    <3>1. Keeps(t)
      BY <1>0, <2>2 DEF Keeps
    <3> QED BY <1>3, <2>1, <3>1, Followed DEF Core
  <2>3. CASE t = s
    <3>1. Carriers(s)' = Carriers(s)
      BY <1>0 DEF Carriers, Buffered, Queued, QueuedFrom, Pooled, Sent, Dispatches, Deliveries
    <3>2. \A x \in Carriers(s) : x[1] = "pool" /\ ~IsToken(x)
      BY <1>0, Owned DEF IsToken
    <3>3. \A v \in Worker : s \notin serverPool[v]
      BY <1>0, Owned
    <3>4. s \in Made'
      BY <1>0, <1>3, Owned, MadeGrows
    <3> QED BY <1>0, <2>3, <3>1, <3>2, <3>3, <3>4 DEF Single
  <2> QED BY <2>2, <2>3
<1> QED BY <1>1, <1>2, <1>4, <1>5 DEF Core

\* A subproblem that has at most one carrier after a step, x0.
LEMMA OneLeft ==
  ASSUME NEW s, NEW x0, s \in Made', \A x \in Carriers(s)' : x = x0,
         s \in separated' => x0[1] = "pool", IsToken(x0) => tokenCount'[s] = 1,
         \A v \in Worker : s \in serverPool'[v] =>
           /\ \A u \in Worker : s \in serverPool'[u] => u = v
           /\ Carriers(s)' = {} \/ (IsToken(x0) /\ x0[2] = v)
  PROVE  Single(s)'
<1>1. \A x, y \in Carriers(s)' : x = y
  OBVIOUS
<1>2. \A x \in Carriers(s)' : /\ s \in separated' => x[1] = "pool"
                              /\ IsToken(x) => tokenCount'[s] = 1
  OBVIOUS
<1>3. \A v \in Worker : s \in serverPool'[v] =>
        /\ s \in Made' /\ \A u \in Worker : s \in serverPool'[u] => u = v
        /\ \A x \in Carriers(s)' : IsToken(x) /\ x[2] = v
  OBVIOUS
<1> QED BY <1>1, <1>2, <1>3 DEF Single

\* A child that is made is in the pool of the worker, which may pass its parent
\* on to the server or drop it.
LEMMA SpinOffCore ==
  ASSUME WorkAssumption, Core, NEW w \in Worker, NEW s \in workerPool[w],
         NEW c \in childrenLeft[s], SpinOffChild(w, s, c)
  PROVE  Core'
<1> DEFINE stays == StillNeededByWorker(childrenLeft[s] \ {c}, tokenCount[s])
<1>0. /\ ~needPruning[w]
      /\ childrenLeft' = [childrenLeft EXCEPT ![s] = @ \ {c}]
      /\ workerPool' = [workerPool EXCEPT ![w] =
           {t \in @ : t # s \/ stays} \cup {t \in {c} : ~CanFathom(w, t)}]
      /\ serverPool' = [serverPool EXCEPT ![w] = @ \cup {t \in {s} : ~stays /\ tokenCount[s] > 0}]
  BY DEF SpinOffChild, CanWork
<1>1. UNCHANGED <<incumbent, needPruning, separated, tokenCount, outBuffer, acks, hubQueue,
                  token, hubPool, network>>
  BY DEF SpinOffChild, pruning, report, hubState
<1> HIDE DEF stays
<1>2. /\ s \in Sub /\ Single(s)
      /\ workerPool \in [Worker -> SUBSET Sub] /\ serverPool \in [Worker -> SUBSET Sub]
      /\ childrenLeft \in [Sub -> SUBSET Sub]
  BY DEF Core, Shapes
<1>3. /\ c \in Sub /\ c \in Children[s] /\ s \in separated /\ c # s /\ c \notin separated
      /\ \A v \in Worker : c \notin serverPool[v] /\ c \notin workerPool[v]
      /\ \A x : ~Wired(c, x) /\ ~InHub(token, hubPool, c, x)
      /\ \A x : ~InDispatch(network, c, x) /\ ~InDelivery(network, c, x)
  BY <1>2, Unmade
<1>4. /\ workerPool' \in [Worker -> SUBSET Sub] /\ serverPool' \in [Worker -> SUBSET Sub]
      /\ childrenLeft' \in [Sub -> SUBSET Sub]
  BY <1>0, <1>2, <1>3
<1>5. /\ \A v \in Worker : \A t \in workerPool'[v] :
           t \in workerPool[v] \/ (v = w /\ t = c /\ ~CanFathom(w, c))
      /\ \A v \in Worker : \A t \in serverPool'[v] : t \in serverPool[v] \/ (v = w /\ t = s /\ ~stays)
      /\ ~stays => s \notin workerPool'[w]
  BY <1>0, <1>2, <1>3
<1>6. Grows
  BY <1>0, <1>1, <1>2 DEF Grows, Core, Shapes
<1>7. Shapes'
  BY <1>1, <1>4 DEF Shapes, Core
<1>8. PoolsArePruned'
  <2> SUFFICES ASSUME NEW v \in Worker, ~needPruning[v], NEW t \in workerPool'[v]
               PROVE  t \in Below(incumbent[v], Sub)
    BY <1>1 DEF PoolsArePruned
  <2>1. CASE t \in workerPool[v]
    BY <2>1 DEF PoolsArePruned, Core
  <2>2. CASE v = w /\ t = c /\ ~CanFathom(w, c)
    <3>1. Bound[c] \in Nat /\ incumbent[w] \in Nat
      BY <1>3 DEF WorkAssumption, Core, Shapes, Proc
    <3> QED BY <1>3, <2>2, <3>1 DEF CanFathom, Below
  <2> QED BY <1>5, <2>1, <2>2
<1>9. ChildrenAreKept'
  <2>1. separated' \subseteq Made'
    BY <1>1, <1>6, MadeGrows DEF Core, ChildrenAreKept
  <2>2. \A t \in Sub : /\ childrenLeft'[t] \subseteq Children[t]
                       /\ childrenLeft'[t] # {} => t \in separated'
    <3> SUFFICES ASSUME NEW t \in Sub
                 PROVE  /\ childrenLeft'[t] \subseteq Children[t]
                        /\ childrenLeft'[t] # {} => t \in separated'
      OBVIOUS
    <3>1. childrenLeft[t] \subseteq Children[t] /\ (childrenLeft[t] # {} => t \in separated)
      BY ChildrenLeft DEF Core
    <3>2. childrenLeft'[t] \subseteq childrenLeft[t]
      BY <1>0, <1>2
    <3> QED BY <1>1, <3>1, <3>2
  <2> QED BY <2>1, <2>2 DEF ChildrenAreKept
<1>10. ASSUME NEW t \in Sub PROVE Single(t)'
  <2>0. /\ \A x : Wired(t, x)' <=> Wired(t, x)
        /\ \A x : InHub(token', hubPool', t, x) <=> InHub(token, hubPool, t, x)
        /\ \A x : InDispatch(network', t, x) <=> InDispatch(network, t, x)
        /\ \A x : InDelivery(network', t, x) <=> InDelivery(network, t, x)
    BY <1>1, Zenon DEF Wired
  <2>1. CASE t = c
    <3> DEFINE x0 == <<"pool", w>>
    <3>1. \A x : InPool(workerPool', c, x) => x = x0
      BY <1>3, <1>5 DEF InPool
    <3>2. x0[1] = "pool" /\ ~IsToken(x0)
      BY DEF IsToken
    <3> HIDE DEF x0
    <3>3. \A x \in Carriers(c)' : x = x0
      BY <1>3, <2>0, <2>1, <3>1, CarriersNext
    <3>4. c \in Made'
      <4>1. s \in separated' /\ c \in Children[s] \ childrenLeft'[s]
        BY <1>0, <1>1, <1>2, <1>3
      <4> QED BY <4>1 DEF Made
    <3>5. \A v \in Worker : c \notin serverPool'[v]
      BY <1>3, <1>5
    <3> QED BY <2>1, <3>2, <3>3, <3>4, <3>5, OneLeft
  <2>2. CASE t # c
    <3>1. OthersFollow(t)
      <4>1. \A x : InPool(workerPool', t, x) => InPool(workerPool, t, x)
        BY <1>5, <2>2 DEF InPool
      <4> QED BY <2>0, <4>1 DEF OthersFollow, HubsFollow
    <3>2. CASE t # s
      <4>1. Keeps(t)
        BY <1>1, <1>5, <3>2 DEF Keeps
      <4> QED BY <1>6, <2>0, <3>1, <4>1, Followed DEF Core, WiresFollow
    <3>3. CASE t = s
      <4> DEFINE x0 == <<"pool", w>>
      <4>1. s \in Made /\ \A x \in Carriers(s) : x = x0
        BY <1>2, Owned
      <4>2. \A v \in Worker : s \notin serverPool[v]
        BY <1>2, Owned
      <4>3. x0[1] = "pool" /\ ~IsToken(x0)
        BY DEF IsToken
      <4>4. \A x \in Carriers(s)' : x \in Carriers(s) /\ InPool(workerPool', s, x)
        BY <2>0, <3>1, <3>3, <1>2, Owned, CarriersNow, CarriersNext DEF OthersFollow
      <4>5. \A v \in Worker : s \in serverPool'[v] => v = w /\ s \notin workerPool'[w]
        BY <1>5, <4>2
      <4>6. InPool(workerPool', s, x0) => s \in workerPool'[w]
        BY DEF InPool
      <4> HIDE DEF x0
      <4>7. \A v \in Worker : s \in serverPool'[v] =>
              (\A u \in Worker : s \in serverPool'[u] => u = v) /\ Carriers(s)' = {}
        BY <4>1, <4>4, <4>5, <4>6
      <4>8. s \in Made' /\ \A x \in Carriers(s)' : x = x0
        BY <1>6, <4>1, <4>4, MadeGrows
      <4> QED BY <3>3, <4>3, <4>7, <4>8, OneLeft
    <3> QED BY <3>2, <3>3
  <2> QED BY <2>1, <2>2
<1> QED BY <1>7, <1>8, <1>9, <1>10 DEF Core

-----------------------------------------------------------------------------
(***************************************************************************)
(* What a worker gives up.                                                 *)
(***************************************************************************)
\* The step takes token t to a hub, where it is x0 if it stands for s.
Brings(w, s, t, x0) ==
  /\ IsToken(x0) /\ x0[1] # "pool" /\ x0[2] = t.owner
  /\ \/ \A x : Wired(s, x)' => Wired(s, x) \/ (StandsFor(t, s) /\ x = x0)
     \/ \A x : Wired(s, x)' =>
          (\E o : Wired(s, o) /\ x = Reaches(w, o)) \/ (StandsFor(t, s) /\ x = x0)
  /\ \A x : InHub(token', hubPool', s, x) =>
       InHub(token, hubPool, s, x) \/ (StandsFor(t, s) /\ x = x0)

\* A token for its own hub.
LEMMA ReleaseHere ==
  ASSUME Shapes, NEW w \in Hub, NEW t \in Token, Release(w, t, w)
  PROVE  /\ \A s : \E x0 : Brings(w, s, t, x0)
         /\ token' \in [Hub -> [Address -> Token \cup {NoToken}]]
         /\ hubPool' \in [Hub -> SUBSET Address]
         /\ UNCHANGED <<outBuffer, acks, hubQueue>>
<1> DEFINE a == Allocate(w, {t})[t]
<1>0. /\ token \in [Hub -> [Address -> Token \cup {NoToken}]]
      /\ hubPool \in [Hub -> SUBSET Address]
  BY DEF Shapes
<1>1. /\ Places(w, {t}) # {} /\ token' = [token EXCEPT ![w][a] = t]
      /\ hubPool' = [hubPool EXCEPT ![w] = @ \cup {a}]
      /\ UNCHANGED <<outBuffer, acks, hubQueue>>
  BY DEF Release, report
<1>2. a \in Address
  <2>1. Allocate(w, {t}) \in Places(w, {t})
    BY <1>1 DEF Allocate
  <2> QED BY <2>1 DEF Places, Injection, IsInjective, Free
<1> HIDE DEF a
<1>3. /\ token' \in [Hub -> [Address -> Token \cup {NoToken}]]
      /\ hubPool' \in [Hub -> SUBSET Address]
  BY <1>0, <1>1, <1>2
<1>4. ASSUME NEW s PROVE \E x0 : Brings(w, s, t, x0)
  <2> DEFINE x0 == <<"hub", t.owner, w, a>>
  <2>1. IsToken(x0) /\ x0[1] # "pool" /\ x0[2] = t.owner
    BY DEF IsToken
  <2>2. \A x : Wired(s, x)' => Wired(s, x)
    BY <1>1, Zenon DEF Wired
  <2>3. ASSUME NEW x, InHub(token', hubPool', s, x)
        PROVE  InHub(token, hubPool, s, x) \/ (StandsFor(t, s) /\ x = x0)
    <3>1. PICK h \in Hub : \E b \in hubPool'[h] :
            x = <<"hub", token'[h][b].owner, h, b>> /\ StandsFor(token'[h][b], s)
      BY <2>3 DEF InHub
    <3>2. PICK b \in hubPool'[h] :
            x = <<"hub", token'[h][b].owner, h, b>> /\ StandsFor(token'[h][b], s)
      BY <3>1
    <3>3. b \in Address
      BY <1>3
    <3>4. CASE h = w /\ b = a
      <4>1. token'[h][b] = t
        BY <1>0, <1>1, <1>2, <3>4
      <4> QED BY <3>2, <3>4, <4>1
    <3>5. CASE ~(h = w /\ b = a)
      <4>1. token'[h][b] = token[h][b] /\ b \in hubPool[h]
        BY <1>0, <1>1, <3>3, <3>5
      <4> QED BY <3>2, <4>1 DEF InHub
    <3> QED BY <3>4, <3>5
  <2> HIDE DEF x0
  <2> QED BY <2>1, <2>2, <2>3 DEF Brings
<1> QED BY <1>1, <1>3, <1>4

\* A token for the hub of its cluster, elsewhere.
LEMMA ReleaseNear ==
  ASSUME WorkAssumption, Shapes, NEW w \in RemoteWorker, NEW t \in Token,
         Release(w, t, HubOf[w])
  PROVE  /\ \A s : \E x0 : Brings(w, s, t, x0)
         /\ outBuffer' \in [RemoteWorker -> Seq(Token)] /\ acks' \in [RemoteWorker -> Seq(Ack)]
         /\ hubQueue' \in [Hub -> [Worker -> Seq(HubMessage)]]
         /\ UNCHANGED <<token, hubPool>>
<1> DEFINE tokens == Append(outBuffer[w], t)
           n == Len(outBuffer[w]) + 1
<1>0. /\ w \in Worker /\ HubOf[w] \in Hub /\ HubOf[w] # w /\ outBuffer[w] \in Seq(Token)
      /\ acks[w] \in Seq(Ack) /\ tokens \in Seq(Token)
      /\ outBuffer \in [RemoteWorker -> Seq(Token)] /\ acks \in [RemoteWorker -> Seq(Ack)]
      /\ hubQueue \in [Hub -> [Worker -> Seq(HubMessage)]]
  BY DEF Shapes, RemoteWorker, WorkAssumption
<1>1. /\ IF Len(tokens) = MaxBuffered
         THEN SendReport(w, tokens, acks[w])
         ELSE outBuffer' = [outBuffer EXCEPT ![w] = tokens] /\ UNCHANGED <<acks, hubQueue>>
      /\ UNCHANGED <<token, hubPool>>
  BY <1>0 DEF Release, hubState
<1>2. /\ DOMAIN tokens = 1 .. n /\ tokens[n] = t
      /\ \A i \in DOMAIN outBuffer[w] : i \in DOMAIN tokens /\ tokens[i] = outBuffer[w][i]
      /\ \A i \in DOMAIN tokens : i # n => i \in DOMAIN outBuffer[w]
  BY <1>0, Appended
<1> HIDE DEF tokens, n
<1>3. \A s, x : InHub(token', hubPool', s, x) => InHub(token, hubPool, s, x)
  BY <1>1
<1>4. CASE Len(tokens) = MaxBuffered
  <2>1. SendReport(w, tokens, acks[w])
    BY <1>1, <1>4
  <2>2. /\ outBuffer' \in [RemoteWorker -> Seq(Token)] /\ acks' \in [RemoteWorker -> Seq(Ack)]
        /\ hubQueue' \in [Hub -> [Worker -> Seq(HubMessage)]]
    BY <1>0, <2>1, ReportShapes
  <2>3. Posts(w, tokens, acks[w])
    BY <2>1 DEF SendReport, Posts
  <2>4. ASSUME NEW s PROVE \E x0 : Brings(w, s, t, x0)
    <3> DEFINE x0 == <<"queue", t.owner, HubOf[w], w, Len(hubQueue[HubOf[w]][w]) + 1, n>>
    <3>1. IsToken(x0) /\ x0[1] # "pool" /\ x0[2] = t.owner
      BY DEF IsToken
    <3>2. ASSUME NEW x, Wired(s, x)'
          PROVE  (\E o : Wired(s, o) /\ x = Reaches(w, o)) \/ (StandsFor(t, s) /\ x = x0)
      <4>1. CASE \E o : Wired(s, o) /\ x = Reaches(w, o)
        BY <4>1
      <4>2. CASE \E i \in DOMAIN tokens \ DOMAIN outBuffer[w] :
                   /\ x = <<"queue", tokens[i].owner, HubOf[w], w,
                            Len(hubQueue[HubOf[w]][w]) + 1, i>>
                   /\ StandsFor(tokens[i], s)
        <5>1. PICK i \in DOMAIN tokens \ DOMAIN outBuffer[w] :
                   /\ x = <<"queue", tokens[i].owner, HubOf[w], w,
                            Len(hubQueue[HubOf[w]][w]) + 1, i>>
                   /\ StandsFor(tokens[i], s)
          BY <4>2
        <5>2. i = n
          BY <1>2
        <5> QED BY <1>2, <5>1, <5>2
      <4>3. \/ \E o : Wired(s, o) /\ x = Reaches(w, o)
            \/ \E i \in DOMAIN tokens \ DOMAIN outBuffer[w] :
                 /\ x = <<"queue", tokens[i].owner, HubOf[w], w,
                          Len(hubQueue[HubOf[w]][w]) + 1, i>>
                 /\ StandsFor(tokens[i], s)
        <5>1. tokens \in Seq(Token)
          BY <1>0
        <5> QED BY <5>1, <1>2, <2>3, <3>2, PostFollows
      <4> QED BY <4>1, <4>2, <4>3
    <3> HIDE DEF x0
    <3> QED BY <1>3, <3>1, <3>2 DEF Brings
  <2> QED BY <1>1, <2>2, <2>4
<1>5. CASE Len(tokens) # MaxBuffered
  <2>1. outBuffer' = [outBuffer EXCEPT ![w] = tokens] /\ UNCHANGED <<acks, hubQueue>>
    BY <1>1, <1>5
  <2>2. /\ outBuffer' \in [RemoteWorker -> Seq(Token)] /\ acks' \in [RemoteWorker -> Seq(Ack)]
        /\ hubQueue' \in [Hub -> [Worker -> Seq(HubMessage)]]
    BY <1>0, <2>1
  <2>3. ASSUME NEW s PROVE \E x0 : Brings(w, s, t, x0)
    <3> DEFINE x0 == <<"buffer", t.owner, w, n>>
    <3>1. IsToken(x0) /\ x0[1] # "pool" /\ x0[2] = t.owner
      BY DEF IsToken
    <3>2. ASSUME NEW x, Wired(s, x)' PROVE Wired(s, x) \/ (StandsFor(t, s) /\ x = x0)
      <4>1. CASE InQueue(hubQueue', s, x)
        BY <2>1, <4>1 DEF Wired
      <4>2. CASE InBuffer(outBuffer', s, x)
        <5>1. PICK v \in RemoteWorker : \E i \in DOMAIN outBuffer'[v] :
                x = <<"buffer", outBuffer'[v][i].owner, v, i>> /\ StandsFor(outBuffer'[v][i], s)
          BY <4>2 DEF InBuffer
        <5>2. PICK i \in DOMAIN outBuffer'[v] :
                x = <<"buffer", outBuffer'[v][i].owner, v, i>> /\ StandsFor(outBuffer'[v][i], s)
          BY <5>1
        <5>3. CASE v = w /\ i = n
          <6>1. outBuffer'[v][i] = t
            BY <1>0, <1>2, <2>1, <5>3
          <6> QED BY <5>2, <5>3, <6>1
        <5>4. CASE ~(v = w /\ i = n)
          <6>1. i \in DOMAIN outBuffer[v] /\ outBuffer'[v][i] = outBuffer[v][i]
            BY <1>0, <1>2, <2>1, <5>4
          <6> QED BY <5>2, <6>1 DEF Wired, InBuffer
        <5> QED BY <5>3, <5>4
      <4> QED BY <3>2, <4>1, <4>2 DEF Wired
    <3> HIDE DEF x0
    <3> QED BY <1>3, <3>1, <3>2 DEF Brings
  <2> QED BY <1>1, <2>2, <2>3
<1> QED BY <1>4, <1>5

\* A token for the hub of another cluster.
LEMMA ReleaseFar ==
  ASSUME WorkAssumption, Shapes, NEW w \in Worker, NEW h \in Hub, h # w, h # HubOf[w],
         NEW t \in Token, Release(w, t, h)
  PROVE  /\ \A s : \E x0 : Brings(w, s, t, x0)
         /\ hubQueue' \in [Hub -> [Worker -> Seq(HubMessage)]]
         /\ UNCHANGED <<outBuffer, acks, token, hubPool>>
<1> DEFINE msg == [tokens |-> <<t>>, acks |-> <<>>, adjust |-> 0]
           n == Len(hubQueue[h][w]) + 1
<1>0. hubQueue \in [Hub -> [Worker -> Seq(HubMessage)]] /\ hubQueue[h][w] \in Seq(HubMessage)
  BY DEF Shapes
<1>1. /\ hubQueue' = [hubQueue EXCEPT ![h][w] = Append(@, msg)]
      /\ UNCHANGED <<outBuffer, acks, token, hubPool>>
  BY DEF Release, hubState
<1>2. msg \in HubMessage /\ msg.tokens = <<t>>
  BY DEF HubMessage
<1> HIDE DEF msg
<1>3. hubQueue' \in [Hub -> [Worker -> Seq(HubMessage)]]
  <2>1. Append(hubQueue[h][w], msg) \in Seq(HubMessage)
    BY <1>0, <1>2
  <2> QED BY <1>0, <1>1, <2>1
<1>4. ASSUME NEW s PROVE \E x0 : Brings(w, s, t, x0)
  <2> DEFINE x0 == <<"queue", t.owner, h, w, n, 1>>
  <2>1. IsToken(x0) /\ x0[1] # "pool" /\ x0[2] = t.owner
    BY DEF IsToken
  <2>2. ASSUME NEW x, Wired(s, x)' PROVE Wired(s, x) \/ (StandsFor(t, s) /\ x = x0)
    <3>1. CASE InBuffer(outBuffer', s, x)
      BY <1>1, <3>1 DEF Wired
    <3>2. CASE InQueue(hubQueue', s, x)
      <4>1. PICK g \in Hub, p \in Worker : \E i \in DOMAIN hubQueue'[g][p] :
              \E j \in DOMAIN hubQueue'[g][p][i].tokens :
                /\ x = <<"queue", hubQueue'[g][p][i].tokens[j].owner, g, p, i, j>>
                /\ StandsFor(hubQueue'[g][p][i].tokens[j], s)
        BY <3>2 DEF InQueue
      <4>2. PICK i \in DOMAIN hubQueue'[g][p] : \E j \in DOMAIN hubQueue'[g][p][i].tokens :
              /\ x = <<"queue", hubQueue'[g][p][i].tokens[j].owner, g, p, i, j>>
              /\ StandsFor(hubQueue'[g][p][i].tokens[j], s)
        BY <4>1
      <4>3. PICK j \in DOMAIN hubQueue'[g][p][i].tokens :
              /\ x = <<"queue", hubQueue'[g][p][i].tokens[j].owner, g, p, i, j>>
              /\ StandsFor(hubQueue'[g][p][i].tokens[j], s)
        BY <4>2
      <4>4. CASE g = h /\ p = w
        <5>1. hubQueue'[g][p] = Append(hubQueue[h][w], msg)
          BY <1>0, <1>1, <4>4
        <5>2. CASE i = n
          <6>1. hubQueue'[g][p][i] = msg
            BY <1>0, <5>1, <5>2, Appended
          <6>2. j = 1 /\ hubQueue'[g][p][i].tokens[j] = t
            BY <1>2, <4>3, <6>1
          <6> QED BY <4>3, <4>4, <5>2, <6>2
        <5>3. CASE i # n
          <6>1. i \in DOMAIN hubQueue[g][p] /\ hubQueue'[g][p][i] = hubQueue[g][p][i]
            BY <1>0, <4>4, <5>1, <5>3, Appended
          <6> QED BY <4>3, <6>1 DEF Wired, InQueue
        <5> QED BY <5>2, <5>3
      <4>5. CASE ~(g = h /\ p = w)
        <5>1. hubQueue'[g][p] = hubQueue[g][p]
          BY <1>0, <1>1, <4>5
        <5> QED BY <4>3, <5>1 DEF Wired, InQueue
      <4> QED BY <4>4, <4>5
    <3> QED BY <2>2, <3>1, <3>2 DEF Wired
  <2>3. \A x : InHub(token', hubPool', s, x) => InHub(token, hubPool, s, x)
    BY <1>1
  <2> HIDE DEF x0
  <2> QED BY <2>1, <2>2, <2>3 DEF Brings
<1> QED BY <1>1, <1>3, <1>4

\* A token for any hub.
LEMMA ReleaseBrings ==
  ASSUME WorkAssumption, Shapes, NEW w \in Worker, NEW h \in Hub, NEW t \in Token,
         Release(w, t, h)
  PROVE  /\ \A s : \E x0 : Brings(w, s, t, x0)
         /\ outBuffer' \in [RemoteWorker -> Seq(Token)] /\ acks' \in [RemoteWorker -> Seq(Ack)]
         /\ hubQueue' \in [Hub -> [Worker -> Seq(HubMessage)]]
         /\ token' \in [Hub -> [Address -> Token \cup {NoToken}]]
         /\ hubPool' \in [Hub -> SUBSET Address]
<1>0. /\ outBuffer \in [RemoteWorker -> Seq(Token)] /\ acks \in [RemoteWorker -> Seq(Ack)]
      /\ hubQueue \in [Hub -> [Worker -> Seq(HubMessage)]]
      /\ token \in [Hub -> [Address -> Token \cup {NoToken}]]
      /\ hubPool \in [Hub -> SUBSET Address]
  BY DEF Shapes
<1>1. CASE h = w
  BY <1>0, <1>1, ReleaseHere
<1>2. CASE h # w /\ h = HubOf[w]
  <2>1. w \in RemoteWorker
    BY <1>2 DEF WorkAssumption, RemoteWorker
  <2> QED BY <1>0, <1>2, <2>1, ReleaseNear
<1>3. CASE h # w /\ h # HubOf[w]
  BY <1>0, <1>3, ReleaseFar
<1> QED BY <1>1, <1>2, <1>3

\* A token brings nothing to others than it stands for.
LEMMA BringsToOthers ==
  ASSUME NEW w, NEW s, NEW t, NEW x0, Brings(w, s, t, x0), ~StandsFor(t, s)
  PROVE  WiresFollow(w, s) /\ HubsFollow(s)
BY DEF Brings, WiresFollow, HubsFollow

\* What it stands for had no token before, and has this one after.
LEMMA BringsToSelf ==
  ASSUME NEW w, NEW s, NEW t, NEW x0, Brings(w, s, t, x0),
         \A x : ~Wired(s, x) /\ ~InHub(token, hubPool, s, x)
  PROVE  \A x : Wired(s, x)' \/ InHub(token', hubPool', s, x) => x = x0
BY DEF Brings

\* A token for a child stands for no subproblem that has been made.
LEMMA ReleaseChildCore ==
  ASSUME WorkAssumption, Core, NEW w \in Worker, NEW s \in workerPool[w], NEW h \in Hub,
         ReleaseChild(w, s, h)
  PROVE  Core'
<1> DEFINE t == [sub |-> s, self |-> FALSE, owner |-> w]
           stays == StillNeededByWorker(childrenLeft[s], tokenCount[s] + 1)
<1>0. /\ Release(w, t, h)
      /\ tokenCount' = [tokenCount EXCEPT ![s] = @ + 1]
      /\ IF stays THEN UNCHANGED <<workerPool, serverPool>>
         ELSE /\ workerPool' = [workerPool EXCEPT ![w] = @ \ {s}]
              /\ serverPool' = [serverPool EXCEPT ![w] = @ \cup {s}]
  BY DEF ReleaseChild
<1>1. UNCHANGED <<incumbent, needPruning, separated, childrenLeft, network>>
  BY DEF ReleaseChild, pruning
<1>2. /\ s \in Sub /\ Single(s) /\ Shapes
      /\ workerPool \in [Worker -> SUBSET Sub] /\ serverPool \in [Worker -> SUBSET Sub]
      /\ tokenCount \in [Sub -> Int]
  BY DEF Core, Shapes
<1>3. t \in Token /\ \A u : ~StandsFor(t, u)
  BY <1>2 DEF Token, StandsFor
<1> HIDE DEF t, stays
<1>4. /\ workerPool' \in [Worker -> SUBSET Sub] /\ serverPool' \in [Worker -> SUBSET Sub]
      /\ tokenCount' \in [Sub -> Int]
  BY <1>0, <1>2
<1>5. /\ \A v \in Worker : workerPool'[v] \subseteq workerPool[v]
      /\ \A v \in Worker : \A u \in serverPool'[v] :
           u \in serverPool[v] \/ (v = w /\ u = s /\ s \notin workerPool'[w])
      /\ \A u \in Sub : u # s => tokenCount'[u] = tokenCount[u]
  BY <1>0, <1>2
<1>6. Grows
  BY <1>1 DEF Grows
<1>7. Shapes'
  BY <1>0, <1>1, <1>2, <1>3, <1>4, ReleaseBrings DEF Shapes
<1>8. PoolsArePruned' /\ ChildrenAreKept'
  <2>1. PoolsArePruned'
    BY <1>1, <1>5 DEF PoolsArePruned, Core
  <2>2. ChildrenAreKept'
    BY <1>1 DEF ChildrenAreKept, Made, Core
  <2> QED BY <2>1, <2>2
<1>9. ASSUME NEW u \in Sub PROVE Single(u)'
  <2>1. WiresFollow(w, u) /\ HubsFollow(u)
    <3>1. PICK x0 : Brings(w, u, t, x0)
      BY <1>0, <1>2, <1>3, ReleaseBrings
    <3> QED BY <1>3, <3>1, BringsToOthers
  <2>2. OthersFollow(u)
    <3>1. \A x : InPool(workerPool', u, x) => InPool(workerPool, u, x)
      BY <1>5 DEF InPool
    <3> QED BY <1>1, <2>1, <3>1 DEF OthersFollow
  <2>3. CASE u # s
    <3>1. Keeps(u)
      BY <1>1, <1>5, <2>3 DEF Keeps
    <3> QED BY <1>6, <2>1, <2>2, <3>1, Followed DEF Core
  <2>4. CASE u = s
    <3> DEFINE x0 == <<"pool", w>>
    <3>1. s \in Made /\ \A v \in Worker : s \notin serverPool[v]
      BY <1>2, Owned
    <3>2. x0[1] = "pool" /\ ~IsToken(x0)
      BY DEF IsToken
    <3>3. \A x : ~Wired(s, x) /\ ~InHub(token, hubPool, s, x) /\ ~InDispatch(network, s, x)
                 /\ ~InDelivery(network, s, x) /\ (InPool(workerPool, s, x) => x = x0)
      BY <1>2, Owned, CarriersNow
    <3>4. InPool(workerPool', s, x0) => s \in workerPool'[w]
      BY DEF InPool
    <3> HIDE DEF x0
    <3>5. \A x \in Carriers(s)' : x = x0 /\ InPool(workerPool', s, x)
      <4>1. \A x : ~Wired(s, x)'
        BY <2>1, <2>4, <3>3 DEF WiresFollow
      <4> QED BY <2>2, <2>4, <3>3, <4>1, CarriersNext DEF OthersFollow, HubsFollow
    <3>6. \A v \in Worker : s \in serverPool'[v] => v = w /\ s \notin workerPool'[w]
      BY <1>5, <3>1
    <3>7. \A v \in Worker : s \in serverPool'[v] =>
            (\A z \in Worker : s \in serverPool'[z] => z = v) /\ Carriers(s)' = {}
      BY <3>4, <3>5, <3>6
    <3>8. s \in Made'
      BY <1>6, <3>1, MadeGrows
    <3> QED BY <2>4, <3>2, <3>5, <3>7, <3>8, OneLeft
  <2> QED BY <2>3, <2>4
<1> QED BY <1>7, <1>8, <1>9 DEF Core

\* A token for a subproblem takes the place of the pool it was in.
LEMMA ReleaseSelfCore ==
  ASSUME WorkAssumption, Core, NEW w \in Worker, NEW s \in workerPool[w], NEW h \in Hub,
         ReleaseSelf(w, s, h)
  PROVE  Core'
<1> DEFINE t == [sub |-> s, self |-> TRUE, owner |-> w]
<1>0. /\ Release(w, t, h) /\ s \notin separated
      /\ tokenCount' = [tokenCount EXCEPT ![s] = 1]
      /\ workerPool' = [workerPool EXCEPT ![w] = @ \ {s}]
      /\ serverPool' = [serverPool EXCEPT ![w] = @ \cup {s}]
  BY DEF ReleaseSelf
<1>1. UNCHANGED <<incumbent, needPruning, separated, childrenLeft, network>>
  BY DEF ReleaseSelf, pruning
<1>2. /\ s \in Sub /\ Single(s) /\ Shapes
      /\ workerPool \in [Worker -> SUBSET Sub] /\ serverPool \in [Worker -> SUBSET Sub]
      /\ tokenCount \in [Sub -> Int]
  BY DEF Core, Shapes
<1>3. t \in Token /\ t.owner = w /\ \A u : StandsFor(t, u) => u = s
  BY <1>2 DEF Token, StandsFor
<1> HIDE DEF t
<1>4. /\ workerPool' \in [Worker -> SUBSET Sub] /\ serverPool' \in [Worker -> SUBSET Sub]
      /\ tokenCount' \in [Sub -> Int]
  BY <1>0, <1>2
<1>5. /\ \A v \in Worker : workerPool'[v] \subseteq workerPool[v]
      /\ s \notin workerPool'[w] /\ tokenCount'[s] = 1
      /\ \A v \in Worker : \A u \in serverPool'[v] : u \in serverPool[v] \/ (v = w /\ u = s)
      /\ \A u \in Sub : u # s => tokenCount'[u] = tokenCount[u]
  BY <1>0, <1>2
<1>6. Grows
  BY <1>1 DEF Grows
<1>7. Shapes'
  BY <1>0, <1>1, <1>2, <1>3, <1>4, ReleaseBrings DEF Shapes
<1>8. PoolsArePruned' /\ ChildrenAreKept'
  <2>1. PoolsArePruned'
    BY <1>1, <1>5 DEF PoolsArePruned, Core
  <2>2. ChildrenAreKept'
    BY <1>1 DEF ChildrenAreKept, Made, Core
  <2> QED BY <2>1, <2>2
<1>9. ASSUME NEW u \in Sub PROVE Single(u)'
  <2>0. PICK x0 : Brings(w, u, t, x0)
    BY <1>0, <1>2, <1>3, ReleaseBrings
  <2>1. CASE u # s
    <3>1. WiresFollow(w, u) /\ HubsFollow(u)
      BY <1>3, <2>0, <2>1, BringsToOthers
    <3>2. OthersFollow(u)
      <4>1. \A x : InPool(workerPool', u, x) => InPool(workerPool, u, x)
        BY <1>5 DEF InPool
      <4> QED BY <1>1, <3>1, <4>1 DEF OthersFollow
    <3>3. Keeps(u)
      BY <1>1, <1>5, <2>1 DEF Keeps
    <3> QED BY <1>6, <3>1, <3>2, <3>3, Followed DEF Core
  <2>2. CASE u = s
    <3>1. /\ s \in Made /\ \A v \in Worker : s \notin serverPool[v]
          /\ \A v \in Worker : s \in workerPool[v] => v = w
          /\ \A x : ~Wired(s, x) /\ ~InHub(token, hubPool, s, x)
          /\ \A x : ~InDispatch(network, s, x) /\ ~InDelivery(network, s, x)
      BY <1>2, Owned
    <3>2. \A x : Wired(s, x)' \/ InHub(token', hubPool', s, x) => x = x0
      BY <2>0, <2>2, <3>1, BringsToSelf
    <3>3. \A x : ~InPool(workerPool', s, x)
      BY <1>5, <3>1 DEF InPool
    <3>4. \A x \in Carriers(s)' : x = x0
      BY <1>1, <3>1, <3>2, <3>3, CarriersNext
    <3>5. s \in Made'
      BY <1>6, <3>1, MadeGrows
    <3>6. IsToken(x0) /\ x0[2] = w
      BY <1>3, <2>0 DEF Brings
    <3>7. \A v \in Worker : s \in serverPool'[v] =>
            (\A z \in Worker : s \in serverPool'[z] => z = v) /\ v = w
      BY <1>5, <3>1
    <3> QED BY <1>0, <1>1, <1>5, <2>2, <3>4, <3>5, <3>6, <3>7, OneLeft
  <2> QED BY <2>1, <2>2
<1> QED BY <1>7, <1>8, <1>9 DEF Core

-----------------------------------------------------------------------------
(***************************************************************************)
(* A hub that takes the first message of a queue.                          *)
(***************************************************************************)
\* Carrier x is what o becomes: another message moves up in the queue; a token
\* in the message comes to the place that at gives it.
TakenIn(h, p, at, x, o) ==
  \/ \E i \in Nat \ {0} : \E j, w : /\ x = <<"queue", w, h, p, i, j>>
                                   /\ o = <<"queue", w, h, p, i + 1, j>>
  \/ \E j \in DOMAIN at : \E w : x = <<"hub", w, h, at[j]>> /\ o = <<"queue", w, h, p, 1, j>>
  \/ x = o /\ ~(o[1] = "queue" /\ o[3] = h /\ o[4] = p)

\* A token is as good in the hub as it was in the message.
LEMMA TakenInKin ==
  ASSUME NEW h, NEW p, NEW at, NEW x, NEW o, TakenIn(h, p, at, x, o)
  PROVE  Kin(x, o)
<1>1. ASSUME NEW i \in Nat \ {0}, NEW j, NEW w, x = <<"queue", w, h, p, i, j>>,
             o = <<"queue", w, h, p, i + 1, j>>
      PROVE  Kin(x, o)
  <2>1. x[1] = "queue" /\ o[1] = "queue" /\ x[2] = o[2]
    BY <1>1
  <2> QED BY <2>1 DEF Kin, IsToken
<1>2. ASSUME NEW j \in DOMAIN at, NEW w, x = <<"hub", w, h, at[j]>>,
             o = <<"queue", w, h, p, 1, j>>
      PROVE  Kin(x, o)
  <2>1. x[1] = "hub" /\ o[1] = "queue" /\ x[2] = o[2]
    BY <1>2
  <2> QED BY <2>1 DEF Kin, IsToken
<1>3. x = o => Kin(x, o)
  BY DEF Kin
<1> QED BY <1>1, <1>2, <1>3 DEF TakenIn

\* ... and is there once.
LEMMA TakenInOnce ==
  ASSUME NEW h, NEW p, NEW at, NEW x, NEW y, NEW o,
         TakenIn(h, p, at, x, o), TakenIn(h, p, at, y, o)
  PROVE  x = y
<1>1. ASSUME NEW i \in Nat \ {0}, NEW j, NEW w, x = <<"queue", w, h, p, i, j>>,
             o = <<"queue", w, h, p, i + 1, j>>
      PROVE  x = y
  <2>1. o[1] = "queue" /\ o[2] = w /\ o[3] = h /\ o[4] = p /\ o[5] = i + 1 /\ o[6] = j
    BY <1>1
  <2>2. ASSUME NEW k \in Nat \ {0}, NEW l, NEW v, y = <<"queue", v, h, p, k, l>>,
               o = <<"queue", v, h, p, k + 1, l>>
        PROVE  x = y
    <3>1. o[2] = v /\ o[5] = k + 1 /\ o[6] = l
      BY <2>2
    <3>2. v = w /\ k = i /\ l = j
      BY <2>1, <3>1
    <3> QED BY <1>1, <2>2, <3>2
  <2>3. ASSUME NEW l \in DOMAIN at, NEW v, o = <<"queue", v, h, p, 1, l>> PROVE FALSE
    <3>1. o[5] = 1
      BY <2>3
    <3> QED BY <2>1, <3>1
  <2> QED BY <2>1, <2>2, <2>3 DEF TakenIn
<1>2. ASSUME NEW j \in DOMAIN at, NEW w, x = <<"hub", w, h, at[j]>>,
             o = <<"queue", w, h, p, 1, j>>
      PROVE  x = y
  <2>1. o[1] = "queue" /\ o[2] = w /\ o[3] = h /\ o[4] = p /\ o[5] = 1 /\ o[6] = j
    BY <1>2
  <2>2. ASSUME NEW k \in Nat \ {0}, NEW l, NEW v, o = <<"queue", v, h, p, k + 1, l>>
        PROVE  FALSE
    <3>1. o[5] = k + 1
      BY <2>2
    <3> QED BY <2>1, <3>1
  <2>3. ASSUME NEW l \in DOMAIN at, NEW v, y = <<"hub", v, h, at[l]>>,
               o = <<"queue", v, h, p, 1, l>>
        PROVE  x = y
    <3>1. o[2] = v /\ o[6] = l
      BY <2>3
    <3> QED BY <1>2, <2>1, <2>3, <3>1
  <2> QED BY <2>1, <2>2, <2>3 DEF TakenIn
<1>3. CASE x = o /\ ~(o[1] = "queue" /\ o[3] = h /\ o[4] = p)
  <2>1. ASSUME NEW k, NEW l, NEW v, o = <<"queue", v, h, p, k, l>> PROVE FALSE
    <3>1. o[1] = "queue" /\ o[3] = h /\ o[4] = p
      BY <2>1
    <3> QED BY <1>3, <3>1
  <2> QED BY <1>3, <2>1 DEF TakenIn
<1> QED BY <1>1, <1>2, <1>3 DEF TakenIn

\* A sequence without its head.
LEMMA Shifted ==
  ASSUME NEW S, NEW q \in Seq(S), q # <<>>
  PROVE  /\ Len(q) \in Nat /\ 1 \in DOMAIN q /\ Head(q) = q[1] /\ q[1] \in S
         /\ Tail(q) \in Seq(S)
         /\ \A i \in DOMAIN Tail(q) :
              i \in Nat \ {0} /\ i + 1 \in DOMAIN q /\ Tail(q)[i] = q[i + 1]
OBVIOUS

\* What a hub does with the message, which has the tokens fresh[j].
LEMMA HubTakes ==
  ASSUME WorkAssumption, Shapes, NEW h \in Hub, NEW p \in Worker, HandleHubMessage(h, p)
  PROVE  /\ hubQueue' \in [Hub -> [Worker -> Seq(HubMessage)]]
         /\ token' \in [Hub -> [Address -> Token \cup {NoToken}]]
         /\ hubPool' \in [Hub -> SUBSET Address]
         /\ \A i \in DOMAIN hubQueue'[h][p] :
              /\ i \in Nat \ {0} /\ i + 1 \in DOMAIN hubQueue[h][p]
              /\ hubQueue'[h][p][i] = hubQueue[h][p][i + 1]
         /\ \A g \in Hub, v \in Worker :
              ~(g = h /\ v = p) => hubQueue'[g][v] = hubQueue[g][v]
         /\ 1 \in DOMAIN hubQueue[h][p]
         /\ \E at : \A g \in Hub : \A a \in hubPool'[g] :
              \/ token'[g][a] = NoToken
              \/ a \in hubPool[g] /\ token'[g][a] = token[g][a]
              \/ /\ g = h
                 /\ \E j \in DOMAIN at :
                      /\ j \in DOMAIN hubQueue[h][p][1].tokens
                      /\ at[j] = a /\ token'[g][a] = hubQueue[h][p][1].tokens[j]
<1> DEFINE q     == hubQueue[h][p]
           msg   == Head(q)
           fresh == {i \in DOMAIN msg.tokens : ~CanFathom(h, msg.tokens[i].sub)}
           at    == Allocate(h, fresh)
           dead  == Acknowledged(h, msg.acks)
           ix(a) == CHOOSE i \in fresh : at[i] = a
<1>0. /\ hubQueue \in [Hub -> [Worker -> Seq(HubMessage)]] /\ q \in Seq(HubMessage)
      /\ token \in [Hub -> [Address -> Token \cup {NoToken}]]
      /\ hubPool \in [Hub -> SUBSET Address]
  BY DEF Shapes
<1>1. q # <<>>
  BY DEF HandleHubMessage
<1>2. /\ 1 \in DOMAIN q /\ Head(q) = q[1] /\ q[1] \in HubMessage /\ Tail(q) \in Seq(HubMessage)
      /\ \A i \in DOMAIN Tail(q) : i \in Nat \ {0} /\ i + 1 \in DOMAIN q /\ Tail(q)[i] = q[i + 1]
  <2> HIDE DEF q
  <2> QED BY <1>0, <1>1, Shifted
<1>3. /\ Places(h, fresh) # {}
      /\ token' = [token EXCEPT ![h] = [a \in Address |->
           IF a \in dead THEN NoToken
           ELSE IF a \in Range(at) THEN msg.tokens[ix(a)] ELSE @[a]]]
      /\ hubPool' = [hubPool EXCEPT ![h] = @ \cup Range(at)]
      /\ hubQueue' = [hubQueue EXCEPT ![h][p] = Tail(@)]
  BY Zenon DEF HandleHubMessage
<1>4. msg = q[1] /\ msg.tokens \in Seq(Token) /\ fresh \subseteq DOMAIN msg.tokens
  BY <1>2 DEF HubMessage
<1>5. at \in [fresh -> Address]
  <2>1. at \in Places(h, fresh)
    BY <1>3 DEF Allocate
  <2> HIDE DEF at, fresh
  <2> QED BY <2>1 DEF Places, Injection, IsInjective, Free
<1> HIDE DEF q, msg, fresh, at, dead
<1>6. /\ DOMAIN at = fresh /\ Range(at) \subseteq Address
      /\ \A a \in Range(at) : ix(a) \in fresh /\ at[ix(a)] = a
  BY <1>5 DEF Range
<1> HIDE DEF ix
<1>7. \A a \in Range(at) : msg.tokens[ix(a)] \in Token
  BY <1>4, <1>6
<1>8. token' \in [Hub -> [Address -> Token \cup {NoToken}]]
  <2> DEFINE f == [a \in Address |-> IF a \in dead THEN NoToken
           ELSE IF a \in Range(at) THEN msg.tokens[ix(a)] ELSE token[h][a]]
  <2>1. f \in [Address -> Token \cup {NoToken}]
    BY <1>0, <1>7
  <2>2. token' = [token EXCEPT ![h] = f]
    BY <1>3
  <2> HIDE DEF f
  <2> QED BY <1>0, <2>1, <2>2
<1>9. hubPool' \in [Hub -> SUBSET Address]
  BY <1>0, <1>3, <1>6
<1>10. hubQueue' \in [Hub -> [Worker -> Seq(HubMessage)]]
  BY <1>0, <1>2, <1>3 DEF q
<1>11. hubQueue'[h][p] = Tail(q)
  BY <1>0, <1>3 DEF q
<1>12. \A g \in Hub, v \in Worker : ~(g = h /\ v = p) => hubQueue'[g][v] = hubQueue[g][v]
  BY <1>0, <1>3
<1>13. ASSUME NEW g \in Hub, NEW a \in hubPool'[g]
       PROVE  \/ token'[g][a] = NoToken
              \/ a \in hubPool[g] /\ token'[g][a] = token[g][a]
              \/ /\ g = h
                 /\ \E j \in DOMAIN at : /\ j \in DOMAIN msg.tokens
                                         /\ at[j] = a /\ token'[g][a] = msg.tokens[j]
  <2>1. a \in Address
    BY <1>9
  <2>2. CASE g # h
    BY <1>0, <1>3, <2>2
  <2>3. CASE g = h /\ a \in dead
    BY <1>0, <1>3, <2>1, <2>3
  <2>4. CASE g = h /\ a \notin dead /\ a \in Range(at)
    <3>1. token'[g][a] = msg.tokens[ix(a)]
      BY <1>0, <1>3, <2>1, <2>4
    <3>2. ix(a) \in DOMAIN at /\ ix(a) \in DOMAIN msg.tokens /\ at[ix(a)] = a
      BY <1>4, <1>6, <2>4
    <3> QED BY <2>4, <3>1, <3>2
  <2>5. CASE g = h /\ a \notin dead /\ a \notin Range(at)
    BY <1>0, <1>3, <2>1, <2>5
  <2> QED BY <2>2, <2>3, <2>4, <2>5
<1>14. \E f : \A g \in Hub : \A a \in hubPool'[g] :
              \/ token'[g][a] = NoToken
              \/ a \in hubPool[g] /\ token'[g][a] = token[g][a]
              \/ /\ g = h
                 /\ \E j \in DOMAIN f : /\ j \in DOMAIN msg.tokens
                                        /\ f[j] = a /\ token'[g][a] = msg.tokens[j]
  BY <1>13
<1>15. /\ 1 \in DOMAIN hubQueue[h][p]
       /\ \A i \in DOMAIN hubQueue'[h][p] :
              /\ i \in Nat \ {0} /\ i + 1 \in DOMAIN hubQueue[h][p]
              /\ hubQueue'[h][p][i] = hubQueue[h][p][i + 1]
  BY <1>2, <1>11 DEF q
<1> QED BY <1>4, <1>8, <1>9, <1>10, <1>12, <1>14, <1>15 DEF q

\* A hub takes a message: its tokens come to the hub, or vanish.
LEMMA HandleHubCore ==
  ASSUME WorkAssumption, Core, NEW h \in Hub, NEW p \in Worker, HandleHubMessage(h, p)
  PROVE  Core'
<1>0. UNCHANGED <<incumbent, needPruning, workerPool, serverPool, separated, childrenLeft,
                  tokenCount, outBuffer, acks, network>>
  BY DEF HandleHubMessage, pruning, search
<1>1. /\ hubQueue' \in [Hub -> [Worker -> Seq(HubMessage)]]
      /\ token' \in [Hub -> [Address -> Token \cup {NoToken}]]
      /\ hubPool' \in [Hub -> SUBSET Address]
  BY HubTakes DEF Core
<1>2. /\ \A i \in DOMAIN hubQueue'[h][p] :
           /\ i \in Nat \ {0} /\ i + 1 \in DOMAIN hubQueue[h][p]
           /\ hubQueue'[h][p][i] = hubQueue[h][p][i + 1]
      /\ \A g \in Hub, v \in Worker :
           ~(g = h /\ v = p) => hubQueue'[g][v] = hubQueue[g][v]
      /\ 1 \in DOMAIN hubQueue[h][p]
  BY HubTakes DEF Core
<1>3. PICK at : \A g \in Hub : \A a \in hubPool'[g] :
        \/ token'[g][a] = NoToken
        \/ a \in hubPool[g] /\ token'[g][a] = token[g][a]
        \/ /\ g = h
           /\ \E j \in DOMAIN at :
                /\ j \in DOMAIN hubQueue[h][p][1].tokens
                /\ at[j] = a /\ token'[g][a] = hubQueue[h][p][1].tokens[j]
  BY HubTakes, ZenonT(60) DEF Core
<1>4. Shapes'
  BY <1>0, <1>1 DEF Shapes, Core
<1>5. PoolsArePruned' /\ ChildrenAreKept' /\ Grows
  BY <1>0 DEF PoolsArePruned, ChildrenAreKept, Made, Grows, Core
<1>6. ASSUME NEW s, NEW x \in Carriers(s)'
      PROVE  \E o \in Carriers(s) : TakenIn(h, p, at, x, o)
  <2>1. CASE x \in Carriers(s) /\ x[1] # "queue"
    BY <2>1 DEF TakenIn
  <2>2. CASE InDispatch(network', s, x) \/ InDelivery(network', s, x) \/ InPool(workerPool', s, x)
    <3>1. InDispatch(network, s, x) \/ InDelivery(network, s, x) \/ InPool(workerPool, s, x)
      BY <1>0, <2>2, Zenon
    <3>2. InDispatch(network, s, x) => x[1] = "dispatch"
      BY DEF InDispatch
    <3>3. InDelivery(network, s, x) => x[1] = "delivery"
      BY DEF InDelivery
    <3>4. InPool(workerPool, s, x) => x[1] = "pool"
      BY DEF InPool
    <3> QED BY <2>1, <3>1, <3>2, <3>3, <3>4, CarriersNow
  <2>3. CASE InBuffer(outBuffer', s, x)
    <3>1. InBuffer(outBuffer, s, x) /\ x[1] = "buffer"
      BY <1>0, <2>3 DEF InBuffer
    <3> QED BY <2>1, <3>1, CarriersNow DEF Wired
  <2>4. CASE InQueue(hubQueue', s, x)
    <3>1. PICK g \in Hub, v \in Worker : \E i \in DOMAIN hubQueue'[g][v] :
            \E j \in DOMAIN hubQueue'[g][v][i].tokens :
              /\ x = <<"queue", hubQueue'[g][v][i].tokens[j].owner, g, v, i, j>>
              /\ StandsFor(hubQueue'[g][v][i].tokens[j], s)
      BY <2>4 DEF InQueue
    <3>2. PICK i \in DOMAIN hubQueue'[g][v] : \E j \in DOMAIN hubQueue'[g][v][i].tokens :
            /\ x = <<"queue", hubQueue'[g][v][i].tokens[j].owner, g, v, i, j>>
            /\ StandsFor(hubQueue'[g][v][i].tokens[j], s)
      BY <3>1
    <3>3. PICK j \in DOMAIN hubQueue'[g][v][i].tokens :
            /\ x = <<"queue", hubQueue'[g][v][i].tokens[j].owner, g, v, i, j>>
            /\ StandsFor(hubQueue'[g][v][i].tokens[j], s)
      BY <3>2
    <3>4. CASE g = h /\ v = p
      <4> DEFINE o == <<"queue", hubQueue'[g][v][i].tokens[j].owner, h, p, i + 1, j>>
      <4>1. i \in Nat \ {0} /\ i + 1 \in DOMAIN hubQueue[h][p]
            /\ hubQueue'[g][v][i] = hubQueue[h][p][i + 1]
        BY <1>2, <3>4
      <4>2. InQueue(hubQueue, s, o)
        BY <3>3, <4>1 DEF InQueue
      <4>3. TakenIn(h, p, at, x, o)
        BY <3>3, <3>4, <4>1 DEF TakenIn
      <4> QED BY <4>2, <4>3, CarriersNow DEF Wired
    <3>5. CASE ~(g = h /\ v = p)
      <4>1. hubQueue'[g][v] = hubQueue[g][v]
        BY <1>2, <3>5
      <4>2. InQueue(hubQueue, s, x)
        BY <3>3, <4>1 DEF InQueue
      <4>3. x[1] = "queue" /\ x[3] = g /\ x[4] = v
        BY <3>3
      <4>4. TakenIn(h, p, at, x, x)
        BY <3>5, <4>3 DEF TakenIn
      <4> QED BY <4>2, <4>4, CarriersNow DEF Wired
    <3> QED BY <3>4, <3>5
  <2>5. CASE InHub(token', hubPool', s, x)
    <3>1. PICK g \in Hub : \E a \in hubPool'[g] :
            x = <<"hub", token'[g][a].owner, g, a>> /\ StandsFor(token'[g][a], s)
      BY <2>5 DEF InHub
    <3>2. PICK a \in hubPool'[g] :
            x = <<"hub", token'[g][a].owner, g, a>> /\ StandsFor(token'[g][a], s)
      BY <3>1
    <3>3. CASE token'[g][a] = NoToken
      BY <3>2, <3>3 DEF NoToken, StandsFor
    <3>4. CASE a \in hubPool[g] /\ token'[g][a] = token[g][a]
      <4>1. InHub(token, hubPool, s, x) /\ x[1] = "hub"
        BY <3>2, <3>4 DEF InHub
      <4> QED BY <2>1, <4>1, CarriersNow
    <3>5. ASSUME g = h, NEW j \in DOMAIN at, j \in DOMAIN hubQueue[h][p][1].tokens,
                 at[j] = a, token'[g][a] = hubQueue[h][p][1].tokens[j]
          PROVE  \E o \in Carriers(s) : TakenIn(h, p, at, x, o)
      <4> DEFINE o == <<"queue", token'[g][a].owner, h, p, 1, j>>
      <4>1. InQueue(hubQueue, s, o)
        <5>1. 1 \in DOMAIN hubQueue[h][p] /\ StandsFor(hubQueue[h][p][1].tokens[j], s)
          BY <1>2, <3>2, <3>5
        <5>2. o = <<"queue", hubQueue[h][p][1].tokens[j].owner, h, p, 1, j>>
          BY <3>5
        <5> HIDE DEF o
        <5> QED BY <3>5, <5>1, <5>2, Zenon DEF InQueue
      <4>2. TakenIn(h, p, at, x, o)
        BY <3>2, <3>5 DEF TakenIn
      <4> QED BY <4>1, <4>2, CarriersNow DEF Wired
    <3> QED BY <1>3, <3>3, <3>4, <3>5
  <2> QED BY <2>2, <2>3, <2>4, <2>5, CarriersNext DEF Wired
<1>7. ASSUME NEW s \in Sub PROVE Single(s)'
  <2>1. Single(s) /\ Keeps(s)
    BY <1>0 DEF Core, Keeps
  <2>2. \A x, y \in Carriers(s)' : x = y
    <3> SUFFICES ASSUME NEW x \in Carriers(s)', NEW y \in Carriers(s)' PROVE x = y
      OBVIOUS
    <3>1. PICK o \in Carriers(s) : TakenIn(h, p, at, x, o)
      BY <1>6
    <3>2. PICK u \in Carriers(s) : TakenIn(h, p, at, y, u)
      BY <1>6
    <3>3. o = u
      BY <2>1 DEF Single
    <3> QED BY <3>1, <3>2, <3>3, TakenInOnce
  <2>3. \A x \in Carriers(s)' : \E o \in Carriers(s) : Kin(x, o)
    BY <1>6, TakenInKin
  <2> QED BY <1>5, <2>1, <2>2, <2>3, KeepSingle
<1> QED BY <1>4, <1>5, <1>7 DEF Core

-----------------------------------------------------------------------------
(***************************************************************************)
(* The delivery of a subproblem.                                           *)
(***************************************************************************)
\* The step puts x0 in the place of the only carrier o of c, which was known to
\* a hub or on its way.
Replaces(w, c, o, x0) ==
  /\ \A x \in Carriers(c) : x = o
  /\ o[1] \notin {"buffer", "queue", "pool"}
  /\ WiresFollow(w, c) /\ HubsFollow(c) /\ ~InHub(token', hubPool', c, o)
  /\ ~InDispatch(network', c, o) /\ ~InDelivery(network', c, o)
  /\ \A x : InDispatch(network', c, x) => InDispatch(network, c, x) \/ x = x0
  /\ \A x : InDelivery(network', c, x) => InDelivery(network, c, x) \/ x = x0
  /\ \A x : InPool(workerPool', c, x) => InPool(workerPool, c, x) \/ x = x0

\* What is in the place of the carrier is the only one.
LEMMA Replaced ==
  ASSUME NEW w, NEW c, NEW o, NEW x0, Replaces(w, c, o, x0)
  PROVE  \A x \in Carriers(c)' : x = x0
<1> SUFFICES ASSUME NEW x \in Carriers(c)', x # x0 PROVE FALSE
  OBVIOUS
<1>1. \A y : ~Wired(c, y)
  <2>1. \A y : Wired(c, y) => y = o /\ y[1] \in {"buffer", "queue"}
    BY CarriersNow, Kinds DEF Replaces
  <2> QED BY <2>1 DEF Replaces
<1>2. ~Wired(c, x)'
  BY <1>1 DEF Replaces, WiresFollow
<1>3. ~InHub(token', hubPool', c, x)
  BY CarriersNow DEF Replaces, HubsFollow
<1>4. ~InDispatch(network', c, x)
  BY CarriersNow DEF Replaces
<1>5. ~InDelivery(network', c, x)
  BY CarriersNow DEF Replaces
<1>6. ~InPool(workerPool', c, x)
  <2> SUFFICES ASSUME InPool(workerPool', c, x) PROVE FALSE
    OBVIOUS
  <2>1. x \in Carriers(c) /\ x[1] = "pool"
    BY CarriersNow, Kinds DEF Replaces
  <2> QED BY <2>1 DEF Replaces
<1> QED BY <1>2, <1>3, <1>4, <1>5, <1>6, CarriersNext

\* An insertion in the pool of w.
Inserts(w, c) == workerPool' = [workerPool EXCEPT ![w] = @ \cup {s \in {c} : ~CanFathom(w, s)}]

\* A pool that is pruned stays so.
LEMMA InsertEffect ==
  ASSUME WorkAssumption, Core, NEW w \in Worker, NEW c \in Sub, Inserts(w, c),
         UNCHANGED <<incumbent, needPruning>>
  PROVE  /\ workerPool' \in [Worker -> SUBSET Sub] /\ PoolsArePruned'
         /\ \A s, x : InPool(workerPool', s, x) =>
              InPool(workerPool, s, x) \/ (s = c /\ x = <<"pool", w>>)
<1>0. workerPool \in [Worker -> SUBSET Sub]
  BY DEF Core, Shapes
<1>1. workerPool' \in [Worker -> SUBSET Sub]
  BY <1>0 DEF Inserts
<1>2. \A v \in Worker : \A t \in workerPool'[v] :
        t \in workerPool[v] \/ (v = w /\ t = c /\ ~CanFathom(w, c))
  BY <1>0 DEF Inserts
<1>3. PoolsArePruned'
  <2> SUFFICES ASSUME NEW v \in Worker, ~needPruning[v], NEW t \in workerPool'[v]
               PROVE  t \in Below(incumbent[v], Sub)
    BY DEF PoolsArePruned
  <2>1. CASE t \in workerPool[v]
    BY <2>1 DEF PoolsArePruned, Core
  <2>2. CASE v = w /\ t = c /\ ~CanFathom(w, c)
    <3>1. Bound[c] \in Nat /\ incumbent[w] \in Nat
      BY DEF WorkAssumption, Core, Shapes, Proc
    <3> QED BY <2>2, <3>1 DEF CanFathom, Below
  <2> QED BY <1>2, <2>1, <2>2
<1>4. ASSUME NEW s, NEW x, InPool(workerPool', s, x)
      PROVE  InPool(workerPool, s, x) \/ (s = c /\ x = <<"pool", w>>)
  BY <1>2, <1>4 DEF InPool
<1> QED BY <1>1, <1>3, <1>4

\* What the arrival of c at w for the token at a does to the rest.
LEMMA AddEffect ==
  ASSUME WorkAssumption, Shapes, NEW w \in Worker, NEW c \in Sub, NEW b \in Sub,
         NEW a \in Address, AddToWorkerPool(w, c, b, a), hubPool' = hubPool
  PROVE  /\ Inserts(w, c)
         /\ outBuffer' \in [RemoteWorker -> Seq(Token)] /\ acks' \in [RemoteWorker -> Seq(Ack)]
         /\ hubQueue' \in [Hub -> [Worker -> Seq(HubMessage)]]
         /\ token' \in [Hub -> [Address -> Token \cup {NoToken}]]
         /\ \A s : WiresFollow(w, s) /\ HubsFollow(s)
<1>0. /\ outBuffer \in [RemoteWorker -> Seq(Token)] /\ acks \in [RemoteWorker -> Seq(Ack)]
      /\ hubQueue \in [Hub -> [Worker -> Seq(HubMessage)]]
      /\ token \in [Hub -> [Address -> Token \cup {NoToken}]]
  BY DEF Shapes
<1>1. Inserts(w, c)
  BY DEF AddToWorkerPool, Inserts
<1>2. ASSUME UNCHANGED <<outBuffer, hubQueue>> PROVE \A s : WiresFollow(w, s)
  BY <1>2, Zenon DEF WiresFollow, Wired
<1>3. CASE w \in Hub
  <2>1. /\ UNCHANGED <<outBuffer, acks, hubQueue>>
        /\ token' = token \/ token' = [token EXCEPT ![w][a] = NoToken]
    BY <1>3 DEF AddToWorkerPool, report
  <2>2. token' \in [Hub -> [Address -> Token \cup {NoToken}]]
    <3> DEFINE f == [token[w] EXCEPT ![a] = NoToken]
    <3>1. f \in [Address -> Token \cup {NoToken}]
      BY <1>0, <1>3
    <3>2. token' = token \/ token' = [token EXCEPT ![w] = f]
      BY <2>1
    <3> HIDE DEF f
    <3> QED BY <1>0, <1>3, <3>1, <3>2
  <2>3. \A g \in Hub : \A d \in Address : token'[g][d] = token[g][d] \/ token'[g][d] = NoToken
    BY <1>0, <1>3, <2>1, Z3T(60)
  <2>4. ASSUME NEW s, NEW x, InHub(token', hubPool', s, x) PROVE InHub(token, hubPool, s, x)
    <3>1. PICK g \in Hub : \E d \in hubPool[g] :
            x = <<"hub", token'[g][d].owner, g, d>> /\ StandsFor(token'[g][d], s)
      BY <2>4 DEF InHub
    <3>2. PICK d \in hubPool[g] :
            x = <<"hub", token'[g][d].owner, g, d>> /\ StandsFor(token'[g][d], s)
      BY <3>1
    <3>3. d \in Address
      BY DEF Shapes
    <3>4. token'[g][d] # NoToken
      BY <3>2 DEF NoToken, StandsFor
    <3>5. token'[g][d] = token[g][d]
      BY <2>3, <3>3, <3>4
    <3> QED BY <3>2, <3>5 DEF InHub
  <2> QED BY <1>0, <1>1, <1>2, <2>1, <2>2, <2>4 DEF HubsFollow
<1>4. CASE w \notin Hub
  <2> DEFINE acked == Append(acks[w], [address |-> a, sub |-> b])
  <2>1. /\ IF Len(acked) = MaxBuffered
           THEN SendReport(w, outBuffer[w], acked)
           ELSE acks' = [acks EXCEPT ![w] = acked] /\ UNCHANGED <<outBuffer, hubQueue>>
        /\ UNCHANGED token
    BY <1>4 DEF AddToWorkerPool
  <2>2. w \in RemoteWorker
    BY <1>4 DEF RemoteWorker
  <2>3. acked \in Seq(Ack)
    <3>1. [address |-> a, sub |-> b] \in Ack
      BY DEF Ack
    <3> QED BY <1>0, <2>2, <3>1
  <2> HIDE DEF acked
  <2>4. \A s : HubsFollow(s)
    BY <2>1 DEF HubsFollow
  <2>5. CASE Len(acked) = MaxBuffered
    <3>1. SendReport(w, outBuffer[w], acked) /\ outBuffer[w] \in Seq(Token)
      BY <1>0, <2>1, <2>2, <2>5
    <3>2. \A s : WiresFollow(w, s)
      BY <2>2, <3>1, ReportFollows
    <3> QED BY <1>0, <1>1, <2>1, <2>2, <2>3, <2>4, <3>1, <3>2, ReportShapes
  <2>6. CASE Len(acked) # MaxBuffered
    BY <1>0, <1>1, <1>2, <2>1, <2>2, <2>3, <2>4, <2>6
  <2> QED BY <2>5, <2>6
<1> QED BY <1>3, <1>4

\* What leaves its owner for a token is nowhere else then.
LEMMA TakeOutEffect ==
  ASSUME WorkAssumption, Core, NEW p \in Worker, NEW t \in Token, t.owner = p,
         NEW c \in Deliverable(t), TakeOut(p, t, c), UNCHANGED separated,
         NEW o, IsToken(o), o[2] = p, t.self => o \in Carriers(t.sub)
  PROVE  /\ c \in Sub /\ c \in Made' /\ c \notin separated /\ \A x \in Carriers(c) : x = o
         /\ \A v \in Worker : c \notin serverPool'[v]
         /\ serverPool' \in [Worker -> SUBSET Sub] /\ childrenLeft' \in [Sub -> SUBSET Sub]
         /\ tokenCount' \in [Sub -> Int] /\ Grows /\ ChildrenAreKept'
         /\ \A u \in Sub : u # c => Keeps(u)
<1> DEFINE s == t.sub
<1>0. /\ s \in Sub /\ Single(s) /\ serverPool \in [Worker -> SUBSET Sub]
      /\ childrenLeft \in [Sub -> SUBSET Sub] /\ tokenCount \in [Sub -> Int]
      /\ separated \subseteq Sub /\ t.self \in BOOLEAN
  BY DEF Core, Shapes, Token
<1>1. /\ tokenCount' = [tokenCount EXCEPT ![s] = @ - 1]
      /\ childrenLeft' = [childrenLeft EXCEPT ![s] = @ \ {c}]
      /\ serverPool' = [serverPool EXCEPT ![p] =
           {r \in @ : r # s \/ childrenLeft'[r] # {} \/ tokenCount'[r] > 0}]
  BY DEF TakeOut
<1>2. IF t.self THEN c = s ELSE c \in childrenLeft[s]
  BY DEF Deliverable
<1> HIDE DEF s
<1>3. /\ serverPool' \in [Worker -> SUBSET Sub] /\ childrenLeft' \in [Sub -> SUBSET Sub]
      /\ tokenCount' \in [Sub -> Int] /\ \A v \in Worker : serverPool'[v] \subseteq serverPool[v]
      /\ \A r \in Sub : childrenLeft'[r] \subseteq childrenLeft[r]
  BY <1>0, <1>1
<1>4. Grows
  BY <1>0, <1>3 DEF Grows
<1>5. ChildrenAreKept'
  <2>1. separated' \subseteq Made'
    BY <1>4, MadeGrows DEF Core, ChildrenAreKept
  <2>2. \A r \in Sub : /\ childrenLeft'[r] \subseteq Children[r]
                       /\ childrenLeft'[r] # {} => r \in separated'
    <3> SUFFICES ASSUME NEW r \in Sub
                 PROVE  /\ childrenLeft'[r] \subseteq Children[r]
                        /\ childrenLeft'[r] # {} => r \in separated'
      OBVIOUS
    <3>1. childrenLeft[r] \subseteq Children[r] /\ (childrenLeft[r] # {} => r \in separated)
      BY ChildrenLeft DEF Core
    <3> QED BY <1>3, <3>1
  <2> QED BY <2>1, <2>2 DEF ChildrenAreKept
<1>6. CASE t.self
  <2>1. c = s /\ o \in Carriers(s)
    BY <1>2, <1>6 DEF s
  <2>2. s \in Made /\ s \notin separated /\ tokenCount[s] = 1 /\ \A x \in Carriers(s) : x = o
    <3>1. o[1] # "pool"
      BY DEF IsToken
    <3> QED BY <1>0, <2>1, <3>1 DEF Single
  <2>3. childrenLeft[s] = {}
    BY <1>0, <2>2, ChildrenLeft DEF Core
  <2>4. childrenLeft'[s] = {} /\ tokenCount'[s] = 0
    BY <1>0, <1>1, <2>2, <2>3
  <2>5. ASSUME NEW v \in Worker, s \in serverPool'[v] PROVE FALSE
    <3>1. s \in serverPool[v]
      BY <1>3, <2>5
    <3>2. o[2] = v
      BY <1>0, <2>1, <3>1 DEF Single
    <3>3. s \in serverPool'[p]
      BY <2>5, <3>2
    <3> QED BY <1>0, <1>1, <2>4, <3>3
  <2>6. s \in Made'
    BY <1>4, <2>2, MadeGrows
  <2>7. \A u \in Sub : u # c => Keeps(u)
    BY <1>0, <1>1, <1>3, <2>1 DEF Keeps
  <2> QED BY <1>0, <1>3, <1>4, <1>5, <2>1, <2>2, <2>5, <2>6, <2>7
<1>7. CASE ~t.self
  <2>1. c \in childrenLeft[s]
    BY <1>2, <1>7
  <2>2. /\ c \in Sub /\ c \in Children[s] /\ s \in separated
        /\ c \notin separated /\ Carriers(c) = {}
        /\ \A v \in Worker : c \notin serverPool[v]
    BY <1>0, <2>1, Unmade
  <2>3. c \in Made'
    <3>1. s \in separated' /\ c \in Children[s] \ childrenLeft'[s]
      BY <1>0, <1>1, <2>2
    <3> QED BY <3>1 DEF Made
  <2>4. \A u \in Sub : Keeps(u)
    BY <1>0, <1>1, <1>3, <2>2 DEF Keeps
  <2> QED BY <1>3, <1>4, <1>5, <2>2, <2>3, <2>4
<1> QED BY <1>6, <1>7

\* The problem that has moved, and all others, are where they should be.
LEMMA Moved ==
  ASSUME Core, NEW w, NEW c, NEW o, NEW x0, Replaces(w, c, o, x0), ~IsToken(x0), Grows,
         c \in Made', c \notin separated, separated' = separated,
         \A v \in Worker : c \notin serverPool'[v],
         \A u \in Sub : u # c => Keeps(u) /\ OthersFollow(u) /\ WiresFollow(w, u)
  PROVE  \A u \in Sub : Single(u)'
<1> SUFFICES ASSUME NEW u \in Sub PROVE Single(u)'
  OBVIOUS
<1>1. CASE u = c
  <2>1. \A x \in Carriers(c)' : x = x0
    BY Replaced
  <2> QED BY <1>1, <2>1, OneLeft
<1>2. CASE u # c
  BY <1>2, Followed DEF Core
<1> QED BY <1>1, <1>2

\* A worker receives a subproblem.
LEMMA SpReceiveCore ==
  ASSUME WorkAssumption, Core, NEW w \in Worker, NEW m \in network, SpReceive(w, m)
  PROVE  Core'
<1> DEFINE c == m.sub
           o == <<"delivery", m>>
           x0 == <<"pool", w>>
<1>0. /\ m.type = "deliver" /\ network' = network \ {m}
      /\ AddToWorkerPool(w, m.sub, m.bound, m.address)
      /\ UNCHANGED <<incumbent, needPruning, serverPool, separated, childrenLeft, tokenCount,
                     hubPool>>
  BY DEF SpReceive, pruning
<1>1. m \in Delivery
  BY <1>0 DEF Core, Shapes
<1>2. m.sub \in Sub /\ m.bound \in Sub /\ m.address \in Address
  BY <1>1 DEF Delivery
<1>3. /\ Inserts(w, m.sub)
      /\ outBuffer' \in [RemoteWorker -> Seq(Token)] /\ acks' \in [RemoteWorker -> Seq(Ack)]
      /\ hubQueue' \in [Hub -> [Worker -> Seq(HubMessage)]]
      /\ token' \in [Hub -> [Address -> Token \cup {NoToken}]]
      /\ \A s : WiresFollow(w, s) /\ HubsFollow(s)
  BY <1>0, <1>2, AddEffect DEF Core
<1>4. /\ workerPool' \in [Worker -> SUBSET Sub] /\ PoolsArePruned'
      /\ \A s, x : InPool(workerPool', s, x) =>
           InPool(workerPool, s, x) \/ (s = c /\ x = x0)
  BY <1>0, <1>2, <1>3, InsertEffect
<1>5. Shapes'
  BY <1>0, <1>3, <1>4 DEF Shapes, Core
<1>6. ChildrenAreKept' /\ Grows
  BY <1>0 DEF ChildrenAreKept, Made, Grows, Core
<1>7. o \in Carriers(c) /\ o[1] = "delivery" /\ ~IsToken(o)
  <2>1. InDelivery(network, c, o)
    BY <1>0 DEF InDelivery
  <2> QED BY <2>1, CarriersNow DEF IsToken
<1>8. /\ \A s, x : InDelivery(network', s, x) => InDelivery(network, s, x) /\ x # o
      /\ \A s, x : InDispatch(network', s, x) => InDispatch(network, s, x)
  <2>1. ASSUME NEW s, NEW x, InDelivery(network', s, x)
        PROVE  InDelivery(network, s, x) /\ x # o
    BY <1>0, <2>1 DEF InDelivery
  <2>2. ASSUME NEW s, NEW x, InDispatch(network', s, x)
        PROVE  InDispatch(network, s, x)
    BY <1>0, <2>2 DEF InDispatch
  <2> QED BY <2>1, <2>2
<1>9. ~IsToken(x0)
  BY DEF IsToken
<1> HIDE DEF c, o, x0
<1>10. c \in Sub /\ Single(c) /\ \A s : WiresFollow(w, s) /\ HubsFollow(s)
  BY <1>2, <1>3 DEF Core, c
<1>11. c \in Made /\ c \notin separated /\ \A v \in Worker : c \notin serverPool[v]
  BY <1>7, <1>10 DEF Single
<1>12. Replaces(w, c, o, x0)
  <2>1. \A x \in Carriers(c) : x = o
    BY <1>7, <1>10 DEF Single
  <2>2. ~InHub(token', hubPool', c, o) /\ ~InDispatch(network', c, o)
    BY <1>7, Kinds
  <2> QED BY <1>4, <1>7, <1>8, <1>10, <2>1, <2>2 DEF Replaces
<1>13. c \in Made'
  BY <1>6, <1>11, MadeGrows
<1>14. ASSUME NEW u \in Sub, u # c PROVE Keeps(u) /\ OthersFollow(u) /\ WiresFollow(w, u)
  <2>1. Keeps(u)
    BY <1>0 DEF Keeps
  <2>2. OthersFollow(u)
    BY <1>4, <1>8, <1>10, <1>14 DEF OthersFollow
  <2> QED BY <1>10, <2>1, <2>2
<1>15. \A u \in Sub : Single(u)'
  BY <1>0, <1>6, <1>9, <1>11, <1>12, <1>13, <1>14, Moved
<1> QED BY <1>4, <1>5, <1>6, <1>15 DEF Core

\* A delivery that is given up moves no token.
LEMMA AbortEffect ==
  ASSUME WorkAssumption, Shapes, NEW p \in Worker, NEW h \in Hub, AbortDeliverSP(p, h),
         outBuffer' = outBuffer
  PROVE  hubQueue' \in [Hub -> [Worker -> Seq(HubMessage)]] /\ \A s : WiresFollow(p, s)
<1> DEFINE msg == [tokens |-> <<>>, acks |-> <<>>, adjust |-> 1]
<1>0. hubQueue \in [Hub -> [Worker -> Seq(HubMessage)]] /\ hubQueue[h][p] \in Seq(HubMessage)
  BY DEF Shapes
<1>1. msg \in HubMessage /\ DOMAIN msg.tokens = {}
  BY DEF HubMessage
<1>2. hubQueue' = hubQueue \/ hubQueue' = [hubQueue EXCEPT ![h][p] = Append(@, msg)]
  BY DEF AbortDeliverSP
<1> HIDE DEF msg
<1>3. Append(hubQueue[h][p], msg) \in Seq(HubMessage)
  BY <1>0, <1>1
<1>4. hubQueue' \in [Hub -> [Worker -> Seq(HubMessage)]]
  <2>1. CASE hubQueue' = hubQueue
    BY <1>0, <2>1
  <2>2. CASE hubQueue' = [hubQueue EXCEPT ![h][p] = Append(@, msg)]
    BY <1>0, <1>3, <2>2
  <2> QED BY <1>2, <2>1, <2>2
<1>5. ASSUME NEW s, NEW x, Wired(s, x)' PROVE Wired(s, x)
  <2>1. CASE InBuffer(outBuffer', s, x)
    BY <2>1 DEF Wired
  <2>2. CASE InQueue(hubQueue', s, x)
    <3>1. PICK g \in Hub, v \in Worker : \E i \in DOMAIN hubQueue'[g][v] :
            \E j \in DOMAIN hubQueue'[g][v][i].tokens :
              /\ x = <<"queue", hubQueue'[g][v][i].tokens[j].owner, g, v, i, j>>
              /\ StandsFor(hubQueue'[g][v][i].tokens[j], s)
      BY <2>2 DEF InQueue
    <3>2. PICK i \in DOMAIN hubQueue'[g][v] : \E j \in DOMAIN hubQueue'[g][v][i].tokens :
            /\ x = <<"queue", hubQueue'[g][v][i].tokens[j].owner, g, v, i, j>>
            /\ StandsFor(hubQueue'[g][v][i].tokens[j], s)
      BY <3>1
    <3>3. PICK j \in DOMAIN hubQueue'[g][v][i].tokens :
            /\ x = <<"queue", hubQueue'[g][v][i].tokens[j].owner, g, v, i, j>>
            /\ StandsFor(hubQueue'[g][v][i].tokens[j], s)
      BY <3>2
    <3>4. i \in DOMAIN hubQueue[g][v] /\ hubQueue'[g][v][i] = hubQueue[g][v][i]
      <4>1. CASE hubQueue'[g][v] = hubQueue[g][v]
        BY <3>2, <4>1
      <4>2. CASE hubQueue'[g][v] # hubQueue[g][v]
        <5>1. g = h /\ v = p /\ hubQueue'[g][v] = Append(hubQueue[h][p], msg)
          BY <1>0, <1>2, <4>2
        <5>2. i # Len(hubQueue[h][p]) + 1
          <6>1. i = Len(hubQueue[h][p]) + 1 => hubQueue'[g][v][i] = msg
            BY <1>0, <5>1, Appended
          <6> QED BY <1>1, <3>3, <6>1
        <5> QED BY <1>0, <5>1, <5>2, Appended
      <4> QED BY <4>1, <4>2
    <3> QED BY <3>3, <3>4 DEF Wired, InQueue
  <2> QED BY <1>5, <2>1, <2>2 DEF Wired
<1> QED BY <1>4, <1>5 DEF WiresFollow

\* An owner serves the token that message m has brought.
LEMMA SpServeCore ==
  ASSUME WorkAssumption, Core, NEW p \in Worker, NEW m \in network, SpServe(p, m)
  PROVE  Core'
<1> DEFINE t == m.token
           o == <<"dispatch", p, m>>
<1>0. /\ m.type = "dispatch" /\ m.to = p
      /\ UNCHANGED <<incumbent, needPruning, hubPool>>
  BY DEF SpServe, pruning
<1>1. /\ m.to = t.owner /\ t \in Token \cup {NoToken}
      /\ m.dest \in Worker /\ m.hub \in Hub /\ m.address \in Address
  BY <1>0 DEF Core, Shapes, Delivery
<1>2. t \in Token /\ t.owner = p /\ t.sub \in Sub
  <2>1. p \in Nat /\ NoToken.owner = -1
    BY DEF WorkAssumption, Proc, NoToken
  <2>2. t # NoToken
    BY <1>0, <1>1, <2>1
  <2> QED BY <1>0, <1>1, <2>2 DEF Token
<1>3. CASE MustAbort(p, t)
  <2>1. /\ network' = network \ {m} /\ AbortDeliverSP(p, m.hub)
        /\ UNCHANGED <<workerPool, serverPool, separated, childrenLeft, tokenCount, outBuffer,
                       acks, token>>
    BY <1>3 DEF SpServe, search
  <2>2. hubQueue' \in [Hub -> [Worker -> Seq(HubMessage)]] /\ \A s : WiresFollow(p, s)
    BY <1>1, <2>1, AbortEffect DEF Core
  <2>3. Shapes'
    BY <1>0, <2>1, <2>2 DEF Shapes, Core
  <2>4. PoolsArePruned' /\ ChildrenAreKept' /\ Grows
    BY <1>0, <2>1 DEF PoolsArePruned, ChildrenAreKept, Made, Grows, Core
  <2>5. ASSUME NEW s \in Sub PROVE Single(s)'
    <3>1. Keeps(s)
      BY <2>1 DEF Keeps
    <3>2. OthersFollow(s)
      <4>1. HubsFollow(s) /\ \A x : InPool(workerPool', s, x) => InPool(workerPool, s, x)
        BY <1>0, <2>1, Zenon DEF HubsFollow
      <4>2. \A x : InDispatch(network', s, x) => InDispatch(network, s, x)
        BY <2>1 DEF InDispatch
      <4>3. \A x : InDelivery(network', s, x) => InDelivery(network, s, x)
        BY <2>1 DEF InDelivery
      <4> QED BY <4>1, <4>2, <4>3 DEF OthersFollow
    <3> QED BY <2>2, <2>4, <3>1, <3>2, Followed DEF Core
  <2> QED BY <2>3, <2>4, <2>5 DEF Core
<1>4. CASE ~MustAbort(p, t)
  <2> DEFINE d(c) == [type |-> "deliver", to |-> m.dest, sub |-> c,
                      bound |-> t.sub, hub |-> m.hub, address |-> m.address]
  <2>1. PICK c \in Deliverable(t) :
          /\ TakeOut(p, t, c)
          /\ IF m.dest = p
             THEN AddToWorkerPool(p, c, t.sub, m.address) /\ network' = network \ {m}
             ELSE /\ network' = (network \ {m}) \cup {d(c)}
                  /\ UNCHANGED <<workerPool, report, token>>
          /\ UNCHANGED separated
    BY <1>4 DEF SpServe
  <2>2. IsToken(o) /\ o[2] = p /\ o[1] = "dispatch"
    BY DEF IsToken
  <2>3. t.self => o \in Carriers(t.sub)
    <3>1. t.self => InDispatch(network, t.sub, o)
      BY <1>0, <1>1, Zenon DEF InDispatch, StandsFor
    <3> QED BY <3>1, CarriersNow
  <2> DEFINE x0 == IF m.dest = p THEN <<"pool", p>> ELSE <<"delivery", d(c)>>
  <2>4. ~IsToken(x0)
    BY DEF IsToken
  <2>5. /\ \A s, x : InDispatch(network', s, x) => InDispatch(network, s, x) /\ x # o
        /\ \A s, x : InDelivery(network', s, x) =>
             InDelivery(network, s, x) \/ (s = c /\ x = x0)
    <3>1. network' = IF m.dest = p THEN network \ {m} ELSE (network \ {m}) \cup {d(c)}
      BY <2>1
    <3>2. ASSUME NEW s, NEW x, InDispatch(network', s, x)
          PROVE  InDispatch(network, s, x) /\ x # o
      <4>1. PICK n \in network' : n.type = "dispatch" /\ x = <<"dispatch", n.token.owner, n>>
                                  /\ StandsFor(n.token, s)
        BY <3>2 DEF InDispatch
      <4>2. n \in network \ {m}
        BY <3>1, <4>1
      <4> QED BY <4>1, <4>2 DEF InDispatch
    <3>3. ASSUME NEW s, NEW x, InDelivery(network', s, x)
          PROVE  InDelivery(network, s, x) \/ (s = c /\ x = x0)
      <4>1. PICK n \in network' : n.type = "deliver" /\ x = <<"delivery", n>> /\ n.sub = s
        BY <3>3 DEF InDelivery
      <4>2. CASE n \in network
        BY <4>1, <4>2 DEF InDelivery
      <4>3. CASE n \notin network
        <5>1. m.dest # p /\ n = d(c)
          BY <3>1, <4>3
        <5> QED BY <4>1, <5>1
      <4> QED BY <4>2, <4>3
    <3> QED BY <3>2, <3>3
  <2>6. m.dest # p => x0 = <<"delivery", d(c)>> /\ network' = (network \ {m}) \cup {d(c)}
    BY <2>1
  <2>7. m.dest = p => x0 = <<"pool", p>> /\ network' = network \ {m}
    BY <2>1
  <2>8. /\ d(c).type = "deliver" /\ d(c).to \in Worker /\ d(c).bound \in Sub
        /\ c \in Sub => d(c) \in Delivery
    BY <1>1, <1>2 DEF Delivery
  <2> HIDE DEF t, o, x0, d
  <2>9. /\ c \in Sub /\ c \in Made' /\ c \notin separated /\ \A x \in Carriers(c) : x = o
        /\ \A v \in Worker : c \notin serverPool'[v]
        /\ serverPool' \in [Worker -> SUBSET Sub] /\ childrenLeft' \in [Sub -> SUBSET Sub]
        /\ tokenCount' \in [Sub -> Int] /\ Grows /\ ChildrenAreKept'
        /\ \A u \in Sub : u # c => Keeps(u)
    BY <1>2, <2>1, <2>2, <2>3, TakeOutEffect
  <2>10. /\ \A s : WiresFollow(p, s) /\ HubsFollow(s)
         /\ \A s, x : InPool(workerPool', s, x) =>
              InPool(workerPool, s, x) \/ (s = c /\ x = x0)
         /\ outBuffer' \in [RemoteWorker -> Seq(Token)] /\ acks' \in [RemoteWorker -> Seq(Ack)]
         /\ hubQueue' \in [Hub -> [Worker -> Seq(HubMessage)]]
         /\ token' \in [Hub -> [Address -> Token \cup {NoToken}]]
         /\ workerPool' \in [Worker -> SUBSET Sub] /\ PoolsArePruned'
    <3>1. CASE m.dest = p
      <4>1. AddToWorkerPool(p, c, t.sub, m.address)
        BY <2>1, <3>1
      <4>2. /\ Inserts(p, c)
            /\ outBuffer' \in [RemoteWorker -> Seq(Token)]
            /\ acks' \in [RemoteWorker -> Seq(Ack)]
            /\ hubQueue' \in [Hub -> [Worker -> Seq(HubMessage)]]
            /\ token' \in [Hub -> [Address -> Token \cup {NoToken}]]
            /\ \A s : WiresFollow(p, s) /\ HubsFollow(s)
        BY <1>0, <1>1, <1>2, <2>9, <4>1, AddEffect DEF Core
      <4>3. /\ workerPool' \in [Worker -> SUBSET Sub] /\ PoolsArePruned'
            /\ \A s, x : InPool(workerPool', s, x) =>
                 InPool(workerPool, s, x) \/ (s = c /\ x = <<"pool", p>>)
        BY <1>0, <2>9, <4>2, InsertEffect
      <4> QED BY <2>7, <3>1, <4>2, <4>3
    <3>2. CASE m.dest # p
      <4>1. UNCHANGED <<workerPool, outBuffer, acks, hubQueue, token>>
        BY <2>1, <3>2 DEF report
      <4>2. /\ \A s : WiresFollow(p, s) /\ HubsFollow(s)
            /\ \A s, x : InPool(workerPool', s, x) => InPool(workerPool, s, x)
        BY <1>0, <4>1, Zenon DEF WiresFollow, Wired, HubsFollow
      <4>3. PoolsArePruned'
        BY <1>0, <4>1 DEF PoolsArePruned, Core
      <4>4. /\ outBuffer' \in [RemoteWorker -> Seq(Token)]
            /\ acks' \in [RemoteWorker -> Seq(Ack)]
            /\ hubQueue' \in [Hub -> [Worker -> Seq(HubMessage)]]
            /\ token' \in [Hub -> [Address -> Token \cup {NoToken}]]
            /\ workerPool' \in [Worker -> SUBSET Sub]
        BY <4>1 DEF Core, Shapes
      <4> QED BY <4>2, <4>3, <4>4
    <3> QED BY <3>1, <3>2
  <2>11. Shapes'
    <3>1. \A n \in network' : n \in network \/ n \in Delivery
      BY <2>6, <2>7, <2>8, <2>9
    <3> QED BY <1>0, <2>1, <2>9, <2>10, <3>1 DEF Shapes, Core
  <2>12. Replaces(p, c, o, x0)
    <3>1. ~InHub(token', hubPool', c, o)
      BY <2>2, Kinds
    <3>2. ~InDelivery(network', c, o)
      BY <2>2, Kinds
    <3> QED BY <2>2, <2>5, <2>9, <2>10, <3>1, <3>2 DEF Replaces
  <2>13. ASSUME NEW u \in Sub, u # c PROVE Keeps(u) /\ OthersFollow(u) /\ WiresFollow(p, u)
    BY <2>5, <2>9, <2>10, <2>13 DEF OthersFollow
  <2>14. \A u \in Sub : Single(u)'
    BY <2>1, <2>4, <2>9, <2>12, <2>13, Moved
  <2> QED BY <2>9, <2>10, <2>11, <2>14 DEF Core
<1> QED BY <1>3, <1>4

\* A hub that has given out the token at address a.
LEMMA Dispensed ==
  ASSUME Shapes, NEW h \in Hub, NEW a \in Address, hubPool' = [hubPool EXCEPT ![h] = @ \ {a}],
         token' = token \/ token' = [token EXCEPT ![h][a] = NoToken]
  PROVE  /\ token' \in [Hub -> [Address -> Token \cup {NoToken}]]
         /\ hubPool' \in [Hub -> SUBSET Address] /\ \A s : HubsFollow(s)
         /\ \A s, w : ~InHub(token', hubPool', s, <<"hub", w, h, a>>)
<1>0. /\ token \in [Hub -> [Address -> Token \cup {NoToken}]]
      /\ hubPool \in [Hub -> SUBSET Address]
  BY DEF Shapes
<1>1. token' \in [Hub -> [Address -> Token \cup {NoToken}]]
  <2> DEFINE f == [token[h] EXCEPT ![a] = NoToken]
  <2>1. f \in [Address -> Token \cup {NoToken}]
    BY <1>0
  <2>2. token' = token \/ token' = [token EXCEPT ![h] = f]
    OBVIOUS
  <2> HIDE DEF f
  <2> QED BY <1>0, <2>1, <2>2
<1>2. hubPool' \in [Hub -> SUBSET Address]
  BY <1>0
<1>3. \A g \in Hub : \A b \in hubPool'[g] :
        b \in hubPool[g] /\ ~(g = h /\ b = a) /\ token'[g][b] = token[g][b]
  <2> SUFFICES ASSUME NEW g \in Hub, NEW b \in hubPool'[g]
               PROVE  b \in hubPool[g] /\ ~(g = h /\ b = a) /\ token'[g][b] = token[g][b]
    OBVIOUS
  <2>1. b \in hubPool[g] /\ ~(g = h /\ b = a) /\ b \in Address
    BY <1>0
  <2>2. token'[g][b] = token[g][b]
    BY <1>0, <2>1
  <2> QED BY <2>1, <2>2
<1>4. \A s : HubsFollow(s)
  BY <1>3 DEF HubsFollow, InHub
<1>5. ASSUME NEW s, NEW w, InHub(token', hubPool', s, <<"hub", w, h, a>>) PROVE FALSE
  <2>1. PICK g \in Hub : \E b \in hubPool'[g] : <<"hub", w, h, a>> = <<"hub", token'[g][b].owner, g, b>>
    BY <1>5 DEF InHub
  <2> QED BY <1>3, <2>1
<1> QED BY <1>1, <1>2, <1>4, <1>5

\* A hub gives out the token at address a.
LEMMA HubSendCore ==
  ASSUME WorkAssumption, Core, NEW h \in Hub, NEW w \in Worker, NEW a \in hubPool[h],
         HubSendWorkTo(h, w, a)
  PROVE  Core'
<1> DEFINE t == token[h][a]
           o == <<"hub", t.owner, h, a>>
           d(c) == [type |-> "deliver", to |-> w, sub |-> c, bound |-> t.sub,
                    hub |-> h, address |-> a]
           ask == [type |-> "dispatch", to |-> t.owner, token |-> t,
                   dest |-> w, hub |-> h, address |-> a]
<1>0. /\ hubPool' = [hubPool EXCEPT ![h] = @ \ {a}] /\ HubOf[w] = h
      /\ UNCHANGED <<incumbent, needPruning, separated, outBuffer, acks, hubQueue>>
  BY DEF HubSendWorkTo, pruning, report
<1>1. a \in Address /\ t \in Token \cup {NoToken}
  BY DEF Core, Shapes
<1>2. \A s : WiresFollow(h, s)
  BY <1>0, Zenon DEF WiresFollow, Wired
<1>3. o[1] = "hub" /\ IsToken(o) /\ o[2] = t.owner
  BY DEF IsToken
<1>4. \A s : StandsFor(t, s) => o \in Carriers(s)
  BY CarriersNow DEF InHub
<1>5. CASE t.owner = h
  <2>1. PICK c \in Deliverable(t) :
          /\ TakeOut(h, t, c)
          /\ IF w = h
             THEN /\ workerPool' = [workerPool EXCEPT ![h] = @ \cup {s \in {c} : ~CanFathom(h, s)}]
                  /\ token' = [token EXCEPT ![h][a] = NoToken]
                  /\ UNCHANGED network
             ELSE network' = network \cup {d(c)} /\ UNCHANGED <<workerPool, token>>
    BY <1>5, Zenon DEF HubSendWorkTo
  <2>2. t \in Token /\ t.sub \in Sub /\ h \in Worker
    <3>1. h \in Nat /\ NoToken.owner = -1
      BY DEF WorkAssumption, Proc, NoToken
    <3>2. t # NoToken
      BY <1>5, <3>1
    <3> QED BY <1>1, <1>5, <3>2 DEF Token
  <2>3. t.self => o \in Carriers(t.sub)
    BY <1>4 DEF StandsFor
  <2>4. /\ token' \in [Hub -> [Address -> Token \cup {NoToken}]]
        /\ hubPool' \in [Hub -> SUBSET Address] /\ \A s : HubsFollow(s)
        /\ \A s : ~InHub(token', hubPool', s, o)
    <3>1. token' = token \/ token' = [token EXCEPT ![h][a] = NoToken]
      BY <2>1
    <3> QED BY <1>0, <1>1, <3>1, Dispensed DEF Core
  <2> DEFINE x0 == IF w = h THEN <<"pool", h>> ELSE <<"delivery", d(c)>>
  <2>5. ~IsToken(x0)
    BY DEF IsToken
  <2>6. w # h => x0 = <<"delivery", d(c)>> /\ network' = network \cup {d(c)}
                 /\ UNCHANGED <<workerPool, token>>
    BY <2>1
  <2>7. w = h => x0 = <<"pool", h>> /\ network' = network /\ Inserts(h, c)
    BY <2>1 DEF Inserts
  <2>8. d(c).type = "deliver" /\ d(c).sub = c /\ (c \in Sub => d(c) \in Delivery)
    BY <1>1, <2>2 DEF Delivery
  <2> HIDE DEF t, o, x0, d, ask
  <2>9. /\ c \in Sub /\ c \in Made' /\ c \notin separated /\ \A x \in Carriers(c) : x = o
        /\ \A v \in Worker : c \notin serverPool'[v]
        /\ serverPool' \in [Worker -> SUBSET Sub] /\ childrenLeft' \in [Sub -> SUBSET Sub]
        /\ tokenCount' \in [Sub -> Int] /\ Grows /\ ChildrenAreKept'
        /\ \A u \in Sub : u # c => Keeps(u)
    BY <1>0, <1>3, <1>5, <2>1, <2>2, <2>3, TakeOutEffect
  <2>10. /\ \A s, x : InDispatch(network', s, x) => InDispatch(network, s, x)
         /\ \A s, x : InDelivery(network', s, x) =>
              InDelivery(network, s, x) \/ (s = c /\ x = x0)
    <3>1. CASE w = h
      BY <2>7, <3>1
    <3>2. CASE w # h
      <4>1. network' = network \cup {d(c)} /\ x0 = <<"delivery", d(c)>>
        BY <2>6, <3>2
      <4>2. \A s, x : InDispatch(network', s, x) => InDispatch(network, s, x)
        BY <2>8, <4>1 DEF InDispatch
      <4>3. \A s, x : InDelivery(network', s, x) =>
              InDelivery(network, s, x) \/ (s = c /\ x = x0)
        BY <2>8, <4>1 DEF InDelivery
      <4> QED BY <4>2, <4>3
    <3> QED BY <3>1, <3>2
  <2>11. /\ \A s, x : InPool(workerPool', s, x) =>
              InPool(workerPool, s, x) \/ (s = c /\ x = x0)
         /\ workerPool' \in [Worker -> SUBSET Sub] /\ PoolsArePruned'
    <3>1. CASE w = h
      BY <1>0, <2>2, <2>7, <2>9, <3>1, InsertEffect
    <3>2. CASE w # h
      <4>1. workerPool' = workerPool
        BY <2>6, <3>2
      <4> QED BY <1>0, <4>1 DEF PoolsArePruned, Core, Shapes
    <3> QED BY <3>1, <3>2
  <2>12. Shapes'
    <3>1. \A n \in network' : n \in network \/ n \in Delivery
      BY <2>6, <2>7, <2>8, <2>9
    <3> QED BY <1>0, <2>4, <2>9, <2>11, <3>1 DEF Shapes, Core
  <2>13. Replaces(h, c, o, x0)
    <3>1. ~InDispatch(network', c, o) /\ ~InDelivery(network', c, o)
      BY <1>3, Kinds
    <3> QED BY <1>2, <1>3, <2>4, <2>9, <2>10, <2>11, <3>1 DEF Replaces
  <2>14. ASSUME NEW u \in Sub, u # c PROVE Keeps(u) /\ OthersFollow(u) /\ WiresFollow(h, u)
    BY <1>2, <2>4, <2>9, <2>10, <2>11, <2>14 DEF OthersFollow
  <2>15. \A u \in Sub : Single(u)'
    BY <1>0, <2>5, <2>9, <2>13, <2>14, Moved
  <2> QED BY <2>9, <2>11, <2>12, <2>15 DEF Core
<1>6. CASE t.owner # h
  <2>1. /\ network' = network \cup {ask}
        /\ UNCHANGED <<workerPool, serverPool, childrenLeft, tokenCount, token>>
    BY <1>6, Zenon DEF HubSendWorkTo
  <2>2. /\ hubPool' \in [Hub -> SUBSET Address] /\ \A s : HubsFollow(s)
        /\ \A s : ~InHub(token', hubPool', s, o)
    BY <1>0, <1>1, <2>1, Dispensed DEF Core
  <2> DEFINE x0 == <<"dispatch", t.owner, ask>>
  <2>3. IsToken(x0) /\ x0[1] # "pool" /\ x0[2] = t.owner
    BY DEF IsToken
  <2>4. ask.type = "dispatch" /\ ask.token = t /\ ask.to = t.owner
    OBVIOUS
  <2>5. ask \in [type : {"dispatch"}, to : Worker \cup {-1}, token : Token \cup {NoToken},
                 dest : Worker, hub : Hub, address : Address]
    <3>1. t.owner \in Worker \cup {-1}
      BY <1>1 DEF Token, NoToken
    <3> QED BY <1>1, <3>1
  <2> HIDE DEF t, ask, o
  <2>6. Shapes'
    <3>1. \A n \in network' :
            \/ n \in Delivery
            \/ /\ n \in [type : {"dispatch"}, to : Worker \cup {-1}, token : Token \cup {NoToken},
                         dest : Worker, hub : Hub, address : Address]
               /\ n.to = n.token.owner
      BY <2>1, <2>4, <2>5 DEF Core, Shapes
    <3> QED BY <1>0, <2>1, <2>2, <3>1 DEF Shapes, Core
  <2>7. PoolsArePruned' /\ ChildrenAreKept' /\ Grows
    BY <1>0, <2>1 DEF PoolsArePruned, ChildrenAreKept, Made, Grows, Core
  <2>8. /\ \A s, x : InDispatch(network', s, x) =>
             InDispatch(network, s, x) \/ (StandsFor(t, s) /\ x = x0)
        /\ \A s, x : InDelivery(network', s, x) => InDelivery(network, s, x)
        /\ \A s, x : InPool(workerPool', s, x) => InPool(workerPool, s, x)
    <3>1. \A s, x : InDispatch(network', s, x) =>
             InDispatch(network, s, x) \/ (StandsFor(t, s) /\ x = x0)
      BY <2>1, <2>4 DEF InDispatch
    <3>2. \A s, x : InDelivery(network', s, x) => InDelivery(network, s, x)
      BY <2>1, <2>4 DEF InDelivery
    <3> QED BY <2>1, <3>1, <3>2
  <2> HIDE DEF x0
  <2>9. ASSUME NEW s \in Sub PROVE Single(s)'
    <3>1. Keeps(s) /\ Single(s)
      BY <1>0, <2>1 DEF Keeps, Core
    <3>2. CASE StandsFor(t, s)
      <4>1. o \in Carriers(s) /\ \A x \in Carriers(s) : x = o
        BY <1>4, <3>1, <3>2 DEF Single
      <4>2. Replaces(h, s, o, x0)
        <5>1. ~InDispatch(network', s, o) /\ ~InDelivery(network', s, o)
          BY <1>3, Kinds
        <5> QED BY <1>2, <1>3, <2>2, <2>8, <4>1, <5>1 DEF Replaces
      <4>3. \A x \in Carriers(s)' : x = x0
        BY <4>2, Replaced
      <4>4. Kin(x0, o)
        BY <1>3, <2>3 DEF Kin
      <4>5. \A x \in Carriers(s)' : \E y \in Carriers(s) : Kin(x, y)
        BY <4>1, <4>3, <4>4
      <4>6. \A x, y \in Carriers(s)' : x = y
        BY <4>3
      <4> QED BY <2>7, <3>1, <4>5, <4>6, KeepSingle
    <3>3. CASE ~StandsFor(t, s)
      <4>1. OthersFollow(s)
        BY <2>2, <2>8, <3>3 DEF OthersFollow
      <4> QED BY <1>2, <2>7, <3>1, <4>1, Followed
    <3> QED BY <3>2, <3>3
  <2> QED BY <2>6, <2>7, <2>9 DEF Core
<1> QED BY <1>5, <1>6

-----------------------------------------------------------------------------
(***************************************************************************)
(* Solutions that are still to be found.                                   *)
(***************************************************************************)
Held(s) == \E w \in Worker : s \in workerPool[w] \cup serverPool[w]

\* Who has s will find l.
Leads(s, l) == IF s \in separated THEN \E c \in childrenLeft[s] : l \in LeavesBelow[c]
               ELSE l \in LeavesBelow[s]

Delivered(l) == \E m \in network : m.type = "deliver" /\ l \in LeavesBelow[m.sub]

\* What leads to l, kind by kind.
LEMMA FoundNow ==
  \A l : l \in StillToFind <=> (\E s : Held(s) /\ Leads(s, l)) \/ Delivered(l)
<1> SUFFICES ASSUME NEW l
             PROVE  l \in StillToFind <=> (\E s : Held(s) /\ Leads(s, l)) \/ Delivered(l)
  OBVIOUS
<1> DEFINE held == UNION {workerPool[w] \cup serverPool[w] : w \in Worker}
           A == UNION {LeavesBelow[s] : s \in held \ separated}
           F(s) == UNION {LeavesBelow[c] : c \in childrenLeft[s]}
           B == UNION {F(s) : s \in held \cap separated}
           C == UNION {LeavesBelow[m.sub] : m \in Deliveries}
<1>1. StillToFind = A \cup B \cup C
  BY Zenon DEF StillToFind
<1>2. \A s : s \in held <=> Held(s)
  <2> DEFINE G(w) == workerPool[w] \cup serverPool[w]
  <2>1. \A s : Held(s) <=> \E w \in Worker : s \in G(w)
    BY Zenon DEF Held
  <2> HIDE DEF G
  <2>2. held = UNION {G(w) : w \in Worker}
    BY Zenon DEF G
  <2> HIDE DEF held
  <2> QED BY <2>1, <2>2
<1>3. l \in C <=> Delivered(l)
  BY DEF Delivered, Deliveries
<1>4. \A s : l \in F(s) <=> \E c \in childrenLeft[s] : l \in LeavesBelow[c]
  OBVIOUS
<1> HIDE DEF held, F
<1>5. l \in A <=> \E s : Held(s) /\ s \notin separated /\ l \in LeavesBelow[s]
  BY <1>2
<1>6. l \in B <=> \E s : Held(s) /\ s \in separated /\ l \in F(s)
  BY <1>2
<1> HIDE DEF A, B, C
<1> QED BY <1>1, <1>3, <1>4, <1>5, <1>6 DEF Leads

\* ... also in the state after a step.
LEMMA FoundNext ==
  \A l : l \in StillToFind' <=> (\E s : Held(s)' /\ Leads(s, l)') \/ Delivered(l)'
<1>1. (\A l : l \in StillToFind <=> (\E s : Held(s) /\ Leads(s, l)) \/ Delivered(l))'
  BY FoundNow, PTL
<1> QED BY <1>1

\* What has l below it has no greater bound.
LEMMA LeadsBound ==
  ASSUME WorkAssumption, Core, NEW s, Held(s), NEW l, Leads(s, l)
  PROVE  s \in Sub /\ Bound[s] \in Nat /\ Bound[l] \in Nat /\ Bound[s] <= Bound[l]
<1>1. s \in Sub
  BY DEF Held, Core, Shapes
<1>2. CASE s \notin separated
  BY <1>1, <1>2, BoundBelow DEF Leads
<1>3. CASE s \in separated
  <2>1. PICK c \in childrenLeft[s] : l \in LeavesBelow[c]
    BY <1>3 DEF Leads
  <2>2. c \in Children[s] /\ c \in Sub
    BY <1>1, ChildrenLeft DEF Core, WorkAssumption, SearchTreeAssumption
  <2>3. Bound[c] \in Nat /\ Bound[l] \in Nat /\ Bound[c] <= Bound[l]
    BY <2>1, <2>2, BoundBelow
  <2>4. Bound[s] \in Nat /\ Bound[s] <= Bound[c]
    BY <1>1, <2>2 DEF WorkAssumption
  <2> QED BY <1>1, <2>3, <2>4
<1> QED BY <1>2, <1>3

\* The step loses nothing that is better than all incumbents.
StepKeeps ==
  /\ \A p \in Proc : incumbent'[p] <= incumbent[p]
  /\ \A l \in StillToFind : (\A p \in Proc : Bound[l] < incumbent'[p]) => l \in StillToFind'

\* A step that leaves the subproblems where they are.
LEMMA RestKeeps ==
  ASSUME \A p \in Proc : incumbent'[p] <= incumbent[p],
         UNCHANGED <<workerPool, serverPool, separated, childrenLeft, network>>
  PROVE  StepKeeps
<1>1. \A s : Held(s)' <=> Held(s)
  BY DEF Held
<1>2. \A s, l : Leads(s, l)' <=> Leads(s, l)
  BY DEF Leads
<1>3. \A l : Delivered(l)' <=> Delivered(l)
  BY DEF Delivered
<1> QED BY <1>1, <1>2, <1>3, FoundNow, FoundNext DEF StepKeeps

\* An incumbent that stays has not become worse.
LEMMA SameIncumbents ==
  ASSUME Core, incumbent' = incumbent
  PROVE  \A p \in Proc : incumbent'[p] <= incumbent[p]
BY DEF Core, Shapes

\* A report, and what a hub does with it, leaves the subproblems where they are.
LEMMA CommunicateKeeps ==
  ASSUME WorkAssumption, Core, NEW w \in RemoteWorker, Communicate(w)
  PROVE  StepKeeps
BY SameIncumbents, RestKeeps DEF Communicate, pruning, search

\* A message to a hub changes tokens, not subproblems.
LEMMA HandleHubKeeps ==
  ASSUME WorkAssumption, Core, NEW h \in Hub, NEW p \in Worker, HandleHubMessage(h, p)
  PROVE  StepKeeps
<1>1. UNCHANGED <<incumbent, workerPool, serverPool, separated, childrenLeft, network>>
  BY DEF HandleHubMessage, pruning, search
<1> QED BY <1>1, SameIncumbents, RestKeeps

\* A better incumbent changes no pool, for now.
LEMMA LearnKeeps ==
  ASSUME WorkAssumption, Core, NEW p \in Proc, LearnIncumbent(p)
  PROVE  StepKeeps
<1>1. UNCHANGED <<workerPool, serverPool, separated, childrenLeft, network>>
  BY DEF LearnIncumbent, search
<1>2. PICK q \in Proc : incumbent[q] < incumbent[p] /\ incumbent' = [incumbent EXCEPT ![p] = incumbent[q]]
  BY DEF LearnIncumbent
<1>3. incumbent \in [Proc -> Nat]
  BY DEF Core, Shapes
<1>4. \A r \in Proc : incumbent'[r] <= incumbent[r]
  BY <1>2, <1>3
<1> QED BY <1>1, <1>4, RestKeeps

\* What is pruned leads to nothing better than the incumbent it is pruned with.
LEMMA PruneLosesNothing ==
  ASSUME WorkAssumption, Core, NEW p \in Proc, NEW v \in Nat, PrunePools(p, v),
         incumbent'[p] = v, \A q \in Proc : incumbent'[q] <= incumbent[q],
         UNCHANGED <<separated, childrenLeft, tokenCount, network>>
  PROVE  StepKeeps
<1>1. \A w \in Worker :
        /\ workerPool'[w] = IF w = p THEN Below(v, workerPool[p]) ELSE workerPool[w]
        /\ serverPool'[w] = IF w = p THEN Below(v, serverPool[p]) ELSE serverPool[w]
  BY PruneEffect DEF Core
<1>2. ASSUME NEW l \in StillToFind, \A q \in Proc : Bound[l] < incumbent'[q]
      PROVE  l \in StillToFind'
  <2>1. ASSUME NEW s, Held(s), Leads(s, l) PROVE Held(s)' /\ Leads(s, l)'
    <3>1. Bound[s] \in Nat /\ Bound[l] \in Nat /\ Bound[s] <= Bound[l] /\ Bound[l] < v
      BY <1>2, <2>1, LeadsBound
    <3>2. PICK w \in Worker : s \in workerPool[w] \cup serverPool[w]
      BY <2>1 DEF Held
    <3>3. s \in workerPool'[w] \cup serverPool'[w]
      <4>0. Bound[s] < v
        BY <3>1
      <4>1. s \in workerPool[w] => s \in workerPool'[w]
        BY <1>1, <4>0, Zenon DEF Below
      <4>2. s \in serverPool[w] => s \in serverPool'[w]
        BY <1>1, <4>0, Zenon DEF Below
      <4> QED BY <3>2, <4>1, <4>2
    <3> QED BY <2>1, <3>3 DEF Leads, Held
  <2>2. Delivered(l) => Delivered(l)'
    BY DEF Delivered
  <2> QED BY <2>1, <2>2, FoundNow, FoundNext
<1> QED BY <1>2 DEF StepKeeps

\* The solution that becomes the incumbent need not be found any more.
LEMMA EvaluateKeeps ==
  ASSUME WorkAssumption, Core, NEW w \in Worker, NEW s \in workerPool[w], Evaluate(w, s)
  PROVE  StepKeeps
<1>0. /\ PrunePools(w, Bound[s]) /\ incumbent' = [incumbent EXCEPT ![w] = Bound[s]]
      /\ UNCHANGED <<separated, childrenLeft, tokenCount, network>> /\ ~needPruning[w]
  BY DEF Evaluate, CanWork
<1>1. /\ s \in Sub /\ Bound[s] \in Nat /\ w \in Proc /\ incumbent \in [Proc -> Nat]
      /\ Bound[s] < incumbent[w]
  BY <1>0 DEF WorkAssumption, Core, Shapes, Proc, PoolsArePruned, Below
<1>2. incumbent'[w] = Bound[s] /\ \A q \in Proc : incumbent'[q] <= incumbent[q]
  BY <1>0, <1>1
<1> QED BY <1>0, <1>1, <1>2, PruneLosesNothing

\* A worker prunes with the incumbent it has learned of.
LEMMA PruningKeeps ==
  ASSUME WorkAssumption, Core, NEW p \in Proc, Prune(p)
  PROVE  StepKeeps
<1>0. /\ PrunePools(p, incumbent[p]) /\ incumbent' = incumbent /\ incumbent[p] \in Nat
      /\ UNCHANGED <<separated, childrenLeft, tokenCount, network>>
  BY DEF Prune, Core, Shapes
<1> QED BY <1>0, SameIncumbents, PruneLosesNothing

\* A subproblem that has been split leads to what its children lead to.
LEMMA SplitKeeps ==
  ASSUME WorkAssumption, Core, NEW w \in Worker, NEW s \in workerPool[w], Split(w, s)
  PROVE  StepKeeps
<1>0. /\ s \notin Leaf /\ s \notin separated
      /\ separated' = separated \cup {s}
      /\ childrenLeft' = [childrenLeft EXCEPT ![s] = Children[s]]
      /\ UNCHANGED <<incumbent, workerPool, serverPool, network>>
  BY DEF Split, pruning
<1>1. s \in Sub /\ childrenLeft \in [Sub -> SUBSET Sub]
  BY DEF Core, Shapes
<1>2. ASSUME NEW l, NEW r, Held(r), Leads(r, l) PROVE Held(r)' /\ Leads(r, l)'
  <2>1. r \in Sub /\ Held(r)'
    BY <1>0, <1>2, LeadsBound DEF Held
  <2>2. CASE r = s
    <3>1. \E c \in Children[s] : l \in LeavesBelow[c]
      BY <1>0, <1>1, <1>2, <2>2, BelowChild DEF Leads
    <3>2. s \in separated' /\ childrenLeft'[s] = Children[s]
      BY <1>0, <1>1
    <3> QED BY <2>1, <2>2, <3>1, <3>2 DEF Leads
  <2>3. CASE r # s
    BY <1>0, <1>1, <1>2, <2>1, <2>3 DEF Leads
  <2> QED BY <2>2, <2>3
<1>3. \A l : Delivered(l) => Delivered(l)'
  BY <1>0 DEF Delivered
<1> QED BY <1>0, <1>2, <1>3, SameIncumbents, FoundNow, FoundNext DEF StepKeeps

\* A parent is dropped only when it has no more children, a child only when it
\* can be fathomed.
LEMMA SpinOffKeeps ==
  ASSUME WorkAssumption, Core, NEW w \in Worker, NEW s \in workerPool[w],
         NEW c \in childrenLeft[s], SpinOffChild(w, s, c)
  PROVE  StepKeeps
<1> DEFINE stays == StillNeededByWorker(childrenLeft[s] \ {c}, tokenCount[s])
<1>0. /\ childrenLeft' = [childrenLeft EXCEPT ![s] = @ \ {c}]
      /\ workerPool' = [workerPool EXCEPT ![w] =
           {t \in @ : t # s \/ stays} \cup {t \in {c} : ~CanFathom(w, t)}]
      /\ serverPool' = [serverPool EXCEPT ![w] = @ \cup {t \in {s} : ~stays /\ tokenCount[s] > 0}]
      /\ UNCHANGED <<incumbent, separated, network>>
  BY DEF SpinOffChild, pruning
<1>1. /\ s \in Sub /\ w \in Proc /\ tokenCount[s] \in Int
      /\ workerPool \in [Worker -> SUBSET Sub] /\ serverPool \in [Worker -> SUBSET Sub]
      /\ childrenLeft \in [Sub -> SUBSET Sub]
  BY DEF Core, Shapes, Proc
<1>2. c \in Sub /\ s \in separated /\ c \notin separated
  BY <1>1, Unmade
<1>3. ASSUME NEW d \in childrenLeft[s] \ {c}, ~stays PROVE tokenCount[s] > 0
  <2>1. IsFiniteSet(childrenLeft[s] \ {c})
    <3>1. childrenLeft[s] \ {c} \subseteq Sub /\ IsFiniteSet(Sub)
      BY <1>1 DEF WorkAssumption, SearchTreeAssumption
    <3> QED BY <3>1, FS_Subset
  <2>2. Cardinality(childrenLeft[s] \ {c}) \in Nat /\ Cardinality(childrenLeft[s] \ {c}) # 0
    BY <1>3, <2>1, FS_CardinalityType, FS_EmptySet
  <2>3. ~(Cardinality(childrenLeft[s] \ {c}) > tokenCount[s])
    BY <1>3 DEF StillNeededByWorker
  <2> QED BY <1>1, <2>2, <2>3
<1> HIDE DEF stays
<1>4. /\ \A v \in Worker : \A r \in workerPool[v] : r # s => r \in workerPool'[v]
      /\ stays => s \in workerPool'[w]
      /\ ~stays /\ tokenCount[s] > 0 => s \in serverPool'[w]
      /\ ~CanFathom(w, c) => c \in workerPool'[w]
      /\ \A v \in Worker : \A r \in serverPool[v] : r \in serverPool'[v]
  BY <1>0, <1>1
<1>5. ASSUME NEW l \in StillToFind, \A p \in Proc : Bound[l] < incumbent'[p]
      PROVE  l \in StillToFind'
  <2>1. ASSUME NEW r, Held(r), Leads(r, l), r # s PROVE Held(r)' /\ Leads(r, l)'
    <3>1. r \in Sub /\ childrenLeft'[r] = childrenLeft[r]
      BY <1>0, <1>1, <2>1, LeadsBound
    <3>2. Held(r)'
      BY <1>4, <2>1 DEF Held
    <3> QED BY <1>0, <2>1, <3>1, <3>2 DEF Leads
  <2>2. ASSUME Leads(s, l), l \notin LeavesBelow[c] PROVE Held(s)' /\ Leads(s, l)'
    <3>1. PICK d \in childrenLeft[s] : l \in LeavesBelow[d]
      BY <1>2, <2>2 DEF Leads
    <3>2. d \in childrenLeft[s] \ {c} /\ d \in childrenLeft'[s]
      BY <1>0, <1>1, <2>2, <3>1
    <3>3. Held(s)'
      BY <1>3, <1>4, <3>2 DEF Held
    <3> QED BY <1>0, <1>2, <3>1, <3>2, <3>3 DEF Leads
  <2>3. ASSUME l \in LeavesBelow[c] PROVE Held(c)' /\ Leads(c, l)'
    <3>1. Bound[c] \in Nat /\ Bound[l] \in Nat /\ Bound[c] <= Bound[l]
      BY <1>2, <2>3, BoundBelow
    <3>2. Bound[l] < incumbent[w] /\ incumbent[w] \in Nat
      BY <1>0, <1>1, <1>5 DEF Core, Shapes
    <3>3. ~CanFathom(w, c)
      BY <3>1, <3>2 DEF CanFathom
    <3> QED BY <1>0, <1>2, <1>4, <2>3, <3>3 DEF Held, Leads
  <2>4. Delivered(l) => Delivered(l)'
    BY <1>0 DEF Delivered
  <2> QED BY <2>1, <2>2, <2>3, <2>4, FoundNow, FoundNext
<1> QED BY <1>0, <1>5, SameIncumbents DEF StepKeeps

\* A step that only moves what is in memory from a worker to a server.
LEMMA MoveKeeps ==
  ASSUME Core, UNCHANGED <<incumbent, separated, childrenLeft, network>>,
         \A s : Held(s) => Held(s)'
  PROVE  StepKeeps
<1>1. \A s, l : Leads(s, l)' <=> Leads(s, l)
  BY DEF Leads
<1>2. \A l : Delivered(l)' <=> Delivered(l)
  BY DEF Delivered
<1> QED BY <1>1, <1>2, SameIncumbents, FoundNow, FoundNext DEF StepKeeps

\* A parent that is left to its tokens is in the server pool.
LEMMA ReleaseChildKeeps ==
  ASSUME WorkAssumption, Core, NEW w \in Worker, NEW s \in workerPool[w], NEW h \in Hub,
         ReleaseChild(w, s, h)
  PROVE  StepKeeps
<1>0. /\ \/ UNCHANGED <<workerPool, serverPool>>
         \/ /\ workerPool' = [workerPool EXCEPT ![w] = @ \ {s}]
            /\ serverPool' = [serverPool EXCEPT ![w] = @ \cup {s}]
      /\ UNCHANGED <<incumbent, separated, childrenLeft, network>>
  BY DEF ReleaseChild, pruning
<1>1. workerPool \in [Worker -> SUBSET Sub] /\ serverPool \in [Worker -> SUBSET Sub]
  BY DEF Core, Shapes
<1>2. \A r : Held(r) => Held(r)'
  BY <1>0, <1>1 DEF Held
<1> QED BY <1>0, <1>2, MoveKeeps

\* A subproblem that is given up is in the server pool.
LEMMA ReleaseSelfKeeps ==
  ASSUME WorkAssumption, Core, NEW w \in Worker, NEW s \in workerPool[w], NEW h \in Hub,
         ReleaseSelf(w, s, h)
  PROVE  StepKeeps
<1>0. /\ workerPool' = [workerPool EXCEPT ![w] = @ \ {s}]
      /\ serverPool' = [serverPool EXCEPT ![w] = @ \cup {s}]
      /\ UNCHANGED <<incumbent, separated, childrenLeft, network>>
  BY DEF ReleaseSelf, pruning
<1>1. workerPool \in [Worker -> SUBSET Sub] /\ serverPool \in [Worker -> SUBSET Sub]
  BY DEF Core, Shapes
<1>2. \A r : Held(r) => Held(r)'
  BY <1>0, <1>1 DEF Held
<1> QED BY <1>0, <1>2, MoveKeeps

\* A problem put in a pool, unless it is fathomed, leads to what is better than the
\* incumbent there.
LEMMA InsertKeeps ==
  ASSUME WorkAssumption, Core, NEW w \in Worker, NEW c \in Sub, Inserts(w, c),
         c \notin separated, separated' = separated,
         NEW l \in LeavesBelow[c], Bound[l] < incumbent[w]
  PROVE  l \in StillToFind'
<1>1. Bound[c] \in Nat /\ Bound[l] \in Nat /\ Bound[c] <= Bound[l]
  BY BoundBelow
<1>2. incumbent[w] \in Nat /\ workerPool \in [Worker -> SUBSET Sub]
  BY DEF Core, Shapes, Proc
<1>3. ~CanFathom(w, c)
  BY <1>1, <1>2 DEF CanFathom
<1>4. c \in workerPool'[w]
  BY <1>2, <1>3 DEF Inserts
<1>5. Held(c)' /\ Leads(c, l)'
  BY <1>4 DEF Held, Leads
<1> QED BY <1>5, FoundNext

\* A subproblem that arrives is in the pool, or can be fathomed.
LEMMA SpReceiveKeeps ==
  ASSUME WorkAssumption, Core, NEW w \in Worker, NEW m \in network, SpReceive(w, m)
  PROVE  StepKeeps
<1> DEFINE c == m.sub
           o == <<"delivery", m>>
<1>0. /\ m.type = "deliver" /\ network' = network \ {m} /\ Inserts(w, c)
      /\ UNCHANGED <<incumbent, serverPool, separated, childrenLeft>>
  BY DEF SpReceive, AddToWorkerPool, Inserts, pruning
<1>1. c \in Sub
  BY <1>0 DEF Core, Shapes, Delivery
<1>2. c \notin separated
  <2>1. o \in Carriers(c) /\ o[1] # "pool"
    <3>1. InDelivery(network, c, o)
      BY <1>0 DEF InDelivery
    <3> QED BY <3>1, CarriersNow
  <2> HIDE DEF o
  <2> QED BY <1>1, <2>1 DEF Core, Single
<1>3. \A s : Held(s) => Held(s)'
  BY <1>0 DEF Inserts, Held, Core, Shapes
<1>4. ASSUME NEW l \in StillToFind, \A p \in Proc : Bound[l] < incumbent'[p]
      PROVE  l \in StillToFind'
  <2>1. CASE l \in LeavesBelow[c]
    BY <1>0, <1>1, <1>2, <1>4, <2>1, InsertKeeps DEF Proc
  <2>2. CASE l \notin LeavesBelow[c]
    <3>1. Delivered(l) => Delivered(l)'
      BY <1>0, <2>2 DEF Delivered
    <3>2. \A s : Leads(s, l) => Leads(s, l)'
      BY <1>0 DEF Leads
    <3> QED BY <1>3, <3>1, <3>2, FoundNow, FoundNext
  <2> QED BY <2>1, <2>2
<1> QED BY <1>0, <1>4, SameIncumbents DEF StepKeeps

\* What is taken out for a token leaves the rest, if it arrives itself.
LEMMA TakeOutKeeps ==
  ASSUME WorkAssumption, Core, NEW p \in Worker, NEW t \in Token, NEW c \in Deliverable(t),
         TakeOut(p, t, c), separated' = separated,
         \A v \in Worker : workerPool[v] \subseteq workerPool'[v],
         \A n \in network : n.type = "deliver" => n \in network',
         NEW l \in StillToFind, l \in LeavesBelow[c] => l \in StillToFind'
  PROVE  l \in StillToFind'
<1> SUFFICES ASSUME l \notin LeavesBelow[c] PROVE l \in StillToFind'
  OBVIOUS
<1> DEFINE s == t.sub
<1>0. /\ childrenLeft' = [childrenLeft EXCEPT ![s] = @ \ {c}]
      /\ serverPool' = [serverPool EXCEPT ![p] =
           {r \in @ : r # s \/ childrenLeft'[r] # {} \/ tokenCount'[r] > 0}]
  BY DEF TakeOut
<1>1. IF t.self THEN c = s ELSE c \in childrenLeft[s]
  BY DEF Deliverable
<1>2. s \in Sub /\ childrenLeft \in [Sub -> SUBSET Sub] /\ serverPool \in [Worker -> SUBSET Sub]
  BY DEF Token, Core, Shapes
<1> HIDE DEF s
<1>3. Delivered(l) => Delivered(l)'
  BY DEF Delivered
<1>4. ASSUME NEW r, Held(r), Leads(r, l) PROVE Held(r)' /\ Leads(r, l)'
  <2>1. r \in Sub
    BY <1>4, LeadsBound
  <2>2. CASE r # s
    <3>1. Held(r)'
      BY <1>0, <1>2, <1>4, <2>2 DEF Held
    <3>2. childrenLeft'[r] = childrenLeft[r]
      BY <1>0, <1>2, <2>1, <2>2
    <3> QED BY <1>4, <3>1, <3>2 DEF Leads
  <2>3. CASE r = s /\ r \in separated
    <3>1. PICK d \in childrenLeft[s] : l \in LeavesBelow[d]
      BY <1>4, <2>3 DEF Leads
    <3>2. d \in childrenLeft'[s]
      BY <1>0, <1>2, <3>1
    <3>3. Held(s)'
      BY <1>0, <1>2, <1>4, <2>3, <3>2 DEF Held
    <3> QED BY <2>3, <3>1, <3>2, <3>3 DEF Leads
  <2>4. CASE r = s /\ r \notin separated
    <3>1. l \in LeavesBelow[s]
      BY <1>4, <2>4 DEF Leads
    <3>2. childrenLeft[s] = {}
      BY <1>2, <2>4, ChildrenLeft DEF Core
    <3> QED BY <1>1, <3>1, <3>2
  <2> QED BY <2>2, <2>3, <2>4
<1> QED BY <1>3, <1>4, FoundNow, FoundNext

\* A server drops what it delivers, and nothing else.
LEMMA SpServeKeeps ==
  ASSUME WorkAssumption, Core, NEW p \in Worker, NEW m \in network, SpServe(p, m)
  PROVE  StepKeeps
<1> DEFINE t == m.token
           o == <<"dispatch", p, m>>
<1>0. /\ m.type = "dispatch" /\ m.to = p
      /\ incumbent' = incumbent /\ separated' = separated
  BY DEF SpServe, pruning, search
<1>1. m.to = t.owner /\ t \in Token \cup {NoToken}
  BY <1>0 DEF Core, Shapes, Delivery
<1>2. t \in Token /\ t.owner = p
  <2>1. p \in Nat /\ NoToken.owner = -1
    BY DEF WorkAssumption, Proc, NoToken
  <2> QED BY <1>0, <1>1, <2>1
<1>3. CASE MustAbort(p, t)
  <2>1. /\ network' = network \ {m}
        /\ UNCHANGED <<workerPool, serverPool, separated, childrenLeft>>
    BY <1>3 DEF SpServe, search
  <2>2. \A l : Delivered(l) => Delivered(l)'
    BY <1>0, <2>1 DEF Delivered
  <2>3. \A s, l : Held(s) /\ Leads(s, l) => Held(s)' /\ Leads(s, l)'
    BY <2>1 DEF Held, Leads
  <2> QED BY <1>0, <2>2, <2>3, SameIncumbents, FoundNow, FoundNext DEF StepKeeps
<1>4. CASE ~MustAbort(p, t)
  <2> DEFINE d(c) == [type |-> "deliver", to |-> m.dest, sub |-> c,
                      bound |-> t.sub, hub |-> m.hub, address |-> m.address]
  <2>1. PICK c \in Deliverable(t) :
          /\ TakeOut(p, t, c)
          /\ IF m.dest = p
             THEN Inserts(p, c) /\ network' = network \ {m}
             ELSE network' = (network \ {m}) \cup {d(c)} /\ UNCHANGED workerPool
    BY <1>4 DEF SpServe, AddToWorkerPool, Inserts
  <2>2. IsToken(o) /\ o[2] = p
    BY DEF IsToken
  <2>3. t.self => o \in Carriers(t.sub)
    <3>1. t.self => InDispatch(network, t.sub, o)
      BY <1>0, <1>1, Zenon DEF InDispatch, StandsFor
    <3> QED BY <3>1, CarriersNow
  <2>4. d(c).type = "deliver" /\ d(c).sub = c
    OBVIOUS
  <2> HIDE DEF t, o, d
  <2>5. c \in Sub /\ c \notin separated
    BY <1>0, <1>2, <2>1, <2>2, <2>3, TakeOutEffect
  <2>6. \A v \in Worker : workerPool[v] \subseteq workerPool'[v]
    BY <2>1, ZenonT(60) DEF Inserts, Core, Shapes
  <2>7. \A n \in network : n.type = "deliver" => n \in network'
    BY <1>0, <2>1
  <2>8. ASSUME NEW l \in StillToFind, \A q \in Proc : Bound[l] < incumbent'[q]
        PROVE  l \in StillToFind'
    <3>1. ASSUME l \in LeavesBelow[c] PROVE l \in StillToFind'
      <4>1. CASE m.dest = p
        BY <1>0, <2>1, <2>5, <2>8, <3>1, <4>1, InsertKeeps DEF Proc
      <4>2. CASE m.dest # p
        <5>1. d(c) \in network'
          BY <2>1, <4>2
        <5>2. Delivered(l)'
          BY <2>4, <3>1, <5>1 DEF Delivered
        <5> QED BY <5>2, FoundNext
      <4> QED BY <4>1, <4>2
    <3> QED BY <1>0, <1>2, <2>1, <2>6, <2>7, <3>1, TakeOutKeeps
  <2> QED BY <1>0, <2>8, SameIncumbents DEF StepKeeps
<1> QED BY <1>3, <1>4

\* So does a hub that serves itself.
LEMMA HubSendKeeps ==
  ASSUME WorkAssumption, Core, NEW h \in Hub, NEW w \in Worker, NEW a \in hubPool[h],
         HubSendWorkTo(h, w, a)
  PROVE  StepKeeps
<1> DEFINE t == token[h][a]
           o == <<"hub", t.owner, h, a>>
           d(c) == [type |-> "deliver", to |-> w, sub |-> c, bound |-> t.sub,
                    hub |-> h, address |-> a]
           ask == [type |-> "dispatch", to |-> t.owner, token |-> t,
                   dest |-> w, hub |-> h, address |-> a]
<1>0. incumbent' = incumbent /\ separated' = separated
  BY DEF HubSendWorkTo, pruning
<1>1. a \in Address /\ t \in Token \cup {NoToken}
  BY DEF Core, Shapes
<1>2. CASE t.owner = h
  <2>1. PICK c \in Deliverable(t) :
          /\ TakeOut(h, t, c)
          /\ IF w = h THEN Inserts(h, c) /\ network' = network
             ELSE network' = network \cup {d(c)} /\ UNCHANGED workerPool
    <3>1. PICK c \in Deliverable(t) :
          /\ TakeOut(h, t, c)
          /\ IF w = h
             THEN /\ workerPool' = [workerPool EXCEPT ![h] = @ \cup {s \in {c} : ~CanFathom(h, s)}]
                  /\ UNCHANGED network
             ELSE network' = network \cup {d(c)} /\ UNCHANGED workerPool
      BY <1>2, Zenon DEF HubSendWorkTo
    <3> QED BY <3>1 DEF Inserts
  <2>2. t \in Token /\ h \in Worker
    <3>1. h \in Nat /\ NoToken.owner = -1
      BY DEF WorkAssumption, Proc, NoToken
    <3>2. t # NoToken
      BY <1>2, <3>1
    <3> QED BY <1>1, <1>2, <3>2 DEF Token
  <2>3. IsToken(o) /\ o[2] = h
    BY <1>2 DEF IsToken
  <2>4. t.self => o \in Carriers(t.sub)
    BY CarriersNow DEF InHub, StandsFor
  <2>5. d(c).type = "deliver" /\ d(c).sub = c
    OBVIOUS
  <2> HIDE DEF t, o, d
  <2>6. c \in Sub /\ c \notin separated
    BY <1>0, <1>2, <2>1, <2>2, <2>3, <2>4, TakeOutEffect
  <2>7. \A v \in Worker : workerPool[v] \subseteq workerPool'[v]
    <3>1. Inserts(h, c) \/ workerPool' = workerPool
      BY <2>1
    <3>2. workerPool \in [Worker -> SUBSET Sub]
      BY DEF Core, Shapes
    <3> QED BY <2>2, <3>1, <3>2 DEF Inserts
  <2>8. \A n \in network : n \in network'
    BY <2>1
  <2>9. ASSUME NEW l \in StillToFind, \A q \in Proc : Bound[l] < incumbent'[q]
        PROVE  l \in StillToFind'
    <3>1. ASSUME l \in LeavesBelow[c] PROVE l \in StillToFind'
      <4>1. CASE w = h
        BY <1>0, <2>1, <2>2, <2>6, <2>9, <3>1, <4>1, InsertKeeps DEF Proc
      <4>2. CASE w # h
        <5>1. d(c) \in network'
          BY <2>1, <4>2
        <5>2. Delivered(l)'
          BY <2>5, <3>1, <5>1 DEF Delivered
        <5> QED BY <5>2, FoundNext
      <4> QED BY <4>1, <4>2
    <3> QED BY <1>0, <2>1, <2>2, <2>7, <2>8, <3>1, TakeOutKeeps
  <2> QED BY <1>0, <2>9, SameIncumbents DEF StepKeeps
<1>3. CASE t.owner # h
  <2>1. network' = network \cup {ask} /\ UNCHANGED <<workerPool, serverPool, childrenLeft>>
    BY <1>3, Zenon DEF HubSendWorkTo
  <2>2. \A l : Delivered(l) => Delivered(l)'
    BY <2>1 DEF Delivered
  <2>3. \A s, l : Held(s) /\ Leads(s, l) => Held(s)' /\ Leads(s, l)'
    BY <1>0, <2>1 DEF Held, Leads
  <2> QED BY <1>0, <2>2, <2>3, SameIncumbents, FoundNow, FoundNext DEF StepKeeps
<1> QED BY <1>2, <1>3

-----------------------------------------------------------------------------
(***************************************************************************)
(* The invariant and the two theorems.                                     *)
(***************************************************************************)
LEMMA CoreNow ==
  Core <=> Shapes /\ PoolsArePruned /\ ChildrenAreKept /\ OneCarrier /\ ServersKeep
<1>1. Shapes => serverPool \in [Worker -> SUBSET Sub]
  BY DEF Shapes
<1> QED BY <1>1, SinglesNow DEF Core

\* At first there is the root, at Start.
LEMMA InitCore ==
  ASSUME WorkAssumption, Init
  PROVE  Core /\ NothingLost
<1>0. /\ Root \in Sub /\ Start \in Worker /\ NoIncumbent \in Nat
      /\ \A s \in Sub : Bound[s] < NoIncumbent
  BY DEF WorkAssumption, SearchTreeAssumption
<1>1. Shapes
  <2>1. /\ incumbent \in [Proc -> Nat] /\ needPruning \in [Proc -> BOOLEAN]
        /\ workerPool \in [Worker -> SUBSET Sub] /\ serverPool \in [Worker -> SUBSET Sub]
        /\ separated \subseteq Sub /\ childrenLeft \in [Sub -> SUBSET Sub]
        /\ tokenCount \in [Sub -> Int] /\ network = {}
    BY <1>0 DEF Init
  <2>2. /\ outBuffer \in [RemoteWorker -> Seq(Token)] /\ acks \in [RemoteWorker -> Seq(Ack)]
        /\ hubQueue \in [Hub -> [Worker -> Seq(HubMessage)]]
    <3>1. <<>> \in Seq(Token) /\ <<>> \in Seq(Ack) /\ <<>> \in Seq(HubMessage)
      OBVIOUS
    <3> QED BY <3>1 DEF Init
  <2>3. /\ token \in [Hub -> [Address -> Token \cup {NoToken}]]
        /\ hubPool \in [Hub -> SUBSET Address]
    BY DEF Init
  <2> QED BY <2>1, <2>2, <2>3 DEF Shapes
<1>2. PoolsArePruned
  <2> SUFFICES ASSUME NEW w \in Worker, NEW s \in workerPool[w]
               PROVE  s \in Below(incumbent[w], Sub)
    BY DEF PoolsArePruned
  <2>1. s = Root /\ incumbent[w] = NoIncumbent
    BY DEF Init, Proc
  <2> QED BY <1>0, <2>1 DEF Below
<1>3. ChildrenAreKept
  BY DEF ChildrenAreKept, Init
<1>4. Root \in Made
  BY DEF Made
<1>5. ASSUME NEW s, NEW x \in Carriers(s) PROVE s = Root /\ x = <<"pool", Start>>
  <2>1. ~InBuffer(outBuffer, s, x)
    BY DEF InBuffer, Init
  <2>2. ~InQueue(hubQueue, s, x)
    BY DEF InQueue, Init
  <2>3. ~InHub(token, hubPool, s, x)
    BY DEF InHub, Init
  <2>4. ~InDispatch(network, s, x) /\ ~InDelivery(network, s, x)
    BY DEF InDispatch, InDelivery, Init
  <2>5. InPool(workerPool, s, x) => s = Root /\ x = <<"pool", Start>>
    BY DEF InPool, Init
  <2> QED BY <2>1, <2>2, <2>3, <2>4, <2>5, CarriersNow DEF Wired
<1>6. ASSUME NEW s \in Sub PROVE Single(s)
  <2>1. \A x, y \in Carriers(s) : x = y
    BY <1>5
  <2>2. separated = {} /\ \A w \in Worker : serverPool[w] = {}
    BY DEF Init
  <2>3. \A x \in Carriers(s) : ~IsToken(x)
    BY <1>5 DEF IsToken
  <2> QED BY <1>4, <1>5, <2>1, <2>2, <2>3 DEF Single
<1>7. NothingLost
  <2> SUFFICES ASSUME NEW l \in Leaf PROVE l \in StillToFind
    BY DEF NothingLost
  <2>1. Held(Root) /\ Leads(Root, l)
    BY <1>0, BelowRoot DEF Held, Leads, Init
  <2> QED BY <2>1, FoundNow
<1> QED BY <1>1, <1>2, <1>3, <1>6, <1>7 DEF Core

\* Each action in turn.
LEMMA NextCore ==
  ASSUME WorkAssumption, Core, Next
  PROVE  Core' /\ StepKeeps
<1>1. CASE \E w \in Worker : Work(w)
  <2>1. PICK w \in Worker : Work(w)
    BY <1>1
  <2>2. PICK s \in workerPool[w] : \/ Evaluate(w, s) \/ Split(w, s)
                                   \/ \E c \in childrenLeft[s] : SpinOffChild(w, s, c)
    BY <2>1 DEF Work
  <2>3. CASE Evaluate(w, s)
    BY <2>3, EvaluateCore, EvaluateKeeps
  <2>4. CASE Split(w, s)
    BY <2>4, SplitCore, SplitKeeps
  <2>5. CASE \E c \in childrenLeft[s] : SpinOffChild(w, s, c)
    BY <2>5, SpinOffCore, SpinOffKeeps
  <2> QED BY <2>2, <2>3, <2>4, <2>5
<1>2. CASE \E w \in Worker : GiveUp(w)
  BY <1>2, ReleaseChildCore, ReleaseChildKeeps, ReleaseSelfCore, ReleaseSelfKeeps DEF GiveUp
<1>3. CASE \E w \in RemoteWorker : Communicate(w)
  BY <1>3, CommunicateCore, CommunicateKeeps
<1>4. CASE \E p \in Proc : LearnIncumbent(p)
  BY <1>4, LearnCore, LearnKeeps
<1>5. CASE \E p \in Proc : Prune(p)
  BY <1>5, PruneCore, PruningKeeps
<1>6. CASE \E h \in Hub, p \in Worker : HandleHubMessage(h, p)
  BY <1>6, HandleHubCore, HandleHubKeeps
<1>7. CASE \E h \in Hub : Distribute(h)
  BY <1>7, HubSendCore, HubSendKeeps DEF Distribute
<1>8. CASE \E p \in Worker : Serve(p)
  BY <1>8, SpServeCore, SpServeKeeps, SpReceiveCore, SpReceiveKeeps DEF Serve
<1> QED BY <1>1, <1>2, <1>3, <1>4, <1>5, <1>6, <1>7, <1>8 DEF Next

\* ... and a step that changes nothing.
LEMMA NextInv ==
  ASSUME WorkAssumption, Core, NothingLost, [Next]_vars
  PROVE  Core' /\ NothingLost'
<1>1. Core' /\ StepKeeps
  <2>1. CASE Next
    BY <2>1, NextCore
  <2>2. CASE UNCHANGED vars
    <3>1. UNCHANGED <<incumbent, needPruning, workerPool, serverPool, separated, childrenLeft,
                      tokenCount, outBuffer, acks, hubQueue, token, hubPool, network>>
      BY <2>2 DEF vars, pruning, search, report, hubState
    <3>2. StepKeeps
      BY <3>1, SameIncumbents, RestKeeps
    <3>3. Shapes' /\ PoolsArePruned' /\ ChildrenAreKept'
      BY <3>1 DEF Core, Shapes, PoolsArePruned, ChildrenAreKept, Made
    <3>4. ASSUME NEW s \in Sub PROVE Single(s)'
      <4>1. WiresFollow(Start, s) /\ OthersFollow(s)
        BY <3>1, Zenon DEF WiresFollow, Wired, OthersFollow, HubsFollow
      <4>2. Keeps(s) /\ Grows
        BY <3>1 DEF Keeps, Grows
      <4> QED BY <4>1, <4>2, Followed DEF Core
    <3> QED BY <3>2, <3>3, <3>4 DEF Core
  <2> QED BY <2>1, <2>2
<1>2. ASSUME NEW l \in Leaf, Bound[l] < Best' PROVE l \in StillToFind'
  <2>1. incumbent \in [Proc -> Nat] /\ incumbent' \in [Proc -> Nat] /\ Bound[l] \in Nat
    BY <1>1 DEF Core, Shapes, Leaf, WorkAssumption
  <2>2. Best' = Min(Range(incumbent')) /\ Best = Min(Range(incumbent))
    BY DEF Best
  <2>3. Best' \in Nat /\ \A p \in Proc : Best' <= incumbent'[p]
    BY <2>1, <2>2, LeastValue
  <2>4. PICK p \in Proc : Best = incumbent[p]
    BY <2>1, <2>2, LeastValue
  <2>5. Best' <= incumbent'[p] /\ incumbent'[p] <= incumbent[p]
    BY <1>1, <2>3, <2>4 DEF StepKeeps
  <2>6. Bound[l] < Best
    BY <1>2, <2>1, <2>3, <2>4, <2>5
  <2>7. l \in StillToFind
    BY <2>6 DEF NothingLost
  <2>8. \A q \in Proc : Bound[l] < incumbent'[q]
    BY <1>2, <2>1, <2>3
  <2> QED BY <1>1, <2>7, <2>8 DEF StepKeeps
<1> QED BY <1>1, <1>2 DEF NothingLost

\* Where Core holds, no subproblem is in two places.
LEMMA CoreNoDuplicate ==
  ASSUME Core
  PROVE  NoDuplicate
<1> SUFFICES ASSUME NEW s \in Sub
             PROVE  Cardinality({w \in Worker : s \in workerPool[w]}) +
                    Cardinality({w \in Worker : s \in serverPool[w]}) +
                    Cardinality({m \in Deliveries : m.sub = s}) <= 1
  BY DEF NoDuplicate
<1> DEFINE P == {w \in Worker : s \in workerPool[w]}
           Q == {w \in Worker : s \in serverPool[w]}
           D == {m \in Deliveries : m.sub = s}
<1>0. Single(s)
  BY DEF Core
<1>1. \A w \in P : <<"pool", w>> \in Carriers(s)
  BY CarriersNow DEF InPool
<1>2. \A m \in D : <<"delivery", m>> \in Carriers(s)
  BY CarriersNow DEF InDelivery, Deliveries
<1>3. ASSUME NEW w \in P, NEW v \in P PROVE w = v
  <2>1. <<"pool", w>> = <<"pool", v>>
    BY <1>0, <1>1 DEF Single
  <2> QED BY <2>1
<1>4. ASSUME NEW m \in D, NEW n \in D PROVE m = n
  <2>1. <<"delivery", m>> = <<"delivery", n>>
    BY <1>0, <1>2 DEF Single
  <2> QED BY <2>1
<1>5. ASSUME NEW w \in P, NEW m \in D PROVE FALSE
  <2>1. <<"pool", w>> = <<"delivery", m>>
    BY <1>0, <1>1, <1>2 DEF Single
  <2> QED BY <2>1
<1>6. ASSUME NEW w \in Q, NEW v \in Q PROVE w = v
  BY <1>0 DEF Single
<1>7. ASSUME NEW w \in Q PROVE P = {} /\ D = {}
  <2>1. \A x \in Carriers(s) : IsToken(x)
    BY <1>0 DEF Single
  <2>2. \A v : ~IsToken(<<"pool", v>>) /\ ~IsToken(<<"delivery", v>>)
    BY DEF IsToken
  <2> QED BY <1>1, <1>2, <2>1, <2>2
<1> HIDE DEF P, Q, D
<1>8. \A S : (\A x, y \in S : x = y) => S = {} \/ \E x : S = {x}
  <2> SUFFICES ASSUME NEW S, \A x, y \in S : x = y, S # {} PROVE \E x : S = {x}
    OBVIOUS
  <2>1. PICK x \in S : TRUE
    OBVIOUS
  <2>2. S = {x}
    BY <2>1
  <2> QED BY <2>2
<1>9. /\ Cardinality({}) = 0
      /\ \A S : (\A x, y \in S : x = y) => Cardinality(S) \in {0, 1}
  <2>1. Cardinality({}) = 0
    BY FS_EmptySet, Zenon
  <2>2. \A x : Cardinality({x}) = 1
    BY FS_Singleton, Zenon
  <2>3. ASSUME NEW S, \A x, y \in S : x = y
        PROVE  Cardinality(S) = 0 \/ Cardinality(S) = 1
    BY <1>8, <2>1, <2>2, <2>3, Zenon
  <2> QED BY <2>1, <2>3
<1>10. Cardinality(P) \in {0, 1} /\ Cardinality(Q) \in {0, 1} /\ Cardinality(D) \in {0, 1}
  BY <1>3, <1>4, <1>6, <1>9
<1>11. Cardinality(P) + Cardinality(Q) + Cardinality(D) <= 1
  <2>1. CASE Q # {}
    BY <1>7, <1>9, <1>10, <2>1
  <2>2. CASE Q = {} /\ P # {}
    BY <1>5, <1>9, <1>10, <2>2
  <2>3. CASE Q = {} /\ P = {}
    BY <1>9, <1>10, <2>3
  <2> QED BY <2>1, <2>2, <2>3
<1> QED BY <1>11 DEF P, Q, D

\* The invariant of the transfer of work, which says why nothing is lost and nothing
\* is searched twice, holds for all machines and search trees (pbb/pbWorker.cpp,
\* pbHub.cpp, spServer.cpp, spReceiver.cpp).
THEOREM SearchInvariant ==
  ASSUME WorkAssumption
  PROVE  Spec => []SearchInv
<1>1. Init => Core /\ NothingLost
  BY InitCore
<1>2. Core /\ NothingLost /\ [Next]_vars => (Core /\ NothingLost)'
  BY NextInv
<1>3. Core /\ NothingLost => SearchInv
  BY CoreNow DEF SearchInv
<1> QED BY <1>1, <1>2, <1>3, PTL DEF Spec

\* No solution better than all incumbents is ever lost: some subproblem that a worker
\* holds, or a delivery on its way, leads to it, whatever has been pruned, given up,
\* dispatched, aborted or delivered (deliverSP, addToWorkerPool, pruneIfNeeded).
THEOREM SolutionsAreKept ==
  ASSUME WorkAssumption
  PROVE  Spec => []NothingLost
<1>1. SearchInv => NothingLost
  BY DEF SearchInv
<1> QED BY <1>1, SearchInvariant, PTL

\* No subproblem is ever in two places, so none is searched twice (workerRelease,
\* handleHubMessage, hubSendWorkTo, deliverSP).
THEOREM NothingTwice ==
  ASSUME WorkAssumption
  PROVE  Spec => []NoDuplicate
<1>1. SearchInv => NoDuplicate
  BY CoreNow, CoreNoDuplicate DEF SearchInv
<1> QED BY <1>1, SearchInvariant, PTL

=============================================================================
