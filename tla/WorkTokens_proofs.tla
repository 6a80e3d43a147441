-------------------------- MODULE WorkTokens_proofs --------------------------
(***************************************************************************)
(* No address that is followed dangles: what hubs delete is what they      *)
(* dispatched, and what servers deliver is in memory.                      *)
(***************************************************************************)
EXTENDS WorkTransfer_proofs

-----------------------------------------------------------------------------
(***************************************************************************)
(* The addresses that come back to a hub, one kind after the other.        *)
(***************************************************************************)
Clients(h) == {w \in Worker : HubOf[w] = h}

FromDispatch(messages, h, x) ==
  \E m \in messages : /\ m.type = "dispatch" /\ m.hub = h
                      /\ x = Back(m.address, m.dest, m.token.sub, <<"dispatch", m>>)

FromDelivery(messages, h, x) ==
  \E m \in messages : /\ m.type = "deliver" /\ m.hub = h
                      /\ x = Back(m.address, m.to, m.bound, <<"delivery", m>>)

FromAcks(lists, h, x) ==
  \E w \in RemoteWorker : \E i \in DOMAIN lists[w] :
    HubOf[w] = h /\ x = Back(lists[w][i].address, w, lists[w][i].sub, <<"acks", w, i>>)

FromQueue(queues, h, x) ==
  \E p \in Worker : \E i \in DOMAIN queues[h][p] : \E j \in DOMAIN queues[h][p][i].acks :
    x = Back(queues[h][p][i].acks[j].address, p, queues[h][p][i].acks[j].sub,
             <<"queue", p, i, j>>)

\* Acknowledgements, sent or not.
Acking(h, x) == FromAcks(acks, h, x) \/ FromQueue(hubQueue, h, x)
AckingNext(h, x) == FromAcks(acks', h, x) \/ FromQueue(hubQueue', h, x)

\* What comes back to h, kind by kind.
LEMMA ReturnsNow ==
  \A h, x : x \in Returns(h) <=> \/ FromDispatch(network, h, x)
                                 \/ FromDelivery(network, h, x)
                                 \/ Acking(h, x)
<1> SUFFICES ASSUME NEW h, NEW x
             PROVE  x \in Returns(h) <=> \/ FromDispatch(network, h, x)
                                         \/ FromDelivery(network, h, x)
                                         \/ Acking(h, x)
  OBVIOUS
<1> DEFINE A == {Back(m.address, m.dest, m.token.sub, <<"dispatch", m>>) :
                   m \in {n \in Dispatches : n.hub = h}}
           B == {Back(m.address, m.to, m.bound, <<"delivery", m>>) :
                   m \in {n \in Deliveries : n.hub = h}}
           C(w) == {Back(acks[w][i].address, w, acks[w][i].sub, <<"acks", w, i>>) :
                      i \in DOMAIN acks[w]}
           F(p, i) == {Back(hubQueue[h][p][i].acks[j].address, p,
                            hubQueue[h][p][i].acks[j].sub, <<"queue", p, i, j>>) :
                         j \in DOMAIN hubQueue[h][p][i].acks}
           G(p) == UNION {F(p, i) : i \in DOMAIN hubQueue[h][p]}
<1>1. Returns(h) = A \cup B \cup (UNION {C(w) : w \in {v \in RemoteWorker : HubOf[v] = h}})
                     \cup (UNION {G(p) : p \in Worker})
  BY Zenon DEF Returns
<1>2. x \in A <=> FromDispatch(network, h, x)
  BY Zenon DEF FromDispatch, Dispatches
<1>3. x \in B <=> FromDelivery(network, h, x)
  BY Zenon DEF FromDelivery, Deliveries
<1>4. \A w : x \in C(w) <=> \E i \in DOMAIN acks[w] :
        x = Back(acks[w][i].address, w, acks[w][i].sub, <<"acks", w, i>>)
  BY Zenon
<1>5. \A p, i : x \in F(p, i) <=> \E j \in DOMAIN hubQueue[h][p][i].acks :
        x = Back(hubQueue[h][p][i].acks[j].address, p, hubQueue[h][p][i].acks[j].sub,
                 <<"queue", p, i, j>>)
  BY Zenon
<1> HIDE DEF A, B, C, F
<1>6. \A p : x \in G(p) <=> \E i \in DOMAIN hubQueue[h][p] : x \in F(p, i)
  BY Zenon
<1> HIDE DEF G
<1>7. x \in UNION {C(w) : w \in {v \in RemoteWorker : HubOf[v] = h}} <=> FromAcks(acks, h, x)
  <2>1. x \in UNION {C(w) : w \in {v \in RemoteWorker : HubOf[v] = h}} <=>
          \E w \in RemoteWorker : HubOf[w] = h /\ x \in C(w)
    BY Zenon
  <2> QED BY <1>4, <2>1, Zenon DEF FromAcks
<1>8. x \in UNION {G(p) : p \in Worker} <=> FromQueue(hubQueue, h, x)
  <2>1. x \in UNION {G(p) : p \in Worker} <=> \E p \in Worker : x \in G(p)
    BY Zenon
  <2> QED BY <1>5, <1>6, <2>1, Zenon DEF FromQueue
<1> QED BY <1>1, <1>2, <1>3, <1>7, <1>8 DEF Acking

\* ... also in the state after a step.
LEMMA ReturnsNext ==
  \A h, x : x \in Returns(h)' <=> \/ FromDispatch(network', h, x)
                                  \/ FromDelivery(network', h, x)
                                  \/ AckingNext(h, x)
<1>1. (\A h, x : x \in Returns(h) <=> \/ FromDispatch(network, h, x)
                                      \/ FromDelivery(network, h, x)
                                      \/ Acking(h, x))'
  BY ReturnsNow, PTL
<1> QED BY <1>1, Zenon DEF FromDispatch, FromDelivery, FromAcks, FromQueue, Acking, AckingNext

\* What comes back is of the right types.
LEMMA ReturnTypes ==
  ASSUME WorkAssumption, Shapes, NEW h \in Hub, NEW x \in Returns(h)
  PROVE  x.address \in Address /\ x.worker \in Worker /\ x.sub \in Sub
<1>0. /\ acks \in [RemoteWorker -> Seq(Ack)]
      /\ hubQueue \in [Hub -> [Worker -> Seq(HubMessage)]] /\ Root \in Sub
  BY DEF Shapes, WorkAssumption, SearchTreeAssumption
<1>1. CASE FromDispatch(network, h, x)
  <2>1. PICK m \in network : /\ m.type = "dispatch"
                             /\ x = Back(m.address, m.dest, m.token.sub, <<"dispatch", m>>)
    BY <1>1 DEF FromDispatch
  <2>2. m.address \in Address /\ m.dest \in Worker /\ m.token \in Token \cup {NoToken}
    BY <2>1 DEF Shapes, Delivery
  <2>3. m.token.sub \in Sub
    BY <1>0, <2>2 DEF Token, NoToken
  <2> QED BY <2>1, <2>2, <2>3 DEF Back
<1>2. CASE FromDelivery(network, h, x)
  <2>1. PICK m \in network : /\ m.type = "deliver"
                             /\ x = Back(m.address, m.to, m.bound, <<"delivery", m>>)
    BY <1>2 DEF FromDelivery
  <2>2. m \in Delivery
    BY <2>1 DEF Shapes
  <2> QED BY <2>1, <2>2 DEF Back, Delivery
<1>3. CASE FromAcks(acks, h, x)
  <2>0. PICK w \in RemoteWorker : \E i \in DOMAIN acks[w] :
          x = Back(acks[w][i].address, w, acks[w][i].sub, <<"acks", w, i>>)
    BY <1>3 DEF FromAcks
  <2>1. PICK i \in DOMAIN acks[w] :
          x = Back(acks[w][i].address, w, acks[w][i].sub, <<"acks", w, i>>)
    BY <2>0
  <2>2. acks[w][i] \in Ack
    BY <1>0, <2>1
  <2> QED BY <2>1, <2>2 DEF Back, Ack, RemoteWorker
<1>4. CASE FromQueue(hubQueue, h, x)
  <2>0. PICK p \in Worker : \E i \in DOMAIN hubQueue[h][p] :
          \E j \in DOMAIN hubQueue[h][p][i].acks :
            x = Back(hubQueue[h][p][i].acks[j].address, p, hubQueue[h][p][i].acks[j].sub,
                     <<"queue", p, i, j>>)
    BY <1>4 DEF FromQueue
  <2>1. PICK i \in DOMAIN hubQueue[h][p] : \E j \in DOMAIN hubQueue[h][p][i].acks :
          x = Back(hubQueue[h][p][i].acks[j].address, p, hubQueue[h][p][i].acks[j].sub,
                   <<"queue", p, i, j>>)
    BY <2>0
  <2>4. PICK j \in DOMAIN hubQueue[h][p][i].acks :
          x = Back(hubQueue[h][p][i].acks[j].address, p, hubQueue[h][p][i].acks[j].sub,
                   <<"queue", p, i, j>>)
    BY <2>1
  <2>2. hubQueue[h][p][i] \in HubMessage
    BY <1>0, <2>1
  <2>3. hubQueue[h][p][i].acks[j] \in Ack
    BY <2>2, <2>4 DEF HubMessage
  <2> DEFINE ack == hubQueue[h][p][i].acks[j]
  <2>5. ack.address \in Address /\ ack.sub \in Sub
    BY <2>3 DEF Ack
  <2> HIDE DEF ack
  <2>6. x.address = ack.address /\ x.sub = ack.sub /\ x.worker = p /\ x.at = <<"queue", p, i, j>>
    BY <2>4 DEF Back, ack
  <2> QED BY <2>4, <2>5, <2>6 DEF Back, ack
<1> QED BY <1>1, <1>2, <1>3, <1>4, ReturnsNow DEF Acking

-----------------------------------------------------------------------------
(***************************************************************************)
(* What AddressInv says of one hub, and the steps that leave it so.        *)
(***************************************************************************)
TransitShape ==
  /\ transitPool = [h \in Hub |-> transitPool[h]]
  /\ \A h \in Hub : transitPool[h] \in [Clients(h) -> SUBSET Address]

IsDispatched(h, x) ==
  x.address \in transitPool[h][x.worker] /\ token[h][x.address].sub = x.sub

ReturnsAreRight(h) ==
  \A x \in Returns(h) : HubOf[x.worker] = h /\ (CanFathom(h, x.sub) \/ IsDispatched(h, x))

ReturnOnce(h) ==
  \A x, y \in Returns(h) :
    x.address = y.address => x = y \/ CanFathom(h, x.sub) \/ CanFathom(h, y.sub)

TransitsMove(h) ==
  \A w \in Clients(h) : \A a \in transitPool[h][w] :
    \/ Bound[token[h][a].sub] >= Best
    \/ \E x \in Returns(h) : x.worker = w /\ x.address = a /\ x.sub = token[h][a].sub

PoolsApart(h) ==
  /\ \A a \in hubPool[h] : token[h][a] \in Token
  /\ \A w \in Clients(h) : \A a \in transitPool[h][w] :
       /\ token[h][a] \in Token /\ a \notin hubPool[h]
       /\ \A v \in Clients(h) : a \in transitPool[h][v] => v = w

HasTokens(h) ==
  ~needPruning[h] => \A a \in hubPool[h] : ~CanFathom(h, token[h][a].sub)

HubIsSound(h) ==
  ReturnsAreRight(h) /\ ReturnOnce(h) /\ TransitsMove(h) /\ PoolsApart(h) /\ HasTokens(h)

\* AddressInv holds if each hub is as it says.
LEMMA HubsNow ==
  TransitShape => (AddressInv <=> \A h \in Hub : HubIsSound(h))
<1> SUFFICES ASSUME TransitShape PROVE AddressInv <=> \A h \in Hub : HubIsSound(h)
  OBVIOUS
<1>0. \A h \in Hub : DOMAIN transitPool[h] = Clients(h)
  BY DEF TransitShape
<1>1. NoDanglingToken <=> \A h \in Hub : ReturnsAreRight(h)
  BY DEF NoDanglingToken, ReturnsAreRight, IsDispatched
<1>2. OneReturn <=> \A h \in Hub : ReturnOnce(h)
  BY DEF OneReturn, ReturnOnce
<1>3. TransitTokensMove <=> \A h \in Hub : TransitsMove(h)
  BY <1>0 DEF TransitTokensMove, TransitsMove
<1>4. PoolsHaveTokens <=> \A h \in Hub : PoolsApart(h)
  BY <1>0 DEF PoolsHaveTokens, PoolsApart
<1>5. TokenToSend <=> \A h \in Hub : HasTokens(h)
  BY DEF TokenToSend, HasTokens
<1> QED BY <1>1, <1>2, <1>3, <1>4, <1>5, Zenon DEF AddressInv, HubIsSound

\* The same address, with the same worker and bound.
Same(x, o) == x.address = o.address /\ x.worker = o.worker /\ x.sub = o.sub

\* Incumbents improve, as h sees it.
Improves(h) ==
  /\ incumbent[h] \in Nat /\ incumbent'[h] \in Nat /\ incumbent'[h] <= incumbent[h]
  /\ Best \in Nat /\ Best' \in Nat /\ Best' <= Best /\ Best <= incumbent[h]

\* What comes back afterwards is what came back before, moved from place to place.
Follows(h) == \E g : \A x \in Returns(h)' : \E o \in Returns(h) : x = g[o] /\ Same(x, o)

\* Memory that is free is no token.
LEMMA FreeIsNoToken ==
  ASSUME WorkAssumption
  PROVE  NoToken \notin Token
BY DEF WorkAssumption, NoToken, Token, Proc

\* A step in which hub h may insert tokens, and delete some that are ignored when
\* they come back, while addresses move on.
LEMMA StaysSound ==
  ASSUME WorkAssumption, Shapes, NEW h \in Hub, HubIsSound(h), Improves(h), Follows(h),
         \A a \in hubPool'[h] : \/ a \in hubPool[h] /\ token'[h][a] = token[h][a]
                                \/ token[h][a] = NoToken /\ token'[h][a] \in Token,
         \A w \in Clients(h) : \A a \in transitPool'[h][w] :
           a \in transitPool[h][w] /\ token'[h][a] = token[h][a],
         ~needPruning'[h] => \A a \in hubPool'[h] : Bound[token'[h][a].sub] < incumbent'[h],
         \A x \in Returns(h)' :
           Bound[x.sub] < incumbent'[h] /\ IsDispatched(h, x) =>
             x.address \in transitPool'[h][x.worker],
         \A w \in Clients(h) : \A a \in transitPool'[h][w], o \in Returns(h) :
           o.worker = w /\ o.address = a /\ o.sub = token[h][a].sub =>
             Bound[o.sub] >= Best' \/ \E x \in Returns(h)' : Same(x, o)
  PROVE  HubIsSound(h)'
<1>0. Bound \in [Sub -> Nat] /\ NoToken \notin Token
  BY FreeIsNoToken DEF WorkAssumption
<1>1. \A o \in Returns(h) : o.sub \in Sub /\ o.worker \in Worker
  BY ReturnTypes
<1>2. \A s \in Sub : CanFathom(h, s) => CanFathom(h, s)'
  BY <1>0 DEF CanFathom, Improves
<1>9. PICK g : \A x \in Returns(h)' : \E o \in Returns(h) : x = g[o] /\ Same(x, o)
  BY DEF Follows
<1>3. \A x \in Returns(h)' : \E o \in Returns(h) : x = g[o] /\ Same(x, o) /\ o.sub \in Sub
  BY <1>1, <1>9
<1>4. ReturnsAreRight(h)'
  <2> SUFFICES ASSUME NEW x \in Returns(h)'
               PROVE  HubOf[x.worker] = h /\ (CanFathom(h, x.sub)' \/ IsDispatched(h, x)')
    BY DEF ReturnsAreRight
  <2>1. PICK o \in Returns(h) : Same(x, o) /\ o.sub \in Sub /\ o.worker \in Worker
    BY <1>1, <1>3
  <2>2. HubOf[o.worker] = h /\ (CanFathom(h, o.sub) \/ IsDispatched(h, o))
    BY DEF HubIsSound, ReturnsAreRight
  <2>3. x.sub \in Sub /\ x.worker \in Clients(h)
    BY <2>1, <2>2 DEF Same, Clients
  <2>4. CASE CanFathom(h, o.sub)
    BY <1>2, <2>1, <2>2, <2>4 DEF Same
  <2>5. CASE IsDispatched(h, o) /\ ~CanFathom(h, x.sub)'
    <3>1. IsDispatched(h, x)
      BY <2>1, <2>5 DEF IsDispatched, Same
    <3>2. Bound[x.sub] < incumbent'[h]
      BY <1>0, <2>3, <2>5 DEF CanFathom, Improves
    <3>3. x.address \in transitPool'[h][x.worker]
      BY <3>1, <3>2
    <3>4. token'[h][x.address] = token[h][x.address]
      BY <2>3, <3>3
    <3> QED BY <2>1, <2>2, <3>1, <3>3, <3>4 DEF IsDispatched, Same
  <2> QED BY <2>1, <2>2, <2>4, <2>5 DEF Same
<1>5. ReturnOnce(h)'
  <2> SUFFICES ASSUME NEW x \in Returns(h)', NEW y \in Returns(h)', x.address = y.address, x # y
               PROVE  CanFathom(h, x.sub)' \/ CanFathom(h, y.sub)'
    BY DEF ReturnOnce
  <2>1. PICK o \in Returns(h) : x = g[o] /\ Same(x, o) /\ o.sub \in Sub
    BY <1>3
  <2>2. PICK u \in Returns(h) : y = g[u] /\ Same(y, u) /\ u.sub \in Sub
    BY <1>3
  <2>3. o # u /\ o.address = u.address
    BY <2>1, <2>2 DEF Same
  <2>4. CanFathom(h, o.sub) \/ CanFathom(h, u.sub)
    BY <2>3 DEF HubIsSound, ReturnOnce
  <2> QED BY <1>2, <2>1, <2>2, <2>4 DEF Same
<1>6. TransitsMove(h)'
  <2> SUFFICES ASSUME NEW w \in Clients(h), NEW a \in transitPool'[h][w],
                      ~(Bound[token'[h][a].sub] >= Best')
               PROVE  \E x \in Returns(h)' :
                        x.worker = w /\ x.address = a /\ x.sub = token'[h][a].sub
    BY DEF TransitsMove, Clients
  <2>1. a \in transitPool[h][w] /\ token'[h][a] = token[h][a]
    OBVIOUS
  <2>2. token[h][a] \in Token
    BY <2>1 DEF HubIsSound, PoolsApart
  <2>3. Bound[token[h][a].sub] \in Nat
    BY <1>0, <2>2 DEF Token
  <2>4. ~(Bound[token[h][a].sub] >= Best)
    BY <2>1, <2>3 DEF Improves
  <2>5. PICK o \in Returns(h) : o.worker = w /\ o.address = a /\ o.sub = token[h][a].sub
    BY <2>1, <2>4 DEF HubIsSound, TransitsMove
  <2>6. PICK x \in Returns(h)' : Same(x, o)
    BY <2>1, <2>5
  <2> QED BY <2>1, <2>5, <2>6 DEF Same
<1>7. PoolsApart(h)'
  <2>1. \A a \in hubPool'[h] : token'[h][a] \in Token
    BY DEF HubIsSound, PoolsApart
  <2>2. ASSUME NEW w \in Clients(h), NEW a \in transitPool'[h][w]
        PROVE  /\ token'[h][a] \in Token /\ a \notin hubPool'[h]
               /\ \A v \in Clients(h) : a \in transitPool'[h][v] => v = w
    <3>1. a \in transitPool[h][w] /\ token'[h][a] = token[h][a]
      OBVIOUS
    <3>2. /\ token[h][a] \in Token /\ a \notin hubPool[h]
          /\ \A v \in Clients(h) : a \in transitPool[h][v] => v = w
      BY <3>1 DEF HubIsSound, PoolsApart
    <3>3. a \notin hubPool'[h]
      BY <1>0, <3>2
    <3> QED BY <3>1, <3>2, <3>3
  <2> QED BY <2>1, <2>2 DEF PoolsApart, Clients
<1>8. HasTokens(h)'
  <2> SUFFICES ASSUME ~needPruning'[h], NEW a \in hubPool'[h]
               PROVE  ~(Bound[token'[h][a].sub] >= incumbent'[h])
    BY DEF HasTokens, CanFathom
  <2>1. Bound[token'[h][a].sub] < incumbent'[h] /\ token'[h][a] \in Token
    BY DEF HubIsSound, PoolsApart
  <2>2. Bound[token'[h][a].sub] \in Nat
    BY <1>0, <2>1 DEF Token
  <2> QED BY <2>1, <2>2 DEF CanFathom, Improves
<1> QED BY <1>4, <1>5, <1>6, <1>7, <1>8 DEF HubIsSound

\* What comes back to h moves on, but for what everybody ignores.
MovesOn(h) ==
  /\ Follows(h)
  /\ \A o \in Returns(h) : Bound[o.sub] >= Best' \/ \E x \in Returns(h)' : Same(x, o)

\* A step in which hub h does nothing, but may learn of an incumbent.
LEMMA RestsSound ==
  ASSUME WorkAssumption, Shapes, NEW h \in Hub, HubIsSound(h), Improves(h), MovesOn(h),
         token'[h] = token[h], hubPool'[h] = hubPool[h], transitPool'[h] = transitPool[h],
         ~needPruning'[h] => ~needPruning[h] /\ incumbent'[h] = incumbent[h]
  PROVE  HubIsSound(h)'
<1>0. Bound \in [Sub -> Nat]
  BY DEF WorkAssumption
<1>1. ASSUME ~needPruning'[h], NEW a \in hubPool'[h]
      PROVE  Bound[token'[h][a].sub] < incumbent'[h]
  <2>1. token[h][a] \in Token /\ ~CanFathom(h, token[h][a].sub)
    BY <1>1 DEF HubIsSound, PoolsApart, HasTokens
  <2>2. Bound[token[h][a].sub] \in Nat
    BY <1>0, <2>1 DEF Token
  <2> QED BY <1>1, <2>1, <2>2 DEF CanFathom, Improves
<1>2. \A x \in Returns(h)' :
        Bound[x.sub] < incumbent'[h] /\ IsDispatched(h, x) =>
          x.address \in transitPool'[h][x.worker]
  BY DEF IsDispatched
<1> QED BY <1>1, <1>2, StaysSound DEF MovesOn

\* Hub h gets back the addresses in gone from worker v, and deletes the tokens in D,
\* those it does not ignore.
Deletes(h, v, gone, D) ==
  /\ gone \subseteq Returns(h) /\ \A o \in gone : o.worker = v
  /\ \A a : a \in D <=> \E o \in gone : a = o.address /\ ~CanFathom(h, o.sub)
  /\ \E g : \A x \in Returns(h)' : \E o \in Returns(h) \ gone : x = g[o] /\ Same(x, o)
  /\ \A o \in Returns(h) \ gone : \E x \in Returns(h)' : Same(x, o)
  /\ incumbent'[h] = incumbent[h] /\ needPruning'[h] = needPruning[h]
  /\ \A a \in hubPool'[h] :
       \/ a \in hubPool[h] /\ (a \notin D => token'[h][a] = token[h][a])
       \/ /\ token[h][a] = NoToken
          /\ a \notin D => token'[h][a] \in Token /\ ~CanFathom(h, token'[h][a].sub)
  /\ \A w \in Clients(h) :
       /\ transitPool'[h][w] \subseteq transitPool[h][w]
       /\ transitPool[h][w] \ D \subseteq transitPool'[h][w]
       /\ w = v => transitPool'[h][w] \cap D = {}
       /\ transitPool[h][w] \subseteq Address
  /\ \A a \in Address : token[h][a] \in Token /\ a \notin D => token'[h][a] = token[h][a]

LEMMA DeletesSound ==
  ASSUME WorkAssumption, Shapes, NEW h \in Hub, HubIsSound(h), Improves(h),
         NEW v, NEW gone, NEW D, Deletes(h, v, gone, D)
  PROVE  HubIsSound(h)'
<1> USE DEF Deletes
<1>0. Bound \in [Sub -> Nat] /\ NoToken \notin Token
  BY FreeIsNoToken DEF WorkAssumption
<1>1. \A o \in Returns(h) : o.sub \in Sub /\ o.worker \in Worker
  BY ReturnTypes
\* Deleted tokens have been given out to v.
<1>2. ASSUME NEW a \in D
      PROVE  v \in Clients(h) /\ a \in transitPool[h][v] /\ token[h][a] \in Token
  <2>1. PICK o \in gone : a = o.address /\ ~CanFathom(h, o.sub)
    BY <1>2
  <2>2. HubOf[v] = h /\ IsDispatched(h, o) /\ o.worker = v
    BY <2>1 DEF HubIsSound, ReturnsAreRight
  <2>3. v \in Clients(h)
    BY <1>1, <2>1, <2>2 DEF Clients
  <2> QED BY <2>1, <2>2, <2>3 DEF IsDispatched, HubIsSound, PoolsApart
<1>3. \A a \in hubPool'[h] : a \notin D
  <2> SUFFICES ASSUME NEW a \in hubPool'[h], a \in D PROVE FALSE
    OBVIOUS
  <2>1. v \in Clients(h) /\ a \in transitPool[h][v] /\ token[h][a] \in Token
    BY <1>2
  <2>2. a \notin hubPool[h]
    BY <2>1 DEF HubIsSound, PoolsApart
  <2> QED BY <1>0, <2>1, <2>2
<1>4. Follows(h)
  BY DEF Follows
<1>5. \A a \in hubPool'[h] : \/ a \in hubPool[h] /\ token'[h][a] = token[h][a]
                             \/ token[h][a] = NoToken /\ token'[h][a] \in Token
  BY <1>3
<1>6. ASSUME NEW w \in Clients(h), NEW a \in transitPool'[h][w]
      PROVE  a \in transitPool[h][w] /\ a \notin D /\ token'[h][a] = token[h][a]
  <2>1. a \in transitPool[h][w] /\ a \in Address
    BY <1>6
  <2>2. token[h][a] \in Token
    BY <2>1 DEF HubIsSound, PoolsApart
  <2>3. a \notin D
    <3> SUFFICES ASSUME a \in D PROVE FALSE
      OBVIOUS
    <3>1. v \in Clients(h) /\ a \in transitPool[h][v]
      BY <1>2
    <3>2. w = v
      BY <2>1, <3>1 DEF HubIsSound, PoolsApart
    <3> QED BY <1>6, <3>2
  <2> QED BY <2>1, <2>2, <2>3
<1>7. ASSUME ~needPruning'[h], NEW a \in hubPool'[h]
      PROVE  Bound[token'[h][a].sub] < incumbent'[h]
  <2>1. token'[h][a] \in Token /\ ~CanFathom(h, token'[h][a].sub)
    <3>1. CASE a \in hubPool[h] /\ token'[h][a] = token[h][a]
      BY <1>7, <3>1 DEF HubIsSound, PoolsApart, HasTokens
    <3>2. CASE a \notin hubPool[h] \/ token'[h][a] # token[h][a]
      BY <1>3, <3>2
    <3> QED BY <3>1, <3>2
  <2>2. Bound[token'[h][a].sub] \in Nat
    BY <1>0, <2>1 DEF Token
  <2> QED BY <2>1, <2>2 DEF CanFathom, Improves
<1>8. ASSUME NEW x \in Returns(h)', Bound[x.sub] < incumbent'[h], IsDispatched(h, x)
      PROVE  x.address \in transitPool'[h][x.worker]
  <2>1. PICK o \in Returns(h) \ gone : Same(x, o)
    OBVIOUS
  <2>2. x.sub \in Sub /\ x.worker \in Worker /\ HubOf[x.worker] = h
    BY <1>1, <2>1 DEF Same, HubIsSound, ReturnsAreRight
  <2>3. ~CanFathom(h, o.sub)
    <3>1. Bound[o.sub] \in Nat /\ Bound[o.sub] < incumbent[h]
      BY <1>0, <1>8, <2>1, <2>2 DEF Same
    <3> QED BY <3>1 DEF CanFathom, Improves
  <2>4. x.address \notin D
    <3> SUFFICES ASSUME NEW k \in gone, x.address = k.address, ~CanFathom(h, k.sub)
                 PROVE  FALSE
      OBVIOUS
    <3> QED BY <2>1, <2>3, ZenonT(60) DEF Same, HubIsSound, ReturnOnce
  <2>5. x.worker \in Clients(h) /\ x.address \in transitPool[h][x.worker]
    BY <1>8, <2>2 DEF IsDispatched, Clients
  <2> QED BY <2>4, <2>5
<1>9. ASSUME NEW w \in Clients(h), NEW a \in transitPool'[h][w], NEW o \in Returns(h),
             o.worker = w, o.address = a, o.sub = token[h][a].sub
      PROVE  Bound[o.sub] >= Best' \/ \E x \in Returns(h)' : Same(x, o)
  <2>1. CASE o \in gone
    <3>1. a \notin D
      BY <1>6, <1>9
    <3>2. CanFathom(h, o.sub)
      BY <1>9, <2>1, <3>1
    <3>3. Bound[o.sub] \in Nat
      BY <1>0, <1>1
    <3> QED BY <3>2, <3>3 DEF CanFathom, Improves
  <2> QED BY <2>1
<1> QED BY <1>4, <1>5, <1>6, <1>7, <1>8, <1>9, StaysSound

-----------------------------------------------------------------------------
(***************************************************************************)
(* How what comes back moves.                                              *)
(***************************************************************************)
\* Nothing moves.
LEMMA NothingMoves ==
  ASSUME NEW h \in Hub, Returns(h)' = Returns(h)
  PROVE  MovesOn(h)
<1> DEFINE g == [o \in Returns(h) |-> o]
<1>1. \A x \in Returns(h)' : x \in Returns(h) /\ x = g[x] /\ Same(x, x)
  BY DEF Same
<1> HIDE DEF g
<1>2. \A x \in Returns(h)' : \E o \in Returns(h) : x = g[o] /\ Same(x, o)
  BY <1>1
<1>3. \A o \in Returns(h) : \E x \in Returns(h)' : Same(x, o)
  BY DEF Same
<1> QED BY <1>2, <1>3 DEF MovesOn, Follows

\* A message without acknowledgements does not change what comes back.
LEMMA QuietMessage ==
  ASSUME Shapes, NEW h \in Hub, NEW p \in Worker, NEW msg, msg.acks = <<>>, acks' = acks,
         \/ hubQueue' = hubQueue
         \/ hubQueue' = [hubQueue EXCEPT ![h][p] = Append(@, msg)]
  PROVE  \A k \in Hub : \A x : AckingNext(k, x) <=> Acking(k, x)
<1> SUFFICES ASSUME NEW k \in Hub, NEW x
             PROVE  FromQueue(hubQueue', k, x) <=> FromQueue(hubQueue, k, x)
  BY DEF Acking, AckingNext
<1> DEFINE n == Len(hubQueue[h][p]) + 1
<1>0. /\ hubQueue \in [Hub -> [Worker -> Seq(HubMessage)]]
      /\ hubQueue[h][p] \in Seq(HubMessage) /\ DOMAIN msg.acks = {}
  BY DEF Shapes
<1>1. CASE hubQueue' = hubQueue
  BY <1>1
<1>2. CASE hubQueue' = [hubQueue EXCEPT ![h][p] = Append(@, msg)]
  <2>1. \A v \in Worker : ~(k = h /\ v = p) => hubQueue'[k][v] = hubQueue[k][v]
    BY <1>0, <1>2
  <2>2. hubQueue'[h][p] = Append(hubQueue[h][p], msg)
    BY <1>0, <1>2
  <2>3. /\ \A i \in DOMAIN hubQueue[h][p] :
             i \in DOMAIN hubQueue'[h][p] /\ hubQueue'[h][p][i] = hubQueue[h][p][i]
        /\ \A i \in DOMAIN hubQueue'[h][p] :
             \/ i \in DOMAIN hubQueue[h][p] /\ hubQueue'[h][p][i] = hubQueue[h][p][i]
             \/ hubQueue'[h][p][i].acks = <<>>
    BY <1>0, <2>2, Appended
  <2>4. \A v \in Worker :
          /\ \A i \in DOMAIN hubQueue[k][v] :
               i \in DOMAIN hubQueue'[k][v] /\ hubQueue'[k][v][i] = hubQueue[k][v][i]
          /\ \A i \in DOMAIN hubQueue'[k][v] :
               \/ i \in DOMAIN hubQueue[k][v] /\ hubQueue'[k][v][i] = hubQueue[k][v][i]
               \/ hubQueue'[k][v][i].acks = <<>>
    BY <2>1, <2>3
  <2>5. ASSUME FromQueue(hubQueue, k, x) PROVE FromQueue(hubQueue', k, x)
    <3>1. PICK v \in Worker : \E i \in DOMAIN hubQueue[k][v] :
            \E j \in DOMAIN hubQueue[k][v][i].acks :
              x = Back(hubQueue[k][v][i].acks[j].address, v, hubQueue[k][v][i].acks[j].sub,
                       <<"queue", v, i, j>>)
      BY <2>5, Zenon DEF FromQueue
    <3>2. PICK i \in DOMAIN hubQueue[k][v] : \E j \in DOMAIN hubQueue[k][v][i].acks :
            x = Back(hubQueue[k][v][i].acks[j].address, v, hubQueue[k][v][i].acks[j].sub,
                     <<"queue", v, i, j>>)
      BY <3>1, Zenon
    <3>3. i \in DOMAIN hubQueue'[k][v] /\ hubQueue'[k][v][i] = hubQueue[k][v][i]
      BY <2>4, Zenon
    <3>4. \E j \in DOMAIN hubQueue'[k][v][i].acks :
            x = Back(hubQueue'[k][v][i].acks[j].address, v, hubQueue'[k][v][i].acks[j].sub,
                     <<"queue", v, i, j>>)
      BY <3>2, <3>3, Zenon
    <3> QED BY <3>3, <3>4, Zenon DEF FromQueue
  <2>6. ASSUME FromQueue(hubQueue', k, x) PROVE FromQueue(hubQueue, k, x)
    <3>1. \A v \in Worker : \A i \in DOMAIN hubQueue'[k][v] :
            \A j \in DOMAIN hubQueue'[k][v][i].acks :
              i \in DOMAIN hubQueue[k][v] /\ hubQueue'[k][v][i] = hubQueue[k][v][i]
      BY <2>4
    <3> QED BY <2>6, <3>1, Zenon DEF FromQueue
  <2> QED BY <2>5, <2>6
<1> QED BY <1>1, <1>2

\* Where an acknowledgement goes when the list of w is emptied into a message.
AckMoves(w, o) ==
  IF o.at[1] = "acks" /\ o.at[2] = w
  THEN Back(o.address, o.worker, o.sub,
            <<"queue", w, Len(hubQueue[HubOf[w]][w]) + 1, o.at[3]>>)
  ELSE o

\* The i-th of acked, in the message that w sends now.
InReport(w, acked, i) ==
  Back(acked[i].address, w, acked[i].sub, <<"queue", w, Len(hubQueue[HubOf[w]][w]) + 1, i>>)

\* Where each acknowledgement comes from, and where it goes.
LEMMA AcksFollow ==
  ASSUME WorkAssumption, Shapes, NEW w \in RemoteWorker, NEW tokens, NEW acked \in Seq(Ack),
         SendReport(w, tokens, acked), NEW h \in Hub,
         \A i \in DOMAIN acks[w] : i \in DOMAIN acked /\ acked[i] = acks[w][i]
  PROVE  /\ \A x : AckingNext(h, x) =>
              \/ \E o : Acking(h, o) /\ x = AckMoves(w, o)
              \/ \E i \in DOMAIN acked \ DOMAIN acks[w] : h = HubOf[w] /\ x = InReport(w, acked, i)
         /\ \A o : Acking(h, o) => AckingNext(h, AckMoves(w, o))
         /\ h = HubOf[w] => \A i \in DOMAIN acked : AckingNext(h, InReport(w, acked, i))
<1> DEFINE n == Len(hubQueue[HubOf[w]][w]) + 1
           msg == [tokens |-> tokens, acks |-> acked, adjust |-> 0]
<1>0. /\ w \in Worker /\ HubOf[w] \in Hub
      /\ hubQueue \in [Hub -> [Worker -> Seq(HubMessage)]]
      /\ acks \in [RemoteWorker -> Seq(Ack)]
  BY DEF Shapes, WorkAssumption, RemoteWorker
<1>1. /\ hubQueue' = [hubQueue EXCEPT ![HubOf[w]][w] = Append(@, msg)]
      /\ acks' = [acks EXCEPT ![w] = <<>>] /\ msg.acks = acked
  BY DEF SendReport
<1> HIDE DEF msg
<1>2. \A v \in Worker : ~(h = HubOf[w] /\ v = w) => hubQueue'[h][v] = hubQueue[h][v]
  BY <1>0, <1>1
<1>3. hubQueue'[HubOf[w]][w] = Append(hubQueue[HubOf[w]][w], msg)
  BY <1>0, <1>1
<1>4. /\ n \in DOMAIN hubQueue'[HubOf[w]][w] /\ hubQueue'[HubOf[w]][w][n] = msg
      /\ \A i \in DOMAIN hubQueue[HubOf[w]][w] :
           /\ i \in DOMAIN hubQueue'[HubOf[w]][w]
           /\ hubQueue'[HubOf[w]][w][i] = hubQueue[HubOf[w]][w][i]
      /\ \A i \in DOMAIN hubQueue'[HubOf[w]][w] :
           \/ i = n
           \/ /\ i \in DOMAIN hubQueue[HubOf[w]][w]
              /\ hubQueue'[HubOf[w]][w][i] = hubQueue[HubOf[w]][w][i]
  <2> DEFINE q == hubQueue[HubOf[w]][w]
             r == hubQueue'[HubOf[w]][w]
  <2>1. q \in Seq(HubMessage) /\ r = Append(q, msg) /\ n = Len(q) + 1
    BY <1>0, <1>3
  <2> HIDE DEF q, r, n
  <2>2. /\ n \in DOMAIN r /\ r[n] = msg
        /\ \A i \in DOMAIN q : i \in DOMAIN r /\ r[i] = q[i]
        /\ \A i \in DOMAIN r : i = n \/ (i \in DOMAIN q /\ r[i] = q[i])
    BY <2>1, Appended
  <2> QED BY <2>2 DEF q, r
<1>5. \A v \in RemoteWorker : v # w => acks'[v] = acks[v]
  BY <1>0, <1>1
<1>6. DOMAIN acks'[w] = {}
  BY <1>0, <1>1
<1>7. \A i : InReport(w, acked, i) = Back(acked[i].address, w, acked[i].sub, <<"queue", w, n, i>>)
  BY DEF InReport
<1> HIDE DEF n
<1>8. ASSUME NEW x, FromAcks(acks', h, x)
      PROVE  FromAcks(acks, h, x) /\ x = AckMoves(w, x)
  <2>1. PICK v \in RemoteWorker : \E i \in DOMAIN acks'[v] :
          HubOf[v] = h /\ x = Back(acks'[v][i].address, v, acks'[v][i].sub, <<"acks", v, i>>)
    BY <1>8 DEF FromAcks
  <2>2. v # w /\ acks'[v] = acks[v]
    BY <1>5, <1>6, <2>1
  <2>3. FromAcks(acks, h, x)
    BY <2>1, <2>2 DEF FromAcks
  <2>4. x.at[2] = v
    BY <2>1 DEF Back
  <2> QED BY <2>2, <2>3, <2>4 DEF AckMoves
<1>9. \A x : FromQueue(hubQueue, h, x) => x = AckMoves(w, x)
  BY DEF FromQueue, AckMoves, Back
<1>10. ASSUME NEW x, FromQueue(hubQueue', h, x)
       PROVE  \/ FromQueue(hubQueue, h, x)
              \/ \E i \in DOMAIN acked : h = HubOf[w] /\ x = InReport(w, acked, i)
  <2>1. PICK v \in Worker : \E i \in DOMAIN hubQueue'[h][v] :
          \E j \in DOMAIN hubQueue'[h][v][i].acks :
            x = Back(hubQueue'[h][v][i].acks[j].address, v, hubQueue'[h][v][i].acks[j].sub,
                     <<"queue", v, i, j>>)
    BY <1>10, Zenon DEF FromQueue
  <2>2. PICK i \in DOMAIN hubQueue'[h][v] : \E j \in DOMAIN hubQueue'[h][v][i].acks :
            x = Back(hubQueue'[h][v][i].acks[j].address, v, hubQueue'[h][v][i].acks[j].sub,
                     <<"queue", v, i, j>>)
    BY <2>1
  <2>3. CASE h = HubOf[w] /\ v = w /\ i = n
    <3>1. hubQueue'[h][v][i].acks = acked
      BY <1>1, <1>4, <2>3
    <3> QED BY <1>7, <2>2, <2>3, <3>1
  <2>4. CASE ~(h = HubOf[w] /\ v = w /\ i = n)
    <3>1. i \in DOMAIN hubQueue[h][v] /\ hubQueue'[h][v][i] = hubQueue[h][v][i]
      BY <1>2, <1>4, <2>2, <2>4
    <3> QED BY <2>2, <3>1, Zenon DEF FromQueue
  <2> QED BY <2>3, <2>4
<1>11. ASSUME h = HubOf[w], NEW i \in DOMAIN acks[w]
       PROVE  \E o : FromAcks(acks, h, o) /\ InReport(w, acked, i) = AckMoves(w, o)
  <2> DEFINE o == Back(acks[w][i].address, w, acks[w][i].sub, <<"acks", w, i>>)
  <2>1. FromAcks(acks, h, o)
    BY <1>11 DEF FromAcks
  <2>2. /\ o.at = <<"acks", w, i>> /\ o.address = acked[i].address /\ o.worker = w
        /\ o.sub = acked[i].sub
    BY <1>11 DEF Back
  <2> HIDE DEF o
  <2>3. InReport(w, acked, i) = AckMoves(w, o)
    BY <2>2 DEF AckMoves, InReport
  <2> QED BY <2>1, <2>3
<1>12. ASSUME h = HubOf[w], NEW i \in DOMAIN acked
       PROVE  FromQueue(hubQueue', h, InReport(w, acked, i))
  <2>1. /\ n \in DOMAIN hubQueue'[h][w] /\ i \in DOMAIN hubQueue'[h][w][n].acks
        /\ hubQueue'[h][w][n].acks[i] = acked[i]
    BY <1>1, <1>4, <1>12
  <2> QED BY <1>0, <1>7, <2>1 DEF FromQueue
<1>13. ASSUME NEW o, FromQueue(hubQueue, h, o)
       PROVE  FromQueue(hubQueue', h, o)
  <2>1. \A v \in Worker : \A i \in DOMAIN hubQueue[h][v] :
          i \in DOMAIN hubQueue'[h][v] /\ hubQueue'[h][v][i] = hubQueue[h][v][i]
    BY <1>2, <1>4
  <2> QED BY <1>13, <2>1 DEF FromQueue
<1>14. ASSUME NEW o, FromAcks(acks, h, o)
       PROVE  FromAcks(acks', h, AckMoves(w, o)) \/ FromQueue(hubQueue', h, AckMoves(w, o))
  <2>1. PICK v \in RemoteWorker : \E i \in DOMAIN acks[v] :
          HubOf[v] = h /\ o = Back(acks[v][i].address, v, acks[v][i].sub, <<"acks", v, i>>)
    BY <1>14 DEF FromAcks
  <2>2. PICK i \in DOMAIN acks[v] :
          HubOf[v] = h /\ o = Back(acks[v][i].address, v, acks[v][i].sub, <<"acks", v, i>>)
    BY <2>1
  <2>3. /\ o.at = <<"acks", v, i>> /\ o.address = acks[v][i].address /\ o.worker = v
        /\ o.sub = acks[v][i].sub
    BY <2>2 DEF Back
  <2>4. CASE v = w
    <3>1. AckMoves(w, o) = InReport(w, acked, i)
      BY <2>2, <2>3, <2>4 DEF AckMoves, InReport
    <3> QED BY <1>12, <2>2, <2>4, <3>1
  <2>5. CASE v # w
    <3>1. AckMoves(w, o) = o
      BY <2>3, <2>5 DEF AckMoves
    <3> QED BY <1>5, <2>2, <2>5, <3>1 DEF FromAcks
  <2> QED BY <2>4, <2>5
<1>16. ASSUME NEW x, AckingNext(h, x)
       PROVE  \/ \E o : Acking(h, o) /\ x = AckMoves(w, o)
              \/ \E i \in DOMAIN acked \ DOMAIN acks[w] : h = HubOf[w] /\ x = InReport(w, acked, i)
  <2>1. CASE FromAcks(acks', h, x)
    BY <1>8, <2>1, Zenon DEF Acking
  <2>2. CASE FromQueue(hubQueue, h, x)
    BY <1>9, <2>2, Zenon DEF Acking
  <2>3. CASE \E i \in DOMAIN acked : h = HubOf[w] /\ x = InReport(w, acked, i)
    BY <1>11, <2>3, Zenon DEF Acking
  <2> QED BY <1>10, <1>16, <2>1, <2>2, <2>3 DEF AckingNext
<1>17. \A o : Acking(h, o) => AckingNext(h, AckMoves(w, o))
  BY <1>9, <1>13, <1>14, Zenon DEF Acking, AckingNext
<1>18. h = HubOf[w] => \A i \in DOMAIN acked : AckingNext(h, InReport(w, acked, i))
  BY <1>12 DEF AckingNext
<1> QED BY <1>16, <1>17, <1>18

\* A report moves what is to be acknowledged.
LEMMA ReportMoves ==
  ASSUME WorkAssumption, Shapes, NEW w \in RemoteWorker, NEW tokens,
         SendReport(w, tokens, acks[w]), network' = network, NEW h \in Hub
  PROVE  MovesOn(h)
<1> DEFINE g == [o \in Returns(h) |-> AckMoves(w, o)]
<1>0. acks[w] \in Seq(Ack)
  BY DEF Shapes
<1>1. /\ \A x : AckingNext(h, x) => \E o : Acking(h, o) /\ x = AckMoves(w, o)
      /\ \A o : Acking(h, o) => AckingNext(h, AckMoves(w, o))
  <2>1. \A i \in DOMAIN acks[w] : i \in DOMAIN acks[w] /\ acks[w][i] = acks[w][i]
    OBVIOUS
  <2> QED BY <1>0, <2>1, AcksFollow
<1>2. /\ \A x : FromDispatch(network', h, x) => FromDispatch(network, h, x) /\ x = AckMoves(w, x)
      /\ \A x : FromDelivery(network', h, x) => FromDelivery(network, h, x) /\ x = AckMoves(w, x)
  <2>1. \A x : FromDispatch(network, h, x) => x = AckMoves(w, x)
    BY DEF FromDispatch, AckMoves, Back
  <2>2. \A x : FromDelivery(network, h, x) => x = AckMoves(w, x)
    BY DEF FromDelivery, AckMoves, Back
  <2> QED BY <2>1, <2>2
<1>3. \A o : o \in Returns(h) <=>
        FromDispatch(network, h, o) \/ FromDelivery(network, h, o) \/ Acking(h, o)
  BY ReturnsNow
<1>4. \A x : x \in Returns(h)' <=>
        FromDispatch(network', h, x) \/ FromDelivery(network', h, x) \/ AckingNext(h, x)
  BY ReturnsNext
<1>5. \A o : Same(AckMoves(w, o), o)
  BY DEF Same, AckMoves, Back
<1>6. ASSUME NEW x \in Returns(h)' PROVE \E o \in Returns(h) : x = AckMoves(w, o)
  BY <1>1, <1>2, <1>3, <1>4, Zenon
<1>7. ASSUME NEW o \in Returns(h) PROVE AckMoves(w, o) \in Returns(h)'
  <2>1. CASE Acking(h, o)
    BY <1>1, <1>4, <2>1
  <2>2. CASE FromDispatch(network, h, o) \/ FromDelivery(network, h, o)
    <3>1. FromDispatch(network', h, o) \/ FromDelivery(network', h, o)
      BY <2>2
    <3>2. o = AckMoves(w, o)
      BY <1>2, <3>1
    <3> QED BY <1>4, <3>1, <3>2
  <2> QED BY <1>3, <2>1, <2>2
<1>8. \A o \in Returns(h) : g[o] = AckMoves(w, o)
  OBVIOUS
<1> HIDE DEF g
<1>9. \A x \in Returns(h)' : \E o \in Returns(h) : x = g[o] /\ Same(x, o)
  BY <1>5, <1>6, <1>8
<1>10. \A o \in Returns(h) : \E x \in Returns(h)' : Same(x, o)
  BY <1>5, <1>7
<1> QED BY <1>9, <1>10 DEF MovesOn, Follows

\* A message without acknowledgements moves nothing.
LEMMA QuietMoves ==
  ASSUME network' = network, NEW h \in Hub, \A x : AckingNext(h, x) <=> Acking(h, x)
  PROVE  Returns(h)' = Returns(h) /\ MovesOn(h)
<1>1. \A x : x \in Returns(h)' <=> x \in Returns(h)
  BY ReturnsNow, ReturnsNext
<1>2. Returns(h)' = Returns(h)
  BY <1>1
<1> QED BY <1>2, NothingMoves

\* ... and so does a step without messages.
LEMMA SilentMoves ==
  ASSUME UNCHANGED <<network, acks, hubQueue>>, NEW h \in Hub
  PROVE  Returns(h)' = Returns(h) /\ MovesOn(h)
<1>1. \A x : AckingNext(h, x) <=> Acking(h, x)
  BY DEF AckingNext, Acking
<1> QED BY <1>1, QuietMoves

-----------------------------------------------------------------------------
(***************************************************************************)
(* Each handler leaves all hubs sound.                                     *)
(***************************************************************************)
\* AddressInv, with the domains of the transit pools.
Addressed == TransitShape /\ \A h \in Hub : HubIsSound(h)

\* What is known of a step.
Step == /\ WorkAssumption /\ Core /\ Core' /\ Addressed
        /\ \A h \in Hub : Improves(h)

\* The hubs do nothing.
LEMMA AllRest ==
  ASSUME Step, UNCHANGED hubState, \A h \in Hub : MovesOn(h),
         \A h \in Hub : ~needPruning'[h] => ~needPruning[h] /\ incumbent'[h] = incumbent[h]
  PROVE  Addressed'
<1>1. TransitShape'
  BY DEF Step, Addressed, TransitShape, hubState, Clients
<1>2. ASSUME NEW h \in Hub PROVE HubIsSound(h)'
  BY RestsSound DEF Step, Core, Addressed, hubState
<1> QED BY <1>1, <1>2 DEF Addressed

\* A worker splits a subproblem or creates a child.
LEMMA LocalAddr ==
  ASSUME Step, UNCHANGED <<pruning, report, hubState, network>>
  PROVE  Addressed'
<1>1. \A h \in Hub : MovesOn(h)
  BY SilentMoves DEF report
<1> QED BY <1>1, AllRest DEF pruning

LEMMA CommunicateAddr ==
  ASSUME Step, NEW w \in RemoteWorker, Communicate(w)
  PROVE  Addressed'
<1>1. \A h \in Hub : MovesOn(h)
  BY ReportMoves DEF Step, Core, Communicate
<1> QED BY <1>1, AllRest DEF Communicate, pruning

LEMMA LearnAddr ==
  ASSUME Step, NEW p \in Proc, LearnIncumbent(p)
  PROVE  Addressed'
<1>1. \A h \in Hub : MovesOn(h)
  BY SilentMoves DEF LearnIncumbent, report
<1>2. \A h \in Hub : ~needPruning'[h] => ~needPruning[h] /\ incumbent'[h] = incumbent[h]
  BY DEF LearnIncumbent, Step, Core, Shapes, Proc
<1> QED BY <1>1, <1>2, AllRest DEF LearnIncumbent

\* A processor prunes with value v, which is its incumbent then.
LEMMA PruneAddr ==
  ASSUME Step, NEW p \in Proc, NEW v \in Nat, PrunePools(p, v), incumbent'[p] = v,
         network' = network,
         \A h \in Hub \ {p} : needPruning'[h] = needPruning[h] /\ incumbent'[h] = incumbent[h]
  PROVE  Addressed'
<1>0. WorkAssumption /\ Shapes /\ TransitShape /\ \A h \in Hub : HubIsSound(h) /\ Improves(h)
  BY DEF Step, Core, Addressed
<1>1. CASE p \notin Hub
  <2>1. SendReport(p, outBuffer[p], acks[p]) /\ UNCHANGED hubState
    BY <1>1 DEF PrunePools
  <2>2. p \in RemoteWorker
    BY <1>1 DEF Proc, RemoteWorker
  <2>3. \A h \in Hub : MovesOn(h)
    BY <1>0, <2>1, <2>2, ReportMoves
  <2>4. \A h \in Hub : ~needPruning'[h] => ~needPruning[h] /\ incumbent'[h] = incumbent[h]
    BY <1>1
  <2> QED BY <2>1, <2>3, <2>4, AllRest
<1>2. CASE p \in Hub
  <2> DEFINE live == {a \in Address : token[p][a] # NoToken /\ token[p][a].sub \in Below(v, Sub)}
  <2>1. UNCHANGED <<outBuffer, acks, hubQueue>> /\ HubPrune(p, v)
    BY <1>2 DEF PrunePools, report
  <2>2. /\ token' = [token EXCEPT ![p] = [a \in Address |-> IF a \in live THEN @[a] ELSE NoToken]]
        /\ hubPool' = [hubPool EXCEPT ![p] = @ \cap live]
        /\ transitPool' = [transitPool EXCEPT ![p] = [w \in DOMAIN @ |-> @[w] \cap live]]
    BY <2>1 DEF HubPrune
  <2>3. /\ token \in [Hub -> [Address -> Token \cup {NoToken}]]
        /\ hubPool \in [Hub -> SUBSET Address]
        /\ transitPool = [h \in Hub |-> transitPool[h]]
        /\ \A h \in Hub : transitPool[h] \in [Clients(h) -> SUBSET Address]
        /\ Bound \in [Sub -> Nat]
    BY <1>0 DEF Shapes, TransitShape, WorkAssumption
  <2>4. \A a \in live : /\ a \in Address /\ token[p][a] # NoToken
                        /\ token[p][a].sub \in Sub /\ Bound[token[p][a].sub] < v
    BY DEF Below
  <2>5. \A a \in Address : token[p][a] \in Token /\ Bound[token[p][a].sub] < v => a \in live
    <3>1. NoToken \notin Token
      BY <1>0, FreeIsNoToken
    <3> QED BY <3>1 DEF Below, Token
  <2> HIDE DEF live
  <2>6. TransitShape'
    <3> DEFINE f == [w \in DOMAIN transitPool[p] |-> transitPool[p][w] \cap live]
    <3>1. f \in [Clients(p) -> SUBSET Address]
      BY <1>2, <2>3
    <3>2. transitPool' = [transitPool EXCEPT ![p] = f]
      BY <2>2
    <3> HIDE DEF f
    <3>3. transitPool' = [h \in Hub |-> transitPool'[h]]
      BY <2>3, <3>2
    <3>4. \A h \in Hub : transitPool'[h] \in [Clients(h) -> SUBSET Address]
      BY <1>2, <2>3, <3>1, <3>2
    <3> QED BY <3>3, <3>4 DEF TransitShape, Clients
  <2>7. \A h \in Hub : Returns(h)' = Returns(h) /\ MovesOn(h)
    BY <2>1, SilentMoves
  <2>8. ASSUME NEW h \in Hub \ {p} PROVE HubIsSound(h)'
    <3>1. token'[h] = token[h] /\ hubPool'[h] = hubPool[h] /\ transitPool'[h] = transitPool[h]
      BY <2>2, <2>3
    <3> QED BY <1>0, <2>7, <3>1, RestsSound
  <2>9. HubIsSound(p)'
    <3>1. /\ \A a \in Address : a \in live => token'[p][a] = token[p][a]
          /\ hubPool'[p] = hubPool[p] \cap live
          /\ \A w \in Clients(p) : transitPool'[p][w] = transitPool[p][w] \cap live
      BY <1>2, <2>2, <2>3
    <3>2. \A a \in hubPool'[p] : a \in hubPool[p] /\ token'[p][a] = token[p][a]
      BY <2>4, <3>1
    <3>3. \A w \in Clients(p) : \A a \in transitPool'[p][w] :
            a \in transitPool[p][w] /\ token'[p][a] = token[p][a]
      BY <2>4, <3>1
    <3>4. \A a \in hubPool'[p] : Bound[token'[p][a].sub] < incumbent'[p]
      BY <2>4, <3>1, <3>2
    <3>5. ASSUME NEW x \in Returns(p)', Bound[x.sub] < incumbent'[p], IsDispatched(p, x)
          PROVE  x.address \in transitPool'[p][x.worker]
      <4>1. x \in Returns(p)
        BY <1>2, <2>7
      <4>2. x.address \in Address /\ x.worker \in Worker
        BY <1>0, <1>2, <4>1, ReturnTypes
      <4>3. x.worker \in Clients(p)
        BY <1>0, <1>2, <4>1, <4>2 DEF HubIsSound, ReturnsAreRight, Clients
      <4>4. x.address \in transitPool[p][x.worker] /\ token[p][x.address].sub = x.sub
        BY <3>5 DEF IsDispatched
      <4>5. token[p][x.address] \in Token
        BY <1>0, <1>2, <4>3, <4>4 DEF HubIsSound, PoolsApart
      <4> QED BY <2>5, <3>1, <3>5, <4>2, <4>3, <4>4, <4>5
    <3>6. \A w \in Clients(p) : \A a \in transitPool'[p][w], o \in Returns(p) :
           o.worker = w /\ o.address = a /\ o.sub = token[p][a].sub =>
             Bound[o.sub] >= Best' \/ \E x \in Returns(p)' : Same(x, o)
      BY <1>2, <2>7 DEF MovesOn
    <3>7. Follows(p)
      BY <1>2, <2>7 DEF MovesOn
    <3> QED BY <1>0, <1>2, <3>2, <3>3, <3>4, <3>5, <3>6, <3>7, StaysSound
  <2> QED BY <2>6, <2>8, <2>9 DEF Addressed
<1> QED BY <1>1, <1>2

LEMMA EvaluateAddr ==
  ASSUME Step, NEW w \in Worker, NEW s \in workerPool[w], Evaluate(w, s)
  PROVE  Addressed'
<1>1. s \in Sub /\ Bound[s] \in Nat /\ w \in Proc
  BY DEF Step, Core, Shapes, WorkAssumption, Proc
<1>2. /\ PrunePools(w, Bound[s]) /\ network' = network
      /\ incumbent' = [incumbent EXCEPT ![w] = Bound[s]] /\ needPruning' = needPruning
  BY DEF Evaluate
<1>3. /\ incumbent'[w] = Bound[s]
      /\ \A h \in Hub \ {w} : needPruning'[h] = needPruning[h] /\ incumbent'[h] = incumbent[h]
  BY <1>1, <1>2 DEF Step, Core, Shapes, Proc
<1> QED BY <1>1, <1>2, <1>3, PruneAddr

LEMMA PruningAddr ==
  ASSUME Step, NEW p \in Proc, Prune(p)
  PROVE  Addressed'
<1>1. /\ PrunePools(p, incumbent[p]) /\ network' = network /\ incumbent' = incumbent
      /\ needPruning' = [needPruning EXCEPT ![p] = FALSE]
  BY DEF Prune
<1>2. /\ incumbent[p] \in Nat
      /\ \A h \in Hub \ {p} : needPruning'[h] = needPruning[h] /\ incumbent'[h] = incumbent[h]
  BY <1>1 DEF Step, Core, Shapes, Proc
<1> QED BY <1>1, <1>2, PruneAddr

\* Memory for tokens is free when it is allocated.
LEMMA Allocated ==
  ASSUME NEW h, NEW S, Places(h, S) # {}
  PROVE  /\ Allocate(h, S) \in [S -> Address] /\ DOMAIN Allocate(h, S) = S
         /\ \A i \in S : token[h][Allocate(h, S)[i]] = NoToken
<1>1. Allocate(h, S) \in Places(h, S)
  BY DEF Allocate
<1> DEFINE f == Allocate(h, S)
<1> HIDE DEF f
<1>2. f \in [S -> Free(h)]
  BY <1>1 DEF Places, Injection, IsInjective, f
<1>3. f \in [S -> Address] /\ \A i \in S : token[h][f[i]] = NoToken
  BY <1>2 DEF Free
<1> QED BY <1>3 DEF f

\* A token is released to a hub.
LEMMA ReleaseAddr ==
  ASSUME Step, NEW w \in Worker, NEW h \in Hub, NEW t \in Token, Release(w, t, h),
         UNCHANGED <<pruning, network>>, t.sub \in workerPool[w], ~needPruning[w]
  PROVE  Addressed'
<1>0. /\ WorkAssumption /\ Shapes /\ TransitShape
      /\ \A k \in Hub : HubIsSound(k) /\ Improves(k)
      /\ UNCHANGED <<incumbent, needPruning>>
  BY DEF Step, Core, Addressed, pruning
<1>1. CASE h = w
  <2> DEFINE at == Allocate(w, {t})[t]
  <2>1. /\ Places(w, {t}) # {} /\ token' = [token EXCEPT ![w][at] = t]
        /\ hubPool' = [hubPool EXCEPT ![w] = @ \cup {at}]
        /\ UNCHANGED <<transitPool, acks, hubQueue>>
    BY <1>1 DEF Release, report
  <2>2. at \in Address /\ token[w][at] = NoToken
    BY <2>1, Allocated
  <2> HIDE DEF at
  <2>3. /\ token \in [Hub -> [Address -> Token \cup {NoToken}]]
        /\ hubPool \in [Hub -> SUBSET Address]
        /\ \A k \in Hub : transitPool[k] \in [Clients(k) -> SUBSET Address]
        /\ NoToken \notin Token /\ Bound \in [Sub -> Nat]
    BY <1>0, FreeIsNoToken DEF Shapes, TransitShape, WorkAssumption
  <2>4. TransitShape'
    BY <1>0, <2>1 DEF TransitShape, Clients
  <2>5. \A k \in Hub : Returns(k)' = Returns(k) /\ MovesOn(k)
    BY <2>1, SilentMoves
  <2>6. ASSUME NEW k \in Hub \ {w} PROVE HubIsSound(k)'
    <3>1. token'[k] = token[k] /\ hubPool'[k] = hubPool[k] /\ transitPool'[k] = transitPool[k]
      BY <2>1, <2>3
    <3> QED BY <1>0, <2>5, <3>1, RestsSound
  <2>7. HubIsSound(w)'
    <3>0. w \in Hub
      BY <1>1
    <3>1. /\ token'[w][at] = t /\ \A a \in Address : a # at => token'[w][a] = token[w][a]
          /\ hubPool'[w] = hubPool[w] \cup {at} /\ transitPool'[w] = transitPool[w]
      BY <2>1, <2>2, <2>3, <3>0
    <3>2. \A a \in hubPool[w] : a # at /\ a \in Address
      BY <1>0, <2>2, <2>3, <3>0 DEF HubIsSound, PoolsApart
    <3>3. \A a \in hubPool'[w] : \/ a \in hubPool[w] /\ token'[w][a] = token[w][a]
                                 \/ token[w][a] = NoToken /\ token'[w][a] \in Token
      BY <2>2, <3>1, <3>2
    <3>4. \A v \in Clients(w) : \A a \in transitPool'[w][v] :
            a \in transitPool[w][v] /\ token'[w][a] = token[w][a]
      <4>1. \A v \in Clients(w) : \A a \in transitPool[w][v] : a # at /\ a \in Address
        BY <1>0, <2>2, <2>3, <3>0 DEF HubIsSound, PoolsApart
      <4> QED BY <3>1, <4>1
    <3>5. ASSUME NEW a \in hubPool'[w] PROVE Bound[token'[w][a].sub] < incumbent'[w]
      <4>1. CASE a = at
        <5>1. t.sub \in Below(incumbent[w], Sub)
          BY DEF Step, Core, PoolsArePruned
        <5> QED BY <1>0, <3>1, <4>1, <5>1 DEF Below
      <4>2. CASE a # at
        <5>1. a \in hubPool[w] /\ a \in Address /\ token'[w][a] = token[w][a]
          BY <3>1, <3>2, <4>2
        <5>2. token[w][a] \in Token /\ ~CanFathom(w, token[w][a].sub)
          BY <1>0, <3>0, <5>1 DEF HubIsSound, PoolsApart, HasTokens
        <5>3. Bound[token[w][a].sub] \in Nat
          BY <2>3, <5>2 DEF Token
        <5> QED BY <1>0, <3>0, <5>1, <5>2, <5>3 DEF CanFathom, Improves
      <4> QED BY <4>1, <4>2
    <3>6. \A x \in Returns(w)' :
            Bound[x.sub] < incumbent'[w] /\ IsDispatched(w, x) =>
              x.address \in transitPool'[w][x.worker]
      BY <3>1 DEF IsDispatched
    <3>7. \A v \in Clients(w) : \A a \in transitPool'[w][v], o \in Returns(w) :
           o.worker = v /\ o.address = a /\ o.sub = token[w][a].sub =>
             Bound[o.sub] >= Best' \/ \E x \in Returns(w)' : Same(x, o)
      BY <2>5, <3>0 DEF MovesOn
    <3>8. Follows(w)
      BY <2>5, <3>0 DEF MovesOn
    <3> QED BY <1>0, <3>0, <3>3, <3>4, <3>5, <3>6, <3>7, <3>8, StaysSound
  <2> QED BY <2>4, <2>6, <2>7 DEF Addressed
<1>2. CASE h # w /\ h = HubOf[w]
  <2>1. w \in RemoteWorker
    BY <1>0, <1>2 DEF WorkAssumption, RemoteWorker
  <2>2. /\ \/ SendReport(w, Append(outBuffer[w], t), acks[w])
           \/ UNCHANGED <<acks, hubQueue>>
        /\ UNCHANGED hubState
    BY <1>2 DEF Release
  <2>3. \A k \in Hub : MovesOn(k)
    BY <1>0, <2>1, <2>2, ReportMoves, SilentMoves
  <2> QED BY <1>0, <2>2, <2>3, AllRest
<1>3. CASE h # w /\ h # HubOf[w]
  <2> DEFINE msg == [tokens |-> <<t>>, acks |-> <<>>, adjust |-> 0]
  <2>1. /\ hubQueue' = [hubQueue EXCEPT ![h][w] = Append(@, msg)]
        /\ acks' = acks /\ UNCHANGED hubState
    BY <1>3 DEF Release
  <2>2. msg.acks = <<>>
    OBVIOUS
  <2> HIDE DEF msg
  <2>3. \A k \in Hub : MovesOn(k)
    BY <1>0, <2>1, <2>2, QuietMessage, QuietMoves
  <2> QED BY <1>0, <2>1, <2>3, AllRest
<1> QED BY <1>1, <1>2, <1>3

LEMMA GiveUpAddr ==
  ASSUME Step, NEW w \in Worker, GiveUp(w)
  PROVE  Addressed'
<1>1. PICK s \in workerPool[w], h \in Hub : ReleaseChild(w, s, h) \/ ReleaseSelf(w, s, h)
  BY DEF GiveUp
<1> DEFINE t(self) == [sub |-> s, self |-> self, owner |-> w]
<1>2. \E self \in BOOLEAN : Release(w, t(self), h)
  BY <1>1 DEF ReleaseChild, ReleaseSelf
<1>3. PICK self \in BOOLEAN : Release(w, t(self), h)
  BY <1>2
<1>4. UNCHANGED <<pruning, network>> /\ ~needPruning[w]
  BY <1>1 DEF ReleaseChild, ReleaseSelf, CanWork
<1>5. t(self) \in Token /\ t(self).sub = s
  BY DEF Token, Step, Core, Shapes
<1> HIDE DEF t
<1> QED BY <1>3, <1>4, <1>5, ReleaseAddr

-----------------------------------------------------------------------------
(***************************************************************************)
(* Arrivals.                                                               *)
(***************************************************************************)
\* What the message m brings back.
BackOf(m) == IF m.type = "dispatch"
             THEN Back(m.address, m.dest, m.token.sub, <<"dispatch", m>>)
             ELSE Back(m.address, m.to, m.bound, <<"delivery", m>>)

FromNetwork(messages, h, x) == FromDispatch(messages, h, x) \/ FromDelivery(messages, h, x)

\* Dispatches and deliveries together.
LEMMA NetworkReturns ==
  /\ \A messages, h, x : FromNetwork(messages, h, x) <=>
       \E m \in messages : m.type \in {"dispatch", "deliver"} /\ m.hub = h /\ x = BackOf(m)
  /\ \A m : BackOf(m).at[1] \in {"dispatch", "delivery"} /\ BackOf(m).at[2] = m
<1>1. ASSUME NEW messages, NEW h, NEW x
      PROVE  FromNetwork(messages, h, x) <=>
        \E m \in messages : m.type \in {"dispatch", "deliver"} /\ m.hub = h /\ x = BackOf(m)
  <2>1. ASSUME FromDispatch(messages, h, x)
        PROVE  \E m \in messages : m.type \in {"dispatch", "deliver"} /\ m.hub = h /\ x = BackOf(m)
    BY <2>1 DEF FromDispatch, BackOf
  <2>2. ASSUME FromDelivery(messages, h, x)
        PROVE  \E m \in messages : m.type \in {"dispatch", "deliver"} /\ m.hub = h /\ x = BackOf(m)
    BY <2>2 DEF FromDelivery, BackOf
  <2>3. ASSUME NEW m \in messages, m.type \in {"dispatch", "deliver"}, m.hub = h, x = BackOf(m)
        PROVE  FromDispatch(messages, h, x) \/ FromDelivery(messages, h, x)
    <3>1. CASE m.type = "dispatch"
      BY <2>3, <3>1 DEF FromDispatch, BackOf
    <3>2. CASE m.type = "deliver"
      BY <2>3, <3>2 DEF FromDelivery, BackOf
    <3> QED BY <2>3, <3>1, <3>2
  <2> QED BY <2>1, <2>2, <2>3 DEF FromNetwork
<1>2. ASSUME NEW m PROVE BackOf(m).at[1] \in {"dispatch", "delivery"} /\ BackOf(m).at[2] = m
  BY DEF BackOf, Back
<1> QED BY <1>1, <1>2

\* What comes back, on the network or in acknowledgements.
LEMMA ReturnsBoth ==
  /\ \A h, x : x \in Returns(h) <=> FromNetwork(network, h, x) \/ Acking(h, x)
  /\ \A h, x : x \in Returns(h)' <=> FromNetwork(network', h, x) \/ AckingNext(h, x)
BY ReturnsNow, ReturnsNext DEF FromNetwork

\* An acknowledgement is not on the network.
LEMMA AckingApart ==
  ASSUME NEW h, NEW x, Acking(h, x)
  PROVE  x.at[1] \in {"acks", "queue"}
<1>1. CASE FromAcks(acks, h, x)
  BY <1>1 DEF FromAcks, Back
<1>2. CASE FromQueue(hubQueue, h, x)
  BY <1>2 DEF FromQueue, Back
<1> QED BY <1>1, <1>2 DEF Acking

\* Everything moves to where f says.
LEMMA MapMoves ==
  ASSUME NEW h, NEW f, \A x \in Returns(h)' : \E o \in Returns(h) : x = f[o],
         \A o \in Returns(h) : f[o] \in Returns(h)' /\ Same(f[o], o)
  PROVE  MovesOn(h)
<1>1. \A x \in Returns(h)' : \E o \in Returns(h) : x = f[o] /\ Same(x, o)
  OBVIOUS
<1> QED BY <1>1 DEF MovesOn, Follows

\* One more that w is to acknowledge, k.
AckOf(w, k) == Back(k.address, w, k.sub, <<"acks", w, Len(acks[w]) + 1>>)

LEMMA AckAppended ==
  ASSUME Shapes, NEW w \in RemoteWorker, NEW k \in Ack,
         acks' = [acks EXCEPT ![w] = Append(@, k)], hubQueue' = hubQueue, NEW h \in Hub
  PROVE  /\ \A x : AckingNext(h, x) => Acking(h, x) \/ (h = HubOf[w] /\ x = AckOf(w, k))
         /\ \A o : Acking(h, o) => AckingNext(h, o)
         /\ h = HubOf[w] => AckingNext(h, AckOf(w, k))
<1> DEFINE n == Len(acks[w]) + 1
           y == AckOf(w, k)
<1>0. acks \in [RemoteWorker -> Seq(Ack)] /\ acks[w] \in Seq(Ack)
  BY DEF Shapes
<1>1. acks'[w] = Append(acks[w], k) /\ \A v \in RemoteWorker : v # w => acks'[v] = acks[v]
  BY <1>0
<1>2. /\ n \in DOMAIN acks'[w] /\ acks'[w][n] = k
      /\ \A i \in DOMAIN acks[w] : i \in DOMAIN acks'[w] /\ acks'[w][i] = acks[w][i]
      /\ \A i \in DOMAIN acks'[w] : i = n \/ (i \in DOMAIN acks[w] /\ acks'[w][i] = acks[w][i])
  <2> DEFINE q == acks[w]
             r == acks'[w]
  <2>1. q \in Seq(Ack) /\ r = Append(q, k) /\ n = Len(q) + 1
    BY <1>0, <1>1
  <2> HIDE DEF q, r, n
  <2>2. /\ n \in DOMAIN r /\ r[n] = k
        /\ \A i \in DOMAIN q : i \in DOMAIN r /\ r[i] = q[i]
        /\ \A i \in DOMAIN r : i = n \/ (i \in DOMAIN q /\ r[i] = q[i])
    BY <2>1, Appended
  <2> QED BY <2>2 DEF q, r
<1>3. y = Back(k.address, w, k.sub, <<"acks", w, n>>)
  BY DEF AckOf
<1> HIDE DEF n, y
<1>4. ASSUME NEW x, FromAcks(acks', h, x)
      PROVE  FromAcks(acks, h, x) \/ (h = HubOf[w] /\ x = y)
  <2>1. PICK v \in RemoteWorker : \E i \in DOMAIN acks'[v] :
          HubOf[v] = h /\ x = Back(acks'[v][i].address, v, acks'[v][i].sub, <<"acks", v, i>>)
    BY <1>4 DEF FromAcks
  <2>2. PICK i \in DOMAIN acks'[v] :
          HubOf[v] = h /\ x = Back(acks'[v][i].address, v, acks'[v][i].sub, <<"acks", v, i>>)
    BY <2>1
  <2>3. CASE v = w /\ i = n
    BY <1>2, <1>3, <2>2, <2>3
  <2>4. CASE ~(v = w /\ i = n)
    <3>1. i \in DOMAIN acks[v] /\ acks'[v][i] = acks[v][i]
      BY <1>1, <1>2, <2>2, <2>4
    <3> QED BY <2>2, <3>1 DEF FromAcks
  <2> QED BY <2>3, <2>4
<1>5. ASSUME NEW o, FromAcks(acks, h, o) PROVE FromAcks(acks', h, o)
  <2>1. \A v \in RemoteWorker : \A i \in DOMAIN acks[v] :
          i \in DOMAIN acks'[v] /\ acks'[v][i] = acks[v][i]
    BY <1>1, <1>2
  <2> QED BY <1>5, <2>1 DEF FromAcks
<1>6. h = HubOf[w] => FromAcks(acks', h, y)
  BY <1>2, <1>3 DEF FromAcks
<1> QED BY <1>4, <1>5, <1>6 DEF Acking, AckingNext, y

\* How acknowledgements move when w, a remote worker, gets a delivery.
LEMMA AckArrives ==
  ASSUME WorkAssumption, Shapes, NEW w \in RemoteWorker, NEW c, NEW b \in Sub, NEW a \in Address,
         AddToWorkerPool(w, c, b, a), NEW h \in Hub
  PROVE  \E f, y :
           /\ y.address = a /\ y.worker = w /\ y.sub = b
           /\ \A x : AckingNext(h, x) =>
                (\E o : Acking(h, o) /\ x = f[o]) \/ (h = HubOf[w] /\ x = y)
           /\ \A o : Acking(h, o) => AckingNext(h, f[o]) /\ Same(f[o], o)
           /\ h = HubOf[w] => AckingNext(h, y)
<1> DEFINE k == [address |-> a, sub |-> b]
           acked == Append(acks[w], k)
           n == Len(acks[w]) + 1
<1>0. k \in Ack /\ k.address = a /\ k.sub = b /\ acks[w] \in Seq(Ack)
  BY DEF Ack, Shapes
<1>1. IF Len(acked) = MaxBuffered
      THEN SendReport(w, outBuffer[w], acked)
      ELSE acks' = [acks EXCEPT ![w] = acked] /\ hubQueue' = hubQueue
  BY DEF AddToWorkerPool, RemoteWorker
<1> HIDE DEF k
<1>2. /\ acked \in Seq(Ack) /\ DOMAIN acked = 1 .. n /\ acked[n] = k
      /\ \A i \in DOMAIN acks[w] : i \in DOMAIN acked /\ acked[i] = acks[w][i]
      /\ \A i \in DOMAIN acked : i # n => i \in DOMAIN acks[w]
      /\ n \in DOMAIN acked
  <2> DEFINE q == acks[w]
             r == Append(q, k)
  <2>1. q \in Seq(Ack) /\ k \in Ack
    BY <1>0
  <2> HIDE DEF q
  <2>2. r \in Seq(Ack) /\ Len(q) + 1 \in DOMAIN r
    BY <2>1
  <2>3. /\ DOMAIN r = 1 .. Len(q) + 1 /\ r[Len(q) + 1] = k
        /\ \A i \in DOMAIN q : i \in DOMAIN r /\ r[i] = q[i]
        /\ \A i \in DOMAIN r : i # Len(q) + 1 => i \in DOMAIN q
    BY <2>1, Appended
  <2> HIDE DEF r
  <2> QED BY <2>2, <2>3 DEF q, r
<1>3. CASE Len(acked) = MaxBuffered
  <2> DEFINE f == [o \in Returns(h) |-> AckMoves(w, o)]
             y == InReport(w, acked, n)
  <2>1. SendReport(w, outBuffer[w], acked)
    BY <1>1, <1>3
  <2> HIDE DEF acked, n
  <2>2. /\ \A x : AckingNext(h, x) =>
             \/ \E o : Acking(h, o) /\ x = AckMoves(w, o)
             \/ \E i \in DOMAIN acked \ DOMAIN acks[w] : h = HubOf[w] /\ x = InReport(w, acked, i)
        /\ \A o : Acking(h, o) => AckingNext(h, AckMoves(w, o))
        /\ h = HubOf[w] => \A i \in DOMAIN acked : AckingNext(h, InReport(w, acked, i))
    BY <1>2, <2>1, AcksFollow
  <2>3. \A o : Acking(h, o) => f[o] = AckMoves(w, o) /\ Same(f[o], o)
    <3>1. \A o : Acking(h, o) => f[o] = AckMoves(w, o)
      BY ReturnsBoth
    <3>2. \A o : Same(AckMoves(w, o), o)
      BY DEF Same, AckMoves, Back
    <3> QED BY <3>1, <3>2
  <2>4. y.address = a /\ y.worker = w /\ y.sub = b
    BY <1>0, <1>2 DEF InReport, Back
  <2>5. \A i \in DOMAIN acked \ DOMAIN acks[w] : InReport(w, acked, i) = y
    BY <1>2
  <2>6. h = HubOf[w] => AckingNext(h, y)
    BY <1>2, <2>2
  <2> HIDE DEF f, y
  <2>7. /\ \A x : AckingNext(h, x) =>
             (\E o : Acking(h, o) /\ x = f[o]) \/ (h = HubOf[w] /\ x = y)
        /\ \A o : Acking(h, o) => AckingNext(h, f[o]) /\ Same(f[o], o)
    BY <2>2, <2>3, <2>5
  <2> QED BY <2>4, <2>6, <2>7
<1>4. CASE Len(acked) # MaxBuffered
  <2> DEFINE f == [o \in Returns(h) |-> o]
  <2>6. PICK y : y = AckOf(w, k)
    OBVIOUS
  <2>1. acks' = [acks EXCEPT ![w] = Append(@, k)] /\ hubQueue' = hubQueue
    BY <1>1, <1>4
  <2>2. y.address = a /\ y.worker = w /\ y.sub = b
    BY <1>0, <2>6 DEF Back, AckOf
  <2>3. \A o : Acking(h, o) => f[o] = o /\ Same(f[o], o)
    BY ReturnsBoth DEF Same
  <2> HIDE DEF f
  <2>4. /\ \A x : AckingNext(h, x) => Acking(h, x) \/ (h = HubOf[w] /\ x = y)
        /\ \A o : Acking(h, o) => AckingNext(h, o)
        /\ h = HubOf[w] => AckingNext(h, y)
    BY <1>0, <2>1, <2>6, AckAppended
  <2>5. /\ \A x : AckingNext(h, x) =>
             (\E o : Acking(h, o) /\ x = f[o]) \/ (h = HubOf[w] /\ x = y)
        /\ \A o : Acking(h, o) => AckingNext(h, f[o]) /\ Same(f[o], o)
    BY <2>3, <2>4
  <2> QED BY <2>2, <2>4, <2>5
<1> QED BY <1>3, <1>4

\* What leaves the network with message m.
LEMMA NetworkLoses ==
  ASSUME NEW m \in network, m.type \in {"dispatch", "deliver"}, network' = network \ {m}
  PROVE  /\ \A h, x : FromNetwork(network', h, x) <=> FromNetwork(network, h, x) /\ x # BackOf(m)
         /\ BackOf(m) \in Returns(m.hub)
         /\ \A h : BackOf(m) \in Returns(h) => h = m.hub
         /\ \A h : ~Acking(h, BackOf(m))
         /\ \A h, x : Acking(h, x) => ~FromNetwork(network, h, x)
<1>1. /\ \A messages, h, x : FromNetwork(messages, h, x) <=>
           \E n \in messages : n.type \in {"dispatch", "deliver"} /\ n.hub = h /\ x = BackOf(n)
      /\ \A n : BackOf(n).at[1] \in {"dispatch", "delivery"} /\ BackOf(n).at[2] = n
  BY NetworkReturns
<1>2. \A h, x : Acking(h, x) => x.at[1] \in {"acks", "queue"}
  BY AckingApart
<1>3. ASSUME NEW h, NEW x
      PROVE  FromNetwork(network', h, x) <=> FromNetwork(network, h, x) /\ x # BackOf(m)
  <2>1. FromNetwork(network', h, x) <=>
          \E n \in network' : n.type \in {"dispatch", "deliver"} /\ n.hub = h /\ x = BackOf(n)
    BY <1>1
  <2>2. FromNetwork(network, h, x) <=>
          \E n \in network : n.type \in {"dispatch", "deliver"} /\ n.hub = h /\ x = BackOf(n)
    BY <1>1
  <2>3. \A n : BackOf(n) = BackOf(m) => n = m
    BY <1>1
  <2> QED BY <2>1, <2>2, <2>3
<1>4. \A h : ~Acking(h, BackOf(m))
  <2>1. \A n : BackOf(n).at[1] \notin {"acks", "queue"}
    BY <1>1
  <2> QED BY <1>2, <2>1
<1>5. \A h, x : Acking(h, x) => ~FromNetwork(network, h, x)
  <2>1. \A n : BackOf(n).at[1] \notin {"acks", "queue"}
    BY <1>1
  <2>2. \A h, x : FromNetwork(network, h, x) => \E n \in network : x = BackOf(n)
    BY <1>1
  <2> QED BY <1>2, <2>1, <2>2
<1>6. FromNetwork(network, m.hub, BackOf(m))
  BY <1>1
<1>7. BackOf(m) \in Returns(m.hub)
  BY <1>6, ReturnsBoth
<1>8. ASSUME NEW h, BackOf(m) \in Returns(h) PROVE h = m.hub
  <2>1. FromNetwork(network, h, BackOf(m))
    BY <1>4, <1>8, ReturnsBoth
  <2>2. PICK n \in network : n.hub = h /\ BackOf(m) = BackOf(n)
    BY <1>1, <2>1
  <2>3. BackOf(m).at[2] = m /\ BackOf(n).at[2] = n
    BY <1>1
  <2> QED BY <2>2, <2>3
<1> QED BY <1>3, <1>4, <1>5, <1>7, <1>8

\* The message m, which brings address a to the remote worker w, is acknowledged.
LEMMA ArrivalMoves ==
  ASSUME WorkAssumption, Shapes, NEW m \in network, m.type \in {"dispatch", "deliver"},
         network' = network \ {m}, NEW w \in RemoteWorker, HubOf[w] = m.hub,
         NEW c, NEW b \in Sub, NEW a \in Address, AddToWorkerPool(w, c, b, a),
         BackOf(m).address = a, BackOf(m).worker = w, BackOf(m).sub = b, NEW h \in Hub
  PROVE  MovesOn(h)
<1> PICK gone : gone = BackOf(m)
  OBVIOUS
<1>0. /\ \A x : FromNetwork(network', h, x) <=> FromNetwork(network, h, x) /\ x # gone
      /\ h = HubOf[w] => gone \in Returns(h)
      /\ gone \in Returns(h) => h = HubOf[w]
      /\ ~Acking(h, gone)
      /\ \A x : Acking(h, x) => ~FromNetwork(network, h, x)
  BY NetworkLoses
<1>1. /\ \A x : x \in Returns(h) <=> FromNetwork(network, h, x) \/ Acking(h, x)
      /\ \A x : x \in Returns(h)' <=> FromNetwork(network', h, x) \/ AckingNext(h, x)
  BY ReturnsBoth
<1>2. gone.address = a /\ gone.worker = w /\ gone.sub = b
  OBVIOUS
<1>3. PICK f, y : /\ y.address = a /\ y.worker = w /\ y.sub = b
                  /\ \A x : AckingNext(h, x) =>
                       (\E o : Acking(h, o) /\ x = f[o]) \/ (h = HubOf[w] /\ x = y)
                  /\ \A o : Acking(h, o) => AckingNext(h, f[o]) /\ Same(f[o], o)
                  /\ h = HubOf[w] => AckingNext(h, y)
  BY AckArrives
<1>4. PICK g : /\ gone \in Returns(h) => g[gone] = y
               /\ \A o \in Returns(h) : Acking(h, o) => g[o] = f[o]
               /\ \A o \in Returns(h) : ~Acking(h, o) /\ o # gone => g[o] = o
  <2> DEFINE e == [o \in Returns(h) |-> IF o = gone THEN y ELSE IF Acking(h, o) THEN f[o] ELSE o]
  <2>1. /\ gone \in Returns(h) => e[gone] = y
        /\ \A o \in Returns(h) : Acking(h, o) => e[o] = f[o]
        /\ \A o \in Returns(h) : ~Acking(h, o) /\ o # gone => e[o] = o
    BY <1>0
  <2> HIDE DEF e
  <2> QED BY <2>1
<1>5. ASSUME NEW x \in Returns(h)' PROVE \E o \in Returns(h) : x = g[o]
  <2>1. CASE FromNetwork(network', h, x)
    <3>1. x \in Returns(h) /\ x # gone /\ ~Acking(h, x)
      BY <1>0, <1>1, <2>1
    <3> QED BY <1>4, <3>1
  <2>2. CASE \E o : Acking(h, o) /\ x = f[o]
    BY <1>1, <1>4, <2>2
  <2>3. CASE h = HubOf[w] /\ x = y
    BY <1>0, <1>4, <2>3
  <2> QED BY <1>1, <1>3, <1>5, <2>1, <2>2, <2>3
<1>6. ASSUME NEW o \in Returns(h) PROVE g[o] \in Returns(h)' /\ Same(g[o], o)
  <2>1. CASE o = gone
    <3>1. g[o] = y /\ AckingNext(h, y)
      BY <1>0, <1>3, <1>4, <1>6, <2>1
    <3> QED BY <1>1, <1>2, <1>3, <2>1, <3>1 DEF Same
  <2>2. CASE Acking(h, o)
    <3>1. g[o] = f[o] /\ AckingNext(h, f[o]) /\ Same(f[o], o)
      BY <1>3, <1>4, <1>6, <2>2
    <3> QED BY <1>1, <3>1
  <2>3. CASE o # gone /\ ~Acking(h, o)
    <3>1. g[o] = o /\ FromNetwork(network', h, o)
      BY <1>0, <1>1, <1>4, <1>6, <2>3
    <3> QED BY <1>1, <3>1 DEF Same
  <2> QED BY <2>1, <2>2, <2>3
<1> QED BY <1>5, <1>6, MapMoves

\* The message m brings address a to w, for a subproblem with the bound of b.
LEMMA ArrivesAddr ==
  ASSUME Step, NEW m \in network, m.type \in {"dispatch", "deliver"}, m.hub \in Hub,
         network' = network \ {m}, NEW w \in Worker,
         NEW c, NEW b \in Sub, NEW a \in Address, AddToWorkerPool(w, c, b, a),
         BackOf(m).address = a, BackOf(m).worker = w, BackOf(m).sub = b,
         UNCHANGED <<incumbent, needPruning, hubPool>>
  PROVE  Addressed'
<1> PICK o0 : o0 = BackOf(m)
  OBVIOUS
<1>0. /\ WorkAssumption /\ Shapes /\ TransitShape
      /\ \A h \in Hub : HubIsSound(h) /\ Improves(h)
  BY DEF Step, Core, Addressed
<1>1. /\ \A h, x : FromNetwork(network', h, x) <=> FromNetwork(network, h, x) /\ x # o0
      /\ o0 \in Returns(m.hub) /\ \A h : o0 \in Returns(h) => h = m.hub
      /\ \A h : ~Acking(h, o0)
  BY NetworkLoses
<1>2. o0.address = a /\ o0.worker = w /\ o0.sub = b
  OBVIOUS
<1>3. HubOf[w] = m.hub
  BY <1>0, <1>1, <1>2 DEF HubIsSound, ReturnsAreRight
<1>4. CASE w \notin Hub
  <2>1. w \in RemoteWorker /\ UNCHANGED <<token, transitPool>>
    BY <1>4 DEF RemoteWorker, AddToWorkerPool
  <2>2. \A h \in Hub : MovesOn(h)
    BY <1>0, <1>3, <2>1, ArrivalMoves
  <2> QED BY <2>1, <2>2, AllRest DEF hubState
<1>5. CASE w \in Hub
  <2>1. m.hub = w /\ w \in Clients(w)
    BY <1>0, <1>3, <1>5 DEF WorkAssumption, Clients
  <2>2. UNCHANGED <<acks, hubQueue>>
    BY <1>5 DEF AddToWorkerPool, report
  <2>3. \A h, x : x \in Returns(h)' <=> x \in Returns(h) /\ x # o0
    <3>1. \A h, x : AckingNext(h, x) <=> Acking(h, x)
      BY <2>2 DEF AckingNext, Acking
    <3> QED BY <1>1, <3>1, ReturnsBoth
  <2>4. \A h \in Hub \ {w} : MovesOn(h)
    <3> SUFFICES ASSUME NEW h \in Hub \ {w} PROVE MovesOn(h)
      OBVIOUS
    <3>1. Returns(h)' = Returns(h)
      BY <1>1, <2>1, <2>3
    <3> QED BY <3>1, NothingMoves
  <2>5. \E g : \A x \in Returns(w)' : \E o \in Returns(w) \ {o0} : x = g[o] /\ Same(x, o)
    <3> DEFINE g == [o \in Returns(w) |-> o]
    <3>1. \A x \in Returns(w)' : x \in Returns(w) \ {o0} /\ x = g[x] /\ Same(x, x)
      BY <2>3 DEF Same
    <3> HIDE DEF g
    <3> QED BY <3>1
  <2>6. \A o \in Returns(w) \ {o0} : \E x \in Returns(w)' : Same(x, o)
    BY <2>3 DEF Same
  <2>7. CASE CanFathom(w, b)
    <3>1. UNCHANGED <<token, transitPool>>
      BY <1>5, <2>7 DEF AddToWorkerPool
    <3>2. Bound[b] >= Best'
      <4>1. Bound[b] \in Nat
        BY <1>0 DEF WorkAssumption
      <4> QED BY <1>0, <1>5, <2>7, <4>1 DEF CanFathom, Improves
    <3>3. Follows(w)
      BY <2>5 DEF Follows
    <3>4. MovesOn(w)
      BY <1>2, <2>6, <3>2, <3>3 DEF MovesOn
    <3>5. \A h \in Hub : MovesOn(h)
      BY <2>4, <3>4
    <3> QED BY <3>1, <3>5, AllRest DEF hubState
  <2>8. CASE ~CanFathom(w, b)
    <3>1. /\ token' = [token EXCEPT ![w][a] = NoToken]
          /\ transitPool' = [transitPool EXCEPT ![w][w] = @ \ {a}]
      BY <1>5, <2>8 DEF AddToWorkerPool
    <3>2. /\ token \in [Hub -> [Address -> Token \cup {NoToken}]]
          /\ transitPool = [h \in Hub |-> transitPool[h]]
          /\ \A h \in Hub : transitPool[h] \in [Clients(h) -> SUBSET Address]
      BY <1>0 DEF Shapes, TransitShape
    <3>3. TransitShape'
      <4>1. transitPool' = [h \in Hub |-> transitPool'[h]]
        BY <3>1, <3>2
      <4>2. \A h \in Hub : transitPool'[h] \in [Clients(h) -> SUBSET Address]
        BY <1>5, <2>1, <3>1, <3>2
      <4> QED BY <4>1, <4>2 DEF TransitShape, Clients
    <3>4. ASSUME NEW h \in Hub \ {w} PROVE HubIsSound(h)'
      <4>1. token'[h] = token[h] /\ hubPool'[h] = hubPool[h] /\ transitPool'[h] = transitPool[h]
        BY <3>1, <3>2
      <4> QED BY <1>0, <2>4, <4>1, RestsSound
    <3>5. HubIsSound(w)'
      <4>1. /\ \A d \in Address : d # a => token'[w][d] = token[w][d]
            /\ \A v \in Clients(w) : v # w => transitPool'[w][v] = transitPool[w][v]
            /\ transitPool'[w][w] = transitPool[w][w] \ {a}
        BY <1>5, <2>1, <3>1, <3>2
      <4> PICK gone, D : gone = {o0} /\ D = {a}
        OBVIOUS
      <4>2. \A d : d \in D <=> \E o \in gone : d = o.address /\ ~CanFathom(w, o.sub)
        BY <1>2, <2>8
      <4>3. \A d \in hubPool'[w] :
              \/ d \in hubPool[w] /\ (d \notin D => token'[w][d] = token[w][d])
              \/ /\ token[w][d] = NoToken
                 /\ d \notin D => token'[w][d] \in Token /\ ~CanFathom(w, token'[w][d].sub)
        BY <1>0, <1>5, <4>1 DEF Shapes
      <4>4. \A v \in Clients(w) :
              /\ transitPool'[w][v] \subseteq transitPool[w][v]
              /\ transitPool[w][v] \ D \subseteq transitPool'[w][v]
              /\ v = w => transitPool'[w][v] \cap D = {}
              /\ transitPool[w][v] \subseteq Address
        BY <1>5, <3>2, <4>1
      <4>5. \A o \in gone : o.worker = w
        BY <1>2
      <4>6. gone \in SUBSET Returns(w)
        BY <1>1, <2>1
      <4>8. \A d \in Address : token[w][d] \in Token /\ d \notin D => token'[w][d] = token[w][d]
        BY <4>1
      <4>9. incumbent'[w] = incumbent[w] /\ needPruning'[w] = needPruning[w]
        OBVIOUS
      <4>10. /\ \E g : \A x \in Returns(w)' : \E o \in Returns(w) \ gone : x = g[o] /\ Same(x, o)
             /\ \A o \in Returns(w) \ gone : \E x \in Returns(w)' : Same(x, o)
        BY <2>5, <2>6
      <4>11. WorkAssumption /\ Shapes /\ w \in Hub /\ HubIsSound(w) /\ Improves(w)
        BY <1>0, <1>5
      <4>12. Deletes(w, w, gone, D)
        BY <4>2, <4>3, <4>4, <4>5, <4>6, <4>8, <4>9, <4>10 DEF Deletes
      <4> QED BY <4>11, <4>12, DeletesSound
    <3> QED BY <3>3, <3>4, <3>5 DEF Addressed
  <2> QED BY <2>7, <2>8
<1> QED BY <1>4, <1>5

LEMMA SpReceiveAddr ==
  ASSUME Step, NEW w \in Worker, NEW m \in network, SpReceive(w, m)
  PROVE  Addressed'
<1>1. /\ m.type = "deliver" /\ m.to = w /\ network' = network \ {m}
      /\ AddToWorkerPool(w, m.sub, m.bound, m.address)
      /\ UNCHANGED <<incumbent, needPruning, hubPool>>
  BY DEF SpReceive, pruning
<1>2. m \in Delivery
  BY <1>1 DEF Step, Core, Shapes
<1>3. m.hub \in Hub /\ m.bound \in Sub /\ m.address \in Address
  BY <1>2 DEF Delivery
<1>4. BackOf(m).address = m.address /\ BackOf(m).worker = w /\ BackOf(m).sub = m.bound
  BY <1>1 DEF BackOf, Back
<1> QED BY <1>1, <1>3, <1>4, ArrivesAddr

\* Nobody has a better incumbent than the best.
LEMMA BestIsLeast ==
  ASSUME WorkAssumption, Shapes
  PROVE  Best \in Nat /\ \A p \in Proc : incumbent[p] \in Nat /\ Best <= incumbent[p]
BY LeastValue DEF Shapes, Best

\* What is aborted at p is ignored by everybody.
LEMMA AbortAddr ==
  ASSUME Step, NEW p \in Worker, NEW m \in network, m.type = "dispatch",
         CanFathom(p, m.token.sub), m.token.sub \in Sub, m.hub \in Hub,
         network' = network \ {m}, AbortDeliverSP(p, m.hub),
         UNCHANGED <<pruning, acks, hubState>>
  PROVE  Addressed'
<1> PICK o0 : o0 = BackOf(m)
  OBVIOUS
<1>0. /\ WorkAssumption /\ Shapes /\ UNCHANGED <<incumbent, needPruning>>
      /\ \A h \in Hub : Improves(h)
  BY DEF Step, Core, pruning
<1>1. \A h, x : FromNetwork(network', h, x) <=> FromNetwork(network, h, x) /\ x # o0
  BY NetworkLoses
<1>2. o0.sub = m.token.sub
  BY DEF BackOf, Back
<1>3. Bound[o0.sub] >= Best'
  <2>1. Best \in Nat /\ incumbent[p] \in Nat /\ Best <= incumbent[p]
    BY <1>0, BestIsLeast DEF Proc
  <2>2. Best' = Best
    BY <1>0 DEF Best
  <2>3. Bound[o0.sub] \in Nat /\ Bound[o0.sub] >= incumbent[p]
    BY <1>0, <1>2 DEF CanFathom, WorkAssumption
  <2> QED BY <2>1, <2>2, <2>3
<1>4. \A h \in Hub : \A x : AckingNext(h, x) <=> Acking(h, x)
  <2> DEFINE msg == [tokens |-> <<>>, acks |-> <<>>, adjust |-> 1]
  <2>1. \/ hubQueue' = hubQueue
        \/ hubQueue' = [hubQueue EXCEPT ![m.hub][p] = Append(@, msg)]
    BY DEF AbortDeliverSP
  <2>2. msg.acks = <<>> /\ acks' = acks
    OBVIOUS
  <2> HIDE DEF msg
  <2> QED BY <1>0, <2>1, <2>2, QuietMessage
<1>5. ASSUME NEW h \in Hub PROVE MovesOn(h)
  <2>1. \A x : x \in Returns(h)' => x \in Returns(h)
    BY <1>1, <1>4, ReturnsBoth
  <2>2. \A o : o \in Returns(h) /\ o # o0 => o \in Returns(h)'
    BY <1>1, <1>4, ReturnsBoth
  <2>3. Follows(h)
    <3> DEFINE g == [o \in Returns(h) |-> o]
    <3>1. \A x \in Returns(h)' : x \in Returns(h) /\ x = g[x] /\ Same(x, x)
      BY <2>1 DEF Same
    <3> HIDE DEF g
    <3> QED BY <3>1 DEF Follows
  <2> QED BY <1>3, <2>2, <2>3 DEF MovesOn, Same
<1> QED BY <1>0, <1>5, AllRest

\* The dispatch m is answered by a delivery, d.
LEMMA ForwardAddr ==
  ASSUME Step, NEW m \in network, m.type = "dispatch",
         NEW d, d.type = "deliver", d.hub = m.hub, d.to = m.dest, d.bound = m.token.sub,
         d.address = m.address, network' = (network \ {m}) \cup {d},
         UNCHANGED <<pruning, report, hubState>>
  PROVE  Addressed'
<1>0. UNCHANGED <<incumbent, needPruning, acks, hubQueue>>
  BY DEF pruning, report
<1>1. /\ \A messages, h, x : FromNetwork(messages, h, x) <=>
           \E n \in messages : n.type \in {"dispatch", "deliver"} /\ n.hub = h /\ x = BackOf(n)
      /\ \A n : BackOf(n).at[2] = n
  BY NetworkReturns
<1>2. Same(BackOf(d), BackOf(m))
  BY DEF Same, BackOf, Back
<1>3. \A h : \A x : AckingNext(h, x) <=> Acking(h, x)
  BY <1>0 DEF AckingNext, Acking
<1>4. ASSUME NEW h \in Hub PROVE MovesOn(h)
  <2> PICK o0, y : o0 = BackOf(m) /\ y = BackOf(d)
    OBVIOUS
  <2>1. ASSUME NEW x, FromNetwork(network', h, x)
        PROVE  (FromNetwork(network, h, x) /\ x # o0) \/ (x = y /\ FromNetwork(network, h, o0))
    <3>1. PICK n \in network' : n.type \in {"dispatch", "deliver"} /\ n.hub = h /\ x = BackOf(n)
      BY <1>1, <2>1
    <3>2. CASE n = d
      BY <1>1, <3>1, <3>2
    <3>3. CASE n # d
      <4>1. n \in network /\ n # m
        BY <3>3
      <4>2. x.at[2] = n /\ o0.at[2] = m
        BY <1>1, <3>1
      <4> QED BY <1>1, <3>1, <4>1, <4>2
    <3> QED BY <3>2, <3>3
  <2>2. ASSUME NEW x, FromNetwork(network, h, x), x # o0 PROVE FromNetwork(network', h, x)
    <3>1. PICK n \in network : n.type \in {"dispatch", "deliver"} /\ n.hub = h /\ x = BackOf(n)
      BY <1>1, <2>2
    <3>2. n \in network'
      BY <2>2, <3>1
    <3> QED BY <1>1, <3>1, <3>2
  <2>3. ~Acking(h, o0)
    <3>1. BackOf(m).at[1] \notin {"acks", "queue"}
      BY NetworkReturns
    <3> QED BY <3>1, AckingApart
  <2>4. o0 \in Returns(h) => y \in Returns(h)'
    <3> SUFFICES ASSUME o0 \in Returns(h) PROVE y \in Returns(h)'
      OBVIOUS
    <3>1. FromNetwork(network, h, o0)
      BY <2>3, ReturnsBoth
    <3>2. PICK n \in network : n.hub = h /\ o0 = BackOf(n)
      BY <1>1, <3>1
    <3>3. o0.at[2] = n /\ o0.at[2] = m
      BY <1>1, <3>2
    <3>4. m.hub = h
      BY <3>2, <3>3
    <3>5. FromNetwork(network', h, y)
      BY <1>1, <3>4
    <3> QED BY <3>5, ReturnsBoth
  <2>5. PICK g : g = [o \in Returns(h) |-> IF o = o0 THEN y ELSE o]
    OBVIOUS
  <2>6. \A o \in Returns(h) : g[o] = IF o = o0 THEN y ELSE o
    BY <2>5
  <2>7. ASSUME NEW x \in Returns(h)' PROVE \E o \in Returns(h) : x = g[o]
    <3>1. CASE FromNetwork(network', h, x)
      BY <2>1, <2>6, <3>1, ReturnsBoth
    <3>2. CASE Acking(h, x)
      <4>1. x \in Returns(h) /\ x # o0
        BY <2>3, <3>2, ReturnsBoth
      <4> QED BY <2>6, <4>1
    <3> QED BY <1>3, <2>7, <3>1, <3>2, ReturnsBoth
  <2>8. ASSUME NEW o \in Returns(h) PROVE g[o] \in Returns(h)' /\ Same(g[o], o)
    <3>1. CASE o = o0
      BY <1>2, <2>4, <2>6, <2>8, <3>1
    <3>2. CASE o # o0
      <4>1. g[o] = o
        BY <2>6, <2>8, <3>2
      <4>2. o \in Returns(h)'
        BY <1>3, <2>2, <2>8, <3>2, ReturnsBoth
      <4> QED BY <4>1, <4>2 DEF Same
    <3> QED BY <3>1, <3>2
  <2> QED BY <2>7, <2>8, MapMoves
<1> QED BY <1>0, <1>4, AllRest

LEMMA SpServeAddr ==
  ASSUME Step, NEW p \in Worker, NEW m \in network, SpServe(p, m)
  PROVE  Addressed'
<1>1. /\ m.type = "dispatch" /\ m.to = p
      /\ UNCHANGED <<incumbent, needPruning, hubPool>> /\ UNCHANGED pruning
  BY DEF SpServe, pruning
<1>2. m.hub \in Hub /\ m.address \in Address /\ m.token \in Token \cup {NoToken}
  BY <1>1 DEF Step, Core, Shapes, Delivery
<1>3. m.token.sub \in Sub
  BY <1>2 DEF Step, WorkAssumption, SearchTreeAssumption, Token, NoToken
<1>4. BackOf(m).address = m.address /\ BackOf(m).worker = m.dest /\ BackOf(m).sub = m.token.sub
  BY <1>1 DEF BackOf, Back
<1>5. CASE MustAbort(p, m.token)
  <2>1. /\ network' = network \ {m} /\ AbortDeliverSP(p, m.hub)
        /\ UNCHANGED <<acks, token, transitPool>>
    BY <1>5 DEF SpServe
  <2> QED BY <1>1, <1>2, <1>3, <1>5, <2>1, AbortAddr DEF MustAbort, hubState
<1>6. CASE ~MustAbort(p, m.token)
  <2>1. PICK c \in Deliverable(m.token) :
          IF m.dest = p
          THEN AddToWorkerPool(p, c, m.token.sub, m.address) /\ network' = network \ {m}
          ELSE /\ network' = (network \ {m}) \cup
                    {[type |-> "deliver", to |-> m.dest, sub |-> c, bound |-> m.token.sub,
                      hub |-> m.hub, address |-> m.address]}
               /\ UNCHANGED <<report, token, transitPool>>
    BY <1>6 DEF SpServe
  <2>2. CASE m.dest = p
    BY <1>1, <1>2, <1>3, <1>4, <2>1, <2>2, ArrivesAddr
  <2>3. CASE m.dest # p
    <3>1. PICK d : d = [type |-> "deliver", to |-> m.dest, sub |-> c, bound |-> m.token.sub,
                        hub |-> m.hub, address |-> m.address]
      OBVIOUS
    <3>2. /\ d.type = "deliver" /\ d.hub = m.hub /\ d.to = m.dest /\ d.bound = m.token.sub
          /\ d.address = m.address
      BY <3>1
    <3>3. network' = (network \ {m}) \cup {d} /\ UNCHANGED <<pruning, report, hubState>>
      BY <1>1, <2>1, <2>3, <3>1 DEF hubState
    <3> QED BY <1>1, <3>2, <3>3, ForwardAddr
  <2> QED BY <2>2, <2>3
<1> QED BY <1>5, <1>6

\* Hub h sends the token at address a to w, with the message m.
Sends(h, w, a, m) ==
  /\ HubOf[w] = h /\ a \in hubPool[h] /\ m.type \in {"dispatch", "deliver"} /\ m.hub = h
  /\ BackOf(m).address = a /\ BackOf(m).worker = w /\ BackOf(m).sub = token[h][a].sub
  /\ network' = network \cup {m} /\ hubPool' = [hubPool EXCEPT ![h] = @ \ {a}]
  /\ transitPool' = [transitPool EXCEPT ![h][w] = @ \cup {a}]
  /\ UNCHANGED <<pruning, report, token>>

LEMMA DispatchedAddr ==
  ASSUME Step, NEW h \in Hub, NEW w \in Worker, NEW a, NEW m, Sends(h, w, a, m)
  PROVE  Addressed'
<1> USE DEF Sends
<1> PICK new : new = BackOf(m)
  OBVIOUS
<1>0. /\ WorkAssumption /\ Shapes /\ TransitShape
      /\ \A k \in Hub : HubIsSound(k) /\ Improves(k)
      /\ UNCHANGED <<incumbent, needPruning, acks, hubQueue>>
  BY DEF Step, Core, Addressed, pruning, report
<1>1. new.address = a /\ new.worker = w /\ new.sub = token[h][a].sub
  OBVIOUS
<1>2. \A k, x : x \in Returns(k)' <=> x \in Returns(k) \/ (k = h /\ x = new)
  <2>1. \A messages, k, x : FromNetwork(messages, k, x) <=>
          \E n \in messages : n.type \in {"dispatch", "deliver"} /\ n.hub = k /\ x = BackOf(n)
    BY NetworkReturns
  <2>2. \A k, x : FromNetwork(network', k, x) <=> FromNetwork(network, k, x) \/ (k = h /\ x = new)
    <3> SUFFICES ASSUME NEW k, NEW x
                 PROVE  FromNetwork(network', k, x) <=>
                          FromNetwork(network, k, x) \/ (k = h /\ x = new)
      OBVIOUS
    <3>1. ASSUME FromNetwork(network', k, x)
          PROVE  FromNetwork(network, k, x) \/ (k = h /\ x = new)
      <4>1. PICK n \in network' : n.type \in {"dispatch", "deliver"} /\ n.hub = k /\ x = BackOf(n)
        BY <2>1, <3>1
      <4>2. n = m \/ n \in network
        OBVIOUS
      <4> QED BY <2>1, <4>1, <4>2
    <3>2. ASSUME FromNetwork(network, k, x) PROVE FromNetwork(network', k, x)
      BY <2>1, <3>2
    <3>3. FromNetwork(network', h, new)
      BY <2>1
    <3> QED BY <3>1, <3>2, <3>3
  <2>3. \A k, x : AckingNext(k, x) <=> Acking(k, x)
    BY <1>0 DEF AckingNext, Acking
  <2> QED BY <2>2, <2>3, ReturnsBoth
<1>3. /\ hubPool \in [Hub -> SUBSET Address]
      /\ transitPool = [k \in Hub |-> transitPool[k]]
      /\ \A k \in Hub : transitPool[k] \in [Clients(k) -> SUBSET Address]
      /\ a \in Address /\ w \in Clients(h)
  BY <1>0 DEF Shapes, TransitShape, Clients
<1>4. TransitShape'
  <2>1. transitPool' = [k \in Hub |-> transitPool'[k]]
    BY <1>3
  <2>2. \A k \in Hub : transitPool'[k] \in [Clients(k) -> SUBSET Address]
    BY <1>3
  <2> QED BY <2>1, <2>2 DEF TransitShape, Clients
<1>5. ASSUME NEW k \in Hub \ {h} PROVE HubIsSound(k)'
  <2>0. \A x : x \in Returns(k)' <=> x \in Returns(k)
    BY <1>2
  <2>1. Returns(k)' = Returns(k)
    BY <2>0
  <2>2. MovesOn(k)
    BY <2>1, NothingMoves
  <2>3. token'[k] = token[k] /\ hubPool'[k] = hubPool[k] /\ transitPool'[k] = transitPool[k]
    BY <1>3
  <2> QED BY <1>0, <2>2, <2>3, RestsSound
<1>6. /\ hubPool'[h] = hubPool[h] \ {a} /\ transitPool'[h][w] = transitPool[h][w] \cup {a}
      /\ \A v \in Clients(h) : v # w => transitPool'[h][v] = transitPool[h][v]
      /\ token' = token
  BY <1>3
<1>7. /\ token[h][a] \in Token
      /\ \A v \in Clients(h) : a \notin transitPool[h][v]
  BY <1>0 DEF HubIsSound, PoolsApart
<1>8. \A x \in Returns(h) : x.worker \in Clients(h)
  <2>1. \A x \in Returns(h) : x.worker \in Worker
    BY <1>0, ReturnTypes
  <2> QED BY <1>0, <2>1 DEF HubIsSound, ReturnsAreRight, Clients
<1>9. \A s : CanFathom(h, s)' <=> CanFathom(h, s)
  BY <1>0 DEF CanFathom
<1>10. ReturnsAreRight(h)'
  <2> SUFFICES ASSUME NEW x \in Returns(h)'
               PROVE  HubOf[x.worker] = h /\ (CanFathom(h, x.sub)' \/ IsDispatched(h, x)')
    BY DEF ReturnsAreRight
  <2>1. CASE x = new
    BY <1>1, <1>6, <2>1 DEF IsDispatched
  <2>2. CASE x \in Returns(h)
    <3>1. HubOf[x.worker] = h /\ (CanFathom(h, x.sub) \/ IsDispatched(h, x))
      BY <1>0, <2>2 DEF HubIsSound, ReturnsAreRight
    <3>2. transitPool[h][x.worker] \subseteq transitPool'[h][x.worker]
      BY <1>6, <1>8, <2>2
    <3> QED BY <1>6, <1>9, <3>1, <3>2 DEF IsDispatched
  <2> QED BY <1>2, <2>1, <2>2
<1>11. ReturnOnce(h)'
  <2>1. \A x \in Returns(h) : x.address = a => CanFathom(h, x.sub)
    BY <1>0, <1>7, <1>8 DEF HubIsSound, ReturnsAreRight, IsDispatched
  <2> SUFFICES ASSUME NEW x \in Returns(h)', NEW y \in Returns(h)', x.address = y.address, x # y
               PROVE  CanFathom(h, x.sub)' \/ CanFathom(h, y.sub)'
    BY DEF ReturnOnce
  <2>2. CASE x = new \/ y = new
    BY <1>1, <1>2, <1>9, <2>1, <2>2
  <2>3. CASE x \in Returns(h) /\ y \in Returns(h)
    BY <1>0, <1>9, <2>3 DEF HubIsSound, ReturnOnce
  <2> QED BY <1>2, <2>2, <2>3
<1>12. TransitsMove(h)'
  <2>0. Best' = Best
    BY <1>0 DEF Best
  <2> SUFFICES ASSUME NEW v \in Clients(h), NEW d \in transitPool'[h][v],
                      ~(Bound[token[h][d].sub] >= Best)
               PROVE  \E x \in Returns(h)' :
                        x.worker = v /\ x.address = d /\ x.sub = token[h][d].sub
    BY <1>6, <2>0 DEF TransitsMove, Clients
  <2>1. CASE v = w /\ d = a
    BY <1>1, <1>2, <2>1
  <2>2. CASE d \in transitPool[h][v]
    <3>1. \E x \in Returns(h) : x.worker = v /\ x.address = d /\ x.sub = token[h][d].sub
      BY <1>0, <2>2 DEF HubIsSound, TransitsMove
    <3> QED BY <1>2, <3>1
  <2> QED BY <1>6, <2>1, <2>2
<1>13. PoolsApart(h)'
  <2>1. \A d \in hubPool'[h] : token'[h][d] \in Token
    BY <1>0, <1>6 DEF HubIsSound, PoolsApart
  <2>2. ASSUME NEW u \in Clients(h), NEW d \in transitPool'[h][u]
        PROVE  /\ token'[h][d] \in Token /\ d \notin hubPool'[h]
               /\ \A v \in Clients(h) : d \in transitPool'[h][v] => v = u
    <3>1. CASE u = w /\ d = a
      BY <1>6, <1>7, <3>1
    <3>2. CASE d \in transitPool[h][u]
      <4>1. /\ token[h][d] \in Token /\ d \notin hubPool[h] /\ d # a
            /\ \A v \in Clients(h) : d \in transitPool[h][v] => v = u
        BY <1>0, <3>2 DEF HubIsSound, PoolsApart
      <4> QED BY <1>6, <4>1
    <3> QED BY <1>6, <2>2, <3>1, <3>2
  <2> QED BY <2>1, <2>2 DEF PoolsApart, Clients
<1>14. HasTokens(h)'
  <2>1. ~needPruning[h] => \A d \in hubPool[h] : ~CanFathom(h, token[h][d].sub)
    BY <1>0 DEF HubIsSound, HasTokens
  <2> QED BY <1>0, <1>6, <1>9, <2>1 DEF HasTokens, CanFathom
<1> QED BY <1>4, <1>5, <1>10, <1>11, <1>12, <1>13, <1>14 DEF Addressed, HubIsSound

\* Hub h uses up the token at address a.
LEMMA UsedUpAddr ==
  ASSUME Step, NEW h \in Hub, NEW a \in hubPool[h],
         hubPool' = [hubPool EXCEPT ![h] = @ \ {a}],
         token' = [token EXCEPT ![h][a] = NoToken],
         UNCHANGED <<pruning, report, transitPool, network>>
  PROVE  Addressed'
<1>0. /\ WorkAssumption /\ Shapes /\ TransitShape
      /\ \A k \in Hub : HubIsSound(k) /\ Improves(k)
      /\ UNCHANGED <<incumbent, needPruning, network, acks, hubQueue>>
  BY DEF Step, Core, Addressed, pruning, report
<1>1. \A k \in Hub : Returns(k)' = Returns(k) /\ MovesOn(k)
  BY <1>0, SilentMoves
<1>2. /\ token \in [Hub -> [Address -> Token \cup {NoToken}]]
      /\ hubPool \in [Hub -> SUBSET Address]
      /\ \A k \in Hub : transitPool[k] \in [Clients(k) -> SUBSET Address]
      /\ Bound \in [Sub -> Nat]
  BY <1>0 DEF Shapes, TransitShape, WorkAssumption
<1>3. TransitShape'
  BY <1>0 DEF TransitShape, Clients
<1>4. ASSUME NEW k \in Hub \ {h} PROVE HubIsSound(k)'
  <2>1. token'[k] = token[k] /\ hubPool'[k] = hubPool[k] /\ transitPool'[k] = transitPool[k]
    BY <1>2
  <2> QED BY <1>0, <1>1, <2>1, RestsSound
<1>5. HubIsSound(h)'
  <2>1. /\ hubPool'[h] = hubPool[h] \ {a} /\ transitPool' = transitPool
        /\ \A d \in Address : d # a => token'[h][d] = token[h][d]
    BY <1>2
  <2>2. \A d \in hubPool'[h] : \/ d \in hubPool[h] /\ token'[h][d] = token[h][d]
                               \/ token[h][d] = NoToken /\ token'[h][d] \in Token
    BY <1>2, <2>1
  <2>3. \A w \in Clients(h) : \A d \in transitPool'[h][w] :
          d \in transitPool[h][w] /\ token'[h][d] = token[h][d]
    <3>1. \A w \in Clients(h) : \A d \in transitPool[h][w] : d # a /\ d \in Address
      BY <1>0, <1>2 DEF HubIsSound, PoolsApart
    <3> QED BY <2>1, <3>1
  <2>4. ASSUME ~needPruning'[h], NEW d \in hubPool'[h]
        PROVE  Bound[token'[h][d].sub] < incumbent'[h]
    <3>1. d \in hubPool[h] /\ token'[h][d] = token[h][d]
      BY <1>2, <2>1
    <3>2. token[h][d] \in Token /\ ~CanFathom(h, token[h][d].sub)
      BY <1>0, <2>4, <3>1 DEF HubIsSound, PoolsApart, HasTokens
    <3>3. Bound[token[h][d].sub] \in Nat
      BY <1>2, <3>2 DEF Token
    <3> QED BY <1>0, <3>1, <3>2, <3>3 DEF CanFathom, Improves
  <2>5. \A x \in Returns(h)' :
          Bound[x.sub] < incumbent'[h] /\ IsDispatched(h, x) =>
            x.address \in transitPool'[h][x.worker]
    BY <2>1 DEF IsDispatched
  <2>6. \A w \in Clients(h) : \A d \in transitPool'[h][w], o \in Returns(h) :
          o.worker = w /\ o.address = d /\ o.sub = token[h][d].sub =>
            Bound[o.sub] >= Best' \/ \E x \in Returns(h)' : Same(x, o)
    BY <1>1 DEF MovesOn
  <2>7. Follows(h)
    BY <1>1 DEF MovesOn
  <2> QED BY <1>0, <2>2, <2>3, <2>4, <2>5, <2>6, <2>7, StaysSound
<1> QED BY <1>3, <1>4, <1>5 DEF Addressed

LEMMA HubSendAddr ==
  ASSUME Step, NEW h \in Hub, Distribute(h)
  PROVE  Addressed'
<1>1. PICK w \in Worker, a \in hubPool[h] : HubSendWorkTo(h, w, a)
  BY DEF Distribute
<1> PICK t : t = token[h][a]
  OBVIOUS
<1>2. /\ HubOf[w] = h /\ hubPool' = [hubPool EXCEPT ![h] = @ \ {a}]
      /\ UNCHANGED <<pruning, report>>
  BY <1>1 DEF HubSendWorkTo
<1>3. CASE t.owner = h /\ w = h
  <2>1. token' = [token EXCEPT ![h][a] = NoToken] /\ UNCHANGED <<transitPool, network>>
    BY <1>1, <1>3 DEF HubSendWorkTo
  <2> QED BY <1>2, <2>1, UsedUpAddr
<1>4. CASE t.owner # h
  <2>1. PICK m : m = [type |-> "dispatch", to |-> t.owner, token |-> t, dest |-> w,
                      hub |-> h, address |-> a]
    OBVIOUS
  <2>2. /\ network' = network \cup {m} /\ UNCHANGED token
        /\ transitPool' = [transitPool EXCEPT ![h][w] = @ \cup {a}]
    BY <1>1, <1>4, <2>1 DEF HubSendWorkTo
  <2>3. /\ m.type \in {"dispatch", "deliver"} /\ m.hub = h /\ BackOf(m).address = a
        /\ BackOf(m).worker = w /\ BackOf(m).sub = token[h][a].sub
    BY <2>1 DEF BackOf, Back
  <2>4. UNCHANGED <<pruning, report, token>>
    BY <1>2, <2>2
  <2>5. Sends(h, w, a, m)
    BY <1>2, <2>2, <2>3, <2>4 DEF Sends
  <2> QED BY <2>5, DispatchedAddr
<1>5. CASE t.owner = h /\ w # h
  <2>1. PICK c : /\ network' = network \cup {[type |-> "deliver", to |-> w, sub |-> c,
                                              bound |-> t.sub, hub |-> h, address |-> a]}
                 /\ UNCHANGED token
                 /\ transitPool' = [transitPool EXCEPT ![h][w] = @ \cup {a}]
    BY <1>1, <1>5 DEF HubSendWorkTo
  <2>2. PICK m : m = [type |-> "deliver", to |-> w, sub |-> c, bound |-> t.sub,
                      hub |-> h, address |-> a]
    OBVIOUS
  <2>5. network' = network \cup {m}
    BY <2>1, <2>2
  <2>3. /\ m.type \in {"dispatch", "deliver"} /\ m.hub = h /\ BackOf(m).address = a
        /\ BackOf(m).worker = w /\ BackOf(m).sub = token[h][a].sub
    BY <2>2 DEF BackOf, Back
  <2>4. UNCHANGED <<pruning, report, token>>
    BY <1>2, <2>1
  <2>6. Sends(h, w, a, m)
    BY <1>2, <2>1, <2>3, <2>4, <2>5 DEF Sends
  <2> QED BY <2>6, DispatchedAddr
<1> QED BY <1>3, <1>4, <1>5

-----------------------------------------------------------------------------
(***************************************************************************)
(* A hub takes a message.                                                  *)
(***************************************************************************)
\* The acknowledgements in the first message from p to h.
Acked(h, p) == hubQueue[h][p][1].acks

\* What it does to the tokens of the hub, which deletes those in D.
Takes(h, p, D) ==
  /\ \A a : a \in D <=> \E j \in DOMAIN Acked(h, p) :
                          a = Acked(h, p)[j].address /\ ~CanFathom(h, Acked(h, p)[j].sub)
  /\ \A a \in hubPool'[h] :
       \/ a \in hubPool[h] /\ (a \notin D => token'[h][a] = token[h][a])
       \/ /\ token[h][a] = NoToken
          /\ a \notin D => token'[h][a] \in Token /\ ~CanFathom(h, token'[h][a].sub)
  /\ \A a \in Address : token[h][a] \in Token /\ a \notin D => token'[h][a] = token[h][a]
  /\ \A w \in Clients(h) :
       transitPool'[h][w] = IF w = p THEN transitPool[h][w] \ D ELSE transitPool[h][w]
  /\ \A k \in Hub \ {h} : /\ token'[k] = token[k] /\ hubPool'[k] = hubPool[k]
                          /\ transitPool'[k] = transitPool[k]
  /\ TransitShape'

LEMMA HubTokens ==
  ASSUME WorkAssumption, Shapes, TransitShape, NEW h \in Hub, NEW p \in Worker,
         HandleHubMessage(h, p)
  PROVE  \E D : Takes(h, p, D)
<1> DEFINE q     == hubQueue[h][p]
           msg   == Head(q)
           fresh == {i \in DOMAIN msg.tokens : ~CanFathom(h, msg.tokens[i].sub)}
           at    == Allocate(h, fresh)
           dead  == Acknowledged(h, msg.acks)
           ix(a) == CHOOSE i \in fresh : at[i] = a
<1>0. /\ q \in Seq(HubMessage) /\ q # <<>>
      /\ token \in [Hub -> [Address -> Token \cup {NoToken}]]
      /\ hubPool \in [Hub -> SUBSET Address]
      /\ transitPool = [k \in Hub |-> transitPool[k]]
      /\ \A k \in Hub : transitPool[k] \in [Clients(k) -> SUBSET Address]
      /\ NoToken \notin Token
  <2>1. hubQueue[h][p] # <<>>
    BY DEF HandleHubMessage
  <2>2. hubQueue[h][p] \in Seq(HubMessage)
    BY DEF Shapes
  <2> QED BY <2>1, <2>2, FreeIsNoToken DEF Shapes, TransitShape
<1>2. Head(q) = q[1] /\ q[1] \in HubMessage
  <2> HIDE DEF q
  <2> QED BY <1>0, Shifted
<1>3. /\ Places(h, fresh) # {}
      /\ token' = [token EXCEPT ![h] = [a \in Address |->
           IF a \in dead THEN NoToken
           ELSE IF a \in Range(at) THEN msg.tokens[ix(a)] ELSE @[a]]]
      /\ hubPool' = [hubPool EXCEPT ![h] = @ \cup Range(at)]
      /\ IF HubOf[p] = h
         THEN transitPool' = [transitPool EXCEPT ![h][p] = @ \ dead]
         ELSE UNCHANGED transitPool
  BY Zenon DEF HandleHubMessage
<1>4. msg = q[1] /\ msg.tokens \in Seq(Token) /\ msg.acks = Acked(h, p)
  BY <1>2 DEF HubMessage, Acked
<1>5. \A a : a \in dead <=> \E j \in DOMAIN Acked(h, p) :
               a = Acked(h, p)[j].address /\ ~CanFathom(h, Acked(h, p)[j].sub)
  <2> HIDE DEF msg
  <2> QED BY <1>4 DEF Acknowledged, Range
<1> HIDE DEF q
<1>6. fresh \subseteq DOMAIN msg.tokens /\ \A i \in fresh : ~CanFathom(h, msg.tokens[i].sub)
  OBVIOUS
<1> HIDE DEF msg, fresh
<1>7. /\ at \in [fresh -> Address] /\ DOMAIN at = fresh
      /\ \A i \in fresh : token[h][at[i]] = NoToken
  BY <1>3, Allocated
<1> HIDE DEF at, dead
<1>8. /\ Range(at) \subseteq Address /\ \A a \in Range(at) : token[h][a] = NoToken
      /\ \A a \in Range(at) : ix(a) \in fresh
  BY <1>7 DEF Range
<1>9. \A a \in Range(at) : msg.tokens[ix(a)] \in Token /\ ~CanFathom(h, msg.tokens[ix(a)].sub)
  BY <1>4, <1>6, <1>8
<1> HIDE DEF ix
<1>10. /\ \A a \in Address : token'[h][a] = IF a \in dead THEN NoToken
                                            ELSE IF a \in Range(at) THEN msg.tokens[ix(a)]
                                            ELSE token[h][a]
       /\ hubPool'[h] = hubPool[h] \cup Range(at)
       /\ \A k \in Hub \ {h} : token'[k] = token[k] /\ hubPool'[k] = hubPool[k]
  BY <1>0, <1>3
<1>11. ASSUME NEW a \in hubPool'[h]
       PROVE  \/ a \in hubPool[h] /\ (a \notin dead => token'[h][a] = token[h][a])
              \/ /\ token[h][a] = NoToken
                 /\ a \notin dead => token'[h][a] \in Token /\ ~CanFathom(h, token'[h][a].sub)
  <2>1. CASE a \in Range(at)
    BY <1>8, <1>9, <1>10, <2>1
  <2>2. CASE a \notin Range(at)
    BY <1>0, <1>10, <1>11, <2>2
  <2> QED BY <2>1, <2>2
<1>12. \A a \in Address : token[h][a] \in Token /\ a \notin dead => token'[h][a] = token[h][a]
  BY <1>0, <1>8, <1>10
<1>13. /\ \A w \in Clients(h) :
            transitPool'[h][w] = IF w = p THEN transitPool[h][w] \ dead ELSE transitPool[h][w]
       /\ \A k \in Hub \ {h} : transitPool'[k] = transitPool[k]
       /\ transitPool' = [k \in Hub |-> transitPool'[k]]
       /\ \A k \in Hub : transitPool'[k] \in [Clients(k) -> SUBSET Address]
  <2>1. CASE HubOf[p] # h
    <3>1. transitPool' = transitPool
      BY <1>3, <2>1
    <3>2. p \notin Clients(h)
      BY <2>1 DEF Clients
    <3> QED BY <1>0, <3>1, <3>2
  <2>2. CASE HubOf[p] = h
    <3>1. transitPool' = [transitPool EXCEPT ![h][p] = @ \ dead] /\ p \in Clients(h)
      BY <1>3, <2>2 DEF Clients
    <3>2. /\ \A w \in Clients(h) : transitPool'[h][w] = IF w = p THEN transitPool[h][w] \ dead
                                                        ELSE transitPool[h][w]
          /\ \A k \in Hub \ {h} : transitPool'[k] = transitPool[k]
      BY <1>0, <3>1
    <3>3. transitPool' = [k \in Hub |-> transitPool'[k]]
      BY <1>0, <3>1
    <3>4. \A k \in Hub : transitPool'[k] \in [Clients(k) -> SUBSET Address]
      BY <1>0, <3>1
    <3> QED BY <3>2, <3>3, <3>4
  <2> QED BY <2>1, <2>2
<1>14. TransitShape'
  BY <1>13 DEF TransitShape, Clients
<1> QED BY <1>5, <1>10, <1>11, <1>12, <1>13, <1>14 DEF Takes

\* A message that is not the first has the place before after the first has gone.
LEMMA ShiftedBack ==
  ASSUME NEW S, NEW q \in Seq(S), q # <<>>
  PROVE  \A i \in DOMAIN q : i # 1 => i - 1 \in DOMAIN Tail(q) /\ Tail(q)[i - 1] = q[i]
OBVIOUS

\* The j-th acknowledgement in the first message from p to h.
AckedBack(h, p, j) == Back(Acked(h, p)[j].address, p, Acked(h, p)[j].sub, <<"queue", p, 1, j>>)

\* Where what comes back is, when the first message from p has been taken.
Down(p, o) ==
  IF o.at[1] = "queue" /\ o.at[2] = p
  THEN Back(o.address, o.worker, o.sub, <<"queue", p, o.at[3] - 1, o.at[4]>>)
  ELSE o

LEMMA QueueTaken ==
  ASSUME Shapes, NEW h \in Hub, NEW p \in Worker, HandleHubMessage(h, p)
  PROVE  /\ \A k \in Hub \ {h} : Returns(k)' = Returns(k)
         /\ \A j \in DOMAIN Acked(h, p) : AckedBack(h, p, j) \in Returns(h)
         /\ \A x \in Returns(h)' : \E o \in Returns(h) :
              x = Down(p, o) /\ \A j \in DOMAIN Acked(h, p) : o # AckedBack(h, p, j)
         /\ \A o \in Returns(h) :
              \/ \E j \in DOMAIN Acked(h, p) : o = AckedBack(h, p, j)
              \/ Down(p, o) \in Returns(h)'
<1>0. /\ network' = network /\ acks' = acks
      /\ hubQueue' = [hubQueue EXCEPT ![h][p] = Tail(@)] /\ hubQueue[h][p] # <<>>
      /\ hubQueue \in [Hub -> [Worker -> Seq(HubMessage)]]
  BY DEF HandleHubMessage, Shapes
<1>1. /\ 1 \in DOMAIN hubQueue[h][p]
      /\ \A i \in DOMAIN hubQueue'[h][p] :
           /\ i \in Nat \ {0} /\ i + 1 \in DOMAIN hubQueue[h][p]
           /\ hubQueue'[h][p][i] = hubQueue[h][p][i + 1]
      /\ \A i \in DOMAIN hubQueue[h][p] : i # 1 =>
           i - 1 \in DOMAIN hubQueue'[h][p] /\ hubQueue'[h][p][i - 1] = hubQueue[h][p][i]
  <2>1. PICK q, r : q = hubQueue[h][p] /\ r = hubQueue'[h][p]
    OBVIOUS
  <2>2. q \in Seq(HubMessage) /\ q # <<>> /\ r = Tail(q)
    BY <1>0, <2>1
  <2>3. /\ 1 \in DOMAIN q
        /\ \A i \in DOMAIN r : i \in Nat \ {0} /\ i + 1 \in DOMAIN q /\ r[i] = q[i + 1]
    BY <2>2, Shifted
  <2>4. \A i \in DOMAIN q : i # 1 => i - 1 \in DOMAIN r /\ r[i - 1] = q[i]
    BY <2>2, ShiftedBack
  <2> QED BY <2>1, <2>3, <2>4
<1>2. \A k \in Hub, v \in Worker : ~(k = h /\ v = p) => hubQueue'[k][v] = hubQueue[k][v]
  BY <1>0
<1>3. /\ \A k, x : FromNetwork(network', k, x) <=> FromNetwork(network, k, x)
      /\ \A k, x : FromAcks(acks', k, x) <=> FromAcks(acks, k, x)
  BY <1>0
<1>4. ASSUME NEW k \in Hub \ {h} PROVE Returns(k)' = Returns(k)
  <2>1. \A x : FromQueue(hubQueue', k, x) <=> FromQueue(hubQueue, k, x)
    <3>1. hubQueue'[k] = hubQueue[k]
      BY <1>0
    <3> QED BY <3>1 DEF FromQueue
  <2>2. \A x : x \in Returns(k)' <=> x \in Returns(k)
    BY <1>3, <2>1, ReturnsBoth DEF Acking, AckingNext
  <2> QED BY <2>2
<1>5. ASSUME NEW j \in DOMAIN Acked(h, p) PROVE AckedBack(h, p, j) \in Returns(h)
  <2>1. FromQueue(hubQueue, h, AckedBack(h, p, j))
    BY <1>1, <1>5 DEF FromQueue, AckedBack, Acked
  <2> QED BY <2>1, ReturnsBoth DEF Acking
<1>6. \A j : AckedBack(h, p, j).at = <<"queue", p, 1, j>>
  BY DEF AckedBack, Back
\* What is on the network, or is not sent yet, stays where it is.
<1>7. ASSUME NEW x, FromNetwork(network, h, x) \/ FromAcks(acks, h, x)
      PROVE  Down(p, x) = x /\ \A j : x # AckedBack(h, p, j)
  <2>1. x.at[1] # "queue"
    <3>1. CASE FromNetwork(network, h, x)
      BY <3>1, NetworkReturns
    <3>2. CASE FromAcks(acks, h, x)
      BY <3>2 DEF FromAcks, Back
    <3> QED BY <1>7, <3>1, <3>2
  <2>2. \A j : AckedBack(h, p, j).at[1] = "queue"
    BY <1>6
  <2> QED BY <2>1, <2>2 DEF Down
<1>8. ASSUME NEW x \in Returns(h)'
      PROVE  \E o \in Returns(h) :
               x = Down(p, o) /\ \A j \in DOMAIN Acked(h, p) : o # AckedBack(h, p, j)
  <2>1. CASE FromNetwork(network, h, x) \/ FromAcks(acks, h, x)
    BY <1>7, <2>1, ReturnsBoth DEF Acking
  <2>2. CASE FromQueue(hubQueue', h, x)
    <3>1. PICK v \in Worker : \E i \in DOMAIN hubQueue'[h][v] :
            \E j \in DOMAIN hubQueue'[h][v][i].acks :
              x = Back(hubQueue'[h][v][i].acks[j].address, v, hubQueue'[h][v][i].acks[j].sub,
                       <<"queue", v, i, j>>)
      BY <2>2 DEF FromQueue
    <3>2. PICK i \in DOMAIN hubQueue'[h][v] : \E j \in DOMAIN hubQueue'[h][v][i].acks :
              x = Back(hubQueue'[h][v][i].acks[j].address, v, hubQueue'[h][v][i].acks[j].sub,
                       <<"queue", v, i, j>>)
      BY <3>1
    <3>3. PICK j \in DOMAIN hubQueue'[h][v][i].acks :
              x = Back(hubQueue'[h][v][i].acks[j].address, v, hubQueue'[h][v][i].acks[j].sub,
                       <<"queue", v, i, j>>)
      BY <3>2
    <3>4. CASE v # p
      <4>1. hubQueue'[h][v] = hubQueue[h][v]
        BY <1>2, <3>4
      <4>2. FromQueue(hubQueue, h, x)
        BY <3>3, <4>1, Zenon DEF FromQueue
      <4>3. x.at[2] = v
        BY <3>3 DEF Back
      <4>4. Down(p, x) = x /\ \A n : x # AckedBack(h, p, n)
        BY <1>6, <3>4, <4>3 DEF Down
      <4> QED BY <4>2, <4>4, ReturnsBoth DEF Acking
    <3>5. CASE v = p
      <4>1. /\ i \in Nat \ {0} /\ i + 1 \in DOMAIN hubQueue[h][p]
            /\ hubQueue'[h][p][i] = hubQueue[h][p][i + 1]
        BY <1>1, <3>5
      <4>2. PICK o : o = Back(hubQueue[h][p][i + 1].acks[j].address, p,
                              hubQueue[h][p][i + 1].acks[j].sub, <<"queue", p, i + 1, j>>)
        OBVIOUS
      <4>3. j \in DOMAIN hubQueue[h][p][i + 1].acks
        BY <3>5, <4>1
      <4>4. FromQueue(hubQueue, h, o)
        BY <4>1, <4>2, <4>3 DEF FromQueue
      <4>5. /\ o.at[1] = "queue" /\ o.at[2] = p /\ o.at[3] = i + 1 /\ o.at[4] = j
            /\ o.address = x.address /\ o.worker = p /\ o.sub = x.sub
            /\ x = Back(x.address, p, x.sub, <<"queue", p, i, j>>)
        BY <3>3, <3>5, <4>1, <4>2 DEF Back
      <4>6. Down(p, o) = x
        BY <4>1, <4>5 DEF Down
      <4>7. \A n : o # AckedBack(h, p, n)
        BY <1>6, <4>1, <4>5
      <4> QED BY <4>4, <4>6, <4>7, ReturnsBoth DEF Acking
    <3> QED BY <3>4, <3>5
  <2> QED BY <1>3, <1>8, <2>1, <2>2, ReturnsBoth DEF AckingNext
<1>9. ASSUME NEW o \in Returns(h), \A j \in DOMAIN Acked(h, p) : o # AckedBack(h, p, j)
      PROVE  Down(p, o) \in Returns(h)'
  <2>1. CASE FromNetwork(network, h, o) \/ FromAcks(acks, h, o)
    BY <1>3, <1>7, <2>1, ReturnsBoth DEF AckingNext
  <2>2. CASE FromQueue(hubQueue, h, o)
    <3>1. PICK v \in Worker : \E i \in DOMAIN hubQueue[h][v] :
            \E j \in DOMAIN hubQueue[h][v][i].acks :
              o = Back(hubQueue[h][v][i].acks[j].address, v, hubQueue[h][v][i].acks[j].sub,
                       <<"queue", v, i, j>>)
      BY <2>2 DEF FromQueue
    <3>2. PICK i \in DOMAIN hubQueue[h][v] : \E j \in DOMAIN hubQueue[h][v][i].acks :
              o = Back(hubQueue[h][v][i].acks[j].address, v, hubQueue[h][v][i].acks[j].sub,
                       <<"queue", v, i, j>>)
      BY <3>1
    <3>3. PICK j \in DOMAIN hubQueue[h][v][i].acks :
              o = Back(hubQueue[h][v][i].acks[j].address, v, hubQueue[h][v][i].acks[j].sub,
                       <<"queue", v, i, j>>)
      BY <3>2
    <3>4. CASE v # p
      <4>1. hubQueue'[h][v] = hubQueue[h][v]
        BY <1>2, <3>4
      <4>2. FromQueue(hubQueue', h, o)
        BY <3>3, <4>1, Zenon DEF FromQueue
      <4>3. o.at[2] = v
        BY <3>3 DEF Back
      <4>4. Down(p, o) = o
        BY <3>4, <4>3 DEF Down
      <4> QED BY <4>2, <4>4, ReturnsBoth DEF AckingNext
    <3>5. CASE v = p
      <4>1. i # 1
        <5> SUFFICES ASSUME i = 1 PROVE FALSE
          OBVIOUS
        <5>1. j \in DOMAIN Acked(h, p) /\ o = AckedBack(h, p, j)
          BY <3>3, <3>5 DEF Acked, AckedBack
        <5> QED BY <1>9, <5>1
      <4>2. i - 1 \in DOMAIN hubQueue'[h][p] /\ hubQueue'[h][p][i - 1] = hubQueue[h][p][i]
        BY <1>1, <3>5, <4>1
      <4>3. /\ o.at[1] = "queue" /\ o.at[2] = p /\ o.at[3] = i /\ o.at[4] = j
            /\ o.address = hubQueue[h][p][i].acks[j].address /\ o.worker = p
            /\ o.sub = hubQueue[h][p][i].acks[j].sub
        BY <3>3, <3>5 DEF Back
      <4>4. Down(p, o) = Back(hubQueue'[h][p][i - 1].acks[j].address, p,
                              hubQueue'[h][p][i - 1].acks[j].sub, <<"queue", p, i - 1, j>>)
        BY <4>2, <4>3 DEF Down
      <4>5. j \in DOMAIN hubQueue'[h][p][i - 1].acks
        BY <3>5, <4>2
      <4>6. FromQueue(hubQueue', h, Down(p, o))
        BY <4>2, <4>4, <4>5 DEF FromQueue
      <4> QED BY <4>6, ReturnsBoth DEF AckingNext
    <3> QED BY <3>4, <3>5
  <2> QED BY <1>9, <2>1, <2>2, ReturnsBoth DEF Acking
<1> QED BY <1>4, <1>5, <1>8, <1>9

LEMMA HandleHubAddr ==
  ASSUME Step, NEW h \in Hub, NEW p \in Worker, HandleHubMessage(h, p)
  PROVE  Addressed'
<1>0. /\ WorkAssumption /\ Shapes /\ TransitShape
      /\ \A k \in Hub : HubIsSound(k) /\ Improves(k)
      /\ UNCHANGED <<incumbent, needPruning>>
      /\ \A k \in Hub : transitPool[k] \in [Clients(k) -> SUBSET Address]
  BY DEF Step, Core, Addressed, HandleHubMessage, pruning, TransitShape
<1>1. PICK D : Takes(h, p, D)
  BY <1>0, HubTokens
<1>2. PICK gone : gone = {AckedBack(h, p, j) : j \in DOMAIN Acked(h, p)}
  OBVIOUS
<1>3. /\ \A o : o \in gone <=> \E j \in DOMAIN Acked(h, p) : o = AckedBack(h, p, j)
      /\ \A j : /\ AckedBack(h, p, j).address = Acked(h, p)[j].address
                /\ AckedBack(h, p, j).worker = p
                /\ AckedBack(h, p, j).sub = Acked(h, p)[j].sub
  BY <1>2 DEF AckedBack, Back
<1>4. /\ \A k \in Hub \ {h} : Returns(k)' = Returns(k)
      /\ \A j \in DOMAIN Acked(h, p) : AckedBack(h, p, j) \in Returns(h)
      /\ \A x \in Returns(h)' : \E o \in Returns(h) :
           x = Down(p, o) /\ \A j \in DOMAIN Acked(h, p) : o # AckedBack(h, p, j)
      /\ \A o \in Returns(h) :
           \/ \E j \in DOMAIN Acked(h, p) : o = AckedBack(h, p, j)
           \/ Down(p, o) \in Returns(h)'
  BY <1>0, QueueTaken
<1>5. ASSUME NEW k \in Hub \ {h} PROVE HubIsSound(k)'
  <2>1. MovesOn(k)
    BY <1>4, NothingMoves
  <2> QED BY <1>0, <1>1, <2>1, RestsSound DEF Takes
<1>6. Deletes(h, p, gone, D)
  <2>1. gone \subseteq Returns(h) /\ \A o \in gone : o.worker = p
    BY <1>3, <1>4
  <2>2. \A a : a \in D <=> \E o \in gone : a = o.address /\ ~CanFathom(h, o.sub)
    <3> SUFFICES ASSUME NEW a
                 PROVE  a \in D <=> \E o \in gone : a = o.address /\ ~CanFathom(h, o.sub)
      OBVIOUS
    <3>1. ASSUME a \in D PROVE \E o \in gone : a = o.address /\ ~CanFathom(h, o.sub)
      <4>1. PICK j \in DOMAIN Acked(h, p) :
              a = Acked(h, p)[j].address /\ ~CanFathom(h, Acked(h, p)[j].sub)
        BY <1>1, <3>1 DEF Takes
      <4>2. AckedBack(h, p, j) \in gone
        BY <1>3
      <4> QED BY <1>3, <4>1, <4>2
    <3>2. ASSUME NEW o \in gone, a = o.address, ~CanFathom(h, o.sub) PROVE a \in D
      <4>1. PICK j \in DOMAIN Acked(h, p) : o = AckedBack(h, p, j)
        BY <1>3
      <4> QED BY <1>1, <1>3, <3>2, <4>1 DEF Takes
    <3> QED BY <3>1, <3>2
  <2>3. \A o : Same(Down(p, o), o)
    BY DEF Same, Down, Back
  <2>4. \E g : \A x \in Returns(h)' : \E o \in Returns(h) \ gone : x = g[o] /\ Same(x, o)
    <3>1. PICK g : \A o \in Returns(h) : g[o] = Down(p, o)
      <4> DEFINE e == [o \in Returns(h) |-> Down(p, o)]
      <4>1. \A o \in Returns(h) : e[o] = Down(p, o)
        OBVIOUS
      <4> HIDE DEF e
      <4> QED BY <4>1
    <3>2. ASSUME NEW x \in Returns(h)'
          PROVE  \E o \in Returns(h) \ gone : x = g[o] /\ Same(x, o)
      <4>1. PICK o \in Returns(h) :
              x = Down(p, o) /\ \A j \in DOMAIN Acked(h, p) : o # AckedBack(h, p, j)
        BY <1>4, <3>2
      <4>2. o \notin gone
        BY <1>3, <4>1
      <4> QED BY <2>3, <3>1, <4>1, <4>2
    <3> QED BY <3>2
  <2>5. ASSUME NEW o \in Returns(h) \ gone PROVE \E x \in Returns(h)' : Same(x, o)
    <3>1. Down(p, o) \in Returns(h)'
      BY <1>3, <1>4, <2>5
    <3> QED BY <2>3, <3>1
  <2>6. \A w \in Clients(h) :
          /\ transitPool'[h][w] \subseteq transitPool[h][w]
          /\ transitPool[h][w] \ D \subseteq transitPool'[h][w]
          /\ w = p => transitPool'[h][w] \cap D = {}
          /\ transitPool[h][w] \subseteq Address
    BY <1>0, <1>1 DEF Takes
  <2> QED BY <1>0, <1>1, <2>1, <2>2, <2>4, <2>5, <2>6 DEF Deletes, Takes
<1>7. HubIsSound(h)'
  BY <1>0, <1>6, DeletesSound
<1> QED BY <1>1, <1>5, <1>7 DEF Addressed, Takes

-----------------------------------------------------------------------------
(***************************************************************************)
(* The invariant.                                                          *)
(***************************************************************************)
\* At first there are no tokens.
LEMMA InitAddr ==
  ASSUME WorkAssumption, Init
  PROVE  Addressed
<1>0. HubOf \in [Worker -> Hub]
  BY DEF WorkAssumption
<1>1. TransitShape
  <2>1. transitPool = [h \in Hub |-> [w \in Clients(h) |-> {}]]
    BY DEF Init, Clients
  <2> QED BY <2>1 DEF TransitShape
<1>2. ASSUME NEW h \in Hub, NEW x PROVE x \notin Returns(h)
  <2>1. ~FromDispatch(network, h, x) /\ ~FromDelivery(network, h, x)
    BY DEF FromDispatch, FromDelivery, Init
  <2>2. ~FromAcks(acks, h, x)
    BY DEF FromAcks, Init
  <2>3. ~FromQueue(hubQueue, h, x)
    BY DEF FromQueue, Init
  <2> QED BY <2>1, <2>2, <2>3, ReturnsNow DEF Acking
<1>3. ASSUME NEW h \in Hub PROVE HubIsSound(h)
  <2>1. hubPool[h] = {} /\ \A w \in Clients(h) : transitPool[h][w] = {}
    BY DEF Init, Clients
  <2>2. ReturnsAreRight(h) /\ ReturnOnce(h)
    BY <1>2 DEF ReturnsAreRight, ReturnOnce
  <2>3. TransitsMove(h) /\ PoolsApart(h) /\ HasTokens(h)
    BY <2>1 DEF TransitsMove, PoolsApart, HasTokens
  <2> QED BY <2>2, <2>3 DEF HubIsSound
<1> QED BY <1>1, <1>3 DEF Addressed

\* Incumbents only improve.
LEMMA HubsImprove ==
  ASSUME WorkAssumption, Shapes, Shapes', StepKeeps
  PROVE  \A h \in Hub : Improves(h)
<1>0. /\ incumbent \in [Proc -> Nat] /\ incumbent' \in [Proc -> Nat]
      /\ \A p \in Proc : incumbent'[p] <= incumbent[p]
  BY DEF Shapes, StepKeeps
<1>1. Best = Min(Range(incumbent)) /\ Best' = Min(Range(incumbent'))
  BY DEF Best
<1>2. Best \in Nat /\ \A p \in Proc : Best <= incumbent[p]
  BY <1>0, <1>1, LeastValue
<1>3. Best' \in Nat /\ \A p \in Proc : Best' <= incumbent'[p]
  BY <1>0, <1>1, LeastValue
<1>4. PICK p \in Proc : Best = incumbent[p]
  BY <1>0, <1>1, LeastValue
<1>5. Best' <= Best
  <2>1. Best' <= incumbent'[p] /\ incumbent'[p] <= incumbent[p]
    BY <1>0, <1>3
  <2>2. incumbent[p] \in Nat /\ incumbent'[p] \in Nat
    BY <1>0
  <2> QED BY <1>3, <1>4, <2>1, <2>2
<1> QED BY <1>0, <1>2, <1>3, <1>5 DEF Improves, Proc

\* Each action in turn.
LEMMA NextAddr ==
  ASSUME Step, [Next]_vars
  PROVE  Addressed'
<1>1. CASE \E w \in Worker : Work(w)
  <2>1. PICK w \in Worker : Work(w)
    BY <1>1
  <2>2. PICK s \in workerPool[w] : \/ Evaluate(w, s) \/ Split(w, s)
                                   \/ \E c \in childrenLeft[s] : SpinOffChild(w, s, c)
    BY <2>1 DEF Work
  <2>3. CASE Evaluate(w, s)
    BY <2>3, EvaluateAddr
  <2>4. CASE Split(w, s)
    BY <2>4, LocalAddr DEF Split
  <2>5. CASE \E c \in childrenLeft[s] : SpinOffChild(w, s, c)
    BY <2>5, LocalAddr DEF SpinOffChild
  <2> QED BY <2>2, <2>3, <2>4, <2>5
<1>2. CASE \E w \in Worker : GiveUp(w)
  BY <1>2, GiveUpAddr
<1>3. CASE \E w \in RemoteWorker : Communicate(w)
  BY <1>3, CommunicateAddr
<1>4. CASE \E p \in Proc : LearnIncumbent(p)
  BY <1>4, LearnAddr
<1>5. CASE \E p \in Proc : Prune(p)
  BY <1>5, PruningAddr
<1>6. CASE \E h \in Hub, p \in Worker : HandleHubMessage(h, p)
  BY <1>6, HandleHubAddr
<1>7. CASE \E h \in Hub : Distribute(h)
  BY <1>7, HubSendAddr
<1>8. CASE \E p \in Worker : Serve(p)
  BY <1>8, SpServeAddr, SpReceiveAddr DEF Serve
<1>9. CASE UNCHANGED vars
  <2>1. UNCHANGED <<pruning, report, hubState, network>>
    BY <1>9 DEF vars
  <2> QED BY <2>1, LocalAddr
<1> QED BY <1>1, <1>2, <1>3, <1>4, <1>5, <1>6, <1>7, <1>8, <1>9 DEF Next

\* Whatever the order of messages and of pruning, an address that comes back to a hub
\* is that of the token it dispatched, once, or is ignored; no token stays in a transit
\* pool that is not on its way back or as bad as an incumbent; what is in a pool of a
\* hub has not been deleted; and a hub that has pruned has nothing to prune
\* (hubSendWorkTo, hubPrune, handleHubMessage, addToWorkerPool, abortDeliverSP).
THEOREM AddressesAreSound ==
  ASSUME WorkAssumption
  PROVE  Spec => []AddressInv
<1> DEFINE IInv == Core /\ NothingLost /\ Addressed
<1>1. Init => IInv
  BY InitCore, InitAddr
<1>2. IInv /\ [Next]_vars => IInv'
  <2> SUFFICES ASSUME Core, NothingLost, Addressed, [Next]_vars PROVE IInv'
    OBVIOUS
  <2>1. Core' /\ NothingLost'
    BY NextInv
  <2>2. \A h \in Hub : Improves(h)
    <3>1. Shapes /\ Shapes'
      BY <2>1 DEF Core
    <3>2. StepKeeps
      <4>1. CASE Next
        BY <4>1, NextCore
      <4>2. CASE UNCHANGED vars
        <5>1. UNCHANGED <<incumbent, workerPool, serverPool, separated, childrenLeft, network>>
          BY <4>2 DEF vars, pruning, search
        <5> QED BY <5>1, SameIncumbents, RestKeeps
      <4> QED BY <4>1, <4>2
    <3> QED BY <3>1, <3>2, HubsImprove
  <2>3. Addressed'
    BY <2>1, <2>2, NextAddr DEF Step
  <2> QED BY <2>1, <2>3
<1>3. IInv => AddressInv
  BY HubsNow DEF Addressed
<1> QED BY <1>1, <1>2, <1>3, PTL DEF Spec

\* The invariant of the transfer of work: nothing is lost or searched twice, and no hub
\* follows an address that dangles, on all machines and for all search trees
\* (pbb/pbWorker.cpp, pbHub.cpp, spServer.cpp, spReceiver.cpp).
THEOREM WorkInvariant ==
  ASSUME WorkAssumption
  PROVE  Spec => []WorkInv
<1>1. SearchInv /\ AddressInv => WorkInv
  BY DEF WorkInv
<1> QED BY <1>1, SearchInvariant, AddressesAreSound, PTL

=============================================================================
