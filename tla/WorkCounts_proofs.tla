-------------------------- MODULE WorkCounts_proofs --------------------------
(***************************************************************************)
(* Tokens point to data that is there, and are counted: the properties     *)
(* TokensAreSound and DeliveriesAreLive of WorkTransfer, for every number  *)
(* of processors, hubs and problems.                                       *)
(*                                                                         *)
(* A token is in a worker's buffer, in a message queued for a hub, in a    *)
(* hub's pool or in a dispatch, and its place has a name: Outstanding is   *)
(* the set of those names.  A step gives each name in it another one, in   *)
(* such a way that no two become the same (Relocates), deletes some and    *)
(* adds some, so what is true of the number of tokens after the step is    *)
(* read off the number before it.  Tallied says that the tokens of a       *)
(* problem are as many as its owner counts, or not more if it can be       *)
(* fathomed, that the count suits the children left in its data, and that  *)
(* the data is there as long as a token for it may be used; Balanced says  *)
(* that the hubs have counted the messages that are on their way.          *)
(* There is a lemma per action.                                            *)
(***************************************************************************)
EXTENDS WorkTokens_proofs

-----------------------------------------------------------------------------
(***************************************************************************)
(* Counting what moves.                                                    *)
(***************************************************************************)
\* L is what becomes of K, each element of which goes to another place, and of some
\* new ones.
Becomes(K, N, L, f) ==
  /\ \A x : x \in L <=> x \in N \/ \E o \in K : x = f[o]
  /\ \A o \in K : f[o] \notin N
  /\ \A o, q \in K : f[o] = f[q] => o = q

\* A set that is the image of K and N has as many elements as they have.
LEMMA CountMoved ==
  ASSUME NEW K, IsFiniteSet(K), NEW N, IsFiniteSet(N), NEW L, NEW f, Becomes(K, N, L, f)
  PROVE  /\ IsFiniteSet(L) /\ Cardinality(L) = Cardinality(K) + Cardinality(N)
         /\ Cardinality(L) \in Nat /\ Cardinality(K) \in Nat /\ Cardinality(N) \in Nat
<1> DEFINE M == L \ N
           g == [o \in K |-> f[o]]
<1>1. g \in Bijection(K, M)
  <2>1. g \in [K -> M]
    BY DEF Becomes
  <2>2. \A o, q \in K : g[o] = g[q] => o = q
    BY DEF Becomes
  <2>3. \A x \in M : \E o \in K : g[o] = x
    BY DEF Becomes
  <2> HIDE DEF g, M
  <2>4. IsInjective(g)
    BY <2>1, <2>2 DEF IsInjective
  <2> QED BY <2>1, <2>3, <2>4 DEF Bijection, Injection, Surjection
<1> HIDE DEF g
<1>2. IsFiniteSet(M) /\ Cardinality(M) = Cardinality(K)
  <2> HIDE DEF M
  <2>1. ExistsBijection(K, M)
    BY <1>1 DEF ExistsBijection
  <2> QED BY <2>1, FS_Bijection, Zenon
<1>3. L = M \cup N /\ M \cap N = {}
  BY DEF Becomes
<1> HIDE DEF M
<1>4. Cardinality(M \cap N) = 0
  BY <1>3, FS_EmptySet, Zenon
<1>5. IsFiniteSet(L) /\ Cardinality(L) = Cardinality(M) + Cardinality(N) - Cardinality(M \cap N)
  BY <1>2, <1>3, FS_Union, Zenon
<1>6. Cardinality(L) \in Nat /\ Cardinality(K) \in Nat /\ Cardinality(N) \in Nat
  BY <1>5, FS_CardinalityType, Zenon
<1> QED BY <1>2, <1>4, <1>5, <1>6

\* A set that gains or loses an element, or several.
LEMMA CountOne ==
  ASSUME NEW S, IsFiniteSet(S), NEW e
  PROVE  /\ Cardinality(S) \in Nat
         /\ IsFiniteSet(S \cup {e}) /\ IsFiniteSet(S \ {e})
         /\ e \notin S => Cardinality(S \cup {e}) = Cardinality(S) + 1
         /\ e \in S => /\ Cardinality(S \ {e}) = Cardinality(S) - 1
                       /\ Cardinality(S) >= 1
         /\ e \notin S => S \ {e} = S
<1>1. Cardinality(S) \in Nat
  BY FS_CardinalityType, Zenon
<1>2. IsFiniteSet(S \cup {e}) /\ (e \notin S => Cardinality(S \cup {e}) = Cardinality(S) + 1)
  BY FS_AddElement, Zenon
<1>3. IsFiniteSet(S \ {e}) /\ (e \in S => Cardinality(S \ {e}) = Cardinality(S) - 1)
  BY FS_RemoveElement, Zenon
<1>4. Cardinality(S \ {e}) \in Nat
  BY <1>3, FS_CardinalityType, Zenon
<1> QED BY <1>1, <1>2, <1>3, <1>4

\* A part of a finite set is no larger.
LEMMA CountPart ==
  ASSUME NEW S, IsFiniteSet(S), NEW T, T \subseteq S
  PROVE  /\ IsFiniteSet(T) /\ Cardinality(T) \in Nat /\ Cardinality(S) \in Nat
         /\ Cardinality(T) <= Cardinality(S)
<1>1. IsFiniteSet(T) /\ Cardinality(T) <= Cardinality(S)
  BY FS_Subset, Zenon
<1> QED BY <1>1, FS_CardinalityType, Zenon

\* Nothing is counted as none, and one as one.
LEMMA CountNone ==
  /\ IsFiniteSet({}) /\ Cardinality({}) = 0
  /\ \A S : IsFiniteSet(S) /\ Cardinality(S) = 0 => S = {}
  /\ \A x : IsFiniteSet({x}) /\ Cardinality({x}) = 1
BY FS_EmptySet, FS_Singleton, Zenon

-----------------------------------------------------------------------------
(***************************************************************************)
(* Where tokens are, one kind of place after the other.                    *)
(***************************************************************************)
AtBuffer(buffers, x) ==
  \E w \in RemoteWorker : \E i \in DOMAIN buffers[w] : x = <<"buffer", buffers[w][i], w, i>>

\* x is a place of a token in a queue.
AtQueue(queues, x) ==
  \E h \in Hub, p \in Worker : \E i \in DOMAIN queues[h][p] :
    \E j \in DOMAIN queues[h][p][i].tokens :
      x = <<"queue", queues[h][p][i].tokens[j], h, p, i, j>>

\* x is a place of a token in the pool of a hub.
AtHub(tokens, pools, x) ==
  \E h \in Hub : \E a \in pools[h] : x = <<"hub", tokens[h][a], h, a>>

\* x is a place of a token in a dispatch.
AtDispatch(messages, x) ==
  \E m \in messages : m.type = "dispatch" /\ x = <<"dispatch", m.token, m>>

\* Buffers and queues together.
AtWire(x) == AtBuffer(outBuffer, x) \/ AtQueue(hubQueue, x)

\* A place is in the queues if it is in one of them.
LEMMA InQueues ==
  \A x : x \in UNION {QueuedTokens(h, p) : h \in Hub, p \in Worker}
          <=> \E h \in Hub, p \in Worker : x \in QueuedTokens(h, p)
<1> SUFFICES ASSUME NEW x
             PROVE  x \in UNION {QueuedTokens(h, p) : h \in Hub, p \in Worker}
                      <=> \E h \in Hub, p \in Worker : x \in QueuedTokens(h, p)
  OBVIOUS
<1> DEFINE All == {QueuedTokens(h, p) : h \in Hub, p \in Worker}
<1>1. \A S : S \in All <=> \E h \in Hub, p \in Worker : S = QueuedTokens(h, p)
  OBVIOUS
<1> HIDE DEF All
<1>2. x \in UNION All <=> \E S \in All : x \in S
  BY Zenon
<1>3. ASSUME x \in UNION All PROVE \E h \in Hub, p \in Worker : x \in QueuedTokens(h, p)
  <2>1. PICK S \in All : x \in S
    BY <1>2, <1>3
  <2>2. PICK h \in Hub, p \in Worker : S = QueuedTokens(h, p)
    BY <1>1, <2>1
  <2> QED BY <2>1, <2>2
<1>4. ASSUME NEW h \in Hub, NEW p \in Worker, x \in QueuedTokens(h, p) PROVE x \in UNION All
  BY <1>1, <1>2, <1>4
<1> QED BY <1>3, <1>4 DEF All

\* Where the outstanding tokens are, one kind of place after the other.
LEMMA PlacesNow ==
  \A x : x \in Outstanding <=> \/ AtBuffer(outBuffer, x) \/ AtQueue(hubQueue, x)
                               \/ AtHub(token, hubPool, x) \/ AtDispatch(network, x)
<1> SUFFICES ASSUME NEW x
             PROVE  x \in Outstanding <=> \/ AtBuffer(outBuffer, x) \/ AtQueue(hubQueue, x)
                                          \/ AtHub(token, hubPool, x) \/ AtDispatch(network, x)
  OBVIOUS
<1> DEFINE H(h) == {<<"hub", token[h][a], h, a>> : a \in hubPool[h]}
           D == {<<"dispatch", m.token, m>> : m \in Dispatches}
           Q == UNION {QueuedTokens(h, p) : h \in Hub, p \in Worker}
           P == UNION {H(h) : h \in Hub}
<1>1. Outstanding = BufferedTokens \cup Q \cup P \cup D
  BY DEF Outstanding
<1>2. x \in BufferedTokens <=> AtBuffer(outBuffer, x)
  <2> DEFINE F(w) == {<<"buffer", outBuffer[w][i], w, i>> : i \in DOMAIN outBuffer[w]}
  <2>1. x \in BufferedTokens <=> \E w \in RemoteWorker : x \in F(w)
    BY Zenon DEF BufferedTokens
  <2> QED BY <2>1, Zenon DEF AtBuffer
<1>3. \A h, p : x \in QueuedTokens(h, p) <=>
        \E i \in DOMAIN hubQueue[h][p] : \E j \in DOMAIN hubQueue[h][p][i].tokens :
          x = <<"queue", hubQueue[h][p][i].tokens[j], h, p, i, j>>
  <2> SUFFICES ASSUME NEW h, NEW p
               PROVE  x \in QueuedTokens(h, p) <=>
                        \E i \in DOMAIN hubQueue[h][p] : \E j \in DOMAIN hubQueue[h][p][i].tokens :
                          x = <<"queue", hubQueue[h][p][i].tokens[j], h, p, i, j>>
    OBVIOUS
  <2> DEFINE G(i) == {<<"queue", hubQueue[h][p][i].tokens[j], h, p, i, j>> :
                        j \in DOMAIN hubQueue[h][p][i].tokens}
  <2>1. x \in QueuedTokens(h, p) <=> \E i \in DOMAIN hubQueue[h][p] : x \in G(i)
    BY Zenon DEF QueuedTokens
  <2>2. \A i : x \in G(i) <=> \E j \in DOMAIN hubQueue[h][p][i].tokens :
          x = <<"queue", hubQueue[h][p][i].tokens[j], h, p, i, j>>
    OBVIOUS
  <2> HIDE DEF G
  <2> QED BY <2>1, <2>2
<1>4. x \in Q <=> AtQueue(hubQueue, x)
  <2>1. x \in Q
          <=> \E h \in Hub, p \in Worker : x \in QueuedTokens(h, p)
    BY InQueues
  <2> HIDE DEF H, D, P, Q
  <2>2. ASSUME x \in Q PROVE AtQueue(hubQueue, x)
    <3>1. PICK h \in Hub, p \in Worker : x \in QueuedTokens(h, p)
      BY <2>1, <2>2, Zenon
    <3>2. \E i \in DOMAIN hubQueue[h][p] : \E j \in DOMAIN hubQueue[h][p][i].tokens :
            x = <<"queue", hubQueue[h][p][i].tokens[j], h, p, i, j>>
      BY <1>3, <3>1, Zenon
    <3> QED BY <3>2, Zenon DEF AtQueue
  <2>3. ASSUME AtQueue(hubQueue, x) PROVE x \in Q
    <3>1. PICK h \in Hub, p \in Worker :
            \E i \in DOMAIN hubQueue[h][p] : \E j \in DOMAIN hubQueue[h][p][i].tokens :
              x = <<"queue", hubQueue[h][p][i].tokens[j], h, p, i, j>>
      BY <2>3, Zenon DEF AtQueue
    <3>2. x \in QueuedTokens(h, p)
      BY <1>3, <3>1, Zenon
    <3> QED BY <2>1, <3>2, Zenon
  <2> QED BY <2>2, <2>3
<1>5. x \in P <=> AtHub(token, hubPool, x)
  <2>1. x \in P <=> \E h \in Hub : x \in H(h)
    BY Zenon
  <2>2. \A h : x \in H(h) <=> \E a \in hubPool[h] : x = <<"hub", token[h][a], h, a>>
    OBVIOUS
  <2> HIDE DEF H, P
  <2> QED BY <2>1, <2>2 DEF AtHub
<1>6. x \in D <=> AtDispatch(network, x)
  BY Zenon DEF Dispatches, AtDispatch
<1> HIDE DEF H, D, P, Q
<1> QED BY <1>1, <1>2, <1>4, <1>5, <1>6

\* The same after a step.
LEMMA PlacesNext ==
  \A x : x \in Outstanding' <=> \/ AtBuffer(outBuffer', x) \/ AtQueue(hubQueue', x)
                                \/ AtHub(token', hubPool', x) \/ AtDispatch(network', x)
<1>1. (\A x : x \in Outstanding <=> \/ AtBuffer(outBuffer, x) \/ AtQueue(hubQueue, x)
                                    \/ AtHub(token, hubPool, x) \/ AtDispatch(network, x))'
  BY PlacesNow, PTL
<1> QED BY <1>1, Zenon DEF AtBuffer, AtQueue, AtHub, AtDispatch

\* A place is of one kind.
LEMMA PlaceKinds ==
  ASSUME NEW x
  PROVE  /\ \A buffers : AtBuffer(buffers, x) => x[1] = "buffer" /\ x[3] \in RemoteWorker
         /\ \A queues : AtQueue(queues, x) => x[1] = "queue"
         /\ \A tokens, pools : AtHub(tokens, pools, x) => x[1] = "hub"
         /\ \A messages : AtDispatch(messages, x) => x[1] = "dispatch"
BY DEF AtBuffer, AtQueue, AtHub, AtDispatch

-----------------------------------------------------------------------------
(***************************************************************************)
(* Steps that move tokens: f says where each goes, but those of G are      *)
(* deleted and those of N are new.                                         *)
(***************************************************************************)
Relocates(f, G, N) ==
  /\ \A x : x \in Outstanding' <=> x \in N \/ \E o \in Outstanding \ G : x = f[o]
  /\ \A o \in Outstanding \ G : f[o] \notin N /\ TokenOf(f[o]) = TokenOf(o)
  /\ \A o, q \in Outstanding \ G : f[o] = f[q] => o = q

\* Nothing leaves or enters the class C.
ClassStays(f, G, C) == \A o \in Outstanding \ G : f[o] \in C <=> o \in C

\* The number of tokens of a class.
LEMMA CountClass ==
  ASSUME NEW f, NEW G, NEW N, Relocates(f, G, N), IsFiniteSet(Outstanding), IsFiniteSet(N),
         NEW C, ClassStays(f, G, C)
  PROVE  /\ IsFiniteSet(Outstanding')
         /\ Cardinality(Outstanding' \cap C) =
              Cardinality((Outstanding \ G) \cap C) + Cardinality(N \cap C)
         /\ Cardinality(Outstanding' \cap C) \in Nat
         /\ Cardinality((Outstanding \ G) \cap C) \in Nat /\ Cardinality(N \cap C) \in Nat
<1> DEFINE K == Outstanding \ G
           L == Outstanding'
<1>1. IsFiniteSet(K) /\ IsFiniteSet(K \cap C) /\ IsFiniteSet(N \cap C)
  <2>1. K \subseteq Outstanding /\ K \cap C \subseteq Outstanding /\ N \cap C \subseteq N
    OBVIOUS
  <2> QED BY <2>1, CountPart, Zenon
<1>2. Becomes(K, N, L, f)
  BY Zenon DEF Relocates, Becomes
<1>3. \A o \in K : f[o] \in C <=> o \in C
  BY DEF ClassStays
<1> HIDE DEF K, L
<1>4. IsFiniteSet(L)
  BY <1>1, <1>2, CountMoved, Zenon
<1>5. Becomes(K \cap C, N \cap C, L \cap C, f)
  BY <1>2, <1>3 DEF Becomes
<1>6. /\ Cardinality(L \cap C) = Cardinality(K \cap C) + Cardinality(N \cap C)
      /\ Cardinality(L \cap C) \in Nat /\ Cardinality(K \cap C) \in Nat
      /\ Cardinality(N \cap C) \in Nat
  BY <1>1, <1>5, CountMoved, Zenon
<1> QED BY <1>4, <1>6 DEF K, L

\* New tokens for s.
NewFor(N, s) == {x \in N : TokenOf(x).sub = s}

\* The number of tokens for s.
LEMMA CountTokens ==
  ASSUME NEW f, NEW G, NEW N, Relocates(f, G, N), IsFiniteSet(Outstanding), IsFiniteSet(N),
         NEW s
  PROVE  /\ IsFiniteSet(Outstanding')
         /\ Cardinality(TokensFor(s)') =
              Cardinality(TokensFor(s) \ G) + Cardinality(NewFor(N, s))
         /\ Cardinality(TokensFor(s)') \in Nat
         /\ Cardinality(TokensFor(s) \ G) \in Nat
         /\ Cardinality(NewFor(N, s)) \in Nat
<1>1. PICK C : C = {x \in Outstanding \cup Outstanding' : TokenOf(x).sub = s}
  OBVIOUS
<1>2. N \subseteq Outstanding' /\ \A o \in Outstanding \ G : f[o] \in Outstanding'
  BY DEF Relocates
<1>3. ClassStays(f, G, C)
  BY <1>1, <1>2 DEF Relocates, ClassStays
<1>4. /\ Outstanding' \cap C = {o \in Outstanding' : TokenOf(o).sub = s}
      /\ (Outstanding \ G) \cap C = {o \in Outstanding : TokenOf(o).sub = s} \ G
      /\ N \cap C = NewFor(N, s)
  BY <1>1, <1>2 DEF NewFor
<1>5. TokensFor(s)' = {o \in Outstanding' : TokenOf(o).sub = s}
  BY DEF TokensFor, TokenOf
<1>6. TokensFor(s) \ G = {o \in Outstanding : TokenOf(o).sub = s} \ G
  BY DEF TokensFor
<1>7. /\ IsFiniteSet(Outstanding')
      /\ Cardinality(Outstanding' \cap C) =
           Cardinality((Outstanding \ G) \cap C) + Cardinality(N \cap C)
      /\ Cardinality(Outstanding' \cap C) \in Nat
      /\ Cardinality((Outstanding \ G) \cap C) \in Nat /\ Cardinality(N \cap C) \in Nat
  BY <1>3, CountClass, Zenon
<1>8. /\ Outstanding' \cap C = TokensFor(s)' /\ (Outstanding \ G) \cap C = TokensFor(s) \ G
      /\ N \cap C = NewFor(N, s)
  BY <1>4, <1>5, <1>6, Zenon
<1> QED BY <1>7, <1>8, Zenon

\* A class of wires, near or far, as a set.
Wires(near) == {o \in Outstanding : IF near THEN IsNear(o) ELSE IsFar(o)}

\* The step keeps the tokens on wires where they are counted.
WiresStay(f, G) ==
  \A o \in Outstanding \ G : (IsNear(f[o]) <=> IsNear(o)) /\ (IsFar(f[o]) <=> IsFar(o))

\* What a step that relocates tokens does to the numbers of those in messages.
LEMMA CountWires ==
  ASSUME NEW f, NEW G, NEW N, Relocates(f, G, N), IsFiniteSet(Outstanding), IsFiniteSet(N),
         WiresStay(f, G), NEW near \in BOOLEAN
  PROVE  /\ Cardinality(Wires(near)') =
              Cardinality(Wires(near) \ G)
                + Cardinality({x \in N : IF near THEN IsNear(x) ELSE IsFar(x)})
         /\ Cardinality(Wires(near) \ G) \in Nat
<1> DEFINE Is(x) == IF near THEN IsNear(x) ELSE IsFar(x)
<1>1. PICK C : C = {x \in Outstanding \cup Outstanding' : Is(x)}
  OBVIOUS
<1>2. N \subseteq Outstanding' /\ \A o \in Outstanding \ G : f[o] \in Outstanding'
  BY DEF Relocates
<1>3. \A o \in Outstanding \ G : Is(f[o]) <=> Is(o)
  BY DEF WiresStay
<1>4. Wires(near)' = {o \in Outstanding' : Is(o)} /\ Wires(near) = {o \in Outstanding : Is(o)}
  BY DEF Wires, IsNear, IsFar
<1> HIDE DEF Is
<1>5. ClassStays(f, G, C)
  BY <1>1, <1>2, <1>3 DEF ClassStays
<1>6. /\ Outstanding' \cap C = {o \in Outstanding' : Is(o)}
      /\ (Outstanding \ G) \cap C = {o \in Outstanding : Is(o)} \ G
      /\ N \cap C = {x \in N : Is(x)}
  BY <1>1, <1>2
<1>7. /\ IsFiniteSet(Outstanding')
      /\ Cardinality(Outstanding' \cap C) =
           Cardinality((Outstanding \ G) \cap C) + Cardinality(N \cap C)
      /\ Cardinality(Outstanding' \cap C) \in Nat
      /\ Cardinality((Outstanding \ G) \cap C) \in Nat /\ Cardinality(N \cap C) \in Nat
  BY <1>5, CountClass, Zenon
<1>8. Outstanding' \cap C = Wires(near)' /\ (Outstanding \ G) \cap C = Wires(near) \ G
  BY <1>4, <1>6, Zenon
<1>9. /\ Cardinality(Wires(near)') = Cardinality(Wires(near) \ G) + Cardinality({x \in N : Is(x)})
      /\ Cardinality(Wires(near) \ G) \in Nat
  BY <1>6, <1>7, <1>8, Zenon
<1> QED BY <1>9 DEF Is

-----------------------------------------------------------------------------
(***************************************************************************)
(* Messages to hubs.                                                       *)
(***************************************************************************)
\* One more message waits at the hub.
Appends(h, p, msg, n) ==
  /\ hubQueue' = [hubQueue EXCEPT ![h][p] = Append(@, msg)]
  /\ n = Len(hubQueue[h][p]) + 1

\* A message is added after those that wait, which stay where they are.
LEMMA AppendedEntry ==
  ASSUME Shapes, NEW h \in Hub, NEW p \in Worker, NEW msg, NEW n, Appends(h, p, msg, n)
  PROVE  /\ n \in DOMAIN hubQueue'[h][p] /\ n \notin DOMAIN hubQueue[h][p]
         /\ hubQueue'[h][p][n] = msg
         /\ \A g \in Hub, v \in Worker : \A i \in DOMAIN hubQueue[g][v] :
              /\ i \in DOMAIN hubQueue'[g][v]
              /\ hubQueue'[g][v][i] = hubQueue[g][v][i]
         /\ \A g \in Hub, v \in Worker : \A i \in DOMAIN hubQueue'[g][v] :
              \/ g = h /\ v = p /\ i = n
              \/ i \in DOMAIN hubQueue[g][v] /\ hubQueue'[g][v][i] = hubQueue[g][v][i]
<1> DEFINE q == hubQueue[h][p]
           r == hubQueue'[h][p]
<1>1. hubQueue \in [Hub -> [Worker -> Seq(HubMessage)]]
  BY DEF Shapes
<1>2. q \in Seq(HubMessage) /\ r = Append(q, msg) /\ n = Len(q) + 1
  BY <1>1 DEF Appends
<1>3. \A g \in Hub, v \in Worker : ~(g = h /\ v = p) => hubQueue'[g][v] = hubQueue[g][v]
  BY <1>1 DEF Appends
<1>4. /\ n \in DOMAIN r /\ r[n] = msg /\ n \notin DOMAIN q
      /\ \A i \in DOMAIN q : i \in DOMAIN r /\ r[i] = q[i]
      /\ \A i \in DOMAIN r : i = n \/ (i \in DOMAIN q /\ r[i] = q[i])
  <2> HIDE DEF q, r
  <2> QED BY <1>2, Appended
<1> QED BY <1>3, <1>4, Zenon

\* The places of the requests to adjust a count that are in the queues.
AtAdjust(queues, x) ==
  \E h \in Hub, p \in Worker : \E i \in DOMAIN queues[h][p] :
    queues[h][p][i].adjust = 1 /\ x = <<h, p, i>>

\* Where the requests to adjust a count are, now and after a step.
LEMMA AdjustingPlaces ==
  /\ \A x : x \in Adjusting <=> AtAdjust(hubQueue, x)
  /\ \A x : x \in Adjusting' <=> AtAdjust(hubQueue', x)
<1> DEFINE E(q, g, v) == {<<g, v, i>> : i \in {j \in DOMAIN q[g][v] : q[g][v][j].adjust = 1}}
<1>1. /\ Adjusting = UNION {E(hubQueue, g, v) : g \in Hub, v \in Worker}
      /\ Adjusting' = UNION {E(hubQueue', g, v) : g \in Hub, v \in Worker}
  BY DEF Adjusting
<1>2. \A q, g, v, x : x \in E(q, g, v) <=>
        \E i \in DOMAIN q[g][v] : q[g][v][i].adjust = 1 /\ x = <<g, v, i>>
  OBVIOUS
<1> HIDE DEF E
<1>3. /\ \A x : x \in Adjusting <=> \E g \in Hub, v \in Worker : x \in E(hubQueue, g, v)
      /\ \A x : x \in Adjusting' <=> \E g \in Hub, v \in Worker : x \in E(hubQueue', g, v)
  BY <1>1
<1> QED BY <1>2, <1>3 DEF AtAdjust

\* The tokens and the adjustments in the message come after those that wait.
LEMMA QueueGrows ==
  ASSUME Shapes, NEW h \in Hub, NEW p \in Worker, NEW msg, NEW n, Appends(h, p, msg, n)
  PROVE  /\ \A x : AtQueue(hubQueue', x) <=>
              \/ AtQueue(hubQueue, x)
              \/ \E j \in DOMAIN msg.tokens : x = <<"queue", msg.tokens[j], h, p, n, j>>
         /\ \A x : AtQueue(hubQueue, x) => ~(x[3] = h /\ x[4] = p /\ x[5] = n)
         /\ Adjusting' = Adjusting \cup {y \in {<<h, p, n>>} : msg.adjust = 1}
         /\ <<h, p, n>> \notin Adjusting
<1>1. /\ n \in DOMAIN hubQueue'[h][p] /\ n \notin DOMAIN hubQueue[h][p]
      /\ hubQueue'[h][p][n] = msg
      /\ \A g \in Hub, v \in Worker : \A i \in DOMAIN hubQueue[g][v] :
           /\ i \in DOMAIN hubQueue'[g][v]
           /\ hubQueue'[g][v][i] = hubQueue[g][v][i]
      /\ \A g \in Hub, v \in Worker : \A i \in DOMAIN hubQueue'[g][v] :
           \/ g = h /\ v = p /\ i = n
           \/ i \in DOMAIN hubQueue[g][v] /\ hubQueue'[g][v][i] = hubQueue[g][v][i]
  BY AppendedEntry
<1>2. ASSUME NEW x, AtQueue(hubQueue', x)
      PROVE  \/ AtQueue(hubQueue, x)
             \/ \E j \in DOMAIN msg.tokens : x = <<"queue", msg.tokens[j], h, p, n, j>>
  <2>1. PICK g \in Hub, v \in Worker : \E i \in DOMAIN hubQueue'[g][v] :
          \E j \in DOMAIN hubQueue'[g][v][i].tokens :
            x = <<"queue", hubQueue'[g][v][i].tokens[j], g, v, i, j>>
    BY <1>2, Zenon DEF AtQueue
  <2>2. PICK i \in DOMAIN hubQueue'[g][v] : \E j \in DOMAIN hubQueue'[g][v][i].tokens :
            x = <<"queue", hubQueue'[g][v][i].tokens[j], g, v, i, j>>
    BY <2>1, Zenon
  <2>3. CASE g = h /\ v = p /\ i = n
    BY <1>1, <2>2, <2>3, Zenon
  <2>4. CASE i \in DOMAIN hubQueue[g][v] /\ hubQueue'[g][v][i] = hubQueue[g][v][i]
    <3>1. \E j \in DOMAIN hubQueue[g][v][i].tokens :
            x = <<"queue", hubQueue[g][v][i].tokens[j], g, v, i, j>>
      BY <2>2, <2>4, Zenon
    <3> QED BY <2>4, <3>1, Zenon DEF AtQueue
  <2> QED BY <1>1, <2>3, <2>4
<1>3. ASSUME NEW x, AtQueue(hubQueue, x) PROVE AtQueue(hubQueue', x)
  <2>1. PICK g \in Hub, v \in Worker : \E i \in DOMAIN hubQueue[g][v] :
          \E j \in DOMAIN hubQueue[g][v][i].tokens :
            x = <<"queue", hubQueue[g][v][i].tokens[j], g, v, i, j>>
    BY <1>3, Zenon DEF AtQueue
  <2>2. PICK i \in DOMAIN hubQueue[g][v] : \E j \in DOMAIN hubQueue[g][v][i].tokens :
            x = <<"queue", hubQueue[g][v][i].tokens[j], g, v, i, j>>
    BY <2>1, Zenon
  <2>3. i \in DOMAIN hubQueue'[g][v] /\ hubQueue'[g][v][i] = hubQueue[g][v][i]
    BY <1>1
  <2>4. \E j \in DOMAIN hubQueue'[g][v][i].tokens :
            x = <<"queue", hubQueue'[g][v][i].tokens[j], g, v, i, j>>
    BY <2>2, <2>3, Zenon
  <2> QED BY <2>3, <2>4, Zenon DEF AtQueue
<1>4. ASSUME NEW x, \E j \in DOMAIN msg.tokens : x = <<"queue", msg.tokens[j], h, p, n, j>>
      PROVE  AtQueue(hubQueue', x)
  <2>1. \E j \in DOMAIN hubQueue'[h][p][n].tokens :
          x = <<"queue", hubQueue'[h][p][n].tokens[j], h, p, n, j>>
    BY <1>1, <1>4, Zenon
  <2>2. n \in DOMAIN hubQueue'[h][p]
    BY <1>1
  <2> QED BY <2>1, <2>2 DEF AtQueue
<1>5. ASSUME NEW x, AtQueue(hubQueue, x) PROVE ~(x[3] = h /\ x[4] = p /\ x[5] = n)
  <2>1. PICK g \in Hub, v \in Worker : \E i \in DOMAIN hubQueue[g][v] :
          \E j \in DOMAIN hubQueue[g][v][i].tokens :
            x = <<"queue", hubQueue[g][v][i].tokens[j], g, v, i, j>>
    BY <1>5, Zenon DEF AtQueue
  <2>2. PICK i \in DOMAIN hubQueue[g][v] : \E j \in DOMAIN hubQueue[g][v][i].tokens :
            x = <<"queue", hubQueue[g][v][i].tokens[j], g, v, i, j>>
    BY <2>1, Zenon
  <2>3. x[3] = g /\ x[4] = v /\ x[5] = i
    BY <2>2
  <2> QED BY <1>1, <2>3
<1>6. /\ \A x : x \in Adjusting <=> AtAdjust(hubQueue, x)
      /\ \A x : x \in Adjusting' <=> AtAdjust(hubQueue', x)
  BY AdjustingPlaces
<1>7. Adjusting' = Adjusting \cup {y \in {<<h, p, n>>} : msg.adjust = 1}
  <2>1. ASSUME NEW x \in Adjusting' PROVE x \in Adjusting \cup {y \in {<<h, p, n>>} : msg.adjust = 1}
    BY <1>1, <1>6, <2>1 DEF AtAdjust
  <2>2. ASSUME NEW x \in Adjusting PROVE x \in Adjusting'
    BY <1>1, <1>6, <2>2 DEF AtAdjust
  <2>3. msg.adjust = 1 => <<h, p, n>> \in Adjusting'
    BY <1>1, <1>6 DEF AtAdjust
  <2> QED BY <2>1, <2>2, <2>3
<1>8. <<h, p, n>> \notin Adjusting
  BY <1>1, <1>6 DEF AtAdjust
<1> QED BY <1>2, <1>3, <1>4, <1>5, <1>7, <1>8

\* What each token goes to when the buffer of w is emptied into a message.
LEMMA ReachesPlace ==
  ASSUME NEW w \in RemoteWorker, NEW n, n = Len(hubQueue[HubOf[w]][w]) + 1
  PROVE  /\ \A o : AtQueue(hubQueue, o) => Reaches(w, o) = o
         /\ \A o : AtHub(token, hubPool, o) => Reaches(w, o) = o
         /\ \A o : AtDispatch(network, o) => Reaches(w, o) = o
         /\ \A o : AtBuffer(outBuffer, o) =>
              \/ Reaches(w, o) = o /\ o[3] # w
              \/ \E i \in DOMAIN outBuffer[w] :
                   /\ o = <<"buffer", outBuffer[w][i], w, i>>
                   /\ Reaches(w, o) = <<"queue", outBuffer[w][i], HubOf[w], w, n, i>>
<1>1. \A o : o[1] # "buffer" \/ o[3] # w => Reaches(w, o) = o
  BY DEF Reaches
<1>2. \A o : /\ AtQueue(hubQueue, o) => o[1] = "queue"
             /\ AtHub(token, hubPool, o) => o[1] = "hub"
             /\ AtDispatch(network, o) => o[1] = "dispatch"
  BY PlaceKinds
<1>3. ASSUME NEW o, AtBuffer(outBuffer, o), o[3] = w
      PROVE  \E i \in DOMAIN outBuffer[w] :
               /\ o = <<"buffer", outBuffer[w][i], w, i>>
               /\ Reaches(w, o) = <<"queue", outBuffer[w][i], HubOf[w], w, n, i>>
  <2>1. PICK v \in RemoteWorker : \E i \in DOMAIN outBuffer[v] : o = <<"buffer", outBuffer[v][i], v, i>>
    BY <1>3, Zenon DEF AtBuffer
  <2>2. PICK i \in DOMAIN outBuffer[v] : o = <<"buffer", outBuffer[v][i], v, i>>
    BY <2>1
  <2>3. v = w
    BY <1>3, <2>2
  <2>4. o[1] = "buffer" /\ o[2] = outBuffer[w][i] /\ o[3] = w /\ o[4] = i
    BY <2>2, <2>3
  <2>5. Reaches(w, o) = <<"queue", o[2], HubOf[w], w, Len(hubQueue[HubOf[w]][w]) + 1, o[4]>>
    BY <2>4, Zenon DEF Reaches
  <2>6. Reaches(w, o) = <<"queue", outBuffer[w][i], HubOf[w], w, n, i>>
    BY <2>4, <2>5
  <2> QED BY <2>2, <2>3, <2>6
<1> QED BY <1>1, <1>2, <1>3

\* The tokens that w sends now, each where it is then.
Posted(w, tokens, n, i) == <<"queue", tokens[i], HubOf[w], w, n, i>>

\* A message with all that is buffered, and perhaps more.
PostsAll(w, tokens, acked, n) ==
  /\ Posts(w, tokens, acked) /\ n = Len(hubQueue[HubOf[w]][w]) + 1
  /\ \A i \in DOMAIN outBuffer[w] : i \in DOMAIN tokens /\ tokens[i] = outBuffer[w][i]

\* A report takes all tokens of the buffer, and perhaps one more, into the queue.
LEMMA PostMoves ==
  ASSUME WorkAssumption, Shapes, NEW w \in RemoteWorker, NEW tokens, NEW acked, NEW n,
         PostsAll(w, tokens, acked, n)
  PROVE  /\ \A x : AtBuffer(outBuffer', x) \/ AtQueue(hubQueue', x) <=>
              \/ \E o : AtWire(o) /\ x = Reaches(w, o)
              \/ \E i \in DOMAIN tokens \ DOMAIN outBuffer[w] : x = Posted(w, tokens, n, i)
         /\ Adjusting' = Adjusting
<1> DEFINE msg == [tokens |-> tokens, acks |-> acked, adjust |-> 0]
<1>0. w \in Worker /\ HubOf[w] \in Hub /\ outBuffer \in [RemoteWorker -> Seq(Token)]
  BY DEF Shapes, WorkAssumption, RemoteWorker
<1>1. Appends(HubOf[w], w, msg, n) /\ msg.tokens = tokens /\ msg.adjust = 0
  BY DEF PostsAll, Posts, Appends
<1> HIDE DEF msg
<1>2. /\ \A x : AtQueue(hubQueue', x) <=>
           \/ AtQueue(hubQueue, x)
           \/ \E j \in DOMAIN tokens : x = Posted(w, tokens, n, j)
      /\ Adjusting' = Adjusting
  <2>1. /\ \A x : AtQueue(hubQueue', x) <=>
             \/ AtQueue(hubQueue, x)
             \/ \E j \in DOMAIN msg.tokens : x = <<"queue", msg.tokens[j], HubOf[w], w, n, j>>
        /\ \A x : AtQueue(hubQueue, x) => ~(x[3] = HubOf[w] /\ x[4] = w /\ x[5] = n)
        /\ Adjusting' = Adjusting \cup {y \in {<<HubOf[w], w, n>>} : msg.adjust = 1}
        /\ <<HubOf[w], w, n>> \notin Adjusting
    <3>1. PICK h : h = HubOf[w]
      OBVIOUS
    <3>2. h \in Hub /\ Appends(h, w, msg, n)
      BY <1>0, <1>1, <3>1
    <3> QED BY <1>0, <3>1, <3>2, QueueGrows, Zenon
  <2> QED BY <1>1, <2>1 DEF Posted
<1>3. \A x : AtBuffer(outBuffer', x) <=> AtBuffer(outBuffer, x) /\ x[3] # w
  <2>1. outBuffer' = [outBuffer EXCEPT ![w] = <<>>]
    BY DEF PostsAll, Posts
  <2>2. DOMAIN outBuffer'[w] = {} /\ \A v \in RemoteWorker : v # w => outBuffer'[v] = outBuffer[v]
    BY <1>0, <2>1
  <2>3. ASSUME NEW x, AtBuffer(outBuffer', x) PROVE AtBuffer(outBuffer, x) /\ x[3] # w
    <3>1. PICK v \in RemoteWorker : \E i \in DOMAIN outBuffer'[v] : x = <<"buffer", outBuffer'[v][i], v, i>>
      BY <2>3, Zenon DEF AtBuffer
    <3>2. v # w /\ x[3] = v
      BY <2>2, <3>1
    <3> QED BY <2>2, <3>1, <3>2 DEF AtBuffer
  <2>4. ASSUME NEW x, AtBuffer(outBuffer, x), x[3] # w PROVE AtBuffer(outBuffer', x)
    <3>1. PICK v \in RemoteWorker : \E i \in DOMAIN outBuffer[v] : x = <<"buffer", outBuffer[v][i], v, i>>
      BY <2>4, Zenon DEF AtBuffer
    <3>2. v # w
      BY <2>4, <3>1
    <3> QED BY <2>2, <3>1, <3>2 DEF AtBuffer
  <2> QED BY <2>3, <2>4
<1>4. /\ \A o : AtQueue(hubQueue, o) => Reaches(w, o) = o
      /\ \A o : AtBuffer(outBuffer, o) =>
           \/ Reaches(w, o) = o /\ o[3] # w
           \/ \E i \in DOMAIN outBuffer[w] :
                /\ o = <<"buffer", outBuffer[w][i], w, i>>
                /\ Reaches(w, o) = <<"queue", outBuffer[w][i], HubOf[w], w, n, i>>
  <2>1. n = Len(hubQueue[HubOf[w]][w]) + 1
    BY DEF PostsAll
  <2> QED BY <2>1, ReachesPlace
<1>5. \A i \in DOMAIN outBuffer[w] :
        i \in DOMAIN tokens /\ Posted(w, tokens, n, i) = <<"queue", outBuffer[w][i], HubOf[w], w, n, i>>
  BY DEF PostsAll, Posted
<1>6. ASSUME NEW i \in DOMAIN outBuffer[w]
      PROVE  \E o : AtWire(o) /\ Posted(w, tokens, n, i) = Reaches(w, o)
  <2> DEFINE o == <<"buffer", outBuffer[w][i], w, i>>
  <2>1. AtBuffer(outBuffer, o) /\ o[3] = w /\ o[4] = i
    BY DEF AtBuffer
  <2>2. PICK j \in DOMAIN outBuffer[w] :
          /\ o = <<"buffer", outBuffer[w][j], w, j>>
          /\ Reaches(w, o) = <<"queue", outBuffer[w][j], HubOf[w], w, n, j>>
    BY <1>4, <2>1
  <2>3. j = i
    BY <2>1, <2>2
  <2>4. Reaches(w, o) = Posted(w, tokens, n, i)
    BY <1>5, <2>2, <2>3
  <2> QED BY <2>1, <2>4 DEF AtWire
<1>7. ASSUME NEW x, AtBuffer(outBuffer', x) \/ AtQueue(hubQueue', x)
      PROVE  \/ \E o : AtWire(o) /\ x = Reaches(w, o)
             \/ \E i \in DOMAIN tokens \ DOMAIN outBuffer[w] : x = Posted(w, tokens, n, i)
  <2>1. CASE AtBuffer(outBuffer', x)
    <3>1. AtBuffer(outBuffer, x) /\ x[3] # w
      BY <1>3, <2>1
    <3>2. Reaches(w, x) = x
      BY <3>1 DEF Reaches
    <3> QED BY <3>1, <3>2 DEF AtWire
  <2>2. CASE AtQueue(hubQueue, x)
    BY <1>4, <2>2 DEF AtWire
  <2>3. CASE \E j \in DOMAIN tokens : x = Posted(w, tokens, n, j)
    <3>1. PICK j \in DOMAIN tokens : x = Posted(w, tokens, n, j)
      BY <2>3
    <3> QED BY <1>6, <3>1
  <2> QED BY <1>2, <1>7, <2>1, <2>2, <2>3
<1>8. ASSUME NEW o, AtWire(o) PROVE AtBuffer(outBuffer', Reaches(w, o)) \/ AtQueue(hubQueue', Reaches(w, o))
  <2>1. CASE AtQueue(hubQueue, o)
    BY <1>2, <1>4, <2>1
  <2>2. CASE AtBuffer(outBuffer, o) /\ Reaches(w, o) = o /\ o[3] # w
    BY <1>3, <2>2
  <2>3. CASE \E i \in DOMAIN outBuffer[w] :
               Reaches(w, o) = <<"queue", outBuffer[w][i], HubOf[w], w, n, i>>
    <3>1. PICK i \in DOMAIN outBuffer[w] : Reaches(w, o) = Posted(w, tokens, n, i)
      BY <1>5, <2>3
    <3> QED BY <1>2, <1>5, <3>1
  <2> QED BY <1>4, <1>8, <2>1, <2>2, <2>3 DEF AtWire
<1> QED BY <1>2, <1>7, <1>8

-----------------------------------------------------------------------------
(***************************************************************************)
(* Tokens in buffers and messages, and the others: f says where each of    *)
(* them goes, and N has the new ones.                                      *)
(***************************************************************************)
OnWire(x) == x[1] = "buffer" \/ x[1] = "queue"

\* x is a place of a token in a pool or a dispatch.
AtRest(x) == AtHub(token, hubPool, x) \/ AtDispatch(network, x)

\* f keeps what o says, and where it is counted.
Carries(f, o) == /\ TokenOf(f[o]) = TokenOf(o)
                 /\ IsNear(f[o]) <=> IsNear(o)
                 /\ IsFar(f[o]) <=> IsFar(o)

\* The step takes the tokens in buffers and queues where f says, and adds those of N.
WireMoves(f, N) ==
  /\ \A x : AtBuffer(outBuffer', x) \/ AtQueue(hubQueue', x) <=>
       (x \in N /\ OnWire(x)) \/ \E o : AtWire(o) /\ x = f[o]
  /\ \A o : AtWire(o) => f[o] \notin N /\ OnWire(f[o]) /\ Carries(f, o)
  /\ \A o, q : AtWire(o) /\ AtWire(q) /\ f[o] = f[q] => o = q

\* The same of the tokens in pools and dispatches, of which those of G go.
RestMoves(f, G, N) ==
  /\ \A x : AtHub(token', hubPool', x) \/ AtDispatch(network', x) <=>
       (x \in N /\ ~OnWire(x)) \/ \E o : AtRest(o) /\ o \notin G /\ x = f[o]
  /\ \A o : AtRest(o) /\ o \notin G =>
       f[o] \notin N /\ ~OnWire(f[o]) /\ TokenOf(f[o]) = TokenOf(o)
  /\ \A o, q : AtRest(o) /\ AtRest(q) /\ o \notin G /\ q \notin G /\ f[o] = f[q] => o = q
  /\ \A o \in G : ~OnWire(o)

\* Both kinds of tokens move; none on a wire is deleted.
Moves(f, G, N) ==
  /\ Relocates(f, G, N) /\ WiresStay(f, G) /\ IsFiniteSet(N)
  /\ \A o \in G : ~OnWire(o)

\* A token is in a buffer or queue, or in a pool or dispatch, and not in both.
LEMMA KindOfPlace ==
  ASSUME NEW o
  PROVE  /\ AtWire(o) => OnWire(o)
         /\ AtRest(o) => ~OnWire(o)
         /\ ~OnWire(o) => ~IsNear(o) /\ ~IsFar(o)
         /\ o \in Outstanding <=> AtWire(o) \/ AtRest(o)
<1>1. AtWire(o) => OnWire(o)
  BY PlaceKinds, Zenon DEF AtWire, OnWire
<1>2. AtRest(o) => o[1] = "hub" \/ o[1] = "dispatch"
  BY PlaceKinds, Zenon DEF AtRest
<1>3. AtRest(o) => ~OnWire(o)
  BY <1>2 DEF OnWire
<1>4. ~OnWire(o) => ~IsNear(o) /\ ~IsFar(o)
  BY DEF OnWire, IsNear, IsFar
<1>5. o \in Outstanding <=> AtWire(o) \/ AtRest(o)
  BY PlacesNow, Zenon DEF AtWire, AtRest
<1> QED BY <1>1, <1>3, <1>4, <1>5

\* What a step does to the two kinds of places, taken together.
LEMMA MovesCombine ==
  ASSUME NEW f, NEW G, NEW N, WireMoves(f, N), RestMoves(f, G, N), IsFiniteSet(N)
  PROVE  Moves(f, G, N)
<1>1. \A o : /\ AtWire(o) => OnWire(o) /\ o \notin G
             /\ AtRest(o) => ~OnWire(o)
             /\ ~OnWire(o) => ~IsNear(o) /\ ~IsFar(o)
             /\ o \in Outstanding <=> AtWire(o) \/ AtRest(o)
  BY KindOfPlace DEF RestMoves
<1>2. \A x : x \in Outstanding' <=> x \in N \/ \E o \in Outstanding \ G : x = f[o]
  <2>1. \A x : x \in Outstanding' <=>
          \/ AtBuffer(outBuffer', x) \/ AtQueue(hubQueue', x)
          \/ AtHub(token', hubPool', x) \/ AtDispatch(network', x)
    BY PlacesNext
  <2>2. \A x : AtBuffer(outBuffer', x) \/ AtQueue(hubQueue', x) <=>
          (x \in N /\ OnWire(x)) \/ \E o : AtWire(o) /\ x = f[o]
    BY DEF WireMoves
  <2>3. \A x : AtHub(token', hubPool', x) \/ AtDispatch(network', x) <=>
          (x \in N /\ ~OnWire(x)) \/ \E o : AtRest(o) /\ o \notin G /\ x = f[o]
    BY DEF RestMoves
  <2>4. \A x : x \in Outstanding' <=>
          \/ x \in N \/ \E o : AtWire(o) /\ x = f[o]
          \/ \E o : AtRest(o) /\ o \notin G /\ x = f[o]
    BY <2>1, <2>2, <2>3, Zenon
  <2> QED BY <1>1, <2>4, Zenon
<1>3. \A o : /\ AtWire(o) => f[o] \notin N /\ OnWire(f[o]) /\ Carries(f, o)
             /\ AtRest(o) /\ o \notin G =>
                  f[o] \notin N /\ ~OnWire(f[o]) /\ TokenOf(f[o]) = TokenOf(o)
  BY Zenon DEF WireMoves, RestMoves
<1>4. \A o \in Outstanding \ G : f[o] \notin N /\ TokenOf(f[o]) = TokenOf(o)
  BY <1>1, <1>3 DEF Carries
<1>5. \A o, q \in Outstanding \ G : f[o] = f[q] => o = q
  <2>1. \A o, q : AtWire(o) /\ AtWire(q) /\ f[o] = f[q] => o = q
    BY DEF WireMoves
  <2>2. \A o, q : AtRest(o) /\ AtRest(q) /\ o \notin G /\ q \notin G /\ f[o] = f[q] => o = q
    BY DEF RestMoves
  <2>3. \A o, q : AtWire(o) /\ AtRest(q) /\ q \notin G => f[o] # f[q]
    BY <1>3, Zenon
  <2> QED BY <1>1, <2>1, <2>2, <2>3, Zenon
<1>6. WiresStay(f, G)
  <2>1. ASSUME NEW o \in Outstanding \ G
        PROVE  (IsNear(f[o]) <=> IsNear(o)) /\ (IsFar(f[o]) <=> IsFar(o))
    <3>1. CASE AtWire(o)
      BY <1>3, <3>1 DEF Carries
    <3>2. CASE AtRest(o)
      BY <1>1, <1>3, <2>1, <3>2
    <3> QED BY <1>1, <2>1, <3>1, <3>2
  <2> QED BY <2>1 DEF WiresStay
<1>7. \A o \in G : ~OnWire(o)
  BY DEF RestMoves
<1> QED BY <1>2, <1>4, <1>5, <1>6, <1>7 DEF Moves, Relocates

\* How many there are then.
LEMMA MovesCount ==
  ASSUME NEW f, NEW G, NEW N, Moves(f, G, N), IsFiniteSet(Outstanding)
  PROVE  /\ IsFiniteSet(Outstanding')
         /\ \A s : /\ Cardinality(TokensFor(s)') =
                        Cardinality(TokensFor(s) \ G) + Cardinality(NewFor(N, s))
                   /\ Cardinality(TokensFor(s) \ G) \in Nat
                   /\ Cardinality(NewFor(N, s)) \in Nat
         /\ Cardinality(Wires(TRUE)') = Cardinality(Wires(TRUE)) + Cardinality({x \in N : IsNear(x)})
         /\ Cardinality(Wires(FALSE)') = Cardinality(Wires(FALSE)) + Cardinality({x \in N : IsFar(x)})
<1>1. Relocates(f, G, N) /\ WiresStay(f, G) /\ IsFiniteSet(N) /\ \A o \in G : ~OnWire(o)
  BY DEF Moves
<1>2. \A near \in BOOLEAN : Wires(near) \ G = Wires(near)
  BY <1>1, KindOfPlace DEF Wires
<1>3. \A s : /\ IsFiniteSet(Outstanding')
             /\ Cardinality(TokensFor(s)') =
                  Cardinality(TokensFor(s) \ G) + Cardinality(NewFor(N, s))
             /\ Cardinality(TokensFor(s) \ G) \in Nat
             /\ Cardinality(NewFor(N, s)) \in Nat
  BY <1>1, CountTokens
<1>4. \A near \in BOOLEAN :
        Cardinality(Wires(near)') =
          Cardinality(Wires(near) \ G) + Cardinality({x \in N : IF near THEN IsNear(x) ELSE IsFar(x)})
  BY <1>1, CountWires
<1>5. /\ {x \in N : IF TRUE THEN IsNear(x) ELSE IsFar(x)} = {x \in N : IsNear(x)}
      /\ {x \in N : IF FALSE THEN IsNear(x) ELSE IsFar(x)} = {x \in N : IsFar(x)}
  OBVIOUS
<1> QED BY <1>2, <1>3, <1>4, <1>5

\* Nothing is sent or buffered.
LEMMA QuietWires ==
  ASSUME NEW f, NEW N, UNCHANGED <<outBuffer, hubQueue>>,
         \A o : AtWire(o) => f[o] = o, \A x \in N : ~OnWire(x)
  PROVE  WireMoves(f, N)
<1>1. \A x : AtBuffer(outBuffer', x) \/ AtQueue(hubQueue', x) <=> AtWire(x)
  BY Zenon DEF AtWire
<1>2. \A o : AtWire(o) => OnWire(o)
  BY KindOfPlace, Zenon
<1> QED BY <1>1, <1>2 DEF WireMoves, Carries

\* A token is put into the buffer.
LEMMA BufferWires ==
  ASSUME Shapes, NEW w \in RemoteWorker, NEW t, NEW f, NEW N, NEW n,
         outBuffer' = [outBuffer EXCEPT ![w] = Append(@, t)], hubQueue' = hubQueue,
         \A o : AtWire(o) => f[o] = o,
         n = Len(outBuffer[w]) + 1, N = {<<"buffer", t, w, n>>}
  PROVE  WireMoves(f, N)
<1>1. outBuffer \in [RemoteWorker -> Seq(Token)]
  BY DEF Shapes
<1>2. outBuffer'[w] = Append(outBuffer[w], t) /\ \A v \in RemoteWorker : v # w => outBuffer'[v] = outBuffer[v]
  BY <1>1
<1>3. /\ n \in DOMAIN outBuffer'[w] /\ outBuffer'[w][n] = t /\ n \notin DOMAIN outBuffer[w]
      /\ \A i \in DOMAIN outBuffer[w] : i \in DOMAIN outBuffer'[w] /\ outBuffer'[w][i] = outBuffer[w][i]
      /\ \A i \in DOMAIN outBuffer'[w] : i = n \/ i \in DOMAIN outBuffer[w]
  <2>1. PICK q : q = outBuffer[w]
    OBVIOUS
  <2>2. q \in Seq(Token) /\ outBuffer'[w] = Append(q, t) /\ n = Len(q) + 1
    BY <1>1, <1>2, <2>1
  <2>3. /\ n \in DOMAIN Append(q, t) /\ Append(q, t)[n] = t /\ n \notin DOMAIN q
        /\ \A i \in DOMAIN q : i \in DOMAIN Append(q, t) /\ Append(q, t)[i] = q[i]
        /\ \A i \in DOMAIN Append(q, t) : i = n \/ i \in DOMAIN q
    BY <2>2, Appended
  <2> QED BY <2>1, <2>2, <2>3
<1>4. \A x : AtBuffer(outBuffer', x) <=> AtBuffer(outBuffer, x) \/ x = <<"buffer", t, w, n>>
  <2>1. ASSUME NEW x, AtBuffer(outBuffer', x) PROVE AtBuffer(outBuffer, x) \/ x = <<"buffer", t, w, n>>
    <3>1. PICK v \in RemoteWorker : \E i \in DOMAIN outBuffer'[v] : x = <<"buffer", outBuffer'[v][i], v, i>>
      BY <2>1, Zenon DEF AtBuffer
    <3>2. PICK i \in DOMAIN outBuffer'[v] : x = <<"buffer", outBuffer'[v][i], v, i>>
      BY <3>1
    <3>3. CASE v = w /\ i = n
      BY <1>3, <3>2, <3>3
    <3>4. CASE i \in DOMAIN outBuffer[v] /\ outBuffer'[v][i] = outBuffer[v][i]
      <4>1. x = <<"buffer", outBuffer[v][i], v, i>>
        BY <3>2, <3>4
      <4> QED BY <3>4, <4>1, Zenon DEF AtBuffer
    <3> QED BY <1>2, <1>3, <3>2, <3>3, <3>4
  <2>2. ASSUME NEW x, AtBuffer(outBuffer, x) PROVE AtBuffer(outBuffer', x)
    <3>1. PICK v \in RemoteWorker : \E i \in DOMAIN outBuffer[v] : x = <<"buffer", outBuffer[v][i], v, i>>
      BY <2>2, Zenon DEF AtBuffer
    <3>2. PICK i \in DOMAIN outBuffer[v] : x = <<"buffer", outBuffer[v][i], v, i>>
      BY <3>1
    <3>3. i \in DOMAIN outBuffer'[v] /\ outBuffer'[v][i] = outBuffer[v][i]
      BY <1>2, <1>3
    <3>4. x = <<"buffer", outBuffer'[v][i], v, i>>
      BY <3>2, <3>3
    <3> QED BY <3>3, <3>4, Zenon DEF AtBuffer
  <2>3. AtBuffer(outBuffer', <<"buffer", t, w, n>>)
    <3>1. <<"buffer", t, w, n>> = <<"buffer", outBuffer'[w][n], w, n>>
      BY <1>3
    <3> QED BY <1>3, <3>1, Zenon DEF AtBuffer
  <2> QED BY <2>1, <2>2, <2>3
<1>5. \A x : ~AtBuffer(outBuffer, <<"buffer", t, w, n>>) /\ ~AtQueue(hubQueue, <<"buffer", t, w, n>>)
  <2>1. ASSUME AtBuffer(outBuffer, <<"buffer", t, w, n>>) PROVE FALSE
    <3>1. PICK v \in RemoteWorker : \E i \in DOMAIN outBuffer[v] :
            <<"buffer", t, w, n>> = <<"buffer", outBuffer[v][i], v, i>>
      BY <2>1, Zenon DEF AtBuffer
    <3> QED BY <1>3, <3>1
  <2>2. ASSUME AtQueue(hubQueue, <<"buffer", t, w, n>>) PROVE FALSE
    <3>1. <<"buffer", t, w, n>>[1] = "queue"
      BY <2>2, PlaceKinds, Zenon
    <3> QED BY <3>1
  <2> QED BY <2>1, <2>2
<1>6. \A o : AtWire(o) => OnWire(o)
  BY KindOfPlace, Zenon
<1>7. OnWire(<<"buffer", t, w, n>>)
  BY DEF OnWire
<1>8. \A x : AtBuffer(outBuffer', x) \/ AtQueue(hubQueue', x) <=> x \in N \/ AtWire(x)
  BY <1>4, Zenon DEF AtWire
<1>9. \A x \in N : OnWire(x) /\ ~AtWire(x)
  BY <1>5, <1>7, Zenon DEF AtWire
<1> QED BY <1>6, <1>8, <1>9 DEF WireMoves, Carries

\* A message of its own is sent.
LEMMA SendWires ==
  ASSUME Shapes, NEW h \in Hub, NEW p \in Worker, NEW msg, NEW n, Appends(h, p, msg, n),
         outBuffer' = outBuffer, NEW f, NEW N, \A o : AtWire(o) => f[o] = o,
         \A x : x \in N /\ OnWire(x) <=>
           \E j \in DOMAIN msg.tokens : x = <<"queue", msg.tokens[j], h, p, n, j>>
  PROVE  WireMoves(f, N)
<1>1. /\ \A x : AtQueue(hubQueue', x) <=>
           \/ AtQueue(hubQueue, x)
           \/ \E j \in DOMAIN msg.tokens : x = <<"queue", msg.tokens[j], h, p, n, j>>
      /\ \A x : AtQueue(hubQueue, x) => ~(x[3] = h /\ x[4] = p /\ x[5] = n)
      /\ Adjusting' = Adjusting \cup {y \in {<<h, p, n>>} : msg.adjust = 1}
      /\ <<h, p, n>> \notin Adjusting
  BY QueueGrows, Zenon
<1>2. \A x : AtBuffer(outBuffer', x) \/ AtQueue(hubQueue', x) <=> (x \in N /\ OnWire(x)) \/ AtWire(x)
  BY <1>1, Zenon DEF AtWire
<1>3. \A o : AtWire(o) => OnWire(o)
  BY KindOfPlace, Zenon
<1>4. ASSUME NEW o, AtWire(o), o \in N PROVE FALSE
  <2>1. PICK j \in DOMAIN msg.tokens : o = <<"queue", msg.tokens[j], h, p, n, j>>
    BY <1>3, <1>4
  <2>2. o[1] = "queue" /\ o[3] = h /\ o[4] = p /\ o[5] = n
    BY <2>1
  <2>3. AtQueue(hubQueue, o)
    <3>1. AtBuffer(outBuffer, o) => o[1] = "buffer"
      BY PlaceKinds, Zenon
    <3> QED BY <1>4, <2>2, <3>1 DEF AtWire
  <2> QED BY <1>1, <2>2, <2>3
<1> QED BY <1>2, <1>3, <1>4 DEF WireMoves, Carries

\* All that is buffered is sent, and perhaps more.
LEMMA PostWires ==
  ASSUME WorkAssumption, Shapes, NEW w \in RemoteWorker, NEW tokens, NEW acked, NEW n,
         PostsAll(w, tokens, acked, n), NEW f, NEW N, \A o : AtWire(o) => f[o] = Reaches(w, o),
         \A x : x \in N /\ OnWire(x) <=>
           \E i \in DOMAIN tokens \ DOMAIN outBuffer[w] : x = Posted(w, tokens, n, i)
  PROVE  WireMoves(f, N)
<1>1. \A x : AtBuffer(outBuffer', x) \/ AtQueue(hubQueue', x) <=>
        \/ \E o : AtWire(o) /\ x = Reaches(w, o)
        \/ \E i \in DOMAIN tokens \ DOMAIN outBuffer[w] : x = Posted(w, tokens, n, i)
  BY PostMoves
<1>2. \A x : AtBuffer(outBuffer', x) \/ AtQueue(hubQueue', x) <=>
        (x \in N /\ OnWire(x)) \/ \E o : AtWire(o) /\ x = f[o]
  BY <1>1, Zenon
<1>3. /\ \A o : AtQueue(hubQueue, o) => Reaches(w, o) = o
      /\ \A o : AtBuffer(outBuffer, o) =>
           \/ Reaches(w, o) = o /\ o[3] # w
           \/ \E i \in DOMAIN outBuffer[w] :
                /\ o = <<"buffer", outBuffer[w][i], w, i>>
                /\ Reaches(w, o) = <<"queue", outBuffer[w][i], HubOf[w], w, n, i>>
  <2>1. n = Len(hubQueue[HubOf[w]][w]) + 1
    BY DEF PostsAll
  <2> QED BY <2>1, ReachesPlace
<1>4. \A o : AtQueue(hubQueue, o) => o[1] = "queue" /\ ~(o[3] = HubOf[w] /\ o[4] = w /\ o[5] = n)
  <2> DEFINE msg == [tokens |-> tokens, acks |-> acked, adjust |-> 0]
  <2>1. w \in Worker /\ HubOf[w] \in Hub
    BY DEF WorkAssumption, RemoteWorker
  <2>2. Appends(HubOf[w], w, msg, n)
    BY DEF PostsAll, Posts, Appends
  <2> HIDE DEF msg
  <2>3. PICK h : h = HubOf[w]
    OBVIOUS
  <2>4. h \in Hub /\ Appends(h, w, msg, n)
    BY <2>1, <2>2, <2>3
  <2>5. /\ \A x : AtQueue(hubQueue', x) <=>
             \/ AtQueue(hubQueue, x)
             \/ \E j \in DOMAIN msg.tokens : x = <<"queue", msg.tokens[j], h, w, n, j>>
        /\ \A x : AtQueue(hubQueue, x) => ~(x[3] = h /\ x[4] = w /\ x[5] = n)
        /\ Adjusting' = Adjusting \cup {y \in {<<h, w, n>>} : msg.adjust = 1}
        /\ <<h, w, n>> \notin Adjusting
    BY <2>1, <2>4, QueueGrows, Zenon
  <2>6. \A o : AtQueue(hubQueue, o) => o[1] = "queue"
    BY PlaceKinds, Zenon
  <2> QED BY <2>3, <2>5, <2>6
<1>5. \A o : AtBuffer(outBuffer, o) => o[1] = "buffer"
  BY PlaceKinds, Zenon
<1> DEFINE Stays(o) == /\ f[o] = o
                       /\ \/ o[1] = "buffer" /\ o[3] # w
                          \/ o[1] = "queue" /\ ~(o[3] = HubOf[w] /\ o[4] = w /\ o[5] = n)
           Goes(o) == \E i \in DOMAIN outBuffer[w] :
                        /\ o = <<"buffer", outBuffer[w][i], w, i>>
                        /\ f[o] = <<"queue", outBuffer[w][i], HubOf[w], w, n, i>>
<1>6. \A o : AtWire(o) => Stays(o) \/ Goes(o)
  <2> SUFFICES ASSUME NEW o, AtWire(o) PROVE Stays(o) \/ Goes(o)
    OBVIOUS
  <2>1. f[o] = Reaches(w, o)
    OBVIOUS
  <2>2. CASE AtQueue(hubQueue, o)
    BY <1>3, <1>4, <2>1, <2>2
  <2>3. CASE AtBuffer(outBuffer, o) /\ Reaches(w, o) = o /\ o[3] # w
    BY <1>5, <2>1, <2>3
  <2>4. CASE \E i \in DOMAIN outBuffer[w] :
               /\ o = <<"buffer", outBuffer[w][i], w, i>>
               /\ Reaches(w, o) = <<"queue", outBuffer[w][i], HubOf[w], w, n, i>>
    BY <2>1, <2>4
  <2> QED BY <1>3, <2>2, <2>3, <2>4 DEF AtWire
<1>7. \A o : Stays(o) => /\ OnWire(f[o]) /\ Carries(f, o)
                         /\ ~(f[o][1] = "queue" /\ f[o][3] = HubOf[w] /\ f[o][4] = w /\ f[o][5] = n)
  BY DEF OnWire, Carries
<1>8. ASSUME NEW o, Goes(o)
      PROVE  /\ OnWire(f[o]) /\ Carries(f, o)
             /\ f[o][1] = "queue" /\ f[o][3] = HubOf[w] /\ f[o][4] = w /\ f[o][5] = n
             /\ f[o][6] \in DOMAIN outBuffer[w]
             /\ o = <<"buffer", outBuffer[w][f[o][6]], w, f[o][6]>>
  <2>1. PICK i \in DOMAIN outBuffer[w] : /\ o = <<"buffer", outBuffer[w][i], w, i>>
                                         /\ f[o] = <<"queue", outBuffer[w][i], HubOf[w], w, n, i>>
    BY <1>8
  <2>2. f[o][1] = "queue" /\ f[o][2] = outBuffer[w][i] /\ f[o][3] = HubOf[w] /\ f[o][4] = w
          /\ f[o][5] = n /\ f[o][6] = i
    BY <2>1
  <2>3. o[1] = "buffer" /\ o[2] = outBuffer[w][i]
    BY <2>1
  <2>4. IsNear(o) /\ ~IsFar(o) /\ IsNear(f[o]) /\ ~IsFar(f[o])
    BY <2>2, <2>3 DEF IsNear, IsFar
  <2>5. OnWire(f[o]) /\ Carries(f, o)
    BY <2>2, <2>3, <2>4 DEF OnWire, Carries, TokenOf
  <2>6. f[o][6] \in DOMAIN outBuffer[w] /\ o = <<"buffer", outBuffer[w][f[o][6]], w, f[o][6]>>
    BY <2>1, <2>2
  <2> QED BY <2>2, <2>5, <2>6
<1>9. ASSUME NEW x \in N, OnWire(x)
      PROVE  x[1] = "queue" /\ x[3] = HubOf[w] /\ x[4] = w /\ x[5] = n /\ x[6] \notin DOMAIN outBuffer[w]
  <2>1. PICK i \in DOMAIN tokens \ DOMAIN outBuffer[w] : x = Posted(w, tokens, n, i)
    BY <1>9
  <2> QED BY <2>1 DEF Posted
<1> HIDE DEF Goes
<1>10. \A o : AtWire(o) => f[o] \notin N /\ OnWire(f[o]) /\ Carries(f, o)
  <2> SUFFICES ASSUME NEW o, AtWire(o) PROVE f[o] \notin N /\ OnWire(f[o]) /\ Carries(f, o)
    OBVIOUS
  <2>1. CASE Stays(o)
    <3> HIDE DEF Stays
    <3> QED BY <1>7, <1>9, <2>1
  <2>2. CASE Goes(o)
    BY <1>8, <1>9, <2>2
  <2> QED BY <1>6, <2>1, <2>2
<1>11. ASSUME NEW o, NEW q, AtWire(o), AtWire(q), f[o] = f[q] PROVE o = q
  <2>1. CASE Stays(o) /\ Stays(q)
    BY <1>11, <2>1
  <2>2. CASE Goes(o) /\ Goes(q)
    BY <1>8, <1>11, <2>2
  <2>3. CASE (Stays(o) /\ Goes(q)) \/ (Goes(o) /\ Stays(q))
    <3> HIDE DEF Stays
    <3> QED BY <1>7, <1>8, <1>11, <2>3
  <2>4. (Stays(o) \/ Goes(o)) /\ (Stays(q) \/ Goes(q))
    BY <1>6, <1>11, Zenon
  <2> HIDE DEF Stays
  <2> QED BY <2>1, <2>2, <2>3, <2>4, Zenon
<1> QED BY <1>2, <1>10, <1>11 DEF WireMoves

-----------------------------------------------------------------------------
(***************************************************************************)
(* Tokens that a hub has to give out, and those it has asked for.          *)
(***************************************************************************)
AtRestNext(x) == AtHub(token', hubPool', x) \/ AtDispatch(network', x)

\* Tokens may leave, and those of G do.
LEMMA RestShrinks ==
  ASSUME NEW f, NEW G, NEW N, \A o : AtRest(o) => f[o] = o, \A x \in N : OnWire(x),
         \A x : AtRestNext(x) => AtRest(x),
         \A x : x \in G <=> AtRest(x) /\ ~AtRestNext(x)
  PROVE  RestMoves(f, G, N)
<1>1. \A o : AtRest(o) => ~OnWire(o)
  BY KindOfPlace, Zenon
<1>2. \A x : AtHub(token', hubPool', x) \/ AtDispatch(network', x) <=>
       (x \in N /\ ~OnWire(x)) \/ \E o : AtRest(o) /\ o \notin G /\ x = f[o]
  BY Zenon DEF AtRestNext
<1>3. \A o : AtRest(o) /\ o \notin G =>
       f[o] \notin N /\ ~OnWire(f[o]) /\ TokenOf(f[o]) = TokenOf(o)
  BY <1>1, Zenon
<1> QED BY <1>1, <1>2, <1>3 DEF RestMoves

\* A token comes.
LEMMA RestGrows ==
  ASSUME NEW f, NEW N, NEW y, \A o : AtRest(o) => f[o] = o, N = {y}, ~OnWire(y),
         ~AtRest(y), \A x : AtRestNext(x) <=> AtRest(x) \/ x = y
  PROVE  RestMoves(f, {}, N)
<1>1. \A o : AtRest(o) => ~OnWire(o)
  BY KindOfPlace, Zenon
<1>2. \A x : AtHub(token', hubPool', x) \/ AtDispatch(network', x) <=>
       (x \in N /\ ~OnWire(x)) \/ \E o : AtRest(o) /\ o \notin {} /\ x = f[o]
  BY DEF AtRestNext
<1>3. \A o : AtRest(o) /\ o \notin {} =>
       f[o] \notin N /\ ~OnWire(f[o]) /\ TokenOf(f[o]) = TokenOf(o)
  BY <1>1
<1> QED BY <1>1, <1>2, <1>3 DEF RestMoves

\* A token goes to another place.
LEMMA RestTurns ==
  ASSUME NEW f, NEW y, NEW z, \A o : AtRest(o) => f[o] = IF o = y THEN z ELSE o,
         AtRest(y), ~OnWire(z), ~AtRest(z), TokenOf(z) = TokenOf(y),
         \A x : AtRestNext(x) <=> (AtRest(x) /\ x # y) \/ x = z
  PROVE  RestMoves(f, {}, {})
<1>1. \A o : AtRest(o) => ~OnWire(o)
  BY KindOfPlace, Zenon
<1>2. \A x : AtHub(token', hubPool', x) \/ AtDispatch(network', x) <=>
       (x \in {} /\ ~OnWire(x)) \/ \E o : AtRest(o) /\ o \notin {} /\ x = f[o]
  BY DEF AtRestNext
<1>3. \A o : AtRest(o) /\ o \notin {} =>
       f[o] \notin {} /\ ~OnWire(f[o]) /\ TokenOf(f[o]) = TokenOf(o)
  BY <1>1
<1>4. \A o, q : AtRest(o) /\ AtRest(q) /\ o \notin {} /\ q \notin {} /\ f[o] = f[q] => o = q
  BY Zenon
<1> QED BY <1>2, <1>3, <1>4 DEF RestMoves

\* Pools of hubs that change only at h.
LEMMA HubPlaces ==
  ASSUME NEW h \in Hub,
         \A g \in Hub : g # h => hubPool'[g] = hubPool[g] /\ token'[g] = token[g]
  PROVE  /\ \A x : AtHub(token', hubPool', x) <=>
              \/ AtHub(token, hubPool, x) /\ x[3] # h
              \/ \E a \in hubPool'[h] : x = <<"hub", token'[h][a], h, a>>
         /\ \A x : AtHub(token, hubPool, x) /\ x[3] = h <=>
              \E a \in hubPool[h] : x = <<"hub", token[h][a], h, a>>
<1>1. ASSUME NEW x, AtHub(token', hubPool', x)
      PROVE  \/ AtHub(token, hubPool, x) /\ x[3] # h
             \/ \E a \in hubPool'[h] : x = <<"hub", token'[h][a], h, a>>
  <2>1. PICK g \in Hub : \E a \in hubPool'[g] : x = <<"hub", token'[g][a], g, a>>
    BY <1>1, Zenon DEF AtHub
  <2>2. PICK a \in hubPool'[g] : x = <<"hub", token'[g][a], g, a>>
    BY <2>1
  <2>3. CASE g = h
    BY <2>2, <2>3
  <2>4. CASE g # h
    <3>1. a \in hubPool[g] /\ x = <<"hub", token[g][a], g, a>>
      BY <2>2, <2>4
    <3>2. x[3] = g
      BY <3>1
    <3> QED BY <2>4, <3>1, <3>2, Zenon DEF AtHub
  <2> QED BY <2>3, <2>4
<1>2. ASSUME NEW x, AtHub(token, hubPool, x)
      PROVE  /\ x[3] # h => AtHub(token', hubPool', x)
             /\ x[3] = h => \E a \in hubPool[h] : x = <<"hub", token[h][a], h, a>>
  <2>1. PICK g \in Hub : \E a \in hubPool[g] : x = <<"hub", token[g][a], g, a>>
    BY <1>2, Zenon DEF AtHub
  <2>2. PICK a \in hubPool[g] : x = <<"hub", token[g][a], g, a>>
    BY <2>1
  <2>3. x[3] = g
    BY <2>2
  <2>4. CASE g = h
    BY <2>2, <2>3, <2>4
  <2>5. CASE g # h
    <3>1. a \in hubPool'[g] /\ x = <<"hub", token'[g][a], g, a>>
      BY <2>2, <2>5
    <3>2. AtHub(token', hubPool', x)
      BY <3>1, Zenon DEF AtHub
    <3> QED BY <2>3, <2>5, <3>2
  <2> QED BY <2>4, <2>5
<1>3. ASSUME NEW x, NEW a \in hubPool'[h], x = <<"hub", token'[h][a], h, a>>
      PROVE  AtHub(token', hubPool', x)
  BY <1>3, Zenon DEF AtHub
<1>4. ASSUME NEW x, NEW a \in hubPool[h], x = <<"hub", token[h][a], h, a>>
      PROVE  AtHub(token, hubPool, x) /\ x[3] = h
  <2>1. AtHub(token, hubPool, x)
    BY <1>4, Zenon DEF AtHub
  <2> QED BY <1>4, <2>1
<1> QED BY <1>1, <1>2, <1>3, <1>4, Zenon

-----------------------------------------------------------------------------
(***************************************************************************)
(* What each operation does to the tokens on wires, and to the other ones. *)
(***************************************************************************)
\* The tokens of N come on the wires; those at rest are not concerned.
WiresGo(N) == \E f : WireMoves(f, N) /\ \A o : AtRest(o) => f[o] = o

\* The tokens at rest that leave.
Gone == {o \in Outstanding : AtRest(o) /\ ~AtRestNext(o)}

\* What is at rest stays or leaves.
RestsOrGoes == \A x : AtRestNext(x) => AtRest(x)

\* A step that takes nothing into pools and dispatches relocates what does not go.
LEMMA ShrinkMoves ==
  ASSUME NEW N, WiresGo(N), RestsOrGoes, IsFiniteSet(N), \A x \in N : OnWire(x)
  PROVE  \E f : Moves(f, Gone, N)
<1>1. PICK f : WireMoves(f, N) /\ \A o : AtRest(o) => f[o] = o
  BY DEF WiresGo
<1>2. \A x : x \in Gone <=> AtRest(x) /\ ~AtRestNext(x)
  BY KindOfPlace, Zenon DEF Gone
<1>3. PICK G : G = Gone
  OBVIOUS
<1>4. RestMoves(f, G, N)
  BY <1>1, <1>2, <1>3, RestShrinks, Zenon DEF RestsOrGoes
<1>5. Moves(f, G, N)
  BY <1>1, <1>4, MovesCombine, Zenon
<1> QED BY <1>3, <1>5

\* There are functions that say where tokens stay, and where a report takes them.
LEMMA SomeWay ==
  ASSUME NEW w
  PROVE  /\ \E f : \A o \in Outstanding : f[o] = o
         /\ \E f : \A o \in Outstanding : f[o] = Reaches(w, o)
<1>1. \A o \in Outstanding : [x \in Outstanding |-> x][o] = o
  OBVIOUS
<1>2. \A o \in Outstanding : [x \in Outstanding |-> Reaches(w, x)][o] = Reaches(w, o)
  OBVIOUS
<1> QED BY <1>1, <1>2

\* Nothing goes if buffers and queues are left alone.
LEMMA QuietGo ==
  ASSUME UNCHANGED <<outBuffer, hubQueue>>
  PROVE  WiresGo({}) /\ Adjusting' = Adjusting
<1>1. PICK f : \A o \in Outstanding : f[o] = o
  BY SomeWay
<1>2. \A o : (AtWire(o) => f[o] = o) /\ (AtRest(o) => f[o] = o)
  BY <1>1, KindOfPlace, Zenon
<1>3. WireMoves(f, {})
  BY <1>2, QuietWires
<1>4. Adjusting' = Adjusting
  BY DEF Adjusting
<1> QED BY <1>2, <1>3, <1>4 DEF WiresGo

\* A message of one token, or none, to a hub.
LEMMA SendGo ==
  ASSUME Shapes, NEW h \in Hub, NEW p \in Worker, NEW msg, NEW n, Appends(h, p, msg, n),
         outBuffer' = outBuffer
  PROVE  /\ msg.tokens = <<>> => WiresGo({})
         /\ \A t : msg.tokens = <<t>> => WiresGo({<<"queue", t, h, p, n, 1>>})
         /\ Adjusting' = Adjusting \cup {y \in {<<h, p, n>>} : msg.adjust = 1}
         /\ <<h, p, n>> \notin Adjusting
<1>1. PICK f : \A o \in Outstanding : f[o] = o
  BY SomeWay
<1>2. \A o : (AtWire(o) => f[o] = o) /\ (AtRest(o) => f[o] = o)
  BY <1>1, KindOfPlace, Zenon
<1>3. ASSUME msg.tokens = <<>> PROVE WiresGo({})
  <2>1. \A x : x \in {} /\ OnWire(x) <=>
           \E j \in DOMAIN msg.tokens : x = <<"queue", msg.tokens[j], h, p, n, j>>
    BY <1>3
  <2>2. WireMoves(f, {})
    BY <1>2, <2>1, SendWires, Zenon
  <2> QED BY <1>2, <2>2 DEF WiresGo
<1>4. ASSUME NEW t, msg.tokens = <<t>> PROVE WiresGo({<<"queue", t, h, p, n, 1>>})
  <2>1. PICK N : N = {<<"queue", t, h, p, n, 1>>}
    OBVIOUS
  <2>2. \A x : x \in N /\ OnWire(x) <=>
           \E j \in DOMAIN msg.tokens : x = <<"queue", msg.tokens[j], h, p, n, j>>
    BY <1>4, <2>1 DEF OnWire
  <2>3. WireMoves(f, N)
    BY <1>2, <2>2, SendWires, Zenon
  <2> QED BY <1>2, <2>1, <2>3 DEF WiresGo
<1>5. /\ \A x : AtQueue(hubQueue', x) <=>
           \/ AtQueue(hubQueue, x)
           \/ \E j \in DOMAIN msg.tokens : x = <<"queue", msg.tokens[j], h, p, n, j>>
      /\ \A x : AtQueue(hubQueue, x) => ~(x[3] = h /\ x[4] = p /\ x[5] = n)
      /\ Adjusting' = Adjusting \cup {y \in {<<h, p, n>>} : msg.adjust = 1}
      /\ <<h, p, n>> \notin Adjusting
  BY QueueGrows, Zenon
<1> QED BY <1>3, <1>4, <1>5

\* All that is buffered is sent, and with it the tokens after that.
LEMMA PostGo ==
  ASSUME WorkAssumption, Shapes, NEW w \in RemoteWorker, NEW tokens, NEW acked, NEW n,
         PostsAll(w, tokens, acked, n), NEW N,
         \A x : x \in N /\ OnWire(x) <=>
           \E i \in DOMAIN tokens \ DOMAIN outBuffer[w] : x = Posted(w, tokens, n, i)
  PROVE  WiresGo(N) /\ Adjusting' = Adjusting
<1>1. PICK f : \A o \in Outstanding : f[o] = Reaches(w, o)
  BY SomeWay
<1>2. \A o : AtRest(o) => Reaches(w, o) = o
  <2>1. PICK m : m = Len(hubQueue[HubOf[w]][w]) + 1
    OBVIOUS
  <2> QED BY <2>1, ReachesPlace, Zenon DEF AtRest
<1>3. \A o : (AtWire(o) => f[o] = Reaches(w, o)) /\ (AtRest(o) => f[o] = o)
  BY <1>1, <1>2, KindOfPlace, Zenon
<1>4. WireMoves(f, N)
  <2>1. \A o : AtWire(o) => f[o] = Reaches(w, o)
    BY <1>3
  <2> QED BY <2>1, PostWires
<1>5. /\ \A x : AtBuffer(outBuffer', x) \/ AtQueue(hubQueue', x) <=>
              \/ \E o : AtWire(o) /\ x = Reaches(w, o)
              \/ \E i \in DOMAIN tokens \ DOMAIN outBuffer[w] : x = Posted(w, tokens, n, i)
      /\ Adjusting' = Adjusting
  BY PostMoves, Zenon
<1> QED BY <1>3, <1>4, <1>5 DEF WiresGo

\* A report of what is buffered.
LEMMA ReportGo ==
  ASSUME WorkAssumption, Shapes, NEW w \in RemoteWorker, NEW acked,
         SendReport(w, outBuffer[w], acked)
  PROVE  WiresGo({}) /\ Adjusting' = Adjusting
<1>1. PICK n : n = Len(hubQueue[HubOf[w]][w]) + 1
  OBVIOUS
<1>2. PICK tokens : tokens = outBuffer[w]
  OBVIOUS
<1>3. PostsAll(w, tokens, acked, n)
  BY <1>1, <1>2 DEF PostsAll, Posts, SendReport
<1>4. \A x : x \in {} /\ OnWire(x) <=>
           \E i \in DOMAIN tokens \ DOMAIN outBuffer[w] : x = Posted(w, tokens, n, i)
  BY <1>2
<1> QED BY <1>3, <1>4, PostGo, Zenon

\* The acknowledgement of a delivery, which may make the buffer go too.
LEMMA AddGo ==
  ASSUME WorkAssumption, Shapes, NEW w \in Worker, NEW c, NEW b, NEW a,
         AddToWorkerPool(w, c, b, a)
  PROVE  WiresGo({}) /\ Adjusting' = Adjusting
<1>1. CASE w \in Hub
  <2>1. UNCHANGED <<outBuffer, hubQueue>>
    BY <1>1, Zenon DEF AddToWorkerPool, report
  <2> QED BY <2>1, QuietGo
<1>2. CASE w \notin Hub
  <2> DEFINE acked == Append(acks[w], [address |-> a, sub |-> b])
  <2>1. w \in RemoteWorker
    BY <1>2 DEF RemoteWorker
  <2>2. \/ SendReport(w, outBuffer[w], acked)
        \/ UNCHANGED <<outBuffer, hubQueue>>
    BY <1>2, Zenon DEF AddToWorkerPool
  <2> HIDE DEF acked
  <2>3. CASE SendReport(w, outBuffer[w], acked)
    BY <2>1, <2>3, ReportGo, Zenon
  <2> QED BY <2>2, <2>3, QuietGo
<1> QED BY <1>1, <1>2

\* The tokens at rest when no hub does anything.
LEMMA HubsQuiet ==
  ASSUME UNCHANGED <<token, hubPool>>
  PROVE  /\ (\A m : m.type = "dispatch" => (m \in network' <=> m \in network)) =>
              RestsOrGoes /\ Gone = {}
         /\ \A m : network' = network \ {m} =>
              /\ RestsOrGoes
              /\ Gone = {x \in {<<"dispatch", m.token, m>>} : m \in network /\ m.type = "dispatch"}
<1>1. \A x : AtHub(token', hubPool', x) <=> AtHub(token, hubPool, x)
  BY Zenon
<1>2. ASSUME \A m : m.type = "dispatch" => (m \in network' <=> m \in network)
      PROVE  RestsOrGoes /\ Gone = {}
  <2>1. \A x : AtDispatch(network', x) <=> AtDispatch(network, x)
    BY <1>2, Zenon DEF AtDispatch
  <2> QED BY <1>1, <2>1 DEF RestsOrGoes, Gone, AtRest, AtRestNext
<1>3. ASSUME NEW m, network' = network \ {m}
      PROVE  /\ RestsOrGoes
             /\ Gone = {x \in {<<"dispatch", m.token, m>>} : m \in network /\ m.type = "dispatch"}
  <2> DEFINE y == <<"dispatch", m.token, m>>
  <2>1. \A x : AtDispatch(network', x) <=> AtDispatch(network, x) /\ x # y
    <3>1. \A x : AtDispatch(network', x) => AtDispatch(network, x) /\ x # y
      <4> SUFFICES ASSUME NEW x, AtDispatch(network', x) PROVE AtDispatch(network, x) /\ x # y
        OBVIOUS
      <4>1. PICK n \in network' : n.type = "dispatch" /\ x = <<"dispatch", n.token, n>>
        BY Zenon DEF AtDispatch
      <4>2. n \in network /\ n # m /\ x[3] = n
        BY <1>3, <4>1
      <4> QED BY <4>1, <4>2 DEF AtDispatch
    <3>2. \A x : AtDispatch(network, x) /\ x # y => AtDispatch(network', x)
      <4> SUFFICES ASSUME NEW x, AtDispatch(network, x), x # y PROVE AtDispatch(network', x)
        OBVIOUS
      <4>1. PICK n \in network : n.type = "dispatch" /\ x = <<"dispatch", n.token, n>>
        BY Zenon DEF AtDispatch
      <4>2. n \in network'
        BY <1>3, <4>1
      <4> QED BY <4>1, <4>2, Zenon DEF AtDispatch
    <3> QED BY <3>1, <3>2
  <2>2. AtDispatch(network, y) <=> m \in network /\ m.type = "dispatch"
    <3>1. AtDispatch(network, y) => m \in network /\ m.type = "dispatch"
      <4> SUFFICES ASSUME AtDispatch(network, y) PROVE m \in network /\ m.type = "dispatch"
        OBVIOUS
      <4>1. PICK n \in network : n.type = "dispatch" /\ y = <<"dispatch", n.token, n>>
        BY Zenon DEF AtDispatch
      <4>2. y[3] = m /\ y[3] = n
        BY <4>1
      <4> QED BY <4>1, <4>2
    <3>2. m \in network /\ m.type = "dispatch" => AtDispatch(network, y)
      BY Zenon DEF AtDispatch
    <3> QED BY <3>1, <3>2
  <2>3. ~AtHub(token, hubPool, y)
    <3>1. y[1] = "dispatch"
      OBVIOUS
    <3>2. AtHub(token, hubPool, y) => y[1] = "hub"
      BY PlaceKinds
    <3> QED BY <3>1, <3>2
  <2> HIDE DEF y
  <2>4. RestsOrGoes
    BY <1>1, <2>1 DEF RestsOrGoes, AtRest, AtRestNext
  <2>5. \A x : x \in Gone <=> x = y /\ m \in network /\ m.type = "dispatch"
    <3>1. \A x : x \in Gone <=> AtRest(x) /\ ~AtRestNext(x)
      BY KindOfPlace, Zenon DEF Gone
    <3> QED BY <1>1, <2>1, <2>2, <2>3, <3>1 DEF AtRest, AtRestNext
  <2> QED BY <2>4, <2>5 DEF y
<1> QED BY <1>2, <1>3

-----------------------------------------------------------------------------
(***************************************************************************)
(* The invariant: the data of each token is there; each problem has as     *)
(* many tokens as are counted; what is counted suits the data; and the     *)
(* messages are counted.                                                   *)
(***************************************************************************)
HasData(t) ==
  IF t.self
  THEN t.sub \in serverPool[t.owner] \ separated
  ELSE t.sub \in workerPool[t.owner] \cup serverPool[t.owner] /\ childrenLeft[t.sub] # {}

\* What is known of a token that is outstanding.
DataOf(t) ==
  /\ t \in Token
  /\ ~t.self => t.sub \in separated
  /\ CanFathom(t.owner, t.sub) \/ HasData(t)

\* tokenCount[s] counts the tokens for s that are outstanding.
CountsOf(s) ==
  /\ Cardinality(TokensFor(s)) <= tokenCount[s]
  /\ Bound[s] < Best => Cardinality(TokensFor(s)) = tokenCount[s]

\* A problem has no tokens before it is made and while it is delivered.
Supplied(s) ==
  /\ s \notin Made => tokenCount[s] = 0
  /\ \A m \in network : m.type = "deliver" /\ m.sub = s => tokenCount[s] = 0
  /\ \A w \in Worker :
       /\ s \in serverPool[w] =>
            tokenCount[s] = IF s \in separated THEN Cardinality(childrenLeft[s]) ELSE 1
       /\ s \in workerPool[w] =>
            IF s \in separated THEN tokenCount[s] < Cardinality(childrenLeft[s])
                               ELSE tokenCount[s] = 0

\* The tokens are counted, and point to data.
Tallied ==
  /\ IsFiniteSet(Outstanding)
  /\ \A o \in Outstanding : DataOf(TokenOf(o))
  /\ \A s \in Sub : CountsOf(s) /\ Supplied(s)

\* The message counts are right.
Balanced == IsFiniteSet(network) /\ IsFiniteSet(Adjusting) /\ CountsMatchMessages

\* What a step may rely on.
Better == /\ \A p \in Proc : incumbent'[p] <= incumbent[p]
          /\ Best \in Nat /\ Best' \in Nat /\ Best' <= Best

\* What is known of a step, of the tokens before it too.
Counted == Step /\ Better /\ Tallied /\ Balanced

-----------------------------------------------------------------------------
(***************************************************************************)
(* Tokens and counts from one state to the next.                           *)
(***************************************************************************)
LEMMA IncumbentsImprove ==
  ASSUME WorkAssumption, Shapes, Shapes', StepKeeps
  PROVE  Better
<1>1. Best \in Nat /\ \A p \in Proc : incumbent[p] \in Nat /\ Best <= incumbent[p]
  BY BestIsLeast
<1>2. \A p \in Proc : incumbent'[p] <= incumbent[p]
  BY DEF StepKeeps
<1>3. incumbent \in [Proc -> Nat] /\ incumbent' \in [Proc -> Nat]
  BY DEF Shapes
<1>4. PICK v : v = incumbent'
  OBVIOUS
<1>5. v \in [Proc -> Nat] /\ Best' = Min(Range(v))
  BY <1>3, <1>4 DEF Best
<1>6. Best' \in Nat /\ \A p \in Proc : Best' <= incumbent'[p]
  BY <1>4, <1>5, LeastValue
<1>7. \E p \in Proc : Best = incumbent[p]
  BY <1>3, LeastValue DEF Best
<1>8. Best' <= Best
  <2>1. PICK p \in Proc : Best = incumbent[p]
    BY <1>7
  <2>2. incumbent[p] \in Nat /\ incumbent'[p] \in Nat
    BY <1>3
  <2> QED BY <1>2, <1>6, <2>1, <2>2
<1> QED BY <1>1, <1>2, <1>6, <1>8 DEF Better

\* A token's data stays there or becomes fathomable.
LEMMA DataStays ==
  ASSUME WorkAssumption, Shapes, Shapes', Better, NEW t, DataOf(t), separated \subseteq separated',
         HasData(t) => HasData(t)' \/ Bound[t.sub] >= incumbent'[t.owner]
  PROVE  DataOf(t)'
<1>1. t \in Token /\ t.owner \in Proc /\ t.sub \in Sub
  BY DEF DataOf, Token, Proc
<1>2. /\ incumbent[t.owner] \in Nat /\ incumbent'[t.owner] \in Nat
      /\ incumbent'[t.owner] <= incumbent[t.owner]
  BY <1>1 DEF Shapes, Better
<1>3. Bound[t.sub] \in Nat
  BY <1>1 DEF WorkAssumption
<1>4. CanFathom(t.owner, t.sub) => Bound[t.sub] >= incumbent'[t.owner]
  BY <1>2, <1>3 DEF CanFathom
<1>5. CanFathom(t.owner, t.sub)' <=> Bound[t.sub] >= incumbent'[t.owner]
  BY DEF CanFathom
<1> QED BY <1>1, <1>4, <1>5, Zenon DEF DataOf

\* As many new tokens as are counted.
LEMMA CountStays ==
  ASSUME NEW f, NEW G, NEW N, Relocates(f, G, N), IsFiniteSet(N), IsFiniteSet(Outstanding),
         NEW s, CountsOf(s), NEW k \in Nat, Cardinality(NewFor(N, s)) = k,
         tokenCount[s] \in Int, tokenCount'[s] = tokenCount[s] + k,
         Bound[s] \in Nat, Best \in Nat, Best' \in Nat, Best' <= Best,
         \A o \in TokensFor(s) : o \in G => Bound[s] >= Best'
  PROVE  CountsOf(s)'
<1>1. /\ Cardinality(TokensFor(s)') = Cardinality(TokensFor(s) \ G) + k
      /\ Cardinality(TokensFor(s) \ G) \in Nat
  <2>1. /\ IsFiniteSet(Outstanding')
        /\ Cardinality(TokensFor(s)') =
             Cardinality(TokensFor(s) \ G) + Cardinality(NewFor(N, s))
        /\ Cardinality(TokensFor(s)') \in Nat
        /\ Cardinality(TokensFor(s) \ G) \in Nat
        /\ Cardinality(NewFor(N, s)) \in Nat
    BY CountTokens, Zenon
  <2> QED BY <2>1, Zenon
<1>2. /\ Cardinality(TokensFor(s) \ G) <= Cardinality(TokensFor(s))
      /\ Cardinality(TokensFor(s)) \in Nat
  <2>1. TokensFor(s) \subseteq Outstanding /\ TokensFor(s) \ G \subseteq TokensFor(s)
    BY DEF TokensFor
  <2> QED BY <2>1, CountPart, Zenon
<1>3. Bound[s] < Best' => TokensFor(s) \ G = TokensFor(s)
  OBVIOUS
<1>4. /\ Cardinality(TokensFor(s)') <= tokenCount'[s]
      /\ Bound[s] < Best' => Cardinality(TokensFor(s)') = tokenCount'[s]
  <2>1. PICK a, b, d : /\ a = Cardinality(TokensFor(s) \ G) /\ b = Cardinality(TokensFor(s))
                       /\ d = Cardinality(TokensFor(s)')
    OBVIOUS
  <2>2. a \in Nat /\ b \in Nat /\ d = a + k /\ a <= b
    BY <1>1, <1>2, <2>1
  <2>3. Bound[s] < Best' => a = b
    BY <1>3, <2>1
  <2>4. b <= tokenCount[s] /\ (Bound[s] < Best => b = tokenCount[s])
    BY <2>1 DEF CountsOf
  <2>5. d <= tokenCount'[s] /\ (Bound[s] < Best' => d = tokenCount'[s])
    BY <2>2, <2>3, <2>4
  <2> QED BY <2>1, <2>5
<1> QED BY <1>4 DEF CountsOf

\* One token less, and counted.
LEMMA CountDrops ==
  ASSUME NEW f, NEW G, Relocates(f, G, {}), IsFiniteSet(Outstanding),
         NEW s, CountsOf(s), NEW y \in TokensFor(s), \A o \in TokensFor(s) : o \in G <=> o = y,
         tokenCount[s] \in Int, tokenCount'[s] = tokenCount[s] - 1,
         Bound[s] \in Nat, Best \in Nat, Best' \in Nat, Best' <= Best
  PROVE  CountsOf(s)'
<1>1. IsFiniteSet({}) /\ NewFor({}, s) = {} /\ Cardinality({}) = 0
  BY CountNone DEF NewFor
<1>2. /\ Cardinality(TokensFor(s)') =
           Cardinality(TokensFor(s) \ G) + Cardinality(NewFor({}, s))
      /\ Cardinality(TokensFor(s) \ G) \in Nat
  BY <1>1, CountTokens
<1>3. TokensFor(s) \ G = TokensFor(s) \ {y}
  OBVIOUS
<1>4. IsFiniteSet(TokensFor(s))
  <2>1. TokensFor(s) \subseteq Outstanding
    BY DEF TokensFor
  <2> QED BY <2>1, CountPart, Zenon
<1>5. /\ Cardinality(TokensFor(s)) \in Nat
      /\ Cardinality(TokensFor(s) \ {y}) = Cardinality(TokensFor(s)) - 1
  BY <1>4, CountOne
<1>6. Cardinality(TokensFor(s)') = Cardinality(TokensFor(s)) - 1
  BY <1>1, <1>2, <1>3, <1>5
<1>7. /\ Cardinality(TokensFor(s)') <= tokenCount'[s]
      /\ Bound[s] < Best' => Cardinality(TokensFor(s)') = tokenCount'[s]
  BY <1>5, <1>6 DEF CountsOf
<1> QED BY <1>7 DEF CountsOf

\* All of the next state from its parts.
LEMMA TalliedNext ==
  ASSUME Tallied, NEW f, NEW G, NEW N, Relocates(f, G, N), IsFiniteSet(N),
         \A o \in Outstanding \ G : DataOf(TokenOf(o)) => DataOf(TokenOf(o))',
         \A x \in N : DataOf(TokenOf(x))',
         \A s \in Sub : CountsOf(s)' /\ Supplied(s)'
  PROVE  Tallied'
<1>1. IsFiniteSet(Outstanding')
  <2>1. IsFiniteSet(Outstanding)
    BY DEF Tallied
  <2>2. \A s : IsFiniteSet(Outstanding')
    BY <2>1, CountTokens
  <2> QED BY <2>2
<1>2. ASSUME NEW x \in Outstanding' PROVE DataOf(TokenOf(x))'
  <2>1. CASE x \in N
    BY <2>1
  <2>2. CASE \E o \in Outstanding \ G : x = f[o]
    <3>1. PICK o \in Outstanding \ G : x = f[o]
      BY <2>2
    <3>2. TokenOf(x) = TokenOf(o)
      BY <3>1 DEF Relocates
    <3>3. DataOf(TokenOf(o))'
      BY <3>1 DEF Tallied
    <3>4. PICK t : t = TokenOf(o)
      OBVIOUS
    <3>5. TokenOf(x) = t
      BY <3>2, <3>4
    <3>6. DataOf(t)'
      BY <3>3, <3>4 DEF TokenOf
    <3> QED BY <3>5, <3>6
  <2> QED BY <1>2, <2>1, <2>2 DEF Relocates
<1>3. (\A o \in Outstanding : DataOf(TokenOf(o)))'
  BY <1>2
<1> QED BY <1>1, <1>3 DEF Tallied

\* What is counted suits the data while nothing is added to a pool.
LEMMA SupplyStays ==
  ASSUME UNCHANGED <<separated, childrenLeft, tokenCount>>,
         \A m \in network' : m.type = "deliver" => m \in network,
         \A w \in Worker : /\ workerPool'[w] \subseteq workerPool[w]
                           /\ serverPool'[w] \subseteq serverPool[w],
         NEW s, Supplied(s)
  PROVE  Supplied(s)'
<1>1. Made' = Made
  BY DEF Made
<1>2. (s \notin Made => tokenCount[s] = 0)'
  BY <1>1 DEF Supplied
<1>3. (\A m \in network : m.type = "deliver" /\ m.sub = s => tokenCount[s] = 0)'
  BY DEF Supplied
<1>4. (\A w \in Worker :
         /\ s \in serverPool[w] =>
              tokenCount[s] = IF s \in separated THEN Cardinality(childrenLeft[s]) ELSE 1
         /\ s \in workerPool[w] =>
              IF s \in separated THEN tokenCount[s] < Cardinality(childrenLeft[s])
                                 ELSE tokenCount[s] = 0)'
  BY DEF Supplied
<1> QED BY <1>2, <1>3, <1>4 DEF Supplied

\* What leaves the pools can be fathomed.
Pruned ==
  \A w \in Worker :
    /\ workerPool'[w] \subseteq workerPool[w] /\ serverPool'[w] \subseteq serverPool[w]
    /\ \A s \in workerPool[w] \cup serverPool[w] :
         Bound[s] >= incumbent'[w]
           \/ /\ s \in workerPool[w] => s \in workerPool'[w]
              /\ s \in serverPool[w] => s \in serverPool'[w]

\* A step that prunes, or drops tokens of problems no better than an incumbent.
LEMMA ShrinkTally ==
  ASSUME Counted, NEW f, NEW G, Relocates(f, G, {}),
         \A o \in Outstanding : o \in G => Bound[TokenOf(o).sub] >= Best',
         UNCHANGED <<separated, childrenLeft, tokenCount>>,
         \A m \in network' : m.type = "deliver" => m \in network, Pruned
  PROVE  Tallied'
<1>1. /\ WorkAssumption /\ Shapes /\ Shapes' /\ Better /\ Tallied
  BY DEF Counted, Step, Core
<1>2. ASSUME NEW o \in Outstanding \ G, DataOf(TokenOf(o)) PROVE DataOf(TokenOf(o))'
  <2>1. PICK t : t = TokenOf(o)
    OBVIOUS
  <2>2. DataOf(t)
    BY <1>2, <2>1
  <2>3. t.owner \in Worker
    BY <2>2 DEF DataOf, Token
  <2>4. HasData(t) => HasData(t)' \/ Bound[t.sub] >= incumbent'[t.owner]
    <3>1. CASE t.self
      BY <2>3, <3>1 DEF HasData, Pruned
    <3>2. CASE ~t.self
      BY <2>3, <3>2 DEF HasData, Pruned
    <3> QED BY <3>1, <3>2
  <2>5. DataOf(t)'
    BY <1>1, <2>2, <2>4, DataStays
  <2> QED BY <2>1, <2>5 DEF TokenOf
<1>3. ASSUME NEW s \in Sub PROVE CountsOf(s)' /\ Supplied(s)'
  <2>1. CountsOf(s) /\ Supplied(s) /\ IsFiniteSet(Outstanding)
    BY <1>1 DEF Tallied
  <2>2. IsFiniteSet({}) /\ Cardinality({}) = 0 /\ NewFor({}, s) = {}
    BY CountNone DEF NewFor
  <2>3. tokenCount[s] \in Int /\ tokenCount'[s] = tokenCount[s] + 0
    BY <1>1 DEF Shapes
  <2>4. Bound[s] \in Nat /\ Best \in Nat /\ Best' \in Nat /\ Best' <= Best
    BY <1>1 DEF WorkAssumption, Better
  <2>5. \A o \in TokensFor(s) : o \in G => Bound[s] >= Best'
    BY DEF TokensFor
  <2>6. Cardinality(NewFor({}, s)) = 0 /\ 0 \in Nat
    BY <2>2
  <2>7. CountsOf(s)'
    BY <2>1, <2>2, <2>3, <2>4, <2>5, <2>6, CountStays
  <2>8. \A w \in Worker : /\ workerPool'[w] \subseteq workerPool[w]
                          /\ serverPool'[w] \subseteq serverPool[w]
    BY DEF Pruned
  <2> QED BY <2>1, <2>7, <2>8, SupplyStays
<1>4. IsFiniteSet({}) /\ \A x \in {} : DataOf(TokenOf(x))'
  BY CountNone
<1> QED BY <1>1, <1>2, <1>3, <1>4, TalliedNext

\* The message counts, and what they count.
LEMMA BalanceNow ==
  /\ Balanced <=> /\ IsFiniteSet(network) /\ IsFiniteSet(Adjusting)
                  /\ hubDispatch = Cardinality(network) + Cardinality(Adjusting)
                  /\ localScatter = Cardinality(Wires(TRUE))
                  /\ nonLocalScatter = Cardinality(Wires(FALSE))
  /\ Balanced' <=> /\ IsFiniteSet(network') /\ IsFiniteSet(Adjusting')
                   /\ hubDispatch' = Cardinality(network') + Cardinality(Adjusting')
                   /\ localScatter' = Cardinality(Wires(TRUE)')
                   /\ nonLocalScatter' = Cardinality(Wires(FALSE)')
<1>1. Wires(TRUE) = {o \in Outstanding : IsNear(o)} /\ Wires(FALSE) = {o \in Outstanding : IsFar(o)}
  BY DEF Wires
<1>2. /\ Wires(TRUE)' = {o \in Outstanding' : IsNear(o)}
      /\ Wires(FALSE)' = {o \in Outstanding' : IsFar(o)}
  BY DEF Wires, IsNear, IsFar
<1>3. /\ {o \in Outstanding : IsNear(o)}' = {o \in Outstanding' : IsNear(o)}
      /\ {o \in Outstanding : IsFar(o)}' = {o \in Outstanding' : IsFar(o)}
  BY DEF IsNear, IsFar
<1> QED BY <1>1, <1>2, <1>3, Zenon DEF Balanced, CountsMatchMessages

\* The wires are as full as before.
LEMMA WiresBalance ==
  ASSUME Counted, NEW f, NEW G, Moves(f, G, {}), UNCHANGED <<localScatter, nonLocalScatter>>,
         IsFiniteSet(network'), IsFiniteSet(Adjusting'),
         hubDispatch' = Cardinality(network') + Cardinality(Adjusting')
  PROVE  Balanced'
<1>1. IsFiniteSet(Outstanding) /\ Balanced
  BY DEF Counted, Tallied
<1>2. /\ Cardinality(Wires(TRUE)') = Cardinality(Wires(TRUE)) + Cardinality({x \in {} : IsNear(x)})
      /\ Cardinality(Wires(FALSE)') = Cardinality(Wires(FALSE)) + Cardinality({x \in {} : IsFar(x)})
  BY <1>1, MovesCount
<1>3. Cardinality({x \in {} : IsNear(x)}) = 0 /\ Cardinality({x \in {} : IsFar(x)}) = 0
  <2>1. {x \in {} : IsNear(x)} = {} /\ {x \in {} : IsFar(x)} = {}
    OBVIOUS
  <2> QED BY <2>1, CountNone
<1>4. localScatter = Cardinality(Wires(TRUE)) /\ nonLocalScatter = Cardinality(Wires(FALSE))
  BY <1>1, BalanceNow
<1>5. Cardinality(Wires(TRUE)) \in Nat /\ Cardinality(Wires(FALSE)) \in Nat
  <2>1. Wires(TRUE) \subseteq Outstanding /\ Wires(FALSE) \subseteq Outstanding
    BY DEF Wires
  <2> QED BY <1>1, <2>1, CountPart, Zenon
<1>6. localScatter' = Cardinality(Wires(TRUE)') /\ nonLocalScatter' = Cardinality(Wires(FALSE)')
  <2>1. PICK a, b, c, d : /\ a = Cardinality(Wires(TRUE)) /\ b = Cardinality(Wires(FALSE))
                          /\ c = Cardinality(Wires(TRUE)') /\ d = Cardinality(Wires(FALSE)')
    OBVIOUS
  <2>2. a \in Nat /\ b \in Nat /\ c = a + 0 /\ d = b + 0
    BY <1>2, <1>3, <1>5, <2>1, Zenon
  <2>3. c = a /\ d = b
    BY <2>2
  <2> QED BY <1>4, <2>1, <2>3, Zenon
<1> QED BY <1>6, BalanceNow

\* The same, with the messages.
LEMMA ShrinkCount ==
  ASSUME Counted, WiresGo({}), RestsOrGoes, \A o \in Gone : Bound[TokenOf(o).sub] >= Best',
         UNCHANGED <<separated, childrenLeft, tokenCount, localScatter, nonLocalScatter>>,
         \A m \in network' : m.type = "deliver" => m \in network, Pruned,
         IsFiniteSet(network'), IsFiniteSet(Adjusting'),
         hubDispatch' = Cardinality(network') + Cardinality(Adjusting')
  PROVE  Tallied' /\ Balanced'
<1>1. IsFiniteSet({})
  BY CountNone
<1>2. PICK f : Moves(f, Gone, {})
  BY <1>1, ShrinkMoves
<1>3. PICK G : G = Gone
  OBVIOUS
<1>4. Moves(f, G, {}) /\ Relocates(f, G, {})
  BY <1>2, <1>3 DEF Moves
<1>5. \A o \in Outstanding : o \in G => Bound[TokenOf(o).sub] >= Best'
  BY <1>3
<1>6. Tallied'
  BY <1>4, <1>5, ShrinkTally
<1>7. Balanced'
  BY <1>4, WiresBalance
<1> QED BY <1>6, <1>7

\* Nothing but where messages are changes.
LEMMA StillCount ==
  ASSUME Counted, WiresGo({}), RestsOrGoes, \A o \in Gone : Bound[TokenOf(o).sub] >= Best',
         UNCHANGED <<separated, childrenLeft, tokenCount, network, counts>>, Pruned,
         Adjusting' = Adjusting
  PROVE  Tallied' /\ Balanced'
<1>1. /\ IsFiniteSet(network') /\ IsFiniteSet(Adjusting')
      /\ hubDispatch' = Cardinality(network') + Cardinality(Adjusting')
  <2>1. /\ IsFiniteSet(network) /\ IsFiniteSet(Adjusting)
        /\ hubDispatch = Cardinality(network) + Cardinality(Adjusting)
    BY BalanceNow DEF Counted
  <2> QED BY <2>1 DEF counts
<1>2. UNCHANGED <<localScatter, nonLocalScatter>>
  BY DEF counts
<1> QED BY <1>1, <1>2, ShrinkCount

\* Pools that are left alone are not pruned wrongly.
LEMMA NoPruning ==
  ASSUME UNCHANGED <<workerPool, serverPool>>
  PROVE  Pruned
BY DEF Pruned

\* A report.
LEMMA CommunicateCount ==
  ASSUME Counted, NEW w \in RemoteWorker, Communicate(w)
  PROVE  Tallied' /\ Balanced'
<1>1. WorkAssumption /\ Shapes
  BY DEF Counted, Step, Core
<1>2. /\ SendReport(w, outBuffer[w], acks[w])
      /\ UNCHANGED <<workerPool, serverPool, separated, childrenLeft, tokenCount>>
      /\ UNCHANGED <<token, hubPool, network, counts>>
  BY DEF Communicate, search, hubState
<1>3. WiresGo({}) /\ Adjusting' = Adjusting
  BY <1>1, <1>2, ReportGo
<1>4. RestsOrGoes /\ Gone = {}
  BY <1>2, HubsQuiet
<1>5. Pruned
  BY <1>2, NoPruning
<1> QED BY <1>2, <1>3, <1>4, <1>5, StillCount

\* A better incumbent is learned of.
LEMMA LearnCount ==
  ASSUME Counted, NEW p \in Proc, LearnIncumbent(p)
  PROVE  Tallied' /\ Balanced'
<1>1. /\ UNCHANGED <<outBuffer, hubQueue>>
      /\ UNCHANGED <<workerPool, serverPool, separated, childrenLeft, tokenCount>>
      /\ UNCHANGED <<token, hubPool, network, counts>>
  BY DEF LearnIncumbent, search, report, hubState
<1>2. WiresGo({}) /\ Adjusting' = Adjusting
  BY <1>1, QuietGo
<1>3. RestsOrGoes /\ Gone = {}
  BY <1>1, HubsQuiet
<1>4. Pruned
  BY <1>1, NoPruning
<1> QED BY <1>1, <1>2, <1>3, <1>4, StillCount

\* The tokens a hub prunes can be fathomed.
LEMMA HubPruneGo ==
  ASSUME WorkAssumption, Shapes, NEW h \in Hub, HubIsSound(h), NEW v \in Nat, HubPrune(h, v),
         network' = network
  PROVE  RestsOrGoes /\ \A o \in Gone : Bound[TokenOf(o).sub] >= v
<1> DEFINE live == {a \in Address : token[h][a] # NoToken /\ token[h][a].sub \in Below(v, Sub)}
<1>1. /\ token \in [Hub -> [Address -> Token \cup {NoToken}]] /\ hubPool \in [Hub -> SUBSET Address]
  BY DEF Shapes
<1>2. /\ token' = [token EXCEPT ![h] = [a \in Address |-> IF a \in live THEN @[a] ELSE NoToken]]
      /\ hubPool' = [hubPool EXCEPT ![h] = @ \cap live]
  BY Zenon DEF HubPrune
<1>3. /\ \A g \in Hub : g # h => hubPool'[g] = hubPool[g] /\ token'[g] = token[g]
      /\ hubPool'[h] = hubPool[h] \cap live
      /\ \A a \in live : token'[h][a] = token[h][a]
  <2> HIDE DEF live
  <2>1. /\ \A g \in Hub : g # h => hubPool'[g] = hubPool[g] /\ token'[g] = token[g]
        /\ hubPool'[h] = hubPool[h] \cap live
    BY <1>1, <1>2
  <2>2. token'[h] = [a \in Address |-> IF a \in live THEN token[h][a] ELSE NoToken]
    BY <1>1, <1>2
  <2>3. live \subseteq Address
    BY DEF live
  <2> QED BY <2>1, <2>2, <2>3
<1>4. \A a \in hubPool[h] : token[h][a] \in Token /\ a \in Address
  BY <1>1 DEF HubIsSound, PoolsApart
<1>5. /\ \A x : AtHub(token', hubPool', x) <=>
           \/ AtHub(token, hubPool, x) /\ x[3] # h
           \/ \E a \in hubPool'[h] : x = <<"hub", token'[h][a], h, a>>
      /\ \A x : AtHub(token, hubPool, x) /\ x[3] = h <=>
           \E a \in hubPool[h] : x = <<"hub", token[h][a], h, a>>
  BY <1>3, HubPlaces
<1>6. ASSUME NEW x, AtHub(token', hubPool', x) PROVE AtHub(token, hubPool, x)
  <2>1. CASE \E a \in hubPool'[h] : x = <<"hub", token'[h][a], h, a>>
    <3>1. PICK a \in hubPool'[h] : x = <<"hub", token'[h][a], h, a>>
      BY <2>1
    <3> HIDE DEF live
    <3>2. a \in hubPool[h] /\ x = <<"hub", token[h][a], h, a>>
      BY <1>3, <3>1
    <3> QED BY <1>5, <3>2
  <2> QED BY <1>5, <1>6, <2>1, Zenon
<1>7. ASSUME NEW x, AtHub(token, hubPool, x), ~AtHub(token', hubPool', x)
      PROVE  Bound[TokenOf(x).sub] >= v
  <2>1. x[3] = h
    BY <1>5, <1>7, Zenon
  <2>2. PICK a \in hubPool[h] : x = <<"hub", token[h][a], h, a>>
    BY <1>5, <1>7, <2>1
  <2>3. a \notin live
    <3>1. ASSUME a \in live PROVE FALSE
      <4> HIDE DEF live
      <4>1. a \in hubPool'[h] /\ x = <<"hub", token'[h][a], h, a>>
        BY <1>3, <2>2, <3>1
      <4> QED BY <1>5, <1>7, <4>1
    <3> QED BY <3>1
  <2>4. token[h][a] # NoToken /\ a \in Address /\ token[h][a].sub \in Sub
    BY <1>4, FreeIsNoToken DEF Token
  <2>5. token[h][a].sub \notin Below(v, Sub)
    BY <2>3, <2>4
  <2>6. Bound[token[h][a].sub] \in Nat
    BY <2>4 DEF WorkAssumption
  <2>7. Bound[token[h][a].sub] >= v
    BY <2>4, <2>5, <2>6 DEF Below
  <2> QED BY <2>2, <2>7 DEF TokenOf
<1>8. \A x : AtDispatch(network', x) <=> AtDispatch(network, x)
  BY Zenon
<1>9. RestsOrGoes
  BY <1>6, <1>8 DEF RestsOrGoes, AtRest, AtRestNext
<1>10. ASSUME NEW o \in Gone PROVE Bound[TokenOf(o).sub] >= v
  BY <1>7, <1>8, <1>10 DEF Gone, AtRest, AtRestNext
<1> QED BY <1>9, <1>10

\* The pools of a processor are pruned.
LEMMA PruneCount ==
  ASSUME Counted, NEW p \in Proc, NEW v \in Nat, PrunePools(p, v), incumbent'[p] = v,
         UNCHANGED <<separated, childrenLeft, tokenCount, network, counts>>
  PROVE  Tallied' /\ Balanced'
<1>1. WorkAssumption /\ Shapes /\ Shapes' /\ \A h \in Hub : HubIsSound(h)
  BY DEF Counted, Step, Core, Addressed
<1>2. Best' \in Nat /\ Best' <= v
  <2>1. incumbent' \in [Proc -> Nat]
    BY <1>1 DEF Shapes
  <2>2. PICK i : i = incumbent'
    OBVIOUS
  <2>3. Best' = Min(Range(i)) /\ i \in [Proc -> Nat] /\ i[p] = v
    BY <2>1, <2>2 DEF Best
  <2> QED BY <2>3, <1>1, LeastValue
<1>3. Pruned
  <2>1. \A w \in Worker :
          /\ workerPool'[w] = IF w = p THEN Below(v, workerPool[p]) ELSE workerPool[w]
          /\ serverPool'[w] = IF w = p THEN Below(v, serverPool[p]) ELSE serverPool[w]
    BY <1>1, PruneEffect
  <2>2. \A w \in Worker : workerPool[w] \subseteq Sub /\ serverPool[w] \subseteq Sub
    BY <1>1 DEF Shapes
  <2>3. \A s \in Sub : Bound[s] \in Nat
    BY <1>1 DEF WorkAssumption
  <2>4. ASSUME NEW w \in Worker
        PROVE  /\ workerPool'[w] \subseteq workerPool[w] /\ serverPool'[w] \subseteq serverPool[w]
               /\ \A s \in workerPool[w] \cup serverPool[w] :
                    Bound[s] >= incumbent'[w]
                      \/ /\ s \in workerPool[w] => s \in workerPool'[w]
                         /\ s \in serverPool[w] => s \in serverPool'[w]
    <3>1. CASE w = p
      <4>1. /\ workerPool'[w] = Below(v, workerPool[w]) /\ serverPool'[w] = Below(v, serverPool[w])
            /\ incumbent'[w] = v
        BY <2>1, <3>1
      <4>2. \A s \in workerPool[w] \cup serverPool[w] : Bound[s] >= v \/ Bound[s] < v
        BY <2>2, <2>3
      <4> QED BY <4>1, <4>2 DEF Below
    <3>2. CASE w # p
      BY <2>1, <3>2
    <3> QED BY <3>1, <3>2
  <2> QED BY <2>4 DEF Pruned
<1>4. CASE p \in Hub
  <2>1. HubPrune(p, v) /\ UNCHANGED report
    BY <1>4 DEF PrunePools
  <2>2. UNCHANGED <<outBuffer, hubQueue>>
    BY <2>1 DEF report
  <2>3. WiresGo({}) /\ Adjusting' = Adjusting
    BY <2>2, QuietGo
  <2>4. RestsOrGoes /\ \A o \in Gone : Bound[TokenOf(o).sub] >= v
    BY <1>1, <1>4, <2>1, HubPruneGo
  <2>5. \A o \in Gone : Bound[TokenOf(o).sub] >= Best'
    <3>1. ASSUME NEW o \in Gone PROVE Bound[TokenOf(o).sub] >= Best'
      <4>1. TokenOf(o).sub \in Sub
        BY DEF Gone, Counted, Tallied, DataOf, Token
      <4>2. Bound[TokenOf(o).sub] \in Nat /\ Bound[TokenOf(o).sub] >= v
        BY <1>1, <2>4, <4>1 DEF WorkAssumption
      <4> QED BY <1>2, <4>2
    <3> QED BY <3>1
  <2> QED BY <1>3, <2>3, <2>4, <2>5, StillCount
<1>5. CASE p \notin Hub
  <2>1. p \in RemoteWorker
    BY <1>5 DEF Proc, RemoteWorker
  <2>2. SendReport(p, outBuffer[p], acks[p]) /\ UNCHANGED <<token, hubPool>>
    BY <1>5 DEF PrunePools, hubState
  <2>3. WiresGo({}) /\ Adjusting' = Adjusting
    BY <1>1, <2>1, <2>2, ReportGo
  <2>4. RestsOrGoes /\ Gone = {}
    BY <2>2, HubsQuiet
  <2> QED BY <1>3, <2>3, <2>4, StillCount
<1> QED BY <1>4, <1>5

\* A solution is found, and the pools are pruned with it.
LEMMA EvaluateCount ==
  ASSUME Counted, NEW w \in Worker, NEW s \in workerPool[w], Evaluate(w, s)
  PROVE  Tallied' /\ Balanced'
<1>1. WorkAssumption /\ Shapes
  BY DEF Counted, Step, Core
<1>2. w \in Proc /\ s \in Sub /\ Bound[s] \in Nat
  BY <1>1 DEF Shapes, WorkAssumption, Proc
<1>3. incumbent'[w] = Bound[s] /\ PrunePools(w, Bound[s])
  BY <1>1, <1>2 DEF Evaluate, Shapes
<1>4. UNCHANGED <<separated, childrenLeft, tokenCount, network, counts>>
  BY DEF Evaluate
<1> QED BY <1>2, <1>3, <1>4, PruneCount

\* The pools are pruned after a better incumbent has been learned of.
LEMMA PruningCount ==
  ASSUME Counted, NEW p \in Proc, Prune(p)
  PROVE  Tallied' /\ Balanced'
<1>1. WorkAssumption /\ Shapes
  BY DEF Counted, Step, Core
<1>2. incumbent[p] \in Nat /\ incumbent'[p] = incumbent[p] /\ PrunePools(p, incumbent[p])
  BY <1>1 DEF Prune, Shapes
<1>3. UNCHANGED <<separated, childrenLeft, tokenCount, network, counts>>
  BY DEF Prune
<1>4. PICK v \in Nat : v = incumbent[p]
  BY <1>2
<1>5. incumbent'[p] = v /\ PrunePools(p, v)
  BY <1>2, <1>4
<1> QED BY <1>3, <1>5, PruneCount

-----------------------------------------------------------------------------
(***************************************************************************)
(* Work on a problem.                                                      *)
(***************************************************************************)
LEMMA LeftIsFinite ==
  ASSUME WorkAssumption, Shapes, NEW s \in Sub
  PROVE  /\ IsFiniteSet(childrenLeft[s]) /\ childrenLeft[s] \subseteq Sub
         /\ IsFiniteSet(Children[s]) /\ Children[s] \subseteq Sub
<1>1. IsFiniteSet(Sub) /\ childrenLeft[s] \subseteq Sub /\ Children[s] \subseteq Sub
  BY DEF WorkAssumption, SearchTreeAssumption, Shapes
<1> QED BY <1>1, CountPart, Zenon

\* A problem with a token has been counted.
LEMMA TokenCounted ==
  ASSUME WorkAssumption, Shapes, Tallied, NEW o \in Outstanding
  PROVE  /\ TokenOf(o) \in Token /\ TokenOf(o).sub \in Sub
         /\ tokenCount[TokenOf(o).sub] \in Int /\ tokenCount[TokenOf(o).sub] >= 1
         /\ Cardinality(TokensFor(TokenOf(o).sub)) >= 1
<1>1. PICK s : s = TokenOf(o).sub
  OBVIOUS
<1>2. TokenOf(o) \in Token /\ s \in Sub
  BY <1>1 DEF Tallied, DataOf, Token
<1>3. o \in TokensFor(s) /\ TokensFor(s) \subseteq Outstanding
  BY <1>1 DEF TokensFor
<1>4. IsFiniteSet(TokensFor(s))
  <2>1. IsFiniteSet(Outstanding)
    BY DEF Tallied
  <2> QED BY <1>3, <2>1, CountPart, Zenon
<1>5. Cardinality(TokensFor(s)) >= 1 /\ Cardinality(TokensFor(s)) \in Nat
  BY <1>3, <1>4, CountOne
<1>6. tokenCount[s] \in Int /\ Cardinality(TokensFor(s)) <= tokenCount[s]
  BY <1>2 DEF Tallied, CountsOf, Shapes
<1> QED BY <1>1, <1>2, <1>5, <1>6

\* A problem that the step is not about.
LEMMA SupplyKept ==
  ASSUME Grows, NEW s, Supplied(s), tokenCount'[s] = tokenCount[s],
         childrenLeft'[s] = childrenLeft[s], s \in separated' <=> s \in separated,
         \A m \in network' : m.type = "deliver" /\ m.sub = s => m \in network,
         \A v \in Worker : /\ s \in workerPool'[v] => s \in workerPool[v]
                           /\ s \in serverPool'[v] => s \in serverPool[v]
  PROVE  Supplied(s)'
<1>1. s \notin Made' => s \notin Made
  BY MadeGrows
<1>2. (s \notin Made => tokenCount[s] = 0)'
  BY <1>1 DEF Supplied
<1>3. (\A m \in network : m.type = "deliver" /\ m.sub = s => tokenCount[s] = 0)'
  BY DEF Supplied
<1>4. (\A v \in Worker :
         /\ s \in serverPool[v] =>
              tokenCount[s] = IF s \in separated THEN Cardinality(childrenLeft[s]) ELSE 1
         /\ s \in workerPool[v] =>
              IF s \in separated THEN tokenCount[s] < Cardinality(childrenLeft[s])
                                 ELSE tokenCount[s] = 0)'
  BY DEF Supplied
<1> QED BY <1>2, <1>3, <1>4 DEF Supplied

\* Tokens stay where they are, or move, with their data.
LEMMA KeptTally ==
  ASSUME Counted, NEW f, Relocates(f, {}, {}), tokenCount' = tokenCount,
         separated \subseteq separated',
         \A o \in Outstanding : HasData(TokenOf(o)) => HasData(TokenOf(o))',
         \A s \in Sub : Supplied(s)'
  PROVE  Tallied'
<1>1. /\ WorkAssumption /\ Shapes /\ Shapes' /\ Better /\ Tallied /\ IsFiniteSet(Outstanding)
  BY DEF Counted, Step, Core, Tallied
<1>2. IsFiniteSet({}) /\ Cardinality({}) = 0
  BY CountNone
<1>3. ASSUME NEW o \in Outstanding \ {}, DataOf(TokenOf(o)) PROVE DataOf(TokenOf(o))'
  <2>1. PICK t : t = TokenOf(o)
    OBVIOUS
  <2>2. HasData(t) => HasData(t)'
    BY <2>1 DEF TokenOf
  <2>3. DataOf(t)'
    BY <1>1, <1>3, <2>1, <2>2, DataStays
  <2> QED BY <2>1, <2>3 DEF TokenOf
<1>4. ASSUME NEW s \in Sub PROVE CountsOf(s)'
  <2>1. CountsOf(s) /\ NewFor({}, s) = {}
    BY <1>1 DEF Tallied, NewFor
  <2>2. tokenCount[s] \in Int /\ tokenCount'[s] = tokenCount[s] + 0
    BY <1>1 DEF Shapes
  <2>3. Bound[s] \in Nat /\ Best \in Nat /\ Best' \in Nat /\ Best' <= Best
    BY <1>1 DEF WorkAssumption, Better
  <2>4. Cardinality(NewFor({}, s)) = 0 /\ 0 \in Nat
    BY <1>2, <2>1
  <2>5. \A o \in TokensFor(s) : o \in {} => Bound[s] >= Best'
    OBVIOUS
  <2> QED BY <1>1, <1>2, <2>1, <2>2, <2>3, <2>4, <2>5, CountStays
<1>5. \A x \in {} : DataOf(TokenOf(x))'
  OBVIOUS
<1> QED BY <1>1, <1>2, <1>3, <1>4, <1>5, TalliedNext

\* Nothing moves.
LEMMA LocalCount ==
  ASSUME Counted, UNCHANGED <<report, token, hubPool, network, counts, tokenCount>>,
         separated \subseteq separated',
         \A o \in Outstanding : HasData(TokenOf(o)) => HasData(TokenOf(o))',
         \A s \in Sub : Supplied(s)'
  PROVE  Tallied' /\ Balanced'
<1>1. UNCHANGED <<outBuffer, hubQueue>> /\ UNCHANGED <<token, hubPool>> /\ network' = network
  BY DEF report
<1>2. WiresGo({}) /\ Adjusting' = Adjusting
  BY <1>1, QuietGo
<1>3. RestsOrGoes /\ Gone = {} /\ IsFiniteSet({})
  BY <1>1, HubsQuiet, CountNone
<1>4. PICK f : Moves(f, {}, {})
  BY <1>2, <1>3, ShrinkMoves
<1>5. Tallied'
  BY <1>4, KeptTally DEF Moves
<1>6. Balanced'
  <2>1. /\ IsFiniteSet(network') /\ IsFiniteSet(Adjusting')
        /\ hubDispatch' = Cardinality(network') + Cardinality(Adjusting')
    BY <1>1, <1>2, BalanceNow DEF counts, Counted
  <2>2. UNCHANGED <<localScatter, nonLocalScatter>>
    BY DEF counts
  <2> QED BY <1>4, <2>1, <2>2, WiresBalance
<1> QED BY <1>5, <1>6

\* A problem is split: it has children, and no token yet.
LEMMA SplitCount ==
  ASSUME Counted, NEW w \in Worker, NEW s \in workerPool[w], Split(w, s)
  PROVE  Tallied' /\ Balanced'
<1>1. /\ WorkAssumption /\ Core /\ Shapes /\ Tallied
  BY DEF Counted, Step, Core
<1>2. s \in Sub /\ s \notin Leaf /\ s \notin separated
  BY <1>1 DEF Split, Shapes
<1>3. Single(s)
  BY <1>1, <1>2 DEF Core
<1>4. /\ s \in Made /\ \A v \in Worker : s \notin serverPool[v]
      /\ \A v \in Worker : s \in workerPool[v] => v = w
  BY <1>3, Owned
<1>5. /\ separated' = separated \cup {s}
      /\ childrenLeft' = [childrenLeft EXCEPT ![s] = Children[s]]
      /\ UNCHANGED <<workerPool, serverPool, tokenCount, report, token, hubPool, network, counts>>
  BY DEF Split, hubState
<1>6. \A r \in Sub : childrenLeft'[r] = IF r = s THEN Children[s] ELSE childrenLeft[r]
  BY <1>1, <1>5 DEF Shapes
<1>7. Grows
  <2>1. \A r \in separated : r \in Sub /\ r # s
    BY <1>1, <1>2 DEF Shapes
  <2> QED BY <1>5, <1>6, <2>1 DEF Grows
<1>8. ASSUME NEW o \in Outstanding, HasData(TokenOf(o)) PROVE HasData(TokenOf(o))'
  <2>1. PICK t : t = TokenOf(o)
    OBVIOUS
  <2>2. t \in Token /\ DataOf(t) /\ HasData(t) /\ t.owner \in Worker /\ t.sub \in Sub
    BY <1>1, <1>8, <2>1 DEF Tallied, DataOf, Token
  <2>3. CASE t.self
    <3>1. t.sub \in serverPool[t.owner] \ separated /\ t.sub # s
      BY <1>4, <2>2, <2>3 DEF HasData
    <3>2. HasData(t)'
      BY <1>5, <2>3, <3>1 DEF HasData
    <3> QED BY <2>1, <3>2 DEF TokenOf
  <2>4. CASE ~t.self
    <3>1. t.sub \in separated /\ t.sub # s
      BY <1>2, <2>2, <2>4 DEF DataOf
    <3>2. childrenLeft'[t.sub] = childrenLeft[t.sub]
      BY <1>6, <2>2, <3>1
    <3>3. HasData(t)'
      BY <1>5, <2>2, <2>4, <3>2 DEF HasData
    <3> QED BY <2>1, <3>3 DEF TokenOf
  <2> QED BY <2>3, <2>4
<1>9. ASSUME NEW r \in Sub PROVE Supplied(r)'
  <2>1. Supplied(r)
    BY <1>1 DEF Tallied
  <2>2. CASE r # s
    <3>1. tokenCount'[r] = tokenCount[r] /\ childrenLeft'[r] = childrenLeft[r]
      BY <1>5, <1>6, <2>2
    <3>2. r \in separated' <=> r \in separated
      BY <1>5, <2>2
    <3>3. \A m \in network' : m.type = "deliver" /\ m.sub = r => m \in network
      BY <1>5
    <3>4. \A v \in Worker : /\ r \in workerPool'[v] => r \in workerPool[v]
                            /\ r \in serverPool'[v] => r \in serverPool[v]
      BY <1>5
    <3> QED BY <1>7, <2>1, <3>1, <3>2, <3>3, <3>4, SupplyKept
  <2>3. CASE r = s
    <3>1. tokenCount[s] = 0
      BY <1>2, <2>1, <2>3 DEF Supplied
    <3>2. tokenCount'[s] = 0 /\ s \in separated' /\ childrenLeft'[s] = Children[s]
      BY <1>2, <1>5, <1>6, <3>1
    <3>3. 0 < Cardinality(Children[s])
      <4>1. PICK c : c \in Children[s]
        BY <1>2 DEF Leaf
      <4>2. IsFiniteSet(Children[s])
        BY <1>1, <1>2, LeftIsFinite
      <4>3. Cardinality(Children[s]) \in Nat /\ Cardinality(Children[s]) >= 1
        BY <4>1, <4>2, CountOne
      <4> QED BY <4>3
    <3>4. (s \notin Made => tokenCount[s] = 0)'
      BY <3>2
    <3>5. (\A m \in network : m.type = "deliver" /\ m.sub = s => tokenCount[s] = 0)'
      BY <3>2
    <3>6. (\A v \in Worker :
         /\ s \in serverPool[v] =>
              tokenCount[s] = IF s \in separated THEN Cardinality(childrenLeft[s]) ELSE 1
         /\ s \in workerPool[v] =>
              IF s \in separated THEN tokenCount[s] < Cardinality(childrenLeft[s])
                                 ELSE tokenCount[s] = 0)'
      BY <1>4, <1>5, <3>2, <3>3
    <3> QED BY <2>3, <3>4, <3>5, <3>6 DEF Supplied
  <2> QED BY <2>2, <2>3
<1>10. separated \subseteq separated'
  BY <1>5
<1> QED BY <1>5, <1>8, <1>9, <1>10, LocalCount

\* A worker takes a child of a problem for itself, of those no token stands for.
LEMMA SpinOffCount ==
  ASSUME Counted, NEW w \in Worker, NEW s \in workerPool[w], NEW c \in childrenLeft[s],
         SpinOffChild(w, s, c)
  PROVE  Tallied' /\ Balanced'
<1> DEFINE left == childrenLeft[s] \ {c}
           stays == StillNeededByWorker(left, tokenCount[s])
<1>1. /\ WorkAssumption /\ Core /\ Shapes /\ Tallied
  BY DEF Counted, Step, Core
<1>2. s \in Sub /\ Single(s) /\ Supplied(s) /\ tokenCount[s] \in Int
  BY <1>1 DEF Shapes, Core, Tallied
<1>3. /\ s \in Made /\ \A v \in Worker : s \notin serverPool[v]
      /\ \A v \in Worker : s \in workerPool[v] => v = w
  BY <1>2, Owned
<1>4. /\ c \in Sub /\ c # s /\ s \in separated /\ c \notin Made /\ c \notin separated
      /\ \A v \in Worker : c \notin serverPool[v] /\ c \notin workerPool[v]
  BY <1>1, <1>2, Unmade
<1>5. /\ childrenLeft' = [childrenLeft EXCEPT ![s] = @ \ {c}]
      /\ workerPool' = [workerPool EXCEPT ![w] =
           {t \in @ : t # s \/ stays} \cup {t \in {c} : ~CanFathom(w, t)}]
      /\ serverPool' = [serverPool EXCEPT ![w] = @ \cup {t \in {s} : ~stays /\ tokenCount[s] > 0}]
      /\ UNCHANGED <<separated, tokenCount, report, token, hubPool, network, counts>>
  BY DEF SpinOffChild, hubState
<1>6. /\ \A r \in Sub : childrenLeft'[r] = IF r = s THEN left ELSE childrenLeft[r]
      /\ \A v \in Worker :
           /\ \A r : r \in workerPool'[v] <=>
                IF v = w THEN (r \in workerPool[w] /\ (r # s \/ stays)) \/ (r = c /\ ~CanFathom(w, c))
                         ELSE r \in workerPool[v]
           /\ \A r : r \in serverPool'[v] <=>
                r \in serverPool[v] \/ (v = w /\ r = s /\ ~stays /\ tokenCount[s] > 0)
  <2> HIDE DEF stays
  <2>1. /\ workerPool \in [Worker -> SUBSET Sub] /\ serverPool \in [Worker -> SUBSET Sub]
        /\ childrenLeft \in [Sub -> SUBSET Sub]
    BY <1>1 DEF Shapes
  <2>2. \A r \in Sub : childrenLeft'[r] = IF r = s THEN left ELSE childrenLeft[r]
    BY <1>5, <2>1
  <2>3. ASSUME NEW v \in Worker, NEW r
        PROVE  r \in workerPool'[v] <=>
                IF v = w THEN (r \in workerPool[w] /\ (r # s \/ stays)) \/ (r = c /\ ~CanFathom(w, c))
                         ELSE r \in workerPool[v]
    BY <1>5, <2>1
  <2>4. ASSUME NEW v \in Worker, NEW r
        PROVE  r \in serverPool'[v] <=>
                r \in serverPool[v] \/ (v = w /\ r = s /\ ~stays /\ tokenCount[s] > 0)
    BY <1>5, <2>1
  <2> QED BY <2>2, <2>3, <2>4
<1>7. /\ Cardinality(childrenLeft[s]) \in Nat /\ Cardinality(childrenLeft[s]) > tokenCount[s]
      /\ Cardinality(left) \in Nat /\ Cardinality(left) = Cardinality(childrenLeft[s]) - 1
      /\ stays <=> Cardinality(left) > tokenCount[s]
  <2>1. IsFiniteSet(childrenLeft[s])
    BY <1>1, <1>2, LeftIsFinite
  <2>2. /\ Cardinality(childrenLeft[s]) \in Nat /\ Cardinality(childrenLeft[s]) >= 1
        /\ Cardinality(childrenLeft[s] \ {c}) = Cardinality(childrenLeft[s]) - 1
    BY <2>1, CountOne
  <2>3. Cardinality(childrenLeft[s]) > tokenCount[s]
    BY DEF SpinOffChild, StillNeededByWorker
  <2> QED BY <2>2, <2>3 DEF StillNeededByWorker
<1> HIDE DEF stays
<1>8. Grows
  <2>1. \A r \in separated : r \in Sub
    BY <1>1 DEF Shapes
  <2> QED BY <1>5, <1>6, <2>1 DEF Grows
<1>9. ASSUME NEW o \in Outstanding, HasData(TokenOf(o)) PROVE HasData(TokenOf(o))'
  <2>1. PICK t : t = TokenOf(o)
    OBVIOUS
  <2>2. t \in Token /\ DataOf(t) /\ HasData(t) /\ t.owner \in Worker /\ t.sub \in Sub
    BY <1>1, <1>9, <2>1 DEF Tallied, DataOf, Token
  <2>3. CASE t.self
    BY <1>5, <1>6, <2>1, <2>2, <2>3 DEF HasData, TokenOf
  <2>4. CASE ~t.self /\ t.sub # s
    <3>1. /\ t.sub \in workerPool[t.owner] \/ t.sub \in serverPool[t.owner]
          /\ childrenLeft[t.sub] # {}
      BY <2>2, <2>4 DEF HasData
    <3>2. t.sub \in workerPool'[t.owner] \/ t.sub \in serverPool'[t.owner]
      BY <1>6, <2>2, <2>4, <3>1
    <3>3. childrenLeft'[t.sub] # {}
      BY <1>6, <2>2, <2>4, <3>1
    <3>4. HasData(t)'
      BY <2>4, <3>2, <3>3 DEF HasData
    <3> QED BY <2>1, <3>4 DEF TokenOf
  <2>5. CASE ~t.self /\ t.sub = s
    <3>1. t.owner = w
      BY <1>3, <2>2, <2>5 DEF HasData
    <3>2. tokenCount[s] >= 1
      BY <1>1, <2>1, <2>5, TokenCounted
    <3>3. left # {}
      <4>1. Cardinality(left) # 0
        BY <1>2, <1>7, <3>2
      <4> QED BY <4>1, CountNone
    <3>4. s \in workerPool'[w] \/ s \in serverPool'[w]
      BY <1>2, <1>6, <3>2
    <3>5. childrenLeft'[s] # {}
      BY <1>2, <1>6, <3>3
    <3>6. HasData(t)'
      BY <2>5, <3>1, <3>4, <3>5 DEF HasData
    <3> QED BY <2>1, <3>6 DEF TokenOf
  <2> QED BY <2>3, <2>4, <2>5
<1>10. ASSUME NEW r \in Sub PROVE Supplied(r)'
  <2>1. Supplied(r)
    BY <1>1 DEF Tallied
  <2>2. CASE r # s /\ r # c
    <3>1. tokenCount'[r] = tokenCount[r] /\ childrenLeft'[r] = childrenLeft[r]
      BY <1>5, <1>6, <2>2
    <3>2. r \in separated' <=> r \in separated
      BY <1>5
    <3>3. \A m \in network' : m.type = "deliver" /\ m.sub = r => m \in network
      BY <1>5
    <3>4. \A v \in Worker : /\ r \in workerPool'[v] => r \in workerPool[v]
                            /\ r \in serverPool'[v] => r \in serverPool[v]
      BY <1>6, <2>2
    <3> QED BY <1>8, <2>1, <3>1, <3>2, <3>3, <3>4, SupplyKept
  <2>3. CASE r = c
    <3>1. tokenCount'[r] = 0
      BY <1>4, <1>5, <2>1, <2>3 DEF Supplied
    <3>2. r \notin separated' /\ \A v \in Worker : r \notin serverPool'[v]
      BY <1>4, <1>5, <1>6, <2>3
    <3> QED BY <3>1, <3>2 DEF Supplied
  <2>4. CASE r = s
    <3>1. /\ tokenCount'[s] = tokenCount[s] /\ s \in separated' /\ childrenLeft'[s] = left
          /\ s \in Made' /\ network' = network
      BY <1>2, <1>3, <1>4, <1>5, <1>6, <1>8, MadeGrows
    <3>2. (s \notin Made => tokenCount[s] = 0)'
      BY <3>1
    <3>3. (\A m \in network : m.type = "deliver" /\ m.sub = s => tokenCount[s] = 0)'
      BY <1>2, <3>1 DEF Supplied
    <3>4. ASSUME NEW v \in Worker, s \in serverPool'[v] PROVE tokenCount[s] = Cardinality(left)
      <4>1. ~stays
        BY <1>3, <1>6, <3>4
      <4> QED BY <1>2, <1>7, <4>1
    <3>5. ASSUME NEW v \in Worker, s \in workerPool'[v] PROVE tokenCount[s] < Cardinality(left)
      <4>1. stays
        BY <1>3, <1>4, <1>6, <3>5
      <4> QED BY <1>2, <1>7, <4>1
    <3>6. (\A v \in Worker :
         /\ s \in serverPool[v] =>
              tokenCount[s] = IF s \in separated THEN Cardinality(childrenLeft[s]) ELSE 1
         /\ s \in workerPool[v] =>
              IF s \in separated THEN tokenCount[s] < Cardinality(childrenLeft[s])
                                 ELSE tokenCount[s] = 0)'
      BY <3>1, <3>4, <3>5
    <3> QED BY <2>4, <3>2, <3>3, <3>6 DEF Supplied
  <2> QED BY <2>2, <2>3, <2>4
<1>11. separated \subseteq separated'
  BY <1>5
<1> QED BY <1>5, <1>9, <1>10, <1>11, LocalCount

-----------------------------------------------------------------------------
(***************************************************************************)
(* The release of a problem or a child: one token more.                    *)
(***************************************************************************)
\* The new token t, at y, is counted if it is on its way to a hub.
Released(t) ==
  \E f, y : /\ Moves(f, {}, {y}) /\ TokenOf(y) = t
            /\ localScatter' = localScatter + (IF IsNear(y) THEN 1 ELSE 0)
            /\ nonLocalScatter' = nonLocalScatter + (IF IsFar(y) THEN 1 ELSE 0)

\* A token that is released into a message.
LEMMA NewOnWire ==
  ASSUME NEW y, OnWire(y), WiresGo({y}), UNCHANGED <<token, hubPool, network>>,
         localScatter' = localScatter + (IF IsNear(y) THEN 1 ELSE 0),
         nonLocalScatter' = nonLocalScatter + (IF IsFar(y) THEN 1 ELSE 0)
  PROVE  Released(TokenOf(y))
<1>1. RestsOrGoes /\ Gone = {}
  BY HubsQuiet
<1>2. PICK N : N = {y}
  OBVIOUS
<1>3. IsFiniteSet(N) /\ (\A x \in N : OnWire(x)) /\ WiresGo(N)
  BY <1>2, CountNone
<1>4. PICK f : Moves(f, Gone, N)
  BY <1>1, <1>3, ShrinkMoves
<1>5. Moves(f, {}, {y})
  BY <1>1, <1>2, <1>4
<1> QED BY <1>5 DEF Released

\* A token that is released to the pool of the hub that is the same processor.
LEMMA ReleasedHere ==
  ASSUME WorkAssumption, Shapes, NEW w \in Hub, HubIsSound(w), NEW t \in Token,
         Release(w, t, w), network' = network, localScatter \in Int, nonLocalScatter \in Int
  PROVE  Released(t) /\ Adjusting' = Adjusting
<1> DEFINE at == Allocate(w, {t})[t]
           y == <<"hub", t, w, at>>
<1>1. /\ token \in [Hub -> [Address -> Token \cup {NoToken}]] /\ hubPool \in [Hub -> SUBSET Address]
  BY DEF Shapes
<1>2. /\ Places(w, {t}) # {}
      /\ token' = [token EXCEPT ![w][at] = t] /\ hubPool' = [hubPool EXCEPT ![w] = @ \cup {at}]
      /\ UNCHANGED <<outBuffer, hubQueue, localScatter, nonLocalScatter>>
  BY DEF Release, report
<1>3. at \in Address /\ token[w][at] = NoToken
  BY <1>2, Allocated
<1> HIDE DEF at
<1>4. at \notin hubPool[w]
  BY <1>3, FreeIsNoToken DEF HubIsSound, PoolsApart
<1>5. /\ hubPool'[w] = hubPool[w] \cup {at} /\ token'[w][at] = t
      /\ \A a \in hubPool[w] : token'[w][a] = token[w][a]
      /\ \A g \in Hub : g # w => hubPool'[g] = hubPool[g] /\ token'[g] = token[g]
  BY <1>1, <1>2, <1>3, <1>4
<1>6. /\ \A x : AtHub(token', hubPool', x) <=>
           \/ AtHub(token, hubPool, x) /\ x[3] # w
           \/ \E a \in hubPool'[w] : x = <<"hub", token'[w][a], w, a>>
      /\ \A x : AtHub(token, hubPool, x) /\ x[3] = w <=>
           \E a \in hubPool[w] : x = <<"hub", token[w][a], w, a>>
  BY <1>5, HubPlaces
<1>7. \A x : AtHub(token', hubPool', x) <=> AtHub(token, hubPool, x) \/ x = y
  <2>1. \A x : (\E a \in hubPool'[w] : x = <<"hub", token'[w][a], w, a>>) <=>
          (\E a \in hubPool[w] : x = <<"hub", token[w][a], w, a>>) \/ x = y
    BY <1>5
  <2> HIDE DEF y
  <2> QED BY <1>6, <2>1, Zenon
<1>8. ~AtHub(token, hubPool, y)
  <2> SUFFICES ASSUME AtHub(token, hubPool, y) PROVE FALSE
    OBVIOUS
  <2>1. PICK a \in hubPool[w] : y = <<"hub", token[w][a], w, a>>
    BY <1>6
  <2> QED BY <1>4, <2>1
<1>9. ~AtDispatch(network, y) /\ ~OnWire(y) /\ ~IsNear(y) /\ ~IsFar(y) /\ TokenOf(y) = t
  <2>1. y[1] = "hub" /\ y[2] = t
    OBVIOUS
  <2>2. AtDispatch(network, y) => y[1] = "dispatch"
    BY PlaceKinds, Zenon
  <2> QED BY <2>1, <2>2 DEF OnWire, IsNear, IsFar, TokenOf
<1> HIDE DEF y
<1>10. PICK f : \A o \in Outstanding : f[o] = o
  BY SomeWay
<1>11. /\ \A o : AtWire(o) => f[o] = o
       /\ \A o : AtRest(o) => f[o] = o
  BY <1>10, KindOfPlace, Zenon
<1>12. PICK N : N = {y}
  OBVIOUS
<1>13. WireMoves(f, N)
  <2>1. \A x \in N : ~OnWire(x)
    BY <1>9, <1>12
  <2> QED BY <1>2, <1>11, <2>1, QuietWires
<1>14. RestMoves(f, {}, N)
  <2>1. \A x : AtRestNext(x) <=> AtRest(x) \/ x = y
    BY <1>7, Zenon DEF AtRest, AtRestNext
  <2>2. ~AtRest(y)
    BY <1>8, <1>9 DEF AtRest
  <2> QED BY <1>9, <1>11, <1>12, <2>1, <2>2, RestGrows
<1>15. Moves(f, {}, N)
  <2>1. IsFiniteSet(N)
    BY <1>12, CountNone
  <2> QED BY <1>13, <1>14, <2>1, MovesCombine
<1>16. /\ localScatter' = localScatter + (IF IsNear(y) THEN 1 ELSE 0)
       /\ nonLocalScatter' = nonLocalScatter + (IF IsFar(y) THEN 1 ELSE 0)
  BY <1>2, <1>9
<1>17. Released(t)
  BY <1>9, <1>12, <1>15, <1>16, Zenon DEF Released
<1>18. Adjusting' = Adjusting
  BY <1>2 DEF Adjusting
<1> QED BY <1>17, <1>18

\* A token that is released to the hub of the cluster: buffered, or sent with the buffer.
LEMMA ReleasedNear ==
  ASSUME WorkAssumption, Shapes, NEW w \in RemoteWorker, NEW t \in Token,
         Release(w, t, HubOf[w]), network' = network,
         localScatter \in Int, nonLocalScatter \in Int
  PROVE  Released(t) /\ Adjusting' = Adjusting
<1> DEFINE tokens == Append(outBuffer[w], t)
<1>1. /\ HubOf[w] \in Hub /\ HubOf[w] # w /\ w \in Worker /\ outBuffer[w] \in Seq(Token)
  BY DEF WorkAssumption, RemoteWorker, Shapes
<1>2. /\ IF Len(tokens) = MaxBuffered
         THEN SendReport(w, tokens, acks[w])
         ELSE /\ outBuffer' = [outBuffer EXCEPT ![w] = tokens]
              /\ UNCHANGED <<acks, hubQueue>>
      /\ localScatter' = localScatter + 1 /\ UNCHANGED nonLocalScatter
      /\ UNCHANGED <<token, hubPool, network>>
  BY <1>1, Zenon DEF Release, hubState
<1>3. PICK n : n = Len(outBuffer[w]) + 1
  OBVIOUS
<1>4. /\ n \in DOMAIN tokens /\ tokens[n] = t /\ n \notin DOMAIN outBuffer[w]
      /\ \A i \in DOMAIN outBuffer[w] : i \in DOMAIN tokens /\ tokens[i] = outBuffer[w][i]
      /\ \A i \in DOMAIN tokens : i = n \/ i \in DOMAIN outBuffer[w]
  <2>1. PICK q \in Seq(Token) : q = outBuffer[w]
    BY <1>1
  <2>2. /\ n \in DOMAIN Append(q, t) /\ Append(q, t)[n] = t /\ n \notin DOMAIN q
        /\ \A i \in DOMAIN q : i \in DOMAIN Append(q, t) /\ Append(q, t)[i] = q[i]
        /\ \A i \in DOMAIN Append(q, t) : i = n \/ i \in DOMAIN q
    BY <1>3, <2>1, Appended
  <2> QED BY <2>1, <2>2
<1>5. CASE Len(tokens) = MaxBuffered
  <2>1. PICK m : m = Len(hubQueue[HubOf[w]][w]) + 1
    OBVIOUS
  <2>2. SendReport(w, tokens, acks[w])
    BY <1>2, <1>5
  <2> HIDE DEF tokens
  <2>3. PostsAll(w, tokens, acks[w], m)
    BY <1>4, <2>1, <2>2 DEF PostsAll, Posts, SendReport
  <2>4. PICK y : y = Posted(w, tokens, m, n)
    OBVIOUS
  <2>5. PICK N : N = {y}
    OBVIOUS
  <2>6. y[1] = "queue" /\ TokenOf(y) = t /\ y[3] = HubOf[w] /\ y[4] = w
    BY <1>4, <2>4 DEF Posted, TokenOf
  <2>7. OnWire(y) /\ IsNear(y) /\ ~IsFar(y)
    BY <2>6 DEF OnWire, IsNear, IsFar
  <2>8. \A x : x \in N /\ OnWire(x) <=>
          \E i \in DOMAIN tokens \ DOMAIN outBuffer[w] : x = Posted(w, tokens, m, i)
    BY <1>4, <2>4, <2>5, <2>7
  <2>9. WiresGo(N) /\ Adjusting' = Adjusting
    BY <2>3, <2>8, PostGo
  <2>10. /\ localScatter' = localScatter + (IF IsNear(y) THEN 1 ELSE 0)
         /\ nonLocalScatter' = nonLocalScatter + (IF IsFar(y) THEN 1 ELSE 0)
    BY <1>2, <2>7
  <2>11. Released(TokenOf(y))
    BY <1>2, <2>5, <2>7, <2>9, <2>10, NewOnWire
  <2> QED BY <2>6, <2>9, <2>11
<1>6. CASE Len(tokens) # MaxBuffered
  <2>1. outBuffer' = [outBuffer EXCEPT ![w] = Append(@, t)] /\ hubQueue' = hubQueue
    <3>1. outBuffer' = [outBuffer EXCEPT ![w] = tokens] /\ hubQueue' = hubQueue
      BY <1>2, <1>6
    <3> QED BY <3>1
  <2>2. PICK y : y = <<"buffer", t, w, n>>
    OBVIOUS
  <2>3. PICK N : N = {<<"buffer", t, w, n>>}
    OBVIOUS
  <2>4. OnWire(y) /\ IsNear(y) /\ ~IsFar(y) /\ TokenOf(y) = t /\ N = {y}
    BY <2>2, <2>3 DEF OnWire, IsNear, IsFar, TokenOf
  <2>5. PICK f : \A o \in Outstanding : f[o] = o
    BY SomeWay
  <2>6. /\ \A o : AtWire(o) => f[o] = o
        /\ \A o : AtRest(o) => f[o] = o
    BY <2>5, KindOfPlace, Zenon
  <2>7. WireMoves(f, N)
    BY <1>3, <2>1, <2>3, <2>6, BufferWires
  <2>8. WiresGo({y})
    BY <2>4, <2>6, <2>7 DEF WiresGo
  <2>9. /\ localScatter' = localScatter + (IF IsNear(y) THEN 1 ELSE 0)
        /\ nonLocalScatter' = nonLocalScatter + (IF IsFar(y) THEN 1 ELSE 0)
    BY <1>2, <2>4
  <2>10. Released(TokenOf(y))
    BY <1>2, <2>4, <2>8, <2>9, NewOnWire
  <2>11. Adjusting' = Adjusting
    BY <2>1 DEF Adjusting
  <2> QED BY <2>4, <2>10, <2>11
<1> QED BY <1>5, <1>6

\* A token that is released to the hub of another cluster.
LEMMA ReleasedFar ==
  ASSUME WorkAssumption, Shapes, NEW w \in Worker, NEW h \in Hub, h # w, h # HubOf[w],
         NEW t \in Token, Release(w, t, h), network' = network,
         localScatter \in Int, nonLocalScatter \in Int
  PROVE  Released(t) /\ Adjusting' = Adjusting
<1> DEFINE msg == [tokens |-> <<t>>, acks |-> <<>>, adjust |-> 0]
<1>1. /\ hubQueue' = [hubQueue EXCEPT ![h][w] = Append(@, msg)]
      /\ nonLocalScatter' = nonLocalScatter + 1 /\ outBuffer' = outBuffer
      /\ localScatter' = localScatter /\ UNCHANGED <<token, hubPool, network>>
  BY Zenon DEF Release, hubState
<1>2. PICK n : n = Len(hubQueue[h][w]) + 1
  OBVIOUS
<1>3. Appends(h, w, msg, n) /\ msg.tokens = <<t>> /\ msg.adjust = 0
  BY <1>1, <1>2 DEF Appends
<1> HIDE DEF msg
<1>4. /\ msg.tokens = <<>> => WiresGo({})
      /\ \A u : msg.tokens = <<u>> => WiresGo({<<"queue", u, h, w, n, 1>>})
      /\ Adjusting' = Adjusting \cup {y \in {<<h, w, n>>} : msg.adjust = 1}
      /\ <<h, w, n>> \notin Adjusting
  BY <1>1, <1>3, SendGo
<1>5. PICK y : y = <<"queue", t, h, w, n, 1>>
  OBVIOUS
<1>6. WiresGo({y})
  BY <1>3, <1>4, <1>5
<1>7. y[1] = "queue" /\ TokenOf(y) = t /\ y[3] = h /\ y[4] = w
  BY <1>5 DEF TokenOf
<1>8. OnWire(y) /\ ~IsNear(y) /\ IsFar(y)
  BY <1>7 DEF OnWire, IsNear, IsFar
<1>9. /\ localScatter' = localScatter + (IF IsNear(y) THEN 1 ELSE 0)
      /\ nonLocalScatter' = nonLocalScatter + (IF IsFar(y) THEN 1 ELSE 0)
  BY <1>1, <1>8
<1>10. Released(TokenOf(y))
  BY <1>1, <1>6, <1>8, <1>9, NewOnWire
<1>11. Adjusting' = Adjusting
  BY <1>3, <1>4
<1> QED BY <1>7, <1>10, <1>11

\* A token that is released, wherever it goes.
LEMMA ReleaseGo ==
  ASSUME WorkAssumption, Shapes, NEW w \in Worker, NEW h \in Hub, HubIsSound(h), NEW t \in Token,
         Release(w, t, h), network' = network, localScatter \in Int, nonLocalScatter \in Int
  PROVE  Released(t) /\ Adjusting' = Adjusting
<1>1. CASE h = w
  BY <1>1, ReleasedHere
<1>2. CASE h # w /\ h = HubOf[w]
  <2>1. w \in RemoteWorker
    BY <1>2 DEF WorkAssumption, RemoteWorker
  <2> QED BY <1>2, <2>1, ReleasedNear
<1>3. CASE h # w /\ h # HubOf[w]
  BY <1>3, ReleasedFar
<1> QED BY <1>1, <1>2, <1>3

\* One more token for s, and counted.
LEMMA ReleaseTally ==
  ASSUME Counted, NEW t, Released(t), NEW s \in Sub, t.sub = s,
         UNCHANGED <<separated, childrenLeft, network, hubDispatch>>, Adjusting' = Adjusting,
         \A r \in Sub : tokenCount'[r] = IF r = s THEN tokenCount[r] + 1 ELSE tokenCount[r],
         DataOf(t)', \A o \in Outstanding : HasData(TokenOf(o)) => HasData(TokenOf(o))',
         \A r \in Sub : Supplied(r)'
  PROVE  Tallied' /\ Balanced'
<1>1. /\ WorkAssumption /\ Shapes /\ Shapes' /\ Better /\ Tallied /\ Balanced
      /\ IsFiniteSet(Outstanding)
  BY DEF Counted, Step, Core, Tallied
<1>2. PICK f, y : /\ Moves(f, {}, {y}) /\ TokenOf(y) = t
                  /\ localScatter' = localScatter + (IF IsNear(y) THEN 1 ELSE 0)
                  /\ nonLocalScatter' = nonLocalScatter + (IF IsFar(y) THEN 1 ELSE 0)
  BY DEF Released
<1>3. PICK N : N = {y}
  OBVIOUS
<1>4. Moves(f, {}, N) /\ Relocates(f, {}, N) /\ IsFiniteSet(N)
  BY <1>2, <1>3 DEF Moves
<1>5. ASSUME NEW o \in Outstanding \ {}, DataOf(TokenOf(o)) PROVE DataOf(TokenOf(o))'
  <2>1. PICK u : u = TokenOf(o)
    OBVIOUS
  <2>2. HasData(u) => HasData(u)'
    BY <2>1 DEF TokenOf
  <2>3. DataOf(u)'
    BY <1>1, <1>5, <2>1, <2>2, DataStays
  <2> QED BY <2>1, <2>3 DEF TokenOf
<1>6. ASSUME NEW x \in N PROVE DataOf(TokenOf(x))'
  <2>1. x = y
    BY <1>3
  <2> QED BY <1>2, <2>1 DEF TokenOf
<1>7. ASSUME NEW r \in Sub PROVE CountsOf(r)'
  <2>1. CountsOf(r) /\ tokenCount[r] \in Int
    BY <1>1 DEF Tallied, Shapes
  <2>2. Bound[r] \in Nat /\ Best \in Nat /\ Best' \in Nat /\ Best' <= Best
    BY <1>1 DEF WorkAssumption, Better
  <2>3. PICK k : k = IF r = s THEN 1 ELSE 0
    OBVIOUS
  <2>4. k \in Nat /\ tokenCount'[r] = tokenCount[r] + k
    BY <2>1, <2>3
  <2>5. Cardinality(NewFor(N, r)) = k
    <3>1. NewFor(N, r) = IF r = s THEN {y} ELSE {}
      BY <1>2, <1>3 DEF NewFor
    <3> QED BY <2>3, <3>1, CountNone
  <2>6. \A o \in TokensFor(r) : o \in {} => Bound[r] >= Best'
    OBVIOUS
  <2> QED BY <1>1, <1>4, <2>1, <2>2, <2>4, <2>5, <2>6, CountStays
<1>8. Tallied'
  BY <1>1, <1>4, <1>5, <1>6, <1>7, TalliedNext
<1>9. Balanced'
  <2>1. /\ IsFiniteSet(network') /\ IsFiniteSet(Adjusting')
        /\ hubDispatch' = Cardinality(network') + Cardinality(Adjusting')
    BY <1>1, BalanceNow
  <2>2. /\ Cardinality(Wires(TRUE)') = Cardinality(Wires(TRUE)) + Cardinality({x \in N : IsNear(x)})
        /\ Cardinality(Wires(FALSE)') = Cardinality(Wires(FALSE)) + Cardinality({x \in N : IsFar(x)})
    BY <1>1, <1>4, MovesCount
  <2>3. /\ {x \in N : IsNear(x)} = (IF IsNear(y) THEN {y} ELSE {})
        /\ {x \in N : IsFar(x)} = (IF IsFar(y) THEN {y} ELSE {})
    BY <1>3
  <2>4. /\ Cardinality({x \in N : IsNear(x)}) = (IF IsNear(y) THEN 1 ELSE 0)
        /\ Cardinality({x \in N : IsFar(x)}) = (IF IsFar(y) THEN 1 ELSE 0)
    BY <2>3, CountNone
  <2>5. localScatter = Cardinality(Wires(TRUE)) /\ nonLocalScatter = Cardinality(Wires(FALSE))
    BY <1>1, BalanceNow
  <2>6. localScatter' = Cardinality(Wires(TRUE)') /\ nonLocalScatter' = Cardinality(Wires(FALSE)')
    BY <1>2, <2>2, <2>4, <2>5, Zenon
  <2> QED BY <2>1, <2>6, BalanceNow
<1> QED BY <1>8, <1>9

\* The counts of messages are numbers.
LEMMA CountsAreNumbers ==
  ASSUME Tallied, Balanced
  PROVE  /\ hubDispatch \in Nat /\ localScatter \in Nat /\ nonLocalScatter \in Nat
         /\ Cardinality(network) \in Nat /\ Cardinality(Adjusting) \in Nat
<1>1. /\ IsFiniteSet(network) /\ IsFiniteSet(Adjusting)
      /\ hubDispatch = Cardinality(network) + Cardinality(Adjusting)
      /\ localScatter = Cardinality(Wires(TRUE)) /\ nonLocalScatter = Cardinality(Wires(FALSE))
      /\ IsFiniteSet(Outstanding)
  BY BalanceNow DEF Tallied
<1>2. Wires(TRUE) \subseteq Outstanding /\ Wires(FALSE) \subseteq Outstanding
  BY DEF Wires
<1>3. /\ Cardinality(Wires(TRUE)) \in Nat /\ Cardinality(Wires(FALSE)) \in Nat
      /\ Cardinality(network) \in Nat /\ Cardinality(Adjusting) \in Nat
  BY <1>1, <1>2, CountPart, Zenon
<1>4. hubDispatch \in Nat
  <2>1. PICK a \in Nat, b \in Nat : a = Cardinality(network) /\ b = Cardinality(Adjusting)
    BY <1>3
  <2>2. hubDispatch = a + b
    BY <1>1, <2>1, Zenon
  <2> QED BY <2>2
<1> QED BY <1>1, <1>3, <1>4, Zenon

\* A token for a child of a problem is released.
LEMMA ReleaseChildCount ==
  ASSUME Counted, NEW w \in Worker, NEW s \in workerPool[w], NEW h \in Hub,
         ReleaseChild(w, s, h)
  PROVE  Tallied' /\ Balanced'
<1> DEFINE t == [sub |-> s, self |-> FALSE, owner |-> w]
           stays == StillNeededByWorker(childrenLeft[s], tokenCount[s] + 1)
<1>1. /\ WorkAssumption /\ Core /\ Shapes /\ Tallied /\ HubIsSound(h)
  BY DEF Counted, Step, Core, Addressed
<1>2. s \in Sub /\ Single(s) /\ Supplied(s) /\ CountsOf(s) /\ tokenCount[s] \in Int /\ s \in separated
  BY <1>1 DEF Shapes, Core, Tallied, ReleaseChild
<1>3. /\ s \in Made /\ \A v \in Worker : s \notin serverPool[v]
      /\ \A v \in Worker : s \in workerPool[v] => v = w
      /\ \A x : ~InDelivery(network, s, x)
  BY <1>2, Owned
<1>4. /\ tokenCount' = [tokenCount EXCEPT ![s] = @ + 1]
      /\ IF stays THEN UNCHANGED <<workerPool, serverPool>>
         ELSE /\ workerPool' = [workerPool EXCEPT ![w] = @ \ {s}]
              /\ serverPool' = [serverPool EXCEPT ![w] = @ \cup {s}]
      /\ Release(w, t, h)
      /\ UNCHANGED <<separated, childrenLeft, network, hubDispatch>>
  BY DEF ReleaseChild
<1>5. /\ Cardinality(childrenLeft[s]) \in Nat /\ Cardinality(childrenLeft[s]) > tokenCount[s]
      /\ stays <=> Cardinality(childrenLeft[s]) > tokenCount[s] + 1
  <2>1. IsFiniteSet(childrenLeft[s])
    BY <1>1, <1>2, LeftIsFinite
  <2>2. Cardinality(childrenLeft[s]) \in Nat
    BY <2>1, CountPart
  <2> QED BY <2>2 DEF ReleaseChild, StillNeededByWorker
<1>6. \A r \in Sub : tokenCount'[r] = IF r = s THEN tokenCount[r] + 1 ELSE tokenCount[r]
  BY <1>1, <1>4 DEF Shapes
<1> HIDE DEF stays
<1>7. \A v \in Worker :
        /\ \A r : r \in workerPool'[v] <=> r \in workerPool[v] /\ (stays \/ r # s)
        /\ \A r : r \in serverPool'[v] <=> r \in serverPool[v] \/ (~stays /\ r = s /\ v = w)
  <2>1. workerPool \in [Worker -> SUBSET Sub] /\ serverPool \in [Worker -> SUBSET Sub]
    BY <1>1 DEF Shapes
  <2>2. ASSUME NEW v \in Worker, NEW r
        PROVE  r \in workerPool'[v] <=> r \in workerPool[v] /\ (stays \/ r # s)
    BY <1>3, <1>4, <2>1
  <2>3. ASSUME NEW v \in Worker, NEW r
        PROVE  r \in serverPool'[v] <=> r \in serverPool[v] \/ (~stays /\ r = s /\ v = w)
    BY <1>4, <2>1
  <2> QED BY <2>2, <2>3
<1>8. childrenLeft[s] # {}
  <2>1. tokenCount[s] >= 0
    <3>1. Cardinality(TokensFor(s)) \in Nat
      <4>1. IsFiniteSet(Outstanding) /\ TokensFor(s) \subseteq Outstanding
        BY <1>1 DEF Tallied, TokensFor
      <4> QED BY <4>1, CountPart, Zenon
    <3> QED BY <1>2, <3>1 DEF CountsOf
  <2>2. Cardinality(childrenLeft[s]) # 0
    BY <1>2, <1>5, <2>1
  <2> QED BY <2>2, CountNone
<1>9. t \in Token /\ t.sub = s
  BY <1>2 DEF Token
<1>10. Released(t) /\ Adjusting' = Adjusting
  <2>1. localScatter \in Int /\ nonLocalScatter \in Int /\ network' = network
    BY <1>4, CountsAreNumbers DEF Counted
  <2> HIDE DEF t
  <2> QED BY <1>1, <1>4, <1>9, <2>1, ReleaseGo
<1>11. DataOf(t)'
  <2>1. s \in workerPool'[w] \/ s \in serverPool'[w]
    BY <1>7
  <2>2. HasData(t)'
    BY <1>4, <1>8, <2>1 DEF HasData
  <2> QED BY <1>2, <1>4, <1>9, <2>2 DEF DataOf
<1>12. ASSUME NEW o \in Outstanding, HasData(TokenOf(o)) PROVE HasData(TokenOf(o))'
  <2>1. PICK u : u = TokenOf(o)
    OBVIOUS
  <2>2. u.owner \in Worker /\ HasData(u)
    BY <1>1, <1>12, <2>1 DEF Tallied, DataOf, Token
  <2>3. CASE u.self
    BY <1>4, <1>7, <2>1, <2>2, <2>3 DEF HasData, TokenOf
  <2>4. CASE ~u.self
    <3>1. u.sub \in workerPool[u.owner] \/ u.sub \in serverPool[u.owner]
      BY <2>2, <2>4 DEF HasData
    <3>2. u.sub \in workerPool'[u.owner] \/ u.sub \in serverPool'[u.owner]
      BY <1>3, <1>7, <2>2, <3>1
    <3>3. childrenLeft'[u.sub] # {}
      BY <1>4, <2>2, <2>4 DEF HasData
    <3>4. HasData(u)'
      BY <2>4, <3>2, <3>3 DEF HasData
    <3> QED BY <2>1, <3>4 DEF TokenOf
  <2> QED BY <2>3, <2>4
<1>13. Grows
  BY <1>4 DEF Grows
<1>14. ASSUME NEW r \in Sub PROVE Supplied(r)'
  <2>1. Supplied(r)
    BY <1>1 DEF Tallied
  <2>2. CASE r # s
    <3>1. tokenCount'[r] = tokenCount[r] /\ childrenLeft'[r] = childrenLeft[r]
      BY <1>4, <1>6, <2>2
    <3>2. r \in separated' <=> r \in separated
      BY <1>4
    <3>3. \A m \in network' : m.type = "deliver" /\ m.sub = r => m \in network
      BY <1>4
    <3>4. \A v \in Worker : /\ r \in workerPool'[v] => r \in workerPool[v]
                            /\ r \in serverPool'[v] => r \in serverPool[v]
      BY <1>7, <2>2
    <3> QED BY <1>13, <2>1, <3>1, <3>2, <3>3, <3>4, SupplyKept
  <2>3. CASE r = s
    <3>1. s \in Made'
      BY <1>3, <1>13, MadeGrows
    <3>2. tokenCount'[s] = tokenCount[s] + 1 /\ s \in separated' /\ childrenLeft'[s] = childrenLeft[s]
      BY <1>2, <1>4, <1>6
    <3>3. \A m \in network' : ~(m.type = "deliver" /\ m.sub = s)
      BY <1>3, <1>4 DEF InDelivery
    <3>4. (s \notin Made => tokenCount[s] = 0)'
      BY <3>1
    <3>5. (\A m \in network : m.type = "deliver" /\ m.sub = s => tokenCount[s] = 0)'
      BY <3>3
    <3>6. ASSUME NEW v \in Worker, s \in serverPool'[v]
          PROVE  tokenCount[s] + 1 = Cardinality(childrenLeft[s])
      <4>1. ~stays
        BY <1>3, <1>7, <3>6
      <4> QED BY <1>2, <1>5, <4>1
    <3>7. ASSUME NEW v \in Worker, s \in workerPool'[v]
          PROVE  tokenCount[s] + 1 < Cardinality(childrenLeft[s])
      <4>1. stays
        BY <1>7, <3>7
      <4> QED BY <1>2, <1>5, <4>1
    <3>8. (\A v \in Worker :
         /\ s \in serverPool[v] =>
              tokenCount[s] = IF s \in separated THEN Cardinality(childrenLeft[s]) ELSE 1
         /\ s \in workerPool[v] =>
              IF s \in separated THEN tokenCount[s] < Cardinality(childrenLeft[s])
                                 ELSE tokenCount[s] = 0)'
      BY <3>2, <3>6, <3>7
    <3> QED BY <2>3, <3>4, <3>5, <3>8 DEF Supplied
  <2> QED BY <2>2, <2>3
<1> HIDE DEF t
<1> QED BY <1>2, <1>4, <1>6, <1>9, <1>10, <1>11, <1>12, <1>14, ReleaseTally

\* A problem is released as a whole.
LEMMA ReleaseSelfCount ==
  ASSUME Counted, NEW w \in Worker, NEW s \in workerPool[w], NEW h \in Hub,
         ReleaseSelf(w, s, h)
  PROVE  Tallied' /\ Balanced'
<1> DEFINE t == [sub |-> s, self |-> TRUE, owner |-> w]
<1>1. /\ WorkAssumption /\ Core /\ Shapes /\ Tallied /\ HubIsSound(h)
  BY DEF Counted, Step, Core, Addressed
<1>2. s \in Sub /\ Single(s) /\ Supplied(s) /\ tokenCount[s] \in Int /\ s \notin separated
  BY <1>1 DEF Shapes, Core, Tallied, ReleaseSelf
<1>3. /\ s \in Made /\ \A v \in Worker : s \notin serverPool[v]
      /\ \A v \in Worker : s \in workerPool[v] => v = w
      /\ \A x : ~InDelivery(network, s, x)
  BY <1>2, Owned
<1>4. /\ tokenCount' = [tokenCount EXCEPT ![s] = 1]
      /\ workerPool' = [workerPool EXCEPT ![w] = @ \ {s}]
      /\ serverPool' = [serverPool EXCEPT ![w] = @ \cup {s}]
      /\ Release(w, t, h)
      /\ UNCHANGED <<separated, childrenLeft, network, hubDispatch>>
  BY DEF ReleaseSelf
<1>5. tokenCount[s] = 0
  BY <1>2 DEF Supplied
<1>6. \A r \in Sub : tokenCount'[r] = IF r = s THEN tokenCount[r] + 1 ELSE tokenCount[r]
  BY <1>1, <1>4, <1>5 DEF Shapes
<1>7. \A v \in Worker :
        /\ \A r : r \in workerPool'[v] <=> r \in workerPool[v] /\ r # s
        /\ \A r : r \in serverPool'[v] <=> r \in serverPool[v] \/ (r = s /\ v = w)
  <2>1. workerPool \in [Worker -> SUBSET Sub] /\ serverPool \in [Worker -> SUBSET Sub]
    BY <1>1 DEF Shapes
  <2>2. ASSUME NEW v \in Worker, NEW r
        PROVE  r \in workerPool'[v] <=> r \in workerPool[v] /\ r # s
    BY <1>3, <1>4, <2>1
  <2>3. ASSUME NEW v \in Worker, NEW r
        PROVE  r \in serverPool'[v] <=> r \in serverPool[v] \/ (r = s /\ v = w)
    BY <1>4, <2>1
  <2> QED BY <2>2, <2>3
<1>8. t \in Token /\ t.sub = s
  BY <1>2 DEF Token
<1>9. Released(t) /\ Adjusting' = Adjusting
  <2>1. localScatter \in Int /\ nonLocalScatter \in Int /\ network' = network
    BY <1>4, CountsAreNumbers DEF Counted
  <2> HIDE DEF t
  <2> QED BY <1>1, <1>4, <1>8, <2>1, ReleaseGo
<1>10. DataOf(t)'
  <2>1. s \in serverPool'[w] /\ s \notin separated'
    BY <1>2, <1>4, <1>7
  <2>2. HasData(t)'
    BY <2>1 DEF HasData
  <2> QED BY <1>8, <2>2 DEF DataOf
<1>11. ASSUME NEW o \in Outstanding, HasData(TokenOf(o)) PROVE HasData(TokenOf(o))'
  <2>1. PICK u : u = TokenOf(o)
    OBVIOUS
  <2>2. u.owner \in Worker /\ HasData(u) /\ DataOf(u)
    BY <1>1, <1>11, <2>1 DEF Tallied, DataOf, Token
  <2>3. CASE u.self
    BY <1>4, <1>7, <2>1, <2>2, <2>3 DEF HasData, TokenOf
  <2>4. CASE ~u.self
    <3>1. u.sub \in workerPool[u.owner] \/ u.sub \in serverPool[u.owner]
      BY <2>2, <2>4 DEF HasData
    <3>2. u.sub # s
      BY <1>2, <2>2, <2>4 DEF DataOf
    <3>3. u.sub \in workerPool'[u.owner] \/ u.sub \in serverPool'[u.owner]
      BY <1>7, <2>2, <3>1, <3>2
    <3>4. childrenLeft'[u.sub] # {}
      BY <1>4, <2>2, <2>4 DEF HasData
    <3>5. HasData(u)'
      BY <2>4, <3>3, <3>4 DEF HasData
    <3> QED BY <2>1, <3>5 DEF TokenOf
  <2> QED BY <2>3, <2>4
<1>12. Grows
  BY <1>4 DEF Grows
<1>13. ASSUME NEW r \in Sub PROVE Supplied(r)'
  <2>1. Supplied(r)
    BY <1>1 DEF Tallied
  <2>2. CASE r # s
    <3>1. tokenCount'[r] = tokenCount[r] /\ childrenLeft'[r] = childrenLeft[r]
      BY <1>4, <1>6, <2>2
    <3>2. r \in separated' <=> r \in separated
      BY <1>4
    <3>3. \A m \in network' : m.type = "deliver" /\ m.sub = r => m \in network
      BY <1>4
    <3>4. \A v \in Worker : /\ r \in workerPool'[v] => r \in workerPool[v]
                            /\ r \in serverPool'[v] => r \in serverPool[v]
      BY <1>7, <2>2
    <3> QED BY <1>12, <2>1, <3>1, <3>2, <3>3, <3>4, SupplyKept
  <2>3. CASE r = s
    <3>1. s \in Made'
      BY <1>3, <1>12, MadeGrows
    <3>2. tokenCount'[s] = 1 /\ s \notin separated' /\ \A v \in Worker : s \notin workerPool'[v]
      BY <1>2, <1>4, <1>5, <1>6, <1>7
    <3>3. \A m \in network' : ~(m.type = "deliver" /\ m.sub = s)
      BY <1>3, <1>4 DEF InDelivery
    <3> QED BY <2>3, <3>1, <3>2, <3>3 DEF Supplied
  <2> QED BY <2>2, <2>3
<1> HIDE DEF t
<1> QED BY <1>2, <1>4, <1>6, <1>8, <1>9, <1>10, <1>11, <1>13, ReleaseTally

-----------------------------------------------------------------------------
(***************************************************************************)
(* Problems that are delivered.                                            *)
(***************************************************************************)
\* One message less.
LEMMA OneMessageLess ==
  ASSUME Counted, NEW m \in network, network' = network \ {m}, Adjusting' = Adjusting,
         hubDispatch' = hubDispatch - 1
  PROVE  /\ IsFiniteSet(network') /\ IsFiniteSet(Adjusting')
         /\ hubDispatch' = Cardinality(network') + Cardinality(Adjusting')
<1>1. /\ IsFiniteSet(network) /\ IsFiniteSet(Adjusting)
      /\ hubDispatch = Cardinality(network) + Cardinality(Adjusting)
      /\ Cardinality(network) \in Nat /\ Cardinality(Adjusting) \in Nat
  BY BalanceNow, CountsAreNumbers DEF Counted
<1>2. IsFiniteSet(network') /\ Cardinality(network') = Cardinality(network) - 1
  BY <1>1, CountOne
<1>3. PICK a, b, c : /\ a \in Nat /\ b \in Nat
                     /\ a = Cardinality(network) /\ b = Cardinality(Adjusting)
                     /\ c = Cardinality(network')
  BY <1>1
<1>4. hubDispatch' = (a + b) - 1 /\ c = a - 1
  BY <1>1, <1>2, <1>3, Zenon
<1>5. hubDispatch' = c + b
  BY <1>3, <1>4
<1> QED BY <1>1, <1>2, <1>3, <1>5, Zenon

\* The token a hub deletes when a problem arrives was not in its pool.
LEMMA AddQuiet ==
  ASSUME WorkAssumption, Shapes, Addressed', NEW w \in Worker, NEW c, NEW b, NEW a \in Address,
         AddToWorkerPool(w, c, b, a), hubPool' = hubPool
  PROVE  \A x : AtHub(token', hubPool', x) <=> AtHub(token, hubPool, x)
<1>1. \/ token' = token
      \/ w \in Hub /\ token' = [token EXCEPT ![w][a] = NoToken]
  BY Zenon DEF AddToWorkerPool
<1>2. CASE token' = token
  BY <1>2, Zenon
<1>3. CASE w \in Hub /\ token' = [token EXCEPT ![w][a] = NoToken]
  <2>1. token \in [Hub -> [Address -> Token \cup {NoToken}]] /\ hubPool \in [Hub -> SUBSET Address]
    BY DEF Shapes
  <2>2. /\ token'[w][a] = NoToken
        /\ \A g \in Hub : \A k \in Address : ~(g = w /\ k = a) => token'[g][k] = token[g][k]
    BY <1>3, <2>1
  <2>3. a \notin hubPool[w]
    <3>1. PoolsApart(w)'
      BY <1>3 DEF Addressed, HubIsSound
    <3>2. \A k \in hubPool'[w] : token'[w][k] \in Token
      BY <3>1 DEF PoolsApart
    <3> QED BY <2>2, <3>2, FreeIsNoToken
  <2>4. \A g \in Hub : \A k \in hubPool[g] : token'[g][k] = token[g][k]
    BY <1>3, <2>1, <2>2, <2>3
  <2> QED BY <2>4, Zenon DEF AtHub
<1> QED BY <1>1, <1>2, <1>3

\* Workers have more in memory, which is not in the way of any token.
LEMMA MorePooled ==
  ASSUME UNCHANGED <<serverPool, separated, childrenLeft>>,
         \A v \in Worker : workerPool[v] \subseteq workerPool'[v],
         NEW t, t.owner \in Worker, HasData(t)
  PROVE  HasData(t)'
<1>1. CASE t.self
  BY <1>1 DEF HasData
<1>2. CASE ~t.self
  BY <1>2 DEF HasData
<1> QED BY <1>1, <1>2

\* The pool a problem is inserted in.
LEMMA InsertedIn ==
  ASSUME Shapes, NEW w \in Worker, NEW c, Inserts(w, c)
  PROVE  \A v \in Worker : /\ workerPool[v] \subseteq workerPool'[v]
                           /\ workerPool'[v] \subseteq workerPool[v] \cup {c}
<1>1. workerPool \in [Worker -> SUBSET Sub]
  BY DEF Shapes
<1>2. PICK S : S = {s \in {c} : ~CanFathom(w, s)}
  OBVIOUS
<1>3. S \subseteq {c} /\ workerPool' = [workerPool EXCEPT ![w] = @ \cup S]
  BY <1>2 DEF Inserts
<1> QED BY <1>1, <1>3

\* A problem arrives.
LEMMA SpReceiveCount ==
  ASSUME Counted, Addressed', NEW w \in Worker, NEW m \in network, SpReceive(w, m)
  PROVE  Tallied' /\ Balanced'
<1>1. WorkAssumption /\ Core /\ Shapes /\ Tallied
  BY DEF Counted, Step, Core
<1>2. /\ m.type = "deliver" /\ m.to = w /\ network' = network \ {m}
      /\ AddToWorkerPool(w, m.sub, m.bound, m.address)
      /\ UNCHANGED <<serverPool, separated, childrenLeft, tokenCount, hubPool>>
      /\ UNCHANGED <<localScatter, nonLocalScatter>>
  BY DEF SpReceive
<1>3. m \in Delivery
  BY <1>1, <1>2 DEF Shapes
<1>4. PICK c \in Sub : c = m.sub
  BY <1>3 DEF Delivery
<1>5. m.address \in Address
  BY <1>3 DEF Delivery
<1>6. /\ Inserts(w, c) /\ hubDispatch' = hubDispatch - 1
  BY <1>2, <1>4 DEF AddToWorkerPool, Inserts
<1>7. \A v \in Worker : /\ workerPool[v] \subseteq workerPool'[v]
                        /\ workerPool'[v] \subseteq workerPool[v] \cup {c}
  BY <1>1, <1>6, InsertedIn
<1>8. WiresGo({}) /\ Adjusting' = Adjusting
  BY <1>1, <1>2, AddGo
<1>9. RestsOrGoes /\ Gone = {}
  <2>1. \A x : AtHub(token', hubPool', x) <=> AtHub(token, hubPool, x)
    BY <1>1, <1>2, <1>5, AddQuiet
  <2>2. \A x : AtDispatch(network', x) <=> AtDispatch(network, x)
    BY <1>2 DEF AtDispatch
  <2>3. \A x : AtRestNext(x) <=> AtRest(x)
    BY <2>1, <2>2, Zenon DEF AtRest, AtRestNext
  <2> QED BY <2>3 DEF RestsOrGoes, Gone
<1>10. PICK f : Moves(f, {}, {})
  <2>1. IsFiniteSet({})
    BY CountNone
  <2> QED BY <1>8, <1>9, <2>1, ShrinkMoves
<1>11. ASSUME NEW o \in Outstanding, HasData(TokenOf(o)) PROVE HasData(TokenOf(o))'
  <2>1. PICK t : t = TokenOf(o)
    OBVIOUS
  <2>2. t.owner \in Worker /\ HasData(t)
    BY <1>1, <1>11, <2>1 DEF Tallied, DataOf, Token
  <2>3. HasData(t)'
    BY <1>2, <1>7, <2>2, MorePooled
  <2> QED BY <2>1, <2>3 DEF TokenOf
<1>12. Grows
  BY <1>2 DEF Grows
<1>13. ASSUME NEW r \in Sub PROVE Supplied(r)'
  <2>1. Supplied(r) /\ Single(r)
    BY <1>1 DEF Tallied, Core
  <2>2. CASE r # c
    <3>1. \A n \in network' : n.type = "deliver" /\ n.sub = r => n \in network
      BY <1>2
    <3>2. \A v \in Worker : /\ r \in workerPool'[v] => r \in workerPool[v]
                            /\ r \in serverPool'[v] => r \in serverPool[v]
      BY <1>2, <1>7, <2>2
    <3>3. /\ tokenCount'[r] = tokenCount[r] /\ childrenLeft'[r] = childrenLeft[r]
          /\ r \in separated' <=> r \in separated
      BY <1>2
    <3> QED BY <1>12, <2>1, <3>1, <3>2, <3>3, SupplyKept
  <2>3. CASE r = c
    <3>1. tokenCount'[c] = 0
      BY <1>2, <1>4, <2>1, <2>3 DEF Supplied
    <3>2. PICK x : x = <<"delivery", m>>
      OBVIOUS
    <3>3. InDelivery(network, c, x)
      BY <1>2, <1>4, <3>2 DEF InDelivery
    <3>4. x \in Carriers(c) /\ x[1] = "delivery"
      BY <3>2, <3>3, CarriersNow
    <3>5. c \notin separated /\ \A v \in Worker : c \notin serverPool[v]
      BY <2>1, <2>3, <3>4 DEF Single, IsToken
    <3> QED BY <1>2, <2>3, <3>1, <3>5 DEF Supplied
  <2> QED BY <2>2, <2>3
<1>14. Tallied'
  <2>1. Relocates(f, {}, {}) /\ tokenCount' = tokenCount /\ separated \subseteq separated'
    BY <1>2, <1>10 DEF Moves
  <2> QED BY <1>11, <1>13, <2>1, KeptTally
<1>15. Balanced'
  <2>1. /\ IsFiniteSet(network') /\ IsFiniteSet(Adjusting')
        /\ hubDispatch' = Cardinality(network') + Cardinality(Adjusting')
    BY <1>2, <1>6, <1>8, OneMessageLess
  <2> QED BY <1>2, <1>10, <2>1, WiresBalance
<1> QED BY <1>14, <1>15

-----------------------------------------------------------------------------
(***************************************************************************)
(* A problem taken out of the data a token points to.                      *)
(***************************************************************************)
\* Token t at y is used to take c out of data that is still there.
TakesOut(y, t, c) ==
  /\ y \in Outstanding /\ t = TokenOf(y) /\ ~CanFathom(t.owner, t.sub)
  /\ c \in Deliverable(t) /\ TakeOut(t.owner, t, c) /\ separated' = separated
  /\ \A v \in Worker : /\ workerPool[v] \subseteq workerPool'[v]
                       /\ workerPool'[v] \subseteq workerPool[v] \cup {c}
  /\ \A n \in network' : n.type = "deliver" => n \in network \/ n.sub = c

\* The counts, children and data after c has been taken out.
Lessens(t, c) ==
  /\ \A r \in Sub : tokenCount'[r] = IF r = t.sub THEN tokenCount[r] - 1 ELSE tokenCount[r]
  /\ \A r \in Sub : childrenLeft'[r] = IF r = t.sub THEN childrenLeft[r] \ {c} ELSE childrenLeft[r]
  /\ \A v \in Worker, r \in Sub :
       r \in serverPool'[v] <=>
         /\ r \in serverPool[v]
         /\ v # t.owner \/ r # t.sub \/ childrenLeft'[r] # {} \/ tokenCount'[r] > 0

\* What taking out does, and what it is done to.
LEMMA TakenOut ==
  ASSUME Counted, NEW y, NEW t, NEW c, TakesOut(y, t, c)
  PROVE  /\ t \in Token /\ t.sub \in Sub /\ t.owner \in Worker /\ c \in Sub
         /\ HasData(t) /\ tokenCount[t.sub] \in Int /\ tokenCount[t.sub] >= 1
         /\ Lessens(t, c)
         /\ Grows
<1>1. WorkAssumption /\ Core /\ Shapes /\ Tallied
  BY DEF Counted, Step, Core
<1>2. y \in Outstanding /\ t = TokenOf(y)
  BY DEF TakesOut
<1>3. t \in Token /\ t.sub \in Sub /\ tokenCount[t.sub] \in Int /\ tokenCount[t.sub] >= 1
  BY <1>1, <1>2, TokenCounted, Zenon
<1>4. t.owner \in Worker
  BY <1>3 DEF Token
<1>5. HasData(t)
  BY <1>1, <1>2 DEF Tallied, DataOf, TakesOut
<1>6. c \in Sub
  <2>1. c \in IF t.self THEN {t.sub} ELSE childrenLeft[t.sub]
    BY DEF TakesOut, Deliverable
  <2>2. childrenLeft[t.sub] \subseteq Sub
    BY <1>1, <1>3 DEF Shapes
  <2> QED BY <1>3, <2>1, <2>2
<1>7. /\ tokenCount' = [tokenCount EXCEPT ![t.sub] = @ - 1]
      /\ childrenLeft' = [childrenLeft EXCEPT ![t.sub] = @ \ {c}]
      /\ serverPool' = [serverPool EXCEPT ![t.owner] =
           {s \in @ : s # t.sub \/ childrenLeft'[s] # {} \/ tokenCount'[s] > 0}]
      /\ separated' = separated
  BY DEF TakesOut, TakeOut
<1>8. /\ tokenCount \in [Sub -> Int] /\ childrenLeft \in [Sub -> SUBSET Sub]
      /\ serverPool \in [Worker -> SUBSET Sub] /\ separated \subseteq Sub
  BY <1>1 DEF Shapes
<1>9. /\ \A r \in Sub : tokenCount'[r] = IF r = t.sub THEN tokenCount[r] - 1 ELSE tokenCount[r]
      /\ \A r \in Sub : childrenLeft'[r] = IF r = t.sub THEN childrenLeft[r] \ {c} ELSE childrenLeft[r]
  BY <1>7, <1>8
<1>10. ASSUME NEW v \in Worker, NEW r \in Sub
       PROVE  r \in serverPool'[v] <=>
                /\ r \in serverPool[v]
                /\ v # t.owner \/ r # t.sub \/ childrenLeft'[r] # {} \/ tokenCount'[r] > 0
  BY <1>7, <1>8
<1>11. Grows
  BY <1>7, <1>8, <1>9 DEF Grows
<1>12. Lessens(t, c)
  BY <1>9, <1>10, Zenon DEF Lessens
<1> QED BY <1>3, <1>4, <1>5, <1>6, <1>11, <1>12

\* A problem as a whole leaves, and there was no other token for it.
LEMMA TakenWhole ==
  ASSUME Counted, NEW y, NEW t, NEW c, TakesOut(y, t, c), t.self
  PROVE  /\ c = t.sub /\ tokenCount[c] = 1 /\ tokenCount'[c] = 0
         /\ \A o \in Outstanding : TokenOf(o).sub = c => o = y
         /\ c \notin separated /\ \A v \in Worker : c \notin serverPool'[v]
         /\ \A n \in network : ~(n.type = "deliver" /\ n.sub = c)
<1>1. WorkAssumption /\ Core /\ Shapes /\ Tallied /\ IsFiniteSet(Outstanding)
  BY DEF Counted, Step, Core, Tallied
<1>2. /\ t \in Token /\ t.sub \in Sub /\ t.owner \in Worker /\ c \in Sub
      /\ HasData(t) /\ Lessens(t, c)
  BY TakenOut
<1>3. c = t.sub /\ y \in Outstanding /\ t = TokenOf(y)
  BY DEF TakesOut, Deliverable
<1>4. c \in serverPool[t.owner] /\ c \notin separated
  BY <1>2, <1>3 DEF HasData
<1>5. Single(c) /\ Supplied(c) /\ CountsOf(c)
  BY <1>1, <1>2 DEF Core, Tallied
<1>6. tokenCount[c] = 1
  BY <1>2, <1>4, <1>5 DEF Supplied
<1>7. tokenCount'[c] = 0
  BY <1>2, <1>3, <1>6 DEF Lessens
<1>8. childrenLeft[c] = {}
  BY <1>1, <1>2, <1>4, ChildrenLeft DEF Core
<1>9. childrenLeft'[c] = {}
  <2>1. childrenLeft'[c] = childrenLeft[c] \ {c}
    BY <1>2, <1>3 DEF Lessens
  <2> QED BY <1>8, <2>1
<1>10. ASSUME NEW v \in Worker PROVE c \notin serverPool'[v]
  <2>1. c \in serverPool'[v] => c \in serverPool[v] /\ v # t.owner
    BY <1>2, <1>3, <1>7, <1>9 DEF Lessens
  <2>2. c \in serverPool[v] => v = t.owner
    BY <1>2, <1>4, <1>5 DEF Single
  <2> QED BY <2>1, <2>2
<1>11. ASSUME NEW o \in Outstanding, TokenOf(o).sub = c PROVE o = y
  <2>1. o \in TokensFor(c) /\ y \in TokensFor(c) /\ TokensFor(c) \subseteq Outstanding
    BY <1>3, <1>11 DEF TokensFor
  <2>2. IsFiniteSet(TokensFor(c))
    BY <1>1, <2>1, CountPart, Zenon
  <2>3. Cardinality(TokensFor(c)) <= 1 /\ Cardinality(TokensFor(c)) \in Nat
    BY <1>5, <1>6, <2>2, CountOne DEF CountsOf
  <2>4. /\ Cardinality(TokensFor(c) \ {y}) = Cardinality(TokensFor(c)) - 1
        /\ Cardinality(TokensFor(c)) >= 1 /\ IsFiniteSet(TokensFor(c) \ {y})
    BY <2>1, <2>2, CountOne
  <2>5. Cardinality(TokensFor(c) \ {y}) = 0
    BY <2>3, <2>4
  <2>6. TokensFor(c) \ {y} = {}
    BY <2>4, <2>5, CountNone, Zenon
  <2> QED BY <2>1, <2>6
<1>12. ASSUME NEW n \in network, n.type = "deliver", n.sub = c PROVE FALSE
  <2>1. PICK x : x = <<"delivery", n>>
    OBVIOUS
  <2>2. InDelivery(network, c, x)
    BY <1>12, <2>1 DEF InDelivery
  <2>3. x \in Carriers(c) /\ x[1] = "delivery"
    BY <2>1, <2>2, CarriersNow
  <2> QED BY <1>2, <1>4, <1>5, <2>3 DEF Single, IsToken
<1> QED BY <1>3, <1>4, <1>6, <1>7, <1>10, <1>11, <1>12

\* A child leaves: nobody else has it, and there are others for the other tokens.
LEMMA TakenChild ==
  ASSUME Counted, NEW y, NEW t, NEW c, TakesOut(y, t, c), ~t.self
  PROVE  /\ t.sub \in separated /\ c \in childrenLeft[t.sub] /\ c # t.sub
         /\ Cardinality(childrenLeft'[t.sub]) = Cardinality(childrenLeft[t.sub]) - 1
         /\ Cardinality(childrenLeft[t.sub]) \in Nat
         /\ tokenCount'[c] = 0 /\ c \notin separated
         /\ \A v \in Worker : c \notin serverPool'[v]
         /\ \A n \in network : ~(n.type = "deliver" /\ n.sub = c)
         /\ \A o \in Outstanding : o # y /\ TokenOf(o).sub = t.sub => childrenLeft'[t.sub] # {}
<1>1. WorkAssumption /\ Core /\ Shapes /\ Tallied /\ IsFiniteSet(Outstanding)
  BY DEF Counted, Step, Core, Tallied
<1>2. /\ t \in Token /\ t.sub \in Sub /\ t.owner \in Worker /\ c \in Sub
      /\ HasData(t) /\ tokenCount[t.sub] \in Int /\ Lessens(t, c)
  BY TakenOut
<1>3. PICK s \in Sub : s = t.sub
  BY <1>2
<1>4. c \in childrenLeft[s] /\ y \in Outstanding /\ t = TokenOf(y)
  BY <1>3 DEF TakesOut, Deliverable
<1>5. /\ c # s /\ s \in separated /\ c \notin separated /\ c \notin Made
      /\ \A v \in Worker : c \notin serverPool[v]
      /\ \A x : ~InDelivery(network, c, x)
  BY <1>1, <1>4, Unmade
<1>6. tokenCount'[c] = 0
  <2>1. tokenCount[c] = 0
    BY <1>1, <1>2, <1>5 DEF Tallied, Supplied
  <2> QED BY <1>2, <1>3, <1>5, <2>1 DEF Lessens
<1>7. \A v \in Worker : c \notin serverPool'[v]
  BY <1>2, <1>5 DEF Lessens
<1>8. \A n \in network : ~(n.type = "deliver" /\ n.sub = c)
  BY <1>5 DEF InDelivery
<1>9. IsFiniteSet(childrenLeft[s]) /\ childrenLeft'[s] = childrenLeft[s] \ {c}
  BY <1>1, <1>2, <1>3, LeftIsFinite DEF Lessens
<1>10. /\ Cardinality(childrenLeft'[s]) = Cardinality(childrenLeft[s]) - 1
       /\ Cardinality(childrenLeft[s]) \in Nat
  BY <1>4, <1>9, CountOne
<1>11. tokenCount[s] <= Cardinality(childrenLeft[s])
  <2>1. Supplied(s)
    BY <1>1 DEF Tallied
  <2>2. s \in workerPool[t.owner] \/ s \in serverPool[t.owner]
    BY <1>2, <1>3 DEF HasData
  <2>3. CASE s \in workerPool[t.owner]
    <3>1. tokenCount[s] < Cardinality(childrenLeft[s])
      BY <1>2, <1>5, <2>1, <2>3 DEF Supplied
    <3> QED BY <1>2, <1>3, <1>10, <3>1
  <2>4. CASE s \in serverPool[t.owner]
    <3>1. tokenCount[s] = Cardinality(childrenLeft[s])
      BY <1>2, <1>5, <2>1, <2>4 DEF Supplied
    <3> QED BY <1>2, <1>3, <1>10, <3>1
  <2> QED BY <2>2, <2>3, <2>4
<1>12. ASSUME NEW o \in Outstanding, o # y, TokenOf(o).sub = s PROVE childrenLeft'[s] # {}
  <2>1. o \in TokensFor(s) /\ y \in TokensFor(s) /\ TokensFor(s) \subseteq Outstanding
    BY <1>3, <1>4, <1>12 DEF TokensFor
  <2>2. IsFiniteSet(TokensFor(s))
    BY <1>1, <2>1, CountPart, Zenon
  <2>3. /\ Cardinality(TokensFor(s) \ {y}) = Cardinality(TokensFor(s)) - 1
        /\ Cardinality(TokensFor(s)) \in Nat /\ IsFiniteSet(TokensFor(s) \ {y})
    BY <2>1, <2>2, CountOne
  <2>4. o \in TokensFor(s) \ {y}
    BY <1>12, <2>1
  <2>5. Cardinality(TokensFor(s) \ {y}) >= 1
    BY <2>3, <2>4, CountOne, Zenon
  <2>6. Cardinality(TokensFor(s)) <= tokenCount[s]
    BY <1>1 DEF Tallied, CountsOf
  <2>7. Cardinality(childrenLeft'[s]) # 0
    <3>1. PICK a, b, d, e : /\ a = Cardinality(TokensFor(s)) /\ b = tokenCount[s]
                            /\ d = Cardinality(childrenLeft[s]) /\ e = Cardinality(childrenLeft'[s])
      OBVIOUS
    <3>2. a \in Nat /\ b \in Int /\ d \in Nat /\ e = d - 1 /\ a - 1 >= 1 /\ a <= b /\ b <= d
      BY <1>2, <1>3, <1>10, <1>11, <2>3, <2>5, <2>6, <3>1
    <3> QED BY <3>1, <3>2
  <2> QED BY <2>7, CountNone
<1> QED BY <1>3, <1>4, <1>5, <1>6, <1>7, <1>8, <1>10, <1>12

\* The data of every other token is still there.
LEMMA TakenData ==
  ASSUME Counted, NEW y, NEW t, NEW c, TakesOut(y, t, c),
         NEW o \in Outstanding, o # y, NEW u, u = TokenOf(o), HasData(u)
  PROVE  HasData(u)'
<1>1. WorkAssumption /\ Core /\ Shapes /\ Tallied
  BY DEF Counted, Step, Core
<1>2. t.sub \in Sub /\ t.owner \in Worker /\ c \in Sub /\ Lessens(t, c)
  BY TakenOut
<1>3. u \in Token /\ u.sub \in Sub /\ u.owner \in Worker /\ (~u.self => u.sub \in separated)
  BY <1>1 DEF Tallied, DataOf, Token
<1>4. /\ separated' = separated
      /\ \A v \in Worker : workerPool[v] \subseteq workerPool'[v]
  BY DEF TakesOut
<1>5. CASE u.sub # t.sub
  <2>1. childrenLeft'[u.sub] = childrenLeft[u.sub]
    BY <1>2, <1>3, <1>5 DEF Lessens
  <2>2. u.sub \in serverPool[u.owner] => u.sub \in serverPool'[u.owner]
    BY <1>2, <1>3, <1>5 DEF Lessens
  <2>3. u.sub \in workerPool[u.owner] => u.sub \in workerPool'[u.owner]
    BY <1>3, <1>4
  <2>4. CASE u.self
    BY <1>4, <2>2, <2>4 DEF HasData
  <2>5. CASE ~u.self
    BY <2>1, <2>2, <2>3, <2>5 DEF HasData
  <2> QED BY <2>4, <2>5
<1>6. CASE u.sub = t.sub
  <2>1. ~t.self
    <3>1. ASSUME t.self PROVE FALSE
      <4>1. c = t.sub /\ \A q \in Outstanding : TokenOf(q).sub = c => q = y
        BY <3>1, TakenWhole
      <4> QED BY <1>6, <4>1
    <3> QED BY <3>1
  <2>2. t.sub \in separated /\ childrenLeft'[t.sub] # {}
    BY <1>6, <2>1, TakenChild
  <2>3. ~u.self
    BY <1>6, <2>2 DEF HasData
  <2>4. u.sub \in serverPool[u.owner] => u.sub \in serverPool'[u.owner]
    BY <1>2, <1>3, <1>6, <2>2 DEF Lessens
  <2>5. u.sub \in workerPool[u.owner] => u.sub \in workerPool'[u.owner]
    BY <1>3, <1>4
  <2> QED BY <1>6, <2>2, <2>3, <2>4, <2>5 DEF HasData
<1> QED BY <1>5, <1>6

\* Every problem is supplied as before, the one that data was taken out of, and
\* the one taken out.
LEMMA TakenSupply ==
  ASSUME Counted, NEW y, NEW t, NEW c, TakesOut(y, t, c), NEW r \in Sub
  PROVE  Supplied(r)'
<1>1. WorkAssumption /\ Core /\ Shapes /\ Tallied
  BY DEF Counted, Step, Core
<1>2. /\ t.sub \in Sub /\ t.owner \in Worker /\ c \in Sub /\ Lessens(t, c) /\ Grows
      /\ HasData(t) /\ tokenCount[t.sub] \in Int
  BY TakenOut
<1>3. /\ separated' = separated
      /\ \A v \in Worker : workerPool'[v] \subseteq workerPool[v] \cup {c}
      /\ \A n \in network' : n.type = "deliver" => n \in network \/ n.sub = c
  BY DEF TakesOut
<1>4. Supplied(r) /\ Single(r)
  BY <1>1 DEF Tallied, Core
<1>5. CASE r # c /\ r # t.sub
  <2>1. tokenCount'[r] = tokenCount[r] /\ childrenLeft'[r] = childrenLeft[r]
    BY <1>2, <1>5 DEF Lessens
  <2>2. \A v \in Worker : r \in serverPool'[v] => r \in serverPool[v]
    BY <1>2 DEF Lessens
  <2>3. /\ \A v \in Worker : /\ r \in workerPool'[v] => r \in workerPool[v]
                             /\ r \in serverPool'[v] => r \in serverPool[v]
        /\ \A n \in network' : n.type = "deliver" /\ n.sub = r => n \in network
        /\ r \in separated' <=> r \in separated
    BY <1>3, <1>5, <2>2
  <2> QED BY <1>2, <1>4, <2>1, <2>3, SupplyKept
<1>6. CASE r = c
  <2>1. tokenCount'[c] = 0 /\ c \notin separated /\ \A v \in Worker : c \notin serverPool'[v]
    <3>1. CASE t.self
      BY <3>1, TakenWhole
    <3>2. CASE ~t.self
      BY <3>2, TakenChild
    <3> QED BY <3>1, <3>2
  <2> QED BY <1>3, <1>6, <2>1 DEF Supplied
<1>7. CASE r = t.sub /\ r # c
  <2>1. ~t.self
    BY <1>7 DEF TakesOut, Deliverable
  <2>2. /\ r \in separated
        /\ Cardinality(childrenLeft'[r]) = Cardinality(childrenLeft[r]) - 1
        /\ Cardinality(childrenLeft[r]) \in Nat
    BY <1>7, <2>1, TakenChild
  <2>3. tokenCount'[r] = tokenCount[r] - 1 /\ tokenCount[r] \in Int
    BY <1>2, <1>7 DEF Lessens
  <2>4. r \in Made'
    <3>1. r \in Made
      <4>1. separated \subseteq Made
        BY <1>1 DEF Core, ChildrenAreKept
      <4> QED BY <2>2, <4>1
    <3> QED BY <1>2, <3>1, MadeGrows
  <2>5. \A n \in network' : ~(n.type = "deliver" /\ n.sub = r)
    <3>1. ASSUME NEW n \in network', n.type = "deliver", n.sub = r PROVE FALSE
      <4>1. n \in network
        BY <1>3, <1>7, <3>1
      <4>2. PICK x : x = <<"delivery", n>>
        OBVIOUS
      <4>3. InDelivery(network, r, x)
        BY <3>1, <4>1, <4>2 DEF InDelivery
      <4>4. x \in Carriers(r) /\ x[1] = "delivery"
        BY <4>2, <4>3, CarriersNow
      <4> QED BY <1>4, <2>2, <4>4 DEF Single
    <3> QED BY <3>1
  <2>6. ASSUME NEW v \in Worker, r \in serverPool'[v]
        PROVE  tokenCount'[r] = Cardinality(childrenLeft'[r])
    <3>1. r \in serverPool[v]
      BY <1>2, <2>6 DEF Lessens
    <3>2. tokenCount[r] = Cardinality(childrenLeft[r])
      BY <1>4, <2>2, <3>1 DEF Supplied
    <3> QED BY <2>2, <2>3, <3>2
  <2>7. ASSUME NEW v \in Worker, r \in workerPool'[v]
        PROVE  tokenCount'[r] < Cardinality(childrenLeft'[r])
    <3>1. r \in workerPool[v]
      BY <1>3, <1>7, <2>7
    <3>2. tokenCount[r] < Cardinality(childrenLeft[r])
      BY <1>4, <2>2, <3>1 DEF Supplied
    <3> QED BY <2>2, <2>3, <3>2
  <2> QED BY <1>3, <2>2, <2>4, <2>5, <2>6, <2>7 DEF Supplied
<1> QED BY <1>5, <1>6, <1>7

\* So all is counted when the token has gone.
LEMMA TakenTally ==
  ASSUME Counted, NEW y, NEW t, NEW c, TakesOut(y, t, c), NEW f, NEW G, G = {y},
         Relocates(f, G, {})
  PROVE  Tallied'
<1>1. /\ WorkAssumption /\ Shapes /\ Shapes' /\ Better /\ Tallied /\ IsFiniteSet(Outstanding)
  BY DEF Counted, Step, Core, Tallied
<1>2. y \in Outstanding /\ t = TokenOf(y) /\ separated \subseteq separated'
  BY DEF TakesOut
<1>3. t.sub \in Sub /\ Lessens(t, c)
  BY TakenOut
<1>4. ASSUME NEW o \in Outstanding \ G, DataOf(TokenOf(o)) PROVE DataOf(TokenOf(o))'
  <2>1. PICK u : u = TokenOf(o)
    OBVIOUS
  <2>2. HasData(u) => HasData(u)'
    BY <1>4, <2>1, TakenData
  <2>3. DataOf(u)'
    BY <1>1, <1>2, <1>4, <2>1, <2>2, DataStays
  <2> QED BY <2>1, <2>3 DEF TokenOf
<1>5. ASSUME NEW r \in Sub PROVE CountsOf(r)'
  <2>1. CountsOf(r) /\ tokenCount[r] \in Int
    BY <1>1 DEF Tallied, Shapes
  <2>2. Bound[r] \in Nat /\ Best \in Nat /\ Best' \in Nat /\ Best' <= Best
    BY <1>1 DEF WorkAssumption, Better
  <2>3. CASE r = t.sub
    <3>1. y \in TokensFor(r)
      BY <1>2, <2>3 DEF TokensFor
    <3>2. tokenCount'[r] = tokenCount[r] - 1
      BY <1>3, <2>3 DEF Lessens
    <3>3. \A o \in TokensFor(r) : o \in G <=> o = y
      OBVIOUS
    <3> QED BY <1>1, <2>1, <2>2, <3>1, <3>2, <3>3, CountDrops
  <2>4. CASE r # t.sub
    <3>1. tokenCount'[r] = tokenCount[r] + 0
      BY <1>3, <2>1, <2>4 DEF Lessens
    <3>2. Cardinality(NewFor({}, r)) = 0 /\ 0 \in Nat /\ IsFiniteSet({})
      <4>1. NewFor({}, r) = {}
        BY DEF NewFor
      <4> QED BY <4>1, CountNone
    <3>3. \A o \in TokensFor(r) : o \in G => Bound[r] >= Best'
      BY <1>2, <2>4 DEF TokensFor
    <3> QED BY <1>1, <2>1, <2>2, <3>1, <3>2, <3>3, CountStays
  <2> QED BY <2>3, <2>4
<1>6. \A s \in Sub : Supplied(s)'
  BY TakenSupply
<1>7. IsFiniteSet({}) /\ \A x \in {} : DataOf(TokenOf(x))'
  BY CountNone
<1> QED BY <1>1, <1>4, <1>5, <1>6, <1>7, TalliedNext

-----------------------------------------------------------------------------
(***************************************************************************)
(* A dispatch is answered.                                                 *)
(***************************************************************************)
\* The token in a dispatch, and in none else, is used up.
LEMMA DispatchGone ==
  ASSUME \A x : AtHub(token', hubPool', x) <=> AtHub(token, hubPool, x),
         NEW m \in network, m.type = "dispatch",
         \A n : n.type = "dispatch" => (n \in network' <=> n \in network /\ n # m),
         NEW y, y = <<"dispatch", m.token, m>>
  PROVE  /\ y \in Outstanding /\ TokenOf(y) = m.token
         /\ RestsOrGoes /\ Gone = {y}
<1>1. \A x : AtDispatch(network', x) <=> AtDispatch(network, x) /\ x # y
  BY DEF AtDispatch
<1>2. AtDispatch(network, y) /\ y[1] = "dispatch" /\ TokenOf(y) = m.token
  BY DEF AtDispatch, TokenOf
<1>3. \A x : AtHub(token, hubPool, x) => x # y
  <2>1. \A x : AtHub(token, hubPool, x) => x[1] = "hub"
    BY PlaceKinds, Zenon
  <2> QED BY <1>2, <2>1
<1>4. \A x : AtRestNext(x) <=> AtRest(x) /\ x # y
  BY <1>1, <1>3, Zenon DEF AtRest, AtRestNext
<1>5. y \in Outstanding
  BY <1>2, PlacesNow, Zenon
<1>6. AtRest(y)
  BY <1>2 DEF AtRest
<1>7. RestsOrGoes /\ Gone = {y}
  BY <1>4, <1>5, <1>6 DEF RestsOrGoes, Gone
<1> QED BY <1>2, <1>5, <1>7

\* One message less, and the count of a hub to be adjusted instead.
LEMMA OneMessageTurns ==
  ASSUME Counted, NEW m \in network, network' = network \ {m}, NEW z, z \notin Adjusting,
         Adjusting' = Adjusting \cup {z}, hubDispatch' = hubDispatch
  PROVE  /\ IsFiniteSet(network') /\ IsFiniteSet(Adjusting')
         /\ hubDispatch' = Cardinality(network') + Cardinality(Adjusting')
<1>1. /\ IsFiniteSet(network) /\ IsFiniteSet(Adjusting)
      /\ hubDispatch = Cardinality(network) + Cardinality(Adjusting)
      /\ Cardinality(network) \in Nat /\ Cardinality(Adjusting) \in Nat
  BY BalanceNow, CountsAreNumbers DEF Counted
<1>2. /\ IsFiniteSet(network') /\ Cardinality(network') = Cardinality(network) - 1
      /\ IsFiniteSet(Adjusting') /\ Cardinality(Adjusting') = Cardinality(Adjusting) + 1
  BY <1>1, CountOne
<1>3. PICK a, b, c, d :
        /\ a \in Nat /\ b \in Nat /\ a = Cardinality(network) /\ b = Cardinality(Adjusting)
        /\ c = Cardinality(network') /\ d = Cardinality(Adjusting')
  BY <1>1
<1>4. hubDispatch' = a + b /\ c = a - 1 /\ d = b + 1
  BY <1>1, <1>2, <1>3, Zenon
<1>5. hubDispatch' = c + d
  BY <1>3, <1>4
<1> QED BY <1>1, <1>2, <1>3, <1>5, Zenon

\* A message for another.
LEMMA OneMessageForAnother ==
  ASSUME Counted, NEW m \in network, NEW d, d \notin network,
         network' = (network \ {m}) \cup {d},
         Adjusting' = Adjusting, hubDispatch' = hubDispatch
  PROVE  /\ IsFiniteSet(network') /\ IsFiniteSet(Adjusting')
         /\ hubDispatch' = Cardinality(network') + Cardinality(Adjusting')
<1>1. /\ IsFiniteSet(network) /\ IsFiniteSet(Adjusting)
      /\ hubDispatch = Cardinality(network) + Cardinality(Adjusting)
      /\ Cardinality(network) \in Nat
  BY BalanceNow, CountsAreNumbers DEF Counted
<1>2. PICK S : S = network \ {m}
  OBVIOUS
<1>3. IsFiniteSet(S) /\ Cardinality(S) = Cardinality(network) - 1
  BY <1>1, <1>2, CountOne
<1>4. d \notin S /\ network' = S \cup {d}
  BY <1>2
<1>5. IsFiniteSet(network') /\ Cardinality(network') = Cardinality(S) + 1
  BY <1>3, <1>4, CountOne
<1>6. Cardinality(network') = Cardinality(network)
  BY <1>1, <1>3, <1>5
<1> QED BY <1>1, <1>5, <1>6

\* A dispatch for data that may be gone is not answered.
LEMMA AbortCount ==
  ASSUME Counted, NEW p \in Worker, NEW m \in network, m.type = "dispatch", m.hub \in Hub,
         CanFathom(p, m.token.sub), m.token.sub \in Sub, network' = network \ {m},
         AbortDeliverSP(p, m.hub), UNCHANGED <<search, incumbent, outBuffer, token, hubPool>>,
         UNCHANGED <<localScatter, nonLocalScatter>>
  PROVE  Tallied' /\ Balanced'
<1>1. WorkAssumption /\ Core /\ Shapes
  BY DEF Counted, Step, Core
<1>2. PICK y : y = <<"dispatch", m.token, m>>
  OBVIOUS
<1>3. RestsOrGoes /\ Gone = {y} /\ TokenOf(y) = m.token
  <2>1. \A x : AtHub(token', hubPool', x) <=> AtHub(token, hubPool, x)
    BY Zenon
  <2>2. \A n : n.type = "dispatch" => (n \in network' <=> n \in network /\ n # m)
    OBVIOUS
  <2> QED BY <1>2, <2>1, <2>2, DispatchGone
<1>4. \A o \in Gone : Bound[TokenOf(o).sub] >= Best'
  <2>1. Best \in Nat /\ incumbent[p] \in Nat /\ Best <= incumbent[p] /\ Best' = Best
    <3>1. p \in Proc
      BY DEF Proc
    <3>2. Best \in Nat /\ incumbent[p] \in Nat /\ Best <= incumbent[p]
      BY <1>1, <3>1, BestIsLeast
    <3> QED BY <3>2 DEF Best
  <2>2. Bound[m.token.sub] >= incumbent[p] /\ Bound[m.token.sub] \in Nat
    BY <1>1 DEF CanFathom, WorkAssumption
  <2>3. Bound[m.token.sub] >= Best'
    BY <2>1, <2>2
  <2> QED BY <1>3, <2>3
<1>5. /\ UNCHANGED <<separated, childrenLeft, tokenCount>> /\ Pruned
      /\ \A n \in network' : n.type = "deliver" => n \in network
  <2>1. UNCHANGED <<workerPool, serverPool>>
    BY DEF search
  <2> QED BY <2>1, NoPruning DEF search
<1>6. /\ WiresGo({}) /\ IsFiniteSet(network') /\ IsFiniteSet(Adjusting')
      /\ hubDispatch' = Cardinality(network') + Cardinality(Adjusting')
  <2>1. CASE m.hub = HubOf[p]
    <3>1. hubDispatch' = hubDispatch - 1 /\ UNCHANGED <<outBuffer, hubQueue>>
      BY <2>1 DEF AbortDeliverSP
    <3>2. WiresGo({}) /\ Adjusting' = Adjusting
      BY <3>1, QuietGo
    <3> QED BY <3>1, <3>2, OneMessageLess
  <2>2. CASE m.hub # HubOf[p]
    <3>1. PICK h \in Hub : h = m.hub
      OBVIOUS
    <3>2. PICK msg : msg = [tokens |-> <<>>, acks |-> <<>>, adjust |-> 1]
      OBVIOUS
    <3>3. hubDispatch' = hubDispatch /\ hubQueue' = [hubQueue EXCEPT ![h][p] = Append(@, msg)]
      BY <2>2, <3>1, <3>2 DEF AbortDeliverSP
    <3>4. PICK n : n = Len(hubQueue[h][p]) + 1
      OBVIOUS
    <3>5. Appends(h, p, msg, n) /\ outBuffer' = outBuffer
      BY <3>3, <3>4 DEF Appends
    <3>6. msg.tokens = <<>> /\ msg.adjust = 1
      BY <3>2
    <3>7. /\ WiresGo({}) /\ <<h, p, n>> \notin Adjusting
          /\ Adjusting' = Adjusting \cup {z \in {<<h, p, n>>} : msg.adjust = 1}
      BY <1>1, <3>5, <3>6, SendGo
    <3>8. PICK z : z = <<h, p, n>>
      OBVIOUS
    <3>9. z \notin Adjusting /\ Adjusting' = Adjusting \cup {z}
      BY <3>6, <3>7, <3>8
    <3> QED BY <3>3, <3>7, <3>9, OneMessageTurns
  <2> QED BY <2>1, <2>2
<1> QED BY <1>3, <1>4, <1>5, <1>6, ShrinkCount

\* What is taken out is not already on its way.
LEMMA NotOnItsWay ==
  ASSUME Counted, NEW y, NEW t, NEW c, TakesOut(y, t, c), NEW d, d.type = "deliver", d.sub = c
  PROVE  d \notin network
<1>1. \A n \in network : ~(n.type = "deliver" /\ n.sub = c)
  <2>1. CASE t.self
    BY <2>1, TakenWhole
  <2>2. CASE ~t.self
    BY <2>2, TakenChild
  <2> QED BY <2>1, <2>2
<1> QED BY <1>1

\* The owner of the data keeps the problem, or sends it to the worker it is for.
LEMMA SpServeCount ==
  ASSUME Counted, Addressed', NEW p \in Worker, NEW m \in network, SpServe(p, m)
  PROVE  Tallied' /\ Balanced'
<1>1. WorkAssumption /\ Core /\ Shapes /\ Tallied
  BY DEF Counted, Step, Core
<1>2. /\ m.type = "dispatch" /\ m.to = p /\ hubPool' = hubPool /\ incumbent' = incumbent
      /\ UNCHANGED <<localScatter, nonLocalScatter>>
  BY DEF SpServe, pruning
<1>3. /\ m.hub \in Hub /\ m.address \in Address /\ m.token.owner = p
  BY <1>1, <1>2 DEF Shapes, Delivery
<1>4. PICK y : y = <<"dispatch", m.token, m>>
  OBVIOUS
<1>5. PICK t : t = m.token
  OBVIOUS
<1>6. y \in Outstanding /\ TokenOf(y) = t
  <2>1. AtDispatch(network, y) /\ TokenOf(y) = t
    BY <1>2, <1>4, <1>5 DEF AtDispatch, TokenOf
  <2> QED BY <2>1, PlacesNow, Zenon
<1>7. t \in Token /\ t.sub \in Sub
  BY <1>1, <1>6 DEF Tallied, DataOf, Token
<1>8. CASE MustAbort(p, m.token)
  <2>1. /\ network' = network \ {m} /\ AbortDeliverSP(p, m.hub)
        /\ UNCHANGED <<search, outBuffer, token>> /\ CanFathom(p, m.token.sub)
    BY <1>8 DEF SpServe, MustAbort
  <2> QED BY <1>2, <1>3, <1>5, <1>7, <2>1, AbortCount
<1>9. CASE ~MustAbort(p, m.token)
  <2>1. PICK c \in Deliverable(t) :
          /\ TakeOut(p, t, c) /\ separated' = separated
          /\ IF m.dest = p
             THEN /\ AddToWorkerPool(p, c, t.sub, m.address)
                  /\ network' = network \ {m}
             ELSE /\ network' = (network \ {m}) \cup
                       {[type |-> "deliver", to |-> m.dest, sub |-> c,
                         bound |-> t.sub, hub |-> m.hub, address |-> m.address]}
                  /\ UNCHANGED <<workerPool, report, token, transitPool, hubDispatch>>
    BY <1>5, <1>9, Zenon DEF SpServe
  <2>2. /\ y \in Outstanding /\ t = TokenOf(y) /\ ~CanFathom(t.owner, t.sub) /\ t.owner = p
        /\ TakeOut(t.owner, t, c)
    BY <1>3, <1>5, <1>6, <1>9, <2>1 DEF MustAbort
  <2>3. PICK d : d = [type |-> "deliver", to |-> m.dest, sub |-> c,
                      bound |-> t.sub, hub |-> m.hub, address |-> m.address]
    OBVIOUS
  <2>4. d.type = "deliver" /\ d.sub = c
    BY <2>3
  <2>5. CASE m.dest = p
    <3>1. AddToWorkerPool(p, c, t.sub, m.address) /\ network' = network \ {m}
      BY <2>1, <2>5
    <3>2. Inserts(p, c) /\ hubDispatch' = hubDispatch - 1
      BY <3>1 DEF AddToWorkerPool, Inserts
    <3>3. TakesOut(y, t, c)
      <4>1. \A v \in Worker : /\ workerPool[v] \subseteq workerPool'[v]
                              /\ workerPool'[v] \subseteq workerPool[v] \cup {c}
        BY <1>1, <3>2, InsertedIn
      <4>2. \A n \in network' : n.type = "deliver" => n \in network \/ n.sub = c
        BY <3>1
      <4> QED BY <2>1, <2>2, <4>1, <4>2 DEF TakesOut
    <3>4. WiresGo({}) /\ Adjusting' = Adjusting
      BY <1>1, <3>1, AddGo
    <3>5. RestsOrGoes /\ Gone = {y}
      <4>1. \A x : AtHub(token', hubPool', x) <=> AtHub(token, hubPool, x)
        BY <1>1, <1>2, <1>3, <3>1, AddQuiet
      <4>2. \A n : n.type = "dispatch" => (n \in network' <=> n \in network /\ n # m)
        BY <3>1
      <4> QED BY <1>2, <1>4, <4>1, <4>2, DispatchGone
    <3>6. PICK f : Moves(f, Gone, {})
      <4>1. IsFiniteSet({})
        BY CountNone
      <4> QED BY <3>4, <3>5, <4>1, ShrinkMoves
    <3>7. PICK G : G = {y}
      OBVIOUS
    <3>8. Moves(f, G, {}) /\ Relocates(f, G, {})
      BY <3>5, <3>6, <3>7 DEF Moves
    <3>9. Tallied'
      BY <3>3, <3>7, <3>8, TakenTally
    <3>10. /\ IsFiniteSet(network') /\ IsFiniteSet(Adjusting')
           /\ hubDispatch' = Cardinality(network') + Cardinality(Adjusting')
      BY <3>1, <3>2, <3>4, OneMessageLess
    <3>11. Balanced'
      BY <1>2, <3>8, <3>10, WiresBalance
    <3> QED BY <3>9, <3>11
  <2>6. CASE m.dest # p
    <3>1. /\ network' = (network \ {m}) \cup {d}
          /\ UNCHANGED <<workerPool, report, token, hubDispatch>>
      BY <2>1, <2>3, <2>6
    <3>2. UNCHANGED <<outBuffer, hubQueue>>
      BY <3>1 DEF report
    <3>3. TakesOut(y, t, c)
      <4>1. \A v \in Worker : /\ workerPool[v] \subseteq workerPool'[v]
                              /\ workerPool'[v] \subseteq workerPool[v] \cup {c}
        BY <3>1
      <4>2. \A n \in network' : n.type = "deliver" => n \in network \/ n.sub = c
        BY <2>4, <3>1
      <4> QED BY <2>1, <2>2, <4>1, <4>2 DEF TakesOut
    <3>4. WiresGo({}) /\ Adjusting' = Adjusting
      BY <3>2, QuietGo
    <3>5. RestsOrGoes /\ Gone = {y}
      <4>1. \A x : AtHub(token', hubPool', x) <=> AtHub(token, hubPool, x)
        BY <1>2, <3>1, Zenon
      <4>2. \A n : n.type = "dispatch" => (n \in network' <=> n \in network /\ n # m)
        BY <2>4, <3>1
      <4> QED BY <1>2, <1>4, <4>1, <4>2, DispatchGone
    <3>6. PICK f : Moves(f, Gone, {})
      <4>1. IsFiniteSet({})
        BY CountNone
      <4> QED BY <3>4, <3>5, <4>1, ShrinkMoves
    <3>7. PICK G : G = {y}
      OBVIOUS
    <3>8. Moves(f, G, {}) /\ Relocates(f, G, {})
      BY <3>5, <3>6, <3>7 DEF Moves
    <3>9. Tallied'
      BY <3>3, <3>7, <3>8, TakenTally
    <3>10. /\ IsFiniteSet(network') /\ IsFiniteSet(Adjusting')
           /\ hubDispatch' = Cardinality(network') + Cardinality(Adjusting')
      <4>1. d \notin network
        BY <2>4, <3>3, NotOnItsWay
      <4> QED BY <3>1, <3>4, <4>1, OneMessageForAnother
    <3>11. Balanced'
      BY <1>2, <3>8, <3>10, WiresBalance
    <3> QED BY <3>9, <3>11
  <2> QED BY <2>5, <2>6
<1> QED BY <1>8, <1>9

-----------------------------------------------------------------------------
(***************************************************************************)
(* A hub gives a token out.                                                *)
(***************************************************************************)
\* The token at a, in place y, leaves the pool of hub h.
LeavesHub(h, a, y) ==
  /\ hubPool' = [hubPool EXCEPT ![h] = @ \ {a}]
  /\ token' = token \/ token' = [token EXCEPT ![h][a] = NoToken]
  /\ y = <<"hub", token[h][a], h, a>>

\* Then only that place is empty.
LEMMA HubPlaceGone ==
  ASSUME Shapes, NEW h \in Hub, NEW a \in hubPool[h], NEW y, LeavesHub(h, a, y)
  PROVE  /\ \A x : AtHub(token', hubPool', x) <=> AtHub(token, hubPool, x) /\ x # y
         /\ AtHub(token, hubPool, y) /\ y \in Outstanding
         /\ TokenOf(y) = token[h][a] /\ ~OnWire(y)
<1> USE DEF LeavesHub
<1>1. token \in [Hub -> [Address -> Token \cup {NoToken}]] /\ hubPool \in [Hub -> SUBSET Address]
  BY DEF Shapes
<1>2. a \in Address
  BY <1>1
<1>3. /\ hubPool'[h] = hubPool[h] \ {a}
      /\ \A g \in Hub : g # h => hubPool'[g] = hubPool[g] /\ token'[g] = token[g]
  BY <1>1, <1>2
<1>4. \A k \in hubPool'[h] : token'[h][k] = token[h][k]
  BY <1>1, <1>2, <1>3
<1>5. /\ \A x : AtHub(token', hubPool', x) <=>
           \/ AtHub(token, hubPool, x) /\ x[3] # h
           \/ \E k \in hubPool'[h] : x = <<"hub", token'[h][k], h, k>>
      /\ \A x : AtHub(token, hubPool, x) /\ x[3] = h <=>
           \E k \in hubPool[h] : x = <<"hub", token[h][k], h, k>>
  BY <1>3, HubPlaces
<1>6. ASSUME NEW x
      PROVE  (\E k \in hubPool'[h] : x = <<"hub", token'[h][k], h, k>>) <=>
               (\E k \in hubPool[h] : x = <<"hub", token[h][k], h, k>>) /\ x # y
  BY <1>3, <1>4
<1>7. y[3] = h
  OBVIOUS
<1>8. ASSUME NEW x PROVE AtHub(token', hubPool', x) <=> AtHub(token, hubPool, x) /\ x # y
  BY <1>5, <1>6, <1>7, Zenon
<1>9. AtHub(token, hubPool, y)
  BY <1>5, Zenon
<1>10. y \in Outstanding
  BY <1>9, PlacesNow, Zenon
<1>11. TokenOf(y) = token[h][a] /\ ~OnWire(y)
  BY DEF TokenOf, OnWire
<1> QED BY <1>8, <1>9, <1>10, <1>11

\* One message more.
LEMMA OneMessageMore ==
  ASSUME Counted, NEW d, d \notin network, network' = network \cup {d}, Adjusting' = Adjusting,
         hubDispatch' = hubDispatch + 1
  PROVE  /\ IsFiniteSet(network') /\ IsFiniteSet(Adjusting')
         /\ hubDispatch' = Cardinality(network') + Cardinality(Adjusting')
<1>1. /\ IsFiniteSet(network) /\ IsFiniteSet(Adjusting)
      /\ hubDispatch = Cardinality(network) + Cardinality(Adjusting)
      /\ Cardinality(network) \in Nat /\ Cardinality(Adjusting) \in Nat
  BY BalanceNow, CountsAreNumbers DEF Counted
<1>2. IsFiniteSet(network') /\ Cardinality(network') = Cardinality(network) + 1
  BY <1>1, CountOne
<1>3. PICK a, b, c : /\ a \in Nat /\ b \in Nat
                     /\ a = Cardinality(network) /\ b = Cardinality(Adjusting)
                     /\ c = Cardinality(network')
  BY <1>1
<1>4. hubDispatch' = (a + b) + 1 /\ c = a + 1
  BY <1>1, <1>2, <1>3, Zenon
<1>5. hubDispatch' = c + b
  BY <1>3, <1>4
<1> QED BY <1>1, <1>2, <1>3, <1>5, Zenon

\* A token that has been used up, wherever it was.
LEMMA UsedUpCount ==
  ASSUME Counted, NEW y, NEW t, NEW c, TakesOut(y, t, c), RestsOrGoes, Gone = {y}, WiresGo({}),
         UNCHANGED <<localScatter, nonLocalScatter>>,
         IsFiniteSet(network'), IsFiniteSet(Adjusting'),
         hubDispatch' = Cardinality(network') + Cardinality(Adjusting')
  PROVE  Tallied' /\ Balanced'
<1>1. PICK f : Moves(f, Gone, {})
  <2>1. IsFiniteSet({})
    BY CountNone
  <2> QED BY <2>1, ShrinkMoves
<1>2. PICK G : G = {y}
  OBVIOUS
<1>3. Moves(f, G, {}) /\ Relocates(f, G, {})
  BY <1>1, <1>2 DEF Moves
<1>4. Tallied'
  BY <1>2, <1>3, TakenTally
<1>5. Balanced'
  BY <1>3, WiresBalance
<1> QED BY <1>4, <1>5

\* The owner of the data is asked for it: the token moves into a dispatch.
LEMMA AskCount ==
  ASSUME Counted, NEW h \in Hub, NEW a \in hubPool[h], NEW m, m.type = "dispatch",
         m.token = token[h][a], m \notin network,
         hubPool' = [hubPool EXCEPT ![h] = @ \ {a}], network' = network \cup {m},
         hubDispatch' = hubDispatch + 1,
         UNCHANGED <<search, outBuffer, hubQueue, token, localScatter, nonLocalScatter>>
  PROVE  Tallied' /\ Balanced'
<1>1. WorkAssumption /\ Core /\ Shapes /\ Tallied
  BY DEF Counted, Step, Core
<1>2. PICK y : y = <<"hub", token[h][a], h, a>>
  OBVIOUS
<1>3. PICK z : z = <<"dispatch", m.token, m>>
  OBVIOUS
<1>4. /\ \A x : AtHub(token', hubPool', x) <=> AtHub(token, hubPool, x) /\ x # y
      /\ AtHub(token, hubPool, y) /\ y \in Outstanding
      /\ TokenOf(y) = token[h][a] /\ ~OnWire(y)
  <2>1. LeavesHub(h, a, y)
    BY <1>2 DEF LeavesHub
  <2> QED BY <1>1, <2>1, HubPlaceGone, Zenon
<1>5. \A x : AtDispatch(network', x) <=> AtDispatch(network, x) \/ x = z
  BY <1>3 DEF AtDispatch
<1>6. /\ \A x : AtHub(token, hubPool, x) => x[1] = "hub"
      /\ \A x : AtDispatch(network, x) => x[1] = "dispatch"
  BY PlaceKinds, Zenon
<1>7. y[1] = "hub" /\ z[1] = "dispatch"
  BY <1>2, <1>3
<1>8. ~AtRest(z)
  <2>1. ~AtDispatch(network, z)
    BY <1>3 DEF AtDispatch
  <2> QED BY <1>6, <1>7, <2>1 DEF AtRest
<1>9. \A x : AtRestNext(x) <=> (AtRest(x) /\ x # y) \/ x = z
  <2>1. \A x : AtDispatch(network, x) => x # y
    BY <1>6, <1>7
  <2> QED BY <1>4, <1>5, <2>1, Zenon DEF AtRest, AtRestNext
<1>10. PICK f : \A o \in Outstanding : f[o] = IF o = y THEN z ELSE o
  <2>1. PICK g : g = [o \in Outstanding |-> IF o = y THEN z ELSE o]
    OBVIOUS
  <2> QED BY <2>1
<1>11. \A o : AtWire(o) => f[o] = o
  <2>1. \A o : AtWire(o) => o \in Outstanding /\ o # y
    BY <1>4, KindOfPlace
  <2> QED BY <1>10, <2>1
<1>12. \A o : AtRest(o) => f[o] = IF o = y THEN z ELSE o
  <2>1. \A o : AtRest(o) => o \in Outstanding
    BY KindOfPlace
  <2> QED BY <1>10, <2>1
<1>13. RestMoves(f, {}, {})
  <2>1. AtRest(y) /\ ~OnWire(z) /\ TokenOf(z) = TokenOf(y)
    BY <1>3, <1>4, <1>7 DEF AtRest, OnWire, TokenOf
  <2> QED BY <1>8, <1>9, <1>12, <2>1, RestTurns
<1>14. WireMoves(f, {})
  <2>1. \A x \in {} : ~OnWire(x)
    OBVIOUS
  <2> QED BY <1>11, <2>1, QuietWires
<1>15. Moves(f, {}, {})
  BY <1>13, <1>14, CountNone, MovesCombine
<1>16. UNCHANGED <<workerPool, serverPool, separated, childrenLeft, tokenCount>>
  BY DEF search
<1>17. ASSUME NEW o \in Outstanding, HasData(TokenOf(o)) PROVE HasData(TokenOf(o))'
  BY <1>16, <1>17 DEF HasData, TokenOf
<1>18. ASSUME NEW s \in Sub PROVE Supplied(s)'
  <2>1. Supplied(s) /\ Grows
    BY <1>1, <1>16 DEF Tallied, Grows
  <2> QED BY <1>16, <2>1, SupplyKept
<1>19. Tallied'
  BY <1>15, <1>16, <1>17, <1>18, KeptTally DEF Moves
<1>20. Balanced'
  <2>1. Adjusting' = Adjusting
    BY DEF Adjusting
  <2>2. /\ IsFiniteSet(network') /\ IsFiniteSet(Adjusting')
        /\ hubDispatch' = Cardinality(network') + Cardinality(Adjusting')
    BY <2>1, OneMessageMore
  <2> QED BY <1>15, <2>2, WiresBalance
<1> QED BY <1>19, <1>20

\* A token in the pool of a hub has not been dispatched before.
LEMMA NotAsked ==
  ASSUME Counted, NEW h \in Hub, NEW a \in hubPool[h], NEW m, m.type = "dispatch", m.hub = h,
         m.address = a, ~CanFathom(h, m.token.sub)
  PROVE  m \notin network
<1> SUFFICES ASSUME m \in network PROVE FALSE
  OBVIOUS
<1>1. HubIsSound(h)
  BY DEF Counted, Step, Addressed
<1>2. PICK x : x = Back(m.address, m.dest, m.token.sub, <<"dispatch", m>>)
  OBVIOUS
<1>3. FromDispatch(network, h, x)
  BY <1>2 DEF FromDispatch
<1>4. x \in Returns(h)
  BY <1>3, ReturnsNow
<1>5. x.address = a /\ x.worker = m.dest /\ x.sub = m.token.sub
  BY <1>2 DEF Back
<1>6. HubOf[m.dest] = h /\ a \in transitPool[h][m.dest]
  BY <1>1, <1>4, <1>5 DEF HubIsSound, ReturnsAreRight, IsDispatched
<1>7. m.dest \in Worker
  <2>1. m \in Delivery \/ m.dest \in Worker
    BY DEF Counted, Step, Core, Shapes
  <2> QED BY <2>1 DEF Delivery
<1>8. m.dest \in Clients(h)
  BY <1>6, <1>7 DEF Clients
<1> QED BY <1>1, <1>6, <1>8 DEF HubIsSound, PoolsApart

\* The hub has a token's data delivered, or delivers it.
LEMMA HubSendCount ==
  ASSUME Counted, NEW h \in Hub, NEW w \in Worker, NEW a \in hubPool[h], HubSendWorkTo(h, w, a)
  PROVE  Tallied' /\ Balanced'
<1>1. WorkAssumption /\ Core /\ Shapes /\ Tallied /\ HubIsSound(h)
  BY DEF Counted, Step, Core, Addressed
<1>2. PICK t : t = token[h][a]
  OBVIOUS
<1>3. t \in Token /\ t.sub \in Sub /\ t.owner \in Worker
  BY <1>1, <1>2 DEF HubIsSound, PoolsApart, Token
<1>4. /\ ~needPruning[h] /\ HubOf[w] = h /\ hubPool' = [hubPool EXCEPT ![h] = @ \ {a}]
      /\ separated' = separated /\ UNCHANGED <<localScatter, nonLocalScatter>>
      /\ UNCHANGED <<outBuffer, hubQueue>>
  BY DEF HubSendWorkTo, report
<1>5. ~CanFathom(h, t.sub)
  BY <1>1, <1>2, <1>4 DEF HubIsSound, HasTokens
<1>6. PICK y : y = <<"hub", token[h][a], h, a>>
  OBVIOUS
<1>7. WiresGo({}) /\ Adjusting' = Adjusting
  BY <1>4, QuietGo
<1>8. CASE t.owner = h
  <2>1. PICK c \in Deliverable(t) :
          /\ TakeOut(h, t, c)
          /\ IF w = h
             THEN /\ workerPool' = [workerPool EXCEPT ![h] =
                                      @ \cup {s \in {c} : ~CanFathom(h, s)}]
                  /\ token' = [token EXCEPT ![h][a] = NoToken]
                  /\ UNCHANGED <<transitPool, network, hubDispatch>>
             ELSE /\ network' = network \cup
                       {[type |-> "deliver", to |-> w, sub |-> c, bound |-> t.sub,
                         hub |-> h, address |-> a]}
                  /\ transitPool' = [transitPool EXCEPT ![h][w] = @ \cup {a}]
                  /\ hubDispatch' = hubDispatch + 1
                  /\ UNCHANGED <<workerPool, token>>
    BY <1>2, <1>8, Zenon DEF HubSendWorkTo
  <2>2. PICK d : d = [type |-> "deliver", to |-> w, sub |-> c, bound |-> t.sub,
                      hub |-> h, address |-> a]
    OBVIOUS
  <2>3. d.type = "deliver" /\ d.sub = c
    BY <2>2
  <2>4. \/ /\ h \in Worker /\ Inserts(h, c) /\ network' = network /\ hubDispatch' = hubDispatch
           /\ token' = [token EXCEPT ![h][a] = NoToken]
        \/ /\ network' = network \cup {d} /\ hubDispatch' = hubDispatch + 1
           /\ UNCHANGED <<workerPool, token>>
    BY <1>3, <1>8, <2>1, <2>2 DEF Inserts
  <2>5. \A n : n.type = "dispatch" => (n \in network' <=> n \in network)
    BY <2>3, <2>4
  <2>6. \A v \in Worker : /\ workerPool[v] \subseteq workerPool'[v]
                          /\ workerPool'[v] \subseteq workerPool[v] \cup {c}
    <3>1. CASE h \in Worker /\ Inserts(h, c)
      BY <1>1, <3>1, InsertedIn
    <3>2. CASE workerPool' = workerPool
      BY <3>2
    <3> QED BY <2>4, <3>1, <3>2
  <2>7. /\ \A x : AtHub(token', hubPool', x) <=> AtHub(token, hubPool, x) /\ x # y
        /\ AtHub(token, hubPool, y) /\ y \in Outstanding
        /\ TokenOf(y) = token[h][a] /\ ~OnWire(y)
    <3>1. LeavesHub(h, a, y)
      BY <1>4, <1>6, <2>4 DEF LeavesHub
    <3> QED BY <1>1, <3>1, HubPlaceGone, Zenon
  <2>8. TakesOut(y, t, c)
    <3>1. \A n \in network' : n.type = "deliver" => n \in network \/ n.sub = c
      BY <2>3, <2>4
    <3>2. y \in Outstanding /\ t = TokenOf(y) /\ ~CanFathom(t.owner, t.sub) /\ TakeOut(t.owner, t, c)
      BY <1>2, <1>5, <1>8, <2>1, <2>7
    <3> QED BY <1>4, <2>1, <2>6, <3>1, <3>2 DEF TakesOut
  <2>9. RestsOrGoes /\ Gone = {y}
    <3>1. \A x : AtDispatch(network', x) <=> AtDispatch(network, x)
      BY <2>5 DEF AtDispatch
    <3>2. \A x : AtDispatch(network, x) => x # y
      <4>1. \A x : AtDispatch(network, x) => x[1] = "dispatch"
        BY PlaceKinds, Zenon
      <4>2. y[1] = "hub"
        BY <1>6
      <4> QED BY <4>1, <4>2
    <3>3. \A x : AtRestNext(x) <=> AtRest(x) /\ x # y
      BY <2>7, <3>1, <3>2, Zenon DEF AtRest, AtRestNext
    <3>4. AtRest(y)
      BY <2>7 DEF AtRest
    <3> QED BY <2>7, <3>3, <3>4 DEF RestsOrGoes, Gone
  <2>10. /\ IsFiniteSet(network') /\ IsFiniteSet(Adjusting')
         /\ hubDispatch' = Cardinality(network') + Cardinality(Adjusting')
    <3>1. CASE network' = network /\ hubDispatch' = hubDispatch
      <4>1. /\ IsFiniteSet(network) /\ IsFiniteSet(Adjusting)
            /\ hubDispatch = Cardinality(network) + Cardinality(Adjusting)
        BY BalanceNow DEF Counted
      <4> QED BY <1>7, <3>1, <4>1
    <3>2. CASE network' = network \cup {d} /\ hubDispatch' = hubDispatch + 1
      <4>1. d \notin network
        BY <2>3, <2>8, NotOnItsWay
      <4> QED BY <1>7, <3>2, <4>1, OneMessageMore
    <3> QED BY <2>4, <3>1, <3>2
  <2> QED BY <1>4, <1>7, <2>8, <2>9, <2>10, UsedUpCount
<1>9. CASE t.owner # h
  <2>1. PICK m : m = [type |-> "dispatch", to |-> t.owner, token |-> t,
                      dest |-> w, hub |-> h, address |-> a]
    OBVIOUS
  <2>2. m.type = "dispatch" /\ m.token = t /\ m.hub = h /\ m.address = a
    BY <2>1
  <2>3. /\ network' = network \cup {m} /\ hubDispatch' = hubDispatch + 1
        /\ UNCHANGED <<workerPool, serverPool, childrenLeft, tokenCount, token>>
    BY <1>2, <1>9, <2>1, Zenon DEF HubSendWorkTo
  <2>4. UNCHANGED search
    BY <1>4, <2>3 DEF search
  <2>5. m \notin network
    BY <1>5, <2>2, NotAsked
  <2> QED BY <1>2, <1>4, <2>2, <2>3, <2>4, <2>5, AskCount
<1> QED BY <1>8, <1>9

-----------------------------------------------------------------------------
(***************************************************************************)
(* A hub takes a message from a queue: the tokens in it that cannot be     *)
(* fathomed come to the pool, and the messages behind it move up.          *)
(***************************************************************************)
HeadOf(h, p) == hubQueue[h][p][1]

\* The tokens in it that are inserted.
Fresh(h, p) == {j \in DOMAIN HeadOf(h, p).tokens : ~CanFathom(h, HeadOf(h, p).tokens[j].sub)}

\* The fresh tokens are inserted at addresses that are not in use.
Inserted(h, p, at) ==
  /\ \A j \in Fresh(h, p) : at[j] \notin hubPool[h] /\ token'[h][at[j]] = HeadOf(h, p).tokens[j]
  /\ \A i, j \in Fresh(h, p) : at[i] = at[j] => i = j
  /\ \A a : a \in hubPool'[h] <=> a \in hubPool[h] \/ \E j \in Fresh(h, p) : a = at[j]
  /\ \A a \in hubPool[h] : token'[h][a] = token[h][a]
  /\ \A g \in Hub : g # h => hubPool'[g] = hubPool[g] /\ token'[g] = token[g]

\* A hub's allocator gives different addresses.
LEMMA AllocatedOnce ==
  ASSUME NEW h, NEW S, Places(h, S) # {}, NEW i \in S, NEW j \in S,
         Allocate(h, S)[i] = Allocate(h, S)[j]
  PROVE  i = j
<1>1. Allocate(h, S) \in Places(h, S)
  BY DEF Allocate
<1>2. PICK f : f = Allocate(h, S)
  OBVIOUS
<1>3. f \in Injection(S, Free(h)) /\ f[i] = f[j]
  BY <1>1, <1>2 DEF Places
<1> QED BY <1>3 DEF Injection, IsInjective

\* What a hub inserts is at addresses that were free.
LEMMA HubInserts ==
  ASSUME WorkAssumption, Shapes, NEW h \in Hub, NEW p \in Worker, HubIsSound(h), Addressed',
         HandleHubMessage(h, p)
  PROVE  \E at : Inserted(h, p, at)
<1> DEFINE q     == hubQueue[h][p]
           msg   == Head(q)
           fresh == {i \in DOMAIN msg.tokens : ~CanFathom(h, msg.tokens[i].sub)}
           at    == Allocate(h, fresh)
           dead  == Acknowledged(h, msg.acks)
           ix(a) == CHOOSE i \in fresh : at[i] = a
<1>1. /\ q \in Seq(HubMessage) /\ q # <<>>
      /\ token \in [Hub -> [Address -> Token \cup {NoToken}]]
      /\ hubPool \in [Hub -> SUBSET Address]
      /\ NoToken \notin Token
  <2>1. hubQueue[h][p] # <<>>
    BY DEF HandleHubMessage
  <2>2. hubQueue[h][p] \in Seq(HubMessage)
    BY DEF Shapes
  <2> QED BY <2>1, <2>2, FreeIsNoToken DEF Shapes
<1>2. Head(q) = q[1] /\ q[1] \in HubMessage
  <2> HIDE DEF q
  <2> QED BY <1>1, Shifted
<1>3. /\ Places(h, fresh) # {}
      /\ token' = [token EXCEPT ![h] = [a \in Address |->
           IF a \in dead THEN NoToken
           ELSE IF a \in Range(at) THEN msg.tokens[ix(a)] ELSE @[a]]]
      /\ hubPool' = [hubPool EXCEPT ![h] = @ \cup Range(at)]
  BY Zenon DEF HandleHubMessage
<1>4. msg = HeadOf(h, p)
  BY <1>2 DEF HeadOf
<1>5. fresh = Fresh(h, p)
  BY <1>4 DEF Fresh
<1> HIDE DEF q, msg, fresh
<1>6. /\ at \in [fresh -> Address] /\ DOMAIN at = fresh
      /\ \A i \in fresh : token[h][at[i]] = NoToken
      /\ \A i, j \in fresh : at[i] = at[j] => i = j
  BY <1>3, Allocated, AllocatedOnce
<1> HIDE DEF at, dead
<1>7. /\ Range(at) \subseteq Address
      /\ \A a : a \in Range(at) <=> \E j \in fresh : a = at[j]
      /\ \A j \in fresh : ix(at[j]) = j
  <2>1. Range(at) \subseteq Address /\ \A a : a \in Range(at) <=> \E j \in fresh : a = at[j]
    BY <1>6 DEF Range
  <2>2. ASSUME NEW j \in fresh PROVE ix(at[j]) = j
    <3>1. \E i \in fresh : at[i] = at[j]
      OBVIOUS
    <3>2. ix(at[j]) \in fresh /\ at[ix(at[j])] = at[j]
      BY <3>1
    <3> HIDE DEF ix
    <3> QED BY <1>6, <3>2
  <2> QED BY <2>1, <2>2
<1> HIDE DEF ix
<1>8. /\ \A a \in Address : token'[h][a] = IF a \in dead THEN NoToken
                                           ELSE IF a \in Range(at) THEN msg.tokens[ix(a)]
                                           ELSE token[h][a]
      /\ hubPool'[h] = hubPool[h] \cup Range(at)
      /\ \A g \in Hub : g # h => token'[g] = token[g] /\ hubPool'[g] = hubPool[g]
  BY <1>1, <1>3
<1>9. \A a \in hubPool'[h] : a \in Address /\ a \notin dead
  <2>1. PoolsApart(h)'
    BY DEF Addressed, HubIsSound
  <2>2. \A a \in hubPool'[h] : token'[h][a] \in Token
    BY <2>1 DEF PoolsApart
  <2>3. \A a \in hubPool'[h] : a \in Address
    BY <1>1, <1>7, <1>8
  <2> QED BY <1>1, <1>8, <2>2, <2>3
<1>10. \A a \in hubPool[h] : token[h][a] \in Token /\ a \notin Range(at)
  <2>1. \A a \in hubPool[h] : token[h][a] \in Token
    BY DEF HubIsSound, PoolsApart
  <2> QED BY <1>1, <1>6, <1>7, <2>1
<1>11. ASSUME NEW j \in fresh
       PROVE  at[j] \notin hubPool[h] /\ token'[h][at[j]] = msg.tokens[j]
  <2>1. at[j] \in Range(at) /\ at[j] \in hubPool'[h] /\ ix(at[j]) = j
    BY <1>7, <1>8
  <2> QED BY <1>8, <1>9, <1>10, <2>1
<1>12. \A a \in hubPool[h] : token'[h][a] = token[h][a]
  BY <1>8, <1>9, <1>10
<1>13. \A a : a \in hubPool'[h] <=> a \in hubPool[h] \/ \E j \in fresh : a = at[j]
  BY <1>7, <1>8
<1>14. Inserted(h, p, at)
  BY <1>4, <1>5, <1>6, <1>8, <1>11, <1>12, <1>13 DEF Inserted
<1> QED BY <1>14

\* The places in the hubs after that.
LEMMA InsertedPlaces ==
  ASSUME NEW h \in Hub, NEW p, NEW at, Inserted(h, p, at)
  PROVE  /\ \A x : AtHub(token', hubPool', x) <=>
              \/ AtHub(token, hubPool, x)
              \/ \E j \in Fresh(h, p) : x = <<"hub", HeadOf(h, p).tokens[j], h, at[j]>>
         /\ \A x : AtHub(token, hubPool, x) =>
              \A j \in Fresh(h, p) : ~(x[3] = h /\ x[4] = at[j])
<1>1. /\ \A j \in Fresh(h, p) : at[j] \notin hubPool[h] /\ token'[h][at[j]] = HeadOf(h, p).tokens[j]
      /\ \A a : a \in hubPool'[h] <=> a \in hubPool[h] \/ \E j \in Fresh(h, p) : a = at[j]
      /\ \A a \in hubPool[h] : token'[h][a] = token[h][a]
      /\ \A g \in Hub : g # h => hubPool'[g] = hubPool[g] /\ token'[g] = token[g]
  BY DEF Inserted
<1>2. ASSUME NEW x, AtHub(token', hubPool', x)
      PROVE  \/ AtHub(token, hubPool, x)
             \/ \E j \in Fresh(h, p) : x = <<"hub", HeadOf(h, p).tokens[j], h, at[j]>>
  <2>1. PICK g \in Hub : \E a \in hubPool'[g] : x = <<"hub", token'[g][a], g, a>>
    BY <1>2 DEF AtHub
  <2>2. PICK a \in hubPool'[g] : x = <<"hub", token'[g][a], g, a>>
    BY <2>1
  <2>3. CASE g = h /\ \E j \in Fresh(h, p) : a = at[j]
    BY <1>1, <2>2, <2>3
  <2>4. CASE g # h \/ a \in hubPool[h]
    <3>1. a \in hubPool[g] /\ token'[g][a] = token[g][a]
      BY <1>1, <2>2, <2>4
    <3> QED BY <2>2, <3>1 DEF AtHub
  <2> QED BY <1>1, <2>2, <2>3, <2>4
<1>3. ASSUME NEW x, AtHub(token, hubPool, x) PROVE AtHub(token', hubPool', x)
  <2>1. PICK g \in Hub : \E a \in hubPool[g] : x = <<"hub", token[g][a], g, a>>
    BY <1>3 DEF AtHub
  <2>2. PICK a \in hubPool[g] : x = <<"hub", token[g][a], g, a>>
    BY <2>1
  <2>3. a \in hubPool'[g] /\ token'[g][a] = token[g][a]
    BY <1>1
  <2> QED BY <2>2, <2>3 DEF AtHub
<1>4. ASSUME NEW j \in Fresh(h, p), NEW x, x = <<"hub", HeadOf(h, p).tokens[j], h, at[j]>>
      PROVE  AtHub(token', hubPool', x)
  <2>1. at[j] \in hubPool'[h] /\ x = <<"hub", token'[h][at[j]], h, at[j]>>
    BY <1>1, <1>4
  <2> QED BY <2>1, Zenon DEF AtHub
<1>5. ASSUME NEW x, AtHub(token, hubPool, x), NEW j \in Fresh(h, p), x[3] = h, x[4] = at[j]
      PROVE  FALSE
  <2>1. PICK g \in Hub : \E a \in hubPool[g] : x = <<"hub", token[g][a], g, a>>
    BY <1>5 DEF AtHub
  <2>2. PICK a \in hubPool[g] : x = <<"hub", token[g][a], g, a>>
    BY <2>1
  <2>3. g = h /\ a = at[j]
    BY <1>5, <2>2
  <2> QED BY <1>1, <2>3
<1>6. \A x : AtHub(token', hubPool', x) <=>
        \/ AtHub(token, hubPool, x)
        \/ \E j \in Fresh(h, p) : x = <<"hub", HeadOf(h, p).tokens[j], h, at[j]>>
  BY <1>2, <1>3, <1>4, Zenon
<1> QED BY <1>5, <1>6, Zenon

\* The messages behind the first move up.
MovesUp(h, p) ==
  /\ 1 \in DOMAIN hubQueue[h][p]
  /\ \A i \in DOMAIN hubQueue[h][p] : i \in Nat \ {0}
  /\ \A i \in DOMAIN hubQueue'[h][p] :
       /\ i \in Nat \ {0} /\ i + 1 \in DOMAIN hubQueue[h][p]
       /\ hubQueue'[h][p][i] = hubQueue[h][p][i + 1]
  /\ \A i \in DOMAIN hubQueue[h][p] : i # 1 =>
       /\ i - 1 \in DOMAIN hubQueue'[h][p] /\ hubQueue'[h][p][i - 1] = hubQueue[h][p][i]
  /\ \A g \in Hub, v \in Worker : ~(g = h /\ v = p) => hubQueue'[g][v] = hubQueue[g][v]

\* Handling the first message of a queue does that.
LEMMA QueueMovesUp ==
  ASSUME Shapes, NEW h \in Hub, NEW p \in Worker, HandleHubMessage(h, p)
  PROVE  MovesUp(h, p) /\ HeadOf(h, p) \in HubMessage
<1>1. /\ hubQueue \in [Hub -> [Worker -> Seq(HubMessage)]] /\ hubQueue[h][p] # <<>>
      /\ hubQueue' = [hubQueue EXCEPT ![h][p] = Tail(@)]
  BY DEF Shapes, HandleHubMessage
<1>2. PICK q \in Seq(HubMessage) : q = hubQueue[h][p]
  BY <1>1
<1>3. /\ hubQueue'[h][p] = Tail(q)
      /\ \A g \in Hub, v \in Worker : ~(g = h /\ v = p) => hubQueue'[g][v] = hubQueue[g][v]
  BY <1>1, <1>2
<1>4. /\ 1 \in DOMAIN q /\ q[1] \in HubMessage
      /\ \A i \in DOMAIN Tail(q) : i \in Nat \ {0} /\ i + 1 \in DOMAIN q /\ Tail(q)[i] = q[i + 1]
  BY <1>1, <1>2, Shifted
<1>5. \A i \in DOMAIN q : i # 1 => i - 1 \in DOMAIN Tail(q) /\ Tail(q)[i - 1] = q[i]
  BY <1>1, <1>2, ShiftedBack
<1>6. \A i \in DOMAIN q : i \in Nat \ {0}
  OBVIOUS
<1>7. MovesUp(h, p)
  BY <1>2, <1>3, <1>4, <1>5, <1>6, Zenon DEF MovesUp
<1> QED BY <1>2, <1>4, <1>7 DEF HeadOf

\* The place o is in the queue from p to h.
InLine(h, p, o) == o[1] = "queue" /\ o[3] = h /\ o[4] = p

\* A token in that queue is in one of its messages.
LEMMA LineNow ==
  ASSUME NEW h \in Hub, NEW p \in Worker, MovesUp(h, p), NEW o, AtQueue(hubQueue, o), InLine(h, p, o)
  PROVE  /\ o[5] \in DOMAIN hubQueue[h][p] /\ o[5] \in Nat \ {0}
         /\ o[6] \in DOMAIN hubQueue[h][p][o[5]].tokens
         /\ o[2] = hubQueue[h][p][o[5]].tokens[o[6]]
         /\ o = <<"queue", o[2], h, p, o[5], o[6]>>
<1>1. PICK g \in Hub, v \in Worker : \E i \in DOMAIN hubQueue[g][v] :
        \E j \in DOMAIN hubQueue[g][v][i].tokens :
          o = <<"queue", hubQueue[g][v][i].tokens[j], g, v, i, j>>
  BY DEF AtQueue
<1>5. PICK i \in DOMAIN hubQueue[g][v] : \E j \in DOMAIN hubQueue[g][v][i].tokens :
        o = <<"queue", hubQueue[g][v][i].tokens[j], g, v, i, j>>
  BY <1>1
<1>2. PICK j \in DOMAIN hubQueue[g][v][i].tokens :
        o = <<"queue", hubQueue[g][v][i].tokens[j], g, v, i, j>>
  BY <1>5
<1>3. g = h /\ v = p /\ o[5] = i /\ o[6] = j /\ o[2] = hubQueue[g][v][i].tokens[j]
  BY <1>2 DEF InLine
<1>4. i \in Nat \ {0}
  BY <1>3 DEF MovesUp
<1> QED BY <1>2, <1>3, <1>4

\* The places in the queues after that.
LEMMA LineNext ==
  ASSUME NEW h \in Hub, NEW p \in Worker, MovesUp(h, p)
  PROVE  \A x : AtQueue(hubQueue', x) <=>
           \/ AtQueue(hubQueue, x) /\ ~InLine(h, p, x)
           \/ \E o : /\ AtQueue(hubQueue, o) /\ InLine(h, p, o) /\ o[5] # 1
                     /\ x = <<"queue", o[2], h, p, o[5] - 1, o[6]>>
<1>1. ASSUME NEW x, AtQueue(hubQueue', x)
      PROVE  \/ AtQueue(hubQueue, x) /\ ~InLine(h, p, x)
             \/ \E o : /\ AtQueue(hubQueue, o) /\ InLine(h, p, o) /\ o[5] # 1
                       /\ x = <<"queue", o[2], h, p, o[5] - 1, o[6]>>
  <2>1. PICK g \in Hub, v \in Worker : \E i \in DOMAIN hubQueue'[g][v] :
          \E j \in DOMAIN hubQueue'[g][v][i].tokens :
            x = <<"queue", hubQueue'[g][v][i].tokens[j], g, v, i, j>>
    BY <1>1 DEF AtQueue
  <2>5. PICK i \in DOMAIN hubQueue'[g][v] : \E j \in DOMAIN hubQueue'[g][v][i].tokens :
          x = <<"queue", hubQueue'[g][v][i].tokens[j], g, v, i, j>>
    BY <2>1
  <2>2. PICK j \in DOMAIN hubQueue'[g][v][i].tokens :
          x = <<"queue", hubQueue'[g][v][i].tokens[j], g, v, i, j>>
    BY <2>5
  <2>3. CASE g = h /\ v = p
    <3>1. /\ i \in Nat \ {0} /\ i + 1 \in DOMAIN hubQueue[h][p]
          /\ hubQueue'[h][p][i] = hubQueue[h][p][i + 1]
      BY <2>2, <2>3 DEF MovesUp
    <3>2. PICK k : k = i + 1
      OBVIOUS
    <3>3. k \in DOMAIN hubQueue[h][p] /\ k # 1 /\ k - 1 = i /\ j \in DOMAIN hubQueue[h][p][k].tokens
      BY <2>2, <2>3, <3>1, <3>2
    <3>4. PICK o : o = <<"queue", hubQueue[h][p][k].tokens[j], h, p, k, j>>
      OBVIOUS
    <3>5. AtQueue(hubQueue, o)
      BY <3>3, <3>4 DEF AtQueue
    <3>6. InLine(h, p, o) /\ o[5] = k /\ o[2] = hubQueue[h][p][k].tokens[j] /\ o[6] = j
      BY <3>4 DEF InLine
    <3>7. x = <<"queue", o[2], h, p, o[5] - 1, o[6]>>
      BY <2>2, <2>3, <3>1, <3>2, <3>3, <3>6
    <3> QED BY <3>3, <3>5, <3>6, <3>7
  <2>4. CASE ~(g = h /\ v = p)
    <3>1. hubQueue'[g][v] = hubQueue[g][v]
      BY <2>4 DEF MovesUp
    <3>2. AtQueue(hubQueue, x)
      BY <2>2, <3>1 DEF AtQueue
    <3>3. ~InLine(h, p, x)
      BY <2>2, <2>4 DEF InLine
    <3> QED BY <3>2, <3>3
  <2> QED BY <2>3, <2>4
<1>2. ASSUME NEW x, AtQueue(hubQueue, x), ~InLine(h, p, x) PROVE AtQueue(hubQueue', x)
  <2>1. PICK g \in Hub, v \in Worker : \E i \in DOMAIN hubQueue[g][v] :
          \E j \in DOMAIN hubQueue[g][v][i].tokens :
            x = <<"queue", hubQueue[g][v][i].tokens[j], g, v, i, j>>
    BY <1>2 DEF AtQueue
  <2>2. ~(g = h /\ v = p)
    BY <1>2, <2>1 DEF InLine
  <2>3. hubQueue'[g][v] = hubQueue[g][v]
    BY <2>2 DEF MovesUp
  <2> QED BY <2>1, <2>3 DEF AtQueue
<1>3. ASSUME NEW o, AtQueue(hubQueue, o), InLine(h, p, o), o[5] # 1,
             NEW x, x = <<"queue", o[2], h, p, o[5] - 1, o[6]>>
      PROVE  AtQueue(hubQueue', x)
  <2>1. /\ o[5] \in DOMAIN hubQueue[h][p] /\ o[5] \in Nat \ {0}
        /\ o[6] \in DOMAIN hubQueue[h][p][o[5]].tokens
        /\ o[2] = hubQueue[h][p][o[5]].tokens[o[6]]
    BY <1>3, LineNow
  <2>2. PICK i : i = o[5] - 1
    OBVIOUS
  <2>3. i \in DOMAIN hubQueue'[h][p] /\ hubQueue'[h][p][i] = hubQueue[h][p][o[5]]
    BY <1>3, <2>1, <2>2 DEF MovesUp
  <2>4. x = <<"queue", hubQueue'[h][p][i].tokens[o[6]], h, p, i, o[6]>>
    BY <1>3, <2>1, <2>2, <2>3
  <2>5. o[6] \in DOMAIN hubQueue'[h][p][i].tokens
    BY <2>1, <2>3
  <2> QED BY <2>3, <2>4, <2>5 DEF AtQueue
<1> QED BY <1>1, <1>2, <1>3, Zenon

\* Where handling a message takes the place o of a token.
HandledTo(h, p, at, o) ==
  IF InLine(h, p, o)
  THEN IF o[5] = 1 THEN <<"hub", o[2], h, at[o[6]]>>
                   ELSE <<"queue", o[2], h, p, o[5] - 1, o[6]>>
  ELSE o

\* The tokens of the message that is handled, and those of them that are dropped.
Handled(h, p) == {o \in Outstanding : InLine(h, p, o) /\ o[5] = 1}

\* Those that are not inserted.
Dropped(h, p) == {o \in Handled(h, p) : o[6] \notin Fresh(h, p)}

\* All but the dropped ones go where HandledTo says.
LEMMA HandledKinds ==
  ASSUME NEW h \in Hub, NEW p \in Worker, NEW at, Inserted(h, p, at), MovesUp(h, p),
         NEW o \in Outstanding \ Dropped(h, p), NEW y, y = HandledTo(h, p, at, o)
  PROVE  \/ /\ ~InLine(h, p, o) /\ y = o
         \/ /\ AtQueue(hubQueue, o) /\ InLine(h, p, o) /\ o[5] \in Nat /\ o[5] # 1
            /\ y = <<"queue", o[2], h, p, o[5] - 1, o[6]>>
            /\ o = <<"queue", o[2], h, p, o[5], o[6]>>
         \/ /\ o[6] \in Fresh(h, p) /\ y = <<"hub", HeadOf(h, p).tokens[o[6]], h, at[o[6]]>>
            /\ o = <<"queue", HeadOf(h, p).tokens[o[6]], h, p, 1, o[6]>>
<1>1. CASE ~InLine(h, p, o)
  BY <1>1 DEF HandledTo
<1>2. CASE InLine(h, p, o)
  <2>1. AtQueue(hubQueue, o)
    <3>1. o[1] = "queue"
      BY <1>2 DEF InLine
    <3> QED BY <3>1, PlacesNow, PlaceKinds
  <2>2. /\ o[5] \in DOMAIN hubQueue[h][p] /\ o[5] \in Nat \ {0}
        /\ o[6] \in DOMAIN hubQueue[h][p][o[5]].tokens
        /\ o[2] = hubQueue[h][p][o[5]].tokens[o[6]]
        /\ o = <<"queue", o[2], h, p, o[5], o[6]>>
    BY <1>2, <2>1, LineNow
  <2>3. CASE o[5] = 1
    <3>1. o[6] \in Fresh(h, p)
      BY <1>2, <2>3 DEF Dropped, Handled
    <3>2. o[2] = HeadOf(h, p).tokens[o[6]]
      BY <2>2, <2>3 DEF HeadOf
    <3>3. y = <<"hub", o[2], h, at[o[6]]>>
      BY <1>2, <2>3 DEF HandledTo
    <3> QED BY <2>2, <2>3, <3>1, <3>2, <3>3
  <2>4. CASE o[5] # 1
    <3>1. y = <<"queue", o[2], h, p, o[5] - 1, o[6]>>
      BY <1>2, <2>4 DEF HandledTo
    <3> QED BY <1>2, <2>1, <2>2, <2>4, <3>1
  <2> QED BY <2>3, <2>4
<1> QED BY <1>1, <1>2

\* No two of them go to the same place.
LEMMA HandledApart ==
  ASSUME NEW h \in Hub, NEW p \in Worker, NEW at, Inserted(h, p, at), MovesUp(h, p),
         NEW o \in Outstanding \ Dropped(h, p), NEW q \in Outstanding \ Dropped(h, p),
         HandledTo(h, p, at, o) = HandledTo(h, p, at, q)
  PROVE  o = q
<1> DEFINE Stays(a, y) == ~InLine(h, p, a) /\ y = a
           Moves1(a, y) == /\ AtQueue(hubQueue, a) /\ InLine(h, p, a) /\ a[5] \in Nat /\ a[5] # 1
                           /\ y = <<"queue", a[2], h, p, a[5] - 1, a[6]>>
                           /\ a = <<"queue", a[2], h, p, a[5], a[6]>>
           Enters(a, y) == /\ a[6] \in Fresh(h, p)
                           /\ y = <<"hub", HeadOf(h, p).tokens[a[6]], h, at[a[6]]>>
                           /\ a = <<"queue", HeadOf(h, p).tokens[a[6]], h, p, 1, a[6]>>
<1>1. PICK y : y = HandledTo(h, p, at, o)
  OBVIOUS
<1>2. y = HandledTo(h, p, at, q)
  BY <1>1
<1>3. Stays(o, y) \/ Moves1(o, y) \/ Enters(o, y)
  BY <1>1, HandledKinds
<1>4. Stays(q, y) \/ Moves1(q, y) \/ Enters(q, y)
  BY <1>2, HandledKinds
<1>5. ASSUME NEW a \in Outstanding, NEW b, Stays(a, y), Moves1(b, y) PROVE FALSE
  BY <1>5 DEF InLine
<1>6. ASSUME NEW a \in Outstanding, NEW b, Stays(a, y), Enters(b, y) PROVE FALSE
  <2>1. a[1] = "hub" /\ a[3] = h /\ a[4] = at[b[6]] /\ b[6] \in Fresh(h, p)
    BY <1>6
  <2>2. AtHub(token, hubPool, a)
    BY <2>1, PlacesNow, PlaceKinds
  <2> QED BY <2>1, <2>2, InsertedPlaces
<1>7. ASSUME NEW a, NEW b, Moves1(a, y), Enters(b, y) PROVE FALSE
  BY <1>7
<1>8. ASSUME Moves1(o, y), Moves1(q, y) PROVE o = q
  <2>1. o[2] = q[2] /\ o[6] = q[6] /\ o[5] - 1 = q[5] - 1
    BY <1>8
  <2>2. o[5] = q[5]
    BY <1>8, <2>1
  <2> QED BY <1>8, <2>1, <2>2
<1>9. ASSUME Enters(o, y), Enters(q, y) PROVE o = q
  <2>1. at[o[6]] = at[q[6]] /\ o[6] \in Fresh(h, p) /\ q[6] \in Fresh(h, p)
    BY <1>9
  <2>2. o[6] = q[6]
    BY <2>1 DEF Inserted
  <2> QED BY <1>9, <2>2
<1>10. ASSUME Stays(o, y), Stays(q, y) PROVE o = q
  BY <1>10
<1> HIDE DEF Stays, Moves1, Enters
<1> QED BY <1>3, <1>4, <1>5, <1>6, <1>7, <1>8, <1>9, <1>10, Zenon

\* A token of the first message is at the place that its number says.
LEMMA HeadPlace ==
  ASSUME NEW h \in Hub, NEW p \in Worker, MovesUp(h, p), NEW j \in DOMAIN HeadOf(h, p).tokens,
         NEW o, o = <<"queue", HeadOf(h, p).tokens[j], h, p, 1, j>>
  PROVE  /\ AtQueue(hubQueue, o) /\ o \in Handled(h, p) /\ o[6] = j
<1>1. 1 \in DOMAIN hubQueue[h][p] /\ j \in DOMAIN hubQueue[h][p][1].tokens
  BY DEF MovesUp, HeadOf
<1>2. o = <<"queue", hubQueue[h][p][1].tokens[j], h, p, 1, j>>
  BY DEF HeadOf
<1>3. AtQueue(hubQueue, o)
  BY <1>1, <1>2 DEF AtQueue
<1>4. o \in Outstanding
  BY <1>3, PlacesNow, Zenon
<1> QED BY <1>2, <1>3, <1>4 DEF Handled, InLine

\* Handling a message moves the tokens so.
LEMMA HandledMoves ==
  ASSUME NEW h \in Hub, NEW p \in Worker, NEW at, Inserted(h, p, at), MovesUp(h, p),
         UNCHANGED <<outBuffer, network>>,
         NEW f, \A o \in Outstanding : f[o] = HandledTo(h, p, at, o)
  PROVE  Relocates(f, Dropped(h, p), {})
<1>1. /\ \A x : AtBuffer(outBuffer', x) <=> AtBuffer(outBuffer, x)
      /\ \A x : AtDispatch(network', x) <=> AtDispatch(network, x)
  OBVIOUS
<1>2. ASSUME NEW x, x \in Outstanding, x \in Outstanding', ~InLine(h, p, x)
      PROVE  \E o \in Outstanding \ Dropped(h, p) : x = f[o]
  <2>1. x \notin Dropped(h, p) /\ f[x] = x
    BY <1>2 DEF Dropped, Handled, HandledTo
  <2> QED BY <1>2, <2>1
<1>3. ASSUME NEW x, x[1] # "queue" PROVE ~InLine(h, p, x)
  BY <1>3 DEF InLine
<1>4. ASSUME NEW x, AtQueue(hubQueue', x)
      PROVE  \E o \in Outstanding \ Dropped(h, p) : x = f[o]
  <2>1. CASE AtQueue(hubQueue, x) /\ ~InLine(h, p, x)
    BY <1>2, <1>4, <2>1, PlacesNow, PlacesNext, Zenon
  <2>2. ASSUME NEW o, AtQueue(hubQueue, o), InLine(h, p, o), o[5] # 1,
               x = <<"queue", o[2], h, p, o[5] - 1, o[6]>>
        PROVE  \E q \in Outstanding \ Dropped(h, p) : x = f[q]
    <3>1. o \in Outstanding
      BY <2>2, PlacesNow, Zenon
    <3>2. o \notin Dropped(h, p) /\ f[o] = x
      BY <2>2, <3>1 DEF Dropped, Handled, HandledTo
    <3> QED BY <3>1, <3>2
  <2> QED BY <1>4, <2>1, <2>2, LineNext
<1>5. ASSUME NEW x, AtHub(token', hubPool', x)
      PROVE  \E o \in Outstanding \ Dropped(h, p) : x = f[o]
  <2>1. CASE AtHub(token, hubPool, x)
    <3>1. x[1] = "hub"
      BY <2>1, PlaceKinds, Zenon
    <3>2. ~InLine(h, p, x)
      BY <1>3, <3>1
    <3> QED BY <1>2, <1>5, <2>1, <3>2, PlacesNow, PlacesNext, Zenon
  <2>2. ASSUME NEW j \in Fresh(h, p), x = <<"hub", HeadOf(h, p).tokens[j], h, at[j]>>
        PROVE  \E o \in Outstanding \ Dropped(h, p) : x = f[o]
    <3>1. PICK o : o = <<"queue", HeadOf(h, p).tokens[j], h, p, 1, j>>
      OBVIOUS
    <3>2. j \in DOMAIN HeadOf(h, p).tokens
      BY DEF Fresh
    <3>3. o \in Handled(h, p) /\ o[6] = j
      BY <3>1, <3>2, HeadPlace
    <3>4. o \in Outstanding /\ InLine(h, p, o) /\ o[5] = 1 /\ o \notin Dropped(h, p)
      BY <3>3 DEF Handled, Dropped
    <3>5. f[o] = x
      BY <2>2, <3>1, <3>3, <3>4 DEF HandledTo
    <3> QED BY <3>4, <3>5
  <2> QED BY <1>5, <2>1, <2>2, InsertedPlaces
<1>6. ASSUME NEW x, x \in Outstanding'
      PROVE  \E o \in Outstanding \ Dropped(h, p) : x = f[o]
  <2>1. CASE AtBuffer(outBuffer', x) \/ AtDispatch(network', x)
    <3>1. AtBuffer(outBuffer, x) \/ AtDispatch(network, x)
      BY <1>1, <2>1
    <3>2. x \in Outstanding
      BY <3>1, PlacesNow, Zenon
    <3>3. x[1] = "buffer" \/ x[1] = "dispatch"
      BY <3>1, PlaceKinds, Zenon
    <3> QED BY <1>2, <1>3, <1>6, <3>2, <3>3
  <2> QED BY <1>4, <1>5, <1>6, <2>1, PlacesNext, Zenon
<1>7. ASSUME NEW o \in Outstanding \ Dropped(h, p) PROVE f[o] \in Outstanding' /\ TokenOf(f[o]) = TokenOf(o)
  <2>1. PICK y : y = HandledTo(h, p, at, o)
    OBVIOUS
  <2>2. f[o] = y
    BY <2>1
  <2>3. CASE ~InLine(h, p, o) /\ y = o
    <3>1. CASE AtQueue(hubQueue, o)
      <4>1. AtQueue(hubQueue', o)
        BY <2>3, <3>1, LineNext
      <4> QED BY <2>2, <2>3, <4>1, PlacesNext
    <3>2. CASE AtHub(token, hubPool, o)
      <4>1. AtHub(token', hubPool', o)
        BY <3>2, InsertedPlaces
      <4> QED BY <2>2, <2>3, <4>1, PlacesNext
    <3>3. CASE AtBuffer(outBuffer, o) \/ AtDispatch(network, o)
      BY <1>1, <2>2, <2>3, <3>3, PlacesNext
    <3> QED BY <3>1, <3>2, <3>3, PlacesNow, Zenon
  <2>4. CASE /\ AtQueue(hubQueue, o) /\ InLine(h, p, o) /\ o[5] \in Nat /\ o[5] # 1
             /\ y = <<"queue", o[2], h, p, o[5] - 1, o[6]>>
             /\ o = <<"queue", o[2], h, p, o[5], o[6]>>
    <3>1. AtQueue(hubQueue', y)
      BY <2>4, LineNext
    <3>2. y[2] = o[2]
      BY <2>4
    <3> QED BY <2>2, <3>1, <3>2, PlacesNext DEF TokenOf
  <2>5. CASE /\ o[6] \in Fresh(h, p) /\ y = <<"hub", HeadOf(h, p).tokens[o[6]], h, at[o[6]]>>
             /\ o = <<"queue", HeadOf(h, p).tokens[o[6]], h, p, 1, o[6]>>
    <3>1. AtHub(token', hubPool', y)
      BY <2>5, InsertedPlaces
    <3>2. y[2] = HeadOf(h, p).tokens[o[6]] /\ o[2] = HeadOf(h, p).tokens[o[6]]
      BY <2>5
    <3> QED BY <2>2, <3>1, <3>2, PlacesNext DEF TokenOf
  <2> QED BY <2>1, <2>3, <2>4, <2>5, HandledKinds
<1>8. ASSUME NEW o \in Outstanding \ Dropped(h, p), NEW q \in Outstanding \ Dropped(h, p), f[o] = f[q]
      PROVE  o = q
  BY <1>8, HandledApart
<1> QED BY <1>6, <1>7, <1>8 DEF Relocates

\* The message has as many tokens as are at its places.
LEMMA CountHandled ==
  ASSUME NEW h \in Hub, NEW p \in Worker, MovesUp(h, p), HeadOf(h, p) \in HubMessage
  PROVE  /\ IsFiniteSet(Handled(h, p))
         /\ Cardinality(Handled(h, p)) = Len(HeadOf(h, p).tokens)
         /\ Len(HeadOf(h, p).tokens) \in Nat
<1>1. PICK n : n = Len(HeadOf(h, p).tokens)
  OBVIOUS
<1>2. n \in Nat /\ DOMAIN HeadOf(h, p).tokens = 1..n
  BY <1>1 DEF HubMessage
<1>3. IsFiniteSet(1..n) /\ Cardinality(1..n) = n
  BY <1>2, FS_Interval
<1>4. PICK f : f = [j \in 1..n |-> <<"queue", HeadOf(h, p).tokens[j], h, p, 1, j>>]
  OBVIOUS
<1>5. \A j \in 1..n : f[j] = <<"queue", HeadOf(h, p).tokens[j], h, p, 1, j>>
  BY <1>4
<1>6. Becomes(1..n, {}, Handled(h, p), f)
  <2>1. ASSUME NEW o \in Handled(h, p) PROVE \E j \in 1..n : o = f[j]
    <3>1. o \in Outstanding /\ InLine(h, p, o) /\ o[5] = 1
      BY DEF Handled
    <3>2. AtQueue(hubQueue, o)
      <4>1. o[1] = "queue"
        BY <3>1 DEF InLine
      <4> QED BY <3>1, <4>1, PlacesNow, PlaceKinds
    <3>3. /\ o[6] \in DOMAIN hubQueue[h][p][o[5]].tokens
          /\ o[2] = hubQueue[h][p][o[5]].tokens[o[6]]
          /\ o = <<"queue", o[2], h, p, o[5], o[6]>>
      BY <3>1, <3>2, LineNow
    <3>4. o[6] \in 1..n /\ o[2] = HeadOf(h, p).tokens[o[6]]
      BY <1>2, <3>1, <3>3 DEF HeadOf
    <3> QED BY <1>5, <3>1, <3>3, <3>4
  <2>2. ASSUME NEW j \in 1..n PROVE f[j] \in Handled(h, p) /\ f[j][6] = j
    <3>1. PICK o : o = <<"queue", HeadOf(h, p).tokens[j], h, p, 1, j>>
      OBVIOUS
    <3>2. o \in Handled(h, p) /\ o[6] = j
      BY <1>2, <3>1, HeadPlace
    <3> QED BY <1>5, <3>1, <3>2
  <2> QED BY <2>1, <2>2 DEF Becomes
<1>7. IsFiniteSet({}) /\ Cardinality({}) = 0
  BY CountNone
<1>8. /\ IsFiniteSet(Handled(h, p))
      /\ Cardinality(Handled(h, p)) = Cardinality(1..n) + Cardinality({})
  BY <1>3, <1>6, <1>7, CountMoved
<1> QED BY <1>1, <1>2, <1>3, <1>7, <1>8

\* The other tokens in messages stay in messages, in the same cluster.
LEMMA HandledWires ==
  ASSUME NEW h \in Hub, NEW p \in Worker, NEW at, Inserted(h, p, at), MovesUp(h, p),
         IsFiniteSet(Outstanding), NEW f, Relocates(f, Dropped(h, p), {}),
         \A o \in Outstanding : f[o] = HandledTo(h, p, at, o), NEW near \in BOOLEAN
  PROVE  Cardinality(Wires(near)') = Cardinality(Wires(near) \ Handled(h, p))
<1> DEFINE In(x) == IF near THEN IsNear(x) ELSE IsFar(x)
<1>1. /\ \A x : x \in Wires(near) <=> x \in Outstanding /\ In(x)
      /\ \A x : x \in Wires(near)' <=> x \in Outstanding' /\ In(x)
  BY DEF Wires, IsNear, IsFar
<1>2. ASSUME NEW o \in Outstanding \ Dropped(h, p)
      PROVE  In(f[o]) <=> In(o) /\ o \notin Handled(h, p)
  <2>1. PICK y : y = HandledTo(h, p, at, o)
    OBVIOUS
  <2>2. f[o] = y
    BY <2>1
  <2>3. CASE ~InLine(h, p, o) /\ y = o
    BY <2>2, <2>3 DEF Handled
  <2>4. CASE /\ AtQueue(hubQueue, o) /\ InLine(h, p, o) /\ o[5] \in Nat /\ o[5] # 1
             /\ y = <<"queue", o[2], h, p, o[5] - 1, o[6]>>
             /\ o = <<"queue", o[2], h, p, o[5], o[6]>>
    <3>1. o[1] = "queue" /\ y[1] = "queue" /\ o[3] = h /\ y[3] = h /\ o[4] = p /\ y[4] = p
      BY <2>4
    <3>2. In(y) <=> In(o)
      BY <3>1 DEF IsNear, IsFar
    <3> QED BY <2>2, <2>4, <3>2 DEF Handled
  <2>5. CASE /\ o[6] \in Fresh(h, p) /\ y = <<"hub", HeadOf(h, p).tokens[o[6]], h, at[o[6]]>>
             /\ o = <<"queue", HeadOf(h, p).tokens[o[6]], h, p, 1, o[6]>>
    <3>1. y[1] = "hub" /\ o[1] = "queue" /\ o[3] = h /\ o[4] = p /\ o[5] = 1
      BY <2>5
    <3>2. o \in Handled(h, p) /\ ~In(y)
      BY <3>1 DEF Handled, InLine, IsNear, IsFar
    <3> QED BY <2>2, <3>2
  <2> QED BY <2>1, <2>3, <2>4, <2>5, HandledKinds
<1> HIDE DEF In
<1>3. Dropped(h, p) \subseteq Handled(h, p)
  BY DEF Dropped
<1>4. PICK K : K = Wires(near) \ Handled(h, p)
  OBVIOUS
<1>5. \A o : o \in K <=> o \in Outstanding /\ In(o) /\ o \notin Handled(h, p)
  BY <1>1, <1>4
<1>6. /\ \A x : x \in Outstanding' <=> \E o \in Outstanding \ Dropped(h, p) : x = f[o]
      /\ \A o, q \in Outstanding \ Dropped(h, p) : f[o] = f[q] => o = q
  BY DEF Relocates
<1>7. Becomes(K, {}, Wires(near)', f)
  <2>1. ASSUME NEW x, x \in Wires(near)' PROVE \E o \in K : x = f[o]
    <3>1. PICK o \in Outstanding \ Dropped(h, p) : x = f[o]
      BY <1>1, <1>6, <2>1
    <3>2. In(f[o])
      BY <1>1, <2>1, <3>1
    <3> QED BY <1>2, <1>5, <3>1, <3>2
  <2>2. ASSUME NEW o \in K PROVE f[o] \in Wires(near)' /\ o \in Outstanding \ Dropped(h, p)
    <3>1. o \in Outstanding \ Dropped(h, p) /\ In(o) /\ o \notin Handled(h, p)
      BY <1>3, <1>5
    <3> QED BY <1>1, <1>2, <1>6, <3>1
  <2>3. \A o, q \in K : f[o] = f[q] => o = q
    BY <1>6, <2>2
  <2> QED BY <2>1, <2>2, <2>3 DEF Becomes
<1>8. IsFiniteSet(K) /\ IsFiniteSet({}) /\ Cardinality({}) = 0
  <2>1. K \subseteq Outstanding
    BY <1>5
  <2> QED BY <2>1, CountPart, CountNone
<1>9. /\ Cardinality(Wires(near)') = Cardinality(K) + Cardinality({})
      /\ Cardinality(K) \in Nat
  BY <1>7, <1>8, CountMoved
<1> QED BY <1>4, <1>8, <1>9

\* A request to adjust is one message less to be adjusted for when it is handled.
LEMMA HandledAdjusts ==
  ASSUME NEW h \in Hub, NEW p \in Worker, MovesUp(h, p), HeadOf(h, p) \in HubMessage,
         IsFiniteSet(Adjusting)
  PROVE  /\ IsFiniteSet(Adjusting')
         /\ Cardinality(Adjusting') = Cardinality(Adjusting) - HeadOf(h, p).adjust
         /\ Cardinality(Adjusting) \in Nat
<1> DEFINE To(y) == IF y[1] = h /\ y[2] = p THEN <<h, p, y[3] - 1>> ELSE y
           head == <<h, p, 1>>
<1>1. \A x : (x \in Adjusting <=> AtAdjust(hubQueue, x)) /\ (x \in Adjusting' <=> AtAdjust(hubQueue', x))
  BY AdjustingPlaces
<1>2. /\ \A g \in Hub, v \in Worker : ~(g = h /\ v = p) => hubQueue'[g][v] = hubQueue[g][v]
      /\ 1 \in DOMAIN hubQueue[h][p] /\ \A i \in DOMAIN hubQueue[h][p] : i \in Nat \ {0}
  BY DEF MovesUp
<1>3. head \in Adjusting <=> HeadOf(h, p).adjust = 1
  BY <1>1, <1>2 DEF HeadOf, AtAdjust
<1>4. PICK K : K = Adjusting \ {head}
  OBVIOUS
<1>5. PICK f : f = [y \in K |-> To(y)]
  OBVIOUS
<1>6. ASSUME NEW y \in K
      PROVE  \/ f[y] = y /\ y \in Adjusting' /\ ~(y[1] = h /\ y[2] = p)
             \/ /\ y[3] \in Nat /\ y = <<h, p, y[3]>> /\ f[y] = <<h, p, y[3] - 1>>
                /\ f[y] \in Adjusting'
  <2>1. AtAdjust(hubQueue, y) /\ y # head
    BY <1>1, <1>4
  <2>2. PICK g \in Hub, v \in Worker : \E i \in DOMAIN hubQueue[g][v] :
          hubQueue[g][v][i].adjust = 1 /\ y = <<g, v, i>>
    BY <2>1 DEF AtAdjust
  <2>3. PICK i \in DOMAIN hubQueue[g][v] : hubQueue[g][v][i].adjust = 1 /\ y = <<g, v, i>>
    BY <2>2
  <2>4. CASE g = h /\ v = p
    <3>1. i \in Nat /\ i # 1
      BY <1>2, <2>1, <2>3, <2>4
    <3>2. PICK k : k = i - 1
      OBVIOUS
    <3>3. k \in DOMAIN hubQueue'[h][p] /\ hubQueue'[h][p][k] = hubQueue[h][p][i]
      BY <2>3, <2>4, <3>1, <3>2 DEF MovesUp
    <3>4. f[y] = <<h, p, k>>
      BY <1>5, <2>3, <2>4, <3>2
    <3>5. AtAdjust(hubQueue', f[y])
      BY <2>3, <2>4, <3>3, <3>4 DEF AtAdjust
    <3> QED BY <1>1, <2>3, <2>4, <3>1, <3>2, <3>4, <3>5
  <2>5. CASE ~(g = h /\ v = p)
    <3>1. f[y] = y /\ ~(y[1] = h /\ y[2] = p)
      BY <1>5, <2>3, <2>5
    <3>2. AtAdjust(hubQueue', y)
      BY <1>2, <2>3, <2>5 DEF AtAdjust
    <3> QED BY <1>1, <3>1, <3>2
  <2> QED BY <2>4, <2>5
<1>7. ASSUME NEW x \in Adjusting' PROVE \E y \in K : x = f[y]
  <2>1. PICK g \in Hub, v \in Worker : \E i \in DOMAIN hubQueue'[g][v] :
          hubQueue'[g][v][i].adjust = 1 /\ x = <<g, v, i>>
    BY <1>1 DEF AtAdjust
  <2>2. PICK i \in DOMAIN hubQueue'[g][v] : hubQueue'[g][v][i].adjust = 1 /\ x = <<g, v, i>>
    BY <2>1
  <2>3. CASE g = h /\ v = p
    <3>1. i \in Nat \ {0} /\ i + 1 \in DOMAIN hubQueue[h][p] /\ hubQueue'[h][p][i] = hubQueue[h][p][i + 1]
      BY <2>2, <2>3 DEF MovesUp
    <3>2. PICK k : k = i + 1
      OBVIOUS
    <3>3. PICK y : y = <<h, p, k>>
      OBVIOUS
    <3>4. y \in Adjusting
      BY <1>1, <2>2, <2>3, <3>1, <3>2, <3>3 DEF AtAdjust
    <3>5. y # head /\ k - 1 = i
      BY <3>1, <3>2, <3>3
    <3>6. y \in K /\ f[y] = <<h, p, k - 1>>
      BY <1>4, <1>5, <3>3, <3>4, <3>5
    <3> QED BY <2>2, <2>3, <3>5, <3>6
  <2>4. CASE ~(g = h /\ v = p)
    <3>1. x \in Adjusting /\ x # head
      BY <1>1, <1>2, <2>2, <2>4 DEF AtAdjust
    <3>2. x \in K /\ f[x] = x
      BY <1>4, <1>5, <2>2, <2>4, <3>1
    <3> QED BY <3>2
  <2> QED BY <2>3, <2>4
<1> HIDE DEF To, head
<1> DEFINE Kept(y, x)  == x = y /\ ~(y[1] = h /\ y[2] = p)
           Lower(y, x) == y[3] \in Nat /\ y = <<h, p, y[3]>> /\ x = <<h, p, y[3] - 1>>
<1>14. ASSUME NEW y, NEW z, NEW x, Kept(y, x), Lower(z, x) PROVE FALSE
  BY <1>14
<1>15. ASSUME NEW y, NEW z, NEW x, Lower(y, x), Lower(z, x) PROVE y = z
  <2>1. x[3] = y[3] - 1 /\ x[3] = z[3] - 1
    BY <1>15
  <2>2. y[3] = z[3]
    BY <1>15, <2>1
  <2> QED BY <1>15, <2>2
<1>16. ASSUME NEW y, NEW z, NEW x, Kept(y, x), Kept(z, x) PROVE y = z
  BY <1>16
<1>17. \A y \in K : Kept(y, f[y]) \/ Lower(y, f[y])
  BY <1>6
<1> HIDE DEF Kept, Lower
<1>8. ASSUME NEW y \in K, NEW z \in K, f[y] = f[z] PROVE y = z
  <2>1. PICK x : x = f[y]
    OBVIOUS
  <2>2. (Kept(y, x) \/ Lower(y, x)) /\ (Kept(z, x) \/ Lower(z, x))
    BY <1>8, <1>17, <2>1
  <2> QED BY <2>2, <1>14, <1>15, <1>16, Zenon
<1>9. Becomes(K, {}, Adjusting', f)
  BY <1>6, <1>7, <1>8 DEF Becomes
<1>10. /\ IsFiniteSet(K) /\ Cardinality(Adjusting) \in Nat
       /\ head \in Adjusting => Cardinality(K) = Cardinality(Adjusting) - 1
       /\ head \notin Adjusting => Cardinality(K) = Cardinality(Adjusting)
  BY <1>4, CountOne
<1>11. IsFiniteSet({}) /\ Cardinality({}) = 0
  BY CountNone
<1>12. /\ IsFiniteSet(Adjusting')
       /\ Cardinality(Adjusting') = Cardinality(K) + Cardinality({}) /\ Cardinality(K) \in Nat
  BY <1>9, <1>10, <1>11, CountMoved
<1>13. HeadOf(h, p).adjust \in {0, 1}
  BY DEF HubMessage
<1> QED BY <1>3, <1>10, <1>11, <1>12, <1>13

\* What a hub drops when it handles a message is no better than the best incumbent.
LEMMA DroppedAreWorse ==
  ASSUME Counted, NEW h \in Hub, NEW p \in Worker, MovesUp(h, p), incumbent' = incumbent,
         NEW o \in Dropped(h, p)
  PROVE  Bound[TokenOf(o).sub] >= Best'
<1>1. WorkAssumption /\ Shapes /\ Shapes' /\ o \in Outstanding /\ InLine(h, p, o) /\ o[5] = 1
  BY DEF Counted, Step, Core, Dropped, Handled
<1>2. AtQueue(hubQueue, o)
  <2>1. o[1] = "queue"
    BY <1>1 DEF InLine
  <2> QED BY <1>1, <2>1, PlacesNow, PlaceKinds
<1>3. o[6] \in DOMAIN HeadOf(h, p).tokens /\ TokenOf(o) = HeadOf(h, p).tokens[o[6]]
  <2>1. /\ o[6] \in DOMAIN hubQueue[h][p][o[5]].tokens
        /\ o[2] = hubQueue[h][p][o[5]].tokens[o[6]]
    BY <1>1, <1>2, LineNow
  <2> QED BY <1>1, <2>1 DEF HeadOf, TokenOf
<1>4. CanFathom(h, TokenOf(o).sub)
  BY <1>3 DEF Dropped, Fresh
<1>5. TokenOf(o).sub \in Sub
  BY <1>1, TokenCounted DEF Counted
<1>6. incumbent[h] \in Nat /\ Best' <= incumbent'[h] /\ Best' \in Nat /\ Bound[TokenOf(o).sub] \in Nat
  <2>1. h \in Proc
    BY DEF Proc
  <2>2. incumbent' \in [Proc -> Nat] /\ incumbent \in [Proc -> Nat]
    BY <1>1 DEF Shapes
  <2> QED BY <1>1, <1>5, <2>1, <2>2, BestIsLeast DEF WorkAssumption, Counted, Better
<1> QED BY <1>4, <1>6 DEF CanFathom

\* Tokens of the message that is handled were all in messages of one kind.
LEMMA HandledLess ==
  ASSUME NEW h \in Hub, NEW p \in Worker, MovesUp(h, p), HeadOf(h, p) \in HubMessage,
         IsFiniteSet(Outstanding), NEW near \in BOOLEAN
  PROVE  /\ Cardinality(Wires(near)) \in Nat
         /\ Cardinality(Wires(near) \ Handled(h, p)) =
              Cardinality(Wires(near))
                - (IF near <=> (HubOf[p] = h) THEN Len(HeadOf(h, p).tokens) ELSE 0)
<1>1. Wires(near) \subseteq Outstanding /\ Handled(h, p) \subseteq Outstanding
  BY DEF Wires, Handled
<1>2. IsFiniteSet(Wires(near)) /\ Cardinality(Wires(near)) \in Nat
  BY <1>1, CountPart
<1>3. Cardinality(Wires(near) \ Handled(h, p)) =
        Cardinality(Wires(near)) - Cardinality(Wires(near) \cap Handled(h, p))
  BY <1>2, FS_Difference
<1>4. \A o \in Handled(h, p) : o[1] = "queue" /\ o[3] = h /\ o[4] = p
  BY DEF Handled, InLine
<1>5. CASE near <=> (HubOf[p] = h)
  <2>1. \A o \in Handled(h, p) : o \in Wires(near)
    BY <1>1, <1>4, <1>5 DEF Wires, IsNear, IsFar
  <2>2. Wires(near) \cap Handled(h, p) = Handled(h, p)
    BY <2>1
  <2>3. Cardinality(Handled(h, p)) = Len(HeadOf(h, p).tokens)
    BY CountHandled
  <2> QED BY <1>2, <1>3, <1>5, <2>2, <2>3
<1>6. CASE ~(near <=> (HubOf[p] = h))
  <2>1. \A o \in Handled(h, p) : o \notin Wires(near)
    BY <1>4, <1>6 DEF Wires, IsNear, IsFar
  <2>2. Wires(near) \cap Handled(h, p) = {}
    BY <2>1
  <2>3. Cardinality({}) = 0
    BY CountNone
  <2> QED BY <1>2, <1>3, <1>6, <2>2, <2>3
<1> QED BY <1>5, <1>6

\* A hub handles a message.
LEMMA HandleHubCount ==
  ASSUME Counted, Addressed', NEW h \in Hub, NEW p \in Worker, HandleHubMessage(h, p)
  PROVE  Tallied' /\ Balanced'
<1>1. /\ WorkAssumption /\ Core /\ Shapes /\ Tallied /\ Balanced /\ HubIsSound(h)
      /\ IsFiniteSet(Outstanding)
  BY DEF Counted, Step, Core, Addressed, Tallied
<1>2. MovesUp(h, p) /\ HeadOf(h, p) \in HubMessage
  BY <1>1, QueueMovesUp
<1>3. Head(hubQueue[h][p]) = HeadOf(h, p)
  <2>1. hubQueue[h][p] \in Seq(HubMessage) /\ hubQueue[h][p] # <<>>
    BY <1>1 DEF Shapes, HandleHubMessage
  <2>2. Head(hubQueue[h][p]) = hubQueue[h][p][1]
    BY <2>1, Shifted
  <2> QED BY <2>2 DEF HeadOf
<1>4. /\ UNCHANGED <<workerPool, serverPool, separated, childrenLeft, tokenCount>>
      /\ UNCHANGED <<outBuffer, network, incumbent>>
  BY DEF HandleHubMessage, search, pruning
<1>5. /\ hubDispatch' = hubDispatch - HeadOf(h, p).adjust
      /\ HubOf[p] = h => /\ localScatter' = localScatter - Len(HeadOf(h, p).tokens)
                         /\ nonLocalScatter' = nonLocalScatter
      /\ HubOf[p] # h => /\ nonLocalScatter' = nonLocalScatter - Len(HeadOf(h, p).tokens)
                         /\ localScatter' = localScatter
  BY <1>3 DEF HandleHubMessage
<1>6. PICK at : Inserted(h, p, at)
  BY <1>1, HubInserts
<1>7. PICK f : \A o \in Outstanding : f[o] = HandledTo(h, p, at, o)
  <2>1. PICK g : g = [o \in Outstanding |-> HandledTo(h, p, at, o)]
    OBVIOUS
  <2>2. \A o \in Outstanding : g[o] = HandledTo(h, p, at, o)
    BY <2>1
  <2> QED BY <2>2
<1>8. Relocates(f, Dropped(h, p), {})
  BY <1>2, <1>4, <1>6, <1>7, HandledMoves
<1>9. Tallied'
  <2>1. \A o \in Outstanding : o \in Dropped(h, p) => Bound[TokenOf(o).sub] >= Best'
    BY <1>2, <1>4, DroppedAreWorse
  <2>2. Pruned
    BY <1>4, NoPruning
  <2>3. \A m \in network' : m.type = "deliver" => m \in network
    BY <1>4
  <2>4. PICK G : G = Dropped(h, p)
    OBVIOUS
  <2> QED BY <1>4, <1>8, <2>1, <2>2, <2>3, <2>4, ShrinkTally
<1>10. /\ IsFiniteSet(Adjusting) /\ IsFiniteSet(network)
       /\ hubDispatch = Cardinality(network) + Cardinality(Adjusting)
       /\ localScatter = Cardinality(Wires(TRUE)) /\ nonLocalScatter = Cardinality(Wires(FALSE))
  BY <1>1, BalanceNow
<1>11. /\ IsFiniteSet(Adjusting')
       /\ Cardinality(Adjusting') = Cardinality(Adjusting) - HeadOf(h, p).adjust
       /\ Cardinality(Adjusting) \in Nat
  BY <1>2, <1>10, HandledAdjusts
<1>12. ASSUME NEW near \in BOOLEAN
       PROVE  /\ Cardinality(Wires(near)) \in Nat
              /\ Cardinality(Wires(near)') =
                   Cardinality(Wires(near))
                     - (IF near <=> (HubOf[p] = h) THEN Len(HeadOf(h, p).tokens) ELSE 0)
  <2>1. Cardinality(Wires(near)') = Cardinality(Wires(near) \ Handled(h, p))
    BY <1>1, <1>2, <1>6, <1>7, <1>8, HandledWires
  <2> QED BY <1>1, <1>2, <2>1, HandledLess
<1>13. /\ localScatter' = Cardinality(Wires(TRUE)') /\ nonLocalScatter' = Cardinality(Wires(FALSE)')
  <2>1. PICK c, d, n : /\ c = Cardinality(Wires(TRUE)) /\ d = Cardinality(Wires(FALSE))
                       /\ n = Len(HeadOf(h, p).tokens)
    OBVIOUS
  <2>2. c \in Nat /\ d \in Nat /\ n \in Nat
    BY <1>2, <1>12, <2>1, CountHandled
  <2>3. /\ Cardinality(Wires(TRUE)') = c - (IF HubOf[p] = h THEN n ELSE 0)
        /\ Cardinality(Wires(FALSE)') = d - (IF HubOf[p] # h THEN n ELSE 0)
    BY <1>12, <2>1
  <2>4. localScatter = c /\ nonLocalScatter = d
    BY <1>10, <2>1
  <2>5. /\ HubOf[p] = h => localScatter' = c - n /\ nonLocalScatter' = d
        /\ HubOf[p] # h => nonLocalScatter' = d - n /\ localScatter' = c
    BY <1>5, <2>1, <2>4
  <2>6. c - 0 = c /\ d - 0 = d
    BY <2>2
  <2> QED BY <2>3, <2>5, <2>6
<1>14. hubDispatch' = Cardinality(network') + Cardinality(Adjusting') /\ IsFiniteSet(network')
  <2>1. PICK a, n, b : a = Cardinality(Adjusting) /\ n = Cardinality(network) /\ b = HeadOf(h, p).adjust
    OBVIOUS
  <2>2. a \in Int /\ n \in Int /\ b \in Int
    <3>1. n \in Nat
      BY <1>10, <2>1, CountPart
    <3>2. b \in {0, 1}
      BY <1>2, <2>1 DEF HubMessage
    <3> QED BY <1>11, <2>1, <3>1, <3>2
  <2>3. Cardinality(network') = n /\ Cardinality(Adjusting') = a - b /\ hubDispatch' = (n + a) - b
    BY <1>4, <1>5, <1>10, <1>11, <2>1
  <2> QED BY <1>4, <1>10, <2>2, <2>3
<1> QED BY <1>9, <1>11, <1>13, <1>14, BalanceNow

-----------------------------------------------------------------------------
(***************************************************************************)
(* The invariant.                                                          *)
(***************************************************************************)
\* At first there are no tokens and no messages.
LEMMA InitCount ==
  ASSUME WorkAssumption, Init
  PROVE  Tallied /\ Balanced
<1>1. /\ \A w \in RemoteWorker : outBuffer[w] = <<>>
      /\ \A h \in Hub, p \in Worker : hubQueue[h][p] = <<>>
      /\ \A h \in Hub : hubPool[h] = {}
      /\ network = {} /\ hubDispatch = 0 /\ localScatter = 0 /\ nonLocalScatter = 0
      /\ separated = {} /\ \A s \in Sub : tokenCount[s] = 0
      /\ \A w \in Worker : serverPool[w] = {}
  BY DEF Init
<1>2. Outstanding = {}
  <2>1. \A x : ~AtBuffer(outBuffer, x)
    BY <1>1 DEF AtBuffer
  <2>2. \A x : ~AtQueue(hubQueue, x)
    BY <1>1 DEF AtQueue
  <2>3. \A x : ~AtHub(token, hubPool, x)
    BY <1>1 DEF AtHub
  <2>4. \A x : ~AtDispatch(network, x)
    BY <1>1 DEF AtDispatch
  <2>5. \A x : x \notin Outstanding
    BY <2>1, <2>2, <2>3, <2>4, PlacesNow, Zenon
  <2> QED BY <2>5
<1>3. Adjusting = {}
  <2>1. \A x : ~AtAdjust(hubQueue, x)
    BY <1>1 DEF AtAdjust
  <2> QED BY <2>1, AdjustingPlaces
<1>4. IsFiniteSet({}) /\ Cardinality({}) = 0
  BY CountNone
<1>5. ASSUME NEW s \in Sub PROVE CountsOf(s)
  <2>1. TokensFor(s) = {}
    BY <1>2 DEF TokensFor
  <2> QED BY <1>1, <1>4, <2>1 DEF CountsOf
<1>6. ASSUME NEW s \in Sub PROVE Supplied(s)
  BY <1>1 DEF Supplied
<1>7. Tallied
  BY <1>2, <1>4, <1>5, <1>6 DEF Tallied
<1>8. Wires(TRUE) = {} /\ Wires(FALSE) = {}
  BY <1>2 DEF Wires
<1>9. Balanced
  <2>1. 0 = 0 + 0
    OBVIOUS
  <2>2. /\ IsFiniteSet(network) /\ IsFiniteSet(Adjusting)
        /\ hubDispatch = Cardinality(network) + Cardinality(Adjusting)
    BY <1>1, <1>3, <1>4, <2>1, Zenon
  <2>3. localScatter = Cardinality(Wires(TRUE)) /\ nonLocalScatter = Cardinality(Wires(FALSE))
    BY <1>1, <1>4, <1>8
  <2> QED BY <2>2, <2>3, BalanceNow, Zenon
<1> QED BY <1>7, <1>9

\* Each action in turn.
LEMMA NextCount ==
  ASSUME Counted, Addressed', [Next]_vars
  PROVE  Tallied' /\ Balanced'
<1>1. CASE \E w \in Worker : Work(w)
  <2>1. PICK w \in Worker : Work(w)
    BY <1>1
  <2>2. PICK s \in workerPool[w] : \/ Evaluate(w, s) \/ Split(w, s)
                                   \/ \E c \in childrenLeft[s] : SpinOffChild(w, s, c)
    BY <2>1 DEF Work
  <2>3. CASE Evaluate(w, s)
    BY <2>3, EvaluateCount
  <2>4. CASE Split(w, s)
    BY <2>4, SplitCount
  <2>5. CASE \E c \in childrenLeft[s] : SpinOffChild(w, s, c)
    BY <2>5, SpinOffCount
  <2> QED BY <2>2, <2>3, <2>4, <2>5
<1>2. CASE \E w \in Worker : GiveUp(w)
  BY <1>2, ReleaseChildCount, ReleaseSelfCount DEF GiveUp
<1>3. CASE \E w \in RemoteWorker : Communicate(w)
  BY <1>3, CommunicateCount
<1>4. CASE \E p \in Proc : LearnIncumbent(p)
  BY <1>4, LearnCount
<1>5. CASE \E p \in Proc : Prune(p)
  BY <1>5, PruningCount
<1>6. CASE \E h \in Hub, p \in Worker : HandleHubMessage(h, p)
  BY <1>6, HandleHubCount
<1>7. CASE \E h \in Hub : Distribute(h)
  BY <1>7, HubSendCount DEF Distribute
<1>8. CASE \E p \in Worker : Serve(p)
  BY <1>8, SpServeCount, SpReceiveCount DEF Serve
<1>9. CASE UNCHANGED vars
  <2>1. /\ UNCHANGED <<report, token, hubPool, network, counts, tokenCount>>
        /\ UNCHANGED <<workerPool, serverPool, separated, childrenLeft>>
    BY <1>9 DEF vars, search, hubState
  <2>2. ASSUME NEW o \in Outstanding, HasData(TokenOf(o)) PROVE HasData(TokenOf(o))'
    BY <2>1, <2>2 DEF HasData, TokenOf
  <2>3. ASSUME NEW s \in Sub PROVE Supplied(s)'
    <3>1. Supplied(s)
      BY DEF Counted, Tallied
    <3>2. Pruned
      BY <2>1, NoPruning
    <3>3. \A m \in network' : m.type = "deliver" => m \in network
      BY <2>1
    <3>4. \A w \in Worker : workerPool'[w] \subseteq workerPool[w] /\ serverPool'[w] \subseteq serverPool[w]
      BY <2>1
    <3> QED BY <2>1, <3>1, <3>3, <3>4, SupplyStays
  <2> QED BY <2>1, <2>2, <2>3, LocalCount
<1> QED BY <1>1, <1>2, <1>3, <1>4, <1>5, <1>6, <1>7, <1>8, <1>9 DEF Next

\* What holds of every reachable state.
TokenInv == Core /\ NothingLost /\ Addressed /\ Tallied /\ Balanced

\* A step keeps it.
LEMMA NextTokens ==
  ASSUME WorkAssumption, TokenInv, [Next]_vars
  PROVE  TokenInv' /\ Counted
<1>1. Core /\ NothingLost /\ Addressed /\ Tallied /\ Balanced
  BY DEF TokenInv
<1>2. Core' /\ NothingLost'
  BY <1>1, NextInv
<1>3. Shapes /\ Shapes'
  BY <1>1, <1>2 DEF Core
<1>4. StepKeeps
  <2>1. CASE Next
    BY <1>1, <2>1, NextCore
  <2>2. CASE UNCHANGED vars
    <3>1. UNCHANGED <<incumbent, workerPool, serverPool, separated, childrenLeft, network>>
      BY <2>2 DEF vars, pruning, search
    <3> QED BY <1>1, <3>1, SameIncumbents, RestKeeps
  <2> QED BY <2>1, <2>2
<1>5. Step
  BY <1>1, <1>2, <1>3, <1>4, HubsImprove DEF Step
<1>6. Addressed'
  BY <1>5, NextAddr
<1>7. Counted
  BY <1>1, <1>3, <1>4, <1>5, IncumbentsImprove DEF Counted
<1>8. Tallied' /\ Balanced'
  BY <1>6, <1>7, NextCount
<1> QED BY <1>2, <1>6, <1>7, <1>8 DEF TokenInv

\* The same at one moment: what is in the sets of places, and the counts.
LEMMA TokensNow ==
  ASSUME WorkAssumption, TokenInv
  PROVE  TokensAreSound
<1>1. Core /\ Shapes /\ TransitShape /\ Tallied /\ Balanced
  BY DEF TokenInv, Core, Addressed
<1>2. NoDuplicate
  BY <1>1, CoreNoDuplicate
<1>3. CountsMatchMessages
  BY <1>1 DEF Balanced
<1>4. NoDanglingSubproblem
  <2>1. \A o \in Outstanding : DataOf(TokenOf(o))
    BY <1>1 DEF Tallied
  <2> QED BY <2>1 DEF NoDanglingSubproblem, DataOf, HasData
<1>5. \A s \in Sub : CountsOf(s) /\ Supplied(s) /\ IsFiniteSet(TokensFor(s))
  <2>1. IsFiniteSet(Outstanding)
    BY <1>1 DEF Tallied
  <2>2. ASSUME NEW s \in Sub PROVE IsFiniteSet(TokensFor(s))
    <3>1. TokensFor(s) \subseteq Outstanding
      BY DEF TokensFor
    <3> QED BY <2>1, <3>1, CountPart
  <2> QED BY <1>1, <2>2 DEF Tallied
<1>6. TokensAreCounted
  <2>1. \A w \in Worker : workerPool[w] \subseteq Sub /\ serverPool[w] \subseteq Sub
    BY <1>1 DEF Shapes
  <2>2. ASSUME NEW w \in Worker, NEW s \in serverPool[w]
        PROVE  tokenCount[s] = IF s \in separated THEN Cardinality(childrenLeft[s]) ELSE 1
    BY <1>5, <2>1 DEF Supplied
  <2>3. ASSUME NEW w \in Worker, NEW s \in workerPool[w]
        PROVE  IF s \in separated THEN tokenCount[s] < Cardinality(childrenLeft[s])
                                  ELSE tokenCount[s] = 0
    BY <1>5, <2>1 DEF Supplied
  <2>4. \A s \in Sub : /\ Cardinality(TokensFor(s)) <= tokenCount[s]
                       /\ Bound[s] < Best => Cardinality(TokensFor(s)) = tokenCount[s]
    BY <1>5 DEF CountsOf
  <2> QED BY <2>2, <2>3, <2>4 DEF TokensAreCounted
<1>7. hubDispatch \in Nat /\ localScatter \in Nat /\ nonLocalScatter \in Nat
  BY <1>1, CountsAreNumbers
<1>8. tokenCount \in [Sub -> Nat]
  <2>1. tokenCount \in [Sub -> Int]
    BY <1>1 DEF Shapes
  <2>2. ASSUME NEW s \in Sub PROVE tokenCount[s] \in Nat
    <3>1. Cardinality(TokensFor(s)) \in Nat /\ Cardinality(TokensFor(s)) <= tokenCount[s]
      BY <1>5, CountPart DEF CountsOf
    <3>2. tokenCount[s] \in Int
      BY <2>1
    <3>3. PICK n \in Nat : n = Cardinality(TokensFor(s))
      BY <3>1
    <3> QED BY <3>1, <3>2, <3>3
  <2> QED BY <2>1, <2>2
<1>9. network \subseteq Dispatch \cup Delivery
  <2>1. ASSUME NEW m \in network, m \notin Delivery PROVE m \in Dispatch
    <3>1. /\ m \in [type : {"dispatch"}, to : Worker \cup {-1}, token : Token \cup {NoToken},
                    dest : Worker, hub : Hub, address : Address]
          /\ m.to = m.token.owner
      BY <1>1, <2>1 DEF Shapes
    <3>2. PICK o : o = <<"dispatch", m.token, m>>
      OBVIOUS
    <3>3. AtDispatch(network, o)
      BY <3>1, <3>2 DEF AtDispatch
    <3>4. o \in Outstanding /\ TokenOf(o) = m.token
      BY <3>2, <3>3, PlacesNow DEF TokenOf
    <3>5. m.token \in Token
      BY <1>1, <3>4 DEF Tallied, DataOf
    <3>6. m.to \in Worker
      BY <3>1, <3>5 DEF Token
    <3> QED BY <3>1, <3>5, <3>6 DEF Dispatch
  <2> QED BY <2>1
<1>10. TypeOK
  <2>1. /\ incumbent \in [Proc -> Nat] /\ needPruning \in [Proc -> BOOLEAN]
        /\ workerPool \in [Worker -> SUBSET Sub] /\ serverPool \in [Worker -> SUBSET Sub]
        /\ separated \subseteq Sub /\ childrenLeft \in [Sub -> SUBSET Sub]
        /\ outBuffer \in [RemoteWorker -> Seq(Token)] /\ acks \in [RemoteWorker -> Seq(Ack)]
        /\ hubQueue \in [Hub -> [Worker -> Seq(HubMessage)]]
        /\ token \in [Hub -> [Address -> Token \cup {NoToken}]]
        /\ hubPool \in [Hub -> SUBSET Address]
    BY <1>1 DEF Shapes
  <2>2. /\ transitPool = [h \in Hub |-> transitPool[h]]
        /\ \A h \in Hub :
             transitPool[h] \in [{w \in Worker : HubOf[w] = h} -> SUBSET Address]
    BY <1>1 DEF TransitShape, Clients
  <2> QED BY <1>7, <1>8, <1>9, <2>1, <2>2 DEF TypeOK
<1> QED BY <1>2, <1>3, <1>4, <1>6, <1>10 DEF TokensAreSound

\* What is taken out of a problem by way of a token in y is still there.
LEMMA TakenIsHeld ==
  ASSUME Shapes, Tallied, NEW y \in Outstanding, NEW t, t = TokenOf(y), ~CanFathom(t.owner, t.sub),
         NEW c, TakeOut(t.owner, t, c), NEW s \in Sub, tokenCount'[s] < tokenCount[s]
  PROVE  \E w \in Worker : s \in workerPool[w] \cup serverPool[w]
<1>1. t \in Token /\ t.owner \in Worker /\ t.sub \in Sub /\ HasData(t)
  BY DEF Tallied, DataOf, Token
<1>2. tokenCount \in [Sub -> Int] /\ tokenCount' = [tokenCount EXCEPT ![t.sub] = @ - 1]
  BY DEF Shapes, TakeOut
<1>3. s = t.sub
  <2>1. SUFFICES ASSUME s # t.sub PROVE FALSE
    OBVIOUS
  <2>2. tokenCount'[s] = tokenCount[s] /\ tokenCount[s] \in Int
    BY <1>2, <2>1
  <2> QED BY <2>2
<1> QED BY <1>1, <1>3 DEF HasData

\* A step that takes something out of the data of a problem finds it there.
LEMMA StepIsLive ==
  ASSUME WorkAssumption, TokenInv, Next, NEW s \in Sub, tokenCount'[s] < tokenCount[s]
  PROVE  \E w \in Worker : s \in workerPool[w] \cup serverPool[w]
<1>1. /\ Core /\ Shapes /\ Tallied /\ \A h \in Hub : HubIsSound(h)
      /\ tokenCount \in [Sub -> Int] /\ tokenCount[s] \in Int
  BY DEF TokenInv, Core, Addressed, Shapes
<1>2. tokenCount' # tokenCount
  BY <1>1
<1>3. ASSUME NEW w \in Worker, NEW r \in workerPool[w], NEW h \in Hub,
             ReleaseChild(w, r, h) \/ ReleaseSelf(w, r, h)
      PROVE  FALSE
  <2>1. r \in Sub /\ Supplied(r) /\ tokenCount[r] \in Int
    BY <1>1 DEF Shapes, Tallied
  <2>2. CASE ReleaseChild(w, r, h)
    <3>1. tokenCount' = [tokenCount EXCEPT ![r] = @ + 1]
      BY <2>2 DEF ReleaseChild
    <3>2. tokenCount'[s] = tokenCount[s] \/ tokenCount'[s] = tokenCount[s] + 1
      BY <1>1, <3>1
    <3> QED BY <1>1, <3>2
  <2>3. CASE ReleaseSelf(w, r, h)
    <3>1. tokenCount' = [tokenCount EXCEPT ![r] = 1] /\ r \notin separated
      BY <2>3 DEF ReleaseSelf
    <3>2. tokenCount[r] = 0
      BY <2>1, <3>1 DEF Supplied
    <3>3. tokenCount'[s] = tokenCount[s] \/ (tokenCount'[s] = 1 /\ tokenCount[s] = 0)
      BY <1>1, <3>1, <3>2
    <3> QED BY <1>1, <3>3
  <2> QED BY <1>3, <2>2, <2>3
<1>4. ASSUME NEW h \in Hub, NEW w \in Worker, NEW a \in hubPool[h], HubSendWorkTo(h, w, a)
      PROVE  \E v \in Worker : s \in workerPool[v] \cup serverPool[v]
  <2>1. PICK t : t = token[h][a]
    OBVIOUS
  <2>2. PICK y : y = <<"hub", token[h][a], h, a>>
    OBVIOUS
  <2>3. y \in Outstanding /\ t = TokenOf(y)
    <3>1. AtHub(token, hubPool, y)
      BY <2>2 DEF AtHub
    <3> QED BY <2>1, <2>2, <3>1, PlacesNow DEF TokenOf
  <2>4. ~CanFathom(h, t.sub)
    <3>1. ~needPruning[h]
      BY <1>4 DEF HubSendWorkTo
    <3> QED BY <1>1, <2>1, <3>1 DEF HubIsSound, HasTokens
  <2>5. CASE t.owner = h
    <3>1. \E c \in Deliverable(t) : TakeOut(h, t, c)
      BY <1>4, <2>1, <2>5 DEF HubSendWorkTo
    <3> QED BY <1>1, <2>3, <2>4, <2>5, <3>1, TakenIsHeld
  <2>6. CASE t.owner # h
    <3>1. tokenCount' = tokenCount
      BY <1>4, <2>1, <2>6 DEF HubSendWorkTo
    <3> QED BY <1>2, <3>1
  <2> QED BY <2>5, <2>6
<1>5. ASSUME NEW p \in Worker, NEW m \in network, SpServe(p, m)
      PROVE  \E v \in Worker : s \in workerPool[v] \cup serverPool[v]
  <2>1. m.type = "dispatch" /\ m.to = p
    BY <1>5 DEF SpServe
  <2>2. PICK y : y = <<"dispatch", m.token, m>>
    OBVIOUS
  <2>3. y \in Outstanding /\ m.token = TokenOf(y)
    <3>1. AtDispatch(network, y)
      BY <2>1, <2>2 DEF AtDispatch
    <3> QED BY <2>2, <3>1, PlacesNow DEF TokenOf
  <2>4. m.token.owner = p
    BY <1>1, <2>1 DEF Shapes, Delivery
  <2>5. ~MustAbort(p, m.token)
    <3>1. SUFFICES ASSUME MustAbort(p, m.token) PROVE FALSE
      OBVIOUS
    <3>2. tokenCount' = tokenCount
      BY <1>5, <3>1 DEF SpServe, search
    <3> QED BY <1>2, <3>2
  <2>6. \E c \in Deliverable(m.token) : TakeOut(p, m.token, c)
    BY <1>5, <2>5 DEF SpServe
  <2> QED BY <1>1, <2>3, <2>4, <2>5, <2>6, TakenIsHeld DEF MustAbort
<1>6. ASSUME NEW w \in Worker, NEW r \in workerPool[w],
             \/ Evaluate(w, r) \/ Split(w, r) \/ \E c \in childrenLeft[r] : SpinOffChild(w, r, c)
      PROVE  FALSE
  <2>1. tokenCount' = tokenCount
    BY <1>6 DEF Evaluate, Split, SpinOffChild
  <2> QED BY <1>2, <2>1
<1>7. ASSUME \/ \E w \in RemoteWorker : Communicate(w)
             \/ \E p \in Proc : LearnIncumbent(p)
             \/ \E p \in Proc : Prune(p)
             \/ \E h \in Hub, p \in Worker : HandleHubMessage(h, p)
             \/ \E p \in Worker, m \in network : SpReceive(p, m)
      PROVE  FALSE
  <2>1. tokenCount' = tokenCount
    <3>1. \A w : Communicate(w) => tokenCount' = tokenCount
      BY DEF Communicate, search
    <3>2. \A p : LearnIncumbent(p) \/ Prune(p) => tokenCount' = tokenCount
      BY Zenon DEF LearnIncumbent, Prune, search
    <3>3. \A h, p : HandleHubMessage(h, p) => tokenCount' = tokenCount
      <4> SUFFICES ASSUME NEW h, NEW p, HandleHubMessage(h, p) PROVE tokenCount' = tokenCount
        OBVIOUS
      <4>1. UNCHANGED <<pruning, search, outBuffer, acks, network>>
        BY Zenon DEF HandleHubMessage
      <4> QED BY <4>1 DEF search
    <3>4. \A p, m : SpReceive(p, m) => tokenCount' = tokenCount
      BY DEF SpReceive
    <3> QED BY <1>7, <3>1, <3>2, <3>3, <3>4, Zenon
  <2> QED BY <1>2, <2>1
<1> DEFINE Found == \E w \in Worker : s \in workerPool[w] \cup serverPool[w]
<1> SUFFICES Found
  OBVIOUS
<1> HIDE DEF Found
<1>8. ASSUME NEW w \in Worker, Work(w) PROVE Found
  <2>1. PICK r \in workerPool[w] :
          \/ Evaluate(w, r) \/ Split(w, r) \/ \E c \in childrenLeft[r] : SpinOffChild(w, r, c)
    BY <1>8, Zenon DEF Work
  <2> QED BY <1>6, <2>1, Zenon
<1>9. ASSUME NEW w \in Worker, GiveUp(w) PROVE Found
  BY <1>3, <1>9, Zenon DEF GiveUp, Found
<1>10. ASSUME NEW h \in Hub, Distribute(h) PROVE Found
  BY <1>4, <1>10, Zenon DEF Distribute, Found
<1>11. ASSUME NEW p \in Worker, Serve(p) PROVE Found
  BY <1>5, <1>7, <1>11, Zenon DEF Serve, Found
<1> QED BY <1>7, <1>8, <1>9, <1>10, <1>11, Zenon DEF Next

\* Whatever the order of messages and of pruning, a token that will be used points to a
\* subproblem its owner still has, with no fewer children left than there are tokens for
\* it; the number that decides when the data is deleted is right; and the counts of
\* messages that the hubs compare to detect termination are those of the messages and
\* tokens on their way (workerRelease, handleHubMessage, hubSendWorkTo, deliverSP,
\* addToWorkerPool, abortDeliverSP).
THEOREM TokensPointToData ==
  ASSUME WorkAssumption
  PROVE  Spec => []TokensAreSound
<1>1. Init => TokenInv
  BY InitCore, InitAddr, InitCount DEF TokenInv
<1>2. TokenInv /\ [Next]_vars => TokenInv'
  BY NextTokens
<1>3. TokenInv => TokensAreSound
  BY TokensNow
<1> QED BY <1>1, <1>2, <1>3, PTL DEF Spec

\* A delivery never takes anything out of data that has been deleted (deliverSP,
\* hubSendWorkTo).
THEOREM DeliveriesFindData ==
  ASSUME WorkAssumption
  PROVE  Spec => DeliveriesAreLive
<1> DEFINE Live == \A s \in Sub : tokenCount'[s] < tokenCount[s] =>
                     \E w \in Worker : s \in workerPool[w] \cup serverPool[w]
<1>1. Init => TokenInv
  BY InitCore, InitAddr, InitCount DEF TokenInv
<1>2. TokenInv /\ [Next]_vars => TokenInv'
  BY NextTokens
<1>3. TokenInv /\ [Next]_vars => [Live]_vars
  BY StepIsLive
<1>4. Spec => [][Live]_vars
  <2> HIDE DEF Live
  <2> QED BY <1>1, <1>2, <1>3, PTL DEF Spec
<1> QED BY <1>4 DEF DeliveriesAreLive

=============================================================================
