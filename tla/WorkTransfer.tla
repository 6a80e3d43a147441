---------------------------- MODULE WorkTransfer ----------------------------
(***************************************************************************)
(* How PEBBL's parallel search hands subproblems from one worker to        *)
(* another.  A worker that gives up a subproblem keeps its data in a       *)
(* server pool and sends a hub a token: a bound and the address of the     *)
(* data.  The hub picks a worker for a token it holds, keeps the token in  *)
(* that worker's transit pool, and has the owner of the data deliver it    *)
(* there; the receiver acknowledges with the address of the hub's token.   *)
(* Raw addresses thus cross processors three times while each processor    *)
(* prunes its own pools, whenever it learns of a better incumbent.         *)
(*                                                                         *)
(* pbb/pbWorker.cpp, pbHub.cpp, spServer.cpp, spReceiver.cpp.  Objectives  *)
(* are minimized.  A search that is being suspended for a checkpoint or an *)
(* abort, load balancing between hubs and load reports are left out: when  *)
(* a worker releases, and to which worker a hub gives work, is any choice. *)
(***************************************************************************)
EXTENDS Integers, Sequences, FiniteSets, FiniteSetsExt, Functions

CONSTANTS
  Hub, Worker,    \* sets of processors, which are numbers
  HubOf,          \* the hub of each worker
  Sub, Root,      \* the subproblems of the search tree
  Children,       \* the set of children of each; a solution if it has none
  Bound,          \* the bound of each; the value of a solution
  NoIncumbent,    \* the incumbent value when there is none (MAXDOUBLE)
  Start,          \* the worker that has the root when ramp-up ends
  Address,        \* memory locations a hub has for tokens
  MaxBuffered     \* maxTokensInHubMsg and maxTokenQueuing

Proc == Hub \cup Worker

\* Children make a tree of the subproblems: all come from Root, by one way.
SearchTreeAssumption ==
  /\ IsFiniteSet(Sub) /\ Root \in Sub /\ Children \in [Sub -> SUBSET Sub]
  /\ \A s \in Sub : Root \notin Children[s]
  /\ \A s, t \in Sub : s # t => Children[s] \cap Children[t] = {}
  /\ \A S \in SUBSET Sub : Root \in S /\ (\A s \in S : Children[s] \subseteq S) => S = Sub

WorkAssumption ==
  /\ SearchTreeAssumption
  /\ Proc \subseteq Nat /\ IsFiniteSet(Proc) /\ Start \in Worker
  /\ HubOf \in [Worker -> Hub]
  /\ \A w \in Worker \cap Hub : HubOf[w] = w
  /\ Bound \in [Sub -> Nat] /\ NoIncumbent \in Nat
  /\ \A s \in Sub : Bound[s] < NoIncumbent
  /\ \A s \in Sub : \A c \in Children[s] : Bound[s] <= Bound[c]
  /\ Address \subseteq Nat /\ MaxBuffered \in Nat \ {0}

RemoteWorker == Worker \ Hub
Leaf         == {s \in Sub : Children[s] = {}}

VARIABLES
  incumbent,     \* incumbentValue of each processor
  needPruning,   \* has it not yet pruned with that value?
  workerPool, serverPool,   \* the subproblems each worker has in memory
  separated,     \* the subproblems that have been split
  childrenLeft,  \* their children not created yet
  tokenCount,    \* number of tokens for each that have not come back
  outBuffer,     \* tokens in workerOutBuffer of a remote worker
  acks,          \* deliveries it has not acknowledged yet (spAckAddress)
  hubQueue,      \* messages from each processor to each hub
  token,         \* the memory a hub has for tokens
  hubPool, transitPool,     \* addresses of tokens: to be given out, given out
  network,       \* dispatch messages (to owners) and deliveries (to workers)
  hubDispatch, localScatter, nonLocalScatter  \* messages: sent less received

search   == <<workerPool, serverPool, separated, childrenLeft, tokenCount>>
report   == <<outBuffer, acks, hubQueue>>
hubState == <<token, hubPool, transitPool>>
counts   == <<hubDispatch, localScatter, nonLocalScatter>>
pruning  == <<incumbent, needPruning>>
vars     == <<pruning, search, report, hubState, network, counts>>

Token      == [sub : Sub, self : BOOLEAN, owner : Worker]
NoToken    == [sub |-> Root, self |-> FALSE, owner |-> -1]
Ack        == [address : Address, sub : Sub]
HubMessage == [tokens : Seq(Token), acks : Seq(Ack), adjust : {0, 1}]
Dispatch   == [type : {"dispatch"}, to : Worker, token : Token,
               dest : Worker, hub : Hub, address : Address]
Delivery   == [type : {"deliver"}, to : Worker, sub : Sub, bound : Sub,
               hub : Hub, address : Address]

-----------------------------------------------------------------------------
(***************************************************************************)
(* A bound is represented by the subproblem it is the bound of.  A token   *)
(* has the bound of the subproblem whose data it points to, even if it     *)
(* stands for a child.                                                     *)
(***************************************************************************)
CanFathom(p, s) == Bound[s] >= incumbent[p]

\* Mutant of StillNeededByWorker: children promised by tokens are not discounted.
MutNeededWhileChildren(left, count) == left # {}
\* stillNeededByWorker: does s have children that no token stands for?
StillNeededByWorker(left, count) == Cardinality(left) > count

\* A hub's allocator, which may reuse memory at once: an address for each element
\* of a set S.
Free(h) == {a \in Address : token[h][a] = NoToken}
Places(h, S) == Injection(S, Free(h))
Allocate(h, S) == CHOOSE f \in Places(h, S) : TRUE

Init ==
  /\ incumbent   = [p \in Proc |-> NoIncumbent]
  /\ needPruning = [p \in Proc |-> FALSE]
  /\ workerPool  = [w \in Worker |-> IF w = Start THEN {Root} ELSE {}]
  /\ serverPool  = [w \in Worker |-> {}]
  /\ separated    = {}
  /\ childrenLeft = [s \in Sub |-> {}]
  /\ tokenCount   = [s \in Sub |-> 0]
  /\ outBuffer = [w \in RemoteWorker |-> <<>>]
  /\ acks      = [w \in RemoteWorker |-> <<>>]
  /\ hubQueue  = [h \in Hub |-> [p \in Worker |-> <<>>]]
  /\ token     = [h \in Hub |-> [a \in Address |-> NoToken]]
  /\ hubPool     = [h \in Hub |-> {}]
  /\ transitPool = [h \in Hub |-> [w \in {v \in Worker : HubOf[v] = h} |-> {}]]
  /\ network = {}
  /\ hubDispatch = 0 /\ localScatter = 0 /\ nonLocalScatter = 0

\* workerCommunicateWithHub: all that is buffered goes into one message.
SendReport(w, tokens, acked) ==
  /\ hubQueue' = [hubQueue EXCEPT ![HubOf[w]][w] =
                    Append(@, [tokens |-> tokens, acks |-> acked, adjust |-> 0])]
  /\ outBuffer' = [outBuffer EXCEPT ![w] = <<>>]
  /\ acks'      = [acks EXCEPT ![w] = <<>>]

\* Mutant of Below: problems as good as the incumbent are kept.
MutBelowOrEqual(v, subs) == {s \in subs : Bound[s] <= v}

Below(v, subs) == {s \in subs : Bound[s] < v}

(***************************************************************************)
(* pruneIfNeeded: a worker discards all that value v fathoms, whether or   *)
(* not tokens for it are outstanding; if it is remote it then communicates *)
(* with its hub.  A hub prunes its tokens, wherever they are.              *)
(***************************************************************************)
HubPrune(h, v) ==
  LET live == {a \in Address : /\ token[h][a] # NoToken
                               /\ token[h][a].sub \in Below(v, Sub)}
  IN  /\ token' = [token EXCEPT ![h] =
                     [a \in Address |-> IF a \in live THEN @[a] ELSE NoToken]]
      /\ hubPool' = [hubPool EXCEPT ![h] = @ \cap live]
      /\ transitPool' = [transitPool EXCEPT ![h] = [w \in DOMAIN @ |-> @[w] \cap live]]

\* pruneIfNeeded and hubPrune call each other, so both are done.
PrunePools(p, v) ==
  /\ IF p \in Worker
     THEN /\ workerPool' = [workerPool EXCEPT ![p] = Below(v, @)]
          /\ serverPool' = [serverPool EXCEPT ![p] = Below(v, @)]
     ELSE UNCHANGED <<workerPool, serverPool>>
  /\ IF p \in Hub
     THEN HubPrune(p, v) /\ UNCHANGED report
     ELSE SendReport(p, outBuffer[p], acks[p]) /\ UNCHANGED hubState

-----------------------------------------------------------------------------
(***************************************************************************)
(* Worker threads                                                          *)
(***************************************************************************)

\* workerExecute and processSubproblem prune before they look for work.
CanWork(w, s) == ~needPruning[w] /\ s \in workerPool[w]

(***************************************************************************)
(* The handler bounds a solution, which becomes the incumbent since it     *)
(* could not be fathomed, and processSubproblem ends by pruning with it.   *)
(***************************************************************************)
Evaluate(w, s) ==
  /\ CanWork(w, s) /\ s \in Leaf
  /\ incumbent' = [incumbent EXCEPT ![w] = Bound[s]]
  /\ PrunePools(w, Bound[s])
  /\ UNCHANGED <<needPruning, separated, childrenLeft, tokenCount, network, counts>>

\* split()
Split(w, s) ==
  /\ CanWork(w, s) /\ s \notin Leaf /\ s \notin separated
  /\ separated' = separated \cup {s}
  /\ childrenLeft' = [childrenLeft EXCEPT ![s] = Children[s]]
  /\ UNCHANGED <<pruning, workerPool, serverPool, tokenCount,
                 report, hubState, network, counts>>

(***************************************************************************)
(* spinOffChild extracts a child (getChild) and inserts it in the pool, or *)
(* erases it if it can be fathomed.  When the parent has no more children  *)
(* for the worker it is disposed of: kept for its tokens or recycled.  The *)
(* handlers differ in how many such steps they take in one slice.          *)
(***************************************************************************)
SpinOffChild(w, s, c) ==
  /\ CanWork(w, s) /\ c \in childrenLeft[s]
  /\ StillNeededByWorker(childrenLeft[s], tokenCount[s])
  /\ childrenLeft' = [childrenLeft EXCEPT ![s] = @ \ {c}]
  /\ LET stays == StillNeededByWorker(childrenLeft[s] \ {c}, tokenCount[s])
     IN  /\ workerPool' = [workerPool EXCEPT ![w] =
              {t \in @ : t # s \/ stays} \cup {t \in {c} : ~CanFathom(w, t)}]
         /\ serverPool' = [serverPool EXCEPT ![w] =
              @ \cup {t \in {s} : ~stays /\ tokenCount[s] > 0}]
  /\ UNCHANGED <<pruning, separated, tokenCount, report, hubState, network, counts>>

(***************************************************************************)
(* workerRelease: a token goes to the pool of one's own hub if it is this  *)
(* processor, to the buffer of messages for it if it is not, or in a       *)
(* message of its own to the hub of another cluster (scatterHub).          *)
(***************************************************************************)
Release(w, t, h) ==
  IF h = w
  THEN /\ Places(h, {t}) # {}
       /\ LET at == Allocate(h, {t})[t]
          IN  /\ token'   = [token EXCEPT ![h][at] = t]
              /\ hubPool' = [hubPool EXCEPT ![h] = @ \cup {at}]
       /\ UNCHANGED <<transitPool, report, localScatter, nonLocalScatter>>
  ELSE /\ IF h = HubOf[w]
          THEN /\ LET tokens == Append(outBuffer[w], t)
                  IN  IF Len(tokens) = MaxBuffered
                      THEN SendReport(w, tokens, acks[w])
                      ELSE /\ outBuffer' = [outBuffer EXCEPT ![w] = tokens]
                           /\ UNCHANGED <<acks, hubQueue>>
               /\ localScatter' = localScatter + 1
               /\ UNCHANGED nonLocalScatter
          ELSE /\ hubQueue' = [hubQueue EXCEPT ![h][w] =
                    Append(@, [tokens |-> <<t>>, acks |-> <<>>, adjust |-> 0])]
               /\ nonLocalScatter' = nonLocalScatter + 1
               /\ UNCHANGED <<outBuffer, acks, localScatter>>
       /\ UNCHANGED hubState

(***************************************************************************)
(* releaseChild of a separated problem, one token for one child.           *)
(***************************************************************************)
ReleaseChild(w, s, h) ==
  /\ CanWork(w, s) /\ s \in separated
  /\ StillNeededByWorker(childrenLeft[s], tokenCount[s])
  /\ tokenCount' = [tokenCount EXCEPT ![s] = @ + 1]
  /\ IF StillNeededByWorker(childrenLeft[s], tokenCount[s] + 1)
     THEN UNCHANGED <<workerPool, serverPool>>
     ELSE /\ workerPool' = [workerPool EXCEPT ![w] = @ \ {s}]
          /\ serverPool' = [serverPool EXCEPT ![w] = @ \cup {s}]
  /\ Release(w, [sub |-> s, self |-> FALSE, owner |-> w], h)
  /\ UNCHANGED <<pruning, separated, childrenLeft, network, hubDispatch>>

(***************************************************************************)
(* The release of a whole problem: by the eager handler when it has been   *)
(* bounded, or by rebalanceIfNeeded.                                       *)
(***************************************************************************)
ReleaseSelf(w, s, h) ==
  /\ CanWork(w, s) /\ s \notin separated
  /\ tokenCount' = [tokenCount EXCEPT ![s] = 1]
  /\ workerPool' = [workerPool EXCEPT ![w] = @ \ {s}]
  /\ serverPool' = [serverPool EXCEPT ![w] = @ \cup {s}]
  /\ Release(w, [sub |-> s, self |-> TRUE, owner |-> w], h)
  /\ UNCHANGED <<pruning, separated, childrenLeft, network, hubDispatch>>

(***************************************************************************)
(* shouldCommunicateWithHub lets an idle worker report when it has         *)
(* acknowledgements or its message counts have changed; a busy one may.    *)
(***************************************************************************)
Communicate(w) ==
  /\ outBuffer[w] # <<>> \/ acks[w] # <<>>
  /\ SendReport(w, outBuffer[w], acks[w])
  /\ UNCHANGED <<pruning, search, hubState, network, counts>>

-----------------------------------------------------------------------------
(***************************************************************************)
(* Incumbents                                                              *)
(***************************************************************************)

\* A better incumbent reaches p (module IncumbentCast shows that it will).
LearnIncumbent(p) ==
  /\ \E q \in Proc : /\ incumbent[q] < incumbent[p]
                     /\ incumbent' = [incumbent EXCEPT ![p] = incumbent[q]]
  /\ needPruning' = [needPruning EXCEPT ![p] = TRUE]
  /\ UNCHANGED <<search, report, hubState, network, counts>>

Prune(p) ==
  /\ needPruning[p]
  /\ needPruning' = [needPruning EXCEPT ![p] = FALSE]
  /\ PrunePools(p, incumbent[p])
  /\ UNCHANGED <<incumbent, separated, childrenLeft, tokenCount, network, counts>>

-----------------------------------------------------------------------------
(***************************************************************************)
(* Hub threads                                                             *)
(***************************************************************************)

\* Mutant of Acknowledged: every acknowledged token is deleted, bound or no bound.
MutAckAlways(h, acked) == {k.address : k \in Range(acked)}

\* The tokens handleHubMessage deletes: fathomable ones are left to hubPrune.
Acknowledged(h, acked) == {k.address : k \in {a \in Range(acked) : ~CanFathom(h, a.sub)}}

(***************************************************************************)
(* handleHubMessage: new tokens are inserted unless they can be fathomed,  *)
(* then the acknowledged ones are deleted, then the message count is       *)
(* adjusted for a delivery another cluster's worker did not make.          *)
(***************************************************************************)
HandleHubMessage(h, p) ==
  /\ hubQueue[h][p] # <<>>
  /\ LET msg   == Head(hubQueue[h][p])
         fresh == {i \in DOMAIN msg.tokens : ~CanFathom(h, msg.tokens[i].sub)}
         at    == Allocate(h, fresh)
         dead  == Acknowledged(h, msg.acks)
     IN  /\ Places(h, fresh) # {}
         /\ token' = [token EXCEPT ![h] = [a \in Address |->
              IF a \in dead THEN NoToken
              ELSE IF a \in Range(at) THEN msg.tokens[CHOOSE i \in fresh : at[i] = a]
              ELSE @[a]]]
         /\ hubPool' = [hubPool EXCEPT ![h] = @ \cup Range(at)]
         /\ IF HubOf[p] = h
            THEN /\ transitPool' = [transitPool EXCEPT ![h][p] = @ \ dead]
                 /\ localScatter' = localScatter - Len(msg.tokens)
                 /\ UNCHANGED nonLocalScatter
            ELSE /\ nonLocalScatter' = nonLocalScatter - Len(msg.tokens)
                 /\ UNCHANGED <<transitPool, localScatter>>
         /\ hubDispatch' = hubDispatch - msg.adjust
         /\ hubQueue' = [hubQueue EXCEPT ![h][p] = Tail(@)]
  /\ UNCHANGED <<pruning, search, outBuffer, acks, network>>

(***************************************************************************)
(* deliverSP at p: the problem that token t stands for, the subproblem     *)
(* itself or some child c, leaves with it, and the data is deleted when    *)
(* no more of it can be asked for.                                         *)
(***************************************************************************)
Deliverable(t) == IF t.self THEN {t.sub} ELSE childrenLeft[t.sub]

\* Mutant of TakeOut: a child that is delivered stays with its parent.
MutTakeOutKeepsChild(p, t, c) ==
  /\ tokenCount' = [tokenCount EXCEPT ![t.sub] = @ - 1]
  /\ UNCHANGED childrenLeft
  /\ serverPool' = [serverPool EXCEPT ![p] =
       {s \in @ : s # t.sub \/ childrenLeft[s] # {} \/ tokenCount'[s] > 0}]

TakeOut(p, t, c) ==
  /\ tokenCount' = [tokenCount EXCEPT ![t.sub] = @ - 1]
  /\ childrenLeft' = [childrenLeft EXCEPT ![t.sub] = @ \ {c}]
  /\ serverPool' = [serverPool EXCEPT ![p] =
       {s \in @ : s # t.sub \/ childrenLeft'[s] # {} \/ tokenCount'[s] > 0}]

(***************************************************************************)
(* addToWorkerPool at w of a problem c that came for the token at address  *)
(* a of w's hub: it is inserted unless it can be fathomed, and counted.    *)
(* The token, which has the bound of b, is deleted if the hub is here; if  *)
(* not it is acknowledged, at once when the list of these is full.         *)
(***************************************************************************)
AddToWorkerPool(w, c, b, a) ==
  /\ workerPool' = [workerPool EXCEPT ![w] = @ \cup {s \in {c} : ~CanFathom(w, s)}]
  /\ hubDispatch' = hubDispatch - 1
  /\ IF w \in Hub
     THEN /\ IF CanFathom(w, b)
             THEN UNCHANGED <<token, transitPool>>
             ELSE /\ token' = [token EXCEPT ![w][a] = NoToken]
                  /\ transitPool' = [transitPool EXCEPT ![w][w] = @ \ {a}]
          /\ UNCHANGED report
     ELSE LET acked == Append(acks[w], [address |-> a, sub |-> b])
          IN  /\ IF Len(acked) = MaxBuffered
                 THEN SendReport(w, outBuffer[w], acked)
                 ELSE /\ acks' = [acks EXCEPT ![w] = acked]
                      /\ UNCHANGED <<outBuffer, hubQueue>>
              /\ UNCHANGED <<token, transitPool>>

(***************************************************************************)
(* hubSendWorkTo(w), from hubDistributeWork, which prunes first.  The      *)
(* owner of the data is asked to deliver it, or does so at once if it is   *)
(* the hub; then the token has been deleted by the time it returns if w is *)
(* the hub as well.                                                        *)
(***************************************************************************)
HubSendWorkTo(h, w, a) ==
  LET t == token[h][a]
      deliver(c) == [type |-> "deliver", to |-> w, sub |-> c, bound |-> t.sub,
                     hub |-> h, address |-> a]
      ask == [type |-> "dispatch", to |-> t.owner, token |-> t,
              dest |-> w, hub |-> h, address |-> a]
  IN
  /\ ~needPruning[h] /\ a \in hubPool[h] /\ HubOf[w] = h
  /\ hubPool' = [hubPool EXCEPT ![h] = @ \ {a}]
  /\ IF t.owner = h
     THEN \E c \in Deliverable(t) :
            /\ TakeOut(h, t, c)
            /\ IF w = h
               THEN /\ workerPool' = [workerPool EXCEPT ![h] =
                                        @ \cup {s \in {c} : ~CanFathom(h, s)}]
                    /\ token' = [token EXCEPT ![h][a] = NoToken]
                    /\ UNCHANGED <<transitPool, network, hubDispatch>>
               ELSE /\ network' = network \cup {deliver(c)}
                    /\ transitPool' = [transitPool EXCEPT ![h][w] = @ \cup {a}]
                    /\ hubDispatch' = hubDispatch + 1
                    /\ UNCHANGED <<workerPool, token>>
     ELSE /\ network' = network \cup {ask}
          /\ transitPool' = [transitPool EXCEPT ![h][w] = @ \cup {a}]
          /\ hubDispatch' = hubDispatch + 1
          /\ UNCHANGED <<workerPool, serverPool, childrenLeft, tokenCount, token>>
  /\ UNCHANGED <<pruning, separated, report, localScatter, nonLocalScatter>>

-----------------------------------------------------------------------------
(***************************************************************************)
(* Subproblem server and receiver threads                                  *)
(***************************************************************************)

(***************************************************************************)
(* abortDeliverSP: one's own hub sees the count in the next report; a hub  *)
(* of another cluster is asked to adjust its own.                          *)
(***************************************************************************)
AbortDeliverSP(p, h) ==
  IF h = HubOf[p]
  THEN hubDispatch' = hubDispatch - 1 /\ UNCHANGED hubQueue
  ELSE /\ hubQueue' = [hubQueue EXCEPT ![h][p] =
                         Append(@, [tokens |-> <<>>, acks |-> <<>>, adjust |-> 1])]
       /\ UNCHANGED hubDispatch

\* Mutant of MustAbort: the address is trusted whatever the bound.
MutNeverAbort(p, t) == FALSE
\* The data of a token that can be fathomed may be gone.
MustAbort(p, t) == CanFathom(p, t.sub)

SpServe(p, m) ==
  /\ m \in network /\ m.type = "dispatch" /\ m.to = p
  /\ IF MustAbort(p, m.token)
     THEN /\ network' = network \ {m}
          /\ AbortDeliverSP(p, m.hub)
          /\ UNCHANGED <<search, outBuffer, acks, token, transitPool>>
     ELSE \E c \in Deliverable(m.token) :
            /\ TakeOut(p, m.token, c)
            /\ IF m.dest = p
               THEN /\ AddToWorkerPool(p, c, m.token.sub, m.address)
                    /\ network' = network \ {m}
               ELSE /\ network' = (network \ {m}) \cup
                         {[type |-> "deliver", to |-> m.dest, sub |-> c,
                           bound |-> m.token.sub, hub |-> m.hub, address |-> m.address]}
                    /\ UNCHANGED <<workerPool, report, token, transitPool, hubDispatch>>
            /\ UNCHANGED separated
  /\ UNCHANGED <<pruning, hubPool, localScatter, nonLocalScatter>>

SpReceive(w, m) ==
  /\ m \in network /\ m.type = "deliver" /\ m.to = w
  /\ network' = network \ {m}
  /\ AddToWorkerPool(w, m.sub, m.bound, m.address)
  /\ UNCHANGED <<pruning, serverPool, separated, childrenLeft, tokenCount,
                 hubPool, localScatter, nonLocalScatter>>

-----------------------------------------------------------------------------
Work(w) ==
  \E s \in workerPool[w] :
    \/ Evaluate(w, s)
    \/ Split(w, s)
    \/ \E c \in childrenLeft[s] : SpinOffChild(w, s, c)

GiveUp(w) ==
  \E s \in workerPool[w], h \in Hub : ReleaseChild(w, s, h) \/ ReleaseSelf(w, s, h)

Distribute(h) ==
  \E w \in Worker, a \in hubPool[h] : HubSendWorkTo(h, w, a)

Serve(p) == \E m \in network : SpServe(p, m) \/ SpReceive(p, m)

Next ==
  \/ \E w \in Worker : Work(w)
  \/ \E w \in Worker : GiveUp(w)
  \/ \E w \in RemoteWorker : Communicate(w)
  \/ \E p \in Proc : LearnIncumbent(p)
  \/ \E p \in Proc : Prune(p)
  \/ \E h \in Hub, p \in Worker : HandleHubMessage(h, p)
  \/ \E h \in Hub : Distribute(h)
  \/ \E p \in Worker : Serve(p)

(***************************************************************************)
(* The scheduler runs every thread that is ready.  A slice of the worker   *)
(* thread works on a problem before it gives any up, so a worker cannot    *)
(* give up problems for ever and never work.                               *)
(***************************************************************************)
Fairness ==
  /\ \A w \in Worker : SF_vars(Work(w)) /\ WF_vars(Serve(w))
  /\ \A w \in RemoteWorker : WF_vars(Communicate(w))
  /\ \A p \in Proc : WF_vars(LearnIncumbent(p)) /\ WF_vars(Prune(p))
  /\ \A h \in Hub : WF_vars(Distribute(h))
  /\ \A h \in Hub, p \in Worker : WF_vars(HandleHubMessage(h, p))

Spec == Init /\ [][Next]_vars /\ Fairness

-----------------------------------------------------------------------------
(***************************************************************************)
(* Types: in particular the message counts never fall below zero, and a    *)
(* hub keeps in its transit pools only addresses of its own.               *)
(***************************************************************************)
TypeOK ==
  /\ incumbent   \in [Proc -> Nat]
  /\ needPruning \in [Proc -> BOOLEAN]
  /\ workerPool \in [Worker -> SUBSET Sub] /\ serverPool \in [Worker -> SUBSET Sub]
  /\ separated \subseteq Sub
  /\ childrenLeft \in [Sub -> SUBSET Sub] /\ tokenCount \in [Sub -> Nat]
  /\ outBuffer \in [RemoteWorker -> Seq(Token)] /\ acks \in [RemoteWorker -> Seq(Ack)]
  /\ hubQueue \in [Hub -> [Worker -> Seq(HubMessage)]]
  /\ token \in [Hub -> [Address -> Token \cup {NoToken}]]
  /\ hubPool \in [Hub -> SUBSET Address]
  /\ transitPool = [h \in Hub |-> transitPool[h]]
  /\ \A h \in Hub :
       transitPool[h] \in [{w \in Worker : HubOf[w] = h} -> SUBSET Address]
  /\ network \subseteq Dispatch \cup Delivery
  /\ hubDispatch \in Nat /\ localScatter \in Nat /\ nonLocalScatter \in Nat

Best == Min(Range(incumbent))

Dispatches == {m \in network : m.type = "dispatch"}
Deliveries == {m \in network : m.type = "deliver"}

(***************************************************************************)
(* The tokens that can still make somebody use the address in them, with   *)
(* the places they are in (two tokens for a problem may be equal).         *)
(***************************************************************************)
BufferedTokens ==
  UNION {{<<"buffer", outBuffer[w][i], w, i>> : i \in DOMAIN outBuffer[w]} : w \in RemoteWorker}

QueuedTokens(h, p) ==
  UNION {{<<"queue", hubQueue[h][p][i].tokens[j], h, p, i, j>> :
            j \in DOMAIN hubQueue[h][p][i].tokens} : i \in DOMAIN hubQueue[h][p]}

Outstanding ==
  BufferedTokens
  \cup (UNION {QueuedTokens(h, p) : h \in Hub, p \in Worker})
  \cup (UNION {{<<"hub", token[h][a], h, a>> : a \in hubPool[h]} : h \in Hub})
  \cup {<<"dispatch", m.token, m>> : m \in Dispatches}

TokenOf(o) == o[2]

TokensFor(s) == {o \in Outstanding : TokenOf(o).sub = s}

(***************************************************************************)
(* The data a token points to is in the memory of its owner, in a state in *)
(* which it can be delivered, unless the owner can already tell from the   *)
(* token's bound that it must not look.                                    *)
(***************************************************************************)
NoDanglingSubproblem ==
  \A o \in Outstanding :
    LET t == TokenOf(o)
    IN  /\ ~t.self => t.sub \in separated
        /\ CanFathom(t.owner, t.sub) \/
             IF t.self
             THEN t.sub \in serverPool[t.owner] \ separated
             ELSE /\ t.sub \in workerPool[t.owner] \cup serverPool[t.owner]
                  /\ childrenLeft[t.sub] # {}

(***************************************************************************)
(* The addresses that come back to hub h, with the worker a token was      *)
(* dispatched to and the subproblem whose bound travels along, and the     *)
(* places they are in: dispatches, deliveries, and acknowledgements before *)
(* and after they are sent.                                                *)
(***************************************************************************)
Back(a, w, s, place) == [address |-> a, worker |-> w, sub |-> s, at |-> place]

Returns(h) ==
  {Back(m.address, m.dest, m.token.sub, <<"dispatch", m>>) :
     m \in {n \in Dispatches : n.hub = h}}
  \cup {Back(m.address, m.to, m.bound, <<"delivery", m>>) :
          m \in {n \in Deliveries : n.hub = h}}
  \cup (UNION {{Back(acks[w][i].address, w, acks[w][i].sub, <<"acks", w, i>>) :
                  i \in DOMAIN acks[w]} : w \in {v \in RemoteWorker : HubOf[v] = h}})
  \cup (UNION {UNION {{Back(hubQueue[h][p][i].acks[j].address, p,
                            hubQueue[h][p][i].acks[j].sub, <<"queue", p, i, j>>) :
                         j \in DOMAIN hubQueue[h][p][i].acks} :
                      i \in DOMAIN hubQueue[h][p]} : p \in Worker})

(***************************************************************************)
(* What a hub deletes on an acknowledgement is the token it dispatched:    *)
(* the address, which makes a round trip by way of two other processors,   *)
(* has not been pruned and reused meanwhile, unless the hub will ignore it.*)
(***************************************************************************)
NoDanglingToken ==
  \A h \in Hub : \A x \in Returns(h) :
    /\ HubOf[x.worker] = h
    /\ \/ CanFathom(h, x.sub)
       \/ x.address \in transitPool[h][x.worker] /\ token[h][x.address].sub = x.sub

\* And it deletes the token once: an address comes back twice only if one of the
\* two is ignored.
OneReturn ==
  \A h \in Hub : \A x, y \in Returns(h) :
    x.address = y.address => x = y \/ CanFathom(h, x.sub) \/ CanFathom(h, y.sub)

(***************************************************************************)
(* No token stays in a transit pool for ever: it is on its way, or its     *)
(* bound is no better than an incumbent somebody has.  A token left behind *)
(* would be counted as load and the search would not end.                  *)
(***************************************************************************)
TransitTokensMove ==
  \A h \in Hub : \A w \in DOMAIN transitPool[h] : \A a \in transitPool[h][w] :
    \/ Bound[token[h][a].sub] >= Best
    \/ \E x \in Returns(h) : x.worker = w /\ x.address = a /\ x.sub = token[h][a].sub

\* What is in a pool of a hub has not been deleted, and is in no other pool.
PoolsHaveTokens ==
  \A h \in Hub :
    /\ \A a \in hubPool[h] : token[h][a] \in Token
    /\ \A w \in DOMAIN transitPool[h] : \A a \in transitPool[h][w] :
         /\ token[h][a] \in Token /\ a \notin hubPool[h]
         /\ \A v \in DOMAIN transitPool[h] : a \in transitPool[h][v] => v = w

(***************************************************************************)
(* hubDistributeWork always has a token to send when its pool has one: the *)
(* null pointer of tokenToSend, "should not happen", does not.             *)
(***************************************************************************)
TokenToSend ==
  \A h \in Hub : ~needPruning[h] => \A a \in hubPool[h] : ~CanFathom(h, token[h][a].sub)

\* All about the addresses of tokens.
AddressInv ==
  /\ NoDanglingToken /\ OneReturn /\ TransitTokensMove /\ PoolsHaveTokens /\ TokenToSend

(***************************************************************************)
(* tokenCount, which decides when data is deleted, is the number of tokens *)
(* outstanding (of a problem that is no better than an incumbent, some may *)
(* have been pruned); a problem that only serves tokens has as many of     *)
(* them as problems to deliver, and one that is worked on has fewer, and   *)
(* none before it is split.                                                *)
(***************************************************************************)
TokensAreCounted ==
  /\ \A s \in Sub : /\ Cardinality(TokensFor(s)) <= tokenCount[s]
                    /\ Bound[s] < Best => Cardinality(TokensFor(s)) = tokenCount[s]
  /\ \A w \in Worker :
       /\ \A s \in serverPool[w] :
            tokenCount[s] = IF s \in separated THEN Cardinality(childrenLeft[s]) ELSE 1
       /\ \A s \in workerPool[w] :
            IF s \in separated THEN tokenCount[s] < Cardinality(childrenLeft[s])
                               ELSE tokenCount[s] = 0

(***************************************************************************)
(* No problem is in two places: work is never done twice.                  *)
(***************************************************************************)
NoDuplicate ==
  \A s \in Sub :
    Cardinality({w \in Worker : s \in workerPool[w]}) +
    Cardinality({w \in Worker : s \in serverPool[w]}) +
    Cardinality({m \in Deliveries : m.sub = s}) <= 1

(***************************************************************************)
(* The counts that the hubs compare to detect termination are right: they  *)
(* balance only when nothing is in a buffer or in a message.               *)
(***************************************************************************)
Adjusting ==
  UNION {{<<h, p, i>> : i \in {j \in DOMAIN hubQueue[h][p] : hubQueue[h][p][j].adjust = 1}} :
         h \in Hub, p \in Worker}

\* Tokens on their way to the worker's own hub, and to another cluster's.
IsNear(o) == o[1] = "buffer" \/ (o[1] = "queue" /\ HubOf[o[4]] = o[3])
IsFar(o)  == o[1] = "queue" /\ HubOf[o[4]] # o[3]

CountsMatchMessages ==
  /\ hubDispatch = Cardinality(network) + Cardinality(Adjusting)
  /\ localScatter = Cardinality({o \in Outstanding : IsNear(o)})
  /\ nonLocalScatter = Cardinality({o \in Outstanding : IsFar(o)})

(***************************************************************************)
(* No solution better than the best incumbent is ever lost: some problem   *)
(* in memory or in a delivery still leads to it.  So when there are no     *)
(* more problems, the incumbent is optimal.                                *)
(***************************************************************************)
LeavesBelow ==
  [s \in Sub |-> {l \in Leaf : \A S \in SUBSET Sub :
                    s \in S /\ (\A t \in S : Children[t] \subseteq S) => l \in S}]

StillToFind ==
  LET held == UNION {workerPool[w] \cup serverPool[w] : w \in Worker}
  IN  (UNION {LeavesBelow[s] : s \in held \ separated})
      \cup (UNION {UNION {LeavesBelow[c] : c \in childrenLeft[s]} : s \in held \cap separated})
      \cup (UNION {LeavesBelow[m.sub] : m \in Deliveries})

NothingLost == \A l \in Leaf : Bound[l] < Best => l \in StillToFind

(***************************************************************************)
(* The subproblems that have been made: the root, and every child that is  *)
(* no longer left.                                                         *)
(***************************************************************************)
Made == {Root} \cup UNION {Children[s] \ childrenLeft[s] : s \in separated}

(***************************************************************************)
(* What may bring s as a whole to a worker that searches it, or has done   *)
(* so: a token for s itself, with the owner of the data in it and the      *)
(* place it is in, a delivery of s, or a worker with s in its pool.        *)
(***************************************************************************)
StandsFor(t, s) == t.self /\ t.sub = s

Promised(tokens, s) == {i \in DOMAIN tokens : StandsFor(tokens[i], s)}

Buffered(s) ==
  UNION {{<<"buffer", outBuffer[w][i].owner, w, i>> : i \in Promised(outBuffer[w], s)} :
         w \in RemoteWorker}

QueuedFrom(s, h, p) ==
  UNION {{<<"queue", hubQueue[h][p][i].tokens[j].owner, h, p, i, j>> :
            j \in Promised(hubQueue[h][p][i].tokens, s)} : i \in DOMAIN hubQueue[h][p]}

Queued(s) == UNION {QueuedFrom(s, h, p) : h \in Hub, p \in Worker}

Pooled(s) ==
  UNION {{<<"hub", token[h][a].owner, h, a>> :
            a \in {b \in hubPool[h] : StandsFor(token[h][b], s)}} : h \in Hub}

Sent(s) ==
  {<<"dispatch", m.token.owner, m>> : m \in {n \in Dispatches : StandsFor(n.token, s)}}
  \cup {<<"delivery", m>> : m \in {n \in Deliveries : n.sub = s}}

Carriers(s) ==
  Buffered(s) \cup Queued(s) \cup Pooled(s) \cup Sent(s)
    \cup {<<"pool", w>> : w \in {v \in Worker : s \in workerPool[v]}}

IsToken(x) == x[1] \in {"buffer", "queue", "hub", "dispatch"}

(***************************************************************************)
(* Why no work is lost or done twice, one part after the other: what each  *)
(* variable is like; a worker that has pruned has nothing to prune; a      *)
(* child left is one of a problem that has been split, and has not been    *)
(* made; whatever is held or carried has been made; only one thing carries *)
(* a problem, and if that is not the pool of a worker it has not been      *)
(* split; and a server has data that nobody but the token for it carries.  *)
(***************************************************************************)
Shapes ==
  /\ incumbent \in [Proc -> Nat] /\ needPruning \in [Proc -> BOOLEAN]
  /\ workerPool \in [Worker -> SUBSET Sub] /\ serverPool \in [Worker -> SUBSET Sub]
  /\ separated \subseteq Sub /\ childrenLeft \in [Sub -> SUBSET Sub]
  /\ tokenCount \in [Sub -> Int]
  /\ outBuffer \in [RemoteWorker -> Seq(Token)] /\ acks \in [RemoteWorker -> Seq(Ack)]
  /\ hubQueue \in [Hub -> [Worker -> Seq(HubMessage)]]
  /\ token \in [Hub -> [Address -> Token \cup {NoToken}]]
  /\ hubPool \in [Hub -> SUBSET Address]
  /\ \A m \in network :
       \/ m \in Delivery
       \/ /\ m \in [type : {"dispatch"}, to : Worker \cup {-1}, token : Token \cup {NoToken},
                     dest : Worker, hub : Hub, address : Address]
          /\ m.to = m.token.owner

PoolsArePruned ==
  \A w \in Worker : ~needPruning[w] => workerPool[w] \subseteq Below(incumbent[w], Sub)

ChildrenAreKept ==
  /\ separated \subseteq Made
  /\ \A s \in Sub : /\ childrenLeft[s] \subseteq Children[s]
                    /\ childrenLeft[s] # {} => s \in separated

OneCarrier ==
  \A s \in Sub :
    /\ \A x, y \in Carriers(s) : x = y
    /\ Carriers(s) # {} => s \in Made
    /\ \A x \in Carriers(s) : /\ s \in separated => x[1] = "pool"
                              /\ IsToken(x) => tokenCount[s] = 1

ServersKeep ==
  \A w \in Worker : \A s \in serverPool[w] :
    /\ s \in Made /\ \A v \in Worker : s \in serverPool[v] => v = w
    /\ \A x \in Carriers(s) : IsToken(x) /\ x[2] = w

SearchInv == /\ Shapes /\ PoolsArePruned /\ ChildrenAreKept /\ OneCarrier /\ ServersKeep
             /\ NothingLost

\* Searching, and the addresses of tokens.
WorkInv == SearchInv /\ AddressInv

(***************************************************************************)
(* What else must hold: tokens point to data that is there and are counted *)
(* where it is, messages are counted where they are sent, and nothing is   *)
(* in two places.                                                          *)
(***************************************************************************)
TokensAreSound ==
  TypeOK /\ NoDanglingSubproblem /\ TokensAreCounted /\ CountsMatchMessages /\ NoDuplicate

(***************************************************************************)
(* A delivery never takes anything out of data that has been deleted: what *)
(* deliverSP follows the pointer to is in one of its owner's pools.        *)
(***************************************************************************)
DeliveriesAreLive ==
  [][\A s \in Sub : tokenCount'[s] < tokenCount[s] =>
       \E w \in Worker : s \in workerPool[w] \cup serverPool[w]]_vars

(***************************************************************************)
(* The search ends: everything is empty, for good.                         *)
(***************************************************************************)
Done ==
  /\ \A w \in Worker : workerPool[w] = {} /\ serverPool[w] = {}
  /\ \A h \in Hub : hubPool[h] = {} /\ \A w \in DOMAIN transitPool[h] : transitPool[h][w] = {}
  /\ network = {}
  /\ \A w \in RemoteWorker : outBuffer[w] = <<>> /\ acks[w] = <<>>
  /\ \A h \in Hub, p \in Worker : hubQueue[h][p] = <<>>

=============================================================================
