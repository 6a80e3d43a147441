------------------------------ MODULE Scheduler ------------------------------
(***************************************************************************)
(* The scheduler of each processor (sched/Scheduler.cpp, ThreadQueue.cpp). *)
(* Its threads are coroutines: one runs until it returns.  A thread that   *)
(* returns may be ready again, be blocked until something changes, or wait *)
(* for a message with its tag (messageTriggeredPBThread).  Ready threads   *)
(* queue in groups: the first, which comes first, goes round and round;    *)
(* the second one is ordered by the time its threads have used.            *)
(***************************************************************************)
EXTENDS Integers, Sequences, FiniteSets, SequencesExt

CONSTANTS
  Listener, Compute,   \* threads of the first and of the second group
  Tag,                 \* the tag each listener waits for
  Outcome,             \* how a run of each thread may leave it
  Pace,                \* what a unit of time adds to a priority: 1 / bias
  MaxProcPriority,     \* at which all priorities are reset
  MaxMessages, MaxBlocks  \* bounds: messages, and runs that end blocked

Thread == Listener \cup Compute
Tags   == {Tag[t] : t \in Listener}

SchedulerAssumption ==
  /\ Listener \cap Compute = {} /\ DOMAIN Tag = Listener
  /\ Outcome \in [Thread -> SUBSET {"ready", "blocked", "waiting", "stop"}]
  /\ \A t \in Compute : "waiting" \notin Outcome[t]
  /\ Pace \in [Compute -> Nat \ {0}] /\ MaxProcPriority \in Nat \ {0}
  /\ {MaxMessages, MaxBlocks} \subseteq Nat

VARIABLES
  phase,        \* of the scheduler's loop: "wake" or "run"
  first, second,   \* the two groups' queues of ready threads
  algBlockedList, deadList,
  interrupts,   \* [Tags -> queue of waiting threads]
  requests,     \* the array of requests: the tag and the thread of each
  priority, lastReset,  \* of the threads that compute
  posted,       \* [Tags -> threads whose receives no message has matched]
  matched,      \* threads that have been sent a message and not handled it
  unexpected,   \* [Tags -> messages that have come before a receive]
  messages, blocks,     \* counted for the bounds
  last          \* the thread that has run last (history)

queues == <<first, second, algBlockedList, deadList, interrupts, requests>>
clock  == <<priority, lastReset>>
mpi    == <<posted, matched, unexpected>>
vars   == <<phase, queues, clock, mpi, messages, blocks, last>>

-----------------------------------------------------------------------------
(***************************************************************************)
(* Priorities.  Only the order of the times of resets matters, so a time   *)
(* is replaced by the number of earlier ones.                              *)
(***************************************************************************)
Ranked(times) ==
  [t \in Compute |-> Cardinality({times[u] : u \in {v \in Compute : times[v] < times[t]}})]

Now == Cardinality(Compute)

\* A ready thread goes behind those with the same priority.
InOrderOf(q, t, pr) ==
  LET n == Cardinality({i \in DOMAIN q : pr[q[i]] <= pr[t]})
  IN  InsertAt(q, n + 1, t)

\* ThreadQueue::unblock: a thread that returns is not to be ahead of the rest
\* for the time it has been away; if it has missed a reset, it is reset.
Unblocked(c, t) ==
  IF c.second = <<>> THEN c
  ELSE LET h == Head(c.second)
       IN  IF c.lastReset[h] > c.lastReset[t]
           THEN [c EXCEPT !.priority[t] = @ - MaxProcPriority,
                          !.lastReset = Ranked([@ EXCEPT ![t] = Now])]
           ELSE [c EXCEPT !.priority[t] = IF @ < c.priority[h]
                                          THEN c.priority[h] ELSE @]

\* What may be woken: the queues, and the priorities.
Queues == [first |-> first, second |-> second, interrupts |-> interrupts,
           requests |-> requests, priority |-> priority, lastReset |-> lastReset]

\* insert, for a thread that has become ready.
Ready(c, t) ==
  IF t \in Listener THEN [c EXCEPT !.first = Append(@, t)]
  ELSE LET u == Unblocked(c, t)
       IN  [u EXCEPT !.second = InOrderOf(@, t, u.priority)]

SetQueues(to) == \E c \in {to} :
  /\ first' = c.first /\ second' = c.second /\ interrupts' = c.interrupts
  /\ requests' = c.requests /\ priority' = c.priority /\ lastReset' = c.lastReset

-----------------------------------------------------------------------------
\* At the start threads that can compute are ready and the others listen.
Init ==
  /\ phase = "wake"
  /\ first = <<>> /\ second = SetToSeq(Compute)
  /\ algBlockedList = <<>> /\ deadList = {}
  /\ interrupts = [m \in Tags |-> SetToSeq({t \in Listener : Tag[t] = m})]
  /\ requests = LET order == SetToSeq(Tags)
                IN  [i \in DOMAIN order |-> [tag |-> order[i],
                                             thread |-> Head(interrupts[order[i]])]]
  /\ posted = interrupts /\ matched = {} /\ unexpected = [m \in Tags |-> 0]
  /\ priority = [t \in Compute |-> 0] /\ lastReset = [t \in Compute |-> 0]
  /\ messages = 0 /\ blocks = 0 /\ last = "none"

\* A message comes in at any time, for the receive that was posted first.
Arrive(m) ==
  /\ messages < MaxMessages /\ messages' = messages + 1
  /\ IF posted[m] # <<>>
     THEN /\ matched' = matched \cup {Head(posted[m])}
          /\ posted' = [posted EXCEPT ![m] = Tail(@)]
          /\ UNCHANGED unexpected
     ELSE /\ unexpected' = [unexpected EXCEPT ![m] = @ + 1]
          /\ UNCHANGED <<posted, matched>>
  /\ UNCHANGED <<phase, queues, clock, blocks, last>>

\* Mutant: the array only gets shorter.
Shortened(reqs, i) == Front(reqs)

\* The last request of the array takes the place of one that is removed.
WithoutRequest(reqs, i) == Front([reqs EXCEPT ![i] = reqs[Len(reqs)]])

\* Mutant: the request of a thread that also waits is not put there.
Dropped(reqs, i, rest) == WithoutRequest(reqs, i)

RequestsAfter(reqs, i, rest) ==
  IF rest # <<>> THEN [reqs EXCEPT ![i].thread = Head(rest)] ELSE WithoutRequest(reqs, i)

\* One completed request: the first thread that waits for its tag wakes up, and
\* the next one's request takes its place.
Woken(c, i) ==
  LET m    == c.requests[i].tag
      rest == Tail(c.interrupts[m])
  IN  Ready([c EXCEPT !.interrupts[m] = rest,
                      !.requests = RequestsAfter(@, i, rest)],
            Head(c.interrupts[m]))

\* The array is gone through backwards, so that what fills a gap has been
\* looked at.
LoopOrder(done) == SetToSortSeq(done, >)

\* The first part of the loop wakes blocked threads whose state has changed, in
\* the order of their list; check_waiting_threads then goes through the requests
\* that testsome gives as completed, in their order.
Wake ==
  /\ phase = "wake" /\ phase' = "run"
  /\ \E awake \in SUBSET ToSet(algBlockedList) :
       /\ SetQueues(FoldLeft(Woken,
            FoldLeft(Ready, Queues, SelectSeq(algBlockedList, LAMBDA t : t \in awake)),
            LoopOrder({i \in DOMAIN requests : requests[i].thread \in matched})))
       /\ algBlockedList' = SelectSeq(algBlockedList, LAMBDA t : t \notin awake)
  /\ UNCHANGED <<deadList, mpi, messages, blocks, last>>

\* update_priority, with a reset of the whole queue if the limit is reached.
Charged(t, time) ==
  LET full == priority[t] >= MaxProcPriority
      all  == {t} \cup ToSet(second)
      base == [u \in Compute |-> IF full /\ u \in all
                                 THEN priority[u] - MaxProcPriority ELSE priority[u]]
  IN  /\ priority' = [base EXCEPT ![t] = @ + time * Pace[t]]
      /\ lastReset' = IF ~full THEN lastReset
                      ELSE Ranked([u \in Compute |-> IF u \in all THEN Now
                                                     ELSE lastReset[u]])

\* A run of a thread of the second group, which takes some time.
RunCompute(t, how) ==
  /\ \E time \in {1, 2} : Charged(t, time)
  /\ second' = IF how = "ready" THEN InOrderOf(Tail(second), t, priority')
                                ELSE Tail(second)
  /\ UNCHANGED <<first, interrupts, requests, mpi>>

\* A run of a thread of the first group.  It deals with its message and all
\* others that have come, and if it goes on listening posts a receive.
RunListener(t, how) ==
  /\ first' = IF how = "ready" THEN Append(Tail(first), t) ELSE Tail(first)
  /\ matched' = matched \ {t}
  /\ IF how = "waiting"
     THEN /\ posted' = [posted EXCEPT ![Tag[t]] = Append(@, t)]
          /\ unexpected' = [unexpected EXCEPT ![Tag[t]] = 0]
          /\ interrupts' = [interrupts EXCEPT ![Tag[t]] = Append(@, t)]
          /\ requests' = IF interrupts[Tag[t]] # <<>> THEN requests
                         ELSE Append(requests, [tag |-> Tag[t], thread |-> t])
     ELSE UNCHANGED <<posted, unexpected, interrupts, requests>>
  /\ UNCHANGED <<second, clock>>

\* The last part of the loop: the head of the first group that has any.
RunThread ==
  /\ phase = "run" /\ phase' = "wake" /\ messages' = messages
  /\ IF first \o second = <<>>
     THEN UNCHANGED <<queues, clock, mpi, blocks, last>>
     ELSE LET t == Head(first \o second)
          IN  \E how \in Outcome[t] :
                /\ IF t \in Compute THEN RunCompute(t, how) ELSE RunListener(t, how)
                /\ algBlockedList' = IF how = "blocked" THEN Append(algBlockedList, t)
                                                        ELSE algBlockedList
                /\ blocks' = IF how = "blocked" THEN blocks + 1 ELSE blocks
                /\ blocks' <= MaxBlocks
                /\ deadList' = IF how = "stop" THEN deadList \cup {t} ELSE deadList
                /\ last' = t

Loop == Wake \/ RunThread

Next == Loop \/ \E m \in Tags : Arrive(m)

\* The scheduler is one loop.
Spec == Init /\ [][Next]_vars /\ WF_vars(Loop)

-----------------------------------------------------------------------------
(***************************************************************************)
(* Properties.                                                             *)
(***************************************************************************)
Everywhere == first \o second \o algBlockedList \o SetToSeq(deadList)
                \o FlattenSeq(SetToSeq({interrupts[m] : m \in Tags} \ {<<>>}))

\* Every thread is in one place, and is found there: among the requests there
\* is exactly one for each tag that threads wait for, that of the first of
\* them, who is also the first to be sent a message.  A thread that listens is
\* only run when a message has come for it, or when it has been blocked.  The
\* array of requests is compacted while it is gone through.
NobodyIsForgotten ==
  /\ Len(Everywhere) = Cardinality(Thread) /\ ToSet(Everywhere) = Thread
  /\ Len(requests) = Cardinality({m \in Tags : interrupts[m] # <<>>})
  /\ \A m \in Tags : interrupts[m] # <<>> =>
       /\ \E i \in DOMAIN requests : requests[i] = [tag |-> m, thread |-> Head(interrupts[m])]
       /\ interrupts[m] = SelectSeq(interrupts[m], LAMBDA t : t \in matched) \o posted[m]
  /\ \A i \in DOMAIN first : first[i] \in matched \/ "blocked" \in Outcome[first[i]]

\* Every message that has come for a thread is handled, unless the thread has
\* stopped, and what is ready to compute runs again and again.
EverybodyRuns ==
  /\ \A t \in Listener : t \in matched ~> t \notin matched \/ t \in deadList
  /\ \A t \in Compute : Outcome[t] = {"ready"} => []<>(last = t)

=============================================================================
