---------------------------- MODULE MCTermination ----------------------------
(***************************************************************************)
(* Small systems.  TwoHubs: 0 is hub and worker alone, 1 is a hub that     *)
(* does not work and has worker 2.                                         *)
(* FourWorkers: four workers of a hub that does not work, the least number *)
(* at which a broadcast can look complete before it is.                    *)
(***************************************************************************)
EXTENDS Termination, TLC

TwoHubs     == (0 :> 0) @@ (2 :> 1)
FourWorkers == [w \in 1 .. 4 |-> 0]

\* One problem is left when ramp-up ends, at processor 0 or at processor 1.
AtHub    == [w \in Worker |-> IF w = 0 THEN 1 ELSE 0]
AtWorker == [w \in Worker |-> IF w = 1 THEN 1 ELSE 0]

Supposed(releases, finders, inOrder) ==
  [releases |-> releases, finders |-> finders, inOrder |-> inOrder]

\* With messages in order; in any order, with more that is released.
Orders    == {Supposed(1, Worker, TRUE), Supposed(2, {2}, FALSE)}
Found     == {Supposed(0, Worker, TRUE)}
StaleView == {Supposed(2, {}, FALSE)}

\* Liveness is for messages that stay in order.
OrderFairness ==
  /\ \A p \in Proc : SF_vars(scenario.inOrder /\ Act(p))
  /\ \A w \in RemoteWorker : /\ WF_vars(scenario.inOrder /\ PollReply(w))
                             /\ WF_vars(scenario.inOrder /\ HandleReply(w))
  /\ \A h \in Hub : WF_vars(scenario.inOrder /\ Balance(h))

OrderSpec == Init /\ [][Next]_vars /\ OrderFairness

\* Termination is declared only at the end, and by all hubs, in any order.
TerminationIsAgreed == TerminationIsReal /\ HubsAgree

\* With reports in order a hub's view of a worker does not stay wrong ...
OrderedViewIsCurrent == scenario.inOrder => ViewIsCurrent

\* ... and every search comes to its end.
OrderedTerminates == scenario.inOrder => EventuallyTerminated

\* The load balancing threads implement termination detection, up to its
\* liveness, which is that of OrderedTerminates.
ThreadsDetect == Detection!Init /\ [][Detection!Next]_Detection!vars

=============================================================================
