----------------------------- MODULE MCProcessor -----------------------------
(***************************************************************************)
(* Three parts of a processor that do not depend on one another, each in a *)
(* small instance; a behaviour is of one of them.  This module extends     *)
(* RampUp, and has instances of the scheduler and of the send buffers.     *)
(***************************************************************************)
EXTENDS RampUp

VARIABLES
  part,   \* "schedule", "send" or "start"
  \* of Scheduler, where the phase is the stage:
  stage, first, second, algBlockedList, deadList, interrupts, requests,
  priority, lastReset, posted, matched, unexpected, messages, blocks, last,
  \* of SendBuffers:
  buffer, segmentsUsed, firstProc, nextProc, prevProc, heap, completed,
  knownBufferSize, bufferSize, received, written

scheduleVars == <<stage, first, second, algBlockedList, deadList, interrupts,
                  requests, priority, lastReset, posted, matched, unexpected,
                  messages, blocks, last>>
sendVars  == <<buffer, segmentsUsed, firstProc, nextProc, prevProc, heap,
               completed, knownBufferSize, bufferSize, received, written>>
MCvars    == <<part, scheduleVars, sendVars, vars>>

-----------------------------------------------------------------------------
(***************************************************************************)
(* Two threads that listen for the same tag; one with another tag, that    *)
(* may also block, as the load balancer does; one with a third; and two    *)
(* that compute, one of which blocks at times, as the incumbent heuristic  *)
(* does.                                                                   *)
(***************************************************************************)
Tags == ("receiver" :> 1) @@ ("second" :> 1) @@ ("balancer" :> 2) @@ ("server" :> 3)

Outcomes ==
  ("receiver" :> {"waiting"}) @@ ("second" :> {"waiting"}) @@ ("server" :> {"waiting"}) @@
  ("balancer" :> {"waiting", "blocked"}) @@
  ("worker" :> {"ready"}) @@ ("heuristic" :> {"ready", "blocked", "stop"})

Scheduling == INSTANCE Scheduler WITH
  phase <- stage,
  Listener <- DOMAIN Tags, Compute <- {"worker", "heuristic"},
  Tag <- Tags, Outcome <- Outcomes,
  Pace <- [t \in {"worker", "heuristic"} |-> 1], MaxProcPriority <- 2,
  MaxMessages <- 3, MaxBlocks <- 1

\* Three receivers, the least number with a list that is cut in the middle.
Sending == INSTANCE SendBuffers WITH
  Dest <- {1, 2, 3}, Size <- {1, 4}, MaxSegments <- 2, ScavengeSize <- 1,
  SPReceiveBuf <- 5, MaxWritten <- 4

\* Ramp-up on all clusters of up to five processors.
UpToFive ==
  {s \in [1 .. 3 -> 1 .. 5] \X {2, 3} : s[1][2] <= s[1][1] /\ s[1][3] <= s[1][1]}

ASSUME /\ Scheduling!SchedulerAssumption /\ Sending!BufferAssumption
       /\ RampUpAssumption

-----------------------------------------------------------------------------
\* What is not part of a behaviour is at rest.
MCInit ==
  /\ part \in {"schedule", "send", "start"}
  /\ Scheduling!Init /\ Sending!Init
  /\ IF part = "start" THEN Init ELSE InitFor(<< <<1, 1, 1>>, 2 >>)

Schedule == part = "schedule" /\ Scheduling!Next /\ UNCHANGED <<sendVars, vars>>

SendSome == part = "send" /\ Sending!Next /\ UNCHANGED <<scheduleVars, vars>>

StartUp == part = "start" /\ Next /\ UNCHANGED <<scheduleVars, sendVars>>

MCNext == part' = part /\ (Schedule \/ SendSome \/ StartUp)

MCSpec ==
  MCInit /\ [][MCNext]_MCvars /\ WF_scheduleVars(part = "schedule" /\ Scheduling!Loop)

-----------------------------------------------------------------------------
\* Every thread is in one place, and a message finds its thread.
NobodyIsForgotten == Scheduling!NobodyIsForgotten

\* Messages are handled, and what can compute does.
EverybodyRuns == part = "schedule" => Scheduling!EverybodyRuns

\* Nothing that is sent is lost, repeated or overwritten, and no message is too
\* long for its receiver.
MessagesAreKept == Sending!SegmentsAreKept /\ Sending!MessagesFit

=============================================================================
