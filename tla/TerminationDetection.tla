------------------------ MODULE TerminationDetection ------------------------
(***************************************************************************)
(* What PEBBL's load balancing threads promise of their termination check: *)
(* they stop the search only when it is over, and if it is over they do.   *)
(***************************************************************************)
VARIABLES
  over,      \* nothing is left to be done, and never will be again
  detected   \* some hub has decided to terminate

vars == <<over, detected>>

Init == over \in BOOLEAN /\ detected = FALSE

Finish == ~over /\ over' = TRUE /\ UNCHANGED detected

Detect == over /\ ~detected /\ detected' = TRUE /\ UNCHANGED over

Next == Finish \/ Detect

Spec == Init /\ [][Next]_vars /\ WF_vars(Detect)

=============================================================================
