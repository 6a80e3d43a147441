--------------------------- MODULE BranchAndBound ---------------------------
(***************************************************************************)
(* What PEBBL's search promises of the solutions it is asked for, however  *)
(* it orders, bounds and splits its subproblems: the best one, up to the   *)
(* tolerances, or all those that meet the criteria of enumeration.         *)
(***************************************************************************)
VARIABLES
  solutions,   \* all feasible solutions
  remaining,   \* those the search would still come across
  kept,        \* those it has stored
  refused,     \* those the criteria rule out, by what has been found
  outcome

vars == <<solutions, remaining, kept, refused, outcome>>

\* A solution is dropped only if the criteria rule it out.
NothingWantedIsLost == solutions \subseteq remaining \union kept \union refused

Init == /\ remaining \subseteq solutions /\ kept \subseteq solutions
        /\ outcome = "searching"
        /\ NothingWantedIsLost

\* The search goes on.  Once something has been examined the criteria never
\* become wider, but what they rule out may be stored if it is come across.
Explore ==
  /\ outcome = "searching" /\ outcome' \in {"searching", "aborted"}
  /\ remaining' \subseteq remaining
  /\ kept' \subseteq solutions
  /\ remaining # solutions => refused \subseteq refused' \union kept'
  /\ solutions' = solutions
  /\ NothingWantedIsLost'

\* It ends when nothing remains and all that is stored meets the criteria.
Finish ==
  /\ outcome = "searching" /\ outcome' = "finished"
  /\ remaining = {} /\ kept \intersect refused = {}
  /\ UNCHANGED <<solutions, remaining, kept, refused>>

Spec == Init /\ [][Explore \/ Finish]_vars /\ <>(outcome # "searching")

=============================================================================
