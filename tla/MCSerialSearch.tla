--------------------------- MODULE MCSerialSearch ---------------------------
(***************************************************************************)
(* Instances of SerialSearch: search trees, and settings of parameters.    *)
(***************************************************************************)
EXTENDS SerialSearch

\* A tree of seven nodes.  The best solution is found last by its bounds; one
\* solution is found at two nodes; one node is infeasible.
Full ==
  [children |-> <<<<2, 3>>, <<4, 5>>, <<6, 7>>, <<>>, <<>>, <<>>, <<>>>>,
   bound    |-> <<1, 1, 2, 4, 3, 2, 99>>,
   measure  |-> <<2, 1, 2, 0, 0, 0, 1>>,
   solution |-> <<None, None, None, "a", "b", "c", None>>,
   below    |-> <<{"a", "b", "c"}, {"a", "b"}, {"c"}, {"a"}, {"b"}, {"c"}, {}>>,
   value    |-> [a |-> 4, b |-> 3, c |-> 2]]

\* Feasible subproblems that have others below them, and equal values.
Nested ==
  [children |-> <<<<2, 3, 4>>, <<5>>, <<6>>, <<>>, <<>>, <<>>>>,
   bound    |-> <<1, 1, 2, 3, 3, 3>>,
   measure  |-> <<3, 2, 0, 1, 0, 2>>,
   solution |-> <<None, None, "a", "b", "b", "c">>,
   below    |-> <<{"a", "b", "c"}, {"b"}, {"a", "c"}, {"b"}, {"b"}, {"c"}>>,
   value    |-> [a |-> 2, b |-> 3, c |-> 3]]

Setting(handler, list, dive, pauses) ==
  [handler |-> handler, pool |-> list, initialDive |-> dive,
   integralityDive |-> FALSE, pauses |-> pauses, stays |-> FALSE,
   aborts |-> FALSE, absTolerance |-> 0, startIncumbent |-> Infinite,
   enumCount |-> -1, enumAbsTol |-> -1, enumCutoff |-> Infinite]

Lazy   == Setting("lazy", "queue", FALSE, TRUE)
Hybrid == Setting("hybrid", "heap", TRUE, TRUE)
Eager  == Setting("eager", "heap", TRUE, FALSE)

MCProblems == {Full, Nested}

\* Each handler alone; each criterion of enumeration, and two together; and
\* the rest of the parameters.
MCParameters ==
  {Lazy, Hybrid, Eager}
  \union {[m EXCEPT !.enumCount = 2] : m \in {Hybrid, Eager}}
  \union {[m EXCEPT !.enumAbsTol = 1] : m \in {Lazy, Eager}}
  \union {[m EXCEPT !.enumAbsTol = 1, !.enumCount = 2] : m \in {Lazy, Hybrid}}
  \union {[Hybrid EXCEPT !.enumCutoff = 4],
          [Hybrid EXCEPT !.pool = "stack", !.absTolerance = 2],
          [Lazy EXCEPT !.pool = "heap", !.initialDive = TRUE,
                       !.integralityDive = TRUE],
          [Hybrid EXCEPT !.pauses = FALSE, !.stays = TRUE, !.startIncumbent = 3],
          [Hybrid EXCEPT !.pauses = FALSE, !.aborts = TRUE],
          [Eager EXCEPT !.pauses = TRUE]}

=============================================================================
