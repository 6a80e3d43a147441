---------------------------- MODULE MCRepository ----------------------------
(***************************************************************************)
(* Three processors in a chain of merging.  The hypercube is incomplete:   *)
(* 1 and 2 reach each other by way of 0.                                   *)
(***************************************************************************)
EXTENDS Repository, TLC

CONSTANTS s1, s2, s3

MCValue == (s1 :> 3) @@ (s2 :> 2) @@ (s3 :> 2)
MCOwner == (s1 :> 2) @@ (s2 :> 2) @@ (s3 :> 0)

Setting(count, tolerance, control, finders) ==
  [enumCount |-> count, enumAbsTol |-> tolerance, enumFlowControl |-> control,
   finders |-> finders]

\* All solutions belong to one processor, where the best two are kept.
OneOwner == [s \in Solution |-> 2]
BestTwo  == {Setting(2, -1, FALSE, Worker)}
MCParameters ==
  {Setting(2, -1, FALSE, Worker), Setting(2, -1, TRUE, {0, 1}),
   Setting(-1, 0, TRUE, Worker)}

=============================================================================
