---------------------------- MODULE MCCheckpoint ----------------------------
(***************************************************************************)
(* A cluster of two processors, killed once and restarted with one, two or *)
(* three; a root with two children that are solutions.  The third          *)
(* processor is the hub of a cluster of its own.                           *)
(***************************************************************************)
EXTENDS Checkpoint, TLC

Tree     == 1 :> {2, 3} @@ 2 :> {} @@ 3 :> {}
TreeBound == 1 :> 0 @@ 2 :> 1 @@ 3 :> 1

=============================================================================
