--------------------------- MODULE MCRollingCounter ---------------------------
(***************************************************************************)
(* RollingCounter with two buckets over three laps: a bucket is reused     *)
(* twice, so that a task can be a lap behind.                              *)
(***************************************************************************)
EXTENDS RollingCounter, TLC

Symmetry == Permutations(Incrs)
=============================================================================
