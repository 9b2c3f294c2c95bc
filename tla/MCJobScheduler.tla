---------------------------- MODULE MCJobScheduler ----------------------------
(* Small instances of JobScheduler: replica i1 with two sessions in its     *)
(* pool, replica i2 with one.                                               *)
EXTENDS JobScheduler, TLC

CONSTANTS i1, i2, c1, c2, c3, r1, r2

TwoPools == c1 :> i1 @@ c2 :> i1 @@ c3 :> i2

Symmetry == Permutations(Run)
=============================================================================
