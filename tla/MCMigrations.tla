---------------------------- MODULE MCMigrations ---------------------------
(***************************************************************************)
(* Instances of Migrations.  Runs are interchangeable.                     *)
(***************************************************************************)
EXTENDS Migrations, TLC

CONSTANTS r1, r2, r3

ThreeRuns == {r1, r2, r3}

Symmetry == Permutations(Runs)
============================================================================
