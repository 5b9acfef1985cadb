------------------------------ MODULE MCDbPool -----------------------------
(***************************************************************************)
(* Instances of DbPool.  A tick is ten seconds: a fetch is over after the  *)
(* ten of its budget and the ten of a slow close, a checkout gives up      *)
(* after thirty.                                                           *)
(***************************************************************************)
EXTENDS DbPool, TLC

CONSTANTS r1, r2, r3, r4, r5

ThreeRequests == {r1, r2, r3}
FiveRequests == {r1, r2, r3, r4, r5}
OneConnection == 1
TwoConnections == 2
ThirtySeconds == 3
TwentySeconds == 2

Symmetry == Permutations(Requests)
============================================================================
