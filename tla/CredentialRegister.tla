------------------------- MODULE CredentialRegister ------------------------
(***************************************************************************)
(* What the ha_credential table promises, seen from outside: per user, at  *)
(* most one pair of host and token, replaced whole by a pair that Home     *)
(* Assistant accepted for that user, and gone with the user.               *)
(***************************************************************************)
CONSTANTS Users, Pairs

VARIABLES
    stored,    \* the pairs stored for each user
    verified   \* the pairs Home Assistant accepted from each user

vars == <<stored, verified>>

Init == /\ stored = [u \in Users |-> {}]
        /\ verified = {}

Verify(u, p) == /\ verified' = verified \cup {<<u, p>>}
                /\ UNCHANGED stored

Put(u, p) == /\ <<u, p>> \in verified
             /\ stored' = [stored EXCEPT ![u] = {p}]
             /\ UNCHANGED verified

Forget(u) == /\ stored' = [stored EXCEPT ![u] = {}]
             /\ UNCHANGED verified

Next == \E u \in Users : \/ \E p \in Pairs : Verify(u, p) \/ Put(u, p)
                         \/ Forget(u)

Spec == Init /\ [][Next]_vars
============================================================================
