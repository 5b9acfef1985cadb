----------------------- MODULE MCCredentialRequests ------------------------
(***************************************************************************)
(* Instances of CredentialRequests.  A form is a host with its own token:  *)
(* a row that mixes two saves holds a pair that is not a form.             *)
(***************************************************************************)
EXTENDS CredentialRequestsProofs, TLC

CONSTANTS r1, r2, r3, u1, u2, h1, h2, t1, t2, i1, i2, k1, k2

TwoRequests == {r1, r2}
ThreeRequests == {r1, r2, r3}
EveryKind == Kinds
OnlyTests == {"test", "save"}
SavesAndTiles == {"save", "tiles"}
OneUser == {u1}
TwoUsers == {u1, u2}
TwoHosts == {h1, h2}
TwoTokens == {t1, t2}
OneForm == {[host |-> h1, token |-> t1]}
TwoForms == {[host |-> h1, token |-> t1], [host |-> h2, token |-> t2]}
OneInstance == {i1}
OneKey == {k1}
TwoKeys == {k1, k2}
NoTick == 0
OneTick == 1

(* Requests, users, instances, keys and forms are interchangeable: no      *)
(* property names one, and no liveness is checked under symmetry.          *)
SwapForms == (h1 :> h2) @@ (h2 :> h1) @@ (t1 :> t2) @@ (t2 :> t1)
Symmetry == Permutations(Requests) \cup Permutations(Users) \cup {SwapForms}
                \cup Permutations(Instances) \cup Permutations(Keys)
============================================================================
