--------------------------- MODULE FetchContract ---------------------------
(***************************************************************************)
(* What HAWebSocketClient.fetch_dashboard_summary promises its two kinds   *)
(* of caller (the tiles fragment and Settings' _run_test), with no sockets *)
(* and no protocol: Home Assistant passes a verdict on the token, answers  *)
(* some of the commands, time passes, and the call returns once, with one  *)
(* of three outcomes that what Home Assistant said must justify.           *)
(***************************************************************************)
EXTENDS Naturals

CONSTANTS
    Budget,        \* ha_fetch_timeout_seconds, in ticks
    CloseTimeout   \* how long the library may spend closing a socket

VARIABLES
    verdict,   \* what Home Assistant said of the token
    answered,  \* the commands it answered with success
    elapsed,   \* ticks since the call
    outcome    \* what the call returned or raised

vars == <<verdict, answered, elapsed, outcome>>

Commands == 1..3

Init == /\ verdict = "none"
        /\ answered = {}
        /\ elapsed = 0
        /\ outcome = "none"

(* Home Assistant, before the call returned: decides once, then answers.   *)
Decide == /\ outcome = "none" /\ verdict = "none"
          /\ verdict' \in {"accepted", "rejected"}
          /\ UNCHANGED <<answered, elapsed, outcome>>

Answer == /\ outcome = "none" /\ verdict = "accepted"
          /\ \E k \in Commands : answered' = answered \cup {k}
          /\ UNCHANGED <<verdict, elapsed, outcome>>

Pass == /\ outcome = "none" /\ elapsed < Budget + CloseTimeout
        /\ elapsed' = elapsed + 1
        /\ UNCHANGED <<verdict, answered, outcome>>

(* A rejected token may be reported as such and nothing else may; a        *)
(* summary needs an accepted token and all three answers; giving up is     *)
(* always allowed.                                                         *)
Justified(o) ==
    \/ o = "HAAuthError" /\ verdict = "rejected"
    \/ o = "HAConnectionError"
    \/ o = "summary" /\ verdict = "accepted" /\ answered = Commands

Return == /\ outcome = "none"
          /\ outcome' \in {"HAAuthError", "HAConnectionError", "summary"}
          /\ Justified(outcome')
          /\ UNCHANGED <<verdict, answered, elapsed>>

Next == Decide \/ Answer \/ Pass \/ Return

Spec == Init /\ [][Next]_vars

(* The call does return, whatever Home Assistant does.                     *)
FairSpec == Spec /\ WF_vars(Return)
============================================================================
