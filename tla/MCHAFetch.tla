----------------------------- MODULE MCHAFetch -----------------------------
(***************************************************************************)
(* A small instance of HAFetch.  Three ticks of budget let the timer meet  *)
(* every await, the close included, and two of CloseTimeout let a close    *)
(* both end and be abandoned; two unread messages are enough for a         *)
(* duplicate or an answer that comes early.                                *)
(***************************************************************************)
EXTENDS HAFetchProofs

ThreeTicks == 3
TwoTicks == 2
TwoMessages == 2
============================================================================
