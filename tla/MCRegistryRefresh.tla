-------------------------- MODULE MCRegistryRefresh ------------------------
(***************************************************************************)
(* An instance of RegistryRefresh in which the Host publishes three lists: *)
(* enough for an answer to be overtaken by a newer list while it is on its *)
(* way, and for the newer one to be overtaken in turn.                     *)
(***************************************************************************)
EXTENDS RegistryRefreshProofs

ThreeLists == 3
============================================================================
