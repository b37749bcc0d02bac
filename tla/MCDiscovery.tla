---------------------------- MODULE MCDiscovery ----------------------------
(***************************************************************************)
(* Instance of Discovery for TLC: two operators one after the other.       *)
(***************************************************************************)
EXTENDS Discovery
=============================================================================
