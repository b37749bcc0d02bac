----------------------------- MODULE MCReleases -----------------------------
(***************************************************************************)
(* Instances of Releases for TLC.                                          *)
(***************************************************************************)
EXTENDS Releases

\* Core and the app have three releases, Enterprise one.
MostlyCore == [e \in Channels |-> IF e = "enterprise" THEN 1 ELSE 3]

CoreByDefault == [edition |-> "core", dev |-> FALSE, skipped |-> 0]
InDevelopment == {[edition |-> "core", dev |-> TRUE, skipped |-> 0]}
=============================================================================
