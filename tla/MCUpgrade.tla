----------------------------- MODULE MCUpgrade -----------------------------
(***************************************************************************)
(* Instance of Upgrade for TLC.                                            *)
(***************************************************************************)
EXTENDS Upgrade

\* Core is ahead of Enterprise.
CoreAhead == [e \in Editions |-> IF e = "core" THEN 2 ELSE 1]
=============================================================================
