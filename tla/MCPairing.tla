----------------------------- MODULE MCPairing -----------------------------
(***************************************************************************)
(* Instance of Pairing for TLC: two containers of COSMOS and one of        *)
(* another project. One that is found running is an hour old, or two years.*)
(***************************************************************************)
EXTENDS Pairing

MCAges == [c \in Own \cup Others |-> IF c = "api" THEN 70000000 ELSE 3600]
=============================================================================
