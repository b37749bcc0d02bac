------------------------- MODULE MCOperatorLifecycle -------------------------
(***************************************************************************)
(* Instance of OperatorLifecycle for TLC.                                  *)
(***************************************************************************)
EXTENDS OperatorLifecycle
=============================================================================
