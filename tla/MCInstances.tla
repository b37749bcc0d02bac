---------------------------- MODULE MCInstances ----------------------------
(***************************************************************************)
(* Instance of Instances for TLC: two launches of the GUI and a console    *)
(* operator that starts two children.                                      *)
(***************************************************************************)
EXTENDS Instances, TLC

CONSTANTS g1, g2, c1

TwoGuis    == {g1, g2}
OneConsole == {c1}
FewStarts  == g1 :> 0 @@ g2 :> 0 @@ c1 :> 2
=============================================================================
