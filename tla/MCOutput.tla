------------------------------ MODULE MCOutput -------------------------------
(* A service that prints a few lines and dies once.                        *)
EXTENDS Output

=============================================================================
