-------------------------- MODULE MCDiagPublication --------------------------
(* DiagPublication with two values for every field.                        *)
EXTENDS DiagPublication
=============================================================================
