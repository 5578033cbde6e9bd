--------------------------- MODULE MCProtectedBoot ---------------------------
(* A boot of two one- or two-chunk slots and some turns of the owner.      *)
EXTENDS ProtectedBoot
=============================================================================
