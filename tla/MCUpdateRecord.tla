--------------------------- MODULE MCUpdateRecord ---------------------------
(* UpdateRecord with two image identities.  Nine sequences are enough for a *)
(* complete rejected trial (empty the slot, accept, trial, deadline, three  *)
(* failures) and for emptying the slot again, and for reaching the last     *)
(* sequence at every step of an upload.  Images are interchangeable.        *)
EXTENDS TrialHistory, TLC

ImageSymmetry == Permutations(Image)
=============================================================================
