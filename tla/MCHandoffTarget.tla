-------------------------- MODULE MCHandoffTarget ---------------------------
(***************************************************************************)
(* The handoff to either slot, from every inherited state.                 *)
(***************************************************************************)
EXTENDS HandoffTarget
=============================================================================
