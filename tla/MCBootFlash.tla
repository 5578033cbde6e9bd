---------------------------- MODULE MCBootFlash -----------------------------
(***************************************************************************)
(* Two clients, a metadata page, and a slot of a manifest page and one     *)
(* payload page.                                                           *)
(***************************************************************************)
EXTENDS BootFlash, TLC

CONSTANTS meta, manifest, payload
MetaValue == {meta}
PagesValue == <<manifest, payload>>
ClientSymmetry == Permutations(Client)
=============================================================================
