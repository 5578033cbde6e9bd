------------------------------ MODULE MCNetIf -------------------------------
(***************************************************************************)
(* The network interface on a small controller: frames of one or two       *)
(* words, a FIFO that holds a few of them, two frames a turn.              *)
(***************************************************************************)
EXTENDS NetIf
=============================================================================
