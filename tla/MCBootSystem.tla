---------------------------- MODULE MCBootSystem ----------------------------
(* BootSystem with two images.                                             *)
(*  - Safety: nine sequences, enough for an upload that is confirmed and   *)
(*    for one that is rejected after three failures, each followed by      *)
(*    another upload; payloads of two words, so that one can be half       *)
(*    written; power-on, watchdog and software resets, of which the first  *)
(*    erases the causes before it, the second counts and the third leaves  *)
(*    them; slot A may decay.  One image that slot B can hold was built    *)
(*    for slot A, and so permits the slot it runs from.                    *)
(*  - Recovery, under fairness: one image for each slot, one payload word, *)
(*    watchdog resets only (a power-on reset erases the causes before it,  *)
(*    and could do so every time), no decay.                               *)
EXTENDS BootSystem

Peer(s) == IF s = "A" THEN "B" ELSE "A"
BuiltForPeer == [m \in Manifest |-> Peer(m.slot)]

(* One of the images for slot B was built as one for slot A.               *)
Odd == CHOOSE i \in Image : TRUE
OneMisbuilt == [BuiltForPeer EXCEPT ![[slot |-> "B", image |-> Odd]] = "B"]
=============================================================================
