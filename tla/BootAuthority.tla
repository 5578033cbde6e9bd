---------------------------- MODULE BootAuthority ----------------------------
(***************************************************************************)
(* What the metadata store promises its callers: one authoritative record, *)
(* replaced atomically and at most once per call, whatever fails and       *)
(* whenever the power goes.  Only the answer UNCERTAIN leaves a caller in  *)
(* doubt whether its record took effect.                                   *)
(***************************************************************************)
EXTENDS Naturals

CONSTANTS
  Value,    \* what a record says, opaque to the store
  MaxSeq,   \* the last sequence, UINT32_MAX in the code
  NoCall    \* no replacement in progress

Record == [sequence: 0..MaxSeq, value: Value]

Refusal == {"STALE", "SEQUENCE", "EXHAUSTED", "IO"}
Failure == {"IO", "VERIFY"}

VARIABLES
  auth,     \* the authoritative record
  call,     \* the replacement in progress, [old, new], or NoCall
  answer    \* the answer to the last call

vars == <<auth, call, answer>>

Init ==
  /\ auth \in Record
  /\ call = NoCall
  /\ answer = "none"

(* A load, or a refused replacement, changes nothing.                      *)
Refuse ==
  /\ call = NoCall
  /\ answer' \in Refusal \cup {"OK"}
  /\ UNCHANGED <<auth, call>>

(* A replacement starts only from the record its caller last saw.          *)
Begin ==
  /\ call = NoCall
  /\ \E new \in Record :
       /\ new.sequence = auth.sequence + 1
       /\ call' = [old |-> auth, new |-> new]
  /\ answer' = "none"
  /\ UNCHANGED auth

TakeEffect ==
  /\ call # NoCall
  /\ auth = call.old
  /\ auth' = call.new
  /\ UNCHANGED <<call, answer>>

Answer ==
  /\ call # NoCall
  /\ \/ answer' = "OK" /\ auth = call.new
     \/ answer' \in Failure /\ auth = call.old
     \/ answer' = "UNCERTAIN" /\ auth \in {call.old, call.new}
  /\ call' = NoCall
  /\ UNCHANGED auth

Crash ==
  /\ call' = NoCall
  /\ answer' = "none"
  /\ UNCHANGED auth

Next == Refuse \/ Begin \/ TakeEffect \/ Answer \/ Crash

Spec == Init /\ [][Next]_vars
=============================================================================
