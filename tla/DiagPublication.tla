--------------------------- MODULE DiagPublication ---------------------------
(***************************************************************************)
(* The diagnostic record in SRAM: boot_diag_publication.c over the codec of *)
(* boot_diag.c.  The block survives a reset and is read by the firmware,   *)
(* and by a debugger that may halt the processor between any two stores.   *)
(* So it is written word by word between two stores of its validity word.  *)
(* A store may fail with or without effect, and a reset may come at any    *)
(* step.                                                                   *)
(*                                                                         *)
(* A record is what differs between the records the code publishes: the    *)
(* stage, the captured reset flags and the health.  The words that are the *)
(* same in all of them are two words of the block, the header and the rest.*)
(* The calls are serialized (lock refuses a second one), and what fails    *)
(* before the first store changes nothing.                                 *)
(***************************************************************************)
EXTENDS Naturals

CONSTANTS
  Stage, Flags, Health,   \* the values of the three fields
  RESET,                  \* BOOT_DIAG_STAGE_RESET
  NONE,                   \* no health reported
  Junk                    \* what SRAM holds at power-on, in one word

ASSUME FieldsAssumption == RESET \in Stage /\ NONE \in Health

VARIABLES
  block,      \* the words other than validity, in the order they are written
  validity,   \* the validity word: 0 staging, 1 published, or Junk
  associated, \* the owner trusts the block
  store,      \* where publish is
  next,       \* the word it writes next
  candidate,  \* the record it publishes
  current     \* history: the last record whose publication took effect

vars == <<block, validity, associated, store, next, candidate, current>>

Record == [stage: Stage, flags: Flags, health: Health]

(* boot_diag_encode and boot_diag_decode.  Any flags word is valid.        *)
Words == 1..5
Image(r) ==
  [i \in Words |-> CASE i = 1 -> "header"
                     [] i = 2 -> r.stage
                     [] i = 3 -> r.flags
                     [] i = 4 -> r.health
                     [] i = 5 -> "rest"]

Decodes(words) ==
  /\ words[1] = "header" /\ words[2] \in Stage /\ words[4] \in Health
  /\ words[5] = "rest"

Decoded(words) == [stage |-> words[2], flags |-> words[3], health |-> words[4]]

Published == validity = 1 /\ Decodes(block)

(* boot_diag_init                                                          *)
InitialRecord(flags) == [stage |-> RESET, flags |-> flags, health |-> NONE]

(* What the words can hold: a record's words or garbage.                   *)
WordValue(i) ==
  CASE i = 1 -> {"header", Junk}
    [] i = 2 -> Stage \cup {Junk}
    [] i = 3 -> Flags
    [] i = 4 -> Health \cup {Junk}
    [] i = 5 -> {"rest", Junk}

Block == {words \in [Words -> UNION {WordValue(i) : i \in Words}] :
            \A i \in Words : words[i] \in WordValue(i)}

TypeOK ==
  /\ block \in Block
  /\ validity \in {0, 1, Junk}
  /\ associated \in BOOLEAN
  /\ store \in {"idle", "invalidate", "write", "commit"}
  /\ next \in Words
  /\ candidate \in Record /\ current \in Record

(* Power-on: SRAM holds anything, perhaps a record.                        *)
Init ==
  /\ block \in Block /\ validity \in {0, 1, Junk}
  /\ associated = FALSE /\ store = "idle" /\ next = 1
  /\ current \in Record
  /\ Decodes(block) => current = Decoded(block)
  /\ candidate = current

-----------------------------------------------------------------------------
(* The calls                                                               *)

Publish(r) ==
  /\ store = "idle" /\ store' = "invalidate"
  /\ candidate' = r /\ next' = 1
  /\ UNCHANGED <<block, validity, associated, current>>

(* boot: replaces whatever the block holds.                                *)
Boot == \E flags \in Flags : Publish(InitialRecord(flags))

(* progress: only over a block the owner is associated with, and only the  *)
(* stage and the health change.                                            *)
Progress ==
  /\ associated /\ Published
  /\ \E stage \in Stage, health \in Health :
       Publish([Decoded(block) EXCEPT !.stage = stage, !.health = health])

(* adopt, with a trusted context: the block is read, never written.        *)
Adopt ==
  /\ store = "idle" /\ Published
  /\ associated' = TRUE
  /\ UNCHANGED <<block, validity, store, next, candidate, current>>

-----------------------------------------------------------------------------
(* publish, one step for each store                                        *)

\* Faulty variant: the words are replaced under the old validity.
InvalidateSkipped ==
  /\ store = "invalidate" /\ store' = "write"
  /\ associated' = FALSE
  /\ UNCHANGED <<block, validity, next, candidate, current>>

(* A store that fails, with or without effect, ends the publication.       *)
Invalidate ==
  /\ store = "invalidate"
  /\ \/ store' = "write" /\ validity' = 0
     \/ store' = "idle" /\ validity' \in {validity, 0}
  /\ associated' = FALSE
  /\ UNCHANGED <<block, next, candidate, current>>

StoreWord ==
  LET written == [block EXCEPT ![next] = Image(candidate)[next]] IN
  /\ store = "write"
  /\ \/ /\ store' = IF next = 5 THEN "commit" ELSE "write"
        /\ block' = written
        /\ next' = IF next = 5 THEN 1 ELSE next + 1
     \/ /\ store' = "idle"
        /\ block' \in {block, written}
        /\ UNCHANGED next
  /\ UNCHANGED <<validity, associated, candidate, current>>

(* The last store makes the record the published one, also when it reports *)
(* a failure: the owner is not associated with it then.                    *)
Commit ==
  /\ store = "commit" /\ store' = "idle"
  /\ \/ validity' = 1 /\ current' = candidate /\ associated' \in BOOLEAN
     \/ UNCHANGED <<validity, current, associated>>
  /\ UNCHANGED <<block, next, candidate>>

(* A reset: SRAM keeps its words and the owner begins anew.                *)
Reset ==
  /\ associated' = FALSE /\ store' = "idle" /\ next' = 1
  /\ UNCHANGED <<block, validity, candidate, current>>

Next == Boot \/ Progress \/ Adopt \/ Invalidate \/ StoreWord \/ Commit \/ Reset

Spec == Init /\ [][Next]_vars

-----------------------------------------------------------------------------
(* Properties                                                              *)

(* A reader takes the block for a record when it is marked as published,   *)
(* the owner between two calls because it is associated with it.           *)
Trusted == Published \/ (associated /\ store = "idle")

(* Whoever trusts the block, at any instant, in this boot or after any     *)
(* number of resets and failed stores, finds one record exactly as it was  *)
(* published last: never a mixture of two, never one that was only begun,  *)
(* and no failed store leaves the owner trusting an uncertain block.       *)
PublishedIsWhole == Trusted => Published /\ Decoded(block) = current
=============================================================================
