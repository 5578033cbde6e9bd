----------------------------- MODULE BootFormat -----------------------------
(***************************************************************************)
(* The boot metadata record of src/src/boot_format.c and the rules every   *)
(* stored record obeys.                                                    *)
(*                                                                         *)
(* Data abstraction.  An image entry's payload hash, release and length    *)
(* are one value `image` of the set Image; NoImage is the canonical empty  *)
(* entry (payload_length = 0).  A manifest is [slot, image]: its base and  *)
(* its geometry follow from the slot.  The packed accounting word is kept  *)
(* field by field: state, count, rollback and the three reason fields.     *)
(* MaxSeq stands for UINT32_MAX.                                           *)
(***************************************************************************)
EXTENDS Naturals

CONSTANTS
  Image,     \* identities (hash, release, length) an image can have
  NoImage,   \* the empty resident entry
  MaxSeq     \* the last metadata sequence, UINT32_MAX in the code

ASSUME ImageAssumption == NoImage \notin Image
ASSUME MaxSeqAssumption == MaxSeq \in Nat \ {0}

Slot  == {"A", "B"}
NoSlot == "none"
Role  == Slot \cup {NoSlot}

ImageState == {"NONE", "READY", "TRIAL", "REJECTED"}

\* Failure reasons; the code's 0 is an unused reason field.
UNUSED    == 0
WATCHDOG  == 1
EXTERNAL  == 2
BROWNOUT  == 3
DEADLINE  == 4
COMBINED  == 5
Reason == WATCHDOG..COMBINED

Entry == [image: Image \cup {NoImage}, state: ImageState, count: 0..3,
          rollback: 0..1, reasons: [1..3 -> UNUSED..COMBINED],
          trial_id: 0..MaxSeq]

\* An entry without failure history.
FreshEntry(image, state, trial_id) ==
  [image |-> image, state |-> state, count |-> 0, rollback |-> 0,
   reasons |-> [i \in 1..3 |-> UNUSED], trial_id |-> trial_id]

EmptyEntry == FreshEntry(NoImage, "NONE", 0)

Intent == [kind: {"NONE", "DEADLINE"}, slot: Role, trial_id: 0..MaxSeq]
NoIntent == [kind |-> "NONE", slot |-> NoSlot, trial_id |-> 0]

Metadata == [sequence: 0..MaxSeq, current: Role, candidate: Role,
             previous: Role, confirmed: SUBSET Slot,
             images: [Slot -> Entry], intent: Intent]

Manifest == [slot: Slot, image: Image]

-----------------------------------------------------------------------------
(* entry_validate: an empty entry is all zero; exactly the first `count`   *)
(* reason fields are used; READY carries no history; only a REJECTED entry *)
(* has three failures and the rollback bit.                                *)
EntryValid(e) ==
  IF e.image = NoImage
  THEN e = EmptyEntry
  ELSE /\ \A i \in 1..3 : (i <= e.count) <=> (e.reasons[i] # UNUSED)
       /\ e.state = "READY" => e.count = 0 /\ e.rollback = 0
       /\ e.state # "REJECTED" => e.count # 3 /\ e.rollback = 0
       /\ e.state = "REJECTED" => e.count = 3 /\ e.rollback = 1

(* The per-image part of boot_metadata_validate.                           *)
ImageRulesValid(r, s) ==
  LET e == r.images[s] IN
  /\ EntryValid(e)
  /\ e.trial_id <= r.sequence
  /\ e.image = NoImage => /\ s \notin r.confirmed
                          /\ s \notin {r.current, r.previous, r.candidate}
  /\ s \in r.confirmed => e.state = "NONE"
  /\ e.state \in {"READY", "TRIAL"} => r.candidate = s

(* The role part: current and previous are confirmed and distinct, the     *)
(* candidate is an unconfirmed third role in READY or TRIAL.               *)
RolesValid(r) ==
  /\ r.current # NoSlot => r.current \in r.confirmed
  /\ r.previous # NoSlot => r.previous \in r.confirmed /\ r.previous # r.current
  /\ r.candidate # NoSlot =>
       /\ r.candidate \notin r.confirmed
       /\ r.candidate \notin {r.current, r.previous}
       /\ r.images[r.candidate].state \in {"READY", "TRIAL"}

IntentValid(r) ==
  \/ r.intent = NoIntent
  \/ /\ r.intent.kind = "DEADLINE"
     /\ r.intent.slot \in Slot
     /\ r.intent.slot = r.candidate
     /\ r.images[r.intent.slot].state = "TRIAL"
     /\ r.images[r.intent.slot].trial_id = r.intent.trial_id

(* boot_metadata_validate                                                  *)
MetadataValid(r) ==
  /\ \A s \in Slot : ImageRulesValid(r, s)
  /\ RolesValid(r)
  /\ IntentValid(r)

(* boot_metadata_next_sequence refuses at the maximum and never wraps.     *)
Exhausted(r) == r.sequence = MaxSeq
NextSequence(r) == r.sequence + 1

(* boot_metadata_image_matches: the manifest names the resident image.     *)
ImageMatches(r, m) == r.images[m.slot].image = m.image

(* The record the provisioning tool writes: both slots hold confirmed      *)
(* images, A is current and B is the fallback, the first sequence.         *)
FactoryRecord(img) ==
  [sequence |-> 1, current |-> "A", candidate |-> NoSlot, previous |-> "B",
   confirmed |-> Slot,
   images |-> [s \in Slot |-> FreshEntry(img[s], "NONE", 0)],
   intent |-> NoIntent]
=============================================================================
