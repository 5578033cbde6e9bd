---------------------------- MODULE BootLifecycle ----------------------------
(***************************************************************************)
(* The pure transition rules of src/src/boot_lifecycle.c and the reset     *)
(* classifier of src/src/boot_reset_accounting.c.  Each operator maps an   *)
(* authoritative record and some evidence to a proposal                    *)
(*     [result |-> ..., record |-> ...]                                    *)
(* whose record is meaningful only for CHANGE and NO_CHANGE (the code      *)
(* leaves *out alone otherwise).  Nothing is written here: a caller hands  *)
(* a CHANGE to the metadata store.                                         *)
(*                                                                         *)
(* A verified image is its manifest: callers pass only images accepted by  *)
(* boot_verify, for which image_admissible holds.  NULL and overlapping    *)
(* arguments are not modelled.                                             *)
(***************************************************************************)
EXTENDS BootFormat

Result == {"CHANGE", "NO_CHANGE", "RECORD", "ADMISSION", "IDENTITY", "IMAGE",
           "HEALTH", "EXHAUSTED"}

Refuse(r, why) == [result |-> why, record |-> r]
Unchanged(r)   == [result |-> "NO_CHANGE", record |-> r]

(* finish: the proposal takes exactly the next sequence, and is validated  *)
(* once more before it is published.                                       *)
Finish(r, proposal) ==
  LET next == [proposal EXCEPT !.sequence = NextSequence(r)] IN
  IF Exhausted(r) THEN Refuse(r, "EXHAUSTED")
  ELSE IF MetadataValid(next) THEN [result |-> "CHANGE", record |-> next]
  ELSE Refuse(r, "RECORD")

-----------------------------------------------------------------------------
(* Uploads.  Evidence e = [running, permitted, incoming].                  *)

Upload == [running: Manifest, permitted: Slot, incoming: Manifest]

\* Faulty variant: the running slot itself may be overwritten.
AdmissibleOverCurrent(r, e) ==
  /\ e.incoming.slot = e.permitted
  /\ r.current = e.running.slot
  /\ r.candidate = NoSlot
  /\ e.running.slot \in r.confirmed

(* admission: only the confirmed current image, while there is no other    *)
(* candidate, may replace the slot it is not running from.                 *)
Admissible(r, e) ==
  /\ e.incoming.slot = e.permitted
  /\ r.current = e.running.slot
  /\ e.permitted # r.current
  /\ r.candidate = NoSlot
  /\ e.running.slot \in r.confirmed

Admitted(r, e) ==
  MetadataValid(r) /\ Admissible(r, e) /\ ImageMatches(r, e.running)

AdmissionError(r, e) ==
  IF ~MetadataValid(r) THEN "RECORD"
  ELSE IF ~Admissible(r, e) THEN "ADMISSION" ELSE "IDENTITY"

\* Faulty variant: the slot stays the fallback.
InvalidatedKeepsPrevious(r, slot) ==
  [r EXCEPT !.images[slot] = EmptyEntry, !.confirmed = @ \ {slot}]

(* boot_lifecycle_invalidate: drop the destination's entry and its roles.  *)
Invalidated(r, slot) ==
  LET Drop(role) == IF role = slot THEN NoSlot ELSE role IN
  [r EXCEPT !.images[slot] = EmptyEntry, !.previous = Drop(r.previous),
            !.current = Drop(r.current), !.candidate = Drop(r.candidate),
            !.confirmed = @ \ {slot}]

Invalidate(r, e) ==
  IF ~Admitted(r, e) THEN Refuse(r, AdmissionError(r, e))
  ELSE Finish(r, Invalidated(r, e.permitted))

\* Faulty variant: trial ids counted per slot, starting over when it is emptied.
AcceptedCountsPerSlot(r, m) ==
  [r EXCEPT !.candidate = m.slot,
            !.images[m.slot] =
               FreshEntry(m.image, "READY", r.images[m.slot].trial_id + 1)]

(* boot_lifecycle_accept_ready: the stored image becomes a READY candidate *)
(* whose trial id is the sequence of the record that accepts it.           *)
Accepted(r, m) ==
  [r EXCEPT !.candidate = m.slot,
            !.images[m.slot] = FreshEntry(m.image, "READY", NextSequence(r))]

AcceptReady(r, e, stored) ==
  IF ~Admitted(r, e) THEN Refuse(r, AdmissionError(r, e))
  ELSE IF r.images[e.permitted].image # NoImage THEN Refuse(r, "ADMISSION")
  ELSE IF stored # e.incoming THEN Refuse(r, "IDENTITY")
  ELSE IF Exhausted(r) THEN Refuse(r, "EXHAUSTED")
  ELSE Finish(r, Accepted(r, stored))

-----------------------------------------------------------------------------
(* Trial and confirmation                                                  *)

(* execution: a valid record that knows this verified image.               *)
Executable(r, m) == MetadataValid(r) /\ ImageMatches(r, m)
ExecutionError(r) == IF ~MetadataValid(r) THEN "RECORD" ELSE "IDENTITY"

(* boot_lifecycle_begin_trial: READY becomes TRIAL; a TRIAL is retried     *)
(* without a write.                                                        *)
BeginTrial(r, m) ==
  IF ~Executable(r, m) THEN Refuse(r, ExecutionError(r))
  ELSE IF r.candidate # m.slot THEN Refuse(r, "ADMISSION")
  ELSE IF r.images[m.slot].state = "TRIAL" THEN Unchanged(r)
  ELSE Finish(r, [r EXCEPT !.images[m.slot].state = "TRIAL"])

(* boot_lifecycle_confirm.  A request names slot, trial and image; healthy *)
(* says that the health bits are exactly BOOT_HEALTH_REQUIRED.             *)
ConfirmRequest == [slot: Slot, trial_id: 0..MaxSeq, image: Image]

\* Faulty variants: the failure history is cleared; the fallback is lost.
ConfirmedForgets(r, slot) ==
  [r EXCEPT !.previous = r.current, !.current = slot, !.candidate = NoSlot,
            !.confirmed = @ \cup {slot}, !.intent = NoIntent,
            !.images[slot] = FreshEntry(@.image, "NONE", @.trial_id)]

ConfirmedDropsFallback(r, slot) ==
  [r EXCEPT !.previous = NoSlot, !.current = slot, !.candidate = NoSlot,
            !.confirmed = @ \cup {slot}, !.images[slot].state = "NONE",
            !.intent = NoIntent]

Confirmed(r, slot) ==
  [r EXCEPT !.previous = r.current, !.current = slot, !.candidate = NoSlot,
            !.confirmed = @ \cup {slot}, !.images[slot].state = "NONE",
            !.intent = NoIntent]

Confirm(r, request, running, healthy) ==
  LET slot == running.slot IN
  IF ~Executable(r, running) THEN Refuse(r, ExecutionError(r))
  ELSE IF request # [slot |-> slot, trial_id |-> r.images[slot].trial_id,
                     image |-> running.image] THEN Refuse(r, "IDENTITY")
  ELSE IF slot \in r.confirmed THEN Unchanged(r)
  ELSE IF r.candidate # slot \/ r.images[slot].state # "TRIAL"
       THEN Refuse(r, "ADMISSION")
  ELSE IF ~healthy THEN Refuse(r, "HEALTH")
  ELSE Finish(r, Confirmed(r, slot))

-----------------------------------------------------------------------------
(* Failures                                                                *)

(* resident_matches: the identity names this slot's image and trial.       *)
Identity == [slot: Slot, image: Image, trial_id: 0..MaxSeq]
ResidentMatches(r, id) ==
  /\ r.images[id.slot].image = id.image
  /\ r.images[id.slot].trial_id = id.trial_id

(* boot_lifecycle_apply_counted_failure: append the reason; the third      *)
(* failure rejects the trial and ends its candidacy.                       *)
CountFailure(e, reason) ==
  [e EXCEPT !.count = e.count + 1,
            !.reasons = [e.reasons EXCEPT ![e.count + 1] = reason]]

RejectTrial(e) == [e EXCEPT !.state = "REJECTED", !.rollback = 1]

\* Faulty variant: the fourth failure rejects.
CountedLate(r, slot, reason, consume) ==
  LET counted == CountFailure(r.images[slot], reason) IN
  IF r.images[slot].count = 3
  THEN [r EXCEPT !.images[slot] = RejectTrial(counted),
                 !.candidate = NoSlot, !.intent = NoIntent]
  ELSE [r EXCEPT !.images[slot] = counted,
                 !.intent = IF consume THEN NoIntent ELSE @]

Counted(r, slot, reason, consume) ==
  LET counted == CountFailure(r.images[slot], reason) IN
  IF r.images[slot].count = 2
  THEN [r EXCEPT !.images[slot] = RejectTrial(counted),
                 !.candidate = NoSlot, !.intent = NoIntent]
  ELSE [r EXCEPT !.images[slot] = counted,
                 !.intent = IF consume THEN NoIntent ELSE @]

ApplyCountedFailure(r, id, reason, consume) ==
  IF ~MetadataValid(r) THEN Refuse(r, "RECORD")
  ELSE IF ~ResidentMatches(r, id) THEN Refuse(r, "IDENTITY")
  ELSE IF r.candidate # id.slot \/ id.slot \in r.confirmed
          \/ r.images[id.slot].state # "TRIAL" THEN Refuse(r, "ADMISSION")
  ELSE IF Exhausted(r) THEN Refuse(r, "EXHAUSTED")
  ELSE Finish(r, Counted(r, id.slot, reason, consume))

(* invalid_image_failure tells verification failures that prove the image  *)
(* bad from operational ones (argument, crypto, read, abort).              *)
VerifyResult == {"OK", "INVALID", "OPERATIONAL"}

(* boot_lifecycle_promote_previous: fall back from an invalid current      *)
(* image to the confirmed previous one.                                    *)
Promoted(r, bad) ==
  [r EXCEPT !.current = r.previous, !.previous = NoSlot,
            !.confirmed = @ \ {bad}]

PromotePrevious(r, bad, failure, previous) ==
  IF ~Executable(r, previous) THEN Refuse(r, ExecutionError(r))
  ELSE IF failure # "INVALID" THEN Refuse(r, "IMAGE")
  ELSE IF ~ResidentMatches(r, bad) \/ r.current # bad.slot
       THEN Refuse(r, "IDENTITY")
  ELSE IF r.previous # previous.slot \/ r.candidate # NoSlot
       THEN Refuse(r, "ADMISSION")
  ELSE IF Exhausted(r) THEN Refuse(r, "EXHAUSTED")
  ELSE Finish(r, Promoted(r, bad.slot))

(* boot_lifecycle_deadline_intent: a running trial records, before it      *)
(* resets itself, that it missed its confirmation deadline.                *)
DeadlineIntent(r, slot, trial_id, running) ==
  LET wanted == [kind |-> "DEADLINE", slot |-> slot, trial_id |-> trial_id] IN
  IF ~Executable(r, running) THEN Refuse(r, ExecutionError(r))
  ELSE IF slot # running.slot \/ trial_id # r.images[running.slot].trial_id
       THEN Refuse(r, "IDENTITY")
  ELSE IF r.candidate # slot \/ r.images[slot].state # "TRIAL"
       THEN Refuse(r, "ADMISSION")
  ELSE IF r.intent = wanted THEN Unchanged(r)
  ELSE Finish(r, [r EXCEPT !.intent = wanted])

-----------------------------------------------------------------------------
(* Reset accounting                                                        *)

ResetFlag == {"POR", "EXT", "BOR", "WDT", "SW"}

TrialApplicable(r) ==
  /\ r.candidate \in Slot
  /\ r.candidate \notin r.confirmed
  /\ r.images[r.candidate].state = "TRIAL"

IntentMatches(r) ==
  /\ r.intent.kind = "DEADLINE"
  /\ r.intent.slot = r.candidate
  /\ r.intent.trial_id = r.images[r.candidate].trial_id

(* The categories of a captured flag set that count against a trial: a     *)
(* power-on never does, a software reset only with a matching intent.      *)
Category(flag) ==
  CASE flag = "WDT" -> WATCHDOG
    [] flag = "EXT" -> EXTERNAL
    [] flag = "BOR" -> BROWNOUT
    [] OTHER        -> DEADLINE

Categories(r, flags) ==
  {Category(f) : f \in (flags \cap {"WDT", "EXT", "BOR"})
                       \cup (IF IntentMatches(r) THEN flags \cap {"SW"} ELSE {})}

ReasonOf(categories) ==
  IF \E a, b \in categories : a # b THEN COMBINED
  ELSE CHOOSE c \in categories : TRUE

(* boot_reset_propose: one captured flag set is at most one failure.       *)
ResetPropose(r, flags) ==
  IF ~MetadataValid(r) THEN Refuse(r, "RECORD")
  ELSE IF ~TrialApplicable(r) \/ Categories(r, flags) = {} THEN Unchanged(r)
  ELSE LET e == r.images[r.candidate] IN
       ApplyCountedFailure(r, [slot |-> r.candidate, image |-> e.image,
                               trial_id |-> e.trial_id],
                           ReasonOf(Categories(r, flags)), IntentMatches(r))
=============================================================================
