------------------------ MODULE BootLifecycleProofs -------------------------
(***************************************************************************)
(* What the transition rules of BootLifecycle answer, for every set of     *)
(* images and every maximal sequence: a well-formed record is only ever    *)
(* replaced by a well-formed one.                                          *)
(***************************************************************************)
EXTENDS BootLifecycle, TLAPS

(* What a proposal must satisfy for finish to publish it: the validator    *)
(* accepts it under the next sequence.                                     *)
Stamped(r, p) == [p EXCEPT !.sequence = NextSequence(r)]

WellFormed(r) == r \in Metadata /\ MetadataValid(r)

(* A sequence that is not the last one has a successor.                    *)
LEMMA NextSequenceType ==
  ASSUME NEW r \in Metadata, ~Exhausted(r)
  PROVE  NextSequence(r) \in 0..MaxSeq
BY MaxSeqAssumption DEF Metadata, Exhausted, NextSequence

(* Entries without a history are entries.                                  *)
LEMMA FreshEntryType ==
  ASSUME NEW i \in Image \cup {NoImage}, NEW st \in ImageState,
         NEW t \in 0..MaxSeq
  PROVE  FreshEntry(i, st, t) \in Entry
BY DEF FreshEntry, Entry, UNUSED, COMBINED

(* An image that was not counted against yet has a valid entry.            *)
LEMMA FreshEntryValid ==
  ASSUME NEW i \in Image, NEW t, NEW st \in {"NONE", "READY", "TRIAL"}
  PROVE  EntryValid(FreshEntry(i, st, t))
BY ImageAssumption DEF FreshEntry, EntryValid, UNUSED

(* The empty entry is valid.                                               *)
LEMMA EmptyEntryType == EmptyEntry \in Entry /\ EntryValid(EmptyEntry)
<1>1. EmptyEntry \in Entry
  BY FreshEntryType, MaxSeqAssumption DEF EmptyEntry, ImageState
<1>2. EntryValid(EmptyEntry)
  BY DEF EmptyEntry, FreshEntry, EntryValid
<1> QED BY <1>1, <1>2

(* A slot whose entry and roles do not change keeps its rules.             *)
LEMMA UntouchedSlot ==
  ASSUME NEW r \in Metadata, NEW n \in Metadata, NEW t \in Slot,
         ImageRulesValid(r, t),
         n.images[t] = r.images[t], r.sequence <= n.sequence,
         (t \in n.confirmed) => (t \in r.confirmed),
         t \in {n.current, n.previous, n.candidate} =>
           t \in {r.current, r.previous, r.candidate},
         r.candidate = t => n.candidate = t
  PROVE  ImageRulesValid(n, t)
BY MaxSeqAssumption DEF ImageRulesValid, Metadata, Entry

(* Giving up a slot that is not current.                                   *)
LEMMA InvalidatedWellFormed ==
  ASSUME NEW r \in Metadata, MetadataValid(r), ~Exhausted(r),
         NEW s \in Slot, r.current # s, r.candidate = NoSlot
  PROVE  WellFormed(Stamped(r, Invalidated(r, s)))
<1> DEFINE n == Stamped(r, Invalidated(r, s))
<1>1. NextSequence(r) \in 0..MaxSeq  BY NextSequenceType
<1>2. EmptyEntry \in Entry /\ EntryValid(EmptyEntry)  BY EmptyEntryType
<1>3. n \in Metadata
  BY <1>1, <1>2 DEF Stamped, Invalidated, Metadata, Slot, Role, NoSlot
<1>4. /\ n.sequence = r.sequence + 1
      /\ n.images = [r.images EXCEPT ![s] = EmptyEntry]
      /\ n.current = r.current /\ n.candidate = NoSlot
      /\ n.previous = IF r.previous = s THEN NoSlot ELSE r.previous
      /\ n.confirmed = r.confirmed \ {s}
      /\ n.intent = r.intent
  BY DEF Stamped, Invalidated, Metadata, NextSequence, NoSlot
<1> HIDE DEF n
<1>5. MetadataValid(n)
  <2>1. ASSUME NEW t \in Slot PROVE ImageRulesValid(n, t)
    <3>1. CASE t = s
      <4>1. n.images[t] = EmptyEntry  BY <1>4, <3>1 DEF Metadata
      <4> QED BY <1>2, <1>4, <3>1, <4>1
              DEF ImageRulesValid, EmptyEntry, FreshEntry, Metadata, Slot, NoSlot
    <3>2. CASE t # s
      <4>1. n.images[t] = r.images[t]  BY <1>4, <3>2 DEF Metadata
      <4>2. ImageRulesValid(r, t)  BY DEF MetadataValid
      <4> QED BY <1>3, <1>4, <3>2, <4>1, <4>2, UntouchedSlot
              DEF Metadata, Slot, NoSlot
    <3> QED BY <3>1, <3>2
  <2>2. RolesValid(n)
    BY <1>4 DEF MetadataValid, RolesValid
  <2>3. IntentValid(n)
    BY <1>4 DEF MetadataValid, IntentValid, Slot, NoSlot
  <2> QED BY <2>1, <2>2, <2>3 DEF MetadataValid
<1> QED BY <1>3, <1>5 DEF WellFormed, n

(* Accepting an image into an empty slot.                                  *)
LEMMA AcceptedWellFormed ==
  ASSUME NEW r \in Metadata, MetadataValid(r), ~Exhausted(r),
         NEW m \in Manifest, r.images[m.slot].image = NoImage,
         r.candidate = NoSlot
  PROVE  WellFormed(Stamped(r, Accepted(r, m)))
<1> DEFINE n == Stamped(r, Accepted(r, m))
           e == FreshEntry(m.image, "READY", NextSequence(r))
<1>0. m.slot \in Slot /\ m.image \in Image /\ m.image # NoImage
  BY ImageAssumption DEF Manifest
<1>1. NextSequence(r) \in 0..MaxSeq  BY NextSequenceType
<1>2. /\ e \in Entry /\ e.image = m.image /\ e.state = "READY"
      /\ e.trial_id = r.sequence + 1 /\ EntryValid(e)
  BY <1>0, <1>1, FreshEntryType, FreshEntryValid
     DEF FreshEntry, ImageState, NextSequence
<1>4. /\ n \in Metadata
      /\ n.sequence = r.sequence + 1
      /\ n.images = [r.images EXCEPT ![m.slot] = e]
      /\ n.current = r.current /\ n.candidate = m.slot
      /\ n.previous = r.previous /\ n.confirmed = r.confirmed
      /\ n.intent = r.intent
  <2> HIDE DEF e
  <2>1. Accepted(r, m) = [r EXCEPT !.candidate = m.slot, !.images[m.slot] = e]
    BY DEF Accepted, e
  <2>2. n = [r EXCEPT !.candidate = m.slot,
                      !.images = [r.images EXCEPT ![m.slot] = e],
                      !.sequence = r.sequence + 1]
    BY <2>1 DEF Stamped, Metadata, NextSequence
  <2>3. [r.images EXCEPT ![m.slot] = e] \in [Slot -> Entry]
    BY <1>0, <1>2 DEF Metadata
  <2> QED BY <1>0, <1>1, <2>2, <2>3 DEF Metadata, Role, NextSequence
<1> HIDE DEF n, e
<1>5. MetadataValid(n)
  <2>1. ASSUME NEW t \in Slot PROVE ImageRulesValid(n, t)
    <3>1. CASE t = m.slot
      <4>1. n.images[t] = e  BY <1>0, <1>4, <3>1 DEF Metadata
      <4>2. ImageRulesValid(r, t)  BY DEF MetadataValid
      <4> QED BY <1>0, <1>2, <1>4, <3>1, <4>1, <4>2
              DEF ImageRulesValid, Metadata, Entry
    <3>2. CASE t # m.slot
      <4>1. n.images[t] = r.images[t]  BY <1>0, <1>4, <3>2 DEF Metadata
      <4>2. ImageRulesValid(r, t)  BY DEF MetadataValid
      <4> QED BY <1>4, <3>2, <4>1, <4>2, UntouchedSlot
              DEF Metadata, Slot, NoSlot
    <3> QED BY <3>1, <3>2
  <2>2. RolesValid(n)
    <3>1. n.images[m.slot] = e  BY <1>0, <1>4 DEF Metadata
    <3>2. ImageRulesValid(r, m.slot)  BY <1>0 DEF MetadataValid
    <3> QED BY <1>2, <1>4, <3>1, <3>2
            DEF MetadataValid, RolesValid, ImageRulesValid
  <2>3. IntentValid(n)
    BY <1>4 DEF MetadataValid, IntentValid, Slot, NoSlot
  <2> QED BY <2>1, <2>2, <2>3 DEF MetadataValid
<1> QED BY <1>4, <1>5 DEF WellFormed, n

(* Beginning the trial of a READY candidate.                               *)
LEMMA TrialWellFormed ==
  ASSUME NEW r \in Metadata, MetadataValid(r), ~Exhausted(r),
         NEW s \in Slot, r.candidate = s, r.images[s].state = "READY"
  PROVE  WellFormed(Stamped(r, [r EXCEPT !.images[s].state = "TRIAL"]))
<1> DEFINE n == Stamped(r, [r EXCEPT !.images[s].state = "TRIAL"])
           e == [r.images[s] EXCEPT !.state = "TRIAL"]
<1>1. NextSequence(r) \in 0..MaxSeq  BY NextSequenceType
<1>2. /\ e \in Entry /\ e.state = "TRIAL" /\ EntryValid(e)
      /\ e.image = r.images[s].image /\ e.trial_id = r.images[s].trial_id
  <2>1. EntryValid(r.images[s])  BY DEF MetadataValid, ImageRulesValid
  <2>2. r.images[s].image # NoImage
    BY <2>1 DEF EntryValid, EmptyEntry, FreshEntry
  <2> QED BY <2>1, <2>2 DEF Metadata, Entry, EntryValid, ImageState
<1>4. /\ n \in Metadata
      /\ n.sequence = r.sequence + 1
      /\ n.images = [r.images EXCEPT ![s] = e]
      /\ n.current = r.current /\ n.candidate = s
      /\ n.previous = r.previous /\ n.confirmed = r.confirmed
      /\ n.intent = r.intent
  BY <1>1, <1>2 DEF Stamped, Metadata, NextSequence
<1> HIDE DEF n, e
<1>5. MetadataValid(n)
  <2>1. ASSUME NEW t \in Slot PROVE ImageRulesValid(n, t)
    <3>0. ImageRulesValid(r, t)  BY DEF MetadataValid
    <3>1. CASE t = s
      <4>1. n.images[t] = e  BY <1>4, <3>1 DEF Metadata
      <4> QED BY <1>2, <1>4, <3>0, <3>1, <4>1
              DEF ImageRulesValid, Metadata, Entry
    <3>2. CASE t # s
      <4>1. n.images[t] = r.images[t]  BY <1>4, <3>2 DEF Metadata
      <4> QED BY <1>4, <3>0, <3>2, <4>1, UntouchedSlot
              DEF Metadata, Slot, NoSlot
    <3> QED BY <3>1, <3>2
  <2>2. RolesValid(n)
    <3>1. n.images[s] = e  BY <1>4 DEF Metadata
    <3> QED BY <1>2, <1>4, <3>1 DEF MetadataValid, RolesValid
  <2>3. IntentValid(n)
    BY <1>4 DEF MetadataValid, IntentValid
  <2> QED BY <2>1, <2>2, <2>3 DEF MetadataValid
<1> QED BY <1>4, <1>5 DEF WellFormed, n

(* Confirming the trial of the candidate.                                  *)
LEMMA ConfirmedWellFormed ==
  ASSUME NEW r \in Metadata, MetadataValid(r), ~Exhausted(r),
         NEW s \in Slot, r.candidate = s, r.images[s].state = "TRIAL"
  PROVE  WellFormed(Stamped(r, Confirmed(r, s)))
<1> DEFINE n == Stamped(r, Confirmed(r, s))
           e == [r.images[s] EXCEPT !.state = "NONE"]
<1>1. NextSequence(r) \in 0..MaxSeq  BY NextSequenceType
<1>2. /\ e \in Entry /\ e.state = "NONE" /\ EntryValid(e)
      /\ e.image = r.images[s].image /\ e.image # NoImage
      /\ e.trial_id = r.images[s].trial_id
  <2>1. EntryValid(r.images[s])  BY DEF MetadataValid, ImageRulesValid
  <2>2. r.images[s].image # NoImage
    BY <2>1 DEF EntryValid, EmptyEntry, FreshEntry
  <2> QED BY <2>1, <2>2 DEF Metadata, Entry, EntryValid, ImageState
<1>3. NoIntent \in Intent
  BY MaxSeqAssumption DEF NoIntent, Intent, Role
<1>4. /\ n \in Metadata
      /\ n.sequence = r.sequence + 1
      /\ n.images = [r.images EXCEPT ![s] = e]
      /\ n.current = s /\ n.candidate = NoSlot
      /\ n.previous = r.current /\ n.confirmed = r.confirmed \cup {s}
      /\ n.intent = NoIntent
  BY <1>1, <1>2, <1>3 DEF Stamped, Confirmed, Metadata, NextSequence, Role
<1> HIDE DEF n, e
<1>5. MetadataValid(n)
  <2>1. ASSUME NEW t \in Slot PROVE ImageRulesValid(n, t)
    <3>0. ImageRulesValid(r, t)  BY DEF MetadataValid
    <3>1. CASE t = s
      <4>1. n.images[t] = e  BY <1>4, <3>1 DEF Metadata
      <4> QED BY <1>2, <1>4, <3>0, <3>1, <4>1
              DEF ImageRulesValid, Metadata, Entry
    <3>2. CASE t # s
      <4>1. n.images[t] = r.images[t]  BY <1>4, <3>2 DEF Metadata
      <4> QED BY <1>4, <3>0, <3>2, <4>1
              DEF ImageRulesValid, Metadata, Entry, Slot, NoSlot
    <3> QED BY <3>1, <3>2
  <2>2. RolesValid(n)
    BY <1>4 DEF MetadataValid, RolesValid
  <2>3. IntentValid(n)
    BY <1>4 DEF IntentValid
  <2> QED BY <2>1, <2>2, <2>3 DEF MetadataValid
<1> QED BY <1>4, <1>5 DEF WellFormed, n

(* Falling back to the previous image.                                     *)
LEMMA PromotedWellFormed ==
  ASSUME NEW r \in Metadata, MetadataValid(r), ~Exhausted(r),
         r.current \in Slot, r.previous \in Slot, r.candidate = NoSlot
  PROVE  WellFormed(Stamped(r, Promoted(r, r.current)))
<1> DEFINE n == Stamped(r, Promoted(r, r.current))
<1>1. NextSequence(r) \in 0..MaxSeq  BY NextSequenceType
<1>4. /\ n \in Metadata
      /\ n.sequence = r.sequence + 1
      /\ n.images = r.images
      /\ n.current = r.previous /\ n.candidate = NoSlot
      /\ n.previous = NoSlot /\ n.confirmed = r.confirmed \ {r.current}
      /\ n.intent = r.intent
  BY <1>1 DEF Stamped, Promoted, Metadata, NextSequence, Role
<1> HIDE DEF n
<1>5. MetadataValid(n)
  <2>1. ASSUME NEW t \in Slot PROVE ImageRulesValid(n, t)
    <3>0. ImageRulesValid(r, t)  BY DEF MetadataValid
    <3> QED BY <1>4, <3>0, UntouchedSlot DEF Metadata, Slot, NoSlot
  <2>2. RolesValid(n)
    BY <1>4 DEF MetadataValid, RolesValid
  <2>3. IntentValid(n)
    BY <1>4 DEF MetadataValid, IntentValid, Slot, NoSlot
  <2> QED BY <2>1, <2>2, <2>3 DEF MetadataValid
<1> QED BY <1>4, <1>5 DEF WellFormed, n

(* Recording that the trial missed its deadline.                           *)
LEMMA DeadlineWellFormed ==
  ASSUME NEW r \in Metadata, MetadataValid(r), ~Exhausted(r),
         NEW s \in Slot, r.candidate = s, r.images[s].state = "TRIAL"
  PROVE  WellFormed(Stamped(r, [r EXCEPT !.intent =
           [kind |-> "DEADLINE", slot |-> s,
            trial_id |-> r.images[s].trial_id]]))
<1> DEFINE i == [kind |-> "DEADLINE", slot |-> s,
                 trial_id |-> r.images[s].trial_id]
           n == Stamped(r, [r EXCEPT !.intent = i])
<1>1. NextSequence(r) \in 0..MaxSeq  BY NextSequenceType
<1>2. i \in Intent  BY DEF Intent, Role, Metadata, Entry
<1>4. /\ n \in Metadata
      /\ n.sequence = r.sequence + 1
      /\ n.images = r.images /\ n.current = r.current
      /\ n.candidate = r.candidate /\ n.previous = r.previous
      /\ n.confirmed = r.confirmed /\ n.intent = i
  BY <1>1, <1>2 DEF Stamped, Metadata, NextSequence
<1>3. i.kind = "DEADLINE" /\ i.slot = s /\ i.trial_id = r.images[s].trial_id
  OBVIOUS
<1> HIDE DEF n, i
<1>5. MetadataValid(n)
  <2>1. ASSUME NEW t \in Slot PROVE ImageRulesValid(n, t)
    <3>0. ImageRulesValid(r, t)  BY DEF MetadataValid
    <3> QED BY <1>4, <3>0, UntouchedSlot DEF Metadata
  <2>2. RolesValid(n)
    BY <1>4 DEF MetadataValid, RolesValid
  <2>3. IntentValid(n)
    BY <1>3, <1>4 DEF IntentValid
  <2> QED BY <2>1, <2>2, <2>3 DEF MetadataValid
<1> QED BY <1>4, <1>5 DEF WellFormed, n, i

(* The entry that one more counted failure leaves behind.                  *)
LEMMA CountedEntry ==
  ASSUME NEW e \in Entry, EntryValid(e), e.state = "TRIAL",
         NEW why \in Reason
  PROVE  LET c == CountFailure(e, why) IN
         /\ e.count \in 0..2 /\ e.image # NoImage
         /\ c \in Entry /\ c.count = e.count + 1
         /\ c.image = e.image /\ c.trial_id = e.trial_id /\ c.state = "TRIAL"
         /\ c.rollback = 0
         /\ \A i \in 1..3 : (i <= c.count) <=> (c.reasons[i] # UNUSED)
         /\ \A i \in 1..3 : i <= e.count => c.reasons[i] = e.reasons[i]
<1> DEFINE c == CountFailure(e, why)
<1>1. e.image # NoImage
  BY DEF EntryValid, EmptyEntry, FreshEntry
<1>2. e.count \in 0..2 /\ e.rollback = 0
  BY <1>1 DEF EntryValid, Entry
<1>3. \A i \in 1..3 : (i <= e.count) <=> (e.reasons[i] # UNUSED)
  BY <1>1 DEF EntryValid
<1>4. /\ c.reasons = [e.reasons EXCEPT ![e.count + 1] = why]
      /\ c.count = e.count + 1 /\ c.image = e.image
      /\ c.trial_id = e.trial_id /\ c.state = e.state
      /\ c.rollback = e.rollback
  BY DEF CountFailure, Entry
<1>6. c \in Entry
  <2>1. e.count + 1 \in 1..3  BY <1>2
  <2>2. why \in UNUSED..COMBINED
    BY DEF Reason, UNUSED, WATCHDOG, COMBINED
  <2>3. [e.reasons EXCEPT ![e.count + 1] = why] \in [1..3 -> UNUSED..COMBINED]
    BY <2>1, <2>2 DEF Entry
  <2> DEFINE f == [e.reasons EXCEPT ![e.count + 1] = why]
             k == e.count + 1
  <2>4. k \in 0..3 /\ f \in [1..3 -> UNUSED..COMBINED]  BY <2>1, <2>3
  <2>5. c = [e EXCEPT !.count = k, !.reasons = f]  BY DEF CountFailure
  <2> HIDE DEF f, k, c
  <2> QED BY <2>4, <2>5 DEF Entry
<1> HIDE DEF c
<1>7. \A i \in 1..3 : (i <= c.count) <=> (c.reasons[i] # UNUSED)
  BY <1>2, <1>3, <1>4 DEF Entry, Reason, UNUSED, WATCHDOG
<1>8. \A i \in 1..3 : i <= e.count => c.reasons[i] = e.reasons[i]
  BY <1>2, <1>4 DEF Entry
<1> QED BY <1>1, <1>2, <1>4, <1>6, <1>7, <1>8 DEF c

(* The entry of a trial that failed three times.                           *)
LEMMA RejectedEntry ==
  ASSUME NEW c \in Entry, c.image # NoImage, c.count = 3,
         \A i \in 1..3 : (i <= c.count) <=> (c.reasons[i] # UNUSED)
  PROVE  LET x == RejectTrial(c) IN
         /\ x \in Entry /\ EntryValid(x)
         /\ x.state = "REJECTED" /\ x.image = c.image
         /\ x.trial_id = c.trial_id
<1> DEFINE x == RejectTrial(c)
<1>1. x \in Entry
  <2> DEFINE st == "REJECTED"
             bit == 1
  <2>1. st \in ImageState /\ bit \in 0..1  BY DEF ImageState
  <2>2. x = [c EXCEPT !.state = st, !.rollback = bit]  BY DEF RejectTrial
  <2> HIDE DEF st, bit, x
  <2> QED BY <2>1, <2>2 DEF Entry
<1>2. /\ x.state = "REJECTED" /\ x.rollback = 1 /\ x.count = 3
      /\ x.image = c.image /\ x.trial_id = c.trial_id
      /\ x.reasons = c.reasons
  BY DEF RejectTrial, Entry
<1> HIDE DEF x
<1>3. EntryValid(x)  BY <1>2 DEF EntryValid
<1> QED BY <1>1, <1>2, <1>3 DEF x

(* Counting one failure against the candidate.                             *)
LEMMA CountedWellFormed ==
  ASSUME NEW r \in Metadata, MetadataValid(r), ~Exhausted(r),
         NEW s \in Slot, r.candidate = s, r.images[s].state = "TRIAL",
         NEW why \in Reason, NEW consume \in BOOLEAN
  PROVE  WellFormed(Stamped(r, Counted(r, s, why, consume)))
<1> DEFINE n == Stamped(r, Counted(r, s, why, consume))
           e == r.images[s]
           c == CountFailure(e, why)
           x == RejectTrial(c)
<1>1. NextSequence(r) \in 0..MaxSeq  BY NextSequenceType
<1>2. e \in Entry /\ EntryValid(e) /\ e.state = "TRIAL"
  BY DEF Metadata, MetadataValid, ImageRulesValid
<1>d. n = Stamped(r, IF e.count = 2
             THEN [r EXCEPT !.images[s] = x, !.candidate = NoSlot,
                            !.intent = NoIntent]
             ELSE [r EXCEPT !.images[s] = c,
                            !.intent = IF consume THEN NoIntent ELSE @])
  BY DEF Counted
<1>i. NoIntent \in Intent
  BY MaxSeqAssumption DEF NoIntent, Intent, Role
<1>3. /\ e.count \in 0..2 /\ e.image # NoImage
      /\ c \in Entry /\ c.count = e.count + 1
      /\ c.image = e.image /\ c.trial_id = e.trial_id /\ c.state = "TRIAL"
      /\ c.rollback = 0
      /\ \A i \in 1..3 : (i <= c.count) <=> (c.reasons[i] # UNUSED)
  <2> HIDE DEF e
  <2> QED BY <1>2, CountedEntry
<1>r. r.images[s] = e  OBVIOUS
<1>x. e.count = 2 => /\ x \in Entry /\ EntryValid(x)
                     /\ x.state = "REJECTED" /\ x.image = e.image
                     /\ x.trial_id = e.trial_id
  <2> HIDE DEF c
  <2> QED BY <1>3, RejectedEntry
<1> HIDE DEF c, n, e, x
<1>4. CASE e.count = 2
  <2>1. /\ x \in Entry /\ EntryValid(x)
        /\ x.state = "REJECTED" /\ x.image = e.image
        /\ x.trial_id = e.trial_id
    BY <1>4, <1>x
  <2>3. /\ n \in Metadata
        /\ n.sequence = r.sequence + 1
        /\ n.images = [r.images EXCEPT ![s] = x]
        /\ n.current = r.current /\ n.candidate = NoSlot
        /\ n.previous = r.previous /\ n.confirmed = r.confirmed
        /\ n.intent = NoIntent
    BY <1>1, <1>4, <1>d, <1>i, <2>1 DEF Stamped, Metadata, NextSequence, Role
  <2>4. ASSUME NEW t \in Slot PROVE ImageRulesValid(n, t)
    <3>0. ImageRulesValid(r, t)  BY DEF MetadataValid
    <3>1. CASE t = s
      <4>1. n.images[t] = x  BY <2>3, <3>1 DEF Metadata
      <4> QED BY <1>3, <1>r, <2>1, <2>3, <3>0, <3>1, <4>1
              DEF ImageRulesValid, Metadata, Entry, RolesValid, MetadataValid
    <3>2. CASE t # s
      <4>1. n.images[t] = r.images[t]  BY <2>3, <3>2 DEF Metadata
      <4> QED BY <2>3, <3>0, <3>2, <4>1
              DEF ImageRulesValid, Metadata, Entry, Slot, NoSlot
    <3> QED BY <3>1, <3>2
  <2>5. RolesValid(n)  BY <2>3 DEF MetadataValid, RolesValid
  <2>6. IntentValid(n)  BY <2>3 DEF IntentValid
  <2> QED BY <2>3, <2>4, <2>5, <2>6 DEF MetadataValid, WellFormed, n
<1>5. CASE e.count # 2
  <2>2. EntryValid(c)  BY <1>3, <1>5 DEF EntryValid
  <2>3. /\ n \in Metadata
        /\ n.sequence = r.sequence + 1
        /\ n.images = [r.images EXCEPT ![s] = c]
        /\ n.current = r.current /\ n.candidate = s
        /\ n.previous = r.previous /\ n.confirmed = r.confirmed
        /\ n.intent \in {NoIntent, r.intent}
    BY <1>1, <1>3, <1>5, <1>d, <1>i DEF Stamped, Metadata, NextSequence
  <2>4. ASSUME NEW t \in Slot PROVE ImageRulesValid(n, t)
    <3>0. ImageRulesValid(r, t)  BY DEF MetadataValid
    <3>1. CASE t = s
      <4>1. n.images[t] = c  BY <2>3, <3>1 DEF Metadata
      <4> QED BY <1>3, <1>r, <2>2, <2>3, <3>0, <3>1, <4>1
              DEF ImageRulesValid, Metadata, Entry, RolesValid, MetadataValid
    <3>2. CASE t # s
      <4>1. n.images[t] = r.images[t]  BY <2>3, <3>2 DEF Metadata
      <4> QED BY <2>3, <3>0, <3>2, <4>1, UntouchedSlot
              DEF Metadata, Slot, NoSlot
    <3> QED BY <3>1, <3>2
  <2>5. RolesValid(n)
    <3>1. n.images[s] = c  BY <2>3 DEF Metadata
    <3> QED BY <1>3, <2>3, <3>1 DEF MetadataValid, RolesValid
  <2>6. IntentValid(n)
    <3>1. n.images[s] = c  BY <2>3 DEF Metadata
    <3> QED BY <1>3, <1>r, <2>3, <3>1 DEF MetadataValid, IntentValid
  <2> QED BY <2>3, <2>4, <2>5, <2>6 DEF MetadataValid, WellFormed, n
<1> QED BY <1>4, <1>5

-----------------------------------------------------------------------------
(* What each operation answers on a well-formed record: never RECORD, and  *)
(* on CHANGE the stamped proposal, under the guards the operation checked. *)

(* finish publishes a proposal that passes the validator.                  *)
LEMMA FinishAnswer ==
  ASSUME NEW r \in Metadata, NEW p, ~Exhausted(r) => WellFormed(Stamped(r, p))
  PROVE  /\ Finish(r, p).result # "RECORD"
         /\ Finish(r, p).result = "CHANGE" =>
              /\ Finish(r, p).record = Stamped(r, p)
              /\ ~Exhausted(r) /\ WellFormed(Stamped(r, p))
BY DEF Finish, Refuse, WellFormed, Stamped

(* A refusal is no change.                                                 *)
LEMMA RefuseAnswer ==
  ASSUME NEW r, NEW why, why \notin {"CHANGE", "RECORD"}
  PROVE  Refuse(r, why).result \notin {"CHANGE", "RECORD"}
BY DEF Refuse

(* An unchanged record is no change.                                       *)
LEMMA UnchangedAnswer ==
  ASSUME NEW r
  PROVE  Unchanged(r).result \notin {"CHANGE", "RECORD"}
BY DEF Unchanged

(* The answers of boot_lifecycle_invalidate.                               *)
LEMMA InvalidateAnswer ==
  ASSUME NEW r, WellFormed(r), NEW e \in Upload
  PROVE  /\ Invalidate(r, e).result # "RECORD"
         /\ Invalidate(r, e).result = "CHANGE" =>
              /\ Invalidate(r, e).record = Stamped(r, Invalidated(r, e.permitted))
              /\ Admitted(r, e)
              /\ WellFormed(Invalidate(r, e).record)
<1>1. CASE ~Admitted(r, e)
  BY <1>1, RefuseAnswer DEF Invalidate, AdmissionError, Admitted, WellFormed
<1>2. CASE Admitted(r, e)
  <2>1. e.permitted \in Slot /\ r.current # e.permitted /\ r.candidate = NoSlot
    BY <1>2 DEF Upload, Admitted, Admissible
  <2>2. ~Exhausted(r) => WellFormed(Stamped(r, Invalidated(r, e.permitted)))
    BY <2>1, InvalidatedWellFormed DEF WellFormed
  <2>3. Invalidate(r, e) = Finish(r, Invalidated(r, e.permitted))
    BY <1>2 DEF Invalidate
  <2> QED BY <1>2, <2>2, <2>3, FinishAnswer DEF WellFormed
<1> QED BY <1>1, <1>2

(* The answers of boot_lifecycle_accept_ready.                             *)
LEMMA AcceptReadyAnswer ==
  ASSUME NEW r, WellFormed(r), NEW e \in Upload, NEW m \in Manifest
  PROVE  /\ AcceptReady(r, e, m).result # "RECORD"
         /\ AcceptReady(r, e, m).result = "CHANGE" =>
              /\ AcceptReady(r, e, m).record = Stamped(r, Accepted(r, m))
              /\ Admitted(r, e) /\ m = e.incoming
              /\ r.images[m.slot].image = NoImage
              /\ WellFormed(AcceptReady(r, e, m).record)
<1>1. CASE ~Admitted(r, e)
  BY <1>1, RefuseAnswer DEF AcceptReady, AdmissionError, Admitted, WellFormed
<1>2. CASE Admitted(r, e) /\ r.images[e.permitted].image # NoImage
  BY <1>2, RefuseAnswer DEF AcceptReady
<1>3. CASE Admitted(r, e) /\ r.images[e.permitted].image = NoImage
           /\ (m # e.incoming \/ Exhausted(r))
  BY <1>3, RefuseAnswer DEF AcceptReady
<1>4. CASE Admitted(r, e) /\ r.images[e.permitted].image = NoImage
           /\ m = e.incoming /\ ~Exhausted(r)
  <2>1. m.slot = e.permitted /\ r.candidate = NoSlot
    BY <1>4 DEF Admitted, Admissible
  <2>2. WellFormed(Stamped(r, Accepted(r, m)))
    BY <1>4, <2>1, AcceptedWellFormed DEF WellFormed
  <2>3. AcceptReady(r, e, m) = Finish(r, Accepted(r, m))
    BY <1>4 DEF AcceptReady
  <2> QED BY <1>4, <2>1, <2>2, <2>3, FinishAnswer DEF WellFormed
<1> QED BY <1>1, <1>2, <1>3, <1>4

(* The answers of boot_lifecycle_begin_trial.                              *)
LEMMA BeginTrialAnswer ==
  ASSUME NEW r, WellFormed(r), NEW m \in Manifest
  PROVE  /\ BeginTrial(r, m).result # "RECORD"
         /\ BeginTrial(r, m).result = "CHANGE" =>
              /\ BeginTrial(r, m).record =
                   Stamped(r, [r EXCEPT !.images[m.slot].state = "TRIAL"])
              /\ r.candidate = m.slot /\ r.images[m.slot].state = "READY"
              /\ WellFormed(BeginTrial(r, m).record)
<1>1. CASE ~Executable(r, m)
  BY <1>1, RefuseAnswer
     DEF BeginTrial, ExecutionError, Executable, WellFormed
<1>2. CASE Executable(r, m) /\ r.candidate # m.slot
  BY <1>2, RefuseAnswer DEF BeginTrial
<1>3. CASE Executable(r, m) /\ r.candidate = m.slot
           /\ r.images[m.slot].state = "TRIAL"
  BY <1>3, UnchangedAnswer DEF BeginTrial
<1>4. CASE Executable(r, m) /\ r.candidate = m.slot
           /\ r.images[m.slot].state # "TRIAL"
  <2>1. m.slot \in Slot /\ r.images[m.slot].state = "READY"
    BY <1>4
       DEF WellFormed, MetadataValid, RolesValid, Manifest, Slot, NoSlot
  <2>2. ~Exhausted(r) =>
          WellFormed(Stamped(r, [r EXCEPT !.images[m.slot].state = "TRIAL"]))
    BY <1>4, <2>1, TrialWellFormed DEF WellFormed
  <2>3. BeginTrial(r, m) = Finish(r, [r EXCEPT !.images[m.slot].state = "TRIAL"])
    BY <1>4 DEF BeginTrial
  <2> QED BY <1>4, <2>1, <2>2, <2>3, FinishAnswer DEF WellFormed
<1> QED BY <1>1, <1>2, <1>3, <1>4

(* The answers of boot_lifecycle_confirm.                                  *)
LEMMA ConfirmAnswer ==
  ASSUME NEW r, WellFormed(r), NEW q, NEW m \in Manifest, NEW healthy
  PROVE  /\ Confirm(r, q, m, healthy).result # "RECORD"
         /\ Confirm(r, q, m, healthy).result = "CHANGE" =>
              /\ Confirm(r, q, m, healthy).record = Stamped(r, Confirmed(r, m.slot))
              /\ r.candidate = m.slot /\ r.images[m.slot].state = "TRIAL"
              /\ WellFormed(Confirm(r, q, m, healthy).record)
<1> DEFINE named == q = [slot |-> m.slot, trial_id |-> r.images[m.slot].trial_id,
                         image |-> m.image]
           ready == r.candidate = m.slot /\ r.images[m.slot].state = "TRIAL"
           C == Confirm(r, q, m, healthy)
<1>0. C = IF ~Executable(r, m) THEN Refuse(r, ExecutionError(r))
          ELSE IF ~named THEN Refuse(r, "IDENTITY")
          ELSE IF m.slot \in r.confirmed THEN Unchanged(r)
          ELSE IF ~ready THEN Refuse(r, "ADMISSION")
          ELSE IF ~healthy THEN Refuse(r, "HEALTH")
          ELSE Finish(r, Confirmed(r, m.slot))
  BY DEF Confirm
<1>5. ready /\ ~Exhausted(r) => WellFormed(Stamped(r, Confirmed(r, m.slot)))
  BY ConfirmedWellFormed DEF WellFormed, Manifest
<1> HIDE DEF named, C
<1>1. CASE ~Executable(r, m)
  BY <1>0, <1>1, RefuseAnswer DEF ExecutionError, Executable, WellFormed, C
<1>2. CASE Executable(r, m) /\ (~named \/ m.slot \in r.confirmed)
  BY <1>0, <1>2, RefuseAnswer, UnchangedAnswer DEF C
<1>3. CASE Executable(r, m) /\ named /\ m.slot \notin r.confirmed
           /\ (~ready \/ ~healthy)
  BY <1>0, <1>3, RefuseAnswer DEF C
<1>4. CASE Executable(r, m) /\ named /\ m.slot \notin r.confirmed
           /\ ready /\ healthy
  <2>1. C = Finish(r, Confirmed(r, m.slot))  BY <1>0, <1>4
  <2> QED BY <1>4, <1>5, <2>1, FinishAnswer DEF WellFormed, C
<1> QED BY <1>1, <1>2, <1>3, <1>4

(* A countable flag set has a reason.                                      *)
LEMMA ReasonType ==
  ASSUME NEW r, NEW flags \in SUBSET ResetFlag, Categories(r, flags) # {}
  PROVE  ReasonOf(Categories(r, flags)) \in Reason
<1>1. Categories(r, flags) \subseteq Reason
  BY DEF Categories, Category, Reason, WATCHDOG, EXTERNAL, BROWNOUT, DEADLINE,
         COMBINED
<1>2. COMBINED \in Reason  BY DEF Reason, WATCHDOG, COMBINED
<1>3. PICK k \in Categories(r, flags) : TRUE  OBVIOUS
<1>4. (CHOOSE c \in Categories(r, flags) : TRUE) \in Categories(r, flags)
  BY <1>3
<1> QED BY <1>1, <1>2, <1>4 DEF ReasonOf

(* The answers of boot_reset_propose.                                      *)
LEMMA ResetAnswer ==
  ASSUME NEW r, WellFormed(r), NEW flags \in SUBSET ResetFlag
  PROVE  /\ ResetPropose(r, flags).result # "RECORD"
         /\ ResetPropose(r, flags).result = "CHANGE" =>
              /\ r.candidate \in Slot /\ r.images[r.candidate].state = "TRIAL"
              /\ Categories(r, flags) # {}
              /\ ResetPropose(r, flags).record =
                   Stamped(r, Counted(r, r.candidate,
                     ReasonOf(Categories(r, flags)), IntentMatches(r)))
              /\ WellFormed(ResetPropose(r, flags).record)
<1> DEFINE P == ResetPropose(r, flags)
           s == r.candidate
           id == [slot |-> s, image |-> r.images[s].image,
                  trial_id |-> r.images[s].trial_id]
           why == ReasonOf(Categories(r, flags))
           consume == IntentMatches(r)
           A == ApplyCountedFailure(r, id, why, consume)
<1>1. CASE ~TrialApplicable(r) \/ Categories(r, flags) = {}
  <2>1. P = Unchanged(r)  BY <1>1 DEF ResetPropose, WellFormed
  <2> QED BY <2>1, UnchangedAnswer
<1>2. CASE TrialApplicable(r) /\ Categories(r, flags) # {}
  <2>1. P = A  BY <1>2 DEF ResetPropose, WellFormed
  <2>2. ResidentMatches(r, id) /\ id.slot = s  BY DEF ResidentMatches
  <2>3. A = IF Exhausted(r) THEN Refuse(r, "EXHAUSTED")
            ELSE Finish(r, Counted(r, s, why, consume))
    BY <1>2, <2>2 DEF ApplyCountedFailure, TrialApplicable, WellFormed
  <2>4. why \in Reason  BY <1>2, ReasonType
  <2>5. consume \in BOOLEAN  BY DEF IntentMatches
  <2>6. s \in Slot /\ r.images[s].state = "TRIAL"
    BY <1>2 DEF TrialApplicable
  <2> HIDE DEF why, consume, A, P, id
  <2>7. ~Exhausted(r) => WellFormed(Stamped(r, Counted(r, s, why, consume)))
    BY <2>4, <2>5, <2>6, CountedWellFormed DEF WellFormed
  <2>8. CASE Exhausted(r)
    BY <2>1, <2>3, <2>8, RefuseAnswer DEF P
  <2>9. CASE ~Exhausted(r)
    BY <1>2, <2>1, <2>3, <2>6, <2>7, <2>9, FinishAnswer
       DEF WellFormed, P, why, consume
  <2> QED BY <2>8, <2>9
<1> QED BY <1>1, <1>2

(* The answers of boot_lifecycle_promote_previous.                         *)
LEMMA PromoteAnswer ==
  ASSUME NEW r, WellFormed(r), NEW bad \in Identity, NEW failure,
         NEW m \in Manifest
  PROVE  /\ PromotePrevious(r, bad, failure, m).result # "RECORD"
         /\ PromotePrevious(r, bad, failure, m).result = "CHANGE" =>
              /\ PromotePrevious(r, bad, failure, m).record =
                   Stamped(r, Promoted(r, r.current))
              /\ r.current \in Slot /\ r.previous \in Slot
              /\ r.candidate = NoSlot
              /\ WellFormed(PromotePrevious(r, bad, failure, m).record)
<1> DEFINE P == PromotePrevious(r, bad, failure, m)
           known == ResidentMatches(r, bad) /\ r.current = bad.slot
           eligible == r.previous = m.slot /\ r.candidate = NoSlot
<1>0. P = IF ~Executable(r, m) THEN Refuse(r, ExecutionError(r))
          ELSE IF failure # "INVALID" THEN Refuse(r, "IMAGE")
          ELSE IF ~known THEN Refuse(r, "IDENTITY")
          ELSE IF ~eligible THEN Refuse(r, "ADMISSION")
          ELSE IF Exhausted(r) THEN Refuse(r, "EXHAUSTED")
          ELSE Finish(r, Promoted(r, bad.slot))
  BY DEF PromotePrevious
<1>1. CASE ~Executable(r, m)
  BY <1>0, <1>1, RefuseAnswer DEF ExecutionError, Executable, WellFormed
<1>2. CASE Executable(r, m) /\ (failure # "INVALID" \/ ~known)
  <2> HIDE DEF P, known
  <2> QED BY <1>0, <1>2, RefuseAnswer DEF P
<1>3. CASE Executable(r, m) /\ failure = "INVALID" /\ known
           /\ (~eligible \/ Exhausted(r))
  <2> HIDE DEF P, known, eligible
  <2> QED BY <1>0, <1>3, RefuseAnswer DEF P
<1>4. CASE Executable(r, m) /\ failure = "INVALID" /\ known /\ eligible
           /\ ~Exhausted(r)
  <2>1. r.current \in Slot /\ r.previous \in Slot
    BY <1>4 DEF Identity, Manifest
  <2>2. WellFormed(Stamped(r, Promoted(r, r.current)))
    BY <1>4, <2>1, PromotedWellFormed DEF WellFormed
  <2>3. P = Finish(r, Promoted(r, r.current))  BY <1>0, <1>4
  <2> QED BY <1>4, <2>1, <2>2, <2>3, FinishAnswer DEF WellFormed
<1> QED BY <1>1, <1>2, <1>3, <1>4

(* The answers of boot_lifecycle_deadline_intent.                          *)
LEMMA DeadlineAnswer ==
  ASSUME NEW r, WellFormed(r), NEW s, NEW t, NEW m \in Manifest
  PROVE  /\ DeadlineIntent(r, s, t, m).result # "RECORD"
         /\ DeadlineIntent(r, s, t, m).result = "CHANGE" =>
              /\ s \in Slot
              /\ DeadlineIntent(r, s, t, m).record =
                   Stamped(r, [r EXCEPT !.intent =
                     [kind |-> "DEADLINE", slot |-> s,
                      trial_id |-> r.images[s].trial_id]])
              /\ WellFormed(DeadlineIntent(r, s, t, m).record)
<1> DEFINE D == DeadlineIntent(r, s, t, m)
           i == [kind |-> "DEADLINE", slot |-> s, trial_id |-> t]
           named == s = m.slot /\ t = r.images[m.slot].trial_id
           live == r.candidate = s /\ r.images[s].state = "TRIAL"
<1>0. D = IF ~Executable(r, m) THEN Refuse(r, ExecutionError(r))
          ELSE IF ~named THEN Refuse(r, "IDENTITY")
          ELSE IF ~live THEN Refuse(r, "ADMISSION")
          ELSE IF r.intent = i THEN Unchanged(r)
          ELSE Finish(r, [r EXCEPT !.intent = i])
  BY DEF DeadlineIntent
<1>1. CASE ~Executable(r, m)
  BY <1>0, <1>1, RefuseAnswer DEF ExecutionError, Executable, WellFormed
<1>2. CASE Executable(r, m) /\ (~named \/ ~live)
  <2> HIDE DEF D, named, live, i
  <2> QED BY <1>0, <1>2, RefuseAnswer DEF D
<1>3. CASE Executable(r, m) /\ named /\ live /\ r.intent = i
  <2> HIDE DEF D, named, live, i
  <2> QED BY <1>0, <1>3, UnchangedAnswer DEF D
<1>4. CASE Executable(r, m) /\ named /\ live /\ r.intent # i
  <2>1. s \in Slot  BY <1>4 DEF Manifest
  <2>2. i = [kind |-> "DEADLINE", slot |-> s, trial_id |-> r.images[s].trial_id]
    BY <1>4
  <2>3. ~Exhausted(r) => WellFormed(Stamped(r, [r EXCEPT !.intent = i]))
    BY <1>4, <2>1, <2>2, DeadlineWellFormed DEF WellFormed
  <2>4. D = Finish(r, [r EXCEPT !.intent = i])  BY <1>0, <1>4
  <2> HIDE DEF i
  <2> QED BY <2>1, <2>2, <2>3, <2>4, FinishAnswer DEF WellFormed
<1> QED BY <1>1, <1>2, <1>3, <1>4

-----------------------------------------------------------------------------
(* The record the provisioning tool writes is well-formed.                 *)
LEMMA FactoryWellFormed ==
  ASSUME NEW img \in [Slot -> Image]
  PROVE  /\ WellFormed(FactoryRecord(img))
         /\ FactoryRecord(img).current \in Slot /\ FactoryRecord(img).intent = NoIntent
<1> DEFINE r == FactoryRecord(img)
<1>1. r = FactoryRecord(img)  OBVIOUS
<1> HIDE DEF r
<1>2. \A s \in Slot : r.images[s] = FreshEntry(img[s], "NONE", 0)
  BY <1>1 DEF FactoryRecord
<1>3. \A s \in Slot : img[s] \in Image /\ img[s] # NoImage
  BY ImageAssumption
<1>4. \A s \in Slot : r.images[s] \in Entry /\ EntryValid(r.images[s])
  BY <1>2, <1>3, FreshEntryType, FreshEntryValid, MaxSeqAssumption
     DEF ImageState
<1>5. /\ r.current = "A" /\ r.candidate = NoSlot /\ r.previous = "B"
      /\ r.confirmed = Slot /\ r.intent = NoIntent /\ r.sequence = 1
  BY <1>1 DEF FactoryRecord
<1>6. r \in Metadata
  <2>1. NoIntent \in Intent
    BY MaxSeqAssumption DEF NoIntent, Intent, Role
  <2>2. [s \in Slot |-> FreshEntry(img[s], "NONE", 0)] \in [Slot -> Entry]
    BY <1>2, <1>4
  <2>3. 1 \in 0..MaxSeq  BY MaxSeqAssumption
  <2> HIDE DEF Entry
  <2> QED BY <1>1, <2>1, <2>2, <2>3
          DEF FactoryRecord, Metadata, Role, Slot, NoSlot
<1>7. MetadataValid(r)
  <2>1. ASSUME NEW s \in Slot PROVE ImageRulesValid(r, s)
    <3>1. /\ r.images[s].trial_id = 0 /\ r.images[s].state = "NONE"
          /\ r.images[s].image # NoImage
      <4>1. r.images[s] = FreshEntry(img[s], "NONE", 0)  BY <1>2
      <4> QED BY <1>3, <4>1 DEF FreshEntry
    <3> QED BY <1>4, <1>5, <3>1 DEF ImageRulesValid
  <2>2. RolesValid(r)  BY <1>5 DEF RolesValid, Slot, NoSlot
  <2>3. IntentValid(r)  BY <1>5 DEF IntentValid
  <2> QED BY <2>1, <2>2, <2>3 DEF MetadataValid
<1> QED BY <1>5, <1>6, <1>7 DEF WellFormed, Slot, r

-----------------------------------------------------------------------------
(* What a CHANGE of each rule makes of the record, field by field.         *)

(* The destination's entry and its roles are dropped, nothing else.        *)
LEMMA InvalidateChange ==
  ASSUME NEW r, WellFormed(r), NEW e \in Upload, Invalidate(r, e).result = "CHANGE"
  PROVE  LET n == Invalidate(r, e).record IN
         /\ Admitted(r, e) /\ WellFormed(n)
         /\ n.sequence = r.sequence + 1
         /\ n.images = [r.images EXCEPT ![e.permitted] = EmptyEntry]
         /\ n.current = r.current /\ n.candidate = NoSlot
         /\ n.confirmed = r.confirmed \ {e.permitted} /\ n.intent = r.intent
<1>1. /\ Invalidate(r, e).record = Stamped(r, Invalidated(r, e.permitted))
      /\ Admitted(r, e) /\ WellFormed(Invalidate(r, e).record)
  BY InvalidateAnswer
<1>2. r \in Metadata /\ e.permitted \in Slot /\ r.current # e.permitted /\ r.candidate = NoSlot
  BY <1>1 DEF WellFormed, Upload, Admitted, Admissible
<1> QED BY <1>1, <1>2 DEF Stamped, Invalidated, Metadata, NextSequence, NoSlot

(* The stored image becomes the READY candidate without a history.         *)
LEMMA AcceptChange ==
  ASSUME NEW r, WellFormed(r), NEW e \in Upload, NEW m \in Manifest,
         AcceptReady(r, e, m).result = "CHANGE"
  PROVE  LET n == AcceptReady(r, e, m).record IN
         /\ Admitted(r, e) /\ m = e.incoming /\ WellFormed(n)
         /\ n.sequence = r.sequence + 1
         /\ n.images = [r.images EXCEPT ![m.slot] = FreshEntry(m.image, "READY", r.sequence + 1)]
         /\ n.current = r.current /\ n.candidate = m.slot
         /\ n.confirmed = r.confirmed /\ n.intent = r.intent
<1>1. /\ AcceptReady(r, e, m).record = Stamped(r, Accepted(r, m))
      /\ Admitted(r, e) /\ m = e.incoming /\ WellFormed(AcceptReady(r, e, m).record)
  BY AcceptReadyAnswer
<1>2. r \in Metadata /\ m.slot \in Slot
  BY DEF WellFormed, Manifest
<1> QED BY <1>1, <1>2 DEF Stamped, Accepted, Metadata, NextSequence

(* The candidate is on trial.                                              *)
LEMMA TrialChange ==
  ASSUME NEW r, WellFormed(r), NEW m \in Manifest, BeginTrial(r, m).result = "CHANGE"
  PROVE  LET n == BeginTrial(r, m).record IN
         /\ ImageMatches(r, m) /\ r.images[m.slot].state = "READY" /\ WellFormed(n)
         /\ n.sequence = r.sequence + 1
         /\ n.images = [r.images EXCEPT ![m.slot] = [r.images[m.slot] EXCEPT !.state = "TRIAL"]]
         /\ n.current = r.current /\ n.candidate = r.candidate
         /\ n.confirmed = r.confirmed /\ n.intent = r.intent
<1>1. /\ BeginTrial(r, m).record = Stamped(r, [r EXCEPT !.images[m.slot].state = "TRIAL"])
      /\ r.images[m.slot].state = "READY" /\ WellFormed(BeginTrial(r, m).record)
  BY BeginTrialAnswer
<1>2. r \in Metadata /\ m.slot \in Slot
  BY DEF WellFormed, Manifest
<1>3. ImageMatches(r, m)
  BY DEF BeginTrial, Executable, ExecutionError, Refuse
<1> QED BY <1>1, <1>2, <1>3 DEF Stamped, Metadata, NextSequence

(* The running trial is confirmed and current, and keeps its history.      *)
LEMMA ConfirmChange ==
  ASSUME NEW r, WellFormed(r), NEW q, NEW m \in Manifest, NEW well,
         Confirm(r, q, m, well).result = "CHANGE"
  PROVE  LET n == Confirm(r, q, m, well).record IN
         /\ WellFormed(n)
         /\ n.sequence = r.sequence + 1
         /\ \A t \in Slot : /\ t # m.slot => n.images[t] = r.images[t]
                            /\ n.images[t].image = r.images[t].image
                            /\ n.images[t].count = r.images[t].count
         /\ n.images[m.slot].state = "NONE"
         /\ n.current = m.slot /\ n.candidate = NoSlot
         /\ n.confirmed = r.confirmed \cup {m.slot} /\ n.intent = NoIntent
<1> DEFINE n == Confirm(r, q, m, well).record
<1>1. n = Stamped(r, Confirmed(r, m.slot)) /\ WellFormed(n)
  BY ConfirmAnswer
<1>2. r \in Metadata /\ m.slot \in Slot
  BY DEF WellFormed, Manifest
<1> HIDE DEF n
<1>3. n.images = [r.images EXCEPT ![m.slot] = [r.images[m.slot] EXCEPT !.state = "NONE"]]
  BY <1>1, <1>2 DEF Stamped, Confirmed, Metadata
<1>4. /\ n.sequence = r.sequence + 1 /\ n.current = m.slot /\ n.candidate = NoSlot
      /\ n.confirmed = r.confirmed \cup {m.slot} /\ n.intent = NoIntent
  BY <1>1, <1>2 DEF Stamped, Confirmed, Metadata, NextSequence
<1>5. \A t \in Slot : /\ t # m.slot => n.images[t] = r.images[t]
                      /\ n.images[t].image = r.images[t].image
                      /\ n.images[t].count = r.images[t].count
  BY <1>2, <1>3 DEF Metadata, Entry
<1>6. n.images[m.slot].state = "NONE"
  BY <1>2, <1>3 DEF Metadata, Entry
<1> QED BY <1>1, <1>4, <1>5, <1>6 DEF n

(* A request that changes nothing names an image that is confirmed.        *)
LEMMA ConfirmUnchanged ==
  ASSUME NEW r, NEW q, NEW well, NEW m \in Manifest, WellFormed(r),
         Confirm(r, q, m, well).result = "NO_CHANGE"
  PROVE  m.slot \in r.confirmed
BY DEF Confirm, Finish, Refuse, ExecutionError

(* One failure more; the third one rejects the trial.                      *)
LEMMA CountChange ==
  ASSUME NEW r, WellFormed(r), NEW flags \in SUBSET ResetFlag,
         ResetPropose(r, flags).result = "CHANGE"
  PROVE  LET n == ResetPropose(r, flags).record
             s == r.candidate IN
         /\ s \in Slot /\ r.images[s].state = "TRIAL" /\ Categories(r, flags) # {}
         /\ WellFormed(n)
         /\ n.sequence = r.sequence + 1
         /\ \A t \in Slot \ {s} : n.images[t] = r.images[t]
         /\ n.images[s].image = r.images[s].image
         /\ n.images[s].count = r.images[s].count + 1
         /\ n.images[s].state \in {"TRIAL", "REJECTED"}
         /\ n.current = r.current /\ n.confirmed = r.confirmed
         /\ n.intent \in {NoIntent, r.intent}
<1> DEFINE s == r.candidate
           why == ReasonOf(Categories(r, flags))
           consume == IntentMatches(r)
           c == CountFailure(r.images[s], why)
           n == ResetPropose(r, flags).record
<1>1. /\ s \in Slot /\ r.images[s].state = "TRIAL" /\ Categories(r, flags) # {}
      /\ n = Stamped(r, Counted(r, s, why, consume)) /\ WellFormed(n)
  BY ResetAnswer
<1>2. why \in Reason /\ consume \in BOOLEAN
  BY <1>1, ReasonType DEF IntentMatches
<1>3. r \in Metadata /\ r.images[s] \in Entry /\ EntryValid(r.images[s])
  BY <1>1 DEF WellFormed, Metadata, MetadataValid, ImageRulesValid
<1> HIDE DEF s, why, consume, n
<1>4. /\ c \in Entry /\ c.count = r.images[s].count + 1
      /\ c.image = r.images[s].image /\ c.state = "TRIAL"
  BY <1>1, <1>2, <1>3, CountedEntry
<1>5. RejectTrial(c).count = c.count /\ RejectTrial(c).image = c.image
      /\ RejectTrial(c).state = "REJECTED"
  BY <1>4 DEF RejectTrial, Entry
<1>6. \E x \in {c, RejectTrial(c)} :
        /\ n.images = [r.images EXCEPT ![s] = x]
        /\ n.sequence = r.sequence + 1 /\ n.current = r.current
        /\ n.confirmed = r.confirmed /\ n.intent \in {NoIntent, r.intent}
  <2> HIDE DEF c
  <2>1. CASE r.images[s].count = 2
    BY <1>1, <1>3, <2>1 DEF Stamped, Counted, Metadata, NextSequence, c
  <2>2. CASE r.images[s].count # 2
    BY <1>1, <1>3, <2>2 DEF Stamped, Counted, Metadata, NextSequence, c
  <2> QED BY <2>1, <2>2
<1> HIDE DEF c
<1>7. PICK x \in {c, RejectTrial(c)} :
        /\ n.images = [r.images EXCEPT ![s] = x]
        /\ n.sequence = r.sequence + 1 /\ n.current = r.current
        /\ n.confirmed = r.confirmed /\ n.intent \in {NoIntent, r.intent}
  BY <1>6
<1>8. n.images[s] = x /\ \A t \in Slot \ {s} : n.images[t] = r.images[t]
  BY <1>1, <1>3, <1>7 DEF Metadata
<1> QED BY <1>1, <1>4, <1>5, <1>7, <1>8 DEF s, n

(* The fallback takes the place of the current image.                      *)
LEMMA PromoteChange ==
  ASSUME NEW r, WellFormed(r), NEW bad \in Identity, NEW failure, NEW m \in Manifest,
         PromotePrevious(r, bad, failure, m).result = "CHANGE"
  PROVE  LET n == PromotePrevious(r, bad, failure, m).record IN
         /\ WellFormed(n)
         /\ n.sequence = r.sequence + 1 /\ n.images = r.images
         /\ n.current = r.previous /\ r.previous \in Slot /\ n.candidate = NoSlot
         /\ n.confirmed = r.confirmed \ {r.current} /\ n.intent = r.intent
<1>1. /\ PromotePrevious(r, bad, failure, m).record = Stamped(r, Promoted(r, r.current))
      /\ WellFormed(PromotePrevious(r, bad, failure, m).record)
      /\ r.previous \in Slot /\ r.candidate = NoSlot
  BY PromoteAnswer
<1>2. r \in Metadata
  BY DEF WellFormed
<1> QED BY <1>1, <1>2 DEF Stamped, Promoted, Metadata, NextSequence
=============================================================================
