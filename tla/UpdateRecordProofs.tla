------------------------- MODULE UpdateRecordProofs -------------------------
(***************************************************************************)
(* Proofs, for every set of images and every maximal sequence, of the      *)
(* properties of UpdateRecord and TrialHistory, from what the rules answer.*)
(***************************************************************************)
EXTENDS TrialHistory, BootLifecycleProofs

-----------------------------------------------------------------------------
(* The inductive invariant, and the seven forms a step takes under it.     *)

IInv == WellFormed(rec) /\ rec.current \in Slot

IsInvalidate == \E s \in Slot :
  /\ s # rec.current /\ rec.candidate = NoSlot
  /\ rec' = Stamped(rec, Invalidated(rec, s))
IsAccept == \E m \in Manifest :
  /\ rec.candidate = NoSlot /\ rec.images[m.slot].image = NoImage
  /\ rec' = Stamped(rec, Accepted(rec, m))
IsTrial == \E s \in Slot :
  /\ rec.candidate = s /\ rec.images[s].state = "READY"
  /\ rec' = Stamped(rec, [rec EXCEPT !.images[s].state = "TRIAL"])
IsConfirm == \E s \in Slot :
  /\ rec.candidate = s /\ rec.images[s].state = "TRIAL"
  /\ rec' = Stamped(rec, Confirmed(rec, s))
IsCounted == \E s \in Slot, why \in Reason, consume \in BOOLEAN :
  /\ rec.candidate = s /\ rec.images[s].state = "TRIAL"
  /\ rec' = Stamped(rec, Counted(rec, s, why, consume))
IsPromote ==
  /\ rec.current \in Slot /\ rec.previous \in Slot /\ rec.candidate = NoSlot
  /\ rec' = Stamped(rec, Promoted(rec, rec.current))
IsDeadline == \E s \in Slot :
  rec' = Stamped(rec, [rec EXCEPT !.intent =
           [kind |-> "DEADLINE", slot |-> s, trial_id |-> rec.images[s].trial_id]])

(* A step commits the answer of exactly one of the rules, and the record   *)
(* stays well formed.                                                      *)
LEMMA StepForms ==
  ASSUME IInv, Next
  PROVE  /\ WellFormed(rec')
         /\ \/ IsInvalidate \/ IsAccept \/ IsTrial \/ IsConfirm
            \/ IsCounted \/ IsPromote \/ IsDeadline
<1>0. WellFormed(rec)  BY DEF IInv
<1>1. CASE InvalidateSlot
  <2>1. PICK e \in Upload : Commit(Invalidate(rec, e))  BY <1>1 DEF InvalidateSlot
  <2>2. e.permitted \in Slot  BY DEF Upload
  <2> QED BY <1>0, <2>1, <2>2, InvalidateAnswer
          DEF Commit, IsInvalidate, Admitted, Admissible
<1>2. CASE AcceptUpload
  <2>1. PICK e \in Upload, m \in Manifest : Commit(AcceptReady(rec, e, m))
    BY <1>2 DEF AcceptUpload
  <2> QED BY <1>0, <2>1, AcceptReadyAnswer
          DEF Commit, IsAccept, Admitted, Admissible
<1>3. CASE LaunchCandidate
  <2>1. PICK m \in Manifest : Commit(BeginTrial(rec, m))  BY <1>3 DEF LaunchCandidate
  <2>2. m.slot \in Slot  BY DEF Manifest
  <2> QED BY <1>0, <2>1, <2>2, BeginTrialAnswer DEF Commit, IsTrial
<1>4. CASE ConfirmRunning
  <2>1. PICK q \in ConfirmRequest, m \in Manifest, h \in BOOLEAN :
          Commit(Confirm(rec, q, m, h))
    BY <1>4 DEF ConfirmRunning
  <2>2. m.slot \in Slot  BY DEF Manifest
  <2> QED BY <1>0, <2>1, <2>2, ConfirmAnswer DEF Commit, IsConfirm
<1>5. CASE AccountReset
  <2>1. PICK flags \in SUBSET ResetFlag : Commit(ResetPropose(rec, flags))
    BY <1>5 DEF AccountReset
  <2>2. ResetPropose(rec, flags).result = "CHANGE"
        /\ rec' = ResetPropose(rec, flags).record
    BY <2>1 DEF Commit
  <2>3. IntentMatches(rec) \in BOOLEAN  BY DEF IntentMatches
  <2>4. /\ rec.candidate \in Slot /\ rec.images[rec.candidate].state = "TRIAL"
        /\ Categories(rec, flags) # {}
        /\ rec' = Stamped(rec, Counted(rec, rec.candidate,
                     ReasonOf(Categories(rec, flags)), IntentMatches(rec)))
        /\ WellFormed(rec')
    BY <1>0, <2>2, ResetAnswer
  <2>5. ReasonOf(Categories(rec, flags)) \in Reason  BY <2>4, ReasonType
  <2> QED BY <2>3, <2>4, <2>5 DEF IsCounted
<1>6. CASE FallBack
  <2>1. PICK bad \in Identity, f \in VerifyResult \ {"OK"}, m \in Manifest :
          Commit(PromotePrevious(rec, bad, f, m))
    BY <1>6 DEF FallBack
  <2> QED BY <1>0, <2>1, PromoteAnswer DEF Commit, IsPromote
<1>7. CASE RecordDeadline
  <2>1. PICK s \in Slot, t \in 0..MaxSeq, m \in Manifest :
          Commit(DeadlineIntent(rec, s, t, m))
    BY <1>7 DEF RecordDeadline
  <2>2. /\ DeadlineIntent(rec, s, t, m).result = "CHANGE"
        /\ rec' = DeadlineIntent(rec, s, t, m).record
    BY <2>1 DEF Commit
  <2>3. /\ WellFormed(rec')
        /\ rec' = Stamped(rec, [rec EXCEPT !.intent =
             [kind |-> "DEADLINE", slot |-> s, trial_id |-> rec.images[s].trial_id]])
    BY <1>0, <2>2, DeadlineAnswer
  <2> QED BY <2>3 DEF IsDeadline
<1> QED BY <1>1, <1>2, <1>3, <1>4, <1>5, <1>6, <1>7 DEF Next

(* The factory record satisfies the invariant.                             *)
LEMMA InitBootable == Init => IInv
BY FactoryWellFormed DEF Init, IInv

(* A step keeps the current role assigned.                                 *)
LEMMA StepBootable == IInv /\ [Next]_rec => IInv'
<1> SUFFICES ASSUME IInv, [Next]_rec PROVE IInv'
  OBVIOUS
<1>1. CASE UNCHANGED rec  BY <1>1 DEF IInv
<1>2. CASE Next
  <2>1. WellFormed(rec')  BY <1>2, StepForms
  <2>0. rec \in Metadata /\ rec.current \in Slot  BY DEF IInv, WellFormed
  <2>2. rec'.current \in Slot
    <3>1. CASE IsInvalidate
      BY <2>0, <3>1 DEF IsInvalidate, Stamped, Invalidated, Metadata
    <3>2. CASE IsAccept
      BY <2>0, <3>2 DEF IsAccept, Stamped, Accepted, Metadata
    <3>3. CASE IsTrial
      BY <2>0, <3>3 DEF IsTrial, Stamped, Metadata
    <3>4. CASE IsConfirm
      BY <2>0, <3>4 DEF IsConfirm, Stamped, Confirmed, Metadata
    <3>5. CASE IsCounted
      BY <2>0, <3>5 DEF IsCounted, Stamped, Counted, Metadata
    <3>6. CASE IsPromote
      BY <2>0, <3>6 DEF IsPromote, Stamped, Promoted, Metadata
    <3>7. CASE IsDeadline
      BY <2>0, <3>7 DEF IsDeadline, Stamped, Metadata
    <3> QED BY <1>2, <3>1, <3>2, <3>3, <3>4, <3>5, <3>6, <3>7, StepForms
  <2> QED BY <2>1, <2>2 DEF IInv
<1> QED BY <1>1, <1>2

(* Every committed record is well typed, valid and names a current image.  *)
THEOREM BootableTheorem == Spec => [](TypeOK /\ AlwaysBootable)
<1>1. IInv => TypeOK /\ AlwaysBootable
  BY DEF IInv, WellFormed, TypeOK, AlwaysBootable, Metadata
<1> QED BY <1>1, InitBootable, StepBootable, PTL DEF Spec

(* No operation ever computes a proposal that finish refuses.              *)
THEOREM NoRefusalTheorem == Spec => []NoRefusedProposal
<1>1. IInv => NoRefusedProposal
  <2> SUFFICES ASSUME WellFormed(rec) PROVE NoRefusedProposal
    BY DEF IInv
  <2>1. \A e \in Upload : Invalidate(rec, e).result # "RECORD"
    BY InvalidateAnswer
  <2>2. \A e \in Upload, m \in Manifest : AcceptReady(rec, e, m).result # "RECORD"
    BY AcceptReadyAnswer
  <2>3. \A m \in Manifest : BeginTrial(rec, m).result # "RECORD"
    BY BeginTrialAnswer
  <2>4. \A q \in ConfirmRequest, m \in Manifest :
          Confirm(rec, q, m, TRUE).result # "RECORD"
    BY ConfirmAnswer
  <2>5. \A flags \in SUBSET ResetFlag :
          ResetPropose(rec, flags).result # "RECORD"
    BY ResetAnswer
  <2>6. \A bad \in Identity, m \in Manifest :
          PromotePrevious(rec, bad, "INVALID", m).result # "RECORD"
    BY PromoteAnswer
  <2>7. \A s \in Slot, t \in 0..MaxSeq, m \in Manifest :
          DeadlineIntent(rec, s, t, m).result # "RECORD"
    BY DeadlineAnswer
  <2> QED BY <2>1, <2>2, <2>3, <2>4, <2>5, <2>6, <2>7 DEF NoRefusedProposal
<1> QED BY <1>1, InitBootable, StepBootable, PTL DEF Spec

-----------------------------------------------------------------------------
(* How each form of a step changes the entries, roles and history.         *)

(* Every step empties a slot, fills one, begins or ends a trial, counts a  *)
(* failure of the trial, or leaves the entries alone.                      *)
LEMMA StepImages ==
  ASSUME IInv, Next
  PROVE  \/ \E s \in Slot :
              /\ s # rec.current /\ rec.candidate = NoSlot
              /\ rec'.images = [rec.images EXCEPT ![s] = EmptyEntry]
         \/ \E m \in Manifest :
              /\ rec.images[m.slot].image = NoImage
              /\ rec'.images = [rec.images EXCEPT
                    ![m.slot] = FreshEntry(m.image, "READY", rec.sequence + 1)]
         \/ \E s \in Slot, st \in {"NONE", "TRIAL"} :
              /\ rec.images[s].state \in {"READY", "TRIAL"}
              /\ rec'.images =
                   [rec.images EXCEPT ![s] = [rec.images[s] EXCEPT !.state = st]]
         \/ \E s \in Slot, why \in Reason :
              /\ rec.images[s].state = "TRIAL"
              /\ LET c == CountFailure(rec.images[s], why) IN
                 \/ rec'.images = [rec.images EXCEPT ![s] = c]
                 \/ rec'.images = [rec.images EXCEPT ![s] = RejectTrial(c)]
         \/ rec'.images = rec.images
<1>0. rec \in Metadata  BY DEF IInv, WellFormed
<1>1. CASE IsInvalidate
  BY <1>0, <1>1 DEF IsInvalidate, Stamped, Invalidated, Metadata
<1>2. CASE IsAccept
  BY <1>0, <1>2 DEF IsAccept, Stamped, Accepted, Metadata, NextSequence
<1>3. CASE IsTrial
  BY <1>0, <1>3 DEF IsTrial, Stamped, Metadata
<1>4. CASE IsConfirm
  BY <1>0, <1>4 DEF IsConfirm, Stamped, Confirmed, Metadata
<1>5. CASE IsCounted
  <2>1. PICK s \in Slot, why \in Reason, consume \in BOOLEAN :
          /\ rec.candidate = s /\ rec.images[s].state = "TRIAL"
          /\ rec' = Stamped(rec, Counted(rec, s, why, consume))
    BY <1>5 DEF IsCounted
  <2> DEFINE c == CountFailure(rec.images[s], why)
  <2>2. \/ rec'.images = [rec.images EXCEPT ![s] = c]
        \/ rec'.images = [rec.images EXCEPT ![s] = RejectTrial(c)]
    <3>1. CASE rec.images[s].count = 2
      BY <1>0, <2>1, <3>1 DEF Stamped, Counted, Metadata
    <3>2. CASE rec.images[s].count # 2
      BY <1>0, <2>1, <3>2 DEF Stamped, Counted, Metadata
    <3> QED BY <3>1, <3>2
  <2> QED BY <2>1, <2>2
<1>6. CASE IsPromote
  BY <1>0, <1>6 DEF IsPromote, Stamped, Promoted, Metadata
<1>7. CASE IsDeadline
  BY <1>0, <1>7 DEF IsDeadline, Stamped, Metadata
<1> QED BY <1>1, <1>2, <1>3, <1>4, <1>5, <1>6, <1>7, StepForms

(* Every committed record has the next sequence.                           *)
LEMMA StepSequence ==
  ASSUME IInv, Next
  PROVE  rec.sequence \in Nat /\ rec'.sequence = rec.sequence + 1
<1>0. rec \in Metadata /\ rec' \in Metadata /\ rec.sequence \in Nat
  BY StepForms, MaxSeqAssumption DEF IInv, WellFormed, Metadata
<1>1. CASE IsInvalidate
  BY <1>0, <1>1 DEF IsInvalidate, Stamped, Invalidated, Metadata, NextSequence
<1>2. CASE IsAccept
  BY <1>0, <1>2 DEF IsAccept, Stamped, Accepted, Metadata, NextSequence
<1>3. CASE IsTrial
  BY <1>0, <1>3 DEF IsTrial, Stamped, Metadata, NextSequence
<1>4. CASE IsConfirm
  BY <1>0, <1>4 DEF IsConfirm, Stamped, Confirmed, Metadata, NextSequence
<1>5. CASE IsCounted
  BY <1>0, <1>5 DEF IsCounted, Stamped, Counted, Metadata, NextSequence
<1>6. CASE IsPromote
  BY <1>0, <1>6 DEF IsPromote, Stamped, Promoted, Metadata, NextSequence
<1>7. CASE IsDeadline
  BY <1>0, <1>7 DEF IsDeadline, Stamped, Metadata, NextSequence
<1> QED BY <1>0, <1>1, <1>2, <1>3, <1>4, <1>5, <1>6, <1>7, StepForms

(* Only an accepted upload gives a slot an image, with the sequence of its *)
(* record as the id; an image that stays keeps its id.                     *)
LEMMA StepIds ==
  ASSUME IInv, Next, NEW t \in Slot
  PROVE  /\ Given(t) => rec'.images[t].trial_id = rec'.sequence
         /\ rec.images[t].image # NoImage /\ rec'.images[t].image # NoImage =>
              /\ rec'.images[t].image = rec.images[t].image
              /\ rec'.images[t].trial_id = rec.images[t].trial_id
<1> DEFINE Goal ==
      /\ Given(t) => rec'.images[t].trial_id = rec'.sequence
      /\ rec.images[t].image # NoImage /\ rec'.images[t].image # NoImage =>
           /\ rec'.images[t].image = rec.images[t].image
           /\ rec'.images[t].trial_id = rec.images[t].trial_id
<1>0. rec.images \in [Slot -> Entry]
  BY DEF IInv, WellFormed, Metadata
<1>1. ASSUME NEW s \in Slot, rec'.images = [rec.images EXCEPT ![s] = EmptyEntry]
      PROVE  Goal
  BY <1>0, <1>1 DEF Given, EmptyEntry, FreshEntry
<1>2. ASSUME NEW m \in Manifest, rec.images[m.slot].image = NoImage,
             rec'.images = [rec.images EXCEPT
               ![m.slot] = FreshEntry(m.image, "READY", rec.sequence + 1)]
      PROVE  Goal
  <2>1. m.slot \in Slot /\ rec'.sequence = rec.sequence + 1
    BY StepSequence DEF Manifest
  <2>2. FreshEntry(m.image, "READY", rec.sequence + 1).trial_id = rec.sequence + 1
    BY DEF FreshEntry
  <2> QED BY <1>0, <1>2, <2>1, <2>2 DEF Given
<1>3. ASSUME NEW s \in Slot, NEW e, rec'.images = [rec.images EXCEPT ![s] = e],
             e.image = rec.images[s].image, e.trial_id = rec.images[s].trial_id
      PROVE  Goal
  BY <1>0, <1>3 DEF Given
<1>4. ASSUME NEW s \in Slot, NEW st,
             rec'.images = [rec.images EXCEPT ![s] = [rec.images[s] EXCEPT !.state = st]]
      PROVE  Goal
  <2> DEFINE e == [rec.images[s] EXCEPT !.state = st]
  <2>1. e.image = rec.images[s].image /\ e.trial_id = rec.images[s].trial_id
    BY <1>0 DEF Entry
  <2>2. rec'.images = [rec.images EXCEPT ![s] = e]
    BY <1>4
  <2> HIDE DEF e, Goal
  <2> QED BY <1>3, <2>1, <2>2
<1>5. ASSUME NEW s \in Slot, NEW why,
             LET c == CountFailure(rec.images[s], why) IN
             \/ rec'.images = [rec.images EXCEPT ![s] = c]
             \/ rec'.images = [rec.images EXCEPT ![s] = RejectTrial(c)]
      PROVE  Goal
  <2> DEFINE c == CountFailure(rec.images[s], why)
  <2>1. /\ c.image = rec.images[s].image /\ c.trial_id = rec.images[s].trial_id
        /\ RejectTrial(c).image = rec.images[s].image
        /\ RejectTrial(c).trial_id = rec.images[s].trial_id
    BY <1>0 DEF CountFailure, RejectTrial, Entry
  <2>2. \/ rec'.images = [rec.images EXCEPT ![s] = c]
        \/ rec'.images = [rec.images EXCEPT ![s] = RejectTrial(c)]
    BY <1>5
  <2> HIDE DEF c, Goal
  <2> QED BY <1>3, <2>1, <2>2
<1>6. rec'.images = rec.images => Goal
  BY DEF Given
<1> HIDE DEF Goal
<1>7. Goal
  BY <1>1, <1>2, <1>4, <1>5, <1>6, StepImages
<1> QED BY <1>7 DEF Goal

(* The ids given so far are the sequences of records that are past.        *)
Spent == used \subseteq 1..rec.sequence

(* A step gives no id but the next sequence.                               *)
LEMMA StepSpent ==
  ASSUME IInv, Spent, [HistoryNext]_<<rec, used>>
  PROVE  Spent'
<1>1. CASE UNCHANGED <<rec, used>>
  BY <1>1 DEF Spent
<1>2. CASE HistoryNext
  <2>0. Next  BY <1>2 DEF HistoryNext
  <2>1. rec.sequence \in Nat /\ rec'.sequence = rec.sequence + 1
    BY <2>0, StepSequence
  <2>2. \A s \in Slot : Given(s) => rec'.images[s].trial_id = rec'.sequence
    BY <2>0, StepIds
  <2>3. used' = used \cup {rec'.images[s].trial_id : s \in {t \in Slot : Given(t)}}
    BY <1>2 DEF HistoryNext
  <2>4. used' \subseteq used \cup {rec'.sequence}
    BY <2>2, <2>3
  <2> QED BY <2>1, <2>4 DEF Spent
<1> QED BY <1>1, <1>2

(* An id is given to one upload, ever: it is the sequence of the record    *)
(* that accepts it, and all ids given before are smaller.                  *)
THEOREM TrialIdsTheorem == HistorySpec => TrialIdsUnique
<1>1. HistoryInit => IInv /\ Spent
  BY InitBootable DEF HistoryInit, Spent
<1>2. IInv /\ Spent /\ [HistoryNext]_<<rec, used>> => (IInv /\ Spent)'
  BY StepBootable, StepSpent DEF HistoryNext
<1>3. IInv /\ Spent /\ [HistoryNext]_<<rec, used>> => [TrialIdStep]_<<rec, used>>
  <2> SUFFICES ASSUME IInv, Spent, HistoryNext, NEW s \in Slot
               PROVE  /\ Given(s) => rec'.images[s].trial_id \notin used \cup {0}
                      /\ rec.images[s].image # NoImage /\ rec'.images[s].image # NoImage =>
                           /\ rec'.images[s].image = rec.images[s].image
                           /\ rec'.images[s].trial_id = rec.images[s].trial_id
    BY DEF TrialIdStep
  <2>0. Next  BY DEF HistoryNext
  <2>1. rec.sequence \in Nat /\ rec'.sequence = rec.sequence + 1
    BY <2>0, StepSequence
  <2>2. rec'.sequence \notin used \cup {0}
    BY <2>1 DEF Spent
  <2> QED BY <2>0, <2>2, StepIds
<1> QED BY <1>1, <1>2, <1>3, PTL DEF HistorySpec, TrialIdsUnique

(* What is counted against an upload is never forgotten or rewritten.      *)
THEOREM HistoryTheorem == Spec => HistoryKept
<1>1. IInv /\ [Next]_rec => [HistoryStep]_rec
  <2> SUFFICES ASSUME IInv, Next, NEW t \in Slot,
                      SameTrial(rec.images[t], rec'.images[t])
               PROVE  HistoryGrows(rec.images[t], rec'.images[t])
    BY DEF HistoryStep
  <2>0. /\ rec \in Metadata /\ rec.images[t] \in Entry
        /\ EntryValid(rec.images[t])
        /\ rec.images[t].trial_id <= rec.sequence
        /\ rec.sequence \in Nat /\ rec.images[t].trial_id \in Nat
    BY MaxSeqAssumption
       DEF IInv, WellFormed, Metadata, MetadataValid, ImageRulesValid, Entry
  <2>1. rec'.images[t] = rec.images[t] => HistoryGrows(rec.images[t], rec'.images[t])
    BY <2>0 DEF HistoryGrows, Entry
  <2>2. ASSUME NEW s \in Slot,
               rec'.images = [rec.images EXCEPT ![s] = EmptyEntry]
        PROVE  HistoryGrows(rec.images[t], rec'.images[t])
    <3>1. CASE s = t
      <4>1. rec'.images[t] = EmptyEntry  BY <2>0, <2>2, <3>1 DEF Metadata
      <4>2. rec.images[t] = EmptyEntry
        BY <2>0, <4>1 DEF SameTrial, EntryValid, EmptyEntry, FreshEntry
      <4> QED BY <2>1, <4>1, <4>2
    <3>2. CASE s # t  BY <2>0, <2>1, <2>2, <3>2 DEF Metadata
    <3> QED BY <3>1, <3>2
  <2>3. ASSUME NEW m \in Manifest,
               rec'.images = [rec.images EXCEPT
                 ![m.slot] = FreshEntry(m.image, "READY", rec.sequence + 1)]
        PROVE  HistoryGrows(rec.images[t], rec'.images[t])
    <3>1. m.slot \in Slot  BY DEF Manifest
    <3>2. CASE m.slot = t
      <4>1. rec'.images[t] = FreshEntry(m.image, "READY", rec.sequence + 1)
        BY <2>0, <2>3, <3>2 DEF Metadata
      <4>2. rec'.images[t].trial_id = rec.sequence + 1
        BY <4>1 DEF FreshEntry
      <4> QED BY <2>0, <4>2 DEF SameTrial
    <3>3. CASE m.slot # t  BY <2>0, <2>1, <2>3, <3>1, <3>3 DEF Metadata
    <3> QED BY <3>2, <3>3
  <2>4. ASSUME NEW s \in Slot, NEW e,
               rec'.images = [rec.images EXCEPT ![s] = e],
               HistoryGrows(rec.images[s], e)
        PROVE  HistoryGrows(rec.images[t], rec'.images[t])
    <3>1. CASE s = t  BY <2>0, <2>4, <3>1 DEF Metadata
    <3>2. CASE s # t  BY <2>0, <2>1, <2>4, <3>2 DEF Metadata
    <3> QED BY <3>1, <3>2
  <2>5. ASSUME NEW s \in Slot, NEW st
        PROVE  HistoryGrows(rec.images[s], [rec.images[s] EXCEPT !.state = st])
    <3>1. rec.images[s] \in Entry  BY <2>0 DEF Metadata
    <3> QED BY <3>1 DEF HistoryGrows, Entry
  <2>6. ASSUME NEW s \in Slot, NEW why \in Reason, rec.images[s].state = "TRIAL"
        PROVE  LET c == CountFailure(rec.images[s], why) IN
               /\ HistoryGrows(rec.images[s], c)
               /\ HistoryGrows(rec.images[s], RejectTrial(c))
    <3> DEFINE e == rec.images[s]
               c == CountFailure(e, why)
    <3>1. e \in Entry /\ EntryValid(e)
      BY DEF IInv, WellFormed, Metadata, MetadataValid, ImageRulesValid
    <3>2. /\ c \in Entry /\ c.count = e.count + 1
          /\ \A i \in 1..3 : i <= e.count => c.reasons[i] = e.reasons[i]
      <4> HIDE DEF e
      <4> QED BY <2>6, <3>1, CountedEntry DEF e
    <3> HIDE DEF e, c
    <3>3. RejectTrial(c).count = c.count /\ RejectTrial(c).reasons = c.reasons
      BY <3>2 DEF RejectTrial, Entry
    <3> QED BY <3>2, <3>3 DEF HistoryGrows, e, c
  <2> QED BY <2>1, <2>2, <2>3, <2>4, <2>5, <2>6, StepImages
<1> QED BY <1>1, InitBootable, StepBootable, PTL DEF Spec, HistoryKept

(* A rejected upload is never tried, confirmed or counted again.           *)
THEOREM RejectedTheorem == Spec => RejectedIsFinal
<1>1. IInv /\ [Next]_rec => [RejectedStep]_rec
  <2> SUFFICES ASSUME IInv, Next, NEW t \in Slot,
                      rec.images[t].state = "REJECTED"
               PROVE  rec'.images[t] \in {rec.images[t], EmptyEntry}
    BY DEF RejectedStep
  <2>0. /\ rec \in Metadata /\ EntryValid(rec.images[t])
    BY DEF IInv, WellFormed, Metadata, MetadataValid, ImageRulesValid
  <2>1. rec.images[t].image # NoImage
    BY <2>0 DEF EntryValid, EmptyEntry, FreshEntry
  <2>2. ASSUME NEW s \in Slot, NEW e,
               rec'.images = [rec.images EXCEPT ![s] = e],
               s # t \/ e = EmptyEntry
        PROVE  rec'.images[t] \in {rec.images[t], EmptyEntry}
    BY <2>0, <2>2 DEF Metadata
  <2>3. \A m \in Manifest : m.slot \in Slot  BY DEF Manifest
  <2> QED BY <2>1, <2>2, <2>3, StepImages
<1> QED BY <1>1, InitBootable, StepBootable, PTL DEF Spec, RejectedIsFinal

(* The current image gives way only to a confirmed one.                    *)
THEOREM CurrentTheorem == Spec => CurrentMovesSafely
<1>1. IInv /\ [Next]_rec => [CurrentStep]_rec
  <2> SUFFICES ASSUME IInv, Next, rec'.current # rec.current PROVE CurrentStep
    BY DEF CurrentStep
  <2>0. rec \in Metadata /\ RolesValid(rec) /\ rec.current \in Slot
    BY DEF IInv, WellFormed, MetadataValid
  <2>1. CASE IsInvalidate
    BY <2>0, <2>1 DEF IsInvalidate, Stamped, Invalidated, Metadata
  <2>2. CASE IsAccept
    BY <2>0, <2>2 DEF IsAccept, Stamped, Accepted, Metadata
  <2>3. CASE IsTrial
    BY <2>0, <2>3 DEF IsTrial, Stamped, Metadata
  <2>4. CASE IsConfirm
    BY <2>0, <2>4
       DEF IsConfirm, Stamped, Confirmed, Metadata, CurrentStep, RolesValid,
           Slot, NoSlot
  <2>5. CASE IsCounted
    BY <2>0, <2>5 DEF IsCounted, Stamped, Counted, Metadata
  <2>6. CASE IsPromote
    BY <2>0, <2>6 DEF IsPromote, Stamped, Promoted, Metadata, CurrentStep
  <2>7. CASE IsDeadline
    BY <2>0, <2>7 DEF IsDeadline, Stamped, Metadata
  <2> QED BY <2>1, <2>2, <2>3, <2>4, <2>5, <2>6, <2>7, StepForms
<1> QED BY <1>1, InitBootable, StepBootable, PTL DEF Spec, CurrentMovesSafely
=============================================================================
