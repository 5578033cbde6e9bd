---------------------------- MODULE UpdateRecord ----------------------------
(***************************************************************************)
(* The life of the authoritative record: every transition rule of          *)
(* BootLifecycle applied, with any evidence the interface admits, to the   *)
(* record last committed.  It is the abstract specification of the update  *)
(* system: what the durable record may do, whoever asks and whatever       *)
(* crashes in between.                                                     *)
(***************************************************************************)
EXTENDS BootLifecycle

VARIABLE rec   \* the authoritative record in flash

TypeOK == rec \in Metadata

Init == \E img \in [Slot -> Image] : rec = FactoryRecord(img)

(* Only a CHANGE is handed to the store; every other result writes nothing. *)
Commit(proposal) ==
  /\ proposal.result = "CHANGE"
  /\ rec' = proposal.record

InvalidateSlot == \E e \in Upload : Commit(Invalidate(rec, e))

AcceptUpload ==
  \E e \in Upload, stored \in Manifest : Commit(AcceptReady(rec, e, stored))

LaunchCandidate == \E m \in Manifest : Commit(BeginTrial(rec, m))

ConfirmRunning ==
  \E request \in ConfirmRequest, running \in Manifest, healthy \in BOOLEAN :
    Commit(Confirm(rec, request, running, healthy))

AccountReset == \E flags \in SUBSET ResetFlag : Commit(ResetPropose(rec, flags))

FallBack ==
  \E bad \in Identity, failure \in VerifyResult \ {"OK"}, previous \in Manifest :
    Commit(PromotePrevious(rec, bad, failure, previous))

RecordDeadline ==
  \E slot \in Slot, trial_id \in 0..MaxSeq, running \in Manifest :
    Commit(DeadlineIntent(rec, slot, trial_id, running))

Next ==
  \/ InvalidateSlot
  \/ AcceptUpload
  \/ LaunchCandidate
  \/ ConfirmRunning
  \/ AccountReset
  \/ FallBack
  \/ RecordDeadline

Spec == Init /\ [][Next]_rec

-----------------------------------------------------------------------------
(* Properties                                                              *)

(* Every record that is ever committed passes boot_metadata_validate, has  *)
(* a sequence that did not pass the last one, and names a current image:   *)
(* no sequence of legal operations, in any order and with any evidence,    *)
(* leaves a board with nothing confirmed to boot.                          *)
AlwaysBootable ==
  MetadataValid(rec) /\ rec.current \in Slot /\ rec.sequence <= MaxSeq

(* The rules are consistent with the validator: from a committed record no *)
(* operation computes a proposal that finish throws away as ill-formed     *)
(* (BOOT_LIFECYCLE_ERROR_RECORD), whatever evidence it is given.           *)
NoRefusedProposal ==
  /\ \A e \in Upload : Invalidate(rec, e).result # "RECORD"
  /\ \A e \in Upload, m \in Manifest : AcceptReady(rec, e, m).result # "RECORD"
  /\ \A m \in Manifest : BeginTrial(rec, m).result # "RECORD"
  /\ \A q \in ConfirmRequest, m \in Manifest :
       Confirm(rec, q, m, TRUE).result # "RECORD"
  /\ \A flags \in SUBSET ResetFlag : ResetPropose(rec, flags).result # "RECORD"
  /\ \A bad \in Identity, m \in Manifest :
       PromotePrevious(rec, bad, "INVALID", m).result # "RECORD"
  /\ \A s \in Slot, t \in 0..MaxSeq, m \in Manifest :
       DeadlineIntent(rec, s, t, m).result # "RECORD"

SameTrial(old, new) == new.image = old.image /\ new.trial_id = old.trial_id

HistoryGrows(old, new) ==
  /\ new.count \in {old.count, old.count + 1}
  /\ \A i \in 1..3 : i <= old.count => new.reasons[i] = old.reasons[i]

HistoryStep ==
  \A s \in Slot : SameTrial(rec.images[s], rec'.images[s]) =>
                  HistoryGrows(rec.images[s], rec'.images[s])

(* While a slot keeps its trial, the failure history only grows, one       *)
(* failure per record; confirming, promoting or recording a deadline never *)
(* rewrites what was counted.                                              *)
HistoryKept == [][HistoryStep]_rec

RejectedStep ==
  \A s \in Slot : rec.images[s].state = "REJECTED" =>
                  rec'.images[s] \in {rec.images[s], EmptyEntry}

(* A rejected upload stays rejected: the only thing that may happen to its *)
(* entry is that a new upload empties the slot.                            *)
RejectedIsFinal == [][RejectedStep]_rec

CurrentStep ==
  rec'.current # rec.current =>
    \/ /\ rec'.current = rec.candidate
       /\ rec.images[rec.candidate].state = "TRIAL"
       /\ rec'.previous = rec.current
       /\ rec.current \in rec'.confirmed
    \/ /\ rec'.current = rec.previous
       /\ rec.current \notin rec'.confirmed

(* The running, confirmed image loses its place only to a candidate that   *)
(* was on trial and is confirmed in the same record (and then stays as the *)
(* fallback), or to the confirmed fallback after it was proved invalid.    *)
CurrentMovesSafely == [][CurrentStep]_rec
=============================================================================
