----------------------------- MODULE BootSystem -----------------------------
(***************************************************************************)
(* One board through updates, resets and power failures: the bootloader    *)
(* (boot_runtime.c, boot_reset_handler.c, boot_select.c, boot_launch.c),   *)
(* the application's update service (ftp_boot.c, boot_receive.c,           *)
(* boot_service.c) and the flash they share.                               *)
(*                                                                         *)
(* The metadata store is the atomic record of BootAuthority, which         *)
(* BootStore implements: a replacement succeeds, fails without effect, or  *)
(* answers UNCERTAIN with or without effect.  A slot is a manifest and a   *)
(* payload; each is Blank, Torn or some image, and the slot verifies when  *)
(* both are the same image.  Signatures and hashes are ideal.  A payload   *)
(* is P program words, a manifest two, and each is one erase page.  A      *)
(* reset may strike between any two steps, and a step that fails stands    *)
(* for the reset that strikes within it.                                   *)
(***************************************************************************)
EXTENDS BootLifecycle

CONSTANTS
  Blank, Torn,  \* slot contents that are no image
  NoManifest,   \* no image is running
  NoRecord,     \* the receiver holds no authority
  P,            \* program words of a payload
  Destination,  \* the permitted_slot that each image was built with
  Cause,        \* causes of the resets that happen
  Wear          \* slots whose payload may decay in flash

ASSUME ContentAssumption ==
  /\ Blank \notin Image /\ Torn \notin Image /\ Blank # Torn
  /\ NoManifest \notin Manifest /\ NoRecord \notin Metadata
ASSUME PAssumption == P \in Nat \ {0}
ASSUME DestinationAssumption == Destination \in [Manifest -> Slot]
ASSUME CauseAssumption == Cause \subseteq ResetFlag
ASSUME WearAssumption == Wear \subseteq Slot

VARIABLES
  \* durable
  rec,          \* the authoritative metadata record
  flash,        \* the two image slots
  resc,         \* the sticky reset-cause register
  \* RAM of the bootloader and of the running image
  stage,        \* where the processor is
  captured,     \* reset causes read by the bootloader
  running,      \* the launched image
  healthy,      \* the published health is BOOT_HEALTH_REQUIRED
  blocked,      \* boot_flash_t.blocked
  \* ftp_boot_t
  active, used, accepted, eof, finished, quarantine, acceptance,
  \* boot_receive_t
  phase, authority, header, word, programmed, pages, manifest_words,
  \* history
  corrupted,    \* slots that decayed since they were last erased
  blamable,     \* countable resets since the last upload, up to three
  doubt         \* a store call answered UNCERTAIN since the last reset

durable == <<rec, flash, resc>>
boot    == <<stage, captured, running>>
service == <<active, used, accepted, eof, finished, quarantine, acceptance>>
receive == <<phase, authority, header, word, programmed, pages, manifest_words>>
history == <<corrupted, blamable, doubt>>
vars    == <<durable, boot, healthy, blocked, service, receive, history>>

Content == Image \cup {Blank, Torn}
Phase == {"NEW", "HEADER", "AUTHENTICATE", "INVALIDATE", "ERASE", "PAYLOAD",
          "WRITE_MANIFEST", "VERIFY", "READY", "TERMINAL"}

TypeOK ==
  /\ rec \in Metadata
  /\ flash \in [Slot -> [manifest: Content, payload: Content]]
  /\ resc \in SUBSET ResetFlag /\ captured \in SUBSET ResetFlag
  /\ stage \in {"capture", "clear", "account", "select", "handoff", "running",
                "stopped"}
  /\ running \in Manifest \cup {NoManifest}
  /\ {healthy, blocked, used, accepted, eof, finished, quarantine, doubt} \subseteq BOOLEAN
  /\ active \in {"NONE", "STATUS", "FIRMWARE", "CONFIRM"}
  /\ acceptance \in Image \cup {NoImage}
  /\ phase \in Phase
  /\ authority \in Metadata \cup {NoRecord}
  /\ header \in Content
  /\ word \in 0..1 /\ programmed \in 0..P /\ pages \in 0..2 /\ manifest_words \in 0..1
  /\ corrupted \in SUBSET Slot
  /\ blamable \in 0..3

-----------------------------------------------------------------------------
(* Flash                                                                   *)

(* boot_verify_stored on a slot, and the manifest it yields.               *)
Verifies(s) ==
  s \in Slot /\ flash[s].manifest \in Image /\ flash[s].payload = flash[s].manifest
Stored(s) == [slot |-> s, image |-> flash[s].manifest]

(* boot_store_replace with its possible answers.  FAILED stands for STALE, *)
(* IO and VERIFY.  A failed command can leave the controller blocked.      *)
StoreReplace(expected, desired, answer) ==
  \/ /\ answer = "OK"
     /\ ~blocked /\ expected = rec
     /\ rec' = desired
     /\ UNCHANGED <<blocked, doubt>>
  \/ /\ answer = "FAILED"
     /\ blocked' \in {blocked, TRUE}
     /\ UNCHANGED <<rec, doubt>>
  \/ /\ answer = "UNCERTAIN"
     /\ ~blocked /\ expected = rec
     /\ rec' \in {rec, desired}
     /\ blocked' \in BOOLEAN
     /\ doubt' = TRUE

(* boot_flash_program and boot_flash_erase on one part of a slot, by       *)
(* modify: refused without effect, completed, or failed after the command  *)
(* was launched, which blocks the controller and leaves anything behind.   *)
Modify(s, part, new, ok) ==
  \/ /\ ok
     /\ ~blocked
     /\ flash' = [flash EXCEPT ![s][part] = new]
     /\ UNCHANGED blocked
  \/ /\ ~ok
     /\ UNCHANGED <<flash, blocked>>
  \/ /\ ~ok
     /\ ~blocked
     /\ \E left \in {flash[s][part], Torn, new} : flash' = [flash EXCEPT ![s][part] = left]
     /\ blocked' = TRUE

-----------------------------------------------------------------------------
(* Reset                                                                   *)

FreshRAM ==
  /\ captured' = {} /\ running' = NoManifest /\ healthy' = FALSE /\ blocked' = FALSE
  /\ active' = "NONE" /\ used' = FALSE /\ accepted' = FALSE /\ eof' = FALSE
  /\ finished' = FALSE /\ quarantine' = FALSE /\ acceptance' = NoImage
  /\ phase' = "NEW" /\ authority' = NoRecord /\ header' = Blank /\ word' = 0
  /\ programmed' = 0 /\ pages' = 0 /\ manifest_words' = 0

Init ==
  /\ \E img \in [Slot -> Image] :
       /\ rec = FactoryRecord(img)
       /\ flash = [s \in Slot |-> [manifest |-> img[s], payload |-> img[s]]]
  /\ resc = {"POR"}
  /\ stage = "capture"
  /\ captured = {} /\ running = NoManifest /\ healthy = FALSE /\ blocked = FALSE
  /\ active = "NONE" /\ used = FALSE /\ accepted = FALSE /\ eof = FALSE
  /\ finished = FALSE /\ quarantine = FALSE /\ acceptance = NoImage
  /\ phase = "NEW" /\ authority = NoRecord /\ header = Blank /\ word = 0
  /\ programmed = 0 /\ pages = 0 /\ manifest_words = 0
  /\ corrupted = {} /\ blamable = 0 /\ doubt = FALSE

Min3(n) == IF n > 3 THEN 3 ELSE n

(* The hardware: a power-on clears the other causes, which are sticky.     *)
Reset(cause) ==
  /\ resc' = IF cause = "POR" THEN {"POR"} ELSE resc \cup {cause}
  /\ stage' = "capture"
  /\ FreshRAM
  /\ blamable' = IF cause \in {"WDT", "EXT", "BOR"} THEN Min3(blamable + 1) ELSE blamable
  /\ doubt' = FALSE
  /\ UNCHANGED <<rec, flash, corrupted>>

(* The hardware: a stored payload decays.                                  *)
Decay(s) ==
  /\ s \in Wear
  /\ flash' = [flash EXCEPT ![s].payload = Torn]
  /\ corrupted' = corrupted \cup {s}
  /\ UNCHANGED <<rec, resc, boot, healthy, blocked, service, receive, blamable, doubt>>

-----------------------------------------------------------------------------
(* The bootloader: boot_runtime_run, and then the handoff.                 *)

BootKeeps == UNCHANGED <<healthy, service, receive, corrupted, blamable>>

(* Fail closed: a register or flash read, an operational verification      *)
(* error or the handoff fails, and boot_decision_entry stops for good.     *)
BootStops ==
  /\ stage \in {"capture", "clear", "account", "select", "handoff"}
  /\ stage' = "stopped"
  /\ blocked' \in {blocked, TRUE}
  /\ UNCHANGED <<durable, captured, running, doubt>>
  /\ BootKeeps

Capture ==
  /\ stage = "capture"
  /\ captured' = resc
  /\ stage' = "clear"
  /\ UNCHANGED <<durable, running, blocked, doubt>>
  /\ BootKeeps

\* Faulty variant: the causes stay in the register.
ClearNothing ==
  /\ stage = "clear"
  /\ stage' \in {"account", "stopped"}
  /\ UNCHANGED <<durable, captured, running, blocked, doubt>>
  /\ BootKeeps

(* The captured causes are cleared before anything is counted; a failed    *)
(* write may still have cleared them.                                      *)
Clear ==
  /\ stage = "clear"
  /\ stage' \in {"account", "stopped"}
  /\ resc' = resc \ captured
  /\ UNCHANGED <<rec, flash, captured, running, blocked, doubt>>
  /\ BootKeeps

\* Faulty variant: every flag is counted on its own.
AccountEach ==
  LET once == ResetPropose(rec, captured)
      proposal == IF captured = {"WDT", "SW"} THEN ResetPropose(once.record, captured)
                  ELSE once IN
  /\ stage = "account"
  /\ \/ /\ proposal.result = "CHANGE"
        /\ StoreReplace(rec, proposal.record, "OK")
     \/ proposal.result # "CHANGE" /\ UNCHANGED <<rec, blocked, doubt>>
  /\ stage' = "select"
  /\ captured' = {}
  /\ UNCHANGED <<flash, resc, running>>
  /\ BootKeeps

(* The rest of boot_reset_handler_run: classify against the loaded record  *)
(* and commit at most one counted failure; the captured causes are not     *)
(* used again.                                                             *)
Account ==
  LET proposal == ResetPropose(rec, captured) IN
  /\ stage = "account"
  /\ \/ /\ proposal.result = "CHANGE"
        /\ \E answer \in {"OK", "FAILED", "UNCERTAIN"} :
             /\ StoreReplace(rec, proposal.record, answer)
             /\ stage' = IF answer = "OK" THEN "select" ELSE "stopped"
     \/ /\ proposal.result # "CHANGE"
        /\ stage' = IF proposal.result = "NO_CHANGE" THEN "select" ELSE "stopped"
        /\ UNCHANGED <<rec, blocked, doubt>>
  /\ captured' = {}
  /\ UNCHANGED <<flash, resc, running>>
  /\ BootKeeps

Launch(s) == stage' = "handoff" /\ running' = Stored(s)
Stop      == stage' = "stopped" /\ UNCHANGED running
Untouched == UNCHANGED <<rec, blocked, doubt>>
Selecting == stage = "select" /\ UNCHANGED <<flash, resc, captured>> /\ BootKeeps

(* Commit a proposal and launch, or stop.                                  *)
CommitAndLaunch(proposal, s) ==
  \E answer \in {"OK", "FAILED", "UNCERTAIN"} :
    /\ StoreReplace(rec, proposal.record, answer)
    /\ IF answer = "OK" THEN Launch(s) ELSE Stop

CandidateOut == ~Verifies(rec.candidate)

\* Faulty variant: a READY candidate runs before its trial is recorded.
SelectCandidateEarly ==
  /\ Selecting
  /\ ~CandidateOut
  /\ Launch(rec.candidate) /\ Untouched

(* boot_launch_candidate: a candidate that verifies runs, once its trial   *)
(* is durable.                                                             *)
SelectCandidate ==
  LET proposal == BeginTrial(rec, Stored(rec.candidate)) IN
  /\ Selecting
  /\ ~CandidateOut
  /\ CASE proposal.result = "CHANGE" -> CommitAndLaunch(proposal, rec.candidate)
       [] proposal.result = "NO_CHANGE" -> Launch(rec.candidate) /\ Untouched
       [] OTHER -> Stop /\ Untouched

\* Faulty variant: no boot without a fallback.
SelectCurrentWithFallback ==
  /\ Selecting
  /\ CandidateOut
  /\ rec.current \in rec.confirmed
  /\ Verifies(rec.current)
  /\ IF rec.previous \in Slot THEN Launch(rec.current) ELSE Stop
  /\ Untouched

(* Without a usable candidate, the current image, if it is the recorded    *)
(* one; no write.                                                          *)
SelectCurrent ==
  /\ Selecting
  /\ CandidateOut
  /\ rec.current \in rec.confirmed
  /\ Verifies(rec.current)
  /\ IF ImageMatches(rec, Stored(rec.current)) THEN Launch(rec.current) ELSE Stop
  /\ Untouched

CurrentIdentity ==
  [slot |-> rec.current, image |-> rec.images[rec.current].image,
   trial_id |-> rec.images[rec.current].trial_id]

(* With an invalid current image, promote the fallback; without one, stop  *)
(* for recovery.                                                           *)
SelectPrevious ==
  LET usable == /\ rec.previous \in rec.confirmed \ {rec.current, rec.candidate}
                /\ Verifies(rec.previous)
      proposal == PromotePrevious(rec, CurrentIdentity, "INVALID", Stored(rec.previous)) IN
  /\ Selecting
  /\ CandidateOut
  /\ ~(rec.current \in rec.confirmed /\ Verifies(rec.current))
  /\ IF /\ rec.current \in rec.confirmed /\ usable
        /\ ImageMatches(rec, Stored(rec.previous)) /\ proposal.result = "CHANGE"
     THEN CommitAndLaunch(proposal, rec.previous)
     ELSE Stop /\ Untouched

Handoff ==
  /\ stage = "handoff"
  /\ stage' = "running"
  /\ UNCHANGED <<durable, captured, running, blocked, doubt>>
  /\ BootKeeps

-----------------------------------------------------------------------------
(* The application's update service: ftp_boot.c over boot_receive.c and    *)
(* boot_service.c.  One operation is active at a time.                     *)

(* The slot an image uploads to is compiled into it (LM3S6965_AB_FTP_SLOT);*)
(* only the checks of lifecycle and flash driver relate it to the slot the *)
(* image runs from.                                                        *)
Permitted == Destination[running]
Evidence == [running |-> running, permitted |-> Permitted,
             incoming |-> [slot |-> Permitted, image |-> header]]

AppKeeps == stage = "running" /\ UNCHANGED <<resc, boot>>

(* foreground_owner_turn publishes the health of the turn it completed;    *)
(* health is current, never sticky.                                        *)
OwnerTurn ==
  /\ AppKeeps
  /\ healthy' = ~healthy
  /\ UNCHANGED <<rec, flash, blocked, service, receive, history>>

(* A turn fails, or the image crashes: nothing runs and nothing feeds the  *)
(* watchdog any more, and what RAM holds is dead.                          *)
OwnerFails ==
  /\ stage = "running"
  /\ stage' = "stopped"
  /\ FreshRAM
  /\ UNCHANGED <<durable, history>>

(* A flash read by an operation may fail, and may block the controller.    *)
Reads(ok) ==
  \/ ok /\ ~blocked /\ UNCHANGED blocked
  \/ ~ok /\ blocked' \in {blocked, TRUE}

Begun(kind, ok) ==
  /\ active = "NONE" /\ ~quarantine
  /\ active' = IF ok THEN kind ELSE "NONE"
  /\ accepted' = FALSE /\ eof' = FALSE
  /\ quarantine' = blocked'
  /\ UNCHANGED <<rec, flash, healthy, acceptance, history>>
  /\ AppKeeps

(* begin for boot-status and boot-report: one snapshot.                    *)
BeginStatus ==
  \E ok \in BOOLEAN :
    /\ Reads(ok)
    /\ Begun("STATUS", ok)
    /\ UNCHANGED <<used, finished, receive>>

BeginConfirm ==
  /\ UNCHANGED blocked
  /\ Begun("CONFIRM", TRUE)
  /\ finished' = FALSE
  /\ UNCHANGED <<used, receive>>

\* Faulty variant: room for the first commit only.
RoomForOne(r) == r.sequence + 1 <= MaxSeq

(* Two commits of the upload can still be numbered.                        *)
Room(r) == r.sequence + 2 <= MaxSeq

(* begin for firmware: boot_receive_begin consumes the receiver, loads the *)
(* authority and leaves room for two more sequences.                       *)
BeginFirmware ==
  \E ok \in BOOLEAN :
    /\ ~used
    /\ used' = TRUE
    /\ Reads(ok)
    /\ Begun("FIRMWARE", ok /\ Room(rec))
    /\ phase' = IF active' = "FIRMWARE" THEN "HEADER" ELSE "TERMINAL"
    /\ authority' = IF active' = "FIRMWARE" THEN rec ELSE NoRecord
    /\ UNCHANGED <<finished, header, word, programmed, pages, manifest_words>>

(* The receiver is consumed; its other fields are not read again.          *)
Consumed ==
  /\ phase' = "TERMINAL" /\ authority' = NoRecord /\ header' = Blank /\ word' = 0
  /\ programmed' = 0 /\ pages' = 0 /\ manifest_words' = 0

Receiving ==
  /\ AppKeeps
  /\ active = "FIRMWARE" /\ ~accepted
  /\ UNCHANGED <<healthy, used, finished>>

(* The receiver fails; RECONCILE, that is a store answer UNCERTAIN or a    *)
(* blocked controller, quarantines the service until the next reset.       *)
ReceiveStops(reconcile) ==
  /\ Consumed
  /\ quarantine' = (quarantine \/ reconcile)
  /\ UNCHANGED <<active, accepted, acceptance>>

ReceiveGoes(next) ==
  /\ phase' = next
  /\ UNCHANGED <<active, accepted, quarantine, acceptance>>

(* feed: the manifest, then payload words one at a time; a chunk that runs *)
(* past the announced length is fatal.                                     *)
FeedHeader ==
  /\ Receiving /\ ~eof /\ phase = "HEADER"
  /\ header' \in Image \cup {Torn}
  /\ ReceiveGoes("AUTHENTICATE")
  /\ UNCHANGED <<rec, flash, blocked, eof, authority, word, programmed, pages,
                 manifest_words, history>>

FeedPayload ==
  /\ Receiving /\ ~eof /\ phase = "PAYLOAD"
  /\ \/ ReceiveStops(FALSE)
     \/ /\ programmed + word < P /\ word = 0
        /\ word' = 1
        /\ ReceiveGoes("PAYLOAD")
        /\ UNCHANGED <<authority, header, programmed, pages, manifest_words>>
  /\ UNCHANGED <<rec, flash, blocked, eof, history>>

(* eof: final only with a complete payload.                                *)
EofFirmware ==
  /\ Receiving /\ ~eof
  /\ eof' = TRUE
  /\ IF phase = "PAYLOAD" /\ programmed + word = P
     THEN UNCHANGED <<active, accepted, quarantine, acceptance, receive>>
     ELSE ReceiveStops(FALSE)
  /\ UNCHANGED <<rec, flash, blocked, history>>

(* step: never once quarantined.  boot_receive_step does one phase.        *)
Stepping(p) == Receiving /\ phase = p /\ ~quarantine /\ UNCHANGED eof

StepAuthenticate ==
  /\ Stepping("AUTHENTICATE")
  /\ IF header \in Image /\ Invalidate(authority, Evidence).result = "CHANGE"
     THEN /\ ReceiveGoes("INVALIDATE")
          /\ UNCHANGED <<authority, header, word, programmed, pages, manifest_words>>
     ELSE ReceiveStops(FALSE)
  /\ UNCHANGED <<rec, flash, blocked, history>>

(* boot_flash_erase_begin: only a slot without an entry and without a role *)
(* may be erased, by the confirmed current image.                          *)
EraseAllowed(r) ==
  /\ r.current = running.slot /\ r.current \in r.confirmed
  /\ r.candidate = NoSlot
  /\ Permitted \notin r.confirmed \cup {r.previous, r.intent.slot}
  /\ r.images[Permitted] = EmptyEntry

\* Faulty variant: the answer of the store is not looked at.
StepInvalidateUnchecked ==
  LET desired == Invalidate(authority, Evidence).record IN
  /\ Stepping("INVALIDATE")
  /\ \E answer \in {"OK", "FAILED", "UNCERTAIN"} : StoreReplace(authority, desired, answer)
  /\ EraseAllowed(desired)
  /\ ReceiveGoes("ERASE")
  /\ authority' = desired
  /\ UNCHANGED <<header, word, programmed, pages, manifest_words, flash, corrupted, blamable>>

(* The proposal is the one of StepAuthenticate: neither the authority nor  *)
(* the evidence has changed since.                                         *)
StepInvalidate ==
  LET desired == Invalidate(authority, Evidence).record IN
  /\ Stepping("INVALIDATE")
  /\ \E answer \in {"OK", "FAILED", "UNCERTAIN"} :
       /\ StoreReplace(authority, desired, answer)
       /\ IF answer = "OK" /\ EraseAllowed(desired)
          THEN /\ ReceiveGoes("ERASE")
               /\ authority' = desired
               /\ UNCHANGED <<header, word, programmed, pages, manifest_words>>
          ELSE ReceiveStops(answer = "UNCERTAIN" \/ blocked')
  /\ UNCHANGED <<flash, corrupted, blamable>>

(* The erase plan is through.                                              *)
Erased(n) == n = 2

(* boot_flash_erase_step: the manifest page first.                         *)
StepErase ==
  /\ Stepping("ERASE")
  /\ \/ /\ Erased(pages)
        /\ ReceiveGoes("PAYLOAD")
        /\ UNCHANGED <<flash, blocked, authority, header, word, programmed, pages,
                       manifest_words, corrupted>>
     \/ /\ ~Erased(pages)
        /\ \E ok \in BOOLEAN :
             /\ Modify(Permitted, IF pages = 0 THEN "manifest" ELSE "payload", Blank, ok)
             /\ IF ok THEN /\ ReceiveGoes("ERASE")
                           /\ pages' = pages + 1
                           /\ UNCHANGED <<authority, header, word, programmed,
                                          manifest_words>>
                      ELSE ReceiveStops(blocked')
        /\ corrupted' = corrupted \ {Permitted}
  /\ UNCHANGED <<rec, blamable, doubt>>

(* One buffered word is programmed.  The last one completes the payload,   *)
(* which is or is not the one the manifest describes.                      *)
StepPayload ==
  /\ Stepping("PAYLOAD")
  /\ \/ /\ word = 1
        /\ \E ok \in BOOLEAN, new \in IF programmed + 1 = P THEN {header, Torn} ELSE {Torn} :
             /\ Modify(Permitted, "payload", new, ok)
             /\ IF ok THEN /\ programmed' = programmed + 1
                           /\ word' = 0
                           /\ ReceiveGoes(IF eof /\ programmed' = P
                                          THEN "WRITE_MANIFEST" ELSE "PAYLOAD")
                           /\ UNCHANGED <<authority, header, pages, manifest_words>>
                      ELSE ReceiveStops(blocked')
     \/ /\ word = 0 /\ eof /\ programmed = P
        /\ ReceiveGoes("WRITE_MANIFEST")
        /\ UNCHANGED <<flash, blocked, authority, header, word, programmed, pages,
                       manifest_words>>
  /\ UNCHANGED <<rec, history>>

StepWriteManifest ==
  /\ Stepping("WRITE_MANIFEST")
  /\ \E ok \in BOOLEAN :
       /\ Modify(Permitted, "manifest", IF manifest_words = 0 THEN Torn ELSE header, ok)
       /\ IF ok THEN /\ ReceiveGoes(IF manifest_words = 1 THEN "VERIFY" ELSE "WRITE_MANIFEST")
                     /\ manifest_words' = 1
                     /\ UNCHANGED <<authority, header, word, programmed, pages>>
                ELSE ReceiveStops(blocked')
  /\ UNCHANGED <<rec, history>>

\* Faulty variant: the programmed payload is trusted.
StepVerifyManifestOnly ==
  /\ Stepping("VERIFY")
  /\ ReceiveGoes("READY")
  /\ UNCHANGED <<rec, flash, blocked, authority, header, word, programmed,
                 pages, manifest_words, history>>

(* The slot is read back and verified from flash before it is proposed.    *)
StepVerify ==
  /\ Stepping("VERIFY")
  /\ \E ok \in BOOLEAN :
       /\ Reads(ok)
       /\ IF /\ ok /\ flash[Permitted].manifest = header /\ Verifies(Permitted)
             /\ AcceptReady(authority, Evidence, Stored(Permitted)).result = "CHANGE"
          THEN /\ ReceiveGoes("READY")
               /\ UNCHANGED <<authority, header, word, programmed, pages, manifest_words>>
          ELSE ReceiveStops(blocked')
  /\ UNCHANGED <<rec, flash, history>>

(* The verified image becomes the READY candidate and the upload is        *)
(* answered; the reset it asks for is up to the operator.                  *)
StepReady ==
  LET desired == AcceptReady(authority, Evidence, Evidence.incoming).record IN
  /\ Stepping("READY")
  /\ \E answer \in {"OK", "FAILED", "UNCERTAIN"} :
       /\ StoreReplace(authority, desired, answer)
       /\ IF answer = "OK"
          THEN /\ accepted' = TRUE /\ acceptance' = header
               /\ Consumed
               /\ UNCHANGED <<active, quarantine>>
          ELSE ReceiveStops(answer = "UNCERTAIN" \/ blocked')
       /\ blamable' = IF rec' = rec THEN blamable ELSE 0
  /\ UNCHANGED <<flash, corrupted>>

Confirming ==
  /\ AppKeeps
  /\ active = "CONFIRM"
  /\ UNCHANGED <<flash, healthy, active, used, acceptance, receive, corrupted, blamable>>

EofConfirm ==
  /\ Confirming /\ ~eof
  /\ eof' = TRUE
  /\ UNCHANGED <<rec, blocked, accepted, finished, quarantine, doubt>>

\* Faulty variants: a failed store is answered like a successful one; an
\* uncertain one may be tried again.
AnswerConfirmAlways(answer) ==
  /\ accepted' = TRUE
  /\ quarantine' = (answer = "UNCERTAIN" \/ blocked')

AnswerConfirmNoLatch(answer) ==
  /\ accepted' = (answer = "OK")
  /\ quarantine' = blocked'

AnswerConfirm(answer) ==
  /\ accepted' = (answer = "OK")
  /\ quarantine' = (answer = "UNCERTAIN" \/ blocked')

(* boot_confirm_finish parses the request once; boot_confirm_apply takes a *)
(* snapshot of record, running image and health and commits.               *)
StepConfirm ==
  /\ Confirming /\ eof /\ ~finished /\ ~accepted /\ ~quarantine
  /\ finished' = TRUE
  /\ \/ /\ UNCHANGED <<rec, doubt>>             \* no request, or no snapshot
        /\ blocked' \in {blocked, TRUE}
        /\ AnswerConfirm("FAILED")
     \/ \E request \in ConfirmRequest :
          LET proposal == Confirm(rec, request, running, healthy) IN
          /\ ~blocked
          /\ ImageMatches(rec, running)
          /\ \/ /\ proposal.result = "CHANGE"
                /\ \E answer \in {"OK", "FAILED", "UNCERTAIN"} :
                     StoreReplace(rec, proposal.record, answer) /\ AnswerConfirm(answer)
             \/ /\ proposal.result # "CHANGE"
                /\ UNCHANGED <<rec, blocked, doubt>>
                /\ AnswerConfirm(IF proposal.result = "NO_CHANGE" THEN "OK" ELSE "FAILED")
  /\ UNCHANGED eof

(* end: an unfinished upload is aborted; history flags survive.            *)
End ==
  /\ AppKeeps
  /\ active # "NONE"
  /\ active' = "NONE"
  /\ IF active = "FIRMWARE" /\ ~accepted THEN Consumed ELSE UNCHANGED receive
  /\ UNCHANGED <<rec, flash, healthy, blocked, used, accepted, eof, finished,
                 quarantine, acceptance, history>>

-----------------------------------------------------------------------------
Boot ==
  \/ BootStops \/ Capture \/ Clear \/ Account
  \/ SelectCandidate \/ SelectCurrent \/ SelectPrevious \/ Handoff

Receive ==
  \/ FeedHeader \/ FeedPayload \/ EofFirmware \/ StepAuthenticate \/ StepInvalidate
  \/ StepErase \/ StepPayload \/ StepWriteManifest \/ StepVerify \/ StepReady

Application ==
  \/ OwnerTurn \/ OwnerFails \/ BeginStatus \/ BeginConfirm \/ BeginFirmware \/ Receive
  \/ EofConfirm \/ StepConfirm \/ End

Next ==
  \/ \E cause \in Cause : Reset(cause)
  \/ \E s \in Slot : Decay(s)
  \/ Boot
  \/ Application

Spec == Init /\ [][Next]_vars

(* Fairness.  The bootloader and the watchdog take their steps, and no     *)
(* fault is permanent: a step that is attempted again and again succeeds   *)
(* again and again.  Nothing is assumed of the application.                *)
Watchdog == stage = "stopped" /\ Reset("WDT")
Select == SelectCandidate \/ SelectCurrent \/ SelectPrevious

Fairness ==
  /\ WF_vars(Watchdog)
  /\ SF_vars(Capture)
  /\ SF_vars(Clear /\ stage' = "account")
  /\ SF_vars(Account /\ stage' = "select")
  /\ SF_vars(Select /\ stage' = "handoff")
  /\ SF_vars(Handoff)

FairSpec == Spec /\ Fairness

-----------------------------------------------------------------------------
(* Properties                                                              *)

(* Whatever the record says is resident in a slot is there, whole, unless  *)
(* the flash itself decayed: no interrupted, failed or repeated upload     *)
(* ever leaves an entry (current, fallback, candidate or rejected) over    *)
(* damaged contents.                                                       *)
RecordDescribesFlash ==
  \A s \in Slot \ corrupted :
    rec.images[s].image # NoImage =>
      flash[s] = [manifest |-> rec.images[s].image, payload |-> rec.images[s].image]

(* The bootloader hands over only to the image the record knows, and to an *)
(* unconfirmed one only when its trial is already durable: its crashes     *)
(* will be counted.                                                        *)
TrialIsDurable ==
  stage \in {"handoff", "running"} =>
    /\ rec.images[running.slot].image = running.image
    /\ running.slot \in rec.confirmed \/ rec.images[running.slot].state = "TRIAL"

(* A countable reset is counted at most once, although causes are sticky   *)
(* and the handler may be interrupted anywhere: an upload that is on trial *)
(* or rejected had at least as many resets as failures recorded.           *)
NoDoubleCount ==
  \A s \in Slot : rec.images[s].state \in {"TRIAL", "REJECTED"} =>
                  rec.images[s].count <= blamable

(* The operator is told that an operation was accepted only if the record  *)
(* that makes it so is durable.                                            *)
AcceptedIsDurable ==
  accepted /\ stage = "running" =>
    CASE active = "FIRMWARE" -> /\ rec.candidate = Permitted
                                /\ rec.images[Permitted].image = acceptance
                                /\ rec.images[Permitted].state = "READY"
      [] active = "CONFIRM" -> running.slot \in rec.confirmed
      [] OTHER -> TRUE

(* Once the destination slot has been given up, only a fault can keep the  *)
(* upload from being accepted: the authority it was begun with is still    *)
(* the record, and a sequence is left for the record that accepts it.      *)
UploadCanFinish ==
  phase \in {"ERASE", "PAYLOAD", "WRITE_MANIFEST", "VERIFY", "READY"} =>
    authority = rec /\ ~Exhausted(rec)

Decays == \E s \in Slot : Decay(s)

DoubtStep == doubt /\ doubt' => rec' = rec /\ (flash' = flash \/ Decays)

(* After a store call whose outcome is unknown nothing more is written,    *)
(* neither the record nor a slot, until a reset has brought the board back *)
(* to a known record.                                                      *)
NoWriteInDoubt == [][DoubtStep]_vars

(* The durable record has given a slot up: no entry and no role.           *)
GivenUp(s) ==
  /\ rec.images[s] = EmptyEntry
  /\ s \notin rec.confirmed \cup {rec.current, rec.previous, rec.candidate, rec.intent.slot}

WriteStep ==
  Decays \/ \A s \in Slot :
    flash'[s] # flash[s] => stage = "running" /\ s # running.slot /\ GivenUp(s)

(* Flash is erased and programmed only in a slot that the durable record   *)
(* has given up, and never in the one that is executing: not the current   *)
(* image nor its fallback nor a candidate, whatever destination the image  *)
(* was built with, and whatever the store answered when the slot was to be *)
(* given up.                                                               *)
WritesGivenUpSlot == [][WriteStep]_vars

(* Whatever happens on the board, the record only makes the steps of the   *)
(* update life cycle.                                                      *)
Lifecycle == INSTANCE UpdateRecord
LifecycleStep == rec' = rec \/ Lifecycle!Next
FollowsLifecycle == Lifecycle!Init /\ [][LifecycleStep]_rec

(* Whatever was interrupted, and however often, the board starts an image  *)
(* again: no update, crash or failed step leaves flash in a state that the *)
(* bootloader stops at for good, short of the last sequence number.        *)
BootsAgain == stage # "running" ~> (stage = "running" \/ Exhausted(rec))

OnTrial(s) == rec.images[s].state = "TRIAL"

(* A trial image that keeps failing is given up: if no image stays up, the *)
(* trial ends, although resets may strike while they are being counted.    *)
TrialEnds ==
  []<>(stage # "running") =>
    \A s \in Slot : OnTrial(s) ~> (~OnTrial(s) \/ Exhausted(rec))
=============================================================================
