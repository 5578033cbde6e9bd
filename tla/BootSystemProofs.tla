-------------------------- MODULE BootSystemProofs --------------------------
(***************************************************************************)
(* Proofs about the board as a whole, for any images, destinations that    *)
(* they were built with, payload length, last sequence, causes of resets   *)
(* and slots that may decay.                                               *)
(***************************************************************************)
EXTENDS BootSystem, BootLifecycleProofs

-----------------------------------------------------------------------------
(* The inductive invariant, in parts                                       *)

(* The record: well-formed, bootable, and without a deadline intent, which *)
(* nothing on the board records.                                           *)
RecordOK == WellFormed(rec) /\ rec.current \in Slot /\ rec.intent = NoIntent

Booting == {"capture", "clear", "account", "select", "handoff"}

(* What RAM and the cause register hold at each stage of a boot.           *)
StageOK ==
  /\ stage # "running" => active = "NONE" /\ phase = "NEW"
  /\ stage = "capture" => captured = {}
  /\ stage = "clear" => captured = resc
  /\ stage = "account" => resc = {}
  /\ stage \in {"select", "handoff", "running"} => resc = {} /\ captured = {}

(* A store call whose outcome is unknown stops the bootloader and          *)
(* quarantines the application's service.                                  *)
DoubtOK == doubt => stage \notin Booting /\ (stage = "running" => quarantine)

(* The image that was launched is the one the record knows.                *)
LaunchOK == TrialIsDurable /\ (stage \in {"handoff", "running"} => running \in Manifest)

Upcoming == {"HEADER", "AUTHENTICATE", "INVALIDATE"}
Given == {"ERASE", "PAYLOAD", "WRITE_MANIFEST", "VERIFY", "READY"}

(* An upload in progress: the record is still the one it began with, or    *)
(* the one it made when it gave up the slot; what the next commit will be  *)
(* was computed from it, and what was verified is what flash holds.        *)
ReceiveOK ==
  /\ phase \in Upcoming \cup Given => active = "FIRMWARE" /\ ~accepted /\ authority = rec
  /\ phase \in Upcoming => Room(rec)
  /\ phase \in {"INVALIDATE"} \cup Given => header \in Image
  /\ phase = "INVALIDATE" => Invalidate(rec, Evidence).result = "CHANGE"
  /\ phase \in Given => EraseAllowed(rec) /\ ~Exhausted(rec)
  /\ phase = "READY" =>
       /\ AcceptReady(rec, Evidence, Evidence.incoming).result = "CHANGE"
       /\ Permitted \notin corrupted =>
            flash[Permitted] = [manifest |-> header, payload |-> header]

(* A countable reset that was not yet counted or dropped.                  *)
Pending == (resc \cup captured) \cap {"WDT", "EXT", "BOR"} # {}

CountOK ==
  \A s \in Slot :
    /\ rec.images[s].state \in {"READY", "TRIAL"} =>
         rec.images[s].count + (IF Pending THEN 1 ELSE 0) <= blamable
    /\ rec.images[s].state = "REJECTED" => rec.images[s].count <= blamable

BInv ==
  /\ TypeOK /\ RecordOK /\ StageOK /\ DoubtOK /\ LaunchOK /\ ReceiveOK
  /\ RecordDescribesFlash /\ CountOK /\ AcceptedIsDurable

(* A word is buffered only while the payload has room for it.              *)
BufferOK == programmed + word <= P

-----------------------------------------------------------------------------
(* Frames: what each part of the invariant depends on                      *)

(* What an upload hands to the rules is of the form they expect; nothing   *)
(* is said of the destination but that it is a slot.                       *)
LEMMA UploadEvidence ==
  ASSUME running \in Manifest
  PROVE  /\ Permitted \in Slot
         /\ header \in Image => Evidence \in Upload /\ Evidence.incoming \in Manifest
<1>1. Permitted \in Slot  BY DestinationAssumption DEF Permitted
<1> QED BY <1>1 DEF Evidence, Upload, Manifest

(* A slot that a record lets the running image erase is not the one it     *)
(* runs from, and there are only two.                                      *)
LEMMA ElsewhereWhenAllowed ==
  ASSUME running \in Manifest, NEW r, EraseAllowed(r)
  PROVE  /\ Permitted # running.slot
         /\ \A t \in Slot : t \in {running.slot, Permitted}
<1>1. running.slot \in Slot /\ Permitted \in Slot
  BY UploadEvidence DEF Manifest
<1>2. Permitted # running.slot
  BY DEF EraseAllowed
<1> QED BY <1>1, <1>2 DEF Slot

(* A receiver that is idle or consumed promises nothing.                   *)
LEMMA NoReceiver ==
  ASSUME phase' \in {"NEW", "TERMINAL"}
  PROVE  ReceiveOK'
BY DEF ReceiveOK, Upcoming, Given

(* Without an active operation nothing was answered.                       *)
LEMMA NoOperation ==
  ASSUME active' = "NONE"
  PROVE  AcceptedIsDurable'
BY DEF AcceptedIsDurable

(* An upload step that leaves the record, the slots and the running image  *)
(* alone.                                                                  *)
LEMMA ReceiveFrame ==
  ASSUME ReceiveOK, UNCHANGED <<phase, active, accepted, authority, rec, header, running,
                                corrupted, flash>>
  PROVE  ReceiveOK'
BY DEF ReceiveOK, Permitted, Evidence, EraseAllowed, Upcoming, Given

-----------------------------------------------------------------------------
(* The invariant holds initially                                           *)

(* The board as it leaves the provisioning tool.                           *)
LEMMA InitBoard == Init => BInv
<1> SUFFICES ASSUME Init PROVE BInv
  OBVIOUS
<1>1. PICK img \in [Slot -> Image] :
        /\ rec = FactoryRecord(img)
        /\ flash = [s \in Slot |-> [manifest |-> img[s], payload |-> img[s]]]
  BY DEF Init
<1>2. RecordOK
  BY <1>1, FactoryWellFormed DEF RecordOK
<1>3. \A s \in Slot : /\ rec.images[s].image = img[s] /\ rec.images[s].state = "NONE"
                      /\ img[s] \in Image
  BY <1>1 DEF FactoryRecord, FreshEntry
<1>4. TypeOK
  <2>1. flash \in [Slot -> [manifest: Content, payload: Content]]
    BY <1>1 DEF Content
  <2>2. rec \in Metadata  BY <1>2 DEF RecordOK, WellFormed
  <2>3. resc \in SUBSET ResetFlag /\ captured \in SUBSET ResetFlag
    BY DEF Init, ResetFlag
  <2>4. {healthy, blocked, used, accepted, eof, finished, quarantine, doubt} \subseteq BOOLEAN
    BY DEF Init
  <2>5. programmed \in 0..P
    BY PAssumption DEF Init
  <2> QED BY <2>1, <2>2, <2>3, <2>4, <2>5 DEF TypeOK, Init, Phase, Content
<1>5. RecordDescribesFlash
  BY <1>1, <1>3 DEF RecordDescribesFlash
<1>6. CountOK
  BY <1>3 DEF CountOK
<1>7. StageOK /\ DoubtOK /\ LaunchOK /\ ReceiveOK /\ AcceptedIsDurable
  BY DEF Init, StageOK, DoubtOK, LaunchOK, TrialIsDurable, ReceiveOK, Upcoming, Given,
         AcceptedIsDurable
<1> QED BY <1>2, <1>4, <1>5, <1>6, <1>7 DEF BInv

-----------------------------------------------------------------------------
(* The hardware                                                            *)

(* RAM as the startup code leaves it.                                      *)
LEMMA FreshTypes ==
  ASSUME FreshRAM
  PROVE  /\ captured' \in SUBSET ResetFlag /\ running' \in Manifest \cup {NoManifest}
         /\ {healthy', blocked', used', accepted', eof', finished', quarantine'} \subseteq BOOLEAN
         /\ active' \in {"NONE", "STATUS", "FIRMWARE", "CONFIRM"}
         /\ acceptance' \in Image \cup {NoImage} /\ phase' \in Phase
         /\ authority' \in Metadata \cup {NoRecord} /\ header' \in Content
         /\ word' \in 0..1 /\ programmed' \in 0..P /\ pages' \in 0..2
         /\ manifest_words' \in 0..1
<1>1. {healthy', blocked', used', accepted', eof', finished', quarantine'} \subseteq BOOLEAN
  BY DEF FreshRAM
<1>2. word' \in 0..1 /\ programmed' \in 0..P /\ pages' \in 0..2 /\ manifest_words' \in 0..1
  BY PAssumption DEF FreshRAM
<1>3. captured' \in SUBSET ResetFlag
  BY DEF FreshRAM
<1> QED BY <1>1, <1>2, <1>3 DEF FreshRAM, Phase, Content

(* A reset keeps flash, the record and the causes, and counts itself once. *)
LEMMA ResetStep ==
  ASSUME BInv, NEW cause \in Cause, Reset(cause)
  PROVE  BInv'
<1>0. cause \in ResetFlag  BY CauseAssumption
<1>1. TypeOK'
  <2>1. rec' \in Metadata /\ flash' \in [Slot -> [manifest: Content, payload: Content]]
    BY DEF BInv, TypeOK, Reset
  <2>2. resc' \in SUBSET ResetFlag /\ blamable' \in 0..3
    BY <1>0 DEF BInv, TypeOK, Reset, ResetFlag, Min3
  <2>3. FreshRAM /\ stage' = "capture" /\ doubt' \in BOOLEAN /\ corrupted' \in SUBSET Slot
    BY DEF BInv, TypeOK, Reset
  <2> QED BY <2>1, <2>2, <2>3, FreshTypes DEF TypeOK
<1>2. RecordOK'
  BY DEF BInv, RecordOK, Reset
<1>3. RecordDescribesFlash'
  BY DEF BInv, RecordDescribesFlash, Reset
<1>4. StageOK' /\ DoubtOK' /\ LaunchOK'
  BY DEF StageOK, DoubtOK, LaunchOK, TrialIsDurable, Reset, FreshRAM
<1>5. ReceiveOK' /\ AcceptedIsDurable'
  BY NoReceiver, NoOperation DEF Reset, FreshRAM
<1>6. CountOK'
  <2> SUFFICES ASSUME NEW s \in Slot
               PROVE  /\ rec.images[s].state \in {"READY", "TRIAL"} =>
                           rec.images[s].count + (IF Pending' THEN 1 ELSE 0) <= blamable'
                      /\ rec.images[s].state = "REJECTED" =>
                           rec.images[s].count <= blamable'
    BY DEF Reset, CountOK
  <2>1. /\ rec.images[s].state \in {"READY", "TRIAL"} => rec.images[s].count \in 0..2
        /\ rec.images[s].count \in 0..3 /\ blamable \in 0..3
    <3>1. rec.images[s] \in Entry /\ EntryValid(rec.images[s])
      BY DEF BInv, RecordOK, WellFormed, MetadataValid, ImageRulesValid, Metadata
    <3> QED BY <3>1 DEF EntryValid, EmptyEntry, FreshEntry, Entry, BInv, TypeOK
  <2>2. CASE cause \in {"WDT", "EXT", "BOR"}
    BY <2>1, <2>2 DEF BInv, CountOK, Reset, Min3
  <2>3. CASE cause \notin {"WDT", "EXT", "BOR"}
    <3>1. Pending' => Pending
      BY <1>0, <2>3 DEF Pending, Reset, FreshRAM, ResetFlag
    <3> QED BY <2>1, <2>3, <3>1 DEF BInv, CountOK, Reset
  <2> QED BY <2>2, <2>3
<1> QED BY <1>1, <1>2, <1>3, <1>4, <1>5, <1>6 DEF BInv

(* A slot that decays is excused from what the record says about it.       *)
LEMMA DecayStep ==
  ASSUME BInv, NEW s \in Slot, Decay(s)
  PROVE  BInv'
<1>0. /\ flash' \in [Slot -> [manifest: Content, payload: Content]]
      /\ \A t \in Slot \ {s} : flash'[t] = flash[t]
  BY DEF BInv, TypeOK, Decay, Content
<1>1. TypeOK'
  BY <1>0 DEF BInv, TypeOK, Decay, boot, service, receive
<1>2. RecordOK' /\ StageOK' /\ DoubtOK' /\ LaunchOK'
  BY DEF BInv, RecordOK, StageOK, DoubtOK, LaunchOK, TrialIsDurable, Decay, boot, service,
         receive
<1>3. CountOK' /\ AcceptedIsDurable'
  BY DEF BInv, CountOK, Pending, AcceptedIsDurable, Permitted, Decay, boot, service
<1>4. RecordDescribesFlash'
  BY <1>0 DEF BInv, RecordDescribesFlash, Decay
<1>5. ReceiveOK'
  <2>1. UNCHANGED <<phase, active, accepted, authority, rec, header, running>>
        /\ corrupted' = corrupted \cup {s}
    BY DEF Decay, boot, service, receive
  <2>2. phase \in {"INVALIDATE"} \cup Given => stage = "running" /\ running \in Manifest
    BY DEF BInv, StageOK, LaunchOK, Given, ReceiveOK
  <2>3. phase = "READY" => Permitted \in Slot
    BY <2>2, UploadEvidence DEF Given
  <2> QED BY <1>0, <2>1, <2>3 DEF BInv, ReceiveOK, Permitted, Evidence, EraseAllowed,
                                  Upcoming, Given
<1> QED BY <1>1, <1>2, <1>3, <1>4, <1>5 DEF BInv

-----------------------------------------------------------------------------
(* The bootloader                                                          *)

(* What a store call may do, by its answer.                                *)
LEMMA StoreAnswer ==
  ASSUME TypeOK, NEW expected, NEW desired, NEW answer,
         StoreReplace(expected, desired, answer)
  PROVE  /\ rec' \in {rec, desired} /\ blocked' \in BOOLEAN /\ doubt' \in BOOLEAN
         /\ answer = "OK" => rec' = desired
         /\ rec' # rec => rec' = desired /\ expected = rec
         /\ doubt' => doubt \/ answer = "UNCERTAIN"
         /\ doubt => doubt'
<1>0. blocked \in BOOLEAN /\ doubt \in BOOLEAN  BY DEF TypeOK
<1>1. CASE answer = "OK" /\ expected = rec /\ rec' = desired /\ UNCHANGED <<blocked, doubt>>
  BY <1>0, <1>1
<1>2. CASE answer = "FAILED" /\ blocked' \in {blocked, TRUE} /\ UNCHANGED <<rec, doubt>>
  BY <1>0, <1>2
<1>3. CASE /\ answer = "UNCERTAIN" /\ expected = rec /\ rec' \in {rec, desired}
           /\ blocked' \in BOOLEAN /\ doubt' = TRUE
  BY <1>0, <1>3
<1> QED BY <1>1, <1>2, <1>3 DEF StoreReplace

(* A boot step keeps the service and the receiver as the reset left them.  *)
LEMMA BootFrame ==
  ASSUME BInv, BootKeeps, stage # "running",
         rec' \in Metadata, flash' = flash, resc' \in SUBSET ResetFlag,
         captured' \in SUBSET ResetFlag, running' \in Manifest \cup {NoManifest},
         blocked' \in BOOLEAN, doubt' \in BOOLEAN,
         stage' \in {"capture", "clear", "account", "select", "handoff", "running", "stopped"}
  PROVE  /\ TypeOK' /\ ReceiveOK' /\ AcceptedIsDurable'
         /\ active' = "NONE" /\ phase' = "NEW"
<1>1. TypeOK'
  BY DEF BInv, TypeOK, BootKeeps, service, receive
<1>2. active' = "NONE" /\ phase' = "NEW"
  BY DEF BInv, StageOK, BootKeeps, service, receive
<1> QED BY <1>1, <1>2, NoReceiver, NoOperation

(* A record that describes the same images describes the same flash.       *)
LEMMA SameImages ==
  ASSUME RecordDescribesFlash, UNCHANGED <<flash, corrupted>>,
         \A s \in Slot : rec'.images[s].image = rec.images[s].image
  PROVE  RecordDescribesFlash'
BY DEF RecordDescribesFlash

(* Steps of the bootloader that leave the record alone and start nothing.  *)
LEMMA BootQuietStep ==
  ASSUME BInv, BootStops \/ Capture \/ Clear \/ Handoff
  PROVE  BInv'
<1>1. /\ BootKeeps /\ stage # "running" /\ rec' = rec /\ flash' = flash
      /\ resc' \in SUBSET ResetFlag /\ captured' \in SUBSET ResetFlag
      /\ running' = running /\ blocked' \in BOOLEAN /\ doubt' = doubt
      /\ stage' \in {"clear", "account", "running", "stopped"}
  BY DEF BInv, TypeOK, BootStops, Capture, Clear, Handoff, durable
<1>2. TypeOK' /\ ReceiveOK' /\ AcceptedIsDurable' /\ active' = "NONE" /\ phase' = "NEW"
  <2>1. /\ rec \in Metadata /\ running \in Manifest \cup {NoManifest} /\ doubt \in BOOLEAN
        /\ stage' \in {"capture", "clear", "account", "select", "handoff", "running", "stopped"}
    BY <1>1 DEF BInv, TypeOK
  <2> QED BY <1>1, <2>1, BootFrame
<1>3. RecordOK' /\ RecordDescribesFlash'
  BY <1>1 DEF BInv, RecordOK, RecordDescribesFlash, BootKeeps
<1>4. StageOK' /\ DoubtOK'
  BY <1>1, <1>2 DEF BInv, StageOK, DoubtOK, Booting, BootStops, Capture, Clear, Handoff,
                    durable
<1>5. LaunchOK'
  BY <1>1 DEF BInv, LaunchOK, TrialIsDurable, BootStops, Capture, Clear, Handoff, durable
<1>6. CountOK'
  <2>1. Pending' => Pending
    BY DEF BInv, StageOK, Pending, BootStops, Capture, Clear, Handoff, durable
  <2>2. blamable' = blamable /\ blamable \in 0..3 /\ rec \in Metadata
    BY <1>1 DEF BInv, TypeOK, BootKeeps
  <2> QED BY <1>1, <2>1, <2>2 DEF BInv, CountOK, Metadata, Entry
<1> QED BY <1>2, <1>3, <1>4, <1>5, <1>6 DEF BInv

(* Without an intent only a countable cause counts.                        *)
LEMMA CountableCause ==
  ASSUME rec.intent = NoIntent, NEW flags, Categories(rec, flags) # {}
  PROVE  flags \cap {"WDT", "EXT", "BOR"} # {}
<1>1. ~IntentMatches(rec)  BY DEF IntentMatches, NoIntent
<1> QED BY <1>1 DEF Categories

(* Accounting commits at most one failure, for a cause that was pending    *)
(* and no longer is.                                                       *)
LEMMA AccountStep ==
  ASSUME BInv, Account
  PROVE  BInv'
<1> DEFINE n == ResetPropose(rec, captured).record
<1>1. /\ stage = "account" /\ BootKeeps /\ flash' = flash /\ resc' = {} /\ resc = {}
      /\ captured' = {} /\ running' = running /\ stage' \in {"select", "stopped"}
      /\ captured \in SUBSET ResetFlag
  BY DEF BInv, TypeOK, StageOK, Account
<1>2. /\ blocked' \in BOOLEAN /\ doubt' \in BOOLEAN
      /\ doubt' => stage' = "stopped"
      /\ rec' # rec => ResetPropose(rec, captured).result = "CHANGE" /\ rec' = n
  <2>0. ~doubt /\ doubt \in BOOLEAN /\ blocked \in BOOLEAN /\ TypeOK
    BY <1>1 DEF BInv, TypeOK, DoubtOK, Booting
  <2>1. CASE ResetPropose(rec, captured).result = "CHANGE"
    <3>1. PICK answer \in {"OK", "FAILED", "UNCERTAIN"} :
            /\ StoreReplace(rec, n, answer)
            /\ stage' = IF answer = "OK" THEN "select" ELSE "stopped"
      BY <2>1 DEF Account
    <3> QED BY <2>0, <2>1, <3>1, StoreAnswer
  <2>2. CASE ResetPropose(rec, captured).result # "CHANGE"
    <3>1. UNCHANGED <<rec, blocked, doubt>>  BY <2>2 DEF Account
    <3> QED BY <2>0, <3>1
  <2> QED BY <2>1, <2>2
<1>3. WellFormed(rec) /\ rec.current \in Slot /\ rec.intent = NoIntent
  BY DEF BInv, RecordOK
<1>4. rec' # rec =>
        LET s == rec.candidate IN
        /\ s \in Slot /\ rec.images[s].state = "TRIAL"
        /\ captured \cap {"WDT", "EXT", "BOR"} # {}
        /\ WellFormed(rec')
        /\ \A t \in Slot \ {s} : rec'.images[t] = rec.images[t]
        /\ rec'.images[s].image = rec.images[s].image
        /\ rec'.images[s].count = rec.images[s].count + 1
        /\ rec'.current = rec.current /\ rec'.intent = NoIntent
  BY <1>1, <1>2, <1>3, CountChange, CountableCause
<1>5. RecordOK'
  BY <1>3, <1>4 DEF RecordOK
<1>6. TypeOK' /\ ReceiveOK' /\ AcceptedIsDurable' /\ active' = "NONE" /\ phase' = "NEW"
  <2>1. /\ rec' \in Metadata /\ running \in Manifest \cup {NoManifest}
        /\ {} \in SUBSET ResetFlag /\ stage # "running"
        /\ stage' \in {"capture", "clear", "account", "select", "handoff", "running", "stopped"}
    BY <1>1, <1>5 DEF BInv, TypeOK, RecordOK, WellFormed
  <2> QED BY <1>1, <1>2, <2>1, BootFrame
<1>7. RecordDescribesFlash'
  <2>1. \A s \in Slot : rec'.images[s].image = rec.images[s].image
    BY <1>4
  <2> QED BY <1>1, <2>1, SameImages DEF BInv, BootKeeps
<1>8. StageOK' /\ DoubtOK' /\ LaunchOK'
  BY <1>1, <1>2, <1>6 DEF StageOK, DoubtOK, Booting, LaunchOK, TrialIsDurable
<1>9. CountOK'
  <2> SUFFICES ASSUME NEW s \in Slot, rec'.images[s].state \in {"READY", "TRIAL", "REJECTED"}
               PROVE  rec'.images[s].count <= blamable
    <3>1. ~Pending' /\ blamable' = blamable  BY <1>1 DEF Pending, BootKeeps
    <3>2. \A s \in Slot : rec'.images[s].count \in Nat
      BY <1>5 DEF RecordOK, WellFormed, Metadata, Entry
    <3> QED BY <3>1, <3>2 DEF CountOK
  <2>1. rec.images[s].count \in Nat /\ blamable \in Nat
    BY <1>3 DEF WellFormed, Metadata, Entry, BInv, TypeOK
  <2>2. CASE rec' = rec \/ s # rec.candidate
    BY <1>4, <2>1, <2>2 DEF BInv, CountOK
  <2>3. CASE rec' # rec /\ s = rec.candidate
    <3>1. Pending  BY <1>4, <2>3 DEF Pending
    <3> QED BY <1>4, <2>1, <2>3, <3>1 DEF BInv, CountOK
  <2> QED BY <2>2, <2>3
<1> QED BY <1>5, <1>6, <1>7, <1>8, <1>9 DEF BInv

(* A slot that verifies yields a manifest.                                 *)
LEMMA StoredManifest ==
  ASSUME NEW s, Verifies(s)
  PROVE  Stored(s) \in Manifest /\ Stored(s).slot = s
BY DEF Verifies, Stored, Manifest

(* A selection step, from what it does to the record and to the processor. *)
LEMMA SelectFrame ==
  ASSUME BInv, Selecting, RecordOK',
         \A s \in Slot : /\ rec'.images[s].image = rec.images[s].image
                         /\ rec'.images[s].count = rec.images[s].count
                         /\ rec'.images[s].state \in {"READY", "TRIAL", "REJECTED"} =>
                              rec.images[s].state \in {"READY", "TRIAL", "REJECTED"},
         blocked' \in BOOLEAN, doubt' \in BOOLEAN, doubt' => stage' = "stopped",
         \/ stage' = "stopped" /\ running' = running
         \/ stage' = "handoff" /\ running' \in Manifest /\ TrialIsDurable'
  PROVE  BInv'
<1>1. /\ stage = "select" /\ BootKeeps /\ flash' = flash /\ resc = {} /\ resc' = {}
      /\ captured = {} /\ captured' = {}
  BY DEF BInv, StageOK, Selecting
<1>2. TypeOK' /\ ReceiveOK' /\ AcceptedIsDurable' /\ active' = "NONE" /\ phase' = "NEW"
  <2>1. /\ rec' \in Metadata /\ running' \in Manifest \cup {NoManifest}
        /\ {} \in SUBSET ResetFlag /\ stage # "running"
        /\ stage' \in {"capture", "clear", "account", "select", "handoff", "running", "stopped"}
    BY <1>1 DEF BInv, TypeOK, RecordOK, WellFormed
  <2> QED BY <1>1, <2>1, BootFrame
<1>3. RecordDescribesFlash'
  BY <1>1, SameImages DEF BInv, BootKeeps
<1>4. StageOK' /\ DoubtOK' /\ LaunchOK'
  BY <1>1, <1>2 DEF StageOK, DoubtOK, Booting, LaunchOK, TrialIsDurable
<1>5. CountOK'
  <2>1. ~Pending /\ ~Pending' /\ blamable' = blamable /\ blamable \in Nat
    BY <1>1 DEF Pending, BootKeeps, BInv, TypeOK
  <2>2. \A s \in Slot : rec.images[s].count \in Nat
    BY DEF BInv, TypeOK, Metadata, Entry
  <2> QED BY <2>1, <2>2 DEF BInv, CountOK
<1> QED BY <1>2, <1>3, <1>4, <1>5 DEF BInv

(* Committing a proposal and launching: the record is the old one or the   *)
(* proposed one, and the image runs only on the proposed one.              *)
LEMMA CommitAnswer ==
  ASSUME BInv, Selecting, NEW proposal, NEW s, CommitAndLaunch(proposal, s)
  PROVE  /\ blocked' \in BOOLEAN /\ doubt' \in BOOLEAN
         /\ doubt' => stage' = "stopped"
         /\ rec' \in {rec, proposal.record}
         /\ \/ stage' = "stopped" /\ running' = running
            \/ stage' = "handoff" /\ running' = Stored(s) /\ rec' = proposal.record
<1>1. ~doubt /\ TypeOK
  BY DEF BInv, DoubtOK, Booting, Selecting
<1>2. PICK answer \in {"OK", "FAILED", "UNCERTAIN"} :
        /\ StoreReplace(rec, proposal.record, answer)
        /\ IF answer = "OK" THEN Launch(s) ELSE Stop
  BY DEF CommitAndLaunch
<1> QED BY <1>1, <1>2, StoreAnswer DEF Launch, Stop

(* A candidate that verifies is launched on a durable trial.               *)
LEMMA SelectCandidateStep ==
  ASSUME BInv, SelectCandidate
  PROVE  BInv'
<1> DEFINE s == rec.candidate
           m == Stored(s)
           n == BeginTrial(rec, m).record
<1>1. Selecting /\ Verifies(s) /\ WellFormed(rec) /\ RecordOK
  BY DEF SelectCandidate, CandidateOut, BInv, RecordOK
<1>2. s \in Slot /\ m \in Manifest /\ m.slot = s
  BY <1>1, StoredManifest DEF Verifies
<1>3. ~doubt /\ doubt \in BOOLEAN /\ blocked \in BOOLEAN
  BY <1>1 DEF BInv, TypeOK, DoubtOK, Booting, Selecting
<1>4. CASE BeginTrial(rec, m).result = "CHANGE"
  <2>1. /\ ImageMatches(rec, m) /\ rec.images[s].state = "READY" /\ WellFormed(n)
        /\ n.images = [rec.images EXCEPT ![s] = [rec.images[s] EXCEPT !.state = "TRIAL"]]
        /\ n.current = rec.current /\ n.intent = rec.intent
    BY <1>1, <1>2, <1>4, TrialChange
  <2>2. /\ n.images[s].state = "TRIAL" /\ n.images[s].image = rec.images[s].image
        /\ \A t \in Slot : /\ n.images[t].image = rec.images[t].image
                           /\ n.images[t].count = rec.images[t].count
                           /\ t # s => n.images[t].state = rec.images[t].state
    BY <1>1, <1>2, <2>1 DEF WellFormed, Metadata, Entry
  <2>3. CommitAndLaunch(BeginTrial(rec, m), s)
    BY <1>4 DEF SelectCandidate
  <2> HIDE DEF m, n, s
  <2>4. /\ blocked' \in BOOLEAN /\ doubt' \in BOOLEAN
        /\ doubt' => stage' = "stopped"
        /\ rec' \in {rec, n}
        /\ \/ stage' = "stopped" /\ running' = running
           \/ stage' = "handoff" /\ running' = m /\ rec' = n
    BY <1>1, <2>3, CommitAnswer DEF m, n
  <2>5. RecordOK'
    BY <1>1, <2>1, <2>4 DEF RecordOK
  <2>6. stage' = "handoff" => TrialIsDurable'
    BY <1>2, <2>1, <2>2, <2>4 DEF TrialIsDurable, ImageMatches
  <2>7. \A t \in Slot : /\ rec'.images[t].image = rec.images[t].image
                        /\ rec'.images[t].count = rec.images[t].count
                        /\ rec'.images[t].state \in {"READY", "TRIAL", "REJECTED"} =>
                             rec.images[t].state \in {"READY", "TRIAL", "REJECTED"}
    BY <2>1, <2>2, <2>4
  <2>8. \/ stage' = "stopped" /\ running' = running
        \/ stage' = "handoff" /\ running' \in Manifest /\ TrialIsDurable'
    BY <1>2, <2>4, <2>6
  <2> QED BY <1>1, <2>4, <2>5, <2>7, <2>8, SelectFrame
<1>5. CASE BeginTrial(rec, m).result = "NO_CHANGE"
  <2>1. ImageMatches(rec, m) /\ rec.images[s].state = "TRIAL"
    BY <1>1, <1>2, <1>5 DEF BeginTrial, Executable, ExecutionError, Refuse, Finish
  <2>2. stage' = "handoff" /\ running' = m /\ UNCHANGED <<rec, blocked, doubt>>
    BY <1>5 DEF SelectCandidate, Launch, Untouched
  <2> HIDE DEF m
  <2>3. RecordOK' /\ TrialIsDurable'
    BY <1>1, <1>2, <2>1, <2>2 DEF RecordOK, TrialIsDurable, ImageMatches
  <2> QED BY <1>1, <1>2, <1>3, <2>2, <2>3, SelectFrame
<1>6. CASE BeginTrial(rec, m).result \notin {"CHANGE", "NO_CHANGE"}
  <2>1. stage' = "stopped" /\ running' = running /\ UNCHANGED <<rec, blocked, doubt>>
    BY <1>6 DEF SelectCandidate, Stop, Untouched
  <2>2. RecordOK'
    BY <1>1, <2>1 DEF RecordOK
  <2> QED BY <1>1, <1>3, <2>1, <2>2, SelectFrame
<1> QED BY <1>4, <1>5, <1>6

(* The current image is launched, without a write, if it is the recorded   *)
(* one.                                                                    *)
LEMMA SelectCurrentStep ==
  ASSUME BInv, SelectCurrent
  PROVE  BInv'
<1> DEFINE m == Stored(rec.current)
<1>1. /\ Selecting /\ Verifies(rec.current) /\ RecordOK /\ rec.current \in rec.confirmed
      /\ UNCHANGED <<rec, blocked, doubt>>
  BY DEF SelectCurrent, BInv, Untouched
<1>2. m \in Manifest /\ m.slot = rec.current
  BY <1>1, StoredManifest
<1>3. ~doubt /\ doubt \in BOOLEAN /\ blocked \in BOOLEAN
  BY <1>1 DEF BInv, TypeOK, DoubtOK, Booting, Selecting
<1>4. \/ stage' = "stopped" /\ running' = running
      \/ stage' = "handoff" /\ running' = m /\ ImageMatches(rec, m)
  BY DEF SelectCurrent, Launch, Stop
<1> HIDE DEF m
<1>5. RecordOK' /\ (stage' = "handoff" => TrialIsDurable')
  BY <1>1, <1>2, <1>4 DEF RecordOK, TrialIsDurable, ImageMatches
<1> QED BY <1>1, <1>2, <1>3, <1>4, <1>5, SelectFrame

(* The fallback is launched once its promotion is durable.                 *)
LEMMA SelectPreviousStep ==
  ASSUME BInv, SelectPrevious
  PROVE  BInv'
<1> DEFINE m == Stored(rec.previous)
           n == PromotePrevious(rec, CurrentIdentity, "INVALID", m).record
<1>1. Selecting /\ RecordOK /\ WellFormed(rec)
  BY DEF SelectPrevious, BInv, RecordOK
<1>2. ~doubt /\ doubt \in BOOLEAN /\ blocked \in BOOLEAN
  BY <1>1 DEF BInv, TypeOK, DoubtOK, Booting, Selecting
<1>3. CASE /\ rec.current \in rec.confirmed
           /\ rec.previous \in rec.confirmed \ {rec.current, rec.candidate}
           /\ Verifies(rec.previous) /\ ImageMatches(rec, m)
           /\ PromotePrevious(rec, CurrentIdentity, "INVALID", m).result = "CHANGE"
  <2>1. m \in Manifest /\ m.slot = rec.previous
    BY <1>3, StoredManifest
  <2>2. CurrentIdentity \in Identity
    <3>1. rec.current \in Slot /\ rec \in Metadata /\ ImageRulesValid(rec, rec.current)
      BY <1>1 DEF RecordOK, WellFormed, MetadataValid
    <3> QED BY <1>3, <3>1 DEF CurrentIdentity, Identity, Metadata, Entry, ImageRulesValid
  <2>3. /\ WellFormed(n) /\ n.images = rec.images /\ n.intent = rec.intent
        /\ n.current = rec.previous /\ rec.previous \in Slot
    BY <1>1, <1>3, <2>1, <2>2, PromoteChange
  <2>4. n.previous # n.current /\ n.current \in n.confirmed
    BY <2>3 DEF WellFormed, MetadataValid, RolesValid, Slot, NoSlot
  <2>5. CommitAndLaunch(PromotePrevious(rec, CurrentIdentity, "INVALID", m), rec.previous)
    BY <1>3 DEF SelectPrevious
  <2> HIDE DEF m, n
  <2>6. /\ blocked' \in BOOLEAN /\ doubt' \in BOOLEAN
        /\ doubt' => stage' = "stopped"
        /\ rec' \in {rec, n}
        /\ \/ stage' = "stopped" /\ running' = running
           \/ stage' = "handoff" /\ running' = m /\ rec' = n
    BY <1>1, <2>5, CommitAnswer DEF m, n
  <2>7. RecordOK'
    BY <1>1, <2>3, <2>6 DEF RecordOK
  <2>8. stage' = "handoff" => TrialIsDurable'
    BY <1>3, <2>1, <2>3, <2>4, <2>6 DEF TrialIsDurable, ImageMatches
  <2>9. \A t \in Slot : /\ rec'.images[t].image = rec.images[t].image
                        /\ rec'.images[t].count = rec.images[t].count
                        /\ rec'.images[t].state \in {"READY", "TRIAL", "REJECTED"} =>
                             rec.images[t].state \in {"READY", "TRIAL", "REJECTED"}
    BY <2>3, <2>6
  <2>10. \/ stage' = "stopped" /\ running' = running
         \/ stage' = "handoff" /\ running' \in Manifest /\ TrialIsDurable'
    BY <2>1, <2>6, <2>8
  <2> QED BY <1>1, <2>6, <2>7, <2>9, <2>10, SelectFrame
<1>4. CASE ~(/\ rec.current \in rec.confirmed
             /\ rec.previous \in rec.confirmed \ {rec.current, rec.candidate}
             /\ Verifies(rec.previous) /\ ImageMatches(rec, m)
             /\ PromotePrevious(rec, CurrentIdentity, "INVALID", m).result = "CHANGE")
  <2>1. stage' = "stopped" /\ running' = running /\ UNCHANGED <<rec, blocked, doubt>>
    BY <1>4 DEF SelectPrevious, Stop, Untouched
  <2>2. RecordOK'
    BY <1>1, <2>1 DEF RecordOK
  <2> QED BY <1>1, <1>2, <2>1, <2>2, SelectFrame
<1> QED BY <1>3, <1>4

-----------------------------------------------------------------------------
(* The application: steps that write nothing                               *)

(* The types of what an upload step may write, and of the receiver.        *)
MemoryTypes ==
  /\ rec \in Metadata /\ flash \in [Slot -> [manifest: Content, payload: Content]]
  /\ blocked \in BOOLEAN /\ doubt \in BOOLEAN /\ eof \in BOOLEAN
  /\ corrupted \in SUBSET Slot /\ blamable \in 0..3

ReceiverTypes ==
  /\ authority \in Metadata \cup {NoRecord} /\ header \in Content /\ word \in 0..1
  /\ programmed \in 0..P /\ pages \in 0..2 /\ manifest_words \in 0..1

(* The type invariant, in those two parts.                                 *)
LEMMA TypesSplit == TypeOK => MemoryTypes /\ ReceiverTypes
BY DEF TypeOK, MemoryTypes, ReceiverTypes

(* A step of the running image: no boot is in progress, the launched image *)
(* is the recorded one and the causes are cleared.                         *)
LEMMA RunningFacts ==
  ASSUME BInv, stage = "running"
  PROVE  /\ running \in Manifest /\ resc = {} /\ captured = {} /\ ~Pending
         /\ rec.images[running.slot].image = running.image
         /\ doubt => quarantine
         /\ Permitted \in Slot
<1>1. /\ running \in Manifest /\ resc = {} /\ captured = {}
      /\ rec.images[running.slot].image = running.image
      /\ doubt => quarantine
  BY DEF BInv, LaunchOK, TrialIsDurable, StageOK, DoubtOK
<1> QED BY <1>1, UploadEvidence DEF Pending

(* A receiver that fails keeps no promise to break.                        *)
LEMMA StopsFrame ==
  ASSUME BInv, Receiving, MemoryTypes', NEW x \in BOOLEAN, ReceiveStops(x)
  PROVE  /\ TypeOK' /\ ReceiveOK' /\ AcceptedIsDurable'
         /\ (quarantine \/ x) => quarantine'
         /\ active' = "FIRMWARE"
<1>1. quarantine' \in BOOLEAN /\ ((quarantine \/ x) => quarantine') /\ active' = "FIRMWARE"
      /\ ~accepted' /\ phase' = "TERMINAL"
  BY DEF ReceiveStops, Consumed, Receiving, BInv, TypeOK
<1>2. ReceiverTypes'
  BY PAssumption DEF ReceiverTypes, ReceiveStops, Consumed, Content
<1>3. TypeOK'
  BY <1>1, <1>2 DEF BInv, TypeOK, MemoryTypes, ReceiverTypes, Receiving, AppKeeps, boot,
                    ReceiveStops, Phase
<1> QED BY <1>1, <1>3, NoReceiver DEF AcceptedIsDurable

(* A receiver that goes on has answered nothing yet.                       *)
LEMMA GoesFrame ==
  ASSUME BInv, Receiving, MemoryTypes', ReceiverTypes', NEW p \in Phase, ReceiveGoes(p)
  PROVE  /\ TypeOK' /\ AcceptedIsDurable'
         /\ quarantine' = quarantine
         /\ active' = "FIRMWARE" /\ ~accepted' /\ phase' = p
<1>1. TypeOK'
  BY DEF BInv, TypeOK, MemoryTypes, ReceiverTypes, Receiving, AppKeeps, boot, ReceiveGoes
<1> QED BY <1>1 DEF AcceptedIsDurable, Receiving, ReceiveGoes

(* The parts of the invariant that no step of the running image touches    *)
(* as long as it writes no flash.                                          *)
LEMMA QuietStep ==
  ASSUME BInv, AppKeeps, UNCHANGED <<rec, flash, history>>,
         doubt /\ quarantine => quarantine',
         TypeOK', ReceiveOK', AcceptedIsDurable'
  PROVE  BInv'
<1>1. /\ UNCHANGED <<rec, flash, resc, stage, captured, running, corrupted, blamable, doubt>>
      /\ stage = "running"
  BY DEF AppKeeps, boot, history
<1>2. RecordOK' /\ RecordDescribesFlash' /\ CountOK' /\ LaunchOK'
  BY <1>1 DEF BInv, RecordOK, RecordDescribesFlash, CountOK, Pending, LaunchOK, TrialIsDurable
<1>3. StageOK' /\ DoubtOK'
  BY <1>1, RunningFacts DEF StageOK, DoubtOK, Booting
<1> QED BY <1>2, <1>3 DEF BInv

(* A turn of the owner, or its end.                                        *)
LEMMA OwnerStep ==
  ASSUME BInv, OwnerTurn \/ OwnerFails
  PROVE  BInv'
<1>1. CASE OwnerTurn
  <2>1. AppKeeps /\ UNCHANGED <<rec, flash, history>> /\ quarantine' = quarantine
    BY <1>1 DEF OwnerTurn, service
  <2>2. TypeOK'
    BY <1>1 DEF BInv, TypeOK, OwnerTurn, AppKeeps, boot, service, receive, history
  <2>3. ReceiveOK'
    BY <1>1, ReceiveFrame DEF BInv, OwnerTurn, AppKeeps, boot, service, receive, history
  <2>4. AcceptedIsDurable'
    BY <1>1 DEF BInv, AcceptedIsDurable, Permitted, OwnerTurn, AppKeeps, boot, service
  <2> QED BY <2>1, <2>2, <2>3, <2>4, QuietStep
<1>2. CASE OwnerFails
  <2>1. /\ stage = "running" /\ stage' = "stopped" /\ FreshRAM
        /\ UNCHANGED <<rec, flash, resc, corrupted, blamable, doubt>>
    BY <1>2 DEF OwnerFails, durable, history
  <2>2. TypeOK'
    BY <2>1, FreshTypes DEF BInv, TypeOK
  <2>3. ReceiveOK' /\ AcceptedIsDurable'
    BY <2>1, NoReceiver, NoOperation DEF FreshRAM
  <2>4. RecordOK' /\ RecordDescribesFlash'
    BY <2>1 DEF BInv, RecordOK, RecordDescribesFlash
  <2>5. StageOK' /\ DoubtOK' /\ LaunchOK'
    BY <2>1 DEF StageOK, DoubtOK, Booting, LaunchOK, TrialIsDurable, FreshRAM
  <2>6. CountOK'
    BY <2>1, RunningFacts DEF BInv, CountOK, Pending, FreshRAM
  <2> QED BY <2>2, <2>3, <2>4, <2>5, <2>6 DEF BInv
<1> QED BY <1>1, <1>2

(* An operation begins: nothing is answered yet and nothing is in doubt.   *)
LEMMA BegunTypes ==
  ASSUME BInv, NEW kind \in {"STATUS", "FIRMWARE", "CONFIRM"}, NEW ok \in BOOLEAN,
         Begun(kind, ok), blocked' \in BOOLEAN,
         finished' \in BOOLEAN, used' \in BOOLEAN, phase' \in Phase, ReceiverTypes'
  PROVE  /\ TypeOK' /\ AcceptedIsDurable' /\ AppKeeps /\ UNCHANGED <<rec, flash, history>>
         /\ ~doubt
<1>1. /\ AppKeeps /\ UNCHANGED <<rec, flash, history>> /\ ~quarantine /\ ~accepted'
      /\ quarantine' \in BOOLEAN /\ eof' \in BOOLEAN /\ accepted' \in BOOLEAN
      /\ active' \in {"NONE", "STATUS", "FIRMWARE", "CONFIRM"}
  BY DEF Begun
<1>2. TypeOK'
  BY <1>1 DEF Begun, BInv, TypeOK, ReceiverTypes, AppKeeps, boot, history
<1>3. ~doubt
  BY <1>1, RunningFacts DEF AppKeeps
<1> QED BY <1>1, <1>2, <1>3 DEF AcceptedIsDurable

(* An operation begins only on a service that is not quarantined.          *)
LEMMA BeginStep ==
  ASSUME BInv, BeginStatus \/ BeginConfirm \/ BeginFirmware
  PROVE  BInv'
<1>0. ReceiverTypes /\ used \in BOOLEAN /\ finished \in BOOLEAN /\ blocked \in BOOLEAN /\ phase \in Phase
  BY TypesSplit DEF BInv, TypeOK
<1>1. active = "NONE"
  BY DEF BeginStatus, BeginConfirm, BeginFirmware, Begun
<1>2. phase \notin Upcoming \cup Given
  BY <1>1 DEF BInv, ReceiveOK
<1>3. CASE BeginStatus
  <2>1. PICK ok \in BOOLEAN : Reads(ok) /\ Begun("STATUS", ok) /\ UNCHANGED <<used, finished, receive>>
    BY <1>3 DEF BeginStatus
  <2>2. blocked' \in BOOLEAN  BY <1>0, <2>1 DEF Reads
  <2>3. ReceiverTypes' /\ phase' = phase
    BY <1>0, <2>1 DEF ReceiverTypes, receive
  <2>4. ReceiveOK'  BY <1>2, <2>3 DEF ReceiveOK, Upcoming, Given
  <2>5. /\ TypeOK' /\ AcceptedIsDurable' /\ AppKeeps /\ UNCHANGED <<rec, flash, history>>
        /\ ~doubt
    BY <1>0, <2>1, <2>2, <2>3, BegunTypes
  <2> QED BY <2>4, <2>5, QuietStep
<1>4. CASE BeginConfirm
  <2>1. /\ Begun("CONFIRM", TRUE) /\ used' = used /\ finished' = FALSE
        /\ blocked' = blocked /\ UNCHANGED receive
    BY <1>4 DEF BeginConfirm
  <2>3. ReceiverTypes' /\ phase' = phase
    BY <1>0, <2>1 DEF ReceiverTypes, receive
  <2>4. ReceiveOK'  BY <1>2, <2>3 DEF ReceiveOK, Upcoming, Given
  <2>5. /\ TypeOK' /\ AcceptedIsDurable' /\ AppKeeps /\ UNCHANGED <<rec, flash, history>>
        /\ ~doubt
    BY <1>0, <2>1, <2>3, BegunTypes
  <2> QED BY <2>4, <2>5, QuietStep
<1>5. CASE BeginFirmware
  <2>1. PICK ok \in BOOLEAN :
          /\ used' = TRUE /\ Reads(ok) /\ Begun("FIRMWARE", ok /\ Room(rec))
          /\ phase' = IF active' = "FIRMWARE" THEN "HEADER" ELSE "TERMINAL"
          /\ authority' = IF active' = "FIRMWARE" THEN rec ELSE NoRecord
          /\ UNCHANGED <<finished, header, word, programmed, pages, manifest_words>>
    BY <1>5 DEF BeginFirmware
  <2>2. blocked' \in BOOLEAN  BY <1>0, <2>1 DEF Reads
  <2>3. ReceiverTypes' /\ phase' \in {"HEADER", "TERMINAL"}
    BY <1>0, <2>1 DEF ReceiverTypes, BInv, TypeOK
  <2>4. /\ rec' = rec /\ ~accepted'
        /\ active' = "FIRMWARE" => Room(rec)
    BY <2>1 DEF Begun
  <2>5. ReceiveOK'
    BY <2>1, <2>3, <2>4 DEF ReceiveOK, Upcoming, Given, Room
  <2>6. /\ TypeOK' /\ AcceptedIsDurable' /\ AppKeeps /\ UNCHANGED <<rec, flash, history>>
        /\ ~doubt
    <3>1. (ok /\ Room(rec)) \in BOOLEAN /\ phase' \in Phase  BY <2>3 DEF Phase
    <3> QED BY <1>0, <2>1, <2>2, <2>3, <3>1, BegunTypes
  <2> QED BY <2>5, <2>6, QuietStep
<1> QED BY <1>3, <1>4, <1>5

(* The end of a confirmation request changes nothing durable.              *)
LEMMA EofConfirmStep ==
  ASSUME BInv, EofConfirm
  PROVE  BInv'
<1>1. /\ AppKeeps /\ UNCHANGED <<rec, flash, history>> /\ eof' = TRUE
      /\ UNCHANGED <<healthy, blocked, active, used, accepted, finished, quarantine, acceptance, receive>>
  BY DEF EofConfirm, Confirming, history
<1>2. TypeOK'
  BY <1>1 DEF BInv, TypeOK, AppKeeps, boot, receive, history
<1>3. ReceiveOK'
  BY <1>1, ReceiveFrame DEF BInv, AppKeeps, boot, receive, history
<1>4. AcceptedIsDurable'
  BY <1>1 DEF BInv, AcceptedIsDurable, Permitted, AppKeeps, boot
<1> QED BY <1>1, <1>2, <1>3, <1>4, QuietStep

(* Ending an operation aborts an upload that was not accepted.             *)
LEMMA EndStep ==
  ASSUME BInv, End
  PROVE  BInv'
<1>1. /\ AppKeeps /\ UNCHANGED <<rec, flash, history>> /\ active' = "NONE"
      /\ UNCHANGED <<healthy, blocked, used, accepted, eof, finished, quarantine, acceptance>>
  BY DEF End
<1>2. CASE active = "FIRMWARE" /\ ~accepted
  <2>1. Consumed  BY <1>2 DEF End
  <2>2. ReceiverTypes' /\ phase' = "TERMINAL"
    BY <2>1, PAssumption DEF ReceiverTypes, Consumed, Content
  <2>3. TypeOK'
    BY <1>1, <2>2 DEF BInv, TypeOK, ReceiverTypes, AppKeeps, boot, history, Phase
  <2> QED BY <1>1, <2>2, <2>3, NoReceiver, NoOperation, QuietStep
<1>3. CASE ~(active = "FIRMWARE" /\ ~accepted)
  <2>1. UNCHANGED receive  BY <1>3 DEF End
  <2>2. phase \notin Upcoming \cup Given
    BY <1>3 DEF BInv, ReceiveOK
  <2>3. ReceiveOK'
    BY <2>1, <2>2 DEF ReceiveOK, receive, Upcoming, Given
  <2>4. TypeOK'
    BY <1>1, <2>1 DEF BInv, TypeOK, receive, AppKeeps, boot, history
  <2> QED BY <1>1, <2>3, <2>4, NoOperation, QuietStep
<1> QED BY <1>2, <1>3

(* Bytes and the end of the stream reach the receiver.                     *)
LEMMA FeedStep ==
  ASSUME BInv, FeedHeader \/ FeedPayload \/ EofFirmware
  PROVE  BInv'
<1>0. /\ Receiving /\ AppKeeps /\ UNCHANGED <<rec, flash, blocked, history>> /\ eof' \in BOOLEAN
  BY DEF FeedHeader, FeedPayload, EofFirmware, Receiving, BInv, TypeOK
<1>1. MemoryTypes' /\ MemoryTypes /\ ReceiverTypes
  BY <1>0, TypesSplit DEF BInv, MemoryTypes, history
<1>2. CASE FeedHeader
  <2>1. /\ ReceiveGoes("AUTHENTICATE") /\ header' \in Content /\ phase = "HEADER"
        /\ UNCHANGED <<authority, word, programmed, pages, manifest_words>>
    BY <1>2 DEF FeedHeader, Content
  <2>2. ReceiverTypes'  BY <1>1, <2>1 DEF ReceiverTypes
  <2>3. "AUTHENTICATE" \in Phase  BY DEF Phase
  <2>4. /\ TypeOK' /\ AcceptedIsDurable' /\ quarantine' = quarantine
        /\ active' = "FIRMWARE" /\ ~accepted' /\ phase' = "AUTHENTICATE"
    BY <1>0, <1>1, <2>1, <2>2, <2>3, GoesFrame
  <2>5. authority = rec /\ Room(rec)
    BY <2>1 DEF BInv, ReceiveOK, Upcoming
  <2>6. ReceiveOK'
    BY <1>0, <2>1, <2>4, <2>5 DEF ReceiveOK, Upcoming, Given, Room
  <2> QED BY <1>0, <2>4, <2>6, QuietStep
<1>3. CASE ReceiveStops(FALSE)
  <2>1. TypeOK' /\ ReceiveOK' /\ AcceptedIsDurable' /\ (quarantine => quarantine')
    BY <1>0, <1>1, <1>3, StopsFrame
  <2> QED BY <1>0, <2>1, QuietStep
<1>4. CASE FeedPayload /\ ~ReceiveStops(FALSE)
  <2>1. /\ ReceiveGoes("PAYLOAD") /\ word' = 1 /\ phase = "PAYLOAD"
        /\ UNCHANGED <<authority, header, programmed, pages, manifest_words>>
    BY <1>4 DEF FeedPayload
  <2>2. ReceiverTypes'  BY <1>1, <2>1 DEF ReceiverTypes
  <2>3. "PAYLOAD" \in Phase  BY DEF Phase
  <2>4. TypeOK' /\ AcceptedIsDurable' /\ quarantine' = quarantine
    BY <1>0, <1>1, <2>1, <2>2, <2>3, GoesFrame
  <2>5. ReceiveOK'
    BY <1>0, <2>1, ReceiveFrame DEF BInv, AppKeeps, boot, ReceiveGoes, history
  <2> QED BY <1>0, <2>4, <2>5, QuietStep
<1>5. CASE EofFirmware /\ ~ReceiveStops(FALSE)
  <2>1. UNCHANGED <<active, accepted, quarantine, acceptance, receive>>
    BY <1>5 DEF EofFirmware
  <2>2. TypeOK'
    BY <1>0, <2>1 DEF BInv, TypeOK, Receiving, AppKeeps, boot, receive, history
  <2>3. ReceiveOK'
    BY <1>0, <2>1, ReceiveFrame DEF BInv, AppKeeps, boot, receive, history
  <2>4. AcceptedIsDurable'
    BY <1>0, <2>1 DEF AcceptedIsDurable, Receiving
  <2> QED BY <1>0, <2>1, <2>2, <2>3, <2>4, QuietStep
<1> QED BY <1>2, <1>3, <1>4, <1>5

(* The manifest is admitted against the record the upload began with.      *)
LEMMA AuthenticateStep ==
  ASSUME BInv, StepAuthenticate
  PROVE  BInv'
<1>0. /\ Receiving /\ AppKeeps /\ UNCHANGED <<rec, flash, blocked, history, eof>>
      /\ phase = "AUTHENTICATE"
  BY DEF StepAuthenticate, Stepping, Receiving
<1>1. MemoryTypes' /\ MemoryTypes /\ ReceiverTypes
  BY <1>0, TypesSplit DEF BInv, MemoryTypes, history
<1>2. CASE header \in Image /\ Invalidate(authority, Evidence).result = "CHANGE"
  <2>1. /\ ReceiveGoes("INVALIDATE")
        /\ UNCHANGED <<authority, header, word, programmed, pages, manifest_words>>
    BY <1>2 DEF StepAuthenticate
  <2>2. ReceiverTypes'  BY <1>1, <2>1 DEF ReceiverTypes
  <2>3. "INVALIDATE" \in Phase  BY DEF Phase
  <2>4. /\ TypeOK' /\ AcceptedIsDurable' /\ quarantine' = quarantine
        /\ active' = "FIRMWARE" /\ ~accepted' /\ phase' = "INVALIDATE"
    BY <1>0, <1>1, <2>1, <2>2, <2>3, GoesFrame
  <2>5. authority = rec /\ Room(rec)
    BY <1>0 DEF BInv, ReceiveOK, Upcoming
  <2>6. Evidence' = Evidence
    BY <1>0, <2>1 DEF Evidence, Permitted, AppKeeps, boot
  <2>7. ReceiveOK'
    BY <1>0, <1>2, <2>1, <2>4, <2>5, <2>6 DEF ReceiveOK, Upcoming, Given, Room
  <2> QED BY <1>0, <2>4, <2>7, QuietStep
<1>3. CASE ~(header \in Image /\ Invalidate(authority, Evidence).result = "CHANGE")
  <2>1. ReceiveStops(FALSE)  BY <1>3 DEF StepAuthenticate
  <2>2. TypeOK' /\ ReceiveOK' /\ AcceptedIsDurable' /\ (quarantine => quarantine')
    BY <1>0, <1>1, <2>1, StopsFrame
  <2> QED BY <1>0, <2>2, QuietStep
<1> QED BY <1>2, <1>3

(* What was verified is what flash holds, and it can be accepted.          *)
LEMMA VerifyStep ==
  ASSUME BInv, StepVerify
  PROVE  BInv'
<1>0. /\ Receiving /\ AppKeeps /\ UNCHANGED <<rec, flash, history, eof>> /\ phase = "VERIFY"
      /\ stage = "running"
  BY DEF StepVerify, Stepping, Receiving, AppKeeps
<1>1. PICK ok \in BOOLEAN :
       /\ Reads(ok)
       /\ IF /\ ok /\ flash[Permitted].manifest = header /\ Verifies(Permitted)
             /\ AcceptReady(authority, Evidence, Stored(Permitted)).result = "CHANGE"
          THEN /\ ReceiveGoes("READY")
               /\ UNCHANGED <<authority, header, word, programmed, pages, manifest_words>>
          ELSE ReceiveStops(blocked')
  BY DEF StepVerify
<1>2. blocked' \in BOOLEAN  BY <1>1 DEF BInv, TypeOK, Reads
<1>3. MemoryTypes' /\ MemoryTypes /\ ReceiverTypes
  BY <1>0, <1>2, TypesSplit DEF BInv, MemoryTypes, history
<1>4. CASE ReceiveStops(blocked')
  <2>1. TypeOK' /\ ReceiveOK' /\ AcceptedIsDurable' /\ (quarantine => quarantine')
    BY <1>0, <1>2, <1>3, <1>4, StopsFrame
  <2> QED BY <1>0, <2>1, QuietStep
<1>5. CASE ~ReceiveStops(blocked')
  <2>1. /\ flash[Permitted].manifest = header /\ Verifies(Permitted)
        /\ AcceptReady(authority, Evidence, Stored(Permitted)).result = "CHANGE"
        /\ ReceiveGoes("READY")
        /\ UNCHANGED <<authority, header, word, programmed, pages, manifest_words>>
    BY <1>1, <1>5
  <2>2. ReceiverTypes'  BY <1>3, <2>1 DEF ReceiverTypes
  <2>3. "READY" \in Phase  BY DEF Phase
  <2>4. /\ TypeOK' /\ AcceptedIsDurable' /\ quarantine' = quarantine
        /\ active' = "FIRMWARE" /\ ~accepted' /\ phase' = "READY"
    BY <1>0, <1>3, <2>1, <2>2, <2>3, GoesFrame
  <2>5. authority = rec /\ EraseAllowed(rec) /\ ~Exhausted(rec) /\ header \in Image
    BY <1>0 DEF BInv, ReceiveOK, Given
  <2>6. Evidence' = Evidence /\ Permitted' = Permitted /\ running' = running
    BY <1>0, <2>1 DEF Evidence, Permitted, AppKeeps, boot
  <2>7. Evidence.incoming = Stored(Permitted)
    BY <2>1 DEF Evidence, Stored
  <2>8. flash[Permitted] = [manifest |-> header, payload |-> header]
    BY <1>3, <2>1 DEF Verifies, MemoryTypes
  <2>9. ReceiveOK'
    <3>1. EraseAllowed(rec)' /\ (~Exhausted(rec))'
      BY <1>0, <2>5, <2>6 DEF EraseAllowed
    <3>2. (AcceptReady(rec, Evidence, Evidence.incoming).result = "CHANGE")'
      BY <1>0, <2>1, <2>5, <2>6, <2>7
    <3>3. (flash[Permitted] = [manifest |-> header, payload |-> header])'
      BY <1>0, <2>1, <2>6, <2>8
    <3> QED BY <1>0, <2>1, <2>4, <2>5, <3>1, <3>2, <3>3 DEF ReceiveOK, Upcoming, Given
  <2> QED BY <1>0, <2>4, <2>9, QuietStep
<1> QED BY <1>4, <1>5

-----------------------------------------------------------------------------
(* The application: steps that write flash                                 *)

(* Whatever becomes of a flash command, it touches one slot only.          *)
LEMMA ModifyEffect ==
  ASSUME TypeOK, NEW s \in Slot, NEW part \in {"manifest", "payload"}, NEW new \in Content,
         NEW ok \in BOOLEAN, Modify(s, part, new, ok)
  PROVE  /\ flash' \in [Slot -> [manifest: Content, payload: Content]]
         /\ \A t \in Slot \ {s} : flash'[t] = flash[t]
         /\ blocked' \in BOOLEAN
<1>0. /\ flash \in [Slot -> [manifest: Content, payload: Content]] /\ blocked \in BOOLEAN
      /\ flash[s][part] \in Content /\ Torn \in Content
  BY DEF TypeOK, Content
<1>1. CASE flash' = flash /\ blocked' = blocked
  BY <1>0, <1>1
<1>2. CASE \E left \in Content : flash' = [flash EXCEPT ![s][part] = left]
  <2>1. PICK left \in Content : flash' = [flash EXCEPT ![s][part] = left]
    BY <1>2
  <2>2. blocked' \in BOOLEAN
    BY <1>0 DEF Modify
  <2> QED BY <1>0, <2>1, <2>2
<1> QED BY <1>0, <1>1, <1>2 DEF Modify

(* The record says nothing of the slot that was given up, so that whatever *)
(* is written there contradicts nothing.                                   *)
LEMMA WriteFrame ==
  ASSUME BInv, AppKeeps, EraseAllowed(rec), UNCHANGED <<rec, blamable, doubt>>,
         \A t \in Slot \ {Permitted} : flash'[t] = flash[t],
         corrupted \subseteq corrupted' \cup {Permitted},
         quarantine => quarantine', TypeOK', ReceiveOK', AcceptedIsDurable'
  PROVE  BInv'
<1>1. stage = "running" /\ UNCHANGED <<resc, stage, captured, running>>
  BY DEF AppKeeps, boot
<1>2. RecordOK' /\ CountOK' /\ LaunchOK'
  BY <1>1 DEF BInv, RecordOK, CountOK, Pending, LaunchOK, TrialIsDurable
<1>3. StageOK' /\ DoubtOK'
  BY <1>1, RunningFacts DEF StageOK, DoubtOK, Booting
<1>4. rec.images[Permitted].image = NoImage
  BY DEF EraseAllowed, EmptyEntry, FreshEntry
<1>5. RecordDescribesFlash'
  BY <1>4 DEF BInv, RecordDescribesFlash
<1> QED BY <1>2, <1>3, <1>5 DEF BInv

(* The upload goes on with the slot it was given.                          *)
LEMMA GivenFrame ==
  ASSUME BInv, phase \in Given, phase' \in {"ERASE", "PAYLOAD", "WRITE_MANIFEST", "VERIFY"},
         UNCHANGED <<authority, header, rec, running>>, active' = "FIRMWARE", ~accepted'
  PROVE  ReceiveOK'
<1>1. authority = rec /\ header \in Image /\ EraseAllowed(rec) /\ ~Exhausted(rec)
  BY DEF BInv, ReceiveOK
<1>2. EraseAllowed(rec)'
  BY <1>1 DEF EraseAllowed, Permitted
<1> QED BY <1>1, <1>2 DEF ReceiveOK, Upcoming, Given

(* Erasing the slot that was given up.                                     *)
LEMMA EraseStep ==
  ASSUME BInv, StepErase
  PROVE  BInv'
<1>0. /\ Receiving /\ AppKeeps /\ UNCHANGED <<rec, blamable, doubt, eof>> /\ phase = "ERASE"
      /\ stage = "running" /\ running' = running
  BY DEF StepErase, Stepping, Receiving, AppKeeps, boot
<1>1. EraseAllowed(rec) /\ header \in Image /\ phase \in Given
  BY <1>0 DEF BInv, ReceiveOK, Given
<1>2. Permitted \in Slot
  BY <1>0, RunningFacts
<1>3. TypeOK /\ MemoryTypes /\ ReceiverTypes
  BY TypesSplit DEF BInv
<1>4. CASE Erased(pages)
  <2>1. /\ ReceiveGoes("PAYLOAD")
        /\ UNCHANGED <<flash, blocked, authority, header, word, programmed, pages,
                       manifest_words, corrupted>>
    BY <1>4 DEF StepErase
  <2>2. MemoryTypes' /\ ReceiverTypes' /\ "PAYLOAD" \in Phase
    BY <1>0, <1>3, <2>1 DEF MemoryTypes, ReceiverTypes, Phase
  <2>3. /\ TypeOK' /\ AcceptedIsDurable' /\ quarantine' = quarantine
        /\ active' = "FIRMWARE" /\ ~accepted' /\ phase' = "PAYLOAD"
    BY <1>0, <2>1, <2>2, GoesFrame
  <2>4. ReceiveOK'
    BY <1>0, <1>1, <2>1, <2>3, GivenFrame
  <2> QED BY <1>0, <1>1, <2>1, <2>3, <2>4, WriteFrame
<1>5. CASE ~Erased(pages)
  <2> DEFINE part == IF pages = 0 THEN "manifest" ELSE "payload"
  <2>1. PICK ok \in BOOLEAN :
          /\ Modify(Permitted, part, Blank, ok)
          /\ IF ok THEN /\ ReceiveGoes("ERASE")
                        /\ pages' = pages + 1
                        /\ UNCHANGED <<authority, header, word, programmed, manifest_words>>
                   ELSE ReceiveStops(blocked')
    BY <1>5 DEF StepErase
  <2>2. corrupted' = corrupted \ {Permitted}
    BY <1>5 DEF StepErase
  <2>3. /\ flash' \in [Slot -> [manifest: Content, payload: Content]]
        /\ \A t \in Slot \ {Permitted} : flash'[t] = flash[t]
        /\ blocked' \in BOOLEAN
    <3>1. part \in {"manifest", "payload"} /\ Blank \in Content  BY DEF Content
    <3> HIDE DEF part
    <3> QED BY <1>2, <1>3, <2>1, <3>1, ModifyEffect
  <2>4. MemoryTypes'
    BY <1>0, <1>3, <2>2, <2>3 DEF MemoryTypes
  <2>5. CASE ok
    <3>1. ReceiverTypes' /\ "ERASE" \in Phase
      BY <1>3, <1>5, <2>1, <2>5 DEF ReceiverTypes, Phase, Erased
    <3>2. /\ TypeOK' /\ AcceptedIsDurable' /\ quarantine' = quarantine
          /\ active' = "FIRMWARE" /\ ~accepted' /\ phase' = "ERASE"
      BY <1>0, <2>1, <2>4, <2>5, <3>1, GoesFrame
    <3>3. ReceiveOK'
      BY <1>0, <1>1, <2>1, <2>5, <3>2, GivenFrame
    <3> QED BY <1>0, <1>1, <2>2, <2>3, <3>2, <3>3, WriteFrame
  <2>6. CASE ~ok
    <3>1. ReceiveStops(blocked')  BY <2>1, <2>6
    <3>2. TypeOK' /\ ReceiveOK' /\ AcceptedIsDurable' /\ (quarantine => quarantine')
      BY <1>0, <2>3, <2>4, <3>1, StopsFrame
    <3> QED BY <1>0, <1>1, <2>2, <2>3, <3>2, WriteFrame
  <2> QED BY <2>5, <2>6
<1> QED BY <1>4, <1>5

(* Programming the payload.                                                *)
LEMMA PayloadStep ==
  ASSUME BInv, BufferOK, StepPayload
  PROVE  BInv'
<1>0. /\ Receiving /\ AppKeeps /\ UNCHANGED <<rec, corrupted, blamable, doubt, eof>>
      /\ phase = "PAYLOAD" /\ stage = "running" /\ running' = running
  BY DEF StepPayload, Stepping, Receiving, AppKeeps, boot, history
<1>1. EraseAllowed(rec) /\ header \in Image /\ phase \in Given
  BY <1>0 DEF BInv, ReceiveOK, Given
<1>2. Permitted \in Slot
  BY <1>0, RunningFacts
<1>3. TypeOK /\ MemoryTypes /\ ReceiverTypes
  BY TypesSplit DEF BInv
<1>4. CASE word = 1
  <2>1. PICK ok \in BOOLEAN, new \in IF programmed + 1 = P THEN {header, Torn} ELSE {Torn} :
          /\ Modify(Permitted, "payload", new, ok)
          /\ IF ok THEN /\ programmed' = programmed + 1
                        /\ word' = 0
                        /\ ReceiveGoes(IF eof /\ programmed' = P
                                       THEN "WRITE_MANIFEST" ELSE "PAYLOAD")
                        /\ UNCHANGED <<authority, header, pages, manifest_words>>
                   ELSE ReceiveStops(blocked')
    BY <1>4 DEF StepPayload
  <2>2. /\ flash' \in [Slot -> [manifest: Content, payload: Content]]
        /\ \A t \in Slot \ {Permitted} : flash'[t] = flash[t]
        /\ blocked' \in BOOLEAN
    <3>1. new \in Content  BY <1>1, <2>1 DEF Content
    <3> QED BY <1>2, <1>3, <2>1, <3>1, ModifyEffect
  <2>3. MemoryTypes'
    BY <1>0, <1>3, <2>2 DEF MemoryTypes
  <2>4. CASE ok
    <3>2. ReceiverTypes'
      BY <1>3, <1>4, <2>1, <2>4, PAssumption DEF ReceiverTypes, BufferOK
    <3> DEFINE p == IF eof /\ programmed' = P THEN "WRITE_MANIFEST" ELSE "PAYLOAD"
    <3>3. p \in Phase /\ p \in {"ERASE", "PAYLOAD", "WRITE_MANIFEST", "VERIFY"} /\ ReceiveGoes(p)
      BY <2>1, <2>4 DEF Phase
    <3> HIDE DEF p
    <3>4. /\ TypeOK' /\ AcceptedIsDurable' /\ quarantine' = quarantine
          /\ active' = "FIRMWARE" /\ ~accepted' /\ phase' = p
      BY <1>0, <2>3, <3>2, <3>3, GoesFrame
    <3>5. ReceiveOK'
      BY <1>0, <1>1, <2>1, <2>4, <3>3, <3>4, GivenFrame
    <3> QED BY <1>0, <1>1, <2>2, <3>4, <3>5, WriteFrame
  <2>5. CASE ~ok
    <3>1. ReceiveStops(blocked')  BY <2>1, <2>5
    <3>2. TypeOK' /\ ReceiveOK' /\ AcceptedIsDurable' /\ (quarantine => quarantine')
      BY <1>0, <2>2, <2>3, <3>1, StopsFrame
    <3> QED BY <1>0, <1>1, <2>2, <3>2, WriteFrame
  <2> QED BY <2>4, <2>5
<1>5. CASE word # 1
  <2>1. /\ ReceiveGoes("WRITE_MANIFEST")
        /\ UNCHANGED <<flash, blocked, authority, header, word, programmed, pages,
                       manifest_words>>
    BY <1>5 DEF StepPayload
  <2>2. MemoryTypes' /\ ReceiverTypes' /\ "WRITE_MANIFEST" \in Phase
    BY <1>0, <1>3, <2>1 DEF MemoryTypes, ReceiverTypes, Phase
  <2>3. /\ TypeOK' /\ AcceptedIsDurable' /\ quarantine' = quarantine
        /\ active' = "FIRMWARE" /\ ~accepted' /\ phase' = "WRITE_MANIFEST"
    BY <1>0, <2>1, <2>2, GoesFrame
  <2>4. ReceiveOK'
    BY <1>0, <1>1, <2>1, <2>3, GivenFrame
  <2> QED BY <1>0, <1>1, <2>1, <2>3, <2>4, WriteFrame
<1> QED BY <1>4, <1>5

(* Programming the manifest.                                               *)
LEMMA WriteManifestStep ==
  ASSUME BInv, StepWriteManifest
  PROVE  BInv'
<1>0. /\ Receiving /\ AppKeeps /\ UNCHANGED <<rec, corrupted, blamable, doubt, eof>>
      /\ phase = "WRITE_MANIFEST" /\ stage = "running" /\ running' = running
  BY DEF StepWriteManifest, Stepping, Receiving, AppKeeps, boot, history
<1>1. EraseAllowed(rec) /\ header \in Image /\ phase \in Given
  BY <1>0 DEF BInv, ReceiveOK, Given
<1>2. Permitted \in Slot
  BY <1>0, RunningFacts
<1>3. TypeOK /\ MemoryTypes /\ ReceiverTypes
  BY TypesSplit DEF BInv
<1> DEFINE new == IF manifest_words = 0 THEN Torn ELSE header
           p == IF manifest_words = 1 THEN "VERIFY" ELSE "WRITE_MANIFEST"
<1>4. PICK ok \in BOOLEAN :
       /\ Modify(Permitted, "manifest", new, ok)
       /\ IF ok THEN /\ ReceiveGoes(p)
                     /\ manifest_words' = 1
                     /\ UNCHANGED <<authority, header, word, programmed, pages>>
                ELSE ReceiveStops(blocked')
  BY DEF StepWriteManifest
<1>5. new \in Content /\ p \in Phase /\ p \in {"ERASE", "PAYLOAD", "WRITE_MANIFEST", "VERIFY"}
  BY <1>1 DEF Content, Phase
<1> HIDE DEF new, p
<1>6. /\ flash' \in [Slot -> [manifest: Content, payload: Content]]
      /\ \A t \in Slot \ {Permitted} : flash'[t] = flash[t]
      /\ blocked' \in BOOLEAN
  BY <1>2, <1>3, <1>4, <1>5, ModifyEffect
<1>7. MemoryTypes'
  BY <1>0, <1>3, <1>6 DEF MemoryTypes
<1>8. CASE ok
  <2>1. ReceiverTypes'
    BY <1>3, <1>4, <1>8 DEF ReceiverTypes
  <2>2. /\ TypeOK' /\ AcceptedIsDurable' /\ quarantine' = quarantine
        /\ active' = "FIRMWARE" /\ ~accepted' /\ phase' = p
    BY <1>0, <1>4, <1>5, <1>7, <1>8, <2>1, GoesFrame
  <2>3. ReceiveOK'
    BY <1>0, <1>1, <1>4, <1>5, <1>8, <2>2, GivenFrame
  <2> QED BY <1>0, <1>1, <1>6, <2>2, <2>3, WriteFrame
<1>9. CASE ~ok
  <2>1. ReceiveStops(blocked')  BY <1>4, <1>9
  <2>2. TypeOK' /\ ReceiveOK' /\ AcceptedIsDurable' /\ (quarantine => quarantine')
    BY <1>0, <1>6, <1>7, <2>1, StopsFrame
  <2> QED BY <1>0, <1>1, <1>6, <2>2, WriteFrame
<1> QED BY <1>8, <1>9

(* The slot is given up in the record before it is touched.                *)
LEMMA InvalidateStep ==
  ASSUME BInv, StepInvalidate
  PROVE  BInv'
<1> DEFINE n == Invalidate(authority, Evidence).record
<1>0. /\ Receiving /\ AppKeeps /\ UNCHANGED <<flash, corrupted, blamable, eof>>
      /\ phase = "INVALIDATE" /\ stage = "running" /\ ~quarantine
      /\ UNCHANGED <<resc, stage, captured, running>> /\ active = "FIRMWARE" /\ ~accepted
  BY DEF StepInvalidate, Stepping, Receiving, AppKeeps, boot
<1>1. /\ authority = rec /\ Room(rec) /\ header \in Image /\ WellFormed(rec) /\ RecordOK
      /\ Invalidate(rec, Evidence).result = "CHANGE"
  BY <1>0 DEF BInv, ReceiveOK, Upcoming, RecordOK
<1>2. /\ running \in Manifest /\ ~doubt /\ ~Pending
      /\ rec.images[running.slot].image = running.image
      /\ Permitted \in Slot
      /\ Evidence \in Upload /\ Evidence.permitted = Permitted /\ Evidence.running = running
  BY <1>0, <1>1, RunningFacts, UploadEvidence DEF Evidence
<1>3. /\ Admitted(rec, Evidence) /\ WellFormed(n) /\ n.sequence = rec.sequence + 1
      /\ n.images = [rec.images EXCEPT ![Permitted] = EmptyEntry]
      /\ n.current = rec.current /\ n.intent = rec.intent
      /\ n.confirmed = rec.confirmed \ {Permitted}
  BY <1>1, <1>2, InvalidateChange
<1>4. PICK answer \in {"OK", "FAILED", "UNCERTAIN"} :
        /\ StoreReplace(authority, n, answer)
        /\ IF answer = "OK" /\ EraseAllowed(n)
           THEN /\ ReceiveGoes("ERASE")
                /\ authority' = n
                /\ UNCHANGED <<header, word, programmed, pages, manifest_words>>
           ELSE ReceiveStops(answer = "UNCERTAIN" \/ blocked')
  BY DEF StepInvalidate
<1>5. running.slot \in rec.confirmed /\ running.slot \in Slot /\ Permitted # running.slot
  BY <1>2, <1>3 DEF Admitted, Admissible, Manifest
<1> HIDE DEF n
<1>6. TypeOK /\ MemoryTypes /\ ReceiverTypes /\ rec \in Metadata /\ n \in Metadata
  BY <1>1, <1>3, TypesSplit DEF BInv, WellFormed
<1>7. /\ rec' \in {rec, n} /\ blocked' \in BOOLEAN /\ doubt' \in BOOLEAN
      /\ answer = "OK" => rec' = n
      /\ doubt' => answer = "UNCERTAIN"
  BY <1>2, <1>4, <1>6, StoreAnswer
<1>8. /\ n.images[Permitted] = EmptyEntry
      /\ \A t \in Slot \ {Permitted} : n.images[t] = rec.images[t]
  BY <1>2, <1>3, <1>6 DEF Metadata
<1>9. RecordOK'
  BY <1>1, <1>3, <1>7 DEF RecordOK
<1>10. RecordDescribesFlash'
  BY <1>0, <1>7, <1>8 DEF BInv, RecordDescribesFlash, EmptyEntry, FreshEntry
<1>11. CountOK'
  BY <1>0, <1>7, <1>8 DEF BInv, CountOK, Pending, EmptyEntry, FreshEntry
<1>12. LaunchOK'
  <2>1. /\ rec'.images[running.slot] = rec.images[running.slot]
        /\ running.slot \in rec'.confirmed
    BY <1>2, <1>3, <1>5, <1>7, <1>8
  <2> QED BY <1>0, <1>2, <2>1 DEF LaunchOK, TrialIsDurable
<1>13. StageOK'
  BY <1>0 DEF BInv, StageOK
<1>14. MemoryTypes'
  BY <1>0, <1>6, <1>7 DEF MemoryTypes
<1>15. CASE answer = "OK" /\ EraseAllowed(n)
  <2>1. /\ ReceiveGoes("ERASE") /\ authority' = n /\ rec' = n
        /\ UNCHANGED <<header, word, programmed, pages, manifest_words>>
    BY <1>4, <1>7, <1>15
  <2>2. ReceiverTypes' /\ "ERASE" \in Phase
    BY <1>6, <2>1 DEF ReceiverTypes, Phase
  <2>3. /\ TypeOK' /\ AcceptedIsDurable' /\ active' = "FIRMWARE" /\ ~accepted' /\ phase' = "ERASE"
    BY <1>0, <1>14, <2>1, <2>2, GoesFrame
  <2>4. EraseAllowed(rec)'
    BY <1>0, <1>15, <2>1 DEF EraseAllowed, Permitted
  <2>5. ~Exhausted(n)
    BY <1>1, <1>3, <1>6, MaxSeqAssumption DEF Room, Exhausted, Metadata
  <2>6. ReceiveOK'
    BY <1>1, <2>1, <2>3, <2>4, <2>5 DEF ReceiveOK, Upcoming, Given, Exhausted
  <2>7. DoubtOK'
    BY <1>7, <1>15 DEF DoubtOK
  <2> QED BY <1>9, <1>10, <1>11, <1>12, <1>13, <2>3, <2>6, <2>7 DEF BInv
<1>16. CASE ~(answer = "OK" /\ EraseAllowed(n))
  <2> DEFINE x == answer = "UNCERTAIN" \/ blocked'
  <2>1. ReceiveStops(x) /\ x \in BOOLEAN  BY <1>4, <1>16
  <2>2. answer = "UNCERTAIN" => x  OBVIOUS
  <2> HIDE DEF x
  <2>3. TypeOK' /\ ReceiveOK' /\ AcceptedIsDurable' /\ (x => quarantine')
    BY <1>0, <1>14, <2>1, StopsFrame
  <2>4. DoubtOK'
    BY <1>0, <1>7, <2>2, <2>3 DEF DoubtOK, Booting
  <2> QED BY <1>9, <1>10, <1>11, <1>12, <1>13, <2>3, <2>4 DEF BInv
<1> QED BY <1>15, <1>16

(* The image is accepted: the record now describes what was written and    *)
(* verified, and the count of resets starts over with it.                  *)
LEMMA ReadyStep ==
  ASSUME BInv, StepReady
  PROVE  BInv'
<1> DEFINE m == Evidence.incoming
           n == AcceptReady(authority, Evidence, m).record
<1>0. /\ Receiving /\ AppKeeps /\ UNCHANGED <<flash, corrupted, eof>>
      /\ phase = "READY" /\ stage = "running" /\ ~quarantine
      /\ UNCHANGED <<resc, stage, captured, running>> /\ active = "FIRMWARE" /\ ~accepted
  BY DEF StepReady, Stepping, Receiving, AppKeeps, boot
<1>1. /\ authority = rec /\ header \in Image /\ WellFormed(rec) /\ RecordOK
      /\ AcceptReady(rec, Evidence, m).result = "CHANGE" /\ EraseAllowed(rec)
      /\ Permitted \notin corrupted => flash[Permitted] = [manifest |-> header, payload |-> header]
  BY <1>0 DEF BInv, ReceiveOK, Given, RecordOK
<1>2. /\ running \in Manifest /\ ~doubt /\ resc = {} /\ captured = {}
      /\ rec.images[running.slot].image = running.image
      /\ Permitted \in Slot /\ Permitted # running.slot
      /\ \A t \in Slot : t \in {running.slot, Permitted}
      /\ Evidence \in Upload /\ m \in Manifest /\ m.slot = Permitted /\ m.image = header
  BY <1>0, <1>1, RunningFacts, UploadEvidence, ElsewhereWhenAllowed DEF Evidence
<1>3. /\ WellFormed(n) /\ n.sequence = rec.sequence + 1
      /\ n.images = [rec.images EXCEPT ![Permitted] = FreshEntry(header, "READY", rec.sequence + 1)]
      /\ n.current = rec.current /\ n.candidate = Permitted
      /\ n.confirmed = rec.confirmed /\ n.intent = rec.intent
  <2> HIDE DEF m
  <2> QED BY <1>1, <1>2, AcceptChange
<1>4. PICK answer \in {"OK", "FAILED", "UNCERTAIN"} :
        /\ StoreReplace(authority, n, answer)
        /\ IF answer = "OK"
           THEN /\ accepted' = TRUE /\ acceptance' = header
                /\ Consumed
                /\ UNCHANGED <<active, quarantine>>
           ELSE ReceiveStops(answer = "UNCERTAIN" \/ blocked')
        /\ blamable' = IF rec' = rec THEN blamable ELSE 0
  BY DEF StepReady
<1>5. running.slot \in rec.confirmed /\ running.slot \in Slot
  BY <1>1, <1>2 DEF EraseAllowed, Manifest
<1> HIDE DEF n, m
<1>6. TypeOK /\ MemoryTypes /\ ReceiverTypes /\ rec \in Metadata /\ n \in Metadata
  BY <1>1, <1>3, TypesSplit DEF BInv, WellFormed
<1>7. /\ rec' \in {rec, n} /\ blocked' \in BOOLEAN /\ doubt' \in BOOLEAN
      /\ answer = "OK" => rec' = n
      /\ doubt' => answer = "UNCERTAIN"
  BY <1>2, <1>4, <1>6, StoreAnswer
<1>8. /\ n.images[Permitted].image = header /\ n.images[Permitted].state = "READY"
      /\ n.images[Permitted].count = 0
      /\ n.images[running.slot] = rec.images[running.slot]
  BY <1>2, <1>3, <1>5, <1>6 DEF Metadata, FreshEntry
<1>9. RecordOK'
  BY <1>1, <1>3, <1>7 DEF RecordOK
<1>10. RecordDescribesFlash'
  BY <1>0, <1>1, <1>2, <1>7, <1>8 DEF BInv, RecordDescribesFlash
<1>11. CountOK'
  <2>1. rec.images[running.slot].state = "NONE"
    BY <1>1, <1>5 DEF WellFormed, MetadataValid, ImageRulesValid
  <2>2. ~Pending' /\ ~Pending
    BY <1>0, <1>2 DEF Pending
  <2>3. CASE rec' = rec
    BY <1>4, <2>2, <2>3 DEF BInv, CountOK
  <2>4. CASE rec' # rec
    BY <1>2, <1>4, <1>7, <1>8, <2>1, <2>2, <2>4 DEF CountOK
  <2> QED BY <2>3, <2>4
<1>12. LaunchOK'
  <2>1. /\ rec'.images[running.slot] = rec.images[running.slot]
        /\ running.slot \in rec'.confirmed
    BY <1>2, <1>3, <1>5, <1>7, <1>8
  <2> QED BY <1>0, <1>2, <2>1 DEF LaunchOK, TrialIsDurable
<1>13. StageOK'
  BY <1>0 DEF BInv, StageOK
<1>14. MemoryTypes'
  BY <1>0, <1>4, <1>6, <1>7 DEF MemoryTypes
<1>15. CASE answer = "OK"
  <2>1. /\ accepted' = TRUE /\ acceptance' = header /\ Consumed /\ rec' = n
        /\ UNCHANGED <<active, quarantine>>
    BY <1>4, <1>7, <1>15
  <2>2. ReceiverTypes' /\ phase' = "TERMINAL"
    BY <2>1, PAssumption DEF ReceiverTypes, Consumed, Content
  <2>3. TypeOK'
    BY <1>0, <1>1, <1>14, <2>1, <2>2 DEF BInv, TypeOK, ReceiverTypes, MemoryTypes, Receiving, Phase
  <2>4. Permitted' = Permitted  BY <1>0 DEF Permitted
  <2>5. AcceptedIsDurable'
    BY <1>0, <1>3, <1>8, <2>1, <2>4 DEF AcceptedIsDurable
  <2>6. DoubtOK'
    BY <1>7, <1>15 DEF DoubtOK
  <2> QED BY <1>9, <1>10, <1>11, <1>12, <1>13, <2>2, <2>3, <2>5, <2>6, NoReceiver DEF BInv
<1>16. CASE answer # "OK"
  <2> DEFINE x == answer = "UNCERTAIN" \/ blocked'
  <2>1. ReceiveStops(x) /\ x \in BOOLEAN  BY <1>4, <1>16
  <2>2. answer = "UNCERTAIN" => x  OBVIOUS
  <2> HIDE DEF x
  <2>3. TypeOK' /\ ReceiveOK' /\ AcceptedIsDurable' /\ (x => quarantine')
    BY <1>0, <1>14, <2>1, StopsFrame
  <2>4. DoubtOK'
    BY <1>0, <1>7, <2>2, <2>3 DEF DoubtOK, Booting
  <2> QED BY <1>9, <1>10, <1>11, <1>12, <1>13, <2>3, <2>4 DEF BInv
<1> QED BY <1>15, <1>16

(* What a confirmation does: nothing, or a confirming commit; it is        *)
(* answered as accepted only once the running image is confirmed.          *)
LEMMA ConfirmEffect ==
  ASSUME BInv, StepConfirm
  PROVE  /\ blocked' \in BOOLEAN /\ doubt' \in BOOLEAN
         /\ quarantine' \in BOOLEAN /\ accepted' \in BOOLEAN
         /\ doubt' => quarantine'
         /\ \/ rec' = rec
            \/ \E request \in ConfirmRequest :
                 /\ Confirm(rec, request, running, healthy).result = "CHANGE"
                 /\ rec' = Confirm(rec, request, running, healthy).record
         /\ accepted' => running.slot \in rec'.confirmed
<1>0. /\ stage = "running" /\ ~quarantine
  BY DEF StepConfirm, Confirming, AppKeeps
<1>1. /\ running \in Manifest /\ ~doubt /\ WellFormed(rec) /\ TypeOK /\ healthy \in BOOLEAN
      /\ blocked \in BOOLEAN /\ doubt \in BOOLEAN
  BY <1>0, RunningFacts DEF BInv, RecordOK, TypeOK
<1>2. CASE UNCHANGED <<rec, doubt>> /\ blocked' \in {blocked, TRUE} /\ AnswerConfirm("FAILED")
  BY <1>1, <1>2 DEF AnswerConfirm
<1>3. CASE ~(UNCHANGED <<rec, doubt>> /\ blocked' \in {blocked, TRUE} /\ AnswerConfirm("FAILED"))
  <2>1. PICK request \in ConfirmRequest :
          LET proposal == Confirm(rec, request, running, healthy) IN
          \/ /\ proposal.result = "CHANGE"
             /\ \E answer \in {"OK", "FAILED", "UNCERTAIN"} :
                  StoreReplace(rec, proposal.record, answer) /\ AnswerConfirm(answer)
          \/ /\ proposal.result # "CHANGE"
             /\ UNCHANGED <<rec, blocked, doubt>>
             /\ AnswerConfirm(IF proposal.result = "NO_CHANGE" THEN "OK" ELSE "FAILED")
    BY <1>3 DEF StepConfirm
  <2> DEFINE proposal == Confirm(rec, request, running, healthy)
             n == proposal.record
  <2>2. CASE proposal.result = "CHANGE"
    <3>1. PICK answer \in {"OK", "FAILED", "UNCERTAIN"} :
            StoreReplace(rec, n, answer) /\ AnswerConfirm(answer)
      BY <2>1, <2>2
    <3>2. /\ blocked' \in BOOLEAN /\ doubt' \in BOOLEAN /\ rec' \in {rec, n}
          /\ answer = "OK" => rec' = n
          /\ doubt' => answer = "UNCERTAIN"
      BY <1>1, <3>1, StoreAnswer
    <3>3. /\ quarantine' \in BOOLEAN /\ accepted' \in BOOLEAN
          /\ answer = "UNCERTAIN" => quarantine'
          /\ accepted' => answer = "OK"
      BY <3>1 DEF AnswerConfirm
    <3>4. n.confirmed = rec.confirmed \cup {running.slot}
      BY <1>1, <2>2, ConfirmChange
    <3> HIDE DEF n
    <3> QED BY <2>2, <3>2, <3>3, <3>4 DEF n
  <2>3. CASE proposal.result # "CHANGE"
    <3> DEFINE answer == IF proposal.result = "NO_CHANGE" THEN "OK" ELSE "FAILED"
    <3>1. UNCHANGED <<rec, blocked, doubt>> /\ AnswerConfirm(answer)
      BY <2>1, <2>3
    <3>2. answer = "OK" => proposal.result = "NO_CHANGE"  OBVIOUS
    <3>3. answer = "OK" => running.slot \in rec.confirmed
      BY <1>1, <3>2, ConfirmUnchanged
    <3> HIDE DEF answer
    <3>4. /\ quarantine' \in BOOLEAN /\ accepted' \in BOOLEAN
          /\ accepted' => answer = "OK"
      BY <3>1 DEF AnswerConfirm
    <3> QED BY <1>1, <3>1, <3>3, <3>4
  <2> QED BY <2>2, <2>3
<1> QED BY <1>2, <1>3

(* Confirming keeps the invariant.                                         *)
LEMMA ConfirmStep ==
  ASSUME BInv, StepConfirm
  PROVE  BInv'
<1>0. /\ active = "CONFIRM" /\ stage = "running" /\ ~quarantine
      /\ UNCHANGED <<flash, healthy, active, used, acceptance, receive, corrupted, blamable, eof>>
      /\ UNCHANGED <<resc, stage, captured, running>> /\ finished' = TRUE
  BY DEF StepConfirm, Confirming, AppKeeps, boot
<1>1. /\ running \in Manifest /\ running.slot \in Slot
      /\ rec.images[running.slot].image = running.image
      /\ WellFormed(rec) /\ RecordOK /\ healthy \in BOOLEAN
  BY <1>0, RunningFacts DEF BInv, RecordOK, Manifest, TypeOK
<1>2. /\ blocked' \in BOOLEAN /\ doubt' \in BOOLEAN
      /\ quarantine' \in BOOLEAN /\ accepted' \in BOOLEAN
      /\ doubt' => quarantine'
      /\ accepted' => running.slot \in rec'.confirmed
  BY ConfirmEffect
<1>3. \/ rec' = rec
      \/ /\ WellFormed(rec') /\ rec'.current = running.slot /\ rec'.intent = NoIntent
         /\ \A t \in Slot : /\ t # running.slot => rec'.images[t] = rec.images[t]
                            /\ rec'.images[t].image = rec.images[t].image
                            /\ rec'.images[t].count = rec.images[t].count
         /\ rec'.images[running.slot].state = "NONE"
         /\ rec'.confirmed = rec.confirmed \cup {running.slot}
  <2>1. CASE rec' # rec
    <3>1. PICK request \in ConfirmRequest :
            /\ Confirm(rec, request, running, healthy).result = "CHANGE"
            /\ rec' = Confirm(rec, request, running, healthy).record
      BY <2>1, ConfirmEffect
    <3> QED BY <1>1, <3>1, ConfirmChange
  <2> QED BY <2>1
<1>4. RecordOK' /\ rec' \in Metadata /\ rec \in Metadata
  BY <1>1, <1>3 DEF RecordOK, WellFormed
<1>5. \A t \in Slot :
        /\ rec'.images[t].image = rec.images[t].image
        /\ rec'.images[t].count = rec.images[t].count
        /\ rec'.images[t].state \in {"READY", "TRIAL", "REJECTED"} =>
             rec'.images[t].state = rec.images[t].state
  BY <1>1, <1>3, <1>4 DEF Metadata, Entry
<1>6. TypeOK'
  BY <1>0, <1>2, <1>4 DEF BInv, TypeOK, receive
<1>7. RecordDescribesFlash'
  BY <1>0, <1>5, SameImages DEF BInv
<1>8. CountOK'
  BY <1>0, <1>5 DEF BInv, CountOK, Pending
<1>9. LaunchOK'
  <2>1. rec'.images[running.slot].image = running.image
    BY <1>1, <1>5
  <2>2. running.slot \in rec'.confirmed \/ rec'.images[running.slot].state = "TRIAL"
    BY <1>0, <1>3 DEF BInv, LaunchOK, TrialIsDurable
  <2> QED BY <1>0, <1>1, <2>1, <2>2 DEF LaunchOK, TrialIsDurable
<1>10. StageOK' /\ DoubtOK'
  BY <1>0, <1>2 DEF BInv, StageOK, DoubtOK, Booting, receive
<1>11. ReceiveOK'
  BY <1>0 DEF BInv, ReceiveOK, Upcoming, Given, receive
<1>12. AcceptedIsDurable'
  BY <1>0, <1>2 DEF AcceptedIsDurable
<1> QED BY <1>4, <1>6, <1>7, <1>8, <1>9, <1>10, <1>11, <1>12 DEF BInv

-----------------------------------------------------------------------------
(* The invariant, and what follows from it                                 *)

BoardInv == BInv /\ BufferOK

(* The buffer is filled only below the end of the payload.                 *)
LEMMA BufferStep ==
  ASSUME TypeOK, BufferOK, Next
  PROVE  BufferOK'
<1>1. programmed \in Nat /\ word \in 0..1 /\ P \in Nat
  BY PAssumption DEF TypeOK
<1>2. CASE \E cause \in Cause : Reset(cause)
  BY <1>1, <1>2 DEF Reset, FreshRAM, BufferOK
<1>3. CASE OwnerFails
  BY <1>1, <1>3 DEF OwnerFails, FreshRAM, BufferOK
<1>4. CASE Consumed
  BY <1>1, <1>4 DEF Consumed, BufferOK
<1>5. CASE programmed' = programmed /\ word' = word
  BY <1>5 DEF BufferOK
<1>6. CASE FeedPayload /\ ~Consumed
  BY <1>1, <1>6 DEF FeedPayload, ReceiveStops, BufferOK
<1>7. CASE StepPayload /\ ~Consumed
  BY <1>1, <1>7 DEF StepPayload, ReceiveStops, BufferOK
<1>8. CASE (\E s \in Slot : Decay(s)) \/ Boot
  <2>1. UNCHANGED receive
    BY <1>8 DEF Decay, Boot, BootStops, Capture, Clear, Account, SelectCandidate, SelectCurrent,
                SelectPrevious, Handoff, Selecting, BootKeeps
  <2> QED BY <1>5, <2>1 DEF receive
<1>9. CASE OwnerTurn \/ BeginStatus \/ BeginConfirm \/ BeginFirmware \/ EofConfirm \/ StepConfirm \/ End
  BY <1>4, <1>5, <1>9 DEF OwnerTurn, BeginStatus, BeginConfirm, BeginFirmware, EofConfirm,
                          StepConfirm, Confirming, End, receive
<1>10. CASE FeedHeader \/ EofFirmware \/ StepAuthenticate \/ StepInvalidate \/ StepErase
            \/ StepWriteManifest \/ StepVerify \/ StepReady
  BY <1>4, <1>5, <1>10 DEF FeedHeader, EofFirmware, StepAuthenticate, StepInvalidate, StepErase,
       StepWriteManifest, StepVerify, StepReady, ReceiveStops, receive
<1> QED BY <1>2, <1>3, <1>4, <1>6, <1>7, <1>8, <1>9, <1>10 DEF Next, Application, Receive

(* Every step of the board preserves the invariant.                        *)
LEMMA StepBoard ==
  ASSUME BoardInv, [Next]_vars
  PROVE  BoardInv'
<1>0. BInv /\ BufferOK /\ TypeOK  BY DEF BoardInv, BInv
<1>1. CASE UNCHANGED vars
  <2>1. /\ UNCHANGED <<rec, flash, resc, stage, captured, running, healthy, blocked>>
        /\ UNCHANGED <<active, used, accepted, eof, finished, quarantine, acceptance>>
        /\ UNCHANGED <<phase, authority, header, word, programmed, pages, manifest_words>>
        /\ UNCHANGED <<corrupted, blamable, doubt>>
    BY <1>1 DEF vars, durable, boot, service, receive, history
  <2>2. TypeOK' /\ BufferOK'  BY <1>0, <2>1 DEF TypeOK, BufferOK
  <2>3. ReceiveOK'  BY <1>0, <2>1, ReceiveFrame DEF BInv
  <2>4. RecordOK' /\ StageOK' /\ DoubtOK' /\ LaunchOK'
    BY <1>0, <2>1 DEF BInv, RecordOK, StageOK, DoubtOK, LaunchOK, TrialIsDurable
  <2>5. RecordDescribesFlash' /\ CountOK' /\ AcceptedIsDurable'
    BY <1>0, <2>1 DEF BInv, RecordDescribesFlash, CountOK, Pending, AcceptedIsDurable, Permitted
  <2> QED BY <2>2, <2>3, <2>4, <2>5 DEF BoardInv, BInv
<1>2. CASE Next
  <2>1. BufferOK'  BY <1>0, <1>2, BufferStep
  <2>2. CASE (\E cause \in Cause : Reset(cause)) \/ (\E s \in Slot : Decay(s))
    BY <1>0, <2>1, <2>2, ResetStep, DecayStep DEF BoardInv
  <2>3. CASE Boot
    BY <1>0, <2>1, <2>3, BootQuietStep, AccountStep, SelectCandidateStep, SelectCurrentStep,
       SelectPreviousStep DEF Boot, BoardInv
  <2>4. CASE Receive
    BY <1>0, <2>1, <2>4, FeedStep, AuthenticateStep, InvalidateStep, EraseStep, PayloadStep,
       WriteManifestStep, VerifyStep, ReadyStep DEF Receive, BoardInv
  <2>5. CASE Application /\ ~Receive
    BY <1>0, <2>1, <2>5, OwnerStep, BeginStep, EofConfirmStep, ConfirmStep, EndStep
       DEF Application, BoardInv
  <2> QED BY <1>2, <2>2, <2>3, <2>4, <2>5 DEF Next, Application
<1> QED BY <1>1, <1>2

(* The board's inductive invariant holds in every behaviour.               *)
THEOREM BoardInvariant == Spec => []BoardInv
<1>1. Init => BoardInv
  <2>1. Init => BufferOK  BY PAssumption DEF Init, BufferOK
  <2> QED BY <2>1, InitBoard DEF BoardInv
<1>2. BoardInv /\ [Next]_vars => BoardInv'  BY StepBoard
<1> QED BY <1>1, <1>2, PTL DEF Spec

(* Types, for any constants.                                               *)
THEOREM TypeTheorem == Spec => []TypeOK
<1>1. BoardInv => TypeOK  BY DEF BoardInv, BInv
<1> QED BY <1>1, BoardInvariant, PTL

(* Whatever the record says is resident in a slot is there, whole, unless  *)
(* the flash itself decayed.                                               *)
THEOREM FlashTheorem == Spec => []RecordDescribesFlash
<1>1. BoardInv => RecordDescribesFlash  BY DEF BoardInv, BInv
<1> QED BY <1>1, BoardInvariant, PTL

(* Only the recorded image is handed over to, an unconfirmed one only on a *)
(* durable trial.                                                          *)
THEOREM TrialTheorem == Spec => []TrialIsDurable
<1>1. BoardInv => TrialIsDurable  BY DEF BoardInv, BInv, LaunchOK
<1> QED BY <1>1, BoardInvariant, PTL

(* No reset is counted twice against an upload.                            *)
THEOREM CountTheorem == Spec => []NoDoubleCount
<1>1. BoardInv => NoDoubleCount
  <2> SUFFICES ASSUME BoardInv, NEW s \in Slot, rec.images[s].state \in {"TRIAL", "REJECTED"}
               PROVE  rec.images[s].count <= blamable
    BY DEF NoDoubleCount
  <2>1. rec.images[s].count \in Nat /\ blamable \in Nat /\ CountOK
    BY DEF BoardInv, BInv, TypeOK, Metadata, Entry
  <2> QED BY <2>1 DEF CountOK
<1> QED BY <1>1, BoardInvariant, PTL

(* An operation is answered as accepted only when the record that makes it *)
(* so is durable.                                                          *)
THEOREM AcceptTheorem == Spec => []AcceptedIsDurable
<1>1. BoardInv => AcceptedIsDurable  BY DEF BoardInv, BInv
<1> QED BY <1>1, BoardInvariant, PTL

(* Once the slot has been given up, the authority of the upload is still   *)
(* the record and a sequence is left to accept it.                         *)
THEOREM UploadTheorem == Spec => []UploadCanFinish
<1>1. BoardInv => UploadCanFinish
  BY DEF BoardInv, BInv, ReceiveOK, Given, UploadCanFinish
<1> QED BY <1>1, BoardInvariant, PTL

-----------------------------------------------------------------------------
(* What a step may never do                                                *)

(* The steps that write neither the record nor a slot.                     *)
LEMMA NothingWritten ==
  ASSUME \/ \E cause \in Cause : Reset(cause)
         \/ BootStops \/ Capture \/ Clear \/ SelectCurrent \/ Handoff
         \/ OwnerTurn \/ OwnerFails \/ BeginStatus \/ BeginConfirm \/ BeginFirmware
         \/ FeedHeader \/ FeedPayload \/ EofFirmware \/ StepAuthenticate \/ StepVerify
         \/ EofConfirm \/ End
  PROVE  UNCHANGED <<rec, flash>>
<1>1. CASE \/ \E cause \in Cause : Reset(cause)
           \/ BootStops \/ Capture \/ Clear \/ SelectCurrent \/ Handoff
  BY <1>1 DEF Reset, BootStops, Capture, Clear, SelectCurrent, Selecting, Untouched, Handoff,
              durable
<1>2. CASE OwnerTurn \/ OwnerFails \/ BeginStatus \/ BeginConfirm \/ BeginFirmware
           \/ EofConfirm \/ End
  BY <1>2 DEF OwnerTurn, OwnerFails, durable, BeginStatus, BeginConfirm, BeginFirmware, Begun,
              EofConfirm, Confirming, End
<1>3. CASE FeedHeader \/ FeedPayload \/ EofFirmware \/ StepAuthenticate \/ StepVerify
  BY <1>3 DEF FeedHeader, FeedPayload, EofFirmware, StepAuthenticate, StepVerify
<1> QED BY <1>1, <1>2, <1>3

(* The steps that write are steps of the bootloader or of an unquarantined *)
(* service.                                                                *)
LEMMA WritersSound ==
  ASSUME \/ Account \/ SelectCandidate \/ SelectPrevious
         \/ StepInvalidate \/ StepErase \/ StepPayload \/ StepWriteManifest \/ StepReady
         \/ StepConfirm
  PROVE  stage \in Booting \/ (stage = "running" /\ ~quarantine)
BY DEF Account, SelectCandidate, SelectPrevious, Selecting, Booting, StepInvalidate, StepErase,
       StepPayload, StepWriteManifest, StepReady, Stepping, Receiving, AppKeeps, StepConfirm,
       Confirming

(* Nothing is written while the outcome of a store call is unknown.        *)
LEMMA DoubtStepHolds ==
  ASSUME BoardInv, [Next]_vars
  PROVE  DoubtStep
<1> SUFFICES ASSUME doubt PROVE rec' = rec /\ (flash' = flash \/ Decays)
  BY DEF DoubtStep
<1>1. stage \notin Booting /\ (stage = "running" => quarantine)
  BY DEF BoardInv, BInv, DoubtOK
<1>2. ~(\/ Account \/ SelectCandidate \/ SelectPrevious
        \/ StepInvalidate \/ StepErase \/ StepPayload \/ StepWriteManifest \/ StepReady
        \/ StepConfirm)
  BY <1>1, WritersSound
<1>3. CASE \E s \in Slot : Decay(s)
  BY <1>3 DEF Decays, Decay
<1>4. CASE UNCHANGED vars
  BY <1>4 DEF vars, durable
<1>5. CASE Next /\ ~\E s \in Slot : Decay(s)
  BY <1>2, <1>5, NothingWritten DEF Next, Boot, Application, Receive
<1> QED BY <1>3, <1>4, <1>5

(* After a store call whose outcome is unknown nothing more is written     *)
(* until a reset.                                                          *)
THEOREM DoubtTheorem == Spec => NoWriteInDoubt
<1>1. BoardInv /\ [Next]_vars => DoubtStep  BY DoubtStepHolds
<1> QED BY <1>1, BoardInvariant, PTL DEF Spec, NoWriteInDoubt

(* A flash command of the upload is for the destination only.              *)
LEMMA WritesDestination ==
  ASSUME BInv, stage = "running", StepErase \/ StepPayload \/ StepWriteManifest
  PROVE  \A t \in Slot \ {Permitted} : flash'[t] = flash[t]
<1>0. TypeOK /\ Permitted \in Slot
  BY RunningFacts DEF BInv
<1>1. CASE flash' = flash
  BY <1>1
<1>2. CASE StepErase /\ flash' # flash
  <2> DEFINE part == IF pages = 0 THEN "manifest" ELSE "payload"
  <2>1. PICK ok \in BOOLEAN : Modify(Permitted, part, Blank, ok)
    BY <1>2 DEF StepErase
  <2>2. part \in {"manifest", "payload"} /\ Blank \in Content  BY DEF Content
  <2> HIDE DEF part
  <2> QED BY <1>0, <2>1, <2>2, ModifyEffect
<1>3. CASE StepPayload /\ flash' # flash
  <2>1. PICK ok \in BOOLEAN, new \in {header, Torn} : Modify(Permitted, "payload", new, ok)
    BY <1>3 DEF StepPayload
  <2>2. new \in Content  BY <1>0 DEF TypeOK, Content
  <2> QED BY <1>0, <2>1, <2>2, ModifyEffect
<1>4. CASE StepWriteManifest
  <2> DEFINE new == IF manifest_words = 0 THEN Torn ELSE header
  <2>1. PICK ok \in BOOLEAN : Modify(Permitted, "manifest", new, ok)
    BY <1>4 DEF StepWriteManifest
  <2>2. new \in Content  BY <1>0 DEF TypeOK, Content
  <2> HIDE DEF new
  <2> QED BY <1>0, <2>1, <2>2, ModifyEffect
<1> QED BY <1>1, <1>2, <1>3, <1>4

(* By then the record, which is still the one the erasure was allowed by,  *)
(* has given the destination up, and another slot is executing.            *)
LEMMA DestinationGivenUp ==
  ASSUME BInv, StepErase \/ StepPayload \/ StepWriteManifest
  PROVE  stage = "running" /\ Permitted # running.slot /\ GivenUp(Permitted)
<1>1. stage = "running" /\ phase \in Given
  BY DEF StepErase, StepPayload, StepWriteManifest, Stepping, Receiving, AppKeeps, Given
<1>2. EraseAllowed(rec) /\ running \in Manifest
  BY <1>1, RunningFacts DEF BInv, ReceiveOK
<1>3. Permitted \in Slot /\ Permitted # running.slot
  BY <1>1, <1>2, RunningFacts, ElsewhereWhenAllowed
<1>4. Permitted # rec.candidate
  BY <1>2, <1>3 DEF EraseAllowed, Slot, NoSlot
<1> QED BY <1>1, <1>2, <1>3, <1>4 DEF EraseAllowed, GivenUp

(* Apart from decay, flash changes only where the record has given up.     *)
LEMMA WriteStepHolds ==
  ASSUME BoardInv, [Next]_vars
  PROVE  WriteStep
<1>0. BInv  BY DEF BoardInv
<1>1. CASE \E s \in Slot : Decay(s)
  BY <1>1 DEF WriteStep, Decays
<1>2. CASE StepErase \/ StepPayload \/ StepWriteManifest
  BY <1>0, <1>2, WritesDestination, DestinationGivenUp DEF WriteStep
<1>3. CASE flash' = flash
  BY <1>3 DEF WriteStep
<1>4. CASE Account \/ SelectCandidate \/ SelectPrevious \/ StepInvalidate \/ StepReady
           \/ StepConfirm \/ UNCHANGED vars
  <2>1. flash' = flash
    BY <1>4 DEF Account, SelectCandidate, SelectPrevious, Selecting, StepInvalidate, StepReady,
                StepConfirm, Confirming, vars, durable
  <2> QED BY <1>3, <2>1
<1> QED BY <1>1, <1>2, <1>3, <1>4, NothingWritten DEF Next, Boot, Application, Receive

(* Flash is erased and programmed only in a slot that the durable record   *)
(* has given up and that is not executing, for any destinations that the   *)
(* images were built with.                                                 *)
THEOREM WriteTheorem == Spec => WritesGivenUpSlot
<1>1. BoardInv /\ [Next]_vars => WriteStep  BY WriteStepHolds
<1> QED BY <1>1, BoardInvariant, PTL DEF Spec, WritesGivenUpSlot

-----------------------------------------------------------------------------
(* The record follows the life cycle of UpdateRecord.  The instance has    *)
(* its own copy of every definition of BootFormat and BootLifecycle; the   *)
(* first lemmas say that the copies are the originals.                     *)

(* The sets of values.                                                     *)
LEMMA SameSets ==
  /\ Lifecycle!Slot = Slot /\ Lifecycle!NoSlot = NoSlot /\ Lifecycle!NoIntent = NoIntent
  /\ Lifecycle!Manifest = Manifest /\ Lifecycle!Upload = Upload
  /\ Lifecycle!ConfirmRequest = ConfirmRequest /\ Lifecycle!Identity = Identity
  /\ Lifecycle!ResetFlag = ResetFlag /\ Lifecycle!VerifyResult = VerifyResult
  /\ Lifecycle!EmptyEntry = EmptyEntry
BY DEF Lifecycle!Slot, Slot, Lifecycle!NoSlot, NoSlot, Lifecycle!NoIntent, NoIntent,
       Lifecycle!Manifest, Manifest, Lifecycle!Upload, Upload, Lifecycle!ConfirmRequest,
       ConfirmRequest, Lifecycle!Identity, Identity, Lifecycle!ResetFlag, ResetFlag,
       Lifecycle!VerifyResult, VerifyResult, Lifecycle!EmptyEntry, EmptyEntry,
       Lifecycle!FreshEntry, FreshEntry, Lifecycle!UNUSED, UNUSED

(* boot_metadata_validate.                                                 *)
LEMMA SameValidator ==
  ASSUME NEW r
  PROVE  Lifecycle!MetadataValid(r) = MetadataValid(r)
BY DEF Lifecycle!MetadataValid, MetadataValid, Lifecycle!ImageRulesValid, ImageRulesValid,
       Lifecycle!RolesValid, RolesValid, Lifecycle!IntentValid, IntentValid,
       Lifecycle!EntryValid, EntryValid, Lifecycle!EmptyEntry, EmptyEntry,
       Lifecycle!FreshEntry, FreshEntry, Lifecycle!Slot, Slot, Lifecycle!NoSlot, NoSlot,
       Lifecycle!NoIntent, NoIntent, Lifecycle!UNUSED, UNUSED

(* finish.                                                                 *)
LEMMA SameFinish ==
  ASSUME NEW r, NEW p
  PROVE  Lifecycle!Finish(r, p) = Finish(r, p)
BY SameValidator DEF Lifecycle!Finish, Finish, Lifecycle!Exhausted, Exhausted,
       Lifecycle!NextSequence, NextSequence, Lifecycle!Refuse, Refuse

(* boot_lifecycle_invalidate.                                              *)
LEMMA SameInvalidate ==
  ASSUME NEW r, NEW e
  PROVE  Lifecycle!Invalidate(r, e) = Invalidate(r, e)
BY SameValidator, SameFinish, SameSets
   DEF Lifecycle!Invalidate, Invalidate, Lifecycle!Admitted, Admitted, Lifecycle!Admissible,
       Admissible, Lifecycle!AdmissionError, AdmissionError, Lifecycle!ImageMatches,
       ImageMatches, Lifecycle!Invalidated, Invalidated, Lifecycle!Refuse, Refuse

(* boot_lifecycle_accept_ready.                                            *)
LEMMA SameAccept ==
  ASSUME NEW r, NEW e, NEW m
  PROVE  Lifecycle!AcceptReady(r, e, m) = AcceptReady(r, e, m)
BY SameValidator, SameFinish, SameSets
   DEF Lifecycle!AcceptReady, AcceptReady, Lifecycle!Admitted, Admitted, Lifecycle!Admissible,
       Admissible, Lifecycle!AdmissionError, AdmissionError, Lifecycle!ImageMatches,
       ImageMatches, Lifecycle!Accepted, Accepted, Lifecycle!FreshEntry, FreshEntry,
       Lifecycle!NextSequence, NextSequence, Lifecycle!Exhausted, Exhausted,
       Lifecycle!Refuse, Refuse, Lifecycle!UNUSED, UNUSED

(* boot_lifecycle_begin_trial.                                             *)
LEMMA SameTrial ==
  ASSUME NEW r, NEW m
  PROVE  Lifecycle!BeginTrial(r, m) = BeginTrial(r, m)
BY SameValidator, SameFinish
   DEF Lifecycle!BeginTrial, BeginTrial, Lifecycle!Executable, Executable,
       Lifecycle!ExecutionError, ExecutionError, Lifecycle!ImageMatches, ImageMatches,
       Lifecycle!Unchanged, Unchanged, Lifecycle!Refuse, Refuse

(* boot_lifecycle_confirm.                                                 *)
LEMMA SameConfirm ==
  ASSUME NEW r, NEW q, NEW m, NEW well
  PROVE  Lifecycle!Confirm(r, q, m, well) = Confirm(r, q, m, well)
BY SameValidator, SameFinish, SameSets
   DEF Lifecycle!Confirm, Confirm, Lifecycle!Executable, Executable,
       Lifecycle!ExecutionError, ExecutionError, Lifecycle!ImageMatches, ImageMatches,
       Lifecycle!Confirmed, Confirmed, Lifecycle!Unchanged, Unchanged, Lifecycle!Refuse, Refuse

(* boot_lifecycle_promote_previous.                                        *)
LEMMA SamePromote ==
  ASSUME NEW r, NEW bad, NEW failure, NEW m
  PROVE  Lifecycle!PromotePrevious(r, bad, failure, m) = PromotePrevious(r, bad, failure, m)
BY SameValidator, SameFinish, SameSets
   DEF Lifecycle!PromotePrevious, PromotePrevious, Lifecycle!Executable, Executable,
       Lifecycle!ExecutionError, ExecutionError, Lifecycle!ImageMatches, ImageMatches,
       Lifecycle!ResidentMatches, ResidentMatches, Lifecycle!Promoted, Promoted,
       Lifecycle!Exhausted, Exhausted, Lifecycle!Refuse, Refuse

(* boot_reset_propose.                                                     *)
LEMMA SameReset ==
  ASSUME NEW r, NEW flags
  PROVE  Lifecycle!ResetPropose(r, flags) = ResetPropose(r, flags)
<1>1. /\ Lifecycle!Categories(r, flags) = Categories(r, flags)
      /\ Lifecycle!IntentMatches(r) = IntentMatches(r)
      /\ Lifecycle!TrialApplicable(r) = TrialApplicable(r)
  BY SameSets DEF Lifecycle!Categories, Categories, Lifecycle!Category, Category,
       Lifecycle!IntentMatches, IntentMatches, Lifecycle!TrialApplicable, TrialApplicable,
       Lifecycle!WATCHDOG, WATCHDOG, Lifecycle!EXTERNAL, EXTERNAL, Lifecycle!BROWNOUT, BROWNOUT,
       Lifecycle!DEADLINE, DEADLINE
<1>2. ASSUME NEW c PROVE Lifecycle!ReasonOf(c) = ReasonOf(c)
  BY DEF Lifecycle!ReasonOf, ReasonOf, Lifecycle!COMBINED, COMBINED
<1>3. ASSUME NEW s, NEW why, NEW consume
      PROVE  Lifecycle!Counted(r, s, why, consume) = Counted(r, s, why, consume)
  BY SameSets DEF Lifecycle!Counted, Counted, Lifecycle!CountFailure, CountFailure,
       Lifecycle!RejectTrial, RejectTrial
<1>4. ASSUME NEW id, NEW why, NEW consume
      PROVE  Lifecycle!ApplyCountedFailure(r, id, why, consume) =
               ApplyCountedFailure(r, id, why, consume)
  BY <1>3, SameValidator, SameFinish
     DEF Lifecycle!ApplyCountedFailure, ApplyCountedFailure, Lifecycle!ResidentMatches,
         ResidentMatches, Lifecycle!Exhausted, Exhausted, Lifecycle!Refuse, Refuse
<1> QED BY <1>1, <1>2, <1>4, SameValidator
        DEF Lifecycle!ResetPropose, ResetPropose, Lifecycle!Refuse, Refuse,
            Lifecycle!Unchanged, Unchanged

(* A record that comes from a rule, with evidence the interface admits, is *)
(* a step of the life cycle.                                               *)
LEMMA RuleIsLifecycle ==
  ASSUME \/ \E e \in Upload :
              Invalidate(rec, e).result = "CHANGE" /\ rec' = Invalidate(rec, e).record
         \/ \E e \in Upload, m \in Manifest :
              AcceptReady(rec, e, m).result = "CHANGE" /\ rec' = AcceptReady(rec, e, m).record
         \/ \E m \in Manifest :
              BeginTrial(rec, m).result = "CHANGE" /\ rec' = BeginTrial(rec, m).record
         \/ \E q \in ConfirmRequest, m \in Manifest, well \in BOOLEAN :
              /\ Confirm(rec, q, m, well).result = "CHANGE"
              /\ rec' = Confirm(rec, q, m, well).record
         \/ \E flags \in SUBSET ResetFlag :
              /\ ResetPropose(rec, flags).result = "CHANGE"
              /\ rec' = ResetPropose(rec, flags).record
         \/ \E bad \in Identity, m \in Manifest :
              /\ PromotePrevious(rec, bad, "INVALID", m).result = "CHANGE"
              /\ rec' = PromotePrevious(rec, bad, "INVALID", m).record
  PROVE  Lifecycle!Next
<1>1. ASSUME NEW e \in Upload,
             Invalidate(rec, e).result = "CHANGE", rec' = Invalidate(rec, e).record
      PROVE  Lifecycle!InvalidateSlot
  BY <1>1, SameInvalidate, SameSets DEF Lifecycle!InvalidateSlot, Lifecycle!Commit
<1>2. ASSUME NEW e \in Upload, NEW m \in Manifest,
             AcceptReady(rec, e, m).result = "CHANGE", rec' = AcceptReady(rec, e, m).record
      PROVE  Lifecycle!AcceptUpload
  BY <1>2, SameAccept, SameSets DEF Lifecycle!AcceptUpload, Lifecycle!Commit
<1>3. ASSUME NEW m \in Manifest,
             BeginTrial(rec, m).result = "CHANGE", rec' = BeginTrial(rec, m).record
      PROVE  Lifecycle!LaunchCandidate
  BY <1>3, SameTrial, SameSets DEF Lifecycle!LaunchCandidate, Lifecycle!Commit
<1>4. ASSUME NEW q \in ConfirmRequest, NEW m \in Manifest, NEW well \in BOOLEAN,
             Confirm(rec, q, m, well).result = "CHANGE",
             rec' = Confirm(rec, q, m, well).record
      PROVE  Lifecycle!ConfirmRunning
  BY <1>4, SameConfirm, SameSets DEF Lifecycle!ConfirmRunning, Lifecycle!Commit
<1>5. ASSUME NEW flags \in SUBSET ResetFlag,
             ResetPropose(rec, flags).result = "CHANGE",
             rec' = ResetPropose(rec, flags).record
      PROVE  Lifecycle!AccountReset
  BY <1>5, SameReset, SameSets DEF Lifecycle!AccountReset, Lifecycle!Commit
<1>6. ASSUME NEW bad \in Identity, NEW m \in Manifest,
             PromotePrevious(rec, bad, "INVALID", m).result = "CHANGE",
             rec' = PromotePrevious(rec, bad, "INVALID", m).record
      PROVE  Lifecycle!FallBack
  <2>1. "INVALID" \in VerifyResult \ {"OK"}  BY DEF VerifyResult
  <2> QED BY <1>6, <2>1, SamePromote, SameSets DEF Lifecycle!FallBack, Lifecycle!Commit
<1> QED BY <1>1, <1>2, <1>3, <1>4, <1>5, <1>6 DEF Lifecycle!Next

(* Every step of the board leaves the record alone or takes one step of    *)
(* the life cycle.                                                         *)
LEMMA LifecycleStepHolds ==
  ASSUME BoardInv, [Next]_vars
  PROVE  LifecycleStep
<1> SUFFICES ASSUME rec' # rec PROVE Lifecycle!Next
  BY DEF LifecycleStep
<1>0. BInv /\ TypeOK /\ WellFormed(rec) /\ rec \in Metadata
  BY DEF BoardInv, BInv, RecordOK, WellFormed
<1>1. CASE Account
  <2>1. \E answer : StoreReplace(rec, ResetPropose(rec, captured).record, answer)
        /\ ResetPropose(rec, captured).result = "CHANGE"
    BY <1>1 DEF Account
  <2>2. rec' = ResetPropose(rec, captured).record
    BY <1>0, <2>1, StoreAnswer
  <2>3. captured \in SUBSET ResetFlag  BY <1>0 DEF TypeOK
  <2> QED BY <2>1, <2>2, <2>3, RuleIsLifecycle
<1>2. CASE SelectCandidate
  <2> DEFINE m == Stored(rec.candidate)
  <2>1. m \in Manifest
    BY <1>2, StoredManifest DEF SelectCandidate, CandidateOut
  <2>2. Selecting /\ BeginTrial(rec, m).result = "CHANGE" /\ CommitAndLaunch(BeginTrial(rec, m), rec.candidate)
    BY <1>2 DEF SelectCandidate, Untouched
  <2> HIDE DEF m
  <2>3. rec' = BeginTrial(rec, m).record
    BY <1>0, <2>2, CommitAnswer
  <2> QED BY <2>1, <2>2, <2>3, RuleIsLifecycle
<1>3. CASE SelectPrevious
  <2> DEFINE m == Stored(rec.previous)
             p == PromotePrevious(rec, CurrentIdentity, "INVALID", m)
  <2>1. /\ Selecting /\ Verifies(rec.previous) /\ rec.current \in rec.confirmed
        /\ p.result = "CHANGE" /\ CommitAndLaunch(p, rec.previous)
    BY <1>3 DEF SelectPrevious, Untouched
  <2>2. m \in Manifest  BY <2>1, StoredManifest
  <2>3. CurrentIdentity \in Identity
    <3>1. rec.current \in Slot /\ ImageRulesValid(rec, rec.current)
      BY <1>0 DEF BInv, RecordOK, WellFormed, MetadataValid
    <3> QED BY <1>0, <2>1, <3>1 DEF CurrentIdentity, Identity, Metadata, Entry, ImageRulesValid
  <2> HIDE DEF m
  <2>4. rec' = p.record
    BY <1>0, <2>1, CommitAnswer
  <2> QED BY <2>1, <2>2, <2>3, <2>4, RuleIsLifecycle
<1>4. CASE StepInvalidate
  <2>1. stage = "running" /\ phase = "INVALIDATE"
    BY <1>4 DEF StepInvalidate, Stepping, Receiving, AppKeeps
  <2>2. authority = rec /\ header \in Image /\ Invalidate(rec, Evidence).result = "CHANGE"
    BY <1>0, <2>1 DEF BInv, ReceiveOK, Upcoming
  <2>3. Evidence \in Upload
    BY <1>0, <2>1, <2>2, RunningFacts, UploadEvidence
  <2>4. \E answer : StoreReplace(authority, Invalidate(authority, Evidence).record, answer)
    BY <1>4 DEF StepInvalidate
  <2>5. rec' = Invalidate(rec, Evidence).record
    BY <1>0, <2>2, <2>4, StoreAnswer
  <2> QED BY <2>2, <2>3, <2>5, RuleIsLifecycle
<1>5. CASE StepReady
  <2> DEFINE m == Evidence.incoming
  <2>1. stage = "running" /\ phase = "READY"
    BY <1>5 DEF StepReady, Stepping, Receiving, AppKeeps
  <2>2. authority = rec /\ header \in Image /\ AcceptReady(rec, Evidence, m).result = "CHANGE"
    BY <1>0, <2>1 DEF BInv, ReceiveOK, Given
  <2>3. Evidence \in Upload /\ m \in Manifest
    BY <1>0, <2>1, <2>2, RunningFacts, UploadEvidence
  <2>4. \E answer : StoreReplace(authority, AcceptReady(authority, Evidence, m).record, answer)
    BY <1>5 DEF StepReady
  <2> HIDE DEF m
  <2>5. rec' = AcceptReady(rec, Evidence, m).record
    BY <1>0, <2>2, <2>4, StoreAnswer
  <2> QED BY <2>2, <2>3, <2>5, RuleIsLifecycle
<1>6. CASE StepConfirm
  <2>1. stage = "running"
    BY <1>6 DEF StepConfirm, Confirming, AppKeeps
  <2>2. running \in Manifest /\ healthy \in BOOLEAN
    BY <1>0, <2>1, RunningFacts DEF TypeOK
  <2>3. PICK request \in ConfirmRequest :
          /\ Confirm(rec, request, running, healthy).result = "CHANGE"
          /\ rec' = Confirm(rec, request, running, healthy).record
    BY <1>0, <1>6, ConfirmEffect
  <2> QED BY <2>2, <2>3, RuleIsLifecycle
<1>7. ~UNCHANGED vars /\ ~StepErase /\ ~StepPayload /\ ~StepWriteManifest /\ ~\E s \in Slot : Decay(s)
  BY DEF vars, durable, StepErase, StepPayload, StepWriteManifest, Decay
<1> QED BY <1>1, <1>2, <1>3, <1>4, <1>5, <1>6, <1>7, NothingWritten
        DEF Next, Boot, Application, Receive

(* The board implements the update life cycle: the record starts as the    *)
(* provisioning tool writes it and only takes the steps of UpdateRecord.   *)
THEOREM LifecycleTheorem == Spec => FollowsLifecycle
<1>1. Init => Lifecycle!Init
  <2> SUFFICES ASSUME Init PROVE Lifecycle!Init
    OBVIOUS
  <2>1. PICK img \in [Slot -> Image] : rec = FactoryRecord(img)
    BY DEF Init
  <2>2. Lifecycle!FactoryRecord(img) = FactoryRecord(img)
    BY SameSets DEF Lifecycle!FactoryRecord, FactoryRecord, Lifecycle!FreshEntry, FreshEntry,
                    Lifecycle!UNUSED, UNUSED
  <2> QED BY <2>1, <2>2, SameSets DEF Lifecycle!Init
<1>2. BoardInv /\ [Next]_vars => LifecycleStep  BY LifecycleStepHolds
<1> QED BY <1>1, <1>2, BoardInvariant, PTL DEF Spec, FollowsLifecycle
=============================================================================
