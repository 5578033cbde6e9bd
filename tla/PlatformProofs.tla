---------------------------- MODULE PlatformProofs ----------------------------
(***************************************************************************)
(* The parts that drive the hardware itself, each proved on its own: the   *)
(* diagnostic block that survives a reset, the last steps of the handoff   *)
(* on the processor, and the network interface over its controller.  They  *)
(* share neither state nor actions.                                        *)
(***************************************************************************)
EXTENDS DiagPublication, HandoffTarget, NetIf, FiniteSetTheorems, TLAPS

-----------------------------------------------------------------------------
(* The diagnostic block.  The inductive invariant says what the words hold *)
(* while they are being written: once the validity word was cleared it     *)
(* stays clear until every word is the candidate's.                        *)

(* The validity word is clear while the words are written, and those       *)
(* written so far are the candidate's.                                     *)
Staged ==
  /\ store = "invalidate" => next = 1
  /\ store \in {"write", "commit"} => validity = 0 /\ ~associated
  /\ store = "write" => \A i \in Words : i < next => block[i] = Image(candidate)[i]
  /\ store = "commit" => block = Image(candidate)

(* An owner that is associated has a published block until the first store *)
(* of a publication.                                                       *)
Associated == associated => Published

(* What is published is the record published last.                         *)
Intact == Published => Decoded(block) = current

Inv == TypeOK /\ Staged /\ Associated /\ Intact

-----------------------------------------------------------------------------
(* A record's words decode to the record.                                  *)
LEMMA ImageType ==
  ASSUME NEW r \in Record
  PROVE  Image(r) \in Block /\ Decodes(Image(r)) /\ Decoded(Image(r)) = r
<1>1. \A i \in Words : Image(r)[i] \in WordValue(i)
  BY DEF Image, Record, WordValue, Words
<1>2. Image(r) \in [Words -> UNION {WordValue(i) : i \in Words}]
  BY <1>1 DEF Image
<1>3. Decodes(Image(r))
  BY DEF Image, Decodes, Record, Words
<1>4. Decoded(Image(r)) = r
  BY DEF Image, Decoded, Record, Words
<1> QED
  BY <1>1, <1>2, <1>3, <1>4 DEF Block

(* Nothing is staged or trusted at power-on.                               *)
LEMMA InvInit == Init => Inv
<1> SUFFICES ASSUME Init PROVE Inv
  OBVIOUS
<1>1. next \in Words
  BY DEF Init, Words
<1>2. TypeOK
  BY <1>1, Zenon DEF Init, TypeOK
<1>3. Staged /\ Associated /\ Intact
  BY DEF Init, Staged, Associated, Intact, Published
<1> QED
  BY <1>2, <1>3 DEF Inv

(* A published block decodes to a record.                                  *)
LEMMA DecodedType ==
  ASSUME TypeOK, Published
  PROVE  Decoded(block) \in Record
<1>1. block[3] \in WordValue(3)
  BY DEF TypeOK, Block, Words
<1>2. block[3] \in Flags
  BY <1>1 DEF WordValue
<1> QED
  BY <1>2 DEF Published, Decodes, Decoded, Record

(* A publication begins without touching the block.                        *)
LEMMA PublishStep ==
  ASSUME Inv, NEW r \in Record, Publish(r)
  PROVE  Inv'
<1>1. next' \in Words
  BY DEF Publish, Words
<1>2. TypeOK'
  BY <1>1, Zenon DEF Inv, TypeOK, Publish
<1>3. Staged' /\ Associated' /\ Intact'
  BY DEF Inv, Staged, Associated, Intact, Published, Publish
<1> QED
  BY <1>2, <1>3 DEF Inv

(* From the first store on the owner trusts nothing.                       *)
LEMMA InvalidateStep ==
  ASSUME Inv, Invalidate
  PROVE  Inv'
<1>1. validity' \in {validity, 0}
  BY DEF Invalidate
<1>2. TypeOK'
  BY <1>1, Zenon DEF Inv, TypeOK, Invalidate
<1>3. Staged'
  BY DEF Inv, Staged, Invalidate, TypeOK, Words
<1>4. Associated' /\ Intact'
  BY <1>1 DEF Inv, Associated, Intact, Published, Invalidate
<1> QED
  BY <1>2, <1>3, <1>4 DEF Inv

(* One more word is the candidate's, and nothing is published.             *)
LEMMA StoreWordStep ==
  ASSUME Inv, StoreWord
  PROVE  Inv'
<1> DEFINE image   == Image(candidate)
           written == [block EXCEPT ![next] = image[next]]
<1>1. image \in Block
  BY ImageType DEF Inv, TypeOK
<1>2. validity = 0 /\ ~associated /\ next \in Words
  BY DEF Inv, Staged, StoreWord, TypeOK
<1>3. written \in Block
  BY <1>1, <1>2 DEF Block, Inv, TypeOK
<1>4. block' \in {block, written}
  BY DEF StoreWord
<1>5. next' \in Words
  BY <1>2 DEF StoreWord, Words
<1>6. TypeOK'
  <2>1. block' \in Block
    BY <1>3, <1>4 DEF Inv, TypeOK
  <2> QED
    BY <2>1, <1>5, Zenon DEF Inv, TypeOK, StoreWord
<1>7. \A i \in Words : i <= next => written[i] = image[i]
  BY <1>2 DEF Inv, Staged, StoreWord, TypeOK, Block, Words
<1>8. Staged'
  <2>1. CASE store' = "idle"
    BY <2>1 DEF Staged
  <2>2. CASE store' = "write"
    <3>1. block' = written /\ next' = next + 1
      BY <2>2 DEF StoreWord
    <3>2. \A i \in Words : i < next' => block'[i] = image[i]
      BY <1>2, <1>7, <3>1 DEF Words
    <3> QED
      BY <1>2, <2>2, <3>2 DEF Staged, StoreWord
  <2>3. CASE store' = "commit"
    <3>1. block' = written /\ next = 5
      BY <2>3 DEF StoreWord
    <3>2. \A i \in Words : written[i] = image[i]
      BY <1>7, <3>1 DEF Words
    <3>3. written = image
      BY <1>1, <1>3, <3>2 DEF Block
    <3> QED
      BY <1>2, <2>3, <3>1, <3>3 DEF Staged, StoreWord
  <2> QED
    BY <2>1, <2>2, <2>3 DEF StoreWord
<1>9. Associated' /\ Intact'
  BY <1>2 DEF Associated, Intact, Published, StoreWord
<1> QED
  BY <1>6, <1>8, <1>9 DEF Inv

(* The block that the last store publishes is the candidate.               *)
LEMMA CommitStep ==
  ASSUME Inv, Commit
  PROVE  Inv'
<1>1. block = Image(candidate) /\ candidate \in Record /\ validity = 0 /\ ~associated
  BY DEF Inv, Staged, TypeOK, Commit
<1>2. Decodes(block') /\ Decoded(block') = candidate
  BY <1>1, ImageType DEF Commit
<1>3. TypeOK'
  BY Zenon DEF Inv, TypeOK, Commit
<1>4. Staged'
  BY DEF Staged, Commit
<1>5. Associated'
  BY <1>1, <1>2 DEF Associated, Published, Commit
<1>6. Intact'
  BY <1>1, <1>2 DEF Intact, Published, Commit
<1> QED
  BY <1>3, <1>4, <1>5, <1>6 DEF Inv

(* Every call, store and reset keeps the invariant.                        *)
LEMMA InvNext == Inv /\ [Next]_vars => Inv'
<1> SUFFICES ASSUME Inv, [Next]_vars PROVE Inv'
  OBVIOUS
<1>1. CASE Boot
  <2>1. PICK flags \in Flags : Publish(InitialRecord(flags))
    BY <1>1 DEF Boot
  <2>2. InitialRecord(flags) \in Record
    BY FieldsAssumption DEF InitialRecord, Record
  <2> QED
    BY <2>1, <2>2, PublishStep
<1>2. CASE Progress
  <2>1. PICK stage \in Stage, health \in Health :
          Publish([Decoded(block) EXCEPT !.stage = stage, !.health = health])
    BY <1>2 DEF Progress
  <2>2. Decoded(block) \in Record
    BY <1>2, DecodedType DEF Progress, Inv
  <2>3. [Decoded(block) EXCEPT !.stage = stage, !.health = health] \in Record
    BY <2>2 DEF Record
  <2> QED
    BY <2>1, <2>3, PublishStep
<1>3. CASE Adopt
  <2>1. TypeOK'
    BY <1>3, Zenon DEF Inv, TypeOK, Adopt
  <2>2. Staged' /\ Associated' /\ Intact'
    BY <1>3 DEF Inv, Staged, Associated, Intact, Published, Adopt
  <2> QED
    BY <2>1, <2>2 DEF Inv
<1>4. CASE Invalidate
  BY <1>4, InvalidateStep
<1>5. CASE StoreWord
  BY <1>5, StoreWordStep
<1>6. CASE Commit
  BY <1>6, CommitStep
<1>7. CASE Reset
  <2>1. next' \in Words
    BY <1>7 DEF Reset, Words
  <2>2. TypeOK'
    BY <1>7, <2>1, Zenon DEF Inv, TypeOK, Reset
  <2>3. Staged' /\ Associated' /\ Intact'
    BY <1>7 DEF Inv, Staged, Associated, Intact, Published, Reset
  <2> QED
    BY <2>2, <2>3 DEF Inv
<1>8. CASE UNCHANGED vars
  BY <1>8 DEF vars, Inv, TypeOK, Staged, Associated, Intact, Published
<1> QED
  BY <1>1, <1>2, <1>3, <1>4, <1>5, <1>6, <1>7, <1>8 DEF Next

(* So it always holds.                                                     *)
LEMMA Invariance == Spec => []Inv
  BY InvInit, InvNext, PTL DEF Spec

(* Whoever trusts the block finds one record as it was published last, at  *)
(* any instant and across any resets and failed stores.                    *)
THEOREM WholeTheorem == Spec => []PublishedIsWhole
<1>1. Inv => PublishedIsWhole
  BY DEF Inv, Associated, Intact, PublishedIsWhole, Trusted
<1> QED
  BY <1>1, Invariance, PTL

-----------------------------------------------------------------------------
(* The handoff on the processor                                            *)

HandoffTypeOK ==
  /\ step \in 1..12
  /\ phase \in {"admit", "before", "write", "after", "transfer", "out", "reset"}
  /\ failed \in BOOLEAN /\ recorded \in BOOLEAN /\ sources \in BOOLEAN
  /\ ris \in BOOLEAN /\ core \in BOOLEAN /\ systick \in BOOLEAN

(* What the terminal checks found stays so, but for a watchdog that expires*)
(* afterwards: its interrupt is pending then, and not enabled.             *)
Found ==
  recorded \/ (step = 12 /\ phase \in {"write", "after"}) =>
    /\ sources /\ enabled = {} /\ active = {} /\ ~core /\ ~systick
    /\ pending \subseteq {"wdt"} /\ (~ris => pending = {})
    /\ vtor = target /\ owner = "APPLICATION"

(* The adapter makes no call after the record.                             *)
Finished == recorded => ~failed /\ phase \in {"out", "reset"}

HInv == HandoffTypeOK /\ Found /\ Finished

(* As long as nothing was found wrong and nothing went wrong, every check  *)
(* that is to come passes.                                                 *)
Smooth ==
  clean /\ ~disturbed =>
    /\ enabled = {} /\ pending \subseteq {"wdt"} /\ active = {} /\ ~core /\ ~systick
    /\ sources /\ ~ris /\ ~failed /\ handoff \notin {"refused", "blocked"}
    /\ owner = IF step = 12 /\ phase # "transfer" THEN "APPLICATION" ELSE "BOOT"
    /\ step >= 8 \/ (step = 7 /\ phase = "after") => pending = {}
    /\ step >= 11 \/ (step = 10 /\ phase = "after") => vtor = target
    /\ phase = "transfer" => step = 12
    /\ phase = "admit" => step = 1

(* Which operation is which.                                               *)
LEMMA OperationOf ==
  /\ step = 1 => Op = "EXCLUDE"
  /\ step = 2 => Op = "STOP_SYSTICK"
  /\ step = 3 => Op = "DISABLE_BANK0"
  /\ step = 4 => Op = "DISABLE_BANK1"
  /\ step = 5 => Op = "QUIESCE_SOURCES"
  /\ step = 6 => Op = "CLEAR_CORE_PENDING"
  /\ step = 7 => Op = "CLEAR_BANK0_PENDING"
  /\ step = 8 => Op = "CLEAR_BANK1_PENDING"
  /\ step = 9 => Op = "BARRIER_BEFORE_VTOR"
  /\ step = 10 => Op = "SET_VTOR"
  /\ step = 11 => Op = "BARRIER_AFTER_VTOR"
  /\ step = 12 => Op = "TERMINAL"
BY DEF Op, Order

(* Nothing is recorded at the start, and what is in order is so by         *)
(* definition.                                                             *)
LEMMA InitHandoff == HandoffInit => HInv /\ Smooth
<1> SUFFICES ASSUME HandoffInit PROVE HInv /\ Smooth
  OBVIOUS
<1>1. HandoffTypeOK
  <2>1. /\ failed \in BOOLEAN /\ recorded \in BOOLEAN /\ sources \in BOOLEAN
        /\ ris \in BOOLEAN /\ core \in BOOLEAN /\ systick \in BOOLEAN
    BY Zenon DEF HandoffInit
  <2> QED  BY <2>1 DEF HandoffInit, HandoffTypeOK
<1>2. Found /\ Finished  BY DEF HandoffInit, Found, Finished
<1>3. Smooth
  <2> SUFFICES ASSUME clean PROVE Smooth
    BY DEF Smooth
  <2>1. Clean  BY Zenon DEF HandoffInit
  <2> QED  BY <2>1 DEF HandoffInit, Smooth, Clean
<1> QED  BY <1>1, <1>2, <1>3 DEF HInv

(* The types of the handoff.                                               *)
LEMMA HandoffType ==
  ASSUME HandoffTypeOK, HandoffNext
  PROVE  HandoffTypeOK'
<1> USE DEF HandoffTypeOK, Machine, inherited, irqs,
            history, Fail, Working, Busy
<1>1. CASE Admit  BY <1>1 DEF Admit
<1>2. CASE CheckBefore  BY <1>2 DEF CheckBefore
<1>3. CASE Write
  <2>1. core' \in BOOLEAN /\ systick' \in BOOLEAN
    BY <1>3, Zenon DEF Write, Effect
  <2> QED  BY <1>3, <2>1 DEF Write
<1>4. CASE CheckAfter
  <2>1. step # 12  BY <1>4, OperationOf DEF CheckAfter
  <2>2. step' \in 1..12  BY <1>4, <2>1 DEF CheckAfter
  <2>3. phase' \in {"before", "transfer", "out"} /\ failed' \in BOOLEAN
    BY <1>4 DEF CheckAfter
  <2> QED  BY <1>4, <2>2, <2>3 DEF CheckAfter
<1>5. CASE Transfer  BY <1>5 DEF Transfer
<1>6. CASE RecordIntent  BY <1>6 DEF RecordIntent
<1>7. CASE AccessFails
  <2>1. core' \in BOOLEAN /\ systick' \in BOOLEAN
    <3>1. CASE UNCHANGED irqs  BY <3>1
    <3>2. CASE Effect(Op)  BY <3>2, Zenon DEF Effect
    <3> QED  BY <1>7, <3>1, <3>2 DEF AccessFails
  <2> QED  BY <1>7, <2>1 DEF AccessFails
<1>8. CASE Reenter  BY <1>8 DEF Reenter
<1>9. CASE PoisonedEnds  BY <1>9 DEF PoisonedEnds
<1>10. CASE Expire  BY <1>10 DEF Expire
<1>11. CASE ExpireAgain  BY <1>11 DEF ExpireAgain
<1>12. CASE \E i \in Irq : Raise(i)  BY <1>12 DEF Raise
<1> QED
  BY <1>1, <1>2, <1>3, <1>4, <1>5, <1>6, <1>7, <1>8, <1>9, <1>10, <1>11, <1>12
     DEF HandoffNext

(* A step keeps what the terminal checks found, and the record final.      *)
LEMMA HandoffFound ==
  ASSUME HInv, HandoffNext
  PROVE  Found' /\ Finished'
<1> USE DEF HInv, HandoffTypeOK, Found, Finished, Machine, inherited,
            irqs, history, Fail, Working, Busy
<1>1. CASE Admit  BY <1>1 DEF Admit
<1>2. CASE CheckBefore
  <2>1. CASE step = 12 /\ Before(Op)
    <3>1. /\ owner = "APPLICATION" /\ SourcesIdle /\ BanksIdle
          /\ ~systick /\ vtor = target
      BY <2>1, OperationOf DEF Before
    <3> QED
      BY <1>2, <3>1 DEF CheckBefore, SourcesIdle, BanksIdle
  <2>2. CASE ~(step = 12 /\ Before(Op))
    BY <1>2, <2>2 DEF CheckBefore
  <2> QED  BY <2>1, <2>2
<1>3. CASE Write
  <2>1. CASE step = 12
    <3>1. Op = "TERMINAL"  BY <2>1, OperationOf
    <3> QED  BY <1>3, <2>1, <3>1 DEF Write, Effect
  <2>2. CASE step # 12
    BY <1>3, <2>2 DEF Write
  <2> QED  BY <2>1, <2>2
<1>4. CASE CheckAfter  BY <1>4 DEF CheckAfter
<1>5. CASE Transfer  BY <1>5 DEF Transfer
<1>6. CASE RecordIntent
  <2>1. step = 12  BY <1>6, OperationOf DEF RecordIntent
  <2> QED  BY <1>6, <2>1 DEF RecordIntent
<1>7. CASE AccessFails  BY <1>7 DEF AccessFails
<1>8. CASE Reenter  BY <1>8 DEF Reenter
<1>9. CASE PoisonedEnds  BY <1>9 DEF PoisonedEnds
<1>10. CASE Expire  BY <1>10 DEF Expire
<1>11. CASE ExpireAgain  BY <1>11 DEF ExpireAgain
<1>12. CASE \E i \in Irq : Raise(i)  BY <1>12 DEF Raise
<1> QED
  BY <1>1, <1>2, <1>3, <1>4, <1>5, <1>6, <1>7, <1>8, <1>9, <1>10, <1>11, <1>12
     DEF HandoffNext

(* While nothing went wrong, what an operation checks before its write is  *)
(* so, ...                                                                 *)
LEMMA SmoothBefore ==
  ASSUME HInv, Smooth, clean, ~disturbed, phase = "before"
  PROVE  Before(Op)
<1> USE DEF BanksIdle, BanksIdlePre, SourcesIdle, Captured
<1>1. step \in 1..12  BY DEF HInv, HandoffTypeOK
<1>2. CASE step = 1  BY <1>2, OperationOf DEF Smooth, Before
<1>3. CASE step = 2 \/ step = 10  BY <1>3, OperationOf DEF Before
<1>4. CASE step \in {3, 4, 6, 7}  BY <1>4, OperationOf DEF Smooth, Before
<1>5. CASE step = 5  BY <1>5, OperationOf DEF Smooth, Before
<1>6. CASE step = 8  BY <1>6, OperationOf DEF Smooth, Before
<1>7. CASE step = 9  BY <1>7, OperationOf DEF Smooth, Before
<1>8. CASE step = 11  BY <1>8, OperationOf DEF Smooth, Before
<1>9. CASE step = 12  BY <1>9, OperationOf DEF Smooth, Before
<1> QED  BY <1>1, <1>2, <1>3, <1>4, <1>5, <1>6, <1>7, <1>8, <1>9

(* ... and so is what it checks after it.                                  *)
LEMMA SmoothAfter ==
  ASSUME HInv, Smooth, clean, ~disturbed, phase = "after"
  PROVE  After(Op)
<1> USE DEF BanksIdle, BanksIdlePre
<1>1. step \in 1..12  BY DEF HInv, HandoffTypeOK
<1>2. CASE step \in {1, 5, 9, 11, 12}  BY <1>2, OperationOf DEF After
<1>3. CASE step = 2 \/ step = 6  BY <1>3, OperationOf DEF Smooth, After
<1>4. CASE step = 3 \/ step = 4  BY <1>4, OperationOf DEF Smooth, After
<1>5. CASE step = 7 \/ step = 8
  <2>1. BanksIdle  BY <1>5 DEF Smooth
  <2> QED  BY <1>5, <2>1, OperationOf DEF After
<1>6. CASE step = 10  BY <1>6, OperationOf DEF Smooth, After
<1> QED  BY <1>1, <1>2, <1>3, <1>4, <1>5, <1>6

(* So the next step goes on, unless it is the one that goes wrong.         *)
LEMMA SmoothStep ==
  ASSUME HInv, Smooth, HandoffNext
  PROVE  Smooth'
<1> SUFFICES ASSUME clean', ~disturbed' PROVE Smooth'
  BY DEF Smooth
<1> USE DEF Machine, inherited, irqs, history
<1>0. step \in 1..12  BY DEF HInv, HandoffTypeOK
<1>1. CASE Admit  BY <1>0, <1>1 DEF Admit, Smooth
<1>2. CASE CheckBefore
  <2>1. clean /\ ~disturbed /\ phase = "before"
    BY <1>2 DEF CheckBefore, Working
  <2>2. Before(Op)  BY <2>1, SmoothBefore
  <2>3. phase' = "write" /\ UNCHANGED <<step, failed, recorded, handoff>>
    BY <1>2, <2>2 DEF CheckBefore
  <2> QED  BY <1>0, <1>2, <2>1, <2>3 DEF CheckBefore, Smooth
<1>3. CASE Write
  <2>1. clean /\ ~disturbed /\ phase = "write" /\ phase' = "after"
    BY <1>3 DEF Write, Working
  <2>2. /\ UNCHANGED <<active, sources, ris, owner, step, failed, handoff, target>>
        /\ Effect(Op)
    BY <1>3 DEF Write
  <2>3. enabled' = {} /\ ~core' /\ ~systick'
    BY <2>1, <2>2 DEF Smooth, Effect
  <2>4. pending' \subseteq {"wdt"} /\ (step >= 7 => pending' = {})
    <3>1. CASE step = 7 \/ step = 8
      BY <2>1, <2>2, <3>1, OperationOf DEF Smooth, Effect, Cleared, Bank
    <3>2. CASE step \notin {7, 8}
      <4>1. Op \notin {"CLEAR_BANK0_PENDING", "CLEAR_BANK1_PENDING"}
        BY <1>0, <3>2, OperationOf
      <4> QED  BY <1>0, <2>1, <2>2, <3>2, <4>1 DEF Smooth, Effect
    <3> QED  BY <3>1, <3>2
  <2>5. step >= 10 => vtor' = target
    BY <1>0, <2>1, <2>2, OperationOf DEF Smooth, Effect
  <2> QED  BY <1>0, <2>1, <2>2, <2>3, <2>4, <2>5 DEF Smooth
<1>4. CASE CheckAfter
  <2>1. clean /\ ~disturbed /\ phase = "after"
    BY <1>4 DEF CheckAfter, Working
  <2>2. After(Op)  BY <2>1, SmoothAfter
  <2>3. /\ step' = step + 1 /\ step # 12 /\ UNCHANGED <<failed, recorded, handoff>>
        /\ phase' = IF step = 11 THEN "transfer" ELSE "before"
    BY <1>0, <1>4, <2>2, OperationOf DEF CheckAfter
  <2> QED  BY <1>0, <1>4, <2>1, <2>3 DEF CheckAfter, Smooth
<1>5. CASE Transfer  BY <1>0, <1>5 DEF Transfer, Smooth
<1>6. CASE RecordIntent  BY <1>0, <1>6 DEF RecordIntent, Working, Smooth
<1>7. CASE AccessFails  BY <1>7 DEF AccessFails
<1>8. CASE Reenter  BY <1>8 DEF Reenter
<1>9. CASE PoisonedEnds
  BY <1>9 DEF PoisonedEnds, Smooth
<1>10. CASE Expire  BY <1>10 DEF Expire
<1>11. CASE ExpireAgain
  BY <1>0, <1>11 DEF ExpireAgain, Smooth
<1>12. CASE \E i \in Irq : Raise(i)
  BY <1>12 DEF Raise, Smooth
<1> QED
  BY <1>1, <1>2, <1>3, <1>4, <1>5, <1>6, <1>7, <1>8, <1>9, <1>10, <1>11, <1>12
     DEF HandoffNext

(* Both hold for any vector tables of the slots.                           *)
LEMMA HandoffInvariant == HandoffSpec => [](HInv /\ Smooth)
<1>1. HandoffInit => HInv /\ Smooth
  BY InitHandoff
<1>2. HInv /\ Smooth /\ [HandoffNext]_handoffVars => (HInv /\ Smooth)'
  <2> SUFFICES ASSUME HInv, Smooth, [HandoffNext]_handoffVars PROVE (HInv /\ Smooth)'
    OBVIOUS
  <2>1. CASE HandoffNext
    BY <2>1, HandoffType, HandoffFound, SmoothStep DEF HInv
  <2>2. CASE UNCHANGED handoffVars
    BY <2>2 DEF HInv, HandoffTypeOK, Found, Finished, Smooth, handoffVars,
                inherited, irqs, history
  <2> QED  BY <2>1, <2>2
<1> QED  BY <1>1, <1>2, PTL DEF HandoffSpec

(* Only a quiet processor is handed over: boot_handoff_target.c records an *)
(* intent only when no operation was poisoned, and from then on no         *)
(* interrupt is enabled or active and nothing is pending but a watchdog    *)
(* interrupt raised since.                                                 *)
THEOREM QuietTheorem == HandoffSpec => []QuietWhenRecorded
<1>1. HInv => QuietWhenRecorded
  BY DEF HInv, Found, Finished, QuietWhenRecorded
<1> QED  BY <1>1, HandoffInvariant, PTL

(* A handoff is refused for a cause only: no check of the adapter or of    *)
(* run() fails on a processor in order that nothing disturbs.              *)
THEOREM CauseTheorem == HandoffSpec => []RefusedForCause
<1>1. Smooth => RefusedForCause
  BY DEF Smooth, RefusedForCause
<1> QED  BY <1>1, HandoffInvariant, PTL

-----------------------------------------------------------------------------
(* The network interface                                                   *)

FrameWord == [kind : {"good", "odd", "bad"}, i : Nat \ {0}, n : Nat \ {0}]

NetTypeOK ==
  /\ fifo \in Seq(FrameWord) /\ txwords \in Nat /\ left \in Nat
  /\ rxen \in BOOLEAN /\ txen \in BOOLEAN /\ fdx \in BOOLEAN
  /\ newtx \in BOOLEAN /\ txer \in BOOLEAN /\ phy \in Phy
  /\ mac_ready \in BOOLEAN /\ full \in BOOLEAN
  /\ seen \in BOOLEAN /\ busy \in BOOLEAN /\ negotiated \in BOOLEAN
  /\ accept \in BOOLEAN /\ ready \in BOOLEAN /\ transport_started \in BOOLEAN
  /\ listener \in BOOLEAN /\ connections \in BOOLEAN

Mii == {"mii1", "mii2", "mii3"}
Sent == {"send", "send_ack", "write", "request"}

(* A poll knows of every transmission that is under way while it changes   *)
(* the transmitter.                                                        *)
Polls ==
  /\ newtx => txen
  /\ busy => txen /\ pc \in Mii
  /\ pc \in Mii /\ newtx => busy

(* A frame is written only while the driver is ready, and its sender goes  *)
(* on where it was.                                                        *)
Returns ==
  /\ pc \in Sent => mac_ready
  /\ pc \in Sent \cup {"output"} => back \in {"read", "start", "ftp", "turn"}

Serving ==
  /\ listener \/ connections => ready
  /\ ~Polled => (ready => mac_ready)
  /\ pc = "init" => ~ready

(* main is wrong about the listener only between the loss of the link and  *)
(* the next time it looks.                                                 *)
Belief ==
  transport_started # listener =>
    /\ ~ready
    /\ \/ pc \in {"read", "drain", "start"}
       \/ pc \in Sent \cup {"output"} /\ back \in {"read", "start"}

(* A first word in the FIFO is followed by the rest of its frame and then  *)
(* by another first word.                                                  *)
Whole ==
  \A j \in 1..Len(fifo) : fifo[j].i = 1 =>
    /\ j + fifo[j].n - 1 <= Len(fifo)
    /\ \A k \in 1..fifo[j].n : fifo[j + k - 1].i = k /\ fifo[j + k - 1].n = fifo[j].n
    /\ j + fifo[j].n <= Len(fifo) => fifo[j + fifo[j].n].i = 1

(* The transmit FIFO holds what was written so far; words that a failed    *)
(* transmission left behind are reported by TXER until the reset of the    *)
(* FIFO.                                                                   *)
Sending ==
  /\ newtx => txwords = TxWords /\ pc \notin Sent
  /\ pc = "send" => left = TxWords
  /\ pc = "send_ack" => left = TxWords /\ seen = txer
  /\ pc = "write" => left > 0 /\ txwords + left = TxWords
  /\ pc = "request" => txwords = TxWords
  /\ ~newtx /\ pc \notin {"write", "request"} /\ txwords # 0 => txer

Up == ReadyIsConfigured /\ Polls /\ Returns /\ Serving /\ Belief
NInv == NetTypeOK /\ Up /\ ReceivesInStep /\ Whole /\ Sending

(* main starts with the interface down and both FIFOs empty.               *)
LEMMA InitNet == NetInit => NInv
<1> SUFFICES ASSUME NetInit PROVE NInv
  OBVIOUS
<1> USE DEF NetInit, EthernetInit
<1>1. NetTypeOK
  <2>1. fifo \in Seq(FrameWord)  OBVIOUS
  <2>2. txwords \in Nat /\ left \in Nat  OBVIOUS
  <2>3. /\ rxen \in BOOLEAN /\ txen \in BOOLEAN /\ fdx \in BOOLEAN
        /\ newtx \in BOOLEAN /\ txer \in BOOLEAN /\ phy \in Phy
        /\ mac_ready \in BOOLEAN /\ full \in BOOLEAN
    BY Zenon
  <2>4. /\ seen \in BOOLEAN /\ busy \in BOOLEAN /\ negotiated \in BOOLEAN
        /\ accept \in BOOLEAN /\ ready \in BOOLEAN /\ transport_started \in BOOLEAN
        /\ listener \in BOOLEAN /\ connections \in BOOLEAN
    BY Zenon
  <2> QED  BY <2>1, <2>2, <2>3, <2>4 DEF NetTypeOK
<1>2. Up
  BY DEF Up, ReadyIsConfigured, Polls, Returns, Serving, Belief, Mii, Sent
<1>3. ReceivesInStep /\ Whole  BY DEF ReceivesInStep, Whole
<1>4. Sending  BY DEF Sending, Sent
<1> QED  BY <1>1, <1>2, <1>3, <1>4 DEF NInv

-----------------------------------------------------------------------------
(* The receive FIFO                                                        *)

(* A step that leaves the FIFO alone, and the driver's place in it.        *)
LEMMA FifoKept ==
  ASSUME ReceivesInStep, Whole, UNCHANGED fifo,
         pc = "drain" => left' = left /\ (pc' = "drain" \/ left = 0),
         pc' = "drain" => pc = "drain", left \in Nat, fifo \in Seq(FrameWord)
  PROVE  ReceivesInStep' /\ Whole'
<1>1. Whole'  BY DEF Whole
<1>2. CASE pc' = "drain"
  <2>1. pc = "drain" /\ left' = left /\ fifo' = fifo  BY <1>2
  <2>2. /\ Len(fifo) >= left
        /\ \A k \in 1..left : fifo[k].n - fifo[k].i = left - k
        /\ Len(fifo) > left => fifo[left + 1].i = 1
    BY <2>1 DEF ReceivesInStep
  <2>3. /\ Len(fifo') >= left'
        /\ \A k \in 1..left' : fifo'[k].n - fifo'[k].i = left' - k
        /\ Len(fifo') > left' => fifo'[left' + 1].i = 1
    BY <2>1, <2>2
  <2> QED  BY <1>1, <1>2, <2>3 DEF ReceivesInStep
<1>3. CASE pc' # "drain" /\ pc # "drain"
  <2>1. fifo # <<>> => Head(fifo).i = 1  BY <1>3 DEF ReceivesInStep
  <2>2. fifo' # <<>> => Head(fifo').i = 1  BY <2>1
  <2> QED  BY <1>1, <1>3, <2>2 DEF ReceivesInStep
<1>4. CASE pc' # "drain" /\ pc = "drain"
  <2>1. left = 0  BY <1>4
  <2>2. fifo # <<>> => Len(fifo) > 0 /\ Head(fifo) = fifo[1]  OBVIOUS
  <2>3. Len(fifo) > left => fifo[left + 1].i = 1  BY <1>4 DEF ReceivesInStep
  <2>4. fifo # <<>> => Head(fifo).i = 1  BY <2>1, <2>2, <2>3
  <2>5. fifo' # <<>> => Head(fifo').i = 1  BY <2>4
  <2> QED  BY <1>1, <1>4, <2>5 DEF ReceivesInStep
<1> QED  BY <1>1, <1>2, <1>3, <1>4

(* An empty FIFO holds nothing out of step.                                *)
LEMMA FifoEmpty ==
  ASSUME fifo' = <<>>, pc' # "drain"
  PROVE  ReceivesInStep' /\ Whole'
BY DEF ReceivesInStep, Whole

(* A frame that arrives begins where the last one ends.                    *)
LEMMA FifoReceive ==
  ASSUME ReceivesInStep, Whole, fifo \in Seq(FrameWord), left \in Nat,
         NEW kind \in {"good", "odd", "bad"}, NEW n \in 2..MaxWords, Receive(kind, n)
  PROVE  fifo' \in Seq(FrameWord) /\ ReceivesInStep' /\ Whole'
<1> DEFINE frame == FrameWords(kind, n)
<1>0. n \in Nat /\ n >= 2  BY WordsAssumption
<1>1. /\ frame \in Seq(FrameWord) /\ Len(frame) = n
      /\ \A i \in 1..n : frame[i].i = i /\ frame[i].n = n
  <2>1. \A i \in 1..n : [kind |-> kind, i |-> i, n |-> n] \in FrameWord
    BY <1>0 DEF FrameWord
  <2> QED  BY <1>0, <2>1 DEF FrameWords
<1>2. /\ fifo' = fifo \o frame /\ UNCHANGED <<pc, left>>
  BY DEF Receive, call, locals
<1> HIDE DEF frame
<1>3. /\ fifo' \in Seq(FrameWord) /\ Len(fifo') = Len(fifo) + n
      /\ \A i \in 1..Len(fifo) : fifo'[i] = fifo[i]
      /\ \A i \in 1..n : fifo'[Len(fifo) + i] = frame[i]
  <2>1. (fifo \o frame) \in Seq(FrameWord) /\ Len(fifo \o frame) = Len(fifo) + n
    BY <1>1
  <2>2. \A i \in 1..Len(fifo) : (fifo \o frame)[i] = fifo[i]
    BY <1>0, <1>1
  <2>3. \A i \in 1..n : (fifo \o frame)[Len(fifo) + i] = frame[i]
    BY <1>0, <1>1
  <2> QED  BY <1>2, <2>1, <2>2, <2>3
<1>4. Len(fifo) \in Nat /\ \A i \in 1..Len(fifo) : fifo[i].n \in Nat \ {0}
  <2>1. Len(fifo) \in Nat /\ \A i \in 1..Len(fifo) : fifo[i] \in FrameWord
    OBVIOUS
  <2> QED  BY <2>1 DEF FrameWord
<1>5. fifo'[Len(fifo) + 1].i = 1
  BY <1>0, <1>1, <1>3
<1>6. ReceivesInStep'
  <2>1. CASE pc = "drain"
    <3>1. Len(fifo') >= left'  BY <1>0, <1>2, <1>3, <1>4, <2>1 DEF ReceivesInStep
    <3>2. \A k \in 1..left' : fifo'[k].n - fifo'[k].i = left' - k
      BY <1>2, <1>3, <1>4, <2>1 DEF ReceivesInStep
    <3>3. fifo'[left' + 1].i = 1
      <4>1. CASE Len(fifo) > left  BY <1>2, <1>3, <1>4, <2>1, <4>1 DEF ReceivesInStep
      <4>2. CASE Len(fifo) = left  BY <1>2, <1>5, <4>2
      <4> QED  BY <1>4, <2>1, <4>1, <4>2 DEF ReceivesInStep
    <3> QED  BY <1>2, <2>1, <3>1, <3>2, <3>3 DEF ReceivesInStep
  <2>2. CASE pc # "drain"
    <3>1. fifo' # <<>> /\ Head(fifo') = fifo'[1]  BY <1>0, <1>3, <1>4
    <3>2. fifo'[1].i = 1
      <4>1. CASE fifo = <<>>  BY <1>3, <1>5, <4>1
      <4>2. CASE fifo # <<>>
        <5>1. Head(fifo) = fifo[1] /\ 1 \in 1..Len(fifo)  BY <4>2
        <5> QED  BY <1>3, <2>2, <4>2, <5>1 DEF ReceivesInStep
      <4> QED  BY <4>1, <4>2
    <3> QED  BY <1>2, <2>2, <3>1, <3>2 DEF ReceivesInStep
  <2> QED  BY <2>1, <2>2
<1>7. Whole'
  <2> SUFFICES ASSUME NEW j \in 1..Len(fifo'), fifo'[j].i = 1
               PROVE  /\ j + fifo'[j].n - 1 <= Len(fifo')
                      /\ \A k \in 1..fifo'[j].n : /\ fifo'[j + k - 1].i = k
                                                  /\ fifo'[j + k - 1].n = fifo'[j].n
                      /\ j + fifo'[j].n <= Len(fifo') => fifo'[j + fifo'[j].n].i = 1
    BY DEF Whole
  <2>1. CASE j \in 1..Len(fifo)
    <3> DEFINE m == fifo[j].n
    <3>1. fifo'[j] = fifo[j] /\ m \in Nat \ {0}  BY <1>3, <1>4, <2>1
    <3>2. /\ j + m - 1 <= Len(fifo)
          /\ \A k \in 1..m : fifo[j + k - 1].i = k /\ fifo[j + k - 1].n = m
          /\ j + m <= Len(fifo) => fifo[j + m].i = 1
      BY <2>1, <3>1 DEF Whole
    <3> HIDE DEF m
    <3>0. /\ Len(fifo) \in Nat /\ j \in Nat \ {0} /\ m \in Nat \ {0}
          /\ j + m - 1 <= Len(fifo)
      <4>1. j + m - 1 <= Len(fifo)  BY <3>2, Zenon
      <4>2. Len(fifo) \in Nat /\ j \in Nat \ {0}  BY <1>4, <2>1
      <4> QED  BY <3>1, <4>1, <4>2
    <3>3. \A k \in 1..m : fifo'[j + k - 1] = fifo[j + k - 1]
      <4> SUFFICES ASSUME NEW k \in 1..m PROVE fifo'[j + k - 1] = fifo[j + k - 1]
        OBVIOUS
      <4>1. j + k - 1 \in 1..Len(fifo)  BY <3>0
      <4> QED  BY <1>3, <4>1
    <3>4. fifo'[j + m].i = 1
      <4>1. CASE j + m <= Len(fifo)
        <5>1. j + m \in 1..Len(fifo)  BY <1>4, <2>1, <3>1, <4>1
        <5> QED  BY <1>3, <3>2, <4>1, <5>1
      <4>2. CASE j + m = Len(fifo) + 1  BY <1>5, <4>2
      <4> QED  BY <3>0, <4>1, <4>2
    <3>5. m = fifo'[j].n  BY <3>1 DEF m
    <3>6. j + m - 1 <= Len(fifo')  BY <1>0, <1>3, <1>4, <2>1, <3>1, <3>2
    <3> QED  BY <3>2, <3>3, <3>4, <3>5, <3>6
  <2>2. CASE j \notin 1..Len(fifo)
    <3>1. j - Len(fifo) \in 1..n /\ fifo'[j] = frame[j - Len(fifo)]
      <4>1. j - Len(fifo) \in 1..n  BY <1>0, <1>3, <1>4, <2>2
      <4>2. j = Len(fifo) + (j - Len(fifo))  BY <1>4
      <4> QED  BY <1>3, <4>1, <4>2
    <3>2. j = Len(fifo) + 1  BY <1>1, <1>4, <3>1
    <3>3. fifo'[j].n = n  BY <1>1, <3>1
    <3>4. \A k \in 1..n : fifo'[j + k - 1] = frame[k]
      <4> SUFFICES ASSUME NEW k \in 1..n PROVE fifo'[j + k - 1] = frame[k]
        OBVIOUS
      <4>1. j + k - 1 = Len(fifo) + k  BY <1>4, <3>2
      <4> QED  BY <1>3, <4>1
    <3> QED  BY <1>0, <1>1, <1>3, <1>4, <3>2, <3>3, <3>4
  <2> QED  BY <2>1, <2>2
<1> QED  BY <1>3, <1>6, <1>7

(* What is left of a FIFO when its first word is read.                     *)
LEMMA FifoTail ==
  ASSUME fifo \in Seq(FrameWord), Whole, fifo # <<>>, fifo' = Tail(fifo)
  PROVE  /\ fifo' \in Seq(FrameWord) /\ Len(fifo') = Len(fifo) - 1
         /\ \A k \in 1..Len(fifo') : fifo'[k] = fifo[k + 1]
         /\ Whole'
<1>1. /\ fifo' \in Seq(FrameWord) /\ Len(fifo') = Len(fifo) - 1 /\ Len(fifo) \in Nat
      /\ \A k \in 1..Len(fifo') : fifo'[k] = fifo[k + 1]
  OBVIOUS
<1>2. \A i \in 1..Len(fifo) : fifo[i].n \in Nat \ {0}
  <2>1. \A i \in 1..Len(fifo) : fifo[i] \in FrameWord
    OBVIOUS
  <2> QED  BY <2>1 DEF FrameWord
<1>3. Whole'
  <2> SUFFICES ASSUME NEW j \in 1..Len(fifo'), fifo'[j].i = 1
               PROVE  /\ j + fifo'[j].n - 1 <= Len(fifo')
                      /\ \A k \in 1..fifo'[j].n : /\ fifo'[j + k - 1].i = k
                                                  /\ fifo'[j + k - 1].n = fifo'[j].n
                      /\ j + fifo'[j].n <= Len(fifo') => fifo'[j + fifo'[j].n].i = 1
    BY DEF Whole
  <2> DEFINE m == fifo[j + 1].n
  <2>1. j + 1 \in 1..Len(fifo) /\ fifo'[j] = fifo[j + 1] /\ m \in Nat \ {0}
    BY <1>1, <1>2
  <2>2. /\ (j + 1) + m - 1 <= Len(fifo)
        /\ \A k \in 1..m : fifo[(j + 1) + k - 1].i = k /\ fifo[(j + 1) + k - 1].n = m
        /\ (j + 1) + m <= Len(fifo) => fifo[(j + 1) + m].i = 1
    BY <2>1 DEF Whole
  <2>3. m = fifo'[j].n  BY <2>1
  <2> HIDE DEF m
  <2>4. \A k \in 1..m : fifo'[j + k - 1] = fifo[(j + 1) + k - 1]
    <3> SUFFICES ASSUME NEW k \in 1..m PROVE fifo'[j + k - 1] = fifo[(j + 1) + k - 1]
      OBVIOUS
    <3>1. j + k - 1 \in 1..Len(fifo')  BY <1>1, <2>1, <2>2
    <3>2. (j + k - 1) + 1 = (j + 1) + k - 1  BY <2>1
    <3> QED  BY <1>1, <3>1, <3>2
  <2>5. j + m <= Len(fifo') => fifo'[j + m].i = 1
    <3> SUFFICES ASSUME j + m <= Len(fifo') PROVE fifo'[j + m].i = 1
      OBVIOUS
    <3>1. j + m \in 1..Len(fifo') /\ (j + m) + 1 = (j + 1) + m  BY <1>1, <2>1
    <3> QED  BY <1>1, <2>1, <2>2, <3>1
  <2>6. j + m - 1 <= Len(fifo')  BY <1>1, <2>1, <2>2
  <2>7. \A k \in 1..m : fifo'[j + k - 1].i = k /\ fifo'[j + k - 1].n = m
    BY <2>2, <2>4
  <2> QED  BY <2>3, <2>5, <2>6, <2>7
<1> QED  BY <1>1, <1>3

(* The length word announces the words to be drained.                      *)
LEMMA FifoFirst ==
  ASSUME fifo \in Seq(FrameWord), ReceivesInStep, Whole, NEW buffer, ReadFirst(buffer)
  PROVE  fifo' \in Seq(FrameWord) /\ left' \in Nat /\ ReceivesInStep' /\ Whole'
<1>1. fifo # <<>>
  <2> SUFFICES ASSUME fifo = <<>> PROVE FALSE
    OBVIOUS
  <2>1. {k \in DOMAIN fifo : fifo[k].i = 1} = {}  OBVIOUS
  <2> QED  BY <2>1, FS_EmptySet DEF ReadFirst, PacketCount
<1>2. /\ Head(fifo) = fifo[1] /\ 1 \in 1..Len(fifo) /\ Len(fifo) \in Nat
      /\ fifo[1].n \in Nat \ {0}
  <2>1. Head(fifo) = fifo[1] /\ 1 \in 1..Len(fifo) /\ fifo[1] \in FrameWord
        /\ Len(fifo) \in Nat
    BY <1>1
  <2> QED  BY <2>1 DEF FrameWord
<1>3. fifo' = Tail(fifo) /\ left' = fifo[1].n - 1 /\ pc' = "drain" /\ fifo[1].i = 1
  BY <1>1, <1>2 DEF ReadFirst, WordsToDrain, ReceivesInStep
<1> DEFINE n == fifo[1].n
<1>4. /\ 1 + n - 1 <= Len(fifo)
      /\ \A k \in 1..n : fifo[1 + k - 1].i = k /\ fifo[1 + k - 1].n = n
      /\ 1 + n <= Len(fifo) => fifo[1 + n].i = 1
  BY <1>2, <1>3 DEF Whole
<1>5. /\ fifo' \in Seq(FrameWord) /\ Len(fifo') = Len(fifo) - 1
      /\ \A k \in 1..Len(fifo') : fifo'[k] = fifo[k + 1]
      /\ Whole'
  BY <1>1, <1>3, FifoTail
<1>6. left' = n - 1 /\ n \in Nat \ {0}  BY <1>2, <1>3
<1> HIDE DEF n
<1>7. \A k \in 1..left' : fifo'[k].n - fifo'[k].i = left' - k
  <2> SUFFICES ASSUME NEW k \in 1..left' PROVE fifo'[k].n - fifo'[k].i = left' - k
    OBVIOUS
  <2>1. k + 1 \in 1..n /\ k \in 1..Len(fifo') /\ 1 + (k + 1) - 1 = k + 1
    BY <1>2, <1>4, <1>5, <1>6
  <2>2. fifo[k + 1].i = k + 1 /\ fifo[k + 1].n = n  BY <1>4, <2>1
  <2> QED  BY <1>5, <1>6, <2>1, <2>2
<1>8. Len(fifo') > left' => fifo'[left' + 1].i = 1
  <2> SUFFICES ASSUME Len(fifo') > left' PROVE fifo'[left' + 1].i = 1
    OBVIOUS
  <2>1. n \in 1..Len(fifo') /\ left' + 1 = n /\ n + 1 = 1 + n  BY <1>2, <1>5, <1>6
  <2> QED  BY <1>2, <1>4, <1>5, <2>1
<1>9. Len(fifo') >= left' /\ left' \in Nat  BY <1>2, <1>4, <1>5, <1>6
<1> QED  BY <1>3, <1>5, <1>7, <1>8, <1>9 DEF ReceivesInStep

(* And every word drained is one of them.                                  *)
LEMMA FifoNext ==
  ASSUME fifo \in Seq(FrameWord), left \in Nat, ReceivesInStep, Whole, ReadNext
  PROVE  fifo' \in Seq(FrameWord) /\ left' \in Nat /\ ReceivesInStep' /\ Whole'
<1>1. /\ Len(fifo) >= left /\ \A k \in 1..left : fifo[k].n - fifo[k].i = left - k
      /\ Len(fifo) > left => fifo[left + 1].i = 1
      /\ pc = "drain" /\ pc' = "drain" /\ left > 0 /\ left' = left - 1 /\ fifo' = Tail(fifo)
  BY DEF ReadNext, ReceivesInStep
<1>2. fifo # <<>> /\ Len(fifo) \in Nat  BY <1>1
<1>3. /\ fifo' \in Seq(FrameWord) /\ Len(fifo') = Len(fifo) - 1
      /\ \A k \in 1..Len(fifo') : fifo'[k] = fifo[k + 1]
      /\ Whole'
  BY <1>1, <1>2, FifoTail
<1>4. \A k \in 1..left' : fifo'[k].n - fifo'[k].i = left' - k
  <2> SUFFICES ASSUME NEW k \in 1..left' PROVE fifo'[k].n - fifo'[k].i = left' - k
    OBVIOUS
  <2>1. k + 1 \in 1..left /\ k \in 1..Len(fifo')  BY <1>1, <1>2, <1>3
  <2>2. fifo'[k] = fifo[k + 1] /\ fifo[k + 1].n - fifo[k + 1].i = left - (k + 1)
    BY <1>1, <1>3, <2>1
  <2> QED  BY <1>1, <2>1, <2>2
<1>5. Len(fifo') > left' => fifo'[left' + 1].i = 1
  <2> SUFFICES ASSUME Len(fifo') > left' PROVE fifo'[left' + 1].i = 1
    OBVIOUS
  <2>1. left' + 1 = left /\ left \in 1..Len(fifo') /\ Len(fifo) > left
    BY <1>1, <1>2, <1>3
  <2> QED  BY <1>1, <1>3, <2>1
<1> QED  BY <1>1, <1>2, <1>3, <1>4, <1>5 DEF ReceivesInStep

-----------------------------------------------------------------------------
(* The steps of the foreground                                             *)

(* The interface is served only over a configured controller, and main's   *)
(* belief in the listener is right when it matters.                        *)
LEMMA StepUp ==
  ASSUME NInv, NetNext
  PROVE  Up'
<1> USE DEF NInv, Up, ReadyIsConfigured, Polls, Returns, Serving, Belief, Mii, Sent,
            NetTypeOK, Polled, mac, line, driver, locals, call, loop, LoopKeeps, GoTo,
            Silent, Sends, MaySend
<1>1. CASE Controller /\ LoopKeeps
  BY <1>1 DEF Controller, Receive, TransmitError, TransmitEnd, PhyChanges, FaultChanges
<1>2. CASE Initialize \/ \E poll \in BOOLEAN : Service(poll)
  BY <1>2 DEF Initialize, EthernetInitialize, Service
<1>3. CASE Poll
  <2>1. CASE PollApply /\ LoopKeeps
    <3>1. phy.full \in BOOLEAN  BY DEF Phy
    <3> QED  BY <2>1, <3>1 DEF PollApply, ReadyAfterPoll
  <2>2. CASE PollBusy /\ LoopKeeps  BY <2>2 DEF PollBusy
  <2>3. CASE PollTimeout /\ LoopKeeps  BY <2>3 DEF PollTimeout
  <2>4. CASE PollStatus /\ LoopKeeps  BY <2>4 DEF PollStatus
  <2>5. CASE ReadEvents("poll", "poll_ack") /\ LoopKeeps  BY <2>5 DEF ReadEvents
  <2>6. CASE Acknowledge("poll_ack", "poll_busy") /\ LoopKeeps  BY <2>6 DEF Acknowledge
  <2> QED  BY <1>3, <2>1, <2>2, <2>3, <2>4, <2>5, <2>6 DEF Poll
<1>4. CASE LinkDown \/ LinkUp \/ LinkSame
  BY <1>4 DEF LinkDown, LinkUp, LinkSame, AfterPoll
<1>5. CASE ReadEmpty \/ ReadDropped \/ ReadFrame
  <2>1. CASE ReadEmpty  BY <2>1 DEF ReadEmpty
  <2>2. CASE ReadDropped
    BY <2>2 DEF ReadDropped, ReadBad, ResetReceiveFifo, FrameDone, AfterFrame, CountFrame
  <2>3. CASE ReadFrame  BY <2>3 DEF ReadFrame, ReadFirst, ReadNext
  <2> QED  BY <1>5, <2>1, <2>2, <2>3
<1>6. CASE Deliver
  <2>1. connections' => connections \/ listener  BY <1>6 DEF Deliver
  <2>2. /\ pc = "drain"
        /\ UNCHANGED <<ready, mac, line, driver, busy, listener, transport_started>>
        /\ \/ pc' \in {"read", "start"}
           \/ pc' = "output" /\ back' \in {"read", "start"}
    BY <1>6 DEF Deliver, FrameDone, AfterFrame, CountFrame
  <2> QED  BY <2>1, <2>2
<1>7. CASE LinkOutput  BY <1>7 DEF LinkOutput, Refused
<1>8. CASE Transmit
  <2>1. CASE ReadEvents("send", "send_ack") /\ LoopKeeps  BY <2>1 DEF ReadEvents
  <2>2. CASE Acknowledge("send_ack", "write") /\ LoopKeeps  BY <2>2 DEF Acknowledge
  <2>3. CASE WriteWord /\ LoopKeeps  BY <2>3 DEF WriteWord
  <2>4. CASE Request /\ LoopKeeps  BY <2>4 DEF Request
  <2> QED  BY <1>8, <2>1, <2>2, <2>3, <2>4 DEF Transmit
<1>9. CASE Transport
  <2>1. /\ pc = "start" /\ pc' = "timers"
        /\ UNCHANGED <<ready, connections, mac, driver, busy, back>>
    BY <1>9 DEF Transport, Stopped, Started
  <2>2. transport_started' = listener'
    <3>1. CASE ready
      <4>1. transport_started = listener  BY <3>1
      <4>2. /\ listener' = (listener \/ (~transport_started /\ fault # "memory"))
            /\ transport_started' = (transport_started \/ listener')
        BY <1>9, <3>1, Zenon DEF Transport, Stopped, Started
      <4> QED  BY <4>1, <4>2
    <3>2. CASE ~ready
      <4>1. ~listener  BY <3>2
      <4>2. transport_started' = FALSE /\ listener' = listener
        BY <1>9, <3>2 DEF Transport, Stopped, Started
      <4> QED  BY <4>1, <4>2
    <3> QED  BY <3>1, <3>2
  <2>3. listener' => ready
    BY <1>9 DEF Transport, Stopped, Started
  <2> QED  BY <2>1, <2>2, <2>3
<1>10. CASE Timers
  <2>1. connections' => connections  BY <1>10 DEF Timers
  <2> QED  BY <1>10, <2>1 DEF Timers
<1>11. CASE FtpService
  <2>1. connections' => connections  BY <1>11 DEF FtpService
  <2> QED  BY <1>11, <2>1 DEF FtpService
<1> QED
  BY <1>1, <1>2, <1>3, <1>4, <1>5, <1>6, <1>7, <1>8, <1>9, <1>10, <1>11
     DEF NetNext, Program

(* The transmit FIFO holds what was written for one frame.                 *)
LEMMA StepSending ==
  ASSUME NInv, NetNext
  PROVE  Sending'
<1> USE DEF NInv, Sending, Sent, NetTypeOK, Up, Returns, Polls, Mii,
            mac, line, driver, locals, call, loop, LoopKeeps, GoTo, Silent, Sends, MaySend
<1>1. CASE Controller /\ LoopKeeps
  BY <1>1 DEF Controller, Receive, TransmitError, TransmitEnd, PhyChanges, FaultChanges
<1>2. CASE Initialize \/ \E poll \in BOOLEAN : Service(poll)
  BY <1>2 DEF Initialize, EthernetInitialize, Service
<1>3. CASE Poll
  <2>1. CASE PollApply /\ LoopKeeps  BY <2>1 DEF PollApply
  <2>2. CASE PollBusy /\ LoopKeeps  BY <2>2 DEF PollBusy
  <2>3. CASE PollTimeout /\ LoopKeeps  BY <2>3 DEF PollTimeout
  <2>4. CASE PollStatus /\ LoopKeeps  BY <2>4 DEF PollStatus
  <2>5. CASE ReadEvents("poll", "poll_ack") /\ LoopKeeps  BY <2>5 DEF ReadEvents
  <2>6. CASE Acknowledge("poll_ack", "poll_busy") /\ LoopKeeps
    BY <2>6 DEF Acknowledge, AcknowledgeTransmitError
  <2> QED  BY <1>3, <2>1, <2>2, <2>3, <2>4, <2>5, <2>6 DEF Poll
<1>4. CASE LinkDown \/ LinkUp \/ LinkSame
  BY <1>4 DEF LinkDown, LinkUp, LinkSame, AfterPoll, Polled
<1>5. CASE ReadEmpty \/ ReadDropped \/ ReadFrame
  <2>1. CASE ReadEmpty  BY <2>1 DEF ReadEmpty
  <2>2. CASE ReadDropped
    BY <2>2 DEF ReadDropped, ReadBad, ResetReceiveFifo, FrameDone, AfterFrame, CountFrame
  <2>3. CASE ReadFrame  BY <2>3 DEF ReadFrame, ReadFirst, ReadNext
  <2> QED  BY <1>5, <2>1, <2>2, <2>3
<1>6. CASE Deliver  BY <1>6 DEF Deliver, FrameDone, AfterFrame, CountFrame
<1>7. CASE LinkOutput  BY <1>7 DEF LinkOutput, Refused
<1>8. CASE Transmit
  <2>1. CASE ReadEvents("send", "send_ack") /\ LoopKeeps  BY <2>1 DEF ReadEvents
  <2>2. CASE Acknowledge("send_ack", "write") /\ LoopKeeps
    <3>1. txwords' = 0  BY <2>2 DEF Acknowledge, AcknowledgeTransmitError
    <3> QED  BY <2>2, <3>1, WordsAssumption DEF Acknowledge
  <2>3. CASE WriteWord /\ LoopKeeps  BY <2>3 DEF WriteWord
  <2>4. CASE Request /\ LoopKeeps  BY <2>4 DEF Request
  <2> QED  BY <1>8, <2>1, <2>2, <2>3, <2>4 DEF Transmit
<1>9. CASE Transport \/ Timers \/ FtpService
  <2>1. CASE Transport  BY <2>1 DEF Transport, Stopped, Started
  <2>2. CASE Timers  BY <2>2 DEF Timers
  <2>3. CASE FtpService  BY <2>3 DEF FtpService
  <2> QED  BY <1>9, <2>1, <2>2, <2>3
<1> QED
  BY <1>1, <1>2, <1>3, <1>4, <1>5, <1>6, <1>7, <1>8, <1>9 DEF NetNext, Program

(* The words of the receive FIFO stay whole frames, and the driver stays   *)
(* where a frame begins or ends.                                           *)
LEMMA StepFifo ==
  ASSUME NInv, NetNext
  PROVE  fifo' \in Seq(FrameWord) /\ left' \in Nat /\ ReceivesInStep' /\ Whole'
<1> DEFINE Goal == fifo' \in Seq(FrameWord) /\ left' \in Nat /\ ReceivesInStep' /\ Whole'
           Kept == /\ UNCHANGED fifo /\ left' \in Nat
                   /\ pc = "drain" => left' = left /\ (pc' = "drain" \/ left = 0)
                   /\ pc' = "drain" => pc = "drain"
<1> SUFFICES Goal
  OBVIOUS
<1>0. ReceivesInStep /\ Whole /\ fifo \in Seq(FrameWord) /\ left \in Nat
  BY DEF NInv, NetTypeOK
<1>1. CASE Kept
  BY <1>0, <1>1, FifoKept
<1> HIDE DEF Goal
<1>2. CASE \E kind \in {"good", "odd", "bad"}, n \in 2..MaxWords : Receive(kind, n)
  <2>1. left' = left  BY <1>2 DEF Receive, call, locals
  <2> QED  BY <1>0, <1>2, <2>1, FifoReceive DEF Goal
<1>3. CASE Initialize
  <2>1. fifo' = <<>> /\ pc' # "drain" /\ left' = left
    BY <1>3 DEF Initialize, EthernetInitialize, locals
  <2>2. fifo' \in Seq(FrameWord)  BY <2>1
  <2> QED  BY <1>0, <2>1, <2>2, FifoEmpty DEF Goal
<1>4. CASE ReadBad(AfterFrame)
  <2>1. fifo' = <<>> /\ pc' # "drain" /\ left' = left
    BY <1>4 DEF ReadBad, ResetReceiveFifo, AfterFrame, locals
  <2>2. fifo' \in Seq(FrameWord)  BY <2>1
  <2> QED  BY <1>0, <2>1, <2>2, FifoEmpty DEF Goal
<1>5. CASE ReadFirst(ready)  BY <1>0, <1>5, FifoFirst DEF Goal
<1>6. CASE ReadNext  BY <1>0, <1>6, FifoNext DEF Goal
<1> USE DEF mac, line, driver, locals, call, loop, LoopKeeps, GoTo, Silent, Sends, MaySend
<1>7. CASE TransmitError \/ TransmitEnd \/ PhyChanges \/ FaultChanges
  <2>1. Kept  BY <1>0, <1>7 DEF TransmitError, TransmitEnd, PhyChanges, FaultChanges
  <2> QED  BY <1>1, <2>1
<1>8. CASE \E poll \in BOOLEAN : Service(poll)
  <2>1. Kept  BY <1>0, <1>8 DEF Service
  <2> QED  BY <1>1, <2>1
<1>9. CASE Poll
  <2>1. Kept
    BY <1>0, <1>9 DEF Poll, ReadEvents, Acknowledge, PollBusy, PollTimeout, PollStatus,
                      PollApply
  <2> QED  BY <1>1, <2>1
<1>10. CASE LinkDown \/ LinkUp \/ LinkSame
  <2>1. Kept
    BY <1>0, <1>10 DEF LinkDown, LinkUp, LinkSame, AfterPoll, Polled
  <2> QED  BY <1>1, <2>1
<1>11. CASE ReadEmpty \/ (FrameDone /\ ~accept /\ GoTo(AfterFrame))
  <2>1. Kept  BY <1>0, <1>11 DEF ReadEmpty, FrameDone, AfterFrame
  <2> QED  BY <1>1, <2>1
<1>12. CASE Deliver
  <2>1. Kept  BY <1>0, <1>12 DEF Deliver, FrameDone, AfterFrame
  <2> QED  BY <1>1, <2>1
<1>13. CASE LinkOutput
  <2>1. back # "drain"  BY <1>13 DEF LinkOutput, NInv, Up, Returns
  <2>2. TxWords \in Nat  BY WordsAssumption
  <2>3. Kept  BY <1>0, <1>13, <2>1, <2>2 DEF LinkOutput
  <2> QED  BY <1>1, <2>3
<1>14. CASE Transmit
  <2>1. CASE ReadEvents("send", "send_ack") \/ Acknowledge("send_ack", "write")
    <3>1. Kept  BY <1>0, <2>1 DEF ReadEvents, Acknowledge
    <3> QED  BY <1>1, <3>1
  <2>2. CASE WriteWord
    <3>1. left > 0  BY <2>2 DEF WriteWord, NInv, Sending
    <3>2. Kept  BY <1>0, <2>2, <3>1 DEF WriteWord
    <3> QED  BY <1>1, <3>2
  <2>3. CASE Request
    <3>1. back # "drain"  BY <2>3 DEF Request, NInv, Up, Returns, Sent
    <3>2. Kept  BY <1>0, <2>3, <3>1 DEF Request
    <3> QED  BY <1>1, <3>2
  <2> QED  BY <1>14, <2>1, <2>2, <2>3 DEF Transmit
<1>15. CASE Transport \/ Timers \/ FtpService
  <2>1. CASE Transport
    <3>1. Kept  BY <1>0, <2>1 DEF Transport, Stopped, Started
    <3> QED  BY <1>1, <3>1
  <2>2. CASE Timers
    <3>1. Kept  BY <1>0, <2>2 DEF Timers
    <3> QED  BY <1>1, <3>1
  <2>3. CASE FtpService
    <3>1. Kept  BY <1>0, <2>3 DEF FtpService
    <3> QED  BY <1>1, <3>1
  <2> QED  BY <1>15, <2>1, <2>2, <2>3
<1> HIDE DEF Kept
<1> QED
  BY <1>2, <1>3, <1>4, <1>5, <1>6, <1>7, <1>8, <1>9, <1>10, <1>11, <1>12, <1>13, <1>14,
     <1>15 DEF NetNext, Controller, Program, ReadDropped, ReadFrame, Goal

(* Types.                                                                  *)
LEMMA StepType ==
  ASSUME NInv, NetNext
  PROVE  NetTypeOK'
<1>1. NetTypeOK  BY DEF NInv
<1> USE DEF mac, line, driver, locals, call, loop, LoopKeeps, GoTo, Silent, Sends, MaySend
<1>2. txwords' \in Nat
  <2>1. CASE Controller
    BY <1>1, <2>1 DEF NetTypeOK, Controller, Receive, TransmitError, TransmitEnd,
                      PhyChanges, FaultChanges
  <2>2. CASE Initialize \/ Poll
    BY <1>1, <2>2 DEF NetTypeOK, Initialize, EthernetInitialize, Poll, ReadEvents, Acknowledge,
                      AcknowledgeTransmitError, PollBusy, PollTimeout, PollStatus, PollApply
  <2>3. CASE Transmit
    BY <1>1, <2>3 DEF NetTypeOK, Transmit, ReadEvents, Acknowledge, AcknowledgeTransmitError,
                      WriteWord, Request
  <2>4. CASE ~(Controller \/ Initialize \/ Poll \/ Transmit)
    <3>1. UNCHANGED txwords
      BY <2>4 DEF NetNext, Program, Service, LinkDown, LinkUp, LinkSame, ReadEmpty,
                  ReadDropped, ReadBad, ReadFrame, ReadFirst, ReadNext, Deliver,
                  LinkOutput, Transport, Timers, FtpService
    <3> QED  BY <1>1, <3>1 DEF NetTypeOK
  <2> QED  BY <2>1, <2>2, <2>3, <2>4
<1>3. CASE Controller /\ LoopKeeps
  <2>1. CASE PhyChanges
    <3>1. negotiated' \in BOOLEAN /\ phy' \in Phy
      BY <1>1, <2>1 DEF NetTypeOK, PhyChanges, Phy
    <3> QED  BY <1>1, <1>2, <1>3, <2>1, <3>1, StepFifo DEF NetTypeOK, PhyChanges
  <2>2. CASE \E kind \in {"good", "odd", "bad"}, n \in 2..MaxWords : Receive(kind, n)
    BY <1>1, <1>2, <1>3, <2>2, StepFifo DEF NetTypeOK, Receive
  <2>3. CASE TransmitError  BY <1>1, <1>2, <1>3, <2>3 DEF NetTypeOK, TransmitError
  <2>4. CASE TransmitEnd
    <3>1. newtx' \in BOOLEAN /\ UNCHANGED <<fifo, rxen, txen, fdx, txer, line, driver, call>>
      BY <2>4 DEF TransmitEnd
    <3>2. UNCHANGED <<loop, phy, mac_ready, full, seen, busy, negotiated, left, accept>>
      BY <1>3, <3>1
    <3> QED  BY <1>1, <1>2, <3>1, <3>2 DEF NetTypeOK
  <2>5. CASE FaultChanges  BY <1>1, <1>2, <1>3, <2>5 DEF NetTypeOK, FaultChanges
  <2> QED  BY <1>3, <2>1, <2>2, <2>3, <2>4, <2>5 DEF Controller
<1>4. CASE Initialize
  BY <1>1, <1>2, <1>4, StepFifo DEF NetTypeOK, Initialize, EthernetInitialize
<1>5. CASE \E poll \in BOOLEAN : Service(poll)
  BY <1>1, <1>5 DEF NetTypeOK, Service
<1>6. CASE Poll
  <2>1. CASE ReadEvents("poll", "poll_ack") /\ LoopKeeps
    BY <1>1, <2>1 DEF NetTypeOK, ReadEvents
  <2>2. CASE Acknowledge("poll_ack", "poll_busy") /\ LoopKeeps
    <3>1. txer' \in BOOLEAN
      BY <1>1, <2>2 DEF NetTypeOK, Acknowledge, AcknowledgeTransmitError
    <3>2. /\ seen' \in BOOLEAN
          /\ UNCHANGED <<fifo, rxen, txen, fdx, newtx, phy, mac_ready, full, busy, negotiated,
                         left, accept, ready, transport_started, listener, connections>>
      BY <2>2 DEF Acknowledge
    <3> QED  BY <1>1, <1>2, <3>1, <3>2 DEF NetTypeOK
  <2>3. CASE PollBusy /\ LoopKeeps
    BY <1>1, <2>3 DEF NetTypeOK, PollBusy
  <2>4. CASE PollTimeout /\ LoopKeeps
    BY <1>1, <2>4 DEF NetTypeOK, PollTimeout
  <2>5. CASE PollStatus /\ LoopKeeps
    <3>1. negotiated' \in BOOLEAN
      BY <1>1, <2>5 DEF NetTypeOK, PollStatus, Phy
    <3> QED  BY <1>1, <2>5, <3>1 DEF NetTypeOK, PollStatus
  <2>6. CASE PollApply /\ LoopKeeps
    <3>1. phy.full \in BOOLEAN /\ ReadyAfterPoll \in BOOLEAN
      <4>1. phy.full \in BOOLEAN  BY <1>1 DEF NetTypeOK, Phy
      <4> QED  BY <4>1 DEF ReadyAfterPoll
    <3>2. /\ mac_ready' \in BOOLEAN /\ full' \in BOOLEAN /\ rxen' \in BOOLEAN
          /\ fdx' \in BOOLEAN /\ txen' \in BOOLEAN
      BY <1>1, <2>6, <3>1 DEF NetTypeOK, PollApply
    <3> QED  BY <1>1, <2>6, <3>2 DEF NetTypeOK, PollApply
  <2> QED  BY <1>6, <2>1, <2>2, <2>3, <2>4, <2>5, <2>6 DEF Poll
<1>7. CASE LinkDown \/ LinkUp \/ LinkSame
  <2>1. CASE LinkDown  BY <1>1, <2>1 DEF NetTypeOK, LinkDown
  <2>2. CASE LinkUp  BY <1>1, <2>2 DEF NetTypeOK, LinkUp
  <2>3. CASE LinkSame  BY <1>1, <2>3 DEF NetTypeOK, LinkSame
  <2> QED  BY <1>7, <2>1, <2>2, <2>3
<1>8. CASE ReadEmpty \/ ReadDropped
  <2>1. rxen' \in BOOLEAN
    BY <1>1, <1>8 DEF NetTypeOK, ReadEmpty, ReadDropped, ReadBad, ResetReceiveFifo
  <2> QED
    BY <1>1, <1>2, <1>8, <2>1, StepFifo
       DEF NetTypeOK, ReadEmpty, ReadDropped, ReadBad, CountFrame
<1>9. CASE ReadFrame
  <2>1. accept' \in BOOLEAN
    BY <1>1, <1>9 DEF NetTypeOK, ReadFrame, ReadFirst, ReadNext
  <2> QED
    BY <1>1, <1>2, <1>9, <2>1, StepFifo DEF NetTypeOK, ReadFrame, ReadFirst, ReadNext
<1>10. CASE Deliver
  <2>1. connections' \in BOOLEAN
    BY <1>1, <1>10 DEF NetTypeOK, Deliver
  <2>2. /\ accept' \in BOOLEAN
        /\ UNCHANGED <<mac, line, driver, seen, busy, negotiated, left, listener, ready,
                       transport_started>>
    BY <1>10 DEF Deliver, CountFrame
  <2> QED  BY <1>1, <2>1, <2>2 DEF NetTypeOK
<1>11. CASE LinkOutput
  BY <1>1, <1>11, StepFifo DEF NetTypeOK, LinkOutput
<1>12. CASE Transmit
  <2>1. CASE ReadEvents("send", "send_ack") /\ LoopKeeps
    BY <1>1, <2>1 DEF NetTypeOK, ReadEvents
  <2>2. CASE Acknowledge("send_ack", "write") /\ LoopKeeps
    <3>1. txer' \in BOOLEAN
      BY <1>1, <2>2 DEF NetTypeOK, Acknowledge, AcknowledgeTransmitError
    <3>2. /\ seen' \in BOOLEAN
          /\ UNCHANGED <<fifo, rxen, txen, fdx, newtx, phy, mac_ready, full, busy, negotiated,
                         left, accept, ready, transport_started, listener, connections>>
      BY <2>2 DEF Acknowledge
    <3> QED  BY <1>1, <1>2, <3>1, <3>2 DEF NetTypeOK
  <2>3. CASE WriteWord /\ LoopKeeps
    BY <1>1, <1>2, <2>3, StepFifo DEF NetTypeOK, WriteWord
  <2>4. CASE Request /\ LoopKeeps
    BY <1>1, <2>4 DEF NetTypeOK, Request
  <2> QED  BY <1>12, <2>1, <2>2, <2>3, <2>4 DEF Transmit
<1>13. CASE Transport
  <2>1. listener' \in BOOLEAN /\ transport_started' \in BOOLEAN
    BY <1>1, <1>13 DEF NetTypeOK, Transport, Stopped, Started
  <2> QED  BY <1>1, <1>13, <2>1 DEF NetTypeOK, Transport
<1>14. CASE Timers \/ FtpService
  <2>1. connections' \in BOOLEAN
    BY <1>1, <1>14 DEF NetTypeOK, Timers, FtpService
  <2>2. UNCHANGED <<mac, line, driver, locals, ready, transport_started, listener>>
    BY <1>14 DEF Timers, FtpService
  <2> QED  BY <1>1, <2>1, <2>2 DEF NetTypeOK
<1> QED
  BY <1>3, <1>4, <1>5, <1>6, <1>7, <1>8, <1>9, <1>10, <1>11, <1>12, <1>13, <1>14
     DEF NetNext, Program

(* The invariant of the interface.                                         *)
LEMMA NetInvariant == NetSpec => []NInv
<1>1. NInv /\ [NetNext]_netVars => NInv'
  <2> SUFFICES ASSUME NInv, [NetNext]_netVars PROVE NInv'
    OBVIOUS
  <2>1. CASE NetNext
    BY <2>1, StepType, StepUp, StepFifo, StepSending DEF NInv
  <2>2. CASE UNCHANGED netVars
    <3>1. NetTypeOK'
      BY <2>2 DEF NInv, NetTypeOK, netVars, ethernet, mac, line, driver, call, locals, loop
    <3>2. Up' /\ Sending'
      BY <2>2 DEF NInv, Up, ReadyIsConfigured, Polls, Returns, Serving, Belief, Polled, Sending,
                  netVars, ethernet, mac, line, driver, call, locals, loop
    <3>3. ReceivesInStep' /\ Whole'
      BY <2>2, FifoKept DEF NInv, NetTypeOK, netVars, ethernet, mac, line, driver, call, locals
    <3> QED  BY <3>1, <3>2, <3>3 DEF NInv
  <2> QED  BY <2>1, <2>2
<1> QED  BY <1>1, InitNet, PTL DEF NetSpec

(* Nothing is served over a link that is gone: lm3s_netif.c keeps the      *)
(* interface up only while the driver is ready, a teardown leaves no       *)
(* listener and no connection behind, and main believes in the listener    *)
(* exactly while it is there whenever it acts on the belief.               *)
THEOREM ServesTheorem == NetSpec => []ServesOnlyWhenReady
<1>1. NInv => ServesOnlyWhenReady
  BY DEF NInv, NetTypeOK, Up, Serving, Belief, Sent, ServesOnlyWhenReady
<1> QED  BY <1>1, NetInvariant, PTL

(* Nobody touches a transmission under way.                                *)
LEMMA StepTransmit ==
  ASSUME NInv, NetNext, NInv'
  PROVE  TransmitStep
<1> SUFFICES ASSUME newtx'
             PROVE  txwords' = TxWords /\ txen' /\ (newtx => UNCHANGED <<txwords, fdx, txen>>)
  BY DEF TransmitStep
<1>1. txwords' = TxWords /\ txen'
  BY DEF NInv, Sending, Up, Polls
<1>2. ASSUME newtx PROVE UNCHANGED <<txwords, fdx, txen>>
  <2>1. pc \notin Sent /\ (pc = "mii3" => busy)
    BY <1>2 DEF NInv, Sending, Up, Polls, Mii
  <2>2. CASE Controller
    BY <1>2, <2>2 DEF Controller, Receive, TransmitError, TransmitEnd, PhyChanges, FaultChanges, mac
  <2>3. CASE Initialize
    BY <2>3 DEF Initialize, EthernetInitialize
  <2>4. CASE Poll
    BY <1>2, <2>1, <2>4 DEF Poll, ReadEvents, Acknowledge, AcknowledgeTransmitError, PollBusy,
                            PollTimeout, PollStatus, PollApply, mac
  <2>5. CASE Transmit
    BY <2>1, <2>5 DEF Transmit, ReadEvents, Acknowledge, WriteWord, Request, Sent
  <2>6. CASE ~(Controller \/ Initialize \/ Poll \/ Transmit)
    BY <2>6 DEF NetNext, Program, Service, LinkDown, LinkUp, LinkSame, ReadEmpty,
                ReadDropped, ReadBad, ReadFrame, ReadFirst, ReadNext, Deliver,
                LinkOutput, Transport, Timers, FtpService, GoTo, MaySend, mac
  <2> QED  BY <2>2, <2>3, <2>4, <2>5, <2>6
<1> QED  BY <1>1, <1>2

(* Frames stay whole in both directions, for any FIFO and any length of a  *)
(* frame: ethernet.c drains exactly the frame whose length it read, and    *)
(* what the MAC sends is what one call wrote.                              *)
THEOREM FramesTheorem == NetSpec => FramesIntact
<1>1. NInv /\ NInv' /\ [NetNext]_netVars => [ReceivesInStep' /\ TransmitStep]_ethernet
  <2> SUFFICES ASSUME NInv, NInv', NetNext PROVE ReceivesInStep' /\ TransmitStep
    BY DEF netVars
  <2> QED  BY StepTransmit DEF NInv
<1> QED  BY <1>1, NetInvariant, PTL DEF NetSpec, FramesIntact
=============================================================================
