-------------------------- MODULE BootWatchdogProofs --------------------------
(***************************************************************************)
(* The watchdog controller, for any caller and any last epoch,             *)
(* verification and payload: evidence is never used twice, never outlives  *)
(* its owner, and a quarantine is for good.  Then the boot of              *)
(* ProtectedBoot, shown to be such a caller: it feeds the watchdog only    *)
(* for work, and enters the application only under its protection.         *)
(***************************************************************************)
EXTENDS ProtectedBoot, FiniteSetTheorems, TLAPS

(* A milestone lies in the past of the verification stream, so the next    *)
(* one that is accepted is a new one.                                      *)
StreamInv ==
  /\ phase # 0 => verification \in 1..MaxVerification
  /\ \A m \in milestones :
       \/ m[1] < verification
       \/ m[1] = verification /\ phase = 2 /\ m[2] <= completed

(* What the evidence stands for: a milestone not used yet, or reports of   *)
(* the application itself.                                                 *)
Pending == IF owner = "BOOT" /\ evidence # {} THEN 1 ELSE 0

EvidenceInv ==
  /\ owner = "BOOT" => evidence \subseteq {Milestone}
  /\ owner = "APPLICATION" => evidence \subseteq reported

MilestoneInv == feeds["BOOT"] + Pending <= Cardinality(milestones)

WInv ==
  /\ WatchdogTypeOK
  /\ StreamInv
  /\ EvidenceInv
  /\ MilestoneInv
  /\ EpochNamesOneFeed

(* The initial state of the controller satisfies the invariant, whether or *)
(* not a debugger left the watchdog running.                               *)
LEMMA InitWatchdog == WatchdogInit => WInv
<1> SUFFICES ASSUME WatchdogInit PROVE WInv
  OBVIOUS
<1>1. WatchdogTypeOK
  <2>1. IsFiniteSet(milestones)  BY FS_EmptySet DEF WatchdogInit
  <2>2. feeds \in [Owner -> Nat]  BY DEF WatchdogInit
  <2>3. /\ configured \in BOOLEAN /\ blocked \in BOOLEAN
        /\ enabled \in BOOLEAN /\ unlocked \in BOOLEAN
    BY DEF WatchdogInit
  <2>4. /\ owner \in Owner /\ evidence \in SUBSET Bit /\ reported \in SUBSET Bit
        /\ milestones \in SUBSET ((1..MaxVerification) \X (0..MaxTotal))
    BY DEF WatchdogInit, Owner
  <2>5. /\ epoch \in 1..MaxEpoch /\ verification \in 0..MaxVerification
        /\ total \in 0..MaxTotal /\ completed \in 0..MaxTotal /\ completed <= total
        /\ phase \in 0..2 /\ timer \in 0..Budget
    BY EpochAssumption, VerificationAssumption, TotalAssumption, BudgetAssumption
       DEF WatchdogInit
  <2> QED BY <2>1, <2>2, <2>3, <2>4, <2>5 DEF WatchdogTypeOK
<1>2. StreamInv  BY DEF WatchdogInit, StreamInv
<1>3. EvidenceInv  BY DEF WatchdogInit, EvidenceInv
<1>4. MilestoneInv
  BY FS_EmptySet DEF WatchdogInit, MilestoneInv, Pending, Owner
<1>5. EpochNamesOneFeed  BY DEF WatchdogInit, EpochNamesOneFeed, Owner
<1> QED BY <1>1, <1>2, <1>3, <1>4, <1>5 DEF WInv

(* A call that is refused changes nothing.                                 *)
LEMMA RefusalKeeps == ASSUME WInv, UNCHANGED wvars PROVE WInv'
BY DEF WInv, WatchdogTypeOK, StreamInv, EvidenceInv, MilestoneInv, Pending,
       EpochNamesOneFeed, wvars, control, stream, hardware, past

(* A quarantine drops the evidence; whatever the hardware does, and with   *)
(* or without the restart that went before it, the counts stay honest.     *)
LEMMA QuarantineKeeps ==
  ASSUME WInv, Quarantine, enabled' \in BOOLEAN, unlocked' \in BOOLEAN, timer' \in 0..Budget,
         milestones' = milestones, reported' \in SUBSET Bit, feeds' \in [Owner -> Nat],
         feeds'["BOOT"] <= feeds["BOOT"] + Pending
  PROVE  WInv'
<1>1. WatchdogTypeOK'
  BY DEF WInv, WatchdogTypeOK, Quarantine, stream
<1>2. StreamInv'  BY DEF WInv, StreamInv, Quarantine, stream
<1>3. EvidenceInv'  BY DEF Quarantine, EvidenceInv
<1>4. MilestoneInv'
  <2>1. Pending' = 0  BY DEF Quarantine, Pending
  <2>2. Cardinality(milestones) \in Nat
    BY FS_CardinalityType DEF WInv, WatchdogTypeOK
  <2>3. feeds["BOOT"] + Pending <= Cardinality(milestones) /\ feeds["BOOT"] \in Nat
        /\ Pending \in Nat /\ feeds'["BOOT"] \in Nat
    BY DEF WInv, MilestoneInv, WatchdogTypeOK, Owner, Pending
  <2> QED BY <2>1, <2>2, <2>3 DEF MilestoneInv
<1>5. EpochNamesOneFeed'  BY DEF Quarantine, EpochNamesOneFeed
<1> QED BY <1>1, <1>2, <1>3, <1>4, <1>5 DEF WInv

(* A quarantine that does not restart the watchdog.                        *)
LEMMA AbandonKeeps ==
  ASSUME WInv, Quarantine, enabled' \in BOOLEAN, unlocked' \in BOOLEAN, timer' = timer,
         UNCHANGED past
  PROVE  WInv'
<1>1. /\ timer' \in 0..Budget /\ reported' \in SUBSET Bit /\ feeds' \in [Owner -> Nat]
      /\ milestones' = milestones /\ feeds'["BOOT"] = feeds["BOOT"]
      /\ feeds["BOOT"] \in Nat /\ Pending \in Nat
  BY DEF WInv, WatchdogTypeOK, past, Owner, Pending
<1>2. feeds'["BOOT"] <= feeds["BOOT"] + Pending  BY <1>1
<1> QED BY <1>1, <1>2, QuarantineKeeps

(* The flags of the controller and of the hardware are Booleans.           *)
LEMMA BooleanType ==
  ASSUME WInv
  PROVE  /\ configured \in BOOLEAN /\ blocked \in BOOLEAN
         /\ enabled \in BOOLEAN /\ unlocked \in BOOLEAN
BY DEF WInv, WatchdogTypeOK

(* boot_watchdog_configure, with every way it can fail.                    *)
LEMMA ConfigureKeeps ==
  ASSUME WInv, NEW result, Configure(result)
  PROVE  WInv'
<1>1. CASE UNCHANGED wvars  BY <1>1, RefusalKeeps
<1>2. CASE /\ ~blocked /\ ~configured /\ enabled /\ Quarantine /\ UNCHANGED <<hardware, past>>
  BY <1>2, AbandonKeeps, BooleanType DEF hardware
<1>3. CASE /\ ~blocked /\ ~configured /\ ~enabled
           /\ configured' = TRUE
           /\ enabled' = TRUE /\ unlocked' = FALSE /\ timer' = 0
           /\ UNCHANGED <<blocked, owner, epoch, evidence, stream, past>>
  <2>0. /\ configured' \in BOOLEAN /\ blocked' \in BOOLEAN
        /\ enabled' \in BOOLEAN /\ unlocked' \in BOOLEAN
    BY <1>3, BooleanType
  <2>1. WatchdogTypeOK'
    BY <1>3, <2>0, BudgetAssumption DEF WInv, WatchdogTypeOK, stream, past
  <2> QED BY <1>3, <2>1 DEF WInv, StreamInv, EvidenceInv, MilestoneInv, Pending,
                            EpochNamesOneFeed, stream, past
<1>4. CASE /\ ~blocked /\ ~configured /\ ~enabled /\ Quarantine
           /\ enabled' \in BOOLEAN /\ unlocked' \in BOOLEAN /\ UNCHANGED <<timer, past>>
  BY <1>4, AbandonKeeps
<1> QED BY <1>1, <1>2, <1>3, <1>4 DEF Configure

(* A service that gets to the registers.                                   *)
LEMMA RestartKeeps ==
  ASSUME WInv, NEW o \in Owner, o = owner, evidence = Required(o), epoch < MaxEpoch,
         ~blocked, NEW result, Restart(o, result)
  PROVE  WInv'
<1>1. /\ feeds \in [Owner -> Nat] /\ "BOOT" \in Owner /\ "APPLICATION" \in Owner
      /\ epoch \in 1..MaxEpoch /\ timer \in 0..Budget /\ 0 \in 0..Budget
      /\ reported \in SUBSET Bit /\ {} \in SUBSET Bit
  BY BudgetAssumption DEF WInv, WatchdogTypeOK, Owner
<1>2. feeds["BOOT"] \in Nat /\ feeds["APPLICATION"] \in Nat
  BY <1>1
<1>3. evidence # {}  BY DEF Required, Milestone, APP_REQUIRED, Bit
<1> DEFINE fed == [feeds EXCEPT ![o] = @ + 1]
<1>4. /\ fed \in [Owner -> Nat]
      /\ fed["BOOT"] <= feeds["BOOT"] + Pending
      /\ fed["BOOT"] + fed["APPLICATION"] = feeds["BOOT"] + feeds["APPLICATION"] + 1
  <2>1. CASE o = "BOOT"
    <3>1. Pending = 1  BY <1>3, <2>1 DEF Pending
    <3> QED BY <1>1, <1>2, <2>1, <3>1
  <2>2. CASE o = "APPLICATION"
    <3>1. Pending = 0  BY <2>2 DEF Pending
    <3> QED BY <1>1, <1>2, <2>2, <3>1
  <2> QED BY <2>1, <2>2 DEF Owner
<1>5. CASE /\ enabled
           /\ evidence' = {} /\ epoch' = epoch + 1
           /\ timer' = 0 /\ unlocked' = FALSE
           /\ feeds' = fed /\ reported' = {}
           /\ UNCHANGED <<configured, blocked, owner, stream, enabled, milestones>>
  <2> HIDE DEF fed
  <2>1. epoch' \in 1..MaxEpoch  BY <1>1, <1>5, EpochAssumption
  <2>2. WatchdogTypeOK'
    BY <1>1, <1>4, <1>5, <2>1 DEF WInv, WatchdogTypeOK, stream
  <2>3. StreamInv' /\ EvidenceInv'
    BY <1>5 DEF WInv, StreamInv, EvidenceInv, stream
  <2>4. MilestoneInv'
    <3>1. Pending' = 0  BY <1>5 DEF Pending
    <3>2. Cardinality(milestones) \in Nat
      BY FS_CardinalityType DEF WInv, WatchdogTypeOK
    <3>3. feeds["BOOT"] + Pending <= Cardinality(milestones) /\ Pending \in Nat
      BY DEF WInv, MilestoneInv, Pending
    <3>4. fed["BOOT"] \in Nat  BY <1>1, <1>4
    <3> QED BY <1>2, <1>4, <1>5, <3>1, <3>2, <3>3, <3>4 DEF MilestoneInv
  <2>5. EpochNamesOneFeed'
    <3>1. fed["BOOT"] \in Nat /\ fed["APPLICATION"] \in Nat  BY <1>1, <1>4
    <3> QED BY <1>1, <1>2, <1>4, <1>5, <3>1 DEF WInv, EpochNamesOneFeed
  <2> QED BY <2>2, <2>3, <2>4, <2>5 DEF WInv
<1>6. CASE Quarantine /\ unlocked' \in BOOLEAN /\ UNCHANGED <<enabled, timer, past>>
  BY <1>6, AbandonKeeps, BooleanType
<1>7. CASE /\ Quarantine /\ unlocked' \in BOOLEAN /\ timer' = 0
           /\ feeds' = fed /\ reported' = {}
           /\ UNCHANGED <<enabled, milestones>>
  <2> HIDE DEF fed
  <2> QED BY <1>1, <1>4, <1>7, QuarantineKeeps, BooleanType
<1> QED BY <1>5, <1>6, <1>7 DEF Restart

(* What the guard common to all calls lets through.                        *)
LEMMA ReadyMeans ==
  ASSUME NEW o, NEW e, ReadyResult(o, e) = "OK"
  PROVE  ~blocked /\ o = owner /\ e = epoch
BY DEF ReadyResult

(* boot_watchdog_service_held.                                             *)
LEMMA ServiceKeeps ==
  ASSUME WInv, NEW o \in Owner, NEW e, NEW result, Service(o, e, result)
  PROVE  WInv'
<1>1. CASE UNCHANGED wvars  BY <1>1, RefusalKeeps
<1>2. CASE Quarantine /\ UNCHANGED <<hardware, past>>
  BY <1>2, AbandonKeeps, BooleanType DEF hardware
<1>3. CASE /\ ReadyResult(o, e) = "OK" /\ evidence = Required(o) /\ epoch < MaxEpoch
           /\ Restart(o, result)
  BY <1>3, ReadyMeans, RestartKeeps
<1> QED BY <1>1, <1>2, <1>3 DEF Service

(* boot_watchdog_transfer_held: no evidence goes along.                    *)
LEMMA TransferKeeps ==
  ASSUME WInv, NEW e, NEW result, Transfer(e, result)
  PROVE  WInv'
<1>1. CASE UNCHANGED wvars  BY <1>1, RefusalKeeps
<1>2. CASE Quarantine /\ UNCHANGED <<hardware, past>>
  BY <1>2, AbandonKeeps, BooleanType DEF hardware
<1>3. CASE /\ ReadyResult("BOOT", e) = "OK" /\ epoch < MaxEpoch
           /\ owner' = "APPLICATION" /\ evidence' = {} /\ epoch' = epoch + 1
           /\ UNCHANGED <<configured, blocked, stream, hardware, past>>
  <2>1. ~blocked /\ owner = "BOOT"  BY <1>3, ReadyMeans
  <2>2. epoch' \in 1..MaxEpoch
    BY <1>3, EpochAssumption DEF WInv, WatchdogTypeOK
  <2>3. WatchdogTypeOK'
    BY <1>3, <2>2 DEF WInv, WatchdogTypeOK, Owner, stream, hardware, past
  <2>4. StreamInv' /\ EvidenceInv'
    BY <1>3 DEF WInv, StreamInv, EvidenceInv, stream, past
  <2>5. feeds["BOOT"] \in Nat /\ feeds["APPLICATION"] \in Nat /\ epoch \in Nat
    BY EpochAssumption DEF WInv, WatchdogTypeOK, Owner
  <2>6. MilestoneInv'
    <3>1. Pending' = 0 /\ Pending \in Nat  BY <1>3 DEF Pending
    <3>2. Cardinality(milestones) \in Nat
      BY FS_CardinalityType DEF WInv, WatchdogTypeOK
    <3> QED BY <1>3, <2>5, <3>1, <3>2 DEF WInv, MilestoneInv, past
  <2>7. EpochNamesOneFeed'
    BY <1>3, <2>1, <2>5 DEF WInv, EpochNamesOneFeed, past
  <2> QED BY <2>3, <2>4, <2>6, <2>7 DEF WInv
<1> QED BY <1>1, <1>2, <1>3 DEF Transfer

(* A new verification: all milestones so far are older.                    *)
LEMMA ReportBeginKeeps ==
  ASSUME WInv, NEW e, NEW v \in 0..MaxVerification, NEW c, NEW t, NEW result,
         ReportBegin(e, v, c, t, result)
  PROVE  WInv'
<1>1. CASE UNCHANGED wvars  BY <1>1, RefusalKeeps
<1>2. CASE /\ ReadyResult("BOOT", e) = "OK" /\ BeginAccepted(v, c, t)
           /\ verification' = v /\ total' = t /\ completed' = 0 /\ evidence' = {} /\ phase' = 1
           /\ UNCHANGED <<configured, blocked, owner, epoch, hardware, past>>
  <2>1. /\ v > verification /\ t \in 1..MaxTotal /\ verification \in 0..MaxVerification
        /\ milestones \in SUBSET ((1..MaxVerification) \X (0..MaxTotal))
    BY <1>2 DEF BeginAccepted, WInv, WatchdogTypeOK
  <2>2. v \in 1..MaxVerification  BY <2>1, VerificationAssumption
  <2>3. WatchdogTypeOK'
    <3>1. /\ total' \in 0..MaxTotal /\ completed' \in 0..MaxTotal /\ completed' <= total'
          /\ phase' \in 0..2
      BY <1>2, <2>1, TotalAssumption
    <3> QED BY <1>2, <3>1 DEF WInv, WatchdogTypeOK, hardware, past
  <2>4. StreamInv'
    <3>1. ASSUME NEW m \in milestones PROVE m[1] < v
      <4>1. m[1] \in 1..MaxVerification  BY <2>1
      <4>2. m[1] <= verification  BY <2>1, <4>1, VerificationAssumption DEF WInv, StreamInv
      <4> QED BY <2>1, <4>1, <4>2, VerificationAssumption
    <3> QED BY <1>2, <2>2, <3>1 DEF StreamInv, past
  <2>5. EvidenceInv'  BY <1>2 DEF EvidenceInv
  <2>6. MilestoneInv'
    <3>1. Pending' = 0 /\ Pending \in Nat  BY <1>2 DEF Pending
    <3>2. Cardinality(milestones) \in Nat /\ feeds["BOOT"] \in Nat
      BY FS_CardinalityType DEF WInv, WatchdogTypeOK, Owner
    <3> QED BY <1>2, <3>1, <3>2 DEF WInv, MilestoneInv, past
  <2>7. EpochNamesOneFeed'  BY <1>2 DEF WInv, EpochNamesOneFeed, past
  <2> QED BY <2>3, <2>4, <2>5, <2>6, <2>7 DEF WInv
<1> QED BY <1>1, <1>2 DEF ReportBegin

(* Progress of the verification: what is accepted is a milestone that was  *)
(* not there before.                                                       *)
LEMMA ReportProgressKeeps ==
  ASSUME WInv, NEW p \in {"AUTHENTICATED", "PAYLOAD"}, NEW e, NEW v, NEW c \in Nat, NEW t,
         NEW result, ReportProgress(p, e, v, c, t, result)
  PROVE  WInv'
<1>1. CASE UNCHANGED wvars  BY <1>1, RefusalKeeps
<1>2. CASE /\ ReadyResult("BOOT", e) = "OK" /\ ProgressAccepted(p, v, c, t)
           /\ phase' = 2 /\ completed' = c /\ evidence' = {Milestone}
           /\ milestones' = milestones \cup {<<v, c>>}
           /\ UNCHANGED <<configured, blocked, owner, epoch, verification, total, hardware,
                          reported, feeds>>
  <2>1. ~blocked /\ owner = "BOOT"  BY <1>2, ReadyMeans
  <2>2. /\ v = verification /\ phase # 0
        /\ \/ phase = 1 /\ c = 0
           \/ phase = 2 /\ c = completed + 1 /\ c <= total
    BY <1>2 DEF ProgressAccepted
  <2>3. /\ v \in 1..MaxVerification /\ total \in 0..MaxTotal /\ completed \in 0..MaxTotal
        /\ milestones \in SUBSET ((1..MaxVerification) \X (0..MaxTotal))
        /\ IsFiniteSet(milestones)
        /\ feeds \in [Owner -> Nat]
    BY <2>2 DEF WInv, WatchdogTypeOK, StreamInv
  <2>4. c \in 0..MaxTotal /\ c <= total
    BY <2>2, <2>3, TotalAssumption
  <2>5. /\ \A m \in milestones : m[1] \in Nat /\ m[2] \in Nat
        /\ completed \in Nat /\ v \in Nat
    BY <2>3, VerificationAssumption, TotalAssumption
  <2>6. <<v, c>> \notin milestones
    <3> SUFFICES ASSUME <<v, c>> \in milestones PROVE FALSE
      OBVIOUS
    <3>1. phase = 2 /\ c <= completed
      BY <2>2, <2>5 DEF WInv, StreamInv
    <3> QED BY <2>2, <2>5, <3>1
  <2>7. /\ IsFiniteSet(milestones')
        /\ Cardinality(milestones') = Cardinality(milestones) + 1
        /\ Cardinality(milestones) \in Nat
    BY <1>2, <2>3, <2>6, FS_AddElement, FS_CardinalityType
  <2>8. WatchdogTypeOK'
    <3>1. milestones' \in SUBSET ((1..MaxVerification) \X (0..MaxTotal))
      BY <1>2, <2>3, <2>4
    <3>2. evidence' \in SUBSET Bit  BY <1>2 DEF Milestone, Bit, ETHERNET
    <3> QED BY <1>2, <2>4, <2>7, <3>1, <3>2 DEF WInv, WatchdogTypeOK, hardware
  <2>9. StreamInv'
    <3>1. ASSUME NEW m \in milestones
          PROVE  m[1] < verification \/ (m[1] = verification /\ m[2] <= c)
      BY <2>2, <2>5 DEF WInv, StreamInv
    <3> QED BY <1>2, <2>2, <2>3, <3>1 DEF StreamInv
  <2>10. EvidenceInv'  BY <1>2, <2>1 DEF EvidenceInv
  <2>11. MilestoneInv'
    <3>1. Pending' = 1 /\ Pending \in Nat  BY <1>2, <2>1 DEF Pending
    <3>2. feeds["BOOT"] \in Nat  BY <2>3 DEF Owner
    <3> QED BY <1>2, <2>7, <3>1, <3>2 DEF WInv, MilestoneInv
  <2>12. EpochNamesOneFeed'  BY <1>2 DEF WInv, EpochNamesOneFeed
  <2> QED BY <2>8, <2>9, <2>10, <2>11, <2>12 DEF WInv
<1> QED BY <1>1, <1>2 DEF ReportProgress

(* boot_watchdog_application_report.                                       *)
LEMMA ApplicationReportKeeps ==
  ASSUME WInv, NEW e, NEW b \in Bit, NEW complete, NEW result,
         ApplicationReport(e, b, complete, result)
  PROVE  WInv'
<1>1. CASE UNCHANGED wvars  BY <1>1, RefusalKeeps
<1>2. CASE /\ ReadyResult("APPLICATION", e) = "OK"
           /\ evidence' = evidence \cup {b}
           /\ reported' = reported \cup {b}
           /\ UNCHANGED <<configured, blocked, owner, epoch, stream, hardware, milestones, feeds>>
  <2>1. owner = "APPLICATION"  BY <1>2, ReadyMeans
  <2>2. WatchdogTypeOK'  BY <1>2 DEF WInv, WatchdogTypeOK, stream, hardware
  <2>3. StreamInv'  BY <1>2 DEF WInv, StreamInv, stream
  <2>4. EvidenceInv'  BY <1>2, <2>1 DEF WInv, EvidenceInv
  <2>5. MilestoneInv'
    <3>1. Pending' = Pending  BY <1>2, <2>1 DEF Pending
    <3> QED BY <1>2, <3>1 DEF WInv, MilestoneInv
  <2>6. EpochNamesOneFeed'  BY <1>2 DEF WInv, EpochNamesOneFeed
  <2> QED BY <2>2, <2>3, <2>4, <2>5, <2>6 DEF WInv
<1> QED BY <1>1, <1>2 DEF ApplicationReport

(* The bridge drops evidence before it starts.                             *)
LEMMA DiscardKeeps == ASSUME WInv, DiscardEvidence PROVE WInv'
<1>1. WatchdogTypeOK'
  BY DEF DiscardEvidence, WInv, WatchdogTypeOK, stream, hardware, past
<1>2. StreamInv' /\ EvidenceInv' /\ EpochNamesOneFeed'
  BY DEF DiscardEvidence, WInv, StreamInv, EvidenceInv, EpochNamesOneFeed, stream, past
<1>3. MilestoneInv'
  <2>1. Pending' = 0 /\ Pending \in Nat  BY DEF DiscardEvidence, Pending
  <2>2. Cardinality(milestones) \in Nat /\ feeds["BOOT"] \in Nat
    BY FS_CardinalityType DEF WInv, WatchdogTypeOK, Owner
  <2> QED BY <2>1, <2>2 DEF DiscardEvidence, WInv, MilestoneInv, past
<1> QED BY <1>1, <1>2, <1>3 DEF WInv

(* The hardware counts.                                                    *)
LEMMA TickKeeps == ASSUME WInv, Tick PROVE WInv'
<1>1. timer' \in 0..Budget
  BY BudgetAssumption DEF Tick, Alive, WInv, WatchdogTypeOK
<1>2. WatchdogTypeOK'
  BY <1>1 DEF Tick, WInv, WatchdogTypeOK, control, stream, past
<1> QED BY <1>2 DEF Tick, WInv, StreamInv, EvidenceInv, MilestoneInv, Pending,
                    EpochNamesOneFeed, control, stream, past

(* The reset brings the initial state back.                                *)
LEMMA ExpireKeeps == ASSUME Expire PROVE WInv'
<1>1. /\ configured' \in BOOLEAN /\ blocked' \in BOOLEAN
      /\ enabled' \in BOOLEAN /\ unlocked' \in BOOLEAN
  BY DEF Expire, ResetState
<1>2. /\ owner' \in Owner /\ evidence' \in SUBSET Bit /\ reported' \in SUBSET Bit
      /\ milestones' \in SUBSET ((1..MaxVerification) \X (0..MaxTotal))
      /\ IsFiniteSet(milestones') /\ Cardinality(milestones') = 0
      /\ feeds' \in [Owner -> Nat] /\ feeds'["BOOT"] = 0 /\ feeds'["APPLICATION"] = 0
  BY FS_EmptySet DEF Expire, ResetState, Owner
<1>3. /\ epoch' \in 1..MaxEpoch /\ verification' \in 0..MaxVerification
      /\ total' \in 0..MaxTotal /\ completed' \in 0..MaxTotal /\ completed' <= total'
      /\ phase' \in 0..2 /\ timer' \in 0..Budget
  BY EpochAssumption, VerificationAssumption, TotalAssumption, BudgetAssumption
     DEF Expire, ResetState
<1>4. WatchdogTypeOK'  BY <1>1, <1>2, <1>3 DEF WatchdogTypeOK
<1>5. StreamInv' /\ EvidenceInv'  BY DEF Expire, ResetState, StreamInv, EvidenceInv
<1>6. MilestoneInv' /\ EpochNamesOneFeed'
  BY <1>2 DEF Expire, ResetState, MilestoneInv, Pending, EpochNamesOneFeed
<1> QED BY <1>4, <1>5, <1>6 DEF WInv

-----------------------------------------------------------------------------
(* A step is one call with some arguments, or the bridge's own writes, or  *)
(* the hardware's.                                                         *)
OneCall ==
  \/ \E result \in Result : Configure(result)
  \/ \E o \in Owner, e \in 0..MaxEpoch, result \in Result : Service(o, e, result)
  \/ \E e \in 0..MaxEpoch, result \in Result : Transfer(e, result)
  \/ \E e \in 0..MaxEpoch, v \in 0..MaxVerification, c \in 0..(MaxTotal + 1),
        t \in 0..(MaxTotal + 1), result \in Result : ReportBegin(e, v, c, t, result)
  \/ \E p \in {"AUTHENTICATED", "PAYLOAD"}, e \in 0..MaxEpoch, v \in 0..MaxVerification,
        c \in 0..(MaxTotal + 1), t \in 0..(MaxTotal + 1), result \in Result :
          ReportProgress(p, e, v, c, t, result)
  \/ \E e \in 0..MaxEpoch, b \in Bit, complete \in BOOLEAN, result \in Result :
          ApplicationReport(e, b, complete, result)

(* AnyCall with its quantifiers apart.                                     *)
LEMMA CallForms == AnyCall => OneCall
BY Zenon DEF AnyCall, OneCall

(* The invariant is inductive, for any caller.                             *)
LEMMA StepWatchdog == WInv /\ [WatchdogNext]_wvars => WInv'
<1> SUFFICES ASSUME WInv, [WatchdogNext]_wvars PROVE WInv'
  OBVIOUS
<1>1. CASE UNCHANGED wvars  BY <1>1, RefusalKeeps
<1>2. CASE AnyCall
  <2>1. CASE \E result \in Result : Configure(result)  BY <2>1, ConfigureKeeps
  <2>2. CASE \E o \in Owner, e \in 0..MaxEpoch, result \in Result : Service(o, e, result)
    BY <2>2, ServiceKeeps
  <2>3. CASE \E e \in 0..MaxEpoch, result \in Result : Transfer(e, result)
    BY <2>3, TransferKeeps
  <2>4. CASE \E e \in 0..MaxEpoch, v \in 0..MaxVerification, c \in 0..(MaxTotal + 1),
               t \in 0..(MaxTotal + 1), result \in Result : ReportBegin(e, v, c, t, result)
    BY <2>4, ReportBeginKeeps
  <2>5. CASE \E p \in {"AUTHENTICATED", "PAYLOAD"}, e \in 0..MaxEpoch, v \in 0..MaxVerification,
               c \in 0..(MaxTotal + 1), t \in 0..(MaxTotal + 1), result \in Result :
                 ReportProgress(p, e, v, c, t, result)
    <3>1. \A c \in 0..(MaxTotal + 1) : c \in Nat  BY TotalAssumption
    <3> QED BY <2>5, <3>1, ReportProgressKeeps
  <2>6. CASE \E e \in 0..MaxEpoch, b \in Bit, complete \in BOOLEAN, result \in Result :
               ApplicationReport(e, b, complete, result)
    BY <2>6, ApplicationReportKeeps
  <2> QED BY <1>2, <2>1, <2>2, <2>3, <2>4, <2>5, <2>6, CallForms DEF OneCall
<1>3. CASE DiscardEvidence  BY <1>3, DiscardKeeps
<1>4. CASE Abandon
  BY <1>4, AbandonKeeps, BooleanType DEF Abandon, hardware
<1>5. CASE Tick  BY <1>5, TickKeeps
<1>6. CASE Expire  BY <1>6, ExpireKeeps
<1> QED BY <1>1, <1>2, <1>3, <1>4, <1>5, <1>6 DEF WatchdogNext

(* Type correctness of the controller, for any caller.                     *)
THEOREM WatchdogTypeTheorem == WatchdogSpec => []WatchdogTypeOK
<1>1. WInv => WatchdogTypeOK  BY DEF WInv
<1> QED BY <1>1, InitWatchdog, StepWatchdog, PTL DEF WatchdogSpec

(* The bootloader restarts the watchdog at most once for every distinct    *)
(* milestone that boot_watchdog_report accepted.                           *)
THEOREM MilestonesTheorem == WatchdogSpec => []FeedsAreMilestones
<1>1. WInv => FeedsAreMilestones
  <2> SUFFICES ASSUME WInv PROVE FeedsAreMilestones
    OBVIOUS
  <2>1. Pending \in Nat  BY DEF Pending
  <2>2. Cardinality(milestones) \in Nat /\ feeds["BOOT"] \in Nat
    BY FS_CardinalityType DEF WInv, WatchdogTypeOK, Owner
  <2> QED BY <2>1, <2>2 DEF WInv, MilestoneInv, FeedsAreMilestones
<1> QED BY <1>1, InitWatchdog, StepWatchdog, PTL DEF WatchdogSpec

(* The epoch numbers the restarts and the transfer, so a late or repeated  *)
(* service call names an epoch that is over.                               *)
THEOREM EpochTheorem == WatchdogSpec => []EpochNamesOneFeed
<1>1. WInv => EpochNamesOneFeed  BY DEF WInv
<1> QED BY <1>1, InitWatchdog, StepWatchdog, PTL DEF WatchdogSpec

-----------------------------------------------------------------------------
(* What a step may do to the feeds.                                        *)

(* The only call that restarts the watchdog is a service by its owner with *)
(* the full evidence, and only while the controller is not quarantined.    *)
LEMMA FeedMeans ==
  ASSUME WInv, Alive, WatchdogNext, feeds' # feeds
  PROVE  /\ ~blocked /\ evidence = Required(owner) /\ owner' = owner
         /\ enabled' = enabled
         /\ feeds' = [feeds EXCEPT ![owner] = @ + 1]
<1>0. ~Expire
  BY BudgetAssumption DEF WInv, WatchdogTypeOK, Alive, Expire
<1>1. CASE AnyCall
  <2>1. CASE \E result \in Result : Configure(result)
    BY <2>1 DEF Configure, wvars, past
  <2>2. CASE \E o \in Owner, e \in 0..MaxEpoch, result \in Result : Service(o, e, result)
    <3>1. PICK o \in Owner, e \in 0..MaxEpoch, result \in Result : Service(o, e, result)
      BY <2>2
    <3>2. /\ ReadyResult(o, e) = "OK" /\ evidence = Required(o)
          /\ Restart(o, result)
      BY <3>1 DEF Service, wvars, past
    <3>3. ~blocked /\ o = owner  BY <3>2, ReadyMeans
    <3>4. feeds' = [feeds EXCEPT ![o] = @ + 1] /\ owner' = owner /\ enabled' = enabled
      BY <3>2 DEF Restart, Quarantine, past
    <3> QED BY <3>2, <3>3, <3>4
  <2>3. CASE \E e \in 0..MaxEpoch, result \in Result : Transfer(e, result)
    BY <2>3 DEF Transfer, wvars, past
  <2>4. CASE \E e \in 0..MaxEpoch, v \in 0..MaxVerification, c \in 0..(MaxTotal + 1),
               t \in 0..(MaxTotal + 1), result \in Result : ReportBegin(e, v, c, t, result)
    BY <2>4 DEF ReportBegin, wvars, past
  <2>5. CASE \E p \in {"AUTHENTICATED", "PAYLOAD"}, e \in 0..MaxEpoch, v \in 0..MaxVerification,
               c \in 0..(MaxTotal + 1), t \in 0..(MaxTotal + 1), result \in Result :
                 ReportProgress(p, e, v, c, t, result)
    BY <2>5 DEF ReportProgress, wvars, past
  <2>6. CASE \E e \in 0..MaxEpoch, b \in Bit, complete \in BOOLEAN, result \in Result :
               ApplicationReport(e, b, complete, result)
    BY <2>6 DEF ApplicationReport, wvars, past
  <2> QED BY <1>1, <2>1, <2>2, <2>3, <2>4, <2>5, <2>6, CallForms DEF OneCall
<1>2. CASE DiscardEvidence  BY <1>2 DEF DiscardEvidence, past
<1>3. CASE Abandon  BY <1>3 DEF Abandon, past
<1>4. CASE Tick  BY <1>4 DEF Tick, past
<1> QED BY <1>0, <1>1, <1>2, <1>3, <1>4 DEF WatchdogNext

(* The application restarts the watchdog only when it has reported all     *)
(* three predicates itself since the last restart.                         *)
THEOREM CompleteTheorem == WatchdogSpec => ApplicationFeedIsComplete
<1>1. WInv /\ [WatchdogNext]_wvars => [CompleteStep]_wvars
  <2> SUFFICES ASSUME WInv, WatchdogNext, Alive,
                      feeds'["APPLICATION"] # feeds["APPLICATION"]
               PROVE  reported = APP_REQUIRED
    BY DEF CompleteStep
  <2>1. evidence = Required(owner) /\ feeds' = [feeds EXCEPT ![owner] = @ + 1]
    BY FeedMeans
  <2>2. owner = "APPLICATION"
    BY <2>1 DEF WInv, WatchdogTypeOK, Owner
  <2>3. evidence = Bit  BY <2>1, <2>2 DEF Required, APP_REQUIRED
  <2> QED BY <2>2, <2>3 DEF WInv, WatchdogTypeOK, EvidenceInv, APP_REQUIRED
<1> QED BY <1>1, InitWatchdog, StepWatchdog, PTL DEF WatchdogSpec, ApplicationFeedIsComplete

(* A quarantine, the transfer and the enabled watchdog last until the      *)
(* reset.                                                                  *)
LEMMA LastingMeans ==
  ASSUME WInv, Alive, WatchdogNext
  PROVE  /\ blocked => blocked'
         /\ owner = "APPLICATION" => owner' = "APPLICATION"
         /\ enabled => enabled'
<1>0. ~Expire
  BY BudgetAssumption DEF WInv, WatchdogTypeOK, Alive, Expire
<1>1. CASE AnyCall
  <2>1. CASE \E result \in Result : Configure(result)
    BY <2>1 DEF Configure, Quarantine, wvars, control, hardware
  <2>2. CASE \E o \in Owner, e \in 0..MaxEpoch, result \in Result : Service(o, e, result)
    BY <2>2 DEF Service, Restart, Quarantine, wvars, control, hardware
  <2>3. CASE \E e \in 0..MaxEpoch, result \in Result : Transfer(e, result)
    BY <2>3 DEF Transfer, Quarantine, wvars, control, hardware
  <2>4. CASE \E e \in 0..MaxEpoch, v \in 0..MaxVerification, c \in 0..(MaxTotal + 1),
               t \in 0..(MaxTotal + 1), result \in Result : ReportBegin(e, v, c, t, result)
    BY <2>4 DEF ReportBegin, wvars, control, hardware
  <2>5. CASE \E p \in {"AUTHENTICATED", "PAYLOAD"}, e \in 0..MaxEpoch, v \in 0..MaxVerification,
               c \in 0..(MaxTotal + 1), t \in 0..(MaxTotal + 1), result \in Result :
                 ReportProgress(p, e, v, c, t, result)
    BY <2>5 DEF ReportProgress, wvars, control, hardware
  <2>6. CASE \E e \in 0..MaxEpoch, b \in Bit, complete \in BOOLEAN, result \in Result :
               ApplicationReport(e, b, complete, result)
    BY <2>6 DEF ApplicationReport, wvars, control, hardware
  <2> QED BY <1>1, <2>1, <2>2, <2>3, <2>4, <2>5, <2>6, CallForms DEF OneCall
<1>2. CASE DiscardEvidence  BY <1>2 DEF DiscardEvidence, hardware
<1>3. CASE Abandon  BY <1>3 DEF Abandon, Quarantine, hardware
<1>4. CASE Tick  BY <1>4 DEF Tick, control
<1> QED BY <1>0, <1>1, <1>2, <1>3, <1>4 DEF WatchdogNext

(* Until the reset, a quarantined controller is never fed again, the       *)
(* bootloader never feeds after the transfer, and an enabled watchdog      *)
(* stays enabled.                                                          *)
THEOREM QuarantineTheorem == WatchdogSpec => QuarantineIsFinal
<1>1. WInv /\ [WatchdogNext]_wvars => [FeedStep]_wvars
  <2> SUFFICES ASSUME WInv, WatchdogNext, Alive PROVE FeedStep
    BY DEF FeedStep
  <2>1. /\ blocked => blocked'
        /\ owner = "APPLICATION" => owner' = "APPLICATION"
        /\ enabled => enabled'
    BY LastingMeans
  <2>2. CASE feeds' = feeds  BY <2>1, <2>2 DEF FeedStep
  <2>3. CASE feeds' # feeds
    <3>1. ~blocked /\ feeds' = [feeds EXCEPT ![owner] = @ + 1]  BY <2>3, FeedMeans
    <3>2. owner = "APPLICATION" => feeds'["BOOT"] = feeds["BOOT"]
      BY <3>1 DEF WInv, WatchdogTypeOK, Owner
    <3> QED BY <2>1, <3>1, <3>2 DEF FeedStep
  <2> QED BY <2>2, <2>3
<1> QED BY <1>1, InitWatchdog, StepWatchdog, PTL DEF WatchdogSpec, QuarantineIsFinal

-----------------------------------------------------------------------------
(* One boot, from reset to reset: ProtectedBoot                            *)

(* Everything but the watchdog.                                            *)
Stages ==
  {"early", "reset", "claim", "configure", "stopped"}
    \cup Selecting \cup Handing \cup Starting \cup Turning

BootTyped ==
  /\ stage \in Stages
  /\ tried \in 0..Slots /\ length \in 0..MaxTotal /\ hashed \in 0..length
  /\ op \in 0..Operations
  /\ handoff \in {"ready", "blocked", "finished"}
  /\ intended \in 0..MaxEpoch /\ entry_epoch \in 0..MaxEpoch /\ turn_epoch \in 0..MaxEpoch
  /\ state \in {"EMPTY", "PREPARED", "DISPATCHING", "ENTERED", "C_READY", "FAILED"}
  /\ gptm \in {"none", "CLAIMED", "RELEASED", "FAILED"}
  /\ worked \in SUBSET Bit

(* A controller that was configured runs.                                  *)
Armed == configured => enabled

(* What the capsule was prepared with is still there when the application  *)
(* is entered; what its last check found still holds in the loop.          *)
Entered ==
  /\ stage \in Starting \ {"prepare"} =>
       /\ configured /\ ~blocked /\ owner = "APPLICATION" /\ handoff = "finished"
       /\ epoch = entry_epoch /\ evidence = {}
  /\ stage = "release" => state = "C_READY"
  /\ stage \in Turning =>
       /\ configured /\ ~blocked /\ owner = "APPLICATION" /\ handoff = "finished"
       /\ gptm = "RELEASED" /\ state = "C_READY"

(* The work behind the evidence that is about to be used.                  *)
Worked ==
  /\ stage = "boot_feed" => worked = {Milestone}
  /\ stage = "ethernet" => worked = {}
  /\ stage = "timers" => worked = {ETHERNET}
  /\ stage = "ftp" => worked = {ETHERNET, TIMERS}
  /\ stage \in {"report", "feed"} => worked = Bit

RInv == WInv /\ BootTyped /\ Armed /\ Entered /\ Worked

(* The two type invariants are the one of the module.                      *)
LEMMA BootTypes == WatchdogTypeOK /\ BootTyped <=> TypeOK
BY DEF BootTyped, TypeOK, Stages

(* The bounds as the provers need them.                                    *)
LEMMA Bounds ==
  /\ Slots \in Nat /\ Operations \in Nat /\ MaxTotal \in Nat /\ MaxEpoch \in Nat
  /\ MaxVerification \in Nat /\ Budget \in Nat
  /\ Slots > 0 /\ MaxTotal > 0 /\ MaxEpoch > 1 /\ MaxVerification > 0 /\ Budget > 0
BY SlotsAssumption, OperationsAssumption, TotalAssumption, EpochAssumption,
   VerificationAssumption, BudgetAssumption

(* The steps that leave the watchdog alone.                                *)
QuietStep ==
  \/ Halts("early") \/ EarlyRead \/ StartupReset \/ GptmClaim \/ VerifyNext \/ VerifyEnds
  \/ Decide \/ Admit \/ Operate \/ Terminal \/ Prepare \/ BeginDispatch
  \/ Early \/ CReady \/ NetClock \/ Release \/ BeginTurn \/ ServeEthernet \/ ServeTimers
  \/ ServeFtp \/ Publish

(* They do.                                                                *)
LEMMA QuietMeans == QuietStep => UNCHANGED wvars
<1>1. Halts("early") \/ EarlyRead \/ StartupReset \/ GptmClaim \/ VerifyNext \/ VerifyEnds
      \/ Decide \/ Admit \/ Operate \/ Terminal => UNCHANGED wvars
  BY DEF Halts, EarlyRead, StartupReset, GptmClaim, VerifyNext, VerifyEnds, Decide, Admit,
         Operate, Terminal, Quiet
<1>2. Prepare \/ BeginDispatch \/ Early \/ CReady \/ NetClock \/ Release => UNCHANGED wvars
  BY DEF Prepare, BeginDispatch, Early, CReady, NetClock, Release, Continue, Quiet
<1>3. BeginTurn \/ ServeEthernet \/ ServeTimers \/ ServeFtp \/ Publish => UNCHANGED wvars
  BY DEF BeginTurn, ServeEthernet, ServeTimers, ServeFtp, Serve, Publish
<1> QED BY <1>1, <1>2, <1>3 DEF QuietStep

(* The steps that call the watchdog, with the call each one makes.         *)
LEMMA Calls ==
  ASSUME RInv
  PROVE  /\ ProducerFails \/ RuntimeFails \/ HandoffFails => Alive /\ Abandon
         /\ Arm => Alive /\ \E result \in Result : Configure(result)
         /\ Preflight => Alive /\ (DiscardEvidence \/ UNCHANGED wvars)
         /\ VerifyBegin => /\ Alive /\ verification + 1 \in 0..MaxVerification
                           /\ ReportBegin(epoch, verification + 1, 0, length, "OK")
         /\ Authenticate =>
              /\ Alive
              /\ \/ ReportProgress("AUTHENTICATED", epoch, verification, 0, length, "OK")
                 \/ UNCHANGED wvars
         /\ HashChunk => /\ Alive /\ hashed + 1 \in 0..(MaxTotal + 1)
                         /\ ReportProgress("PAYLOAD", epoch, verification, hashed + 1,
                                           length, "OK")
         /\ BootFeed => Alive /\ \E result \in Result : Service("BOOT", epoch, result)
         /\ TransferOwner => Alive /\ Transfer(epoch, "OK")
         /\ \A b \in Bit : Report(b) =>
              /\ Alive
              /\ \/ \E result \in Result : ApplicationReport(turn_epoch, b, TRUE, result)
                 \/ UNCHANGED wvars
         /\ TurnFeed => Alive /\ \E result \in Result : Service("APPLICATION", turn_epoch, result)
<1>1. ProducerFails \/ RuntimeFails \/ HandoffFails => Alive /\ Abandon
  BY DEF ProducerFails, RuntimeFails, HandoffFails, BridgeQuarantine, At
<1>2. Arm => Alive /\ \E result \in Result : Configure(result)
  BY DEF Arm, At
<1>3. Preflight => Alive /\ (DiscardEvidence \/ UNCHANGED wvars)
  BY DEF Preflight, At
<1>4. ASSUME VerifyBegin
      PROVE  /\ Alive /\ verification + 1 \in 0..MaxVerification
             /\ ReportBegin(epoch, verification + 1, 0, length, "OK")
  BY <1>4, Bounds DEF VerifyBegin, At, RInv, WInv, WatchdogTypeOK
<1>5. Authenticate =>
        /\ Alive
        /\ \/ ReportProgress("AUTHENTICATED", epoch, verification, 0, length, "OK")
           \/ UNCHANGED wvars
  BY DEF Authenticate, At, Quiet
<1>6. ASSUME HashChunk
      PROVE  /\ Alive /\ hashed + 1 \in 0..(MaxTotal + 1)
             /\ ReportProgress("PAYLOAD", epoch, verification, hashed + 1, length, "OK")
  <2>1. hashed' = hashed + 1 /\ Alive
        /\ ReportProgress("PAYLOAD", epoch, verification, hashed', length, "OK")
    BY <1>6 DEF HashChunk, At
  <2>2. hashed + 1 \in 0..(MaxTotal + 1)
    BY Bounds DEF RInv, BootTyped
  <2> QED BY <2>1, <2>2
<1>7. BootFeed => Alive /\ \E result \in Result : Service("BOOT", epoch, result)
  BY DEF BootFeed, At
<1>8. TransferOwner => Alive /\ Transfer(epoch, "OK")
  BY DEF TransferOwner, At
<1>9. \A b \in Bit : Report(b) =>
        /\ Alive
        /\ \/ \E result \in Result : ApplicationReport(turn_epoch, b, TRUE, result)
           \/ UNCHANGED wvars
  BY DEF Report, At
<1>10. TurnFeed => Alive /\ \E result \in Result : Service("APPLICATION", turn_epoch, result)
  BY DEF TurnFeed, At
<1> QED BY <1>1, <1>2, <1>3, <1>4, <1>5, <1>6, <1>7, <1>8, <1>9, <1>10

(* A call with arguments in range is a step of the controller.             *)
LEMMA CallStep ==
  ASSUME Alive, NEW e \in 0..MaxEpoch, NEW result \in Result,
         \/ Configure(result)
         \/ \E o \in Owner : Service(o, e, result)
         \/ Transfer(e, result)
         \/ \E v \in 0..MaxVerification, c \in 0..(MaxTotal + 1), t \in 0..(MaxTotal + 1) :
              \/ ReportBegin(e, v, c, t, result)
              \/ \E p \in {"AUTHENTICATED", "PAYLOAD"} : ReportProgress(p, e, v, c, t, result)
         \/ \E b \in Bit, complete \in BOOLEAN : ApplicationReport(e, b, complete, result)
  PROVE  WatchdogNext
BY DEF WatchdogNext, AnyCall

(* Every step of a boot is a step of the controller, or leaves it alone.   *)
LEMMA StepUses == ASSUME RInv, [Next]_vars PROVE [WatchdogNext]_wvars
<1>0. /\ epoch \in 0..MaxEpoch /\ turn_epoch \in 0..MaxEpoch
      /\ verification \in 0..MaxVerification
      /\ length \in 0..(MaxTotal + 1) /\ 0 \in 0..(MaxTotal + 1)
  BY Bounds DEF RInv, WInv, WatchdogTypeOK, BootTyped
<1>1. "OK" \in Result /\ "BOOT" \in Owner /\ "APPLICATION" \in Owner /\ TRUE \in BOOLEAN
  BY DEF Result, Owner
<1>2. CASE QuietStep
  BY <1>2, QuietMeans
<1>3. CASE ProducerFails \/ RuntimeFails \/ HandoffFails
  BY <1>3, Calls DEF WatchdogNext
<1>4. CASE Arm
  BY <1>0, <1>4, Calls, CallStep
<1>5. CASE Preflight
  BY <1>5, Calls DEF WatchdogNext
<1>6. CASE VerifyBegin
  <2>1. Alive /\ verification + 1 \in 0..MaxVerification
        /\ ReportBegin(epoch, verification + 1, 0, length, "OK")
    BY <1>6, Calls
  <2> QED BY <1>0, <1>1, <2>1, CallStep
<1>7. CASE Authenticate
  <2>1. Alive /\ \/ ReportProgress("AUTHENTICATED", epoch, verification, 0, length, "OK")
                 \/ UNCHANGED wvars
    BY <1>7, Calls
  <2> QED BY <1>0, <1>1, <2>1, CallStep
<1>8. CASE HashChunk
  <2>1. /\ Alive /\ hashed + 1 \in 0..(MaxTotal + 1)
        /\ ReportProgress("PAYLOAD", epoch, verification, hashed + 1, length, "OK")
    BY <1>8, Calls
  <2> QED BY <1>0, <1>1, <2>1, CallStep
<1>9. CASE BootFeed
  BY <1>0, <1>1, <1>9, Calls, CallStep
<1>10. CASE TransferOwner
  BY <1>0, <1>1, <1>10, Calls, CallStep
<1>11. CASE \E b \in Bit : Report(b)
  BY <1>0, <1>1, <1>11, Calls, CallStep
<1>12. CASE TurnFeed
  BY <1>0, <1>1, <1>12, Calls, CallStep
<1>13. CASE Countdown \/ HardwareReset
  BY <1>13 DEF Countdown, HardwareReset, WatchdogNext
<1>14. CASE UNCHANGED vars
  BY <1>14 DEF vars
<1> QED BY <1>2, <1>3, <1>4, <1>5, <1>6, <1>7, <1>8, <1>9, <1>10, <1>11, <1>12, <1>13, <1>14
        DEF Next, Bootloader, Application, QuietStep

-----------------------------------------------------------------------------
(* The boot's part of the invariant                                        *)

(* The stages by name.                                                     *)
Sets == Stages = {"early", "reset", "claim", "configure", "stopped", "runtime", "select", "begin",
                  "signature", "payload", "boot_feed", "aborted", "decide", "admit", "operations",
                  "transfer", "terminal", "prepare", "dispatch", "entry", "c_ready", "clock",
                  "release", "turn", "ethernet", "timers", "ftp", "report", "feed", "publish"}

(* Every stage is one of these.                                            *)
LEMMA StageSets == Sets
BY DEF Sets, Stages, Selecting, Handing, Starting, Turning

BInv == BootTyped /\ Armed /\ Entered /\ Worked

(* Wherever a boot stops, nothing more is required of it.                  *)
LEMMA Stopping ==
  ASSUME RInv, stage' = "stopped", Armed',
         UNCHANGED <<tried, length, hashed, op, intended, entry_epoch>>,
         handoff' \in {handoff, "blocked"}, state' \in {state, "FAILED"},
         gptm' \in {gptm, "FAILED"}, turn_epoch' \in {turn_epoch, epoch}, worked' \in {worked, {}}
  PROVE  BInv'
<1>1. turn_epoch' \in 0..MaxEpoch
  BY Bounds DEF RInv, BootTyped, WInv, WatchdogTypeOK
<1>2. BootTyped'
  BY <1>1, StageSets DEF Sets, RInv, BootTyped
<1> QED BY <1>2 DEF BInv, Entered, Worked, Starting, Turning

(* The bootloader before it hands over: the stages on which the invariant  *)
(* says nothing but the type.                                              *)
Before == {"early", "reset", "claim", "configure", "runtime", "select", "begin", "signature",
           "payload", "aborted", "decide", "admit", "operations", "transfer", "terminal",
           "prepare"}

(* Before the handoff nothing of the application is under way: a step      *)
(* there has only the bootloader's own state to keep.                      *)
LEMMA Booting ==
  ASSUME RInv, stage' \in Before, Armed',
         UNCHANGED <<handoff, state, entry_epoch, turn_epoch>>,
         worked' \in SUBSET Bit, gptm' \in {gptm, "CLAIMED"},
         tried' \in 0..Slots, length' \in 0..MaxTotal, hashed' \in 0..length',
         op' \in 0..Operations, intended' \in 0..MaxEpoch
  PROVE  BInv'
<1>1. BootTyped'
  BY StageSets DEF Sets, Before, RInv, BootTyped
<1> QED BY <1>1 DEF BInv, Entered, Worked, Starting, Turning, Before

(* Only the configuration, the one that fails included, and the reset      *)
(* change whether the controller is configured or runs.                    *)
LEMMA ArmedKept ==
  ASSUME RInv, [Next]_vars
  PROVE  Armed'
<1>0. configured \in BOOLEAN /\ enabled \in BOOLEAN /\ (configured => enabled)
  BY BooleanType DEF RInv, Armed
<1> SUFFICES ASSUME [WatchdogNext]_wvars
             PROVE  \/ UNCHANGED <<configured, enabled>>
                    \/ configured' = TRUE /\ enabled' = TRUE
                    \/ configured' = FALSE
  BY <1>0, StepUses DEF Armed
<1>1. CASE \E result \in Result : Configure(result)
  BY <1>0, <1>1 DEF Configure, Quarantine, wvars, control, hardware
<1>2. CASE \E o \in Owner, e \in 0..MaxEpoch, result \in Result : Service(o, e, result)
  BY <1>2 DEF Service, Restart, Quarantine, wvars, control, hardware
<1>3. CASE \E e \in 0..MaxEpoch, result \in Result : Transfer(e, result)
  BY <1>3 DEF Transfer, Quarantine, wvars, control, hardware
<1>4. CASE \E e \in 0..MaxEpoch, v \in 0..MaxVerification, c \in 0..(MaxTotal + 1),
             t \in 0..(MaxTotal + 1), result \in Result : ReportBegin(e, v, c, t, result)
  BY <1>4 DEF ReportBegin, wvars, control, hardware
<1>5. CASE \E p \in {"AUTHENTICATED", "PAYLOAD"}, e \in 0..MaxEpoch, v \in 0..MaxVerification,
             c \in 0..(MaxTotal + 1), t \in 0..(MaxTotal + 1), result \in Result :
               ReportProgress(p, e, v, c, t, result)
  BY <1>5 DEF ReportProgress, wvars, control, hardware
<1>6. CASE \E e \in 0..MaxEpoch, b \in Bit, complete \in BOOLEAN, result \in Result :
             ApplicationReport(e, b, complete, result)
  BY <1>6 DEF ApplicationReport, wvars, control, hardware
<1>7. CASE DiscardEvidence \/ Abandon \/ Tick \/ Expire \/ UNCHANGED wvars
  BY <1>7 DEF DiscardEvidence, Abandon, Quarantine, Tick, Expire, ResetState, wvars, control,
              hardware
<1> QED BY <1>1, <1>2, <1>3, <1>4, <1>5, <1>6, <1>7, CallForms DEF WatchdogNext, OneCall

(* From the reset to the armed watchdog.                                   *)
LEMMA ProducerStep ==
  ASSUME RInv, Armed',
         \/ Halts("early") \/ EarlyRead \/ ProducerFails \/ StartupReset \/ GptmClaim \/ Arm
  PROVE  BInv'
<1>0. /\ worked \in SUBSET Bit /\ tried \in 0..Slots /\ length \in 0..MaxTotal
      /\ hashed \in 0..length /\ op \in 0..Operations /\ intended \in 0..MaxEpoch
  BY DEF RInv, BootTyped
<1>1. CASE Halts("early") \/ ProducerFails
  BY <1>1, Stopping DEF Halts, ProducerFails, Goto, Quiet, bvars
<1>2. CASE EarlyRead \/ StartupReset \/ GptmClaim
  BY <1>0, <1>2, Booting DEF EarlyRead, StartupReset, GptmClaim, Goto, Quiet, bvars, Before
<1>3. CASE Arm
  <2>1. PICK result \in Result :
          /\ stage' = (IF result = "OK" THEN "runtime" ELSE "stopped")
          /\ state' = (IF result = "OK" THEN state ELSE "FAILED")
          /\ UNCHANGED <<worked, tried, length, hashed, op, handoff, intended, entry_epoch, gptm,
                         turn_epoch>>
    BY <1>3 DEF Arm, Goto
  <2>2. CASE result = "OK"
    BY <1>0, <2>1, <2>2, Booting DEF Before
  <2>3. CASE result # "OK"
    BY <2>1, <2>3, Stopping
  <2> QED BY <2>2, <2>3
<1> QED BY <1>1, <1>2, <1>3

(* The selection, under the bridge.                                        *)
LEMMA SelectionStep ==
  ASSUME RInv, Armed',
         \/ RuntimeFails \/ Preflight \/ VerifyNext \/ VerifyBegin \/ Authenticate \/ HashChunk
         \/ BootFeed \/ VerifyEnds \/ Decide
  PROVE  BInv'
<1>0. /\ worked \in SUBSET Bit /\ tried \in 0..Slots /\ length \in 0..MaxTotal
      /\ hashed \in 0..length /\ op \in 0..Operations /\ intended \in 0..MaxEpoch
      /\ {Milestone} \in SUBSET Bit
  BY DEF RInv, BootTyped, Milestone, Bit, ETHERNET
<1>1. CASE RuntimeFails
  BY <1>1, Stopping DEF RuntimeFails, BridgeQuarantine, Goto
<1>2. CASE Preflight
  <2>1. stage' \in {"select", "stopped"} /\ UNCHANGED <<bvars, worked>>
    BY <1>2 DEF Preflight, Goto
  <2>2. CASE stage' = "select"
    BY <1>0, <2>1, <2>2, Booting DEF bvars, Before
  <2>3. CASE stage' = "stopped"
    BY <2>1, <2>3, Stopping DEF bvars
  <2> QED BY <2>1, <2>2, <2>3
<1>3. CASE VerifyNext
  <2>1. /\ tried' = tried + 1 /\ tried < Slots /\ stage' \in {"select", "begin"}
        /\ UNCHANGED <<worked, op, handoff, intended, state, entry_epoch, gptm, turn_epoch>>
        /\ \/ UNCHANGED <<length, hashed>>
           \/ length' \in 1..MaxTotal /\ hashed' = 0
    BY <1>3 DEF VerifyNext, Goto, Quiet
  <2>2. tried' \in 0..Slots /\ length' \in 0..MaxTotal /\ hashed' \in 0..length'
    BY <1>0, <2>1, Bounds
  <2> QED BY <1>0, <2>1, <2>2, Booting DEF Before
<1>4. CASE VerifyBegin \/ VerifyEnds \/ Decide
  <2>1. stage' \in {"signature", "decide", "select", "admit"} /\ UNCHANGED <<bvars, worked>>
    BY <1>4 DEF VerifyBegin, VerifyEnds, Decide, Goto, Quiet
  <2> QED BY <1>0, <2>1, Booting DEF bvars, Before
<1>5. CASE Authenticate
  <2>1. CASE stage' = "select" /\ UNCHANGED <<bvars, worked>>
    BY <1>0, <2>1, Booting DEF bvars, Before
  <2>2. CASE stage' = "boot_feed" /\ worked' = {Milestone} /\ UNCHANGED bvars
    <3>1. BootTyped'
      BY <1>0, <2>2, StageSets DEF Sets, RInv, BootTyped, bvars
    <3> QED BY <2>2, <3>1 DEF BInv, Entered, Worked, Starting, Turning
  <2> QED BY <1>5, <2>1, <2>2 DEF Authenticate, Goto, Quiet
<1>6. CASE HashChunk
  <2>1. /\ stage' = "boot_feed" /\ worked' = {Milestone} /\ hashed' = hashed + 1 /\ hashed < length
        /\ UNCHANGED <<tried, length, op, handoff, intended, state, entry_epoch, gptm, turn_epoch>>
    BY <1>6 DEF HashChunk, Goto
  <2>2. hashed' \in 0..length'
    BY <1>0, <2>1, Bounds
  <2>3. BootTyped'
    BY <1>0, <2>1, <2>2, StageSets DEF Sets, RInv, BootTyped
  <2> QED BY <2>1, <2>3 DEF BInv, Entered, Worked, Starting, Turning
<1>7. CASE BootFeed
  <2>1. stage' \in {"payload", "aborted"} /\ worked' = {} /\ UNCHANGED bvars
    BY <1>7 DEF BootFeed, Goto
  <2> QED BY <1>0, <2>1, Booting DEF bvars, Before
<1> QED BY <1>1, <1>2, <1>3, <1>4, <1>5, <1>6, <1>7

(* The handoff and its terminal point.                                     *)
LEMMA HandoffStep ==
  ASSUME RInv, Armed', HandoffFails \/ Admit \/ Operate \/ TransferOwner \/ Terminal
  PROVE  BInv'
<1>0. /\ worked \in SUBSET Bit /\ tried \in 0..Slots /\ length \in 0..MaxTotal
      /\ hashed \in 0..length /\ op \in 0..Operations /\ intended \in 0..MaxEpoch
      /\ epoch \in 1..MaxEpoch
  BY DEF RInv, BootTyped, WInv, WatchdogTypeOK
<1>1. CASE HandoffFails
  BY <1>1, Stopping DEF HandoffFails, BridgeQuarantine, Goto
<1>2. CASE Admit
  <2>1. /\ stage' = "operations" /\ intended' = epoch + 1 /\ epoch < MaxEpoch
        /\ UNCHANGED <<worked, tried, length, hashed, op, handoff, state, entry_epoch, gptm,
                       turn_epoch>>
    BY <1>2 DEF Admit, Goto, Quiet
  <2>2. intended' \in 0..MaxEpoch
    BY <1>0, <2>1, Bounds
  <2> QED BY <1>0, <2>1, <2>2, Booting DEF Before
<1>3. CASE Operate
  <2>1. /\ stage' \in {"operations", "transfer"}
        /\ op' = op \/ (op < Operations /\ op' = op + 1)
        /\ UNCHANGED <<worked, tried, length, hashed, handoff, intended, state, entry_epoch, gptm,
                       turn_epoch>>
    BY <1>3 DEF Operate, Goto, Quiet
  <2>2. op' \in 0..Operations
    BY <1>0, <2>1, Bounds
  <2> QED BY <1>0, <2>1, <2>2, Booting DEF Before
<1>4. CASE TransferOwner
  BY <1>0, <1>4, Booting DEF TransferOwner, Goto, bvars, Before
<1>5. CASE Terminal
  <2>1. /\ stage' = "prepare" /\ handoff' = "finished"
        /\ UNCHANGED <<worked, tried, length, hashed, op, intended, state, entry_epoch, gptm,
                       turn_epoch>>
    BY <1>5 DEF Terminal, Goto, Quiet
  <2>2. BootTyped'
    BY <2>1, StageSets DEF Sets, RInv, BootTyped
  <2> QED BY <2>1, <2>2 DEF BInv, Entered, Worked, Starting, Turning
<1> QED BY <1>1, <1>2, <1>3, <1>4, <1>5

(* The capsule: its first check establishes what the rest relies on, and   *)
(* nothing changes the controller until the loop.                          *)
LEMMA ContinuityStep ==
  ASSUME RInv, Armed', Prepare \/ BeginDispatch \/ Early \/ CReady \/ NetClock \/ Release
  PROVE  BInv'
<1>1. /\ UNCHANGED wvars
      /\ UNCHANGED <<worked, tried, length, hashed, op, handoff, intended, turn_epoch>>
      /\ gptm' \in {gptm, "FAILED", "RELEASED"}
  BY DEF Prepare, BeginDispatch, Early, CReady, NetClock, Release, Continue, Quiet
<1>2. UNCHANGED <<configured, blocked, owner, epoch, evidence>>
  BY <1>1 DEF wvars, control
<1>3. CASE stage' = "stopped"
  <2>1. state' \in {state, "FAILED"} /\ entry_epoch' = entry_epoch /\ gptm' \in {gptm, "FAILED"}
    BY <1>3 DEF Prepare, BeginDispatch, Early, CReady, NetClock, Release, Continue, Goto
  <2> QED BY <1>1, <1>3, <2>1, Stopping
<1>4. CASE stage' # "stopped"
  <2>1. /\ stage' \in Starting \ {"prepare"} \/ (stage' = "turn" /\ gptm' = "RELEASED")
        /\ state' \in {"PREPARED", "DISPATCHING", "ENTERED", "C_READY"}
        /\ stage' \in {"release", "turn"} => state' = "C_READY"
        /\ entry_epoch' \in {entry_epoch, intended}
        /\ configured /\ ~blocked /\ owner = "APPLICATION" /\ handoff = "finished"
        /\ stage' # "turn" => epoch = entry_epoch' /\ evidence = {}
    <3>1. CASE Prepare
      BY <1>4, <3>1 DEF Prepare, Continue, Controller, Goto, Starting
    <3>2. CASE BeginDispatch \/ Early \/ CReady \/ NetClock
      BY <1>4, <3>2 DEF BeginDispatch, Early, CReady, NetClock, Continue, Controller, Goto,
                        Starting, RInv, Entered, At
    <3>3. CASE Release
      BY <1>4, <3>3 DEF Release, Goto, Starting, RInv, Entered, At
    <3> QED BY <3>1, <3>2, <3>3
  <2>2. BootTyped'
    BY <1>1, <2>1, StageSets DEF Sets, Starting, RInv, BootTyped
  <2>3. Entered'
    BY <1>1, <1>2, <2>1 DEF Entered, Starting, Turning
  <2>4. Worked'
    BY <2>1 DEF Worked, Starting
  <2> QED BY <2>2, <2>3, <2>4 DEF BInv
<1> QED BY <1>3, <1>4

(* A turn of the application's loop.                                       *)
LEMMA TurnStep ==
  ASSUME RInv, Armed',
         \/ BeginTurn \/ ServeEthernet \/ ServeTimers \/ ServeFtp
         \/ (\E b \in Bit : Report(b)) \/ TurnFeed \/ Publish
  PROVE  BInv'
<1>1. /\ UNCHANGED <<tried, length, hashed, op, handoff, intended, state, entry_epoch, gptm>>
      /\ turn_epoch' \in {turn_epoch, epoch}
      /\ stage \in Turning
  BY DEF BeginTurn, ServeEthernet, ServeTimers, ServeFtp, Serve, Report, TurnFeed, Publish,
         TurnKeeps, At, Turning
<1>2. /\ configured /\ ~blocked /\ owner = "APPLICATION" /\ handoff = "finished"
      /\ gptm = "RELEASED" /\ state = "C_READY"
  BY <1>1 DEF RInv, Entered
<1>3. CASE stage' = "stopped"
  <2>1. worked' \in {worked, {}}
    BY <1>3 DEF BeginTurn, ServeEthernet, ServeTimers, ServeFtp, Serve, Report, TurnFeed, Publish,
                Goto
  <2> QED BY <1>1, <1>3, <2>1, Stopping
<1>4. CASE stage' # "stopped"
  <2>1. stage' \in Turning /\ worked' \in SUBSET Bit /\ Worked'
    <3>1. CASE BeginTurn
      BY <1>4, <3>1 DEF BeginTurn, Goto, Turning, Worked
    <3>2. CASE ServeEthernet
      BY <1>4, <3>2 DEF ServeEthernet, Serve, At, Goto, Turning, RInv, Worked, Bit
    <3>3. CASE ServeTimers
      BY <1>4, <3>3 DEF ServeTimers, Serve, At, Goto, Turning, RInv, Worked, Bit
    <3>4. CASE ServeFtp
      BY <1>4, <3>4 DEF ServeFtp, Serve, At, Goto, Turning, RInv, Worked, Bit
    <3>5. CASE \E b \in Bit : Report(b)
      BY <1>4, <3>5 DEF Report, At, Goto, Turning, RInv, Worked
    <3>6. CASE TurnFeed \/ Publish
      BY <1>4, <3>6 DEF TurnFeed, Publish, At, Goto, Turning, RInv, Worked, BootTyped
    <3> QED BY <3>1, <3>2, <3>3, <3>4, <3>5, <3>6
  <2>2. UNCHANGED <<configured, blocked, owner>>
    <3>1. CASE BeginTurn \/ ServeEthernet \/ ServeTimers \/ ServeFtp \/ Publish
      BY <3>1 DEF BeginTurn, ServeEthernet, ServeTimers, ServeFtp, Serve, Publish, wvars, control
    <3>2. CASE \E b \in Bit : Report(b)
      BY <3>2 DEF Report, ApplicationReport, wvars, control
    <3>3. CASE TurnFeed
      <4>1. Service("APPLICATION", turn_epoch, "OK")
        BY <1>4, <3>3 DEF TurnFeed, Goto
      <4>2. ReadyResult("APPLICATION", turn_epoch) = "OK" => Restart("APPLICATION", "OK")
        BY <4>1 DEF Service
      <4> QED BY <4>1, <4>2 DEF Service, Restart, wvars, control
    <3> QED BY <3>1, <3>2, <3>3
  <2>3. turn_epoch' \in 0..MaxEpoch
    BY <1>1, Bounds DEF RInv, BootTyped, WInv, WatchdogTypeOK
  <2>4. BootTyped'
    BY <1>1, <2>1, <2>3, StageSets DEF Sets, Turning, RInv, BootTyped
  <2>5. Entered'
    BY <1>1, <1>2, <2>1, <2>2 DEF Entered, Turning, Starting
  <2> QED BY <2>1, <2>4, <2>5 DEF BInv
<1> QED BY <1>3, <1>4

(* The watchdog counts, or resets the board.                               *)
LEMMA HardwareStep == ASSUME RInv, Armed', Countdown \/ HardwareReset PROVE BInv'
<1>1. CASE Countdown
  BY <1>1 DEF Countdown, Tick, bvars, control, BInv, RInv, BootTyped, Entered, Worked
<1>2. CASE HardwareReset
  <2>1. BootTyped'
    BY <1>2, StageSets, Bounds DEF HardwareReset, Sets, BootTyped
  <2> QED BY <1>2, <2>1 DEF HardwareReset, BInv, Entered, Worked, Starting, Turning
<1> QED BY <1>1, <1>2

(* The invariant of a boot is inductive.                                   *)
LEMMA StepBoot == RInv /\ [Next]_vars => RInv'
<1> SUFFICES ASSUME RInv, [Next]_vars PROVE RInv' OBVIOUS
<1>1. WInv' /\ Armed'
  BY StepUses, StepWatchdog, ArmedKept DEF RInv
<1>2. CASE UNCHANGED vars
  BY <1>1, <1>2 DEF vars, bvars, wvars, control, RInv, BootTyped, Entered, Worked
<1>3. CASE Next
  BY <1>1, <1>3, ProducerStep, SelectionStep, HandoffStep, ContinuityStep, TurnStep, HardwareStep
     DEF Next, Bootloader, Application, BInv, RInv
<1> QED BY <1>2, <1>3

(* A boot starts with the invariant.                                       *)
LEMMA InitBoot == Init => RInv
<1> SUFFICES ASSUME Init PROVE RInv OBVIOUS
<1>1. WInv
  BY InitWatchdog DEF Init
<1>2. BootTyped
  BY StageSets, Bounds DEF Init, Fresh, Sets, BootTyped
<1>3. Armed
  BY DEF Init, WatchdogInit, Armed
<1> QED BY <1>1, <1>2, <1>3 DEF RInv, Init, Fresh, Entered, Worked, Starting, Turning

-----------------------------------------------------------------------------
(* What holds of every boot                                                *)

(* Type correctness, for any number of slots, operations, epochs and       *)
(* chunks.                                                                 *)
THEOREM BootTypeTheorem == Spec => []TypeOK
<1>1. RInv => TypeOK
  BY BootTypes DEF RInv, WInv
<1> QED BY <1>1, InitBoot, StepBoot, PTL DEF Spec

(* The bootloader and the application together are a caller the controller *)
(* allows: a boot implements the controller's specification, and whatever  *)
(* was proved of the controller for any caller holds in every boot.        *)
THEOREM UsesTheorem == Spec => UsesController
<1>1. Init => WatchdogInit
  BY DEF Init
<1>2. RInv /\ [Next]_vars => [WatchdogNext]_wvars
  BY StepUses
<1> QED BY <1>1, <1>2, InitBoot, StepBoot, PTL DEF Spec, UsesController, WatchdogSpec

(* So in every boot the bootloader feeds the watchdog at most once for     *)
(* each distinct milestone, every feed has an epoch of its own, the        *)
(* application feeds it only on its own complete reports, and a quarantine *)
(* is final.                                                               *)
THEOREM InheritedTheorem ==
  Spec => /\ [](FeedsAreMilestones /\ EpochNamesOneFeed)
          /\ ApplicationFeedIsComplete /\ QuarantineIsFinal
BY UsesTheorem, MilestonesTheorem, EpochTheorem, CompleteTheorem, QuarantineTheorem, PTL
   DEF UsesController

(* The application's code runs only under an armed watchdog that is its    *)
(* own, first in the epoch announced to it, and its loop only with the     *)
(* startup timer given up.                                                 *)
THEOREM EnteredTheorem == Spec => []EnteredProtected
<1>1. RInv => EnteredProtected
  BY DEF RInv, Armed, Entered, EnteredProtected, Starting, Turning
<1> QED BY <1>1, InitBoot, StepBoot, PTL DEF Spec

(* The watchdog is restarted only for work done since the last restart.    *)
THEOREM WorkTheorem == Spec => FedForWork
<1>1. ASSUME RInv, Next, Alive, feeds' # feeds PROVE worked = Required(owner)
  <2>1. [WatchdogNext]_wvars /\ ~UNCHANGED wvars
    BY <1>1, StepUses DEF wvars, past
  <2>2. CASE BootFeed
    <3>1. worked = {Milestone}
      BY <1>1, <2>2 DEF BootFeed, At, RInv, Worked
    <3>2. PICK result \in Result : Service("BOOT", epoch, result)
      BY <2>2 DEF BootFeed
    <3>3. ReadyResult("BOOT", epoch) = "OK"
      BY <1>1, <3>2 DEF Service, wvars, past
    <3> QED BY <3>1, <3>3, ReadyMeans DEF Required
  <2>3. CASE TurnFeed
    <3>1. worked = Bit /\ owner = "APPLICATION"
      BY <1>1, <2>3 DEF TurnFeed, At, RInv, Worked, Entered, Turning
    <3> QED BY <3>1 DEF Required, APP_REQUIRED
  <2>4. CASE QuietStep
    BY <2>1, <2>4, QuietMeans
  <2>5. CASE ProducerFails \/ RuntimeFails \/ HandoffFails \/ Preflight
    BY <1>1, <2>5, Calls DEF Abandon, DiscardEvidence, wvars, past
  <2>6. CASE Arm
    BY <1>1, <2>6, Calls DEF Configure, wvars, past
  <2>7. CASE VerifyBegin \/ Authenticate \/ HashChunk
    BY <1>1, <2>7, Calls DEF ReportBegin, ReportProgress, wvars, past
  <2>8. CASE TransferOwner \/ \E b \in Bit : Report(b)
    BY <1>1, <2>8, Calls DEF Transfer, ApplicationReport, wvars, past
  <2>9. ~Countdown /\ ~HardwareReset
    BY <1>1, Bounds DEF Countdown, Tick, HardwareReset, Expire, Alive, past
  <2> QED BY <1>1, <2>2, <2>3, <2>4, <2>5, <2>6, <2>7, <2>8, <2>9
          DEF Next, Bootloader, Application, QuietStep
<1>2. RInv /\ [Next]_vars => [WorkStep]_vars
  BY <1>1 DEF WorkStep
<1> QED BY <1>2, InitBoot, StepBoot, PTL DEF Spec, FedForWork
=============================================================================
