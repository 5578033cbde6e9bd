---------------------------- MODULE BootWatchdog ----------------------------
(***************************************************************************)
(* The watchdog controller of src/src/boot_watchdog.c, with the hardware   *)
(* watchdog behind it and any caller: every public call, with every owner, *)
(* epoch, verification, phase and byte count, in any order.  One behaviour *)
(* runs from reset to reset.                                               *)
(*                                                                         *)
(* Data abstraction.  Byte counts are in verifier chunks (the last one may *)
(* be short).  The registers are reduced to whether the watchdog is        *)
(* enabled, whether it is unlocked and the ticks since it was last         *)
(* restarted.  IO stands for IO and VERIFY: an access that fails may have  *)
(* had its effect.  Entry is exclusive (one thread, no callback re-enters) *)
(* so BUSY does not arise, and the arguments are in range.                 *)
(***************************************************************************)
EXTENDS Naturals, FiniteSets

CONSTANTS
  MaxEpoch,        \* the last epoch, UINT32_MAX in the code
  MaxVerification, \* the last verification number, UINT32_MAX in the code
  MaxTotal,        \* chunks of the largest payload, 436 in the code
  Budget           \* ticks from a restart of the watchdog to the reset

ASSUME EpochAssumption == MaxEpoch \in Nat \ {0, 1}
ASSUME VerificationAssumption == MaxVerification \in Nat \ {0}
ASSUME TotalAssumption == MaxTotal \in Nat \ {0}
ASSUME BudgetAssumption == Budget \in Nat \ {0}

VARIABLES
  \* boot_watchdog_t
  configured, blocked, owner, epoch, evidence, verification, total, completed, phase,
  \* the hardware
  enabled,     \* CTL: reset and interrupt enabled
  unlocked,    \* LOCK
  timer,       \* ticks since LOAD or ICR was written
  \* history
  milestones,  \* the verifier milestones accepted so far
  reported,    \* the application's reports accepted since the last feed
  feeds        \* how often each owner restarted the running watchdog

stream   == <<verification, total, completed, phase>>
control  == <<configured, blocked, owner, epoch, evidence, stream>>
hardware == <<enabled, unlocked, timer>>
past     == <<milestones, reported, feeds>>
wvars    == <<control, hardware, past>>

Owner == {"BOOT", "APPLICATION"}
ETHERNET == 1
TIMERS == 2
FTP == 4

(* The bits of boot_watchdog_t.evidence; the bootloader's milestone is the *)
(* bit that the application uses for Ethernet.                             *)
Bit == {ETHERNET, TIMERS, FTP}
APP_REQUIRED == Bit
Milestone == 1
Required(o) == IF o = "BOOT" THEN {Milestone} ELSE APP_REQUIRED

WatchdogTypeOK ==
  /\ configured \in BOOLEAN /\ blocked \in BOOLEAN
  /\ enabled \in BOOLEAN /\ unlocked \in BOOLEAN
  /\ owner \in Owner
  /\ epoch \in 1..MaxEpoch
  /\ evidence \in SUBSET Bit /\ reported \in SUBSET Bit
  /\ verification \in 0..MaxVerification
  /\ total \in 0..MaxTotal /\ completed \in 0..MaxTotal /\ completed <= total
  /\ phase \in 0..2
  /\ timer \in 0..Budget
  /\ milestones \in SUBSET ((1..MaxVerification) \X (0..MaxTotal))
  /\ IsFiniteSet(milestones)
  /\ feeds \in [Owner -> Nat]

-----------------------------------------------------------------------------
(* boot_watchdog_init, after a hardware reset; a debugger may have started *)
(* the bootloader with the watchdog already running.                       *)
WatchdogInit ==
  /\ configured = FALSE /\ blocked = FALSE
  /\ owner = "BOOT" /\ epoch = 1 /\ evidence = {}
  /\ verification = 0 /\ total = 0 /\ completed = 0 /\ phase = 0
  /\ enabled \in BOOLEAN /\ unlocked = FALSE /\ timer = 0
  /\ milestones = {} /\ reported = {} /\ feeds = [o \in Owner |-> 0]

Alive == timer < Budget

(* quarantine_held and stop: for good, as far as software goes.            *)
Quarantine ==
  /\ blocked' = TRUE
  /\ evidence' = {}
  /\ UNCHANGED <<configured, owner, epoch, stream>>

\* Faulty variant: only the owner and the epoch are checked.
ReadyResultUnblocked(o, e) ==
  IF ~configured \/ o # owner \/ e # epoch THEN "STATE" ELSE "OK"

ReadyResult(o, e) ==
  IF blocked THEN "BLOCKED"
  ELSE IF ~configured \/ o # owner \/ e # epoch THEN "STATE"
  ELSE "OK"

(* boot_watchdog_configure: once, on a watchdog that is not running.  A    *)
(* failure before the unlock leaves the hardware alone; a later one may    *)
(* have enabled it, and nothing ever disables it.                          *)
Configure(result) ==
  \/ /\ blocked \/ configured
     /\ result = IF blocked THEN "BLOCKED" ELSE "STATE"
     /\ UNCHANGED wvars
  \/ /\ ~blocked /\ ~configured /\ enabled
     /\ result = "STATE"
     /\ Quarantine
     /\ UNCHANGED <<hardware, past>>
  \/ /\ ~blocked /\ ~configured /\ ~enabled
     /\ result = "OK"
     /\ configured' = TRUE
     /\ enabled' = TRUE /\ unlocked' = FALSE /\ timer' = 0
     /\ UNCHANGED <<blocked, owner, epoch, evidence, stream, past>>
  \/ /\ ~blocked /\ ~configured /\ ~enabled
     /\ result = "IO"
     /\ Quarantine
     /\ enabled' \in BOOLEAN /\ unlocked' \in BOOLEAN
     /\ UNCHANGED <<timer, past>>

\* Faulty variant: the epoch stays.
RestartSameEpoch(o, result) ==
  /\ result = "OK"
  /\ timer' = 0
  /\ evidence' = {}
  /\ feeds' = [feeds EXCEPT ![o] = @ + 1]
  /\ reported' = {}
  /\ UNCHANGED <<configured, blocked, owner, epoch, stream, enabled, unlocked, milestones>>

(* The register accesses of boot_watchdog_service_held.  The evidence is   *)
(* used up whether or not they succeed.                                    *)
Restart(o, result) ==
  \/ /\ result = "OK"
     /\ enabled
     /\ evidence' = {} /\ epoch' = epoch + 1
     /\ timer' = 0 /\ unlocked' = FALSE
     /\ feeds' = [feeds EXCEPT ![o] = @ + 1] /\ reported' = {}
     /\ UNCHANGED <<configured, blocked, owner, stream, enabled, milestones>>
  \/ /\ result = "IO"                     \* before ICR is written
     /\ Quarantine
     /\ unlocked' \in BOOLEAN
     /\ UNCHANGED <<enabled, timer, past>>
  \/ /\ result = "IO"                     \* with ICR written
     /\ Quarantine
     /\ unlocked' \in BOOLEAN
     /\ timer' = 0
     /\ feeds' = [feeds EXCEPT ![o] = @ + 1] /\ reported' = {}
     /\ UNCHANGED <<enabled, milestones>>

(* boot_watchdog_service_held: only for the owner, in the current epoch,   *)
(* with its full evidence, and never past the last epoch.                  *)
Service(o, e, result) ==
  \/ /\ ReadyResult(o, e) # "OK"
     /\ result = ReadyResult(o, e)
     /\ UNCHANGED wvars
  \/ /\ ReadyResult(o, e) = "OK" /\ evidence # Required(o)
     /\ result = "PROGRESS"
     /\ UNCHANGED wvars
  \/ /\ ReadyResult(o, e) = "OK" /\ evidence = Required(o) /\ epoch = MaxEpoch
     /\ result = "STATE"
     /\ Quarantine
     /\ UNCHANGED <<hardware, past>>
  \/ /\ ReadyResult(o, e) = "OK" /\ evidence = Required(o) /\ epoch < MaxEpoch
     /\ Restart(o, result)

\* Faulty variant: what the bootloader reported is handed over too.
TransferKeepsEvidence(e, result) ==
  /\ ReadyResult("BOOT", e) = "OK" /\ epoch < MaxEpoch
  /\ result = "OK"
  /\ owner' = "APPLICATION" /\ epoch' = epoch + 1
  /\ UNCHANGED <<configured, blocked, evidence, stream, hardware, past>>

(* boot_watchdog_transfer_held: one way, without a restart and without any *)
(* evidence.                                                               *)
Transfer(e, result) ==
  \/ /\ ReadyResult("BOOT", e) # "OK"
     /\ result = ReadyResult("BOOT", e)
     /\ UNCHANGED wvars
  \/ /\ ReadyResult("BOOT", e) = "OK" /\ epoch = MaxEpoch
     /\ result = "STATE"
     /\ Quarantine
     /\ UNCHANGED <<hardware, past>>
  \/ /\ ReadyResult("BOOT", e) = "OK" /\ epoch < MaxEpoch
     /\ result = "OK"
     /\ owner' = "APPLICATION" /\ evidence' = {} /\ epoch' = epoch + 1
     /\ UNCHANGED <<configured, blocked, stream, hardware, past>>

(* boot_watchdog_report_held, MANIFEST_BEGIN: a new verification, which is *)
(* no evidence and drops what there was.                                   *)
BeginAccepted(v, c, t) == v > verification /\ c = 0 /\ t \in 1..MaxTotal

ReportBegin(e, v, c, t, result) ==
  \/ /\ ReadyResult("BOOT", e) # "OK"
     /\ result = ReadyResult("BOOT", e)
     /\ UNCHANGED wvars
  \/ /\ ReadyResult("BOOT", e) = "OK" /\ ~BeginAccepted(v, c, t)
     /\ result = "PROGRESS"
     /\ UNCHANGED wvars
  \/ /\ ReadyResult("BOOT", e) = "OK" /\ BeginAccepted(v, c, t)
     /\ result = "OK"
     /\ verification' = v /\ total' = t /\ completed' = 0 /\ evidence' = {} /\ phase' = 1
     /\ UNCHANGED <<configured, blocked, owner, epoch, hardware, past>>

\* Faulty variant: a chunk that was reported before counts again.
ProgressAcceptedAgain(p, v, c, t) ==
  /\ v = verification /\ t = total
  /\ \/ p = "AUTHENTICATED" /\ phase = 1 /\ c = 0
     \/ p = "PAYLOAD" /\ phase = 2 /\ c \in {completed, completed + 1} /\ c \in 1..total

(* The other phases: authentication once, then the payload chunk by chunk. *)
ProgressAccepted(p, v, c, t) ==
  /\ v = verification /\ t = total
  /\ \/ p = "AUTHENTICATED" /\ phase = 1 /\ c = 0
     \/ p = "PAYLOAD" /\ phase = 2 /\ c = completed + 1 /\ c <= total

ReportProgress(p, e, v, c, t, result) ==
  \/ /\ ReadyResult("BOOT", e) # "OK"
     /\ result = ReadyResult("BOOT", e)
     /\ UNCHANGED wvars
  \/ /\ ReadyResult("BOOT", e) = "OK" /\ ~ProgressAccepted(p, v, c, t)
     /\ result = "PROGRESS"
     /\ UNCHANGED wvars
  \/ /\ ReadyResult("BOOT", e) = "OK" /\ ProgressAccepted(p, v, c, t)
     /\ result = "OK"
     /\ phase' = 2 /\ completed' = c /\ evidence' = {Milestone}
     /\ milestones' = milestones \cup {<<v, c>>}
     /\ UNCHANGED <<configured, blocked, owner, epoch, verification, total, hardware,
                    reported, feeds>>

(* boot_watchdog_application_report: each predicate once per epoch.        *)
ApplicationReport(e, b, complete, result) ==
  \/ /\ ReadyResult("APPLICATION", e) # "OK"
     /\ result = ReadyResult("APPLICATION", e)
     /\ UNCHANGED wvars
  \/ /\ ReadyResult("APPLICATION", e) = "OK" /\ (~complete \/ b \in evidence)
     /\ result = "PROGRESS"
     /\ UNCHANGED wvars
  \/ /\ ReadyResult("APPLICATION", e) = "OK" /\ complete /\ b \notin evidence
     /\ result = "OK"
     /\ evidence' = evidence \cup {b}
     /\ reported' = reported \cup {b}
     /\ UNCHANGED <<configured, blocked, owner, epoch, stream, hardware, milestones, feeds>>

(* What the bridge and the producer write themselves: the bridge discards  *)
(* evidence before it starts, and both quarantine on failure.              *)
DiscardEvidence ==
  /\ evidence' = {}
  /\ UNCHANGED <<configured, blocked, owner, epoch, stream, hardware, past>>

\* Faulty variant: an abandoned watchdog is switched off.
AbandonDisables ==
  /\ Quarantine
  /\ enabled' = FALSE
  /\ UNCHANGED <<unlocked, timer, past>>

Abandon == Quarantine /\ UNCHANGED <<hardware, past>>

(* The hardware: an enabled watchdog counts down, and then resets the chip. *)
Tick ==
  /\ enabled /\ Alive
  /\ timer' = timer + 1
  /\ UNCHANGED <<control, enabled, unlocked, past>>

ResetState ==
  /\ configured' = FALSE /\ blocked' = FALSE
  /\ owner' = "BOOT" /\ epoch' = 1 /\ evidence' = {}
  /\ verification' = 0 /\ total' = 0 /\ completed' = 0 /\ phase' = 0
  /\ enabled' = FALSE /\ unlocked' = FALSE /\ timer' = 0
  /\ milestones' = {} /\ reported' = {} /\ feeds' = [o \in Owner |-> 0]

Expire == timer = Budget /\ ResetState

Result == {"OK", "BLOCKED", "STATE", "PROGRESS", "IO"}

AnyCall ==
  \E e \in 0..MaxEpoch, result \in Result :
    \/ Configure(result)
    \/ \E o \in Owner : Service(o, e, result)
    \/ Transfer(e, result)
    \/ \E v \in 0..MaxVerification, c \in 0..(MaxTotal + 1), t \in 0..(MaxTotal + 1) :
         \/ ReportBegin(e, v, c, t, result)
         \/ \E p \in {"AUTHENTICATED", "PAYLOAD"} : ReportProgress(p, e, v, c, t, result)
    \/ \E b \in Bit, complete \in BOOLEAN : ApplicationReport(e, b, complete, result)

WatchdogNext ==
  \/ Alive /\ AnyCall
  \/ Alive /\ DiscardEvidence
  \/ Alive /\ Abandon
  \/ Tick
  \/ Expire

WatchdogSpec == WatchdogInit /\ [][WatchdogNext]_wvars

-----------------------------------------------------------------------------
(* Properties                                                              *)

(* The bootloader restarts the watchdog at most once for every distinct    *)
(* milestone of a verification, whatever it replays, repeats or begins     *)
(* anew: it cannot keep a boot that makes no progress alive.               *)
FeedsAreMilestones == feeds["BOOT"] <= Cardinality(milestones)

(* Every restart has an epoch of its own, and so has the transfer: a       *)
(* service call that comes late or twice names an epoch that is over.      *)
EpochNamesOneFeed ==
  ~blocked => epoch = 1 + feeds["BOOT"] + feeds["APPLICATION"]
                        + (IF owner = "APPLICATION" THEN 1 ELSE 0)

CompleteStep ==
  Alive /\ feeds'["APPLICATION"] # feeds["APPLICATION"] => reported = APP_REQUIRED

(* The application restarts the watchdog only after it has itself reported *)
(* all three predicates since the last restart; nothing the bootloader     *)
(* left behind counts.                                                     *)
ApplicationFeedIsComplete == [][CompleteStep]_wvars

FeedStep ==
  Alive =>
    /\ blocked => blocked' /\ feeds' = feeds
    /\ owner = "APPLICATION" => /\ owner' = "APPLICATION"
                                /\ feeds'["BOOT"] = feeds["BOOT"]
    /\ enabled => enabled'

(* Until the reset, a quarantined controller is never fed again, the       *)
(* bootloader never feeds after the transfer, and the watchdog, once       *)
(* enabled, is never disabled.                                             *)
QuarantineIsFinal == [][FeedStep]_wvars
=============================================================================
