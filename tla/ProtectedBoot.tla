---------------------------- MODULE ProtectedBoot ----------------------------
(***************************************************************************)
(* One boot under the watchdog, from reset to reset: boot_sequence.c with  *)
(* boot_startup_producer.c, the bridge boot_runtime_watchdog.c around      *)
(* boot_runtime.c and boot_verify.c, boot_handoff.c, boot_startup.c with   *)
(* boot_startup_gptm.c, and then the application's foreground_owner.c.     *)
(*                                                                         *)
(* What the bootloader decides is in BootSystem; here a decision is a      *)
(* number of verifications with any outcome.  The watchdog is BootWatchdog *)
(* and this module is its only caller.  Every step may fail where the code *)
(* checks it, and may simply not happen: a step that hangs.  Objects and   *)
(* register values that the code compares and that nothing changes are     *)
(* taken to match.                                                         *)
(***************************************************************************)
EXTENDS BootWatchdog

CONSTANTS
  Slots,      \* slots a selection may verify, 2 in the code
  Operations  \* operations of the handoff before the transfer, 11 in the code

ASSUME SlotsAssumption == Slots \in Nat \ {0}
ASSUME OperationsAssumption == Operations \in Nat

VARIABLES
  stage,       \* where the processor is
  tried,       \* slots verified so far
  length,      \* chunks of the payload being verified
  hashed,      \* chunks of it read and hashed
  op,          \* handoff operations done
  handoff,     \* boot_handoff_t: "ready", "blocked" or "finished"
  intended,    \* boot_handoff_intent_t.application_epoch
  state,       \* boot_startup_t.state
  entry_epoch, \* boot_startup_t.entry_epoch
  gptm,        \* boot_startup_gptm_t.state
  turn_epoch,  \* epoch at the start of an owner turn
  worked       \* history: work done since the last restart, as evidence bits

bvars == <<tried, length, hashed, op, handoff, intended, state, entry_epoch, gptm, turn_epoch>>
vars  == <<wvars, stage, bvars, worked>>

Selecting == {"runtime", "select", "begin", "signature", "payload", "boot_feed", "aborted",
              "decide"}
Handing == {"admit", "operations", "transfer", "terminal"}
Starting == {"prepare", "dispatch", "entry", "c_ready", "clock", "release"}
Turning == {"turn", "ethernet", "timers", "ftp", "report", "feed", "publish"}

TypeOK ==
  /\ WatchdogTypeOK
  /\ stage \in {"early", "reset", "claim", "configure", "stopped"}
               \cup Selecting \cup Handing \cup Starting \cup Turning
  /\ tried \in 0..Slots /\ length \in 0..MaxTotal /\ hashed \in 0..length
  /\ op \in 0..Operations
  /\ handoff \in {"ready", "blocked", "finished"}
  /\ {intended, entry_epoch, turn_epoch} \subseteq 0..MaxEpoch
  /\ state \in {"EMPTY", "PREPARED", "DISPATCHING", "ENTERED", "C_READY", "FAILED"}
  /\ gptm \in {"none", "CLAIMED", "RELEASED", "FAILED"}
  /\ worked \in SUBSET Bit

(* The RAM objects as the reset code and their init functions leave them.  *)
Fresh ==
  /\ stage = "early"
  /\ tried = 0 /\ length = 0 /\ hashed = 0 /\ op = 0
  /\ handoff = "ready" /\ intended = 0 /\ state = "EMPTY" /\ entry_epoch = 0
  /\ gptm = "none" /\ turn_epoch = 0 /\ worked = {}

Init == WatchdogInit /\ Fresh

-----------------------------------------------------------------------------
(* Stages                                                                  *)

At(s) == stage = s /\ Alive
Goto(s) == stage' = s
Quiet == UNCHANGED <<wvars, worked>>

(* A failure before or after the protected transaction: stop, with the     *)
(* watchdog as it is.                                                      *)
Halts(s) ==
  /\ At(s)
  /\ Goto("stopped")
  /\ Quiet /\ UNCHANGED bvars

(* boot_sequence run: the early cause read, before anything is armed.      *)
EarlyRead ==
  /\ At("early")
  /\ Goto("reset")
  /\ Quiet /\ UNCHANGED bvars

(* failed, in the producer: continuity is FAILED and the controller        *)
(* quarantined.                                                            *)
ProducerFails ==
  /\ At("reset") \/ At("claim")
  /\ Abandon
  /\ state' = "FAILED"
  /\ gptm' = IF stage = "claim" THEN "FAILED" ELSE gptm
  /\ Goto("stopped")
  /\ UNCHANGED <<worked, tried, length, hashed, op, handoff, intended, entry_epoch, turn_epoch>>

(* boot_startup_reset and boot_watchdog_target_clock_ready                 *)
StartupReset ==
  /\ At("reset")
  /\ Goto("claim")
  /\ Quiet /\ UNCHANGED bvars

(* boot_startup_gptm_claim                                                 *)
GptmClaim ==
  /\ At("claim")
  /\ gptm' = "CLAIMED"
  /\ Goto("configure")
  /\ Quiet
  /\ UNCHANGED <<tried, length, hashed, op, handoff, intended, state, entry_epoch, turn_epoch>>

(* The watchdog is armed; only then does the protected transaction start.  *)
Arm ==
  /\ At("configure")
  /\ \E result \in Result :
       /\ Configure(result)
       /\ Goto(IF result = "OK" THEN "runtime" ELSE "stopped")
       /\ state' = IF result = "OK" THEN state ELSE "FAILED"
  /\ UNCHANGED <<worked, tried, length, hashed, op, handoff, intended, entry_epoch, gptm,
                 turn_epoch>>

-----------------------------------------------------------------------------
(* The bridge                                                              *)

\* Faulty variant: a failed transaction takes the watchdog back.
BridgeRollsBack ==
  /\ owner' = "BOOT" /\ blocked' = TRUE /\ evidence' = {}
  /\ handoff' = "blocked"
  /\ Goto("stopped")
  /\ UNCHANGED <<worked, configured, epoch, stream, hardware, past>>

(* The bridge's exits after its transaction has begun: no cleanup, and     *)
(* both objects are quarantined.                                           *)
BridgeQuarantine ==
  /\ Abandon
  /\ handoff' = "blocked"
  /\ Goto("stopped")
  /\ UNCHANGED worked

(* Reset accounting, an operational verification error, a callback that    *)
(* aborts, a store failure or no image to boot.                            *)
RuntimeFails ==
  /\ stage \in Selecting \ {"boot_feed"} /\ Alive
  /\ BridgeQuarantine
  /\ UNCHANGED <<tried, length, hashed, op, intended, state, entry_epoch, gptm, turn_epoch>>

(* Preflight, then evidence that was there before is dropped.              *)
Preflight ==
  /\ At("runtime")
  /\ IF ~blocked /\ configured /\ owner = "BOOT" /\ handoff = "ready"
     THEN DiscardEvidence /\ Goto("select")
     ELSE UNCHANGED wvars /\ Goto("stopped")
  /\ UNCHANGED <<bvars, worked>>

(* boot_verify_stored on the next slot; a manifest that does not decode    *)
(* ends it before the first callback.                                      *)
VerifyNext ==
  /\ At("select")
  /\ tried < Slots
  /\ tried' = tried + 1
  /\ \/ Goto("select") /\ UNCHANGED <<length, hashed>>
     \/ Goto("begin") /\ length' \in 1..MaxTotal /\ hashed' = 0
  /\ Quiet
  /\ UNCHANGED <<op, handoff, intended, state, entry_epoch, gptm, turn_epoch>>

(* progress at MANIFEST_BEGIN: the next verification number, if there is   *)
(* one; a report that is refused aborts the verification.                  *)
VerifyBegin ==
  /\ At("begin")
  /\ verification < MaxVerification
  /\ ReportBegin(epoch, verification + 1, 0, length, "OK")
  /\ Goto("signature")
  /\ UNCHANGED <<bvars, worked>>

(* The signature verifies, or the image is invalid.                        *)
Authenticate ==
  /\ At("signature")
  /\ \/ /\ ReportProgress("AUTHENTICATED", epoch, verification, 0, length, "OK")
        /\ Goto("boot_feed")
        /\ worked' = {Milestone}
     \/ Goto("select") /\ Quiet
  /\ UNCHANGED bvars

(* The next chunk is read and hashed.                                      *)
HashChunk ==
  /\ At("payload")
  /\ hashed < length
  /\ hashed' = hashed + 1
  /\ ReportProgress("PAYLOAD", epoch, verification, hashed', length, "OK")
  /\ Goto("boot_feed")
  /\ worked' = {Milestone}
  /\ UNCHANGED <<tried, length, op, handoff, intended, state, entry_epoch, gptm, turn_epoch>>

(* progress after a milestone: service; if it fails the verification is    *)
(* aborted.                                                                *)
BootFeed ==
  /\ At("boot_feed")
  /\ \E result \in Result :
       /\ Service("BOOT", epoch, result)
       /\ Goto(IF result = "OK" THEN "payload" ELSE "aborted")
  /\ worked' = {}
  /\ UNCHANGED bvars

(* The whole payload is hashed: the image is good, or invalid.             *)
VerifyEnds ==
  /\ At("payload")
  /\ hashed = length
  /\ Goto("decide") \/ Goto("select")
  /\ Quiet /\ UNCHANGED bvars

(* The selection is committed and published; the handoff is requested in   *)
(* the current epoch.                                                      *)
Decide ==
  /\ At("decide")
  /\ Goto("admit")
  /\ Quiet /\ UNCHANGED bvars

-----------------------------------------------------------------------------
(* boot_handoff run                                                        *)

HandoffFails ==
  /\ stage \in Handing /\ Alive
  /\ BridgeQuarantine
  /\ UNCHANGED <<tried, length, hashed, op, intended, state, entry_epoch, gptm, turn_epoch>>

(* boot_handoff_admit and the check of the watchdog: an epoch is left for  *)
(* the application.                                                        *)
Admit ==
  /\ At("admit")
  /\ epoch < MaxEpoch
  /\ configured /\ ~blocked /\ owner = "BOOT"
  /\ intended' = epoch + 1
  /\ Goto("operations")
  /\ Quiet
  /\ UNCHANGED <<tried, length, hashed, op, handoff, state, entry_epoch, gptm, turn_epoch>>

Operate ==
  /\ At("operations")
  /\ \/ op < Operations /\ op' = op + 1 /\ Goto("operations")
     \/ op = Operations /\ UNCHANGED op /\ Goto("transfer")
  /\ Quiet
  /\ UNCHANGED <<tried, length, hashed, handoff, intended, state, entry_epoch, gptm, turn_epoch>>

TransferOwner ==
  /\ At("transfer")
  /\ Transfer(epoch, "OK")
  /\ Goto("terminal")
  /\ UNCHANGED <<bvars, worked>>

Terminal ==
  /\ At("terminal")
  /\ handoff' = "finished"
  /\ Goto("prepare")
  /\ Quiet
  /\ UNCHANGED <<tried, length, hashed, op, intended, state, entry_epoch, gptm, turn_epoch>>

-----------------------------------------------------------------------------
(* boot_startup: prepare and dispatch in the bootloader, the rest in the   *)
(* application before its loop.                                            *)

Controller(entry) ==
  /\ configured /\ ~blocked /\ owner = "APPLICATION"
  /\ entry => epoch = entry_epoch /\ evidence = {}

(* One step of the capsule: claim, check the controller, sample the clock, *)
(* complete; or fail, which consumes it.                                   *)
Continue(s, before, check, after, next) ==
  /\ At(s)
  /\ \/ /\ state = before /\ check /\ gptm = "CLAIMED"
        /\ state' = after
        /\ Goto(next)
        /\ UNCHANGED gptm
     \/ /\ state' = "FAILED"
        /\ gptm' \in {gptm, "FAILED"}
        /\ Goto("stopped")
  /\ Quiet
  /\ UNCHANGED <<tried, length, hashed, op, handoff, intended, turn_epoch>>

Prepare ==
  /\ Continue("prepare", "EMPTY", /\ handoff = "finished" /\ Controller(FALSE)
                                  /\ evidence = {} /\ intended = epoch,
              "PREPARED", "dispatch")
  /\ entry_epoch' = IF state' = "PREPARED" THEN intended ELSE entry_epoch

BeginDispatch ==
  /\ Continue("dispatch", "PREPARED", Controller(TRUE), "DISPATCHING", "entry")
  /\ UNCHANGED entry_epoch

Early ==
  /\ Continue("entry", "DISPATCHING", Controller(TRUE), "ENTERED", "c_ready")
  /\ UNCHANGED entry_epoch

CReady ==
  /\ Continue("c_ready", "ENTERED", Controller(FALSE), "C_READY", "clock")
  /\ UNCHANGED entry_epoch

(* net_clock_initialize takes the last sample of the inherited clock.      *)
NetClock ==
  /\ Continue("clock", "C_READY", Controller(FALSE), "C_READY", "release")
  /\ UNCHANGED entry_epoch

\* Faulty variant: the result of the release is ignored.
ReleaseUnchecked ==
  /\ At("release")
  /\ gptm' \in {"RELEASED", "FAILED"}
  /\ Goto("turn")
  /\ Quiet
  /\ UNCHANGED <<tried, length, hashed, op, handoff, intended, state, entry_epoch, turn_epoch>>

(* boot_startup_gptm_release: the startup timer is given up for good.      *)
Release ==
  /\ At("release")
  /\ \/ gptm = "CLAIMED" /\ gptm' = "RELEASED" /\ Goto("turn")
     \/ gptm' \in {gptm, "FAILED"} /\ Goto("stopped")
  /\ Quiet
  /\ UNCHANGED <<tried, length, hashed, op, handoff, intended, state, entry_epoch, turn_epoch>>

-----------------------------------------------------------------------------
(* foreground_owner_turn                                                   *)

Running == state = "C_READY" /\ Controller(FALSE)

TurnKeeps ==
  UNCHANGED <<tried, length, hashed, op, handoff, intended, state, entry_epoch, gptm>>

(* Nothing may be left from another turn.                                  *)
BeginTurn ==
  /\ At("turn")
  /\ turn_epoch' = epoch
  /\ Goto(IF Running /\ evidence = {} THEN "ethernet" ELSE "stopped")
  /\ worked' = {}
  /\ UNCHANGED wvars
  /\ TurnKeeps

\* Faulty variant: a failed service goes unnoticed.
ServeAnyhow(s, bit, next) ==
  /\ At(s)
  /\ worked' \in {worked, worked \cup {bit}}
  /\ Goto(next)
  /\ UNCHANGED <<wvars, turn_epoch>>
  /\ TurnKeeps

(* One of the three services completes, or fails, or re-enters the turn:   *)
(* the latter two end the owner for good.                                  *)
Serve(s, bit, next) ==
  /\ At(s)
  /\ \/ worked' = worked \cup {bit} /\ Goto(next)
     \/ UNCHANGED worked /\ Goto("stopped")
  /\ UNCHANGED <<wvars, turn_epoch>>
  /\ TurnKeeps

ServeEthernet == Serve("ethernet", ETHERNET, "timers")
ServeTimers == Serve("timers", TIMERS, "ftp")
ServeFtp == Serve("ftp", FTP, "report")

(* The reports, in their order, only after all three services.             *)
Report(b) ==
  /\ At("report")
  /\ evidence = {c \in Bit : c < b}
  /\ IF Running /\ epoch = turn_epoch
     THEN \E result \in Result :
            /\ ApplicationReport(turn_epoch, b, TRUE, result)
            /\ Goto(IF result # "OK" THEN "stopped" ELSE IF b = FTP THEN "feed" ELSE "report")
     ELSE UNCHANGED wvars /\ Goto("stopped")
  /\ UNCHANGED <<worked, turn_epoch>>
  /\ TurnKeeps

(* Only a turn that is fed goes on to publish its health.                  *)
TurnFeed ==
  /\ At("feed")
  /\ \E result \in Result :
       /\ Service("APPLICATION", turn_epoch, result)
       /\ Goto(IF result = "OK" THEN "publish" ELSE "stopped")
  /\ worked' = {}
  /\ UNCHANGED turn_epoch
  /\ TurnKeeps

Publish ==
  /\ At("publish")
  /\ Goto("turn") \/ Goto("stopped")
  /\ UNCHANGED <<wvars, worked, turn_epoch>>
  /\ TurnKeeps

-----------------------------------------------------------------------------
(* The hardware                                                            *)

Countdown ==
  /\ Tick
  /\ UNCHANGED <<stage, bvars, worked>>

HardwareReset ==
  /\ Expire
  /\ stage' = "early"
  /\ tried' = 0 /\ length' = 0 /\ hashed' = 0 /\ op' = 0
  /\ handoff' = "ready" /\ intended' = 0 /\ state' = "EMPTY" /\ entry_epoch' = 0
  /\ gptm' = "none" /\ turn_epoch' = 0 /\ worked' = {}

Bootloader ==
  \/ Halts("early") \/ EarlyRead \/ ProducerFails \/ StartupReset \/ GptmClaim \/ Arm
  \/ RuntimeFails \/ Preflight \/ VerifyNext \/ VerifyBegin \/ Authenticate \/ HashChunk
  \/ BootFeed \/ VerifyEnds \/ Decide
  \/ HandoffFails \/ Admit \/ Operate \/ TransferOwner \/ Terminal
  \/ Prepare \/ BeginDispatch

Application ==
  \/ Early \/ CReady \/ NetClock \/ Release
  \/ BeginTurn \/ ServeEthernet \/ ServeTimers \/ ServeFtp
  \/ (\E b \in Bit : Report(b)) \/ TurnFeed \/ Publish

Next == Bootloader \/ Application \/ Countdown \/ HardwareReset

Spec == Init /\ [][Next]_vars

(* Only the hardware is fair: any software step may hang.                  *)
FairSpec == Spec /\ WF_vars(Countdown) /\ WF_vars(HardwareReset)

-----------------------------------------------------------------------------
(* Properties                                                              *)

(* The bootloader and the application use the watchdog only as the         *)
(* controller allows, so what holds for any caller holds for them.         *)
UsesController == WatchdogSpec

WorkStep ==
  Alive /\ feeds' # feeds => worked = Required(owner)

(* The watchdog is restarted only for work that was really done since the  *)
(* last restart: a signature or a chunk verified by the bootloader, or all *)
(* three services of one turn of the application.                          *)
FedForWork == [][WorkStep]_vars

(* The application's own code runs only under a watchdog that is armed,    *)
(* not quarantined and its own, until its first turn in the epoch that was *)
(* announced to it; and its loop runs only with the inherited timer given  *)
(* up and the continuity intact.                                           *)
EnteredProtected ==
  stage \in (Starting \ {"prepare", "dispatch"}) \cup Turning =>
    /\ enabled /\ ~blocked /\ owner = "APPLICATION" /\ handoff = "finished"
    /\ stage \in Starting => epoch = entry_epoch /\ evidence = {}
    /\ stage \in Turning => gptm = "RELEASED" /\ state = "C_READY"

(* Once the watchdog is armed the board cannot hang: it gets to the top of *)
(* the application's loop and on from there, or is reset, although every   *)
(* software step may fail to happen.                                       *)
NeverHangs ==
  /\ enabled ~> stage \in {"turn", "early"}
  /\ enabled /\ stage = "turn" ~> stage # "turn"
=============================================================================
