--------------------------- MODULE HandoffTarget ----------------------------
(***************************************************************************)
(* The last steps before an image is entered, on the processor:            *)
(* boot_handoff_target.c carries out the operations that run() of          *)
(* boot_handoff.c asks for, each behind checks of the interrupt controller *)
(* and of the interrupt sources, while the watchdog keeps running and may  *)
(* expire between two register accesses.  ProtectedBoot takes an operation *)
(* as one step that may fail.                                              *)
(*                                                                         *)
(* The interrupts of a bank other than the watchdog's are one interrupt;   *)
(* the registers that show whether the sources are configured as they have *)
(* to be are one bit, sources.  A source that is not idle may raise its    *)
(* interrupt at any time.  The core registers, which nothing changes       *)
(* during the handoff, are left out.  So are the values of the intent but  *)
(* for its vector table.                                                   *)
(***************************************************************************)
EXTENDS Naturals, Sequences

CONSTANTS Slots   \* the vector tables of the two slots

BootVtor == "boot"
ASSUME SlotsAssumption == Slots # {} /\ BootVtor \notin Slots

VARIABLES
  \* the processor
  enabled, pending, active,  \* interrupts
  core,      \* NMI, PendSV or SysTick pending
  systick,   \* SysTick enabled or its interrupt
  vtor,
  sources,   \* every source but the watchdog is idle and the clocks as agreed
  ris,       \* the watchdog expired once; the second time resets
  owner,     \* boot_watchdog_t.owner, "blocked" when it takes no transfer
  \* boot_handoff_target_t
  step, phase, failed, recorded,
  target,    \* the vector table of the intent
  \* run()
  handoff,   \* "running", "refused", "blocked" or "finished"
  \* history
  clean,     \* what the handoff inherited was in order
  disturbed  \* an access failed, a callback reentered or the watchdog expired

inherited == <<active, sources>>
irqs == <<enabled, pending, core, systick, vtor>>
history == <<clean, disturbed>>
handoffVars ==
  <<inherited, irqs, ris, owner, step, phase, failed, recorded, target, handoff, history>>

Irq == {"wdt", "bank0", "bank1"}
Bank(b) == IF b = 0 THEN {"wdt", "bank0"} ELSE {"bank1"}

(* boot_handoff_operation_t, in the order of run() and of the adapter, and *)
(* the terminal intent.                                                    *)
Order == <<"EXCLUDE", "STOP_SYSTICK", "DISABLE_BANK0", "DISABLE_BANK1",
           "QUIESCE_SOURCES", "CLEAR_CORE_PENDING", "CLEAR_BANK0_PENDING",
           "CLEAR_BANK1_PENDING", "BARRIER_BEFORE_VTOR", "SET_VTOR",
           "BARRIER_AFTER_VTOR", "TERMINAL">>
Op == Order[step]

-----------------------------------------------------------------------------
(* The checks                                                              *)

\* Faulty variant: the gate before the clear is as strict as the one after it.
BanksIdleStrict == enabled = {} /\ pending = {} /\ active = {} /\ ~core

(* banks_idle; before the pending bits are cleared, banks_idle_pre lets a  *)
(* pending watchdog interrupt pass.                                        *)
BanksIdle == enabled = {} /\ pending = {} /\ active = {} /\ ~core
BanksIdlePre == enabled = {} /\ pending \subseteq {"wdt"} /\ active = {} /\ ~core

\* Faulty variant: only the watchdog is looked at.
WatchdogIdle == ~ris

(* sources_idle                                                            *)
SourcesIdle == sources /\ ~ris

(* capture                                                                 *)
Captured == BanksIdlePre /\ ~systick /\ SourcesIdle /\ owner = "BOOT"

(* What an operation checks before its write, and after it.                *)
Before(op) ==
  CASE op = "EXCLUDE" -> Captured
    [] op \in {"DISABLE_BANK0", "DISABLE_BANK1", "CLEAR_CORE_PENDING",
               "CLEAR_BANK0_PENDING"} -> BanksIdlePre
    [] op = "QUIESCE_SOURCES" -> SourcesIdle /\ BanksIdlePre
    [] op = "CLEAR_BANK1_PENDING" -> BanksIdle
    [] op = "BARRIER_BEFORE_VTOR" -> SourcesIdle /\ BanksIdle
    [] op = "BARRIER_AFTER_VTOR" -> SourcesIdle /\ BanksIdle /\ vtor = target
    [] op = "TERMINAL" -> /\ owner = "APPLICATION" /\ SourcesIdle /\ BanksIdle
                          /\ ~systick /\ vtor = target
    [] op \in {"STOP_SYSTICK", "SET_VTOR"} -> TRUE

After(op) ==
  CASE op = "STOP_SYSTICK" -> ~systick
    [] op \in {"DISABLE_BANK0", "DISABLE_BANK1"} -> BanksIdlePre
    [] op \in {"CLEAR_BANK0_PENDING", "CLEAR_BANK1_PENDING"} -> BanksIdle
    [] op = "CLEAR_CORE_PENDING" -> ~core
    [] op = "SET_VTOR" -> vtor = target
    [] op \in {"EXCLUDE", "QUIESCE_SOURCES", "BARRIER_BEFORE_VTOR",
               "BARRIER_AFTER_VTOR", "TERMINAL"} -> TRUE

(* The write.  The watchdog's interrupt comes back as long as it is        *)
(* asserted.                                                               *)
Cleared(b) == (pending \ Bank(b)) \cup (IF ris THEN {"wdt"} ELSE {})

Effect(op) ==
  /\ enabled' = CASE op = "DISABLE_BANK0" -> enabled \ Bank(0)
                  [] op = "DISABLE_BANK1" -> enabled \ Bank(1)
                  [] OTHER -> enabled
  /\ pending' = CASE op = "CLEAR_BANK0_PENDING" -> Cleared(0)
                  [] op = "CLEAR_BANK1_PENDING" -> Cleared(1)
                  [] OTHER -> pending
  /\ core' = (core /\ op # "CLEAR_CORE_PENDING")
  /\ systick' = (systick /\ op # "STOP_SYSTICK")
  /\ vtor' = IF op = "SET_VTOR" THEN target ELSE vtor

-----------------------------------------------------------------------------
Clean ==
  /\ enabled = {} /\ pending \subseteq {"wdt"} /\ active = {} /\ ~core /\ ~systick
  /\ sources /\ ~ris /\ owner = "BOOT"

(* The handoff trusts nothing it inherits.                                 *)
HandoffInit ==
  /\ enabled \in SUBSET Irq /\ pending \in SUBSET Irq /\ active \in SUBSET Irq
  /\ core \in BOOLEAN /\ systick \in BOOLEAN /\ vtor = BootVtor
  /\ sources \in BOOLEAN /\ ris \in BOOLEAN /\ owner \in {"BOOT", "blocked"}
  /\ step = 1 /\ phase = "admit" /\ failed = FALSE /\ recorded = FALSE
  /\ target \in Slots /\ handoff = "running"
  /\ clean = Clean /\ disturbed = FALSE

Busy == phase \in {"before", "write", "after"}

(* Once poisoned, an operation makes no further access: it only ends.      *)
Working(p) == phase = p /\ ~failed

(* leave(t, 0), and fault() in run().                                      *)
Fail ==
  /\ failed' = TRUE /\ phase' = "out" /\ handoff' = "blocked"
  /\ UNCHANGED <<step, recorded>>

Machine == <<inherited, irqs, ris, owner, target>>

(* run() begins only with a watchdog that is the bootloader's; otherwise   *)
(* nothing was touched and nothing is blocked.                             *)
Admit ==
  /\ phase = "admit"
  /\ IF owner = "BOOT" THEN phase' = "before" /\ UNCHANGED handoff
                       ELSE phase' = "out" /\ handoff' = "refused"
  /\ UNCHANGED <<Machine, step, failed, recorded, history>>

CheckBefore ==
  /\ Working("before")
  /\ IF Before(Op) THEN phase' = "write" /\ UNCHANGED <<step, failed, recorded, handoff>>
                   ELSE Fail
  /\ UNCHANGED <<Machine, history>>

Write ==
  /\ Working("write")
  /\ Effect(Op)
  /\ phase' = "after"
  /\ UNCHANGED <<inherited, ris, owner, step, failed, recorded, target, handoff, history>>

(* The next operation follows, before the last one the transfer of the     *)
(* watchdog.                                                               *)
CheckAfter ==
  /\ Working("after") /\ Op # "TERMINAL"
  /\ IF After(Op)
     THEN /\ step' = step + 1
          /\ phase' = IF Op = "BARRIER_AFTER_VTOR" THEN "transfer" ELSE "before"
          /\ UNCHANGED <<failed, recorded, handoff>>
     ELSE Fail
  /\ UNCHANGED <<Machine, history>>

(* boot_watchdog_transfer, between two calls of the adapter: not rolled    *)
(* back, whatever follows.  Where it fails, run() is blocked.              *)
Transfer ==
  /\ phase = "transfer"
  /\ \/ owner' = "APPLICATION" /\ phase' = "before" /\ UNCHANGED <<handoff, disturbed>>
     \/ /\ owner' \in {"BOOT", "APPLICATION", "blocked"}
        /\ phase' = "out" /\ handoff' = "blocked" /\ disturbed' = TRUE
  /\ UNCHANGED <<inherited, irqs, ris, step, failed, recorded, target, clean>>

RecordIntent ==
  /\ Working("after") /\ Op = "TERMINAL"
  /\ recorded' = TRUE /\ phase' = "out" /\ handoff' = "finished"
  /\ UNCHANGED <<Machine, step, failed, history>>

(* An access fails; a write may have had its effect.                       *)
AccessFails ==
  /\ Busy /\ ~failed
  /\ \/ UNCHANGED irqs
     \/ phase = "write" /\ Effect(Op)
  /\ Fail /\ disturbed' = TRUE
  /\ UNCHANGED <<inherited, ris, owner, target, clean>>

(* A callback reenters the adapter: the operation is poisoned, and ends.   *)
(* After its end run() makes no call.                                      *)
Reenter ==
  /\ Busy /\ ~failed
  /\ failed' = TRUE /\ disturbed' = TRUE
  /\ UNCHANGED <<Machine, step, phase, recorded, handoff, clean>>

PoisonedEnds ==
  /\ Busy /\ failed /\ Fail
  /\ UNCHANGED <<Machine, history>>

-----------------------------------------------------------------------------
(* The watchdog and the sources                                            *)

Expire ==
  /\ phase # "reset" /\ ~ris /\ ris' = TRUE
  /\ pending' = pending \cup {"wdt"}
  /\ disturbed' = TRUE
  /\ UNCHANGED <<inherited, enabled, core, systick, vtor, owner, step, phase, failed,
                 recorded, target, handoff, clean>>

ExpireAgain ==
  /\ phase # "reset" /\ ris
  /\ phase' = "reset"
  /\ UNCHANGED <<Machine, step, failed, recorded, handoff, history>>

Raise(i) ==
  /\ phase # "reset" /\ ~sources /\ i # "wdt" /\ pending' = pending \cup {i}
  /\ UNCHANGED <<inherited, enabled, core, systick, vtor, ris, owner, step, phase, failed,
                 recorded, target, handoff, history>>

HandoffNext ==
  \/ Admit \/ CheckBefore \/ Write \/ CheckAfter \/ Transfer \/ RecordIntent
  \/ AccessFails \/ Reenter \/ PoisonedEnds
  \/ Expire \/ ExpireAgain \/ \E i \in Irq : Raise(i)

HandoffSpec == HandoffInit /\ [][HandoffNext]_handoffVars

-----------------------------------------------------------------------------
(* An intent is recorded only by an adapter that was not poisoned on the   *)
(* way and only over a quiet processor, and it stays quiet: no interrupt   *)
(* enabled or active, SysTick off, nothing pending but the watchdog's      *)
(* interrupt, and that only if it expired during the handoff; the vector   *)
(* table is the image's and the watchdog the application's.                *)
QuietWhenRecorded ==
  recorded => /\ ~failed
              /\ enabled = {} /\ active = {} /\ ~core /\ ~systick
              /\ pending \subseteq {"wdt"} /\ (~ris => pending = {})
              /\ vtor = target /\ owner = "APPLICATION"

(* A handoff is refused for a cause only: with an inheritance in order (a  *)
(* watchdog interrupt left pending included), no failed access, no reentry *)
(* and a watchdog that does not expire meanwhile, it goes through.         *)
RefusedForCause == handoff \in {"refused", "blocked"} => ~clean \/ disturbed
=============================================================================
