----------------------------- MODULE BootFlash ------------------------------
(***************************************************************************)
(* The flash driver, boot_flash.c, at the level of its register accesses,  *)
(* and the controller behind it.  BootSystem takes a program or an erase   *)
(* as one step with a few outcomes; this module is why it may.             *)
(*                                                                         *)
(* A cell is a word or a page: the set of its bits that are one, so that   *)
(* erasing sets all of them and programming can only take bits away.  The  *)
(* calls of several clients interleave at every access; an access by a     *)
(* callback may fail, and a failed write may have had its effect.  A       *)
(* command runs on its own and may take longer than the driver polls: the  *)
(* number of polls is left out, a poll that finds the controller busy may  *)
(* always be the last one.                                                 *)
(***************************************************************************)
EXTENDS Naturals, Sequences

CONSTANTS
  Client,    \* those who call the driver
  Bits,      \* the bits of a cell
  Meta,      \* the cells of the metadata pages, the store adapter's range
  Pages      \* the cells of a slot in the order of the erase plan

Slot == {Pages[i] : i \in DOMAIN Pages}
Cell == Meta \cup Slot

ASSUME CellAssumption ==
  /\ Pages \in Seq(Slot) /\ Meta \cap Slot = {}
  /\ \A i, j \in DOMAIN Pages : Pages[i] = Pages[j] => i = j
ASSUME BitsAssumption == Bits # {}

VARIABLES
  cell,            \* flash
  cmd,             \* the command the controller runs, or NoCommand
  status,          \* FCRIS
  loaded,          \* FMA and FMD, as far as a launch will use them
  entered, blocked, blocked_result,  \* boot_flash_t
  plan,            \* boot_flash_erase_plan_t
  call             \* of each client: the next access and its arguments

controller == <<cell, cmd, status, loaded>>
driver == <<entered, blocked, blocked_result>>
vars == <<controller, driver, plan, call>>

NoCommand == [op |-> "none"]
Word == SUBSET Bits
Operation == {[op |-> "program", cell |-> c, word |-> w] : c \in Cell, w \in Word}
             \cup {[op |-> "erase", cell |-> c, word |-> Bits] : c \in Cell}
Other == {[op |-> "read"], [op |-> "recover"]}

(* A call: its next access, what it is to do, whether it is a step of the  *)
(* erase plan; outside, whether the last call returned OK.                 *)
PC == {"out", "enter", "idle", "check", "clear", "load", "launch", "wait", "result",
       "verify"}
Call == [pc : PC, job : Operation \cup Other \cup {NoCommand}, step : BOOLEAN, ok : BOOLEAN]
Outside(ok) == [pc |-> "out", job |-> NoCommand, step |-> FALSE, ok |-> ok]

TypeOK ==
  /\ cell \in [Cell -> Word]
  /\ cmd \in Operation \cup {NoCommand}
  /\ status \in SUBSET {"ARIS", "PRIS"}
  /\ loaded \in Operation \cup {NoCommand}
  /\ entered \in BOOLEAN /\ blocked \in BOOLEAN
  /\ blocked_result \in {"OK", "BLOCKED", "IO", "TIMEOUT", "STATUS", "PROTECTED", "VERIFY",
                         "CLOCK", "BITS"}
  /\ plan \in [page : 0..Len(Pages), failed : BOOLEAN, entered : BOOLEAN]
  /\ call \in [Client -> Call]

NewPlan == [page |-> 0, failed |-> FALSE, entered |-> FALSE]

(* boot_flash_init, boot_flash_erase_begin: everything is as after a reset *)
DriverInit ==
  /\ entered = FALSE /\ blocked = FALSE /\ blocked_result = "OK"
  /\ plan = NewPlan

Init ==
  /\ cell \in [Cell -> Word]
  /\ cmd = NoCommand /\ status = {} /\ loaded = NoCommand
  /\ DriverInit
  /\ call = [c \in Client |-> Outside(FALSE)]

-----------------------------------------------------------------------------
(* The controller                                                          *)

Effect(c) == IF c.op = "erase" THEN Bits ELSE cell[c.cell] \cap c.word

(* What an interrupted or spoiled command may leave.                       *)
Partial(c) == IF c.op = "erase" THEN Word
              ELSE {w \in Word : Effect(c) \subseteq w /\ w \subseteq cell[c.cell]}

Finish(left, raised) ==
  /\ cmd # NoCommand /\ cmd' = NoCommand
  /\ cell' = [cell EXCEPT ![cmd.cell] = left]
  /\ status' = status \cup raised
  /\ UNCHANGED <<loaded, driver, plan, call>>

CommandEnds ==
  \/ cmd # NoCommand /\ Finish(Effect(cmd), {"PRIS"})
  \/ cmd # NoCommand /\ Finish(cell[cmd.cell], {"ARIS"})
  \/ cmd # NoCommand /\ \E left \in Partial(cmd), raised \in {{}, {"PRIS"}} : Finish(left, raised)

(* A reset cuts the command short and starts the driver anew.              *)
Reset ==
  /\ IF cmd = NoCommand THEN UNCHANGED cell
     ELSE \E left \in Partial(cmd) : cell' = [cell EXCEPT ![cmd.cell] = left]
  /\ cmd' = NoCommand /\ status' = {} /\ loaded' = NoCommand
  /\ entered' = FALSE /\ blocked' = FALSE /\ blocked_result' = "OK"
  /\ plan' = NewPlan
  /\ call' = [c \in Client |-> Outside(FALSE)]

-----------------------------------------------------------------------------
(* A call begins.  The store adapter refuses anything but the metadata;    *)
(* the slot is programmed once its erase plan is done, as the receiver     *)
(* does.                                                                   *)

Idle(c) == call[c].pc = "out"
Begin(c, job, step) ==
  call' = [call EXCEPT ![c] = [pc |-> "enter", job |-> job, step |-> step, ok |-> FALSE]]

CallDriver(c, job) ==
  /\ Idle(c) /\ Begin(c, job, FALSE)
  /\ job \in Operation =>
       \/ job.cell \in Meta
       \/ job.op = "program" /\ plan.page = Len(Pages) /\ ~plan.entered
  /\ UNCHANGED <<controller, driver, plan>>

(* boot_flash_erase_begin: a new plan, for an upload that begins; nobody   *)
(* is in the old one, nor in the slot.                                     *)
ErasePlanBegin(c) ==
  /\ Idle(c) /\ ~plan.entered
  /\ \A d \in Client : call[d].job \in Operation => call[d].job.cell \in Meta
  /\ plan' = NewPlan
  /\ call' = [call EXCEPT ![c] = Outside(FALSE)]
  /\ UNCHANGED <<controller, driver>>

(* boot_flash_erase_step up to boot_flash_erase, and the steps that issue  *)
(* no command: BUSY, BLOCKED, DONE.                                        *)
EraseStep(c) ==
  /\ Idle(c) /\ ~plan.entered /\ ~plan.failed /\ plan.page < Len(Pages)
  /\ plan' = [plan EXCEPT !.entered = TRUE]
  /\ Begin(c, [op |-> "erase", cell |-> Pages[plan.page + 1], word |-> Bits], TRUE)
  /\ UNCHANGED <<controller, driver>>

EraseStepRefused(c) ==
  /\ Idle(c) /\ (plan.entered \/ plan.failed \/ plan.page = Len(Pages))
  /\ call' = [call EXCEPT ![c] = Outside(FALSE)]
  /\ UNCHANGED <<controller, driver, plan>>

-----------------------------------------------------------------------------
(* A call ends: the rest of boot_flash_erase_step for a step of the plan.  *)

\* Faulty variant: a page counts although its erase failed.
PlanCountsAnyway(ok) ==
  [plan EXCEPT !.entered = FALSE, !.page = @ + 1, !.failed = ~ok]

PlanAfter(ok) ==
  [plan EXCEPT !.entered = FALSE, !.page = IF ok THEN @ + 1 ELSE @, !.failed = ~ok]

Return(c, result) ==
  /\ call' = [call EXCEPT ![c] = Outside(result = "OK")]
  /\ plan' = IF call[c].step THEN PlanAfter(result = "OK") ELSE plan

(* leave: the first cause of a blocked episode is kept.                    *)
Cause(block, result) ==
  IF block /\ blocked_result = "OK" THEN result ELSE blocked_result

Leave(c, result, block) ==
  /\ Return(c, result)
  /\ entered' = FALSE /\ blocked' = block
  /\ blocked_result' = Cause(block, result)

At(c, pc) == call[c].pc = pc
Go(c, pc) == call' = [call EXCEPT ![c].pc = pc] /\ UNCHANGED <<plan>>
Job(c) == call[c].job

(* enter, and the refusal while blocked; recovery goes on, blocked.        *)
Enter(c) ==
  /\ At(c, "enter") /\ UNCHANGED controller
  /\ \/ entered /\ Return(c, "BUSY") /\ UNCHANGED driver
     \/ /\ ~entered /\ Job(c).op # "recover"
        /\ IF blocked THEN Leave(c, "BLOCKED", TRUE)
           ELSE entered' = TRUE /\ Go(c, "idle") /\ UNCHANGED <<blocked, blocked_result>>
     \/ /\ ~entered /\ Job(c).op = "recover"
        /\ entered' = TRUE /\ blocked' = TRUE /\ Go(c, "idle") /\ UNCHANGED blocked_result

(* The first poll: a controller that is busy, or does not answer, blocks.  *)
IdleCheck(c) ==
  /\ At(c, "idle") /\ UNCHANGED controller
  /\ \/ Leave(c, "IO", TRUE)
     \/ cmd # NoCommand /\ Leave(c, "TIMEOUT", TRUE)
     \/ /\ cmd = NoCommand /\ UNCHANGED driver
        /\ Go(c, CASE Job(c).op = "read" -> "verify" [] Job(c).op = "recover" -> "clear"
                   [] OTHER -> "check")

Programmable(job) == job.op = "program" => job.word \subseteq cell[job.cell]

(* The clock, and for a program the bits: nothing was launched yet.        *)
Check(c) ==
  /\ At(c, "check") /\ UNCHANGED controller
  /\ \/ \E why \in {"IO", "CLOCK"} : Leave(c, why, FALSE)
     \/ ~Programmable(Job(c)) /\ Leave(c, "BITS", FALSE)
     \/ Programmable(Job(c)) /\ Go(c, "clear") /\ UNCHANGED driver

(* clear_status; where it succeeds, recovery is done.                      *)
ClearStatus(c) ==
  /\ At(c, "clear")
  /\ \/ \E why \in {"IO", "STATUS"} : status' \in {status, {}} /\ Leave(c, why, blocked)
     \/ status' = {} /\ Job(c).op # "recover" /\ Go(c, "load") /\ UNCHANGED driver
     \/ /\ status' = {} /\ Job(c).op = "recover" /\ Return(c, "OK")
        /\ entered' = FALSE /\ blocked' = FALSE /\ blocked_result' = "OK"
  /\ UNCHANGED <<cell, cmd, loaded>>

(* FMD and FMA, before the command.  What a failed write leaves in them is *)
(* forgotten: the next launch comes after writes of its own.               *)
Load(c) ==
  /\ At(c, "load")
  /\ \/ UNCHANGED loaded /\ Leave(c, "IO", FALSE)
     \/ loaded' = Job(c) /\ Go(c, "launch") /\ UNCHANGED driver
  /\ UNCHANGED <<cell, cmd, status>>

\* Faulty variant: a command write that fails is taken not to have launched.
LaunchTrusted(c) ==
  /\ At(c, "launch")
  /\ \/ cmd' \in {cmd, loaded} /\ Leave(c, "IO", FALSE)
     \/ cmd' = loaded /\ blocked' = TRUE /\ Go(c, "wait") /\ UNCHANGED <<entered, blocked_result>>
  /\ loaded' = NoCommand
  /\ UNCHANGED <<cell, status>>

(* The keyed command is the last write; the driver is blocked before it,   *)
(* for a write that fails may have launched it.                            *)
Launch(c) ==
  /\ At(c, "launch")
  /\ \/ cmd' \in {cmd, loaded} /\ Leave(c, "IO", TRUE)
     \/ cmd' = loaded /\ blocked' = TRUE /\ Go(c, "wait") /\ UNCHANGED <<entered, blocked_result>>
  /\ loaded' = NoCommand
  /\ UNCHANGED <<cell, status>>

Wait(c) ==
  /\ At(c, "wait") /\ UNCHANGED controller
  /\ \/ Leave(c, "IO", TRUE)
     \/ cmd # NoCommand /\ Leave(c, "TIMEOUT", TRUE)
     \/ cmd = NoCommand /\ Go(c, "result") /\ UNCHANGED driver

Result(c) ==
  /\ At(c, "result") /\ UNCHANGED controller
  /\ \/ Leave(c, "IO", TRUE)
     \/ "ARIS" \in status /\ Leave(c, "PROTECTED", TRUE)
     \/ "ARIS" \notin status /\ "PRIS" \notin status /\ Leave(c, "STATUS", TRUE)
     \/ status = {"PRIS"} /\ Go(c, "verify") /\ UNCHANGED driver

\* Faulty variant: the controller's status is enough, nothing is read back.
VerifySkipped(c) ==
  /\ At(c, "verify") /\ UNCHANGED controller
  /\ Leave(c, "IO", blocked) \/ Leave(c, "OK", FALSE)

(* The read-back decides, and only it unblocks; a plain read blocks        *)
(* nothing.                                                                *)
Verify(c) ==
  /\ At(c, "verify") /\ UNCHANGED controller
  /\ \/ Leave(c, "IO", blocked)
     \/ Job(c).op = "read" /\ Leave(c, "OK", FALSE)
     \/ /\ Job(c).op # "read"
        /\ IF cell[Job(c).cell] = Job(c).word THEN Leave(c, "OK", FALSE)
                                             ELSE Leave(c, "VERIFY", TRUE)

Next ==
  \/ CommandEnds \/ Reset
  \/ \E c \in Client :
       \/ \E job \in Operation \cup Other : CallDriver(c, job)
       \/ ErasePlanBegin(c) \/ EraseStep(c) \/ EraseStepRefused(c)
       \/ Enter(c) \/ IdleCheck(c) \/ Check(c) \/ ClearStatus(c) \/ Load(c)
       \/ Launch(c) \/ Wait(c) \/ Result(c) \/ Verify(c)

Spec == Init /\ [][Next]_vars

-----------------------------------------------------------------------------
(* While a command runs the driver is blocked, so that nobody reads what   *)
(* is changing or launches a second command over it; and whenever nobody   *)
(* is inside, the driver is blocked exactly when a first cause is on       *)
(* record.                                                                 *)
BlockedWhileInDoubt ==
  /\ cmd # NoCommand => blocked
  /\ ~entered => (blocked <=> blocked_result # "OK")

OkStep ==
  \A c \in Client :
    call[c].pc # "out" /\ call'[c] = Outside(TRUE) /\ Job(c) \in Operation
      => cell'[Job(c).cell] = Job(c).word /\ cmd' = NoCommand

(* A call that returns OK for a program or an erase has its cell exactly   *)
(* as asked, and the controller has come to rest: nothing can change it    *)
(* any more.                                                               *)
OkIsDurable == [][OkStep]_vars

(* The erase plan counts only pages that are erased, and the page it works *)
(* on is never ahead of the pages it counts: a payload is not destroyed    *)
(* before the manifest that vouches for it, whatever failed, was refused   *)
(* or was recovered from in between.                                       *)
PlanErasesInOrder ==
  /\ plan.page < Len(Pages) => \A i \in 1..plan.page : cell[Pages[i]] = Bits
  /\ \A c \in Client : call[c].pc # "out" /\ call[c].step =>
       plan.entered /\ Job(c).cell = Pages[plan.page + 1]
=============================================================================
