-------------------------- MODULE BootFlashProofs ---------------------------
(***************************************************************************)
(* Proofs about the flash driver, for any callers, cells and bits.         *)
(***************************************************************************)
EXTENDS BootFlash, TLAPS

(* Past the guard of enter.                                                *)
Inside(c) == call[c].pc \notin {"out", "enter"}

(* What a call can be doing at each access.                                *)
Shaped ==
  \A c \in Client :
    /\ call[c].pc = "out" => call[c].job = NoCommand /\ ~call[c].step
    /\ call[c].pc # "out" => call[c].job \in Operation \cup Other
    /\ call[c].pc \in {"check", "load", "launch", "wait", "result"} => Job(c) \in Operation
    /\ call[c].pc = "clear" => Job(c).op # "read"
    /\ call[c].pc = "verify" => Job(c).op # "recover"
    /\ call[c].step => Job(c) \in Operation

(* One call at a time is inside.                                           *)
Exclusive ==
  /\ \A c \in Client : Inside(c) => entered
  /\ \A c, d \in Client : Inside(c) /\ Inside(d) => c = d

(* What the call inside knows of the latch and of the controller.          *)
Latched ==
  \A c \in Client :
    /\ call[c].pc \in {"idle", "check", "clear", "load", "launch"} /\ Job(c).op # "recover" =>
         ~blocked /\ blocked_result = "OK"
    /\ call[c].pc \in {"idle", "clear"} /\ Job(c).op = "recover" => blocked
    /\ call[c].pc \in {"wait", "result"} => blocked /\ blocked_result = "OK"
    /\ call[c].pc = "verify" => blocked_result = "OK" /\ (blocked <=> Job(c).op # "read")
    /\ call[c].pc \in {"check", "clear", "load", "launch", "result", "verify"} => cmd = NoCommand
    /\ call[c].pc = "launch" => loaded = Job(c)

(* At most one call is a step of the erase plan, and it erases the page    *)
(* the plan is at.                                                         *)
Stepping ==
  /\ \A c \in Client : call[c].step =>
       plan.entered /\ plan.page < Len(Pages) /\ Job(c).cell = Pages[plan.page + 1]
  /\ \A c, d \in Client : call[c].step /\ call[d].step => c = d

DInv == TypeOK /\ Shaped /\ Exclusive /\ Latched /\ Stepping /\ BlockedWhileInDoubt

-----------------------------------------------------------------------------
(* What the driver is asked to do.                                         *)
LEMMA OperationFacts ==
  /\ \A job \in Operation :
       /\ job.cell \in Cell /\ job.word \in Word /\ job.op \in {"program", "erase"}
       /\ job # NoCommand
  /\ \A job \in Other : job.op \in {"read", "recover"} /\ job # NoCommand
  /\ NoCommand.op = "none" /\ NoCommand \notin Operation
<1>1. ASSUME NEW job \in Operation
      PROVE  /\ job.cell \in Cell /\ job.word \in Word /\ job.op \in {"program", "erase"}
             /\ job # NoCommand
  <2>1. CASE \E c \in Cell, w \in Word : job = [op |-> "program", cell |-> c, word |-> w]
    BY <2>1 DEF NoCommand
  <2>2. CASE \E c \in Cell : job = [op |-> "erase", cell |-> c, word |-> Bits]
    BY <2>2 DEF NoCommand, Word
  <2> QED BY <2>1, <2>2 DEF Operation
<1>2. \A job \in Other : job.op \in {"read", "recover"} /\ job # NoCommand
  BY DEF Other, NoCommand
<1>3. NoCommand.op = "none"
  BY DEF NoCommand
<1>4. NoCommand \notin Operation
  BY <1>1
<1> QED BY <1>1, <1>2, <1>3, <1>4

(* A call that is outside.                                                 *)
LEMMA OutsideFacts ==
  \A ok \in BOOLEAN :
    /\ Outside(ok) \in Call /\ Outside(ok).pc = "out" /\ Outside(ok).job = NoCommand
    /\ Outside(ok).step = FALSE /\ Outside(ok).ok = ok
BY DEF Outside, Call, PC

(* The plan has a length.                                                  *)
LEMMA PagesLength == Len(Pages) \in Nat
BY CellAssumption

(* After a reset nobody is inside and nothing runs.                        *)
LEMMA InitDriver == Init => DInv
<1> SUFFICES ASSUME Init PROVE DInv OBVIOUS
<1>1. TypeOK
  <2>1. plan \in [page : 0..Len(Pages), failed : BOOLEAN, entered : BOOLEAN]
    BY PagesLength DEF Init, DriverInit, NewPlan
  <2>2. call \in [Client -> Call]
    BY OutsideFacts DEF Init
  <2> QED BY <2>1, <2>2 DEF Init, DriverInit, TypeOK
<1>2. Shaped /\ Exclusive /\ Latched /\ Stepping /\ BlockedWhileInDoubt
  BY OutsideFacts DEF Init, DriverInit, Shaped, Exclusive, Latched, Stepping, BlockedWhileInDoubt, Inside
<1> QED BY <1>1, <1>2 DEF DInv

(* The controller's own steps and a reset.                                 *)
LEMMA ControllerStep == DInv /\ (CommandEnds \/ Reset) => DInv'
<1> SUFFICES ASSUME DInv, CommandEnds \/ Reset PROVE DInv' OBVIOUS
<1> USE DEF DInv
<1>1. CASE CommandEnds
  <2>1. PICK left \in Word, raised \in SUBSET {"ARIS", "PRIS"} : Finish(left, raised)
    <3>1. cmd \in Operation /\ cell[cmd.cell] \in Word /\ Effect(cmd) \in Word
      BY <1>1, OperationFacts DEF CommandEnds, TypeOK, Effect, Word
    <3>2. Partial(cmd) \subseteq Word
      BY DEF Partial
    <3> QED BY <1>1, <3>1, <3>2 DEF CommandEnds
  <2>2. TypeOK'
    BY <2>1, OperationFacts DEF Finish, TypeOK, driver
  <2>3. (Shaped /\ Exclusive /\ Latched /\ Stepping /\ BlockedWhileInDoubt)'
    BY <2>1 DEF Finish, Shaped, Exclusive, Latched, Stepping, BlockedWhileInDoubt, Inside, Job, driver
  <2> QED BY <2>2, <2>3
<1>2. CASE Reset
  <2>1. TypeOK'
    <3>1. cell' \in [Cell -> Word]
      <4>1. CASE cmd = NoCommand
        BY <1>2, <4>1 DEF Reset, TypeOK
      <4>2. CASE cmd # NoCommand
        <5>1. PICK left \in Word : cell' = [cell EXCEPT ![cmd.cell] = left]
          BY <1>2, <4>2 DEF Reset, Partial
        <5> QED BY <5>1 DEF TypeOK
      <4> QED BY <4>1, <4>2
    <3>2. plan' \in [page : 0..Len(Pages), failed : BOOLEAN, entered : BOOLEAN]
      BY <1>2, PagesLength DEF Reset, NewPlan
    <3>3. call' \in [Client -> Call]
      BY <1>2, OutsideFacts DEF Reset
    <3> QED BY <1>2, <3>1, <3>2, <3>3 DEF Reset, TypeOK
  <2>2. (Shaped /\ Exclusive /\ Latched /\ Stepping /\ BlockedWhileInDoubt)'
    BY <1>2, OutsideFacts DEF Reset, Shaped, Exclusive, Latched, Stepping, BlockedWhileInDoubt, Inside, Job
  <2> QED BY <2>1, <2>2
<1> QED BY <1>1, <1>2

-----------------------------------------------------------------------------
(* How a call goes on and how it ends                                      *)

Results == {"OK", "BUSY", "BLOCKED", "IO", "TIMEOUT", "STATUS", "PROTECTED", "VERIFY",
            "CLOCK", "BITS"}

(* The other calls are left alone; a step of the plan counts its page.     *)
LEMMA ReturnFacts ==
  ASSUME DInv, NEW c \in Client, NEW result, call[c].pc # "out", Return(c, result)
  PROVE  /\ call' \in [Client -> Call]
         /\ call'[c] = Outside(result = "OK")
         /\ \A d \in Client \ {c} : call'[d] = call[d]
         /\ plan' \in [page : 0..Len(Pages), failed : BOOLEAN, entered : BOOLEAN]
         /\ Stepping'
<1> USE DEF DInv
<1>1. Outside(result = "OK") \in Call
  BY OutsideFacts
<1>2. /\ call' \in [Client -> Call] /\ call'[c] = Outside(result = "OK")
      /\ \A d \in Client \ {c} : call'[d] = call[d]
  BY <1>1 DEF Return, TypeOK
<1>3. plan' \in [page : 0..Len(Pages), failed : BOOLEAN, entered : BOOLEAN]
  <2>1. CASE call[c].step
    <3>1. plan' = PlanAfter(result = "OK") /\ plan.page + 1 \in 0..Len(Pages)
      BY <2>1, PagesLength DEF Return, Stepping, TypeOK
    <3> QED BY <3>1 DEF PlanAfter, TypeOK
  <2>2. CASE ~call[c].step
    BY <2>2 DEF Return, TypeOK
  <2> QED BY <2>1, <2>2
<1>4. Stepping'
  <2>1. CASE call[c].step
    <3>1. \A d \in Client : ~call'[d].step
      BY <1>2, <2>1, OutsideFacts DEF Stepping
    <3> QED BY <3>1 DEF Stepping
  <2>2. CASE ~call[c].step
    <3>1. plan' = plan
      BY <2>2 DEF Return
    <3>2. \A d \in Client : call'[d].step => call[d].step /\ call'[d] = call[d]
      BY <1>2, OutsideFacts
    <3> QED BY <3>1, <3>2 DEF Stepping, Job
  <2> QED BY <2>1, <2>2
<1> QED BY <1>2, <1>3, <1>4

(* The last call inside leaves: what it has to know for that.              *)
LEMMA LeaveStep ==
  ASSUME DInv, NEW c \in Client, NEW result \in Results, NEW block \in BOOLEAN,
         call[c].pc # "out", \A d \in Client : Inside(d) => d = c,
         Leave(c, result, block),
         block => result \notin {"OK", "BUSY"},
         blocked_result # "OK" => block,
         cmd' # NoCommand => block,
         cell' \in [Cell -> Word], cmd' \in Operation \cup {NoCommand},
         status' \in SUBSET {"ARIS", "PRIS"}, loaded' \in Operation \cup {NoCommand}
  PROVE  DInv'
<1> USE DEF DInv
<1>1. Return(c, result) /\ entered' = FALSE /\ blocked' = block
      /\ blocked_result' = Cause(block, result)
  BY DEF Leave
<1>2. /\ call' \in [Client -> Call]
      /\ call'[c] = Outside(result = "OK")
      /\ \A d \in Client \ {c} : call'[d] = call[d]
      /\ plan' \in [page : 0..Len(Pages), failed : BOOLEAN, entered : BOOLEAN]
      /\ Stepping'
  BY <1>1, ReturnFacts
<1>3. /\ call'[c].pc = "out" /\ call'[c].job = NoCommand /\ ~call'[c].step
  BY <1>2, OutsideFacts
<1>4. \A d \in Client : call'[d].pc \in {"out", "enter"}
  BY <1>2, <1>3 DEF Inside
<1>5. TypeOK'
  BY <1>1, <1>2 DEF TypeOK, Cause, Results
<1>6. Shaped'
  BY <1>2, <1>3 DEF Shaped, Job
<1>7. Exclusive' /\ Latched'
  BY <1>4 DEF Exclusive, Latched, Inside
<1>8. BlockedWhileInDoubt'
  BY <1>1 DEF BlockedWhileInDoubt, Cause
<1> QED BY <1>2, <1>5, <1>6, <1>7, <1>8

(* A call that goes on keeps its job, and the others are left alone.       *)
LEMMA GoFacts ==
  ASSUME DInv, NEW c \in Client, NEW pc \in PC, Go(c, pc)
  PROVE  /\ call' \in [Client -> Call]
         /\ call'[c].pc = pc /\ call'[c].job = call[c].job /\ call'[c].step = call[c].step
         /\ \A d \in Client \ {c} : call'[d] = call[d]
         /\ plan' = plan
         /\ Stepping'
<1> USE DEF DInv
<1>1. plan' = plan /\ call' = [call EXCEPT ![c].pc = pc]
  BY DEF Go
<1>2. call'[c] = [call[c] EXCEPT !.pc = pc] /\ \A d \in Client \ {c} : call'[d] = call[d]
  BY <1>1 DEF TypeOK
<1>3. call' \in [Client -> Call]
  BY <1>1 DEF TypeOK, Call
<1>4. call'[c].pc = pc /\ call'[c].job = call[c].job /\ call'[c].step = call[c].step
  BY <1>2 DEF TypeOK, Call
<1>5. Stepping'
  BY <1>1, <1>2, <1>4 DEF Stepping, Job
<1> QED BY <1>1, <1>2, <1>3, <1>4, <1>5

(* A call moves on inside: what it has to know at the next access.         *)
LEMMA GoStep ==
  ASSUME DInv, NEW c \in Client, NEW pc \in PC \ {"out", "enter"}, Go(c, pc),
         call[c].pc # "out", entered', \A d \in Client : Inside(d) => d = c,
         pc \in {"check", "load", "launch", "wait", "result"} => Job(c) \in Operation,
         pc = "clear" => Job(c).op # "read",
         pc = "verify" => Job(c).op # "recover",
         pc \in {"idle", "check", "clear", "load", "launch"} /\ Job(c).op # "recover" =>
           ~blocked' /\ blocked_result' = "OK",
         pc \in {"idle", "clear"} /\ Job(c).op = "recover" => blocked',
         pc \in {"wait", "result"} => blocked' /\ blocked_result' = "OK",
         pc = "verify" => blocked_result' = "OK" /\ (blocked' <=> Job(c).op # "read"),
         pc \in {"check", "clear", "load", "launch", "result", "verify"} => cmd' = NoCommand,
         pc = "launch" => loaded' = Job(c),
         cmd' # NoCommand => blocked',
         entered' \in BOOLEAN, blocked' \in BOOLEAN, blocked_result' = blocked_result,
         cell' \in [Cell -> Word], cmd' \in Operation \cup {NoCommand},
         status' \in SUBSET {"ARIS", "PRIS"}, loaded' \in Operation \cup {NoCommand}
  PROVE  DInv'
<1> USE DEF DInv
<1>1. /\ call' \in [Client -> Call]
      /\ call'[c].pc = pc /\ call'[c].job = call[c].job /\ call'[c].step = call[c].step
      /\ \A d \in Client \ {c} : call'[d] = call[d]
      /\ plan' = plan
      /\ Stepping'
  BY GoFacts
<1>2. TypeOK'
  BY <1>1 DEF TypeOK
<1>3. Shaped'
  BY <1>1 DEF Shaped, Job
<1>4. \A d \in Client \ {c} : call'[d].pc \in {"out", "enter"}
  BY <1>1 DEF Inside
<1>5. Exclusive'
  BY <1>4 DEF Exclusive, Inside
<1>6. Latched'
  BY <1>1, <1>4 DEF Latched, Job
<1>7. BlockedWhileInDoubt'
  BY DEF BlockedWhileInDoubt
<1> QED BY <1>1, <1>2, <1>3, <1>5, <1>6, <1>7

-----------------------------------------------------------------------------
(* The calls begin                                                         *)

(* A call that is outside begins, or stays outside.                        *)
LEMMA BeginFacts ==
  ASSUME DInv, NEW c \in Client, Idle(c), NEW k \in Call,
         call' = [call EXCEPT ![c] = k],
         \/ k.pc = "out" /\ k.job = NoCommand /\ ~k.step
         \/ k.pc = "enter" /\ k.job \in Operation \cup Other /\ (k.step => k.job \in Operation),
         UNCHANGED <<controller, driver>>,
         plan' \in [page : 0..Len(Pages), failed : BOOLEAN, entered : BOOLEAN],
         Stepping'
  PROVE  DInv'
<1> USE DEF DInv
<1>1. call'[c] = k /\ (\A d \in Client \ {c} : call'[d] = call[d])
      /\ call' \in [Client -> Call]
  BY DEF TypeOK
<1>2. TypeOK'
  BY <1>1 DEF TypeOK, controller, driver
<1>3. Shaped'
  BY <1>1 DEF Shaped, Job
<1>4. \A d \in Client : Inside(d)' => Inside(d) /\ call'[d] = call[d]
  BY <1>1 DEF Inside
<1>5. Exclusive'
  BY <1>4 DEF Exclusive, driver
<1>6. Latched'
  BY <1>1 DEF Latched, Job, driver, controller
<1>7. BlockedWhileInDoubt'
  BY DEF BlockedWhileInDoubt, driver, controller
<1> QED BY <1>2, <1>3, <1>5, <1>6, <1>7

(* The calls that begin and the steps of the plan that issue no command.   *)
LEMMA BeginStep ==
  ASSUME DInv, NEW c \in Client,
         \/ \E job \in Operation \cup Other : CallDriver(c, job)
         \/ ErasePlanBegin(c) \/ EraseStep(c) \/ EraseStepRefused(c)
  PROVE  DInv'
<1> USE DEF DInv
<1> DEFINE PlanType == [page : 0..Len(Pages), failed : BOOLEAN, entered : BOOLEAN]
<1>1. CASE \E job \in Operation \cup Other : CallDriver(c, job)
  <2>1. PICK job \in Operation \cup Other : CallDriver(c, job)
    BY <1>1
  <2> DEFINE k == [pc |-> "enter", job |-> job, step |-> FALSE, ok |-> FALSE]
  <2>2. k \in Call /\ k.pc = "enter" /\ k.job = job /\ k.step = FALSE
    BY DEF Call, PC
  <2>3. call' = [call EXCEPT ![c] = k] /\ Idle(c) /\ UNCHANGED <<controller, driver, plan>>
    BY <2>1 DEF CallDriver, Begin
  <2>4. \A d \in Client : call'[d].step => d # c /\ call'[d] = call[d]
    BY <2>2, <2>3 DEF TypeOK
  <2>5. Stepping'
    BY <2>3, <2>4 DEF Stepping, Job
  <2>6. plan' \in PlanType
    BY <2>3 DEF TypeOK
  <2> HIDE DEF k
  <2> QED BY <2>2, <2>3, <2>5, <2>6, BeginFacts
<1>2. CASE ErasePlanBegin(c)
  <2>1. /\ Outside(FALSE) \in Call /\ Outside(FALSE).pc = "out"
        /\ Outside(FALSE).job = NoCommand /\ Outside(FALSE).step = FALSE
    BY OutsideFacts
  <2>2. /\ call' = [call EXCEPT ![c] = Outside(FALSE)] /\ Idle(c)
        /\ UNCHANGED <<controller, driver>> /\ plan' = NewPlan /\ ~plan.entered
    BY <1>2 DEF ErasePlanBegin
  <2>3. \A d \in Client : ~call'[d].step
    BY <2>1, <2>2 DEF TypeOK, Stepping
  <2>4. Stepping'
    BY <2>3 DEF Stepping
  <2>5. plan' \in PlanType
    BY <2>2, PagesLength DEF NewPlan
  <2> QED BY <2>1, <2>2, <2>4, <2>5, BeginFacts
<1>3. CASE EraseStep(c)
  <2> DEFINE job == [op |-> "erase", cell |-> Pages[plan.page + 1], word |-> Bits]
             k == [pc |-> "enter", job |-> job, step |-> TRUE, ok |-> FALSE]
  <2>1. plan.page + 1 \in DOMAIN Pages
    BY <1>3, CellAssumption, PagesLength DEF EraseStep, TypeOK
  <2>2. Pages[plan.page + 1] \in Cell
    BY <2>1 DEF Cell, Slot
  <2>3. job \in Operation /\ job.cell = Pages[plan.page + 1]
    BY <2>2 DEF Operation
  <2>4. k \in Call /\ k.pc = "enter" /\ k.job = job /\ k.step = TRUE
    BY <2>3 DEF Call, PC
  <2>5. /\ call' = [call EXCEPT ![c] = k] /\ Idle(c) /\ UNCHANGED <<controller, driver>>
        /\ plan' = [plan EXCEPT !.entered = TRUE] /\ ~plan.entered /\ plan.page < Len(Pages)
    BY <1>3 DEF EraseStep, Begin
  <2>6. plan' \in PlanType /\ plan'.entered /\ plan'.page = plan.page
    BY <2>5 DEF TypeOK
  <2> HIDE DEF k, job
  <2>7. \A d \in Client : call'[d].step => d = c
    BY <2>4, <2>5 DEF TypeOK, Stepping
  <2>8. call'[c] = k
    BY <2>5 DEF TypeOK
  <2>9. Stepping'
    BY <2>3, <2>4, <2>5, <2>6, <2>7, <2>8 DEF Stepping, Job
  <2> QED BY <2>3, <2>4, <2>5, <2>6, <2>9, BeginFacts
<1>4. CASE EraseStepRefused(c)
  <2>1. /\ Outside(FALSE) \in Call /\ Outside(FALSE).pc = "out"
        /\ Outside(FALSE).job = NoCommand /\ Outside(FALSE).step = FALSE
    BY OutsideFacts
  <2>2. /\ call' = [call EXCEPT ![c] = Outside(FALSE)] /\ Idle(c)
        /\ UNCHANGED <<controller, driver, plan>>
    BY <1>4 DEF EraseStepRefused
  <2>3. \A d \in Client : call'[d].step => d # c /\ call'[d] = call[d]
    BY <2>1, <2>2 DEF TypeOK
  <2>4. Stepping' /\ plan' \in PlanType
    BY <2>2, <2>3 DEF Stepping, Job, TypeOK
  <2> QED BY <2>1, <2>2, <2>4, BeginFacts
<1> QED BY <1>1, <1>2, <1>3, <1>4

-----------------------------------------------------------------------------
(* The accesses of a call                                                  *)

(* Once a call is inside, it is the only one.                              *)
LEMMA Alone ==
  ASSUME DInv, NEW c \in Client, Inside(c)
  PROVE  /\ entered /\ call[c].pc # "out"
         /\ \A d \in Client : Inside(d) => d = c
BY DEF DInv, Exclusive, Inside

(* A step that leaves the controller alone leaves it typed.                *)
LEMMA ControllerTyped ==
  ASSUME TypeOK, UNCHANGED controller
  PROVE  /\ cell' \in [Cell -> Word] /\ cmd' \in Operation \cup {NoCommand}
         /\ status' \in SUBSET {"ARIS", "PRIS"} /\ loaded' \in Operation \cup {NoCommand}
         /\ cmd' = cmd
BY DEF TypeOK, controller

(* The guard at the door: inside, refused as busy, or refused as blocked.  *)
LEMMA EnterStep == ASSUME DInv, NEW c \in Client, Enter(c) PROVE DInv'
<1> USE DEF DInv
<1>1. call[c].pc = "enter" /\ UNCHANGED controller
  BY DEF Enter, At
<1>2. /\ cell' \in [Cell -> Word] /\ cmd' \in Operation \cup {NoCommand}
      /\ status' \in SUBSET {"ARIS", "PRIS"} /\ loaded' \in Operation \cup {NoCommand}
      /\ cmd' = cmd
  BY <1>1, ControllerTyped
<1>3. CASE entered /\ Return(c, "BUSY") /\ UNCHANGED driver
  <2>1. /\ call' \in [Client -> Call]
        /\ call'[c] = Outside(FALSE)
        /\ \A d \in Client \ {c} : call'[d] = call[d]
        /\ plan' \in [page : 0..Len(Pages), failed : BOOLEAN, entered : BOOLEAN]
        /\ Stepping'
    <3>1. ("BUSY" = "OK") = FALSE
      OBVIOUS
    <3> QED BY <1>1, <1>3, <3>1, ReturnFacts
  <2>2. call'[c].pc = "out" /\ call'[c].job = NoCommand /\ ~call'[c].step
    BY <2>1, OutsideFacts
  <2>3. TypeOK'
    BY <1>2, <1>3, <2>1 DEF TypeOK, driver
  <2>4. Shaped'
    BY <2>1, <2>2 DEF Shaped, Job
  <2>5. \A d \in Client : Inside(d)' => Inside(d) /\ call'[d] = call[d]
    BY <2>1, <2>2 DEF Inside
  <2>6. Exclusive'
    BY <1>3, <2>5 DEF Exclusive, driver
  <2>7. Latched'
    BY <1>1, <1>3, <2>2, <2>5 DEF Latched, Inside, Job, driver, controller
  <2>8. BlockedWhileInDoubt'
    BY <1>2, <1>3 DEF BlockedWhileInDoubt, driver
  <2> QED BY <2>1, <2>3, <2>4, <2>6, <2>7, <2>8
<1>4. CASE ~entered /\ Job(c).op # "recover" /\ blocked /\ Leave(c, "BLOCKED", TRUE)
  <2>1. \A d \in Client : Inside(d) => d = c
    BY <1>4 DEF Exclusive
  <2> QED BY <1>1, <1>2, <1>4, <2>1, LeaveStep DEF Results
<1>5. CASE /\ ~entered /\ Job(c).op # "recover" /\ ~blocked
           /\ entered' = TRUE /\ Go(c, "idle") /\ UNCHANGED <<blocked, blocked_result>>
  <2>1. /\ \A d \in Client : Inside(d) => d = c
        /\ blocked_result = "OK" /\ cmd = NoCommand
    BY <1>5 DEF Exclusive, BlockedWhileInDoubt
  <2> QED BY <1>1, <1>2, <1>5, <2>1, GoStep DEF PC, TypeOK
<1>6. CASE /\ ~entered /\ Job(c).op = "recover"
           /\ entered' = TRUE /\ blocked' = TRUE /\ Go(c, "idle") /\ UNCHANGED blocked_result
  <2>1. \A d \in Client : Inside(d) => d = c
    BY <1>6 DEF Exclusive
  <2> QED BY <1>1, <1>2, <1>6, <2>1, GoStep DEF PC, TypeOK
<1> QED BY <1>3, <1>4, <1>5, <1>6 DEF Enter, TypeOK

(* The first poll.                                                         *)
LEMMA IdleCheckStep == ASSUME DInv, NEW c \in Client, IdleCheck(c) PROVE DInv'
<1> USE DEF DInv
<1>1. call[c].pc = "idle" /\ UNCHANGED controller
  BY DEF IdleCheck, At
<1>2. /\ cell' \in [Cell -> Word] /\ cmd' \in Operation \cup {NoCommand}
      /\ status' \in SUBSET {"ARIS", "PRIS"} /\ loaded' \in Operation \cup {NoCommand}
      /\ cmd' = cmd
  BY <1>1, ControllerTyped
<1>3. /\ entered /\ call[c].pc # "out" /\ \A d \in Client : Inside(d) => d = c
  BY <1>1, Alone DEF Inside
<1>4. CASE Leave(c, "IO", TRUE)
  BY <1>2, <1>3, <1>4, LeaveStep DEF Results
<1>5. CASE cmd # NoCommand /\ Leave(c, "TIMEOUT", TRUE)
  BY <1>2, <1>3, <1>5, LeaveStep DEF Results
<1> DEFINE to == CASE Job(c).op = "read" -> "verify" [] Job(c).op = "recover" -> "clear"
                   [] OTHER -> "check"
<1>6. CASE cmd = NoCommand /\ UNCHANGED driver /\ Go(c, to)
  <2>1. /\ entered' = entered /\ blocked' = blocked /\ blocked_result' = blocked_result
        /\ cmd' = NoCommand
    BY <1>2, <1>6 DEF driver
  <2>2. /\ Job(c) \in Operation \cup Other
        /\ Job(c).op # "recover" => ~blocked /\ blocked_result = "OK"
        /\ Job(c).op = "recover" => blocked
    BY <1>1 DEF Shaped, Latched, Job
  <2>3. CASE Job(c).op = "read"
    <3>1. to = "verify"
      BY <2>3
    <3> HIDE DEF to
    <3> QED BY <1>2, <1>3, <1>6, <2>1, <2>2, <2>3, <3>1, GoStep DEF PC, TypeOK
  <2>4. CASE Job(c).op = "recover"
    <3>1. to = "clear"
      BY <2>4
    <3> HIDE DEF to
    <3> QED BY <1>2, <1>3, <1>6, <2>1, <2>2, <2>4, <3>1, GoStep DEF PC, TypeOK
  <2>5. CASE Job(c).op \notin {"read", "recover"}
    <3>1. to = "check" /\ Job(c) \in Operation
      BY <2>2, <2>5, OperationFacts
    <3> HIDE DEF to
    <3> QED BY <1>2, <1>3, <1>6, <2>1, <2>2, <2>5, <3>1, GoStep DEF PC, TypeOK
  <2> QED BY <2>3, <2>4, <2>5
<1> QED BY <1>4, <1>5, <1>6 DEF IdleCheck

(* The clock and the bits, before anything was launched.                   *)
LEMMA CheckStep == ASSUME DInv, NEW c \in Client, Check(c) PROVE DInv'
<1> USE DEF DInv
<1>1. call[c].pc = "check" /\ UNCHANGED controller
  BY DEF Check, At
<1>2. /\ cell' \in [Cell -> Word] /\ cmd' \in Operation \cup {NoCommand}
      /\ status' \in SUBSET {"ARIS", "PRIS"} /\ loaded' \in Operation \cup {NoCommand}
      /\ cmd' = cmd
  BY <1>1, ControllerTyped
<1>3. /\ entered /\ call[c].pc # "out" /\ \A d \in Client : Inside(d) => d = c
  BY <1>1, Alone DEF Inside
<1>4. /\ Job(c) \in Operation /\ Job(c).op # "recover" /\ Job(c).op # "read"
      /\ ~blocked /\ blocked_result = "OK" /\ cmd = NoCommand
  BY <1>1, OperationFacts DEF Shaped, Latched
<1>5. CASE \E why \in {"IO", "CLOCK", "BITS"} : Leave(c, why, FALSE)
  BY <1>2, <1>3, <1>4, <1>5, LeaveStep DEF Results
<1>6. CASE Go(c, "clear") /\ UNCHANGED driver
  <2>1. entered' = entered /\ blocked' = blocked /\ blocked_result' = blocked_result
    BY <1>6 DEF driver
  <2> QED BY <1>2, <1>3, <1>4, <1>6, <2>1, GoStep DEF PC, TypeOK
<1> QED BY <1>5, <1>6 DEF Check

(* Clearing the status, where recovery ends.                               *)
LEMMA ClearStatusStep == ASSUME DInv, NEW c \in Client, ClearStatus(c) PROVE DInv'
<1> USE DEF DInv
<1>1. call[c].pc = "clear" /\ UNCHANGED <<cell, cmd, loaded>> /\ status' \in {status, {}}
  BY DEF ClearStatus, At
<1>2. /\ cell' \in [Cell -> Word] /\ cmd' \in Operation \cup {NoCommand}
      /\ status' \in SUBSET {"ARIS", "PRIS"} /\ loaded' \in Operation \cup {NoCommand}
      /\ cmd' = cmd
  BY <1>1 DEF TypeOK
<1>3. /\ entered /\ call[c].pc # "out" /\ \A d \in Client : Inside(d) => d = c
  BY <1>1, Alone DEF Inside
<1>4. /\ Job(c) \in Operation \cup Other /\ Job(c).op # "read" /\ cmd = NoCommand
      /\ Job(c).op # "recover" => ~blocked /\ blocked_result = "OK"
      /\ Job(c).op = "recover" => blocked
  BY <1>1 DEF Shaped, Latched, Job
<1>5. CASE \E why \in {"IO", "STATUS"} : Leave(c, why, blocked)
  <2>1. PICK why \in {"IO", "STATUS"} : Leave(c, why, blocked)
    BY <1>5
  <2>2. why \in Results /\ why \notin {"OK", "BUSY"} /\ blocked \in BOOLEAN
    BY DEF Results, TypeOK
  <2>3. blocked_result # "OK" => blocked
    BY <1>4
  <2> QED BY <1>2, <1>3, <1>4, <2>1, <2>2, <2>3, LeaveStep
<1>6. CASE Job(c).op # "recover" /\ Go(c, "load") /\ UNCHANGED driver
  <2>1. entered' = entered /\ blocked' = blocked /\ blocked_result' = blocked_result
    BY <1>6 DEF driver
  <2>2. Job(c) \in Operation
    BY <1>4, <1>6, OperationFacts
  <2> QED BY <1>2, <1>3, <1>4, <1>6, <2>1, <2>2, GoStep DEF PC, TypeOK
<1>7. CASE /\ Return(c, "OK") /\ entered' = FALSE /\ blocked' = FALSE /\ blocked_result' = "OK"
  <2>1. /\ call' \in [Client -> Call]
        /\ call'[c] = Outside("OK" = "OK")
        /\ \A d \in Client \ {c} : call'[d] = call[d]
        /\ plan' \in [page : 0..Len(Pages), failed : BOOLEAN, entered : BOOLEAN]
        /\ Stepping'
    BY <1>3, <1>7, ReturnFacts
  <2>2. call'[c].pc = "out" /\ call'[c].job = NoCommand /\ ~call'[c].step
    BY <2>1, OutsideFacts
  <2>3. \A d \in Client : call'[d].pc \in {"out", "enter"}
    BY <1>3, <2>1, <2>2 DEF Inside
  <2>4. TypeOK'
    BY <1>2, <1>7, <2>1 DEF TypeOK
  <2>5. Shaped'
    BY <2>1, <2>2 DEF Shaped, Job
  <2>6. Exclusive' /\ Latched'
    BY <2>3 DEF Exclusive, Latched, Inside
  <2>7. BlockedWhileInDoubt'
    BY <1>2, <1>4, <1>7 DEF BlockedWhileInDoubt
  <2> QED BY <2>1, <2>4, <2>5, <2>6, <2>7
<1> QED BY <1>5, <1>6, <1>7 DEF ClearStatus

(* The address and the data are not yet a command.                         *)
LEMMA LoadStep == ASSUME DInv, NEW c \in Client, Load(c) PROVE DInv'
<1> USE DEF DInv
<1>1. call[c].pc = "load" /\ UNCHANGED <<cell, cmd, status>>
  BY DEF Load, At
<1>2. /\ entered /\ call[c].pc # "out" /\ \A d \in Client : Inside(d) => d = c
  BY <1>1, Alone DEF Inside
<1>3. /\ Job(c) \in Operation /\ Job(c).op # "recover"
      /\ ~blocked /\ blocked_result = "OK" /\ cmd = NoCommand
  BY <1>1, OperationFacts DEF Shaped, Latched
<1>4. /\ cell' \in [Cell -> Word] /\ cmd' \in Operation \cup {NoCommand}
      /\ status' \in SUBSET {"ARIS", "PRIS"} /\ loaded' \in Operation \cup {NoCommand}
      /\ cmd' = NoCommand
  BY <1>1, <1>3 DEF Load, TypeOK
<1>5. CASE Leave(c, "IO", FALSE)
  BY <1>2, <1>3, <1>4, <1>5, LeaveStep DEF Results
<1>6. CASE loaded' = Job(c) /\ Go(c, "launch") /\ UNCHANGED driver
  <2>1. entered' = entered /\ blocked' = blocked /\ blocked_result' = blocked_result
    BY <1>6 DEF driver
  <2> QED BY <1>2, <1>3, <1>4, <1>6, <2>1, GoStep DEF PC, TypeOK
<1> QED BY <1>5, <1>6 DEF Load

(* The command is written with the latch already set.                      *)
LEMMA LaunchStep == ASSUME DInv, NEW c \in Client, Launch(c) PROVE DInv'
<1> USE DEF DInv
<1>1. call[c].pc = "launch" /\ UNCHANGED <<cell, status>> /\ loaded' = NoCommand
  BY DEF Launch, At
<1>2. /\ entered /\ call[c].pc # "out" /\ \A d \in Client : Inside(d) => d = c
  BY <1>1, Alone DEF Inside
<1>3. Job(c) \in Operation /\ loaded = Job(c) /\ blocked_result = "OK"
  BY <1>1, OperationFacts DEF Shaped, Latched
<1>4. /\ cell' \in [Cell -> Word] /\ cmd' \in Operation \cup {NoCommand}
      /\ status' \in SUBSET {"ARIS", "PRIS"} /\ loaded' \in Operation \cup {NoCommand}
  BY <1>1 DEF Launch, TypeOK
<1>5. CASE Leave(c, "IO", TRUE)
  BY <1>2, <1>4, <1>5, LeaveStep DEF Results
<1>6. CASE blocked' = TRUE /\ Go(c, "wait") /\ UNCHANGED <<entered, blocked_result>>
  BY <1>2, <1>3, <1>4, <1>6, GoStep DEF PC, TypeOK
<1> QED BY <1>5, <1>6 DEF Launch

(* Polling keeps the latch.                                                *)
LEMMA WaitStep == ASSUME DInv, NEW c \in Client, Wait(c) PROVE DInv'
<1> USE DEF DInv
<1>1. call[c].pc = "wait" /\ UNCHANGED controller
  BY DEF Wait, At
<1>2. /\ cell' \in [Cell -> Word] /\ cmd' \in Operation \cup {NoCommand}
      /\ status' \in SUBSET {"ARIS", "PRIS"} /\ loaded' \in Operation \cup {NoCommand}
      /\ cmd' = cmd
  BY <1>1, ControllerTyped
<1>3. /\ entered /\ call[c].pc # "out" /\ \A d \in Client : Inside(d) => d = c
  BY <1>1, Alone DEF Inside
<1>4. Job(c) \in Operation /\ blocked /\ blocked_result = "OK"
  BY <1>1 DEF Shaped, Latched
<1>5. CASE \E why \in {"IO", "TIMEOUT"} : Leave(c, why, TRUE)
  BY <1>2, <1>3, <1>5, LeaveStep DEF Results
<1>6. CASE cmd = NoCommand /\ Go(c, "result") /\ UNCHANGED driver
  <2>1. entered' = entered /\ blocked' = blocked /\ blocked_result' = blocked_result
    BY <1>6 DEF driver
  <2> QED BY <1>2, <1>3, <1>4, <1>6, <2>1, GoStep DEF PC, TypeOK
<1> QED BY <1>5, <1>6 DEF Wait

(* The status is read with the latch set.                                  *)
LEMMA ResultStep == ASSUME DInv, NEW c \in Client, Result(c) PROVE DInv'
<1> USE DEF DInv
<1>1. call[c].pc = "result" /\ UNCHANGED controller
  BY DEF Result, At
<1>2. /\ cell' \in [Cell -> Word] /\ cmd' \in Operation \cup {NoCommand}
      /\ status' \in SUBSET {"ARIS", "PRIS"} /\ loaded' \in Operation \cup {NoCommand}
      /\ cmd' = cmd
  BY <1>1, ControllerTyped
<1>3. /\ entered /\ call[c].pc # "out" /\ \A d \in Client : Inside(d) => d = c
  BY <1>1, Alone DEF Inside
<1>4. /\ Job(c).op \notin {"read", "recover"}
      /\ blocked /\ blocked_result = "OK" /\ cmd = NoCommand
  BY <1>1, OperationFacts DEF Shaped, Latched
<1>5. CASE \E why \in {"IO", "PROTECTED", "STATUS"} : Leave(c, why, TRUE)
  BY <1>2, <1>3, <1>5, LeaveStep DEF Results
<1>6. CASE Go(c, "verify") /\ UNCHANGED driver
  <2>1. entered' = entered /\ blocked' = blocked /\ blocked_result' = blocked_result
    BY <1>6 DEF driver
  <2> QED BY <1>2, <1>3, <1>4, <1>6, <2>1, GoStep DEF PC, TypeOK
<1> QED BY <1>5, <1>6 DEF Result

(* Only the read-back opens the latch.                                     *)
LEMMA VerifyStep == ASSUME DInv, NEW c \in Client, Verify(c) PROVE DInv'
<1> USE DEF DInv
<1>1. call[c].pc = "verify" /\ UNCHANGED controller
  BY DEF Verify, At
<1>2. /\ cell' \in [Cell -> Word] /\ cmd' \in Operation \cup {NoCommand}
      /\ status' \in SUBSET {"ARIS", "PRIS"} /\ loaded' \in Operation \cup {NoCommand}
      /\ cmd' = cmd
  BY <1>1, ControllerTyped
<1>3. /\ entered /\ call[c].pc # "out" /\ \A d \in Client : Inside(d) => d = c
  BY <1>1, Alone DEF Inside
<1>4. blocked_result = "OK" /\ cmd = NoCommand /\ blocked \in BOOLEAN
  BY <1>1 DEF Latched, TypeOK
<1>5. CASE Leave(c, "IO", blocked)
  BY <1>2, <1>3, <1>4, <1>5, LeaveStep DEF Results
<1>6. CASE Leave(c, "OK", FALSE)
  BY <1>2, <1>3, <1>4, <1>6, LeaveStep DEF Results
<1>7. CASE Leave(c, "VERIFY", TRUE)
  BY <1>2, <1>3, <1>7, LeaveStep DEF Results
<1> QED BY <1>5, <1>6, <1>7 DEF Verify

(* The invariant is inductive.                                             *)
LEMMA StepDriver == DInv /\ [Next]_vars => DInv'
<1> SUFFICES ASSUME DInv, [Next]_vars PROVE DInv' OBVIOUS
<1>1. CASE CommandEnds \/ Reset
  BY <1>1, ControllerStep
<1>2. ASSUME NEW c \in Client,
             \/ \E job \in Operation \cup Other : CallDriver(c, job)
             \/ ErasePlanBegin(c) \/ EraseStep(c) \/ EraseStepRefused(c)
             \/ Enter(c) \/ IdleCheck(c) \/ Check(c) \/ ClearStatus(c) \/ Load(c)
             \/ Launch(c) \/ Wait(c) \/ Result(c) \/ Verify(c)
      PROVE  DInv'
  BY <1>2, BeginStep, EnterStep, IdleCheckStep, CheckStep, ClearStatusStep, LoadStep,
     LaunchStep, WaitStep, ResultStep, VerifyStep
<1>3. CASE UNCHANGED vars
  BY <1>3 DEF vars, controller, driver, DInv, TypeOK, Shaped, Exclusive, Latched, Stepping,
              BlockedWhileInDoubt, Inside, Job
<1> QED BY <1>1, <1>2, <1>3 DEF Next

(* Whoever calls and whatever fails, the driver's state stays typed and it *)
(* is blocked as long as a command may be running.                         *)
THEOREM BlockedTheorem == Spec => [](TypeOK /\ BlockedWhileInDoubt)
<1>1. DInv => TypeOK /\ BlockedWhileInDoubt
  BY DEF DInv
<1> QED BY <1>1, InitDriver, StepDriver, PTL DEF Spec

-----------------------------------------------------------------------------
(* What OK means                                                           *)

(* The action of another client, or one that goes on, answers nothing.     *)
LEMMA AnswerFacts ==
  ASSUME DInv, NEW c \in Client, call[c].pc # "out", call'[c] = Outside(TRUE)
  PROVE  /\ \A d \in Client, result \in Results : Return(d, result) => d = c /\ result = "OK"
         /\ \A d \in Client, pc \in PC \ {"out"} : ~Go(d, pc)
         /\ call' # call
<1> USE DEF DInv
<1>1. call'[c].pc = "out" /\ call'[c].ok = TRUE
  BY OutsideFacts
<1>2. ASSUME NEW d \in Client, NEW result \in Results, Return(d, result)
      PROVE  d = c /\ result = "OK"
  <2>1. call' = [call EXCEPT ![d] = Outside(result = "OK")]
    BY <1>2 DEF Return
  <2>2. d = c
    BY <1>1, <2>1 DEF TypeOK
  <2>3. call'[c] = Outside(result = "OK")
    BY <2>1, <2>2 DEF TypeOK
  <2>4. (result = "OK") = TRUE
    BY <1>1, <2>3, OutsideFacts
  <2> QED BY <2>2, <2>4
<1>3. ASSUME NEW d \in Client, NEW pc \in PC \ {"out"}, Go(d, pc)
      PROVE  FALSE
  <2>1. call'[d].pc = pc /\ \A e \in Client \ {d} : call'[e] = call[e]
    BY <1>3, GoFacts
  <2> QED BY <1>1, <2>1
<1>4. call' # call
  BY <1>1
<1> QED BY <1>2, <1>3, <1>4

(* OK is answered where a call was verified.                               *)
LEMMA OkFromVerify ==
  ASSUME DInv, [Next]_vars, NEW c \in Client, call[c].pc # "out",
         call'[c] = Outside(TRUE), Job(c) \in Operation
  PROVE  /\ call[c].pc = "verify" /\ UNCHANGED controller /\ cmd = NoCommand
         /\ cell[Job(c).cell] = Job(c).word
<1> USE DEF DInv
<1>1. /\ \A d \in Client, result \in Results : Return(d, result) => d = c /\ result = "OK"
      /\ \A d \in Client, pc \in PC \ {"out"} : ~Go(d, pc)
      /\ call' # call
  BY AnswerFacts
<1>2. \A block : \A d \in Client, result \in Results :
        Leave(d, result, block) => d = c /\ result = "OK"
  BY <1>1 DEF Leave
<1>3. Job(c).op \in {"program", "erase"} /\ call'[c].pc = "out" /\ call'[c].ok = TRUE
  BY OperationFacts, OutsideFacts
<1>4. ~CommandEnds
  BY <1>1 DEF CommandEnds, Finish
<1>5. ~Reset
  BY <1>3, OutsideFacts DEF Reset
<1>6. ASSUME NEW d \in Client,
             \/ \E job \in Operation \cup Other : CallDriver(d, job)
             \/ ErasePlanBegin(d) \/ EraseStep(d) \/ EraseStepRefused(d)
      PROVE  FALSE
  <2>1. Idle(d) /\ \E k : call' = [call EXCEPT ![d] = k]
    BY <1>6 DEF CallDriver, ErasePlanBegin, EraseStep, EraseStepRefused, Begin
  <2>2. d # c
    BY <2>1 DEF Idle
  <2> QED BY <1>3, <2>1, <2>2 DEF TypeOK
<1>7. ASSUME NEW d \in Client, Enter(d) PROVE FALSE
  BY <1>1, <1>2, <1>7 DEF Enter, Results, PC
<1>8. ASSUME NEW d \in Client, IdleCheck(d) PROVE FALSE
  <2> DEFINE to == CASE Job(d).op = "read" -> "verify" [] Job(d).op = "recover" -> "clear"
                     [] OTHER -> "check"
  <2>1. to \in PC \ {"out"}
    BY DEF PC
  <2> QED BY <1>1, <1>2, <1>8, <2>1 DEF IdleCheck, Results
<1>9. ASSUME NEW d \in Client, Check(d) PROVE FALSE
  BY <1>1, <1>2, <1>9 DEF Check, Results, PC
<1>10. ASSUME NEW d \in Client, ClearStatus(d) PROVE FALSE
  BY <1>1, <1>2, <1>3, <1>10 DEF ClearStatus, Results, PC
<1>11. ASSUME NEW d \in Client, Load(d) \/ Launch(d) PROVE FALSE
  BY <1>1, <1>2, <1>11 DEF Load, Launch, Results, PC
<1>12. ASSUME NEW d \in Client, Wait(d) \/ Result(d) PROVE FALSE
  BY <1>1, <1>2, <1>12 DEF Wait, Result, Results, PC
<1>13. ASSUME NEW d \in Client, Verify(d)
       PROVE  /\ call[c].pc = "verify" /\ UNCHANGED controller /\ cmd = NoCommand
              /\ cell[Job(c).cell] = Job(c).word
  <2>1. d = c
    BY <1>2, <1>13 DEF Verify, Results, TypeOK
  <2>2. call[c].pc = "verify" /\ UNCHANGED controller /\ cmd = NoCommand
    BY <1>13, <2>1 DEF Verify, At, Latched
  <2>3. cell[Job(c).cell] = Job(c).word
    BY <1>2, <1>3, <1>13, <2>1 DEF Verify, Results
  <2> QED BY <2>2, <2>3
<1>14. ~UNCHANGED vars
  BY <1>1 DEF vars
<1> QED BY <1>4, <1>5, <1>6, <1>7, <1>8, <1>9, <1>10, <1>11, <1>12, <1>13, <1>14 DEF Next

(* OK means that the cell holds what was asked for and nothing runs.       *)
THEOREM DurableTheorem == Spec => OkIsDurable
<1>1. DInv /\ [Next]_vars => OkStep
  BY OkFromVerify DEF OkStep, controller
<1>2. DInv /\ [Next]_vars => [OkStep]_vars
  BY <1>1
<1> QED BY <1>2, InitDriver, StepDriver, PTL DEF Spec, OkIsDurable

-----------------------------------------------------------------------------
(* The order of the erase plan                                             *)

(* What the plan counts is erased.                                         *)
Counted ==
  plan.page < Len(Pages) => \A i \in 1..plan.page : cell[Pages[i]] = Bits

(* The controller does not work on a page the plan counts, even when the   *)
(* call that launched the command has long given up.                       *)
NotAgain ==
  cmd # NoCommand /\ plan.page < Len(Pages) => \A i \in 1..plan.page : cmd.cell # Pages[i]

(* Before the plan is done, only its own step asks for a cell of the slot, *)
(* and that step asks for an erased one.                                   *)
SlotIsThePlans ==
  \A c \in Client :
    /\ Job(c) \in Operation /\ Job(c).cell \in Slot => call[c].step \/ plan.page = Len(Pages)
    /\ call[c].step => Job(c).word = Bits

PInv == Counted /\ NotAgain /\ SlotIsThePlans

(* A page of the plan is a cell of the slot, and no two are the same.      *)
LEMMA PageFacts ==
  /\ \A i \in 1..Len(Pages) : Pages[i] \in Slot /\ Pages[i] \in Cell /\ Pages[i] \notin Meta
  /\ \A i, j \in 1..Len(Pages) : Pages[i] = Pages[j] => i = j
<1>1. DOMAIN Pages = 1..Len(Pages)
  BY CellAssumption
<1> QED BY <1>1, CellAssumption DEF Slot, Cell

(* An access of a call leaves flash alone, and lets the call go on or end; *)
(* only the launch changes what the controller runs.                       *)
LEMMA AccessFacts ==
  ASSUME DInv, NEW c \in Client,
         \/ Enter(c) \/ IdleCheck(c) \/ Check(c) \/ ClearStatus(c) \/ Load(c)
         \/ Launch(c) \/ Wait(c) \/ Result(c) \/ Verify(c)
  PROVE  /\ call[c].pc # "out" /\ cell' = cell
         /\ (\E result \in Results : Return(c, result)) \/ (\E pc \in PC : Go(c, pc))
         /\ cmd' = cmd \/ (call[c].pc = "launch" /\ cmd' = Job(c))
<1> USE DEF DInv
<1>1. CASE Enter(c)
  BY <1>1 DEF Enter, At, Leave, Results, PC, controller
<1>2. CASE IdleCheck(c)
  <2> DEFINE to == CASE Job(c).op = "read" -> "verify" [] Job(c).op = "recover" -> "clear"
                     [] OTHER -> "check"
  <2>1. to \in PC
    BY DEF PC
  <2> QED BY <1>2, <2>1 DEF IdleCheck, At, Leave, Results, controller
<1>3. CASE Check(c)
  BY <1>3 DEF Check, At, Leave, Results, PC, controller
<1>4. CASE ClearStatus(c)
  BY <1>4 DEF ClearStatus, At, Leave, Results, PC
<1>5. CASE Load(c)
  BY <1>5 DEF Load, At, Leave, Results, PC
<1>6. CASE Launch(c)
  <2>1. call[c].pc = "launch" /\ cell' = cell /\ loaded = Job(c)
    BY <1>6 DEF Launch, At, Latched
  <2> QED BY <1>6, <2>1 DEF Launch, Leave, Results, PC
<1>7. CASE Wait(c) \/ Result(c)
  BY <1>7 DEF Wait, Result, At, Leave, Results, PC, controller
<1>8. CASE Verify(c)
  BY <1>8 DEF Verify, At, Leave, Results, controller
<1> QED BY <1>1, <1>2, <1>3, <1>4, <1>5, <1>6, <1>7, <1>8

(* A step that neither counts a page nor starts a new plan keeps the       *)
(* order, if every command in flight was a job before.                     *)
LEMMA KeptOrder ==
  ASSUME DInv, PInv, cell' = cell, plan'.page = plan.page,
         \A d \in Client :
           \/ call'[d].job = call[d].job /\ call'[d].step = call[d].step
           \/ call'[d].job = NoCommand /\ ~call'[d].step,
         cmd' = cmd \/ \E c \in Client : call[c].pc = "launch" /\ cmd' = Job(c)
  PROVE  PInv'
<1> USE DEF DInv, PInv
<1>1. Counted'
  BY DEF Counted
<1>2. NotAgain'
  <2>1. CASE cmd' = cmd
    BY <2>1 DEF NotAgain
  <2>2. ASSUME NEW c \in Client, call[c].pc = "launch", cmd' = Job(c)
        PROVE  NotAgain'
    <3>1. Job(c) \in Operation /\ Job(c).cell \in Cell
      BY <2>2, OperationFacts DEF Shaped
    <3>2. SUFFICES ASSUME plan.page < Len(Pages), NEW i \in 1..plan.page
                   PROVE  Job(c).cell # Pages[i]
      BY <2>2 DEF NotAgain
    <3>3. i \in 1..Len(Pages) /\ plan.page + 1 \in 1..Len(Pages) /\ i # plan.page + 1
      BY <3>2, PagesLength DEF TypeOK
    <3>4. CASE Job(c).cell \in Slot
      <4>1. Job(c).cell = Pages[plan.page + 1]
        BY <3>1, <3>2, <3>4, PagesLength DEF SlotIsThePlans, Stepping, TypeOK
      <4> QED BY <3>3, <4>1, PageFacts
    <3>5. CASE Job(c).cell \notin Slot
      BY <3>3, <3>5, PageFacts
    <3> QED BY <3>4, <3>5
  <2> QED BY <2>1, <2>2
<1>3. SlotIsThePlans'
  BY OperationFacts DEF SlotIsThePlans, Job
<1> QED BY <1>1, <1>2, <1>3

(* A page is counted after it was read back erased, with the controller at *)
(* rest; a page that failed is not counted.                                *)
LEMMA CountedOrder ==
  ASSUME DInv, PInv, [Next]_vars, NEW c \in Client, call[c].step, NEW result \in Results,
         Return(c, result), cell' = cell,
         cmd' = cmd \/ (call[c].pc = "launch" /\ cmd' = Job(c))
  PROVE  PInv'
<1> USE DEF DInv, PInv
<1>1. /\ call' \in [Client -> Call] /\ call'[c] = Outside(result = "OK")
      /\ \A d \in Client \ {c} : call'[d] = call[d]
  BY ReturnFacts DEF Shaped
<1>2. plan' = PlanAfter(result = "OK") /\ plan.page \in Nat /\ plan.page < Len(Pages)
  BY PagesLength DEF Return, TypeOK, Stepping
<1>3. call'[c].job = NoCommand /\ ~call'[c].step
  BY <1>1, OutsideFacts
<1>4. CASE result # "OK"
  <2>1. plan'.page = plan.page
    BY <1>2, <1>4 DEF PlanAfter, TypeOK
  <2> QED BY <1>1, <1>3, <2>1, KeptOrder
<1>5. CASE result = "OK"
  <2>1. plan'.page = plan.page + 1
    BY <1>2, <1>5 DEF PlanAfter, TypeOK
  <2>2. call'[c] = Outside(TRUE) /\ call[c].pc # "out" /\ Job(c) \in Operation
    <3>1. (result = "OK") = TRUE
      BY <1>5
    <3> QED BY <1>1, <3>1 DEF Shaped
  <2>3. UNCHANGED controller /\ cmd = NoCommand /\ cell[Job(c).cell] = Job(c).word
    BY <2>2, OkFromVerify
  <2>4. cell'[Pages[plan.page + 1]] = Bits /\ cmd' = NoCommand
    BY <2>3 DEF Stepping, SlotIsThePlans, controller
  <2>5. Counted'
    <3> SUFFICES ASSUME NEW i \in 1..(plan.page + 1) PROVE cell'[Pages[i]] = Bits
      BY <2>1 DEF Counted
    <3>1. i \in 1..plan.page \/ i = plan.page + 1
      BY <1>2
    <3> QED BY <1>2, <2>4, <3>1 DEF Counted
  <2>6. NotAgain'
    BY <2>4 DEF NotAgain
  <2>7. SlotIsThePlans'
    <3>1. \A d \in Client \ {c} : ~call[d].step /\ plan.page # Len(Pages)
      BY <1>2, PagesLength DEF Stepping
    <3> QED BY <1>1, <1>3, <3>1, OperationFacts DEF SlotIsThePlans, Job
  <2> QED BY <2>5, <2>6, <2>7
<1> QED BY <1>4, <1>5

(* Every access keeps the order.                                           *)
LEMMA AccessOrder ==
  ASSUME DInv, PInv, [Next]_vars, NEW c \in Client,
         \/ Enter(c) \/ IdleCheck(c) \/ Check(c) \/ ClearStatus(c) \/ Load(c)
         \/ Launch(c) \/ Wait(c) \/ Result(c) \/ Verify(c)
  PROVE  PInv'
<1>1. /\ call[c].pc # "out" /\ cell' = cell
      /\ (\E result \in Results : Return(c, result)) \/ (\E pc \in PC : Go(c, pc))
      /\ cmd' = cmd \/ (call[c].pc = "launch" /\ cmd' = Job(c))
  BY AccessFacts
<1>2. ASSUME NEW pc \in PC, Go(c, pc) PROVE PInv'
  <2>1. /\ call'[c].job = call[c].job /\ call'[c].step = call[c].step
        /\ \A d \in Client \ {c} : call'[d] = call[d]
        /\ plan' = plan
    BY <1>2, GoFacts
  <2> QED BY <1>1, <2>1, KeptOrder
<1>3. ASSUME NEW result \in Results, Return(c, result) PROVE PInv'
  <2>1. CASE call[c].step
    BY <1>1, <1>3, <2>1, CountedOrder
  <2>2. CASE ~call[c].step
    <3>1. /\ call'[c] = Outside(result = "OK")
          /\ \A d \in Client \ {c} : call'[d] = call[d]
          /\ plan' = plan
      BY <1>1, <1>3, <2>2, ReturnFacts DEF Return
    <3>2. call'[c].job = NoCommand /\ ~call'[c].step
      BY <3>1, OutsideFacts
    <3> QED BY <1>1, <3>1, <3>2, KeptOrder
  <2> QED BY <2>1, <2>2
<1> QED BY <1>1, <1>2, <1>3

(* So does a call that begins; a new plan counts nothing yet.              *)
LEMMA BeginOrder ==
  ASSUME DInv, PInv, NEW c \in Client,
         \/ \E job \in Operation \cup Other : CallDriver(c, job)
         \/ ErasePlanBegin(c) \/ EraseStep(c) \/ EraseStepRefused(c)
  PROVE  PInv'
<1> USE DEF DInv, PInv
<1>1. CASE \E job \in Operation \cup Other : CallDriver(c, job)
  <2>1. PICK job \in Operation \cup Other : CallDriver(c, job)
    BY <1>1
  <2>2. /\ call'[c].job = job /\ ~call'[c].step /\ \A d \in Client \ {c} : call'[d] = call[d]
        /\ UNCHANGED <<cell, cmd, plan>>
        /\ job \in Operation => job.cell \in Meta \/ plan.page = Len(Pages)
    BY <2>1 DEF CallDriver, Begin, TypeOK, controller
  <2>3. job \in Operation /\ job.cell \in Slot => plan.page = Len(Pages)
    BY <2>2, CellAssumption
  <2>4. SlotIsThePlans'
    BY <2>2, <2>3 DEF SlotIsThePlans, Job
  <2> QED BY <2>2, <2>4 DEF Counted, NotAgain
<1>2. CASE ErasePlanBegin(c)
  <2>1. plan'.page = 0 /\ call' = [call EXCEPT ![c] = Outside(FALSE)]
    BY <1>2 DEF ErasePlanBegin, NewPlan
  <2>2. call'[c].job = NoCommand /\ ~call'[c].step /\ \A d \in Client \ {c} : call'[d] = call[d]
    BY <2>1, OutsideFacts DEF TypeOK
  <2>3. \A d \in Client : ~call[d].step /\ (call[d].job \in Operation => call[d].job.cell \in Meta)
    BY <1>2 DEF ErasePlanBegin, Stepping
  <2>4. SlotIsThePlans'
    BY <2>2, <2>3, OperationFacts, CellAssumption DEF SlotIsThePlans, Job
  <2> QED BY <2>1, <2>4 DEF Counted, NotAgain
<1>3. CASE EraseStep(c)
  <2>1. /\ call'[c].step /\ call'[c].job.word = Bits
        /\ \A d \in Client \ {c} : call'[d] = call[d]
        /\ UNCHANGED <<cell, cmd>> /\ plan'.page = plan.page
    BY <1>3 DEF EraseStep, Begin, TypeOK, controller
  <2>2. SlotIsThePlans'
    BY <2>1 DEF SlotIsThePlans, Job
  <2> QED BY <2>1, <2>2 DEF Counted, NotAgain
<1>4. CASE EraseStepRefused(c)
  <2>1. call' = [call EXCEPT ![c] = Outside(FALSE)] /\ UNCHANGED <<cell, cmd, plan>>
    BY <1>4 DEF EraseStepRefused, controller
  <2>2. call'[c].job = NoCommand /\ ~call'[c].step /\ \A d \in Client \ {c} : call'[d] = call[d]
    BY <2>1, OutsideFacts DEF TypeOK
  <2> QED BY <2>1, <2>2, KeptOrder
<1> QED BY <1>1, <1>2, <1>3, <1>4

(* A command that ends spoils no counted page; a reset forgets the plan.   *)
LEMMA ControllerOrder == ASSUME DInv, PInv, CommandEnds \/ Reset PROVE PInv'
<1> USE DEF DInv, PInv
<1>1. CASE CommandEnds
  <2>1. PICK left : /\ cmd # NoCommand /\ cmd' = NoCommand
                    /\ cell' = [cell EXCEPT ![cmd.cell] = left]
                    /\ UNCHANGED <<plan, call>>
    BY <1>1 DEF CommandEnds, Finish
  <2>2. Counted'
    <3> SUFFICES ASSUME plan.page < Len(Pages), NEW i \in 1..plan.page
                 PROVE  cell'[Pages[i]] = Bits
      BY <2>1 DEF Counted
    <3>1. Pages[i] \in Cell
      BY PageFacts, PagesLength DEF TypeOK
    <3> QED BY <2>1, <3>1 DEF Counted, NotAgain, TypeOK
  <2> QED BY <2>1, <2>2 DEF NotAgain, SlotIsThePlans, Job
<1>2. CASE Reset
  <2>1. \A d \in Client : call'[d].job = NoCommand /\ ~call'[d].step
    BY <1>2, OutsideFacts DEF Reset
  <2>2. plan'.page = 0
    BY <1>2 DEF Reset, NewPlan
  <2> QED BY <2>1, <2>2, OperationFacts DEF Counted, NotAgain, SlotIsThePlans, Job
<1> QED BY <1>1, <1>2

(* The plan's invariant is inductive, given the driver's.                  *)
LEMMA StepOrder == DInv /\ PInv /\ [Next]_vars => PInv'
<1> SUFFICES ASSUME DInv, PInv, [Next]_vars PROVE PInv' OBVIOUS
<1>1. CASE CommandEnds \/ Reset
  BY <1>1, ControllerOrder
<1>2. ASSUME NEW c \in Client,
             \/ \E job \in Operation \cup Other : CallDriver(c, job)
             \/ ErasePlanBegin(c) \/ EraseStep(c) \/ EraseStepRefused(c)
             \/ Enter(c) \/ IdleCheck(c) \/ Check(c) \/ ClearStatus(c) \/ Load(c)
             \/ Launch(c) \/ Wait(c) \/ Result(c) \/ Verify(c)
      PROVE  PInv'
  BY <1>2, BeginOrder, AccessOrder
<1>3. CASE UNCHANGED vars
  BY <1>3 DEF vars, controller, PInv, Counted, NotAgain, SlotIsThePlans, Job
<1> QED BY <1>1, <1>2, <1>3 DEF Next

(* Whatever fails, is refused or is recovered from, every page the erase   *)
(* plan counts stays erased until the plan is done, and its step works on  *)
(* the first page it does not count.                                       *)
THEOREM OrderTheorem == Spec => []PlanErasesInOrder
<1>1. Init => PInv
  <2> SUFFICES ASSUME Init PROVE PInv OBVIOUS
  <2>1. \A d \in Client : call[d].job = NoCommand /\ ~call[d].step
    BY OutsideFacts DEF Init
  <2>2. plan.page = 0 /\ cmd = NoCommand
    BY DEF Init, DriverInit, NewPlan
  <2> QED BY <2>1, <2>2, OperationFacts DEF PInv, Counted, NotAgain, SlotIsThePlans, Job
<1>2. DInv /\ PInv => PlanErasesInOrder
  BY DEF DInv, PInv, Counted, Stepping, PlanErasesInOrder
<1> QED BY <1>1, <1>2, InitDriver, StepDriver, StepOrder, PTL DEF Spec
=============================================================================
