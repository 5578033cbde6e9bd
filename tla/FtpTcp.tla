------------------------------- MODULE FtpTcp -------------------------------
(***************************************************************************)
(* The FTP server on lwIP: ftp_tcp.c between the core of FtpCore and the   *)
(* TCP stack.  A call of ftp_tcp_service is a sequence of stages, one core *)
(* call each; lwIP's callbacks come between two calls.  The stack is       *)
(* modelled by what ftp_tcp.c uses of it: a connection delivers the peer's *)
(* chains in order, keeps one that receive() refused and offers it again,  *)
(* then delivers the end; it may fail at any time, and every write, output *)
(* or close may fail.                                                      *)
(*                                                                         *)
(* A peer sends any chains of chunks on a data connection, of which a turn *)
(* takes at most one chunk.  A control chain is some number of bytes that  *)
(* nothing is said of: the loop of input_control takes lines from it until *)
(* it is used up or its budget is.                                         *)
(***************************************************************************)
EXTENDS FtpCore

CONSTANTS
  Chain,  \* the chains of chunks that lwIP delivers, in pbufs of any size
  Most    \* chunks a peer sends on a data connection, at most

ASSUME ChainAssumption == Chain \subseteq Seq(Chunk) /\ <<>> \notin Chain /\ Chain # {}
ASSUME MostAssumption == Most \in Nat

VARIABLES
  stage, back,  \* where ftp_tcp_service is, and where actions() returns to
  control, data,\* the channels
  listener,     \* the listener on port 21
  offer,        \* the passive listener
  \* the peer of the data connection
  sent,         \* the chunks it sent
  finished      \* and that it sent its end

glue == <<stage, back, control, data, listener, offer>>
peer == <<sent, finished>>
vars == <<core, glue, peer>>

(* A channel: the held chain rx, and refused, the chain lwIP keeps.        *)
NoChannel == [pcb |-> FALSE, rx |-> <<>>, refused |-> <<>>, fin |-> FALSE,
              failed |-> FALSE, output |-> FALSE, closing |-> FALSE]
Fresh == [NoChannel EXCEPT !.pcb = TRUE]

Init ==
  /\ CoreInit
  /\ stage = "idle" /\ back = "idle"
  /\ control = NoChannel /\ data = NoChannel
  /\ listener = FALSE /\ offer = FALSE
  /\ sent = <<>> /\ finished = FALSE

(* A step that calls no function of the core.                              *)
CoreKeeps == UNCHANGED core

-----------------------------------------------------------------------------
(* Callbacks, between two service calls                                    *)

Between == stage = "idle" /\ UNCHANGED <<stage, back>>

Started ==
  /\ Between /\ ~listener
  /\ listener' = TRUE
  /\ CoreKeeps /\ UNCHANGED <<control, data, offer, peer>>

(* Every connection is dropped without a word; the core's requests to do   *)
(* so are taken and ignored.                                               *)
LinkDown ==
  /\ Between /\ listener
  /\ listener' = FALSE /\ offer' = FALSE
  /\ control' = NoChannel /\ data' = NoChannel
  /\ Teardown(contract) /\ LoggedOut /\ actions' = {}
  /\ UNCHANGED <<refused, peer>>

AcceptControl ==
  /\ Between /\ listener
  /\ ~control.pcb /\ ~control.failed
  /\ SessionOpen
  /\ control' = Fresh
  /\ UNCHANGED <<data, listener, offer, peer>>

(* One data connection for each passive request: the listener is closed    *)
(* before a second one can be accepted.                                    *)
AcceptData ==
  /\ Between /\ offer
  /\ control.pcb /\ ~data.pcb /\ ~data.failed
  /\ DataConnected
  /\ data' = Fresh
  /\ offer' = FALSE
  /\ sent' = <<>> /\ finished' = FALSE
  /\ UNCHANGED <<control, listener>>

\* Faulty variant: a new chain replaces the one that is still held.
ReceivedOver(c, chain) == [c EXCEPT !.rx = chain]

(* receive: one chain is held, the next is refused and stays with lwIP.    *)
Received(c, chain) ==
  IF c.rx = <<>> THEN [c EXCEPT !.rx = chain] ELSE [c EXCEPT !.refused = chain]

(* A chain on the control connection.                                      *)
Bytes == CHOOSE chain \in Chain : TRUE

ReceiveControl ==
  /\ Between /\ control.pcb /\ control.refused = <<>> /\ ~control.fin
  /\ control' = IF quitting THEN control ELSE Received(control, Bytes)
  /\ CoreKeeps /\ UNCHANGED <<data, listener, offer, peer>>

FinControl ==
  /\ Between /\ control.pcb /\ control.refused = <<>>
  /\ control' = [control EXCEPT !.fin = TRUE]
  /\ CoreKeeps /\ UNCHANGED <<data, listener, offer, peer>>

ReceiveData ==
  /\ Between /\ data.pcb /\ data.refused = <<>> /\ ~finished
  /\ \E chain \in Chain :
       /\ Len(sent \o chain) <= Most
       /\ data' = Received(data, chain)
       /\ sent' = sent \o chain
  /\ CoreKeeps /\ UNCHANGED <<control, listener, offer, finished>>

(* lwIP delivers the end only after what it kept.                          *)
FinData ==
  /\ Between /\ data.pcb /\ data.refused = <<>> /\ ~finished
  /\ data' = [data EXCEPT !.fin = TRUE]
  /\ finished' = TRUE
  /\ CoreKeeps /\ UNCHANGED <<control, listener, offer, sent>>

(* tcp_process_refused_data: receive() is offered the kept chain again.    *)
Reoffered(c) == Received([c EXCEPT !.refused = <<>>], c.refused)

Reoffer ==
  /\ Between
  /\ \/ /\ data.refused # <<>> /\ data.rx = <<>>
        /\ data' = Reoffered(data)
        /\ UNCHANGED control
     \/ /\ control.refused # <<>> /\ control.rx = <<>>
        /\ control' = IF quitting THEN [control EXCEPT !.refused = <<>>]
                                  ELSE Reoffered(control)
        /\ UNCHANGED data
  /\ CoreKeeps /\ UNCHANGED <<listener, offer, peer>>

(* sent: acknowledgements of what was enqueued.                            *)
SentData ==
  /\ Between /\ data.pcb
  /\ \E n \in 1..Capacity : DownloadAcked(n)
  /\ UNCHANGED <<control, data, listener, offer, peer>>

\* Faulty variant: the failure is not left for the next service call.
BrokenSilently == NoChannel

(* error: the connection is already gone.                                  *)
Broken == [NoChannel EXCEPT !.failed = TRUE]

Error ==
  /\ Between
  /\ \/ control.pcb /\ control' = Broken /\ UNCHANGED data
     \/ data.pcb /\ data' = Broken /\ UNCHANGED control
  /\ CoreKeeps /\ UNCHANGED <<listener, offer, peer>>

-----------------------------------------------------------------------------
(* ftp_tcp_service                                                         *)

Goes(from, to) == stage = from /\ stage' = to /\ UNCHANGED back
Calls(from, to) == stage = from /\ stage' = "actions" /\ back' = to

(* Output that was not submitted for too long fails its channel.           *)
Expired(c) == {c} \cup (IF c.output THEN {[c EXCEPT !.failed = TRUE]} ELSE {})

(* Failed channels are discarded and the core is told.                     *)
Service ==
  /\ Goes("idle", "tick")
  /\ \E c \in Expired(control), d \in Expired(data) :
       \/ /\ c.failed \/ (c.pcb /\ c.fin)
          /\ SessionLost
          /\ control' = NoChannel /\ data' = NoChannel /\ offer' = FALSE
       \/ /\ ~(c.failed \/ (c.pcb /\ c.fin)) /\ d.failed
          /\ data' = NoChannel
          /\ DataError
          /\ UNCHANGED <<control, offer>>
       \/ /\ ~c.failed /\ ~(c.pcb /\ c.fin) /\ ~d.failed
          /\ CoreKeeps /\ UNCHANGED <<control, data, offer>>
  /\ UNCHANGED <<listener, peer>>

ServiceTick ==
  /\ Calls("tick", "control")
  /\ CoreKeeps \/ \E d \in Deadline : Tick(d)
  /\ UNCHANGED <<control, data, listener, offer, peer>>

(* actions: teardown before opening.                                       *)
Actions ==
  /\ stage = "actions"
  /\ TakeActions
  /\ offer' = (offer /\ "CLOSE_PASSIVE" \notin actions)
  /\ LET d == IF "ABORT_DATA" \in actions THEN NoChannel ELSE data
         c == IF "ABORT_CONTROL" \in actions THEN NoChannel ELSE control IN
     /\ data' = [d EXCEPT !.closing = @ \/ "CLOSE_DATA" \in actions]
     /\ control' = IF "CLOSE_CONTROL" \in actions
                   THEN [c EXCEPT !.closing = TRUE, !.rx = <<>>] ELSE c
  /\ stage' = IF "OPEN_PASSIVE" \in actions THEN "open" ELSE back
  /\ UNCHANGED <<back, listener, peer>>

Open ==
  /\ stage = "open"
  /\ \E ok \in BOOLEAN : PassiveResult(ok) /\ offer' = ok
  /\ stage' = back
  /\ UNCHANGED <<back, control, data, listener, peer>>

(* The commands that command() knows; the line is any of them.             *)
CommandLine ==
  \/ Answer \/ Quit \/ Abor \/ User \/ Pass \/ Type \/ Passive \/ Stor \/ Retr \/ Special

Reading == control.pcb /\ control.rx # <<>>

(* input_control takes one byte or line, and the chain may end with it.    *)
InputControl ==
  /\ Calls("control", "control")
  /\ Reading
  /\ PartialLine \/ CommandLine
  /\ control' \in {control, [control EXCEPT !.rx = <<>>]}
  /\ UNCHANGED <<data, listener, offer, peer>>

(* The loop ends; what a session that quits still sends is discarded.      *)
InputControlEnds ==
  /\ Goes("control", "write_control")
  /\ control' = IF control.pcb /\ quitting
                THEN [control EXCEPT !.rx = <<>>, !.refused = <<>>] ELSE control
  /\ CoreKeeps /\ UNCHANGED <<data, listener, offer, peer>>

Usable(c) == c.pcb /\ ~c.failed

(* write_control: a part of the oldest reply, all of it, or nothing.       *)
WriteControl ==
  /\ \/ /\ Calls("write_control", "flush_control")
        /\ Usable(control)
        /\ \/ /\ ReplyPartly \/ ReplyConsumed
              /\ control' = [control EXCEPT !.output = TRUE]
           \/ CoreKeeps /\ UNCHANGED control
     \/ /\ Goes("write_control", "flush_control")
        /\ ~Usable(control)
        /\ CoreKeeps /\ UNCHANGED control
  /\ UNCHANGED <<data, listener, offer, peer>>

(* flush_close, on either channel: output first, then the end once every   *)
(* received byte was consumed.  Only a queued end counts as closed.        *)
Flushed(c) == [c EXCEPT !.output = FALSE]
Closable(c) == Usable(c) /\ c.closing /\ c.rx = <<>> /\ c.refused = <<>>

FlushControl ==
  /\ Goes("flush_control", "data")
  /\ \/ CoreKeeps /\ control' \in {control} \cup
                                  (IF Usable(control) THEN {Flushed(control)} ELSE {})
     \/ /\ Closable(control)
        /\ CoreKeeps /\ control' = [Flushed(control) EXCEPT !.failed = TRUE]
     \/ Closable(control) /\ ControlClosed /\ control' = NoChannel
  /\ UNCHANGED <<data, listener, offer, peer>>

DataWork == data.pcb /\ ~control.output /\ TransferReady

(* input_data: the next chunk of the held chain goes to the core.          *)
InputData ==
  /\ \/ /\ Calls("data", "fin")
        /\ DataWork /\ data.rx # <<>> /\ direction = "UPLOAD"
        /\ \/ /\ UploadFile(Head(data.rx)) \/ UploadOperation(TRUE)
              /\ data' = [data EXCEPT !.rx = Tail(@)]
           \/ /\ UploadOperation(FALSE) \/ UploadFails \/ (eof /\ CoreKeeps)
              /\ UNCHANGED data
     \/ /\ Goes("data", "foreground")
        /\ DataWork /\ data.rx # <<>> /\ direction # "UPLOAD"
        /\ data' = [data EXCEPT !.failed = TRUE]
        /\ CoreKeeps
     \/ /\ Goes("data", IF DataWork THEN "fin" ELSE "foreground")
        /\ ~(DataWork /\ data.rx # <<>>)
        /\ CoreKeeps /\ UNCHANGED data
  /\ UNCHANGED <<control, listener, offer, peer>>

FinSeen(d) == d.pcb /\ d.fin /\ d.rx = <<>> /\ d.refused = <<>> /\ ~d.closing /\ ~eof

(* The chain lwIP keeps is offered again, then the end is observed: the    *)
(* end of an upload, or a half-close during a download.                    *)
InputFin ==
  LET d == IF data.pcb /\ data.rx = <<>> THEN Reoffered(data) ELSE data IN
  /\ \/ /\ FinSeen(d) /\ direction = "UPLOAD"
        /\ Calls("fin", "foreground")
        /\ UploadEof
        /\ data' = d
     \/ /\ Goes("fin", "foreground")
        /\ ~(FinSeen(d) /\ direction = "UPLOAD")
        /\ data' = IF FinSeen(d) THEN [d EXCEPT !.fin = FALSE] ELSE d
        /\ CoreKeeps
  /\ UNCHANGED <<control, listener, offer, peer>>

(* One step of the operation in a turn.                                    *)
ServiceForeground ==
  /\ Calls("foreground", "write_data")
  /\ \/ \E result \in {"WAIT", "ACCEPTED", "ERROR"} : Foreground(result)
     \/ ~Stepping /\ CoreKeeps
  /\ UNCHANGED <<control, data, listener, offer, peer>>

Writing == DataWork /\ Usable(data) /\ ~data.closing /\ direction = "DOWNLOAD"

(* write_data: some chunks of the view, or nothing.                        *)
WriteData ==
  /\ \/ /\ Calls("write_data", "flush_data")
        /\ Writing
        /\ \/ \E n \in 0..Capacity :
                /\ n = 0 => download.enqueued = download.length
                /\ DownloadEnqueued(n)
                /\ data' = [data EXCEPT !.output = @ \/ n > 0]
           \/ /\ download.enqueued < download.length
              /\ CoreKeeps /\ UNCHANGED data
     \/ /\ Goes("write_data", "flush_data")
        /\ ~Writing
        /\ CoreKeeps /\ UNCHANGED data
  /\ UNCHANGED <<control, listener, offer, peer>>

FlushData ==
  /\ Calls("flush_data", "idle")
  /\ \/ CoreKeeps /\ data' \in {data} \cup (IF Usable(data) THEN {Flushed(data)} ELSE {})
     \/ /\ Closable(data)
        /\ CoreKeeps /\ data' = [Flushed(data) EXCEPT !.failed = TRUE]
     \/ Closable(data) /\ DataCloseResult /\ data' = NoChannel
  /\ UNCHANGED <<control, listener, offer, peer>>

-----------------------------------------------------------------------------
Callback ==
  \/ Started \/ LinkDown \/ AcceptControl \/ AcceptData \/ ReceiveControl \/ FinControl
  \/ ReceiveData \/ FinData \/ Reoffer \/ SentData \/ Error

Turn ==
  \/ Service \/ ServiceTick \/ Actions \/ Open \/ InputControl \/ InputControlEnds
  \/ WriteControl \/ FlushControl \/ InputData \/ InputFin \/ ServiceForeground
  \/ WriteData \/ FlushData

Next == Callback \/ Turn

Spec == Init /\ [][Next]_vars

-----------------------------------------------------------------------------
(* Properties                                                              *)

CommitStep == (file' # file \/ exists' # exists) => exists' /\ finished /\ file' = sent

(* The file is replaced only by exactly what one peer sent on one data     *)
(* connection, to its end: nothing held, refused, failed, aborted or left  *)
(* over from an earlier connection gets in, and nothing is missing.        *)
WholeFile == [][CommitStep]_vars

(* Between two turns the transport holds exactly what the core works with: *)
(* a control and a data connection as long as the core has a session and a *)
(* transfer (or their failure is still to be told), a passive listener     *)
(* while the core waits for a connection, and nothing else.                *)
ChannelsAgree ==
  stage = "idle" =>
    /\ session <=> control.pcb \/ control.failed
    /\ connected <=> data.pcb \/ data.failed
    /\ offer <=> passive /\ ~connected
    /\ data.closing => closing
    /\ ~control.pcb => control.rx = <<>> /\ ~control.output
    /\ ~data.pcb => data.rx = <<>> /\ ~data.output
=============================================================================
