------------------------------ MODULE FtpCore -------------------------------
(***************************************************************************)
(* The FTP protocol core (ftp_core.c) over the RAM file (ram_file.c) and an *)
(* optional foreground operation (ftp_operation.h, implemented by           *)
(* ftp_boot.c).  One action per function of ftp_core.h that changes state;  *)
(* the transport that calls them is FtpTcp.  Here they come in any order:   *)
(* what is shown holds for every transport.                                 *)
(*                                                                         *)
(* A control line is one action, its text abstracted to the branch of       *)
(* command() it takes; a reply is only its start flag.  A span of several   *)
(* lines is a sequence of these actions: its check for room is stronger.    *)
(* Time is abstract: a deadline that runs may expire at any tick, and armed *)
(* names the time stamps that the last step set.                            *)
(***************************************************************************)
EXTENDS Naturals, Sequences

CONSTANTS
  Slots,        \* FTP_REPLY_SLOTS
  Capacity,     \* chunks the file or a view can hold
  Chunk         \* contents of one chunk

ASSUME SlotsAssumption == Slots \in Nat /\ Slots >= 2
ASSUME CapacityAssumption == Capacity \in Nat

VARIABLES
  session, quitting,
  access,       \* user, login and binary: NONE, USER, LOGIN, BINARY
  parsing,      \* a control line has begun
  replies,      \* the reply ring: the start flags, oldest first
  actions,      \* requests to the transport
  opening, passive, connected, ready, eof, closing, direction,
  operation, accepted,
  download,     \* chunks of the view, enqueued and acknowledged
  \* ram_file_t
  exists, file, \* the committed file
  uploading, staging,
  \* history
  armed,        \* time stamps set by the last step
  contract,     \* what ftp_operation.h lets the core call next
  refused       \* a reply found the ring full

who      == <<session, quitting, access, parsing>>
transfer == <<opening, passive, connected, ready, eof, closing, direction,
              operation, accepted, download>>
store    == <<exists, file, uploading, staging>>
history  == <<armed, contract, refused>>
core     == <<who, replies, actions, transfer, store, history>>

Action == {"OPEN_PASSIVE", "CLOSE_PASSIVE", "ABORT_DATA", "CLOSE_DATA",
           "CLOSE_CONTROL", "ABORT_CONTROL"}
Stamp  == {"control_time", "since", "output_time", "close_time", "data_output_time",
           "start_time", "progress_time", "passive_time"}
View   == [length: 0..Capacity, enqueued: 0..Capacity, acked: 0..Capacity]
NoView == [length |-> 0, enqueued |-> 0, acked |-> 0]

CoreTypeOK ==
  /\ session \in BOOLEAN /\ quitting \in BOOLEAN /\ parsing \in BOOLEAN
  /\ access \in {"NONE", "USER", "LOGIN", "BINARY"}
  /\ replies \in Seq(BOOLEAN) /\ Len(replies) <= Slots
  /\ actions \subseteq Action
  /\ opening \in BOOLEAN /\ passive \in BOOLEAN /\ connected \in BOOLEAN
  /\ ready \in BOOLEAN /\ eof \in BOOLEAN /\ closing \in BOOLEAN
  /\ direction \in {"IDLE", "UPLOAD", "DOWNLOAD"}
  /\ operation \in BOOLEAN /\ accepted \in BOOLEAN
  /\ download \in View
  /\ download.acked <= download.enqueued /\ download.enqueued <= download.length
  /\ exists \in BOOLEAN /\ uploading \in BOOLEAN
  /\ file \in Seq(Chunk) /\ Len(file) <= Capacity
  /\ staging \in Seq(Chunk) /\ Len(staging) <= Capacity
  /\ armed \subseteq Stamp
  /\ contract \in {"free", "open", "ended", "done", "broken"}
  /\ refused \in BOOLEAN

CoreInit ==
  /\ session = FALSE /\ quitting = FALSE /\ access = "NONE" /\ parsing = FALSE
  /\ replies = <<>> /\ actions = {}
  /\ opening = FALSE /\ passive = FALSE /\ connected = FALSE /\ ready = FALSE
  /\ eof = FALSE /\ closing = FALSE /\ direction = "IDLE"
  /\ operation = FALSE /\ accepted = FALSE /\ download = NoView
  /\ exists = FALSE /\ file = <<>> /\ uploading = FALSE /\ staging = <<>>
  /\ armed = {} /\ contract = "free" /\ refused = FALSE

-----------------------------------------------------------------------------
(* The contract of ftp_operation.h: begin, then data, then one end of file, *)
(* steps until one is accepted, and one end; nothing else.                  *)
After(state, call) ==
  CASE state = "free"  /\ call = "begin"           -> "open"
    [] state = "open"  /\ call \in {"feed", "step"} -> "open"
    [] state = "open"  /\ call = "eof"             -> "ended"
    [] state = "ended" /\ call = "step"            -> "ended"
    [] state = "ended" /\ call = "accept"          -> "done"
    [] state \in {"open", "ended", "done"} /\ call = "end" -> "free"
    [] OTHER -> "broken"

Ended(state) == IF operation THEN After(state, "end") ELSE state

-----------------------------------------------------------------------------
(* teardown, lost, reply, failure                                          *)

\* Faulty variant: the start flags of the replies still queued survive.
StartsKept == replies

(* teardown: no reply that is still queued starts a later transfer.        *)
StartsCleared == [i \in 1..Len(replies) |-> FALSE]

TeardownActions ==
  (actions \cup (IF opening \/ passive THEN {"CLOSE_PASSIVE"} ELSE {})
           \cup (IF connected \/ direction # "IDLE" \/ closing
                 THEN {"ABORT_DATA"} ELSE {}))
    \ {"OPEN_PASSIVE", "CLOSE_DATA"}

Idle ==
  /\ opening' = FALSE /\ passive' = FALSE /\ connected' = FALSE /\ ready' = FALSE
  /\ eof' = FALSE /\ closing' = FALSE /\ direction' = "IDLE"
  /\ operation' = FALSE /\ accepted' = FALSE /\ download' = NoView

(* The file's abort drops what was staged.                                 *)
Abort == uploading' = FALSE /\ staging' = <<>>

Teardown(state) ==
  /\ Idle
  /\ Abort
  /\ contract' = Ended(state)
  /\ UNCHANGED <<exists, file>>

LoggedOut ==
  /\ session' = FALSE /\ quitting' = FALSE /\ access' = "NONE" /\ parsing' = FALSE
  /\ replies' = <<>>
  /\ armed' = {}

Lost(state) ==
  /\ Teardown(state)
  /\ LoggedOut
  /\ actions' = (TeardownActions \ {"CLOSE_CONTROL"}) \cup {"ABORT_CONTROL"}

(* ftp_core_reset: the file is cleared too.                                *)
CoreReset ==
  /\ Idle
  /\ Abort /\ exists' = FALSE /\ file' = <<>>
  /\ LoggedOut
  /\ actions' = {}
  /\ contract' = Ended(contract)
  /\ UNCHANGED refused

(* reply: onto the ring ring, or else the session is lost; then is the     *)
(* rest of the caller's effect.                                            *)
Reply(ring, start, stamps, state, then) ==
  \/ /\ Len(ring) < Slots
     /\ replies' = Append(ring, start)
     /\ armed' = stamps \cup (IF ring = <<>> THEN {"output_time"} ELSE {})
     /\ then
     /\ UNCHANGED refused
  \/ /\ Len(ring) = Slots
     /\ Lost(state)
     /\ refused' = TRUE

Failure(stamps, state) ==
  Reply(StartsCleared, FALSE, stamps, state,
        /\ Teardown(state)
        /\ actions' = TeardownActions
        /\ UNCHANGED <<session, quitting, access>>
        /\ parsing' = IF "control_time" \in stamps THEN FALSE ELSE parsing)

-----------------------------------------------------------------------------
(* The control connection                                                  *)

SessionOpen ==
  /\ ~session /\ ~quitting /\ actions = {}
  /\ Reply(replies, FALSE, {"control_time"}, contract,
           session' = TRUE /\ UNCHANGED <<quitting, access, parsing, actions, transfer,
                                          store, contract>>)

SessionLost == Lost(contract) /\ UNCHANGED refused

ControlClosed ==
  /\ Teardown(contract)
  /\ LoggedOut
  /\ actions' = TeardownActions \ {"CLOSE_CONTROL", "ABORT_CONTROL"}
  /\ UNCHANGED refused

TakeActions ==
  /\ actions' = {} /\ armed' = {}
  /\ UNCHANGED <<who, replies, transfer, store, contract, refused>>

\* Faulty variant: the deadline of the closing control connection is not set.
CloseStampForgotten == {}

CloseStamp == {"close_time"}

(* The transport took a part of the oldest reply.                          *)
ReplyPartly ==
  /\ replies # <<>>
  /\ armed' = {"output_time"}
  /\ UNCHANGED <<who, replies, actions, transfer, store, contract, refused>>

(* The transport took all of it: a start reply enables the transfer, and   *)
(* the last reply of a session that quits closes it.                       *)
ReplyConsumed ==
  LET starts == Head(replies) /\ direction # "IDLE"
      last   == quitting /\ Len(replies) = 1 IN
  /\ replies # <<>>
  /\ replies' = Tail(replies)
  /\ ready' = (ready \/ starts)
  /\ actions' = actions \cup (IF last THEN {"CLOSE_CONTROL"} ELSE {})
  /\ armed' = {"output_time"} \cup (IF starts THEN {"data_output_time"} ELSE {})
                              \cup (IF last THEN CloseStamp ELSE {})
  /\ UNCHANGED <<who, opening, passive, connected, eof, closing, direction, operation,
                 accepted, download, store, contract, refused>>

Listening == session /\ ~quitting /\ ~opening

(* Bytes of a control line before its end.                                 *)
PartialLine ==
  /\ Listening
  /\ parsing' = TRUE
  /\ armed' = {"control_time"} \cup (IF parsing THEN {} ELSE {"since"})
  /\ UNCHANGED <<session, quitting, access, replies, actions, transfer, store, contract,
                 refused>>

\* Faulty variant: no slot is kept for an asynchronous result.
ReplyRoomForLine == Len(replies) < Slots

(* A line is taken only if a slot stays free for the result of a passive   *)
(* request or of a transfer.                                               *)
ReplyRoom == Len(replies) < Slots - 1

Line == Listening /\ ReplyRoom

LineReply(ring, start, stamps, then) ==
  Reply(ring, start, stamps \cup {"control_time"}, contract,
        then /\ parsing' = FALSE /\ UNCHANGED session)

(* Every branch that only answers: information, errors and bad syntax.     *)
Answer ==
  /\ Line
  /\ LineReply(replies, FALSE, {},
               UNCHANGED <<quitting, access, actions, transfer, store, contract>>)

Quit ==
  /\ Line
  /\ LineReply(StartsCleared, FALSE, {},
               /\ Teardown(contract) /\ actions' = TeardownActions
               /\ quitting' = TRUE
               /\ UNCHANGED access)

Abor ==
  /\ Line
  /\ LineReply(StartsCleared, FALSE, {},
               /\ Teardown(contract) /\ actions' = TeardownActions
               /\ UNCHANGED <<quitting, access>>)

(* The remaining commands wait for the end of a transfer.                  *)
User ==
  /\ Line /\ direction = "IDLE"
  /\ \E name \in {"USER", "NONE"} :
       LineReply(StartsCleared, FALSE, {},
                 /\ Teardown(contract) /\ actions' = TeardownActions
                 /\ access' = name
                 /\ UNCHANGED quitting)

Pass ==
  /\ Line /\ direction = "IDLE" /\ access # "NONE"
  /\ LineReply(replies, FALSE, {},
               /\ access' = IF access = "USER" THEN "LOGIN" ELSE access
               /\ UNCHANGED <<quitting, actions, transfer, store, contract>>)

LoggedIn == access \in {"LOGIN", "BINARY"}

Type ==
  /\ Line /\ direction = "IDLE" /\ LoggedIn
  /\ \E mode \in {"LOGIN", "BINARY"} :
       LineReply(replies, FALSE, {},
                 /\ access' = mode
                 /\ UNCHANGED <<quitting, actions, transfer, store, contract>>)

(* EPSV and PASV: the reply waits for the listener.                        *)
Passive ==
  /\ Line /\ direction = "IDLE" /\ LoggedIn
  /\ opening' = TRUE
  /\ passive' = FALSE /\ connected' = FALSE /\ ready' = FALSE /\ eof' = FALSE
  /\ closing' = FALSE /\ direction' = "IDLE" /\ operation' = FALSE /\ accepted' = FALSE
  /\ download' = NoView
  /\ Abort
  /\ replies' = StartsCleared
  /\ actions' = TeardownActions \cup {"OPEN_PASSIVE"}
  /\ contract' = Ended(contract)
  /\ parsing' = FALSE
  /\ armed' = {"control_time", "passive_time"}
  /\ UNCHANGED <<session, quitting, access, exists, file, refused>>

Ready == Line /\ direction = "IDLE" /\ access = "BINARY" /\ passive

(* STOR and RETR: 150 is queued, and the transfer begins once it is taken. *)
Start(way, special, length) ==
  LineReply(replies, TRUE, {"start_time", "progress_time"},
            /\ direction' = way
            /\ uploading' = (uploading \/ (way = "UPLOAD" /\ ~special))
            /\ staging' = IF way = "UPLOAD" /\ ~special THEN <<>> ELSE staging
            /\ operation' = special
            /\ download' = [NoView EXCEPT !.length = length]
            /\ contract' = IF special THEN After(contract, "begin") ELSE contract
            /\ UNCHANGED <<quitting, access, actions, opening, passive, connected, ready,
                           eof, closing, accepted, exists, file>>)

(* The RAM file's begin refuses a second upload.                           *)
Stor ==
  /\ Ready
  /\ IF uploading
     THEN Failure({"control_time"}, contract)
     ELSE Start("UPLOAD", FALSE, 0)

Retr ==
  /\ Ready /\ exists
  /\ Start("DOWNLOAD", FALSE, Len(file))

(* The operation's begin may refuse; a download publishes a view of any    *)
(* length.                                                                 *)
Special ==
  /\ Ready
  /\ \/ Failure({"control_time"}, contract)
     \/ \E way \in {"UPLOAD", "DOWNLOAD"} :
          \E length \in IF way = "UPLOAD" THEN {0} ELSE 0..Capacity :
            Start(way, TRUE, length)

-----------------------------------------------------------------------------
(* The data connection                                                     *)

PassiveResult(ok) ==
  /\ session /\ opening
  /\ IF ok
     THEN Reply(replies, FALSE, {}, contract,
                /\ opening' = FALSE /\ passive' = TRUE
                /\ actions' = actions \ {"OPEN_PASSIVE"}
                /\ UNCHANGED <<who, connected, ready, eof, closing, direction, operation,
                               accepted, download, store, contract>>)
     ELSE Failure({}, contract)

Connectable == session /\ passive /\ ~connected /\ ~closing

DataConnected ==
  /\ Connectable
  /\ connected' = TRUE
  /\ actions' = actions \cup {"CLOSE_PASSIVE"}
  /\ armed' = {"progress_time", "data_output_time"}
  /\ UNCHANGED <<who, replies, opening, passive, ready, eof, closing, direction,
                 operation, accepted, download, store, contract, refused>>

TransferReady == direction # "IDLE" /\ connected /\ ready /\ ~closing

(* close_data: nothing is complete until the transport has closed.         *)
CloseData ==
  /\ closing' = TRUE
  /\ actions' = actions \cup {"CLOSE_DATA"}

Receiving == TransferReady /\ direction = "UPLOAD" /\ ~eof

(* upload_span into the RAM file, whole or not at all.                     *)
UploadFile(chunk) ==
  /\ Receiving /\ ~operation
  /\ IF Len(staging) < Capacity /\ uploading
     THEN /\ staging' = Append(staging, chunk)
          /\ armed' = {"progress_time"}
          /\ UNCHANGED <<who, replies, actions, transfer, exists, file, uploading,
                         contract, refused>>
     ELSE Failure({}, contract)

(* upload_span into the operation, which takes a part, nothing, or fails.  *)
UploadOperation(taken) ==
  /\ Receiving /\ operation
  /\ contract' = After(contract, "feed")
  /\ armed' = IF taken THEN {"progress_time"} ELSE {}
  /\ UNCHANGED <<who, replies, actions, transfer, store, refused>>

UploadFails ==
  /\ Receiving /\ operation
  /\ Failure({}, After(contract, "feed"))

UploadEof ==
  /\ Receiving
  /\ \/ /\ ~operation
        /\ eof' = TRUE /\ CloseData
        /\ armed' = {"close_time"}
        /\ UNCHANGED <<contract, replies, who, opening, passive, connected, ready,
                       direction, operation, accepted, download, store, refused>>
     \/ /\ operation
        /\ eof' = TRUE
        /\ contract' = After(contract, "eof")
        /\ armed' = {}
        /\ UNCHANGED <<replies, who, actions, opening, passive, connected, ready, closing,
                       direction, operation, accepted, download, store, refused>>
     \/ operation /\ Failure({}, After(contract, "eof"))

\* Faulty variant: the step after an accepted one is not held back.
SteppingAgain == operation /\ direction = "UPLOAD"

Stepping == operation /\ direction = "UPLOAD" /\ ~accepted

(* foreground: one step of the operation.                                  *)
Foreground(result) ==
  /\ Stepping
  /\ \/ /\ result = "WAIT"
        /\ contract' = After(contract, "step")
        /\ armed' = {}
        /\ UNCHANGED <<who, replies, actions, transfer, store, refused>>
     \/ /\ result = "ACCEPTED" /\ eof
        /\ accepted' = TRUE /\ CloseData
        /\ contract' = After(contract, "accept")
        /\ armed' = {"close_time"}
        /\ UNCHANGED <<who, replies, opening, passive, connected, ready, eof, direction,
                       operation, download, store, refused>>
     \/ /\ result = "ERROR" \/ (result = "ACCEPTED" /\ ~eof)
        /\ Failure({}, After(contract, "step"))

Sending == TransferReady /\ direction = "DOWNLOAD"

(* All chunks were enqueued and acknowledged.                              *)
Delivered(view) == view.enqueued = view.length /\ view.acked = view.length

DownloadMoves(view, stamps) ==
  /\ download' = view
  /\ IF Delivered(view)
     THEN CloseData /\ armed' = stamps \cup {"close_time"}
     ELSE armed' = stamps /\ UNCHANGED <<closing, actions>>
  /\ UNCHANGED <<who, replies, opening, passive, connected, ready, eof, direction,
                 operation, accepted, store, contract, refused>>

DownloadEnqueued(n) ==
  /\ Sending /\ n \in 0..(download.length - download.enqueued)
  /\ DownloadMoves([download EXCEPT !.enqueued = @ + n],
                   IF n = 0 THEN {} ELSE {"progress_time", "data_output_time"})

DownloadAcked(n) ==
  /\ Sending /\ n \in 0..(download.enqueued - download.acked)
  /\ DownloadMoves([download EXCEPT !.acked = @ + n],
                   IF n = 0 THEN {} ELSE {"progress_time"})

(* The staged upload replaces the file.                                    *)
Commits == direction = "UPLOAD" /\ eof /\ ~operation /\ uploading

(* data_close_result(true): the connection is gone, so no abort is asked.  *)
DataCloseResult ==
  /\ session /\ closing
  /\ Reply(StartsCleared, FALSE, {}, contract,
           /\ Idle /\ Abort
           /\ IF Commits THEN file' = staging /\ exists' = TRUE
                         ELSE UNCHANGED <<file, exists>>
           /\ actions' = (actions \cup (IF opening \/ passive THEN {"CLOSE_PASSIVE"} ELSE {}))
                         \ {"OPEN_PASSIVE", "ABORT_DATA", "CLOSE_DATA"}
           /\ contract' = Ended(contract)
           /\ UNCHANGED who)

DataError ==
  /\ direction # "IDLE" \/ passive \/ opening
  /\ Failure({}, contract)

-----------------------------------------------------------------------------
(* Deadlines                                                               *)

(* The deadlines that tick checks, the condition under which each runs and *)
(* the time stamp it is measured from.                                     *)
Deadline == {"control", "parser", "output", "quit", "close", "data_output", "total",
             "progress", "passive"}

Runs(d) ==
  CASE d = "control"     -> session
    [] d = "parser"      -> parsing
    [] d = "output"      -> replies # <<>>
    [] d = "quit"        -> quitting /\ replies = <<>>
    [] d = "close"       -> closing
    [] d = "data_output" -> /\ direction = "DOWNLOAD" /\ connected /\ ready /\ ~closing
                            /\ download.enqueued < download.length
    [] d = "total"       -> direction # "IDLE"
    [] d = "progress"    -> direction # "IDLE"
    [] d = "passive"     -> opening \/ (passive /\ (direction = "IDLE" \/ ~connected))

StampOf(d) ==
  CASE d = "control"     -> "control_time"
    [] d = "parser"      -> "since"
    [] d = "output"      -> "output_time"
    [] d \in {"quit", "close"} -> "close_time"
    [] d = "data_output" -> "data_output_time"
    [] d = "total"       -> "start_time"
    [] d = "progress"    -> "progress_time"
    [] d = "passive"     -> "passive_time"

(* tick with d the first deadline found expired: the session's deadlines   *)
(* end the session, the others the transfer.                               *)
Tick(d) ==
  /\ session /\ Runs(d)
  /\ IF d \in {"control", "parser", "output", "quit"}
     THEN SessionLost
     ELSE Failure({}, contract)

-----------------------------------------------------------------------------
Control ==
  \/ SessionOpen \/ SessionLost \/ ControlClosed \/ TakeActions
  \/ ReplyPartly \/ ReplyConsumed
  \/ PartialLine \/ Answer \/ Quit \/ Abor \/ User \/ Pass \/ Type \/ Passive
  \/ Stor \/ Retr \/ Special

Data ==
  \/ \E ok \in BOOLEAN : PassiveResult(ok)
  \/ DataConnected
  \/ \E chunk \in Chunk : UploadFile(chunk)
  \/ \E taken \in BOOLEAN : UploadOperation(taken)
  \/ UploadFails \/ UploadEof
  \/ \E result \in {"WAIT", "ACCEPTED", "ERROR"} : Foreground(result)
  \/ \E n \in 0..Capacity : DownloadEnqueued(n)
  \/ \E n \in 0..Capacity : DownloadAcked(n)
  \/ DataCloseResult \/ DataError

CoreNext == CoreReset \/ Control \/ Data \/ \E d \in Deadline : Tick(d)

CoreSpec == CoreInit /\ [][CoreNext]_core

-----------------------------------------------------------------------------
(* Properties                                                              *)

(* The reply ring never overflows, whatever a client pipelines and however *)
(* slowly it reads: the slot that control_span keeps free is always there  *)
(* for the asynchronous result, and no session is dropped for want of one. *)
NoReplyLost == ~refused

(* Data moves only once the transfer's own 150 was taken by the transport: *)
(* a transfer that is not ready has exactly one start reply in the ring,   *)
(* and no queued start reply of an aborted transfer can enable a later one.*)
DataFollowsStart ==
  LET starts == {i \in 1..Len(replies) : replies[i]} IN
  IF direction # "IDLE" /\ ~ready THEN \E i \in starts : starts = {i}
                                  ELSE starts = {} /\ (ready => direction # "IDLE")

(* The core keeps the contract of ftp_operation.h: one end for every begin *)
(* that succeeded, data only before the end of file, no step after an      *)
(* accepted one, whatever aborts, times out or is lost.                    *)
OperationContract == contract # "broken" /\ (operation <=> contract # "free")

FreshStep == \A d \in Deadline : ~Runs(d) /\ Runs(d)' => StampOf(d) \in armed'

(* Every deadline is measured from a time stamp that was set when it began *)
(* to run, never from one that an earlier line, transfer or session left.  *)
DeadlinesFresh == [][FreshStep]_core
=============================================================================
