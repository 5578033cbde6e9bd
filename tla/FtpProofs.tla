------------------------------ MODULE FtpProofs ------------------------------
(***************************************************************************)
(* Proofs about the FTP core, for any transport, and about the core under  *)
(* the transport of FtpTcp: for any ring of at least two reply slots, any  *)
(* file size and any contents.                                             *)
(***************************************************************************)
EXTENDS FtpTcp, SequenceTheorems, TLAPS

(* Without a session nothing is queued and nothing is under way.           *)
Closed == ~session => replies = <<>> /\ ~opening /\ ~passive /\ direction = "IDLE"

(* The slot kept for the asynchronous result: two while the listener opens *)
(* (its own reply and the next failure), one until the transfer is over.   *)
Room ==
  /\ opening \/ passive \/ direction # "IDLE" => Len(replies) < Slots
  /\ opening => Len(replies) < Slots - 1

(* Nothing of a transfer outlives it.                                      *)
AtRest == direction = "IDLE" => ~ready /\ ~eof /\ ~closing /\ ~operation /\ ~accepted

(* Where the contract stands is what the core's own flags say.             *)
Standing ==
  /\ accepted => eof
  /\ contract = IF ~operation THEN "free" ELSE IF accepted THEN "done"
                ELSE IF eof THEN "ended" ELSE "open"

(* DataFollowsStart, with the start replies of a ring as an operator.      *)
StartsIn(ring) == {i \in 1..Len(ring) : ring[i]}
Following ==
  IF direction # "IDLE" /\ ~ready THEN \E i : StartsIn(replies) = {i}
  ELSE StartsIn(replies) = {} /\ (ready => direction # "IDLE")

CInv == CoreTypeOK /\ NoReplyLost /\ Closed /\ Room /\ AtRest /\ Standing /\ Following

-----------------------------------------------------------------------------
(* The reply ring                                                          *)

(* An answer is not a start.                                               *)
LEMMA AppendAnswer ==
  ASSUME NEW ring \in Seq(BOOLEAN)
  PROVE  /\ Append(ring, FALSE) \in Seq(BOOLEAN)
         /\ Len(Append(ring, FALSE)) = Len(ring) + 1
         /\ StartsIn(Append(ring, FALSE)) = StartsIn(ring)
<1> DEFINE longer == Append(ring, FALSE)
<1>1. longer \in Seq(BOOLEAN) /\ Len(longer) = Len(ring) + 1 /\ Len(ring) \in Nat
  OBVIOUS
<1>2. longer[Len(ring) + 1] = FALSE /\ \A i \in 1..Len(ring) : longer[i] = ring[i]
  OBVIOUS
<1>3. 1..Len(longer) = 1..Len(ring) \cup {Len(ring) + 1}
  BY <1>1
<1> HIDE DEF longer
<1>4. StartsIn(longer) = StartsIn(ring)
  BY <1>2, <1>3 DEF StartsIn
<1> QED BY <1>1, <1>4 DEF longer

(* A start on a ring without one is the only one.                          *)
LEMMA AppendStart ==
  ASSUME NEW ring \in Seq(BOOLEAN), StartsIn(ring) = {}
  PROVE  /\ Append(ring, TRUE) \in Seq(BOOLEAN)
         /\ Len(Append(ring, TRUE)) = Len(ring) + 1
         /\ StartsIn(Append(ring, TRUE)) = {Len(ring) + 1}
<1> DEFINE longer == Append(ring, TRUE)
<1>1. longer \in Seq(BOOLEAN) /\ Len(longer) = Len(ring) + 1 /\ Len(ring) \in Nat
  OBVIOUS
<1>2. longer[Len(ring) + 1] = TRUE /\ \A i \in 1..Len(ring) : longer[i] = ring[i]
  OBVIOUS
<1>3. 1..Len(longer) = 1..Len(ring) \cup {Len(ring) + 1}
  BY <1>1
<1> HIDE DEF longer
<1>4. StartsIn(longer) = {Len(ring) + 1}
  BY <1>2, <1>3 DEF StartsIn
<1> QED BY <1>1, <1>4 DEF longer

(* The oldest reply leaves and the others move up.                         *)
LEMMA TailStarts ==
  ASSUME NEW ring \in Seq(BOOLEAN), ring # <<>>
  PROVE  /\ Tail(ring) \in Seq(BOOLEAN) /\ Len(Tail(ring)) = Len(ring) - 1
         /\ Len(ring) \in Nat \ {0}
         /\ Head(ring) = ring[1]
         /\ \A i : i \in StartsIn(Tail(ring)) <=> i \in Nat \ {0} /\ i + 1 \in StartsIn(ring)
<1> DEFINE shorter == Tail(ring)
<1>1. /\ shorter \in Seq(BOOLEAN) /\ Len(shorter) = Len(ring) - 1 /\ Len(ring) \in Nat \ {0}
      /\ Head(ring) = ring[1]
  OBVIOUS
<1>2. \A i \in 1..Len(shorter) : shorter[i] = ring[i + 1]
  BY <1>1
<1> HIDE DEF shorter
<1>3. ASSUME NEW i PROVE i \in StartsIn(shorter) <=> i \in Nat \ {0} /\ i + 1 \in StartsIn(ring)
  <2>1. CASE i \in Nat \ {0}
    <3>1. i \in 1..Len(shorter) <=> i + 1 \in 1..Len(ring)
      BY <1>1, <2>1
    <3> QED BY <1>2, <2>1, <3>1 DEF StartsIn
  <2>2. CASE i \notin Nat \ {0}
    BY <1>1, <2>2 DEF StartsIn
  <2> QED BY <2>1, <2>2
<1> QED BY <1>1, <1>3 DEF shorter

(* A cleared ring is as long and has no start.                             *)
LEMMA Cleared ==
  ASSUME replies \in Seq(BOOLEAN)
  PROVE  /\ StartsCleared \in Seq(BOOLEAN) /\ Len(StartsCleared) = Len(replies)
         /\ StartsIn(StartsCleared) = {}
         /\ StartsCleared = <<>> <=> replies = <<>>
<1>1. Len(replies) \in Nat
  OBVIOUS
<1>2. StartsCleared \in Seq(BOOLEAN) /\ Len(StartsCleared) = Len(replies)
  BY <1>1 DEF StartsCleared
<1>3. \A i \in 1..Len(StartsCleared) : StartsCleared[i] = FALSE
  BY <1>2 DEF StartsCleared
<1>4. \A s \in Seq(BOOLEAN) : s = <<>> <=> Len(s) = 0
  OBVIOUS
<1>5. StartsIn(StartsCleared) = {}
  BY <1>3 DEF StartsIn
<1> QED BY <1>2, <1>4, <1>5

(* The invariant gives the property.                                       *)
LEMMA FollowingMeans == Following => DataFollowsStart
BY DEF Following, DataFollowsStart, StartsIn

-----------------------------------------------------------------------------
(* The shapes of a step                                                    *)

(* Types of what a step may leave as it is.                                *)
LEMMA CoreTypes ==
  ASSUME CInv
  PROVE  /\ session \in BOOLEAN /\ quitting \in BOOLEAN /\ parsing \in BOOLEAN
         /\ opening \in BOOLEAN /\ passive \in BOOLEAN /\ connected \in BOOLEAN
         /\ ready \in BOOLEAN /\ eof \in BOOLEAN /\ closing \in BOOLEAN
         /\ operation \in BOOLEAN /\ accepted \in BOOLEAN /\ exists \in BOOLEAN
         /\ uploading \in BOOLEAN /\ refused = FALSE
         /\ Slots \in Nat /\ Slots >= 2 /\ Len(replies) \in Nat /\ Len(replies) <= Slots
         /\ replies \in Seq(BOOLEAN)
<1>1. refused \in BOOLEAN /\ ~refused
  BY DEF CInv, CoreTypeOK, NoReplyLost
<1> QED BY <1>1, SlotsAssumption DEF CInv, CoreTypeOK

(* Whatever state the contract is in, one end brings it back to free, and  *)
(* so it does after one more call the core may make.                       *)
LEMMA ContractEnds ==
  ASSUME CInv
  PROVE  /\ Ended(contract) = "free"
         /\ operation /\ ~accepted => Ended(After(contract, "step")) = "free"
         /\ operation /\ ~eof => /\ Ended(After(contract, "feed")) = "free"
                                 /\ Ended(After(contract, "eof")) = "free"
<1>1. /\ ~operation => contract = "free"
      /\ operation => contract \in {"open", "ended", "done"}
      /\ operation /\ ~accepted => contract \in {"open", "ended"}
      /\ operation /\ ~eof => contract = "open"
  BY CoreTypes DEF CInv, Standing
<1> QED BY <1>1 DEF Ended, After

(* After an end the empty transfer.                                        *)
Torn == Idle /\ Abort /\ contract' = "free"

(* After a transfer was torn down nothing of it is left.                   *)
LEMMA TornFacts ==
  ASSUME Torn
  PROVE  /\ AtRest' /\ Standing' /\ direction' = "IDLE" /\ ~opening' /\ ~passive' /\ ~ready'
         /\ opening' \in BOOLEAN /\ passive' \in BOOLEAN /\ connected' \in BOOLEAN
         /\ ready' \in BOOLEAN /\ eof' \in BOOLEAN /\ closing' \in BOOLEAN
         /\ operation' \in BOOLEAN /\ accepted' \in BOOLEAN
         /\ download' \in View /\ download'.acked <= download'.enqueued
         /\ download'.enqueued <= download'.length
         /\ uploading' \in BOOLEAN /\ staging' \in Seq(Chunk) /\ Len(staging') <= Capacity
         /\ contract' \in {"free", "open", "ended", "done", "broken"}
<1>1. NoView \in View /\ NoView.acked = 0 /\ NoView.enqueued = 0 /\ NoView.length = 0
  BY CapacityAssumption DEF NoView, View
<1>2. <<>> \in Seq(Chunk) /\ Len(<<>>) <= Capacity
  BY CapacityAssumption
<1>3. AtRest' /\ Standing'
  BY DEF Torn, Idle, AtRest, Standing
<1>4. /\ opening' = FALSE /\ passive' = FALSE /\ connected' = FALSE /\ ready' = FALSE
      /\ eof' = FALSE /\ closing' = FALSE /\ operation' = FALSE /\ accepted' = FALSE
      /\ uploading' = FALSE /\ direction' = "IDLE"
  BY DEF Torn, Idle, Abort
<1>5. download' = NoView /\ staging' = <<>> /\ contract' = "free"
  BY DEF Torn, Idle, Abort
<1>6. /\ download' \in View /\ download'.acked <= download'.enqueued
      /\ download'.enqueued <= download'.length
      /\ staging' \in Seq(Chunk) /\ Len(staging') <= Capacity
  BY <1>1, <1>2, <1>5
<1> QED BY <1>3, <1>4, <1>5, <1>6

(* The session is over: closed, lost or reset.                             *)
LEMMA OverStep ==
  ASSUME CInv, Torn, LoggedOut, actions' \subseteq Action,
         exists' \in BOOLEAN, file' \in Seq(Chunk), Len(file') <= Capacity, refused' = refused
  PROVE  CInv'
<1>1. replies' = <<>> /\ session' = FALSE /\ quitting' = FALSE /\ parsing' = FALSE
      /\ access' = "NONE" /\ armed' = {}
  BY DEF LoggedOut
<1>2. replies' \in Seq(BOOLEAN) /\ Len(replies') = 0 /\ StartsIn(replies') = {}
  BY <1>1 DEF StartsIn
<1>3. CoreTypeOK'
  <2>1. session' \in BOOLEAN /\ quitting' \in BOOLEAN /\ parsing' \in BOOLEAN
        /\ refused' \in BOOLEAN
    BY <1>1, CoreTypes
  <2>2. Len(replies') <= Slots
    BY <1>2, CoreTypes
  <2>3. access' \in {"NONE", "USER", "LOGIN", "BINARY"} /\ armed' \subseteq Stamp
    BY <1>1
  <2> QED BY <1>2, <2>1, <2>2, <2>3, TornFacts DEF CoreTypeOK
<1>4. NoReplyLost' /\ Closed' /\ Room'
  BY <1>1, <1>2, TornFacts, CoreTypes DEF NoReplyLost, Closed, Room
<1>5. Following'
  BY <1>2, TornFacts DEF Following
<1> QED BY <1>3, <1>4, <1>5, TornFacts DEF CInv

(* The transfer is over, and answered.                                     *)
LEMMA EndStep ==
  ASSUME CInv, Torn, session, Len(replies) < Slots, session' = session,
         replies' = Append(StartsCleared, FALSE),
         quitting' \in BOOLEAN, parsing' \in BOOLEAN,
         access' \in {"NONE", "USER", "LOGIN", "BINARY"},
         actions' \subseteq Action, armed' \subseteq Stamp,
         exists' \in BOOLEAN, file' \in Seq(Chunk), Len(file') <= Capacity, refused' = refused
  PROVE  CInv'
<1>1. /\ StartsCleared \in Seq(BOOLEAN) /\ Len(StartsCleared) = Len(replies)
      /\ StartsIn(StartsCleared) = {}
  BY CoreTypes, Cleared
<1>2. /\ replies' \in Seq(BOOLEAN) /\ Len(replies') = Len(replies) + 1
      /\ StartsIn(replies') = {}
  BY <1>1, AppendAnswer
<1>3. Len(replies') <= Slots
  BY <1>2, CoreTypes
<1>4. CoreTypeOK'
  BY <1>2, <1>3, TornFacts, CoreTypes DEF CoreTypeOK
<1>5. NoReplyLost' /\ Closed' /\ Room'
  BY TornFacts, CoreTypes DEF NoReplyLost, Closed, Room
<1>6. Following'
  BY <1>2, TornFacts DEF Following
<1> QED BY <1>4, <1>5, <1>6, TornFacts DEF CInv

(* An answer, the transfer as it was.                                      *)
LEMMA AnswerStep ==
  ASSUME CInv, UNCHANGED <<transfer, store, contract, refused>>,
         Len(replies) < Slots - 1, replies' = Append(replies, FALSE), session' = TRUE, ~opening,
         quitting' \in BOOLEAN, parsing' \in BOOLEAN,
         access' \in {"NONE", "USER", "LOGIN", "BINARY"},
         actions' \subseteq Action, armed' \subseteq Stamp
  PROVE  CInv'
<1>1. /\ replies' \in Seq(BOOLEAN) /\ Len(replies') = Len(replies) + 1
      /\ StartsIn(replies') = StartsIn(replies)
  BY CoreTypes, AppendAnswer
<1>2. Len(replies') < Slots
  BY <1>1, CoreTypes
<1>3. CoreTypeOK'
  <2>1. session' \in BOOLEAN /\ refused' \in BOOLEAN
    BY CoreTypes
  <2>2. Len(replies') <= Slots
    BY <1>1, <1>2, CoreTypes
  <2> QED BY <1>1, <2>1, <2>2 DEF CInv, CoreTypeOK, transfer, store
<1>4. NoReplyLost' /\ Closed' /\ Room'
  BY <1>2, CoreTypes DEF NoReplyLost, Closed, Room, transfer
<1>5. AtRest' /\ Standing'
  BY DEF CInv, AtRest, Standing, transfer
<1>6. Following'
  BY <1>1 DEF CInv, Following, transfer
<1> QED BY <1>3, <1>4, <1>5, <1>6 DEF CInv

(* The transfer goes on, without a reply.                                  *)
LEMMA MoveStep ==
  ASSUME CInv, UNCHANGED <<session, quitting, access, replies, opening, passive, ready, direction,
                           operation, exists, file, uploading, refused>>,
         parsing' \in BOOLEAN, connected' \in BOOLEAN, eof' \in BOOLEAN, closing' \in BOOLEAN,
         accepted' \in BOOLEAN, actions' \subseteq Action, armed' \subseteq Stamp,
         download' \in View, download'.acked <= download'.enqueued,
         download'.enqueued <= download'.length,
         staging' \in Seq(Chunk), Len(staging') <= Capacity,
         contract' \in {"free", "open", "ended", "done", "broken"},
         AtRest', Standing'
  PROVE  CInv'
<1>1. CoreTypeOK'
  BY DEF CInv, CoreTypeOK
<1>2. NoReplyLost' /\ Closed' /\ Room'
  BY DEF CInv, NoReplyLost, Closed, Room
<1>3. Following'
  BY DEF CInv, Following
<1> QED BY <1>1, <1>2, <1>3 DEF CInv

-----------------------------------------------------------------------------
(* teardown, lost, failure                                                 *)

(* The requests to the transport stay requests.                            *)
LEMMA TeardownTypes == ASSUME CInv PROVE TeardownActions \subseteq Action /\ actions \subseteq Action
<1>1. actions \subseteq Action
  BY DEF CInv, CoreTypeOK
<1> QED BY <1>1 DEF TeardownActions, Action

(* A teardown with the contract ended.                                     *)
LEMMA TeardownTears ==
  ASSUME CInv, NEW state, Ended(state) = "free", Teardown(state)
  PROVE  /\ Torn /\ exists' = exists /\ file' = file /\ exists' \in BOOLEAN
         /\ file' \in Seq(Chunk) /\ Len(file') <= Capacity
<1>1. Torn /\ exists' = exists /\ file' = file
  BY DEF Teardown, Torn
<1>2. exists \in BOOLEAN /\ file \in Seq(Chunk) /\ Len(file) <= Capacity
  BY DEF CInv, CoreTypeOK
<1> QED BY <1>1, <1>2

(* ftp_core_reset, the session that is lost or closed.                     *)
LEMMA LeavingStep == ASSUME CInv, CoreReset \/ SessionLost \/ ControlClosed PROVE CInv'
<1>0. Ended(contract) = "free"
  BY ContractEnds
<1>1. CASE CoreReset
  <2>1. Torn
    BY <1>0, <1>1 DEF CoreReset, Torn
  <2>2. LoggedOut /\ actions' = {} /\ exists' = FALSE /\ file' = <<>> /\ refused' = refused
    BY <1>1 DEF CoreReset
  <2>3. file' \in Seq(Chunk) /\ Len(file') <= Capacity
    BY <2>2, CapacityAssumption
  <2>4. exists' \in BOOLEAN /\ actions' \subseteq Action
    BY <2>2
  <2> QED BY <2>1, <2>2, <2>3, <2>4, OverStep
<1>2. CASE SessionLost
  <2>1. actions' \subseteq Action
    BY <1>2, TeardownTypes DEF SessionLost, Lost, Action
  <2> QED BY <1>0, <1>2, <2>1, TeardownTears, OverStep DEF SessionLost, Lost
<1>3. CASE ControlClosed
  <2>1. actions' \subseteq Action
    BY <1>3, TeardownTypes DEF ControlClosed
  <2> QED BY <1>0, <1>3, <2>1, TeardownTears, OverStep DEF ControlClosed
<1> QED BY <1>1, <1>2, <1>3

(* A failure of the transfer, which has a slot to be answered in.          *)
LEMMA FailureStep ==
  ASSUME CInv, session, Len(replies) < Slots, NEW stamps \in SUBSET Stamp,
         NEW state, Ended(state) = "free", Failure(stamps, state)
  PROVE  CInv'
<1>1. Len(StartsCleared) = Len(replies) /\ Len(replies) # Slots
  BY CoreTypes, Cleared
<1>2. /\ replies' = Append(StartsCleared, FALSE)
      /\ armed' \in {stamps, stamps \cup {"output_time"}}
      /\ Teardown(state) /\ actions' = TeardownActions
      /\ UNCHANGED <<session, quitting, access, refused>>
      /\ parsing' \in {FALSE, parsing}
  BY <1>1 DEF Failure, Reply
<1>3. armed' \subseteq Stamp /\ actions' \subseteq Action
  BY <1>2, TeardownTypes DEF Stamp
<1>4. quitting' \in BOOLEAN /\ parsing' \in BOOLEAN
  BY <1>2, CoreTypes
<1>5. access' \in {"NONE", "USER", "LOGIN", "BINARY"}
  BY <1>2 DEF CInv, CoreTypeOK
<1>6. /\ Torn /\ exists' \in BOOLEAN /\ file' \in Seq(Chunk) /\ Len(file') <= Capacity
  BY <1>2, TeardownTears
<1> QED BY <1>2, <1>3, <1>4, <1>5, <1>6, EndStep

-----------------------------------------------------------------------------
(* The control connection                                                  *)

(* A step after which only the stamps, the requests or the parser differ.  *)
LEMMA SmallStep == ASSUME CInv, TakeActions \/ ReplyPartly \/ PartialLine PROVE CInv'
<1>1. /\ UNCHANGED <<session, quitting, access, replies, transfer, store, contract, refused>>
      /\ parsing' \in {parsing, TRUE} /\ actions' \in {actions, {}}
      /\ armed' \subseteq Stamp
  BY DEF TakeActions, ReplyPartly, PartialLine, who, Stamp
<1>2. parsing' \in BOOLEAN /\ actions' \subseteq Action
  BY <1>1, CoreTypes, TeardownTypes
<1>3. AtRest' /\ Standing'
  BY <1>1 DEF CInv, AtRest, Standing, transfer
<1> QED BY <1>1, <1>2, <1>3, MoveStep DEF CInv, CoreTypeOK, transfer, store

(* The greeting has the whole ring.                                        *)
LEMMA SessionOpenStep == ASSUME CInv, SessionOpen PROVE CInv'
<1>1. ~session /\ replies = <<>> /\ ~opening
  BY DEF SessionOpen, CInv, Closed
<1>2. Len(replies) = 0 /\ Len(replies) < Slots - 1 /\ Len(replies) # Slots
  BY <1>1, CoreTypes
<1>3. /\ replies' = Append(replies, FALSE) /\ session' = TRUE
      /\ armed' \in {{"control_time"}, {"control_time"} \cup {"output_time"}}
      /\ UNCHANGED <<quitting, access, parsing, actions, transfer, store, contract, refused>>
  BY <1>2 DEF SessionOpen, Reply
<1>4. armed' \subseteq Stamp /\ actions' \subseteq Action
  BY <1>3, TeardownTypes DEF Stamp
<1>5. quitting' \in BOOLEAN /\ parsing' \in BOOLEAN
  BY <1>3, CoreTypes
<1> QED BY <1>1, <1>2, <1>3, <1>4, <1>5, AnswerStep DEF CInv, CoreTypeOK

(* The line is taken with a slot to spare, so its reply is queued.         *)
LEMMA LineFacts ==
  ASSUME CInv, Line
  PROVE  /\ session = TRUE /\ ~opening /\ Len(replies) < Slots - 1 /\ Len(replies) < Slots
         /\ Len(replies) # Slots /\ Len(StartsCleared) # Slots
BY CoreTypes, Cleared DEF Line, Listening, ReplyRoom

(* The lines that only answer.                                             *)
LEMMA AnswerLine == ASSUME CInv, Answer \/ Pass \/ Type PROVE CInv'
<1>1. Line
  BY DEF Answer, Pass, Type
<1>2. /\ replies' = Append(replies, FALSE) /\ session' = session /\ parsing' = FALSE
      /\ armed' \in {{"control_time"}, {"control_time"} \cup {"output_time"}}
      /\ UNCHANGED <<quitting, actions, transfer, store, contract, refused>>
      /\ access' \in {access, "LOGIN", "BINARY"}
  <2>1. CASE Answer
    BY <1>1, <2>1, LineFacts DEF Answer, LineReply, Reply
  <2>2. CASE Pass
    BY <1>1, <2>2, LineFacts DEF Pass, LineReply, Reply
  <2>3. CASE Type
    BY <1>1, <2>3, LineFacts DEF Type, LineReply, Reply
  <2> QED BY <2>1, <2>2, <2>3
<1>3. armed' \subseteq Stamp /\ actions' \subseteq Action
  BY <1>2, TeardownTypes DEF Stamp
<1>4. quitting' \in BOOLEAN /\ parsing' \in BOOLEAN
  BY <1>2, CoreTypes
<1>5. access' \in {"NONE", "USER", "LOGIN", "BINARY"}
  BY <1>2 DEF CInv, CoreTypeOK
<1>6. session' = TRUE
  BY <1>1, <1>2, LineFacts
<1> QED BY <1>1, <1>2, <1>3, <1>4, <1>5, <1>6, LineFacts, AnswerStep

(* The lines that tear a transfer down.                                    *)
LEMMA EndLine == ASSUME CInv, Quit \/ Abor \/ User PROVE CInv'
<1>1. Line
  BY DEF Quit, Abor, User
<1>2. /\ replies' = Append(StartsCleared, FALSE) /\ session' = session /\ parsing' = FALSE
      /\ armed' \in {{"control_time"}, {"control_time"} \cup {"output_time"}}
      /\ Teardown(contract) /\ actions' = TeardownActions /\ refused' = refused
      /\ access' \in {access, "USER", "NONE"} /\ quitting' \in {quitting, TRUE}
  <2>1. CASE Quit
    BY <1>1, <2>1, LineFacts DEF Quit, LineReply, Reply
  <2>2. CASE Abor
    BY <1>1, <2>2, LineFacts DEF Abor, LineReply, Reply
  <2>3. CASE User
    BY <1>1, <2>3, LineFacts DEF User, LineReply, Reply
  <2> QED BY <2>1, <2>2, <2>3
<1>3. armed' \subseteq Stamp /\ actions' \subseteq Action
  BY <1>2, TeardownTypes DEF Stamp
<1>4. quitting' \in BOOLEAN /\ parsing' \in BOOLEAN
  BY <1>2, CoreTypes
<1>5. access' \in {"NONE", "USER", "LOGIN", "BINARY"}
  BY <1>2 DEF CInv, CoreTypeOK
<1>6. /\ Torn /\ exists' \in BOOLEAN /\ file' \in Seq(Chunk) /\ Len(file') <= Capacity
  BY <1>2, TeardownTears, ContractEnds
<1>7. session /\ Len(replies) < Slots
  BY <1>1, LineFacts
<1> QED BY <1>2, <1>3, <1>4, <1>5, <1>6, <1>7, EndStep

(* EPSV and PASV: the reply waits, and has its slot.                       *)
LEMMA PassiveLine == ASSUME CInv, Passive PROVE CInv'
<1>1. Line /\ session = TRUE /\ Len(replies) < Slots - 1
  BY LineFacts DEF Passive
<1>2. /\ opening' = TRUE /\ passive' = FALSE /\ connected' = FALSE /\ ready' = FALSE
      /\ eof' = FALSE /\ closing' = FALSE /\ direction' = "IDLE" /\ operation' = FALSE
      /\ accepted' = FALSE /\ parsing' = FALSE /\ uploading' = FALSE
      /\ session' = session /\ quitting' = quitting /\ exists' = exists /\ refused' = refused
  BY DEF Passive, Abort
<1>3. /\ download' = NoView /\ staging' = <<>> /\ contract' = "free"
      /\ replies' = StartsCleared /\ access' = access /\ file' = file
      /\ actions' = TeardownActions \cup {"OPEN_PASSIVE"}
      /\ armed' = {"control_time", "passive_time"}
  BY ContractEnds DEF Passive, Abort
<1>4. /\ replies' \in Seq(BOOLEAN) /\ Len(replies') = Len(replies) /\ StartsIn(replies') = {}
  BY <1>3, CoreTypes, Cleared
<1>5. CoreTypeOK'
  <2>1. /\ session' \in BOOLEAN /\ quitting' \in BOOLEAN /\ parsing' \in BOOLEAN
        /\ opening' \in BOOLEAN /\ passive' \in BOOLEAN /\ connected' \in BOOLEAN
        /\ ready' \in BOOLEAN /\ eof' \in BOOLEAN /\ closing' \in BOOLEAN
        /\ operation' \in BOOLEAN /\ accepted' \in BOOLEAN /\ exists' \in BOOLEAN
        /\ uploading' \in BOOLEAN /\ refused' \in BOOLEAN
    BY <1>2, CoreTypes
  <2>2. /\ download' \in View /\ download'.acked <= download'.enqueued
        /\ download'.enqueued <= download'.length
    BY <1>3, CapacityAssumption DEF NoView, View
  <2>3. staging' \in Seq(Chunk) /\ Len(staging') <= Capacity
    BY <1>3, CapacityAssumption
  <2>4. actions' \subseteq Action /\ armed' \subseteq Stamp
    BY <1>3, TeardownTypes DEF Action, Stamp
  <2>5. Len(replies') <= Slots
    BY <1>4, CoreTypes
  <2>6. access' \in {"NONE", "USER", "LOGIN", "BINARY"} /\ file' \in Seq(Chunk)
        /\ Len(file') <= Capacity
    BY <1>3 DEF CInv, CoreTypeOK
  <2> QED BY <1>2, <1>3, <1>4, <2>1, <2>2, <2>3, <2>4, <2>5, <2>6 DEF CoreTypeOK
<1>6. NoReplyLost' /\ Closed' /\ Room'
  BY <1>1, <1>2, <1>4, CoreTypes DEF NoReplyLost, Closed, Room
<1>7. AtRest' /\ Standing'
  BY <1>2, <1>3 DEF AtRest, Standing
<1>8. Following'
  BY <1>2, <1>4 DEF Following
<1> QED BY <1>5, <1>6, <1>7, <1>8 DEF CInv

(* STOR and RETR: the one start reply of the transfer is queued.           *)
LEMMA StartStep ==
  ASSUME CInv, Ready, NEW way \in {"UPLOAD", "DOWNLOAD"}, NEW special \in BOOLEAN,
         NEW length \in 0..Capacity, Start(way, special, length)
  PROVE  CInv'
<1>1. /\ Line /\ direction = "IDLE" /\ session = TRUE /\ ~opening
      /\ Len(replies) < Slots - 1 /\ Len(replies) # Slots
  BY LineFacts DEF Ready
<1>2. ready = FALSE /\ eof = FALSE /\ closing = FALSE /\ operation = FALSE /\ accepted = FALSE
      /\ contract = "free" /\ StartsIn(replies) = {}
  BY <1>1, CoreTypes DEF CInv, AtRest, Standing, Following
<1>3. /\ replies' = Append(replies, TRUE) /\ session' = session /\ parsing' = FALSE
      /\ armed' \in {{"start_time", "progress_time"} \cup {"control_time"},
                     {"start_time", "progress_time"} \cup {"control_time"} \cup {"output_time"}}
      /\ direction' = way
      /\ staging' \in {<<>>, staging}
      /\ download' = [NoView EXCEPT !.length = length]
      /\ UNCHANGED <<quitting, access, actions, opening, passive, connected, ready,
                     eof, closing, accepted, exists, file, refused>>
  BY <1>1 DEF Start, LineReply, Reply
<1>4. /\ operation' = special /\ uploading' \in BOOLEAN
      /\ contract' = IF special THEN After(contract, "begin") ELSE contract
  BY <1>1, CoreTypes DEF Start, LineReply, Reply
<1>5. /\ replies' \in Seq(BOOLEAN) /\ Len(replies') = Len(replies) + 1
      /\ StartsIn(replies') = {Len(replies) + 1}
  BY <1>2, <1>3, CoreTypes, AppendStart
<1>6. contract' = IF operation' THEN "open" ELSE "free"
  BY <1>2, <1>4 DEF After
<1>7. CoreTypeOK'
  <2>1. /\ session' \in BOOLEAN /\ quitting' \in BOOLEAN /\ parsing' \in BOOLEAN
        /\ opening' \in BOOLEAN /\ passive' \in BOOLEAN /\ connected' \in BOOLEAN
        /\ ready' \in BOOLEAN /\ eof' \in BOOLEAN /\ closing' \in BOOLEAN
        /\ operation' \in BOOLEAN /\ accepted' \in BOOLEAN /\ exists' \in BOOLEAN
        /\ refused' \in BOOLEAN
    BY <1>3, <1>4, CoreTypes
  <2>2. /\ download' \in View /\ download'.acked <= download'.enqueued
        /\ download'.enqueued <= download'.length
    BY <1>3, CapacityAssumption DEF NoView, View
  <2>3. staging' \in Seq(Chunk) /\ Len(staging') <= Capacity
    <3>1. staging \in Seq(Chunk) /\ Len(staging) <= Capacity
      BY DEF CInv, CoreTypeOK
    <3>2. <<>> \in Seq(Chunk) /\ Len(<<>>) <= Capacity
      BY CapacityAssumption
    <3> QED BY <1>3, <3>1, <3>2
  <2>4. actions' \subseteq Action /\ armed' \subseteq Stamp
    BY <1>3, TeardownTypes DEF Stamp
  <2>5. Len(replies') <= Slots
    BY <1>1, <1>5, CoreTypes
  <2>6. /\ access' \in {"NONE", "USER", "LOGIN", "BINARY"} /\ file' \in Seq(Chunk)
        /\ Len(file') <= Capacity
    BY <1>3 DEF CInv, CoreTypeOK
  <2>7. direction' \in {"IDLE", "UPLOAD", "DOWNLOAD"}
        /\ contract' \in {"free", "open", "ended", "done", "broken"}
    BY <1>3, <1>6
  <2> QED BY <1>4, <1>5, <2>1, <2>2, <2>3, <2>4, <2>5, <2>6, <2>7 DEF CoreTypeOK
<1>8. NoReplyLost' /\ Closed' /\ Room'
  BY <1>1, <1>3, <1>5, CoreTypes DEF NoReplyLost, Closed, Room
<1>9. AtRest' /\ Standing'
  BY <1>2, <1>3, <1>6 DEF AtRest, Standing
<1>10. Following'
  BY <1>2, <1>3, <1>5 DEF Following
<1> QED BY <1>7, <1>8, <1>9, <1>10 DEF CInv

(* The commands that may start a transfer, or fail.                        *)
LEMMA TransferLine == ASSUME CInv, Stor \/ Retr \/ Special PROVE CInv'
<1>1. Ready /\ session /\ Len(replies) < Slots
  BY LineFacts DEF Stor, Retr, Special, Ready
<1>2. {"control_time"} \in SUBSET Stamp /\ 0 \in 0..Capacity /\ Len(file) \in 0..Capacity
  BY CapacityAssumption DEF Stamp, CInv, CoreTypeOK
<1>3. ASSUME Failure({"control_time"}, contract) PROVE CInv'
  BY <1>1, <1>2, <1>3, ContractEnds, FailureStep
<1>4. ASSUME NEW way \in {"UPLOAD", "DOWNLOAD"}, NEW special \in BOOLEAN,
             NEW length \in 0..Capacity, Start(way, special, length)
      PROVE  CInv'
  BY <1>1, <1>4, StartStep
<1>5. CASE Stor
  BY <1>2, <1>3, <1>4, <1>5 DEF Stor
<1>6. CASE Retr
  BY <1>2, <1>4, <1>6 DEF Retr
<1>7. CASE Special
  BY <1>2, <1>3, <1>4, <1>7 DEF Special
<1> QED BY <1>5, <1>6, <1>7

(* The oldest reply is gone: if it was the transfer's start, the transfer  *)
(* is ready and no start is left.                                          *)
LEMMA ReplyConsumedStep == ASSUME CInv, ReplyConsumed PROVE CInv'
<1>0. ready' = (ready \/ (Head(replies) /\ direction # "IDLE"))
  BY DEF ReplyConsumed
<1>1. /\ replies # <<>> /\ replies' = Tail(replies)
      /\ actions' \in {actions, actions \cup {"CLOSE_CONTROL"}}
      /\ armed' \subseteq Stamp
      /\ UNCHANGED <<who, opening, passive, connected, eof, closing, direction, operation,
                     accepted, download, store, contract, refused>>
  BY DEF ReplyConsumed, CloseStamp, Stamp
<1>2. /\ replies' \in Seq(BOOLEAN) /\ Len(replies') = Len(replies) - 1 /\ Len(replies) \in Nat \ {0}
      /\ Head(replies) = replies[1]
      /\ \A i : i \in StartsIn(replies') <=> i \in Nat \ {0} /\ i + 1 \in StartsIn(replies)
  BY <1>1, CoreTypes, TailStarts
<1>3. replies[1] \in BOOLEAN /\ (replies[1] <=> 1 \in StartsIn(replies))
  BY <1>2, CoreTypes DEF StartsIn
<1>4. ready' \in BOOLEAN /\ (direction = "IDLE" => ready' = ready)
      /\ (ready' <=> ready \/ (1 \in StartsIn(replies) /\ direction # "IDLE"))
  BY <1>0, <1>2, <1>3, CoreTypes
<1>5. session
  BY <1>1 DEF CInv, Closed
<1>6. CoreTypeOK'
  <2>1. actions' \subseteq Action
    BY <1>1, TeardownTypes DEF Action
  <2>2. Len(replies') <= Slots
    BY <1>2, CoreTypes
  <2> QED BY <1>1, <1>2, <1>4, <2>1, <2>2 DEF CInv, CoreTypeOK, who, store
<1>7. NoReplyLost' /\ Closed' /\ Room'
  <2>1. NoReplyLost' /\ Closed'
    BY <1>1, <1>5 DEF CInv, NoReplyLost, Closed, who
  <2>2. Room'
    <3>1. UNCHANGED <<opening, passive, direction>>
      BY <1>1
    <3>2. Len(replies') \in Nat /\ Len(replies') < Len(replies)
      BY <1>2
    <3>3. /\ opening \/ passive \/ direction # "IDLE" => Len(replies) < Slots
          /\ opening => Len(replies) < Slots - 1
      BY DEF CInv, Room
    <3>4. /\ Len(replies) < Slots => Len(replies') < Slots
          /\ Len(replies) < Slots - 1 => Len(replies') < Slots - 1
      BY <3>2, CoreTypes
    <3> QED BY <3>1, <3>3, <3>4 DEF Room
  <2> QED BY <2>1, <2>2
<1>8. AtRest' /\ Standing'
  BY <1>1, <1>4 DEF CInv, AtRest, Standing
<1>9. Following'
  <2>1. \A i \in StartsIn(replies) : i \in Nat \ {0}
    BY CoreTypes DEF StartsIn
  <2>2. CASE direction # "IDLE" /\ ~ready
    <3>1. PICK i : StartsIn(replies) = {i}
      BY <2>2 DEF CInv, Following
    <3>2. i \in Nat \ {0}
      BY <2>1, <3>1
    <3>3. CASE i = 1
      <4>1. ready' /\ StartsIn(replies') = {}
        BY <1>2, <1>4, <2>2, <3>1, <3>3
      <4> QED BY <1>1, <2>2, <4>1 DEF Following
    <3>4. CASE i # 1
      <4>1. ~ready' /\ StartsIn(replies') = {i - 1}
        BY <1>2, <1>4, <2>2, <3>1, <3>2, <3>4
      <4> QED BY <1>1, <2>2, <4>1 DEF Following
    <3> QED BY <3>3, <3>4
  <2>3. CASE ~(direction # "IDLE" /\ ~ready)
    <3>1. StartsIn(replies) = {} /\ (ready => direction # "IDLE")
      BY <2>3 DEF CInv, Following
    <3>2. StartsIn(replies') = {} /\ (ready' <=> ready)
      BY <1>2, <1>4, <3>1
    <3> QED BY <1>1, <2>3, <3>1, <3>2 DEF Following
  <2> QED BY <2>2, <2>3
<1> QED BY <1>6, <1>7, <1>8, <1>9 DEF CInv

-----------------------------------------------------------------------------
(* The data connection                                                     *)

(* While anything is under way there is a session and a free slot.         *)
LEMMA UnderWay ==
  ASSUME CInv, opening \/ passive \/ direction # "IDLE" \/ closing
  PROVE  session = TRUE /\ Len(replies) < Slots /\ Len(replies) # Slots
         /\ Len(StartsCleared) # Slots
<1>1. session = TRUE /\ (opening \/ passive \/ direction # "IDLE")
  BY CoreTypes DEF CInv, Closed, AtRest
<1>2. Len(replies) < Slots
  BY <1>1 DEF CInv, Room
<1>3. Len(StartsCleared) = Len(replies)
  BY CoreTypes, Cleared
<1>4. Len(replies) # Slots
  BY <1>2, CoreTypes
<1> QED BY <1>1, <1>2, <1>3, <1>4

(* A failure that needs no stamp.                                          *)
LEMMA PlainFailure ==
  ASSUME CInv, opening \/ passive \/ direction # "IDLE" \/ closing,
         NEW state, Ended(state) = "free", Failure({}, state)
  PROVE  CInv'
BY UnderWay, FailureStep

(* The listener is open: its reply takes one of the two slots it had.      *)
LEMMA PassiveResultStep == ASSUME CInv, NEW ok \in BOOLEAN, PassiveResult(ok) PROVE CInv'
<1>1. CASE ~ok
  BY <1>1, ContractEnds, PlainFailure DEF PassiveResult
<1>2. CASE ok
  <2>1. session = TRUE /\ opening /\ Len(replies) < Slots - 1 /\ Len(replies) # Slots
        /\ direction = direction
    BY CoreTypes DEF PassiveResult, CInv, Room
  <2>2. /\ replies' = Append(replies, FALSE)
        /\ armed' \in {{}, {"output_time"}}
        /\ opening' = FALSE /\ passive' = TRUE
        /\ actions' = actions \ {"OPEN_PASSIVE"}
        /\ UNCHANGED <<who, connected, ready, eof, closing, direction, operation,
                       accepted, download, store, contract, refused>>
    BY <1>2, <2>1 DEF PassiveResult, Reply
  <2>3. /\ replies' \in Seq(BOOLEAN) /\ Len(replies') = Len(replies) + 1
        /\ StartsIn(replies') = StartsIn(replies)
    BY <2>2, CoreTypes, AppendAnswer
  <2>4. Len(replies') < Slots /\ Len(replies') <= Slots
    BY <2>1, <2>3, CoreTypes
  <2>5. opening' \in BOOLEAN /\ passive' \in BOOLEAN
    BY <2>2
  <2>6. actions' \subseteq Action /\ armed' \subseteq Stamp
    BY <2>2, TeardownTypes DEF Stamp
  <2>7. UNCHANGED <<session, quitting, access, parsing, connected, ready, eof, closing, direction,
                    operation, accepted, download, exists, file, uploading, staging, contract,
                    refused>>
    BY <2>2 DEF who, store
  <2>8. CoreTypeOK'
    BY <2>3, <2>4, <2>5, <2>6, <2>7 DEF CInv, CoreTypeOK
  <2>9. NoReplyLost' /\ Closed' /\ Room'
    BY <2>1, <2>2, <2>4, <2>7, CoreTypes DEF NoReplyLost, Closed, Room
  <2>10. AtRest' /\ Standing'
    BY <2>7 DEF CInv, AtRest, Standing
  <2>11. Following'
    BY <2>3, <2>7 DEF CInv, Following
  <2> QED BY <2>8, <2>9, <2>10, <2>11 DEF CInv
<1> QED BY <1>1, <1>2

(* The data connection is there.                                           *)
LEMMA DataConnectedStep == ASSUME CInv, DataConnected PROVE CInv'
<1>1. /\ connected' = TRUE /\ actions' = actions \cup {"CLOSE_PASSIVE"}
      /\ armed' = {"progress_time", "data_output_time"}
      /\ UNCHANGED <<who, replies, opening, passive, ready, eof, closing, direction,
                     operation, accepted, download, store, contract, refused>>
  BY DEF DataConnected
<1>2. connected' \in BOOLEAN
  BY <1>1
<1>3. actions' \subseteq Action /\ armed' \subseteq Stamp
  BY <1>1, TeardownTypes DEF Action, Stamp
<1>4. AtRest' /\ Standing'
  BY <1>1 DEF CInv, AtRest, Standing
<1> QED BY <1>1, <1>2, <1>3, <1>4, MoveStep DEF CInv, CoreTypeOK, who, store

(* A chunk is staged, or does not fit.                                     *)
LEMMA UploadFileStep == ASSUME CInv, NEW chunk \in Chunk, UploadFile(chunk) PROVE CInv'
<1>1. direction # "IDLE"
  BY DEF UploadFile, Receiving, TransferReady
<1>2. CASE Len(staging) < Capacity /\ uploading
  <2>1. /\ staging' = Append(staging, chunk) /\ armed' = {"progress_time"}
        /\ UNCHANGED <<who, replies, actions, transfer, exists, file, uploading, contract, refused>>
    BY <1>2 DEF UploadFile
  <2>2. staging \in Seq(Chunk) /\ Len(staging) \in Nat
    BY DEF CInv, CoreTypeOK
  <2>3. staging' \in Seq(Chunk) /\ Len(staging') <= Capacity
    BY <1>2, <2>1, <2>2, CapacityAssumption
  <2>4. armed' \subseteq Stamp
    BY <2>1 DEF Stamp
  <2>5. AtRest' /\ Standing'
    BY <2>1 DEF CInv, AtRest, Standing, transfer
  <2> QED BY <2>1, <2>3, <2>4, <2>5, MoveStep DEF CInv, CoreTypeOK, who, transfer
<1>3. CASE ~(Len(staging) < Capacity /\ uploading)
  BY <1>1, <1>3, ContractEnds, PlainFailure DEF UploadFile
<1> QED BY <1>2, <1>3

(* A step that changes flags and the contract of the transfer only.        *)
LEMMA FlagStep ==
  ASSUME CInv, direction # "IDLE", eof' \in BOOLEAN, closing' \in BOOLEAN, accepted' \in BOOLEAN,
         actions' \in {actions, actions \cup {"CLOSE_DATA"}}, armed' \subseteq Stamp,
         accepted' => eof',
         contract' = IF ~operation THEN "free" ELSE IF accepted' THEN "done"
                     ELSE IF eof' THEN "ended" ELSE "open",
         UNCHANGED <<who, replies, opening, passive, connected, ready, direction,
                     operation, download, store, refused>>
  PROVE  CInv'
<1>1. actions' \subseteq Action
  BY TeardownTypes DEF Action
<1>2. AtRest' /\ Standing'
  BY DEF AtRest, Standing
<1>3. contract' \in {"free", "open", "ended", "done", "broken"}
  OBVIOUS
<1> QED BY <1>1, <1>2, <1>3, MoveStep DEF CInv, CoreTypeOK, who, store

(* The operation takes data, or fails, or is told the end.                 *)
LEMMA UploadOperationStep ==
  ASSUME CInv, (\E taken \in BOOLEAN : UploadOperation(taken)) \/ UploadFails \/ UploadEof
  PROVE  CInv'
<1>1. Receiving /\ direction # "IDLE" /\ eof = FALSE /\ accepted = FALSE /\ closing = FALSE
  BY CoreTypes DEF UploadOperation, UploadFails, UploadEof, Receiving, TransferReady, CInv, Standing
<1>2. contract = IF ~operation THEN "free" ELSE "open"
  BY <1>1 DEF CInv, Standing
<1>3. CASE \E taken \in BOOLEAN : UploadOperation(taken)
  <2>1. /\ operation /\ contract' = After(contract, "feed")
        /\ armed' \in {{"progress_time"}, {}}
        /\ UNCHANGED <<who, replies, actions, transfer, store, refused>>
    BY <1>3 DEF UploadOperation
  <2>2. contract' = "open"
    BY <1>2, <2>1 DEF After
  <2>3. armed' \subseteq Stamp
    BY <2>1 DEF Stamp
  <2>4. /\ eof' = FALSE /\ accepted' = FALSE /\ closing' = FALSE /\ actions' = actions
        /\ UNCHANGED <<who, replies, opening, passive, connected, ready, direction,
                       operation, download, store, refused>>
    BY <1>1, <2>1 DEF transfer
  <2>5. eof' \in BOOLEAN /\ closing' \in BOOLEAN /\ accepted' \in BOOLEAN
    BY <2>4
  <2> QED BY <1>1, <2>1, <2>2, <2>3, <2>4, <2>5, FlagStep
<1>4. CASE UploadFails
  BY <1>1, <1>4, ContractEnds, PlainFailure DEF UploadFails
<1>5. CASE UploadEof
  <2>1. CASE operation /\ Failure({}, After(contract, "eof"))
    BY <1>1, <2>1, ContractEnds, PlainFailure
  <2>2. CASE /\ ~operation /\ eof' = TRUE /\ CloseData /\ armed' = {"close_time"}
             /\ UNCHANGED <<contract, replies, who, opening, passive, connected, ready,
                            direction, operation, accepted, download, store, refused>>
    <3>1. eof' \in BOOLEAN /\ closing' \in BOOLEAN /\ accepted' \in BOOLEAN
      BY <2>2, CoreTypes DEF CloseData
    <3>2. armed' \subseteq Stamp
      BY <2>2 DEF Stamp
    <3> QED BY <1>1, <1>2, <2>2, <3>1, <3>2, FlagStep DEF CloseData
  <2>3. CASE /\ operation /\ eof' = TRUE /\ contract' = After(contract, "eof") /\ armed' = {}
             /\ UNCHANGED <<replies, who, actions, opening, passive, connected, ready, closing,
                            direction, operation, accepted, download, store, refused>>
    <3>1. eof' \in BOOLEAN /\ closing' \in BOOLEAN /\ accepted' \in BOOLEAN
      BY <2>3, CoreTypes
    <3>2. contract' = "ended"
      BY <1>2, <2>3 DEF After
    <3> QED BY <1>1, <2>3, <3>1, <3>2, FlagStep
  <2> QED BY <1>5, <2>1, <2>2, <2>3 DEF UploadEof
<1> QED BY <1>3, <1>4, <1>5

(* One step of the operation.                                              *)
LEMMA ForegroundStep == ASSUME CInv, NEW result, Foreground(result) PROVE CInv'
<1>1. operation /\ direction # "IDLE" /\ accepted = FALSE
  BY CoreTypes DEF Foreground, Stepping
<1>2. contract = IF eof THEN "ended" ELSE "open"
  BY <1>1 DEF CInv, Standing
<1>3. CASE /\ contract' = After(contract, "step") /\ armed' = {}
           /\ UNCHANGED <<who, replies, actions, transfer, store, refused>>
  <2>1. contract' = IF eof THEN "ended" ELSE "open"
    BY <1>2, <1>3 DEF After
  <2>2. /\ eof' = eof /\ accepted' = FALSE /\ closing' = closing /\ actions' = actions
        /\ UNCHANGED <<who, replies, opening, passive, connected, ready, direction,
                       operation, download, store, refused>>
    BY <1>1, <1>3 DEF transfer
  <2>3. eof' \in BOOLEAN /\ closing' \in BOOLEAN /\ accepted' \in BOOLEAN
    BY <2>2, CoreTypes
  <2> QED BY <1>1, <1>3, <2>1, <2>2, <2>3, FlagStep
<1>4. CASE /\ eof /\ accepted' = TRUE /\ CloseData /\ contract' = After(contract, "accept")
           /\ armed' = {"close_time"}
           /\ UNCHANGED <<who, replies, opening, passive, connected, ready, eof, direction,
                          operation, download, store, refused>>
  <2>1. contract' = "done"
    BY <1>2, <1>4 DEF After
  <2>2. eof' \in BOOLEAN /\ closing' \in BOOLEAN /\ accepted' \in BOOLEAN
    BY <1>4, CoreTypes DEF CloseData
  <2>3. armed' \subseteq Stamp
    BY <1>4 DEF Stamp
  <2> QED BY <1>1, <1>4, <2>1, <2>2, <2>3, FlagStep DEF CloseData
<1>5. CASE Failure({}, After(contract, "step"))
  BY <1>1, <1>5, ContractEnds, PlainFailure
<1> QED BY <1>3, <1>4, <1>5 DEF Foreground

(* The view moves within its bounds.                                       *)
LEMMA DownloadStep ==
  ASSUME CInv, NEW n \in 0..Capacity, DownloadEnqueued(n) \/ DownloadAcked(n)
  PROVE  CInv'
<1>1. /\ direction # "IDLE" /\ download \in View
      /\ download.acked <= download.enqueued /\ download.enqueued <= download.length
  BY DEF DownloadEnqueued, DownloadAcked, Sending, TransferReady, CInv, CoreTypeOK
<1>2. /\ download.length \in Nat /\ download.enqueued \in Nat /\ download.acked \in Nat
      /\ download.length <= Capacity /\ Capacity \in Nat
  BY <1>1, CapacityAssumption DEF View
<1>3. PICK view, stamps :
        /\ DownloadMoves(view, stamps) /\ stamps \subseteq {"progress_time", "data_output_time"}
        /\ view \in View /\ view.acked <= view.enqueued /\ view.enqueued <= view.length
  <2>1. CASE DownloadEnqueued(n)
    <3> DEFINE view == [download EXCEPT !.enqueued = @ + n]
    <3>1. n \in 0..(download.length - download.enqueued)
      BY <2>1 DEF DownloadEnqueued
    <3>2. download.enqueued + n \in 0..Capacity /\ download.enqueued + n <= download.length
          /\ download.acked <= download.enqueued + n
      BY <1>1, <1>2, <3>1
    <3>3. /\ view \in View /\ view.acked = download.acked /\ view.length = download.length
          /\ view.enqueued = download.enqueued + n
      BY <1>1, <3>2 DEF View
    <3> HIDE DEF view
    <3>4. \E stamps \in SUBSET {"progress_time", "data_output_time"} : DownloadMoves(view, stamps)
      BY <2>1 DEF DownloadEnqueued, view
    <3> QED BY <3>2, <3>3, <3>4
  <2>2. CASE DownloadAcked(n)
    <3> DEFINE view == [download EXCEPT !.acked = @ + n]
    <3>1. n \in 0..(download.enqueued - download.acked)
      BY <2>2 DEF DownloadAcked
    <3>2. download.acked + n \in 0..Capacity /\ download.acked + n <= download.enqueued
      BY <1>1, <1>2, <3>1
    <3>3. /\ view \in View /\ view.enqueued = download.enqueued /\ view.length = download.length
          /\ view.acked = download.acked + n
      BY <1>1, <3>2 DEF View
    <3> HIDE DEF view
    <3>4. \E stamps \in SUBSET {"progress_time", "data_output_time"} : DownloadMoves(view, stamps)
      BY <2>2 DEF DownloadAcked, view
    <3> QED BY <1>1, <3>2, <3>3, <3>4
  <2> QED BY <2>1, <2>2
<1>4. /\ download' = view /\ closing' \in {closing, TRUE}
      /\ actions' \in {actions, actions \cup {"CLOSE_DATA"}}
      /\ armed' \in {stamps, stamps \cup {"close_time"}}
      /\ UNCHANGED <<who, replies, opening, passive, connected, ready, eof, direction,
                     operation, accepted, store, contract, refused>>
  BY <1>3 DEF DownloadMoves, CloseData
<1>5. armed' \subseteq Stamp /\ actions' \subseteq Action
  BY <1>3, <1>4, TeardownTypes DEF Stamp, Action
<1>6. closing' \in BOOLEAN
  BY <1>4, CoreTypes
<1>7. AtRest' /\ Standing'
  BY <1>1, <1>4 DEF CInv, AtRest, Standing
<1> QED BY <1>3, <1>4, <1>5, <1>6, <1>7, MoveStep DEF CInv, CoreTypeOK, who, store

(* The connection is closed: a whole upload becomes the file.              *)
LEMMA DataCloseResultStep == ASSUME CInv, DataCloseResult PROVE CInv'
<1>1. session = TRUE /\ Len(replies) < Slots /\ Len(StartsCleared) # Slots
  BY UnderWay DEF DataCloseResult
<1>2. /\ replies' = Append(StartsCleared, FALSE) /\ armed' \in {{}, {"output_time"}}
      /\ Idle /\ Abort /\ contract' = Ended(contract)
      /\ file' \in {file, staging} /\ exists' \in {exists, TRUE}
      /\ actions' \subseteq actions \cup {"CLOSE_PASSIVE"}
      /\ UNCHANGED <<who, refused>>
  BY <1>1 DEF DataCloseResult, Reply
<1>3. Torn
  BY <1>2, ContractEnds DEF Torn
<1>4. actions' \subseteq Action /\ armed' \subseteq Stamp
  BY <1>2, TeardownTypes DEF Action, Stamp
<1>5. exists' \in BOOLEAN
  BY <1>2, CoreTypes
<1>6. file' \in Seq(Chunk) /\ Len(file') <= Capacity
  BY <1>2 DEF CInv, CoreTypeOK
<1>7. quitting' \in BOOLEAN /\ parsing' \in BOOLEAN /\ session' = session
  BY <1>2, CoreTypes DEF who
<1>8. access' \in {"NONE", "USER", "LOGIN", "BINARY"}
  BY <1>2 DEF CInv, CoreTypeOK, who
<1> QED BY <1>1, <1>2, <1>3, <1>4, <1>5, <1>6, <1>7, <1>8, EndStep

(* An error of the connection, and a deadline that expires.                *)
LEMMA ExpiryStep ==
  ASSUME CInv, DataError \/ \E d \in Deadline : Tick(d)
  PROVE  CInv'
<1>1. CASE DataError
  BY <1>1, ContractEnds, PlainFailure DEF DataError
<1>2. ASSUME NEW d \in Deadline, Tick(d) PROVE CInv'
  <2>1. CASE d \in {"control", "parser", "output", "quit"}
    BY <1>2, <2>1, LeavingStep DEF Tick
  <2>2. CASE d \notin {"control", "parser", "output", "quit"}
    <3>1. d \in {"close", "data_output", "total", "progress", "passive"}
      BY <2>2 DEF Deadline
    <3>2. Runs(d) /\ Failure({}, contract)
      BY <1>2, <2>2 DEF Tick
    <3>3. opening \/ passive \/ direction # "IDLE" \/ closing
      BY <3>1, <3>2 DEF Runs
    <3> QED BY <3>2, <3>3, ContractEnds, PlainFailure
  <2> QED BY <2>1, <2>2
<1> QED BY <1>1, <1>2

-----------------------------------------------------------------------------
(* The invariant of the core                                               *)

(* The core begins with nothing queued and nothing under way.              *)
LEMMA InitCore == CoreInit => CInv
<1> SUFFICES ASSUME CoreInit PROVE CInv OBVIOUS
<1>1. /\ replies = <<>> /\ replies \in Seq(BOOLEAN) /\ Len(replies) = 0
      /\ Len(replies) <= Slots /\ StartsIn(replies) = {}
  BY SlotsAssumption DEF CoreInit, StartsIn
<1>2. /\ session \in BOOLEAN /\ quitting \in BOOLEAN /\ parsing \in BOOLEAN
      /\ opening \in BOOLEAN /\ passive \in BOOLEAN /\ connected \in BOOLEAN
      /\ ready \in BOOLEAN /\ eof \in BOOLEAN /\ closing \in BOOLEAN
      /\ operation \in BOOLEAN /\ accepted \in BOOLEAN /\ exists \in BOOLEAN
      /\ uploading \in BOOLEAN /\ refused \in BOOLEAN
  BY DEF CoreInit
<1>3. /\ download \in View /\ download.acked <= download.enqueued
      /\ download.enqueued <= download.length
  BY CapacityAssumption DEF CoreInit, NoView, View
<1>4. /\ file \in Seq(Chunk) /\ Len(file) <= Capacity
      /\ staging \in Seq(Chunk) /\ Len(staging) <= Capacity
  BY CapacityAssumption DEF CoreInit
<1>5. CoreTypeOK
  BY <1>1, <1>2, <1>3, <1>4 DEF CoreInit, CoreTypeOK
<1>6. NoReplyLost /\ Closed /\ Room /\ AtRest /\ Standing
  BY <1>1 DEF CoreInit, NoReplyLost, Closed, Room, AtRest, Standing
<1>7. Following
  BY <1>1 DEF CoreInit, Following
<1> QED BY <1>5, <1>6, <1>7 DEF CInv

(* The invariant is inductive.                                             *)
LEMMA StepCore == CInv /\ [CoreNext]_core => CInv'
<1> SUFFICES ASSUME CInv, [CoreNext]_core PROVE CInv' OBVIOUS
<1>1. CASE CoreReset \/ (\E d \in Deadline : Tick(d))
  BY <1>1, LeavingStep, ExpiryStep
<1>2. CASE Control
  BY <1>2, SessionOpenStep, LeavingStep, SmallStep, ReplyConsumedStep, AnswerLine, EndLine,
     PassiveLine, TransferLine DEF Control
<1>3. CASE Data
  BY <1>3, PassiveResultStep, DataConnectedStep, UploadFileStep, UploadOperationStep,
     ForegroundStep, DownloadStep, DataCloseResultStep, ExpiryStep DEF Data
<1>4. CASE UNCHANGED core
  <2>1. UNCHANGED <<session, quitting, access, parsing, replies, actions, opening, passive,
                    connected, ready, eof, closing, direction, operation, accepted, download,
                    exists, file, uploading, staging, armed, contract, refused>>
    BY <1>4 DEF core, who, transfer, store, history
  <2>2. CoreTypeOK'
    BY <2>1 DEF CInv, CoreTypeOK
  <2>3. NoReplyLost' /\ Closed' /\ Room' /\ AtRest' /\ Standing'
    BY <2>1 DEF CInv, NoReplyLost, Closed, Room, AtRest, Standing
  <2>4. Following'
    BY <2>1 DEF CInv, Following
  <2> QED BY <2>2, <2>3, <2>4 DEF CInv
<1> QED BY <1>1, <1>2, <1>3, <1>4 DEF CoreNext

(* Type correctness, for any transport.                                    *)
THEOREM CoreTypeTheorem == CoreSpec => []CoreTypeOK
<1>1. CInv => CoreTypeOK
  BY DEF CInv
<1> QED BY <1>1, InitCore, StepCore, PTL DEF CoreSpec

(* No reply is ever lost for want of a slot.                               *)
THEOREM ReplyTheorem == CoreSpec => []NoReplyLost
<1>1. CInv => NoReplyLost
  BY DEF CInv
<1> QED BY <1>1, InitCore, StepCore, PTL DEF CoreSpec

(* Data moves only after the transfer's own 150 was taken.                 *)
THEOREM StartTheorem == CoreSpec => []DataFollowsStart
<1>1. CInv => DataFollowsStart
  BY FollowingMeans DEF CInv
<1> QED BY <1>1, InitCore, StepCore, PTL DEF CoreSpec

(* The core keeps the contract of ftp_operation.h.                         *)
THEOREM ContractTheorem == CoreSpec => []OperationContract
<1>1. CInv => OperationContract
  <2> SUFFICES ASSUME CInv PROVE OperationContract OBVIOUS
  <2> QED BY CoreTypes DEF CInv, Standing, OperationContract
<1> QED BY <1>1, InitCore, StepCore, PTL DEF CoreSpec

-----------------------------------------------------------------------------
(* Deadlines                                                               *)

(* The deadlines one by one: what makes each of them begin to run, and the *)
(* stamp it is then measured from.                                         *)
Clocks ==
  /\ session' => session \/ "control_time" \in armed'
  /\ parsing' => parsing \/ "since" \in armed'
  /\ replies' # <<>> => replies # <<>> \/ "output_time" \in armed'
  /\ quitting' /\ replies' = <<>> => (quitting /\ replies = <<>>) \/ "close_time" \in armed'
TransferClocks ==
  /\ closing' => closing \/ "close_time" \in armed'
  /\ Runs("data_output")' => Runs("data_output") \/ "data_output_time" \in armed'
  /\ direction' # "IDLE" => direction # "IDLE" \/ {"start_time", "progress_time"} \subseteq armed'
  /\ Runs("passive")' => Runs("passive") \/ "passive_time" \in armed'

(* Fresh stamps of every deadline that begins to run are what              *)
(* DeadlinesFresh asks of a step.                                          *)
LEMMA ClocksMean == ASSUME Clocks, TransferClocks PROVE FreshStep
<1> SUFFICES ASSUME NEW d \in Deadline, ~Runs(d), Runs(d)' PROVE StampOf(d) \in armed'
  BY DEF FreshStep
<1>1. CASE d \in {"control", "parser", "output", "quit"}
  BY <1>1 DEF Clocks, Runs, StampOf
<1>2. CASE d \in {"close", "total", "progress"}
  BY <1>2 DEF TransferClocks, Runs, StampOf
<1>3. CASE d = "data_output"
  BY <1>3 DEF TransferClocks, StampOf
<1>4. CASE d = "passive"
  BY <1>4 DEF TransferClocks, StampOf
<1> QED BY <1>1, <1>2, <1>3, <1>4 DEF Deadline

(* No clock of a transfer runs in an idle core.                            *)
LEMMA IdleClocks == ASSUME Idle PROVE TransferClocks
BY DEF Idle, TransferClocks, Runs

(* A transfer that stays as it was keeps its clocks.                       *)
LEMMA SameClocks == ASSUME UNCHANGED transfer PROVE TransferClocks
BY DEF transfer, TransferClocks, Runs

(* No clock at all runs once the session is over.                          *)
LEMMA OverClocks == ASSUME Idle, LoggedOut PROVE Clocks /\ TransferClocks
BY IdleClocks DEF LoggedOut, Clocks

(* A reply that is queued is stamped when it is the first, and keeps the   *)
(* session of a client that quits from closing.                            *)
LEMMA QueuedClocks ==
  ASSUME NEW ring \in Seq(BOOLEAN), ring = <<>> <=> replies = <<>>, NEW start \in BOOLEAN,
         replies' = Append(ring, start), NEW stamps,
         armed' = stamps \cup (IF ring = <<>> THEN {"output_time"} ELSE {}),
         session' => session \/ "control_time" \in stamps,
         parsing' => parsing
  PROVE  Clocks
<1>1. Append(ring, start) # <<>>
  OBVIOUS
<1>2. replies' # <<>>
  BY <1>1
<1> QED BY <1>2 DEF Clocks

(* failure: it ends the transfer, or the session when the ring is full.    *)
LEMMA FailureClocks ==
  ASSUME CInv, NEW stamps, NEW state, Failure(stamps, state)
  PROVE  Clocks /\ TransferClocks
<1>1. CASE Len(StartsCleared) = Slots /\ Lost(state)
  BY <1>1, OverClocks DEF Lost, Teardown
<1>2. CASE ~(Len(StartsCleared) = Slots /\ Lost(state))
  <2>1. /\ replies' = Append(StartsCleared, FALSE)
        /\ armed' = stamps \cup (IF StartsCleared = <<>> THEN {"output_time"} ELSE {})
        /\ Idle /\ session' = session /\ (parsing' => parsing)
    BY <1>2 DEF Failure, Reply, Teardown
  <2> QED BY <2>1, QueuedClocks, CoreTypes, Cleared, IdleClocks
<1> QED BY <1>1, <1>2

(* A line that ends what is under way: QUIT, ABOR and USER.                *)
LEMMA EndLineClocks == ASSUME CInv, Quit \/ Abor \/ User PROVE Clocks /\ TransferClocks
<1>1. CASE Lost(contract)
  BY <1>1, OverClocks DEF Lost, Teardown
<1>2. CASE ~Lost(contract)
  <2>1. /\ replies' = Append(StartsCleared, FALSE)
        /\ armed' = ({} \cup {"control_time"})
                      \cup (IF StartsCleared = <<>> THEN {"output_time"} ELSE {})
        /\ Idle /\ session' = session /\ parsing' = FALSE
    BY <1>2 DEF Quit, Abor, User, LineReply, Reply, Teardown
  <2> QED BY <2>1, QueuedClocks, CoreTypes, Cleared, IdleClocks
<1> QED BY <1>1, <1>2

(* A line that only answers, and the session's greeting.                   *)
LEMMA AnswerClocks ==
  ASSUME CInv, SessionOpen \/ Answer \/ Pass \/ Type
  PROVE  Clocks /\ TransferClocks
<1>1. CASE Lost(contract)
  BY <1>1, OverClocks DEF Lost, Teardown
<1>2. CASE ~Lost(contract)
  <2>1. /\ replies' = Append(replies, FALSE)
        /\ armed' = {"control_time"} \cup (IF replies = <<>> THEN {"output_time"} ELSE {})
        /\ UNCHANGED transfer
    BY <1>2 DEF SessionOpen, Answer, Pass, Type, LineReply, Reply
  <2>2. parsing' => parsing
    BY <1>2 DEF SessionOpen, Answer, Pass, Type, LineReply, Reply
  <2> QED BY <2>1, <2>2, QueuedClocks, CoreTypes, SameClocks
<1> QED BY <1>1, <1>2

(* EPSV and PASV: the listener's clock is the only one that starts.        *)
LEMMA PassiveClocks == ASSUME CInv, Passive PROVE Clocks /\ TransferClocks
<1>1. /\ UNCHANGED <<session, quitting>> /\ parsing' = FALSE /\ replies' = StartsCleared
      /\ ~quitting /\ armed' = {"control_time", "passive_time"}
      /\ closing' = FALSE /\ direction' = "IDLE"
  BY DEF Passive, Line, Listening
<1>2. replies' = <<>> <=> replies = <<>>
  BY <1>1, CoreTypes, Cleared
<1>3. Clocks
  BY <1>1, <1>2 DEF Clocks
<1> QED BY <1>1, <1>3 DEF TransferClocks, Runs

(* STOR and RETR: a transfer that is not ready yet begins.                 *)
LEMMA StartClocks ==
  ASSUME CInv, direction = "IDLE", NEW way, NEW special, NEW length, Start(way, special, length)
  PROVE  Clocks /\ TransferClocks
<1>1. CASE Lost(contract)
  BY <1>1, OverClocks DEF Lost, Teardown
<1>2. CASE ~Lost(contract)
  <2>1. /\ replies' = Append(replies, TRUE)
        /\ armed' = ({"start_time", "progress_time"} \cup {"control_time"})
                      \cup (IF replies = <<>> THEN {"output_time"} ELSE {})
        /\ session' = session /\ parsing' = FALSE
        /\ UNCHANGED <<opening, passive, connected, ready, closing>>
    BY <1>2 DEF Start, LineReply, Reply
  <2>2. Clocks
    BY <2>1, QueuedClocks, CoreTypes
  <2>3. ~ready' /\ closing' = closing
    BY <2>1 DEF CInv, AtRest
  <2>4. TransferClocks
    BY <2>1, <2>3 DEF TransferClocks, Runs
  <2> QED BY <2>2, <2>4
<1> QED BY <1>1, <1>2

(* A transfer command either begins the transfer, and its clock, or fails. *)
LEMMA TransferLineClocks ==
  ASSUME CInv, Stor \/ Retr \/ Special
  PROVE  Clocks /\ TransferClocks
<1>1. direction = "IDLE"
  BY DEF Stor, Retr, Special, Ready
<1> QED BY <1>1, StartClocks, FailureClocks DEF Stor, Retr, Special

(* A reply is taken: the next one, the data and the end of the session are *)
(* all measured from now.                                                  *)
LEMMA ReplyConsumedClocks == ASSUME CInv, ReplyConsumed PROVE Clocks /\ TransferClocks
<1>1. /\ replies # <<>> /\ replies' = Tail(replies) /\ replies \in Seq(BOOLEAN)
      /\ UNCHANGED <<session, quitting, parsing, opening, passive, connected, closing, direction,
                     download>>
  BY CoreTypes DEF ReplyConsumed, who
<1>2. replies' = <<>> => Len(replies) = 1
  <2>1. Len(replies') = Len(replies) - 1 /\ Len(replies) \in Nat
    BY <1>1, TailStarts
  <2>2. replies' = <<>> => Len(replies') = 0
    OBVIOUS
  <2> QED BY <2>1, <2>2
<1>3. quitting /\ Len(replies) = 1 => "close_time" \in armed'
  BY DEF ReplyConsumed, CloseStamp
<1>4. ready' => ready \/ "data_output_time" \in armed'
  BY DEF ReplyConsumed
<1>5. Clocks
  BY <1>1, <1>2, <1>3 DEF Clocks
<1> QED BY <1>1, <1>4, <1>5 DEF TransferClocks, Runs

(* The smaller steps of the control connection.                            *)
LEMMA SmallClocks ==
  ASSUME CInv, TakeActions \/ ReplyPartly \/ PartialLine
  PROVE  Clocks /\ TransferClocks
<1>1. UNCHANGED <<session, quitting, replies, transfer>>
  BY DEF TakeActions, ReplyPartly, PartialLine, who
<1>2. parsing' => parsing \/ "since" \in armed'
  <2>1. CASE PartialLine
    BY <2>1 DEF PartialLine
  <2>2. CASE TakeActions \/ ReplyPartly
    BY <2>2 DEF TakeActions, ReplyPartly, who
  <2> QED BY <2>1, <2>2
<1> QED BY <1>1, <1>2, SameClocks DEF Clocks

-----------------------------------------------------------------------------

(* The session's clocks while the data connection moves.                   *)
LEMMA StillClocks == ASSUME UNCHANGED <<who, replies>> PROVE Clocks
BY DEF who, Clocks

(* The answer to PASV starts the wait for the data connection.             *)
LEMMA PassiveResultClocks ==
  ASSUME CInv, NEW ok \in BOOLEAN, PassiveResult(ok)
  PROVE  Clocks /\ TransferClocks
<1>1. CASE ~ok
  BY <1>1, FailureClocks DEF PassiveResult
<1>2. CASE Lost(contract)
  BY <1>2, OverClocks DEF Lost, Teardown
<1>3. CASE ok /\ ~Lost(contract)
  <2>1. /\ replies' = Append(replies, FALSE) /\ opening
        /\ armed' = {} \cup (IF replies = <<>> THEN {"output_time"} ELSE {})
        /\ UNCHANGED <<who, connected, ready, closing, direction, download>>
    BY <1>3 DEF PassiveResult, Reply
  <2>2. Clocks
    BY <2>1, QueuedClocks, CoreTypes DEF who
  <2> QED BY <2>1, <2>2 DEF TransferClocks, Runs
<1> QED BY <1>1, <1>2, <1>3

(* The connection arrives: its output and its progress count from now.     *)
LEMMA DataConnectedClocks == ASSUME CInv, DataConnected PROVE Clocks /\ TransferClocks
<1>1. /\ UNCHANGED <<who, replies, opening, passive, closing, direction>>
      /\ "data_output_time" \in armed' /\ passive /\ ~connected
  BY DEF DataConnected, Connectable
<1> QED BY <1>1, StillClocks DEF TransferClocks, Runs

(* A step of an upload ends it or leaves every clock as it is, but for the *)
(* data clock that a chunk sets anew.                                      *)
LEMMA UploadClocks ==
  ASSUME CInv, \/ \E chunk \in Chunk : UploadFile(chunk)
               \/ \E taken \in BOOLEAN : UploadOperation(taken)
               \/ UploadFails \/ UploadEof
               \/ \E result \in {"WAIT", "ACCEPTED", "ERROR"} : Foreground(result)
  PROVE  Clocks /\ TransferClocks
<1>1. CASE \E stamps, state : Failure(stamps, state)
  BY <1>1, FailureClocks
<1>2. CASE UNCHANGED <<who, replies, transfer>>
  BY <1>2, StillClocks, SameClocks
<1>3. CASE /\ UNCHANGED <<who, replies, opening, passive, connected, ready, direction, download>>
           /\ direction = "UPLOAD" /\ (closing' => closing \/ "close_time" \in armed')
  BY <1>3, StillClocks DEF TransferClocks, Runs
<1>4. \/ \E stamps, state : Failure(stamps, state)
      \/ UNCHANGED <<who, replies, transfer>>
      \/ /\ UNCHANGED <<who, replies, opening, passive, connected, ready, direction, download>>
         /\ direction = "UPLOAD" /\ (closing' => closing \/ "close_time" \in armed')
  <2>1. CASE \E chunk \in Chunk : UploadFile(chunk)
    BY <2>1 DEF UploadFile
  <2>2. CASE \E taken \in BOOLEAN : UploadOperation(taken)
    BY <2>2 DEF UploadOperation
  <2>3. CASE UploadFails
    BY <2>3 DEF UploadFails
  <2>4. CASE UploadEof
    BY <2>4 DEF UploadEof, Receiving
  <2>5. CASE \E result \in {"WAIT", "ACCEPTED", "ERROR"} : Foreground(result)
    BY <2>5 DEF Foreground, Stepping
  <2> QED BY <2>1, <2>2, <2>3, <2>4, <2>5
<1> QED BY <1>1, <1>2, <1>3, <1>4

(* A download moves: what is still to be enqueued was so before.           *)
LEMMA DownloadClocks ==
  ASSUME CInv, NEW n \in 0..Capacity, DownloadEnqueued(n) \/ DownloadAcked(n)
  PROVE  Clocks /\ TransferClocks
<1>1. /\ UNCHANGED <<who, replies, opening, passive, connected, ready, direction>>
      /\ closing' => closing \/ "close_time" \in armed'
      /\ TransferReady /\ direction = "DOWNLOAD"
  BY DEF DownloadEnqueued, DownloadAcked, DownloadMoves, Sending
<1>2. download'.enqueued < download'.length => download.enqueued < download.length
  <2>1. /\ download \in View /\ download.enqueued \in Nat /\ download.length \in Nat /\ n \in Nat
    BY CapacityAssumption DEF CInv, CoreTypeOK, View
  <2>2. /\ download'.length = download.length
        /\ download'.enqueued \in {download.enqueued, download.enqueued + n}
    BY <2>1 DEF DownloadEnqueued, DownloadAcked, DownloadMoves, View
  <2> QED BY <2>1, <2>2
<1> QED BY <1>1, <1>2, StillClocks DEF TransferClocks, Runs, TransferReady

(* The end of the data connection is the end of the transfer's clocks.     *)
LEMMA DataCloseResultClocks == ASSUME CInv, DataCloseResult PROVE Clocks /\ TransferClocks
<1>1. CASE Lost(contract)
  BY <1>1, OverClocks DEF Lost, Teardown
<1>2. CASE ~Lost(contract)
  <2>1. /\ replies' = Append(StartsCleared, FALSE) /\ Idle /\ UNCHANGED who
        /\ armed' = {} \cup (IF StartsCleared = <<>> THEN {"output_time"} ELSE {})
    BY <1>2 DEF DataCloseResult, Reply
  <2> QED BY <2>1, QueuedClocks, CoreTypes, Cleared, IdleClocks DEF who
<1> QED BY <1>1, <1>2

(* Without a session no deadline runs.                                     *)
LEMMA LeavingClocks == ASSUME CoreReset \/ SessionLost \/ ControlClosed PROVE Clocks /\ TransferClocks
BY OverClocks DEF CoreReset, SessionLost, ControlClosed, Lost, Teardown

(* An expired deadline and a data error end what they were waiting for.    *)
LEMMA ExpiryClocks ==
  ASSUME CInv, DataError \/ \E d \in Deadline : Tick(d)
  PROVE  Clocks /\ TransferClocks
BY FailureClocks, LeavingClocks DEF DataError, Tick

(* Every step of the core keeps its deadlines fresh.                       *)
LEMMA StepClocks == CInv /\ [CoreNext]_core => [FreshStep]_core
<1> SUFFICES ASSUME CInv, CoreNext PROVE FreshStep OBVIOUS
<1>1. CASE CoreReset \/ (\E d \in Deadline : Tick(d))
  BY <1>1, LeavingClocks, ExpiryClocks, ClocksMean
<1>2. CASE Control
  BY <1>2, AnswerClocks, LeavingClocks, SmallClocks, ReplyConsumedClocks, EndLineClocks,
     PassiveClocks, TransferLineClocks, ClocksMean DEF Control
<1>3. CASE Data
  BY <1>3, PassiveResultClocks, DataConnectedClocks, UploadClocks, DownloadClocks,
     DataCloseResultClocks, ExpiryClocks, ClocksMean DEF Data
<1> QED BY <1>1, <1>2, <1>3 DEF CoreNext

(* Every deadline is measured from a stamp set when it began to run.       *)
THEOREM DeadlineTheorem == CoreSpec => DeadlinesFresh
BY InitCore, StepCore, StepClocks, PTL DEF CoreSpec, DeadlinesFresh

-----------------------------------------------------------------------------
(* The core under the transport of FtpTcp                                  *)

Channel == [pcb: BOOLEAN, rx: Seq(Chunk), refused: Seq(Chunk), fin: BOOLEAN,
            failed: BOOLEAN, output: BOOLEAN, closing: BOOLEAN]

GlueTypeOK ==
  /\ control \in Channel /\ data \in Channel
  /\ offer \in BOOLEAN /\ sent \in Seq(Chunk) /\ finished \in BOOLEAN

(* What the core's own flags mean to one another.                          *)
Linked ==
  /\ uploading <=> direction = "UPLOAD" /\ ~operation
  /\ ~uploading \/ ~connected => staging = <<>>
  /\ eof => connected
  /\ connected => passive
  /\ opening => ~passive /\ direction = "IDLE"
  /\ "OPEN_PASSIVE" \in actions => opening
  /\ "CLOSE_DATA" \in actions => closing

(* The requests of the core that may be waiting at a stage.                *)
Requests ==
  /\ stage = "idle" => /\ actions \subseteq {"CLOSE_DATA", "CLOSE_PASSIVE"}
                       /\ "CLOSE_PASSIVE" \in actions => ~offer
  /\ stage = "control" => actions \subseteq {"CLOSE_PASSIVE"}
  /\ stage = "open" => actions = {} /\ opening /\ back = "control"
  /\ "OPEN_PASSIVE" \in actions => stage = "actions" /\ back = "control"
  /\ back # "open"

(* The channels are what the core works with, up to the requests that the  *)
(* transport has not carried out yet.                                      *)
ControlHeld == session <=> "ABORT_CONTROL" \notin actions /\ (control.pcb \/ control.failed)
DataHeld    == connected <=> "ABORT_DATA" \notin actions /\ (data.pcb \/ data.failed)
OfferHeld   == passive /\ ~connected <=> offer /\ "CLOSE_PASSIVE" \notin actions
CloseHeld   == data.closing => closing \/ "ABORT_DATA" \in actions
AbortHeld   == "ABORT_DATA" \in actions => direction = "IDLE"

(* A connection that is gone holds nothing.                                *)
Empty(c) == ~c.pcb => c.rx = <<>> /\ c.refused = <<>> /\ ~c.output

(* What the peer sent is what the file has, then what ftp_tcp.c holds and  *)
(* then what lwIP keeps, as long as the file is to have it.                *)
Stream ==
  data.pcb /\ "ABORT_DATA" \notin actions /\ direction # "DOWNLOAD" /\ ~operation
    => (staging \o data.rx) \o data.refused = sent

(* The end of an upload is the peer's, and comes after all of it.          *)
SeenEnd ==
  /\ data.pcb /\ data.fin => finished
  /\ uploading /\ eof => finished /\ data.rx = <<>> /\ data.refused = <<>>

GInv ==
  /\ CInv /\ GlueTypeOK /\ Linked /\ Requests
  /\ ControlHeld /\ DataHeld /\ OfferHeld /\ CloseHeld /\ AbortHeld
  /\ Empty(control) /\ Empty(data) /\ Stream /\ SeenEnd

-----------------------------------------------------------------------------
(* Every step of the transport is one call of the core or none; the link   *)
(* that goes down closes the session and drops the core's requests.        *)
Working ==
  \/ \E ok \in BOOLEAN : PassiveResult(ok)
  \/ DataConnected
  \/ \E chunk \in Chunk : UploadFile(chunk)
  \/ \E taken \in BOOLEAN : UploadOperation(taken)
  \/ UploadFails \/ UploadEof
  \/ \E result \in {"WAIT", "ACCEPTED", "ERROR"} : Foreground(result)
  \/ \E n \in 0..Capacity : DownloadEnqueued(n) \/ DownloadAcked(n)
  \/ DataError

(* What a step of the transport may ask of the core.                       *)
LEMMA TcpCalls ==
  ASSUME data \in Channel, [Next]_vars
  PROVE  \/ UNCHANGED core \/ LinkDown \/ Control \/ Working
         \/ \E d \in Deadline : Tick(d)
         \/ DataCloseResult /\ Closable(data) /\ UNCHANGED peer
<1>1. CASE UNCHANGED vars
  BY <1>1 DEF vars
<1>2. CASE CoreKeeps
  BY <1>2 DEF CoreKeeps
<1>3. CASE Callback
  <2>1. CASE AcceptControl
    BY <2>1 DEF AcceptControl, Control
  <2>2. CASE AcceptData
    BY <2>2 DEF AcceptData, Working
  <2>3. CASE SentData
    <3>1. PICK n \in 1..Capacity : DownloadAcked(n)
      BY <2>3 DEF SentData
    <3>2. n \in 0..Capacity
      BY CapacityAssumption
    <3> QED BY <3>1, <3>2 DEF Working
  <2> QED BY <1>2, <1>3, <2>1, <2>2, <2>3
          DEF Callback, Started, ReceiveControl, FinControl, ReceiveData, FinData, Reoffer, Error
<1>4. CASE Turn
  <2>1. CASE Service
    BY <1>2, <2>1 DEF Service, Control, Working
  <2>2. CASE ServiceTick
    BY <1>2, <2>2 DEF ServiceTick
  <2>3. CASE Actions
    BY <2>3 DEF Actions, Control
  <2>4. CASE Open
    BY <2>4 DEF Open, Working
  <2>5. CASE InputControl
    BY <2>5 DEF InputControl, CommandLine, Control
  <2>6. CASE InputControlEnds
    BY <1>2, <2>6 DEF InputControlEnds
  <2>7. CASE WriteControl
    BY <1>2, <2>7 DEF WriteControl, Control
  <2>8. CASE FlushControl
    BY <1>2, <2>8 DEF FlushControl, Control
  <2>9. CASE InputData
    <3>1. ASSUME data.rx # <<>>, UploadFile(Head(data.rx)) PROVE Working
      <4>1. data.rx \in Seq(Chunk)
        BY DEF Channel
      <4>2. Head(data.rx) \in Chunk
        BY <3>1, <4>1
      <4> QED BY <3>1, <4>2 DEF Working
    <3> QED BY <1>2, <2>9, <3>1 DEF InputData, Working
  <2>10. CASE InputFin
    BY <1>2, <2>10 DEF InputFin, Working
  <2>11. CASE ServiceForeground
    BY <1>2, <2>11 DEF ServiceForeground, Working
  <2>12. CASE WriteData
    BY <1>2, <2>12 DEF WriteData, Working
  <2>13. CASE FlushData
    BY <1>2, <2>13 DEF FlushData, Working
  <2> QED BY <1>4, <2>1, <2>2, <2>3, <2>4, <2>5, <2>6, <2>7, <2>8, <2>9, <2>10, <2>11, <2>12, <2>13
          DEF Turn
<1> QED BY <1>1, <1>3, <1>4 DEF Next

(* So every step of the transport is a step of the core, or none, or the   *)
(* link going down.                                                        *)
LEMMA TcpCoreNext == ASSUME data \in Channel, [Next]_vars PROVE [CoreNext]_core \/ LinkDown
BY TcpCalls DEF CoreNext, Data, Working

(* So the core's invariant holds under this transport.                     *)
LEMMA TcpCore == ASSUME CInv, data \in Channel, [Next]_vars PROVE CInv'
<1>1. CASE [CoreNext]_core
  BY <1>1, StepCore
<1>2. CASE LinkDown
  <2>1. Ended(contract) = "free"
    BY ContractEnds
  <2>2. Teardown(contract) /\ LoggedOut /\ actions' = {} /\ refused' = refused
    BY <1>2 DEF LinkDown
  <2> QED BY <2>1, <2>2, TeardownTears, OverStep
<1> QED BY <1>1, <1>2, TcpCoreNext

(* And its deadlines are fresh.                                            *)
LEMMA TcpClocks == ASSUME CInv, data \in Channel, [Next]_vars PROVE [FreshStep]_core
<1>1. CASE [CoreNext]_core
  BY <1>1, StepClocks
<1>2. CASE LinkDown
  BY <1>2, OverClocks, ClocksMean DEF LinkDown, Teardown
<1> QED BY <1>1, <1>2, TcpCoreNext

-----------------------------------------------------------------------------
(* The shapes of a step of the transport                                   *)

(* Types of what a step may leave as it is.                                *)
LEMMA GlueTypes ==
  ASSUME GInv
  PROVE  /\ CInv /\ control \in Channel /\ data \in Channel /\ offer \in BOOLEAN
         /\ sent \in Seq(Chunk) /\ finished \in BOOLEAN
         /\ actions \subseteq Action /\ staging \in Seq(Chunk)
BY DEF GInv, GlueTypeOK, CInv, CoreTypeOK

(* The channels a step may install.                                        *)
LEMMA NoChannelType ==
  /\ NoChannel \in Channel /\ Fresh \in Channel /\ Broken \in Channel
  /\ ~NoChannel.pcb /\ ~NoChannel.failed /\ ~NoChannel.closing /\ Empty(NoChannel)
  /\ Fresh.pcb /\ ~Fresh.fin /\ ~Fresh.closing /\ Empty(Fresh)
  /\ Fresh.rx = <<>> /\ Fresh.refused = <<>>
  /\ ~Broken.pcb /\ Broken.failed /\ ~Broken.closing /\ Empty(Broken)
  /\ NoChannel.rx = <<>> /\ NoChannel.refused = <<>>
  /\ Broken.rx = <<>> /\ Broken.refused = <<>>
<1>1. <<>> \in Seq(Chunk)
  OBVIOUS
<1>2. NoChannel \in Channel
  BY <1>1 DEF NoChannel, Channel
<1>3. /\ NoChannel.pcb = FALSE /\ NoChannel.failed = FALSE /\ NoChannel.closing = FALSE
      /\ NoChannel.fin = FALSE /\ NoChannel.output = FALSE
      /\ NoChannel.rx = <<>> /\ NoChannel.refused = <<>>
  BY DEF NoChannel
<1>4. Fresh \in Channel /\ Broken \in Channel
  BY <1>2 DEF Fresh, Broken, Channel
<1>5. /\ Fresh.pcb = TRUE /\ Fresh.fin = FALSE /\ Fresh.closing = FALSE /\ Fresh.output = FALSE
      /\ Fresh.rx = <<>> /\ Fresh.refused = <<>>
  BY <1>2, <1>3 DEF Fresh, Channel
<1>6. /\ Broken.pcb = FALSE /\ Broken.failed = TRUE /\ Broken.closing = FALSE
      /\ Broken.output = FALSE /\ Broken.rx = <<>> /\ Broken.refused = <<>>
  BY <1>2, <1>3 DEF Broken, Channel
<1> QED BY <1>2, <1>3, <1>4, <1>5, <1>6 DEF Empty

(* The stage after a callback, a stage without and one with a call of      *)
(* actions().                                                              *)
LEMMA BetweenRequests ==
  ASSUME Requests, Between, actions' \subseteq actions, offer' = offer \/ ~offer'
  PROVE  Requests'
BY DEF Requests, Between

(* The requests stay in order when the service goes on to its next part,   *)
(* ...                                                                     *)
LEMMA GoesRequests ==
  ASSUME Requests, NEW from, NEW to, Goes(from, to), from # "actions",
         to \notin {"idle", "control", "open"}, "OPEN_PASSIVE" \in actions' => "OPEN_PASSIVE" \in actions
  PROVE  Requests'
BY DEF Requests, Goes

(* ... and when it calls the core.                                         *)
LEMMA CallsRequests ==
  ASSUME Requests, NEW from, NEW to, Calls(from, to), from # "actions", to # "open",
         "OPEN_PASSIVE" \in actions' => "OPEN_PASSIVE" \in actions \/ to = "control"
  PROVE  Requests'
BY DEF Requests, Calls

(* A channel changes, but not whether there is a connection.               *)
Moves(c, d) ==
  /\ d \in Channel /\ Empty(d) /\ (d.pcb \/ d.failed <=> c.pcb \/ c.failed)
  /\ d.closing => c.closing

(* The transfer is torn down: the connections it had are gone, or are      *)
(* about to be.                                                            *)
TornDown ==
  /\ passive' = FALSE /\ connected' = FALSE /\ eof' = FALSE /\ closing' = FALSE
  /\ direction' = "IDLE" /\ operation' = FALSE
  /\ uploading' = FALSE /\ staging' = <<>>

(* After a teardown the transport holds no more than the requests it still *)
(* has to carry out, whichever of its channels it closes in the same step. *)
LEMMA TornGlue ==
  ASSUME GInv, CInv', TornDown, UNCHANGED peer, Requests',
         "OPEN_PASSIVE" \in actions' => opening',
         "CLOSE_DATA" \notin actions',
         control' \in Channel, Empty(control)', ControlHeld',
         \/ data' = NoChannel
         \/ /\ Moves(data, data') /\ (data'.pcb /\ data'.fin => data.pcb /\ data.fin)
            /\ "ABORT_DATA" \in actions' <=> "ABORT_DATA" \in TeardownActions,
         \/ offer' = FALSE
         \/ offer' = offer /\ ("CLOSE_PASSIVE" \in actions' <=> "CLOSE_PASSIVE" \in TeardownActions)
  PROVE  GInv'
<1>1. GlueTypeOK'
  <2>1. data' \in Channel
    BY NoChannelType DEF Moves
  <2>2. offer' \in BOOLEAN
    BY GlueTypes
  <2> QED BY <2>1, <2>2, GlueTypes DEF GlueTypeOK, peer
<1>2. Linked'
  BY DEF Linked, TornDown
<1>3. DataHeld' /\ CloseHeld'
  <2>1. CASE data' = NoChannel
    BY <2>1, NoChannelType DEF DataHeld, CloseHeld, TornDown
  <2>2. CASE Moves(data, data') /\ ("ABORT_DATA" \in actions' <=> "ABORT_DATA" \in TeardownActions)
    <3>1. "ABORT_DATA" \in actions' <=> \/ "ABORT_DATA" \in actions
                                        \/ connected \/ direction # "IDLE" \/ closing
      BY <2>2 DEF TeardownActions
    <3>2. /\ connected <=> "ABORT_DATA" \notin actions /\ (data.pcb \/ data.failed)
          /\ data.closing => closing \/ "ABORT_DATA" \in actions
      BY DEF GInv, DataHeld, CloseHeld
    <3> QED BY <2>2, <3>1, <3>2 DEF DataHeld, CloseHeld, TornDown, Moves
  <2> QED BY <2>1, <2>2
<1>4. OfferHeld'
  <2>1. CASE offer' = FALSE
    BY <2>1 DEF OfferHeld, TornDown
  <2>2. CASE offer' = offer /\ ("CLOSE_PASSIVE" \in actions' <=> "CLOSE_PASSIVE" \in TeardownActions)
    <3>1. "CLOSE_PASSIVE" \in actions' <=> "CLOSE_PASSIVE" \in actions \/ opening \/ passive
      BY <2>2 DEF TeardownActions
    <3>2. passive /\ ~connected <=> offer /\ "CLOSE_PASSIVE" \notin actions
      BY DEF GInv, OfferHeld
    <3>3. connected => passive
      BY DEF GInv, Linked
    <3> QED BY <2>2, <3>1, <3>2, <3>3 DEF OfferHeld, TornDown
  <2> QED BY <2>1, <2>2
<1>5. AbortHeld'
  BY DEF AbortHeld, TornDown
<1>6. Empty(data)'
  BY NoChannelType DEF Moves
<1>7. Stream'
  BY <1>3, GlueTypes DEF Stream, DataHeld, TornDown
<1>8. SeenEnd'
  <2>1. data'.pcb /\ data'.fin => finished'
    BY NoChannelType DEF GInv, SeenEnd, peer
  <2> QED BY <2>1 DEF SeenEnd, TornDown
<1> QED BY <1>1, <1>2, <1>3, <1>4, <1>5, <1>6, <1>7, <1>8 DEF GInv

(* The transfer goes on.                                                   *)
LEMMA MoveGlue ==
  ASSUME GInv, CInv', UNCHANGED <<session, opening, passive, connected, offer>>,
         actions' \in {actions, actions \cup {"CLOSE_CONTROL"}, actions \cup {"CLOSE_DATA"}},
         closing => closing', "CLOSE_DATA" \in actions' => closing',
         Moves(control, control'), Moves(data, data'),
         sent' \in Seq(Chunk), finished' \in BOOLEAN,
         Requests', Linked', AbortHeld', Stream', SeenEnd'
  PROVE  GInv'
<1>1. /\ "ABORT_DATA" \in actions' <=> "ABORT_DATA" \in actions
      /\ "ABORT_CONTROL" \in actions' <=> "ABORT_CONTROL" \in actions
      /\ "CLOSE_PASSIVE" \in actions' <=> "CLOSE_PASSIVE" \in actions
  OBVIOUS
<1>2. GlueTypeOK'
  BY GlueTypes DEF GlueTypeOK, Moves
<1>3. ControlHeld' /\ DataHeld' /\ OfferHeld' /\ CloseHeld'
  BY <1>1 DEF GInv, ControlHeld, DataHeld, OfferHeld, CloseHeld, Moves
<1>4. Empty(control)' /\ Empty(data)'
  BY DEF Moves
<1> QED BY <1>2, <1>3, <1>4 DEF GInv

(* Steps of the core that the transfer does not notice.                    *)
Keeps ==
  /\ UNCHANGED <<session, opening, passive, connected, eof, closing, direction, operation,
                 uploading, staging, exists, file>>
  /\ actions' \in {actions, actions \cup {"CLOSE_CONTROL"}}

(* No channel changes in what it holds.                                    *)
LEMMA StillMoves == ASSUME GInv PROVE Moves(control, control) /\ Moves(data, data)
BY GlueTypes DEF GInv, Moves

(* A step of the core that the transfer does not notice, while the control *)
(* connection may move and the data connection keeps its bytes.            *)
LEMMA KeepGlue ==
  ASSUME GInv, CInv', Keeps, UNCHANGED <<offer, peer>>, Requests',
         Moves(control, control'), Moves(data, data'),
         data'.pcb => data.pcb, data'.fin => data.fin,
         data'.pcb => (staging \o data'.rx) \o data'.refused = (staging \o data.rx) \o data.refused,
         data.rx = <<>> /\ data.refused = <<>> => data'.rx = <<>> /\ data'.refused = <<>>
  PROVE  GInv'
<1>1. Linked'
  BY DEF GInv, Linked, Keeps
<1>2. AbortHeld'
  BY DEF GInv, AbortHeld, Keeps
<1>3. Stream'
  <2>1. "ABORT_DATA" \in actions' <=> "ABORT_DATA" \in actions
    BY DEF Keeps
  <2>2. UNCHANGED <<staging, direction, operation, sent>>
    BY DEF Keeps, peer
  <2> QED BY <2>1, <2>2 DEF GInv, Stream
<1>4. SeenEnd'
  BY DEF GInv, SeenEnd, Keeps, peer
<1>5. sent' \in Seq(Chunk) /\ finished' \in BOOLEAN
  BY GlueTypes DEF peer
<1>6. "CLOSE_DATA" \in actions' => closing'
  BY DEF GInv, Linked, Keeps
<1> QED BY <1>1, <1>2, <1>3, <1>4, <1>5, <1>6, MoveGlue DEF Keeps

-----------------------------------------------------------------------------
(* Callbacks                                                               *)

(* A step that leaves the core alone leaves its transfer alone.            *)
LEMMA CoreKeepsKeeps == ASSUME CoreKeeps PROVE Keeps
BY DEF CoreKeeps, core, who, transfer, store, Keeps

(* A chain is taken from the front of the next sequence.                   *)
LEMMA ChainLaws ==
  ASSUME NEW a \in Seq(Chunk), NEW b \in Seq(Chunk), NEW c \in Seq(Chunk)
  PROVE  /\ (a \o <<>>) \o b = (a \o b) \o <<>> /\ (a \o <<>>) \o b = a \o b
         /\ (a \o b) \o <<>> = a \o b
         /\ (a \o b) \o c = a \o (b \o c)
         /\ a \o b \in Seq(Chunk)
         /\ b # <<>> => (Append(a, Head(b)) \o Tail(b)) \o c = (a \o b) \o c
<1>1. a \o b \in Seq(Chunk) /\ <<>> \in Seq(Chunk)
  BY ConcatProperties
<1>2. a \o <<>> = a /\ (a \o b) \o <<>> = a \o b
  BY <1>1, ConcatEmptySeq
<1>3. (a \o b) \o c = a \o (b \o c)
  BY ConcatAssociative
<1>4. ASSUME b # <<>> PROVE Append(a, Head(b)) \o Tail(b) = a \o b
  <2>1. Head(b) \in Chunk /\ Tail(b) \in Seq(Chunk) /\ Append(a, Head(b)) \in Seq(Chunk)
    BY <1>4, HeadTailProperties, AppendProperties
  <2>2. Append(a, Head(b)) = a \o <<Head(b)>> /\ <<Head(b)>> \in Seq(Chunk)
    BY <2>1, AppendIsConcat
  <2>3. <<Head(b)>> \o Tail(b) = b
    <3>1. /\ <<Head(b)>> \o Tail(b) \in Seq(Chunk)
          /\ Len(<<Head(b)>> \o Tail(b)) = 1 + Len(Tail(b))
          /\ \A i \in 1..1 + Len(Tail(b)) :
               (<<Head(b)>> \o Tail(b))[i] = IF i <= 1 THEN Head(b) ELSE Tail(b)[i - 1]
      BY <2>1, <2>2
    <3>2. Len(Tail(b)) = Len(b) - 1 /\ Len(b) \in Nat \ {0} /\ Head(b) = b[1]
          /\ \A i \in 1..Len(Tail(b)) : Tail(b)[i] = b[i + 1]
      BY <1>4
    <3>3. \A i \in 1..Len(b) : (<<Head(b)>> \o Tail(b))[i] = b[i]
      BY <3>1, <3>2
    <3> QED BY <3>1, <3>2, <3>3, SeqEqual
  <2>4. (a \o <<Head(b)>>) \o Tail(b) = a \o (<<Head(b)>> \o Tail(b))
    BY <2>1, <2>2, ConcatAssociative
  <2> QED BY <2>2, <2>3, <2>4
<1> QED BY <1>1, <1>2, <1>3, <1>4

(* receive, on a connection: what it holds is longer by the chain.         *)
LEMMA ReceivedFacts ==
  ASSUME NEW c \in Channel, NEW chain \in Seq(Chunk), NEW a \in Seq(Chunk), c.pcb, c.refused = <<>>
  PROVE  /\ Moves(c, Received(c, chain))
         /\ Received(c, chain).pcb = c.pcb /\ Received(c, chain).fin = c.fin
         /\ (a \o Received(c, chain).rx) \o Received(c, chain).refused
              = ((a \o c.rx) \o c.refused) \o chain
<1> DEFINE d == Received(c, chain)
<1>1. /\ d \in Channel /\ d.pcb = c.pcb /\ d.fin = c.fin /\ d.failed = c.failed
      /\ d.closing = c.closing
      /\ \/ c.rx = <<>> /\ d.rx = chain /\ d.refused = <<>>
         \/ d.rx = c.rx /\ d.refused = chain
  BY DEF Received, Channel
<1>2. c.rx \in Seq(Chunk) /\ c.refused \in Seq(Chunk)
  BY DEF Channel
<1> HIDE DEF d
<1>3. Moves(c, d)
  BY <1>1 DEF Moves, Empty
<1>4. (a \o d.rx) \o d.refused = ((a \o c.rx) \o c.refused) \o chain
  <2>1. (a \o c.rx) \o c.refused = a \o c.rx
    BY <1>2, ChainLaws
  <2>2. CASE c.rx = <<>> /\ d.rx = chain /\ d.refused = <<>>
    <3>1. (a \o chain) \o <<>> = a \o chain /\ a \o <<>> = a
      BY ChainLaws, ConcatEmptySeq
    <3> QED BY <2>1, <2>2, <3>1
  <2>3. CASE d.rx = c.rx /\ d.refused = chain
    BY <2>1, <2>3
  <2> QED BY <1>1, <2>2, <2>3
<1> QED BY <1>1, <1>3, <1>4 DEF d

(* The kept chain is offered again, and nothing is lost or doubled.        *)
LEMMA ReofferedFacts ==
  ASSUME NEW c \in Channel, NEW a \in Seq(Chunk), c.rx = <<>>, Empty(c)
  PROVE  /\ Moves(c, Reoffered(c))
         /\ Reoffered(c).pcb = c.pcb /\ Reoffered(c).fin = c.fin
         /\ Reoffered(c).rx = c.refused /\ Reoffered(c).refused = <<>>
         /\ (a \o Reoffered(c).rx) \o Reoffered(c).refused = (a \o c.rx) \o c.refused
<1> DEFINE d == Reoffered(c)
<1>1. /\ d \in Channel /\ d.pcb = c.pcb /\ d.fin = c.fin /\ d.failed = c.failed
      /\ d.closing = c.closing /\ d.output = c.output
      /\ d.rx = c.refused /\ d.refused = <<>>
  BY DEF Reoffered, Received, Channel
<1>2. c.refused \in Seq(Chunk)
  BY DEF Channel
<1> HIDE DEF d
<1>3. Moves(c, d)
  BY <1>1 DEF Moves, Empty
<1>4. (a \o d.rx) \o d.refused = (a \o c.rx) \o c.refused
  BY <1>1, <1>2, ChainLaws
<1> QED BY <1>1, <1>3, <1>4 DEF d

(* The control connection moves between two turns.                         *)
LEMMA ControlCallback ==
  ASSUME GInv, CInv', ReceiveControl \/ FinControl \/ Started
  PROVE  GInv'
<1>1. Between /\ Keeps /\ CoreKeeps /\ UNCHANGED <<data, offer, peer>>
  BY CoreKeepsKeeps DEF ReceiveControl, FinControl, Started
<1>2. Requests'
  BY <1>1, BetweenRequests DEF GInv, CoreKeeps, core
<1>3. Moves(control, control')
  <2>1. Bytes \in Seq(Chunk)
    BY ChainAssumption DEF Bytes
  <2>2. CASE ReceiveControl
    BY <2>1, <2>2, GlueTypes, ReceivedFacts, StillMoves DEF ReceiveControl
  <2>3. CASE FinControl
    BY <2>3, GlueTypes DEF FinControl, Moves, Channel, GInv, Empty
  <2>4. CASE Started
    BY <2>4, StillMoves DEF Started
  <2> QED BY <2>2, <2>3, <2>4
<1> QED BY <1>1, <1>2, <1>3, StillMoves, KeepGlue

(* A chain of the peer is held, or kept by lwIP.                           *)
LEMMA ReceiveDataStep == ASSUME GInv, CInv', ReceiveData PROVE GInv'
<1>1. /\ Between /\ Keeps /\ CoreKeeps /\ UNCHANGED <<control, offer, finished>>
      /\ data.pcb /\ data.refused = <<>> /\ ~finished
  BY CoreKeepsKeeps DEF ReceiveData
<1>2. PICK chain \in Chain : data' = Received(data, chain) /\ sent' = sent \o chain
  BY DEF ReceiveData
<1>3. chain \in Seq(Chunk)
  BY ChainAssumption
<1>4. Requests'
  BY <1>1, BetweenRequests DEF GInv, CoreKeeps, core
<1>5. /\ Moves(data, data') /\ data'.pcb = data.pcb /\ data'.fin = data.fin
      /\ (staging \o data'.rx) \o data'.refused = ((staging \o data.rx) \o data.refused) \o chain
  BY <1>1, <1>2, <1>3, GlueTypes, ReceivedFacts
<1>6. sent' \in Seq(Chunk) /\ finished' \in BOOLEAN
  BY <1>1, <1>2, <1>3, GlueTypes, ConcatProperties
<1>7. Linked' /\ AbortHeld'
  BY <1>1 DEF GInv, Linked, AbortHeld, CoreKeeps, core, transfer, store
<1>8. Stream'
  <2>1. UNCHANGED <<actions, staging, direction, operation>>
    BY <1>1 DEF CoreKeeps, core, transfer, store
  <2> QED BY <1>1, <1>2, <1>5, <2>1 DEF GInv, Stream
<1>9. SeenEnd'
  <2>1. UNCHANGED <<uploading, eof>>
    BY <1>1 DEF CoreKeeps, core, transfer, store
  <2> QED BY <1>1, <1>5, <2>1 DEF GInv, SeenEnd
<1>10. "CLOSE_DATA" \in actions' => closing'
  BY <1>7 DEF Linked
<1> QED BY <1>1, <1>4, <1>5, <1>6, <1>7, <1>8, <1>9, <1>10, StillMoves, MoveGlue DEF Keeps

(* The peer's end follows what it sent.                                    *)
LEMMA FinDataStep == ASSUME GInv, CInv', FinData PROVE GInv'
<1>1. /\ Between /\ Keeps /\ CoreKeeps /\ UNCHANGED <<control, offer, sent>>
      /\ data' = [data EXCEPT !.fin = TRUE] /\ finished' = TRUE
  BY CoreKeepsKeeps DEF FinData
<1>2. Requests'
  BY <1>1, BetweenRequests DEF GInv, CoreKeeps, core
<1>3. data'.rx = data.rx /\ data'.refused = data.refused /\ data'.pcb = data.pcb
  BY <1>1, GlueTypes DEF Channel
<1>4. Moves(data, data')
  BY <1>1, GlueTypes DEF Moves, Channel, GInv, Empty
<1>5. Linked' /\ AbortHeld'
  BY <1>1 DEF GInv, Linked, AbortHeld, CoreKeeps, core, transfer, store
<1>6. Stream'
  <2>1. UNCHANGED <<actions, staging, direction, operation>>
    BY <1>1 DEF CoreKeeps, core, transfer, store
  <2> QED BY <1>1, <1>3, <2>1 DEF GInv, Stream
<1>7. SeenEnd'
  <2>1. UNCHANGED <<uploading, eof>>
    BY <1>1 DEF CoreKeeps, core, transfer, store
  <2> QED BY <1>1, <1>3, <2>1 DEF GInv, SeenEnd
<1>8. sent' \in Seq(Chunk) /\ finished' \in BOOLEAN
  BY <1>1, GlueTypes
<1>9. "CLOSE_DATA" \in actions' => closing'
  BY <1>5 DEF Linked
<1> QED BY <1>1, <1>2, <1>4, <1>5, <1>6, <1>7, <1>8, <1>9, StillMoves, MoveGlue DEF Keeps

(* lwIP offers a kept chain again, or a connection fails.                  *)
LEMMA ReofferStep == ASSUME GInv, CInv', Reoffer PROVE GInv'
<1>1. Between /\ Keeps /\ CoreKeeps /\ UNCHANGED <<offer, peer>>
  BY CoreKeepsKeeps DEF Reoffer
<1>2. Requests'
  BY <1>1, BetweenRequests DEF GInv, CoreKeeps, core
<1>3. CASE data.refused # <<>> /\ data.rx = <<>> /\ data' = Reoffered(data) /\ UNCHANGED control
  BY <1>1, <1>2, <1>3, GlueTypes, ReofferedFacts, StillMoves, KeepGlue DEF GInv
<1>4. CASE control.refused # <<>> /\ control.rx = <<>> /\ UNCHANGED data
           /\ control' = [control EXCEPT !.refused = <<>>]
  <2>1. Moves(control, control')
    BY <1>4, GlueTypes DEF Moves, Channel, GInv, Empty
  <2> QED BY <1>1, <1>2, <1>4, <2>1, StillMoves, KeepGlue
<1>5. CASE control.refused # <<>> /\ control.rx = <<>> /\ UNCHANGED data
           /\ control' = Reoffered(control)
  <2>1. Moves(control, control')
    BY <1>5, GlueTypes, ReofferedFacts DEF GInv
  <2> QED BY <1>1, <1>2, <1>5, <2>1, StillMoves, KeepGlue
<1> QED BY <1>3, <1>4, <1>5 DEF Reoffer

(* lwIP reports an error: the channel's connection is gone already.        *)
LEMMA ErrorStep == ASSUME GInv, CInv', Error PROVE GInv'
<1>1. Between /\ Keeps /\ CoreKeeps /\ UNCHANGED <<offer, peer>>
  BY CoreKeepsKeeps DEF Error
<1>2. Requests'
  BY <1>1, BetweenRequests DEF GInv, CoreKeeps, core
<1>3. CASE control.pcb /\ control' = Broken /\ UNCHANGED data
  <2>1. Moves(control, control')
    BY <1>3, NoChannelType DEF Moves
  <2> QED BY <1>1, <1>2, <1>3, <2>1, StillMoves, KeepGlue
<1>4. CASE data.pcb /\ data' = Broken /\ UNCHANGED control
  <2>1. Moves(data, data') /\ ~data'.pcb /\ data'.rx = <<>> /\ data'.refused = <<>>
    BY <1>4, NoChannelType DEF Moves
  <2>2. data'.fin => data.fin
    BY <1>4 DEF Broken, NoChannel
  <2> QED BY <1>1, <1>2, <1>4, <2>1, <2>2, StillMoves, KeepGlue
<1> QED BY <1>3, <1>4 DEF Error

-----------------------------------------------------------------------------
(* The calls of the core, as the transport sees them                       *)

(* A failure that can be answered ends the transfer and nothing else.      *)
LEMMA FailureTears ==
  ASSUME CInv, Len(StartsCleared) # Slots, NEW stamps, NEW state, Failure(stamps, state)
  PROVE  /\ TornDown /\ opening' = FALSE /\ UNCHANGED <<session, exists, file>>
         /\ actions' = TeardownActions
BY DEF Failure, Reply, Teardown, Idle, Abort, TornDown

(* A failure while anything of a transfer is under way tears it down.      *)
LEMMA UnderWayTears ==
  ASSUME CInv, opening \/ passive \/ direction # "IDLE" \/ closing,
         NEW stamps, NEW state, Failure(stamps, state)
  PROVE  /\ TornDown /\ opening' = FALSE /\ UNCHANGED <<session, exists, file>>
         /\ actions' = TeardownActions
BY UnderWay, FailureTears

(* So does the end of a session.                                           *)
LEMMA TeardownTornDown ==
  ASSUME NEW state, Teardown(state)
  PROVE  TornDown /\ opening' = FALSE /\ UNCHANGED <<exists, file>>
BY DEF Teardown, Idle, Abort, TornDown

(* What a teardown leaves of the requests.                                 *)
LEMMA TeardownRequests ==
  /\ "OPEN_PASSIVE" \notin TeardownActions /\ "CLOSE_DATA" \notin TeardownActions
  /\ "ABORT_CONTROL" \in TeardownActions <=> "ABORT_CONTROL" \in actions
BY DEF TeardownActions

(* The transfer ends and the session goes on.                              *)
LEMMA EndGlue ==
  ASSUME GInv, CInv', TornDown, UNCHANGED <<session, peer, offer>>, Requests',
         actions' = TeardownActions, Moves(control, control'),
         \/ data' = NoChannel
         \/ Moves(data, data') /\ (data'.pcb /\ data'.fin => data.pcb /\ data.fin)
  PROVE  GInv'
<1>1. ControlHeld'
  BY TeardownRequests DEF GInv, ControlHeld, Moves
<1>2. control' \in Channel /\ Empty(control)'
  BY DEF Moves
<1> QED BY <1>1, <1>2, TeardownRequests, TornGlue

(* The link goes down, or a client connects.                               *)
LEMMA LinkDownStep == ASSUME GInv, CInv', LinkDown PROVE GInv'
<1>1. /\ Between /\ TornDown /\ session' = FALSE /\ actions' = {} /\ offer' = FALSE
      /\ control' = NoChannel /\ data' = NoChannel /\ UNCHANGED peer
  BY TeardownTornDown DEF LinkDown, LoggedOut
<1>2. Requests'
  BY <1>1, BetweenRequests DEF GInv
<1>3. ControlHeld'
  BY <1>1, NoChannelType DEF ControlHeld
<1> QED BY <1>1, <1>2, <1>3, NoChannelType, TornGlue

(* A control connection is accepted.                                       *)
LEMMA AcceptControlStep == ASSUME GInv, CInv', AcceptControl PROVE GInv'
<1>1. Between /\ SessionOpen /\ control' = Fresh /\ UNCHANGED <<data, offer, peer>>
  BY DEF AcceptControl
<1>2. Len(replies) # Slots
  <2>1. replies = <<>>
    BY <1>1 DEF SessionOpen, GInv, CInv, Closed
  <2> QED BY <2>1, GlueTypes, CoreTypes
<1>3. /\ session' = TRUE /\ actions = {} /\ actions' = {}
      /\ UNCHANGED <<opening, passive, connected, eof, closing, direction, operation, uploading,
                     staging>>
  BY <1>1, <1>2 DEF SessionOpen, Reply, transfer, store
<1>4. Requests'
  BY <1>1, <1>3, BetweenRequests DEF GInv
<1>5. GlueTypeOK'
  BY <1>1, GlueTypes, NoChannelType DEF GlueTypeOK, peer
<1>6. Linked' /\ AbortHeld'
  BY <1>3 DEF GInv, Linked, AbortHeld
<1>7. ControlHeld' /\ Empty(control)'
  BY <1>1, <1>3, NoChannelType DEF ControlHeld
<1>8. DataHeld' /\ OfferHeld' /\ CloseHeld' /\ Empty(data)'
  BY <1>1, <1>3 DEF GInv, DataHeld, OfferHeld, CloseHeld, Empty
<1>9. Stream'
  BY <1>1, <1>3 DEF GInv, Stream, peer
<1>10. SeenEnd'
  BY <1>1, <1>3 DEF GInv, SeenEnd, peer
<1> QED BY <1>4, <1>5, <1>6, <1>7, <1>8, <1>9, <1>10 DEF GInv

(* A data connection: nothing was sent on it and nothing is staged.        *)
LEMMA AcceptDataStep == ASSUME GInv, CInv', AcceptData PROVE GInv'
<1>1. /\ Between /\ DataConnected /\ data' = Fresh /\ offer' = FALSE
      /\ sent' = <<>> /\ finished' = FALSE /\ UNCHANGED control
  BY DEF AcceptData
<1>2. /\ session /\ passive /\ ~connected /\ connected' = TRUE
      /\ actions' = actions \cup {"CLOSE_PASSIVE"}
      /\ UNCHANGED <<session, opening, passive, eof, closing, direction, operation, uploading, staging>>
  BY <1>1 DEF DataConnected, Connectable, who, store
<1>3. actions \subseteq {"CLOSE_DATA", "CLOSE_PASSIVE"} /\ stage = "idle" /\ back # "open"
  BY <1>1 DEF GInv, Requests, Between
<1>4. Requests'
  BY <1>1, <1>2, <1>3 DEF Requests, Between
<1>5. GlueTypeOK'
  <2>1. finished' \in BOOLEAN /\ offer' \in BOOLEAN
    BY <1>1
  <2>2. sent' \in Seq(Chunk)
    BY <1>1
  <2> QED BY <1>1, <2>1, <2>2, GlueTypes, NoChannelType DEF GlueTypeOK
<1>6. ~eof /\ staging = <<>>
  BY <1>2 DEF GInv, Linked
<1>7. Linked' /\ AbortHeld'
  BY <1>2, <1>6 DEF GInv, Linked, AbortHeld
<1>8. ControlHeld' /\ Empty(control)'
  BY <1>1, <1>2 DEF GInv, ControlHeld, Empty
<1>9. DataHeld' /\ OfferHeld' /\ CloseHeld' /\ Empty(data)'
  BY <1>1, <1>2, <1>3, NoChannelType DEF DataHeld, OfferHeld, CloseHeld
<1>10. Stream'
  <2>1. (<<>> \o <<>>) \o <<>> = <<>>
    OBVIOUS
  <2> QED BY <1>1, <1>2, <1>6, <2>1, NoChannelType DEF Stream
<1>11. SeenEnd'
  BY <1>1, <1>2, <1>6, NoChannelType DEF SeenEnd
<1> QED BY <1>4, <1>5, <1>7, <1>8, <1>9, <1>10, <1>11 DEF GInv

(* A download moves.                                                       *)
LEMMA DownloadGlue ==
  ASSUME GInv, CInv', NEW n, DownloadEnqueued(n) \/ DownloadAcked(n),
         UNCHANGED <<control, offer, peer>>, Requests',
         Moves(data, data'), data'.pcb = data.pcb, data'.fin = data.fin
  PROVE  GInv'
<1>1. /\ direction = "DOWNLOAD"
      /\ UNCHANGED <<session, opening, passive, connected, eof, direction, operation, uploading,
                     staging>>
      /\ \/ closing' = TRUE /\ actions' = actions \cup {"CLOSE_DATA"}
         \/ UNCHANGED <<closing, actions>>
  BY DEF DownloadEnqueued, DownloadAcked, DownloadMoves, Sending, CloseData, who, store
<1>2. Linked' /\ AbortHeld'
  BY <1>1 DEF GInv, Linked, AbortHeld
<1>3. Stream'
  BY <1>1 DEF Stream
<1>4. SeenEnd'
  BY <1>1 DEF GInv, SeenEnd, Linked, peer
<1>5. "CLOSE_DATA" \in actions' => closing'
  BY <1>2 DEF Linked
<1>6. sent' \in Seq(Chunk) /\ finished' \in BOOLEAN
  BY GlueTypes DEF peer
<1> QED BY <1>1, <1>2, <1>3, <1>4, <1>5, <1>6, StillMoves, MoveGlue

(* lwIP acknowledges data.                                                 *)
LEMMA SentDataStep == ASSUME GInv, CInv', SentData PROVE GInv'
<1>1. PICK n \in 1..Capacity : DownloadAcked(n)
  BY DEF SentData
<1>2. actions' \subseteq actions \cup {"CLOSE_DATA"}
  BY <1>1 DEF DownloadAcked, DownloadMoves, CloseData
<1>3. Requests'
  BY <1>2 DEF SentData, Between, GInv, Requests
<1> QED BY <1>1, <1>3, StillMoves, DownloadGlue DEF SentData

(* Every callback keeps the invariant.                                     *)
LEMMA CallbackStep == ASSUME GInv, CInv', Callback PROVE GInv'
BY ControlCallback, LinkDownStep, AcceptControlStep, AcceptDataStep, ReceiveDataStep, FinDataStep,
   ReofferStep, SentDataStep, ErrorStep DEF Callback

-----------------------------------------------------------------------------
(* ftp_tcp_service                                                         *)

(* The session is lost.                                                    *)
LEMMA LoseGlue ==
  ASSUME GInv, CInv', SessionLost, UNCHANGED peer, Requests',
         control' \in {control, NoChannel}, data' \in {data, NoChannel}, offer' \in {offer, FALSE}
  PROVE  GInv'
<1>1. /\ TornDown /\ session' = FALSE
      /\ actions' = (TeardownActions \ {"CLOSE_CONTROL"}) \cup {"ABORT_CONTROL"}
  BY TeardownTornDown DEF SessionLost, Lost, LoggedOut
<1>2. ControlHeld'
  BY <1>1 DEF ControlHeld
<1>3. control' \in Channel /\ Empty(control)'
  BY GlueTypes, NoChannelType DEF GInv
<1>4. /\ "OPEN_PASSIVE" \notin actions' /\ "CLOSE_DATA" \notin actions'
      /\ "ABORT_DATA" \in actions' <=> "ABORT_DATA" \in TeardownActions
      /\ "CLOSE_PASSIVE" \in actions' <=> "CLOSE_PASSIVE" \in TeardownActions
  BY <1>1, TeardownRequests
<1> QED BY <1>1, <1>2, <1>3, <1>4, StillMoves, TornGlue

(* A session that is lost asks for no listener.                            *)
LEMMA LostRequests == ASSUME SessionLost PROVE "OPEN_PASSIVE" \notin actions'
BY TeardownRequests DEF SessionLost, Lost

(* The service begins: a control connection that ended takes the session  *)
(* with it, a failed data connection the transfer.                         *)
LEMMA ServiceStep == ASSUME GInv, CInv', Service PROVE GInv'
<1>1. Goes("idle", "tick") /\ UNCHANGED peer
  BY DEF Service
<1>2. CASE SessionLost /\ control' = NoChannel /\ data' = NoChannel /\ offer' = FALSE
  <2>1. Requests'
    BY <1>1, <1>2, LostRequests, GoesRequests DEF GInv
  <2> QED BY <1>1, <1>2, <2>1, LoseGlue
<1>3. CASE data' = NoChannel /\ DataError /\ UNCHANGED <<control, offer>>
  <2>1. TornDown /\ session' = session /\ actions' = TeardownActions
    BY <1>3, GlueTypes, UnderWayTears DEF DataError
  <2>2. Requests'
    BY <1>1, <2>1, TeardownRequests, GoesRequests DEF GInv
  <2> QED BY <1>1, <1>3, <2>1, <2>2, StillMoves, EndGlue
<1>4. CASE CoreKeeps /\ UNCHANGED <<control, data, offer>>
  <2>1. Requests'
    BY <1>1, <1>4, GoesRequests DEF GInv, CoreKeeps, core
  <2> QED BY <1>1, <1>4, <2>1, CoreKeepsKeeps, StillMoves, KeepGlue
<1> QED BY <1>2, <1>3, <1>4 DEF Service

(* The deadlines are looked at.                                            *)
LEMMA ServiceTickStep == ASSUME GInv, CInv', ServiceTick PROVE GInv'
<1>1. Calls("tick", "control") /\ UNCHANGED <<control, data, offer, peer>>
  BY DEF ServiceTick
<1>2. CASE CoreKeeps
  <2>1. Requests'
    BY <1>1, <1>2, CallsRequests DEF GInv, CoreKeeps, core
  <2> QED BY <1>1, <1>2, <2>1, CoreKeepsKeeps, StillMoves, KeepGlue
<1>3. ASSUME NEW d \in Deadline, Tick(d) PROVE GInv'
  <2>1. CASE SessionLost
    <3>1. Requests'
      BY <1>1, <2>1, LostRequests, CallsRequests DEF GInv
    <3> QED BY <1>1, <2>1, <3>1, LoseGlue
  <2>2. CASE ~SessionLost
    <3>1. /\ d \in {"close", "data_output", "total", "progress", "passive"}
          /\ Runs(d) /\ Failure({}, contract)
      BY <1>3, <2>2 DEF Tick, Deadline
    <3>2. opening \/ passive \/ direction # "IDLE" \/ closing
      BY <3>1 DEF Runs
    <3>3. TornDown /\ session' = session /\ actions' = TeardownActions
      BY <3>1, <3>2, GlueTypes, UnderWayTears
    <3>4. Requests'
      BY <1>1, <3>3, TeardownRequests, CallsRequests DEF GInv
    <3> QED BY <1>1, <3>3, <3>4, StillMoves, EndGlue
  <2> QED BY <2>1, <2>2
<1> QED BY <1>2, <1>3 DEF ServiceTick

(* actions(): the requests are carried out, and the channels are what the  *)
(* core works with.                                                        *)
LEMMA ActionsStep == ASSUME GInv, CInv', Actions PROVE GInv'
<1> DEFINE d == IF "ABORT_DATA" \in actions THEN NoChannel ELSE data
           c == IF "ABORT_CONTROL" \in actions THEN NoChannel ELSE control
<1>1. /\ stage = "actions" /\ actions' = {} /\ offer' = (offer /\ "CLOSE_PASSIVE" \notin actions)
      /\ data' = [d EXCEPT !.closing = @ \/ "CLOSE_DATA" \in actions]
      /\ control' = IF "CLOSE_CONTROL" \in actions
                    THEN [c EXCEPT !.closing = TRUE, !.rx = <<>>] ELSE c
      /\ stage' = IF "OPEN_PASSIVE" \in actions THEN "open" ELSE back
      /\ back' = back /\ UNCHANGED peer
  BY DEF Actions, TakeActions
<1>2. UNCHANGED <<session, opening, passive, connected, eof, closing, direction, operation,
                  uploading, staging>>
  BY DEF Actions, TakeActions, who, transfer, store
<1>3. d \in Channel /\ c \in Channel /\ Empty(d) /\ Empty(c)
  BY GlueTypes, NoChannelType DEF GInv
<1>4. /\ d.pcb \/ d.failed <=> "ABORT_DATA" \notin actions /\ (data.pcb \/ data.failed)
      /\ c.pcb \/ c.failed <=> "ABORT_CONTROL" \notin actions /\ (control.pcb \/ control.failed)
      /\ d.closing => data.closing /\ "ABORT_DATA" \notin actions
      /\ d.pcb => d = data /\ "ABORT_DATA" \notin actions
  BY NoChannelType
<1>5. d.rx \in {<<>>, data.rx} /\ d.refused \in {<<>>, data.refused}
  BY NoChannelType
<1> HIDE DEF c, d
<1>6. /\ data' \in Channel /\ data'.pcb = d.pcb /\ data'.failed = d.failed /\ data'.fin = d.fin
      /\ data'.rx = d.rx /\ data'.refused = d.refused /\ data'.output = d.output
      /\ data'.closing => d.closing \/ "CLOSE_DATA" \in actions
  BY <1>1, <1>3 DEF Channel
<1>7. /\ control' \in Channel /\ control'.pcb = c.pcb /\ control'.failed = c.failed
      /\ control'.rx \in {<<>>, c.rx} /\ control'.refused = c.refused
      /\ control'.output = c.output
  <2>1. <<>> \in Seq(Chunk)
    OBVIOUS
  <2> QED BY <1>1, <1>3, <2>1 DEF Channel
<1>8. GlueTypeOK'
  <2>1. offer' \in BOOLEAN
    BY <1>1, GlueTypes
  <2> QED BY <1>1, <1>6, <1>7, <2>1, GlueTypes DEF GlueTypeOK, peer
<1>9. Linked' /\ AbortHeld'
  BY <1>1, <1>2 DEF GInv, Linked, AbortHeld
<1>10. Requests'
  BY <1>1, <1>2 DEF GInv, Linked, Requests
<1>11. ControlHeld' /\ Empty(control)'
  BY <1>1, <1>2, <1>3, <1>4, <1>7 DEF GInv, ControlHeld, Empty
<1>12. DataHeld' /\ CloseHeld' /\ Empty(data)'
  BY <1>1, <1>2, <1>3, <1>4, <1>6 DEF GInv, DataHeld, CloseHeld, Linked, Empty
<1>13. OfferHeld'
  BY <1>1, <1>2 DEF GInv, OfferHeld
<1>14. Stream'
  BY <1>1, <1>2, <1>4, <1>6 DEF GInv, Stream, peer
<1>15. SeenEnd'
  BY <1>1, <1>2, <1>4, <1>5, <1>6 DEF GInv, SeenEnd, peer
<1> QED BY <1>8, <1>9, <1>10, <1>11, <1>12, <1>13, <1>14, <1>15 DEF GInv

(* The passive listener was opened, or could not be.                       *)
LEMMA OpenStep == ASSUME GInv, CInv', Open PROVE GInv'
<1>1. PICK ok \in BOOLEAN : PassiveResult(ok) /\ offer' = ok
  BY DEF Open
<1>2. /\ stage = "open" /\ stage' = "control" /\ back' = "control" /\ actions = {} /\ opening
      /\ UNCHANGED <<control, data, peer>>
  BY DEF Open, GInv, Requests
<1>3. ~passive /\ direction = "IDLE" /\ ~connected /\ ~closing
  BY <1>2 DEF GInv, Linked, CInv, AtRest
<1>4. CASE ~ok
  <2>1. TornDown /\ session' = session /\ actions' = TeardownActions
    BY <1>1, <1>2, <1>4, GlueTypes, UnderWayTears DEF PassiveResult
  <2>2. actions' \subseteq {"CLOSE_PASSIVE"}
    BY <1>2, <1>3, <2>1 DEF TeardownActions
  <2>3. Requests'
    BY <1>2, <2>2 DEF Requests
  <2>4. ControlHeld'
    BY <1>2, <2>1, TeardownRequests DEF GInv, ControlHeld
  <2>5. control' \in Channel /\ Empty(control)' /\ offer' = FALSE
    BY <1>1, <1>2, <1>4, GlueTypes DEF GInv
  <2> QED BY <1>2, <2>1, <2>3, <2>4, <2>5, TeardownRequests, StillMoves, TornGlue
<1>5. CASE ok
  <2>1. Len(replies) # Slots
    BY <1>2, GlueTypes, UnderWay
  <2>2. /\ opening' = FALSE /\ passive' = TRUE /\ actions' = {}
        /\ UNCHANGED <<session, connected, eof, closing, direction, operation, uploading, staging>>
    BY <1>1, <1>2, <1>5, <2>1 DEF PassiveResult, Reply, who, store
  <2>3. Requests'
    BY <1>2, <2>2 DEF Requests
  <2>4. GlueTypeOK'
    BY <1>1, <1>2, GlueTypes DEF GlueTypeOK, peer
  <2>5. Linked' /\ AbortHeld'
    BY <1>3, <2>2 DEF GInv, Linked, AbortHeld
  <2>6. ControlHeld' /\ DataHeld' /\ CloseHeld'
    BY <1>2, <2>2 DEF GInv, ControlHeld, DataHeld, CloseHeld
  <2>7. OfferHeld'
    BY <1>1, <1>3, <1>5, <2>2 DEF OfferHeld
  <2>8. Empty(control)' /\ Empty(data)'
    BY <1>2 DEF GInv, Empty
  <2>9. Stream'
    BY <1>2, <2>2 DEF GInv, Stream, peer
  <2>10. SeenEnd'
    BY <1>2, <2>2 DEF GInv, SeenEnd, peer
  <2> QED BY <2>3, <2>4, <2>5, <2>6, <2>7, <2>8, <2>9, <2>10 DEF GInv
<1> QED BY <1>4, <1>5

-----------------------------------------------------------------------------
(* The control line                                                        *)

(* The lines and steps the transfer does not notice.                       *)
LEMMA QuietCalls ==
  ASSUME CInv, PartialLine \/ Answer \/ Pass \/ Type \/ ReplyPartly \/ ReplyConsumed
  PROVE  Keeps /\ ("OPEN_PASSIVE" \in actions' => "OPEN_PASSIVE" \in actions)
<1>1. CASE PartialLine
  BY <1>1 DEF PartialLine, Keeps, transfer, store
<1>2. CASE Answer \/ Pass \/ Type
  <2>1. Line
    BY <1>2 DEF Answer, Pass, Type
  <2>2. Len(replies) # Slots
    BY <2>1, LineFacts
  <2> QED BY <1>2, <2>2 DEF Answer, Pass, Type, LineReply, Reply, Keeps, transfer, store
<1>3. CASE ReplyPartly
  BY <1>3 DEF ReplyPartly, Keeps, who, transfer, store
<1>4. CASE ReplyConsumed
  BY <1>4 DEF ReplyConsumed, Keeps, who, store
<1> QED BY <1>1, <1>2, <1>3, <1>4

(* STOR and RETR, on a connection that may already hold bytes.             *)
LEMMA StartGlue ==
  ASSUME GInv, CInv', Ready, NEW way, NEW special \in BOOLEAN, way \in {"UPLOAD", "DOWNLOAD"},
         NEW length, Start(way, special, length),
         stage = "control", Requests', Moves(control, control'), UNCHANGED <<data, offer, peer>>
  PROVE  GInv'
<1>1. Line /\ direction = "IDLE" /\ ~opening /\ Len(replies) # Slots
  BY GlueTypes, LineFacts DEF Ready
<1>2. ~operation /\ ~eof /\ ~uploading /\ staging = <<>>
  BY <1>1 DEF GInv, Linked, CInv, AtRest
<1>3. /\ direction' = way /\ operation' = special
      /\ UNCHANGED <<session, opening, passive, connected, eof, closing, actions>>
  BY <1>1 DEF Start, LineReply, Reply
<1>4. staging' = <<>>
  BY <1>1, <1>2 DEF Start, LineReply, Reply
<1>5. uploading' <=> way = "UPLOAD" /\ ~special
  BY <1>1, <1>2 DEF Start, LineReply, Reply
<1>6. Linked'
  BY <1>1, <1>2, <1>3, <1>4, <1>5 DEF GInv, Linked
<1>7. AbortHeld'
  BY <1>3 DEF GInv, Requests, AbortHeld
<1>8. Stream'
  BY <1>1, <1>2, <1>3, <1>4 DEF GInv, Stream, peer
<1>9. SeenEnd'
  BY <1>2, <1>3 DEF GInv, SeenEnd, peer
<1>10. "CLOSE_DATA" \in actions' => closing'
  BY <1>6 DEF Linked
<1>11. sent' \in Seq(Chunk) /\ finished' \in BOOLEAN
  BY GlueTypes DEF peer
<1> QED BY <1>3, <1>6, <1>7, <1>8, <1>9, <1>10, <1>11, StillMoves, MoveGlue

(* Bytes of the control connection are given to the core.                  *)
LEMMA InputControlStep == ASSUME GInv, CInv', InputControl PROVE GInv'
<1>1. /\ Calls("control", "control") /\ stage = "control" /\ control.pcb
      /\ control' \in {control, [control EXCEPT !.rx = <<>>]}
      /\ UNCHANGED <<data, offer, peer>>
  BY DEF InputControl, Calls, Reading
<1>2. Requests'
  BY <1>1, CallsRequests DEF GInv
<1>3. Moves(control, control')
  <2>1. <<>> \in Seq(Chunk)
    OBVIOUS
  <2> QED BY <1>1, <2>1, GlueTypes DEF Moves, Channel, Empty
<1>4. CASE PartialLine \/ Answer \/ Pass \/ Type
  BY <1>1, <1>2, <1>3, <1>4, GlueTypes, QuietCalls, StillMoves, KeepGlue
<1>5. CASE Quit \/ Abor \/ User
  <2>1. Line
    BY <1>5 DEF Quit, Abor, User
  <2>2. Len(StartsCleared) # Slots
    BY <2>1, GlueTypes, LineFacts
  <2>3. Teardown(contract) /\ session' = session /\ actions' = TeardownActions
    BY <1>5, <2>2 DEF Quit, Abor, User, LineReply, Reply
  <2> QED BY <1>1, <1>2, <1>3, <2>3, TeardownTornDown, StillMoves, EndGlue
<1>6. CASE Passive
  <2>1. /\ TornDown /\ opening' = TRUE /\ session' = session
        /\ actions' = TeardownActions \cup {"OPEN_PASSIVE"}
    BY <1>6 DEF Passive, Abort, TornDown
  <2>2. ControlHeld'
    BY <1>3, <2>1, TeardownRequests DEF GInv, ControlHeld, Moves
  <2>3. /\ "CLOSE_DATA" \notin actions'
        /\ "ABORT_DATA" \in actions' <=> "ABORT_DATA" \in TeardownActions
        /\ "CLOSE_PASSIVE" \in actions' <=> "CLOSE_PASSIVE" \in TeardownActions
    BY <2>1, TeardownRequests
  <2>4. control' \in Channel /\ Empty(control)'
    BY <1>3 DEF Moves
  <2> QED BY <1>1, <1>2, <2>1, <2>2, <2>3, <2>4, StillMoves, TornGlue
<1>7. ASSUME Ready, Failure({"control_time"}, contract) PROVE GInv'
  <2>1. passive
    BY <1>7 DEF Ready
  <2>2. TornDown /\ session' = session /\ actions' = TeardownActions
    BY <1>7, <2>1, GlueTypes, UnderWayTears
  <2> QED BY <1>1, <1>2, <1>3, <2>2, StillMoves, EndGlue
<1>8. ASSUME Ready, NEW way \in {"UPLOAD", "DOWNLOAD"}, NEW special \in BOOLEAN, NEW length,
             Start(way, special, length)
      PROVE  GInv'
  BY <1>1, <1>2, <1>3, <1>8, StartGlue
<1>9. CASE Stor
  BY <1>7, <1>8, <1>9 DEF Stor
<1>10. CASE Retr
  BY <1>8, <1>10 DEF Retr
<1>11. CASE Special
  BY <1>7, <1>8, <1>11 DEF Special
<1> QED BY <1>4, <1>5, <1>6, <1>9, <1>10, <1>11 DEF InputControl, CommandLine

(* The control connection ends.                                            *)
LEMMA InputControlEndsStep == ASSUME GInv, CInv', InputControlEnds PROVE GInv'
<1>1. Goes("control", "write_control") /\ Keeps /\ CoreKeeps /\ UNCHANGED <<data, offer, peer>>
  BY CoreKeepsKeeps DEF InputControlEnds
<1>2. Requests'
  BY <1>1, GoesRequests DEF GInv, CoreKeeps, core
<1>3. Moves(control, control')
  <2>1. <<>> \in Seq(Chunk)
    OBVIOUS
  <2>2. control' = control \/ (control.pcb /\ control' = [control EXCEPT !.rx = <<>>, !.refused = <<>>])
    BY DEF InputControlEnds
  <2> QED BY <2>1, <2>2, GlueTypes, StillMoves DEF Moves, Channel, Empty
<1> QED BY <1>1, <1>2, <1>3, StillMoves, KeepGlue

(* Replies are written to the control connection.                          *)
LEMMA WriteControlStep == ASSUME GInv, CInv', WriteControl PROVE GInv'
<1>1. /\ UNCHANGED <<data, offer, peer>>
      /\ Calls("write_control", "flush_control") \/ Goes("write_control", "flush_control")
      /\ CoreKeeps \/ ReplyPartly \/ ReplyConsumed
      /\ control' = control \/ (control.pcb /\ control' = [control EXCEPT !.output = TRUE])
  BY DEF WriteControl, Usable
<1>2. Keeps /\ ("OPEN_PASSIVE" \in actions' => "OPEN_PASSIVE" \in actions)
  BY <1>1, GlueTypes, QuietCalls, CoreKeepsKeeps DEF CoreKeeps, core
<1>3. Requests'
  BY <1>1, <1>2, CallsRequests, GoesRequests DEF GInv
<1>4. Moves(control, control')
  BY <1>1, GlueTypes, StillMoves DEF Moves, Channel, Empty
<1> QED BY <1>1, <1>2, <1>3, <1>4, StillMoves, KeepGlue

(* flush_close on a connection: flushed, failed, or as it was.             *)
LEMMA FlushMoves ==
  ASSUME NEW c \in Channel, Empty(c), NEW d,
         \/ d = c \/ d = Flushed(c)
         \/ c.pcb /\ d = [Flushed(c) EXCEPT !.failed = TRUE]
  PROVE  /\ Moves(c, d) /\ d.pcb = c.pcb /\ d.fin = c.fin /\ d.rx = c.rx /\ d.refused = c.refused
BY DEF Flushed, Moves, Channel, Empty

(* What was written is sent, and a closing control connection closed.      *)
LEMMA FlushControlStep == ASSUME GInv, CInv', FlushControl PROVE GInv'
<1>1. Goes("flush_control", "data") /\ UNCHANGED <<data, offer, peer>>
  BY DEF FlushControl
<1>2. CASE /\ CoreKeeps
           /\ \/ control' = control \/ control' = Flushed(control)
              \/ control.pcb /\ control' = [Flushed(control) EXCEPT !.failed = TRUE]
  <2>1. Moves(control, control')
    BY <1>2, GlueTypes, FlushMoves DEF GInv
  <2>2. Requests'
    BY <1>1, <1>2, GoesRequests DEF GInv, CoreKeeps, core
  <2> QED BY <1>1, <1>2, <2>1, <2>2, CoreKeepsKeeps, StillMoves, KeepGlue
<1>3. CASE ControlClosed /\ control' = NoChannel
  <2>1. /\ TornDown /\ session' = FALSE
        /\ actions' = TeardownActions \ {"CLOSE_CONTROL", "ABORT_CONTROL"}
    BY <1>3, TeardownTornDown DEF ControlClosed, LoggedOut
  <2>2. /\ "OPEN_PASSIVE" \notin actions' /\ "CLOSE_DATA" \notin actions'
        /\ "ABORT_DATA" \in actions' <=> "ABORT_DATA" \in TeardownActions
        /\ "CLOSE_PASSIVE" \in actions' <=> "CLOSE_PASSIVE" \in TeardownActions
    BY <2>1, TeardownRequests
  <2>3. Requests'
    BY <1>1, <2>2, GoesRequests DEF GInv
  <2>4. ControlHeld' /\ control' \in Channel /\ Empty(control)'
    BY <1>3, <2>1, NoChannelType DEF ControlHeld
  <2> QED BY <1>1, <2>1, <2>2, <2>3, <2>4, StillMoves, TornGlue
<1> QED BY <1>2, <1>3 DEF FlushControl, Closable, Usable

-----------------------------------------------------------------------------
(* The data connection                                                     *)

(* A data step of the core that fails, while the channel keeps its place.  *)
LEMMA FailGlue ==
  ASSUME GInv, CInv', direction # "IDLE", NEW state, Failure({}, state),
         UNCHANGED <<control, offer, peer>>, NEW from, NEW to, Calls(from, to),
         from # "actions", to # "open", Moves(data, data'), data'.pcb = data.pcb, data'.fin = data.fin
  PROVE  GInv'
<1>1. TornDown /\ session' = session /\ actions' = TeardownActions
  BY GlueTypes, UnderWayTears
<1>2. Requests'
  BY <1>1, TeardownRequests, CallsRequests DEF GInv
<1> QED BY <1>1, <1>2, StillMoves, EndGlue

(* One chunk leaves the held chain.                                        *)
LEMMA TailMoves ==
  ASSUME NEW c \in Channel, c.pcb, c.rx # <<>>, NEW d, d = [c EXCEPT !.rx = Tail(@)]
  PROVE  /\ Moves(c, d) /\ d.pcb = c.pcb /\ d.fin = c.fin /\ d.refused = c.refused
         /\ d.rx = Tail(c.rx)
<1>1. Tail(c.rx) \in Seq(Chunk)
  BY HeadTailProperties DEF Channel
<1> QED BY <1>1 DEF Moves, Channel, Empty

(* A received chunk is given to the core, and leaves the transport when    *)
(* the core took it.                                                       *)
LEMMA InputDataStep == ASSUME GInv, CInv', InputData PROVE GInv'
<1>1. UNCHANGED <<control, offer, peer>>
  BY DEF InputData
<1>2. sent' \in Seq(Chunk) /\ finished' \in BOOLEAN
  BY <1>1, GlueTypes DEF peer
<1>3. CASE /\ Calls("data", "fin") /\ DataWork /\ data.rx # <<>> /\ direction = "UPLOAD"
           /\ UploadFile(Head(data.rx)) \/ UploadOperation(TRUE)
           /\ data' = [data EXCEPT !.rx = Tail(@)]
  <2>1. /\ Moves(data, data') /\ data'.pcb = data.pcb /\ data'.fin = data.fin
        /\ data'.refused = data.refused /\ data'.rx = Tail(data.rx)
    BY <1>3, GlueTypes, TailMoves DEF DataWork
  <2>2. CASE UploadOperation(TRUE)
    <3>1. /\ operation /\ ~eof /\ actions' = actions
          /\ UNCHANGED <<session, opening, passive, connected, eof, closing, direction, operation,
                         uploading, staging>>
      BY <2>2 DEF UploadOperation, Receiving, who, transfer, store
    <3>2. Requests'
      BY <1>3, <3>1, CallsRequests DEF GInv
    <3>3. Linked' /\ AbortHeld'
      BY <3>1 DEF GInv, Linked, AbortHeld
    <3>4. Stream'
      BY <3>1 DEF Stream
    <3>5. SeenEnd'
      BY <1>1, <2>1, <3>1 DEF GInv, SeenEnd, peer
    <3>6. "CLOSE_DATA" \in actions' => closing'
      BY <3>3 DEF Linked
    <3> QED BY <1>1, <1>2, <2>1, <3>1, <3>2, <3>3, <3>4, <3>5, <3>6, StillMoves, MoveGlue
  <2>3. CASE UploadFile(Head(data.rx)) /\ Failure({}, contract)
    BY <1>1, <1>3, <2>1, <2>3, FailGlue
  <2>4. CASE UploadFile(Head(data.rx)) /\ ~Failure({}, contract)
    <3>1. /\ ~operation /\ ~eof /\ uploading /\ connected /\ actions' = actions
          /\ staging' = Append(staging, Head(data.rx))
          /\ UNCHANGED <<session, opening, passive, connected, eof, closing, direction, operation,
                         uploading>>
      BY <2>4 DEF UploadFile, Receiving, TransferReady, who, transfer
    <3>2. Requests'
      BY <1>3, <3>1, CallsRequests DEF GInv
    <3>3. Linked' /\ AbortHeld'
      BY <3>1 DEF GInv, Linked, AbortHeld
    <3>4. Stream'
      <4>1. data.rx \in Seq(Chunk) /\ data.refused \in Seq(Chunk) /\ staging \in Seq(Chunk)
        BY GlueTypes DEF Channel
      <4>2. (Append(staging, Head(data.rx)) \o Tail(data.rx)) \o data.refused
              = (staging \o data.rx) \o data.refused
        BY <1>3, <4>1, ChainLaws
      <4>3. sent' = sent
        BY <1>1 DEF peer
      <4> QED BY <2>1, <3>1, <4>2, <4>3 DEF GInv, Stream
    <3>5. SeenEnd'
      BY <1>1, <2>1, <3>1 DEF GInv, SeenEnd, peer
    <3>6. "CLOSE_DATA" \in actions' => closing'
      BY <3>3 DEF Linked
    <3> QED BY <1>1, <1>2, <2>1, <3>1, <3>2, <3>3, <3>4, <3>5, <3>6, StillMoves, MoveGlue
  <2> QED BY <1>3, <2>2, <2>3, <2>4
<1>4. CASE Calls("data", "fin") /\ direction = "UPLOAD" /\ UploadFails /\ UNCHANGED data
  <2>1. Failure({}, After(contract, "feed"))
    BY <1>4 DEF UploadFails
  <2> QED BY <1>1, <1>4, <2>1, StillMoves, FailGlue
<1>5. CASE Calls("data", "fin") /\ (UploadOperation(FALSE) \/ CoreKeeps) /\ UNCHANGED data
  <2>1. Keeps /\ actions' = actions
    BY <1>5, CoreKeepsKeeps DEF UploadOperation, Keeps, who, transfer, store, CoreKeeps, core
  <2>2. Requests'
    BY <1>5, <2>1, CallsRequests DEF GInv
  <2> QED BY <1>1, <1>5, <2>1, <2>2, StillMoves, KeepGlue
<1>6. CASE Goes("data", "foreground") /\ DataWork /\ data' = [data EXCEPT !.failed = TRUE] /\ CoreKeeps
  <2>1. /\ Moves(data, data') /\ data'.pcb = data.pcb /\ data'.fin = data.fin
        /\ data'.rx = data.rx /\ data'.refused = data.refused
    BY <1>6, GlueTypes DEF DataWork, Moves, Channel, Empty
  <2>2. Requests'
    BY <1>6, GoesRequests DEF GInv, CoreKeeps, core
  <2> QED BY <1>1, <1>6, <2>1, <2>2, CoreKeepsKeeps, StillMoves, KeepGlue
<1>7. CASE /\ Goes("data", IF DataWork THEN "fin" ELSE "foreground")
           /\ CoreKeeps /\ UNCHANGED data
  <2>1. Requests'
    BY <1>7, GoesRequests DEF GInv, CoreKeeps, core
  <2> QED BY <1>1, <1>7, <2>1, CoreKeepsKeeps, StillMoves, KeepGlue
<1> QED BY <1>3, <1>4, <1>5, <1>6, <1>7 DEF InputData

(* The end of an upload reaches the core only behind its last byte.        *)
LEMMA InputFinStep == ASSUME GInv, CInv', InputFin PROVE GInv'
<1> DEFINE d == IF data.pcb /\ data.rx = <<>> THEN Reoffered(data) ELSE data
<1>1. UNCHANGED <<control, offer, peer>>
  BY DEF InputFin
<1>2. sent' \in Seq(Chunk) /\ finished' \in BOOLEAN
  BY <1>1, GlueTypes DEF peer
<1>3. /\ Moves(data, d) /\ d.pcb = data.pcb /\ d.fin = data.fin
      /\ (staging \o d.rx) \o d.refused = (staging \o data.rx) \o data.refused
      /\ data.rx = <<>> /\ data.refused = <<>> => d.rx = <<>> /\ d.refused = <<>>
  <2>1. CASE data.pcb /\ data.rx = <<>>
    BY <2>1, GlueTypes, ReofferedFacts DEF GInv
  <2>2. CASE ~(data.pcb /\ data.rx = <<>>)
    BY <2>2, StillMoves
  <2> QED BY <2>1, <2>2
<1>4. \/ FinSeen(d) /\ direction = "UPLOAD" /\ Calls("fin", "foreground") /\ UploadEof /\ data' = d
      \/ /\ Goes("fin", "foreground") /\ CoreKeeps
         /\ data' = IF FinSeen(d) THEN [d EXCEPT !.fin = FALSE] ELSE d
  BY DEF InputFin
<1> HIDE DEF d
<1>5. CASE FinSeen(d) /\ direction = "UPLOAD" /\ Calls("fin", "foreground") /\ UploadEof /\ data' = d
  <2>1. CASE \E state : Failure({}, state)
    BY <1>1, <1>3, <1>5, <2>1, FailGlue
  <2>2. CASE ~\E state : Failure({}, state)
    <3>1. /\ eof' = TRUE /\ connected
          /\ UNCHANGED <<session, opening, passive, connected, direction, operation, uploading,
                         staging>>
          /\ \/ closing' = TRUE /\ actions' = actions \cup {"CLOSE_DATA"}
             \/ UNCHANGED <<closing, actions>>
      BY <1>5, <2>2 DEF UploadEof, Receiving, TransferReady, CloseData, who, store
    <3>2. Requests'
      BY <1>5, <3>1, CallsRequests DEF GInv
    <3>3. Linked' /\ AbortHeld'
      BY <3>1 DEF GInv, Linked, AbortHeld
    <3>4. Stream'
      <4>1. sent' = sent
        BY <1>1 DEF peer
      <4>2. "ABORT_DATA" \in actions' <=> "ABORT_DATA" \in actions
        BY <3>1
      <4> QED BY <1>3, <1>5, <3>1, <4>1, <4>2 DEF GInv, Stream
    <3>5. SeenEnd'
      <4>1. d.pcb /\ d.fin /\ d.rx = <<>> /\ d.refused = <<>>
        BY <1>5 DEF FinSeen
      <4>2. finished /\ finished' = finished
        BY <1>1, <1>3, <4>1 DEF GInv, SeenEnd, peer
      <4> QED BY <1>5, <4>1, <4>2 DEF SeenEnd
    <3>6. "CLOSE_DATA" \in actions' => closing'
      BY <3>3 DEF Linked
    <3> QED BY <1>1, <1>2, <1>3, <1>5, <3>1, <3>2, <3>3, <3>4, <3>5, <3>6, StillMoves, MoveGlue
  <2> QED BY <2>1, <2>2
<1>6. CASE /\ Goes("fin", "foreground") /\ CoreKeeps
           /\ data' = IF FinSeen(d) THEN [d EXCEPT !.fin = FALSE] ELSE d
  <2>1. Requests'
    BY <1>6, GoesRequests DEF GInv, CoreKeeps, core
  <2>2. /\ Moves(data, data') /\ data'.pcb = data.pcb /\ (data'.fin => data.fin)
        /\ data'.rx = d.rx /\ data'.refused = d.refused
    BY <1>3, <1>6 DEF Moves, Channel, Empty
  <2> QED BY <1>1, <1>3, <1>6, <2>1, <2>2, CoreKeepsKeeps, StillMoves, KeepGlue
<1> QED BY <1>4, <1>5, <1>6

(* The foreground takes what the core staged.                              *)
LEMMA ServiceForegroundStep == ASSUME GInv, CInv', ServiceForeground PROVE GInv'
<1>1. Calls("foreground", "write_data") /\ UNCHANGED <<control, data, offer, peer>>
  BY DEF ServiceForeground
<1>2. sent' \in Seq(Chunk) /\ finished' \in BOOLEAN
  BY <1>1, GlueTypes DEF peer
<1>3. CASE CoreKeeps
  <2>1. Requests'
    BY <1>1, <1>3, CallsRequests DEF GInv, CoreKeeps, core
  <2> QED BY <1>1, <1>3, <2>1, CoreKeepsKeeps, StillMoves, KeepGlue
<1>4. ASSUME NEW result, Foreground(result) PROVE GInv'
  <2>1. operation /\ direction = "UPLOAD"
    BY <1>4 DEF Foreground, Stepping
  <2>2. CASE \E state : Failure({}, state)
    BY <1>1, <2>1, <2>2, StillMoves, FailGlue
  <2>3. CASE ~\E state : Failure({}, state)
    <3>1. /\ UNCHANGED <<session, opening, passive, connected, eof, direction, operation, uploading,
                         staging>>
          /\ \/ closing' = TRUE /\ actions' = actions \cup {"CLOSE_DATA"}
             \/ UNCHANGED <<closing, actions>>
      BY <1>4, <2>3 DEF Foreground, CloseData, who, transfer, store
    <3>2. Requests'
      BY <1>1, <3>1, CallsRequests DEF GInv
    <3>3. Linked' /\ AbortHeld'
      BY <3>1 DEF GInv, Linked, AbortHeld
    <3>4. Stream'
      BY <2>1, <3>1 DEF Stream
    <3>5. SeenEnd'
      BY <1>1, <3>1 DEF GInv, SeenEnd, peer
    <3>6. "CLOSE_DATA" \in actions' => closing'
      BY <3>3 DEF Linked
    <3> QED BY <1>1, <1>2, <3>1, <3>2, <3>3, <3>4, <3>5, <3>6, StillMoves, MoveGlue
  <2> QED BY <2>2, <2>3
<1> QED BY <1>3, <1>4 DEF ServiceForeground

(* Data of a download is written.                                          *)
LEMMA WriteDataStep == ASSUME GInv, CInv', WriteData PROVE GInv'
<1>1. UNCHANGED <<control, offer, peer>>
  BY DEF WriteData
<1>2. ASSUME NEW n, DownloadEnqueued(n), Calls("write_data", "flush_data"), Writing,
             data' = [data EXCEPT !.output = @ \/ n > 0]
      PROVE  GInv'
  <2>1. Moves(data, data') /\ data'.pcb = data.pcb /\ data'.fin = data.fin
    <3>1. (data.output \/ n > 0) \in BOOLEAN
      OBVIOUS
    <3> QED BY <1>2, <3>1, GlueTypes DEF Writing, DataWork, Moves, Channel, Empty
  <2>2. "OPEN_PASSIVE" \in actions' => "OPEN_PASSIVE" \in actions
    BY <1>2 DEF DownloadEnqueued, DownloadMoves, CloseData
  <2>3. Requests'
    BY <1>2, <2>2, CallsRequests DEF GInv
  <2> QED BY <1>1, <1>2, <2>1, <2>3, DownloadGlue
<1>3. CASE /\ Calls("write_data", "flush_data") \/ Goes("write_data", "flush_data")
           /\ CoreKeeps /\ UNCHANGED data
  <2>1. Requests'
    BY <1>3, CallsRequests, GoesRequests DEF GInv, CoreKeeps, core
  <2> QED BY <1>1, <1>3, <2>1, CoreKeepsKeeps, StillMoves, KeepGlue
<1> QED BY <1>2, <1>3 DEF WriteData

(* The transport has closed the connection: the transfer is answered.      *)
LEMMA CloseResultTears ==
  ASSUME CInv, DataCloseResult
  PROVE  /\ TornDown /\ opening' = FALSE /\ session' = session
         /\ IF Commits THEN file' = staging /\ exists' = TRUE ELSE UNCHANGED <<file, exists>>
         /\ actions' = (actions \cup (IF opening \/ passive THEN {"CLOSE_PASSIVE"} ELSE {}))
                         \ {"OPEN_PASSIVE", "ABORT_DATA", "CLOSE_DATA"}
<1>1. Len(StartsCleared) # Slots
  BY UnderWay DEF DataCloseResult
<1> QED BY <1>1 DEF DataCloseResult, Reply, Idle, Abort, TornDown, who

(* What was written is sent, and a data connection at its end closed.      *)
LEMMA FlushDataStep == ASSUME GInv, CInv', FlushData PROVE GInv'
<1>1. Calls("flush_data", "idle") /\ UNCHANGED <<control, offer, peer>>
  BY DEF FlushData
<1>2. CASE /\ CoreKeeps
           /\ \/ data' = data \/ data' = Flushed(data)
              \/ data.pcb /\ data' = [Flushed(data) EXCEPT !.failed = TRUE]
  <2>1. /\ Moves(data, data') /\ data'.pcb = data.pcb /\ data'.fin = data.fin
        /\ data'.rx = data.rx /\ data'.refused = data.refused
    BY <1>2, GlueTypes, FlushMoves DEF GInv
  <2>2. Requests'
    BY <1>1, <1>2, CallsRequests DEF GInv, CoreKeeps, core
  <2> QED BY <1>1, <1>2, <2>1, <2>2, CoreKeepsKeeps, StillMoves, KeepGlue
<1>3. CASE DataCloseResult /\ data' = NoChannel
  <2>1. /\ TornDown /\ session' = session
        /\ "OPEN_PASSIVE" \notin actions' /\ "CLOSE_DATA" \notin actions'
        /\ "ABORT_CONTROL" \in actions' <=> "ABORT_CONTROL" \in actions
        /\ "CLOSE_PASSIVE" \in actions' <=> "CLOSE_PASSIVE" \in TeardownActions
    BY <1>3, GlueTypes, CloseResultTears DEF TeardownActions
  <2>2. Requests'
    BY <1>1, <2>1, CallsRequests DEF GInv
  <2>3. ControlHeld' /\ control' \in Channel /\ Empty(control)'
    BY <1>1, <2>1, GlueTypes DEF GInv, ControlHeld
  <2> QED BY <1>1, <1>3, <2>1, <2>2, <2>3, TornGlue
<1> QED BY <1>2, <1>3 DEF FlushData, Closable, Usable

-----------------------------------------------------------------------------
(* The invariant of the transport                                          *)

(* The transport begins without a connection.                              *)
LEMMA InitGlue == Init => GInv
<1> SUFFICES ASSUME Init PROVE GInv OBVIOUS
<1>1. CInv
  BY InitCore DEF Init
<1>2. /\ stage = "idle" /\ back = "idle" /\ control = NoChannel /\ data = NoChannel
      /\ offer = FALSE /\ finished = FALSE
  BY DEF Init
<1>3. /\ session = FALSE /\ actions = {} /\ opening = FALSE /\ passive = FALSE
      /\ connected = FALSE /\ eof = FALSE /\ direction = "IDLE" /\ uploading = FALSE
      /\ staging = <<>>
  BY DEF Init, CoreInit
<1>4. GlueTypeOK
  <2>1. sent \in Seq(Chunk)
    BY DEF Init
  <2>2. offer \in BOOLEAN /\ finished \in BOOLEAN
    BY <1>2
  <2> QED BY <1>2, <2>1, <2>2, NoChannelType DEF GlueTypeOK
<1>5. Linked /\ Requests
  BY <1>2, <1>3 DEF Linked, Requests
<1>6. /\ ControlHeld /\ DataHeld /\ OfferHeld /\ CloseHeld /\ AbortHeld
      /\ Empty(control) /\ Empty(data) /\ Stream /\ SeenEnd
  BY <1>2, <1>3, NoChannelType
     DEF ControlHeld, DataHeld, OfferHeld, CloseHeld, AbortHeld, Stream, SeenEnd
<1> QED BY <1>1, <1>4, <1>5, <1>6 DEF GInv

(* Every part of the service keeps the invariant.                          *)
LEMMA TurnStep == ASSUME GInv, CInv', Turn PROVE GInv'
BY ServiceStep, ServiceTickStep, ActionsStep, OpenStep, InputControlStep, InputControlEndsStep,
   WriteControlStep, FlushControlStep, InputDataStep, InputFinStep, ServiceForegroundStep,
   WriteDataStep, FlushDataStep DEF Turn

(* The invariant is inductive.                                             *)
LEMMA StepGlue == GInv /\ [Next]_vars => GInv'
<1> SUFFICES ASSUME GInv, [Next]_vars PROVE GInv' OBVIOUS
<1>1. CInv'
  BY GlueTypes, TcpCore
<1>2. CASE Next
  BY <1>1, <1>2, CallbackStep, TurnStep DEF Next
<1>3. CASE UNCHANGED vars
  <2>1. CoreKeeps /\ UNCHANGED <<stage, back, control, data, offer, peer>>
    BY <1>3 DEF vars, glue, CoreKeeps
  <2>2. Requests'
    BY <2>1 DEF GInv, Requests, CoreKeeps, core, transfer
  <2> QED BY <1>1, <2>1, <2>2, CoreKeepsKeeps, StillMoves, KeepGlue
<1> QED BY <1>2, <1>3

(* The committed file is touched by the end of a transfer alone.           *)
LEMMA FileKept ==
  ASSUME Control \/ Working \/ (\E d \in Deadline : Tick(d)) \/ LinkDown \/ UNCHANGED core
  PROVE  UNCHANGED <<exists, file>>
<1>1. ASSUME NEW state, Lost(state) PROVE UNCHANGED <<exists, file>>
  BY <1>1 DEF Lost, Teardown
<1>2. ASSUME NEW stamps, NEW state, Failure(stamps, state) PROVE UNCHANGED <<exists, file>>
  BY <1>1, <1>2 DEF Failure, Reply, Teardown
<1>3. ASSUME NEW way, NEW special, NEW length, Start(way, special, length)
      PROVE  UNCHANGED <<exists, file>>
  BY <1>1, <1>3 DEF Start, LineReply, Reply
<1>4. CASE Control
  <2>1. CASE SessionOpen
    BY <1>1, <2>1 DEF SessionOpen, Reply, store
  <2>2. CASE SessionLost \/ ControlClosed
    BY <1>1, <2>2 DEF SessionLost, ControlClosed, Teardown
  <2>3. CASE TakeActions \/ ReplyPartly \/ ReplyConsumed \/ PartialLine
    BY <2>3 DEF TakeActions, ReplyPartly, ReplyConsumed, PartialLine, store
  <2>4. CASE Answer \/ Pass \/ Type
    BY <1>1, <2>4 DEF Answer, Pass, Type, LineReply, Reply, store
  <2>5. CASE Quit \/ Abor \/ User
    BY <1>1, <2>5 DEF Quit, Abor, User, LineReply, Reply, Teardown
  <2>6. CASE Passive
    BY <2>6 DEF Passive
  <2>7. CASE Stor \/ Retr \/ Special
    BY <1>2, <1>3, <2>7 DEF Stor, Retr, Special
  <2> QED BY <1>4, <2>1, <2>2, <2>3, <2>4, <2>5, <2>6, <2>7 DEF Control
<1>5. CASE Working
  <2>1. ASSUME NEW ok, PassiveResult(ok) PROVE UNCHANGED <<exists, file>>
    BY <1>1, <1>2, <2>1 DEF PassiveResult, Reply, store
  <2>2. CASE DataConnected
    BY <2>2 DEF DataConnected, store
  <2>3. ASSUME NEW chunk, UploadFile(chunk) PROVE UNCHANGED <<exists, file>>
    BY <1>2, <2>3 DEF UploadFile
  <2>4. ASSUME NEW taken, UploadOperation(taken) PROVE UNCHANGED <<exists, file>>
    BY <2>4 DEF UploadOperation, store
  <2>5. CASE UploadFails \/ DataError
    BY <1>2, <2>5 DEF UploadFails, DataError
  <2>6. CASE UploadEof
    BY <1>2, <2>6 DEF UploadEof, store
  <2>7. ASSUME NEW result, Foreground(result) PROVE UNCHANGED <<exists, file>>
    BY <1>2, <2>7 DEF Foreground, store
  <2>8. ASSUME NEW n, DownloadEnqueued(n) \/ DownloadAcked(n) PROVE UNCHANGED <<exists, file>>
    BY <2>8 DEF DownloadEnqueued, DownloadAcked, DownloadMoves, store
  <2> QED BY <1>5, <2>1, <2>2, <2>3, <2>4, <2>5, <2>6, <2>7, <2>8 DEF Working
<1>6. CASE \E d \in Deadline : Tick(d)
  BY <1>1, <1>2, <1>6 DEF Tick, SessionLost
<1>7. CASE LinkDown
  BY <1>7 DEF LinkDown, Teardown
<1>8. CASE UNCHANGED core
  BY <1>8 DEF core, store
<1> QED BY <1>4, <1>5, <1>6, <1>7, <1>8

(* When the file is replaced, it is by everything the peer sent.           *)
LEMMA CommitIsWhole == GInv /\ [Next]_vars => [CommitStep]_vars
<1> SUFFICES ASSUME GInv, [Next]_vars, file' # file \/ exists' # exists
             PROVE  exists' /\ finished /\ file' = sent
  BY DEF CommitStep
<1>1. DataCloseResult /\ Closable(data)
  BY GlueTypes, TcpCalls, FileKept
<1>2. Commits /\ file' = staging /\ exists' = TRUE
  BY <1>1, GlueTypes, CloseResultTears
<1>3. finished /\ data.rx = <<>> /\ data.refused = <<>>
  BY <1>2 DEF Commits, GInv, SeenEnd
<1>4. data.pcb /\ "ABORT_DATA" \notin actions
  BY <1>1, <1>2 DEF Closable, Usable, Commits, GInv, AbortHeld
<1>5. (staging \o data.rx) \o data.refused = sent
  BY <1>2, <1>4 DEF Commits, GInv, Stream
<1>6. (staging \o <<>>) \o <<>> = staging
  BY GlueTypes, ChainLaws, ConcatEmptySeq
<1> QED BY <1>2, <1>3, <1>5, <1>6

(* Between two turns the transport holds what the core works with.         *)
THEOREM ChannelTheorem == Spec => []ChannelsAgree
<1>1. GInv => ChannelsAgree
  <2> SUFFICES ASSUME GInv, stage = "idle" PROVE
               /\ session <=> control.pcb \/ control.failed
               /\ connected <=> data.pcb \/ data.failed
               /\ offer <=> passive /\ ~connected
               /\ data.closing => closing
               /\ ~control.pcb => control.rx = <<>> /\ ~control.output
               /\ ~data.pcb => data.rx = <<>> /\ ~data.output
    BY DEF ChannelsAgree
  <2>1. /\ "ABORT_CONTROL" \notin actions /\ "ABORT_DATA" \notin actions
        /\ "CLOSE_PASSIVE" \in actions => ~offer
    BY DEF GInv, Requests
  <2> QED BY <2>1 DEF GInv, ControlHeld, DataHeld, OfferHeld, CloseHeld, Empty
<1> QED BY <1>1, InitGlue, StepGlue, PTL DEF Spec

(* The file is replaced only by all that one peer sent on one connection,  *)
(* in the order it was sent, whatever chains of whatever chunks lwIP       *)
(* delivered it in.                                                        *)
THEOREM WholeTheorem == Spec => WholeFile
BY InitGlue, StepGlue, CommitIsWhole, PTL DEF Spec, WholeFile

(* What the core promises under any transport, it keeps under this one,    *)
(* the link that goes down included.                                       *)
THEOREM CoreTheorem ==
  Spec => [](CoreTypeOK /\ NoReplyLost /\ DataFollowsStart /\ OperationContract) /\ DeadlinesFresh
<1>1. GInv => CoreTypeOK /\ NoReplyLost /\ DataFollowsStart /\ OperationContract
  <2> SUFFICES ASSUME GInv PROVE CoreTypeOK /\ NoReplyLost /\ DataFollowsStart /\ OperationContract
    OBVIOUS
  <2> QED BY GlueTypes, FollowingMeans, CoreTypes DEF CInv, Standing, OperationContract
<1>2. GInv /\ [Next]_vars => [FreshStep]_core
  BY GlueTypes, TcpClocks
<1> QED BY <1>1, <1>2, InitGlue, StepGlue, PTL DEF Spec, DeadlinesFresh
=============================================================================
