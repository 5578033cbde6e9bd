------------------------------- MODULE NetIf --------------------------------
(***************************************************************************)
(* The network interface of the FTP server, lm3s_netif.c, and the          *)
(* foreground loop of main.c that owns it: poll the PHY every 10 ms, bring *)
(* the interface up or tear it down, drain a few frames into lwIP, keep    *)
(* the FTP listener, run the timers and the FTP service.                   *)
(*                                                                         *)
(* lwIP is modelled by what this code uses of it: a frame given to it, the *)
(* timers and the FTP service may open or end connections and may call     *)
(* link_output; allocations fail while memory is low.  A callback sends at *)
(* most one frame: the next frame finds the MAC as the callbacks after it  *)
(* do.                                                                     *)
(***************************************************************************)
EXTENDS Ethernet

CONSTANT Drain   \* frames read in one turn, at most

ASSUME DrainAssumption == Drain \in Nat \ {0}

VARIABLES
  ready,             \* the interface is up
  count,             \* frames read in this turn
  transport_started, \* main's belief that the listener is there
  listener,          \* the listener on port 21
  connections        \* whether lwIP holds connections

loop == <<ready, count, transport_started, listener, connections>>
netVars == <<ethernet, loop>>

NetInit ==
  /\ EthernetInit
  /\ ready = FALSE /\ count = 0
  /\ transport_started = FALSE /\ listener = FALSE /\ connections = FALSE

(* A step of main that touches neither the controller nor the driver, and  *)
(* the other way round.                                                    *)
GoTo(to) ==
  /\ pc' = to
  /\ UNCHANGED <<mac, line, driver, back, locals>>
LoopKeeps == UNCHANGED loop

(* A callback of lwIP that may send: link_output, then go on at to.        *)
Silent(to) == pc' = to /\ UNCHANGED back
Sends(to) == pc' = "output" /\ back' = to
MaySend(to) ==
  /\ Silent(to) \/ Sends(to)
  /\ UNCHANGED <<mac, line, driver, locals>>

-----------------------------------------------------------------------------
(* main stops at once when the interface cannot be initialised.            *)
Initialize == EthernetInitialize("turn", "stopped") /\ LoopKeeps

(* lm3s_netif_service: poll is whether 10 ms passed since the last one.    *)
Service(poll) ==
  /\ pc = "turn"
  /\ GoTo(IF poll THEN "poll" ELSE "read")
  /\ LoopKeeps

Poll ==
  /\ \/ ReadEvents("poll", "poll_ack") \/ Acknowledge("poll_ack", "poll_busy")
     \/ PollBusy \/ PollTimeout \/ PollStatus \/ PollApply
  /\ LoopKeeps

(* A poll that failed left the driver not ready; it ends the service, and  *)
(* the loop of main goes on.                                               *)
Polled == pc \in {"decide", "timeout"}
AfterPoll == IF pc = "decide" THEN "read" ELSE "start"

\* Faulty variant: the FTP server is not told.
LinkDownUntold ==
  /\ Polled /\ ready /\ ~mac_ready
  /\ ready' = FALSE
  /\ GoTo(AfterPoll)
  /\ UNCHANGED <<count, transport_started, listener, connections>>

LinkDown ==
  /\ Polled /\ ready /\ ~mac_ready
  /\ ready' = FALSE /\ listener' = FALSE /\ connections' = FALSE
  /\ GoTo(AfterPoll)
  /\ UNCHANGED <<count, transport_started>>

(* netif_set_up announces the address.                                     *)
LinkUp ==
  /\ Polled /\ ~ready /\ mac_ready
  /\ ready' = TRUE
  /\ MaySend(AfterPoll)
  /\ UNCHANGED <<count, transport_started, listener, connections>>

LinkSame ==
  /\ Polled /\ ready = mac_ready
  /\ GoTo(AfterPoll) /\ LoopKeeps

-----------------------------------------------------------------------------
(* The frames of a turn.  While the interface is down they are drained     *)
(* without a buffer.                                                       *)

ReadAgain == count + 1 < Drain

ReadEmpty == pc = "read" /\ PacketCount = 0 /\ GoTo("start") /\ LoopKeeps

\* Faulty variant: the frames of a turn are read until none is left.
CountForgotten == UNCHANGED <<ready, count, transport_started>>

CountFrame ==
  /\ count' = IF ReadAgain THEN count + 1 ELSE 0
  /\ UNCHANGED <<ready, transport_started>>

AfterFrame == IF ReadAgain THEN "read" ELSE "start"

FrameDone == pc = "drain" /\ left = 0

ReadDropped ==
  /\ \/ ReadBad(AfterFrame)
     \/ FrameDone /\ ~accept /\ GoTo(AfterFrame)
  /\ CountFrame /\ UNCHANGED <<listener, connections>>

ReadFrame ==
  /\ ReadFirst(ready) \/ ReadNext
  /\ LoopKeeps

(* No buffer: the frame is dropped.  Otherwise lwIP takes it: it may open  *)
(* or end a connection, and answer.                                        *)
Deliver ==
  /\ FrameDone /\ accept /\ accept' = FALSE
  /\ CountFrame
  /\ \/ Silent(AfterFrame) /\ fault = "memory" /\ UNCHANGED connections
     \/ /\ Silent(AfterFrame) \/ Sends(AfterFrame)
        /\ fault # "memory"
        /\ connections' \in {connections, FALSE, connections \/ listener}
  /\ UNCHANGED <<mac, line, driver, seen, busy, negotiated, left, listener>>

-----------------------------------------------------------------------------
(* link_output: ERR_IF while the interface is down or the MAC not ready,   *)
(* ERR_MEM while it is busy; otherwise the words are written.              *)

LinkOutput ==
  /\ pc = "output"
  /\ \/ (~ready \/ Refused) /\ pc' = back /\ back' = "turn" /\ UNCHANGED left
     \/ ready /\ ~Refused /\ pc' = "send" /\ left' = TxWords /\ UNCHANGED back
  /\ UNCHANGED <<mac, line, driver, seen, busy, negotiated, accept>>
  /\ LoopKeeps

Transmit ==
  /\ \/ ReadEvents("send", "send_ack") \/ Acknowledge("send_ack", "write")
     \/ WriteWord \/ Request
  /\ LoopKeeps

-----------------------------------------------------------------------------
(* The rest of the turn: the listener, the timers, the FTP service         *)

Stopped == pc = "start" /\ ~ready /\ transport_started' = FALSE /\ UNCHANGED listener

(* ftp_tcp_start: a listener that is there is kept.                        *)
Started ==
  /\ pc = "start" /\ ready
  /\ listener' = (listener \/ (~transport_started /\ fault # "memory"))
  /\ transport_started' = (transport_started \/ listener')

Transport ==
  /\ Stopped \/ Started
  /\ GoTo("timers")
  /\ UNCHANGED <<ready, count, connections>>

Timers ==
  /\ pc = "timers" /\ MaySend("ftp")
  /\ connections' \in {connections, FALSE}
  /\ UNCHANGED <<ready, count, transport_started, listener>>

FtpService ==
  /\ pc = "ftp" /\ MaySend("turn")
  /\ connections' \in {connections, FALSE}
  /\ UNCHANGED <<ready, count, transport_started, listener>>

Program ==
  \/ Initialize \/ (\E poll \in BOOLEAN : Service(poll)) \/ Poll
  \/ LinkDown \/ LinkUp \/ LinkSame
  \/ ReadEmpty \/ ReadDropped \/ ReadFrame \/ Deliver \/ LinkOutput \/ Transmit
  \/ Transport \/ Timers \/ FtpService

NetNext == (Controller /\ LoopKeeps) \/ Program

(* The program runs on, so that time passes from turn to turn and a poll   *)
(* is due again and again, and the MAC ends a transmission it was asked    *)
(* for.  Nothing is assumed of the link, the MII, memory or the frames     *)
(* that arrive.                                                            *)
NetSpec ==
  /\ NetInit /\ [][NetNext]_netVars
  /\ WF_netVars(Program) /\ SF_netVars(Service(TRUE))
  /\ WF_netVars(TransmitEnd /\ LoopKeeps)

-----------------------------------------------------------------------------
(* While the interface is down there is neither a listener nor a           *)
(* connection of an earlier link, and the interface is up only while the   *)
(* driver is ready (but for the poll that finds out), that is with the MAC *)
(* set up for the link; main's belief in the listener is right whenever it *)
(* acts on it.                                                             *)
ServesOnlyWhenReady ==
  /\ ReadyIsConfigured
  /\ listener \/ connections => ready
  /\ ~Polled => (ready => mac_ready)
  /\ pc \in {"timers", "ftp", "turn"} => transport_started = listener

(* However often the link was lost, the MII stuck or memory low before,    *)
(* and whatever frames keep arriving: once the link stays up with one      *)
(* duplex, the MII answers and memory suffices, the server listens again   *)
(* for good, unless the controller could not be initialised at all.        *)
Good(duplex) == phy = [up |-> TRUE, full |-> duplex] /\ fault = "none"
ListensAgain ==
  \A duplex \in BOOLEAN : <>[]Good(duplex) => <>[](pc = "stopped" \/ listener)
=============================================================================
