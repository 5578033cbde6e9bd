------------------------------ MODULE Ethernet ------------------------------
(***************************************************************************)
(* The Ethernet driver, ethernet.c, and the controller it drives.  The     *)
(* driver has no interrupts: its functions are called one at a time from   *)
(* the foreground, but the MAC and the PHY change between two register     *)
(* accesses of a call, so that a call is several steps here.               *)
(*                                                                         *)
(* The bytes of a frame are left out.  A frame is a number of FIFO words   *)
(* and a kind: "good" (a length a buffer of the driver holds), "odd" (a    *)
(* length that can be drained but not accepted) and "bad" (a length word   *)
(* below the two-byte prefix and FCS, or above the FIFO).  The event       *)
(* counters of ethernet_get_stats, which no decision reads, are left out.  *)
(*                                                                         *)
(* pc is the next register access of the call and back where its caller    *)
(* goes on; the callers are in NetIf.                                      *)
(***************************************************************************)
EXTENDS Integers, Sequences, FiniteSets

CONSTANTS
  MaxWords,   \* FIFO words of a received frame, at most
  FifoWords,  \* words the receive FIFO holds
  TxWords     \* FIFO words of a transmitted frame

ASSUME WordsAssumption ==
  /\ MaxWords \in Nat /\ MaxWords >= 2 /\ TxWords \in Nat \ {0}
  /\ FifoWords \in Nat /\ FifoWords >= MaxWords

VARIABLES
  \* the controller
  fifo,       \* the receive FIFO, word by word
  rxen,       \* MACRCTL.RXEN
  txen,       \* MACTCTL.TXEN
  fdx,        \* MACTCTL.DUPLEX
  newtx,      \* MACTR.NEWTX: a transmission is under way
  txer,       \* MACRIS.TXER
  txwords,    \* words in the transmit FIFO
  phy,        \* up: link and negotiation are there; full: its duplex
  fault,      \* "mii": MACMCTL.START does not clear; "memory": see NetIf
  \* the driver
  mac_ready,
  full,       \* the duplex of the poll that made it ready
  \* the call under way
  pc, back,
  seen,       \* TXER as collect_events read it
  busy,       \* NEWTX as ethernet_poll read it
  negotiated, \* link and negotiation as ethernet_poll read them
  left,       \* words of the frame still to be drained
  accept      \* whether they are kept

mac == <<fifo, rxen, txen, fdx, newtx, txer, txwords>>
line == <<phy, fault>>
driver == <<mac_ready, full>>
locals == <<seen, busy, negotiated, left, accept>>
call == <<pc, back, locals>>
ethernet == <<mac, line, driver, call>>

Phy == [up : BOOLEAN, full : BOOLEAN]
Fault == {"none", "mii", "memory"}

-----------------------------------------------------------------------------
(* The controller                                                          *)

(* A frame's words; the first carries its length.                          *)
FrameWords(kind, n) == [i \in 1..n |-> [kind |-> kind, i |-> i, n |-> n]]

(* MACNP: the frames that wait.                                            *)
PacketCount == Cardinality({k \in DOMAIN fifo : fifo[k].i = 1})

(* A frame that does not fit is lost.                                      *)
Receive(kind, n) ==
  /\ rxen /\ Len(fifo) + n <= FifoWords
  /\ fifo' = fifo \o FrameWords(kind, n)
  /\ UNCHANGED <<rxen, txen, fdx, newtx, txer, txwords, line, driver, call>>

TransmitError ==
  /\ newtx /\ ~txer /\ txer' = TRUE
  /\ UNCHANGED <<fifo, rxen, txen, fdx, newtx, txwords, line, driver, call>>

(* A transmission that failed leaves words behind until TXER is            *)
(* acknowledged.                                                           *)
TransmitEnd ==
  /\ newtx /\ newtx' = FALSE
  /\ txwords' \in IF txer THEN 0..txwords ELSE {0}
  /\ UNCHANGED <<fifo, rxen, txen, fdx, txer, line, driver, call>>

(* The PHY latches a loss of the link until its status is read.  The first *)
(* read of a poll is thrown away, so that only a loss between its two      *)
(* reads can be seen: negotiated is then what the second read returns.     *)
PhyChanges ==
  /\ phy' \in Phy \ {phy}
  /\ negotiated' = IF pc = "mii2" THEN negotiated /\ phy'.up ELSE negotiated
  /\ UNCHANGED <<mac, fault, driver, pc, back, seen, busy, left, accept>>

FaultChanges ==
  /\ fault' \in Fault \ {fault}
  /\ UNCHANGED <<mac, phy, driver, call>>

Controller ==
  \/ \E kind \in {"good", "odd", "bad"}, n \in 2..MaxWords : Receive(kind, n)
  \/ TransmitError \/ TransmitEnd \/ PhyChanges \/ FaultChanges

-----------------------------------------------------------------------------
EthernetInit ==
  /\ fifo = <<>> /\ rxen = FALSE /\ txen = FALSE /\ fdx = FALSE
  /\ newtx = FALSE /\ txer = FALSE /\ txwords = 0
  /\ phy \in Phy /\ fault \in Fault
  /\ mac_ready = FALSE /\ full = FALSE
  /\ pc = "init" /\ back = "turn" /\ seen = FALSE /\ busy = FALSE
  /\ negotiated = FALSE /\ left = 0 /\ accept = FALSE

(* ethernet_initialize resets the controller and the PHY, then waits for   *)
(* the PHY; it fails where an MII transfer does, or when the PHY does not  *)
(* leave its reset.  ok and failed are where the caller goes on.           *)
EthernetInitialize(ok, failed) ==
  /\ pc = "init"
  /\ fifo' = <<>> /\ rxen' = FALSE /\ txen' = FALSE /\ fdx' = FALSE
  /\ newtx' = FALSE /\ txer' = FALSE /\ txwords' = 0 /\ mac_ready' = FALSE
  /\ pc' \in IF fault = "mii" THEN {failed} ELSE {ok, failed}
  /\ UNCHANGED <<line, full, back, locals>>

-----------------------------------------------------------------------------
(* collect_events: read the events, then acknowledge; an acknowledged TXER *)
(* also resets the transmit FIFO, and is left alone while NEWTX is set.    *)

ReadEvents(from, to) ==
  /\ pc = from /\ pc' = to
  /\ seen' = txer
  /\ UNCHANGED <<mac, line, driver, back, busy, negotiated, left, accept>>

\* Faulty variant: TXER is acknowledged during a transmission too.
AcknowledgeAlways ==
  IF seen THEN txer' = FALSE /\ txwords' = 0 ELSE UNCHANGED <<txer, txwords>>

AcknowledgeTransmitError ==
  IF ~newtx /\ seen THEN txer' = FALSE /\ txwords' = 0
                    ELSE UNCHANGED <<txer, txwords>>

Acknowledge(from, to) ==
  /\ pc = from /\ pc' = to
  /\ AcknowledgeTransmitError /\ seen' = FALSE
  /\ UNCHANGED <<fifo, rxen, txen, fdx, newtx, line, driver, back, busy,
                 negotiated, left, accept>>

-----------------------------------------------------------------------------
(* ethernet_poll                                                           *)

PollBusy ==
  /\ pc = "poll_busy" /\ pc' = "mii1"
  /\ busy' = newtx
  /\ UNCHANGED <<mac, line, driver, back, seen, negotiated, left, accept>>

(* mii_transfer gives up when the start bit does not clear.                *)
PollTimeout ==
  /\ pc \in {"mii1", "mii2", "mii3"} /\ fault = "mii"
  /\ pc' = "timeout"
  /\ mac_ready' = FALSE /\ full' = FALSE /\ rxen' = FALSE
  /\ busy' = FALSE /\ negotiated' = FALSE
  /\ UNCHANGED <<fifo, txen, fdx, newtx, txer, txwords, line, back, seen, left,
                 accept>>

(* Two reads of the PHY status, the first only to clear the latch.         *)
PollStatus ==
  /\ pc \in {"mii1", "mii2"} /\ fault # "mii"
  /\ pc' = IF pc = "mii1" THEN "mii2" ELSE "mii3"
  /\ negotiated' = IF pc = "mii1" THEN phy.up ELSE negotiated /\ phy.up
  /\ UNCHANGED <<mac, line, driver, back, seen, busy, left, accept>>

ReadyAfterPoll == negotiated /\ (~busy \/ fdx = phy.full)

(* The third transfer reads the duplex; the transmitter's is changed only  *)
(* between two transmissions.                                              *)
PollApply ==
  /\ pc = "mii3" /\ fault # "mii"
  /\ pc' = "decide"
  /\ mac_ready' = ReadyAfterPoll /\ full' = (ReadyAfterPoll /\ phy.full)
  /\ IF busy THEN UNCHANGED <<txen, fdx>>
             ELSE fdx' = phy.full /\ txen' = ReadyAfterPoll
  /\ rxen' = ReadyAfterPoll
  /\ busy' = FALSE /\ negotiated' = FALSE
  /\ UNCHANGED <<fifo, newtx, txer, txwords, line, back, seen, left, accept>>

-----------------------------------------------------------------------------
(* ethernet_try_transmit, once link_output let the frame through           *)

Refused == ~mac_ready \/ newtx   \* ETHERNET_NOT_READY, ETHERNET_BUSY

WriteWord ==
  /\ pc = "write"
  /\ txwords' = txwords + 1 /\ left' = left - 1
  /\ pc' = IF left > 1 THEN "write" ELSE "request"
  /\ UNCHANGED <<fifo, rxen, txen, fdx, newtx, txer, line, driver, back, seen,
                 busy, negotiated, accept>>

Request ==
  /\ pc = "request" /\ pc' = back /\ back' = "turn"
  /\ newtx' = TRUE
  /\ UNCHANGED <<fifo, rxen, txen, fdx, txer, txwords, line, driver, locals>>

-----------------------------------------------------------------------------
(* ethernet_read_frame                                                     *)

(* The frame is drained to the end of its FCS by the length it carries,    *)
(* wanted or not.                                                          *)
WordsToDrain(w) == w.n - 1

(* reset_receive_fifo                                                      *)
ResetReceiveFifo == fifo' = <<>> /\ rxen' = mac_ready

(* A length word that cannot be one: DROPPED.                              *)
ReadBad(next) ==
  /\ pc = "read" /\ PacketCount # 0 /\ Head(fifo).kind = "bad"
  /\ ResetReceiveFifo /\ pc' = next
  /\ UNCHANGED <<txen, fdx, newtx, txer, txwords, line, driver, back, locals>>

ReadFirst(buffer) ==
  /\ pc = "read" /\ PacketCount # 0 /\ Head(fifo).kind # "bad"
  /\ fifo' = Tail(fifo) /\ left' = WordsToDrain(Head(fifo))
  /\ accept' = (buffer /\ Head(fifo).kind = "good")
  /\ pc' = "drain"
  /\ UNCHANGED <<rxen, txen, fdx, newtx, txer, txwords, line, driver, back,
                 seen, busy, negotiated>>

ReadNext ==
  /\ pc = "drain" /\ left > 0
  /\ fifo' = Tail(fifo) /\ left' = left - 1
  /\ UNCHANGED <<rxen, txen, fdx, newtx, txer, txwords, line, driver, pc, back,
                 seen, busy, negotiated, accept>>

-----------------------------------------------------------------------------
ReceivesInStep ==
  IF pc = "drain"
  THEN /\ Len(fifo) >= left
       /\ \A k \in 1..left : fifo[k].n - fifo[k].i = left - k
       /\ Len(fifo) > left => fifo[left + 1].i = 1
  ELSE fifo # <<>> => Head(fifo).i = 1

TransmitStep ==
  newtx' => /\ txwords' = TxWords /\ txen'
            /\ newtx => UNCHANGED <<txwords, fdx, txen>>

(* The driver and the controller agree where a frame begins and ends.  The *)
(* words drained for a frame are that frame's: between two calls the       *)
(* receive FIFO begins with a length word, and the words still to be       *)
(* drained are the rest of the frame whose length was read.  And what the  *)
(* MAC sends is what one ethernet_try_transmit wrote, all of it and        *)
(* nothing else: nobody touches the transmit FIFO, the duplex or the       *)
(* transmitter before it is done.                                          *)
FramesIntact == [][ReceivesInStep' /\ TransmitStep]_ethernet

(* mac_ready means that the MAC is set up for the link of the last poll:   *)
(* both directions enabled and the duplex that was negotiated.             *)
ReadyIsConfigured == mac_ready => rxen /\ txen /\ fdx = full
=============================================================================
