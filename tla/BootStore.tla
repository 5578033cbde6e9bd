------------------------------ MODULE BootStore ------------------------------
(***************************************************************************)
(* The two-page metadata store of src/src/boot_store.c: boot_store_load    *)
(* and boot_store_replace, one step per flash access, with a power failure *)
(* possible between any two of them and every access allowed to fail with  *)
(* any physical effect (boot_store.h: "Failure may still have physical     *)
(* effects").                                                              *)
(*                                                                         *)
(* Data abstraction.  A record is [sequence, value]; a page is W body      *)
(* words and the commit word.  A body word is Erased, Junk (a partly       *)
(* programmed or partly erased word) or the record whose word it is, so a  *)
(* body decodes only if every word is from one record: this is what the    *)
(* magic and the CRC detect.  Callers hand over codec-valid records, so    *)
(* INVALID_RECORD and ARGUMENT do not arise.  Reads may fail but do not    *)
(* lie.  A step that fails stands also for power loss during the access:   *)
(* Crash may follow it.                                                    *)
(***************************************************************************)
EXTENDS Naturals

CONSTANTS
  Value,        \* what a record says, opaque to the store
  MaxSeq,       \* the last sequence, UINT32_MAX in the code
  W,            \* body words of a page, 41 in the code
  Client,       \* the holders of snapshots: receiver, confirmation, loader
  Erased, Junk, \* body words that belong to no record
  NoSnapshot,   \* a client that has not loaded since the last reset
  NoCall        \* no replacement in progress

Record == [sequence: 0..MaxSeq, value: Value]

ASSUME WAssumption == W \in Nat \ {0}
ASSUME MaxSeqAssumption == MaxSeq \in Nat \ {0}
ASSUME CellAssumption == Erased \notin Record /\ Junk \notin Record /\ Erased # Junk

Cell == Record \cup {Erased, Junk}
Page == [body: [1..W -> Cell], commit: {"erased", "valid", "junk"}]
Snapshot == [record: Record, page: 0..1]

ASSUME SnapshotAssumption == NoSnapshot \notin Snapshot

Call == [client: Client, expected: Snapshot, desired: Record, dest: 0..1]

ASSUME NoCallAssumption == NoCall \notin Call /\ NoCall \notin [old: Record, new: Record]

VARIABLES
  page,    \* the two metadata pages in flash
  snap,    \* the snapshot each client last loaded
  pc,      \* where boot_store_replace stands
  call,    \* its arguments and the destination page
  word,    \* the next body word to program
  answer   \* the result last returned

vars == <<page, snap, pc, call, word, answer>>

TypeOK ==
  /\ page \in [0..1 -> Page]
  /\ snap \in [Client -> Snapshot \cup {NoSnapshot}]
  /\ pc \in {"idle", "erase", "check_erased", "program", "check_body",
             "commit", "commit_status", "check_commit", "reload"}
  /\ call \in Call \cup {NoCall}
  /\ word \in 1..(W + 1)
  /\ answer \in {"none", "OK", "NO_RECORD", "CONFLICT", "EXHAUSTED", "SEQUENCE",
                 "STALE", "IO", "VERIFY", "UNCERTAIN"}

-----------------------------------------------------------------------------
(* Decoding and selection                                                  *)

ErasedPage == [body |-> [i \in 1..W |-> Erased], commit |-> "erased"]
Image(r, commit) == [body |-> [i \in 1..W |-> r], commit |-> commit]

(* boot_metadata_decode: committed, and every word from one record.        *)
Decodes(p) == /\ p.commit = "valid"
              /\ p.body[1] \in Record
              /\ \A i \in 1..W : p.body[i] = p.body[1]
Decoded(p) == p.body[1]

(* boot_metadata_select: the newer of the pages that decode; two different *)
(* records of one sequence are a conflict.                                 *)
SelectResult(pg) ==
  IF ~Decodes(pg[0]) /\ ~Decodes(pg[1]) THEN "NO_RECORD"
  ELSE IF /\ Decodes(pg[0]) /\ Decodes(pg[1])
          /\ Decoded(pg[0]).sequence = Decoded(pg[1]).sequence
          /\ pg[0] # pg[1] THEN "CONFLICT"
  ELSE "OK"

SelectPage(pg) ==
  IF Decodes(pg[0]) /\ Decodes(pg[1])
  THEN IF Decoded(pg[1]).sequence > Decoded(pg[0]).sequence THEN 1 ELSE 0
  ELSE IF Decodes(pg[0]) THEN 0 ELSE 1

Selected(pg) == [record |-> Decoded(pg[SelectPage(pg)]), page |-> SelectPage(pg)]

-----------------------------------------------------------------------------
(* The provisioned store: the first record in page 0, page 1 erased.       *)
Init ==
  /\ \E v \in Value :
       page = [k \in 0..1 |-> IF k = 0 THEN Image([sequence |-> 1, value |-> v], "valid")
                              ELSE ErasedPage]
  /\ snap = [c \in Client |-> NoSnapshot]
  /\ pc = "idle"
  /\ call = NoCall
  /\ word = 1
  /\ answer = "none"

Return(result) ==
  /\ pc' = "idle"
  /\ call' = NoCall
  /\ word' = 1
  /\ answer' = result

Goto(label) ==
  /\ pc' = label
  /\ UNCHANGED <<call, word, answer>>

(* boot_store_load                                                         *)
Load(c) ==
  /\ pc = "idle"
  /\ \/ /\ answer' = SelectResult(page)
        /\ snap' = IF SelectResult(page) = "OK"
                   THEN [snap EXCEPT ![c] = Selected(page)] ELSE snap
     \/ answer' = "IO" /\ UNCHANGED snap
  /\ UNCHANGED <<page, pc, call, word>>

\* Faulty variant: the page that holds the authority is rewritten.
DestinationSame(current) == current.page

(* The page and the record must still be the expected ones.                *)
Stale(expected, current) == expected # current
Destination(current) == 1 - current.page

(* boot_store_replace up to the first flash change: the next sequence must *)
(* exist and be the desired one, and the authority is read again.          *)
ReplaceCheck(expected, desired) ==
  IF expected.record.sequence = MaxSeq THEN "EXHAUSTED"
  ELSE IF desired.sequence # expected.record.sequence + 1 THEN "SEQUENCE"
  ELSE IF SelectResult(page) # "OK" THEN SelectResult(page)
  ELSE IF Stale(expected, Selected(page)) THEN "STALE"
  ELSE "OK"

Replace(c, desired) ==
  /\ pc = "idle"
  /\ snap[c] # NoSnapshot
  /\ LET result == ReplaceCheck(snap[c], desired) IN
     \/ /\ result = "OK"
        /\ pc' = "erase"
        /\ call' = [client |-> c, expected |-> snap[c], desired |-> desired,
                    dest |-> Destination(Selected(page))]
        /\ answer' = "none"
        /\ UNCHANGED word
     \/ result # "OK" /\ Return(result)
     \/ result \notin {"EXHAUSTED", "SEQUENCE"} /\ Return("IO")   \* a read failed
  /\ UNCHANGED <<page, snap>>

(* erase_page: whatever the callback reports, any word may be left as it   *)
(* was, erased or in between.                                              *)
ErasedOver(p) ==
  {q \in Page : /\ \A i \in 1..W : q.body[i] \in {p.body[i], Erased, Junk}
                /\ q.commit \in {p.commit, "erased", "junk"}}

Erase ==
  /\ pc = "erase"
  /\ \E q \in ErasedOver(page[call.dest]) : page' = [page EXCEPT ![call.dest] = q]
  /\ Goto("check_erased") \/ Return("IO")
  /\ UNCHANGED snap

(* The whole page is read back and must be blank.                          *)
CheckErased ==
  /\ pc = "check_erased"
  /\ \/ page[call.dest] = ErasedPage /\ Goto("program")
     \/ page[call.dest] # ErasedPage /\ Return("VERIFY")
     \/ Return("IO")
  /\ UNCHANGED <<page, snap>>

WordsLeft == word <= W

(* program_word on one body word.                                          *)
ProgramWord ==
  /\ pc = "program"
  /\ WordsLeft
  /\ \E cell \in {call.desired, page[call.dest].body[word], Junk} :
       page' = [page EXCEPT ![call.dest].body[word] = cell]
  /\ \/ word' = word + 1 /\ UNCHANGED <<pc, call, answer>>
     \/ Return("IO")
  /\ UNCHANGED snap

ProgramDone ==
  /\ pc = "program"
  /\ ~WordsLeft
  /\ Goto("check_body")
  /\ UNCHANGED <<page, snap>>

(* The body is read back, with the commit word still erased.               *)
CheckBody ==
  /\ pc = "check_body"
  /\ \/ page[call.dest] = Image(call.desired, "erased") /\ Goto("commit")
     \/ page[call.dest] # Image(call.desired, "erased") /\ Return("VERIFY")
     \/ Return("IO")
  /\ UNCHANGED <<page, snap>>

(* program_word on the commit word: its effect, and then what it reports.  *)
ProgramCommit ==
  /\ pc = "commit"
  /\ \E c \in {"valid", "erased", "junk"} : page' = [page EXCEPT ![call.dest].commit = c]
  /\ Goto("commit_status")
  /\ UNCHANGED snap

\* Faulty variant: a failed commit is reported as an ordinary I/O failure.
CommitStatusIO ==
  /\ pc = "commit_status"
  /\ Goto("check_commit") \/ Return("IO")
  /\ UNCHANGED <<page, snap>>

(* Once the commit word is attempted a failure no longer says which record *)
(* is authoritative.                                                       *)
CommitStatus ==
  /\ pc = "commit_status"
  /\ Goto("check_commit") \/ Return("UNCERTAIN")
  /\ UNCHANGED <<page, snap>>

CheckCommit ==
  /\ pc = "check_commit"
  /\ \/ page[call.dest] = Image(call.desired, "valid") /\ Goto("reload")
     \/ Return("UNCERTAIN")
  /\ UNCHANGED <<page, snap>>

(* The final load must select the new page with the new record; only then  *)
(* does the caller's snapshot move.                                        *)
Reload ==
  /\ pc = "reload"
  /\ \/ /\ SelectResult(page) = "OK"
        /\ Selected(page) = [record |-> call.desired, page |-> 1 - call.expected.page]
        /\ snap' = [snap EXCEPT ![call.client] = Selected(page)]
        /\ Return("OK")
     \/ Return("UNCERTAIN") /\ UNCHANGED snap
  /\ UNCHANGED page

(* Power loss or reset: the RAM state is gone, the pages stay.             *)
Crash ==
  /\ snap' = [c \in Client |-> NoSnapshot]
  /\ pc' = "idle"
  /\ call' = NoCall
  /\ word' = 1
  /\ answer' = "none"
  /\ UNCHANGED page

Next ==
  \/ \E c \in Client : Load(c)
  \/ \E c \in Client, desired \in Record : Replace(c, desired)
  \/ Erase
  \/ CheckErased
  \/ ProgramWord
  \/ ProgramDone
  \/ CheckBody
  \/ ProgramCommit
  \/ CommitStatus
  \/ CheckCommit
  \/ Reload
  \/ Crash

Spec == Init /\ [][Next]_vars

-----------------------------------------------------------------------------
(* Properties                                                              *)

(* At every instant, so after a power failure at any instant, a load finds *)
(* an authoritative record: never NO_RECORD, never CONFLICT.               *)
AlwaysLoadable == SelectResult(page) = "OK"

AuthorityPageStep == page'[SelectPage(page)] = page[SelectPage(page)]

(* No flash access of the store ever changes the page that holds the       *)
(* authoritative record ("Erase ONLY the alternate page").                 *)
AuthorityPageUntouched == [][AuthorityPageStep]_vars

(* The store is an atomic record: a replacement that started from a stale  *)
(* snapshot changes nothing, every other one takes effect at most once and *)
(* atomically, OK means that it did, any other answer but UNCERTAIN means  *)
(* that it did not, and a power failure leaves the old or the new record.  *)
Authority == INSTANCE BootAuthority WITH
  auth <- Selected(page).record,
  call <- IF call = NoCall THEN NoCall
          ELSE [old |-> call.expected.record, new |-> call.desired],
  answer <- answer

IsAtomic == Authority!Spec
=============================================================================
