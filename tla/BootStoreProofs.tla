--------------------------- MODULE BootStoreProofs ---------------------------
(***************************************************************************)
(* Proofs about BootStore for any number of words, values and clients.     *)
(***************************************************************************)
EXTENDS BootStore, TLAPS

(* Page k holds the authority: it decodes, and the other page is older.    *)
Wins(pg, k) ==
  /\ k \in 0..1
  /\ Decodes(pg[k])
  /\ Decodes(pg[1 - k]) => Decoded(pg[1 - k]).sequence < Decoded(pg[k]).sequence

(* When one page wins, the selection finds it and nothing else.            *)
LEMMA WinnerSelected ==
  ASSUME NEW pg \in [0..1 -> Page], NEW k, Wins(pg, k)
  PROVE  /\ SelectResult(pg) = "OK"
         /\ SelectPage(pg) = k
         /\ Selected(pg) = [record |-> Decoded(pg[k]), page |-> k]
         /\ Decoded(pg[k]) \in Record
<1>1. \A j \in 0..1 : Decodes(pg[j]) => /\ Decoded(pg[j]) \in Record
                                        /\ Decoded(pg[j]).sequence \in Nat
  BY MaxSeqAssumption DEF Decodes, Decoded, Record
<1>2. k = 0 \/ k = 1  BY DEF Wins
<1>3. SelectResult(pg) = "OK" /\ SelectPage(pg) = k
  <2>1. CASE k = 0
    <3>1. Decodes(pg[0]) /\ (Decodes(pg[1]) =>
             Decoded(pg[1]).sequence < Decoded(pg[0]).sequence)
      BY <2>1 DEF Wins
    <3> QED BY <1>1, <2>1, <3>1 DEF SelectResult, SelectPage
  <2>2. CASE k = 1
    <3>1. Decodes(pg[1]) /\ (Decodes(pg[0]) =>
             Decoded(pg[0]).sequence < Decoded(pg[1]).sequence)
      BY <2>2 DEF Wins
    <3> QED BY <1>1, <2>2, <3>1 DEF SelectResult, SelectPage
  <2> QED BY <1>2, <2>1, <2>2
<1> QED BY <1>1, <1>2, <1>3 DEF Selected, Wins

(* A page that shows one record in every word.                             *)
LEMMA WholeImage ==
  ASSUME NEW r \in Record, NEW c
  PROVE  /\ Decodes(Image(r, "valid"))
         /\ Decoded(Image(r, c)) = r
         /\ Image(r, c).commit = c
  BY WAssumption DEF Decodes, Decoded, Image

(* Programming the commit word of such a page.                             *)
LEMMA CommitImage ==
  ASSUME NEW r, NEW c, NEW d
  PROVE  [Image(r, c) EXCEPT !.commit = d] = Image(r, d)
<1> DEFINE b == [i \in 1..W |-> r]
<1>1. Image(r, c) = [body |-> b, commit |-> c] /\ Image(r, d) = [body |-> b, commit |-> d]
  BY DEF Image
<1> HIDE DEF b
<1> QED BY <1>1

(* Where a replacement stands, phase by phase.                             *)
OldKept ==
  /\ call.expected.page \in 0..1
  /\ Decodes(page[call.expected.page])
  /\ Decoded(page[call.expected.page]) = call.expected.record

PhaseInv ==
  LET p == page[call.dest] IN
  /\ pc \in {"erase", "check_erased"} => Wins(page, call.expected.page)
  /\ pc \in {"program", "check_body"} => p.commit = "erased"
  /\ pc = "commit" => p = Image(call.desired, "erased")
  /\ pc \in {"commit_status", "check_commit"} =>
       \E c \in {"valid", "erased", "junk"} : p = Image(call.desired, c)
  /\ pc = "reload" => p = Image(call.desired, "valid")

CallInv ==
  pc # "idle" => /\ call \in Call
                 /\ call.dest = 1 - call.expected.page
                 /\ call.desired.sequence = call.expected.record.sequence + 1
                 /\ OldKept
                 /\ PhaseInv

SInv ==
  /\ TypeOK
  /\ pc = "idle" <=> call = NoCall
  /\ \E k \in 0..1 : Wins(page, k)
  /\ CallInv

(* An erased page is a page, and holds no record.                          *)
LEMMA ErasedPageType == ErasedPage \in Page /\ ~Decodes(ErasedPage)
  BY CellAssumption DEF ErasedPage, Page, Cell, Decodes

(* The image of a record is a page, whatever its commit word holds.        *)
LEMMA ImageType ==
  ASSUME NEW r \in Record, NEW c \in {"erased", "valid", "junk"}
  PROVE  Image(r, c) \in Page
  BY DEF Image, Page, Cell

(* The provisioned store satisfies the invariant.                          *)
LEMMA InitStore == Init => SInv
<1> SUFFICES ASSUME Init PROVE SInv
  OBVIOUS
<1>1. PICK v \in Value : page = [k \in 0..1 |->
          IF k = 0 THEN Image([sequence |-> 1, value |-> v], "valid") ELSE ErasedPage]
  BY DEF Init
<1> DEFINE r == [sequence |-> 1, value |-> v]
<1>2. r \in Record  BY MaxSeqAssumption DEF Record
<1> HIDE DEF r
<1>3. page[0] = Image(r, "valid") /\ page[1] = ErasedPage
  BY <1>1 DEF r
<1>4. page \in [0..1 -> Page]
  <2>1. Image(r, "valid") \in Page /\ ErasedPage \in Page
    BY <1>2, ImageType, ErasedPageType
  <2> QED BY <1>1, <2>1 DEF r
<1>5. Wins(page, 0)
  BY <1>2, <1>3, WholeImage, ErasedPageType DEF Wins
<1>6. TypeOK
  BY <1>4, WAssumption DEF Init, TypeOK
<1> QED BY <1>5, <1>6 DEF Init, SInv, CallInv

-----------------------------------------------------------------------------
(* Facts about one replacement in progress.                                *)

(* The store writes only to the destination, so what the caller expected   *)
(* is still in its page, and stays the authority while the destination     *)
(* shows nothing newer.                                                    *)
LEMMA DestinationWrite ==
  ASSUME SInv, pc # "idle", NEW q \in Page, page' = [page EXCEPT ![call.dest] = q]
  PROVE  /\ page' \in [0..1 -> Page]
         /\ page'[call.dest] = q
         /\ call.dest \in 0..1 /\ call.expected.page \in 0..1
         /\ call.dest = 1 - call.expected.page
         /\ page'[call.expected.page] = page[call.expected.page]
         /\ Decodes(page'[call.expected.page])
         /\ Decoded(page'[call.expected.page]) = call.expected.record
         /\ (Decodes(q) => Decoded(q).sequence < call.expected.record.sequence)
              => Wins(page', call.expected.page)
<1>1. /\ page \in [0..1 -> Page] /\ call \in Call
      /\ call.dest = 1 - call.expected.page /\ OldKept
  BY DEF SInv, TypeOK, CallInv
<1>2. /\ call.dest \in 0..1 /\ call.expected.page \in 0..1
      /\ call.dest # call.expected.page /\ call.dest = 1 - call.expected.page
  BY <1>1 DEF Call, OldKept
<1>3. /\ page' \in [0..1 -> Page] /\ page'[call.dest] = q
      /\ page'[call.expected.page] = page[call.expected.page]
  BY <1>1, <1>2
<1> QED BY <1>1, <1>2, <1>3 DEF OldKept, Wins

(* Returning leaves an idle store; only the authority matters then.        *)
LEMMA Returned ==
  ASSUME SInv, NEW a, Return(a),
         a \in {"none", "OK", "NO_RECORD", "CONFLICT", "EXHAUSTED", "SEQUENCE",
                "STALE", "IO", "VERIFY", "UNCERTAIN"},
         page' \in [0..1 -> Page], \E k \in 0..1 : Wins(page', k),
         snap' \in [Client -> Snapshot \cup {NoSnapshot}]
  PROVE  SInv'
  BY WAssumption DEF SInv, TypeOK, CallInv, Return

(* The next phase of a replacement.                                        *)
LEMMA Continued ==
  ASSUME SInv, pc # "idle", NEW label, Goto(label),
         label \in {"erase", "check_erased", "program", "check_body",
                    "commit", "commit_status", "check_commit", "reload"},
         page' \in [0..1 -> Page], \E k \in 0..1 : Wins(page', k),
         UNCHANGED snap, OldKept', PhaseInv'
  PROVE  SInv'
<1>1. TypeOK'  BY DEF SInv, TypeOK, Goto
<1>2. CallInv'  BY DEF SInv, CallInv, Goto
<1> QED BY <1>1, <1>2 DEF SInv, Goto

(* What is known inside a replacement: where it writes, and what it        *)
(* expects to replace.                                                     *)
LEMMA InCall ==
  ASSUME SInv, pc # "idle"
  PROVE  /\ call \in Call /\ call # NoCall /\ page \in [0..1 -> Page]
         /\ call.dest \in 0..1 /\ call.expected.page \in 0..1
         /\ call.expected \in Snapshot /\ call.client \in Client
         /\ call.desired \in Record /\ call.expected.record \in Record
         /\ call.desired.sequence = call.expected.record.sequence + 1
         /\ call.expected.record.sequence \in Nat
         /\ call.dest = 1 - call.expected.page
         /\ OldKept /\ PhaseInv
<1>1. call \in Call /\ page \in [0..1 -> Page] /\ call # NoCall
  BY NoCallAssumption DEF SInv, CallInv, TypeOK
<1>2. /\ call.expected \in Snapshot /\ call.client \in Client
      /\ call.desired \in Record /\ call.dest \in 0..1
  BY <1>1 DEF Call
<1>3. call.expected.record \in Record /\ call.expected.page \in 0..1
  BY <1>2 DEF Snapshot
<1>4. call.expected.record.sequence \in Nat
  BY <1>3, MaxSeqAssumption DEF Record
<1> QED BY <1>1, <1>2, <1>3, <1>4 DEF SInv, CallInv

(* Before the commit word is written the expected record is the authority; *)
(* from then on it depends on that word alone.                             *)
LEMMA CallAuthority ==
  ASSUME SInv, pc # "idle"
  PROVE  /\ pc \in {"erase", "check_erased", "program", "check_body", "commit"}
              => Wins(page, call.expected.page)
         /\ page[call.dest] = Image(call.desired, "valid") => Wins(page, call.dest)
         /\ \A c \in {"erased", "junk"} :
              page[call.dest] = Image(call.desired, c) => Wins(page, call.expected.page)
<1> USE InCall
<1>1. /\ Decodes(page[call.expected.page])
      /\ Decoded(page[call.expected.page]) = call.expected.record
      /\ 1 - call.dest = call.expected.page
  BY DEF OldKept
<1>2. page[call.dest].commit # "valid" => Wins(page, call.expected.page)
  BY <1>1 DEF Wins, Decodes
<1>3. \A c \in {"erased", "valid", "junk"} : Image(call.desired, c).commit = c
  BY WholeImage
<1>4. pc \in {"erase", "check_erased", "program", "check_body", "commit"}
        => Wins(page, call.expected.page)
  BY <1>2, <1>3 DEF PhaseInv
<1>5. page[call.dest] = Image(call.desired, "valid") => Wins(page, call.dest)
  BY <1>1, WholeImage DEF Wins
<1> QED BY <1>2, <1>3, <1>4, <1>5

-----------------------------------------------------------------------------
(* Each step keeps the invariant.                                          *)

(* A load only takes a snapshot.                                           *)
LEMMA LoadKeeps == ASSUME SInv, NEW c \in Client, Load(c) PROVE SInv'
<1>1. PICK k \in 0..1 : Wins(page, k)  BY DEF SInv
<1>2. page \in [0..1 -> Page]  BY DEF SInv, TypeOK
<1>3. SelectResult(page) = "OK" /\ Selected(page) \in Snapshot
  BY <1>1, <1>2, WinnerSelected DEF Snapshot
<1>4. snap' \in [Client -> Snapshot \cup {NoSnapshot}]
  BY <1>3 DEF SInv, TypeOK, Load
<1>5. TypeOK'
  BY <1>3, <1>4 DEF SInv, TypeOK, Load
<1>6. CallInv'  BY DEF SInv, CallInv, Load
<1> QED BY <1>5, <1>6 DEF SInv, Load

(* A replacement begins over the winning page, and writes to the other     *)
(* one.                                                                    *)
LEMMA ReplaceKeeps ==
  ASSUME SInv, NEW c \in Client, NEW d \in Record, Replace(c, d) PROVE SInv'
<1> DEFINE a == ReplaceCheck(snap[c], d)
<1>1. PICK k \in 0..1 : Wins(page, k)  BY DEF SInv
<1>2. /\ page \in [0..1 -> Page] /\ snap[c] \in Snapshot
      /\ snap \in [Client -> Snapshot \cup {NoSnapshot}] /\ word \in 1..(W + 1)
  BY DEF SInv, TypeOK, Replace
<1>3. /\ SelectResult(page) = "OK" /\ Decoded(page[k]) \in Record
      /\ Selected(page) = [record |-> Decoded(page[k]), page |-> k]
  BY <1>1, <1>2, WinnerSelected
<1>4. page' = page /\ snap' = snap /\ pc = "idle"  BY DEF Replace
<1>5. a \in {"OK", "EXHAUSTED", "SEQUENCE", "STALE"}
  BY <1>3 DEF ReplaceCheck
<1>6. CASE a # "OK" /\ Return(a)
  BY <1>1, <1>2, <1>4, <1>5, <1>6, Returned
<1>7. CASE Return("IO")
  BY <1>1, <1>2, <1>4, <1>7, Returned
<1>8. CASE /\ a = "OK" /\ pc' = "erase" /\ answer' = "none" /\ word' = word
           /\ call' = [client |-> c, expected |-> snap[c], desired |-> d,
                       dest |-> Destination(Selected(page))]
  <2>1. /\ d.sequence = snap[c].record.sequence + 1
        /\ snap[c] = [record |-> Decoded(page[k]), page |-> k]
    BY <1>3, <1>8 DEF ReplaceCheck, Stale
  <2>2. Destination(Selected(page)) = 1 - k /\ 1 - k \in 0..1
    BY <1>3 DEF Destination
  <2>3. call' \in Call
    BY <1>2, <1>8, <2>2 DEF Call
  <2>4. /\ call'.expected = snap[c] /\ call'.desired = d /\ call'.dest = 1 - k
        /\ call'.expected.page = k /\ call'.expected.record = Decoded(page[k])
    BY <1>8, <2>1, <2>2
  <2>5. TypeOK'
    BY <1>2, <1>4, <1>8, <2>3 DEF TypeOK
  <2>6. OldKept' /\ PhaseInv'
    BY <1>1, <1>4, <1>8, <2>4 DEF OldKept, PhaseInv, Wins
  <2>7. CallInv'
    BY <2>1, <2>3, <2>4, <2>6 DEF CallInv
  <2>8. call' # NoCall  BY <2>3, NoCallAssumption
  <2> QED BY <1>1, <1>4, <1>8, <2>5, <2>7, <2>8 DEF SInv
<1> QED BY <1>6, <1>7, <1>8 DEF Replace

(* What the page writes leave behind: before the commit word the expected  *)
(* record stays the authority.                                             *)
OldWins == /\ page' \in [0..1 -> Page]
           /\ Wins(page', call.expected.page)
           /\ Decodes(page'[call.expected.page])
           /\ Decoded(page'[call.expected.page]) = call.expected.record

(* Whatever an erase leaves behind, the old page still wins.               *)
LEMMA EraseWins == ASSUME SInv, Erase PROVE OldWins
<1> USE InCall
<1>0. pc = "erase"  BY DEF Erase
<1>1. PICK q \in ErasedOver(page[call.dest]) : page' = [page EXCEPT ![call.dest] = q]
  BY DEF Erase
<1>2. q \in Page  BY DEF ErasedOver
<1>3. Decodes(q) => Decoded(q).sequence < call.expected.record.sequence
  <2> SUFFICES ASSUME Decodes(q)
               PROVE  Decoded(q).sequence < call.expected.record.sequence
    OBVIOUS
  <2>1. 1 \in 1..W  BY WAssumption
  <2>2. \A i \in 1..W : q.body[i] \in {page[call.dest].body[i], Erased, Junk}
    BY DEF ErasedOver
  <2>3. \A i \in 1..W : q.body[i] = q.body[1] /\ q.body[1] \in Record
    BY DEF Decodes
  <2>4. \A i \in 1..W : page[call.dest].body[i] = q.body[1]
    BY <2>2, <2>3, CellAssumption
  <2>5. page[call.dest].commit = "valid"
    BY DEF Decodes, ErasedOver
  <2>6. Decodes(page[call.dest]) /\ Decoded(page[call.dest]) = Decoded(q)
    BY <2>1, <2>3, <2>4, <2>5 DEF Decodes, Decoded
  <2>7. Wins(page, call.expected.page)  BY <1>0, CallAuthority
  <2> QED BY <1>0, <2>6, <2>7 DEF Wins, OldKept
<1> QED BY <1>0, <1>1, <1>2, <1>3, DestinationWrite DEF OldWins

(* So an erase keeps the invariant, also one that stops half-way.          *)
LEMMA EraseKeeps == ASSUME SInv, Erase PROVE SInv'
<1>0. pc = "erase"  BY DEF Erase
<1>4. OldWins /\ call.expected.page \in 0..1  BY <1>0, EraseWins, InCall
<1>5. snap' \in [Client -> Snapshot \cup {NoSnapshot}] /\ UNCHANGED snap
  BY DEF Erase, SInv, TypeOK
<1>6. CASE Goto("check_erased")
  <2>1. OldKept' /\ PhaseInv'
    BY <1>0, <1>4, <1>6 DEF OldWins, OldKept, PhaseInv, Goto
  <2> QED BY <1>0, <1>4, <1>5, <1>6, <2>1, Continued DEF OldWins
<1>7. CASE Return("IO")
  BY <1>0, <1>4, <1>5, <1>7, Returned DEF OldWins
<1> QED BY <1>6, <1>7 DEF Erase

(* The steps that only read.                                               *)
LEMMA ReadKeeps ==
  ASSUME SInv, pc # "idle", UNCHANGED <<page, snap>>
  PROVE  /\ \A a \in {"IO", "VERIFY", "UNCERTAIN"} : Return(a) => SInv'
         /\ \A label \in {"program", "check_body", "commit", "check_commit", "reload"} :
              Goto(label) /\ PhaseInv' => SInv'
<1>1. /\ page' \in [0..1 -> Page] /\ snap' \in [Client -> Snapshot \cup {NoSnapshot}]
      /\ \E k \in 0..1 : Wins(page', k)
  BY DEF SInv, TypeOK
<1>2. ASSUME NEW a \in {"IO", "VERIFY", "UNCERTAIN"}, Return(a) PROVE SInv'
  BY <1>1, <1>2, Returned
<1>3. ASSUME NEW label \in {"program", "check_body", "commit", "check_commit", "reload"},
             Goto(label), PhaseInv'
      PROVE SInv'
  <2>1. OldKept'  BY <1>3, InCall DEF OldKept, Goto
  <2> QED BY <1>1, <1>3, <2>1, Continued
<1> QED BY <1>2, <1>3

(* The check of the erased page only reads.                                *)
LEMMA CheckErasedKeeps == ASSUME SInv, CheckErased PROVE SInv'
<1>1. pc = "check_erased" /\ UNCHANGED <<page, snap>>  BY DEF CheckErased
<1>2. CASE page[call.dest] = ErasedPage /\ Goto("program")
  <2>1. PhaseInv'
    BY <1>1, <1>2 DEF PhaseInv, Goto, ErasedPage
  <2> QED BY <1>1, <1>2, <2>1, ReadKeeps
<1> QED BY <1>1, <1>2, ReadKeeps DEF CheckErased

(* As long as the commit word is erased, what is programmed before it      *)
(* decodes to nothing.                                                     *)
LEMMA ProgramWins ==
  ASSUME SInv, ProgramWord
  PROVE  OldWins /\ page'[call.dest].commit = "erased"
<1> USE InCall
<1>0. pc = "program" /\ word \in 1..(W + 1) /\ word <= W
  BY DEF ProgramWord, WordsLeft, SInv, TypeOK
<1>1. PICK cell \in {call.desired, page[call.dest].body[word], Junk} :
        page' = [page EXCEPT ![call.dest].body[word] = cell]
  BY DEF ProgramWord
<1> DEFINE p == page[call.dest]
           q == [p EXCEPT !.body[word] = cell]
<1>2. p \in Page /\ word \in 1..W /\ p.commit = "erased"
  BY <1>0, WAssumption DEF PhaseInv
<1>3. cell \in Cell
  <2>1. p.body[word] \in Cell  BY <1>2 DEF Page
  <2>2. call.desired \in Cell /\ Junk \in Cell  BY <1>0 DEF Cell
  <2> QED BY <2>1, <2>2
<1>4. q \in Page /\ q.commit = "erased"
  BY <1>2, <1>3 DEF Page
<1>5. page' = [page EXCEPT ![call.dest] = q]
  BY <1>0, <1>1
<1>6. ~Decodes(q)  BY <1>4 DEF Decodes
<1> HIDE DEF q
<1> QED BY <1>0, <1>4, <1>5, <1>6, DestinationWrite DEF OldWins

(* So a programmed word keeps the invariant, whatever it holds.            *)
LEMMA ProgramWordKeeps == ASSUME SInv, ProgramWord PROVE SInv'
<1>0. pc = "program" /\ word \in 1..(W + 1) /\ word <= W
  BY DEF ProgramWord, WordsLeft, SInv, TypeOK
<1>7. /\ OldWins /\ page'[call.dest].commit = "erased"
      /\ call.expected.page \in 0..1
  BY <1>0, ProgramWins, InCall
<1>8. snap' \in [Client -> Snapshot \cup {NoSnapshot}] /\ UNCHANGED snap
  BY DEF ProgramWord, SInv, TypeOK
<1>9. CASE word' = word + 1 /\ UNCHANGED <<pc, call, answer>>
  <2>1. TypeOK'
    BY <1>0, <1>7, <1>8, <1>9, WAssumption DEF SInv, TypeOK, OldWins
  <2>2. OldKept' /\ PhaseInv'
    BY <1>0, <1>7, <1>9 DEF OldWins, OldKept, PhaseInv
  <2> QED BY <1>0, <1>7, <1>9, <2>1, <2>2 DEF SInv, CallInv, OldWins
<1>10. CASE Return("IO")
  BY <1>0, <1>7, <1>8, <1>10, Returned DEF OldWins
<1> QED BY <1>9, <1>10 DEF ProgramWord

(* The end of the words.                                                   *)
LEMMA ProgramDoneKeeps == ASSUME SInv, ProgramDone PROVE SInv'
<1>1. pc = "program" /\ UNCHANGED <<page, snap>> /\ Goto("check_body")
  BY DEF ProgramDone
<1>2. PhaseInv'
  BY <1>1, InCall DEF PhaseInv, Goto
<1> QED BY <1>1, <1>2, ReadKeeps

(* The check of the words only reads.                                      *)
LEMMA CheckBodyKeeps == ASSUME SInv, CheckBody PROVE SInv'
<1>1. pc = "check_body" /\ UNCHANGED <<page, snap>>  BY DEF CheckBody
<1>2. CASE page[call.dest] = Image(call.desired, "erased") /\ Goto("commit")
  <2>1. PhaseInv'
    BY <1>1, <1>2 DEF PhaseInv, Goto
  <2> QED BY <1>1, <1>2, <2>1, ReadKeeps
<1> QED BY <1>1, <1>2, ReadKeeps DEF CheckBody

(* The commit word is the one step from which the new page wins.           *)
LEMMA ProgramCommitKeeps == ASSUME SInv, ProgramCommit PROVE SInv'
<1> USE InCall
<1>0. /\ pc = "commit" /\ page[call.dest] = Image(call.desired, "erased")
      /\ Goto("commit_status") /\ UNCHANGED snap
  BY DEF ProgramCommit, PhaseInv
<1>1. PICK c \in {"valid", "erased", "junk"} :
        page' = [page EXCEPT ![call.dest].commit = c]
  BY DEF ProgramCommit
<1> DEFINE q == Image(call.desired, c)
<1>2. page' = [page EXCEPT ![call.dest] = q]
  <2>1. page' = [page EXCEPT ![call.dest] = [page[call.dest] EXCEPT !.commit = c]]
    BY <1>0, <1>1
  <2>2. [Image(call.desired, "erased") EXCEPT !.commit = c] = q
    BY CommitImage
  <2> QED BY <1>0, <2>1, <2>2
<1>3. q \in Page  BY <1>0, ImageType
<1>4. Decoded(q) = call.desired /\ (c # "valid" => ~Decodes(q))
      /\ (c = "valid" => Decodes(q))
  <2>1. call.desired \in Record  BY <1>0
  <2>2. Decoded(q) = call.desired /\ q.commit = c  BY <2>1, WholeImage
  <2>3. c = "valid" => Decodes(q)  BY <2>1, WholeImage
  <2>4. c # "valid" => ~Decodes(q)  BY <2>2 DEF Decodes
  <2> QED BY <2>2, <2>3, <2>4
<1> HIDE DEF q
<1>5. /\ page' \in [0..1 -> Page] /\ page'[call.dest] = q
      /\ call.dest = 1 - call.expected.page
      /\ Decodes(page'[call.expected.page])
      /\ Decoded(page'[call.expected.page]) = call.expected.record
      /\ ~Decodes(q) => Wins(page', call.expected.page)
  BY <1>0, <1>2, <1>3, DestinationWrite
<1>6. \E k \in 0..1 : Wins(page', k)
  <2>1. CASE c = "valid"
    <3>1. Wins(page', call.dest)
      BY <1>0, <1>4, <1>5, <2>1 DEF Wins
    <3> QED BY <1>0, <3>1
  <2>2. CASE c # "valid"  BY <1>0, <1>4, <1>5, <2>2
  <2> QED BY <2>1, <2>2
<1>7. OldKept' /\ PhaseInv'
  BY <1>0, <1>5 DEF OldKept, PhaseInv, Goto, q
<1> QED BY <1>0, <1>5, <1>6, <1>7, Continued

(* Where the answer of the commit is lost, both outcomes are possible.     *)
LEMMA CommitStatusKeeps == ASSUME SInv, CommitStatus PROVE SInv'
<1>1. pc = "commit_status" /\ UNCHANGED <<page, snap>>  BY DEF CommitStatus
<1>2. CASE Goto("check_commit")
  <2>1. PhaseInv'
    BY <1>1, <1>2, InCall DEF PhaseInv, Goto
  <2> QED BY <1>1, <1>2, <2>1, ReadKeeps
<1> QED BY <1>1, <1>2, ReadKeeps DEF CommitStatus

(* The check of the commit word only reads.                                *)
LEMMA CheckCommitKeeps == ASSUME SInv, CheckCommit PROVE SInv'
<1>1. pc = "check_commit" /\ UNCHANGED <<page, snap>>  BY DEF CheckCommit
<1>2. CASE page[call.dest] = Image(call.desired, "valid") /\ Goto("reload")
  <2>1. PhaseInv'
    BY <1>1, <1>2 DEF PhaseInv, Goto
  <2> QED BY <1>1, <1>2, <2>1, ReadKeeps
<1> QED BY <1>1, <1>2, ReadKeeps DEF CheckCommit

(* The last selection of a replacement becomes the client's snapshot.      *)
LEMMA ReloadKeeps == ASSUME SInv, Reload PROVE SInv'
<1>1. pc = "reload" /\ UNCHANGED page  BY DEF Reload
<1>2. /\ page' \in [0..1 -> Page] /\ \E k \in 0..1 : Wins(page', k)
      /\ snap \in [Client -> Snapshot \cup {NoSnapshot}]
  BY <1>1 DEF SInv, TypeOK
<1>3. CASE /\ Selected(page) = [record |-> call.desired, page |-> 1 - call.expected.page]
           /\ snap' = [snap EXCEPT ![call.client] = Selected(page)]
           /\ Return("OK")
  <2>1. Selected(page) \in Snapshot
    BY <1>1, <1>3, InCall DEF Snapshot
  <2>2. snap' \in [Client -> Snapshot \cup {NoSnapshot}]
    BY <1>2, <1>3, <2>1
  <2> QED BY <1>2, <1>3, <2>2, Returned
<1>4. CASE Return("UNCERTAIN") /\ UNCHANGED snap
  BY <1>2, <1>4, Returned
<1> QED BY <1>3, <1>4 DEF Reload

(* A reset forgets the call and keeps the pages.                           *)
LEMMA CrashKeeps == ASSUME SInv, Crash PROVE SInv'
<1>1. Return("none") /\ page' = page /\ snap' \in [Client -> Snapshot \cup {NoSnapshot}]
  BY DEF Crash, Return
<1>2. page' \in [0..1 -> Page] /\ \E k \in 0..1 : Wins(page', k)
  BY <1>1 DEF SInv, TypeOK
<1> QED BY <1>1, <1>2, Returned

(* Every step keeps the invariant.                                         *)
LEMMA StepStore == SInv /\ [Next]_vars => SInv'
<1> SUFFICES ASSUME SInv, [Next]_vars PROVE SInv'
  OBVIOUS
<1>1. CASE UNCHANGED vars
  BY <1>1 DEF vars, SInv, TypeOK, CallInv, OldKept, PhaseInv
<1> QED BY <1>1, LoadKeeps, ReplaceKeeps, EraseKeeps, CheckErasedKeeps,
           ProgramWordKeeps, ProgramDoneKeeps, CheckBodyKeeps, ProgramCommitKeeps,
           CommitStatusKeeps, CheckCommitKeeps, ReloadKeeps, CrashKeeps DEF Next

-----------------------------------------------------------------------------
(* Type correctness, and a record to load at every instant.                *)
THEOREM LoadableTheorem == Spec => [](TypeOK /\ AlwaysLoadable)
<1>1. SInv => TypeOK /\ AlwaysLoadable
  BY WinnerSelected DEF SInv, TypeOK, AlwaysLoadable
<1> QED BY <1>1, InitStore, StepStore, PTL DEF Spec

(* Every step but the three flash accesses leaves the pages alone, and     *)
(* those three change the destination of a call only.                      *)
LEMMA PagesChange ==
  ASSUME SInv, Next
  PROVE  \/ page' = page
         \/ /\ pc \in {"erase", "program", "commit"}
            /\ \E q : page' = [page EXCEPT ![call.dest] = q]
<1>1. CASE Erase
  BY <1>1 DEF Erase
<1>2. CASE ProgramWord
  <2>1. PICK cell : page' = [page EXCEPT ![call.dest].body[word] = cell]
    BY <1>2 DEF ProgramWord
  <2>2. page' = [page EXCEPT ![call.dest] =
                   [page[call.dest] EXCEPT !.body[word] = cell]]
    BY <2>1
  <2> QED BY <1>2, <2>2 DEF ProgramWord
<1>3. CASE ProgramCommit
  <2>1. PICK c : page' = [page EXCEPT ![call.dest].commit = c]
    BY <1>3 DEF ProgramCommit
  <2>2. page' = [page EXCEPT ![call.dest] = [page[call.dest] EXCEPT !.commit = c]]
    BY <2>1
  <2> QED BY <1>3, <2>2 DEF ProgramCommit
<1> QED BY <1>1, <1>2, <1>3 DEF Next, Load, Replace, CheckErased, ProgramDone,
           CheckBody, CommitStatus, CheckCommit, Reload, Crash

(* The page with the authoritative record is never written.                *)
THEOREM UntouchedTheorem == Spec => AuthorityPageUntouched
<1>1. SInv /\ [Next]_vars => [AuthorityPageStep]_vars
  <2> SUFFICES ASSUME SInv, Next PROVE AuthorityPageStep
    OBVIOUS
  <2>1. CASE page' = page  BY <2>1 DEF AuthorityPageStep
  <2>2. CASE /\ pc \in {"erase", "program", "commit"}
             /\ \E q : page' = [page EXCEPT ![call.dest] = q]
    <3>1. /\ Wins(page, call.expected.page) /\ page \in [0..1 -> Page]
          /\ call.dest # call.expected.page /\ call.expected.page \in 0..1
      BY <2>2, CallAuthority, InCall
    <3>2. SelectPage(page) = call.expected.page
      BY <3>1, WinnerSelected
    <3> QED BY <2>2, <3>1, <3>2 DEF AuthorityPageStep
  <2> QED BY <2>1, <2>2, PagesChange
<1> QED BY <1>1, InitStore, StepStore, PTL DEF Spec, AuthorityPageUntouched

-----------------------------------------------------------------------------
(* Refinement.  Auth and ACall are the abstract state.                     *)

Auth == Selected(page).record
ACall == IF call = NoCall THEN NoCall
         ELSE [old |-> call.expected.record, new |-> call.desired]

(* Inside a replacement the authoritative record is the old one or the new *)
(* one, and which of the two is decided by the commit word.                *)
LEMMA AuthorityInCall ==
  ASSUME SInv, pc # "idle"
  PROVE  /\ pc \in {"erase", "check_erased", "program", "check_body", "commit"}
              => Auth = call.expected.record
         /\ page[call.dest] = Image(call.desired, "valid") => Auth = call.desired
         /\ Auth \in {call.expected.record, call.desired}
         /\ ACall # NoCall /\ ACall.old = call.expected.record
         /\ ACall.new = call.desired
<1> USE InCall, CallAuthority
<1>1. Wins(page, call.expected.page) => Auth = call.expected.record
  BY WinnerSelected DEF Auth, OldKept
<1>2. page[call.dest] = Image(call.desired, "valid") => Auth = call.desired
  BY WinnerSelected, WholeImage DEF Auth
<1>3. Auth \in {call.expected.record, call.desired}
  <2>1. CASE pc \in {"erase", "check_erased", "program", "check_body", "commit"}
    BY <1>1, <2>1
  <2>2. CASE pc \in {"commit_status", "check_commit", "reload"}
    <3>1. \E c \in {"valid", "erased", "junk"} : page[call.dest] = Image(call.desired, c)
      BY <2>2 DEF PhaseInv
    <3> QED BY <1>1, <1>2, <3>1
  <2> QED BY <2>1, <2>2 DEF SInv, TypeOK
<1>4. ACall # NoCall /\ ACall.old = call.expected.record /\ ACall.new = call.desired
  BY NoCallAssumption DEF ACall
<1> QED BY <1>1, <1>2, <1>3, <1>4

(* The authority does not move before the commit word, and then only to    *)
(* the new record.                                                         *)
LEMMA AuthorityMoves ==
  ASSUME SInv, SInv', Next
  PROVE  \/ Auth' = Auth
         \/ pc = "commit" /\ pc' = "commit_status" /\ Auth' = call.desired
<1>1. CASE page' = page  BY <1>1 DEF Auth
<1>2. ASSUME OldWins, pc \in {"erase", "program"} PROVE Auth' = Auth
  <2>1. Auth' = call.expected.record
    BY <1>2, WinnerSelected DEF OldWins, Auth
  <2>2. Auth = call.expected.record  BY <1>2, AuthorityInCall
  <2> QED BY <2>1, <2>2
<1>3. CASE Erase  BY <1>2, <1>3, EraseWins DEF Erase
<1>4. CASE ProgramWord  BY <1>2, <1>4, ProgramWins DEF ProgramWord
<1>5. CASE ProgramCommit
  <2>1. pc = "commit" /\ pc' = "commit_status" /\ call' = call
    BY <1>5 DEF ProgramCommit, Goto
  <2>2. (SInv /\ pc # "idle" => Auth \in {call.expected.record, call.desired})'
    BY AuthorityInCall, PTL
  <2> QED BY <2>1, <2>2, AuthorityInCall
<1> QED BY <1>1, <1>3, <1>4, <1>5 DEF Next, Load, Replace, CheckErased, ProgramDone,
           CheckBody, CommitStatus, CheckCommit, Reload, Crash

(* Every step of the store is a step of the atomic record, or invisible.   *)
LEMMA StepMaps ==
  ASSUME SInv, SInv', Next
  PROVE  [Authority!Next]_(Authority!vars)
<1> USE DEF Authority!Next, Authority!vars
<1>0. Auth = Selected(page).record /\ Auth' = Selected(page').record
  BY DEF Auth
<1>1. ASSUME NEW c \in Client, Load(c) PROVE Authority!Refuse
  <2>1. call = NoCall /\ call' = call /\ page' = page
    BY <1>1 DEF Load, SInv
  <2>2. SelectResult(page) = "OK"
    BY WinnerSelected DEF SInv, TypeOK
  <2>3. answer' \in {"OK", "IO"}  BY <1>1, <2>2 DEF Load
  <2> QED BY <2>1, <2>3 DEF Authority!Refuse, Authority!Refusal
<1>2. ASSUME NEW c \in Client, NEW d \in Record, Replace(c, d)
      PROVE  Authority!Refuse \/ Authority!Begin
  <2> DEFINE a == ReplaceCheck(snap[c], d)
  <2>1. call = NoCall /\ page' = page  BY <1>2 DEF Replace, SInv
  <2>2. SelectResult(page) = "OK"
    BY WinnerSelected DEF SInv, TypeOK
  <2>3. a \in {"OK", "EXHAUSTED", "SEQUENCE", "STALE"}
    BY <2>2 DEF ReplaceCheck
  <2>4. CASE \/ a # "OK" /\ Return(a)
             \/ Return("IO")
    BY <2>1, <2>3, <2>4 DEF Return, Authority!Refuse, Authority!Refusal
  <2>5. CASE /\ a = "OK" /\ answer' = "none"
             /\ call' = [client |-> c, expected |-> snap[c], desired |-> d,
                         dest |-> Destination(Selected(page))]
             /\ pc' = "erase"
    <3>1. d.sequence = snap[c].record.sequence + 1 /\ snap[c] = Selected(page)
      BY <2>2, <2>5 DEF ReplaceCheck, Stale
    <3>2. call' # NoCall  BY <2>5 DEF SInv
    <3>3. call'.expected = snap[c] /\ call'.desired = d  BY <2>5
    <3>4. d \in Authority!Record  BY DEF Record, Authority!Record
    <3> QED BY <2>1, <2>5, <3>1, <3>2, <3>3, <3>4 DEF Authority!Begin
  <2> QED BY <1>2, <2>4, <2>5 DEF Replace
<1>3. ASSUME pc # "idle", Return("IO") \/ Return("VERIFY"),
             Auth' = Auth, Auth = call.expected.record
      PROVE  Authority!Answer
  BY <1>0, <1>3, AuthorityInCall DEF Authority!Answer, Authority!Failure, Return, ACall
<1>4. ASSUME pc # "idle", Return("UNCERTAIN"), Auth' = Auth PROVE Authority!Answer
  BY <1>0, <1>4, AuthorityInCall DEF Authority!Answer, Return, ACall
<1>5. ASSUME NEW label, Goto(label), Auth' = Auth PROVE UNCHANGED Authority!vars
  BY <1>0, <1>5 DEF Goto
<1>6. CASE Erase
  BY <1>3, <1>5, <1>6, AuthorityMoves, AuthorityInCall DEF Erase
<1>7. CASE CheckErased
  BY <1>3, <1>5, <1>7, AuthorityMoves, AuthorityInCall DEF CheckErased
<1>8. CASE ProgramWord
  <2>1. pc = "program" /\ Auth' = Auth /\ Auth = call.expected.record
    BY <1>8, AuthorityMoves, AuthorityInCall DEF ProgramWord
  <2>2. CASE UNCHANGED <<pc, call, answer>>  BY <1>0, <2>1, <2>2
  <2>3. CASE Return("IO")  BY <1>3, <2>1, <2>3
  <2> QED BY <1>8, <2>2, <2>3 DEF ProgramWord
<1>9. CASE ProgramDone
  BY <1>5, <1>9, AuthorityMoves DEF ProgramDone
<1>10. CASE CheckBody
  BY <1>3, <1>5, <1>10, AuthorityMoves, AuthorityInCall DEF CheckBody
<1>11. CASE ProgramCommit
  <2>1. pc = "commit" /\ call' = call /\ answer' = answer /\ pc # "idle"
    BY <1>11 DEF ProgramCommit, Goto
  <2>2. CASE Auth' = Auth  BY <1>0, <2>1, <2>2
  <2>3. CASE Auth' = call.desired
    BY <1>0, <2>1, <2>3, AuthorityInCall DEF Authority!TakeEffect, ACall
  <2> QED BY <2>2, <2>3, AuthorityMoves
<1>12. CASE CommitStatus
  BY <1>4, <1>5, <1>12, AuthorityMoves DEF CommitStatus
<1>13. CASE CheckCommit
  BY <1>4, <1>5, <1>13, AuthorityMoves DEF CheckCommit
<1>14. CASE Reload
  <2>1. pc = "reload" /\ Auth' = Auth  BY <1>14, AuthorityMoves DEF Reload
  <2>2. CASE Return("UNCERTAIN")  BY <1>4, <2>1, <2>2
  <2>3. CASE /\ Selected(page) = [record |-> call.desired, page |-> 1 - call.expected.page]
             /\ Return("OK")
    <3>1. Auth = call.desired  BY <2>3 DEF Auth
    <3> QED BY <1>0, <2>1, <2>3, <3>1, AuthorityInCall
            DEF Authority!Answer, Return, ACall
  <2> QED BY <1>14, <2>2, <2>3 DEF Reload
<1>15. CASE Crash
  BY <1>15 DEF Crash, Authority!Crash
<1> QED BY <1>1, <1>2, <1>6, <1>7, <1>8, <1>9, <1>10, <1>11, <1>12, <1>13, <1>14,
           <1>15 DEF Next

(* The two pages implement one atomic record.                              *)
THEOREM AtomicTheorem == Spec => IsAtomic
<1>1. Init => Authority!Init
  <2> SUFFICES ASSUME Init PROVE Authority!Init
    OBVIOUS
  <2>1. SInv  BY InitStore
  <2>2. Selected(page).record \in Record
    BY <2>1, WinnerSelected DEF SInv, TypeOK
  <2>3. Record = Authority!Record  BY DEF Record, Authority!Record
  <2> QED BY <2>2, <2>3 DEF Init, Authority!Init
<1>2. SInv /\ SInv' /\ [Next]_vars => [Authority!Next]_(Authority!vars)
  <2> SUFFICES ASSUME SInv, SInv', [Next]_vars
               PROVE  [Authority!Next]_(Authority!vars)
    OBVIOUS
  <2>1. CASE UNCHANGED vars  BY <2>1 DEF vars, Authority!vars
  <2> QED BY <2>1, StepMaps
<1> QED BY <1>1, <1>2, InitStore, StepStore, PTL DEF Spec, IsAtomic, Authority!Spec
=============================================================================
