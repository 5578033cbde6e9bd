# Verification of the EK-LM3S6965 boot and update system

The repository is bare-metal C for the LM3S6965 evaluation board: a bootloader
with two image slots, an application that receives new images over FTP and
confirms them, the metadata store both share, the flash, watchdog and Ethernet
drivers below, and examples. This directory holds TLA+ models of the part that
can brick a board or let a bad image stay (boot, update, flash, watchdog, handoff) and of the
way images arrive (FTP server, network interface, Ethernet driver), the TLC configurations that check them on
small instances, and TLAPS proofs.

Paths below are relative to the repository. `src/boot_*.c` is the code,
`include/lm3s6965/*.h` its interfaces, `docs/` its documentation.

## 1. Inventory

| Component | State it keeps | Operations | Talks to |
|---|---|---|---|
| Metadata format (`boot_format.c`) | none; a 42-word record: sequence, roles current/previous/candidate, confirmed set, one entry per slot (image, trial id, state, failures), intent | validate, encode, decode, select the newer page, identity | everyone |
| Life-cycle rules (`boot_lifecycle.c`, `boot_reset_accounting.c`) | none; pure rules from a record and evidence to a proposed record | invalidate, accept ready, begin trial, confirm, propose for a reset, promote previous, deadline intent | store clients |
| Metadata store (`boot_store.c`) | two flash pages | load, replace | flash |
| Flash driver (`boot_flash.c`) | `blocked` latch, erase plan | read, program, erase begin/step, recover | controller registers |
| Reset handler (`boot_reset_handler.c`) | sticky RESC register | capture, clear, account | store |
| Selection and launch (`boot_select.c`, `boot_launch.c`, `boot_runtime.c`) | the decision | candidate, current, previous image or stop | verifier, store |
| Verifier (`boot_verify.c`) | a stream of chunks | manifest, signature, hash, vector checks | flash, watchdog callbacks |
| Receiver (`boot_receive.c`) | phase, authority, manifest, buffered word, counters | begin, feed, eof, step, abort | store, flash, verifier |
| Boot service (`boot_service.c`, `ftp_boot.c`) | one active operation, `used`, `quarantine`, acceptance | begin, feed, eof, step, end; status, firmware, confirm | receiver, FTP core |
| Watchdog controller (`boot_watchdog.c`) | owner, epoch, evidence, verification stream, `blocked` | configure, report, application report, service, transfer | watchdog registers |
| Bridge, handoff, startup (`boot_runtime_watchdog.c`, `boot_handoff.c`, `boot_handoff_target.c`, `boot_sequence.c`, `boot_startup*.c`) | one-shot objects | the protected transaction from reset to the application's C code | watchdog, runtime |
| Foreground owner (`examples/ethernet-ftp/foreground_owner.c`) | re-entry flag, failed latch, health | one turn: Ethernet, timers, FTP, reports, feed, publish | watchdog, services |
| Diagnostics (`boot_diag*.c`) | a retained RAM record | encode, decode, publish word by word | owner, bootloader |
| FTP core (`ftp_core.c`) | session, parser, ring of replies, requested actions, one transfer, time stamps | session open/lost/closed, control spans, replies consumed, passive result, data spans, end of file, foreground step, acknowledgements, close result, tick | RAM file, operation (`ftp_boot.c`), transport |
| RAM file (`ram_file.c`) | two buffers, committed and staged length | begin, append, abort, commit, inspect | FTP core |
| FTP on lwIP (`ftp_tcp.c`) | control and data channel (PCB, held chain, flags), two listeners | service turn; accept, receive, sent, error callbacks; link down | FTP core, lwIP |
| Network interface and loop (`examples/ethernet-ftp/lm3s_netif.c`, `main.c`) | `ready`, the last poll, `transport_started` | poll, bring up, tear down, drain frames, send; start the listener, timers, service | Ethernet driver, lwIP, `ftp_tcp.c` |
| Ethernet driver (`ethernet.c`) | `mac_ready`, counters; receive and transmit FIFO of the MAC, link of the PHY | initialize, poll, try to transmit, read a frame | MAC and PHY registers |
| Clock, GPIO, UART, other peripherals | registers | register I/O | hardware |
| Host tools (`tools/`) | none | package, sign, provision | board |

What is hard here: a reset or a power failure between any two flash accesses;
flash commands that report failure and may still have taken effect; snapshots
of the record that several clients hold across steps; causes that stick in a
register while the handler that counts them is itself reset; a watchdog with two
owners and evidence that must not survive from one to the other; a record in SRAM
that is read between two of its stores; lwIP's callbacks between two turns of the
server, chains it keeps and offers again, and replies that wait behind a slow
client; a MAC and a PHY that change between two register accesses of a call; a watchdog
that expires in the middle of the handoff; sequence, epoch and verification counters
that end. `PROJECT.json` lists these hazards at
their lines, with the properties that would catch them.

What makes each component correct:

- format and rules: every record that can be committed validates and names a
  bootable image; failure history is honest; roles move only the safe way;
- store: it looks like one atomic record to every client;
- flash driver: it refuses every access while a command may still be running, OK means
  that the cells hold what was asked, and a slot loses its manifest before its payload;
- system: the record never promises what is not in flash, flash is written only where the
  durable record has given a slot up, a trial is durable
  before the image runs, resets are counted at most once, the service answers
  "accepted" only for what is durable, and the board always boots again;
- watchdog: it is fed only for new work of its current owner and never after a
  quarantine; a board whose watchdog is armed cannot hang;
- handoff: an image is entered only over a quiet processor, and the running watchdog
  alone is no reason to refuse;
- diagnostics: a block that reads as published, or that its owner trusts, is one record, whole;
- FTP: no reply is lost for want of a slot, data follows its own 150, the
  operation behind an upload is called as its contract says, deadlines are measured
  from the right moment, and a file is replaced only by a complete upload;
- network: frames keep their boundaries in both FIFOs, nothing is served over a link that
  is gone, and the server listens again once the link is back.

## 2. Modules

| Module | Models | Remarks |
|---|---|---|
| `BootFormat` | `boot_format.c`, the factory record of `tools/` | constant module: the record and its validation |
| `BootLifecycle` | `boot_lifecycle.c`, `boot_reset_accounting.c` | constant module: each rule returns a result and a record, with the order of the code's checks |
| `UpdateRecord` | the rules applied in every order | abstract specification of the durable record; one action per rule, evidence quantified over everything the interface admits |
| `TrialHistory` | | `UpdateRecord` with the trial ids given so far as a history variable |
| `BootAuthority` | the promise of the store | abstract specification: one record, replaced atomically, four kinds of answer |
| `BootStore` | `boot_store.c`, page selection of `boot_format.c` | one action per flash access; refines `BootAuthority` |
| `BootSystem` | bootloader, update service, flash slots | composes the rules with the store's promise; refines `UpdateRecord` |
| `BootWatchdog` | `boot_watchdog.c` and the hardware watchdog | any caller, any argument |
| `ProtectedBoot` | sequence, producer, bridge, verifier milestones, handoff, startup, owner | the only real caller of `BootWatchdog`, and refines it |
| `DiagPublication` | `boot_diag_publication.c`, the codec of `boot_diag.c` | one action per store |
| `FtpCore` | `ftp_core.c`, `ram_file.c`, the contract of `ftp_operation.h` | one action per function that changes state, called in any order |
| `FtpTcp` | `ftp_tcp.c`, lwIP as `ftp_tcp.c` uses it | extends `FtpCore`: the service turn calls its actions stage by stage, callbacks come between turns |
| `BootFlash` | `boot_flash.c` and the flash controller | one action per register access; several callers meet in it |
| `HandoffTarget` | `boot_handoff_target.c`, the order of `run()` in `boot_handoff.c` | one operation is a check, a write and a read-back, with the watchdog running |
| `Ethernet` | `ethernet.c`, the MAC and the PHY | the calls of the driver, one action per register access that matters |
| `NetIf` | `lm3s_netif.c`, the loop of `main.c` | extends `Ethernet`: the only caller of the driver; lwIP as this code uses it |
| `BootLifecycleProofs` | | lemmas about records and rules, for the next and `BootSystemProofs` |
| `UpdateRecordProofs`, `BootStoreProofs`, `BootSystemProofs`, `BootFlashProofs` | | theorems about the module of that name |
| `BootWatchdogProofs` | | theorems about `BootWatchdog` and `ProtectedBoot` |
| `FtpProofs` | | theorems about `FtpCore` and `FtpTcp` |
| `PlatformProofs` | | theorems about `DiagPublication`, `HandoffTarget` and `NetIf`, which share no name |
| `MC*` | | symmetry sets and values of constants for TLC |

How state and actions correspond to the code:

- **BootFormat / BootLifecycle.** A record has the fields of
  `boot_metadata_t`; `NoSlot`, `NoImage` and `EmptyEntry` are the code's blank
  values. An image identity (hash, version, length) is one model value. The
  sequence runs to `MaxSeq` instead of `UINT32_MAX`. A rule's result is
  `CHANGE`, `NO_CHANGE` or the error the code returns first. `finish`, which
  validates every proposal, is part of each rule. `TrialHistory` adds `used`, the trial ids
  that uploads were given; the record forgets them when a slot is emptied, while a
  confirmation request may be older than that.
- **BootStore.** A page is `W` body words and a commit word. A body word is
  erased, junk, or belongs to a record; a body decodes when all its words belong to
  one record, which is what magic and CRC detect. Every access may fail with
  any physical effect, and `Crash` may follow every step. Clients keep
  snapshots across replacements of others.
- **BootSystem.** The store is `BootAuthority`'s atomic record with three kinds
  of answer (OK, failed, uncertain). A slot is a manifest and a payload, each
  blank, torn or an image. The bootloader's steps are capture, clear, account,
  select, handoff; the application's are the calls of `ftp_boot.c`, each
  with the step of `boot_receive.c` it makes. The slot an upload writes is
  `Destination[running]`: in the code a constant compiled into each image, which nothing
  but the checks of `admission` and `boot_flash_erase_begin` relates to the slot the
  image runs from. `Reset` may strike between any two
  steps; `Decay` may tear a stored payload.
- **BootWatchdog.** `evidence` is the set of bits of the code's field; the
  bootloader's milestone is the same bit as the application's Ethernet
  predicate, as in the code, so a leak from one owner to the other would show.
  Every register access may fail after it had its effect.
- **ProtectedBoot.** `stage` is the place in the code; the one-shot objects
  are `handoff`, `state`, `gptm`. Every software step may fail where the code
  checks it, and may also never happen (a hang): no software step is fair.
- **DiagPublication.** The block is five words in the order they are written, and
  the validity word: header, stage, flags, health and the rest, where header and
  rest stand for the words that are the same in every record the code publishes.
  `current` is the record whose last store took effect. At power-on SRAM holds
  anything; a reset keeps it. A debugger that halts the processor reads the block
  at any state of the model.
- **FtpCore.** The variables are the fields of the core, with `user`, `login` and
  `binary` as one `access`, a reply as its start flag and a file as a sequence of
  chunks. A control line is one action, named for the branch of `command()` it
  takes; a span of several lines is a sequence of such actions. `armed` names the
  time stamps the last step set; a deadline that runs may expire at any tick.
  `contract` follows the calls of the operation as `ftp_operation.h` allows them.
- **FtpTcp.** `stage` is the place in `ftp_tcp_service`; every `actions()` call is a
  step of its own. A channel has the code's flags, the held chain `rx` and the
  chain lwIP keeps after a refusal. `Chain` is the set of chains, of any chunks and any
  length, that lwIP may deliver, and the peer sends any of them at any time; a turn takes
  one chunk, as `input_data` takes at most 256 bytes. Writes, output, close and the
  connection itself may fail at any time.
- **BootFlash.** `cell` is flash, a word or a page as the set of its one bits: an erase
  sets them, a program takes bits away. `cmd` is the command the controller runs, on its
  own and for as long as it likes; `status` is FCRIS. `call[c].pc` is the next access of
  a client's call, in the order of `modify`: enter, the idle poll, the clock and bits
  checks, `clear_status`, FMD and FMA, the keyed command, the wait, the result, the
  read-back. The number of polls is left out: a poll that finds the controller busy may
  be the last one. An access may fail, and a failed command write may have launched the
  command. `plan` is the erase plan of one slot; `CallDriver` keeps to the store
  adapter's range and to the receiver's order (the slot is programmed once its plan is
  through).
- **HandoffTarget.** `step` counts the operations of `Order`, `phase` is what comes next
  in one. `Before` and `After` are the checks of `apply` and of the terminal intent,
  `Effect` the write. The interrupts of a bank other than the watchdog's are one
  interrupt; the registers of `sources_idle` but WDTRIS are one bit. `clean` and
  `disturbed` remember whether there was a cause for a refusal.
- **Ethernet, NetIf.** A frame is a number of FIFO words with a kind: a length the driver
  accepts, one it drains and drops, one that cannot be a length. `pc` is the next register
  access, in the driver or in the loop that called it; the MAC receives, ends or fails a
  transmission and the PHY changes before any of them. `fault` is an MII that does not
  answer or an allocator without memory, and changes at any time too. A callback of lwIP
  sends at most one frame.

## 3. Runs

| Run | Instance | Shows |
|---|---|---|
| `update_record` | 2 images, 9 sequences | `AlwaysBootable`, `NoRefusedProposal`, `TrialIdsUnique`, `HistoryKept`, `CurrentMovesSafely` |
| `boot_store` | 2 clients, 2 values, 2 body words, 4 sequences | `AlwaysLoadable`, refinement `IsAtomic` |
| `boot_system` | 2 images, 9 sequences, 2 payload words, POR/WDT/SW resets, slot A decays, one image built to upload to the slot it runs from | `RecordDescribesFlash`, `TrialIsDurable`, `NoDoubleCount`, `AcceptedIsDurable`, `UploadCanFinish`, `NoWriteInDoubt`, `WritesGivenUpSlot`, refinement `FollowsLifecycle` |
| `boot_recovery` | 1 image, 8 sequences, watchdog resets, fair | `BootsAgain`, `TrialEnds` |
| `boot_watchdog` | 4 epochs, 2 verifications of up to 2 chunks | `FeedsAreMilestones`, `EpochNamesOneFeed`, `ApplicationFeedIsComplete`, `QuarantineIsFinal` |
| `protected_boot` | 2 slots of up to 2 chunks, 8 epochs, 11 operations, fair hardware | `EnteredProtected`, `FedForWork`, refinement `UsesController`, `NeverHangs` |
| `diag_publication` | two values per field, any SRAM at power-on | `PublishedIsWhole` |
| `ftp_core` | the 8 reply slots of the code, files and views of 2 chunks | `NoReplyLost`, `DataFollowsStart`, `OperationContract`, `DeadlinesFresh` |
| `ftp_server` | 3 reply slots, files of 2 chunks, up to 3 sent per connection in chains of one and two | `WholeFile`, `ChannelsAgree` |
| `boot_flash` | 2 clients, cells of 2 bits: a metadata page, a manifest and a payload page | `BlockedWhileInDoubt`, `PlanErasesInOrder`, `OkIsDurable` |
| `handoff_target` | both slots, every inherited interrupt state | `QuietWhenRecorded`, `RefusedForCause` |
| `network_interface` | frames of 2 words, a FIFO of 4, 2 frames a turn, fair loop | `FramesIntact`, `ServesOnlyWhenReady`, `ListensAgain` |

The type invariants are not checked by runs of their own: the properties read every
variable they constrain, and each is a theorem or part of a proved invariant of section 4.
`RejectedIsFinal` and `AuthorityPageUntouched` are proved and not run.

Every property is stated with a comment above its definition. Each one has a
mutant: a faulty variant of a definition (written just before it, marked
"Faulty variant") under which TLC finds the property violated.

Bounds, and why they are enough:

- *Nine sequences* in `update_record` and `boot_system`: an upload costs two,
  a trial one, each failure one, a deadline one, so a complete rejected trial and
  the next upload over it fit, an upload with confirmation and a second
  upload fit, and the last sequence is met at every step of an upload.
- *Two words* of a page body and of a payload: the smallest number with a state
  in which one is written and the next is not. The proofs about the store hold for
  any `W`.
- *Two clients, four sequences* in `boot_store`: a client can be overtaken
  twice, so that the page it expects is authoritative again with another record.
- *POR, WDT, SW*: one cause that erases the others, one that counts, one that
  does not. `EXT`, `BOR` are counted like `WDT`, and their classification is in
  `update_record`, which ranges over all sets of flags.
- *Four epochs*, `Budget = 1` in `boot_watchdog`: two restarts on either side of
  the transfer and the exhausted epoch; time matters only as "expired or
  not". `protected_boot` has eight epochs: the milestones of a boot and several
  turns, up to the last epoch.
- *Two chunks* in a file: an upload that is complete, one that is cut off and, with a
  third chunk sent, one that does not fit. The chains are `<<0>>` and `<<1, 0>>`: streams
  with different chunks, streams that differ between connections and chains that take two
  turns, so that chunks out of order and a mixture of two uploads show. The proof is
  for any chains.
- *One misbuilt image* in `boot_system`: of the two images slot B can hold, one permits
  slot B itself; the others permit their peer, as the demonstration is built.
  Images are therefore not interchangeable, and the run has no symmetry.
- *Eight slots* in `ftp_core` are the code's; three in `ftp_server` fill up and
  leave room for a line and a result.

- *Two bits and two callers* in `boot_flash`: a program that takes one bit away, one that
  asks for a bit that is gone, a command spoiled half-way; one caller inside, one refused.
- *Two-word frames, four words of FIFO, two frames a turn* in `network_interface`: a
  length word and one to drain, two frames queued, a turn that ends with frames left
  (eight in the code). Only the bound itself matters to `ListensAgain`.

`handoff_target` ends with the intent, a refusal or a reset, `update_record` may stop at
the last sequence and `protected_boot` may stop before
the watchdog is armed, so these three are not checked for deadlock.

Fairness:

- `boot_recovery`: a stopped board is reset by the watchdog (weak fairness), and
  the bootloader's steps are strongly fair in their successful form: faults are not
  permanent. `TrialEnds` is conditional on no image staying up, and its resets are
  watchdog resets: a power-on reset erases the causes before it, and if it came
  every time nothing would ever be counted. Both exclude the last sequence
  number, where the code stops by design. Nothing is assumed of the application.
- `protected_boot`: only the hardware countdown and the hardware reset are fair.
- `network_interface`: the foreground loop runs on (weak fairness of its steps: there is
  no other thread and every wait in it is bounded); a turn finds a poll due again and
  again (strong fairness of the turn that polls: 10 ms pass); the MAC ends a transmission
  it was asked for. Nothing is assumed of link, MII, memory or arriving frames:
  `ListensAgain` says what follows once they are good for good.

## 4. Proofs

All proof modules assume only the named assumptions of the modules they extend:
constants are positive naturals, special values differ from ordinary ones, pages of flash
are distinct, chains of chunks are not empty, and the destination an image was built with
is one of the two slots. One binds more than that: `FtpCore` has at least two reply slots
(the code has eight). Every inductive invariant below was checked by TLC on a
small instance before it was proved. Together the theorems state every property of
the runs but the four liveness ones.

**The record.** `BootLifecycleProofs` has one lemma per rule: the answers it may give,
and that a changed record is again a valid one. `UpdateRecordProofs` (any set of images, any last sequence) shows that every
record the rules can commit is valid and bootable (`BootableTheorem`), that no rule
computes a proposal that `finish` refuses (`NoRefusalTheorem`), that an upload is given a
trial id that none ever had (`TrialIdsTheorem`, about `TrialHistory`), and the three other
action properties. The trial id is the new record's sequence: every id given so far
is at most the current sequence (`Spent`), and every step moves that up by one. The inductive
invariant is the validator with the typing and with what the validator does not
demand: that current is a slot. Without it the rules would not be closed: from a
valid record without a current image nothing could be launched or promoted.
`StepForms` reduces a step to seven
shapes, from which the action properties follow.

**The store.** `BootStoreProofs` (any number of words, clients, values, sequences) shows
`AlwaysLoadable`, `AuthorityPageUntouched` and the refinement `IsAtomic`.
The inductive invariant `SInv` says which page wins, and for a replacement in
progress that the expected record is still whole in its page and, phase by phase,
what the destination may hold: once erasing is done its commit word is erased until
the whole body is in place, so that a newer record can appear only in one step.
`AlwaysLoadable` is not inductive: it does not know which page is being
rewritten.

**The board.** `BootSystemProofs` (any images, destinations they were built with, sequences,
payload size, reset causes, and slots that wear) shows all seven safety properties of
`boot_system` and the refinement `FollowsLifecycle`: the durable record
starts as provisioned and every change of it is a step of `UpdateRecord`. The inductive invariant `BInv` adds to the properties:

- `StageOK`: the causes that the bootloader's steps hand on, and that RAM is fresh until
  the application runs; `DoubtOK`: a store call in doubt has stopped the bootloader or
  quarantined the service;
- `LaunchOK`: what was launched is a resident image;
- `ReceiveOK`: the snapshot an upload carries across its steps is still the record (its own
  commit aside), the sequences it will need are left, and at `READY` the slot holds what
  was verified. From the erasure on, the record is one that allowed it. `UploadCanFinish`,
  `AcceptedIsDurable` and `WritesGivenUpSlot` rest on this: that the slot being
  written is not the running one follows from the check made before the erasure
  (`ElsewhereWhenAllowed`), for no destination is assumed to be the other slot;
- `CountOK`: the failures counted and a pending cause never exceed the resets that can be
  blamed on the image. `NoDoubleCount` alone does not know that a cause is still pending.

`BoardInv` adds `BufferOK` (the word in the buffer still fits the payload), which the
proof of the payload step asked for. Without it `Consumed` could count past the end.

**The flash driver.** `BootFlashProofs` (any clients, bits, metadata cells and slot pages, the pages
distinct and apart from the metadata) shows type correctness, `BlockedWhileInDoubt`,
`OkIsDurable` and `PlanErasesInOrder`. The driver's answer depends on what other callers may do between two of
its accesses, so the invariant `DInv` says first that at most one call is past `enter`
(`Exclusive`), and then, access by access, what that call may rely on (`Latched`): the
latch is open before the launch and set after it, the controller is at rest from the
first poll to the launch and again from the status to the read-back, and the registers
hold the caller's own command when it is written. `OkFromVerify` then shows that a
program or erase can be answered OK from the read-back only. For the order of the plan
`PInv` adds that no command, not even one whose caller has given up, works on a page
already counted (`NotAgain`), and that before the plan is done only its own step asks for
a cell of the slot (`SlotIsThePlans`).

**The watchdog.** `BootWatchdogProofs` (any last epoch, verification and payload size, any caller)
shows type correctness, `EpochNamesOneFeed`, `ApplicationFeedIsComplete`,
`QuarantineIsFinal` and `FeedsAreMilestones`. The invariant `WInv` adds that
all milestones so far lie at or below the current (verification, chunk), so that an
accepted one is new, and that an unused milestone is still to be counted:
`feeds["BOOT"]` plus one for pending evidence is at most the number of milestones.
For `ProtectedBoot` (any number of slots and operations too) it shows the refinement
`UsesController`, from which every boot inherits those five results
(`InheritedTheorem`), then `EnteredProtected` and `FedForWork`. The invariant `RInv`
carries from the capsule to the loop what was checked once: the controller is
configured, not blocked, the application's and in the announced epoch with no evidence
(`Entered`), and at each place of a turn the work done since the last restart is
what the evidence about to be reported says (`Worked`).

**FTP.** `FtpProofs` first shows, for any transport, any number of slots from two and any
file size, type correctness, `NoReplyLost`, `DataFollowsStart`, `OperationContract` and
`DeadlinesFresh`. `NoReplyLost` is not inductive: `Room` adds the slots that are promised
(one to a transfer or a listener, two while it opens). `Standing` says that
the state of the contract is what the core's flags say, `Following` that a transfer that
waits has exactly one 150 in the ring and any other state none. `DeadlinesFresh` is proved
deadline by deadline (`Clocks`, `TransferClocks`). Then, under `ftp_tcp.c` and lwIP:
`ChannelsAgree`, `WholeFile`, and that the core keeps what it promises (`CoreTheorem`; the
link that goes down is a step the core alone does not have). The invariant `GInv` holds at
every stage of the service turn, not only between turns: which requests of the
core may be waiting where (`Requests`), what the channels are up to those requests
(`ControlHeld` to `AbortHeld`), and that what the file has, then what `ftp_tcp.c` holds,
then what lwIP keeps is what the peer sent, in order (`Stream`), for any set of chains. With `SeenEnd`, an
upload that commits has the peer's end and nothing left to take.

**The platform.** `PlatformProofs` holds three independent parts.
For `DiagPublication` (any fields) it shows `PublishedIsWhole`, of every reader and of an
associated owner. It is not inductive: the invariant adds that an associated owner's block is
published up to the first store, that the validity word is clear while the words are written, and that those before `next` are
the candidate's, so that the last store publishes the candidate and nothing else.
For `HandoffTarget` (any slots) it shows `QuietWhenRecorded`: what the terminal checks
found stays so, but for a watchdog that expires afterwards (`Found`); and
`RefusedForCause`: as long as nothing was wrong and nothing disturbed it, every check still
to come passes (`Smooth`, by the operation reached).
For `NetIf` (any FIFO, frame length and frames per turn) it shows `ServesOnlyWhenReady`:
what the loop believes about the listener is wrong only between the loss of the link and
its next look (`Belief`); and the action property `FramesIntact`: a first word in the
receive FIFO is always followed by the rest of its frame and then by another first word
(`Whole`), and the transmit FIFO holds what one call wrote unless the controller still
reports the error (`Sending`).

**Only model-checked**: liveness, that is `BootsAgain`, `TrialEnds`, `NeverHangs` and
`ListensAgain`. They follow from fairness of actions, whose ENABLED the prover cannot
reason about. That the bounded instances stand for all in these four is argued in
section 3 and not proved.

## 5. Observations

- `reset_requested` is an intent: no code in the repository acts on it. After an
  accepted upload the reset comes from outside, which is why `BootSystem` lets
  resets come at any time and requires none.
- `boot_lifecycle_deadline_intent` has no production caller; `UpdateRecord` covers
  it, `BootSystem` never records an intent.
- A READY candidate that no longer verifies is skipped at every boot, never
  counted and never cleared, and as long as it is there uploads are refused: the
  documented policy, with provisioning as the way out.
- At the last sequence number a counted reset or the start of a trial is
  EXHAUSTED and the bootloader stops at every boot.
- A failure before the watchdog is armed (early cause read, startup timer,
  configuration) halts the board with nothing to reset it. This is the one state
  of `ProtectedBoot` without a successor.
- Each fed owner turn uses one epoch. After 2^32 the controller quarantines
  itself and a healthy board is reset, as documented ("no wrap").
- `input_data` checks that lwIP keeps no refused chain before it takes the peer's
  end, and `flush_close` checks again that nothing received is left. Either alone
  keeps a cut-off upload from being committed.

- `reset_receive_fifo` throws away every queued frame when one length word is impossible;
  `ListensAgain` holds nevertheless, for TCP sends again.
- A poll that finds the transmitter busy with the wrong duplex leaves the driver not ready
  and the link down until a later poll: `ListensAgain` needs the MAC to end its
  transmission.
- `banks_idle_pre` lets a watchdog interrupt pass that is still pending in the NVIC. With
  the strict check in its place a handoff that inherits one would be refused although
  nothing is wrong; `RefusedForCause` says so.

## 6. Not modelled

- Signatures, hashes, CRC: ideal. Encoding and decoding of bytes: a record is whole
  or it does not decode.
- `BootSystem` takes a flash command as one step that succeeds, is refused, or fails with
  any effect and blocks; that this is what the driver promises is `boot_flash`'s subject,
  but the refinement between the two modules is not stated. `boot_flash_recover` has no
  caller in the update service, and `BootSystem` does not recover.
- Payload bytes below a word; text of status and report.
- Argument checks against NULL or overlapping buffers; the atomic entry guard of
  the watchdog controller (one thread).
- Core registers that nothing changes during the handoff and the jump in assembly; a call
  of the handoff adapter after its end; code placement; time in microseconds.
- The bytes of Ethernet frames and the event counters; the number of PHY and flash polls.
- FTP: the text of lines and replies, more than one line in a call of
  `ftp_core_control_span` (its check for room is the stronger one), the values of the
  clock, `ftp_diagnostic.c`, and a service call from within a callback, which the
  code refuses for good. lwIP itself is external.
- Diagnostics: the calls that only read the block, and the fields no caller changes.
- The raw Ethernet example (its calls of the driver are among those of `NetIf`),
  peripherals, the FreeRTOS port, host tools (only the factory record they
  write).

## 7. Plan

Done, in this order: record and rules, store, system, watchdog, protected boot, FTP
core and server, diagnostic publication; then the flash driver
at register level, the handoff on the processor, the Ethernet driver with the network
interface and its loop; then the proofs of section 4, which cover every safety and action
property of the runs.

Next, by importance:

1. The refinement between `BootFlash` and the flash command of `BootSystem`, so that the
   promise assumed there is the one proved of the driver.
2. `FtpBoot`: `FtpCore`'s contract as the abstract specification of the calls that
   `BootSystem` leaves in any order; `BootReceive`: the receiver at byte level.
3. Liveness of the FTP server: every session and transfer ends once its peer is
   silent, from the fairness of the service loop and the clock.
