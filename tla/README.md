# Formal models of SimpleProgrammingTool

SimpleProgrammingTool is a Windows program (MFC, one UI thread) that programs the
flash of a Nuvoton M031 microcontroller.  This directory holds TLA+ models of its
protocols and of the firmware they talk to, the TLC configurations that check
them, and proofs of the properties that matter most.

    PC program (src/src)                         firmware (src/demo_code)
    FW Upload tab ── NuvoIspI2cClient
                        │ BridgeService
                        │  HidBridgeClient / VcomBridgeClient
                        └─────── USB ──────> bridge (M032): staged I2C master
                                                │ I2C bus
                                                └──> target LDROM (4 KB or 2 KB sample)
    UART ISP tab ── NuvoIspUartClient ─── UART ──> target LDROM (vendor)
    USB HID ISP tab ── NuvoIspUsbHidClient ─ USB ─> target LDROM (vendor)
    XMODEM tab ── XmodemSender ─────────── UART ──> target bootloader (any)

Paths below are relative to the repository; `src/src/...` is the PC program.

## 1. Inventory

| Component | State | Operations | What is hard | What makes it correct |
|---|---|---|---|---|
| I2C ISP client, `core/nuvo_isp_i2c.cpp` | `packet_index_`; locals of `ProgramAprom` (offset, attempt) | handshake with retry, sync, queries, program, run, reset | lost or damaged packets and answers, retries of blocks that were programmed already, resets of the target in between, Stop at any wait | a reported success is true; what was acknowledged stays; damaged blocks are repaired; every operation ends |
| Target command interpreter, `isp_user.c`, `fmc_user.c` | flash; statics `StartAddress`, `TotalLen`, `LastDataLen`, `g_packno`, `gcmd` | one packet, one answer | roll-back of a block across a page boundary; state lost at reset; unknown commands | nothing outside the APROM changes; the cursor is where the client believes it is |
| Target main loop and boot, `main.c` | receive flag, answer flag | boot wait of 300 ms, boot decision, parse loop | the loop shares its buffers with an interrupt handler | a packet is parsed whole and answered |
| Target I2C slave, `i2c_transfer.c` | `i2c_rcvbuf`, `bI2cDataReady`, `bISPDataReady`, position | one action per bus status | transfers cut short, a new packet while the old one is parsed | an answer read is whole and belongs to the last packet |
| FW Upload tab, `ui/fw_upload_tab.cpp` | `busy_`, `cancel_requested_`, `connected_`, `host_enabled_`, the borrowed image | buttons; each operation runs inside the handler and pumps messages while it waits | handlers that run inside one another | what was told to stop sends nothing more; Stop can be reached; what the tab shows was earned |
| XMODEM sender, `core/xmodem_sender.cpp` | packet number, offset, retry | wait for receiver, block, EOT, cancel | one answer read per block, nothing purged between blocks | a transfer reported complete has reached the receiver whole |
| UART ISP client, `core/nuvo_isp_uart.cpp` | as the I2C client, and a byte stream | as the I2C client | late and partial answers stay in the stream | as the I2C client; the handshake ends aligned |
| USB HID ISP client, `core/nuvo_isp_usb_hid.cpp` | as above, and the report queue | as above | a report that matches nothing is returned as the answer | as above |
| Bridge service and clients, `core/bridge_service.cpp`, `hid/`, `vcom/` | sequence number, parser buffer, transport | transact; staged write and read made of several transactions | a response lost between two steps of one staged transfer; stale responses | a staged transfer sends exactly the bytes it was given |
| Bridge firmware, `Template/hid_tool_api.c`, `vcom_bridge.c` | staging buffers, receive ring, parser state, reset countdown | command dispatch, frame parsing | ring overflow while I2C is polled; truncated frames; response buffer overwritten | a frame is executed once or not at all, and the parser gets back in step |
| Bridge I2C master, `m031_bridge_i2c.c` | peripheral registers | write, read | polling with time-outs | outcomes only: done, refused, half-way |
| Main frame, `main_frame.cpp` | the firmware image the tabs share | Load BIN, Load INI, Reset INI, close | they run in the pump of an operation of another tab | modelled with the FW Upload tab, but for the close |
| Pin registry, settings, logger | maps and strings | sequential | – | not modelled |

The vendor board support packages under `demo_code/*/Library` are third-party
code, and most of the lines of this repository by far.  What the samples use of them
(flash and I2C controllers) is modelled from that use.

## 2. Plan

1. `IspTarget`, `NuvoIspI2c`, `ApromUpdate`: the I2C update end to end, its
   abstract promise, and the proofs.  *Done.*
2. `TargetI2cSlave`, `PacketMailbox`: the interrupt handler under it; justifies
   that `NuvoIspI2c` takes a packet and an answer as whole.  *Done, with proofs.*
3. `XmodemSender` with an external receiver, `FileTransfer`: stale `C`, late ACK,
   damaged blocks, cancel; the abstract file transfer.  *Done, with proofs.*
4. `FwUploadTab`: handlers nested by the message pump over an abstract operation;
   Stop, Disconnect, Connect, Load BIN.  *Done, with proofs.*
5. `NuvoIspStream`: the UART and USB HID clients, that is the packets of `NuvoIspI2c`
   over a line that keeps late and partial answers.  *Done, with proofs of what is
   true for all constants.*
6. `BridgeService`, `BusTransfer`: service, both transports and the firmware's
   staging, and the bus transfer they promise the I2C client.  *Done, with proofs.*
7. Open: `ProgramVerified`, `AckedKept` and `ImplementsUpdate` of `NuvoIspStream` as theorems.  They rest
   on bounded faults (an unbounded number of them lets an old answer with the right index
   come back), so they need a hypothesis that counts what may be left in the line, as
   `BlocksInOrder` has for XMODEM and the bridge's theorems have.

Abstract specifications: `ApromUpdate` (what Program APROM promises, over all three
transports), `PacketMailbox` (what the slave promises the client), `BusTransfer` (what
the bridge promises the client), `FileTransfer` (what XMODEM promises).

How they compose: `NuvoIspI2c` runs client and target (`IspTarget`) over a bus that
does what `BusTransfer` and `PacketMailbox` promise; `BridgeService` and
`TargetI2cSlave` are shown to keep these promises.  `NuvoIspStream` runs the same
target over a UART or USB.  `FwUploadTab` runs operations that are lists of packets.

## 3. Modules

### IspTarget: the LDROM of the target

Models `ParseCmd` (`isp_user.c:42-211`), the flash access of `fmc_user.c` and the boot
of `main.c`.  Variables are the statics of `ParseCmd`, the flash, the two mailboxes
(`i2c_rcvbuf` with its flag, `response_buff` with its flag) and where the chip is
(`mode`).  There is one action per command branch; each is the whole call, up to the
label `out` that computes checksum and index of the answer.

* A flash word is the set of bits that read one.  Erasing gives `Bits`, programming
  intersects: a word programmed twice holds what both writes left, as in the chip.
* A packet is command, index, argument and data; `Checksum` is the byte sum of all
  of it, so that a *different* packet can have the same sum exactly when the
  bytes add up.  `DataSum` is a constant operator; all that is assumed of it is that a
  change of one word changes it (`DataSumAssumption`).
* `RollBack` is `CMD_RESEND_PACKET`: erase of the page of the last block with its head
  saved, and of the next page if the block ended at or behind the boundary.
* `TwoK` selects the 2 KB sample: no resend branch, so that its packet is data like any
  other (`IsData`), and no `App_IsValid`.

### NuvoIspI2c: the client against that target

`pc` is the transaction `NuvoIspI2cClient` is in, `awaiting` whether the write is done and
the answer outstanding, `hostIdx` is `packet_index_`.  `Send` is the write half of
`Transact`, `ReadResponse` is the family of `...Answered`, `BlockAccepted`, `BlockRejected`
and `AnswerInvalid` actions, one per continuation.  `Throw` is what an exception does
where it is thrown: inside `ConnectTarget` the handshake starts over, elsewhere the
operation ends.  Between and during the transactions

* the write may throw with the target having seen nothing, part or all (`SendFails`),
* one byte of a packet or of an answer may be hit (`Disturbed`, `DisturbedAnswer`),
* the answer may be late for good (`Timeout`), the user may press Stop (`Cancel`),
* the target may be reset, or leave for its application (`PowerCycle`, `BootTimeout`).

A disturbed packet has one word of data, its argument or its command changed.
A disturbed answer carries a value no packet has (`BadField`): a hit that turns
an answer into another *valid* one is not considered.  That command words arrive is an assumption of every run and theorem
(`NoisyCommand` is FALSE): the target does not survive a damaged one, see section 7.  The client counts nothing in the index that wraps in a
run of any length (32 bits), so indices are naturals.

### ApromUpdate: the promise

Four actions.  While `status` is `busy` or `failed`, `content` may be anything;
`Complete` needs `content = Binary`, and afterwards nothing changes it until `Begin`.
`NuvoIspI2c` implements it with `status <- outcome`, `content <- Application`.

### TargetI2cSlave and PacketMailbox: the interrupt handler

`NuvoIspI2c` treats the slave as a mailbox.  `TargetI2cSlave` is the code that has to
be one: one action per status of `I2C_SlaveTRx`, and the main loop cut at
every point where the interrupt can fall (each byte of `memcpy`, each flag).
`MaskIrq` says whether `main.c` masks the interrupt around the parsing.  A byte of a
buffer is the number of the packet it belongs to.  `ImplementsMailbox` is the
refinement into `PacketMailbox`: a write empties both sides and, when complete,
leaves its packet; an answer is read whole or not at all.
Seeing the flag and masking the interrupt are one step.  They are a few instructions
apart, and the interrupt that could come between them follows an address byte of 90 us.

### BridgeService and BusTransfer: the bridge between them

`call` is the call of `BridgeService` the host is in, `step` its request, `phase` where
`Transact` stands: it sends, looks for a frame in what has arrived (`pop`), waits for more
(`read`), and the VCOM client looks once more when time is up (`last`).  A write is clear,
append (`Chunks` times) and execute; a read is clear, execute and fetch.  The firmware
has one action per command of the dispatcher (`Handle...`).

* A frame travels in pieces, one for a HID report, two (header, payload with CRC) for a
  VCOM frame.  `ParseByte` is the parser of the firmware, `Sync` and `Whole` that of the host:
  one keeps a header until its payload comes, the other drops a byte of a bad frame and
  says it found nothing.  A header with a foreign payload is always told by the CRC.
* Budgeted faults (`MaxFaults`) are lost pieces, I/O that fails or comes late, a refused or
  half-way I2C transfer, and a power cycle.  A time-out when nothing can arrive any more
  (`Silent`) is none, nor is a ring that overflows.
* A chunk names its transfer, so that `wire`, the history of the bus, tells whose bytes
  were sent.  `BusTransfer` says that a transfer reported as done took place, whole, that
  none takes place twice, and that they take place in order; one reported as failed may
  have taken place, or may still do so until a later one has.

`NuvoIspI2c` takes a failed write as delivered at once or never.  The late one that
`BusTransfer` allows is a limitation of the composition, see section 7.

### NuvoIspStream: the UART and USB HID tabs

Extends `NuvoIspI2c`: the packets, `pc` and what is checked of an answer are the same.
`transport` is fixed in a behaviour (`uart`, `hid`, or `legacy` for the product id
whose reports are skipped until one fits), `handle` is open, closed, or stale
when the USB device behind it has left.  `line` is what the target has sent and nobody has
read: an answer is one report, or two halves of 64 bytes, of which a time-out
loses what was read.  `Rejected`, `Refused` and `Skipped` are the three things a client does with
an answer that does not fit.  The HID client reopens in its handshake (`FlowOpen`)
and has no deadline there; the UART client counts tries.  The target is `IspTarget`: the
LDROMs for UART and USB are the vendor's, not in this repository, and answer the same
commands.

### FwUploadTab: the tab around the I2C client

The tool has one thread.  `stack` holds the operations under way, the running one last; where
the client polls, `pumping` says that `PumpUiMessages` dispatches what the user does, and
a click there may start another operation, which returns before the one under it goes on.
`busy`, `cancel`, `ready`, `connected` and `hostEnabled` are the members of the tab, `image` is
the main frame's.  An operation is a list of packets (`Packets`); one packet is one exchange with
all its retries, since what they do to the flash is the subject of `NuvoIspI2c`.  `connect` stands for Connect
Target and Get Device ID, `run` for Run APROM and Reset Target, which do the same to
this state.  The frames carry history: `stopped` (it was told to end), `overruled` (an operation
was started in its pump), `swapped` (the image was replaced meanwhile).  Get Info and
Ping change nothing here; message boxes are not modelled.

### XmodemSender and FileTransfer: the XMODEM tab

`pc` is where `Send` stands: `sync` and `synccan` in `WaitForReceiver`, `send`, `answer` and
`answercan` in the loop over blocks, `eot` and `eotanswer` behind it.  `last`, `count`, `no`,
`next` and `retry` are its locals, `outcome` is what the tab shows.  The two directions of the
UART are queues; a transmission can be lost or arrive damaged (`noise`), also when it is an
answer.  A block is a record of its number on the wire (`no`, modulo `NumberSpace`) and the
part of the image it carries, so that the model can tell a repeated block from another one
with the same number, which the receiver cannot.

The receiver is external.  It is the one the protocol describes: it stores the block
it expects, acknowledges a repetition without storing it, cancels at any other number,
answers damage with NAK, prompts while it waits, and may give up.

What decides whether the protocol works is whether the byte `ReadByte` returns answers the
block that was just sent: `LateAnswers` lets an answer come after `response_timeout_ms`,
`QueuedPrompts` lets prompts wait in the line.  `core/xmodem_sender.cpp` purges once, before the
handshake, so nothing in the code excludes either.

`FileTransfer` is the promise: blocks arrive once and in order, and `complete` is said of all
of them only.  `XmodemSender` implements it with `status <- outcome`, `received <- stored`, as
long as answers come in time.

## 4. Runs

| Run | Question | Bounds |
|---|---|---|
| `i2c_update` | Is a reported success true, does the protocol keep the promise `ApromUpdate`, does it keep what it acknowledged and stay out of the data flash? | two operations, two disturbed transfers, 3 tries per block, 2 handshakes; any number of losses, resets, stops |
| `i2c_live` | Does every operation end, and are fewer damaged blocks than `program_retry_count` always repaired? | one operation, two disturbed transfers |
| `i2c_2k_resend`, `i2c_full_image` | The first two findings of section 6 | one disturbed transfer |
| `slave_masked` | Is handler plus main loop the mailbox, and is every packet answered? | four packets of four bytes, any cut, any reset |
| `slave_unmasked` | The third finding | three packets of three bytes |
| `isp_stream` | Do the UART and HID clients keep `ApromUpdate` and what they acknowledged, and do their operations end? | three transports, two operations, two faults, five words in blocks of one, two and two, 2 tries |
| `bridge` | Is what reaches the bus one whole packet, is a transfer that is reported as done one that took place, does the protocol get back in step (`AtMostOneLost`), does the inductive invariant of the proofs hold until the second connection (`InStep`), does every call return? | both transports, two transfers of two chunks, two connections, two faults, sequence numbers that wrap at 4, a ring of 3 pieces |
| `upload_tab` | What do Stop, Disconnect, Connect, Load BIN and nested operations do to those under way and to what is shown? | six clicks, images of two blocks and of one, two handshakes, one poll per wait |
| `xmodem_in_time` | Are sender and receiver a file transfer when answers come in time? | five blocks, packet numbers that wrap at 4, two transmissions lost or damaged, 3 tries |
| `xmodem_late` | What is left of that when they do not, and does `Send` return? | three blocks, one transmission lost or damaged, four prompts |
| `xmodem_tail` | The fourth finding | two blocks, one loss, three prompts |

**Why the bounds are enough.**  The flash has two pages of APROM and one of data flash, a
page four words, the first packet one word and the others two.  Blocks therefore
start at 0, 1, 3 and 5: one block crosses the page boundary (3-4), one lies inside a
page, the last is shorter than a packet.  A roll-back can hit each of
them.  Two disturbed transfers allow a damaged block whose repetition, or whose resend, or
whose answer is damaged again.  Two operations allow the packets of a stopped
operation to meet the next one.  Three packets are what an overlap of the slave
needs: an old answer, one being parsed, one being written.  For XMODEM, five blocks and four numbers
make a number come back; two losses hit a block and its repetition, or a block and its
answer; four prompts are two more than the handshake takes, which puts the sender two answers
ahead.  In `isp_stream` two faults can put the client one answer behind and then damage
what should bring it back, and the second operation starts in what the first has left.
In `bridge` two faults hit a request and then what repairs it, the second transfer meets the
stage, the parsers and the queues the first has left, the second connection its sequence
numbers; the ring is one piece short of two frames, so it overflows.  Six clicks are
connect, start, disconnect, connect, start in the pump, and one more.  What is proved
(section 5) does not depend on these numbers.

Every counter that is capped has its bound as a constant (`MaxOps`, `MaxNoise`, `MaxFaults`,
`MaxConnects`, `MaxClicks`, `MaxPolls`, `MaxPrompts`, `MaxPackets`, `ConnectTries` for the time
a handshake has).  Deadlock is not checked where the user's operations are bounded: after
the last one the system may stop.  The slave's run checks it.

**Fairness.**

* `LiveSpec` (`MCNuvoIspI2cLive`) asks for weak fairness of the client only: every
  wait in `Transact` and `ReadResponse` has a time-out and every loop a limit
  (`connect_timeout`, `program_retry_count`), and the UI thread executes them.  Nothing is asked
  of the target; that its loop runs is a premise of `Repaired` alone.  The history
  variable `clean` says that nothing but blocks and their answers was damaged since the update began,
  which is what the resend is for.
* `StreamSpec`: the client as above, and the target's main loop.  `Returns` has the premise
  `CleanOpens`, that handles reopened again and again some time find no answer
  under way: without it the HID flow, which has no deadline, can stay one answer behind for ever.
* `FairSpec` of `BridgeService`: the host's thread, and the firmware's loop with the USB
  controller that polls its endpoint.  Neither the user nor a fault is fair.
* `FairSpec` of `FwUploadTab`: the one thread runs.  The user may stop clicking.
* `FairSpec` of `TargetI2cSlave`: the main loop, which has nothing else to do.
* `FairSpec` of `XmodemSender`: the sender (every `ReadByte` has a time-out, every loop
  `max_retries` or the handshake's deadline) and, for `Delivered` only, a receiver that reads its UART.

## 5. Proofs

Checked by TLAPS, for all constants that satisfy the named assumptions of the modules.

### NuvoIspI2c_proofs

For any page, packet and image size, any number of retries, operations and disturbances
(`GeometryAssumption`, `DataSumAssumption`, `ClientAssumption`).

* `TypeInvariant`: `Spec => []TypeOK`.
* `InductiveInvariant`: `Spec => []IInv`, for the 4 KB sample and undisturbed command words.
* `Verified`: `Spec => []ProgramVerified`; `Refinement`: `Spec => ImplementsUpdate`;
  `AckedBlocksKept`: `Spec => []AckedKept`, all under the same two hypotheses.
* `DataFlashSafe`: `Spec => DataFlashKept`, for both samples and any disturbance, of an image with
  `ImageLen + 1 < DataFlashAddr`.  The hypothesis is sharp: `i2c_full_image` is the counterexample
  without it, and the one word more is what a disturbed length can add.

**Why the invariant looks as it does.**  The client judges an answer by the checksum of
what it sent and by an index one above its own.  The proof has to say
why no other answer passes.

1. Both sides advance their packet number by two per transaction.  The target's never
   runs ahead of the client's (`Shape`), and equals it exactly when no packet was
   lost since the sync that both started from 1.  A reset puts the target
   back to 1, and only the sync of a new handshake closes the gap.  So *an answer
   with the right index comes from a target that lost nothing*.
2. For such a target, `Cursor` says where it stands: before the block the client sends
   (`Before`), or behind it when the block was programmed and the answer not
   yet accepted (`After`), for each of data and resend, waiting and not waiting.
   `Before` carries the flash content: the prefix is the binary and everything behind is
   erased, which is what makes programming a word equal to storing it.
3. The checksum is of the packet *with the data read back*.  By `DataSumAssumption` it is right
   only if all words read back are those sent (`Wire` keeps what is on the wire related to
   what was sent: it, or one disturbed word of it).
4. Between operations nothing may write: `Quiet` says that whatever is still in the
   target's mailbox is a command without data.

`ProgramVerified` alone is not inductive: it says nothing while the update runs.
`AckedKept` also speaks of a target that lost a packet; `AckInv` adds that such a
target cannot advance, because the client's operation ends at the next answer.
`DataFlashKept` needs only where programming ends (`CursorInv`).

### TargetI2cSlave_proofs

Under the hypothesis `MaskIrq`, any packet length and number of packets: `Invariance`
(`[]IInv`), `TypeCorrect`, `ParsesWholePackets` (`[]WholePacket`), `ReadsFreshAnswers`
(`[]AnswerFresh`) and `IsMailbox` (`Spec => ImplementsMailbox`).  A packet is in the receive
buffer (`PacketInv`), on its way to `cmdbuf` (`CopyInv`), in the hands of `ParseCmd`
(`ParseInv`) or answered (`AnswerInv`), one at a time, and each place holds the last packet
addressed.  What makes it inductive is `WriteInv`: while a write is in progress both flags
are down and the main loop waits.  Without the mask it does not, and `slave_unmasked` is
the counterexample.

### FwUploadTab_proofs

For any images, tries, polls and clicks, and any depth of nesting: `InductiveInvariant`
(`[]IInv`), `TypeInvariant`, `CanBeStopped` (`[]StopReachable`), `ReadyIsEarned`,
`CompleteIsWhole` (`[]CompleteIsImage`) and `StoppedSendsNothing` (`Spec => StoppedIsSilent`).
The members of the tab are shared by all operations on the stack, so the invariant speaks of
the whole stack: whoever was told to end finds `cancel_requested_` or was overruled (`Told`),
and every operation under another one is one or the other (`Nested`) because a button is
enabled only when `busy_` is down.  What Program has put into the flash (`Programmed`) is
claimed of the running operation only, and only while nothing touched it (`Untouched`): once it has been
nested, one of the two holds no longer.

### XmodemSender_proofs and XmodemOrder_proofs

For all constants that satisfy `XmodemAssumption`: any number of
blocks, any `max_retries`, any number of losses, damages and prompts, any number space
of three or more.

* `TypeInvariant`: `Spec => []TypeOK`, whether answers come in time or not.
* `InductiveInvariant`, `Verified`, `Refinement`: `Spec => []IInv`, `Spec => []Complete` and
  `Spec => ImplementsTransfer`, under the hypothesis `InTime` (neither `LateAnswers` nor
  `QueuedPrompts`).  Without it they are false: `xmodem_tail` is the counterexample.
* `OrderInvariant`, `BlocksInOrder`: `Spec => []OrderInv` and `Spec => []InOrder`, late answers and
  queued prompts included, when `MaxNoise < NumberSpace - 1`.  With 256 numbers, fewer
  than 255 transmissions may be lost.  The hypothesis is sharp: for three numbers and two losses TLC finds the
  block that is taken for a repetition of the one a whole turn before it.

The first invariant says that sender and receiver are in lockstep.  While a block is sent the receiver
either waits for it (`Behind`) or has stored it (`Ahead`); at most one item is on one of
the two lines, so an ACK that is read can only be the answer to this block, and then the
receiver is `Ahead` (`SendInv`).  After the last block nothing that is still on the line is
a block (`EndInv`), so what EOT closes is the whole image.  When `Send` ends early, one
block may still be on the line, and it is the one the receiver waits for or has
(`FirstBlock`).  `Complete` alone is not inductive for the same reason as above.  The number
space enters once, in `NextNo`: a number and its successor differ.

The second gives up the lockstep.  The line holds blocks in the order they were sent
(`LineInOrder`), and what the receiver still listening has not stored and will not get (`Lost`) is
at most what noise has taken.  So the first block on the line is less than a
turn away from the one expected, and its number tells which of the two cases it is.

### NuvoIspI2c_proofs, NuvoIspStream_proofs: the stream transports

For any image, packets, retries and faults, over UART, HID and the legacy reports:
`StreamTypeInvariant` (`StreamSpec => []StreamTypeOK`) and `StreamDataFlashSafe`
(`StreamSpec => DataFlashKept`) of an image with `ImageLen + 1 < DataFlashAddr`.  `NuvoIspStream`
extends `NuvoIspI2c`, so the lemmas about the target are used as they are; what is new is the
line, whose type (`LineType`) says that whatever waits is a piece of an answer, and the steps of
the client that read it.  `DataFlashSafe` needs the target only: the cursor never runs ahead of
what packets were sent (`CursorInv`), whichever the answers were taken for.

### BridgePipe_proofs and BridgeService_proofs

For any packet and chunk, any ring, any number of transfers and connections, both
transports.  `BridgePipe_proofs` is about what is under way, `BridgeService_proofs` about
calls, staging and bus, and holds the theorems.

* `BridgeTypeInvariant`, `BridgeWholeOnBus`, `BridgeImplementsTransfer`:
  `Spec /\ QuietConnect` implies `[]TypeOK`, `[]WholeOnBus` and `ImplementsTransfer`.
* `BridgeInStep`: `Spec => []InStep`, the inductive invariant itself, until the user connects a second time.
* `BridgeLosesOne`: `Spec /\ QuietConnect => []AtMostOneLost` with at most three faults;
  `BridgeLosesOneAtATime`: the same for any number of faults while `FewStrays` holds;
  `BridgeLosesNoneOverHid`: `Spec /\ QuietConnect => [](Hid => lost = 0)`.

All have the hypothesis `MaxFaults + 1 < SeqMod`: fewer faults in a session than there are sequence
numbers (256 over HID, 65536 over VCOM; `seq_` of `hid_bridge_client.h` and
`vcom_bridge_client.h`), less one.  An answer is taken for another one only when the numbers have come
round, and what is left over from so many requests ago takes that many faults.  The last three
also have `Chunks <= StageSize`: a packet that the bridge cannot stage is refused every time
(the stage holds 512 bytes, an ISP packet has 64).

`QuietConnect` says that the firmware has dealt with every request when the user connects.  Both clients
restart at number 1 when they connect, and neither purges what the firmware has not read yet, so
a request left waiting may get a number the new connection uses again.  TLC finds no consequence
within two connections, where the run has no such premise; a chain of connections, each made while a
request of the one before it still waits, is outside the proof.  Two conditions are
sufficient, and neither is claimed to be necessary.

**Why the invariant looks as it does** (`IInv`, at the end of `BridgeService`).

1. Every request and every answer under way has an `Age`: how many numbers ago it was sent.  Each
   request that is sent while an older one is unanswered has cost a fault, so ages are bounded by the
   faults that happened (`Young`), and with fewer faults than numbers an age of zero means
   *the* answer.  Headers that wait without their payload (`Stray`) have cost a fault too
   and are counted with them.
2. Lines keep their order: nothing is under way behind the frame of the latest request
   (`LatestIsLast`), so when its answer is taken nothing else is left.  A reconnected HID device may still hold one answer from before; it is the first to be read and is
   set apart as the stranger (`k`), which is harmless because until the adapter is enabled no
   answer matters.
3. `RequestInv` and `BusInv` say what the firmware may have staged for which transfer, and that a request
   to execute comes behind the chunks of its own transfer only; `CallInv` says what the service
   may conclude at its step (`Prepared`) from an answer that fits and does not refuse (`AnswerInv`).
4. `TransferStep` maps a step to `BusTransfer`: the execute of the firmware puts a transfer on its
   bus, the last answer ends it, everything else stutters.

`AtMostOneLost` says nothing of the parsers, so it needs a second invariant on top (`OInv`).
A transfer in which nothing went wrong is never refused (`NoneRefused`); it fails only over VCOM, when
time is up and what the client found in front was a header without its payload (`LastPop`).  The client
looks twice before it gives up, first (`pop`) and last, and each look drops such a header
(`ParserInStep`).  Of at most three headers one is left then, the firmware's parser is in step
because it has got a whole frame, and the answer of the next transfer is `Coming` (`LostInv`).
Each header without payload has cost a fault (`StraysFaults`), which is why three
faults are always few enough.  Four headers outlast the next call as well: with eight faults (four
writes that throw after the frame has left, four answers whose payload is lost) TLC finds two
transfers lost in a row.

### Model-checked only

* All liveness (`Terminates`, `Repaired`, `Answered`, `Returns`, `OperationsEnd`, `Delivered`):
  liveness under fairness is out of the prover's reach.
* `ProgramVerified`, `AckedKept` and `ImplementsUpdate` over UART and USB (`isp_stream`).  They are not true for
  all constants: an answer to an earlier identical packet passes after a handle was reopened, and
  with enough faults it can be the wrong one.  The bound on faults they need is not worked out.
* What the 2 KB sample does, but for the type and data flash theorems that cover both samples.

## 6. Findings

1. **2 KB sample, one damaged block, false success** (`i2c_2k_resend`).  The sample
   compiles `CMD_RESEND_PACKET` out, the client uses it.  The resend packet is programmed as
   data, the repeated block lands behind it, all answers validate.
2. **Full image** (`i2c_full_image`).  The resend of the last block of an image that fills
   the APROM erases the first page of the data flash.
3. **2 KB sample, torn answer** (`slave_unmasked`).  The interrupt mask that its comment
   describes is commented out.
4. **XMODEM, one prompt too many and a lost last block, false success** (`xmodem_tail`).
   A third `C` in the line is taken for the answer to block 1; the sender repeats it and
   is one answer ahead from then on.  If the last block is lost, the ACK of the block before it
   and the ACK of EOT end the transfer.

## 7. Limitations

What the code does not promise, and the properties therefore do not claim.

*Protocol.*
* A damaged command word that the target does not know ends its update without an error; from
  then on every block is echoed unprogrammed and the client reports success (`isp_user.c:66`).
  No run or theorem lets a command word be damaged.
* The answers to CONNECT and SYNC are not checked for their index.  An answer to an earlier,
  identical packet is accepted, also across a reopened handle, since `packet_index_` starts at the same
  number.  After a late answer the UART handshake can stay one answer behind until the port is
  reopened or a packet is lost: the operation then fails, it never succeeds falsely.
* The HID flow has no deadline and can stay one answer behind for ever (see `CleanOpens`).

*Bridge.*
* A write that was reported as failed can take place later, until a later transfer has.
  `NuvoIspI2c` takes it as delivered at once or never.
* `host_enabled_` is cached: when the bridge restarts under an open VCOM port, every transfer fails
  until the user disables the host or reconnects.  `AtMostOneLost` leaves these transfers out,
  and those on a HID handle whose device has gone.
* A requested reset is postponed by each further response.
* The sequence check matters only when something else has failed: dropping it alone takes answers
  for others (`InStep`) but breaks no promise within the bounds, because lines keep their order.
* Four VCOM headers left at the host without their payload cost two transfers in a row (section 5).

*FW Upload tab.*
* An operation started in the pump of one that was told to end clears `cancel_requested_` and
  revives it (`overruled`).
* Load BIN during Program mixes two images, or reads behind the end of a shorter one (`swapped`,
  `Beyond`).
* When `EnsureHostEnabled` fails and an old stop is still set, the tab says the user stopped it.
* A WM_QUIT that the pump takes is lost.

## 8. Not modelled

See the inventory and the component notes in `PROJECT.json`.

* *Vendor libraries* (`demo_code/*/Library`, CMSIS and the board support package): third-party,
  and nearly all of the lines counted as source; no share of this repository's lines
  that counts them says how much of the program is modelled.
* *Bridge I2C master* (`m031_bridge_i2c.c`): polling of peripheral registers.  Its outcomes
  are the disjuncts of `HandleWrite` and `HandleRead`.
* *Bridge commands without a caller in the tool*: short write, group write, PMBus, SMBus quick, bus
  status, slave calls.  The transport is not switched while a call is under way.
* *Timers, pins, descriptors, pin registry, settings, logger, layout*: tables, strings and
  set-up without protocol state.
* *Closing the window* in the pump of an operation destroys the tab while it is on the stack;
  what follows is undefined.  So is a cancelled overlapped read of the HID clients that
  completes into a buffer that is gone.
* *Time*: the 300 ms boot wait and all time-outs are nondeterministic, so the race of a
  half-programmed 2 KB target with the client's next handshake is open.
* *Data*: CRC and checksums themselves (a damaged frame is one that can be told; the byte sum of a packet is
  modelled), hits that turn one valid answer into another, images longer than the APROM,
  commands no client of this repository sends.
* *XMODEM*: one transfer per behaviour (a second one starts from a receiver in any state), and the
  image that Load BIN exchanges under `Send`.
