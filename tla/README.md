# A verification development for meta-gumstix-extras

meta-gumstix-extras is an OpenEmbedded layer. Most of it is build metadata; the
programs it carries are small, and they talk to hardware: a MAVLink relay
daemon, the first-boot resizing of the root file system, the I2C tool and
library behind the DLP projector, EEPROM writers, serial and SPI tests, and a
few service units. This directory models those programs in TLA+, checks the
models with TLC and proves theorems about them with TLAPS.

    tlc -workers 2 -config relay.cfg MCMavlinkRelay.tla          # one run
    tlapm I2cProofs.tla                                          # one module of proofs

`PROJECT.json` lists the runs, the mutants that show each property can fail, the
source lines each definition stands for, the findings, the hazards and the
theorems.

## Inventory

| Component | Source | State it keeps | Operations | Modules |
|---|---|---|---|---|
| MAVLink relay | `recipes-extended/mavlink-socket/files/mavlink_socket.c` | one socket, one tty, the parser's channel, a buffer and an index per thread | `open_port`, `setup_port`, `open_UDP`, `serial_wait`, `udp_wait` | `MavlinkRelay`, `LossyRelay` |
| resize-rootfs | `recipes-core/resize-rootfs/`, `scripts/lib/wic/canned-wks/` | partition table, file system, the unit's link; the kernel's view of the partition | the script, the unit, `resize-disk` | `ResizeRootfs` |
| I2C library | `picodlp-control/i2c-api.c` | slave address, CRC setting, two messages per call | `I2cSetSlaveAddress`, `I2cTransfer` and its callers, `I2cReceiveBytes`, `I2cSendBytes` | `I2cTransfer` |
| SMBus CRC | `picodlp-control/Crc8.c` | the CRC in the loop | `Crc8` (twice), `Crc8Block` | `Crc8` |
| I2C tool | `picodlp-control/i2c.c` | the parsed command line | one run of `main` | `I2cTool` |
| picodlp-control | `picodlp-control/picodlp-control` | the projector's registers | one command of the script, by several users | `PicoDlp`, `Projector` |
| EEPROM writers | `omap3-writeprom/writeprom.sh`, `scripts/uenv-generator` | 94 bytes of EEPROM | write the board description | `BoardEeprom`, `BoardDescription` |
| UART loopback | `uart-loop-test/uart_loopback.c` | bytes on their way round | flush, write, select, read, compare | `UartLoopback` |
| SPI test | `spidev-test/spidev_test.c` | the mode, two buffers | options, unescape, transfer | `SpiTest` |
| Service units | `hostapd/`, `ttn-pkt-fwd/` | interface, NAT rules, GPIO, processes | start, stop, restart | not modelled |
| Scripts without state, configuration, patches, recipes | the rest | - | - | not modelled |

**How they interact.** `picodlp-control` runs the I2C tool once per register;
the tool calls the library, which computes CRCs with `Crc8` and hands its
messages to the kernel driver. `I2cTool` extends `I2cTransfer` for that reason:
a step of the tool in its `transfer` stage is a step of the library. The CRC of
`I2cTransfer` is symbolic (two CRCs are equal when they cover the same bytes);
`Crc8` says which errors the real CRC tells apart. The two threads of the relay
share the parser's channel, the socket and the tty, and nothing protects the
channel. systemd runs two processes of the resize unit side by side; they share
nothing but the unit's fate. The two EEPROM writers never run together but
write the same chip, which the boot loader reads at its next start. Users of
`picodlp-control` share the projector, and nothing keeps their runs of the tool
apart. One run of the UART test meets the bytes that an earlier one left on the
line.

**What is hard.** The relay: threads that interleave in one parser, a data race,
a flush that races the UART, an unsigned result. The resizing: power cuts
between three writes that depend on each other, tools that fail in a script
without `set -e`, a service disabled while it still works. The I2C stack:
lengths that come from the other side, a CRC that has to cover exactly the right
bytes, noise, a block flag that shares its byte with a length. The scripts on top
of it: commands of several registers with no result looked at, a description
written byte by byte over an older one. The tests: late bytes, a `select()` on a
set nobody cleared, a buffer measured from the wrong character. Every hazard is
in `PROJECT.json`, at its line, with the properties that watch it, or a note.

**What makes each part correct.**

* Relay, until calls of the parser meet or `recv()` fails: no frame is invented,
  repeated, reordered or echoed; a frame that is not disturbed comes through if the
  parser is in step when it begins, and it comes into step again; the autopilot never
  sees two frames mixed. In any case: `udp_wait` always returns to `recv()`.
* Resizing: a run without a failing tool fills the card, whatever cuts and faults
  came before it; in the end the card is filled.
* I2C library: no buffer is overrun, a result of 0 means the transfer asked for
  took place, and a good exchange is never reported as a bad one.
* CRC: the loop divides by the polynomial, both implementations agree, and every
  burst of 8 bits is noticed.
* I2C tool: what is parsed fits, what is printed is what the slave said, what is
  told is what was typed.
* picodlp-control: the registers of a setting are together what one command asked
  for, unless a tool run failed or two users met.
* EEPROM writers: no text runs into the next field, and a run without a fault
  leaves exactly its description, whatever was there before.
* UART test: a run that passes had all its characters back, or lost no more than
  came late; a run ends.
* SPI test: what is sent is what was typed and fits its buffer.

## Modules

### MavlinkRelay, LossyRelay

`pc[s]` is the statement the thread that reads side `s` is at; `main` is how far
`main()` has got. `OpenPort`, `SetupPort`, `OpenUDP`, `StartSerialThread` and
`StartUdpThread` are its steps. `serial_wait` is `SerialRead`, a call of
the parser and `SendUdp`; `udp_wait` is `Recv` or `RecvFails`, the loop
(`LoopDone`, `Overrun`), a call of the parser per byte, `WriteSerial` and
`FlushSerial`. A call of `mavlink_parse_char` has a beginning and an end
(`ParseBegin`, `ParseEnd`), so that two calls may meet: they work on the same
channel without a lock, and then the byte may be taken, lost or counted into
something that is no frame, the result may be the other call's, and the message may
be either side's or torn (`RacedParseEnd`). A failed `recv()` makes `recvLen` the
largest unsigned number: the loop parses what the buffer still holds and the stack
behind it, bytes that are copies of the stream's or anything else (`Held`), until it
leaves the stack and the process is killed (`Overrun`). A `write()` may queue any
number of the bytes (`WriteSerial`). `UartSend` transmits the output queue at its
own pace, and `FlushSerial` empties it. The program is modelled as it is built, with
`debug` 0 (line 65): what it prints, and the index the printing shares with the loop
(line 446), is left out.

Each side is a stream of numbered bytes. A frame is named by its first byte, and
`Behind` says where it ends: frames differ in length, and there may be bytes between
them that belong to none. Any byte may look like a start marker (`Lookalike`). A
checksum is right exactly for all the bytes of one frame: one that is right by chance
is outside the model. The parser is generated code outside the repository, and `Feed`
says what the daemon relies on. The channel is idle, or inside a frame whose bytes it
has up to `n`, or astray: it waits for `k` more bytes of something that will turn out to be
no frame. A wrong byte behind the marker is read as the length, so that the parser
may wait for anything up to a frame of the greatest length (`Missing`), several short
frames included; in the end the checksum fails and the last byte is tried as a marker
(`Collect`). An empty datagram and a `read()` of nothing change nothing and have no
action. `upset[s]` is history: the byte of side `s` before which its stream was last
disturbed, by a lost byte, a byte of the other side or the cut of a datagram.

`LossyRelay` is what a user may count on: two one-way relays, in order, at most
once, and nothing any more once the daemon is out of order. `MavlinkRelay!RelaysInOrder`
is its specification under the mapping that keeps `heard` and `out`, the daemon being
out of order when calls have met or `recv()` has failed.

### ResizeRootfs

What is on the card (`table`, `fs`, `backup`, `enabled`) survives a power cut;
`kernel` and `pc` do not. `Boot` starts the script and leaves
`ExecStartPost` to run (`post`), the two being independent from then on, as
`Type=simple` has it; `Disable` may come at any time, and `DisableFails` kills
the script. Each line of the script that changes something is an action, and each
tool may fail (`Fault`) and leave things as they are. A cut may undo the removal of
the unit's link when it has not reached the card yet. `clean` records whether a
tool has failed in this run. `parted` refuses an end behind the start of the next
partition, and one in the sectors that a GPT keeps for its backup (`Room`,
`LastUsable`): the script always asks for the last sector of the card (line 47), so that
a card with a GPT is never resized. `ResizeDisk` is the SysV script: the helper it calls
is not installed.

### I2cTransfer

One call at a time, from `Invoke` to `Return`: `Refuse` for lengths over
`I2C_MAX_DATA_LEN`, `Build` for the two messages, `SlaveHears` for the exchange,
`Finish` for the checks of the answer. `PassBuffer` is the way of
`I2cReceiveBytes` and `I2cSendBytes`. The driver may fail (`DriverFails`) and
the bus may replace bytes (`Noise`). The slave is external: it says what it
likes, up to what `Answers` offers, and forms its CRC as SMBus says. A block's
length byte is what the slave sends; the code trusts it only up to the length
asked for (`TooLong`, `rdLen`). Lengths keep their width: `BlockFlag` is the top
bit, `AsBlock` and `Low` are `0x80 | n` and `n & 0x7f`.

### Crc8

A byte is the set of its 1 bits. `NextByte` is an iteration of `Crc8Block`,
`LoopBody` one of the loop in `Crc8`; the sender's CRC, the receiver's and the
one of the implementation under `#if 0` run side by side, and a burst may change
the bits of one byte or two.

### I2cTool

One run of `main` from the options to the exit status. An argument is what
`strtol` makes of it, signs and the empty text included, and a text behind `0x` is the
sequence of its digits; `NoNumber` stands for what is none. `Process` parses and calls
the library; `Transfer` is the library at work; `Finished` prints and leaves with
0, whatever the result. Several options on one command line and numbers with text
behind them are left out.

### BoardEeprom, BoardDescription

`Call` is a run of either program that passes its checks: the shell script
compares the fab revision only, because `${#envar}` and `${#ensetting}` name
variables that do not exist; the generator compares all three with the 0 counted
in. A run then writes five parts, `WriteHeader` to `WriteSetting`, one byte at a
step (`WritePart`); each byte may be lost without anybody noticing (`I2cSet`), and
`PowerCut` ends a run anywhere. The generator prints the commands and the boot
loader executes them: here that is one run. `WritesEnv` is the condition for the
last three parts, which in the script is never true. `chip` is the address the
EEPROM of this machine answers to: the script always writes to 0x50.

`Reading` is what the boot loader makes of the bytes. `BoardDescription` is the
promise: from the beginning of a run nothing is said, a run that ends well says
exactly its description, and a run that was cut or lost a byte says nothing until
another one ends well. The mapping reads the memory (`says`) whenever the last run
was complete and clean.

### PicoDlp, Projector

A command is its setting and what each of its registers is to be (`Wanted`); a run
of `bus3-i2c` is one step (`ToolRun`), which writes a register or does not, because
the tool failed or an argument was missing, and the script goes on in either case.
The tool leaves with 0 in all cases (`I2cTool!Finished`), so the script could not
know. The histories `dirty` and `spoiled` record which commands lost a write or met
another one half way, and which settings such a command has left.

`Projector` is the promise: a setting is shown only as one request chose it; half
way it is unknown; a request that met no trouble has made its choice. In the
mapping a setting is shown when nobody is half way through it and the last command
for it was neither dirty nor spoiled.

### UartLoopback

The statements of `main` with the line between them: `Deliver`, `Lose` and
`Corrupt` are the line's, and a byte may stay on it beyond the end of a run. `Start`
flushes what has arrived, not what is under way. A bit of `readfs` that nobody
set (`stray`) may make `select()` return although nothing has come
(`SelectStray`), or with an error, which the code takes for the same; `Read` then
waits without limit. `NextChar` wraps at the end of a char. `Interrupt` is the
user's. The histories count the bytes that came late and those of this run that
the line lost or changed.

### SpiTest

`Option` and `OptionsEnd` are `parse_opts`, `Setup` the ioctls that settle the mode
(the driver refuses two widths for one direction, and passes over widths the
controller has not), `Allocate` the buffers, `Unescape` the loop over the text and
`Transfer` the exchange and the dump. Characters are tokens: a digit, another one,
the backslash and the x. A byte is the characters that spell it, so that a text
read right is the concatenation of its bytes. `Behind` is the memory behind the
argument, which a text that ends in an unfinished escape makes `unescape` read. A store behind the buffer, which a text without an escape leads
to, is modelled by what a build makes of it: the byte lands in the padding or in the
header of the next block of the heap, and is sent and dumped from there
(`UnescapeStep`); what `free()` makes of it comes behind the dump. An
empty text (`-p ""`) is left out, and with it the reading of the byte behind its
end. The branch that takes the transmit buffer away (lines 127-128) is never
reached: the receiving widths are set together with the loop only.

## Runs

| Run | Shows | Bounds |
|---|---|---|
| `relay` | type invariant, frames without gaps, `LoopTerminates`, in spite of a failed `recv()`, a short write and calls that meet | one frame of 2 bytes each way, a buffer of 3 bytes, a byte of stack behind it |
| `relay_in_order` | the refinement, resynchronisation | 3 frames of 3, 2 and 2 bytes up, 2 frames of 2 and 3 bytes down, a lookalike at the end and in the middle of a frame, a buffer of 3 bytes; 2 lost bytes, a short write. Calls do not meet and `recv()` does not fail: the properties promise nothing behind that |
| `relay_shared_channel` | violation: frames are lost on a perfect line | one frame each way |
| `resize` | clean runs, and that the card is filled | a card of 4 units, 2 cuts, 2 failing tools, all partition tables, both init systems |
| `i2c_transfer` | buffers, exactness, completeness | 2 data bytes, a flag of 4, 2 bytes of noise |
| `crc8` | remainder, agreement, burst detection | 2 byte values, 3 bytes, all bursts over 2 bytes |
| `i2c_tool` | arrays, printing, telling | binary digits, 4 data bytes, texts of up to 9 digits, 1 byte of noise |
| `eeprom` | texts stay in their fields; the EEPROM implements `BoardDescription` | fields of 3, 2 and 2 bytes, texts that just fit, fit, and do not; two boards, a lost write and a cut; machines with the chip at either address; runs without end |
| `eeprom_variable` | violation: the optional variable is not written | the same, without faults |
| `picodlp` | the registers implement `Projector` | 2 users, settings of one, two and three registers, two command lines that differ in each argument, one missing argument, one failing tool run |
| `uart` | damage is noticed, late bytes stand in for no more than their number, runs end | chars 0 to 3 from 1 on, counts up to past the end of a char, 3 runs, 2 faults |
| `spi` | buffer and text, what a loop gives back | all texts of up to 4 tokens, 5 longer ones, all modes and controllers |

Why the bounds are enough. Relay: a frame of three bytes is the least with one that is
neither first nor last; with frames of two lengths a parser that has gone astray
may wait for less than a frame, a frame, or more than one; three frames show a
disturbed one, its successor, and one that has to come through; a buffer of 3 bytes
takes one datagram whole and cuts another. Each way in which `InStep` may hold occurs
in `relay_in_order`, with the stream disturbed before it. In `relay`, a byte of stack
is enough for the loop to leave the array before it is killed, and one meeting of calls
leaves the channel, both messages and the result in any state. Resizing: two cuts give a run that starts from what a cut
and a second run have left. I2C: a flag of 4 with 2 data bytes keeps the order
limit < flag and a length of 3 between them; 2 bytes of noise may change the data
and the CRC alike. CRC: the CRC is linear, so what matters is where a burst
lies, and three bytes have one before, within and behind the burst. EEPROM: runs
follow each other without bound, so that each description is written over each
other one, and over each half a cut left. Projector: two users are the least who
can meet, and three registers give a first, a middle and a last one. UART: a byte
of the first run may come in the second or the third; four chars have one before
and two behind the first, and the largest count goes round the end. SPI: four
tokens are an escape and everything that looks like one; the longer texts have
something in front of it and behind it. In `resize` the partition behind is out of
the way, as the premise of `ExpandsUnlessCutLate` asks; `CleanRunFills` is proved for
any place it may have.

Deadlock is checked in `i2c_transfer`, `eeprom` and `picodlp`, whose users always
go on. The other
systems may stop: the streams of frames and the runs of the test are bounded, the
script and the tools exit, a message has an end.

**Fairness.** `MavlinkRelay`: weak fairness of the start of the threads and of
each thread, because the kernel schedules a runnable thread; nothing is assumed
of the line, the UART or the ground station, and a thread blocked in `read()` or
`recv()` is not enabled. `ResizeRootfs`: weak fairness of `Boot` (a card that is
never powered up again shows nothing), of the two processes of the unit and of
the SysV script; a cut is never forced, and their number is bounded.
`UartLoopback`: weak fairness of the steps of the program alone (`Step`), among them
the timeout of `select()`, which the kernel guarantees; nothing of the line, and
nothing of the user.

## Proofs

All for every value of the constants that satisfies the named assumptions.

* `MavlinkRelayProofs`
  * `TypeCorrect`: `TypeOK`, meetings of calls and failures included. Until `recv()` has
    failed, the index is inside the buffer when a byte is parsed or its frame forwarded.
  * `WirePrefixes`: `WireHasPrefixes`. Not inductive as it stands: as long as no calls
    have met, the wire followed by the output queue has the property (`Apart`). A flush
    cuts the queue off (a prefix of a sequence with the property has it), a
    short write appends a prefix of a frame, which the flush behind it ends, the UART
    moves the border. That a message is a frame needs the shape of the channel
    (`ShapeInv`, `Coherent`).
  * `RelayRefinement`: `RelaysInOrder`, without an assumption on the constants beyond
    those of the module: a step that puts the daemon out of order is the step of
    `LossyRelay` that ends its promises. The invariant ties buffer, index and `heard`
    (`Geometry`) and orders the frames (`Ordered`): what was forwarded
    is before the message, which is before what is in the channel, which is
    before what is still to parse (`Ahead`).
  * `Resynchronised`: `Resynchronises`. The parser may hold anything when a frame begins,
    the other side's bytes included. `Placed` says where it can be: between two frames, in
    one of this side's, or astray in something that began no later than at the last
    disturbance and is over `MaxLen` bytes behind it, unless a lookalike has come
    since. `Synced` adds that behind a frame that was decoded, and before the
    first one, the channel is idle; `Delivers` says which frames have
    been decoded so far. Frames may have any lengths, which is why the distance is
    counted in bytes and not in frames.
* `ResizeRootfsProofs`: `ResizeInvariant`, from which `CleanRunCompletes`
  (`CleanRunFills`). It needs what a clean run has reached at each statement
  (`Reached`), that a card without partitions never takes the long way (`Whole`), and
  that the file system never passes the end of its device, which the tools see to
  (`Nested`).
* `I2cProofs`, the library: `BuffersNeverOverflow` (`BuffersFit`) for every call and
  every slave, from `BufferInvariant`, which gives the lengths of the two messages
  at each stage; `SuccessIsExact` (`Exact`) for calls with legal lengths
  (a block of a byte or more, and no length over the limit): the CRC of the
  caller covers what was sent, so that equal CRCs mean equal bytes. The same
  invariant (`ExactInvariant`), with what arrives when there is no noise, gives
  `GoodExchangesSucceed` (`Complete`). `TransferTypeCorrect` is the type invariant.
* `I2cProofs`, the tool: every step of the tool is a step of the library or leaves it
  alone (`ToolUsesLibrary`), so that what is proved of the library holds in the
  tool. On top of it `ToolInvariant`: the library is called only behind a command
  line without a mistake, with lengths that neither ask for a block nor pass the
  limit, and the message and the answer on their way are what that line asks for.
  From it `DataByteNeverOverrun` (`WithinDataByte`), `AnswerIsPrinted`
  (`PrintsTheAnswer`) and `TypedIsTold` (`TellsWhatWasTyped`).
* `Crc8Proofs`, for messages of any length:
  * `EveryBurstDetected`: `BurstDetected`. An iteration of the loop is linear
    (`StepLinear`), so that the difference of the two CRCs goes its own way and
    depends on the burst alone, and it maps a difference that is not empty to one that
    is not (`StepDiffers`); so does a byte changed while the CRCs agree
    (`ChangeDiffers`). What is left is a burst over two bytes, where the second change
    might cancel the first. `Window(j)` says that it cannot: the burst's bits of the first
    byte lie below `j` and those of the second at `j` or above (`Lowest` picks the `j`).
    Until the highest of the former reaches bit 7 the difference is those bits
    shifted up; behind that it has a bit that the second byte's change has not
    (`WindowMoves`, `ByteKeepsApart`).
  * `CrcIsRemainder`: `IsRemainder`. The invariant `Divided` is about the eight
    iterations over one byte, behind any message: the first `i` of them have subtracted from
    `input`, what they started from, a multiple of the generator, and the witness
    is a quotient of `i` bits, to which an iteration adds one (`PassDivides`,
    `ProductIsMultiple`).
  * `ImplementationsAgree` (`SameAsTraditional`) keeps the register of the old
    implementation equal to the new one's shifted by eight bits.
* `BoardEepromProofs`: `NoSpill` (`FieldsApart`) and `DescriptionRefinement`
  (`Described`) for all layouts, texts and faults. The invariant `BoardInvariant` says
  which bytes of the run's description are in the memory as long as the run is
  clean: the parts behind it, and the current one up to `n`. `FieldsApart` rests on the
  comparisons of lengths and, for the script, on its never writing a variable.
* `PicoDlpProofs`: `PicoRefinement` (`ChosenAsAWhole`) for any number of users.
  Invariant (`PicoInvariant`): the command of a user who is not dirty still has the
  registers it has written (`Kept`); two users half way through one setting are both
  dirty (`MetAreDirty`).
* `UartLoopbackProofs`: `DamageIsNoticed` and `LossesAreLate`, from `UartInvariant`:
  between two characters the bytes under way and the bytes lost are together at most
  those that came late, in the middle of a character one more (`Balance`); with
  nothing late, the byte under way is the one written (`Undisturbed`).
* `SpiTestProofs`, for every text, whatever lies behind it in memory, and every
  controller: `SpiTypeCorrect`, `BuffersFitEscapes` (`FitsWhenEscaped`) and
  `LoopEchoes` (`LoopShowsWhatWasTyped`), from `SpiInv`.
  `Aligned` has what `unescape` has done so far: the bytes stored spell the text up to
  `src`, one for each character until an escape is passed (`Passed`), and three fewer
  for each escape. The concatenation of the bytes is `FlattenSeq`, a recursive function;
  `Spells` holds its value and is unfolded one byte at a time (`SpellsMore`), as
  the loop appends them. `Loop` has that a loop gives both directions the same width
  before the controller's own are taken away. The
  assumption on the constants is that the tokens are different from each other.

Only model-checked: the liveness properties `LoopTerminates`, `ExpandsUnlessCutLate`
and `Ends`, because fairness and ENABLED are out of the prover's reach. Every
safety property of the runs that pass is the statement of a theorem. No module of the
project declares a RECURSIVE operator.

## Findings

* Both threads of the relay parse on `MAVLINK_COMM_1`; a frame is lost whenever a
  byte of the other direction arrives while it is being read
  (`relay_shared_channel`).
* `writeprom.sh` never writes the optional variable: it asks for 5 arguments where
  only 4 or 6 get through (`eeprom_variable`).

Seen in the models, without a run of their own:

* Relay: `tcflush(fd, TCOFLUSH)` behind `write()` discards the message just written
  (`FlushSerial`); a failed `recv()` is a huge `recvLen`, so that the bytes of an
  earlier datagram are parsed again, the loop runs out of its array and the daemon is
  killed, which its unit does not restart (`RecvFails`, `Overrun`).
* Resizing: the service is disabled before the work is done, so that a power cut
  during it is never repaired (`Disable`, and the premise of
  `ExpandsUnlessCutLate`); on a GPT the end that is asked for lies in the backup of the
  table, so that `parted` refuses and nothing is ever resized; the image of
  `sdimage-gumstix.wks` has a swap partition right behind the root partition, which leaves
  nothing to expand into (`Room`); with SysV init nothing is ever resized
  (`ResizeDisk`).
* I2C: a block write of no bytes sends a byte that was never set, and a block of
  0x80 bytes or more is cut down instead of refused (`Build`, `Low`);
  `I2cReceiveBytes` does not take part in the CRC. The tool cuts a register number to
  its low byte (`ToByte`), leaves with 0 after a failed transfer (`Finished`),
  writes as many bytes as were typed for `WriteByte4`, and knows `sb` where the
  usage text names `sd`.
* EEPROM: `writeprom.sh` overwrites the address it has chosen for the machine
  (line 55), so that every write is lost where the chip is at 0x51 (`Call`); the
  lengths of the variable and its setting are never compared.
* UART test: `readfs` is never cleared, and `read()` may wait for ever
  (`SelectStray`); with `-c` beyond the end of a char the loop does not end.
* SPI test: a text without an escape is a byte longer than its buffer
  (`FitsWhenEscaped` says when it is not); a transfer at half duplex dumps what
  the buffer held before (`HalfDuplex`, `Transfer`).

## Plan

Done, in this order: `LossyRelay` and `MavlinkRelay`, `ResizeRootfs`, `I2cTransfer`,
`Crc8`, `I2cTool` on top of `I2cTransfer`, `BoardDescription` and `BoardEeprom`,
`Projector` and `PicoDlp`, `UartLoopback` and `SpiTest`, each with its proofs.

What is left: runs of their own for what the models show of the failed `recv()`, the
flush and the resizing of a card with a GPT.

## Not modelled

Logging and dumping (`Log.c`, `DumpMem.c`): text only. The boot loader and kernel
headers: other programs' interfaces. `caspa-stream-raw`, `ttn-pkt-fwd.sh`:
external tools in a straight line. `hostapd.service`, `ttn-pkt-fwd.service`: the
behaviour of these units is that of systemd, `iw` and `iptables`; a model would
be one of systemd. Configuration of network, DNS, navigation and wireless daemons;
patches to programs that are not in the repository; recipes and images: data for
programs outside the repository.
