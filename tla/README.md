# Formal models of common-embedded-platform

TLA+ models of the firmware platform in `src/`, checked with TLC on small
instances and proved with TLAPS where a proof for every size is within reach.
Paths below are relative to `src/`; line numbers are in `PROJECT.json` (`map`).

## 1. The system

The repository is a C++ platform for STM32 boards: a main loop, a power
supervisor, a bootloader, a multicore log transport, and services for boards
with an FPGA and a network. There is no preemption: every core runs a loop
that calls `Iteration()` of each of its tasks. What makes the code hard is
therefore not threads inside a core but everything around it: pins that move
between two accesses, other cores, a clock that is set back, flash that is
written in several steps, power that fails between them.

| Component | State | Operations | Interacts with | Hard part | Correct when |
|---|---|---|---|---|---|
| Power and reset sequencer (`supervisor/PowerResetSupervisor`, `RailDescriptor.h`, `ResetDescriptor.h`) | two flags, two indices, the pins | `PowerOn`, `PowerOff`, `PanicShutdown`, `Iteration` | application, rails and devices of the board | pins that move during a sequence, failures half-way | flags match pins; rails and resets go up and down in order; lasting failures are acted on |
| Main loop and timer tasks (`core/main.cpp`, `core/TimerTask`) | clock, deadline per task | shift, `Iteration`, `Restart` | every task; delay lines share the clock | the clock is set back every 60000 ticks | nothing early, no deadline out of reach |
| IPC FIFO (`multicore/IPCDescriptorTable`) | buffer, length, flag in shared memory | `Push`, `Peek`, `Pop` | another core, the data cache | order in which stores become visible | a message arrives whole, once, in order |
| Multicore log device (`multicore/MulticoreLogDevice`, `core/LogFlushTask.h`) | local buffer and fill level | `PrintBinary`, `Flush`, `LookupChannel` | IPC FIFO | two layers of buffering | the log is one stream, and all of it arrives |
| Bootloader (`bootloader/`) | partition, version and CRC in a key-value store, reset cause | boot decision, validation, erase, hand-over | application, update flow, debugger | power loss between two stores, decayed flash | what boots is on record; no crash loop; good images keep booting |
| Sensor polling and SPI server (`supervisor/supervisor.cpp`, `*Reader`, `SupervisorSPIServer`, `core/SPITask.h`) | poll state, reader state, published readings | `PollIBCSensors`, `OnCommand` | I2C bus, main CPU over SPI | a slave that hangs, two nested state machines on one bus | a reading is whole and of the right register; polling survives a hang |
| FPGA updater (`fpga/FPGAFirmwareUpdater`) | parser state, two buffers, flash address | `OnRxData`, erase, write, finish | SFTP server, FPGA flash | data cut at any point of the format | the image is in flash exactly as sent, or the update is refused |
| Iperf3 server (`services/Iperf3Server`) | a session per connection | connect, data, close, `Iteration` | TCP/IP stack | several clients in different states | every client gets an agreement, a stream and a result of its own, and no stream is starved |
| SSH keys (`tcpip/SSHKeyManager`) | table of keys | add, remove, load, commit | key-value store, SSH server | table and store apart until commit, commits cut off | what was committed is what is loaded; a removed key is out |
| NTP client (`services/STM32NTPClient`) | settings | load, save | key-value store | values equal to a default are not stored | saved settings survive a restart |
| TCP/IP set-up and command line (`tcpip/CommonTCPIP`, `cli/CommonCommands`) | IP configuration | `set ip address` and others | TCP/IP stack, key-value store | two parsers and bit arithmetic on what a user types | the configuration is the one typed, or unchanged |
| Link task (`tcpip/PhyPollTask`) | link state and speed | timer | PHY, TCP/IP stack | the link moves between two reads | the speed published is the link's |
| I/O expander (`drivers/TCA6424A`) | copy of the registers | single lines, batches | I2C | copy against chip, writes that get lost | other lines are left alone |
| Ethernet PHY (`drivers/VSC8512`) | none; pages and a processor in the chip | set-up, health check, temperature, output tap | MDIO | the page is state that every routine must leave as it found it | every access meets the register it means |
| IPC table and start-up (`multicore/IPCDescriptorTable`, `core/MulticoreStartup.S`, `core/main.cpp`) | table in shared memory, start-up word | construct, allocate, find | both CPUs | memory survives a reset; three cores in order | a core logs into its own, complete channel |
| Others: `fpga/Ethernet`, `AcceleratedCryptoEngine`, `FMCUtils`, `DeviceID`, `core/hardware-id.cpp`, `core/SPITask.h`, ageing tasks, `boilerplate/`, `supervisor-bsp.cpp`, `postbuild/` | none or hardware registers | set-up, printing | - | - | - |

`PROJECT.json` has the list with files (`components`) and, at its line, every
hazard known (`hazards`).

## 2. The modules

| Module | What it is |
|---|---|
| `PowerSequence` | abstract: what the supervisor promises the board |
| `PowerReset` | the supervisor, one pin access per action; implements `PowerSequence` |
| `PowerResetProofs` | theorems about it |
| `Mailbox` | abstract: one direction of an IPC channel |
| `IPCFifo` | `Push` and `Pop` step by step over a write-back cache; implements `Mailbox` |
| `LogStream` | abstract: what a core that logs through another may rely on |
| `MulticoreLog` | the log device composed with `IPCFifo`; implements `LogStream` |
| `MulticoreProofs` | theorems about the FIFO and the log device |
| `TimerTasks`, `MCTimerTasks` | main loop, clock shift, timer tasks, delay line |
| `TimerTasksProofs` | theorems about it |
| `Bootloader` | the boot decision, flash and store, update flow, resets |
| `BootloaderProofs` | theorems about it |
| `SensorPoll`, `MCSensorPoll` | sensor polling over the readers and the I2C bus, and the SPI server |
| `SensorPollProofs` | theorems about it |
| `FPGAUpdate`, `MCFPGAUpdate` | the FPGA firmware updater; the files it is given |
| `FPGAUpdateProofs` | theorems about it |
| `IperfSessions` | abstract: what the benchmark server promises each client |
| `Iperf3Server`, `MCIperf3Server` | the server, one call per action; implements `IperfSessions` |
| `Iperf3Proofs` | theorems about it |
| `MicroKVS` | the key-value store as the settings use it |
| `SSHKeyManager` | the list of keys and its copy in the store |
| `STM32NTPClient` | the settings of the NTP client and their copy |
| `CommonCommands` | the command that sets the IP address |
| `VSC8512` | the PHY driver, its register pages and its processor |
| `PhyPollTask` | the poll of the link |
| `TCA6424A` | the I/O expander driver and the chip |
| `IPCTable` | the table of channels and the start of the secondary CPU |
| `MCBoard` | the last seven, `TimerTasks` and `Bootloader` side by side, for one run |
| `BoardProofs` | theorems about the last seven |

A definition `X_Something` just before a definition `X`, marked *Variant*, is
`X` with a plausible mistake; each checked property is known to fail with one
of them in place of `X` (`mutants` in `PROJECT.json`).

### PowerReset

State: `m_powerOn`, `m_resetsDone`, `m_resetSequenceIndex`,
`m_monitorRailIndex` are the class's members; `enabled` and `released` the
output pins; `pgood` and `ready` what `IsPowerGood()` and `IsReady()` would
answer now. `pc` and `k` are the call in progress and its loop index, `tick`
the poll counter of `TurnOn()`, `caller` the return address of the two
shutdown routines.

Actions: each stops at a pin access, because that is where the board can have
moved on. `CallPowerOn`, `RailEnable`, `RailPoll`, `FinishPowerOn` are
`PowerOn()` with `TurnOn()` of its rails; `CallPowerOff`, `OffReset`,
`OffRail` are `PowerOff()`; `CallPanicShutdown`, `PanicRail`, `PanicReset` are
`PanicShutdown()` up to `OnFault()`, which by default never returns and in a
board's own class may (`FaultOutcomes`); `AdvanceReset` (asks the active
line), `ReleaseNext` (releases the one behind it), `ScanReady`,
`ReassertLater` are `UpdateResets()`; `MonitorRail` is `MonitorRails()`.
`PowerGoodChanges`, `DonePinChanges`, `DelayElapses` are the board.

The refinement maps the window from the first rail a panic drops to the last
line it holds to the abstract mode `panic`; everything else is `normal`, where
a rail may only drop with all resets held and a reset may only be released on
a fully powered board after the one before it was seen ready. It is seen, not
known to be: `UpdateResets()` asks at line 124 and releases at line 138, and
the device may go down in between. The abstract `seen` is therefore the answer
to the last look. It permits one release and is void once anything but the
pins has moved (`SeenReady` maps it to the window between the two actions).
What then happens to a device that stays down is `NotReadyHoldsLaterLines`.

Assumed: neither sequence is empty (the code indexes element 0 of both), and
`PowerOn()` is called on a board that is off.

### IPCFifo and MulticoreLog

Producers share a data cache and the consumer reads memory, so buffer and
length have a cached copy (`bufC`, `lenC`) and one in memory (`bufM`, `lenM`).
A store changes the first; `CleanDataCache` and `Evict`, which may happen at
any time, carry it to the second. The flag `busy` is a bit of the IPC
controller and uncached. `pc`, `msg`, `wi` are a producer inside `Push()`;
`rpc`, `rlen`, `ri`, `rxbuf` the consumer inside `Pop()`. The cache itself and
the IPC controller are external. Messages are at least one byte long, as the
log device's are.

`MulticoreLog` adds the local buffer of one secondary core (each core has its
own) and whether it has found its channel. `PrintBinary` and `FlushTask` start
a `Push()` whose argument is the local buffer; the core does nothing else
until it returns (`Running`). `LookupChannel` may find the channel or not. The
refinement to `LogStream` concatenates what is in memory, in a `Push()` and in
the local buffer.

### TimerTasks

`count` is the log timer; `CheckOverflow` is the top of the loop
(`UpdateOffset()` of the log library and the call of every `OnTimerShift()`),
`NotDue`, `StartOnTimer`, `FinishOnTimer` are `TimerTask::Iteration()`, which
reads the clock before `OnTimer()` and uses what it read after it. `Restart`
may come from any code the loop runs but the task's own `OnTimer()`, after
which `Iteration()` sets the deadline anyway. `Deassert` and `IsReady` are the delay
line of `supervisor/ResetDescriptor.h`, which uses the same clock and is told
of no shift. `Tick` may happen anywhere, up to `MaxLoop` times in one pass.
`since` and `age` are history: real ticks since a task's last run and since
the line's release. They count only as far as the properties look.

### Bootloader

A block of the partition is blank, of an image, or decayed; the first holds
vector table and build ID. `CheckResetReason` is `Bootloader_MainLoop()`,
`Validate`, `StoreVersion` and `StoreCRC` are `ValidateAppPartition()` cut at
its two stores, `EraseBlock` is `EraseFlash()`, `BootApplication` sets the
state to APP and jumps. The CRC of a partition is modelled by its contents: a
collision is not considered. External: the update flow (erase, then blocks in
any order), the application, the debugger, power, and the decay of flash.
`ran` and `recorded` are history: what booted last and how much of it the two
stores got down.

### SensorPoll

One `Poll` is a call of `PollIBCSensors()`, with one disjunct per way through
it: `StartAddress`, `SendRegister`, `StartRead`, `FirstByte`, `LastByte` are
the states of a reader (`IBCRegisterReader`, `TempSensorReader`) taking its
step for the sensor whose turn it is, `LastByte` and `ReadAdc` publish the
value and move on, `NotYet` is a poll without progress, `WrapAround` the end of
the rotation, `TimedOut` the reset after too many polls without news.
`OnCommand` latches a published value for the main CPU, which clocks it out
byte by byte (`HostClocksByte`) between polls. External: the I2C bus, which
finishes its steps by itself (`BusStepDone`), and a slave that stops answering
in the middle of one (`SlaveGone`) until the next reset. A slave latches one of
two samples when it starts to send; a byte is marked with its sensor, sample
and half, so that a mixture shows. `waited` bounds how long a healthy step may
take (`MaxPolls`), `losses` the number of hangs (`MaxLosses`). Not modelled:
the start-up reads of version strings (`Super_InitI2C`, `Super_InitIBC`) and
the sensors of `LEGACY_IBC` boards.

### FPGAUpdate

A file is a sequence of bytes of which each knows the field it belongs to (a
header record, padding, sync word, packet, data), which is all the parser
looks at. Buffers and flash hold positions in the file, so that a byte at the
wrong address shows. `OnDeviceOpened`, `OnRxData` and `OnDeviceClosed` are the
entry points; `OnRxData` cuts the file anywhere (see `CutsE` below). One parser
action is one branch of `ProcessDataFromBuffer()`, which `Returns` to the loop
in `OnRxData`; `PushBlock` is one block of `PushWriteData()` with its readback,
`FlushRest` the end of `FlushWriteData()`. A flash write can fail at any time
and then leaves the cells in no known state (`faulty`); it must fail where the
cells are not blank. Circular buffers and flash are external: a push that does
not fit stores nothing, and what a pop of more than there is does is left open.

Assumed in the passing run, and each refuted without it: no piece ends with
the third or fourth of the five bytes in front of the image
(`CutsE = FALSE`), and the erase leaves nothing in the way of the blank check
(`PartitionErasable`: the partition is a whole number of sectors, and nothing
below its size is in use in front of it; in the run it starts at address 0).
Also assumed, and
evaluated by TLC for the files of the run: `IsFile`, what a .bit file is (whole
fields, the header's records in front of the image, one `e` record, one command
that ends the bitstream); `BuffersSuffice`, a piece, the longest packet and a
write block fit into a buffer together, which is up to the SFTP server (4096
bytes in the code); and `ImageFits`, the image, with the five bytes of the `e`
record, fits the partition; `SoundFilesWhole`, a sound file has a sync word,
packets of at least four bytes behind it and the command that ends them. Not
modelled: the check of `PushWriteData()` that a flash block fits its
readback buffer of 512 bytes. A file
may still be for another device, be no .bit file or have a broken packet.

### Iperf3Server

`m_state` is the table of sessions (`IperfConnectionState`), `peer` the
stack's side of their sockets: the client at the other end, of which the server
knows the address only (`m_remoteIP` is its `Host`). `in` is the client whose
datagram was taken in the last step, `out` what left in it. Every entry
point is one action, since all of them run in the main loop:
`OnConnectionAccepted`, `OnConnectionClosed`, `OnRxData` (cookie, parameters,
end of the test), `OnRxUdpData` and `Iteration`, which sends one datagram per
streaming session. Control bytes come in units, of which a blob has two, its
length and its text; segments may cut them anywhere and may not fit the
buffer. A pass of `Iteration()` ends at the first free slot, as the code's loop
does (`Reached`).

A datagram may come from any client at any time, whether it is connected or
not, and carries that client's address and source port. `OnRxUdpData` takes it
as the request of the first session that waits for one from this address
(`Asking`); the port it came from is where the stream goes.

The refinement maps the code's states to the phases closed, control, agreed,
streaming, over, and a session that streams without having agreed on what the
server can do to no phase at all. `IperfSessions` promises that a stream is
started only by a datagram from the address of the session's client and goes
to that address and the port of that datagram. With the comparison of
addresses gone from `Asking` this fails. It says less of clients that share an
address, since there the server cannot tell whose request it is
(`Iperf3Server.cpp:157`, a TODO). Where nobody shares it, the stream goes to
the client's own port: `StreamIsOwn`, which is proved (`StreamsAreOwn`).
External: the TCP/IP stack, which may have no packet to send with, and the
clients. Not modelled: a length field so large that adding four to it wraps,
and text without an opening brace other than an `unbraced` blob's (what follows
a length and is no text counts as broken JSON, which drops the connection).

### The parts in MCBoard

* `SSHKeyManager`: `keys` is the table in RAM, `keyStore` the objects in flash,
  `slotNext` the position of a commit. `AddPublicKey`, `RemovePublicKey`,
  `StartCommit` and `CommitSlot`, `RestartKeys` with `LoadFromKVS`, and the command
  line's removal of an object; a store may fail, a restart may cut a commit off.
* `STM32NTPClient`: the same for three settings, with the two sets of defaults
  that loading and saving use.
* `CommonCommands`: `SetIPAddress` is `ParseIPAddressWithSubnet()` with the
  mask and the broadcast address, character by character on a small address.
  `Sound` and `Meaning` say independently what a line stands for: they count
  the marks and read the number in front of each, and compute mask and
  broadcast address on the address as one number, where the code works octet
  by octet. A number of 2^32 and more wraps in the code; such a line
  (`~Representable`) may set anything, and nothing is claimed of it.
* `VSC8512`: a routine is the sequence of bus instructions it consists of
  (`InitRoutine`, `GetTemperature`, `SetTapRoutine`, ...), carried out one by
  one beside the MCU; checks may end it early. Which page a register is on
  (`Pages`) is what the header lists it under, not what the driver selects. For
  one register the two differ: `REG_VSC8512_LED_MODE` is listed under extended
  page 1 (`VSC8512.h:47`) and written on the main page (`VSC8512.cpp:244`).
  `DeclaredPages` says that every register is met on its page and is violated
  by that one; `RegistersOnPage` and its proof say it of all the others, and
  that the LED mode is met on the main page. `busy`, `command`, `pointer`,
  `shadow` and `serdes` are the chip's.
* `PhyPollTask`: the two reads of a poll, with a link that comes and goes at
  any time.
* `TCA6424A`: the driver's copy, the chip's registers, single writes and
  batches; any write may get lost. `asked`, `unsure`, `astray` are history.
* `IPCTable`: the constructors on both CPUs, `AllocateChannel` field by field,
  `FindChannel`, and the start-up word on which core 1 of the secondary CPU
  waits. The table may hold what an earlier run left.

Assumed: an object the command line removes reads as absent (microkvs is
external); the PHY's status bit is latched low as IEEE 802.3 says; the primary
core starts the secondary CPU when the table is full, and the log device looks
its channels up in `BSP_InitLog()`, both of which are the board's own code.

## 3. The runs

| Run | Instance | Shows |
|---|---|---|
| `PowerReset` | 3 rails (input supply; critical with feedback; without feedback), 3 lines (pin, delay, pin), `OnFault()` hangs or returns | `ImplementsSequencer` (order of everything, up and down), `FlagsMatchPins`, `ReadyAskedOnlyWhenReleased`, `ResetReleasedNeedsPower`; under fairness `RailLossShutsDown`, `ResetsComplete`, `NotReadyHoldsLaterLines` |
| `MulticoreLog` | buffer of 3, channel of 3, one line end in two bytes | `ImplementsMailbox` of the FIFO below, `ImplementsStream`, `LogArrives`, types |
| `TimerTasks_late` | the timer part of `Board` alone | **violated**: see below |
| `Bootloader_whole` | the bootloader part of `Board` alone, without decay, stores that fail or a debugger, and with updates that are finished (`UpdateCompletes`) | **violated**: see below |
| `SensorPoll` | four sensors: one behind the temperature reader, two behind the register reader, of which the second no longer counts as news, one on the ADC; time-out after 12 polls, one hang of a slave | `ReadingsWhole`, `HostGetsWhole`; under fairness `RotationGoesOn`; types |
| `FPGAUpdate` | four files of up to 58 bytes in pieces of up to 9, buffers of 20, blocks of 5, any number of uploads | `DoneMeansFlashed`, `SoundFileFlashed`, `OtherDeviceHarmless`; under fairness `HandlersReturn`; types |
| `FPGAUpdate_cutHeader` | the same, pieces may end anywhere | **violated**: see below |
| `Iperf3Server` | two sessions, two connections at a time, three clients of which two share an address and two a port; buffer of 3 units, cookie of 2, numbers modulo 2 | `ImplementsSessions`; under fairness `StreamStarts`; types with the buffer's limit and one session per connection |
| `Board` | one of nine parts at a time (the expander in two halves): 3 key slots, 2 keys; 3 settings with 2 values; addresses of 2 numbers of 2 bits, lines of up to 5 characters and two longer ones, of which one wraps; 3 PHY ports; 3 link speeds; expander of 2 groups of 2 lines; table of 2 channels; 2 timer tasks with periods 3 and 12, shift 10, up to 2 ticks a pass, delay 4; 2 images of 2 blocks, any block decays, stores may fail | `CommittedSurvives`, `RemovalLocksOut`; `SavedSurvivesUnlessOff`; `ConfiguredAsMeant`; `RegistersOnPage`; `SpeedIsPresent`; `LinesAsAsked`; `LogChannelsWhole`; `NeverEarly`, `WaitBounded`, `DelayNeverOverruns`; `BootedImageIsRecorded`, `NoCrashLoop`, `BootedImageBootsAgain`; types of the last two |
| `STM32NTPClient_off` | the NTP part alone | **violated**: see below |
| `VSC8512_ledPage` | the PHY part alone | **violated**: see below |
| `VSC8512_peek` | the PHY part alone | **violated**: see below |

Why the bounds are enough: three rails and lines are the fewest with one in
the middle of a sequence; the channel of three bytes carries messages that
fill it and shorter ones, with a stale byte behind them, while longer ones,
which no log device sends, are covered by the proof; the log's three bytes
leave room for a line that fills the buffer, one that ends with little room
left and one that waits for the flush task; one of the timer periods is below
and one above the shift; two images and two blocks are the fewest that can be
mixed; the time-out of 12 polls is enough for the slowest transaction but not
for two, so that it also strikes healthy ones; the buffers of the updater are
filled to the last byte by a piece of nine on top of the longest unfinished
packet, and blocks of five never line up with words of four; two benchmark
sessions are the fewest of which one can hold up the other, and three clients
the fewest of which two share an address and one does not; the buffer of three
units holds a blob and the start of another, and numbers modulo 2 wrap (with
two connections for two slots the table is never too small: a connection that
finds no slot is only in the proof, which holds for any numbers of both); three key slots are the
fewest with a free one between two used ones; addresses of two numbers of two
bits have every length of prefix from one number into the other; three PHY
ports have a first, a middle and a last one; the table of two channels is too
small for the names that are allocated, so that both outcomes occur. What the
proofs cover does not depend on these sizes.

Fairness: the main loop calls `Iteration()` for ever and a call runs to its
end (`WF` of the supervisor's, a producer's and the consumer's steps), a delay
runs out, the I2C peripheral finishes a step it has begun, a handler of the
updater runs to its end, the benchmark server's `Iteration()` is called again
and again (it may find no packet each time). Nothing is assumed of the
application, of pins, of evictions, of the debugger, of a slave, of clients,
or of the sender of a file. Runs without a liveness property use no fairness.

### What the violated runs show

* `TimerTasks_late`: a timer task "executes a function at regular intervals"
  (`core/TimerTask.h:36`). A deadline that the clock reaches after the task's
  turn in a pass is still pending when the next pass sets the clock back; at or
  below the shift it is not moved with it (line 48), and the task waits for the
  clock to count up to it again: up to 60000 ticks, six seconds. In the trace
  the deadline is 9, the clock 10 after the task's turn and 0 in the next pass.
  `WaitBounded` shows that it is no worse than one shift.
* `Bootloader_whole`: power lost between the store of the new version and that
  of the new CRC (`bootloader.cpp:143-146`) leaves the intact image refused at
  every later boot, until another build is flashed. In the trace one image is
  flashed whole, recorded and booted; the application asks for an update; the
  other image is flashed whole, its version is stored, power fails; the boot
  after that refuses it. The run has only updates that are finished before the
  next reset (`UpdateCompletes`), so that nothing else explains the refusal.
* `FPGAUpdate_cutHeader`: the updater recognises the `e` record by three bytes
  and pops five (`FPGAFirmwareUpdater.cpp:375,387`). A piece that ends in
  between leaves bytes in front of the image, which end up in flash with it;
  the readback agrees and the update ends in DONE.
* `STM32NTPClient_off`: a client that was switched off and saved is on again
  after a restart: saving spares the flash a value equal to its default, off
  (`STM32NTPClient.cpp:156`), and loading takes on as the default (line 141).
  `SavedSurvivesUnlessOff` shows that nothing else is lost.
* `VSC8512_ledPage`: set-up writes the LED mode register with the main page
  selected (`VSC8512.cpp:244-245`); the header lists it under "VSC8512 extended
  page 1" (`VSC8512.h:47`). Which of the two is right is for the data sheet to
  say: either the write misses its register, or the header has it in the wrong
  place.
* `VSC8512_peek`: `MCUPeekByte()` puts the 16-bit reply of the PHY's processor
  into a byte before shifting it (`VSC8512.h:175`), so the read-modify-write of
  the SERDES tap loses bits it means to keep.

### What else the models brought up

These are not contradicted by a line of the repository that says what the
program does, so there is no violated run; a property is stated as the code
keeps it, or the bounds leave the case out.

* `IPCDescriptorTable.h:41` leaves interlocking to `IPCDescriptorChannel`,
  which does none: with two elements in `Producers` both see the channel free
  and write into one buffer. The log device has one sender per direction.
* The FPGA partition is erased from `m_imageOffset` on and blank-checked from
  address 0 (`FPGAFirmwareUpdater.cpp:141,166`): with anything in front of it a
  good file is refused.
* A decayed build ID in flash passes for an update: the bootloader then takes
  the contents as they are (`bootloader.cpp:97`).
* An update that is cut off leaves a partition of two builds. With the new
  build ID in place it, too, is taken as it is and its CRC recorded; finishing
  the update then gives the same build ID with another CRC, and the whole image
  is refused (`bootloader.cpp:97,151`). `UpdateCompletes` keeps this out of
  `Bootloader_whole`.
* A pass of `Iperf3Server::Iteration()` ends at the first slot not in use
  (`Iperf3Server.cpp:528`): when a client leaves, those in later slots get
  nothing until the slot is taken again. `StreamStarts` excepts that.
* A benchmark client is recognised by its address only: of two behind one
  address the first in the table may get the port of the second
  (`Iperf3Server.cpp:157` says so in a TODO). `ImplementsSessions` allows this
  and no more; the run has two such clients.
* A commit of the SSH keys that is cut off may leave a key in two slots; then
  removing one does not lock the user out. `RemovalLocksOut` excepts that
  (`torn`).
* In `MulticoreStartup.S:196` the barrier stands behind the store that lets
  core 1 go, not in front of it.

## 4. The proofs

| Theorem | Of | For every |
|---|---|---|
| `PowerResetProofs`: `TypeCorrect`, `FlagsTellThePins`, `PowerBeforeReset`, `ReadyAsked`, `Refinement` | `TypeOK`, `FlagsMatchPins`, `ResetReleasedNeedsPower`, `ReadyAskedOnlyWhenReleased`, `ImplementsSequencer` | number and kind of rails and lines |
| `MulticoreProofs`: `TypeCorrect`, `Refinement` | types (`FifoTypeOK`), `ImplementsMailbox`, with one producer | buffer size, byte values |
| the same: `LogTypeCorrect`, `LogUsesMailbox`, `LogIsStream` | `LogTypeOK`, `ImplementsMailbox`, `ImplementsStream` | size of buffer and channel, byte values |
| `TimerTasksProofs`: `TypeCorrect`, `TasksNeverEarly`, `DeadlinesInReach`, `DelaysEnd` | `TimerTypeOK`, `NeverEarly`, `WaitBounded`, `DelayNeverOverruns` | tasks, periods, shift, length of a pass |
| `SensorPollProofs`: `TypeCorrect`, `NoTornReading`, `HostReading` | `PollTypeOK`, `ReadingsWhole`, `HostGetsWhole` | rotation of sensors, time-out, bounds of the run |
| `BootloaderProofs`: `TypeCorrect`, `BootsRecorded`, `CrashesDoNotLoop`, `BootsAgain` | `BootTypeOK`, `BootedImageIsRecorded`, `NoCrashLoop`, `BootedImageBootsAgain` | images, number of blocks |
| `FPGAUpdateProofs`: `UpdateTypeCorrect`, `OtherDeviceRefused`, `DoneIsFlashed`, `SoundIsFlashed` | `UpdateTypeOK`, `OtherDeviceHarmless`, `DoneMeansFlashed`, `SoundFileFlashed` | set of files, cut of the pieces, sizes of buffer, block, sector and partition, address of the partition |
| `Iperf3Proofs`: `IperfTypeCorrect`, `IperfRefinement`, `StreamsAreOwn` | `IperfTypeOK`, `ImplementsSessions`, `StreamIsOwn` | slots, connections, clients, their addresses and ports, segments, sizes |
| `BoardProofs`: `CommittedTableSurvives`, `RemovedIsOut` | `CommittedSurvives`, `RemovalLocksOut` | slots and keys |
| the same: `SettingsSurviveUnlessOff` | `SavedSurvivesUnlessOff` | addresses and offsets |
| the same: `PublishedSpeedIsPresent` | `SpeedIsPresent` | speeds |
| the same: `ExpanderLinesAsAsked` | `LinesAsAsked` | groups and lines |
| the same: `LogChannelsAreWhole` | `LogChannelsWhole` | channels and names |
| the same: `RegistersAreOnPage` | `RegistersOnPage` (all registers but the LED mode's on their page) | number of ports, taps |
| the same: `AddressIsAsTyped` | `ConfiguredAsMeant` | set of lines, number and width of octets, width of `unsigned int` |

Each module proves an inductive invariant first (`Inv`, theorem `Invariance`)
and the rest from it.

* **PowerReset.** The properties speak of the board at rest or of single
  steps; the invariant says what the pins look like at each point of each call
  in terms of the loop index: during `PowerOn()` the rails below `k` are on,
  during `PowerOff()` the lines above `k` are held, during a panic the rails
  still on are an initial part of the sequence, during the scan exactly the
  lines up to the index are released, before `ReleaseNext` those below it. From it every step is a step of
  `PowerSequence` or none. Assumption: `SequenceAssumption`.
* **Multicore.** While the producer is past the copy of byte `i`, cache holds
  that byte of the message; past each clean, so does memory; and from the flag
  going up until the next copy cache and memory agree, which is what makes an
  eviction harmless. Assumption: `FifoAssumption`, and one producer. Every step
  of the log device is a step of the FIFO or leaves it alone, so the mailbox
  below it needs no second proof. For the stream, what is under way is cut in
  three (in memory, in a `Push()`, in the local buffer), and each step moves
  bytes from one part to the next without touching the order. `LogIsStream`
  has a hypothesis, `TxSize <= Size`: a local buffer longer than the channel's
  would be cut by `Push()`. The code has 256 bytes for the first and leaves the
  second to the application.
* **TimerTasks.** `since` and the deadline are tied together: a deadline is
  never earlier than the last run plus a period, measured on a clock that has
  been set back since. Assumption: `TimerAssumption`.
* **Bootloader.** The stores and `recorded` are tied together: if a boot
  recorded both, version and CRC describe `ran` until the partition is written
  and validated again. Assumption: `BootAssumption`.
* **SensorPoll.** While a reader is between its two bytes, the byte it holds
  and the one the bus will deliver belong to one sample of the register it
  asked for; a reset forgets both, and what the SPI server has latched does
  not change under the host. Assumption: `PollAssumption`.
* **FPGAUpdate.** Five layers, each resting on the one before. Types: what was
  passed on to flash and write buffer is never more than what was consumed
  behind the first byte of the `e` record, which keeps the write pointer in
  the partition. Arrival: the receive buffer is a run of consecutive bytes of
  the file that ends with the last one that arrived, and is short enough to
  take another piece. Header: while records are parsed the next byte begins
  one, and no name of another device was passed; the erase is behind all of
  them. Image: bytes in flash, write buffer and receive buffer follow on one
  another from the first byte of the image on, and DONE is at its last one.
  Sound files: the parser stands in front of a packet, or of the data one
  announced; flash from the write pointer on is blank, so that only a failing
  access can fail a write; and outside the loop of `OnRxData` the parser waits
  for bytes that are not there, which at the end of a sound file leaves only
  DONE. Assumptions: `UpdateAssumption`, with `IsFile` for each file;
  hypotheses of the theorems: `ImageFits`, `BuffersSuffice`; for
  `DoneIsFlashed` and `SoundIsFlashed` that `CutsE` is false, without which
  `FPGAUpdate_cutHeader` fails; for `SoundIsFlashed` also `SoundFilesWhole`
  and `PartitionErasable`.
* **Iperf3.** No two slots hold one connection, and a slot's socket is one the
  stack has open; the port of a session is that of some client at its client's
  address (`PortAsked`), which with one client at the address is `StreamIsOwn`;
  then a call maps to a step of the one session it is about.
  The blobs a segment completes are taken one by one, each keeping the
  client, so that the order of phases is that of a single blob. Assumption:
  `IperfAssumption` (segments are not empty).
* **Board.** The SSH keys: the slots a commit has passed are in the store as
  in RAM, at rest all of them, and no key is in two slots unless a commit was
  cut off (`torn`). The NTP settings: the same, object by object. The link:
  while the latched status says up during a poll, the speed read is the
  link's. The expander: the copy is what was asked for, and the chip differs
  from it only where a lost write left it `unsure` or `astray`. The IPC table:
  a channel before the first free one is whole, but for the one being filled,
  of which `Begun` says how far it has got; the secondary CPU starts when no
  name is left to allocate, so that what it finds is whole. The PHY driver:
  a *situation* is the page of every port and whether the MCU is known to
  wait; `Runs(r, a, b)` says that each instruction of routine `r` fits the
  situation it is met in, from `a` on, and that `r` ends in `b`. It holds of
  each instruction, of two routines in a row, and of one routine per port
  joined for any number of ports (induction over the ports); the main routines
  run from the main page to the main page. The invariant is that what is left
  of the routine runs from the present situation, and a check that ends it
  early is met on the main page only. The address: `HasRead` relates the
  parser's state to what it has read: as long as each mark was the expected
  one, the current field holds the number so far, those behind it nothing, and
  each field in front what its mark ended. So a line is accepted if and only
  if it is sound, and the fields are its numbers. Mask and broadcast address
  are compared octet by octet by the number of host bits that fall into the
  octet, with lemmas on remainders by powers of two: the or with *k* ones is
  the last number of its block of 2^*k*. Assumptions:
  `KeysAssumption` and `NtpAssumption` (no key or value stands for absence;
  there is a slot), `PollAssumption`, `ExpanderAssumption`, `TableAssumption`,
  `PhyAssumption` and `AddressAssumption` (ranges of the constants; a line is a
  sequence of characters).

Only model-checked: everything under fairness (`RailLossShutsDown`,
`ResetsComplete`, `NotReadyHoldsLaterLines`, `LogArrives`, `RotationGoesOn`,
`HandlersReturn`, `StreamStarts`), which the prover cannot treat, and the
properties of the violated runs. Induction over data is out of the prover's
reach as a theorem with an operator for its hypothesis; `Induction` in
`BoardProofs` states it for a set of numbers instead, and `Recursion` that a
function defined from each number to the next exists, from which what the
recursive functions of `CommonCommands` and `AllPorts` of `VSC8512` compute
is proved.

## 5. Plan

Done: every module planned, for each a proof module, and every safety and
action property of the passing runs proved. What could come next: the
processor of the PHY behind `MCUPeekByte` once its finding is settled, and an
abstract specification of the table of channels.

## 6. Not modelled

The external TCP/IP, key-value, peripheral and log libraries, except for what
the code above relies on. `STM32NTPClient::OnTimeUpdated()` (it sets the clock
chip from one reply and logs the difference; the product `dsec *
rtcTicksPerSec` is unsigned, so a clock that was slow is logged with a large
positive error), the ageing tasks (one call each into the external stack), the
other commands of the command line, which print or call what is modelled
elsewhere, the crypto engine, `fpga/Ethernet`, `FMCUtils` and `DeviceID`
(register accesses without state), `core/hardware-id.cpp` (a table of names),
`core/SPITask.h` (a base class without a user here), the board support
packages and linker scripts, the post-build scripts, and hardware effects
below a pin or a register access. `PROJECT.json` gives the reason per
component.
