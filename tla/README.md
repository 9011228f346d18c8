# A verification development for DSPC

DSPC is a SHA-256 accelerator for an FPGA. The repository holds the hardware
blocks and their benches (VHDL), a software reference (C++), and the firmware
and board support package of a Nios II system with a serial port that is meant
to feed the accelerator. This directory holds TLA+ models of those parts, TLC
configurations that check them, and proofs that TLAPS checks.

* [The system](#the-system): components, state, operations, interactions
* [The models](#the-models): module by module, and how each relates to the code
* [The runs](#the-runs): what each checks, its bounds and why they are enough
* [Fairness and deadlock](#fairness-and-deadlock)
* [The proofs](#the-proofs): statements, assumptions, arguments
* [What the models found](#what-the-models-found)
* [What is not modelled](#what-is-not-modelled)
* [Plan](#plan): what is left

`tlc -config X.cfg M` checks module `M`; `tlapm M.tla` checks its proofs.
`PROJECT.json` is the machine-readable index: runs, faults, the lines of the
source behind every definition, hazards, findings and theorems.

## The system

| component | source | state | operations |
|---|---|---|---|
| compression engine | `HashComp/HashComp.vhd`, `HashCompPkg.vhd` | state machine IDLE/BUSY/FINAL, `Counter`, registers `a..h`, output `h0..h7` | asynchronous reset; accept a block on `newData`; one round per clock; final addition |
| its bench | `HashComp/HashCompTB.vhd` | position in the stimulus process, the driven signals | reset, feed 64 words, pulse `newData`, wait for `ready`, assert |
| schedule expander | `BlockDecomp/deComp.vhd`, `shaFunctions.vhd` | IDLE/WORKING/DONE, `counter`, `tempBlock`, `finished`, `outData` | asynchronous reset; load on `update`; two words per clock; publish |
| its bench | `BlockDecomp/tb_deComp.vhd` | as above | load "TeamGoFlex" padded, wait for `ready`, assert 64 words |
| padding block | `Padding Block/padding.vhd` | a process that runs once; ports | pad |
| its bench | `Padding Block/padding_tb.vhd` | where it waits | drive, wait for `ready`, assert |
| software reference | `Cpp_imp/Sha256C.cpp` | locals of `main` | pad, resize, schedule, compress, add, print |
| UART device | `System_uart_0.v` | data, status and control registers, shift registers | transmit, receive, register reads and writes, interrupt line |
| UART driver | `altera_avalon_uart_*.c` | two rings of 64 characters with four indices, the shadow of the control register | interrupt handler; `read`, `write`, `close` |
| firmware | `Rs232Comm/hello_world.c` | place in the program, the last status, the key | transmit a text by polling, wait for a key and echo it |
| HAL: file descriptors | `alt_open.c`, `alt_close.c`, `alt_fd_lock.c`, ... | pool of descriptors, highest one ever used, lists of devices and file systems | register, redirect, open, close, read, write, lock, `fcntl`, `stat`, ... |
| HAL: interrupts | `alt_irq_handler.c`, `alt_iic*.c`, `alt_irq.h` | handler table, enabled interrupts, `status.PIE` | take and dispatch an interrupt; register, enable, disable |
| HAL: alarms | `alt_tick.c`, `alt_alarm_start.c`, `alt_llist.h` | linked list of alarms, tick count | start and stop alarms; walk the list at every tick |
| HAL: exceptions | `alt_exception_entry.S`, `alt_exception_muldiv.S` | registers, stack frame | enter, emulate an instruction or ask a handler, leave |
| HAL: heap and profiler | `alt_sbrk.c`, `alt_gmon.c`, `alt_mcount.S` | end of the heap, slab, lists of functions and arcs, histogram | allocate; count a call; sample |
| HAL: printing | `alt_log_printf.c`, `alt_printf.c` | none that lasts | print with a format; echo a text |
| HAL: start-up | `crt0.S`, `alt_load.c`, `linker.x` | memory, by sections | initialise the caches, clear `.bss`, load the data, call `alt_main` |
| HAL: caches | `alt_dcache_flush*.c`, `alt_icache_flush*.c` | none | flush or discard a region |
| HAL: time | `alt_settod.c`, `alt_gettod.c`, `alt_busy_sleep.c` | time of reset | set and read the clock; delay |
| Nios II system | `System.qsys` and generated files | - | platform |

All of the HAL is below `HashComp/software/Rs232Comm_bsp/HAL`.

**Interactions.** The engine and the expander are slaves of a handshake: a level
(`newData`, `update`) sampled at a rising edge, a `ready` that falls until the
work is done. The expander's output is what the engine's input expects. Nothing
in the repository wires the two together: the wrapper for the bus
(`AvalonHashComp.vhd`) is an empty architecture. The firmware talks to the
registers of the UART directly; underneath it the start-up code has installed
the driver's interrupt handler, which shares the device with it. `read`,
`write` and `close` of the driver share the two rings and the control register
with that handler. A program reaches the driver through a file descriptor, whose
calls look up a device and ask its callbacks. Every handler is called through
the interrupt table; the one of the system clock walks the list of alarms, which
the program and the callbacks change; one of the alarms is the profiler's
sampler, and the profiler counts calls of the program and of handlers alike.

**Hard behaviours.** Resets at any moment, which restore some registers and not
others; buses that are sampled again at every edge; `wait until` statements that
need an event and not a level; a last round or last pair of words found by a
comparison with a counter; arithmetic that is modular in one place and masked in
another; an interrupt handler between any two instructions of the program, a
device that goes on between any two instructions of the handler, rings that
fill and wrap, and interrupts that one side masks and the other unmasks; lists
that are walked while callbacks change them; searches with interrupts enabled
whose result is used after a handler has run; counters, addresses and products
that go round; calls that fail half way; resets of the whole system, after which
memory is as it was.

**What makes each component correct.**

* Engine: a block that was announced and held on the bus leaves its SHA-256
  digest on the output by the time `ready` returns; the output moves at no other
  moment; `ready` returns.
* Expander: whenever `finished` is up, `outData` is the schedule of the block
  loaded last, and stable; `ready` returns.
* Padding: the output is the padding of the input.
* Software reference: its schedule and digest are those of the hardware,
  whatever the width of `unsigned long`.
* UART driver: what is written is sent in order and once, all of it; what is
  read comes in order of arrival, nothing twice; calls return; nothing is
  dropped between the device and the reader.
* Firmware: the text reaches the line complete and in order, the key is echoed.
* File descriptors: one owner of a locked device and no other opening of it; a
  failed call leaves nothing behind.
* Interrupts and alarms: table and list are whole whenever an interrupt is
  taken; an alarm fires when its ticks have passed, neither early nor late; the
  walk through the list ends.
* Exceptions: an emulated instruction does what the instruction does, all other
  exceptions leave the registers alone.
* Heap and profiler: no two blocks overlap, every call is counted once, one
  sampler runs.
* Start-up: every start finds its data as linked and `.bss` zero, whatever the
  reset interrupted.
* Printing, caches, time: a printed number reads back; every line of a region is
  reached; a time that was set reads back.

## The models

### Words and the reference

`Words` represents a machine word as the set of its `1` bits. Addition is
carry-lookahead on sets and wraps by construction; no definition depends on the
width. `HashCompPkg` and `shaFunctions` translate the two packages. `SHA256`
states what SHA-256 asks for as predicates: `IsCompression` (one round after the
other), `IsSchedule` (the recurrence of the message schedule), `AddInit`. It
shares the package's constants and logical functions with the design, and none
of its control: the state machines, counters and pipelines are what is held
against it, and the known-answer runs tie functions and constants to the digest
and the schedules that the benches list. `RoundsOf` computes the list of rounds
as a recursive function of the round. `Compression` adds the blocks a user may
submit and the digest of each, `Schedule` does the same for the expander.

### The abstract service

`BlockService` is what both hardware blocks promise: idle, a block is loaded,
then an answer that is right for the block appears in one step, or the block is
abandoned. The relation "is the right answer for" is a parameter: `IsScheduleOf`
for the expander, `a = Digest(b)` for the engine.

### HashComp: the compression engine

One action per clock edge that changes something, and one for the asynchronous
reset. `Accept` is the IDLE branch with `newData` up, `Compress` a round,
`Finalise` the FINAL branch, `Reset` the branch of line 57. The environment is
free: any reset, and a different block on the bus at every edge, because the
code samples the bus at every edge. `regs` are the signals `a..h`. They have no
initial value; `Undef` is the simulator's `U`, and any sum with it is `Undef`.
The variables `T1`, `T2`, `K` and `inputTemp` are written before they are read
at every edge and are local definitions. History variables record the block
that was announced, the counter it started at, and whether the user kept to the
protocol while it ran (`clean`).

`HashCompTB` composes the engine with the stimulus process of its bench, which
acts between rising edges. It keeps the difference between `wait until ready`
(an event) and a level: the bench wakes only when `ready` rises.

### deComp: the schedule expander

The same grain. `Work` computes two words from the words before; the reset
leaves `tempBlock` and `finished` as they are (lines 30-32) and so does the
action. `Update` takes any block at any edge in IDLE. `finished` has no initial
value and starts at `"U"`.

### padding and padding_tb

`padProc` has no sensitivity list and ends in a bare `wait`, so it runs once,
at time zero; `Drive` is everything a user does to the inputs later. `l` is an
integer without an initial value: VHDL gives it the left bound of its range,
`31 downto 0`. The widths are constants, so the small run visits every input.
`padding_tb` composes the block with its bench, and is what the run checks; its
environment goes on driving the inputs after the bench has set them.

### Sha256C: the software reference

`main` cut at its stages and at the iterations of the two long loops. An
`unsigned long` has `Native` bits, 32 or 64 by platform, and the model keeps
the stray bits above bit 31 that a rotation leaves on the wider one.

### Uart, UartDriver and Channel

`Uart` is the device at the grain of a register access or a character: the
bit clocks and shift registers are cut to the moment a character is complete.
A write of the status register clears the error flags; a read of `rxdata`
acknowledges the character, and acknowledges a character that arrives in the
same clock cycle with it (`ReadRxdataLate`: `rx_rd_strobe_onset` has priority
over `got_new_char`, lines 510-513). Overrun, break and parity flags are left
out: no software acts on them.

`UartDriver` is the fast driver, which the build uses (the committed object
files contain it). Three parties take turns:

* the device: `Arrive`, `Transmit`;
* the interrupt handler: `IrqEntry` reads the status, `IrqClear` clears the
  error flags, then `RxIrq`/`RxIrqError` and `TxIrq` as the status that was
  read asks. It runs to its end before the program goes on; the device does not
  wait for it;
* the program: any sequence of `read`, `write` and `close`, blocking or not,
  cut at the accesses to shared variables. Each region with interrupts disabled
  is one step (`enable`). All indices and both rings are `volatile` in the code,
  so the order of the accesses is that of the source.

`sp->ctrl` is a shadow of the control register and differs from it inside the
handler only, so the register stands for both. The rings are masked with
`BUF_LEN - 1`, a power of two minus one, which is the remainder in the model.
`sp->tx_start = (++sp->tx_start) & MASK` (line 239) modifies an object twice
without a sequence point; the committed object file stores the increment first
and the masked value last, both inside the handler where nobody can look, so
the model has one assignment of the masked value. The system has one thread:
semaphores and event flags are empty macros. `UART_0_USE_CTS_RTS` is 0, so the
tests of CTS are decided. A spurious interrupt (the line is registered and could
fall a cycle late) is not modelled: the code reads the status register once
more for that purpose (line 128).

`Channel` is the abstract transmitter: a user hands characters over, they leave
in order, once, and all of them do. `UartDriver` implements it with `accepted`
as what `write` has taken and `sent` as what has left the shift register.

### Firmware

`hello_world.c` is straight-line code, so the program is a sequence of
instructions (`main`): clear the status, poll a flag, write a character, read
the status, read the key, echo it. A polling loop is one instruction that waits
for its flag; nothing else happens in its other turns. The module extends
`UartDriver`: the device and the driver's interrupt handler run beside it with
the actions of that module, and the handler is entered between any two
instructions. The driver's own calls are not made by this program. History
variables record what was written and before which of the delicate instructions
(the unpaced writes, the reading of the status and of the key) a handler came.

### AltFd

The system has one thread and no handler uses the pool, so a POSIX call is one
step that changes the table as a whole. Drivers are constants: the callbacks
each provides, any of which may fail where it is asked. `Opened` is `open` from
the look-up to the driver's answer, with the descriptor given back when either
the lock or the driver refuses; `stat` is it with `fstat` and `close` after it.
Start-up is part of the model: devices and file systems register first, then
`alt_io_redirect` moves the standard descriptors. The data a driver moves, the
`errno` values and `F_GETFL` are left out. A program uses negative descriptors
and open ones; of others the code checks nothing.

### AltIrq, AltTick and Timer

`AltIrq` is the interrupt controller with the HAL's dispatch: `Enter` clears
`status.PIE`, `Dispatch` takes the lowest pending bit, `Served` is the return of
a handler, `Leave` restores `status.PIE`. Registration is cut at its stores,
because a handler and its context are two of them and the enabling a third.

`AltTick` adds the alarms on the linked list itself, links and all, with the
quirks of the list: a removed entry points to itself. `TickBegin`, `Visit`,
`CallReturn` and `TickEnd` are `alt_tick` with `alarm` and `following` its two
pointers; between a visit and the return of its callback, the callback starts
and stops alarms. `alt_alarm_start` is cut into the interrupt lock, the time,
the insertion and the unlock. Tick arithmetic is modulo `TickLimit`. No driver
of a system clock is in this board support package: its interrupt is modelled
from the call the HAL expects of it.

Some calls break a rule that nobody wrote down (see "What the models found"); the
history variable `broken` marks them, and what the module promises it promises
until then. `Timer` is that promise: an alarm is a number of ticks left, which a
tick lowers and which must be zero when the callback runs and before the next
tick. `AltTick` implements it, with `left` computed from the time of the alarm,
the tick count and the roll-over flag.

### AltGmon

`sbrk` with its limit, the slab allocator of the profiler and `mcount`. `mcount` of the program
is cut where a handler can change what it works on: the search, the load and
store of a count, the test and reset of the flag that starts the sampler, the
allocation of the histogram, and the record of a new arc, which has interrupts
disabled. A handler's `mcount` is one step, since nothing interrupts it. One
bucket of the hash table is modelled: the functions are those that share it.
Blocks are addresses, so that an overlap shows. The build does not profile; the
code is part of the board support package.

### AltPrintf, AltCache, AltTime, AltException and StartUp

Pure functions of one call each. `AltPrintf` reads the format character by
character, as the code does, with the flags of a conversion kept between
characters. `AltCache` gives the set of addresses a function hands to the flush
instruction, for a processor that has caches (this one has none). `AltTime` has
the 32-bit product of `settimeofday` and the 64-bit one of `gettimeofday`, and
the loops of the calibrated delay with the counts at which they wrap.
`AltException` is an exception from its entry to `eret`: who serves it, the
stack frame in which the emulation finds its operands and leaves its result,
and the loops that divide and multiply bit by bit; the build links neither the
emulation nor the handler interface. `StartUp` is what happens between a reset
and `alt_main` on the layout of the linker script: `.rwdata`, its image behind
it, `.bss` behind the image, then a section nobody touches. A reset leaves memory
as it is, so a call starts from any contents of what the program or an earlier
start-up may write; a reset in the middle of start-up is one of these.

A loop whose result is proved (the two of the emulation, the copy of a section)
is a function of the number of its turns, so that the proof can go from one turn
to the next.

`AltLib` makes a specification of them: a behaviour is one call, of any function
with any arguments of the machine's types. It holds the properties, which are
written from what a function is for and not from how it works: numbers are read
back from the text, lines are sets, times are microseconds, products are
products. `MCAltLib` bounds the calls that the run enumerates.

Every module also holds *faults*: mutated forms of one of its definitions, the
way a plausible bug would change it. They are part of no specification.
`PROJECT.json` pairs every checked property with a fault that breaks it.

## The runs

| run | instance | states | shows |
|---|---|---|---|
| `HashComp` | 8-bit words, 8 rounds, 3 blocks | 1 943 | `FreshDigest`: a block started at counter 0 gets its digest under any resets and bus traffic; `LaterBlocksOneRound`: no later block does; `OutputHeld`; `ReadyAgain` |
| `HashCompTB` | 32 bits, 64 rounds, the two schedules listed in the benches | 148 | the literal digest of the bench; the bench ends; the composition is a `BlockService` that never abandons |
| `deComp` | 32 bits, 64 words, 2 blocks | 2 157 | what is published is the schedule, and `ready` implies it; refinement of `BlockService`; `ReadyAgain` |
| `padding` | 4-bit strings, 3-bit lengths, 12-bit block, with the bench | 16 640 | `PadsTimeZero` over every input and every later change of the inputs; `BenchWaits`: the bench never gets past its wait |
| `Sha256C` | 32 and 64 bit `unsigned long`, six messages | 1 872 | `HashesMessage`: the standard digest for every message that fits a block; `PrintsDigits`: the text has 64 digits only if no word begins with a zero digit |
| `UartDriver` | rings of 2, two arrivals, four characters written, lengths 0 and 2 | 123 816 | `ReadsInOrder`, refinement of `Channel`, `EverythingSent`, `CharTaken`, `CallsReturn` |
| `UartOverwrite` | rings of 4 | violation | a full ring is overwritten |
| `Firmware` | texts of 2, 3 and 1 characters, rings of 2, 2 keys | 73 120 | `OnlySplashLost`, `OverrunSeen`, `EchoOnce`, `KeyAskedFor` |
| `AltFd` | pool of 5, two devices, one file system | 64 367 | `OneOwner`, `NoOpenWhileLocked`, `FailureUndone`, `LockOverlooksHighest` |
| `AltTick` | 2 alarms, 2 interrupts, counter that rolls over at 4 | 693 980 | `TableWhole`, `ListWhole`, refinement of `Timer`, `FirstServed` |
| `AltGmon` | 2 functions, 2 callers, heap of 88 bytes, slabs of 28, 5 calls | 562 402 | `BlocksApart`, `CallsCounted`, `OneSampler` |
| `AltLib` | 8-bit words, lines of 8 bytes, 64 addresses, registers of 5 bits, sections of 0 to 3 words | 301 732 | `PrintsArguments`, `FlushCovers`, `StartsFresh`, `TimeKept`, `EmulatesInstructions` |

**Why the bounds are enough.** *Engine:* the blocks differ in the first word, the
last word or not at all, so a bus that changes in the first, last or a middle
round shows; eight rounds reach the last-round test and leave room for a reset
in every round; three blocks allow a first, a second, and a second after an
aborted one. Values do not matter to the control, so narrow words do; the
full-size run has the real constants. *Expander:* full size, resets at every
edge, and two blocks, the second over the remains of the first. *Padding:* the
arithmetic of the sizes is linear; the small run is exhaustive and the theorem
covers all sizes. *Software:* lengths 0, 4, 10, 55, 56 and 64 are the empty
message, the benches' messages, the last length that fits and two that do not.
*Driver:* a ring of two has room for one character, so it is empty, full and
wraps with every character; two arrivals fill it and leave one in the device
(or overrun it); two writes of two characters reach the wait for room in both;
a length of 0 reaches the odd path of `read` and `write` that transfers nothing
and still touches the interrupts; blocking and non-blocking calls mix freely.
The violation with rings of four shows that the small ring is not the cause.
*Firmware:* every loop over a text does the same for each character; two
characters have a last one with one before it, and three unpaced ones show a
loss of the first, the middle and none of the last. Two keys are one more than
the program reads. *Descriptors:* two beside the standard three are a
descriptor at the mark, one below it, and both on one device; a lock, an open
and a close of either order need no third. *Alarms:* two alarms give a list with
a first and a last entry, the one the walk is at and the one it has noted; a
counter of four ticks rolls over within the longest delay. *Profiler:* a slab
holds two entries and a rest, so the third allocation needs another; the heap
holds three slabs or two and the histogram, and then runs out; five calls
reach it with both functions and a handler in every gap. The text of 80 bytes
has two whole buckets and a partial one. *Library:* two conversions of a format
are enough for one to disturb the next; values, regions, times, delays and
operands are all of a small width, which has every carry, borrow, sign and
roll-over of the large one. Sections of no, one and several words reach every
end of the loops of the start-up, and the words left in memory include the right
ones, zero and others.

## Fairness and deadlock

The clock of the hardware runs free, so its edges are weakly fair; `Reset`,
`Accept`, `Update` and the bus belong to the user and are not. The simulated time
of the benches goes on while something is scheduled. In `UartDriver` the
transmitter, the interrupt with its handler, and the program inside a call are
weakly fair: baud clock and processor run free, and the handler cannot starve the
program as every pass removes its cause, which `CallsReturn` checks rather than
assumes (it fails if the handler is entered for ever). No character has to
arrive and no call has to be made.

`Firmware` has the same three: the line, the interrupt and the program. Keys need
not come, so only what happens before the wait for a key is required
(`KeyAskedFor`). In `AltTick` handlers and callbacks return and a call that was
made goes on (weak fairness of `Handling` and `Locked`); the entry of an
interrupt is strongly fair, because the processor takes it at the first
instruction with `status.PIE` set, however often the program disables and
enables interrupts. Ticks need not come. The other modules state no liveness:
their calls are single steps, or end after a bounded number of them.

`CHECK_DEADLOCK FALSE` stands where the system does stop: after the bounded
number of blocks or of calls, at the end of a bench, of the padding process or
of a program, and after one call of the library. `UartDriver`, `AltTick` and
`AltFd` run with the deadlock check on.

## The proofs

All statements hold for every value of the constants that meets the named
assumptions of the modules: any word width and number of rounds, blocks and
bounds (`RoundsAssumption`, `BlocksAssumption`, `LengthAssumption`,
`WidthAssumption`, ...), any pool, devices, names and drivers (`FdAssumption`),
any length of the rings and of the calls (`BufLenAssumption`,
`LensAssumption`), any messages and width of an `unsigned long` (`MessagesAssumption`,
`NativeAssumption`), any texts (`TextAssumption`), number of interrupts
(`IrqAssumption`), alarms and limit of the tick counter (`TickAssumption`), and
any heap, slab, text segment and functions (`GmonAssumption`), any width of a
register (`RegAssumption`), sizes of a cache and its lines (`CacheAssumption`),
lengths of a second and a word (`TimeAssumption`), any word of whole hexadecimal
digits and length of an echo (`PrintfAssumption`), and calls with arguments of
the right types (`CallAssumption`: two conversions with any flags, width and
arguments around a percent sign, two numbers, any text to echo). The bounds on
calls and characters (`MaxBlocks`, `MaxWrite`, `MaxCalls`, ...) are constants
like the others, so they hold for runs of any length.

None of them says anything of what the code computes.

| module | theorem | statement |
|---|---|---|
| `HashComp_proof` | `TypeCorrect` | `Spec => []TypeOK` |
| | `DigestCorrect` | `Spec => []FreshDigest` |
| | `CounterStuck` | `Spec => []LaterBlocksOneRound` |
| | `OutputStable` | `Spec => OutputHeld` |
| | `AssertionHolds` | `SpecTB => []DigestOnReady` |
| | `DigestService` | `SpecTB => ImplementsService` |
| `deComp_proof` | `TypeCorrect`, `FinishedCorrect`, `ReadyCorrect` | the three invariants |
| | `PublishedCorrect` | `Spec => PublishedStable` |
| | `ServiceImplemented` | `Spec => ImplementsService` |
| `padding_proof` | `PaddingCorrect` | `Spec => [](TypeOK /\ PadsTimeZero)` |
| | `BenchStuck` | `SpecTB => [](BenchWaits /\ PadsTimeZero)` |
| `Sha256C_proof` | `StagesFit` | `Spec => []StageInv` |
| | `HashesEveryMessage` | `Spec => []HashesMessage` |
| | `PrintsTheDigits` | `Spec => []PrintsDigits` |
| `Firmware_proof` | `TypeCorrect` | `Spec => []TypeOK`, of the driver |
| | `ReadOrder` | `Spec => []ReadsInOrder` |
| | `TransmitsInOrder` | `Spec => ImplementsChannel` |
| | `OnlySplash` | `SpecFw => []OnlySplashLost` |
| | `OverrunShown` | `SpecFw => []OverrunSeen` |
| | `EchoFromKey` | `SpecFw => []EchoOnce` |
| `AltHal_proof` | `EmulationExact` | `SpecCall => []EmulatesInstructions` |
| | `ClockAndDelay` | `SpecCall => []TimeKept` |
| | `EveryLineFlushed` | `SpecCall => []FlushCovers` |
| | `FreshStart` | `SpecCall => []StartsFresh` |
| | `ArgumentsPrinted` | `SpecCall => []PrintsArguments` |
| | `TypeCorrect` | `Spec => []TypeOK`, of `AltFd` |
| | `MutualExclusion` | `Spec => []OneOwner` |
| | `LockedOut` | `Spec => NoOpenWhileLocked` |
| | `FailedUndone` | `Spec => FailureUndone` |
| | `OverlooksHighest` | `Spec => LockOverlooksHighest` |
| `AltTick_proof` | `TypeCorrect` | `Spec => []TypeOK` |
| | `HandlerRegistered` | `Spec => []TableWhole` |
| | `ListCorrect` | `Spec => []ListWhole` |
| | `TimerImplemented` | `Spec => ImplementsTimer` |
| `AltGmon_proof` | `HeapCorrect` | `Spec => []BlocksApart` |
| | `SamplerOnce` | `Spec => []OneSampler` |
| | `CallsKept` | `Spec => []CallsCounted` |

`PublishedStable`, `DigestOnReady` and the type invariants of the proof modules
are proved and not run: what they say is part of a stronger property of a run
(`ImplementsService`, `KnownDigest`) or too little to deserve one. The inductive
invariants were held against TLC on the constants of the runs before they were
proved.

**Recursion.** The provers do not unfold a recursive function by themselves. Each
one the proofs speak of is unfolded once, with the library's theorems on
functions defined by induction (`CompressionDefined`, `RoundsUnfold`,
`DividedUnfold`, `LogUnfold`, ...). Such a lemma only says that its definition is
the one intended; the theorems rest on it. Induction over a number is the lemma
`Upto`, or a step like it: a set that holds 0 and with every `k` below `n` also
`k + 1` holds `0 .. n`; the set is the one of the numbers for which the claim is
true.

**Engine.** `FreshDigest` speaks of the end of a block and says nothing of the
rounds before it. `DigestInv` adds `PrimedInit` (after a reset, idle, the
registers hold the initial values) and `CleanRun` (in a clean run that started
at zero, the registers before round `Counter` are those of the reference, after
the last round those of the whole block, and after FINAL the output is the
digest). `CounterStuck` needs `CounterInv`: in FINAL, and once a block has
finished, the counter is at the last round.

**Bench.** `BenchInv` ties the position of the stimulus process to the state of
the engine: reset seen, counter zero, the block on the bus the one accepted,
the block clean. With `DigestInv` the step from BUSY to the answer maps to
`Answer`, the accepting edge to `Load`, and all others stutter.

**Expander.** `ScheduleInv` says that in WORKING the words below `counter` are
a prefix of the schedule of `job`, in DONE all of them, and that `outData` is a
schedule while `finished` is up. The lemma `WorkExtends` shows that the two
words of an edge extend the prefix by two: the second one depends on words up to
one before it, none of which is being written.

**Padding.** `PadInv` records that the output, once there, is `Message` of the
inputs at time zero; the lemma `MessagePads` is the arithmetic. Every step of
the bench is a step of the block or of its user (`BenchStep`), so the padding is
right under the bench too; that the bench stays at its wait needs that `ready`
is up before it gets there and moves no more.

**Software reference.** `StageInv` says what each stage of `main` leaves to the
next one: the padded bytes, the first words of the schedule, the registers of the
reference after `i` rounds, the digest. Three lemmas carry it. The words of the
hardware and of the software are both sets of bits, and the low 32 bits of a sum
depend on the low bits of its terms alone (`MaskSum`), because a carry does; so
masks may be left out and put in wherever the code does. A rotation of a 64-bit
`unsigned long` is right in its low 32 bits, and everything that uses one masks
the sum it goes into. And the byte count of the padding is the length of the
block for the messages that fit it. `PrintsDigits` follows from the number of
digits `std::hex` writes.

**UART driver.** `UartInv` says where every character is. On the way out
(`TxOK`) the characters that were written are numbered by their place: line,
shift register, transmit register, ring from `tx_start` to `tx_end`. The
handler takes one only when the status it read says the register is free, which
is still so when it writes (`HandlerOK`: only the device frees it); `write` puts
one only where there is room, and nobody but itself takes room away (`CallOK`).
So `accepted` less `sent` is what those places hold, and each step is one of
`Channel` or a stutter. On the way in (`RxOK`) places cannot be numbered, as
device and handler lose characters: what was read is older than what is in the
ring, that is in order, and older than what is in the device. The delicate case
is the one of finding 5: the handler fills the ring while a call has copied a
character and not yet moved `rx_start`. The ring then looks empty to the next
call, and holds `BufLen - 1` characters for this one (`Unread`); order survives
either way, which is all `ReadsInOrder` promises.

**Firmware.** The program is a sequence of instructions, so the lemmas around
`MainAt` say which instruction is at which place for texts of any length.
`OnlySplashLost` compares what was written with what is on the line and in the
device (`wire`): that is the same but for some characters of the splash and the
last paced one (`LostOK`). About sequences that lack some places the proof uses
three facts: one more behind (`WithoutAppend`), the last one replaced
(`WithoutReplace`), none missing (`WithoutWhole`). A write after a poll finds the
register free (`PolledOK`), since the driver's handler has nothing to send in
this program, and `CountOK` gives the number of characters written at each
instruction. `FlagOK` says until when the overrun flag tells the truth: a handler
clears it, and an interrupt before or among the unpaced writes is what
`OverrunSeen` excepts. `KeyOK` orders the keys: those in the ring are older than
the one in the device, and the echoed one is in neither unless a handler came
between the poll and the read.

**Descriptors.** `OneOwner` is not inductive, and the search that grants a lock
ends one descriptor early. `FdInv` adds `ListsOK`, `DevOnly` (only devices have
owners, and none while the system starts) and `LockAbove`: any other descriptor
on the device of an owner has a higher number. The owner could not have been
given the lock with a lower one open, since the search does reach those; and no
descriptor opened after it gets the device. So a second request for the lock
comes from a higher descriptor, whose search finds the owner below it. That a
new descriptor is a free one, and a name leads to an entry of its list, rests on
`FirstIsLeast`, which takes the least element of a set of naturals from the
library's theorem on well-founded orders. `FailedUndone` needs from `FdInv` that
a free descriptor holds nothing: giving back the one an open has filled restores
the table to the field.

**Interrupts and alarms.** `AlarmInv` is five parts. `LockOK`: a call that has
begun keeps interrupts out, so it never overlaps a handler. `TableOK`: what is
enabled is registered and has its context, except for the one interrupt between
the stores of its registration. `ListOK`: `ListWhole`, and the two pointers of
`alt_tick` lead to the list or to an alarm that was taken off it and points to
itself. `ListWhole` names reachability, so the links are reasoned about without
induction: a path is a property of the sets closed under the links (`Path`), an
insertion, a removal and a step of the walk each keep one (`PathInsert`,
`PathRemove`, `PathNext`). `TimeOK` is the timer: an alarm that is due is ahead
of the walk, or its callback is running, and outside `alt_tick` none is due; so
a tick never lowers a zero, which with the arithmetic modulo `TickLimit` is the
refinement of `Timer`.

**Profiler.** The heap is one record, `h0`, and `Sound` says that its blocks and
the rest of the slab lie apart in it; the lemmas about `sbrk`, the slab and the
histogram take a sound heap to a sound heap or to one that shows its failure.
The program and a handler use the same lemmas, as the second half of `mcount`
has interrupts disabled. `OneSampler` needs `OnceOK`: after a start without a
race the flag is down and the program past its test.
`CallsCounted` needs a way to count without a sum: a *mark* for every increment,
named by the entry, the place of the arc and the number, both places counted
from the end of the list, since lists grow at the head. A new arc or a new count
is then one more element of a set (`OneMore`), an entry without arcs is none.
`CountInv` adds what `mcount` relies on between its instructions (`FoundOK`): the
entry it found is there and is of its function, the arc is in it, and the count
it has loaded is still that of the first arc of its caller, although handlers
have put others before it (`HitMoves`), unless one counted the same arc.

**Library.** A call is one step, so the invariant is only what the call returns
(`CallsReturn`); the work is in what the loops compute. *Division:* after `k`
turns the dividend's top `k` bits have been divided, the rest stands above the
quotient (`Divides`); a remainder below the divisor doubles to less than twice
it, but for a carry out of the top that does not come. *Multiplication:* the low
product is that of the top `k` bits of the multiplier, the high one that of its
bottom `k` bits, shifted (`Multiplies`). Signs come from arithmetic modulo
`2^RegBits`. *Caches:* the loop visits the lines of a region one after the other
(`WalkCovers`), and one more when the region starts inside a line; the start-up
loops visit every line of the cache once (`WalkFills`). *Start-up:* the copy after `k`
words is the memory with those words in place (`Loads`); the sections lie apart,
so neither copy nor clearing disturbs what the other has written or the image.
*Clock:* quotient and remainder of the microseconds by a second, with the borrow
of `ALT_SETTIMEOFDAY` given back by `ALT_GETTIMEOFDAY`. *Printing:* a number
written with as many digits as it needs, behind any zeros, reads back as itself
(`DigitsRead`), for any base up to 16; what is printed before it ends where the
blanks end (`NumberReads`). A conversion that stands anywhere in a format, read
with whatever flags the one before it left, prints the field of the next
argument and leaves the reader where it found it (`ConversionRead`): the percent
sign resets all flags, and the first digit of a width what is left of it. Two
conversions are then two uses of that lemma (`PrintsTwo`).

**Only model-checked:** liveness (`ReadyAgain`, `BenchEnds`, `EverythingSent`,
`CharTaken`, `CallsReturn`, `KeyAskedFor`, `FirstServed`), which the installed
provers do not handle; and the known answers (`KnownDigest` and the words of the
expander's bench), which are computations on literals.

## What the models found

Each is an entry of `findings` in `PROJECT.json` with its line and the quoted
claim. But for the violation run the property states what the code does, with
the divergence as its exception, so that the run pins down how far it goes.

*Hardware and reference*

1. **The engine serves one block** (`LaterBlocksOneRound`). `Counter` stays at 63
   after a block (`HashComp.vhd:98`); neither FINAL nor reset rewinds it, so every
   later block gets one round. The port comment (line 13) promises "Ready to
   process the next block".
2. **The padding drops a bit** (`PadsTimeZero`). `l` starts at 31
   (`padding.vhd:24`), so 31 of the 32 bits are copied; the bench asserts 32.
3. **The bench of the padding never asserts** (`BenchWaits`). It waits for an
   event on `ready` that took place at time zero (`padding_tb.vhd:60`).
4. **The reference prints short digests** (`PrintsDigits`). `std::hex`
   without a width drops leading zeros (`Sha256C.cpp:198`).

*UART and firmware*

5. **A full receive ring is overwritten** (run `UartOverwrite`). The handler
   dispatches on the status register, not on what is enabled. An interrupt of the
   transmitter while the receive interrupt is masked moves a character into the
   full ring; `rx_end` meets `rx_start` and all of the ring is lost. The comment
   of `altera_avalon_uart_init.c:189` says interrupts stay off until data is
   removed.
6. **Errors are not discarded** (`ReadsInOrder`). On a framing error the handler
   returns without reading the character, with the flag already cleared; the
   interrupt comes again and the character is taken as good. The comment of line
   157 says "discard the data".
7. **The handler competes for the key** (`EchoOnce`). The firmware calls itself
   "polled mode (no interrupts)", but interrupts are on: the handler takes a key
   before the program sees it, or between the poll and the read, and then the key
   is echoed and also in the ring.
8. **The last paced character can be lost** (`OnlySplashLost`). The first of the
   four unpaced writes does not wait for the character before it.

*Descriptors, interrupts and alarms*

9. **The lock overlooks the highest descriptor** (`LockOverlooksHighest`).
10. **Closing a standard descriptor does not unlock its device**
    (`NoOpenWhileLocked`).
11. **`isatty` ignores the answer of `fstat`** (`FailureUndone`).
12. **`stat` loses the reason of a failed open** (`FailureUndone`).
13. **A delay of 2^32 - 1 ticks is none** (`ImplementsTimer`): its end is the
    present tick, and no roll-over is noted.
14. **A callback that stops the next alarm hangs the system** (`FirstServed`):
    the walk has noted that alarm and follows its link to itself for ever.
15. **A callback that restarts its own alarm** and returns a delay gets the sum
    of both (`ImplementsTimer`).

*Profiler*

16. **Samples are counted behind the histogram** (`BlocksApart`), for the last,
    partial bucket of the text.
17. **An exhausted heap is not noticed**: `sbrk` answers -1, the code tests for
    0 or not at all.
18. **The heap has a limit that its comment denies** (`BlocksApart`). `alt_sbrk.c:46-48`
    says it does "not perform any bounds checking" and allocates in any case; lines
    78-92 compare the new end with `__alt_heap_limit` and answer -1. What is left
    of the comment is the stack: the linker script puts that limit where the stack
    begins (`linker.x:376,386`), so the heap may grow into it.
19. **The sampler is started twice** (`OneSampler`) when a handler comes between
    the test of a flag and its reset.
20. **Counts are lost** (`CallsCounted`) when a handler comes between the load
    of a count and its store.

*Library*

21. **Start-up speaks before it has a voice** (`StartsFresh`): the messages
    before `alt_load` take their flag and text from where the data will be,
    which holds what the last program left.
22. **The instruction cache gets no parity** but for the first word of a line,
    against the comment of `crt0.S:163` (`FlushCovers`).
23. **`settimeofday` multiplies in 32 bits**, `gettimeofday` in 64
    (`TimeKept`).
24. **A delay of whole long loops goes once round all words** at its end
    (`TimeKept`).
25. **`alt_dcache_flush_no_writeback` discards a line that is not in its
    region** (`FlushCovers`).
26. **The flush loop never ends** for a region in the last line of the address
    space (`FlushCovers`).
27. **The echo of a text loses its last character** (`PrintsArguments`).
28. **An emulated instruction reads `sp` 136 too low**
    (`EmulatesInstructions`).
29. **An emulated instruction loses a result in `gp`**
    (`EmulatesInstructions`).
30. **The comment on the return code of a handler is the reverse of the code**
    (`EmulatesInstructions`).

## What is not modelled

* `AvalonHashComp.vhd`: an entity with an empty architecture that does not
  compile. `paddingPackage.vhd`: used by nothing, does not compile.
* The bench of the expander has no module of its own: its sequence of waits is
  one behaviour of the free environment of `deComp`, its vector and its expected
  words are in `KnownAnswers`.
* `ioctl` of the UART driver, its small variant and flow control: compiled out.
  The bit clocks and shift registers inside the UART.
* HAL, interrupts: `alt_irq_interruptible` (nested handlers), which nothing
  calls, and `alt_ic_irq_enabled`, which only reads. Alarms: the arguments
  `alt_alarm_start` refuses. Descriptors: `F_GETFL`, `errno` values and data.
* HAL, exceptions: the cause a handler is given, 16-bit instructions, the separate
  exception stack. Start-up: shadow register sets, ECC registers, stack check.
  The shortcuts for a simulator (`ALT_SIM_OPTIMIZE`: `crt0.S:167,266,434`,
  `alt_busy_sleep.c:59`), which this build does not take.
* HAL, heap: the stack. The heap may grow up to the place where the stack begins
  and the build has no stack check, so `BlocksApart` speaks of blocks and the
  limit and not of what the stack uses.
* HAL, printing: the status lines of a JTAG UART, which the system does not have,
  the count of `alt_log_system_clock`, and a NUL inside a text that is echoed,
  which in the code ends it early. Time: `times`, which copies the tick
  count, and the time zone.
* The rest of the HAL: system calls that only answer an error (`fork`, `wait`,
  `execve`, `link`, ...), functions of one assignment (`alt_remap_cached`, the
  constructors), and what the build leaves out (semihosting, DMA, flash, ECC).
  They keep no state in this system.
* The generated processor, interconnect, memory and their configuration; tool
  metadata; build outputs.

About two thirds of the lines of the C sources and headers are licences,
comments and blank lines, and of the rest nearly half is declarations, register
macros and conditional compilation. The map names the functions that do
something; it does not name headers whose lines it does not translate.

## Plan

What is left to do:

* **The rest of the HAL.** Stand-alone functions that the map does not name,
  where they keep state.
