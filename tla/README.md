# Formal model of zr-soc

zr-soc is a small RISC-V SoC: an Ibex core with tightly coupled memory, a debug
module reached over JTAG *and* over the system bus, and the E203 peripherals
(UART, QSPI flash, PWM, GPIO) behind an ICB fabric.  With the RTL come a Verilator
simulation with a remote bitbang server for OpenOCD, a port of CoreMark, the
environment of the RISC-V ISA tests, and the start-up code of the board's programs.
This directory holds TLA+ models of these, TLC configurations that check them, and
TLAPS proofs about them.  Paths below are relative to `src/`; those of the RTL
(`.sv`, `.v`) to `src/rtl/`.

    tlc -workers 2 -config DmiArbiter_any.cfg DmiArbiter     # a run
    tlapm DmiArbiterProofs.tla                               # a proof

In the hardware modules one step is one rising edge of the clock (of one of the two
clocks in `Cdc2Phase`).  A flop is a variable and carries the name it has in the
source; a wire is an operator over the flops; an `always_ff` process is an
operator that defines the primed flop; an input of the module is chosen with
`\E` or kept as a wire variable.  In the software modules one step is what a thread,
process or handler does between two points where something else may come in (a
lock, a system call, an interrupt), and a function of the source that nothing can
interrupt is an operator of the same name.  "History" variables are named as such
where they are declared; no guard of a model reads one.  An operator `X_Something`
placed before `X` is a deliberate error used to show that a property can fail.

## 1. Inventory

| Component | State | Operations | Hard behaviour | What makes it correct |
|---|---|---|---|---|
| **DMI arbiter** `dmi_arbiter.sv` | request and response word, valid and ready flops for two DTM ports and the DM port, last port, transaction flag | accept a request, offer it to the DM, take the answer, hand it to the asker, reset | both ports ask in one cycle; DM stalls; answer steered by a flop that moves | one transaction at a time, answer to its asker, turns |
| **Bus-side DTM** `icb2debug_bus.sv` | request, response, status registers, FSM of 3 states, sticky error, operation latched one cycle late | register writes and reads, start, CTRL reset | software writes while a request runs, polls in the first cycle it can, resets with an answer on the way | request not torn, poll never sees the old answer, refused write reported |
| **Debug interrupt mask** `icb2debug_bus.sv`, `zr_coreplex.sv` | enable and temporary-disable registers, 7-bit down counter | write, reset, count | counter wraps through its underrun bit | block lasts 64 cycles and ends |
| **Debug transport** `zr_coreplex.sv` | the two DTMs, the arbiter, the DM | the whole path of a debug request | JTAG and software debug at the same time | no request lost, no answer to the wrong DTM |
| **Coreplex bus** `zr_coreplex.sv` | valid/data flops of TCM, DM, DTM, `cpu2icb` bridges; DM port arbiter; the TCM | decode, grant, answer, OR the answers of all slaves | two ports on one RAM and one DM port; answers are merged by OR | each answer is the one asked for; every access is served |
| **Peripheral fabric** `perips/sirv_icb1to16_bus.v`, `sirv_gnrl_icbs.v`, `e203_subsys_perips.sv` | command, response and identifier queue | accept, route, collect, default slave | slaves of different latency; same-cycle bypass of the identifier queue | each command answered once, in order, by its slave |
| **Queues** `perips/sirv_gnrl_fifo.sv`, `sirv_gnrl_pipe_stage.sv`, `sirv_queue_1.v`, `pulp/fifo_v3.sv`, `pulp/cdc_2phase.sv` | pointers, level, memory; phases of the crossing | push, pop, flush, reset | wrap, full/empty, fall-through, two unrelated clocks | a bounded first-in first-out queue |
| **UART** `perips/sirv_uart*.v`, `uart_rx.v` | registers, two byte queues, transmit shifter, receive FSM, baud dividers | register access, send, receive, interrupt | two dividers that count differently; overrun; software races | bytes arrive whole, once, in order |
| **QSPI flash** `perips/sirv_flash_qspi*.v`, `sirv_qspi_*.v`, `sirv_spi_flashmap.v` | registers, FIFO queues, flash map FSM, link selection, frame FSM and chip select, shift engine | register and memory-mapped access, frames, transfers | switch between masters with a frame open; a read that continues the last one; pins sampled three cycles late | a mapped read gives the byte at its address; the flash hears each byte of the FIFO once, in its frame; received bytes are the flash's |
| **Flash model** `verilator/spi_model.sv` | bit and byte counters, command, address, memory | bit in, bit out, deselect | – | the flash of the bench |
| **TileLink adapters** `perips/sirv_tlfragmenter_qspi_1.v`, … | repeater, fragment counter | split a fetch in bytes, collect | responses interleave | not modelled |
| **PWM** `perips/sirv_pwm8*.v` | counter, compare registers, interrupt bits | count, compare, write | register write in the cycle of a comparison | not modelled |
| **GPIO** `perips/sirv_gpio*.v` | pin registers, synchroniser, pending bits | write, sample, write-one-to-clear | edge in the cycle of the clear | not modelled |
| HCLKGEN registers, clock cells, top level | plain registers, wiring | – | – | not modelled |
| Ibex, JTAG TAP, debug module | submodules absent from the repository | – | – | environments |
| **Simulation wrapper** `verilator/sim.cpp` | two threads and `main`, a mutex, a pipe; the model of the SoC; the string collected from its UART | create, clock, evaluate, drive JTAG pins, read TDO, quit, join, delete | three threads on one model; timeout, `$finish` and quit at once; wake-up through a pipe | the model in one hand at a time, answers are the client's, the program ends |
| **Remote bitbang server** `verilator/rbb_server.cpp` | two descriptors, `epoll` events | listen, accept, respond, finish | client gone, silent, or quitting while the simulation ends | as above |
| **CoreMark kernels** `sw/coremark/core_{list_join,matrix,state,util}.c` | list with cached results, matrices, text, checksums | sort, find, remove and undo, corrupt and repair, multiply, checksum | comparisons that run benchmarks and change what they compare; ties | published checksums; all data as before |
| **CoreMark main program and ports** `sw/coremark/core_main.c`, `*/core_portme.c` | iterations, contexts, time, verdict | calibrate, start and stop contexts, report | threads, forks, datagrams that fail; clocks that wrap | the verdict rests on the contexts' own results and on a right time |
| **ee_printf** `sw/coremark/barebone-arty-a7/{ee_printf,cvt}.c` | text, transmit queue | format, send | rounding carries, padding, full queue | what the C standard prints, with named exceptions; none of it lost |
| **Virtual memory environment** `isa-tests/env/v/vm.c` | page tables, free list, mapped pages | page fault, evict, end | TLB that remembers, A and D bits | a test finds in memory what it left there, and ends |
| **String functions** `isa-tests/env/v/string.c` | memory | seven functions | words and bytes, ends | what the C library does |
| **Start-up and trap code** `fpga/arty-a7/sw/init.h` | registers, CSRs, `test_trap_data` | reset, enter and leave a trap, report | trap in a trap, trap before the vector is set | the program's registers survive |
| Bare-metal template, register headers, assembler macros, ISA tests, benches, board shell | none of their own | – | – | not modelled |

How they interact: the core's instruction and data ports decode into TCM, debug
module memory, DTM window (data only) and two `cpu2icb` bridges; the data
bridge leads to the fabric, the instruction bridge to the flash.  The DTM window
and the JTAG DTM meet in the DMI arbiter, which drives the DM; the DM's
interrupt lines pass the mask of the bus-side DTM on the way to the core (or
should: see finding 2).  All of it is one clock except the crossing between the
JTAG clock and the system clock.

The simulator evaluates the SoC from two threads: one clocks it, the other moves its
JTAG pins on behalf of a client of the socket.  CoreMark and the ISA tests run on
the SoC; CoreMark's other ports, which share its kernels and main program, run on
Linux.

`PROJECT.json` lists each component with its status, and each hazard at the line
where it bites with the properties that watch it.

## 2. Modules

Debug transport:

- `DmiSerializer` – abstract: transactions of two ports run one at a time; each
  goes through *sent*, *executing*, *answered*, and its answer returns to the
  port that asked; of two askers, the one served last waits.
- `DmiArbiter` – every process of `dmi_arbiter.sv`, one operator per `always_ff`,
  with `DebugModule` as DM and arbitrary waveforms (`AnyWires`) on both DTM ports.
  `Serializes` is the refinement of `DmiSerializer` (phase, owner and request
  are read off the flops).
- `DebugModule` – external: the DM as the arbiter uses it: takes a request, works
  for some cycles if `SLOW_DM`, answers, waits for the answer to be taken.
- `Icb2DebugBus` – the transaction side of `icb2debug_bus.sv`.  Data words are
  reduced: a response is represented by the request it answers.  `SPACED` says
  that commands are at least two cycles apart, as Ibex issues them;
  `CTRL_WRITES` lets software reset the DTM.
- `DbgIrqMask` – its interrupt side, at the width of the code (window 64).
- `DebugTransport` – `Icb2DebugBus`, `DmiArbiter` and `DebugModule` composed on one
  clock with a JTAG DTM; `ONE_AT_A_TIME` keeps the two DTMs from being used together.

Queues:

- `BoundedFifo` – abstract: what every queue promises, with two flags for
  fall-through and for room made by a pop.
- `SirvGnrlFifo` (one-hot pointers and fill level), `SirvPipeStage` (a register
  with a valid flag), `SirvQueue1` (pointers and `maybe_full`), `FifoV3` (pointers
  and count, both modes), `Cdc2Phase` (two-phase handshake on two clocks).  Each
  has a mapping to `BoundedFifo` and is checked against it.

Buses:

- `IcbFabric` – buffer, decoder, splitter, default slave.  It uses sequences for
  its queues because `SirvGnrlFifo` and `SirvPipeStage` are shown to implement
  them.  The sixteen address ranges are reduced to one slave of each behaviour:
  a register file (answers at once), a tied-off port (always ready, always an
  error), a late slave, the default slave.
- `CoreplexBus` – the core's two ports, TCM, DM slave port, DTM window and bridges,
  with `IcbFabric` behind the data port and a flash of any latency behind the
  instruction port.

UART: `UartTx`, `UartRx` (dividers, filter, FSM), composed with two byte queues
and the registers in `Uart`.

QSPI controller:

- `QspiMedia` – the shift engine (periods of SCK, data out, the pins sampled
  through three flops, the format a transfer latches), and on it the frames: when the
  chip select falls and rises, and which micro-operation is offered to the engine.
- `QspiFlashMap` – the master that turns a read of the flash window into command,
  address, padding and data, or goes on in the open frame.
- `QspiFifo` – the master behind `txdata` and `rxdata`, with its two queues as sequences
  because `SirvQueue1` is shown to implement them.
- `FlashQspi` – the whole controller: registers, both masters, and the arbiter that
  gives one of them the link (its two select flops are always opposite and are one
  variable, `sel`).
- `SpiModel` – the flash of the simulation.

Simulator:

- `RbbServer` – the server's descriptors, `listen`, `accept` (with its loop over the
  `epoll` events, in either order), `respond` and `finish`; the client and the
  kernel's side of the sockets are the environment.
- `SimHarness` – extends it with `main`, `sys_thrd`, `jtag_thrd` and the back end.  The
  Verilator model is reduced to what the threads share of it: `$finish`, the quit
  input, the character the UART shows, and a TAP in bypass, which is the least that
  makes the answer to a read depend on the order of the pins set before it.

Software:

- `CoreUtil`, `CoreKernels`, `CoreList` – the kernels as functions on
  real data: bytes, 16-bit words, the text, the matrices and the list.  The pointers
  of the list become positions in its memory; the sizes are those of the program.
- `CoreBench` – a context at work: `iterate` and `core_bench_list`, one step per node
  of a merge, round of the search, or call.
  `CoreUtil` also holds what the program knows of parameter sets, and what differs
  between the ports (clock, seeds, size of data, ways to run contexts).
- `CoreMain` – the main program with its contexts as threads, as forked children with
  shared memory, as forked children with datagrams, or none.  Results are told
  by where they come from, since `CoreBench` shows what they are.
- `EePrintf` – the text a directive makes, and its way through the UART's queue.
- `VmEnv` – page faults, eviction and the end of a test, on a TLB that may remember or
  forget any translation, with or without hardware A and D bits.
- `CString` – the string functions, by words where the code goes by words.
- `TrapVector` – reset vector, trap vector, handlers and the reporting loop; the core's
  part (CSRs on trap entry and `mret`) is external.

Benches: `MCDebug` (a variable chooses the interrupt mask, the
request registers, or the debug path in one of two settings); `MCQueues`,
`MCCoreplexBus` and `MCSoftware` (a variable chooses the unit under test; the three
programs that others interrupt are in `MCPrograms`, which `MCSoftware` extends); `MCUart`
(loopback and the driver), one of the units of `MCQueues`; and `MCQspi` (a flash on the
pins, reads of the flash window and jobs on the FIFO).  `DmiArbiter` and
`SimHarness` are closed systems and are checked as they are.

Proofs: `DmiArbiterProofs` (with the refinement), `QueueProofs` (all queues, the
crossing and the UART), `DebugProofs` (the interrupt mask and the bench of the debug path),
`BusProofs` (coreplex bus, its bench), `SimHarnessProofs`, `SoftwareProofs` (the programs
of `MCPrograms`).  The invariants of `DebugTransport` and `IcbFabric` stand at the end of
these modules themselves, because the modules that compose them cite their lemmas
through the instance (`Arb!ArbStep`, `Fast!IInvStep`, `Perips!CycleIInv`); what
`Icb2DebugBus` keeps is stated there (`Latched`, `RefusalKept`) and proved where it is
composed.

## 3. Runs

| Run | Module, configuration | Bounds | Shows |
|---|---|---|---|
| `arbiter` | DmiArbiter, DmiArbiter_any | 2 request words; any waveform on both ports; reset in any cycle | phases agree, requests held, `Serializes` (one transaction at a time, answers to the asker, turns), every transaction ends |
| `debug` | MCDebug, Debug_all | 1 data word, 2 operations, 2 addresses; any DMI waveform; 1 interrupt line, the real window of 64; either a DM of any latency and one DTM at a time, or a one-cycle DM and CTRL resets | a request is never put together from two writes and stays until taken; a refused write is reported; a block lasts exactly 64 cycles; polling is sound, answers reach their owner, no handshake is lost, nobody waits for ever |
| `transport_lost` | MCDebug, Debug_lost | both DTMs together | **violation**: finding 1 |
| `irq_core` | MCDebug, Debug_core | as `debug` | **violation**: finding 2 |
| `queues` | MCQueues, Queues_all | 2 items; depth 4 (one-hot, byte queue), 4 and 3 (`fifo_v3`); crossing words 0..3; any producer, consumer, flush, reset.  UART: divisor 14, queues of 2, 3 bytes of 2 values, 1 or 2 stop bits, transmitter paused at any time | each queue implements `BoundedFifo` and shows it truthfully; the crossing samples stable data and always delivers.  UART: bytes arrive whole, once, in order; the room software saw is still there; nothing is left behind |
| `bus` | MCCoreplexBus, CoreplexBus_any | one slave of each kind, 2 TCM words of 1 bit, 2 tags; the fabric also with 2 outstanding commands (`Deep`) | answers match accesses, TCM is current and changed only by its stores, DM port shared fairly, fabric accounts for every command, every decoded access is served |
| `qspi` | MCQspi, Qspi_all | queues of 2; a flash of 3 bytes, reads on one and on four lanes, 3 jobs on the FIFO | `FlashRead`, `Received`, `Heard`, and every read and byte is served |
| `qspi_divider` | MCQspi, Qspi_divider | same | **violation**: finding 5 |
| `harness` | SimHarness, SimHarness_any | 3 commands of the client, which drives TDI with TCK (`TDI_FREE`), 1 character, timeout of 1 clock | the model is guarded, the UART's message is whole, answers match, the program ends by itself without a client and with `Q` |
| `harness_hang` | SimHarness, SimHarness_hang | same | **violation**: finding 3 |
| `software` | MCSoftware, Software_all | see below | published checksums and restored data, tokens, contexts and time, printing, paging, strings, traps |
| `coremark_verdict` | MCSoftware, Software_verdict | same | **violation**: finding 4 |

Why the bounds are enough.  Two request words (or two operations and two addresses)
tell a request from a mixture of two; a third would add no case, since the code
never compares words.  One of the words of software fails in the DM (`Faults`), so that the
status stored is told apart from a refusal.  In the queues a power-of-two and another depth reach
both wraps of a pointer; two items tell one order from another because the
refinement carries the whole queue.  In the bus every slave behaviour appears once
and the splitter only compares slave indices for equality.  In the UART depth 2
reaches full, empty and overrun with three bytes; the byte queue (8 deep in the code)
wraps and fills at 4 as it does at 8, and is proved for every depth, as is the UART for
every divisor from 14 up (below).  In the QSPI the three
addresses give a read that continues the last one, one that goes back and one that
jumps; the two formats switch between one and four lanes in an open frame; a read may
come in any cycle in which none is pending, also one cycle after the FIFO was given
the link or the map was enabled again.  The jobs use the three chip select
modes, one, two and three or more bytes (so that the queue of two is full), a receive
on two lanes and on one, and a delay between transfers.  In the harness three commands are two pin changes and a read, the
shortest sequence whose answer depends on its order; the timeout comes one clock
after the first, so that it, `$finish` and `Q` meet in every order.

The bounds of `software`, unit by unit.  *Kernels*: the five parameter sets
the program knows, at their sizes (666 and 2000 bytes for each algorithm, 400 with
one more seed), with one or two iterations, since what is carried from one to the
next is the data, which `Restored` shows unchanged.  *Token reader*: every text of up
to five bytes over the six classes of bytes it distinguishes; five bytes reach every
state.  *Contexts*: two, commands on both sides of the ten-second limit, with known
and unknown seeds, machines from slow to fast, every port, any failure of any start
and any child stopped or killed.  *ee_printf*: every flag with widths below and above
the text and precisions from 0 to more digits than there are, zero and values at the ends of
16 bits, fractions a double holds exactly, ties and carries through all nines among them,
a UART queue of two.  *Paging*: the LFSR and the 62 pages of the source, two
values of the entropy, the first and the last page touched, three accesses of any kind.
*Strings*: words of two bytes, so that a length is a multiple of a word or not,
addresses that agree or not, and every content that differs in its first or last
byte.  *Traps*: three of them, which is a trap in a handler within a handler.

**UART divisors.**  The transmitter holds a bit for `div + 1` cycles
(`sirv_uarttx.v` reloads `prescaler` with `io_div`), the receiver counts `io_div`
cycles (`uart_rx.v:105-107`).  Over a frame the sampling point therefore drifts by
about ten cycles.  From 14 up it stays within the bit, for every divisor: that is
proved (`WholeBytes`), and the bound cannot be lowered, since with the divisor 13 in
place of 14 TLC finds `ArrivesWhole` violated in this run (`DivisorAssumption` has to be
relaxed for that).  The reset divisor is 542.
`isa-tests/soc/uart-regs.S:78` calls 16 the "min useful divisor" (the test uses 32): the
proved bound agrees with it and is two lower.

**Fairness.**  Weak fairness of the clocked step says that the clock runs.  In
`DmiArbiter` and `DebugTransport` a stalled or working DM goes on eventually; that
a DTM takes the answers it is shown is not assumed by the specification but is the
premise of `EveryTransactionEnds`.  In `MCCoreplexBus` a late slave takes and answers
eventually, and so does the flash; in `Cdc2Phase` both clocks run and the
receiver takes a word it is shown.  In `MCQspi` cycles without an access come again
and again (weak fairness of `Idle`), in which the bus takes an answer.  In `MCUart`, and
so for the UART of `MCQueues`, software answers an interrupt, and a transmitter enabled
again and again gets to send (strong fairness, because software may pause it at any
time).  These are statements about the
environment; the RTL itself needs only its clock.  In `SimHarness` each thread runs
(weak), and one that waits for the mutex gets it in the end (strong: both threads
call `usleep` outside of the critical section for that purpose, `sim.cpp:232`,
`356`); nothing is asked of the client.  In `CoreMain` the main program and each
context run; nobody has to stop or kill a child.  In `VmEnv` the core goes on.  In the arbiter a reset ends the
transaction it hits.  The liveness benches of the crossing and the buses do not
reset, because a reset drops the word or access and begins again from the
initial state; the safety benches of the same modules reset in any cycle.

Deadlock checking is on in every run; where a program has ended or waits for ever
for something nobody will send, its module says so with a step of its own (`Gone`,
`Done`).

### Findings

1. `transport_lost` – `dmi_arbiter.sv:31-32` promises that a handshake completes
   when valid and ready are both asserted.  `dtmN_req_accept` (line 125) also
   needs `dtmN_req_allow`, and ready stays high meanwhile: a DTM that starts while
   the other's transaction runs sees its handshake complete and its request is
   dropped.  The bus-side DTM then waits for an answer that does not come.
2. `irq_core` – `icb2debug_bus.sv:80-81` says that the mask is applied at the coreplex;
   `zr_coreplex.sv:117` connects the unmasked line (the masked one is a TODO
   comment on line 116).
3. `harness_hang` – `verilator/README.md:175` says that the server is closed when the
   simulation finishes.  With a client connected the JTAG thread sits in `read()`
   (`verilator/rbb_server.cpp:166`) and does not see the pipe: a silent client keeps the
   finished simulation from exiting.
4. `coremark_verdict` – `sw/coremark/core_main.c:299` says that a run of less than ten
   seconds is an error.  With unknown seeds `total_errors` starts at -1 (line 261), the
   short run adds one, and the result is "Correct operation validated" (line 324).
5. `qspi_divider` – `sirv_qspi_media.v:133-139` lists the micro-operations `io_op_valid`
   offers, the idle state and the delays around a frame among them.  The assignment on
   line 173 offers only transfers and the delay between two of them.  The divisor,
   the polarity and the phase are latched with the others (`sirv_qspi_physical.v:206-218`),
   so the engine keeps its reset values: SCK always runs at half the clock, in mode
   0, and `cssck`, `sckcs` and `intercs` do nothing.  `isa-tests/soc/qspi-trans.S:51-53`
   and the reset divisor of 3 suppose the divided clock; no test notices a faster one.

### What a reader of the code should know

- After a write that comes while a request runs, software learns of the
  refusal only from the *next answer* (`icb2debug_bus.sv:367`); a write in the cycle
  the answer is stored is dropped and reported one answer later.  Worse, a write of
  Request Others refused in that cycle still raises the start strobe
  (`icb2debug_bus.sv:321` does not look at the state), which finds the DTM idle and
  runs the *previous request a second time*.  `RequestUntorn` shows that it is that
  request, whole; a request with side effects in the DM should not be chased by
  another write before the status reads idle.
- A CTRL reset abandons a request but not its answer.  `PollSound` with
  `CTRL_WRITES` holds in `debug` because the answer of a one-cycle DM comes
  before software can start another request.  With a slow DM it would not; no
  line of the repository promises a slow DM.
- An access to an undecoded address gets no grant and hangs the port; `Served` is
  stated for decoded ones.  `cpu2icb` ignores the error of
  the fabric, so a load from the default slave reads a good value.
- A fetch in the cycle of a store to the same TCM word returns the old byte; this
  is the exception in `TcmCurrent`.
- The ORed answers (`zr_coreplex.sv:579-609`) are safe because Ibex keeps one access
  per port outstanding; the model's `Core` makes that assumption.
- `icb2debug_bus.sv:94-95` says that the disable counter may be restarted by
  reading the temporary disable register and writing it back; the read multiplexer
  (lines 329-343) has no case for it, so it reads as zero.
- A client that closes its connection without sending `Q` does not close the server:
  `finished()` stays false, and `respond()` executes whatever byte its uninitialised
  variable holds, again and again (`rbb_server.cpp:160-175`).  `ReadCommand` makes it any
  command; `QuitEnds` and `AnswersMatch` hold all the same.  Answering such a client
  may kill the process with SIGPIPE.
- The repair of CoreMark's text uses `seed2` where the corruption used `seed1`; and a
  byte that corruption turned into a comma is left alone.  `Restored` therefore holds
  for the parameter sets the program knows and is not a law of the code.
- `Collected` speaks of parameters the program knows (`Known`): with others it compares no
  checksum, and a short run is called validated whatever is in the results (finding 4).  It
  names its two exceptions: a shared segment is never removed, so that a
  child killed early leaves an earlier program's results to be taken for its own;
  and a context whose thread never started leaves the results of the calibration.
- The flash map continues in the open frame when the next address is wanted and the link
  is active (`sirv_spi_flashmap.v:114`).  A byte of the FIFO still going out keeps the
  link active: software that maps the flash again at that moment and reads the address
  after the last one gets a data phase without a command.  `SETTLES` is the wait that
  avoids it, as the tests do; with `SETTLES = FALSE` `FlashRead` fails.
- In the FIFO's format the number of periods is wrong for some lengths
  (`sirv_qspi_fifo.v:100-104`, marked TODO there): an odd length on one lane sends one bit
  more.  `io_link_cnt` has it; the jobs use length 8, where it does not matter.
- On two lanes the controller drives bits 6 and 5 of the byte, not 7 and 6
  (`sirv_qspi_physical.v:160`: three bits of the buffer in a field of two); nothing
  in the repository sends on two lanes, the jobs only receive on them.
- With `cmd_en` off the flash map skips the state that loads the address counter
  (`sirv_spi_flashmap.v:138`), so that no address is sent; and a
  fetch while the map is disabled is answered with zero at once (`:102-103`).
- The flash model has no dummy byte for its fast reads, so the formats of the bench have
  no padding.
- `ee_printf` is not C's `printf`, and nothing in the repository says it is.  `Printed`
  compares it with the rules of the standard, stated apart from its own operators, and
  names where it departs from them (`EePrintf!Departs`: over the directives of the bench the
  text is C's exactly where `Departs` is false): `%#o` puts a zero before one that is there already,
  for the value 0 or by the precision; `%#x` prefixes a zero and `%#X` writes `0x`; the flag `0`
  fills with zeros beside a precision; `%.0d` of 0 is a digit; and of two
  decimals equally near `cvt.c:88` takes the upper, C the even one (`%.0f` of 0.5 is `1`).  There the
  text still tells the number (`Tells`).  The form of `%p` is left to the
  implementation, and `%a` prints network addresses.
- The trap handlers save two registers at a fixed address and one in a CSR, which is enough
  only because they leave interrupts disabled (`Undisturbed`).  The start-up code lets
  interrupts in before it sets `mtvec` (`init.h:260-266`); a trap then goes through the table at
  the boot address, which leads to the same `trap_vector`.

## 4. Proofs

TLAPS proves, for all values of the constants:

- **`DmiArbiterProofs`** – the inductive invariant is `TypeOK /\ PhaseInv`.  `TypeOK`
  alone is not inductive for anything of interest: nothing in it keeps `dm_req_vld`,
  `dm_rsp_rdy`, the response valids, the transaction flag and the DM apart.
  `PhaseInv` says that these flops are always in one of four combinations
  (free, sent, executing, answered).  One lemma per combination says where a cycle
  leads from it; `TypeCorrect`, `PhasesAgree`, `NeverBoth`, `RequestIsHeld`,
  `AnswerIsHeld` and `Fair` (turns) follow.  `AnswerHeld` follows a request from end to end: the
  word a port was accepted with is the one that runs and whose answer is stored, it is shown
  to that port and no other, and it stays until taken.
- **`DmiArbiterProofs`, refinement** – `Implements`: each cycle maps to a step of
  `DmiSerializer` or a stutter, case by case over the same four combinations.
- **`DebugTransport`** – `EachItsOwn`: used one at a time, each DTM gets the answer to its
  own request, a status read is sound and every handshake is taken.  No flop of the
  arbiter says whose request runs *from the DTM's side*, and none of the DTM says
  which of its requests the arbiter holds.  `IInv` adds that to the invariants of the two
  parts: `JtagInStep` and `BusInStep` give, for each state of a DTM, the combination of
  arbiter flops it goes with and the request in them; `Stored` follows the request
  software made last through *yet to run*, *running* and *answer stored*; and `Orphan` is
  the transaction the bus-side DTM was reset out of, which must be drained before
  the next request is there.  That is where a slow DM and CTRL resets exclude each
  other: with both, `BusInStep` is not inductive, and TLC finds the answer that comes
  to the wrong request.
- **`DebugProofs`** – the mask: `BlockLastsExactly`, from the invariant that relates the
  counter to the time since the last write, for every set of harts and every window.
  The bench: `AnswersGoHome`, `PollsAreSound`, `HandshakesComplete`, `RequestsGoOutWhole`,
  `RefusalsAreTold` and `BlockLastsInBench` are the properties of the run `debug`.  The first
  three follow from the invariant of `DebugTransport`; the next two hold on every DMI, from
  what the registers of the bus-side DTM keep.  `Latched` ties the three registers a request
  is put together from to what software asked: the operation is copied one cycle late,
  and it is only the pause of a master that waits for its response that keeps the next
  write out of that cycle.  `RefusalsAreTold` needs no such pause: `RefusalKept` says that
  the sticky bit remembers a refusal for as long as the request runs.
- **`QueueProofs`** – for every depth.  All queues and the crossing implement
  `BoundedFifo` (`Implements`, `ByteImplements`, `StageImplements`, `PlainImplements`,
  `ThroughImplements`, `CdcImplements`) and show their contents truthfully
  (`ShowsTheQueue`, `ByteCounts`, `PlainShows`, `ThroughShows`, `ShowsTheChannel`).
  `OthersQueue` says it of the bench, in the words of the run: each of its cycles is one
  of the queue under test and leaves the others alone (`UnitsRun`).  The argument of the
  memories is the same: the flops always describe a read position and a number of
  items from which the queue follows (`Stretch`), and a cycle turns it by at most one item
  at each end (`StretchMoves`).  They differ in how the position and number are encoded:
  one-hot pointers and a fill level (`Coupled`), two pointers and a flag that matters only
  when they meet (`ByteHolds`), two pointers and a count (`V3Inv`: the write pointer follows
  from the other two).  `fifo_v3` is proved once, over its registers, its depth and its
  mode (`V3Moves`), and the two on the bench are instances of that.
  For the crossing, at most one of the seven phase bits differs from its neighbour
  (`TravelsAlone`), hence `CapturesStable`: data is sampled only while the sender must
  hold it.
- **`QueueProofs`, UART** – `WholeBytes` and `BytesAccounted`, for every divisor from 14 to
  the width of the register, any bytes, one or two stop bits, any number of bytes, queues of
  every depth and any pauses.  Neither property is inductive: neither says where
  the two dividers are.  `RunInv` does, in three parts.  `TxInv`: the prescaler, the
  bits left and the level of the line tell how many cycles of the frame are out.
  `FrameInv` and `BetweenInv`: while a byte is on the line, the receiver's state and divider
  are a function of those cycles.  Its sample of bit `n` comes a half bit, the three
  cycles of filter and start, and `n` times `div` after the frame began, while the bit lasts from
  `n` times `div + 1` on; ten bits later this is still within the bit when `div` is 14 or more,
  (`InStep`), so what it has sampled is the byte's (`OnLine`).  The next frame cannot begin before the
  receiver is idle again, also after one stop bit.  `Account`: the bytes due
  are those of the receive queue, the one heard but not delivered, the one being sent and
  those of the transmit queue, in this order.  The existential in `Carries` is the byte being sent:
  no register keeps it, for the shifter loses its bits as they go out.  A cycle is
  proved in two halves, the line (`Passes` is all the queues need know of it) and the
  queues (`ReceiveSide`, `SendSide`).  `SetInv` covers the cycles in which software writes
  the registers: it is the order of `SetUp`, divisor first, that keeps the line quiet.
- **`IcbFabric`** – `Accounting`, for every set of slaves and every number `OUTS` of
  outstanding commands: what was issued and not answered is, in order, in the response
  queue, at the slaves and in the command queue.  `AllAccounted` speaks of the
  whole; the invariant says it element by element (`InOrder`), that all that is
  outstanding is at one slave (`OneBranch`, which is what the splitter's
  comparison of identifiers is for) and that this slave has exactly those commands
  (`AtWork`).
- **`BusProofs`** – `AnswersApart`: each port gets the answer of its own access though the
  answers of all units are ORed.  `OneAccess` and `OneFetch` say that each port has at
  most one access under way and where; the invariant of the fabric comes with it,
  cited through the instance, as the answer of a peripheral is known only from
  `AllAccounted`.  `MemoryCurrent`, `DmTakesTurns` and `FabricAccounts` are the other
  safety properties of the run `bus`.  `DmTakesTurns`: one side at a time has an access out in
  the debug module, its answer is for the side granted, which has that access under way,
  and no side is refused twice in a row.
- **`SimHarnessProofs`** – for every client, timeout and UART output.  `Guarded`: whoever
  is inside the model holds the mutex; the model is deleted after both threads
  have ended.  It is not inductive as it stands: it says nothing of a thread
  that holds the mutex outside the model, nor of how far `main` has come.  `GuardInv`
  adds both.  `MessagesAreWhole`: what the system thread has collected is what the UART
  showed, each character once and in order, but for the one being shown, which is lost when
  its cycle is that of `$finish`; how the text is printed is not modelled (`MessageInv`; it needs `GuardInv`, since only the mutex keeps the other thread
  from evaluating the model between the two looks).  `AnswersAreTheClients`:
  `AnswersMatch` compares answers given with answers wanted and says nothing of the
  commands still in the socket.  `AnswersInv` adds that these lead, one after the other,
  from the TAP as it is to the TAP as the client believes it to be (`Leads`); the
  TAPs and counts between them are given by two functions, not computed by recursion.
- **`SoftwareProofs`** – the programs of `MCPrograms`, with one invariant each (`TrapInv`,
  `VmInv`, `MainInv`).
  `TrapsLeaveNoTrace`, for any values and any number of traps: `Undisturbed` says where the
  registers must be once the code runs again, not where they are meanwhile.  `OneTrap` says
  that the handlers run with interrupts disabled and return to code that has them enabled;
  hence the one place for each saved register is enough, and `InPlace` says where each
  is, step by step.  `Meant` does the same for the number to be reported.
  `PagesAreTheTests`, for any pages touched and any number of accesses: the entry, a kept
  translation and `user_mapping` name one frame (`OneFrame`; a kept translation may be
  invalid or have older marks, but is never of another frame), frames in use and on the free list
  are all different (`Apart`), and a mapped frame holds what the test left in the page
  unless it is being filled (`Holds`).
  `VerdictsAreEarned` (for parameters the program knows) and `TimesAreRight`, for every port,
  number of contexts, command and moment of the clock.  `Sources` says what results other than a context's own can come from,
  which for a shared segment needs that nobody writes to it any more (with signals and
  interrupted waits, `Waiting` shows whom a wait can have been for); `Joined` that no thread
  runs when all are joined; `Trials` bounds the length of the last trial and, after
  it, of the run.  The clocks are proved apart: `TimeTold` and `Seconds` bound what each port's
  difference of two readings, with its truncating division or its wrapping
  subtraction, tells of a duration, and `Factors` that the factor made from it gives
  between ten and twenty-two seconds.

Assumptions are the named `ASSUME`s of the modules: `None` is not a request word;
depths, windows and `OUTS` are positive; flags are Boolean; the words include the reset
values; the kinds of slaves do not overlap and no slave is named like a unit of the
coreplex; a character is not one of the marks for "no character"; software sets a divisor of
at least 14 (`DivisorAssumption`; below it the property is false, see section 3), and a
byte has eight bits; an item the memories start with is an item and the crossing's reset
value a word (`ItemAssumption`).  `PointersReach` says of `$clog2` that
`2^$clog2(D) >= D`, which is true at every depth but an induction the provers cannot do;
TLC evaluates it at the depths of the run.
Those of the software: there is at least one context; a port has one of three clocks and
known ways to run contexts; a shared segment holds zeros or results of an earlier
program; the iterations asked for are not negative and some algorithm is selected
(`SeedsAssumption`: with `execs` set to 8, say, the program divides by zero); and
`DealtAssumption`, that the LFSR of `vm.c` deals each frame once, which is a computation
and no argument: TLC evaluates it for the LFSR of the source (6 bits, 63 pages).
Theorems have these hypotheses besides: `SPACED` (`RequestsGoOutWhole`), `Discipline`
(the theorems about the transport: commands spaced, DTMs one at a time, no CTRL reset
behind a slow DM; the settings of the bench meet it).

Only model-checked:

- liveness, everywhere (fairness and ENABLED are outside the prover): among it that
  the UART leaves nothing behind and the crossing delivers (`Arrives`);
- the QSPI controller (`FlashRead`, `Received`, `Heard`): several machines in step with each other and with a
  flash, for which no inductive invariant is worked out;
- the CoreMark kernels, `EePrintf` and `CString`, which compute recursive functions
  of concrete data (some with RECURSIVE operators): a matter for evaluation.

## 5. Not modelled

- JTAG TAP, debug module, Ibex: their sources are not in the repository.  The
  separate reset of the JTAG side (`trstn`) goes with them.
- The TileLink adapters of the QSPI, PWM, GPIO: see the plan.  Of the QSPI: writes of
  single bytes of a register, reads other than of `rxdata`, a reset in mid-flight.
- HCLKGEN registers (three plain registers behind the fabric's register slave),
  clock cells, wiring of the top level, ICB components that are not instantiated.
- The one-entry and zero-entry variants of `sirv_gnrl_fifo`, which the SoC does
  not use; UART parity, which is tied off; a reset of the UART in mid-flight.
- The bare-metal template port of CoreMark (`barebones/`, with `#error` where a clock
  is to be supplied; its `ee_printf` is nearly the modelled one), `encoding.h` and
  `soc.h` (constants and assembler macros), the ISA tests themselves, the RTL bench
  (its UART output and quit input are part of `SimHarness`) and the board shell.
- Of CoreMark: what is printed but for the verdict, and `execs` with less than all
  algorithms (a datum chooses its algorithm whatever `execs` says).
- `waitpid` and `recvfrom` interrupted by a signal: the program installs no handler.  Of
  `sim.cpp`, SIGTERM: its handler is empty, but `epoll_wait` returns with EINTR if the JTAG
  thread gets the signal there, and `accept()` aborts (`rbb_server.cpp:139-143`).  An
  `epoll_create1` or `epoll_ctl` that fails is one with the failing `listen` before it.
- Writes of single bytes of the UART's registers.
- Of `ee_printf`: the `e` and `g` forms and infinities.  Of `vm.c`: the set-up of the
  kernel's page table.  Of `sim.cpp`: time stamps, VCD, arguments, and a
  `pthread_create` that fails.

## 6. Plan

Done, in this order: debug transport; queues; buses; UART; simulator; software;
QSPI controller with its flash; and the proofs of the first four, of the
simulator and of the programs that others interrupt.  Left, most important first:

1. The TileLink fragmenter and repeater in front of the flash window: one word
   answered for four single-byte reads, in order.  The abstract specification of the
   link: whole frames of two masters, one at a time.
2. PWM: interrupt bits against configuration writes (a write in the cycle of a
   comparison overwrites the bit), one-shot, deglitch.  GPIO: edges against
   write-one-to-clear in one cycle (the edge wins), synchroniser depth.
3. UART: a divisor written in the middle of a frame, two UARTs with dividers that differ
   by a little, a line with glitches.
4. Proofs: the frames of the QSPI (`Heard`, `Received`) for every depth of its queues.
