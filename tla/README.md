# Verification of the XT RISC-V SoC

A small RISC-V system on chip for a MachXO2 FPGA, in SystemVerilog, with its
firmware in Rust: a three-stage RV32I hart with machine-mode traps, a debug
module behind JTAG, a two-master bus with bridges to slower clock domains, a
few peripherals, a boot controller, and the HAL that drives them.  This
directory holds TLA+ models of the parts whose behaviour is hard to test, the
TLC instances that check them, and the proofs about them.

## 1. Inventory

| component | state | operations | interacts with | what makes it hard |
|---|---|---|---|---|
| Hart pipeline (`RTL/RISC-V/Core`) | pc, the ID and EX stages, the exception pipeline, `nop_cnt`, `jump_pending`, `last_jump_addr` | fetch, decode, execute, stall, flush, jump | bus stall, interrupt pins, DebugCtrl | every combination of stall, flush, jump, trap and halt in one cycle |
| Traps and CSRs (`ExceptionCtrl`, `CSR`) | `ready_for_int`, mstatus, mie, mepc, mcause | interrupt request and trap, exception, mret, CSR instructions | pipeline, interrupt controllers | the request and the trap are one cycle apart; priority of writers |
| Run control (`DebugCtrl`) | `debug_mode`, `delay_halt`, `recover_from_reset`, `step_trap`, dcsr, dpc, `dm_state` | halt, resume, step, ebreak, halt out of reset, register access | DM, pipeline | halting at a trap, a jump or a reset; one step is one instruction |
| Debug module (`Debug/DM.sv`) | dmcontrol, abstractcs, command, `cmd_pending`, data, `busy_err`, resumeack | DMI reads and writes, abstract register and memory access | JtagDTM, DebugCtrl, bus | a command while busy, completion handshakes, reset under a command |
| JTAG transport (`Debug/JtagDTM.sv`) | TAP state, DMI shift register, clock crossing | scan, update, DMI request | DM | JTAG is slower or faster than the bus, busy and retries |
| High-speed bus (`XT_HB`, `RoundRobinArbiter`, RAM, `XT_HB32_Adapter`) | grant of each channel, `read_finish` of each device | request, grant, finish, stall | hart, DM, devices | two masters, two channels, shared answers, fairness |
| Low-speed bridge (`XT_LB`, `CDC_MCP_Formulation`) | toggles and synchronisers of both domains, `lb_state`, `finish` | send, receive, acknowledge | high-speed bus, LB devices | clock crossing, reset, one answer flag for two channels |
| Wishbone and reset (`WISHBONE_*`, `ResetController`, `ResetWishboneOverride`) | Wishbone cycle, `reset_state`, `ptr`, `wb_override`, `reset_pending` | access, take over the bus, command sequence, reset | PLL, DM, EFB | losing the PLL lock in the middle of the sequence |
| UART, `FIFO_SC` | FIFO memory, pointers, count, show-ahead output, `rx_irq` | frame received, read, write, transmit | bus, interrupt controller | simultaneous read and write at the boundaries |
| System timer | 64-bit mtime and mtimecmp, `update_irq`, `mtimer_int` | tick, split writes and reads | HAL | 64-bit values through 32-bit accesses while time advances |
| Interrupt controllers | enable, pending | raise, mask, redirect the cause | hart, HAL | level sources that fall before the trap; a register that main program and handlers modify |
| Boot controller and firmware | download and mode flags, the boot program, RAM, the flash | download over UART, start from flash or RAM, store by a debugger | reset, UART, flash, host | order of mode switches and resets; a protocol without timeouts; a reset in the middle of programming |
| HAL drivers (`rust-hal`, `flash-algorithm`) | driver handles, registers of the hard cores | UART, I2C, SPI, timer, flash sequences | device registers | polls of a status that moves on, acknowledgements read a frame late, early error exits |
| GPIO, LEDs, keys, display, clock utilities, register crates, benches | plain registers, tables, tooling | read, write | bus | nothing that needs a model |

What makes each correct: the hart executes the program one instruction at a
time, saves precise addresses at traps and halts, never loses an interrupt or a
halt request, and executes nothing while halted; a debug command completes once
with the right error; each bus request is answered once, to its master, with
its data; each crossing delivers each message once and in order; the FIFO shows
the oldest element; the reset sequence always runs to its end before the reset;
the timer never fires early for a value that software did not set; a driver
call reports what happened on the wire and leaves its device ready for the next
one; what the boot program confirms is in the flash.

## 2. Modules

| module | role |
|---|---|
| `Hart` | abstract specification: what software and a debugger are promised |
| `Core` | the hart, cycle by cycle, with the environment that drives its pins |
| `CoreProps` | the properties of `Core`, its invariants and the mapping to `Hart` |
| `CoreStep` | `Core` with a history variable that counts events since a resume |
| `MC_Core`, `MC_CoreStep` | instances for TLC (the vector table) |
| `CoreProofs` | proofs for every value of the constants: typing, entry, debug mode; `Core` implements `Hart`, without a debugger and with one; a single step is one step |
| `ShowAheadQueue` | abstract specification: a bounded queue that shows its head |
| `FifoSC` | `FIFO_SC`, both output modes, and its mapping to the queue |
| `FifoProofs` | proofs about `FifoSC` for every depth and every set of items |
| `Channel` | abstract specification: a channel for one message between two clocks |
| `CdcChannel` | `CDC_MCP_Formulation`, edge by edge, and its mapping to `Channel` |
| `LowSpeedBridge` | `XT_LB`: the bridge on both sides of a `CdcChannel` |
| `SystemBus` | `XT_HB` with arbiter, RAM, 32-bit adapter, Wishbone bridge and `LowSpeedBridge`, and two masters |
| `MC_SystemBus` | instance for TLC (the tags) |
| `BusProofs` | proofs about `CdcChannel` for every set of words and about `SystemBus` for any number of masters and every mix of devices |
| `ResetController` | `ResetController`: the watch on the PLL, the states, the Wishbone master |
| `SystemReset` | the controller with the PLL, the Wishbone override, the adapter and the boot controller |
| `ResetProofs` | proofs about `SystemReset` for every string and lock time |
| `HalCall` | what the driver modules share: the program, the driver call the hart is in, and how far |
| `SystemTimer` | the 64-bit timer, `hb32::Mtime` and the program `mtime.rs` |
| `TimerProofs` | proofs about `SystemTimer` for words of any width, and about `EfbTimer` for bytes of any width |
| `ExternalInterrupts` | `External_INT_Ctrl`, `hb32::EintController`, the hart's request and entry of an interrupt, handlers |
| `EintProofs` | proofs about `ExternalInterrupts` for every set of sources |
| `Uart` | the FIFOs and the transmitter of `UART_BUS`, `hb32::Uart`, `embedded_io` |
| `I2cMaster` | `wisbone::I2c<Master>` and the I2C core as it commands it |
| `SpiMaster` | `wisbone::Spi` in both ways of use, and the SPI core |
| `SerialProofs` | proofs about `SpiMaster`, `Uart` and `I2cMaster` for buffers and transactions of any length |
| `EfbTimer` | `wisbone::Timer`, its 8-bit registers, and the program `timer.rs` |
| `Flash` | the user flash behind its command interface, `wisbone::Flash`, the page commands of the loader |
| `Boot` | `bootstrap.rs` on `Uart` and `Flash`, the loader `flash-algorithm`, the host, resets |
| `BootProofs` | proofs about `Boot` for files, flashes, FIFOs and RAM of any size |
| `MC_Hal` | all programs of the firmware library over their drivers, an instance for TLC |

`LowSpeedBridge` EXTENDS `CdcChannel` and `SystemBus` EXTENDS `LowSpeedBridge`,
so the properties of the crossing are checked again under the bus that uses it;
`SystemReset` EXTENDS `ResetController` in the same way.  `Boot` EXTENDS `Uart` and
`Flash`: the boot program's bytes pass through the same FIFOs and driver calls
that the program `"uart"` exercises by itself.  `MC_Hal` composes all driver
modules.

### Core

One step of `Core` is one clock cycle.  Each `always_ff` block of the RTL is
one operator with the name of its module (`PC_Reg`, `IF_ID`, `ID_EX`,
`ExceptionPipeLine`, `CoreCtrl`, `ExceptionCtrl`, `CSR`, `DebugCtrl`) that
fixes the next value of its registers; `Clock` conjoins them, and `Tick`
chooses the instruction that ID sees and the address that EX computes.
Combinational wires are state functions with the names of the source (`flush`,
`stall_n`, `resume_addr`, `valid_int_req`, ...).  `Reset` is a pulse of the
system reset: it clears the registers that the RTL clears and keeps the others
(`id_addr`, `ex_addr`, `last_jump_addr`, mie, mepc, dpc, which have no reset).

Abstractions:

* An instruction is a class: `alu` (arithmetic, fence, a branch not taken),
  `mem`, `jump` (jal, jalr, a taken branch), `csr`, `wfi`, `mret`, `ecall`
  (with every illegal instruction: they differ in the code only), `ebreak`.
  Which class ID sees is chosen anew whenever ID is not squashed, so the model
  covers every program, including one that modifies itself.
* Addresses are words modulo `N`.  Registers and ALU results are left out; a
  jump goes to any address of `Targets`.
* A csr instruction or the debugger writes mstatus, mie, mepc or a CSR that
  does not matter here.  mtvec is the constant `Vector`: the runtime sets it
  once.  The code of an external interrupt is chosen by the interrupt
  controller; it is the entry `"ext"` of `Vector`.
* The bus stalls the core for the access in EX for any number of cycles.
* Interrupt lines are levels that rise and fall at any time.
* The debug module is the part of DM.sv that drives `haltreq` and the one-cycle
  pulse `resumereq`.  Two DMI writes are at least a few core cycles apart,
  because each is shifted in over JTAG: `DmiGap` is that distance after a
  resume.
* In dcsr.cause the undefined value that the RTL gives when nothing applies is
  kept as `"x"`.

`DebugUse` says what the debugger makes use of (halt requests, a halt out of
reset, step, ebreak), so that each run states its environment.

### Hart and the refinement

`Hart` is an abstract machine: `npc`, the address of the first instruction not
yet executed, whether it is in debug mode, and the CSRs that traps and halts
save.  `CoreProps!NextPc` maps the pipeline to `npc`: the oldest instruction in
the pipeline, and between a request and the redirection of the PC the address
where the flow continues.  `PreciseHart` is `H!Spec`; `OneStepPerCycle` says
more: in each cycle the hart does exactly the step that the control signals of
that cycle announce, and nothing in all the others (`RightStep`).  The one
exception it admits is `Slipped`: the instruction that an ebreak into debug mode
leaves in EX of the halted hart, the finding `ebreak_executes`.

### FifoSC

One step is a clock edge with any combination of write, read and data, or a
reset.  Memory, pointers and counter are those of the source; `Output` is the
`generate` branch that `ShowAhead` chooses.  Memory and output have no reset.
A write may meet the read of the last element (`LastReadAndWrite`), as it does in
the UART; then the output shows what the cell of the new element held before, for
as long as that element is the oldest one (FIFO_SC.sv:66-70).  The history variable
`behind` says that this is the case; `HeadShown` and the abstract queue (`late`)
except this one element and nothing else.

### CdcChannel, LowSpeedBridge and SystemBus

A step is an edge of one clock; a register sampled at an edge of the other
domain gives the value from before or after that domain's last edge, which
covers every ratio and phase.  Metastability beyond that is not modelled.

In `SystemBus` an edge of the bus clock moves every register of that clock:
the grants, the `read_finish` flags, the Wishbone master and adapter, the
sending half of the bridge, and the masters' requests.  An edge of `lb_clk`
moves the bridge's state machine and the receiving half.  The wires between
them (`slave_rsel`, `stall_req`, ...) are state functions named as in the
source.

* An access is a channel and a device; its *tag*, the master and the parity of
  its requests, stands for address and data.  A device that performs an access
  yields the tag, and a data register holds the tag it was read for.  So
  "answered with its own data" can be said, and sub-word alignment is left out.
* `owed` and `undelivered` are history variables: what each master has asked
  for and has not been performed, and what has been performed and not answered.
* A master holds its request until it is answered.  The hart may ask again at
  once; the debug module's next access is commanded over JTAG and comes later.
* `Mixes` are the sets of devices in use together.  Two masters on the same
  device, or on two of the high-speed ones, share arbiter and answers; all four
  devices at once only multiply the states.
* A reset withdraws the hart's access and repeats that of the debug module,
  which is not reset; the counts start again from there.
* `LbOverlap` says whether one master may read the low-speed bus while the other
  one writes it; with it an access is lost (`lb_lost_access`).

### ResetController and SystemReset

A step is an edge of the system clock, an edge of the controller's own clock,
or the lock of the PLL coming or going.  The loss of the lock is an action of
its own, `LoseLock`, because it resets the state machine asynchronously.

* The PLL is external: it is taken not to lock again until it has been reset,
  and then to lock within `LockTime` edges of the independent clock, which the
  controller's period `CNT` allows for (15 ms in the source).  While it is out of
  lock the system clock may have edges or not.
* `ext_req` stands for the switch and the debugger's ndmreset: any level at any
  time.  ndmreset falls with the lock, which is one of the cases covered.
* A command is its index in `COMMAND_STRING`.  `closed` is a history variable:
  how many commands of the string, from the one after the interface's own
  reset, the slave has performed one after the other.
* Registers without an initial value power up as 0, as those of the target
  device do.
* Software may write a boot mode or access the bus in any cycle out of reset.

### The firmware library

One hart executes one firmware: `program` says which (`timer` and `periodic`,
`eint`, `uart`, `i2c`, `spi`, `efb`, `boot`) and never changes.  `call` is the
driver function it is in, with the name it has in the source, and `step` counts
its accesses to the device (`HalCall`).  Between any two accesses the device
may go on by any amount, an interrupt may come where the program enables one,
and a loop may poll again.  A program calls any function at any time that the
types of the driver let it call (the typestates of I2C and SPI, `Resting`).

* **SystemTimer.**  A step is an edge of the bus clock with at most one access,
  or software between two edges.  `Counter`, `Compare` and `update_irq` are the
  three register blocks of the RTL; a 64-bit time is a pair of words.
  `ReadHigh`, `ReadLow`, `ReadHighAgain` are the read loop, the three steps of
  `set_mtimecmp` and `set_mtime` their writes.  `periodic` is `mtime.rs` with its
  handler, which may come between any two steps.  The 64-bit counter does not
  come to its end on its own, which takes centuries, and no program sets a time
  whose high word is the largest one: `set_mtime` itself parks the counter there.
* **ExternalInterrupts.**  A step is an instruction, at its last edge of the clock, or
  an edge at which the hart waits.  The driver changes the enable register by
  reading it and writing it back (hb32.rs:122-133, common.rs:48) without a critical
  section, for which hb32.rs:11 has a TODO: `modify_enable` is these two steps, and an
  interrupt may be taken between them.  The handler may call the driver too; the
  interrupted call is put aside in `main_at` and `main_locals`.  `rv_core::free` is
  not modelled, since nobody calls it for the mask.  `set_enable`, which the examples
  call once before they switch the interrupts on, is not modelled either.
  `External_INT_Ctrl` is one edge of the controller: `INT_pending_reg` is one edge behind
  `INT_enable_reg`.  The hart requests an interrupt at one edge (`valid_int_req`) and
  takes it at the next (`TakeInterrupt`), with the code that the controller shows
  then; with nothing pending any more this is code 0, whose vector is that of the
  exceptions (`NoCause`).  The sources are levels, which the handler
  or the main program lets fall.  History variables: `asked`, what software wants;
  `lost`, what a handler has changed between the main program's two accesses;
  `trailing`, the disabled sources whose handler has come once; `raced`, the sources
  disabled or served at the very edge at which they rose.
* **Uart.**  The receiver hands over numbered frames, at an edge of its own or
  at the very edge of an access.  The transmitter copies the head of its FIFO
  (`CopyFifo`), pops it (`PopFifo`, later, through the clock crossing) and sends it
  (`ByteSent`).  All of `rx_block`, `discard_rx_fifo`, `tx_bytes_block`, `flush`,
  `read` and `write` are modelled access by access.  A read of the empty FIFO
  returns `Stale`.  A frame that ends at the edge of the read of the last byte before
  it (UART_BUS.sv:122-123) and a byte sent at the edge at which the last one is popped
  (161-162) come in their place with the value of an old byte (`Shown`); the
  history variables `rx_behind` and `tx_behind` say which bytes these are.
  Sampling a frame bit by bit is one event.
* **I2cMaster.**  The core has two frames, the one on the wire and the one
  behind it; `trrdy`, `srw`, `rarc`, `busy` are its status bits.  Each action of the
  driver is one function of `wisbone.rs` (`StartWrite`, `WriteBlock`, `StartRead`,
  `ReadBlock`, `FinishReadBlock`, ...), and `OpLoop` is the loop of
  `transaction`, which begins a new phase where the kind of operation changes.
  A slave acknowledges or refuses each frame as it likes, and one that has not
  been refused its last byte holds the data line (`held`), so that no stop is made.
  The delays in the driver are taken to be shorter than a frame (`Waiting`), and
  a core that is disabled to finish its last frame and its stop.
* **SpiMaster.**  The answer to the k-th frame of a call is k, so that a byte
  too old or too new is told from the right one.  Writing a control register
  resets the core.  As a slave it may receive at any time, which leaves `rrdy`
  behind for the next transfer.
* **EfbTimer.**  Each command of `timer.rs` is a sequence of register writes
  (`plan`), made one by one while the counter runs.  The handler only sets
  `TIMER_IRQ_FLAG`; `returned` says that the hart comes from it, and an interrupt
  that is still pending is then taken first.
* **Flash** and **Boot.**  A command frame of the flash is one step: it acts on
  a memory that is open and not busy, and is ignored by a busy one, from which
  a read gives zeros.  A page programmed without having been erased keeps bits of
  both contents, for which a byte stands that no file has.  `boot_at` is the line of
  `bootstrap.rs` between two calls of the UART's driver.  The host answers the last
  prompt it has seen, with the length as two bytes, of which the low one may be wrong; the keys may be held or
  not when they are read; the reset switch may be pressed at any moment and is
  held for longer than the programming of a page, though not as long as an
  erasure; a debugger may run the loader while a user program or the error loop runs.  `stored` is a history variable:
  the file last confirmed.  The host sends its file at any time after the prompt to
  begin, which comes before the erasure (bootstrap.rs:79-83); what comes during the
  erasure and finds the FIFO full is lost.

  Simplified: `flash.reset()` at the start of `main` is left out, for the reset before
  it has closed the flash's interface; the poll of `rx_end` and the reading of the
  command in the loop of `download` are one step; a prompt is one byte, and the user
  at the host knows it even if the overlap in the transmitter's FIFO puts an old byte
  into it, so here it is sent without (`Transmitter`); frames of the host end between
  the program's accesses.  A frame of a file that met the read of the last byte
  before it would be stored with an old value; `BytesOnce` has this case for every
  program of the UART, and `ImageWhole` holds up to it.

The hard cores (I2C, SPI, timer, flash) are vendor IP and not in the repository;
they are modelled as the drivers use them.


## 3. Runs

Each run of `Core` states its instruction classes and its debugger.  `N = 4` words
are enough to tell pc, id, ex, a jump target, a stale target and a trap entry
from each other; `core_step` has 3, so that pc, id and ex still differ, and
passes with 4 as well, in more time.  `core_live` has 1: no guard of the control
depends on an address.  `Targets = {1}` is a target different from every vector
entry but one; `PowerUp = {2}` is the content of registers without reset,
distinct from the reset vector 0.

| run | bounds | what it shows |
|---|---|---|
| `core_traps` | all classes but ebreak, a timer interrupt, resets at any time, no debugger | the inductive invariant, a bubble at every entry, the refinement of `Hart`, bus accesses completed |
| `core_halt` | halts, resumes, halts out of reset at any time | each cycle does the right step, nothing executes while halted, the reported state is right |
| `core_step` | stepping, ebreak to debug mode, resets | a step is one instruction or one trap entry; dpc is right after a step, an ebreak and a reset |
| `core_live` | every use of the debugger, an interrupt that comes and goes, WFI, bus stalls | a pending enabled interrupt is taken, a halt request halts, a step comes back |
| `fifo_show_ahead` | 4 places, 3 items, writes and reads at any time | the FIFO implements the queue; the output is its head but for the element of a write that met the read of the last one |
| `system_bus` | 2 masters, all devices in three mixes, resets at any time | every access performed once and answered with its own data; every word crosses once; every access is served |
| `reset_control` | the whole string of 9 commands, losses of the lock outside of reset | the bus is handed over between accesses, the flash interface closed before the reset, requests and losses served, the reset released, mode switches kept, the PLL retried |
| `hal` | the programs of the library, each with its driver and its device; bounds below | see the next table |
| `dpc_after_trap`, `ebreak_executes`, `lb_lost_access`, `reset_hang` | | the counterexamples of section 5 |

| property of `hal` | what it says |
|---|---|
| `ReadsTrue` | a time read through two words was the time at some moment of the call |
| `NeverEarly` | the timer interrupt never comes at a mixture of the old and the new deadline |
| `KeepsWaking` | the periodic program of `mtime.rs` is woken again and again |
| `MaskAsAsked` | the register holds what main program and handlers have asked for, but for what a handler changed between the main program's reading and writing, until its next change |
| `SilentWhenDisabled` | the handler of a disabled source comes at most once more; handlers do not nest; an interrupt without a cause needs a source disabled or served at the very edge at which it rose |
| `BytesOnce` | every frame that found room is received once and in order, every byte is sent once and in order, with an old value just where its writing met the read of the last element; and a call that empties the FIFO leaves no byte without an interrupt |
| `AckRespected` | a transaction reports an error just for a refused frame, though acknowledgements are read a frame late |
| `BusReleased` | every I2C transaction ends and lets the bus go |
| `TransferExact` | each byte of an SPI transfer is the answer to its own frame, and the slave is selected just as long as the driver thinks |
| `CounterRead` | what is known of a 16-bit counter read byte by byte: it may be torn (a value the counter never had), only within bounds |
| `ImageWhole` | the flash holds the last file confirmed, and what is started is all of it |
| `DownloadEnds` | a host that has been told to send its file is told that it is stored, unless more than the FIFO holds has come during the erasure |

Deadlock is checked in every run: a clock that could not take its next edge
would be a hole in the model.

Why the bounds suffice: the FIFO's conditions compare the pointers with each
other and the count with 0, 1 and the depth, all of which differ at depth 4;
two masters are what the system has; a tag repeats after two accesses, when no
register can still hold the older one; `CNT = LockTime = 2` puts the PLL's lock
on the boundary of the period, the worst case.

The bounds of `hal`: a word has `B = 3` values, so that a low word has a
neighbour on each side and carries within a call, and the times set lie on both
sides of a carry.  Transactions have up to three operations of up to two bytes:
first, last and only bytes, and every change of phase and continuation; a third
operation only behind two that transfer something, because after a read, an empty
write and another read the driver meets the flag of the first read, and what
the core does then is not known.  SPI buffers are longer, as long as and shorter
than what is read.  A byte of the 16-bit timer has `R = 2` values, so that a
counter of three carries from one byte to the other.  Two interrupt sources are
enough for one to be pending while the other one's handler runs.
FIFOs of `DEPTH = 2` are empty, hold one element and are full; four frames arrive
and three bytes are sent, so that both FIFOs overflow or fill and wrap.  The
flash has four pages of one byte, the RAM three: sizes at which there are a page
behind the image, several pages, and a length (4) that is too large; and a file that
does not fit into the FIFO, so that the erasure can lose a byte of it.  The files have
one and three pages, one of them beginning with the word of zeros that the boot
program takes for no program.  (`cfg` values `MaxFrames`, `MaxWritten`,
`MaxBuffer` bound the histories; `Lengths` are the wrong low bytes of a length.)

**Fairness.**

* `Core!FairSpec`: the clock runs even if nothing outside moves (weak fairness
  of a tick with a quiet environment), and every access of the bus is answered
  at last.  Nothing is assumed of the program, the interrupt lines or the
  debugger.  `InterruptTaken`, `HaltTaken` and `StepReturns` are of the form
  []<>~P: the condition that asks for a reaction does not hold for ever.
* `SystemBus!FairSpec`: both clocks run, the Wishbone slave acknowledges, and
  the hart leaves the bus alone now and then (strong fairness of an answer that
  is not followed by a request in the same cycle): every loop has a jump, which
  leaves EX empty.  `Served` allows for a system that is reset over and over.
  `Served` is what the answer assumed of the bus in `Core` rests on.
* `SystemReset!FairSpec`: the independent clock runs, the system clock runs while
  the PLL is in lock, the slave acknowledges, the PLL locks.  Nothing forces a
  request, and nothing keeps the lock.
* `MC_Hal!HalSpec`: for the periodic timer (`TimerFairness`), the crystal ticks,
  the hart executes its program, and not every edge carries an access; for I2C
  (`I2cFairness`), the hart goes on and so does the bus clock; for the boot program
  (`BootFairness`), hart, devices and host go on.  Nobody has to call, to raise
  an interrupt, to reset or to debug, and nothing is assumed of the other
  programs.  `DownloadEnds` holds although the switch may be pressed: the host then
  begins again, which is an end too.  It excepts a byte lost in the erasure
  (`FileLost`), after which the program waits until a reset.

The passing runs keep apart the combinations that the findings show to be wrong
(an interrupt after a resume, a halt request at a trap, ebreak with the check
that nothing executes, `LbOverlap`, `LossInReset`); with them they fail.  Where the
firmware itself meets a case that goes wrong (the overlap in the FIFOs, the
unprotected enable register, the interrupt without a cause, the host that sends
during the erasure) nothing is kept apart: the runs have it, and the property says
exactly what it spoils.

## 4. Proofs

`CoreProofs` proves for every program, number of words, set of interrupt lines,
vector table and debugger that `CoreAssumption` admits:

* `TypeCorrect`: `TypeOK`, an inductive invariant by itself.
* `EntryBubble`: a trap or a halt finds a bubble in EX.  This is not inductive:
  `RequestFlushed` says what each register that announces an entry
  (`ready_for_int`, `delay_halt`, an exception at the commit point,
  `recover_from_reset`) implies of EX one cycle later.  The argument is that
  each of them is set together with `flush`.
* `Reported`: `dm_state` agrees with debug mode and reset; inductive.
* `NothingExecutesHalted` and `AccessIsCompleted`, for debuggers that do not
  use dcsr.ebreakm (with it both are false, see section 5).

It proves as well, without a debugger (`DebugUse = {}`), that `Core`
implements `Hart` (`Precise`) and the stronger `EveryCycle`.  The inductive
invariant is `IInv`: typing, `RequestFlushed`, `DebugIdle` and `FlowInv`.
`FlowInv` carries the argument: consecutive stages hold consecutive addresses
unless a refill is under way, `jump_pending` holds exactly during the refill
after a jump, and then `last_jump_addr` is where the flow continues unless
interrupts are off - a trap sets `jump_pending` and leaves `last_jump_addr`
alone, which is harmless only because a trap also turns interrupts off.  One
lemma per kind of cycle (`TrapStep`, `JumpStep`, `PlainStep`, `ResetStep`)
then gives the step of `Hart`.

With a debugger that halts, steps, resumes and uses ebreak at any time
`EveryCycleDebugged` proves `OneStepPerCycle` again, and `PreciseDebugged` that
`Core` implements `Hart` (without ebreak, which executes an instruction in a
halted hart, section 5).  Both assume `Apart`: no interrupts, and if the debugger
asks for halts, no exceptions and at least two cycles between two DMI writes.
The first two keep apart the traps and halts that the finding on dpc says
collide (a resume, like a trap, leaves `last_jump_addr` alone, and unlike a trap
leaves interrupts on); the last one is what the JTAG transport guarantees, since a
DMI write takes dozens of its clocks, and with one cycle TLC finds the invariant
violated.  The invariant is `HaltInv`: `FlowInv` weakened for the refill after a trap
or a resume, during which `last_jump_addr` is old, to "nobody asks for it before
the refill is over" (`Calm`).

`SingleStep` proves `StepIsOne` for every program, with interrupts and exceptions,
for a debugger that does not ask for halts as well.  `StepInv` counts: until
the step is taken nothing has been executed and EX is empty while the pipeline
refills, so the first instruction that is not a bubble, or the trap in its
place, is the one that `delay_halt` halts after.

`FifoProofs` proves for every depth and set of items: `FifoRing` (pointers and
counter agree, an inductive invariant), `FifoHead` (the output is the head, but for the
element of a write that met the read of the last one) and
`FifoQueue` (the FIFO implements `ShowAheadQueue`, each step mapped to one of the
queue), without a condition on the use.

`BusProofs` proves for every set of words that `CdcChannel` implements `Channel`
(`CdcHandshake`, `CdcImplementsChannel`).  The inductive invariant is the typing and
`Handshake`: by the two toggles the crossing is in one of four phases, and in each
at most one synchronizer is moving, so the word is at rest while it is sampled.

For `SystemBus` it proves for any number of masters, every mix of devices and resets
at any time:

* `BridgeHandshake` and `BridgeImplementsChannel`: under the bridge the crossing
  is still a `Channel`, whatever the masters do.
* `AccessesExactlyOnce` and `AnswersAreOwn`: each access is performed once, and
  answered with its own data.  The hypothesis is `~LbOverlap`: one channel only
  uses the low-speed bus at a time.  It is not a convenience: without it both
  are false (`lb_lost_access`).

The inductive invariant `BusInv` counts: a request whose access is not `Done` is
owed once, one whose access is done is undelivered once, and nothing else is
(`Counted`).  `Done` reads this off the registers, and one named part per device
says that what a register holds is for the master that is selected (`RamInv`,
`Hb32Inv`, `WbInv`).  For the low-speed bus it takes the phase of the crossing:
the word is at rest, and that of the selected access, from the moment it is
latched to the answer (`LbSending`), and the state machine behind it is busy
just while a word is delivered (`LbReceiving`), so it cannot perform it twice.

`ResetProofs` proves for every length of the string and every lock time, with the
lock lost at any time, in reset too: `ResetTypes`, `FlashIsClosed`, `Handover`,
`ModeKept` and `MapInReset`.  The inductive invariant is typing with `OwnsBus`
(outside PENDING, and in reset, the controller has the bus), `Ended` (a reset
ends its master's access), `StringSent` (from the second command on, `ptr` and
what the slave has performed go together; at the first one the command of an
attempt that a loss cut short may still be on the bus, which is why only the
rest of the string is promised) and `BootInReset`.

`TimerProofs` proves for words of any width (`TimerAssumption`: at least two
values), every set of times that does not reach the largest high word and every
interval, for the device and driver of `SystemTimer` in any order of calls:
`TimerTypes`, `TimeReadIsTrue` and `InterruptNotEarly`.  The inductive invariant
`TimerInv` adds to the types where a call is (`CallOK`), what is known of the
words read so far (`ReadInv`: the high word was not too large when it was read,
and if it has not changed since, the two words are a time in between) and what
mtimecmp holds after each write (`WriteInv`: first the old high word with the
largest low word, then the new one with it, both not before the deadline that
belongs to them).  One lemma per kind of step: an edge that only counts, a read,
a write, a call.

For `EfbTimer` it proves `TornReading` (`CounterRead`), for bytes of any width: the low byte
that `counter()` returns was the low byte of a value that the counter had during
the call, and the high byte that of its last one (`CounterInv`).

`SerialProofs` proves for drivers and devices of any size:

* `SpiTransfersExact`, for every set of buffers and read lengths: `SpiInv` says how
  many frames have been exchanged and how many answers read at each access of a
  call (`SpiProgress`), and when the slave is selected (`SpiSelected`).  Only while
  a frame is exchanged there is one in the shift register or its answer to read;
  this is why a byte left behind by the core as a slave has to be read first.
* `UartBytesOnce`, for FIFOs of any depth: a read finds a byte and a write finds
  room at the access that follows the poll (`UartAccess`), what is to be sent
  follows what has been sent (`UartTodo`), the copied byte is the head until it
  is popped (`UartPop`).  Frames may end, and bytes be popped, at any edge; the
  lemma `OneMoreShown` follows the sequence that the FIFO shows when such an edge
  puts an old byte into it.
* `AnswersReported` (`AckRespected`), for transactions of any number and length of
  operations: the acknowledgement that the driver reads is the one of the frame
  before the last, so the invariant has to know which frames are on the bus at
  every access (`I2cWriting`, `I2cReading`) and which refusals can be pending
  between two operations (`I2cLoop`).  `I2cAssumption` asks of a transaction
  that no empty write lies between two reads: there the driver finds the flag
  `srw` of the first read and does not wait for the second one's address, and
  what the core, which is not in the repository, does then is not known.
  For transactions of up to three operations TLC agrees with the invariant.

`BootProofs` proves `ImageIsWhole` (`ImageWhole`) for files, pages, flashes, RAM and
FIFOs of any size, with resets and loaders at any time, and for a host that waits
for the erasure as well as for one that does not.  The inductive invariant
`BootInv` has four parts:

* `Serial`: the boot program finds a byte, or room, at the access that follows its
  poll, and the FIFOs keep to their places.
* `BootTypes`, the types.
* `Talk`: what the host and the boot program know of each other.  For each place of
  the boot program it says which prompts can be on their way to the host
  (`Only`, `Pending`), which bytes are on their way to the program (`Inbox`) and
  where the host then is.  The last prompt decides: the host may have answered an
  older one (a wrong length, say), but it sends the file only when the announced
  length has been taken for valid, and then `page_num` is the file's
  (`Agreed`, `Sending`).  `Stream` follows the bytes of the file: those in RAM, those
  in the FIFO and those the host still has are the file in its order, or bytes
  have been lost, and then the download never comes to its end, which is why the
  loss does not store a shifted file.
* `Stores`: which pages have been written, by the boot program (`Downloading`) and by
  the loader (`LoaderPages`), that a page is erased when it is programmed and the
  flash obeys (`FlashUse`), what has been loaded into RAM (`Loaded`), and that a
  confirmed file is not touched outside a new download (`Kept`).  A reset in the
  middle of an erasure leaves a flash that does not obey, but all of it reads as
  erased; this is why a load, an erasure or a download that follows is right.

`BootAssumption` asks for files of whole pages that fit into RAM, a RAM not larger
than the flash, and page addresses of 14 bits.

`EintProofs` proves for every set of sources `MaskKept` and `DisabledIsSilent`, for a
driver without a critical section.  The invariant `EintInv` says that handlers run
with interrupts off and do not nest (`NotNested`); that the register is what was
asked for up to `lost`, and so is what the main program has read and not yet
written, at work or put aside (`Agree`, `Reading`); that a disabled source whose
handler has come is neither enabled, nor pending, nor in a value that the main program
could still write (`TrailingOff`); and that a request finds its cause, unless a source
has gone at the very edge at which it rose (`CauseStays`).

Only model-checked:

* The liveness properties (`InterruptTaken`, `HaltTaken`, `StepReturns`, `Served`,
  `ResetServed`, `LossServed`, `Released`, `PllRecovers`, `KeepsWaking`, `BusReleased`,
  `DownloadEnds`): they rest on fairness, and are out of the prover's reach.
* `StepIsOne` and `OneStepPerCycle` where the hypotheses above do not hold.

## 5. Where the code and its documentation disagree

* `dpc_after_trap`: a halt request in the cycle of a trap saves the destination
  of an older jump in dpc; only stepping is handled (DebugCtrl.sv:85).
* `ebreak_executes`: entering debug mode by ebreak does not flush the pipeline;
  the next instruction slips into EX of the halted hart, takes effect there and
  is executed again after the resume (DebugCtrl.sv:42, CoreCtrl.sv:52).
* `lb_lost_access`: a read and a write of two masters on the low-speed bus share
  one finish flag; one of them is answered without having been performed
  (XT_LB.sv:38).
* `reset_hang`: the lock lost during a reset that is being held leaves the system
  in reset for ever: the command string cannot be sent while the Wishbone master
  that sends it is in reset (ResetController.sv:82).

Seen while modelling, without a run of their own.  In the hardware: a write in
the cycle in which the last element of a FIFO is read leaves an old cell at
the show-ahead output (FIFO_SC.sv:69), so that a byte of the UART is replaced by an
older one (the exception of `HeadShown` and `BytesOnce`); an interrupt in the refill
after a debugger's resume saves the destination of an older jump in mepc, for
the same reason as dpc above; a source or an enable that falls in the cycle
between an interrupt's request and its trap still traps, with mcause {1, 0}
(ExceptionCtrl.sv:47); a loss of the lock during a command leaves that command
on the Wishbone bus, where its acknowledgement is taken for the first one of
the new attempt, so the interface's own reset is skipped (ResetController.sv:97).

In the firmware:

* The handler of `timer.rs` (line 130) sets a flag and leaves the source
  asserted.  On this hart an interrupt that is pending at mret is taken again before
  the main program executes an instruction, so the main loop, which would clear
  it, starves.  The C version (`c_demo/Verification/timer_test.c`) clears the
  source in its handler.  `EfbTimer` has it (`MainStep`).
* The prompt to send comes before the erasure of 1050 ms (bootstrap.rs:79-83), and
  readme.md:219-220 tells the user to confirm and to send the file: a host that does
  so at once overruns the four places of the receive FIFO, and the download waits for
  ever for the bytes lost (`FileLost`, the exception of `DownloadEnds`).
* A reset in the middle of programming leaves the first pages of a file; the next
  start tests the first word only (bootstrap.rs:39) and runs them.  `ImageWhole`
  speaks of confirmed files.
* The last byte of an I2C write is not waited for (wisbone.rs:302): its refusal is
  never reported, an empty write returns `Ok` whatever the slave says, and the
  driver disables the core while it is still sending.
* `flush` of the UART returns when the FIFO is empty, with the last byte on its way.
* The enable register of the external interrupts is read, modified and written without
  protection (hb32.rs:113-133, a TODO at hb32.rs:11): what a handler changes in between
  is lost, and stays so until software changes the source again (`lost`, the exception
  of `MaskAsAsked`).
* A source that rises at the very edge at which software disables or serves it can
  raise an interrupt whose cause is gone when it is taken (ExceptionCtrl.sv:44, 53).  The
  hart then enters vector 0, `_exception` (trap.riscv:11), and the default
  `Exception_Handler` loops for ever (trap_handler.x:22).  `SilentWhenDisabled` says
  that this is the only way to get there.
* `clkdiv_down` of `timer.rs` from the disabled divider subtracts one from zero.
* `bootstrap.rs` takes at most 480 pages, the flash has 767.

## 6. Plan and what is not modelled

Done: the hart, the FIFO, the clock crossing, the buses, the reset, the system
timer, the external interrupts, the firmware library and the boot program.
Next:

1. `DebugModule`: DMI writes, abstract commands, DebugCtrl's register access,
   `busy_err`, resumeack; its runs take the place of `core_halt`'s environment.
   Then `JtagDtm` in front of it.
2. Frames of the UART in the sampling clock's domain, in place of the events
   of `Uart`.
3. Proofs about `DebugModule` and the UART's frames, as they are modelled.

Not modelled, and why:

* Data paths: ALU, register file, decoder tables; the compressed decoder is not
  instantiated.
* The debug module's abstract commands and the JTAG transport: planned.
* The slave's side of SPI, GPIO, the display, the software interrupt bit,
  `flash_id`: registers set and read back, without a sequence.
* The examples `flash.rs` and `privilege`, the older boot program in assembler:
  demonstrations of calls that the modules above have.
* The register crates' field definitions, start-up code, vendor IP, tooling,
  benches.
