# Synapse-32 in TLA+

Synapse-32 is an RV32IMA system on a chip in Verilog (`src/rtl`): a five-stage
core with machine, supervisor and user mode and Sv32 paging, an instruction and
a data cache, a store buffer, and a UART, a PLIC and a CLINT timer.  Around it
are Python tools that run it in a simulator (`src/sim`) and compare it with
Spike (`src/.github/scripts`).  This directory holds TLA+ models of the parts
that are hard to test, TLC configurations that check them on small instances,
and TLAPS proofs of the most important properties for every value of the
parameters.

In the modules of the RTL **one step is one clock edge**.  The combinational
signals are operators with the names they have in the Verilog; the clocked
blocks are the primed variables; the inputs of a cycle are chosen with `\E`.  In
the modules of the tools a step is what one thread, coroutine or process does
between two points where another may run; each header says which.

## 1. Inventory

| Part | State | Operations (per clock edge) | What makes it correct |
|---|---|---|---|
| Store buffer, `store_buffer.v` | shift register of writes, count | push, pop, both | a FIFO, up to its limit |
| Data bus, `top.v` 190-330 | owner registers | arbitration of core, buffer, walker; load bypassing; FENCE drain | no stale read, no lost or repeated write, no misdelivered answer, no deadlock |
| Data cache, `dcache.v` | arrays, read register, valid, dirty, PLRU, MSHRs, engine | lookup, merge, evict, fill, FENCE.I scan, bypass | one coherent memory; clean means written back |
| Memory adapter, `mem_adapter.v` | latched request, counter, registered answer | accept, count, sample | the accepted request once, exactly on time |
| Instruction fetch, `icache.v`, `pc.v`, `IF_ID.v`, `riscv_cpu.v` 99-125, 427-460 | PC, outstanding/discard flags, arrays, fill registers, IF/ID | lookup, fill, bypass, flush, redirect, stall | decode gets the word at its PC, not older than the last FENCE.I |
| Pipeline control, `riscv_cpu.v`, `execution_unit.v`, pipeline registers | stages, PC, WFI sleep, AMO phase | stall, hold, flush, bubble, redirect, trap | program order, precise traps, whole AMOs, no lock-up |
| CSR file and trap stack, `csr_file.v` | about 40 CSRs, mode | CSR write, trap, return | traps go where they belong and return what they met; S cannot change what belongs to M |
| Interrupt controller, `interrupt_controller.v` | none | choose the interrupt of highest priority | mode, delegation and enables respected |
| PLIC, `plic.v` | gateways, pending, settings | claim, complete, write | each interrupt served once, the best first |
| UART, `uart.v` | shifter, two FIFOs, latches, sampler | bit tick, register access, byte received | bytes once and in order; status bits tell the truth |
| Timer, `timer.v` | mtime, mtimecmp | count, write a half | no interrupt before its time |
| Sv32 MMU, `mmu/*.v` | two TLBs, walker, held faults | lookup, walk, fill, flush | no translation survives SFENCE.VMA |
| Atomic LSU, `atomic_lsu.v` | LR reservation | LR, SC, AMO | SC succeeds only after an undisturbed LR |
| Interactive console, `sim/linux_tty.py` | queue of typed bytes, byte the driver holds, stop flag, open descriptors, output backlog | attach, read (a thread), drive the UART, write, flush, close | typed bytes arrive once and in order; Ctrl-] ends the session and gives the terminal back; recent output is kept |
| Boot tests, `sim/opensbi_uart.py`, `sim/linux_tty.py` | console text, idle and cycle counters | sample the transmitter once a cycle, decide | the transcript is what was sent, the verdict is what happened |
| C program runner, `sim/run_c_code.py` | files of the build directory; the sampler of the UART line | compile, link, convert, simulate; decode frames until CPU_DONE | the named program runs, on a fresh simulator; its output is decoded |
| Comparison with Spike, `.github/scripts/compare_with_spike.py` | selected tests, log files, results | select, convert, run both, parse, compare, report | green means both machines did the same, in this job |
| Unified memory, `unified_mem.v` | byte banks | read, write with byte enables | a memory |
| Data path: decoder, ALU, register file, forwarding, memory unit, write-back | register file | combinational | RISC-V semantics |

**How they interact.**  The fetch path reads memory through the instruction
cache and an adapter of its own, the MEM stage through store buffer, data bus,
data cache and adapter.  So a store to code is visible to the fetch only after
FENCE and FENCE.I have pushed it through: FENCE waits for the store buffer,
FENCE.I for buffer and cache scan, and then invalidates the instruction cache.
The page-table walker is a third master of the data bus.  A hold in MEM
(`mem_wait`), EX (fences) or a WFI stops the stages in front of it.  UART and
timer raise levels, the PLIC turns them into requests, `interrupt_controller.v`
into a trap request, which EX takes when MEM lets it.  The tools meet the RTL at
the UART: the boot tests watch its transmitter, the console also pushes bytes
into its receive FIFO, the C runner decodes its output line; the comparison
reads the commit trace of the simulation harness.

**What is hard.**  Everything runs at once on every edge: requests are granted
in one cycle and answered in another, while the lines that made them move on;
array reads are a cycle old when they are used; redirects and flushes meet
answers in flight; several stages ask for a trap in the same cycle; software
touches a UART or PLIC register in the very cycle in which the hardware changes
it.  In the tools a thread that reads a terminal races with the simulator that
closes it, a slow reader meets a bounded backlog, an idle counter meets a
deadline, and files of an earlier run lie where those of this one are expected.
Directed tests reach few of these coincidences.  `PROJECT.json` lists the
hazards with their lines and the properties that guard them.

## 2. Modules

| Module | Models | Abstract specification it meets |
|---|---|---|
| `WriteQueue` | what the buffer promises: a bounded FIFO | |
| `StoreBuffer` | `store_buffer.v`, the counter with its width | `WriteQueue` |
| `DataBus` (extends `StoreBuffer`) | the arbitration of `top.v`, MEM and FENCE of `riscv_cpu.v`, the walker of `sv32_mmu.v` as a master | `WriteQueue`, again, under arbitration |
| `MemPort` | what a gnt/rvalid port promises: one memory, one request at a time | |
| `MemAdapter` | `mem_adapter.v` in front of `unified_mem.v` | `MemPort` |
| `DCache` | `dcache.v` | `MemPort` |
| `DCacheClient` (extends `DCache`) | the cache with a client that holds its request | |
| `Fetch` | `icache.v` composed with PC, fetch bookkeeping and IF/ID | |
| `Pipeline` | the control of the five stages | |
| `Traps` | mode, trap stacks, delegation, mip and its software bits, CSR instructions, triggers; `interrupt_controller.v`; who takes a trap | |
| `Plic` | `plic.v` | |
| `Uart` | `uart.v` at byte level | |
| `UartRx` | `uart.v`: baud counter, synchroniser, bit sampler | |
| `Sv32Mmu` | `sv32_mmu.v`, `sv32_tlb.v`: TLB, walker, held faults | |
| `Reservation` | `atomic_lsu.v`: LR and SC, with the hold of MEM | |
| `Timer` | `timer.v`, with the software that uses its halves | |
| `Bridge` | `linux_tty.py`, input: reader thread, queue, driver coroutine, start, stop and close | |
| `PtyOutput` | `linux_tty.py`, output: `write_byte`, `flush_backlog` | |
| `BootTest` | `boot_opensbi`, `boot_linux` and their `UartConsole` | |
| `CBuild` | `run_c_code.py` as a script | |
| `UartMonitor` | `run_c_code.py` as a cocotb test: `UartMonitor` beside `run_c_code` | |
| `TraceCompare` | `compare_with_spike.py`: parsing and comparing traces | |
| `SpikeCompare` | `compare_with_spike.py`: `main`, `run_spike`, `run_verilator`, the files between them | |
| `MC*` | values for TLC; `MCBlocks` and `MCHost` put parts side by side that do not interact | |
| `*_proofs` | theorems (section 4) | |

**The memory side.**  `MemPort` is the joint: the adapter implements it for the
cache, the cache implements it for the bus (with a refinement mapping that
assembles the current contents from ways, the line in eviction, MSHRs and
backing store), and `DataBus` uses it as the cache.  A write is its address and
a function from enabled lanes to bytes, so byte enables and partial stores are
kept.  In `DataBus`, `arch` is a history variable: memory as the program has
written it so far.  The walker is modelled by its bus behaviour only (one or two
PTE reads, then a fault or a TLB fill one cycle later; walks that outlive their
access); `xl` says whether the access in MEM is translated.

**The fetch side.**  A word is its address and a version, so a wrong address and
an old word both show.  `since[a]` is the set of versions `a` has had since the
last FENCE.I.  The next PC is any word of `Code`.  A fetch that page-faults ends
its wait in the code (`riscv_cpu.v:433`) and goes on in the model; the PC move that
follows is covered by a redirect.

**The pipeline.**  An instruction is its PC and its kind; the word at a PC may
be of another kind each time it is fetched.  `arch` is the PC that must retire
next; every fault, exception, wait and interrupt is an input that may come in
any cycle its stage allows.  `epc` stands for mepc and sepc, `Vector` for mtvec
and stvec: the mode that takes the trap is the subject of `Traps`.

**Traps.**  The counterpart of `Pipeline`: it keeps the CSRs that decide about
traps and of the stages only what they meet in EX and MEM.  The three places
that decide who takes a trap are three operators: `exception_cause` (the CSR
file), `csr_trap_to_supervisor` (the core) and `jump_mode` (the PC).  Sets stand
for bit vectors.  `mip` follows software bits and lines a cycle late, as in the
code; `refill` says that EX is empty because the last cycle flushed it, which is
what makes that delay harmless.  History variables say what each trap met
(`saved`), what the program asked of mip (`asked`), and what this cycle did
(`event`).

**The devices.**  PLIC and UART take any register access in any cycle, with the
disciplines stated in their headers: software completes only what was claimed,
changes the UART's FIFO mode only when LSR reports an empty transmitter, and
does not clear the TX FIFO in the very cycle in which the bit tick starts the byte
of the holding register (section 6); a clear before that tick is covered.  `Uart` has an ideal receiver at the other end of its line,
`UartRx` a sender with a clock of its own; the byte `UartRx` hands on is the
byte that arrives in `Uart`.

**MMU, reservation, timer.**  Each has a history variable that says what would
be right.  In `Sv32Mmu`, `since[a]` holds the values a page table entry has had
since the last flush: what a walk may find.  Software stores to the tables
between edges, the two sides change their pages, and flushes come in any cycle.
In `Reservation`, `link` is the set of addresses that an SC may still write.  In
`Timer`, `goal`, `deadline` and `former` are the 64-bit values that software
means while it writes halves.

**The tools.**  `Bridge` has three actors besides the user and the guest: the
test (`boot_linux`), the driver coroutine, which shares a thread with it, and the
reader thread.  `close` is as many steps as it has calls, with the reader between
them, so descriptors vanish under its `select` and `read`.  Both bridges are
modelled; every call to the operating system may fail where it can.  The UART's
receiver is modelled by what it makes of whole frames.  It is `aligned` when it is
sure to take the frame on the line, or the next one, for what it is: not after a
frame that began while `start_dut` held reset, and not after a new divisor.  Until
it finds its way back it may misread a frame (`damaged`), push bytes nobody framed
(`noise`), or both; `framed` is what the driver put on the line, `got` and `fifo`
are what came through.  The guest reads, clears the FIFO or sets the divisor when
it likes.  In `UartMonitor` the line and the monitor have bit periods of their own:
the line's is `Ticks` times the program's divisor (16 in the code), the monitor's
is fixed.  In
`PtyOutput` bytes are numbers, the kernel's buffer has finite room, and only
`os.write` lets the client run.  `BootTest` abstracts the text to line ends and to the bytes that complete
what the tests look for; the guest's divisor may be another in each cycle.  `CBuild` and `SpikeCompare` abstract a file to where
its content comes from, so that a stale one shows; `TraceCompare` keeps the
records of both parsers and the code's merged order of register and memory
events.  Libraries (cocotb, the compiler, Spike) are marked external.

Definitions with a suffix (`Mret_Enables`, `drain_done_Any`) marked *Faulty variant* are
plausible mistakes in the definition that follows.  They are not used by the
specifications; each one, put in the place of the original, makes a property of
a run fail, which shows that the run can see that mistake.

## 3. Runs

Run any with `tlc -config <cfg> <module>`.

| Run | Instance | Shows |
|---|---|---|
| `dcache` | two ways, two sets, lines of two words, three lines for set 0, two MSHRs, a device | `RefinesPort`: loads return the last bytes stored; `LinesAccounted`: one copy of a line, and a clean one is written back |
| `dcache_client` | direct-mapped, two sets, two lines in one of them, two MSHRs | `ClientServed`: every request is answered, every FENCE.I ends |
| `data_bus` | two slots, a RAM word, a device | `ReadsAreCurrent`; `BusAccounts`: the buffer holds what memory lacks, and an answer has an owner; `RefinesQueue`; `FenceDrains`; `BusProgress`: nobody waits for ever |
| `fetch` | one way, two sets, two conflicting lines, an uncached word, two versions | `FetchSound`: decode gets the word at its PC, current, from lines that are whole, and only a bypass is outstanding; `FetchEnds` |
| `pipeline` | three addresses in a ring, one of them the vector; all kinds that differ | `InOrder`, `PreciseTraps`, `AmoIsWhole`, `SleepsAfterWfi`, `Progress` |
| `pipeline_ret` | as above with MRET/SRET behind a faulting access | **violated**: `PreciseTraps` (section 6) |
| `traps` | two interrupts, one delegated; a status for each level; a trigger; a program that sets up and uses both levels | `TrapsWhereTheyBelong`, `ReturnRestores`, `NoReentry`, `SoftwareBitsAsAsked`, `NoStaleInterrupt`, `MachineStateProtected` |
| `blocks` | six parts, see below | `RefinesPort` and `ExactLatency`: the accepted request is performed once, answered on time with what memory held; `ServedOnce`: a PLIC interrupt is claimed once, the best first; `FramesReceived`; `TranslationsCurrent` and `FaultsCurrent`: nothing read before a flush is used after it; `ScHonest`; `TimerExact` |
| `uart` | FIFO of four, two-bit bytes | `TxDelivers`: in order, once, and at last; `TxStatusTrue`: TEMT and THRE tell the truth; `RxInOrder` |
| `uart_thre_doc` | both directions | **violated**: `ThreNotSwallowed` (section 6) |
| `host` | seven parts, see below | `InputInOrder` and `SessionEnds` (console input), `OutputDelivered` (console output), `BootReported`, `RunsItsProgram` (build), `MonitorReports` (C runner's output), `TraceVerdict`, `JobReported` (Spike comparison) |
| `tty_exit` | `Bridge` alone, a guest that may stop reading | **violated**: `CtrlBracketEnds` (section 6) |

`blocks` and `host` each check parts that do not interact: a variable picks one
at the start and the others keep a fixed state, so that the state space is the
sum of theirs and not the product.

**Bounds, and why they are enough.**

* `blocks`, adapter (latencies 0, 1, 2, 3, 5; two words, two lanes): each latency is a different branch of the counter-width table
  (0 combinational, 1 registered, then one, two and three bits); 2, 3 and 5 are
  where `LAST` is largest or smallest for its width.
* `dcache`: three lines for two ways make every PLRU decision happen, two MSHRs
  fill in order and overflow, two words per line make partial fills and
  evictions observable, and one-bit data tells old from new.  Only one line and
  the device are written; the others are there to evict it.  The second set
  keeps the scan and the index registers honest.
* `dcache_client`: the direct-mapped case is the one in which a queued fill can
  take the line a load is waiting for.
* `data_bus`: memory starts as `y` and only `x` is written, so a read that
  misses a buffered write is seen; two slots have an empty, a partial and a full
  buffer.  The order of different values to one word is not distinguished here
  but is in `RefinesQueue`'s theorem, which holds for all values and depths.
* `fetch`: one way makes each fill an eviction; with two conflicting lines and
  an uncached word all states of the cache meet all redirects.  The choice of a
  victim among several ways is not exercised.
* `pipeline`: the five stages hold at most four instructions, and three
  addresses with a cyclic successor tell neighbours apart.  Stores and plain
  ALU instructions are left out: to the control they are a load without a
  load-use hazard and a branch that is not taken.
* `uart`: four slots wrap head and tail; two-bit bytes `10` and
  `01` show bits or bytes out of order.  The TX FIFO is cleared in any cycle but
  that of section 6 (`ClearsStarting = FALSE`).  The transmitter and the receiver share
  only `ier`, `fcr` and the interrupt output, so a behaviour exercises one of
  them, chosen at its start; `uart_thre_doc` has both.
* `traps`: SEI (software bit and PLIC line) goes to M, SSI (software bit only)
  to S once it is delegated; both are enabled together.  Of the exceptions, two
  (`breakpoint`, `load_pf`) are delegated and the others not.  M writes a
  status with all interrupts on and MRET to S, S one with its interrupts off and
  SRET to S; U is where SRET goes otherwise, M where MRET goes after reset.  Stale
  words of fetch faults are an ECALL and a CSR write.  `Discipline` leaves out
  an MRET or SRET in EX while a page fault is taken: that is `pipeline_ret`.
  The constants allow any `mpp`; the program never writes the reserved value 2.
* `blocks`, UART line (whole bytes, 32 clocks per bit, a sender that is off by up
  to one clock per bit): the drift adds up over a frame, so whole bytes are
  used.  Noise pulses are of 1 and 14 clocks.  Both are the limits of
  `Tolerable`, which TLC evaluates on these values.
* `blocks`, PLIC (the two sources of `top.v`, both contexts): priorities 0 to 2
  tell off, equal and higher apart.
* `blocks`, MMU (two pages of one megapage, two roots, a TLB of two entries): the
  entries of `Tables` map a page, map a megapage, point on, are misaligned or
  malformed; one store between two flushes makes an old and a new value of an
  entry; megapage and page entries for one address replace each other.
* `blocks`, reservation (two words, two offsets): the same word and another, the
  same byte and another of the word.
* `blocks`, timer (halves of five values): longer than the accesses of one job
  take, as 2^32 is; the operands are at the ends of halves, so carries and
  borrows between them happen.
* `host`, bridge: three typed bytes fill the FIFO's limit of one, the byte the
  driver holds and the queue.  The FIFO is as deep as the limit, the tightest case
  the theorem allows: a driver that does not look overruns it.  A pty waits for its first
  byte, as by default, and the guest sets the divisor once.  Of the optional files (`PtyFiles`)
  the run has the input transcript, the one the reader writes.  `tty_exit` has FIFO
  depth 2 and a pty that waits or does not.
* `host`, PTY: seven bytes are more than terminal (2) and backlog (2) hold, with
  drops in every position.
* `host`, boot: idle time 3 and deadline 8, so an idle line is found before, at
  and after the deadline; both tests; divisors 1 and 2, of which 2 fits the device
  tree's speed.
* `host`, build: one file, two, two of one stem, one named like `start.S`; the
  second is longer than the limit.
* `host`, monitor: two frames of two bits, back to back or apart; the monitor's bit is 8
  cycles, the line's 9, which it tolerates, or 6, which it does not: on such a line
  the test must still come to its summary.  76 cycles are
  longer than both frames with a pause.  The sample points scale with the period; an
  odd one is not covered.
* `host`, trace: three commits of each machine, among them two-byte and one-byte
  stores, an AMO on tohost, a store next to it, and a CSR read that may differ.
* `host`, spike: five files of three suites, one not applicable, one not a test;
  the comparison's verdict is an input.

**Fairness.**  There is a clock, so whatever the hardware does by itself it
does.  Beyond that:

* `DCacheClient`: the memory port infinitely often does something when it can;
  the adapter's `ExactLatency` is the reason.
* `MCDataBus`: the clock (a toggling `clk`, so that a cycle that changes nothing
  else is still a cycle), and `CacheAnswers`: while the bus asks or waits, the
  cache answers again and again; `ClientServed` is the reason.
* `MCFetch` (`PacedSpec`): again and again the fetch is given what it waits
  for: the memory moves on with what it is asked or owes, else the walker comes
  back with the translation.  No redirect is ever owed, and stalls may last.
* `MCPipeline` (`PacedSpec`): again and again the pipeline is given what its
  oldest waiting stage waits for: an answer in MEM, an empty buffer and a clean
  cache for a fence in EX, else a fetch.  No fault, interrupt or wake-up is
  owed: `Progress` excepts a sleeping core.  In both, `pace` toggles in such a
  cycle, so that "infinitely many of them" is a property of states, which TLC
  checks far faster than weak fairness of the cycle.
* `MCUart` (`PartFairSpec`): the baud counter reloads itself, so bit ticks recur.
* `MCHost` (`HostSpec`): Python schedules its threads and the simulator its
  coroutines; a serial client reads what is there, and the guest its UART.
  Nothing makes a user type, a file end or a call fail.
  `tty_exit` (`BridgeSpec`) has the same fairness without the guest's.
  The tools end, so deadlock is not checked in these two runs.

## 4. Proofs

`tlapm` checks eight modules of theorems.  Every safety property that a run checks
is a theorem for all values of the constants, and so is the safety part of one that
has a liveness part; what assumptions a theorem makes is said with it.  Each proof follows one plan: an
inductive invariant, one lemma per conjunct or per kind of cycle, and a last temporal
step.

**`DataBus_proofs`** (with the store buffer; any `Depth` in 1..255, any addresses,
bytes, payloads, cache behaviour).

* `BufTypeCorrect`, `BufferIsFifo`.  The COUNT_WIDTH-bit counter never wraps, and
  the shift register implements `WriteQueue`.  The mapping takes the first `count`
  slots as the queue; the lemmas say what `Shifted` does to them for push, pop and
  both.
* `BusInvariants`, `ReadsCurrent`, `BusIsFifo`, `FencesDrain`.  The inductive
  invariant `Inv` is `TypeOK`, `BusAccounts` (`BufferHoldsTheRest` and
  `AnswerHasOwner`), `ReadsAreCurrent`, and what these need to be inductive:
  `OwnersAgree` (the owner registers are down while nothing is pending, the walker
  agrees with them, memory still holds what an accepted PTE read is due) and
  `WalkIsAwaited` (a walk for the access in MEM finds it there, still without a
  translation).  The heart is that a byte of `arch` is that of the youngest
  buffered write to it: a load that matches no slot then reads memory that is
  current, and a drain moves exactly one slot's bytes to memory.

**`DCache_proofs`** (1, 2, 4 or 8 ways, any sets, words, MSHRs, bytes, image and
timing of the memory port).

* `CacheIsSound`.  `CacheInv` is `Typed`; `EngineOwns` (the way the engine fills or
  evicts is out of sight, and no other way has its line); `PortOwes` (memory owes
  an answer to the engine's word or to a device access); `RowIsCurrent` (a fresh
  row is what the arrays hold); `CleanLines` (a line nobody wrote is what memory
  holds); `EvictedSoFar` and `FilledSoFar` (how much of the line in transfer has
  been moved); and `OneCopy`.  It is needed as a whole: a row that is stale and
  looks fresh would make a second copy, and a second copy would be written back
  over the first.
* `LinesAreAccounted`, `CacheIsMemory`: the cache implements `MemPort`.  A word is
  in a way, or on its way out in a way or in the eviction buffer, or in memory, and
  the bytes of an MSHR lie over that.  Every cycle is one of six kinds, by
  what the engine does: nothing to any line, reading a word of a line on its way
  out, waiting for memory to take one, having it taken, choosing a victim, filling a
  word (`StepKinds`); in the first four a lookup may come beside it.  None changes what a word is by that reckoning but for the
  store that is served, so the step is one of `MemPort` or a stutter.

**`Blocks_proofs`** (the blocks that stand alone).

* `AdapterIsExact`, `AdapterKeepsPort` (any set of `RESPONSE_LATENCY` in 0..256).
  `Counting`: while a request is in flight the counter is its age and nothing is
  being answered.  The counter is as wide as the table of `mem_adapter.v` makes it.
* `TranslationsAreCurrent`, `FaultsAreCurrent` (any pages, page tables, roots and
  TLB size).  `MmuInv` adds `WalkCurrent`: unless the walk is aborted, the pointer
  by which it came and the entry it has read were in the tables after the last
  flush.
* `PlicServesOnce` (any number of sources up to 31, any priorities).  The gateways'
  account is inductive by itself.  That a claim returns the best waiting source is
  a fact about the loop over the sources, proved by induction over its rounds.
* `FramesAreReceived`, `RxTypeCorrect` (any divisor, character length, lengths of a
  sent bit and of a pulse).  `RxInv`: the line is at rest, or disturbed by a pulse, or
  `p` clocks into a frame, and the synchroniser holds what the frame shows one and two
  clocks before `p`.  `Follows` says when the receiver samples next: `SampleDue(i)`
  clocks after the tick that sees the start bit, which is one of the clocks 2 to
  `Period + 1` of the frame.  `Margins` is the arithmetic that the drift leaves every
  sample in its bit, and the last one in front of the end of the frame.
  `FramesAreReceived` assumes `Tolerable`, the limits in which 16 ticks per bit can
  follow a sender: for bytes, a little under 5% slow or fast; a pulse that is over when
  the start bit is confirmed.
* `TimerIsExact` (halves of any size, any access pattern that is faster than a half
  counts).  `Rearming`, `Setting` and `Reading` say where mtimecmp and mtime are
  between the accesses of a job.
* `ScIsHonest` (any words).  `Reserved` and `ScWrites`: the reservation agrees with
  the last LR except while a store that has written waits for its answer, and an
  SC that has written still holds its reservation.

**`Fetch_proofs`**: `FetchIsSound` (any geometry, program and number of versions).
`FetchInv` adds to the property that the request memory has accepted is for the PC
or to be discarded (`PortOwes`), that the words of a live fill are current
(`FillsWhole`), and that the read register holds the row of the PC whenever a
lookup may use it (`RowIsCurrent`).

**`Pipeline_proofs`**: `StagesInOrder`, `AmoNotTorn`, `TrapsArePrecise`,
`SleepIsEarned` (any program, successor function and kinds).  `IInv` is `TypeOK`,
`InOrder`, `AmoIsWhole`, `Asleep` (the stages in front of a sleeping core are
empty) and `FaultIsStale` (the word that comes with a fetch fault is of a kind in
`Stale`).  `TrapsArePrecise` assumes `"ret" \notin Stale \cup Exposed` and
`SleepIsEarned` `"wfi" \notin Stale \cup Exposed`: the two cases of section 6.

**`Traps_proofs`** (any program over the CSRs of the module, any interrupt lines).
The lemmas `TrapModes`, `ReturnMret`, `ReturnSret`, `WriteCsr` and `NothingServed`
say what each kind of cycle does; every step lemma is a case split on them.

* `TrapTypeCorrect`, `BitsAsAsked`.  `SoftwareBitsAsAsked` becomes inductive with
  `MipFollows`: unless EX is empty, mip shows the software bits as they are, so a
  CSR instruction in EX modifies what it should.
* `WithdrawnNotTaken`.  `Withdrawn` adds that a bit which mip shows and nobody asks
  for is not delivered: it was not when the write that took it back was in EX, or
  that write would have been interrupted, and that write changed nothing else.
* `HandlersNotReentered`.  `Masked`: the interrupt enable of a mode is off while its
  handler has neither returned nor written the status; interrupts and triggers of
  that mode look at the same bit.
* `MachineProtected`.
* `TrapsBelong`, `ReturnsRestore`.  Both assume `LegalMpp`, a program that writes no
  reserved MPP (section 6): in mode 2 an ECALL is recorded as that of M but is not
  taken like it, and SRET cannot return there.  `StacksHold` says that the fields of
  mstatus are what the last trap of their mode met; `TrapToSupervisor`, that such
  a trap to S comes from U or S, which is all that the one bit of SPP can hold.  The
  multiplexers agree because each cause is in one table: interrupts are never in
  medeleg, exceptions never in mideleg.

**`Uart_proofs`** (any FIFO depth and character length).  `StatusIsTrue`,
`SentInOrder`, `ReceivedInOrder`.  `RingContents` and `FifoMoves` say that the ring
of head, tail and count is a queue.  `TxInv` says that what is owed is the byte in
the shifter and then the FIFO, and that the receiver at the other end has seen
exactly the bits that have been sent; `RxInv` that the FIFO is what arrived.
`StatusIsTrue` and `SentInOrder` assume `~ClearsStarting`: no clear of the TX FIFO in
the one cycle of section 6, in which the code breaks both.  Clears in every other
cycle are in, those over a byte that waits in the holding register included.
`ReceivedInOrder` assumes nothing of the kind.

**`Host_proofs`**.

* `InputStaysInOrder` (any number of typed bytes and divisor changes, any FIFO at least as
  deep as the driver's limit).  `Flow`: until a stop is asked for, what was framed, what
  the driver, the queue and the reader hold and what is still in the terminal are,
  in that order, what was typed.  `Sound` says of all times, a crash of the reader
  included, that what was framed is the beginning of it.  `Received`: what the guest
  has got and what the FIFO holds are the bytes of the frames read right, and while
  the receiver is in step during a frame the FIFO has room for it.  That a frame
  may be read wrong, and when, is part of the statement: section 6.
* `ProgramIsRun` (any command line, limit and sizes).  `Compiled`: an object file
  holds its own source unless a later one of the same stem has replaced it; then
  the list has a name twice, and the link fails.
* `BootVerdictTrue` (any boot stream, divisors, delays and limits).  `BootInv`: what was
  captured is what was sent, what is shown is the beginning of it with its line ends
  normalised, and the counters of silence and of the PC agree with those of the loop
  until one of them ends it.  `FormatIs` is the filter's case analysis: one more
  byte changes the normalised text at its end only.
* `TraceVerdictTrue` (any two runs, any tohost, any number of values of a byte).
  `TraceInv` is small, that Spike's run begins with the ROM and goes on at the entry
  point; the work is in what the parsers compute.  A `FlattenSeq` is described by the
  place where each part begins, never by its recursion.  `RtlParsed` and
  `SpikeAligned`: each parser returns what the programmer saw before tohost.
  `DivergenceOf` and `Verdict`: no divergence if and only if the two agree.
  `TraceCut`: parsing a log that ends earlier yields the beginning of the traces.
* `GreenJobTrue` (any test directory, suites and limit, any files left behind).
  `JobInv` cuts the selection into the tests that are done and those to do, says in
  which order the files of a test become this job's, and that a model of an earlier
  job is there only until the first build.  It assumes that `TraceNotComparable` is
  empty, as it is (compare_with_spike.py:31).  The hypothesis is needed: a listed test
  on which Spike and the simulation both fail "matches" with nothing run, and the
  job is green.
* `OutputIsKept` (any number of bytes, terminal buffer and backlog limit), the first
  half of `OutputDelivered`.  `PtyInv` adds to the property that the backlog
  and the byte in hand are always in order, and that a byte about to be written past
  a backlog finds the kernel full, unless a client has read in the middle of a call:
  so only such a read lets a byte overtake.
* `ProgramIsHeard` (any even bit period of the monitor of at least 4 cycles, any ticks, divisors
  and frames), the first half of `MonitorReports`.  It is about lines that `Matches`
  the monitor: each of its samples falls into its bit, with a cycle to spare.
  `MonitorInv`: while it samples, the monitor is exactly one
  frame behind and its timer runs out at its next sample (`MonitorInStep`); it looks for a start bit only when the line is idle, in a stop
  bit, or about to show one; and after CPU_DONE it is not done before it has the
  frames that were on the line (`Awaited`).

**Induction.**  Facts about loops and orders (the PLIC's loop, a least way, a last
buffered write, the first MSHR of a line) are proved with `LeastNumber` and
`Induction`: both are about sets of numbers, not about predicates, and rest on the
library's theorem that `<` is well-founded.

**Assumptions** are the named `ASSUME`s of the modules: the widths and geometries
the code can elaborate, `None` outside the sets it is added to, subsets in their
sets; for the tools, that Ctrl-] is not carriage return, nor CR line feed, that a command
line is a list of sources, that the names of the test binaries differ, and that a
store which writes a byte of tohost starts there (both are aligned).  `TrapsAssumption` also says which exceptions an instruction raises
by itself and that medeleg is a set of exceptions.  But for
the timer's bound on the gap between the accesses of a job, no theorem assumes
anything of timing, and none assumes fairness.

**Model-checked only.**  All liveness (`ClientServed`, `BusProgress`, `FetchEnds`,
`Progress`, `SessionEnds`, the second half of `TxDelivers` and of the others of its
kind): the prover does not reason about fairness.  `OutputDelivered` and
`MonitorReports` are one property each with their liveness, so no theorem states
them; `OutputIsKept`, `ProgramIsHeard` and `SentInOrder` are their safety parts and
that of `TxDelivers`.

## 5. What is not modelled

* Data path (decoder, ALU, forwarding values, load extension, register file):
  combinational arithmetic, covered by the unit tests and the Spike comparison.
* CSRs that no trap depends on: counters, scratch and vector registers, satp,
  PMP; MPRV, SUM and MXR, which only the MMU reads.  TVM, TW, TSR, the counter
  enables and the read-only check only make an instruction illegal, which is an
  input of `Traps`.  Of the four triggers there is one.
* A page fault of the fetch (`riscv_cpu.v:433`) as the end of its wait, see section 2;
  what the fault does in the stages is in `Pipeline`.
* The permission checks of the MMU, which are combinational in the entry that the
  TLB delivers; `DataBus` sees a walk only as a bus master.  The arithmetic of
  the AMOs.
* The statistics counters of the caches, the divisor and scratch registers of
  the UART, the read multiplexers of `top.v`.
* The build scripts (`Makefile`s, image builders, CI), the status dumps, trap
  monitor and stuck warnings of the boot tests, which only log; the content of
  the console's transcripts and a failure to close one.
* `store_load_detector.v` and `sv32_page_walker.v` are not instantiated.
* Reset in mid-operation, clock-domain effects other than the UART input.

## 6. Where code and text disagree

With a run:

* `pipeline_ret`.  `csr_file.v:345` serves MRET and SRET before exceptions.
  When an access faults in MEM in the cycle in which an MRET or SRET executes,
  the PC goes to the trap vector but the CSR file performs the return; epc,
  cause and tval are not written.  `csr_file.v:212` says MEM faults must win.
* `uart_thre_doc`.  `uart.v:122` clears the THRE latch on every IIR read
  without RX data, also when IIR does not report THRE; `uart.v:118` says "only
  when IIR actually reports THRE".

* `tty_exit`.  `linux_tty.py:287` holds a typed byte back while the receive FIFO
  is at its limit, and looks for Ctrl-] only in the byte it takes next.  When
  the guest does not read its UART, Ctrl-] typed behind such a byte ends
  nothing, and stdin is in raw mode.  `README.md:185` says it terminates the
  session.

Seen while modelling the RTL, kept out of the runs by a stated discipline:

* `riscv_cpu.v:463`: a WFI cancelled by a page fault in MEM still puts the core
  to sleep, at the first instruction of the handler (constant `Exposed`).
* `icache.v:93`: with a fetch page fault decode gets a stale word.  If it is a
  MRET, SRET or WFI, EX treats it as such while the fault is taken (constant
  `Stale`).
* `uart.v:305`: a TX clear in the very cycle in which the bit tick starts the byte of
  the holding register leaves `tx_busy` 0 with the frame on its way, while `uart.v:239`
  says only TX_STOP clears it (constant `ClearsStarting`).  LSR then reports an empty
  transmitter during the frame, and the next write of THR overwrites `tx_data` while
  its bits are being sent: write `01`, clear at its tick, write `10`, and `00` leaves.
  With the constant TRUE, `TxStatusTrue` and `TxDelivers` fail in this way.  Software that
  clears the FIFO only when LSR reports an empty transmitter never does this.
* `csr_file.v:389`: MPP keeps the reserved value 2 when software writes it, and
  MRET then enters mode 2, which behaves partly as S and partly as U.
* `docs/architecture.md:162` says AMO/SC writes and MMIO stores are driven
  directly; `top.v:205` offers every write to the store buffer.  Order is kept
  by `cpu_load_go`, as `ReadsAreCurrent` shows.
* `atomic_lsu.v:99`: the reservation is of a virtual address, an LR that faults
  still makes it, and a trap does not clear it.  `ScHonest` holds for what one
  address space does between traps.

Seen while modelling the tools; the models include these cases, and the properties
state the exceptions:

* A byte may be lost or garbled at the beginning of a session.  The driver is started
  (`linux_tty.py:355`, `:378`) before `start_dut` (`:380`) has held reset for its ten
  cycles, and at the reset divisor a bit is 16 cycles (`uart.v:62`).  The receiver sees
  the last cycles of the start bit of a byte that is already there and confirms it in
  data bit 0: if that is 0 the byte arrives as `(b >> 1) | 0x80`, if it is 1 the start
  is rejected, and the next start is looked for in the rest of the frame, so that frames
  right behind it may be misread too.  It meets keys typed ahead, or the LF of a CR LF that attaches.
  `InputInOrder` confines it to the frames up to the first one read right.
* A frame on the line while the guest sets a new divisor may be read wrong, and frames
  right behind it: `uart_send_byte` reads the divisor once, at the start bit, and the
  receiver's first tick comes after the old count.  Then `InputInOrder` says only that
  what comes through is the frames read right, in order and once each.
* `run_c_code.py:22-25`: the UART monitor decodes with a bit of 5208 cycles, "Baud divisor: 5208
  (from C code)".  `uart.v` makes a bit 16 times the divisor, never 5208 cycles.  `Matches`
  holds for the divisors 310 to 343, and `MonitorHears` says what the monitor reports for
  these only.  The repository's program does not set one of them:
  `test_uart_hello.c:6`, `:27` write 5208 at offset 0x0C, which is LCR (`uart.v:27`), so the divisor
  stays 1 and a bit is 16 cycles; a divisor of 5208 would make it 83328.
  What the monitor logs for that program is not what it sent.  `SummaryReached` holds
  on every line.
* `linux_tty.py:215`: when the client reads between the flush of the backlog and
  the write of a new byte, the new byte may overtake the backlog.
* On attach, the first byte starts the boot and is dropped, Ctrl-] too.
* The reader ends in a TypeError or ValueError when `close` takes its descriptor
  between its check and its call, harmlessly; a transcript it cannot write kills
  it silently, and then no key is seen.
* `run_c_code.py` passes when the program never writes CPU_DONE, and bytes still
  in the UART's FIFO at CPU_DONE are not decoded.
* The image is cut at 2048 bytes without a word; sources of one stem write
  the same object file, `start.c` that of `start.S`, and the link then fails.  `runMakefile` names a
  makefile (`c_runner.mk`) that the repository does not have.
* `compare_with_spike.py`: two runs that both fail count as a match, and Spike's
  log may then be an older one; a `--limit` that selects only skipped tests exits
  with 0.

## 7. Plan

1. `DataBus` with `Sv32Mmu` in place of the abstract walker.
2. UART and PLIC composed: the level of an interrupt that software has served.
3. Forwarding as a function of the stages in `Pipeline`.
