# Verification of ArxCore

ArxCore is a RISC-V core (RV32IM, five pipeline stages, no forwarding except from
write back to decode) and the system around it on a DE1-SoC board: two masters
on a memory interconnect, RAM, ROM, peripherals, an Avalon bridge, and a debug
module that a host drives over a UART. The programs that run on it are in the
repository too: start code and system calls, the CoreMark and Dhrystone
benchmarks, sample applications. This directory holds TLA+ models of hardware
and software, the TLC configurations that check them, and TLAPS proofs that the
hardware and most of the software modules keep their promises for every
value of the constants. Paths below are relative to the repository; `core/` stands for
`arx_core/src/`, `dbg/` for `src/DebugModule/`, `cm/` for `software/coremark/`,
`dhry/` for `software/dhrystone21/`, `hal/` for `software/arx_hal/`, `apps/` for
`software/sample_apps/`.

The hardware models are synchronous: a step is one clock edge. Registers are variables,
combinational nets are operators over a state, an `always_ff` block is an action
that says what its registers hold next, and `Next` conjoins the blocks. What the
environment does (which arbiter grants what, what is on the serial line, which
button is down) is chosen at each edge. Reset values the design leaves undefined
are arbitrary ones that nothing reads before they are written.

The software models take a step for each loop turn or call that another part of the
program, another process or a property can tell from its neighbours; their variables
are the program's, named as in the source, plus a place in the program (`pc`, `phase`)
and a few variables that only properties read, marked as such.

A definition `Bug_X` next to a definition `X` is a plausible faulty version of it.
It is used nowhere in the specification; put in the place of `X` it must make a
property fail, which shows that the property depends on that part of the code.

## Parts of the system

| part | source | state | operations | talks to |
|---|---|---|---|---|
| fetch | `core/InsnFetch.sv` | state, `pc`, buffered redirect, parked instruction | request, deliver, park, redirect | instruction port, decode, execute (redirect) |
| decode | `core/InsnDecodeStage.sv`, `InsnDecoder.sv`, `RegisterFile.sv` | stage register, registers, 2-bit writer counts | accept, issue, flush, reserve, release | fetch, execute, write back |
| execute | `core/ExecStage.sv`, `IALU.sv`, `IMDU.sv`, `IMUL.sv`, `IDIV.sv` | stage register, three units with a result each, divider count | issue, compute, hand over, branch | decode, memory, fetch |
| memory | `core/MemStage.sv`, `MemReqSplitter.sv`, `LoadStoreUnit.sv` | stage register, request, response buffer, request type and address | request, acknowledge, buffer, extract | execute, write back, data port |
| write back | `core/WriteBackStage.sv` | stage register | consume response, write register, release | memory, decode |
| halt logic | `core/ArxCore.sv` | `halt_req_in`, `halted` | halt, resume, hand the data port to the debugger | all stages, debug module, buttons |
| interconnect | `src/MemoryInterconnect.sv`, `RamArbiter2to1.sv`, `RamPort.sv`, `RomPort.sv`, `ArxToAvalon.sv`, `mmio.sv` (the RAM) | selected master and acknowledge per slave, last region per master | decode region, arbitrate, perform, route back | two masters, memories, devices |
| debug module | `dbg/*.sv` | parser, command machine, timeout, two copiers, response buffer, reset counter | receive, execute, copy bytes, answer, drain | UART, halt logic, both memories |
| transmit delay | `src/ValidReadyDelay.sv` | counter | hold back bytes | debug module, UART |
| host tool | `tools/uart_debug.py` | next packet id | send a request, wait for the response | UART |
| peripherals | `src/Peripherals.sv`, `Timer.sv` | output register, timer | read, write | interconnect, every program |
| start code, linker script | `hal/start.S`, `hal/linker.ld` | the RAM | clear and copy sections | every program |
| system calls | `hal/syscalls.c` | end of the heap, FIFO of the JTAG UART | `_sbrk`, `_write` | C library, terminal |
| CoreMark kernels | `cm/core_list_join.c`, `core_state.c`, `core_matrix.c`, `core_util.c` | a block of memory each, a crc | initialise, run, restore | the list calls the other two; all chain into one crc |
| CoreMark main | `cm/core_main.c`, `barebones/` | inputs, memory, results, verdict | divide, calibrate, run, compare, report | kernels, timer, output register |
| CoreMark host ports | `cm/linux/`, `linux64/`, `cygwin/`, `simple/` | clocks, processes, segments, sockets | measure, start and stop a context | main, operating system |
| Dhrystone | `dhry/` | globals, two records, arrays | one run, a try of many runs, report | timer, output register |
| sample applications | `apps/main.c` | output register, timer | show bytes, delay | timer, peripherals |

What is hard in them, and what makes each correct:

- *Pipeline.* Latencies of memory (any), divider (33 cycles) and multiplier
  interleave with branches, stalls and halts. It is correct if it executes the
  program one instruction after the other, whatever the timing, and never stops.
- *Halting.* The debugger takes the data port away in the middle of execution
  and gives it back. Nothing may be lost, repeated or mixed up, and both requests
  must be answered.
- *Units.* The divider, the ALU's comparisons and the multiplier compute signed
  results from unsigned hardware. They are correct if they agree with integers.
- *Load/store unit.* The next request is on the wires when a load is extracted.
  It is correct if memory looks like an array of bytes.
- *Interconnect.* Two masters, slaves of different speed, acknowledges routed by
  what was asked a cycle ago, requests that may disappear. It is correct if both
  masters see one memory and none starves.
- *Debug module.* Six machines in a ring of handshakes, parity errors in the
  middle of a request, bytes that arrive while it is busy. It is correct if every
  request gets one answer, its own, and has its effect and no other.

- *Kernels.* They work in place: links are turned and merged, text is corrupted and
  restored, a matrix is shifted and shifted back. Each is correct if it leaves its
  block as it found it, loses nothing in between, and returns what the known values of
  main were computed from.
- *main.* Inputs of several sources, a timer that wraps, a count of errors with a
  special value. It is correct if the verdict says what happened.
- *Parallel contexts.* Children finish in any order, fail, are stopped, or have left
  results of an earlier run. It is correct if main reports what this run computed.
- *Under the programs.* Sections of any size in RAM of any contents, a heap below the
  stack, a FIFO that is polled, a timer that wraps.

PROJECT.json lists the hazards one by one, at their lines, with the properties
aimed at each.

## Modules

| module | models |
|---|---|
| `ArxArch` | words, registers, instructions as records, memory words |
| `ArxDecode` | control signals of each instruction class, ALU operand selection |
| `ArxIsa` | **abstract**: one instruction per step on `pc`, registers and memory |
| `ArxPipeline` | the five stages, scoreboard, units' handshakes, splitter, halt logic, ports, debugger as seen by the core |
| `ArxRefinement` | the mapping from `ArxPipeline` to `ArxIsa` |
| `ArxPipelineProofs` | theorems about `ArxPipeline`: types, units, scoreboard, redirects, responses, halting, the debugger's accesses; it implements `ArxIsa` |
| `ArxDiv` | IDIV, every register and edge |
| `ArxDivProofs` | theorems about `ArxDiv`, for every width |
| `ArxAlu` | IALU and IMUL as functions |
| `ArxBytes` | **abstract**: an array of bytes with loads and stores of three sizes |
| `ArxLsu` | LoadStoreUnit over a word memory; implements `ArxBytes` |
| `ArxMemory` | **abstract**: one memory, two masters, requests granted in any order |
| `ArxInterconnect` | regions, arbiters, ports, routing; implements `ArxMemory` |
| `ArxInterconnectProofs` | theorems: it does, and transfers are undisturbed |
| `ArxDebug` | the debug module with host, line, halt logic and two memories |
| `ArxDebugProofs` | theorems about `ArxDebug`: host and module stay in step, no byte is lost, commands are obeyed; what is answered and what is written |
| `ArxPeripherals` | output register and timer under the program that tests them |
| `ArxStart` | start code on the sections of the linker script |
| `ArxSyscalls` | heap and console output |
| `CoreCrc` | the crc functions |
| `CoreChain` | two runs, one with a wrong result, and their crcs |
| `CoreListSpec` | **abstract**: the list as a sequence of items, each operation one step |
| `CoreList` | the list benchmark pointer by pointer; implements `CoreListSpec` |
| `CoreState` | the state machine benchmark on its text |
| `CoreMatrix` | the matrix benchmark |
| `CoreMark` | **composition** of `CoreList`, `CoreState` and `CoreMatrix` through calc_func |
| `CoreMain` | main with the port of the board; kernels by what they were given |
| `CoreParallel` | core_start_parallel and core_stop_parallel of the host ports |
| `CoreTime` | the timers of the host ports |
| `Dhrystone` | Dhrystone |
| `MCPipeline`, `MCInterconnect`, `MCDebug` | values of the constants TLC checks with |
| `MCHalt` | the pipeline with a debugger or with the buttons |
| `MCUnits` | `ArxDiv`, `ArxAlu` and `ArxLsu` side by side |
| `MCUnitsProofs` | theorems: the ALU and the multiplier compute on integers, the load/store unit implements `ArxBytes` |
| `MCKernels` | `CoreChain`, `CoreList`, `CoreState` and `CoreMatrix` side by side |
| `MCKernelsProofs` | theorems about them: the scan of the text, the restoration of text and matrix, the chained crc |
| `MCMain` | `CoreMain`, `CoreTime` and `CoreParallel` side by side |
| `MCMainProofs` | theorems about them: memory, time, duration, verdict, contexts |
| `MCPrograms` | `ArxStart`, `ArxSyscalls`, `ArxPeripherals` and `Dhrystone` side by side |
| `MCProgramsProofs` | theorems about them: memory layout, output, delays |

"Side by side": the modules have no state in common, and a behaviour is one of a single
module while the others stay in one of their initial states, so the states of the run are
the sum and not the product of theirs. Modules that do interact are composed in
`CoreMark`, `ArxPipeline` and `ArxDebug`.

The pipeline leaves to the other modules what they show on their own: its
operators `Alu`, `Taken`, `Mdu` are parameters (ArxAlu, ArxDiv say what the units
compute), its divider is a count down (ArxDiv has the steps), its data are whole
words (ArxLsu has the bytes), and its ports grant a request at any time
(ArxInterconnect shows that they do so, once, and in the end).

### How the pipeline model corresponds to the code

`FetchEdge`, `DecodeEdge`, `ScoreboardEdge`, `ExecEdge`, `MemEdge`, `WriteBackEdge`
and `HaltEdge` are the `always_ff` blocks of InsnFetch, InsnDecodeStage, ExecStage
with its units, MemStage with MemReqSplitter, WriteBackStage and ArxCore. Names of
nets are those of the source. `InsnPortEdge` and `DataPortEdge` are the ports: a
request shown and granted at an edge is performed there and acknowledged in the
next cycle. `DebuggerEdge` is the debug module reduced to what the core sees: it
holds `halt_req` until halted, `resume_req` until not halted, and a memory request
until its acknowledge. An instruction is a record of opcode, function, registers
and immediate; the encodings are not modelled. Control signals that an instruction
class leaves undefined in the code are read under its enables only.

`ImplementsIsa` is refinement: `ArxPipeline` under the mapping of `ArxRefinement`
implements `ArxIsa!Spec`. An instruction counts as executed from the edge at which
decode issues it: the abstract registers and memory are those reached when the
instructions in write back, memory and execute complete in that order, with the
values the pipeline already holds for them. `Devices` are words that accumulate what
is stored to them, so that a repeated store is visible; `pipeline_run` has one.

### How the software models correspond to the code

In `CoreList` nodes are numbered as they lie in the block, `nxt` and `info` are the
pointers of `list_head`, `data` the items with their 16 bits as two bytes. The finds,
each step of the reversal, each comparison of the merge sort and each removal are
actions. What a kernel called by calc_func returns is any value of `Result`; in
`CoreMark` the kernel really runs. `KeepsPromise` is the refinement: the list in any
state is the sequence of items reached from its head, and while links are being
turned or merged it is the sequence before, until the operation is complete. That a merge
loses no node on the way is a part of its own, `NoneLost`.

`CoreState` has the text as codes, with the four tables of patterns of the source. A
step is a token in either scan, a corruption or a restoration; a token is scanned with
the transition function of the code. `CoreMatrix` computes every element with the
widths of the code; the elements of a product are computed in one step and summed one
by one.

`CoreMark` runs these on the real size of the 2K runs, 666 bytes each. Its behaviours are
all but deterministic; the run compares some twenty thousand states on the way to the crcs
main knows.

`CoreMain` knows of a result only whether it is right, so that all combinations of wrong
kernels can be tried. The matrices and the text have their addresses (`block`, `Last`).
The timer has 32 bits of microseconds in the code; a tick of the model is a millisecond
of 4 294 967, so that TLC's integers hold the products. The contexts of a run share its
inputs and are driven one after the other; `CoreParallel` has them side by side, and the
operating system as its external actions: a process that stops, a wait that returns, a
segment that survives its program. The linux, linux64 and cygwin ports hold the same text
there. Only the port in `barebones/` is built for the board; `CoreParallel`
and `CoreTime` are about source that the repository keeps for hosts.

`Dhrystone` has a step for each call main makes in a run; strings that are compared by
one character or in order are represented by what is compared. In `ArxPeripherals` a step
is a clock cycle again. `ArxSyscalls` counts the heap in pages and characters by number,
`ArxStart` has every byte.

## What is checked

| run | module | asks | distinct states |
|---|---|---|---|
| `pipeline_run` | MCPipeline | execution without halting is sequential; nothing gets stuck | 33 000 |
| `pipeline_halt` | MCHalt | a debugger halts, reads memory and resumes at any cycle, or the two buttons do, pressed in any pattern | 51 000 |
| `units` | MCUnits | divisions, comparisons, branches and products on all operands; all sizes, alignments and sequences of loads and stores | 20 500 |
| `div_by_zero` | ArxDiv | what the test bench says of division by zero (**violated**) | 5 000 |
| `bus` | MCInterconnect | one memory, undisturbed transfers, no starvation, also with withdrawn requests | 7 700 |
| `debug` | MCDebug | sequences of requests of every kind | 94 000 |
| `debug_errors` | MCDebug | a parity error in any byte, pauses on the line | 44 000 |
| `kernels` | MCKernels | lists refine sequences, blocks are restored, scans stay in the block, a wrong result stays visible, everything returns | 57 000 |
| `coremark` | CoreMark | the known values of the 2K runs | 20 400 |
| `main` | MCMain | memory, time, duration, verdict, contexts, end | 145 000 |
| `main_unknown` | CoreMain | validated means successful (**violated**) | few |
| `programs` | MCPrograms | memory layout, output, delays, end | 38 000 |

### Properties

Pipeline. `ImplementsIsa` is the main one. `ScoreboardExact`: the counters of
`m_used_reg` count exactly the writers in flight, so two bits suffice and decode
never issues too early or waits for ever. `OneUnitBusy`: the units never hold two
results. `TypeOK`: every register keeps a value it can have; the divider's count in
particular never leaves 0 .. DIV_CYCLES, so that it is not busy for ever. `ResponseOwned`: outstanding requests, buffered responses and waiting
instructions match one to one, through halts too. `RedirectPending`: a buffered
redirect waits for the outstanding request only. `DebugAckOwned`: an acknowledge
the debugger sees is that of its own request. `HaltedIsFrozen`: nothing but the
divider moves while halted. `KeepsRetiring`, `CommandCompletes`: no deadlock, no lost
command.

Units. `DatapathRight` is the type of the divider's registers and the invariant of its
loop, `ResultRight` its result for every signed and unsigned operation; `ComputesRight`:
comparisons, branches and products are those of the integers the operands stand for;
`ImplementsBytes`: the load/store unit over a word memory implements an array of bytes.

Interconnect. `ImplementsMemory`: each acknowledge answers the request of its own
master, performed once, with the word's contents. `TransferUndisturbed`: no change of
master in the middle of an Avalon transfer. `NoStarvation`.

Debug module. `AnswerRight`: each answer is that of the protocol for the present
request and the memory before it. `EffectRight`: memory changes by that request
exactly, and not at all if it came with an error. `ControlRight`: an acknowledged
halt, resume or reset has happened. `InStep`: it never speaks before the host has
finished or after the answer. `NoByteDropped`: no byte of a good request is ignored.
`Answers`: every request is answered.

CoreMark. `NeverMasked`: two chains that differ in one result stay apart, which is what
makes the comparison at the end a check. `KeepsPromise`: every list operation, however it
takes the links apart, does to the sequence what its comment says; each comparison
evaluates the items once and in list order, without which the known values would not hold,
since each evaluation depends on those before it; in the middle of a merge the nodes that are
merged, left in either run and not yet reached are all the nodes, each once (`NoneLost`); and
the list is as it was when an iteration ends. `Restored`: so are text and matrix, though the elements overflow. `TextScanned`: the scan
stays in the block, although the corruption may overwrite a final zero, and a token is
classified by its form. `AllReturn`. `KnownValues`: all of it together computes the values
main compares with.

main. `SafeMemory`: no kernel writes into the part of another. `TimesRight`: the reported
time is the one that passed, across the wrap of the board's timer, and to within a tick for
the difference of two readings in seconds and nanoseconds. `AutoDuration`: between ten and a
hundred seconds on machines of any speed. `VerdictRight`: for recognised inputs
"validated" means that every kernel of every context was right and ten seconds passed, and
"errors" that something was wrong. `NoFalseValid`: a context counts only with what it
computed in this run; one that did not deliver is refused. `RunsEnd`: main ends with a
verdict, and the contexts are gathered.

Two properties name exceptions, because the code has them. `NoFalseValid` excepts, when
something failed, what an earlier computation left in the place of that context (see the
divergences). `RunsEnd` excepts contexts whose datagram was dropped or never sent and
children that were stopped: there main waits.

Programs. `MemoryAsLaidOut`: when main starts every section has its contents and the rest
of the RAM is untouched, and the heap never leaves its reserve. `OutputRight`: the terminal
receives every character once and in order, the test program shows the bytes it wrote, and
Dhrystone ends with the values and the speed it should, its array element counts the runs of
all tries and is the printed "Number_Of_Runs + 10" exactly if there was one (`RunsCounted`). `DelayRight`: a delay
lasts its ticks, wherever the timer wraps, and not much longer. `ProgramsEnd`.

### Bounds, and why they are enough

- Pipeline: words of 16 values, so four memory words; three registers (x0 among
  them); programs of four instructions repeated through the address space, so that
  the program counter wraps and they run for ever. The hazards are about neighbours:
  five stages hold at most five instructions, and the ten programs of `MCPrograms` put
  the classes that interact next to each other (load before use, division before a
  dependent and before an independent instruction, branch over a store, call and
  return through a register, store before the load of its word). The halt runs use
  the three of them in `MCHaltPrograms` whose values do not grow. The divider takes
  two or three cycles instead of 33; what matters is that it is longer than the path
  of the other units. Memory latency has no bound, nor has the time between commands.
- Divider: three bits, ALU and multiplier: four; the theorems hold for any number. All operand pairs, so every combination
  of signs, zero, the extremes and overflow. The count is XLEN + 1 as in the code.
- Load/store unit: one word, bytes of two values, one of them negative, every
  alignment; ports of any latency. Lanes of one word do not interact with those
  of another, whose address is passed through.
- Interconnect: one slave of each kind and one unmapped region, one word each, two
  values. Slaves do not share state except through the masters.
- Debug: bytes of 16 values, so lengths and pointers wrap at 16 and the longest
  write has 11 bytes, the longest read 15; ten requests, four words of memory, a
  timeout of three cycles and a gap between bytes shorter than it; the reset
  pulse has two cycles.

- `kernels`. Crc: results that set the lowest, the highest and mixed bits; the crc is
  linear, so one result after another shows what a longer chain would. List: a block of
  240 bytes with a few nodes on either side of the boundary between the two ways of
  numbering; zero to three finds, so that values are found at the head, at the tail, next
  to the head and not at all; kernels that return a small and a large value with the cache
  bit of either. Text: 110 bytes, two full rounds of the four kinds of pattern; seeds
  whose low bytes turn characters into commas, digits, letters and zeros; three steps; two
  calls, so that what the first leaves is seen by the second. Matrix: 3 by 3, seeds of
  both signs and constants that make elements wrap.
- `coremark`: the real size and the seeds of the performance and validation runs. The
  crcs of the 2K runs over 2000 bytes are defined by blocks of 666.
- `main`: totals that leave no remainder and one that does; a run so fast that calibration
  takes many steps and one so slow that ten iterations take 90 seconds, with costs at the
  edges between; a phase of the timer just before its wrap; right and wrong results of two
  kernels in each of two contexts, though the board's port has one, for the loops over
  contexts. Contexts of the host ports: one to three, so that there is a first, a middle
  and a last; two runs of the program, so that segments are left over. Clocks: 12 units a
  second and 4 a tick instead of 10^9 and 10^6; what matters is that the one divides the
  other.
- `programs`: sections of zero, one and three bytes; a UART of two characters and writes of
  up to four, data that ends anywhere below the end of the heap; a timer of 16 values with
  three cycles a tick, starts before and at the wrap, delays longer than half of it; one
  run in the first try of Dhrystone instead of 500, and machines that need one, three and
  four tries.

### Fairness

The software: `WF` of the running program, and of each child of `CoreParallel` on its own
(the scheduler runs every process that can run). `ArxSyscalls` also assumes that a
terminal is attached and takes characters; without one `_write` polls for ever, by
design. `CoreState` assumes nothing of its caller.

Hardware. `WF_vars(Next)`: the clock runs. A port grants a request it is shown in the end:
`NoStarvation` of `bus` shows that the arbiters do, given that a device behind
the Avalon bridge answers in the end, which is assumed there. In `ArxDebug` the
UART takes each byte in the end (ValidReadyDelay only delays), and a core asked to
halt drains in the end, which is `CommandCompletes` of the pipeline. No fairness is
assumed of the host, the buttons or the line.

### Findings

`div_by_zero`: DIV of a negative dividend by zero gives +1. IDIV negates the all-ones
quotient because the signs of dividend and divisor differ (`core/IDIV.sv:55`, `:99`).
`arx_core/tests/IMDU_tb.sv:122` says of every dividend "Division by zero returns -1";
its directed test uses +10 only. `ResultRight` excludes that one case.

`main_unknown`: with unknown seeds and less than ten seconds the error count is
-1 + 1 = 0, and the run "validated" (`cm/core_main.c:261`), which
`software/coremark/README.md:208` reserves for a successful run.

Other divergences between the code and what stands beside it, met while modelling. Each is
a behaviour of the models; the properties above are stated so that they name it as an
exception or leave it out:

- Two list items may get the same number, and the sort by number then does not restore
  their order (`cm/core_list_join.c:299`; `:156` says "the list is back to original
  state"). Not with the seeds main recognises. `KeepsPromise` states the restoration for distinct numbers.
- A character that the corruption turns into a comma is not restored (`cm/core_state.c:89`;
  `:88` says "undo corruption is seed1 and seed2 are equal"). Not with the seeds main
  recognises. `Restored` is stated for the other seeds (`CommaSafe`).
- An invalid character ends a token in the middle of an item (`cm/core_state.c:188`;
  `software/coremark/README.md:306` says up to the separator).
- Elements of B use all sixteen bits (`cm/core_matrix.c:187`; `:31` says that the upper
  half is zero).
- With a total such as 1947 the result matrix runs two bytes into the text
  (`cm/core_main.c:179`; `cm/coremark.h:140` says "safe memory location"). The totals of
  the run `main` are those of the documented runs.
- Kernels that were not selected run on uninitialised memory (`cm/core_main.c:49`).
- The comments call each default run by the name of the other (`cm/core_main.c:122`, `:127`
  and `:252`).
- A child faster than the parent's `bind` is waited for without end
  (`cm/linux/core_portme.c:302`); variable `lost` of `CoreParallel`.
- Results of an earlier run of the program count when a child cannot attach its segment,
  which nothing removes and whose key is fixed (`cm/linux/core_portme.c:241`); so do those
  of the calibration in context 0. Operator `Left` of `CoreParallel`.
- After a second try the element Dhrystone prints is not Number_Of_Runs + 10
  (`dhry/dhrystone_main.c:203`): it counts the runs of all tries. `RunsCounted`, a part of
  `OutputRight`, states exactly when the two differ.
- Proc_2 turns 1 into 5, not 4 as its comment says (`dhry/dhrystone_main.c:287`).
- The heap ends at 16 KB of a RAM that has 128 KB, 32 of them reserved for it
  (`hal/syscalls.c:43`).

Noted while reading, where no document says what was meant:

- A halt is acknowledged while a request of the core may be on its way; its
  acknowledge is masked (`core/ArxCore.sv:588`) and the request repeated after the
  resume. For memory only the core writes this is invisible, which is what
  `pipeline_halt` shows with `Devices` and `DebugWrites` empty. A device would see
  the access twice (`Devices = {4}` makes `ImplementsIsa` fail), and a word the
  debugger changed meanwhile may be overwritten (`DebugWrites = {9}`).
- READ with size 0 is answered with the length of an earlier read
  (`dbg/DebugMemoryCopier.sv:117`); the host tool refuses it.
- `write_prog` and `write_data` of the host tool accept 255 bytes, but with the
  address a packet holds 251.
- A data memory command while the core runs is never answered.
- JALR does not clear the lowest bit of its target.
- `cm/core_list_join.c:208` speaks of the crc of the list from an item on; the code adds
  the data of the head once for each item (`:215`, `:228`).
- `apps/mem_throughput.c` prints 512 bytes where it copies 2048; `apps/pipeline_bug.c` has
  50000 ticks per millisecond, the timer has 1000.
- The time of one run that Dhrystone prints overflows from 2148 microseconds on
  (`dhry/dhrystone_main.c:242`); `SpeedRight` says so.

## What is proved

TLC checks the configurations above; TLAPS proves the following for every value of the
constants that satisfies the assumptions of the module, and the assumptions named with
the theorem. The names in brackets are the properties the runs check.

| module | theorem | property | assumes besides the module's |
|---|---|---|---|
| `ArxPipelineProofs` | `TypeCorrect`, `UnitsExclusive`, `ScoreboardCorrect` | `TypeOK`, `OneUnitBusy`, `ScoreboardExact` | |
| | `RedirectsPending` | `RedirectPending` | |
| | `HaltedFrozen` | `HaltedIsFrozen` | |
| | `ResponsesOwned` | `ResponseOwned` | `OneOperator` |
| | `DebugAcksOwned` | `DebugAckOwned` | `OneOperator`, `WritesMemory` |
| | `PipelineImplementsIsa` | `ImplementsIsa` | `OneOperator`, `DebuggerReads`, `RepeatsHarmless` |
| `ArxDivProofs` | `DatapathCorrect`, `ResultCorrect` | `DatapathRight`, `ResultRight` | |
| `MCUnitsProofs` | `UnitsCompute` | `ComputesRight` | |
| | `LsuImplementsBytes` | `ImplementsBytes` | |
| `ArxInterconnectProofs` | `OneMemory`, `TransfersUndisturbed` | `ImplementsMemory`, `TransferUndisturbed` | |
| `ArxDebugProofs` | `DebugInStep`, `DebugNoByteDropped`, `DebugControlRight` | `InStep`, `NoByteDropped`, `ControlRight` | |
| | `DebugAnswerRight`, `DebugEffectRight` | `AnswerRight`, `EffectRight` | |
| `MCKernelsProofs` | `ScanIsRight`, `DataRestored` | `TextScanned`, `Restored` | |
| | `WrongResultShows` | `NeverMasked` | |
| `MCMainProofs` | `ContextsGathered` | `NoFalseValid` | |
| | `TimeReported` | `TimesRight` | |
| | `IterationsChosen` | `AutoDuration` | `OverheadSmall` |
| | `KernelsKeepToTheirBlocks` | `SafeMemory` | `RoomToAlign` |
| | `ValidatedRunsAreRight` | `KnownValidatedMeansRight`, the first half of `VerdictRight` | |
| | `VerdictsRight` | `VerdictRight` | `NoCollision` |
| `MCProgramsProofs` | `MemoryLaidOut`, `OutputIsRight`, `DelaysAreRight` | `MemoryAsLaidOut`, `OutputRight`, `DelayRight` | |

### The assumptions

- `OneOperator`: where the debugger accesses memory, no button is pressed. The two are not
  told of each other: a button that resumes the core takes the data port away from a
  debugger in the middle of its access. Halting and resuming by both is covered.
- `WritesMemory`: a word the debugger writes is memory and not a device, which would not
  hold what was written to it.
- `DebuggerReads`: what the debugger writes is no step of the program.
- `RepeatsHarmless`: without devices, or without halting. A store that is granted in the
  cycle of a halt is granted again after the resume (see "Noted while reading"); without
  this assumption `ImplementsIsa` is false, as TLC shows with `Devices = {4}`.
- `OverheadSmall`: what `core_portme` adds to a measurement is at most ten milliseconds. The
  calibration of main multiplies until a measurement is a second long and then divides
  by the whole seconds; with a longer overhead the chosen number may fall short of ten.
- `RoomToAlign`: the three matrices, which start at the next multiple of four, still end in
  the part main gave them. It holds for the documented totals (2000 / 3 and 1200 / 3 leave
  room) and not for every total: with 27 bytes they run past the end.
- `NoCollision`: the 16-bit CRC of unknown inputs is none of the five main knows. Main
  recognises its inputs by that CRC alone (`cm/core_main.c:239`), so inputs that collide
  with known ones are judged by results they cannot have, and a right run ends with "errors".
  That "validated" is never said of a wrong run of known inputs needs no such assumption
  (`ValidatedRunsAreRight`).
- The assumptions of the modules themselves (`ASSUME`) are about types and sizes, as that the
  debugged memories fit in the addresses of a request (`4 * Words <= AddrSize`), or that the
  timer is wide enough for the delay and one turn of its loop (`TimerAssumption`: the code
  compares a difference of readings, which is right below one wrap); TLC
  evaluates them in every run. `OverheadSmall`, `RoomToAlign` and `NoCollision` are
  evaluated too (`BuildAssumption` of `MCMain`).

### The arguments

*Pipeline.* The inductive invariant is `TypeOK /\ OneUnitBusy /\ ScoreboardExact`. The
scoreboard needs `OneUnitBusy`: it counts the execute stage as one writer, which is
right only if a handover empties the stage, that is, if no second unit still
holds a result for the same stage register. `ScoreboardExact` bounds each counter by
three, which is what makes the modular arithmetic of the two-bit counters exact.
The argument of the step goes stage by stage: what leaves decode enters execute,
what leaves execute enters memory, what leaves memory enters write back, and what
write back retires is what the scoreboard releases.

*Halting.* `RedirectPending` is inductive with the types. The rest follows one
fact, `HaltStops`: when the core is drained with a halt request, no stage hands anything
over. `HaltInv` says that a halted core is drained and that write back, which may still be
occupied, waits for a response that is not yet there; `CommandInv` that the debugger has
the data port to itself while it accesses memory. `ResponseOwned` is inductive only with
these: a response the halt logic masks leaves the request where it was, and the debugger's
own acknowledge would otherwise be taken for the core's. `ReqHeld` ties the request that
is not accepted yet to the instruction in the memory stage.

*Refinement.* The abstract state is what the registers and the memory will be when the
instructions in write back, memory and execute have completed in that order. The proof
follows one clock edge. The back end moves instructions towards the registers and the
memory and leaves the abstract state alone, stage by stage (`BackEndStep`). An issue by
decode appends one instruction (`IssueStep`): its operands are the registers the elder ones
leave behind, because the scoreboard is empty for its sources and counts exactly
(`SourceReady`). `FetchInv` says that fetch and decode hold the program at the address
they name, and `NextPcStep` and `IssuePc` that the abstract program counter moves as the
machine's: an undecided branch in execute is the only way to leave the straight path, and
`RedirectPending` keeps everything of the wrong path out of decode. An edge without an
issue is a stutter, an edge with one a step of `ArxIsa`.

*Divider.* `DivInv` adds to the two properties that the operation is held while the unit is
busy (`OperationHeld`) and that a division by zero builds a quotient of ones (`AllOnes`,
the case in which dividend = rest + quotient * divisor says nothing of the quotient).
`StepShift` finds the next bit: the divisor, shifted by the steps left, fits exactly when
the rest is not smaller. At the last step the rest is below the divisor, so quotient and
remainder are those of the absolute values (`DivMod`), and `ResultOfDivision` restores the
signs. The widths are powers of two with an exponent that is a parameter, and there is no
fact about them in the library: 2^n is counted as the subsets of 1 .. n, so that
2^(m+n) = 2^m * 2^n is a bijection of subsets (`PowerSum`).

*ALU and multiplier.* `ArxAlu` works on words bit by bit, and a bitwise operation is the word
with certain bits, so what has to be known is that there is exactly one. `WordOfBits`: any
choice of bits is a word; `SameBits`, `EqualWords`: words with the same bits are equal. Both
are inductions over the number of bits, which the library has only as theorems with an
operator for a parameter; `Induction` states the principle for a set of numbers and is proved by counting (the numbers
up to a missing one that are missing too would be a finite set that the predecessor maps
into a part of itself, one to one). Then an exclusive
or is zero exactly for equal words; the borrow of the subtraction is the unsigned
comparison (`Borrow`), with the sign bits the signed one (`LessThan`, `Comparisons`); and one
signed product of operands extended by a bit agrees modulo four times the width of a word
with the product of the integers, signed, unsigned or mixed, low word and high word
(`ModuloMultiple`, `Products`).

*Load/store unit.* The abstract array has byte a in lane a % 4 of word a \div 4. An aligned
access stays in its word (`AlignedAddress`), stores change exactly the enabled lanes, and the
value extracted at an acknowledge is that of the request granted the edge before, whose
type and address the unit remembers.

*Interconnect.* A grant at a slave is the transfer of one master: the one selected asks, its
region is that slave (`PerformedRequest`), so that no two slaves serve one master at an edge,
and the acknowledge is routed back by the region the master was shown to ask for. One edge
may serve both masters at different slaves, which is the step of `ArxMemory` that serves both.

*Debug module.* `DebugInv` says, machine by machine, how far a request has come.
`ParserInv`: what the parser has of it, byte by byte, and that an error it reports is one of
this request. `CommandInv`: what it does is what the request asks, with nothing left to
arrive; while the rest of a bad request still arrives, `timeout_counter` is at most the gap
since the last byte, so it can not run out before the host has finished (this is where
`MaxGap + 1 < TIMEOUT_TICKS` is needed). `BufferInv`: what the host has of the answer;
with `Complete`, the host has all of it exactly when the parser is released. `CoreInv`: a
reset is over when the command is, and only a halt command is under way with a core that
was asked to halt and has not; `ObeyedInv` then keeps the core as it was left until the next
request. Every step of the proof is an edge of all machines together with one move of the
host (`HostMoves`).

*Debug module, data.* `DataInv` follows the bytes of one request on top of that. `ArrivedInv`:
the parser's registers and buffer hold the bytes that have arrived. `CopierInv`: the address
register of the copier is a shift register that is never cleared, so what an earlier request
left in it is pushed out only by the fourth byte: after k bytes it is what it was times
`ByteSize^k` plus the bytes so far (`Ends`), below `AddrSize`, and with four the old
value is a multiple of `AddrSize` and gone (`Whole`). `PortInv` and `ReadInv`: an acknowledge
belongs to the copier that asks, and the word on the port is the one of the address it
asks for now. `MemInv`: memory is what it was before the request, overwritten by as many of
the request's bytes as the copier has advanced over, counting the one granted and not yet
acknowledged; a byte granted twice writes the same. `ResponseInv`: the fields and the payload
of a response that is ready are the protocol's, byte by byte; `ReceivedInv`: what the host has
is a prefix of it; `AnswerInv` keeps it after the buffer is free. With the whole answer
received the two sequences have one length and the same elements (`AnswerFrame`,
`SameSequence`).

*Contexts.* `PlacesInv`: wherever a result may lie (the child's memory, a segment, a datagram,
main's array), it is the context's own, of this run, of an earlier one, or nothing; `Traced`.
That gives the half of `NoFalseValid` that allows for faults. `FaultFreeInv` follows the loops
of main: without a fault each context main is done with has delivered, and what it delivered
is of this run.

*Text.* The end of the text is a zero the corruption never reaches. Its step comes from the data of
an item, four bits and the same four bits again, so that it is a multiple of 17
(`KernelsAssumption`); the corruption begins at the block, so that it strikes multiples of 17
only, and of the last two cells, which are zero, at most one is such (`End`, `EndNotStruck`).
With that zero before it a token ends in the block (`TokenEnds`). `Undoing` has the text
between corruption and undoing cell by cell; a character flipped twice is as it was
(`XorTwice`). The walk over a token is a recursive function on the distance from the end:
`WalkUnfolds` shows that there is one, and `Walks` what it is, a sequence of states each of which is the
machine's answer to the one before and a character (`IsWalk`). `Form` is a definition without the machine; one
character more changes it as the machine changes its state (`FormGrows`, from the seven
forms excluding one another, `Apart`), and so along the token (`TokenClassified`).

*Matrix.* Between call and return the matrix is the initialised one with the constant added,
modulo 2^16; `BackAgain` takes it off.

*Chain of results.* A turn of `crcu8` shifts the register right and, if the bit that falls out
differs from that of the data, exclusive-ors it with 0x4002 and sets its top bit. So the top bit of
a turn's result says whether it was flipped, and the turn can be run back. Sixteen turns
with the same data are one to one in the register, with different data in one register they
are one to one in the data. `NeverMasked` is inductive with the types.

*main.* `ClockInv`: a reading of the timer is the real time modulo its wrap, and the clocks of
the host ports differ from it by less than a tick at either end. `MainTypeInv` has the counts and
the readings of main in the same way. `DurationInv` follows the calibration: at each place,
what the last measurement was and what follows for the number of iterations; with
`MainTypeInv` the division at the end gives ten to a hundred seconds. `LayoutInv`: each
block main hands out begins where the one before ends, for any selection of the
algorithms. `VerdictInv`: the count of errors is that of the wrong results of the contexts
compared so far, and -1 only before the comparison with an unknown CRC.

*Under the programs.* `StartInv` reads off the registers of the start code how far each section
is copied or cleared, byte by byte, and that nothing outside is touched. `HeapInv` keeps the
break between the end of the data and the limit. `UartInv`: a poll that saw space is still right
when the character is written, since only the program fills the FIFO; the characters sent, in the FIFO and
not yet written are the numbers in order. `LampsInv` and `DelayInv`: the timer is the number of
ticks modulo its wrap, and a turn of the loop reads it late by at most one turn. `DhryInv` has what
each call of main leaves in the variables, place by place; `TriesRight` in it compares the
runs executed with those of the present try: a further try has more of them, and those before
it are executed already.

### What stays with TLC, and why

- Liveness (`KeepsRetiring`, `CommandCompletes`, `NoStarvation`, `Answers`, `AllReturn`,
  `RunsEnd`, `ProgramsEnd`): the proof system has no rule for fairness.
- `KeepsPromise`: the list is what is found by following pointers, and the sort merges such lists in
  place; what a walk over pointers yields after an assignment to one of them is an induction for
  every loop of the benchmark.
- `KnownValues`: a computation with one outcome, which TLC performs.

## What is not modelled, and why

- Instruction encodings and immediates (`InsnDecoder.sv` and the immediate
  formats): pure wiring of bits.
- `clk_en` (switch 3): always high. The core is not gated by it.
- The reset of the core in the middle of execution: ArxDebug has the reset pulse
  and its effect on the halt logic, ArxPipeline starts from reset once.
- Displays (`SevenSegmentInd.sv`): a table.
- The UART and the memories: generated; their interfaces are modelled as used.
- Lost bytes on the serial line: the parser has no timeout for them.
- `UartMemInit.sv`: not instantiated. The output register in `mmio.sv`: the board's top
  instantiates `mmio` as the RAM and passes it bits 31 to 2 of an address, so that its bit
  30, which would select the register, is always zero.
- `cm/barebones/ee_printf.c`, `cvt.c`: not in the build, which uses printf.
- The report of CoreMark and Dhrystone as text; FILETIME of Windows; failures of socket,
  bind and shmget; the stubs of `hal/syscalls.c` that return a constant.
- `apps/mem_throughput.c`, `pipeline_bug.c`: straight-line programs. `apps/donut.c`: a
  demonstration; no state outlives a frame but two angles.
- The command line of CoreMark's host ports (`parseval`, `get_seed_args`): the port of the
  board has none and takes its seeds from variables.
- A CoreMark with no known bit in execs (a division by zero), and what kernels that were not
  selected compute on their uninitialised memory (`CoreMain` has every selection for the
  memory and the verdict, `CoreMark` all three kernels); a clock that is set back during a
  run.
- A debugger and buttons that act on the core at the same time: `pipeline_halt` has the one
  or the other.
- Test benches, generated files.

## Plan

Done, in this order: `ArxArch`, `ArxDecode`, `ArxIsa`, `ArxPipeline` and its refinement;
the first proofs; `ArxDiv`, `ArxAlu`, `ArxLsu` with `ArxBytes`; `ArxInterconnect` with
`ArxMemory`; `ArxDebug`; the software: `CoreCrc`, `CoreChain`, `CoreList` with
`CoreListSpec`, `CoreState`, `CoreMatrix`, `CoreMark`, `CoreMain`, `CoreParallel`,
`CoreTime`, `Dhrystone`, `ArxPeripherals`, `ArxStart`, `ArxSyscalls`.

To extend the model:

1. Soft reset in `ArxPipeline`: the pulse at any edge with a request on its way, the
   ports keep their state; what a restarted core may see.
2. The repeated request after a halt as a specification of its own: what devices and
   debugger writes may observe (at least once, same data), in place of excluding
   them.
3. Buttons and debugger together: a resume during a memory command.
4. `clk_en`; the peripherals behind `ArxInterconnect`.
5. `ArxDebug` with the pipeline's halt logic in place of its summary, or a proof that
   the summary is implemented by `ArxPipeline`.

To prove more:

1. The list: `KeepsPromise`, from an invariant that every link leads to a node not yet visited.
