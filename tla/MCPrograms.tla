------------------------------ MODULE MCPrograms ------------------------------
(***************************************************************************)
(* The software of the board apart from CoreMark: the start code, the system calls    *)
(* under the C library, the program that tests the peripherals with the timer it       *)
(* waits for, and Dhrystone. A behaviour is one of a single part while the others      *)
(* wait where they begin.                                                           *)
(***************************************************************************)
EXTENDS Dhrystone

CONSTANTS
  Sizes, Text, Rest,                                  \* of ArxStart
  Ends, Incr, Lengths, MaxWrites, Capacity,           \* of ArxSyscalls
  PRESCALE, WRAP, Start, Long, Short, MaxGap          \* of ArxPeripherals

ASSUME ProgramsAssumption ==
  /\ 0 \in Sizes /\ Sizes \subseteq Nat /\ Text \in Nat /\ Rest \in Nat
  /\ 0 \in Ends /\ Ends \subseteq Nat /\ Incr \subseteq Nat
  /\ Lengths \subseteq Nat /\ MaxWrites \in Nat /\ Capacity \in Nat \ {0}
  /\ PRESCALE \in Nat \ {0} /\ WRAP \in Nat \ {0} /\ 0 \in Start /\ Start \subseteq 0 .. WRAP - 1
  /\ Long \in Nat /\ Short \in Nat /\ MaxGap \in Nat
  /\ NUMBER_OF_RUNS \in Nat \ {0} /\ Cost \subseteq Nat \ {0}

VARIABLES
  part,
  size, ram, spc, call, a0, a1, a2,                                              \* ArxStart
  end, heap_ptr, refused, ypc, i, len, polled, writes, fifo, received, written,  \* ArxSyscalls
  cnt_50, cnt, out_1, q, ppc, pending, start, v, gap, since                      \* ArxPeripherals

start_vars == <<size, ram, spc, call, a0, a1, a2>>
calls_vars == <<end, heap_ptr, refused, ypc, i, len, polled, writes, fifo, received, written>>
timer_vars == <<cnt_50, cnt, out_1, q, ppc, pending, start, v, gap, since>>
allvars == <<part, vars, start_vars, calls_vars, timer_vars>>

S == INSTANCE ArxStart WITH pc <- spc
H == INSTANCE ArxSyscalls WITH pc <- ypc
P == INSTANCE ArxPeripherals WITH pc <- ppc

(* The timer has 32 bits: a delay and a turn of its loop are far from its wrap.           *)
ASSUME TimerAssumption == Long + P!Turn < WRAP /\ Short + P!Turn < WRAP

ProgramsInit ==
  /\ part \in {"start", "calls", "peripherals", "dhrystone"}
  /\ S!Init /\ (part # "start" => \A s \in DOMAIN size : size[s] = 0)
  /\ H!Init /\ (part # "calls" => end = 0)
  /\ P!Init /\ (part # "peripherals" => cnt = 0)
  /\ Init   /\ (part # "dhrystone" => cost = (CHOOSE c \in Cost : TRUE))

StartStep == part = "start" /\ S!Next /\ UNCHANGED <<part, vars, calls_vars, timer_vars>>
Calls(step) == part = "calls" /\ step /\ UNCHANGED <<part, vars, start_vars, timer_vars>>
TimerStep == part = "peripherals" /\ P!Next /\ UNCHANGED <<part, vars, start_vars, calls_vars>>
DhrystoneStep == part = "dhrystone" /\ Next /\ UNCHANGED <<part, start_vars, calls_vars, timer_vars>>
ProgramsNext == StartStep \/ Calls(H!Next) \/ TimerStep \/ DhrystoneStep

(* The clock runs, the core executes, and a terminal takes characters out (ArxSyscalls). *)
ProgramsSpec ==
  /\ ProgramsInit /\ [][ProgramsNext]_allvars
  /\ WF_allvars(StartStep) /\ WF_allvars(TimerStep) /\ WF_allvars(DhrystoneStep)
  /\ WF_allvars(Calls(H!Poll)) /\ WF_allvars(Calls(H!Put)) /\ WF_allvars(Calls(H!Return))
  /\ WF_allvars(Calls(H!Host))

-----------------------------------------------------------------------------
(* The memory is what the linker laid out: main starts with every section initialised    *)
(* and nothing behind them touched, and the heap stays in its reserve.                  *)
MemoryAsLaidOut == S!Ready /\ H!HeapInReserve

(* What is shown is right: the host receives every character once and in order, the      *)
(* lamps show the bytes that were written, and the benchmark ends with the values, the    *)
(* count and the speed of what it ran.                                                *)
OutputRight == H!NothingLost /\ P!BytesShown /\ FinalValues /\ RunsCounted /\ SpeedRight

(* A delay lasts its ticks and at most one turn of its loop longer, wherever the timer    *)
(* stands (ArxPeripherals).                                                           *)
DelayRight == P!DelayRight

(* No loop of a program hangs: main is reached, every _write returns, no delay outlasts   *)
(* the wrap of the timer, and the benchmark gets long enough.                          *)
ProgramsEnd ==
  /\ part = "start" => <>(spc = "main")
  /\ H!WriteReturns
  /\ part = "peripherals" => P!Terminates
  /\ part = "dhrystone" => Terminates
=============================================================================
