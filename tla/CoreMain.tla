------------------------------- MODULE CoreMain -------------------------------
(***************************************************************************)
(* main of CoreMark (core_main.c) with the port this repository builds           *)
(* (barebones/core_portme.c): the inputs and their defaults, the division of     *)
(* the memory block, the choice of the number of iterations, the timed run, and   *)
(* the verdict that is printed. What a kernel computes is abstracted to the       *)
(* inputs it was computed from (CoreMark.tla has the numbers).                    *)
(***************************************************************************)
EXTENDS Integers, FiniteSets

CONSTANTS
  MULTITHREAD,     \* contexts
  Totals,          \* values of TOTAL_DATA_SIZE
  Given,           \* triples of seeds given by the port, see below
  Execs,           \* values of seed5: the algorithms to execute, one bit each
  Iterations,      \* values of seed4
  Cost,            \* ticks of one iteration
  Overhead,        \* ticks that one measurement may take besides the iterations
  Phase,           \* values of the timer at the start of a measurement
  WrongTypes,      \* those of Types that have another size in the port than main needs
  BitFaults        \* the kernels that may compute a wrong result

(* The timer counts microseconds in 32 bits; here a tick is a millisecond.        *)
EE_TICKS_PER_SEC == 1000
WRAP == 4294967

Crc == INSTANCE CoreCrc

Kernels == {"list", "matrix", "state"}
Bit == [list |-> 0, matrix |-> 1, state |-> 2]
Types == {"ee_u8", "ee_u16", "ee_s16", "ee_s32", "ee_u32", "ee_ptr_int"}
Selected(execs) == {k \in Kernels : Crc!BitOf(execs, Bit[k]) = 1}
Contexts == 0 .. MULTITHREAD - 1

(* The inputs the port may hold, by name.                                        *)
SeedsOf ==
  [none |-> <<0, 0, 0>>, one |-> <<1, 0, 0>>, performance |-> <<0, 0, 102>>,
   validation |-> <<13333, 13333, 102>>, profile |-> <<8, 8, 8>>, other |-> <<7, 7, 7>>]

VARIABLES
  pc,
  given, seeds,            \* the seeds before and after the defaults
  execs, iterations,       \* of results[0]
  asked,                   \* iterations as given by the port
  mem, size, block,        \* the memory of a context: bytes, bytes and offset of each algorithm
  initialised,             \* the kernels whose block is initialised
  cost, secs_passed,
  ticks, real,             \* get_time of the last measurement, and the time it took
  crcs,                    \* [context -> [kernel -> result]]
  seedcrc, known_id, total_errors,
  message, led             \* the verdict printed; the output port of the board

vars == <<pc, given, seeds, execs, iterations, asked, mem, size, block, initialised, cost,
          secs_passed, ticks, real, crcs, seedcrc, known_id, total_errors, message, led>>

Init ==
  /\ pc = "init"
  /\ given \in Given /\ seeds = <<0, 0, 0>>
  /\ execs \in Execs /\ asked \in Iterations /\ iterations = 0
  /\ mem \in Totals /\ size = mem /\ block = [k \in Kernels |-> 0]
  /\ initialised = {} /\ cost \in Cost /\ secs_passed = 0 /\ ticks = 0 /\ real = 0
  /\ crcs = [c \in Contexts |-> [k \in Kernels |-> "garbage"]]
  /\ seedcrc = 0 /\ known_id = -1 /\ total_errors = 0 /\ message = "none" /\ led = 0

-----------------------------------------------------------------------------
(* The inputs are read from five volatile variables of the port, which the run    *)
(* does not change; the first three have 16 bits.                               *)
get_seed_32(i) ==
  CASE i \in 1 .. 3 -> SeedsOf[given][i] [] i = 4 -> asked [] i = 5 -> execs [] OTHER -> 0
get_seed(i) == get_seed_32(i) % 65536

(* The port's own part: a lamp at the start, another at the end.                *)
portable_init == led' = 1
portable_fini == led' = 2

Defaults(s) ==
  CASE s = <<0, 0, 0>> -> <<0, 0, 102>>
    [] s = <<1, 0, 0>> -> <<13333, 13333, 102>>
    [] OTHER -> s

Setup ==
  /\ pc = "init" /\ pc' = "divide"
  /\ portable_init
  /\ seeds' = Defaults(<<get_seed(1), get_seed(2), get_seed(3)>>)
  /\ iterations' = get_seed_32(4)
  /\ execs' = IF get_seed_32(5) = 0 THEN 7 ELSE get_seed_32(5)
  /\ UNCHANGED <<given, asked, mem, size, block, initialised, cost, secs_passed,
                 ticks, real, crcs, seedcrc, known_id, total_errors, message>>

(* The algorithms selected share the block equally, in the order of their bits.  *)
Offset(k, sel, n) == n * Cardinality({x \in sel : Bit[x] < Bit[k]})

Divide ==
  /\ pc = "divide" /\ pc' = "inits"
  /\ LET sel == Selected(execs) IN
     /\ sel # {}                     \* otherwise a division by zero: undefined
     /\ size' = mem \div Cardinality(sel)
     /\ block' = [k \in Kernels |-> IF k \in sel THEN Offset(k, sel, size') ELSE 0]
  /\ UNCHANGED <<given, seeds, execs, iterations, asked, mem, initialised, cost, secs_passed,
                 ticks, real, crcs, seedcrc, known_id, total_errors, message, led>>

Inits ==
  /\ pc = "inits" /\ pc' = IF iterations = 0 THEN "calibrate" ELSE "run"
  /\ initialised' = Selected(execs)
  /\ iterations' = IF iterations = 0 THEN 1 ELSE iterations
  /\ UNCHANGED <<given, seeds, execs, asked, mem, size, block, cost, secs_passed,
                 ticks, real, crcs, seedcrc, known_id, total_errors, message, led>>

-----------------------------------------------------------------------------
(* start_time, the iterations, stop_time, get_time: the difference of two         *)
(* readings of an unsigned timer.                                               *)
Bug_MYTIMEDIFF(fin, ini) == IF fin >= ini THEN fin - ini ELSE ini - fin
MYTIMEDIFF(fin, ini) == (fin - ini) % WRAP
time_in_secs(t) == t \div EE_TICKS_PER_SEC

Measure(n) ==
  \E start \in Phase, extra \in Overhead :
    /\ real' = n * cost + extra
    /\ ticks' = MYTIMEDIFF((start + real') % WRAP, start)

(* What the kernels leave: the result of the context's inputs, or a wrong one.    *)
Computed(faults) == [k \in Kernels |-> IF k \in faults THEN "wrong" ELSE "right"]

(* The number of iterations is multiplied by ten until they take a second; then   *)
(* it is set so that the run takes about ten.                                   *)
More(n) == n * 10
Bug_Calibrated(n, divisor) == n * IF divisor > 10 THEN 1 ELSE 10 \div divisor
Calibrated(n, divisor) == n * (1 + 10 \div divisor)

Calibrate ==
  /\ pc = "calibrate"
  /\ Measure(More(iterations))
  /\ secs_passed' = time_in_secs(ticks')
  /\ IF secs_passed' < 1
     THEN pc' = "calibrate" /\ iterations' = More(iterations)
     ELSE pc' = "run" /\ iterations' = Calibrated(More(iterations), secs_passed')
  /\ crcs' = [crcs EXCEPT ![0] = Computed({})]
  /\ UNCHANGED <<given, seeds, execs, asked, mem, size, block, initialised, cost,
                 seedcrc, known_id, total_errors, message, led>>

(* The measured run: one iterate, or one in every context.                       *)
Run ==
  /\ pc = "run" /\ pc' = "check"
  /\ Measure(iterations)
  /\ \E faults \in [Contexts -> SUBSET BitFaults] :
       crcs' = [c \in Contexts |-> Computed(faults[c])]
  /\ UNCHANGED <<given, seeds, execs, iterations, asked, mem, size, block, initialised, cost,
                 secs_passed, seedcrc, known_id, total_errors, message, led>>

-----------------------------------------------------------------------------
(* The inputs of the known results, by the comments of the switch.              *)
Recognised ==
  [crc \in {35330, 31493, 20143, 59893, 6386} |->
     CASE crc = 35330 -> [id |-> 0, input |-> <<0, 0, 102, 2000>>]
       [] crc = 31493 -> [id |-> 1, input |-> <<13333, 13333, 102, 2000>>]
       [] crc = 20143 -> [id |-> 2, input |-> <<8, 8, 8, 400>>]
       [] crc = 59893 -> [id |-> 3, input |-> <<0, 0, 102, 666>>]
       [] crc =  6386 -> [id |-> 4, input |-> <<13333, 13333, 102, 666>>]]

Input(s, n) == <<s[1], s[2], s[3], n>>
SeedCrc(s, n) == Crc!crc16(n, Crc!crc16(s[3], Crc!crc16(s[2], Crc!crc16(s[1], 0))))

(* A result is the expected one if it is right and its inputs are the expected;   *)
(* the others are counted, over the contexts and the algorithms selected.         *)
Wrong(crc) ==
  {x \in Contexts \X Selected(execs) :
     ~ (crcs[x[1]][x[2]] = "right" /\ Recognised[crc].input = Input(seeds, size))}
Bug_TotalErrors(crc) == Cardinality({x \in Wrong(crc) : x[1] = 0})
TotalErrors(crc) == Cardinality(Wrong(crc))

check_data_types == Cardinality(WrongTypes)
Check ==
  /\ pc = "check" /\ pc' = "report"
  /\ seedcrc' = SeedCrc(seeds, size)
  /\ IF seedcrc' \in DOMAIN Recognised
     THEN /\ known_id' = Recognised[seedcrc'].id
          /\ total_errors' = TotalErrors(seedcrc') + check_data_types
     ELSE known_id' = known_id /\ total_errors' = check_data_types - 1
  /\ UNCHANGED <<given, seeds, execs, iterations, asked, mem, size, block, initialised, cost,
                 secs_passed, ticks, real, crcs, message, led>>

TooShort(secs) == secs < 10

(* The run that took less than ten seconds is one more error; then the verdict    *)
(* is printed.                                                                  *)
Verdict(errors) ==
  CASE errors = 0 -> "validated" [] errors > 0 -> "errors" [] errors < 0 -> "cannot"
Report ==
  /\ pc = "report" /\ pc' = "done"
  /\ total_errors' = total_errors + IF TooShort(time_in_secs(ticks)) THEN 1 ELSE 0
  /\ message' = Verdict(total_errors')
  /\ portable_fini
  /\ UNCHANGED <<given, seeds, execs, iterations, asked, mem, size, block, initialised, cost,
                 secs_passed, ticks, real, crcs, seedcrc, known_id>>

Next == Setup \/ Divide \/ Inits \/ Calibrate \/ Run \/ Check \/ Report

(* main is sequential code: it goes on as long as it can.                       *)
Spec == Init /\ [][Next]_vars /\ WF_vars(Next)

-----------------------------------------------------------------------------
(* The bytes a kernel uses of its block: the list and the text stay within their   *)
(* size by CoreList and CoreState; the matrices are laid out here.               *)
align_mem(x) == 4 + ((x - 1) \div 4) * 4
Bug_MatrixN(n) == CHOOSE i \in 1 .. n : i * i * 8 >= n /\ (i - 1) * (i - 1) * 8 < n
MatrixN(n) == (CHOOSE i \in 1 .. n : i * i * 8 >= n /\ (i - 1) * (i - 1) * 8 < n) - 1

Last(k) ==
  IF k = "matrix"
  THEN LET n == MatrixN(size) IN align_mem(align_mem(block[k]) + 4 * n * n) + 4 * n * n
  ELSE block[k] + size

(* Each kernel that runs has its own part of the block ("pointer to safe memory    *)
(* location"): a result of the matrices never lands in the text or behind the      *)
(* block.                                                                       *)
SafeMemory ==
  pc \notin {"init", "divide"} =>
    \A k \in Selected(execs) :
      /\ Last(k) <= mem
      /\ \A x \in Selected(execs) : Bit[x] > Bit[k] => Last(k) <= block[x]

(* The time that is reported is the time the run took, wherever the 32-bit timer    *)
(* stood when it began, unless the run outlasts the timer.                       *)
TimeRight == real < WRAP => ticks = real

(* "iterations will be automatically determined such that the benchmark will run    *)
(* between 10 to 100 secs", on every machine that does ten iterations in 100 s.   *)
AutoDuration ==
  pc = "check" /\ asked = 0 /\ 10 * cost < 100 * EE_TICKS_PER_SEC =>
    /\ real >= 10 * EE_TICKS_PER_SEC
    /\ real <= 100 * EE_TICKS_PER_SEC

AllRight == \A c \in Contexts, k \in Selected(execs) : crcs[c][k] = "right"
LongEnough == real >= 10 * EE_TICKS_PER_SEC

(* For inputs whose results are known, the run is called correct only if every      *)
(* kernel of every context was right and it took ten seconds.                     *)
KnownValidatedMeansRight ==
  message = "validated" /\ known_id >= 0 => AllRight /\ (real < WRAP => LongEnough)

(* Errors are reported only of a run that has one, on a machine whose types are     *)
(* right.                                                                       *)
ErrorsMeanWrong ==
  message = "errors" /\ WrongTypes = {} => ~ AllRight \/ real % WRAP < 10 * EE_TICKS_PER_SEC
VerdictRight == KnownValidatedMeansRight /\ ErrorsMeanWrong

(* Whatever the inputs: a run is validated only when it is successful.            *)
ValidatedMeansSuccessful ==
  message = "validated" => known_id >= 0 /\ AllRight /\ LongEnough

(* Every run ends, with a verdict.                                              *)
Terminates == <>(led = 2 /\ message # "none")
=============================================================================
