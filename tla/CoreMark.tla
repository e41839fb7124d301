------------------------------- MODULE CoreMark -------------------------------
(***************************************************************************)
(* The three algorithms of CoreMark together, with their real data: calc_func   *)
(* (core_list_join.c), reached from the comparisons of the list benchmark, runs  *)
(* the state or the matrix benchmark, whose result goes into the list and the    *)
(* crc. The result can be held against the known values of core_main.c.         *)
(***************************************************************************)
EXTENDS Integers, Sequences

CONSTANTS
  BlkSize,     \* results[0].size, the bytes of each algorithm
  Seed,        \* values of seed1 (seed2 is the same)
  FindNum,     \* values of seed3
  Iterations

VARIABLES
  seed, findNum, nxt, info, data, free, home, res, pc, calls, list, i,
  rev, bench, sort, before, original,          \* CoreList
  A, B, C, mseed, order, mphase, val, sums, acc, mcrc, A0,                 \* CoreMatrix
  seed1, seed2, mem, sphase, total, sseed, p, step, scrc, final, track, blank, scalls,   \* CoreState
  kernel                                                  \* the benchmark calc_func waits for

L == INSTANCE CoreList WITH Result <- {}
M == INSTANCE CoreMatrix WITH phase <- mphase, seed <- mseed, crc <- mcrc, Seeds <- Seed, Vals <- 0 .. 255
S == INSTANCE CoreState WITH phase <- sphase, seed <- sseed, crc <- scrc, calls <- scalls,
       Other <- {}, Steps <- 34 .. 255, MaxCalls <- 0

list_vars == <<seed, findNum, nxt, info, data, free, home, res, pc, calls, list, i,
  rev, bench, sort, before, original>>
matrix_vars == <<A, B, C, mseed, order, mphase, val, sums, acc, mcrc, A0>>
state_vars == <<seed1, seed2, mem, sphase, total, sseed, p, step, scrc, final, track, blank, scalls>>
vars == <<list_vars, matrix_vars, state_vars, kernel>>

Init ==
  /\ L!Init /\ S!Init /\ seed1 = seed
  /\ M!Init /\ mseed = IF seed = 0 THEN 1 ELSE seed
  /\ kernel = "none"

(* main initialises the three blocks one after the other, then runs iterate.     *)
InitMatrix == pc = "bench" /\ mphase = "init" /\ M!Run /\ UNCHANGED <<list_vars, state_vars, kernel>>
InitState ==
  /\ pc = "bench" /\ mphase # "init" /\ sphase = "init"
  /\ S!Run /\ UNCHANGED <<list_vars, matrix_vars, kernel>>

(* The data of the item calc_func is called with: operation and its parameter.   *)
Low == data[L!NextEvaluated].low
Flag == Low % 8
Bug_dtype == ((Low \div 8) % 16) * 16
dtype == ((Low \div 8) % 16) * 17
Period == IF dtype < 34 THEN 34 ELSE dtype     \* "set min period for bit corruption"

ListStep == (pc = "bench" => sphase # "init") /\ L!ListStep /\ UNCHANGED <<matrix_vars, state_vars, kernel>>

CallState ==
  /\ L!NeedsValue /\ kernel = "none" /\ Flag = 0
  /\ S!Call(Period, res.crc) /\ kernel' = "state"
  /\ UNCHANGED <<list_vars, matrix_vars>>

CallMatrix ==
  /\ L!NeedsValue /\ kernel = "none" /\ Flag = 1
  /\ M!Call(dtype, res.crc) /\ kernel' = "matrix"
  /\ UNCHANGED <<list_vars, state_vars>>

RunState == kernel = "state" /\ S!Run /\ UNCHANGED <<list_vars, matrix_vars, kernel>>
RunMatrix == kernel = "matrix" /\ M!Run /\ UNCHANGED <<list_vars, state_vars, kernel>>

Result(retval) == L!Evaluate(retval) /\ UNCHANGED <<original, matrix_vars, state_vars>> /\ kernel' = "none"
Return ==
  \/ kernel = "state" /\ sphase = "idle" /\ Result(scrc)
  \/ kernel = "matrix" /\ mphase = "idle" /\ Result(mcrc)
  \/ kernel = "none" /\ L!NeedsValue /\ Flag > 1 /\ Result(L!Data16(L!NextEvaluated))

Next == InitMatrix \/ InitState \/ ListStep \/ CallState \/ CallMatrix \/ RunState \/ RunMatrix \/ Return
Spec == Init /\ [][Next]_vars

-----------------------------------------------------------------------------
(* The inputs main recognises by their crc, and what it expects for them.        *)
seedcrc ==
  L!crc16(BlkSize, L!crc16(findNum, L!crc16(seed, L!crc16(seed, 0))))
known_crc(crc) ==      \* list, matrix, state
  CASE crc = 35330 -> <<54448, 48722, 24135>>      \* 8a02: d4b0 be52 5e47
    [] crc = 31493 -> <<13120,  4505, 14783>>      \* 7b05: 3340 1199 39bf
    [] crc = 20143 -> <<27257, 22024, 58788>>      \* 4eaf: 6a79 5608 e5a4
    [] crc = 59893 -> <<59156,  8151, 36410>>      \* e9f5: e714 1fd7 8e3a
    [] crc =  6386 -> <<58305,  1863, 36228>>      \* 18f2: e3c1 0747 8d84
    [] OTHER -> <<>>

(* What the benchmark computes for the inputs main recognises is what main       *)
(* expects, so that a correct processor is not reported as wrong.               *)
KnownValues == pc = "done" => <<res.crclist, res.crcmatrix, res.crcstate>> = known_crc(seedcrc)
=============================================================================
