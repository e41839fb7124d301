-------------------------------- MODULE MCMain --------------------------------
(***************************************************************************)
(* main of CoreMark on the board, and what the host ports put in place of two    *)
(* of its parts: their clocks and their parallel contexts. A behaviour is one of  *)
(* main, of a clock or of the contexts while the others wait where they begin.    *)
(***************************************************************************)
EXTENDS CoreParallel

CONSTANTS
  MainContexts,                                                        \* MULTITHREAD of CoreMain
  Totals, Given, Execs, Iterations, Cost, Overhead, Phase, WrongTypes, BitFaults,
  Clocks, NSECS_PER_SEC, TIMER_RES_DIVIDER, Longest, Measurements      \* of CoreTime

VARIABLES
  part,
  mpc, given, seeds, execs, iterations, asked, mem, size, block, initialised, cost, secs_passed, ticks,
  real, crcs, seedcrc, known_id, total_errors, message, led,
  clock, tv_sec, tv_nsec, cpu, tpc, left, start_time_val, stop_time_val, treal, used, elapsed

main_vars == <<mpc, given, seeds, execs, iterations, asked, mem, size, block, initialised, cost,
               secs_passed, ticks, real, crcs, seedcrc, known_id, total_errors, message, led>>
time_vars == <<clock, tv_sec, tv_nsec, cpu, tpc, left, start_time_val, stop_time_val, treal, used, elapsed>>
allvars == <<part, main_vars, time_vars, vars>>

M == INSTANCE CoreMain WITH MULTITHREAD <- MainContexts, pc <- mpc
T == INSTANCE CoreTime WITH pc <- tpc, real <- treal

(* What the constants are in any build: numbers of contexts, bytes, iterations and   *)
(* ticks, and the timer below its width.                                           *)
ASSUME HostAssumption ==
  /\ MainContexts \in Nat /\ Measurements \in Nat
  /\ Totals \subseteq Nat /\ Iterations \subseteq Nat /\ Cost \subseteq Nat /\ Overhead \subseteq Nat
  /\ Phase \subseteq 0 .. M!WRAP - 1
  /\ Given \subseteq DOMAIN M!SeedsOf /\ WrongTypes \subseteq M!Types
  /\ NSECS_PER_SEC \in Nat /\ TIMER_RES_DIVIDER \in Nat \ {0}
  /\ NSECS_PER_SEC % TIMER_RES_DIVIDER = 0
  /\ "fork" \in Methods /\ FALSE \in Calibrates /\ {} \in FaultSets

HostInit ==
  /\ part \in {"main", "time", "parallel"}
  /\ M!Init
  /\ part # "main" =>
       /\ given = (CHOOSE g \in Given : TRUE) /\ execs = (CHOOSE e \in Execs : TRUE)
       /\ asked = (CHOOSE n \in Iterations : TRUE) /\ mem = (CHOOSE n \in Totals : TRUE)
       /\ cost = (CHOOSE n \in Cost : TRUE)
  /\ T!Init
  /\ part # "time" => tv_nsec = 0 /\ clock = (CHOOSE c \in Clocks : TRUE)
  /\ Init
  /\ part # "parallel" => method = "fork" /\ ~auto /\ faults = {} /\ contexts = 1

MainStep == part = "main" /\ M!Next /\ UNCHANGED <<part, time_vars, vars>>
TimeStep == part = "time" /\ T!Next /\ UNCHANGED <<part, main_vars, vars>>
Parallel(A) == part = "parallel" /\ A /\ UNCHANGED <<part, main_vars, time_vars>>
HostNext == MainStep \/ TimeStep \/ Parallel(Next)

(* The system schedules main and every child that can run (CoreParallel).         *)
HostSpec ==
  /\ HostInit /\ [][HostNext]_allvars
  /\ WF_allvars(MainStep) /\ WF_allvars(Parallel(Main))
  /\ \A c \in Ctx : WF_allvars(Parallel(Child(c)))

-----------------------------------------------------------------------------
(* No kernel of any context writes outside its part of the memory.                *)
SafeMemory == M!SafeMemory

(* The time that is reported is the time that passed: on the board wherever the     *)
(* timer stood, on a host within a tick.                                         *)
TimesRight == M!TimeRight /\ T!WithinATick

(* The number of iterations main chooses takes at least ten seconds, and not much   *)
(* more.                                                                         *)
AutoDuration == M!AutoDuration

(* What is printed at the end says what happened.                                *)
VerdictRight == M!VerdictRight

(* Every run of main ends with a verdict, and gathering the contexts ends.          *)
RunsEnd == (part = "main" ~> led = 2 /\ message # "none") /\ (part = "parallel" => Finishes)

-----------------------------------------------------------------------------
(* What theorems about every build take as a hypothesis (MCMainProofs), and the       *)
(* instances that are run satisfy. A measurement takes at most ten ticks besides the  *)
(* iterations.                                                                   *)
OverheadSmall == Overhead \subseteq 0 .. 10

(* Where the matrices do not start on a multiple of four, the bytes their size leaves *)
(* free make up for it: so it is of the sizes main is built with (2000, 1200, 666),    *)
(* but not of every number.                                                       *)
RoomToAlign ==
  \A t \in Totals : t >= 3 /\ \A j \in 2 .. 3 :
    LET n == t \div j IN n % 4 = 0 \/ \A m \in 0 .. n : 8 * (m * m) \notin {n - 1, n - 2}

(* No inputs the port may hold have the CRC of other, known ones.                  *)
NoCollision ==
  \A g \in Given, t \in Totals, j \in 1 .. 3 :
    LET s == M!Defaults(M!SeedsOf[g])
        crc == M!SeedCrc(s, t \div j)
    IN  crc \in DOMAIN M!Recognised => M!Recognised[crc].input = M!Input(s, t \div j)

ASSUME BuildAssumption == OverheadSmall /\ RoomToAlign /\ NoCollision
=============================================================================
