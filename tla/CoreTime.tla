------------------------------- MODULE CoreTime -------------------------------
(***************************************************************************)
(* How the host ports of CoreMark measure a run: with the processor's clock()       *)
(* (simple/core_portme.c) or with the time of day in seconds and nanoseconds,       *)
(* of which the difference is taken part by part (linux64/core_portme.c; the linux   *)
(* and cygwin ports hold the same text). Other programs run in between.              *)
(***************************************************************************)
EXTENDS Integers

CONSTANTS
  Clocks,              \* of "clock", "timespec"
  NSECS_PER_SEC,       \* units of the finer part of a timespec (10^9)
  TIMER_RES_DIVIDER,   \* of them in a tick (10^6)
  Longest,             \* units a measurement may take
  Measurements         \* the calibration measures as often as it needs

VARIABLES
  clock,               \* the clock that the port reads
  tv_sec, tv_nsec,     \* the time of day
  cpu,                 \* the time this program has run
  pc, left,            \* place in a measurement; measurements to come
  start_time_val, stop_time_val,
  real, used,          \* time that passed, and that the program ran, in the measurement
  elapsed              \* what get_time returned

vars == <<clock, tv_sec, tv_nsec, cpu, pc, left, start_time_val, stop_time_val, real, used, elapsed>>

Reading(c, sec, nsec, run) ==
  IF c = "clock" THEN [tv_sec |-> 0, tv_nsec |-> run] ELSE [tv_sec |-> sec, tv_nsec |-> nsec]
GETMYTIME == Reading(clock, tv_sec, tv_nsec, cpu)

(* C's division cuts towards zero.                                              *)
Cut(n, d) == IF n >= 0 THEN n \div d ELSE -((-n) \div d)

MYTIMEDIFF(fin, ini) ==
  IF clock = "clock" THEN fin.tv_nsec - ini.tv_nsec
  ELSE (fin.tv_sec - ini.tv_sec) * (NSECS_PER_SEC \div TIMER_RES_DIVIDER)
         + Cut(fin.tv_nsec - ini.tv_nsec, TIMER_RES_DIVIDER)

Init ==
  /\ clock \in Clocks /\ tv_sec = 0 /\ tv_nsec \in 0 .. NSECS_PER_SEC - 1 /\ cpu = 0
  /\ pc = "idle" /\ left = Measurements
  /\ start_time_val = [tv_sec |-> 0, tv_nsec |-> 0] /\ stop_time_val = start_time_val
  /\ real = 0 /\ used = 0 /\ elapsed = 0

(* A unit of time passes, in this program or in another.                          *)
Advance ==
  /\ pc = "run" /\ real < Longest
  /\ tv_nsec' = (tv_nsec + 1) % NSECS_PER_SEC
  /\ tv_sec' = IF tv_nsec' = 0 THEN tv_sec + 1 ELSE tv_sec
  /\ real' = real + 1
Running ==
  /\ Advance /\ cpu' = cpu + 1 /\ used' = used + 1
  /\ UNCHANGED <<clock, pc, left, start_time_val, stop_time_val, elapsed>>
Preempted ==
  /\ Advance
  /\ UNCHANGED <<clock, cpu, pc, left, start_time_val, stop_time_val, used, elapsed>>

start_time ==
  /\ pc = "idle" /\ left > 0 /\ left' = left - 1
  /\ start_time_val' = GETMYTIME /\ real' = 0 /\ used' = 0 /\ pc' = "run"
  /\ UNCHANGED <<clock, tv_sec, tv_nsec, cpu, stop_time_val, elapsed>>
stop_time ==
  /\ pc = "run" /\ stop_time_val' = GETMYTIME /\ pc' = "stopped"
  /\ UNCHANGED <<clock, tv_sec, tv_nsec, cpu, left, start_time_val, real, used, elapsed>>
get_time ==
  /\ pc = "stopped" /\ elapsed' = MYTIMEDIFF(stop_time_val, start_time_val) /\ pc' = "idle"
  /\ UNCHANGED <<clock, tv_sec, tv_nsec, cpu, left, start_time_val, stop_time_val, real, used>>

Next == Running \/ Preempted \/ start_time \/ stop_time \/ get_time
Spec == Init /\ [][Next]_vars

-----------------------------------------------------------------------------
(* Every measurement is off by less than one tick, whatever the parts of the two         *)
(* readings are: the finer part of the second may be the smaller one, and the cut of     *)
(* its negative difference goes the other way. clock() measures the program alone.       *)
WithinATick ==
  pc = "idle" /\ left < Measurements =>
    IF clock = "clock" THEN elapsed = used
    ELSE LET off == elapsed * TIMER_RES_DIVIDER - real
         IN -TIMER_RES_DIVIDER < off /\ off < TIMER_RES_DIVIDER
=============================================================================
