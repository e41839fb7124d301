---------------------------- MODULE ArxPeripherals ----------------------------
(***************************************************************************)
(* The peripherals of the board (Peripherals.sv, Timer.sv): a register that drives    *)
(* the lamps and a free running timer, one clock cycle per step, under the program    *)
(* that tests them (sample_apps/main.c): it writes a word, reads it back byte by      *)
(* byte, and shows the bytes with delays between them. A request is answered in the   *)
(* next cycle (RamPort.sv).                                                        *)
(***************************************************************************)
EXTENDS Integers, Sequences

CONSTANTS
  PRESCALE,        \* cycles per tick (50)
  WRAP,            \* values of the timer (2^32)
  Start,           \* values of the timer when the program starts
  Long, Short,     \* ticks of delay(1000) and delay(500)
  MaxGap           \* cycles the program may spend between two accesses

VARIABLES
  cnt_50, cnt,     \* the timer
  out_1,           \* the output register: four bytes, the lowest first
  q,               \* the registered answer
  pc,              \* the next operation of the program
  pending,         \* what the program does with the answer, or "none"
  start,           \* delay: the first reading
  v,               \* the bytes read back
  gap,
  since            \* ticks since the first reading, not wrapped, up to twice WRAP

vars == <<cnt_50, cnt, out_1, q, pc, pending, start, v, gap, since>>

Write(word) == [op |-> "write", word |-> word, n |-> 0]
Show(i) == [op |-> "show", word |-> <<>>, n |-> i]
Load(i) == [op |-> "load", word |-> <<>>, n |-> i]
Delay(n) == [op |-> "delay", word |-> <<>>, n |-> n]
On == Write(<<255, 0, 0, 0>>)

t_llb_diff ==
  << Write(<<0, 1, 2, 3>>), Load(0), Load(1), Load(2), Load(3),
     On, Delay(Long), Show(0), Delay(Long),
     On, Delay(Short), Show(1), Delay(Long),
     On, Delay(Short), Show(2), Delay(Long),
     On, Delay(Short), Show(3), Delay(Long) >>

Running == pc <= Len(t_llb_diff)
Op == t_llb_diff[pc]

Init ==
  /\ cnt_50 = 0 /\ cnt \in Start /\ out_1 = <<0, 0, 0, 0>> /\ q = 0
  /\ pc = 1 /\ pending = "none" /\ start = 0 /\ v = <<0, 0, 0, 0>> /\ gap = 0 /\ since = 0

-----------------------------------------------------------------------------
(* At every edge the timer advances: one tick every PRESCALE cycles, for ever.        *)
Overflow == cnt_50 = PRESCALE - 1
Counted == (cnt + 1) % WRAP
Timer ==
  /\ cnt_50' = IF Overflow THEN 0 ELSE cnt_50 + 1
  /\ cnt' = IF Overflow THEN Counted ELSE cnt

Tick == IF Overflow THEN 1 ELSE 0
Since == IF since < 2 * WRAP THEN since + Tick ELSE since

(* The core's other instructions: a cycle without an access.                         *)
Idle ==
  /\ Running /\ pending = "none" /\ gap < MaxGap /\ gap' = gap + 1
  /\ Timer /\ since' = Since
  /\ UNCHANGED <<out_1, q, pc, pending, start, v>>

WriteOut(word) == out_1' = word /\ pc' = pc + 1 /\ UNCHANGED <<q, pending, start>>
Store ==
  /\ Running /\ pending = "none" /\ gap' = 0
  /\ \/ Op.op = "write" /\ WriteOut(Op.word)
     \/ Op.op = "show" /\ WriteOut(<<v[Op.n + 1], 0, 0, 0>>)
  /\ Timer /\ since' = Since
  /\ UNCHANGED v

(* A byte is taken out of the word by the load/store unit.                            *)
ByteOf(word, i) == word[i + 1]
LoadByte ==
  /\ Running /\ pending = "none" /\ Op.op = "load" /\ gap' = 0
  /\ q' = ByteOf(out_1, Op.n) /\ pending' = "byte"
  /\ Timer /\ since' = Since
  /\ UNCHANGED <<out_1, pc, start, v>>

ReadTimer(first) ==
  /\ Running /\ pending = (IF first THEN "none" ELSE "poll") /\ Op.op = "delay"
  /\ q' = cnt /\ gap' = 0
  /\ Timer

(* delay: the first reading of the timer, then one reading per turn of its loop.       *)
First ==
  /\ ReadTimer(TRUE) /\ pending' = "start" /\ since' = Tick
  /\ UNCHANGED <<out_1, pc, start, v>>
Poll ==
  /\ ReadTimer(FALSE) /\ pending' = "now" /\ since' = Since
  /\ UNCHANGED <<out_1, pc, start, v>>
PollGap ==
  /\ pending = "poll" /\ gap < MaxGap /\ gap' = gap + 1
  /\ Timer /\ since' = Since
  /\ UNCHANGED <<out_1, q, pc, pending, start, v>>

Bug_Elapsed(now) == now - start
Elapsed(now) == (now - start) % WRAP

(* The answer of the last cycle arrives.                                             *)
Answer ==
  /\ \/ /\ pending = "byte" /\ v' = [v EXCEPT ![Op.n + 1] = q]
        /\ pc' = pc + 1 /\ pending' = "none" /\ UNCHANGED start
     \/ pending = "start" /\ start' = q /\ pending' = "poll" /\ UNCHANGED <<pc, v>>
     \/ /\ pending = "now"
        /\ IF Elapsed(q) < Op.n THEN pending' = "poll" /\ pc' = pc
           ELSE pending' = "none" /\ pc' = pc + 1
        /\ UNCHANGED <<start, v>>
  /\ gap' = 0 /\ Timer /\ since' = Since
  /\ UNCHANGED <<out_1, q>>

(* main has returned; the timer runs on.                                            *)
Returned ==
  /\ ~ Running /\ Timer
  /\ since' = 0 /\ UNCHANGED <<out_1, q, pc, pending, start, v, gap>>

Next == Idle \/ Store \/ LoadByte \/ First \/ Poll \/ PollGap \/ Answer \/ Returned
Spec == Init /\ [][Next]_vars /\ WF_vars(Next)

-----------------------------------------------------------------------------
(* A delay lasts at least its ticks, wherever the timer stands and wraps, and at most    *)
(* one turn of its loop longer.                                                    *)
DelayEnds == pending = "now" /\ pc' = pc + 1
Turn == (MaxGap + 3) \div PRESCALE + 1
DelayRight == [][DelayEnds => since >= Op.n /\ since <= Op.n + Turn]_vars

(* The program shows what it wrote: the bytes read back are 0, 1, 2 and 3.            *)
BytesShown == Running /\ Op.op = "show" => v[Op.n + 1] = Op.n

(* The program ends: no delay hangs because the timer wrapped before it was over.      *)
Terminates == <>(~ Running)
=============================================================================
