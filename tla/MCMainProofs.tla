---------------------------- MODULE MCMainProofs ----------------------------
(***************************************************************************)
(* Theorems about main of CoreMark, the clocks of the host ports and the     *)
(* parallel contexts, for every value of the constants: any number of         *)
(* contexts and of runs, any combination of faults, any size of memory, any   *)
(* duration, any position of the timer. Three of them need a property of the  *)
(* build, which they name (OverheadSmall, RoomToAlign, NoCollision of MCMain). *)
(***************************************************************************)
EXTENDS MCMain, FiniteSetTheorems, WellFoundedInduction, TLAPS

(***************************************************************************)
(* The parallel contexts.                                                    *)
(***************************************************************************)
(* The loops of core_start_parallel and core_stop_parallel.                  *)
LoopInv ==
  /\ contexts \in 1 .. MULTITHREAD /\ i \in 0 .. contexts /\ run \in Nat \ {0}
  /\ pc \in {"start", "open", "stop", "copy", "wait", "report"}
  /\ pc \in {"open", "copy", "wait"} => i < contexts
  /\ pc = "copy" => method = "fork"
  /\ pc = "wait" => method = "socket"
  /\ pc = "report" => i = contexts

(* What main may find in the place of a context: nothing it takes for a      *)
(* result, what an earlier computation of this very context left, or what    *)
(* this context computed in this run.                                        *)
Mine(c, v) == v = Answer(c) /\ own[c] = Answer(c)
Traced(c, v) ==
  \/ v \in {Garbage, Zero, None}
  \/ auto /\ c = 0 /\ v = Calibrated
  \/ \E r \in 1 .. run - 1 : v = <<"answer", c, r>>
  \/ Mine(c, v)

(* Every place results pass through holds what belongs to its context.       *)
PlacesInv ==
  /\ child \in [Ctx -> {"none", "running", "failed", "exited", "stopped", "reaped", "reported"}]
  /\ DOMAIN own = Ctx /\ \A c \in Ctx : own[c] \in {None, Answer(c)}
  /\ DOMAIN results = Ctx /\ \A c \in Ctx : Traced(c, results[c])
  /\ DOMAIN shm = Ctx /\ \A c \in Ctx : Traced(c, shm[c])
  /\ DOMAIN mail = Ctx /\ \A c \in Ctx : mail[c] = None \/ Mine(c, mail[c])

(* Where nothing fails a child that is gone has left its results where main  *)
(* takes them, main waits for each child once, and has the results of those  *)
(* it is done with.                                                          *)
Done(c)   == child[c] \in {"exited", "reaped"}
Past(c)   == pc \in {"stop", "copy", "wait", "report"} /\ c < i
Over(c) == Past(c) \/ (pc = "copy" /\ c = i)
FaultFree(c) ==
  /\ child[c] \in {"none", "running", "exited", "reaped"}
  /\ method = "fork" /\ child[c] = "reaped" => Over(c)
  /\ pc = "copy" /\ c = i => child[c] = "reaped"
  /\ method = "fork" /\ Done(c) => Mine(c, shm[c])
  /\ method = "pthread" /\ Done(c) => Mine(c, results[c])
  /\ Past(c) => Mine(c, results[c])
  /\ pc = "wait" /\ c = i => Mine(c, results[c])
FaultFreeInv == faults = {} => \A c \in Ctx : FaultFree(c)

ParallelInv == LoopInv /\ PlacesInv /\ FaultFreeInv

-----------------------------------------------------------------------------
LEMMA AnswerNotNone ==
  ASSUME NEW c \in Ctx
  PROVE  Answer(c) # None
BY DEF Answer, None

LEMMA InContext ==
  ASSUME LoopInv, i < contexts
  PROVE  i \in Ctx /\ i + 1 \in 0 .. contexts
BY ContextsAssumption DEF LoopInv, Ctx

LEMMA ParallelInvInit ==
  ASSUME Init
  PROVE  ParallelInv
<1>1. LoopInv
  BY ContextsAssumption DEF Init, LoopInv
<1>2. PlacesInv
  BY DEF Init, PlacesInv, Traced, Fresh
<1>3. FaultFreeInv
  BY DEF Init, FaultFreeInv, FaultFree, Done, Past, Over
<1>. QED  BY <1>1, <1>2, <1>3 DEF ParallelInv

LEMMA LoopStep ==
  ASSUME LoopInv, [Next]_vars
  PROVE  LoopInv'
<1>. USE ContextsAssumption DEF LoopInv
<1>1. CASE Launch
  BY <1>1 DEF Launch
<1>2. CASE Open
  BY <1>2 DEF Open
<1>3. CASE AllStarted
  BY <1>3 DEF AllStarted
<1>4. CASE Join
  BY <1>4 DEF Join, NextStop
<1>5. CASE WaitChild
  BY <1>5 DEF WaitChild, NextStop
<1>6. CASE WaitAny
  BY <1>6 DEF WaitAny, NextStop
<1>7. CASE Copy
  BY <1>7 DEF Copy, NextStop
<1>8. CASE Receive
  BY <1>8 DEF Receive
<1>9. CASE WaitSender
  BY <1>9 DEF WaitSender, NextStop
<1>10. CASE AllStopped
  BY <1>10 DEF AllStopped
<1>11. CASE Again
  BY <1>11 DEF Again
<1>12. ASSUME NEW c \in Ctx, Child(c) \/ Stopped(c)
       PROVE  LoopInv'
  BY <1>12 DEF Child, Iterate, Deposit, Send, Stopped
<1>13. CASE UNCHANGED vars
  BY <1>13 DEF vars
<1>. QED  BY <1>1, <1>2, <1>3, <1>4, <1>5, <1>6, <1>7, <1>8, <1>9, <1>10, <1>11, <1>12, <1>13
          DEF Next, Main

(* What was traced stays so while the run and the results of the children    *)
(* stay, and when a child has computed its result.                           *)
LEMMA TracedKept ==
  ASSUME NEW c \in Ctx, NEW v, Traced(c, v), run' = run, auto' = auto,
         own'[c] = own[c] \/ own'[c] = Answer(c)
  PROVE  Traced(c, v)'
BY DEF Traced, Mine, Answer, Garbage, Zero, None, Calibrated

LEMMA PlacesStep ==
  ASSUME LoopInv, PlacesInv, [Next]_vars
  PROVE  PlacesInv'
<1>1. ASSUME UNCHANGED <<auto, run, own, results, shm, mail>>,
             child' \in [Ctx -> {"none", "running", "failed", "exited", "stopped", "reaped", "reported"}]
      PROVE  PlacesInv'
  BY <1>1 DEF PlacesInv, Traced, Mine, Answer
<1>2. ASSUME NEW c \in Ctx
      PROVE  Waited(c) \in [Ctx -> {"none", "running", "failed", "exited", "stopped", "reaped", "reported"}]
  BY DEF PlacesInv, Waited
<1>3. CASE Launch
  <2>1. i \in Ctx
    BY <1>3, InContext DEF Launch
  <2>. QED  BY <1>1, <1>3, <2>1 DEF Launch, PlacesInv
<1>4. CASE Open
  <2>1. \A c \in Ctx : Traced(c, Attached(Key(i))[c])
    BY DEF PlacesInv, Attached, Key, Traced
  <2>2. DOMAIN Attached(Key(i)) = Ctx
    BY DEF PlacesInv, Attached
  <2>. QED  BY <1>4, <2>1, <2>2 DEF Open, PlacesInv, Traced, Mine, Answer
<1>5. CASE AllStarted \/ AllStopped
  BY <1>1, <1>5 DEF AllStarted, AllStopped, PlacesInv
<1>6. CASE Join
  BY <1>1, <1>2, <1>6 DEF Join
<1>7. CASE WaitChild
  BY <1>1, <1>2, <1>7 DEF WaitChild, PlacesInv
<1>8. CASE WaitAny
  BY <1>1, <1>2, <1>8 DEF WaitAny, PlacesInv
<1>9. CASE WaitSender
  <2>1. i \in Ctx
    BY <1>9, InContext DEF WaitSender, LoopInv
  <2>. QED  BY <1>1, <1>2, <1>9, <2>1 DEF WaitSender
<1>10. CASE Copy
  <2>1. i \in Ctx
    BY <1>10, InContext DEF Copy, LoopInv
  <2>. QED  BY <1>10, <2>1 DEF Copy, Key, PlacesInv, Traced, Mine, Answer
<1>11. CASE Receive
  <2>1. i \in Ctx
    BY <1>11, InContext DEF Receive
  <2>2. Mine(i, mail[i])
    BY <1>11, <2>1 DEF Receive, Key, PlacesInv
  <2>3. DOMAIN results' = Ctx /\ \A c \in Ctx : Traced(c, results'[c])
    BY <1>11, <2>1, <2>2 DEF Receive, Key, PlacesInv, Traced
  <2>. QED  BY <1>11, <2>1, <2>3 DEF Receive, Key, PlacesInv, Traced, Mine, Answer
<1>12. CASE Again
  BY <1>12 DEF Again, LoopInv, PlacesInv, Traced, Mine, Answer, Fresh
<1>13. ASSUME NEW c \in Ctx, Iterate(c)
       PROVE  PlacesInv'
  <2>1. own' = [own EXCEPT ![c] = Answer(c)] /\ run' = run /\ auto' = auto
    BY <1>13 DEF Iterate
  <2>2. \A x \in Ctx : own'[x] = own[x] \/ own'[x] = Answer(x)
    BY <2>1 DEF PlacesInv
  <2>3. Answer(c)' = Answer(c) /\ own'[c] = Answer(c)
    BY <2>1 DEF PlacesInv, Answer
  <2>4. Mine(c, Answer(c))'
    BY <2>3 DEF Mine
  <2>5. DOMAIN results' = Ctx /\ \A x \in Ctx : Traced(x, results[x])'
    <3>1. CASE results' = results
      BY <2>1, <2>2, <3>1, TracedKept DEF PlacesInv
    <3>2. CASE results' = [results EXCEPT ![c] = Answer(c)]
      <4>1. \A x \in Ctx \ {c} : results'[x] = results[x]
        BY <3>2 DEF PlacesInv
      <4>2. results'[c] = Answer(c)'
        BY <2>3, <3>2 DEF PlacesInv
      <4>. QED  BY <2>1, <2>2, <2>4, <3>2, <4>1, <4>2, TracedKept DEF PlacesInv, Traced, Mine
    <3>. QED  BY <1>13, <3>1, <3>2 DEF Iterate
  <2>6. /\ shm' = shm /\ \A x \in Ctx : Traced(x, shm[x])'
        /\ mail' = mail /\ \A x \in Ctx : mail'[x] = None \/ Mine(x, mail[x])'
    BY <1>13, <2>1, <2>2, TracedKept DEF Iterate, PlacesInv, Mine, Answer
  <2>7. child' \in [Ctx -> {"none", "running", "failed", "exited", "stopped", "reaped", "reported"}]
    BY <1>13 DEF Iterate, PlacesInv
  <2>8. DOMAIN own' = Ctx /\ \A x \in Ctx : own'[x] \in {None, Answer(x)'}
    BY <2>1, <2>2 DEF PlacesInv, Answer
  <2>. QED  BY <2>5, <2>6, <2>7, <2>8, Zenon DEF PlacesInv, None
<1>14. ASSUME NEW c \in Ctx, Deposit(c)
       PROVE  PlacesInv'
  <2>1. Mine(c, own[c])
    BY <1>14 DEF Deposit, PlacesInv, Mine
  <2>2. DOMAIN shm' = Ctx /\ \A x \in Ctx : Traced(x, shm'[x])
    <3>1. CASE shm' = [shm EXCEPT ![Key(c)] = own[c]]
      BY <2>1, <3>1 DEF Key, PlacesInv, Traced
    <3>2. CASE shm' = Attached(Key(c))
      BY <3>2 DEF Attached, Key, PlacesInv, Traced
    <3>. QED  BY <1>14, <3>1, <3>2 DEF Deposit
  <2>. QED  BY <1>14, <2>2 DEF Deposit, PlacesInv, Traced, Mine, Answer
<1>15. ASSUME NEW c \in Ctx, Send(c)
       PROVE  PlacesInv'
  <2>1. Mine(c, own[c])
    BY <1>15 DEF Send, PlacesInv, Mine
  <2>2. DOMAIN mail' = Ctx /\ \A x \in Ctx : mail'[x] = None \/ Mine(x, mail'[x])
    BY <1>15, <2>1 DEF Send, Key, PlacesInv
  <2>. QED  BY <1>15, <2>2 DEF Send, PlacesInv, Traced, Mine, Answer
<1>16. ASSUME NEW c \in Ctx, Stopped(c)
       PROVE  PlacesInv'
  BY <1>1, <1>16 DEF Stopped, PlacesInv
<1>17. CASE UNCHANGED vars
  BY <1>1, <1>17 DEF vars, PlacesInv
<1>. QED  BY <1>3, <1>4, <1>5, <1>6, <1>7, <1>8, <1>9, <1>10, <1>11, <1>12, <1>13, <1>14, <1>15, <1>16,
             <1>17
          DEF Next, Main, Child

(* Where nothing fails.                                                      *)
LEMMA FaultFreeStep ==
  ASSUME ParallelInv, [Next]_vars
  PROVE  FaultFreeInv'
<1>. SUFFICES ASSUME faults = {}, NEW c \in Ctx
              PROVE  FaultFree(c)'
  <2>1. faults' = faults
    BY DEF Next, Main, Launch, Open, AllStarted, Join, WaitChild, WaitAny, Copy, Receive, WaitSender,
           AllStopped, Again, Child, Iterate, Deposit, Send, Stopped, vars
  <2>. QED  BY <2>1, Zenon DEF FaultFreeInv
<1>0. LoopInv /\ PlacesInv /\ FaultFreeInv
  BY DEF ParallelInv
<1>. USE <1>0 DEF FaultFreeInv, FaultFree, Done, Past, Over, Mine
<1>1. CASE Launch
  <2>1. i \in Ctx
    BY <1>1, InContext DEF Launch
  <2>2. child' = [child EXCEPT ![i] = "running"]
    BY <1>1 DEF Launch
  <2>. QED  BY <1>1, <2>1, <2>2 DEF Launch, PlacesInv, Answer
<1>2. CASE Open
  <2>1. i \in Ctx
    BY <1>2, InContext DEF Open, LoopInv
  <2>2. method = "fork" /\ shm[c] = Answer(c) => Attached(Key(i))[c] = Answer(c)
    BY AnswerNotNone DEF Attached, Key, PlacesInv
  <2>. QED  BY <1>2, <2>1, <2>2 DEF Open, PlacesInv, Answer
<1>3. CASE AllStarted
  BY <1>3 DEF AllStarted, Answer, LoopInv, Ctx
<1>4. CASE Join
  <2>1. i \in Ctx /\ child[i] = "exited" /\ child' = Waited(i) /\ i' = i + 1 /\ pc' = "stop"
    BY <1>4, InContext DEF Join, Awaited, NextStop
  <2>2. Mine(i, results[i])
    BY <1>4, <2>1 DEF Join
  <2>. QED  BY <1>4, <2>1, <2>2 DEF Join, Waited, PlacesInv, Answer, LoopInv, Ctx
<1>5. CASE WaitChild
  <2>1. i \in Ctx /\ pc = "stop"
    BY <1>5, InContext DEF WaitChild
  <2>2. child[i] = "exited" /\ child' = Waited(i) /\ pc' = "copy" /\ i' = i
    BY <1>5, <2>1 DEF WaitChild, Awaited, LoopInv, Ctx
  <2>. QED  BY <1>5, <2>1, <2>2 DEF WaitChild, Waited, PlacesInv, Answer, LoopInv, Ctx
<1>6. CASE WaitAny
  <2>1. i \in Ctx /\ child[i] = "failed"
    BY <1>6, InContext DEF WaitAny
  <2>. QED  BY <2>1
<1>7. CASE Copy
  <2>1. i \in Ctx /\ method = "fork"
    BY <1>7, InContext DEF Copy, LoopInv
  <2>2. results' = [results EXCEPT ![i] = shm[i]] /\ i' = i + 1 /\ pc' = "stop"
    BY <1>7 DEF Copy, NextStop, Key
  <2>3. Mine(i, shm[i])
    BY <1>7, <2>1 DEF Copy
  <2>. QED  BY <1>7, <2>1, <2>2, <2>3 DEF Copy, PlacesInv, Answer, LoopInv, Ctx
<1>8. CASE Receive
  <2>1. i \in Ctx
    BY <1>8, InContext DEF Receive
  <2>2. Mine(i, mail[i]) /\ results' = [results EXCEPT ![i] = mail[i]]
    BY <1>8, <2>1 DEF Receive, Key, PlacesInv
  <2>. QED  BY <1>8, <2>1, <2>2 DEF Receive, PlacesInv, Answer, LoopInv, Ctx
<1>9. CASE WaitSender
  <2>1. i \in Ctx /\ child[i] = "exited" /\ child' = Waited(i) /\ i' = i + 1 /\ pc' = "stop"
    BY <1>9, InContext DEF WaitSender, LoopInv, NextStop
  <2>. QED  BY <1>9, <2>1 DEF WaitSender, Waited, PlacesInv, Answer, LoopInv, Ctx
<1>10. CASE AllStopped
  BY <1>10 DEF AllStopped, Answer
<1>11. CASE Again
  BY <1>11 DEF Again, Answer, LoopInv, Ctx
<1>12. ASSUME NEW x \in Ctx, Iterate(x)
       PROVE  FaultFree(c)'
  <2>1. own' = [own EXCEPT ![x] = Answer(x)] /\ own[x] = None
    BY <1>12 DEF Iterate
  <2>2. own'[c] = own[c] \/ own'[c] = Answer(c)
    BY <2>1 DEF PlacesInv
  <2>3. CASE method = "pthread"
    <3>1. results' = [results EXCEPT ![x] = Answer(x)] /\ child' = [child EXCEPT ![x] = "exited"]
      BY <1>12, <2>3 DEF Iterate
    <3>2. CASE c = x
      BY <1>12, <2>1, <2>3, <3>1, <3>2 DEF Iterate, PlacesInv, Answer, LoopInv
    <3>3. CASE c # x
      BY <1>12, <2>1, <2>3, <3>1, <3>3 DEF Iterate, PlacesInv, Answer, LoopInv
    <3>. QED  BY <3>2, <3>3
  <2>4. CASE method # "pthread"
    BY <1>12, <2>2, <2>4 DEF Iterate, Answer
  <2>. QED  BY <2>3, <2>4
<1>13. ASSUME NEW x \in Ctx, Deposit(x)
       PROVE  FaultFree(c)'
  <2>1. Mine(x, own[x]) /\ shm' = [shm EXCEPT ![x] = own[x]] /\ child' = [child EXCEPT ![x] = "exited"]
    BY <1>13 DEF Deposit, Key, PlacesInv
  <2>. QED  BY <1>13, <2>1 DEF Deposit, PlacesInv, Answer, LoopInv
<1>14. ASSUME NEW x \in Ctx, Send(x)
       PROVE  FaultFree(c)'
  BY <1>14 DEF Send, PlacesInv, Answer, LoopInv
<1>15. ASSUME NEW x \in Ctx, Stopped(x)
       PROVE  FALSE
  BY <1>15 DEF Stopped
<1>16. CASE UNCHANGED vars
  BY <1>16 DEF vars, Answer
<1>. QED  BY <1>1, <1>2, <1>3, <1>4, <1>5, <1>6, <1>7, <1>8, <1>9, <1>10, <1>11, <1>12, <1>13, <1>14, <1>15,
             <1>16
          DEF Next, Main, Child

LEMMA ParallelInvariant ==
  Spec => []ParallelInv
<1>1. Init => ParallelInv
  BY ParallelInvInit
<1>2. ParallelInv /\ [Next]_vars => ParallelInv'
  BY LoopStep, PlacesStep, FaultFreeStep DEF ParallelInv
<1>. QED  BY <1>1, <1>2, PTL DEF Spec

(* When main reports, the results in the place of a context are those it     *)
(* computed in this run, whatever the method, the number of contexts and the *)
(* order in which they finish; where a call failed or a child was stopped,   *)
(* what stands there otherwise is refused or was left by an earlier          *)
(* computation of the same context.                                          *)
THEOREM ContextsGathered ==
  Spec => []NoFalseValid
<1>1. ParallelInv => NoFalseValid
  <2>. SUFFICES ASSUME ParallelInv, pc = "report", NEW c \in Used
                PROVE  Delivered(c) \/ (faults # {} /\ (Refused(c) \/ Left(c)))
    BY DEF NoFalseValid
  <2>1. c \in Ctx /\ c < i
    BY ContextsAssumption DEF ParallelInv, LoopInv, Used, Ctx
  <2>2. CASE faults = {}
    BY <2>1, <2>2 DEF ParallelInv, FaultFreeInv, FaultFree, Past, Mine, Delivered
  <2>3. CASE faults # {}
    BY <2>1, <2>3 DEF ParallelInv, PlacesInv, Traced, Mine, Delivered, Refused, Left
  <2>. QED  BY <2>2, <2>3
<1>. QED  BY <1>1, ParallelInvariant, PTL

(***************************************************************************)
(* The clocks of the host ports.                                             *)
(***************************************************************************)
(* The cut of C's division is by less than the divisor, whatever the sign.    *)
LEMMA DivParts ==
  ASSUME NEW n \in Nat, NEW d \in Nat \ {0}
  PROVE  n \div d \in Nat /\ (n \div d) * d <= n /\ n < (n \div d) * d + d
OBVIOUS

LEMMA CutClose ==
  ASSUME NEW n \in Int, NEW d \in Nat \ {0}
  PROVE  T!Cut(n, d) \in Int /\ T!Cut(n, d) * d - n < d /\ -d < T!Cut(n, d) * d - n
<1>1. CASE n >= 0
  <2>1. T!Cut(n, d) = n \div d
    BY <1>1 DEF T!Cut
  <2>. QED  BY <1>1, <2>1, DivParts
<1>2. CASE ~(n >= 0)
  <2>1. T!Cut(n, d) = -((-n) \div d) /\ -n \in Nat
    BY <1>2 DEF T!Cut
  <2>. DEFINE q == (-n) \div d
  <2>2. q \in Nat /\ q * d <= -n /\ -n < q * d + d
    BY <2>1, DivParts
  <2>. HIDE DEF q
  <2>3. (-q) * d = -(q * d) /\ q * d \in Int
    BY <2>2
  <2>. QED  BY <2>1, <2>2, <2>3 DEF q
<1>. QED  BY <1>1, <1>2

(* The time between two readings of the time of day.                          *)
Between(a, b) == (b.tv_sec - a.tv_sec) * NSECS_PER_SEC + (b.tv_nsec - a.tv_nsec)
Readings == [tv_sec : Nat, tv_nsec : Int]
Now == [tv_sec |-> tv_sec, tv_nsec |-> tv_nsec]

(* What a measurement has counted is what its clock has counted since.        *)
Counted(fin) ==
  IF clock = "clock" THEN fin.tv_nsec - start_time_val.tv_nsec = used
  ELSE Between(start_time_val, fin) = treal
ClockInv ==
  /\ NSECS_PER_SEC > 0 /\ left \in Int /\ left <= Measurements
  /\ tv_sec \in Nat /\ tv_nsec \in 0 .. NSECS_PER_SEC - 1 /\ cpu \in Nat
  /\ treal \in Nat /\ used \in Nat
  /\ tpc \in {"idle", "run", "stopped"}
  /\ start_time_val \in Readings /\ stop_time_val \in Readings
  /\ tpc = "run" => Counted(T!Reading(clock, tv_sec, tv_nsec, cpu))
  /\ tpc = "stopped" => Counted(stop_time_val)
  /\ T!WithinATick

LEMMA ClockInvInit ==
  ASSUME HostInit
  PROVE  ClockInv
<1>1. T!Init
  BY DEF HostInit
<1>. QED  BY <1>1, HostAssumption DEF T!Init, ClockInv, Readings, T!WithinATick

LEMMA SecondPassed ==
  ASSUME NEW s \in Nat, NEW n \in 0 .. NSECS_PER_SEC - 1, NEW a \in Nat, NEW b \in Int, NSECS_PER_SEC \in Nat,
         n + 1 = NSECS_PER_SEC
  PROVE  (s + 1 - a) * NSECS_PER_SEC + (0 - b) = (s - a) * NSECS_PER_SEC + (n - b) + 1
<1>1. (s + 1 - a) * NSECS_PER_SEC = (s - a) * NSECS_PER_SEC + NSECS_PER_SEC
  OBVIOUS
<1>2. (s - a) * NSECS_PER_SEC \in Int
  OBVIOUS
<1>. QED  BY <1>1, <1>2

LEMMA AdvanceCounts ==
  ASSUME ClockInv, T!Advance, clock' = clock, start_time_val' = start_time_val
  PROVE  /\ tv_sec' \in Nat /\ tv_nsec' \in 0 .. NSECS_PER_SEC - 1 /\ treal' \in Nat /\ treal' = treal + 1
         /\ Between(start_time_val, Now)' = Between(start_time_val, Now) + 1
<1>. USE HostAssumption
<1>1. CASE tv_nsec + 1 = NSECS_PER_SEC
  <2>1. tv_nsec' = 0 /\ tv_sec' = tv_sec + 1 /\ treal' = treal + 1
    BY <1>1 DEF ClockInv, T!Advance
  <2>2. start_time_val.tv_sec \in Nat /\ start_time_val.tv_nsec \in Int
    BY DEF ClockInv, Readings
  <2>3. Between(start_time_val, Now)' = Between(start_time_val, Now) + 1
    BY <1>1, <2>1, <2>2, SecondPassed DEF ClockInv, Between, Now
  <2>. QED  BY <2>1, <2>3 DEF ClockInv
<1>2. CASE tv_nsec + 1 # NSECS_PER_SEC
  <2>1. tv_nsec' = tv_nsec + 1 /\ tv_sec' = tv_sec /\ treal' = treal + 1 /\ tv_nsec' \in 0 .. NSECS_PER_SEC - 1
    BY <1>2 DEF ClockInv, T!Advance
  <2>2. start_time_val.tv_sec \in Nat /\ start_time_val.tv_nsec \in Int
    BY DEF ClockInv, Readings
  <2>3. (tv_sec - start_time_val.tv_sec) * NSECS_PER_SEC \in Int
    BY <2>2 DEF ClockInv
  <2>4. Between(start_time_val, Now)' = Between(start_time_val, Now) + 1
    BY <2>1, <2>2, <2>3 DEF ClockInv, Between, Now
  <2>. QED  BY <2>1, <2>4 DEF ClockInv
<1>. QED  BY <1>1, <1>2

(* The difference taken part by part is off by the cut of the finer part.     *)
LEMMA DifferenceClose ==
  ASSUME ClockInv, tpc = "stopped", clock # "clock"
  PROVE  LET off == T!MYTIMEDIFF(stop_time_val, start_time_val) * TIMER_RES_DIVIDER - treal
         IN  -TIMER_RES_DIVIDER < off /\ off < TIMER_RES_DIVIDER
<1>. DEFINE ds == stop_time_val.tv_sec - start_time_val.tv_sec
            dn == stop_time_val.tv_nsec - start_time_val.tv_nsec
            q == NSECS_PER_SEC \div TIMER_RES_DIVIDER
            cut == T!Cut(dn, TIMER_RES_DIVIDER)
            D == TIMER_RES_DIVIDER
<1>1. ds \in Int /\ dn \in Int
  BY DEF ClockInv, Readings
<1>2. q \in Nat /\ q * D = NSECS_PER_SEC /\ D \in Nat \ {0}
  BY HostAssumption
<1>3. cut \in Int /\ cut * D - dn < D /\ -D < cut * D - dn
  BY <1>1, <1>2, CutClose
<1>4. T!MYTIMEDIFF(stop_time_val, start_time_val) = ds * q + cut
  BY DEF T!MYTIMEDIFF
<1>5. treal = ds * NSECS_PER_SEC + dn
  BY DEF ClockInv, Counted, Between
<1>. HIDE DEF ds, dn, q, cut, D
<1>6. (ds * q + cut) * D = ds * (q * D) + cut * D
  BY <1>1, <1>2, <1>3
<1>7. ds * NSECS_PER_SEC \in Int /\ cut * D \in Int
  BY <1>1, <1>2, <1>3
<1>8. (ds * q + cut) * D - treal = cut * D - dn
  BY <1>1, <1>2, <1>5, <1>6, <1>7
<1>. QED  BY <1>3, <1>4, <1>8 DEF D

LEMMA ClockInvStep ==
  ASSUME ClockInv, [HostNext]_allvars
  PROVE  ClockInv'
<1>. USE HostAssumption
<1>0. start_time_val.tv_sec \in Nat /\ start_time_val.tv_nsec \in Int
  BY DEF ClockInv, Readings
<1>1. CASE T!Running
  <2>1. T!Advance /\ clock' = clock /\ start_time_val' = start_time_val /\ cpu' = cpu + 1 /\ used' = used + 1
    BY <1>1 DEF T!Running
  <2>2. tpc = "run" /\ tpc' = "run" /\ stop_time_val' = stop_time_val /\ left' = left
    BY <1>1 DEF T!Running, T!Advance
  <2>3. Counted(T!Reading(clock, tv_sec, tv_nsec, cpu))'
    BY <1>0, <2>1, <2>2, AdvanceCounts DEF ClockInv, Counted, T!Reading, Between, Now
  <2>. QED  BY <2>1, <2>2, <2>3, AdvanceCounts DEF ClockInv, T!WithinATick
<1>2. CASE T!Preempted
  <2>1. T!Advance /\ clock' = clock /\ start_time_val' = start_time_val /\ cpu' = cpu /\ used' = used
    BY <1>2 DEF T!Preempted
  <2>2. tpc = "run" /\ tpc' = "run" /\ stop_time_val' = stop_time_val /\ left' = left
    BY <1>2 DEF T!Preempted, T!Advance
  <2>3. Counted(T!Reading(clock, tv_sec, tv_nsec, cpu))'
    BY <1>0, <2>1, <2>2, AdvanceCounts DEF ClockInv, Counted, T!Reading, Between, Now
  <2>. QED  BY <2>1, <2>2, <2>3, AdvanceCounts DEF ClockInv, T!WithinATick
<1>3. CASE T!start_time
  <2>1. start_time_val' \in Readings
    BY <1>3 DEF T!start_time, T!GETMYTIME, T!Reading, ClockInv, Readings
  <2>2. Counted(T!Reading(clock, tv_sec, tv_nsec, cpu))'
    BY <1>3 DEF T!start_time, T!GETMYTIME, T!Reading, ClockInv, Counted, Between
  <2>. QED  BY <1>3, <2>1, <2>2 DEF T!start_time, ClockInv, T!WithinATick
<1>4. CASE T!stop_time
  <2>1. stop_time_val' \in Readings
    BY <1>4 DEF T!stop_time, T!GETMYTIME, T!Reading, ClockInv, Readings
  <2>. QED  BY <1>4, <2>1 DEF T!stop_time, T!GETMYTIME, ClockInv, Counted, Between, T!WithinATick
<1>5. CASE T!get_time
  <2>1. CASE clock = "clock"
    BY <1>5, <2>1 DEF T!get_time, T!MYTIMEDIFF, ClockInv, Counted, T!WithinATick
  <2>2. CASE clock # "clock"
    BY <1>5, <2>2, DifferenceClose DEF T!get_time, ClockInv, T!WithinATick
  <2>. QED  BY <2>1, <2>2
<1>6. CASE UNCHANGED time_vars
  BY <1>6 DEF time_vars, ClockInv, Counted, Between, T!Reading, T!WithinATick
<1>. QED  BY <1>1, <1>2, <1>3, <1>4, <1>5, <1>6
          DEF HostNext, MainStep, TimeStep, Parallel, T!Next, allvars

(***************************************************************************)
(* main: its values, and the time it measures.                               *)
(***************************************************************************)
(* The values that main's variables have in any build.                        *)
MainTypeInv ==
  /\ mpc \in {"init", "divide", "inits", "calibrate", "run", "check", "report", "done"}
  /\ given \in Given /\ asked \in Nat /\ cost \in Nat /\ mem \in Totals
  /\ iterations \in Nat /\ real \in Nat /\ ticks \in Nat /\ total_errors \in Int
  /\ ticks = real % M!WRAP

(* The remainder is the only number below the divisor with such a quotient.   *)
LEMMA RemainderOnly ==
  ASSUME NEW w \in Nat \ {0}, NEW k \in Int, NEW r \in 0 .. w - 1
  PROVE  (w * k + r) % w = r
<1>. DEFINE n == w * k + r
            q == n \div w
            m == n % w
<1>1. n \in Int
  OBVIOUS
<1>2. q \in Int /\ m \in 0 .. w - 1 /\ n = w * q + m
  BY <1>1
<1>3. w * k + r = w * q + m
  BY <1>2
<1>. HIDE DEF n, q, m
<1>4. CASE k >= q + 1
  <2>1. w * k >= w * q + w
    BY <1>2, <1>4
  <2>. QED  BY <1>2, <1>3, <2>1
<1>5. CASE k <= q - 1
  <2>1. w * k <= w * q - w
    BY <1>2, <1>5
  <2>. QED  BY <1>2, <1>3, <2>1
<1>6. CASE k = q
  <2>1. r = m
    BY <1>2, <1>3, <1>6
  <2>. QED  BY <2>1 DEF m, n
<1>. QED  BY <1>2, <1>4, <1>5, <1>6

LEMMA RemainderShifted ==
  ASSUME NEW w \in Nat \ {0}, NEW a \in Int, NEW q \in Int
  PROVE  (a - w * q) % w = a % w
<1>. DEFINE k == a \div w
            r == a % w
<1>1. k \in Int /\ r \in 0 .. w - 1 /\ a = w * k + r
  OBVIOUS
<1>2. r = a % w
  OBVIOUS
<1>. HIDE DEF k, r
<1>3. a - w * q = w * (k - q) + r
  BY <1>1
<1>4. (w * (k - q) + r) % w = r
  BY <1>1, RemainderOnly
<1>. QED  BY <1>2, <1>3, <1>4

(* A difference of two readings of a counter that wraps.                      *)
LEMMA WrappedDifference ==
  ASSUME NEW w \in Nat \ {0}, NEW start \in Int, NEW r \in Nat
  PROVE  (((start + r) % w) - start) % w = r % w /\ r % w \in Nat
<1>. DEFINE q == (start + r) \div w
            m == (start + r) % w
<1>1. q \in Int /\ m \in Int /\ start + r = w * q + m /\ m = (start + r) % w
  OBVIOUS
<1>. HIDE DEF q, m
<1>2. m - start = r - w * q
  BY <1>1
<1>3. r \in Int
  OBVIOUS
<1>4. (r - w * q) % w = r % w
  BY <1>1, <1>3, RemainderShifted, Zenon
<1>. QED  BY <1>1, <1>2, <1>4

LEMMA FiniteThree ==
  ASSUME NEW a, NEW b, NEW c
  PROVE  IsFiniteSet({a, b, c}) /\ Cardinality({a, b, c}) <= 3
<1>1. IsFiniteSet({a}) /\ Cardinality({a}) = 1
  BY FS_Singleton
<1>2. IsFiniteSet({a} \cup {b}) /\ Cardinality({a} \cup {b}) \in {1, 2}
  BY <1>1, FS_AddElement
<1>3. IsFiniteSet(({a} \cup {b}) \cup {c}) /\ Cardinality(({a} \cup {b}) \cup {c}) \in {1, 2, 3}
  <2>. DEFINE S == {a} \cup {b}
  <2>1. IsFiniteSet(S) /\ Cardinality(S) \in {1, 2}
    BY <1>2
  <2>. HIDE DEF S
  <2>2. IsFiniteSet(S \cup {c}) /\ Cardinality(S \cup {c}) \in {1, 2, 3}
    BY <2>1, FS_AddElement
  <2>. QED  BY <2>2 DEF S
<1>4. ({a} \cup {b}) \cup {c} = {a, b, c}
  OBVIOUS
<1>. QED  BY <1>3, <1>4

(* Cardinality as CoreMain has it.                                            *)
LEMMA SameCardinality ==
  ASSUME NEW S
  PROVE  M!Cardinality(S) = Cardinality(S)
BY DEF M!Cardinality, Cardinality

LEMMA NoneCounted ==
  ASSUME NEW S, IsFiniteSet(S)
  PROVE  M!Cardinality(S) \in Nat /\ (M!Cardinality(S) = 0 <=> S = {})
BY SameCardinality, FS_EmptySet, FS_CardinalityType

LEMMA Measured ==
  ASSUME NEW n \in Nat, MainTypeInv, M!Measure(n)
  PROVE  /\ real' \in Nat /\ ticks' \in Nat /\ ticks' = real' % M!WRAP
         /\ \E extra \in Overhead : real' = n * cost + extra
<1>1. PICK start \in Phase, extra \in Overhead :
        real' = n * cost + extra /\ ticks' = M!MYTIMEDIFF((start + real') % M!WRAP, start)
  BY DEF M!Measure
<1>2. n * cost \in Nat /\ extra \in Nat /\ start \in 0 .. M!WRAP - 1
  BY HostAssumption DEF MainTypeInv
<1>3. real' \in Nat
  BY <1>1, <1>2
<1>4. M!WRAP \in Nat \ {0}
  BY SMT DEF M!WRAP
<1>5. start \in Int
  BY <1>2, <1>4
<1>6. ticks' = real' % M!WRAP
  <2>1. (((start + real') % M!WRAP) - start) % M!WRAP = real' % M!WRAP
    BY <1>3, <1>4, <1>5, WrappedDifference, Zenon
  <2>. QED  BY <1>1, <2>1 DEF M!MYTIMEDIFF
<1>7. ticks' \in Nat
  BY <1>3, <1>4, <1>5, <1>6, WrappedDifference, Zenon
<1>. QED  BY <1>1, <1>3, <1>6, <1>7

LEMMA SeedRead ==
  ASSUME MainTypeInv, NEW a \in Nat, NEW b \in Nat, NEW c \in Nat, a < 65536, b < 65536, c < 65536,
         M!SeedsOf[given] = <<a, b, c>>
  PROVE  <<M!get_seed(1), M!get_seed(2), M!get_seed(3)>> = M!SeedsOf[given]
<1>1. M!get_seed_32(1) = a /\ M!get_seed_32(2) = b /\ M!get_seed_32(3) = c
  BY SMT DEF M!get_seed_32
<1>2. a % 65536 = a /\ b % 65536 = b /\ c % 65536 = c
  BY SMT
<1>. QED  BY <1>1, <1>2, SMT DEF M!get_seed

LEMMA SeedsRead ==
  ASSUME MainTypeInv
  PROVE  /\ M!get_seed_32(4) = asked
         /\ <<M!get_seed(1), M!get_seed(2), M!get_seed(3)>> = M!SeedsOf[given]
<1>1. M!get_seed_32(4) = asked
  BY DEF M!get_seed_32
<1>2. given \in {"none", "one", "performance", "validation", "profile", "other"}
  BY HostAssumption DEF MainTypeInv, M!SeedsOf
<1>3. CASE given = "none"
  <2>1. M!SeedsOf[given] = <<0, 0, 0>>
    BY <1>3 DEF M!SeedsOf
  <2>. QED  BY <1>1, <2>1, SeedRead, SMT
<1>4. CASE given = "one"
  <2>1. M!SeedsOf[given] = <<1, 0, 0>>
    BY <1>4 DEF M!SeedsOf
  <2>. QED  BY <1>1, <2>1, SeedRead, SMT
<1>5. CASE given = "performance"
  <2>1. M!SeedsOf[given] = <<0, 0, 102>>
    BY <1>5 DEF M!SeedsOf
  <2>. QED  BY <1>1, <2>1, SeedRead, SMT
<1>6. CASE given = "validation"
  <2>1. M!SeedsOf[given] = <<13333, 13333, 102>>
    BY <1>6 DEF M!SeedsOf
  <2>. QED  BY <1>1, <2>1, SeedRead, SMT
<1>7. CASE given = "profile"
  <2>1. M!SeedsOf[given] = <<8, 8, 8>>
    BY <1>7 DEF M!SeedsOf
  <2>. QED  BY <1>1, <2>1, SeedRead, SMT
<1>8. CASE given = "other"
  <2>1. M!SeedsOf[given] = <<7, 7, 7>>
    BY <1>8 DEF M!SeedsOf
  <2>. QED  BY <1>1, <2>1, SeedRead, SMT
<1>. QED  BY <1>2, <1>3, <1>4, <1>5, <1>6, <1>7, <1>8

LEMMA MainTypeInit ==
  ASSUME HostInit
  PROVE  MainTypeInv
<1>1. M!Init /\ T!Init
  BY DEF HostInit
<1>2. 0 % M!WRAP = 0
  BY SMT DEF M!WRAP
<1>. QED  BY <1>1, <1>2, HostAssumption DEF M!Init, T!Init, MainTypeInv

LEMMA Errors ==
  ASSUME MainTypeInv, NEW crc
  PROVE  M!TotalErrors(crc) \in Nat /\ (M!TotalErrors(crc) = 0 <=> M!Wrong(crc) = {})
<1>1. IsFiniteSet(M!Contexts)
  BY HostAssumption, FS_Interval DEF M!Contexts
<1>2. IsFiniteSet(M!Kernels)
  BY FiniteThree DEF M!Kernels
<1>3. IsFiniteSet(M!Contexts \X M!Kernels)
  BY <1>1, <1>2, FS_Product
<1>4. M!Wrong(crc) \subseteq M!Contexts \X M!Kernels
  BY DEF M!Wrong, M!Selected
<1>5. IsFiniteSet(M!Wrong(crc))
  BY <1>3, <1>4, FS_Subset
<1>. QED  BY <1>5, NoneCounted DEF M!TotalErrors

LEMMA TypesChecked ==
  M!check_data_types \in Nat /\ (WrongTypes = {} => M!check_data_types = 0)
<1>1. IsFiniteSet(M!Types)
  <2>1. M!Types = {"ee_u8", "ee_u16", "ee_s16"} \cup {"ee_s32", "ee_u32", "ee_ptr_int"}
    BY DEF M!Types
  <2>. QED  BY <2>1, FiniteThree, FS_Union
<1>2. IsFiniteSet(WrongTypes)
  BY <1>1, HostAssumption, FS_Subset
<1>. QED  BY <1>2, NoneCounted DEF M!check_data_types

LEMMA MainTypeStep ==
  ASSUME MainTypeInv, M!Next
  PROVE  MainTypeInv'
<1>1. CASE M!Setup
  BY <1>1, SeedsRead DEF M!Setup, MainTypeInv
<1>2. CASE M!Divide
  BY <1>2 DEF M!Divide, MainTypeInv
<1>3. CASE M!Inits
  BY <1>3 DEF M!Inits, MainTypeInv
<1>4. CASE M!Calibrate
  <2>1. M!More(iterations) \in Nat
    BY DEF M!More, MainTypeInv
  <2>2. real' \in Nat /\ ticks' \in Nat /\ ticks' = real' % M!WRAP
    BY <1>4, <2>1, Measured, SMT DEF M!Calibrate
  <2>3. secs_passed' \in Nat
    <3>1. secs_passed' = ticks' \div M!EE_TICKS_PER_SEC
      BY <1>4 DEF M!Calibrate, M!time_in_secs
    <3>2. M!EE_TICKS_PER_SEC \in Nat \ {0}
      BY DEF M!EE_TICKS_PER_SEC
    <3>. QED  BY <2>2, <3>1, <3>2, DivParts
  <2>4. ASSUME secs_passed' >= 1 PROVE M!Calibrated(M!More(iterations), secs_passed') \in Nat
    <3>1. 1 + 10 \div secs_passed' \in Nat
      <4>1. secs_passed' \in Nat \ {0}
        BY <2>3, <2>4
      <4>2. 10 \div secs_passed' \in Nat
        BY <4>1, DivParts
      <4>. QED  BY <4>2
    <3>. QED  BY <2>1, <3>1 DEF M!Calibrated
  <2>. QED  BY <1>4, <2>1, <2>2, <2>3, <2>4 DEF M!Calibrate, MainTypeInv
<1>5. CASE M!Run
  <2>1. real' \in Nat /\ ticks' \in Nat /\ ticks' = real' % M!WRAP
    BY <1>5, Measured, SMT DEF M!Run, MainTypeInv
  <2>. QED  BY <1>5, <2>1 DEF M!Run, MainTypeInv
<1>6. CASE M!Check
  BY <1>6, Errors, TypesChecked DEF M!Check, MainTypeInv
<1>7. CASE M!Report
  BY <1>7 DEF M!Report, MainTypeInv, M!portable_fini
<1>. QED  BY <1>1, <1>2, <1>3, <1>4, <1>5, <1>6, <1>7 DEF M!Next

(* Below its width the timer has not wrapped.                                 *)
LEMMA TimeMeasured ==
  ASSUME MainTypeInv
  PROVE  M!TimeRight
<1>1. M!WRAP \in Nat \ {0}
  BY SMT DEF M!WRAP
<1>. QED  BY <1>1 DEF MainTypeInv, M!TimeRight

(***************************************************************************)
(* The choice of the number of iterations.                                   *)
(***************************************************************************)
(* Before the run main looks for a number of iterations as long as those it   *)
(* has tried take less than a second; the number it settles on takes between  *)
(* ten and a hundred.                                                         *)
Automatic == asked = 0 /\ 10 * cost < 100 * M!EE_TICKS_PER_SEC
Work == iterations * cost
DurationInv ==
  Automatic =>
    /\ mpc \in {"divide", "inits"} => iterations = 0
    /\ mpc = "calibrate" => iterations = 1 \/ Work < 1000
    /\ mpc = "run" => 10000 <= Work /\ Work <= 99990
    /\ M!AutoDuration

(* 1 + 10 \div s times what took s seconds takes more than ten.               *)
LEMMA TenSeconds ==
  ASSUME NEW x \in Nat, NEW e \in 0 .. 10, x <= 99990,
         NEW s \in Nat \ {0}, 1000 * s <= x + e, x + e < 1000 * s + 1000
  PROVE  10000 <= x * (1 + 10 \div s) /\ x * (1 + 10 \div s) <= 99990
<1>1. CASE s > 10
  <2>1. 10 \div s = 0
    BY <1>1
  <2>. QED  BY <1>1, <2>1
<1>2. CASE s \in 1 .. 10
  BY <1>2
<1>. QED  BY <1>1, <1>2

LEMMA DurationInit ==
  ASSUME HostInit
  PROVE  DurationInv
BY DEF HostInit, M!Init, DurationInv, M!AutoDuration

LEMMA CalibrateStep ==
  ASSUME OverheadSmall, MainTypeInv, DurationInv, M!Calibrate
  PROVE  DurationInv'
<1>. SUFFICES ASSUME Automatic
              PROVE  /\ mpc' = "calibrate" => Work' < 1000
                     /\ mpc' = "run" => 10000 <= Work' /\ Work' <= 99990
  <2>1. Automatic' <=> Automatic
    BY DEF M!Calibrate, Automatic, M!EE_TICKS_PER_SEC
  <2>2. mpc' \in {"calibrate", "run"}
    BY DEF M!Calibrate
  <2>. QED  BY <2>1, <2>2 DEF DurationInv, M!AutoDuration
<1>. DEFINE x == M!More(iterations) * cost
<1>1. mpc = "calibrate" /\ cost' = cost
  BY DEF M!Calibrate
<1>2. cost \in Nat /\ iterations \in Nat /\ cost <= 9999
  BY DEF MainTypeInv, Automatic, M!EE_TICKS_PER_SEC
<1>3. x \in Nat /\ x = 10 * Work /\ Work \in Nat /\ M!More(iterations) \in Nat
  BY <1>2 DEF M!More, Work
<1>4. x <= 99990
  <2>1. CASE iterations = 1
    BY <1>2, <1>3, <2>1 DEF Work
  <2>2. CASE Work < 1000
    BY <1>3, <2>2
  <2>. QED  BY <1>1, <2>1, <2>2 DEF DurationInv
<1>. HIDE DEF x
<1>5. PICK e \in 0 .. 10 : real' = x + e
  BY <1>3, Measured DEF M!Calibrate, OverheadSmall, x
<1>6. real' < M!WRAP
  BY <1>3, <1>4, <1>5, SMT DEF M!WRAP
<1>7. ticks' = x + e
  <2>1. ticks' = real' % M!WRAP /\ M!WRAP \in Nat
    BY <1>3, Measured, SMT DEF M!Calibrate, M!WRAP
  <2>. QED  BY <1>3, <1>5, <1>6, <2>1
<1>8. secs_passed' = ticks' \div 1000
  BY DEF M!Calibrate, M!time_in_secs, M!EE_TICKS_PER_SEC
<1>9. PICK s \in Nat : secs_passed' = s /\ 1000 * s <= x + e /\ x + e < 1000 * s + 1000
  BY <1>3, <1>7, <1>8, DivParts
<1>10. CASE s < 1
  <2>1. mpc' = "calibrate" /\ iterations' = M!More(iterations)
    BY <1>9, <1>10 DEF M!Calibrate
  <2>2. Work' = x
    BY <1>1, <2>1 DEF Work, x
  <2>. QED  BY <1>3, <1>9, <1>10, <2>1, <2>2
<1>11. CASE s >= 1
  <2>1. mpc' = "run" /\ iterations' = M!More(iterations) * (1 + 10 \div s)
    BY <1>9, <1>11 DEF M!Calibrate, M!Calibrated
  <2>2. 10 \div s \in Nat
    BY <1>11, DivParts
  <2>3. Work' = x * (1 + 10 \div s)
    <3>. DEFINE k == 1 + 10 \div s
         m == M!More(iterations)
    <3>1. k \in Nat /\ m \in Nat /\ Work' = (m * k) * cost /\ x = m * cost
      BY <1>1, <1>3, <2>1, <2>2 DEF Work, x
    <3>. HIDE DEF k, m
    <3>2. (m * k) * cost = (m * cost) * k
      BY <1>2, <3>1
    <3>. QED  BY <3>1, <3>2 DEF k
  <2>4. 10000 <= x * (1 + 10 \div s) /\ x * (1 + 10 \div s) <= 99990
    BY <1>3, <1>4, <1>9, <1>11, TenSeconds
  <2>. QED  BY <2>1, <2>3, <2>4
<1>. QED  BY <1>10, <1>11

LEMMA DurationStep ==
  ASSUME OverheadSmall, MainTypeInv, DurationInv, M!Next
  PROVE  DurationInv'
<1>. USE DEF Automatic, M!EE_TICKS_PER_SEC
<1>1. CASE M!Setup
  BY <1>1, SeedsRead DEF M!Setup, DurationInv, M!AutoDuration
<1>2. CASE M!Divide
  BY <1>2 DEF M!Divide, DurationInv, M!AutoDuration
<1>3. CASE M!Inits
  BY <1>3 DEF M!Inits, DurationInv, M!AutoDuration
<1>4. CASE M!Calibrate
  BY <1>4, CalibrateStep
<1>5. CASE M!Run
  <2>1. \E e \in 0 .. 10 : real' = Work + e
    BY <1>5, Measured DEF M!Run, OverheadSmall, MainTypeInv, Work
  <2>2. Work \in Nat
    BY DEF MainTypeInv, Work
  <2>3. Automatic => 10000 <= Work /\ Work <= 99990
    BY <1>5 DEF M!Run, DurationInv
  <2>. QED  BY <1>5, <2>1, <2>2, <2>3 DEF M!Run, DurationInv, M!AutoDuration
<1>6. CASE M!Check
  BY <1>6 DEF M!Check, DurationInv, M!AutoDuration
<1>7. CASE M!Report
  BY <1>7 DEF M!Report, DurationInv, M!AutoDuration
<1>. QED  BY <1>1, <1>2, <1>3, <1>4, <1>5, <1>6, <1>7 DEF M!Next

(***************************************************************************)
(* The division of the memory.                                               *)
(***************************************************************************)
(* The inputs main works with, and how it divides the memory between the      *)
(* algorithms selected.                                                       *)
Sel == M!Selected(execs)
LayoutInv ==
  /\ mpc # "init" => seeds = M!Defaults(M!SeedsOf[given])
  /\ mpc \notin {"init", "divide"} =>
       /\ Sel # {} /\ size = mem \div M!Cardinality(Sel)
       /\ block = [k \in M!Kernels |-> IF k \in Sel THEN M!Offset(k, Sel, size) ELSE 0]

LEMMA LayoutInit ==
  ASSUME HostInit
  PROVE  LayoutInv
BY DEF HostInit, M!Init, LayoutInv

LEMMA LayoutStep ==
  ASSUME MainTypeInv, LayoutInv, M!Next
  PROVE  LayoutInv'
<1>1. CASE M!Setup
  BY <1>1, SeedsRead DEF M!Setup, LayoutInv
<1>2. CASE M!Divide
  BY <1>2 DEF M!Divide, LayoutInv, Sel
<1>3. CASE M!Inits
  BY <1>3 DEF M!Inits, LayoutInv, Sel
<1>4. CASE M!Calibrate
  BY <1>4 DEF M!Calibrate, LayoutInv, Sel
<1>5. CASE M!Run
  BY <1>5 DEF M!Run, LayoutInv, Sel
<1>6. CASE M!Check
  BY <1>6 DEF M!Check, LayoutInv, Sel
<1>7. CASE M!Report
  BY <1>7 DEF M!Report, LayoutInv, Sel
<1>. QED  BY <1>1, <1>2, <1>3, <1>4, <1>5, <1>6, <1>7 DEF M!Next

LEMMA FiniteSelected ==
  /\ Sel \subseteq M!Kernels /\ IsFiniteSet(Sel)
  /\ \A S \in SUBSET Sel : IsFiniteSet(S) /\ M!Cardinality(S) \in Nat /\ M!Cardinality(S) <= 3
<1>1. IsFiniteSet(M!Kernels) /\ Cardinality(M!Kernels) <= 3 /\ Cardinality(M!Kernels) \in Nat
  BY FiniteThree, FS_CardinalityType DEF M!Kernels
<1>2. Sel \subseteq M!Kernels
  BY DEF Sel, M!Selected
<1>3. \A S \in SUBSET M!Kernels : IsFiniteSet(S) /\ Cardinality(S) \in Nat /\ Cardinality(S) <= 3
  BY <1>1, FS_Subset, FS_CardinalityType
<1>. QED  BY <1>2, <1>3, SameCardinality

(* The algorithms in front of one: their number is the place of its block.    *)
Before(k) == {x \in Sel : M!Bit[x] < M!Bit[k]}
Place(k) == M!Cardinality(Before(k))

LEMMA Places ==
  ASSUME NEW k \in Sel
  PROVE  /\ Place(k) \in Nat /\ Place(k) + 1 <= M!Cardinality(Sel)
         /\ \A x \in Sel : M!Bit[x] > M!Bit[k] => Place(k) + 1 <= Place(x)
<1>1. IsFiniteSet(Before(k)) /\ Place(k) \in Nat
  BY FiniteSelected DEF Before, Place
<1>2. M!Bit \in [M!Kernels -> 0 .. 2] /\ Sel \subseteq M!Kernels
  BY FiniteSelected DEF M!Bit, M!Kernels
<1>3. k \notin Before(k)
  BY <1>2 DEF Before
<1>4. M!Cardinality(Before(k) \cup {k}) = Place(k) + 1
  BY <1>1, <1>3, FS_AddElement, SameCardinality DEF Place
<1>5. ASSUME NEW S \in SUBSET Sel, Before(k) \cup {k} \subseteq S
      PROVE  Place(k) + 1 <= M!Cardinality(S)
  BY <1>4, <1>5, FiniteSelected, FS_Subset, SameCardinality
<1>6. Before(k) \cup {k} \subseteq Sel
  BY DEF Before
<1>7. ASSUME NEW x \in Sel, M!Bit[x] > M!Bit[k]
      PROVE  Place(k) + 1 <= Place(x)
  <2>1. Before(k) \cup {k} \subseteq Before(x)
    BY <1>2, <1>7 DEF Before
  <2>. QED  BY <1>5, <2>1 DEF Before, Place
<1>. QED  BY <1>1, <1>5, <1>6, <1>7

(* align_mem rounds up to a multiple of four.                                 *)
LEMMA Aligned ==
  ASSUME NEW x \in Nat
  PROVE  /\ M!align_mem(x) \in Nat /\ x <= M!align_mem(x) /\ M!align_mem(x) <= x + 3
         /\ M!align_mem(x) % 4 = 0 /\ (x % 4 = 0 => M!align_mem(x) = x)
BY DEF M!align_mem

(* The size of the matrices: the largest whose four bytes an element, twice,  *)
(* are fewer than the bytes of the block.                                     *)
LEMMA MatrixSize ==
  ASSUME NEW n \in Nat \ {0}
  PROVE  M!MatrixN(n) \in 0 .. n /\ 8 * (M!MatrixN(n) * M!MatrixN(n)) < n
<1>. DEFINE Large == {j \in Nat : j * j * 8 >= n}
            R == OpToRel(<, Nat)
<1>1. n \in Large
  <2>1. n * n >= n
    OBVIOUS
  <2>2. n * n \in Nat
    OBVIOUS
  <2>. QED  BY <2>1, <2>2
<1>2. PICK j \in Large : \A y \in Large : ~ (<<y, j>> \in R)
  <2>1. Large \subseteq Nat /\ Large # {}
    BY <1>1
  <2>. QED  BY <2>1, WFMin, NatLessThanWellFounded
<1>3. \A y \in Large : ~ (y < j)
  BY <1>2 DEF OpToRel
<1>4. j \in Nat /\ j * j * 8 >= n /\ j # 0
  <2>1. j \in Nat /\ j * j * 8 >= n
    BY <1>2
  <2>2. j = 0 => j * j * 8 = 0
    OBVIOUS
  <2>. QED  BY <2>1, <2>2
<1>5. (j - 1) * (j - 1) * 8 < n
  <2>1. j - 1 \in Nat /\ j - 1 < j /\ j - 1 \notin Large
    BY <1>3, <1>4
  <2>2. (j - 1) * (j - 1) * 8 \in Nat
    BY <2>1
  <2>. QED  BY <2>1, <2>2
<1>6. j <= n
  BY <1>1, <1>3, <1>4
<1>. HIDE DEF Large, R
<1>7. \E a \in 1 .. n : a * a * 8 >= n /\ (a - 1) * (a - 1) * 8 < n
  BY <1>4, <1>5, <1>6
<1>8. PICK m \in 1 .. n : M!MatrixN(n) = m - 1 /\ m * m * 8 >= n /\ (m - 1) * (m - 1) * 8 < n
  BY <1>7 DEF M!MatrixN
<1>. QED  BY <1>8

(* Where the matrices end: q elements of four bytes in each.                  *)
MatricesEnd(b, q) == M!align_mem(M!align_mem(b) + 4 * q) + 4 * q

LEMMA MatricesFit ==
  ASSUME NEW b \in Nat, NEW n \in Nat \ {0}, NEW q \in Nat, 8 * q < n, b % 4 = 0 \/ 8 * q + 3 <= n
  PROVE  MatricesEnd(b, q) \in Nat /\ MatricesEnd(b, q) <= b + n
<1>. DEFINE a == M!align_mem(b)
<1>1. a \in Nat /\ a <= b + 3 /\ a % 4 = 0 /\ (b % 4 = 0 => a = b)
  BY Aligned
<1>. HIDE DEF a
<1>2. a + 4 * q \in Nat /\ (a + 4 * q) % 4 = 0
  BY <1>1
<1>3. M!align_mem(a + 4 * q) = a + 4 * q
  BY <1>2, Aligned
<1>. QED  BY <1>1, <1>3 DEF a, MatricesEnd

LEMMA Monotone ==
  ASSUME NEW n \in Nat, NEW a \in Nat, NEW b \in Nat, a <= b
  PROVE  n * a <= n * b /\ n * a \in Nat /\ n * (a + 1) = n * a + n
<1>1. n * b = n * a + n * (b - a) /\ n * (b - a) \in Nat
  OBVIOUS
<1>. QED  BY <1>1

LEMMA KernelsApart ==
  ASSUME RoomToAlign, MainTypeInv, LayoutInv
  PROVE  M!SafeMemory
<1>. SUFFICES ASSUME mpc \notin {"init", "divide"}, NEW k \in Sel
              PROVE  /\ M!Last(k) <= mem
                     /\ \A x \in Sel : M!Bit[x] > M!Bit[k] => M!Last(k) <= block[x]
  BY DEF M!SafeMemory, Sel
<1>. DEFINE N == M!Cardinality(Sel)
<1>1. N \in 1 .. 3
  BY FiniteSelected, Places
<1>2. mem \in Nat /\ mem >= 3 /\ mem \in Totals
  BY HostAssumption DEF RoomToAlign, MainTypeInv
<1>3. size = mem \div N /\ size \in Nat \ {0} /\ size * N <= mem
  <2>1. size = mem \div N
    BY DEF LayoutInv
  <2>. HIDE DEF N
  <2>2. N = 1 \/ N = 2 \/ N = 3
    BY <1>1
  <2>. QED  BY <1>2, <2>1, <2>2
<1>4. \A x \in Sel : block[x] = size * Place(x)
  BY FiniteSelected DEF LayoutInv, M!Offset, Place, Before
<1>5. Place(k) \in Nat /\ Place(k) + 1 <= N
  BY Places
<1>. HIDE DEF N
<1>6. M!Last(k) \in Nat /\ M!Last(k) <= block[k] + size
  <2>1. CASE k # "matrix"
    <3>1. M!Last(k) = block[k] + size
      BY <2>1 DEF M!Last
    <3>. QED  BY <1>3, <1>4, <1>5, <3>1, Monotone
  <2>2. CASE k = "matrix"
    <3>. DEFINE m == M!MatrixN(size)
                q == m * m
    <3>1. m \in 0 .. size /\ q \in Nat /\ 8 * q < size
      BY <1>3, MatrixSize
    <3>2. block[k] \in Nat /\ (block[k] % 4 = 0 \/ 8 * q + 3 <= size)
      <4>1. CASE N = 1
        <5>1. Place(k) = 0
          BY <1>5, <4>1
        <5>. QED  BY <1>3, <1>4, <5>1
      <4>2. CASE N \in 2 .. 3
        <5>1. size % 4 = 0 \/ 8 * q + 3 <= size
          <6>1. size % 4 = 0 \/ 8 * (m * m) \notin {size - 1, size - 2}
            BY <1>2, <1>3, <3>1, <4>2 DEF RoomToAlign
          <6>2. ASSUME 8 * q \notin {size - 1, size - 2} PROVE 8 * q + 3 <= size
            <7>. HIDE DEF q
            <7>. QED  BY <1>3, <3>1, <6>2
          <6>. QED  BY <6>1, <6>2
        <5>2. Place(k) = 0 \/ Place(k) = 1 \/ Place(k) = 2
          BY <1>5, <4>2
        <5>. HIDE DEF q
        <5>. QED  BY <1>3, <1>4, <5>1, <5>2
      <4>. QED  BY <1>1, <4>1, <4>2
    <3>3. M!Last(k) = MatricesEnd(block[k], q)
      <4>1. M!Last(k) = M!align_mem(M!align_mem(block[k]) + 4 * m * m) + 4 * m * m
        BY <2>2 DEF M!Last
      <4>2. 4 * m * m = 4 * q
        BY <3>1
      <4>. QED  BY <4>1, <4>2 DEF MatricesEnd
    <3>. HIDE DEF q, m
    <3>4. MatricesEnd(block[k], q) \in Nat /\ MatricesEnd(block[k], q) <= block[k] + size
      BY <1>3, <3>1, <3>2, MatricesFit
    <3>. QED  BY <3>3, <3>4
  <2>. QED  BY <2>1, <2>2
<1>7. block[k] + size = size * (Place(k) + 1) /\ Place(k) + 1 \in Nat
  BY <1>3, <1>4, <1>5, Monotone
<1>8. block[k] + size <= size * N
  BY <1>1, <1>3, <1>5, <1>7, Monotone
<1>9. ASSUME NEW x \in Sel, M!Bit[x] > M!Bit[k]
      PROVE  block[k] + size <= block[x]
  <2>1. Place(k) + 1 <= Place(x) /\ Place(x) \in Nat
    BY <1>9, Places
  <2>. QED  BY <1>3, <1>4, <1>7, <2>1, Monotone
<1>10. block[k] + size \in Nat /\ size * N \in Nat
  BY <1>1, <1>3, <1>7
<1>11. \A x \in Sel : block[x] \in Nat
  BY <1>3, <1>4, Places
<1>. QED  BY <1>2, <1>3, <1>6, <1>8, <1>9, <1>10, <1>11

(***************************************************************************)
(* The verdict.                                                              *)
(***************************************************************************)
(* The errors are those of the results, of the types and of the duration.     *)
Known == seedcrc \in DOMAIN M!Recognised
Counts(e) ==
  /\ seedcrc = M!SeedCrc(seeds, size)
  /\ IF Known
     THEN known_id = M!Recognised[seedcrc].id /\ e = M!TotalErrors(seedcrc) + M!check_data_types
     ELSE known_id = -1 /\ e = M!check_data_types - 1
Short == IF M!TooShort(M!time_in_secs(ticks)) THEN 1 ELSE 0
VerdictInv ==
  /\ mpc \notin {"report", "done"} => known_id = -1
  /\ mpc # "done" => message = "none"
  /\ mpc = "report" => Counts(total_errors)
  /\ mpc = "done" => Counts(total_errors - Short) /\ message = M!Verdict(total_errors)

LEMMA VerdictInit ==
  ASSUME HostInit
  PROVE  VerdictInv
BY DEF HostInit, M!Init, VerdictInv

LEMMA VerdictStep ==
  ASSUME MainTypeInv, VerdictInv, M!Next
  PROVE  VerdictInv'
<1>1. CASE M!Setup
  BY <1>1 DEF M!Setup, VerdictInv
<1>2. CASE M!Divide
  BY <1>2 DEF M!Divide, VerdictInv
<1>3. CASE M!Inits
  BY <1>3 DEF M!Inits, VerdictInv
<1>4. CASE M!Calibrate
  BY <1>4 DEF M!Calibrate, VerdictInv
<1>5. CASE M!Run
  BY <1>5 DEF M!Run, VerdictInv
<1>6. CASE M!Check
  <2>1. mpc = "check" /\ mpc' = "report" /\ message' = message /\ known_id = -1
    BY <1>6 DEF M!Check, VerdictInv
  <2>2. \A crc : M!TotalErrors(crc)' = M!TotalErrors(crc)
    BY <1>6 DEF M!Check, M!TotalErrors, M!Wrong, M!Input, M!Contexts, M!Selected
  <2>3. Counts(total_errors)'
    BY <1>6, <2>1, <2>2 DEF M!Check, Counts, Known, M!SeedCrc
  <2>. QED  BY <2>1, <2>3 DEF VerdictInv
<1>7. CASE M!Report
  <2>1. Short' = Short
    BY <1>7 DEF M!Report, Short
  <2>2. total_errors' = total_errors + Short /\ total_errors \in Int /\ Short \in Int
    BY <1>7 DEF M!Report, Short, MainTypeInv
  <2>3. total_errors' - Short' = total_errors
    BY <2>1, <2>2
  <2>4. \A crc : M!TotalErrors(crc)' = M!TotalErrors(crc)
    BY <1>7 DEF M!Report, M!TotalErrors, M!Wrong, M!Input, M!Contexts, M!Selected
  <2>5. Counts(total_errors - Short)'
    BY <1>7, <2>3, <2>4 DEF M!Report, VerdictInv, Counts, Known
  <2>. QED  BY <1>7, <2>5 DEF M!Report, VerdictInv
<1>. QED  BY <1>1, <1>2, <1>3, <1>4, <1>5, <1>6, <1>7 DEF M!Next

LEMMA KnownIds ==
  ASSUME Known
  PROVE  M!Recognised[seedcrc].id \in Nat
BY SMT DEF Known, M!Recognised

LEMMA RightMeansNoneWrong ==
  ASSUME NEW crc
  PROVE  /\ M!Wrong(crc) = {} => M!AllRight
         /\ M!AllRight /\ M!Recognised[crc].input = M!Input(seeds, size) => M!Wrong(crc) = {}
<1>1. ASSUME M!Wrong(crc) = {}, NEW c \in M!Contexts, NEW k \in M!Selected(execs)
      PROVE  crcs[c][k] = "right"
  <2>1. <<c, k>> \in M!Contexts \X M!Selected(execs) /\ <<c, k>> \notin M!Wrong(crc)
    BY <1>1
  <2>. QED  BY <2>1 DEF M!Wrong
<1>2. ASSUME M!AllRight, M!Recognised[crc].input = M!Input(seeds, size)
      PROVE  M!Wrong(crc) = {}
  <2>. SUFFICES ASSUME NEW x \in M!Wrong(crc) PROVE FALSE
    OBVIOUS
  <2>1. x[1] \in M!Contexts /\ x[2] \in M!Selected(execs)
    BY DEF M!Wrong
  <2>. QED  BY <1>2, <2>1 DEF M!Wrong, M!AllRight
<1>. QED  BY <1>1, <1>2 DEF M!AllRight

LEMMA LongEnoughTold ==
  ASSUME MainTypeInv
  PROVE  /\ Short \in {0, 1}
         /\ Short = 0 /\ real < M!WRAP => M!LongEnough
         /\ Short = 1 => real % M!WRAP < 10 * M!EE_TICKS_PER_SEC
<1>1. ticks \in Nat /\ real \in Nat /\ (real < M!WRAP => ticks = real) /\ ticks = real % M!WRAP
  BY TimeMeasured DEF MainTypeInv, M!TimeRight
<1>2. Short \in {0, 1} /\ (Short = 0 <=> ticks >= 10 * M!EE_TICKS_PER_SEC)
  BY <1>1, SMT DEF Short, M!TooShort, M!time_in_secs, M!EE_TICKS_PER_SEC
<1>3. M!EE_TICKS_PER_SEC \in Nat
  BY DEF M!EE_TICKS_PER_SEC
<1>. QED  BY <1>1, <1>2, <1>3 DEF M!LongEnough

(* What is known of the run when the verdict is printed.                      *)
LEMMA KnownValidated ==
  ASSUME MainTypeInv, VerdictInv
  PROVE  M!KnownValidatedMeansRight
<1>. SUFFICES ASSUME message = "validated", known_id >= 0
              PROVE  M!AllRight /\ (real < M!WRAP => M!LongEnough)
  BY DEF M!KnownValidatedMeansRight
<1>1. mpc = "done" /\ Counts(total_errors - Short) /\ total_errors = 0
  BY DEF VerdictInv, M!Verdict, MainTypeInv
<1>2. Known /\ total_errors - Short = M!TotalErrors(seedcrc) + M!check_data_types
  BY <1>1 DEF Counts
<1>3. M!TotalErrors(seedcrc) \in Nat /\ M!check_data_types \in Nat /\ Short \in {0, 1}
  BY Errors, TypesChecked, LongEnoughTold
<1>4. M!TotalErrors(seedcrc) = 0 /\ Short = 0
  BY <1>1, <1>2, <1>3
<1>. QED  BY <1>4, Errors, RightMeansNoneWrong, LongEnoughTold

LEMMA ErrorsTold ==
  ASSUME NoCollision, MainTypeInv, LayoutInv, VerdictInv
  PROVE  M!ErrorsMeanWrong
<1>. SUFFICES ASSUME message = "errors", WrongTypes = {}, M!AllRight
              PROVE  real % M!WRAP < 10 * M!EE_TICKS_PER_SEC
  BY DEF M!ErrorsMeanWrong
<1>1. mpc = "done" /\ Counts(total_errors - Short) /\ total_errors > 0
  BY DEF VerdictInv, M!Verdict, MainTypeInv
<1>2. M!check_data_types = 0 /\ Short \in {0, 1} /\ total_errors \in Int
  BY TypesChecked, LongEnoughTold DEF MainTypeInv
<1>3. CASE ~ Known
  <2>1. total_errors - Short = -1
    BY <1>1, <1>2, <1>3 DEF Counts
  <2>. QED  BY <1>1, <1>2, <2>1
<1>4. CASE Known
  <2>1. PICK j \in 1 .. 3 : size = mem \div j
    <3>1. M!Cardinality(Sel) \in 1 .. 3
      BY <1>1, FiniteSelected, Places DEF LayoutInv
    <3>. QED  BY <1>1, <3>1 DEF LayoutInv
  <2>2. seeds = M!Defaults(M!SeedsOf[given]) /\ given \in Given /\ mem \in Totals
    BY <1>1 DEF LayoutInv, MainTypeInv
  <2>3. seedcrc = M!SeedCrc(seeds, size)
    BY <1>1 DEF Counts
  <2>4. M!Recognised[seedcrc].input = M!Input(seeds, size)
    BY <1>4, <2>1, <2>2, <2>3 DEF NoCollision, Known
  <2>5. M!TotalErrors(seedcrc) = 0
    BY <2>4, Errors, RightMeansNoneWrong
  <2>6. total_errors - Short = 0
    BY <1>1, <1>2, <1>4, <2>5 DEF Counts
  <2>7. Short = 1
    BY <1>1, <1>2, <2>6
  <2>. QED  BY <2>7, LongEnoughTold
<1>. QED  BY <1>3, <1>4

(***************************************************************************)
(* The theorems.                                                             *)
(***************************************************************************)
(* Nothing of main changes in the steps of the others.                        *)
MainInv == MainTypeInv /\ LayoutInv /\ VerdictInv

LEMMA MainUnchanged ==
  ASSUME UNCHANGED main_vars
  PROVE  /\ MainInv => MainInv'
         /\ DurationInv => DurationInv'
<1>. USE DEF main_vars
<1>1. MainTypeInv => MainTypeInv'
  BY DEF MainTypeInv
<1>2. LayoutInv => LayoutInv'
  BY DEF LayoutInv, Sel, M!Selected
<1>3. VerdictInv => VerdictInv'
  BY DEF VerdictInv, Counts, Known, Short, M!TotalErrors, M!Wrong, M!Input, M!Contexts, M!Selected
<1>4. DurationInv => DurationInv'
  BY DEF DurationInv, Automatic, Work, M!AutoDuration
<1>. QED  BY <1>1, <1>2, <1>3, <1>4 DEF MainInv

LEMMA StepOfMain ==
  ASSUME [HostNext]_allvars
  PROVE  M!Next \/ UNCHANGED main_vars
BY DEF HostNext, MainStep, TimeStep, Parallel, allvars, main_vars

LEMMA MainInvariant ==
  HostSpec => []MainInv
<1>1. HostInit => MainInv
  BY MainTypeInit, LayoutInit, VerdictInit DEF MainInv
<1>2. MainInv /\ [HostNext]_allvars => MainInv'
  BY StepOfMain, MainUnchanged, MainTypeStep, LayoutStep, VerdictStep DEF MainInv
<1>. QED  BY <1>1, <1>2, PTL DEF HostSpec

(* The time main reports is the time the run took wherever the 32-bit timer   *)
(* stood (get_time), and the host ports are off by less than a tick whatever  *)
(* the parts of their two readings are.                                       *)
THEOREM TimeReported ==
  HostSpec => []TimesRight
<1>1. HostInit => ClockInv
  BY ClockInvInit
<1>2. ClockInv /\ [HostNext]_allvars => ClockInv'
  BY ClockInvStep
<1>3. ClockInv /\ MainInv => TimesRight
  BY TimeMeasured DEF ClockInv, MainInv, TimesRight
<1>. QED  BY <1>1, <1>2, <1>3, MainInvariant, PTL DEF HostSpec

(* The number of iterations main chooses takes from ten to a hundred seconds, *)
(* on every machine that does ten iterations in less than a hundred, if a     *)
(* measurement takes at most ten milliseconds besides the iterations.         *)
THEOREM IterationsChosen ==
  ASSUME OverheadSmall
  PROVE  HostSpec => []AutoDuration
<1>1. HostInit => DurationInv
  BY DurationInit
<1>2. MainInv /\ DurationInv /\ [HostNext]_allvars => DurationInv'
  BY OverheadSmall, StepOfMain, MainUnchanged, DurationStep DEF MainInv
<1>3. DurationInv => AutoDuration
  <2>1. ~ Automatic => M!AutoDuration
    BY DEF Automatic, M!AutoDuration
  <2>. QED  BY <2>1 DEF DurationInv, AutoDuration
<1>. QED  BY <1>1, <1>2, <1>3, MainInvariant, PTL DEF HostSpec

(* No algorithm writes outside the part of the memory main gave it: the       *)
(* matrices, which are aligned within it, end before the next one begins.     *)
THEOREM KernelsKeepToTheirBlocks ==
  ASSUME RoomToAlign
  PROVE  HostSpec => []SafeMemory
<1>1. MainInv => SafeMemory
  BY RoomToAlign, KernelsApart DEF MainInv, SafeMemory
<1>. QED  BY <1>1, MainInvariant, PTL

(* A run of known inputs that is called correct was: every kernel of every    *)
(* context had the right result, and it took ten seconds.                     *)
THEOREM ValidatedRunsAreRight ==
  HostSpec => []M!KnownValidatedMeansRight
<1>1. MainInv => M!KnownValidatedMeansRight
  BY KnownValidated DEF MainInv
<1>. QED  BY <1>1, MainInvariant, PTL

(* And errors are reported only of a run that had one, unless the CRC of its  *)
(* inputs is that of other, known ones.                                       *)
THEOREM VerdictsRight ==
  ASSUME NoCollision
  PROVE  HostSpec => []VerdictRight
<1>1. MainInv => VerdictRight
  BY NoCollision, KnownValidated, ErrorsTold DEF MainInv, VerdictRight, M!VerdictRight
<1>. QED  BY <1>1, MainInvariant, PTL
=============================================================================
