----------------------------- MODULE CoreParallel -----------------------------
(***************************************************************************)
(* The parallel contexts of CoreMark on a host (linux/core_portme.c; the linux64 *)
(* and cygwin ports hold the same text): main starts iterate once per context     *)
(* and gathers the results, with threads, with processes that leave them in       *)
(* shared memory, or with processes that send them in a datagram. Both functions   *)
(* return a status and main looks at neither.                                    *)
(***************************************************************************)
EXTENDS Integers

CONSTANTS
  MULTITHREAD,      \* contexts the build allows
  Methods,          \* USE_PTHREAD, USE_FORK, USE_SOCKET
  Calibrates,       \* whether main has calibrated the iterations, with context 0
  FaultSets,        \* what may go wrong: calls that fail (fork, shmat), a signal (stop)
  Runs              \* runs of the program, one after the other

ASSUME ContextsAssumption == MULTITHREAD \in Nat

VARIABLES
  method, auto, faults, run, contexts,
  pc, i,            \* main: the loop it is in and its counter
  child,            \* per context: the process or thread
  own,              \* per context: the results in the child's own memory
  results,          \* the results in main's memory
  shm,              \* the shared segments, which the system keeps after the program
  bound, mail,      \* the ports main listens on, and the datagrams waiting there
  lost              \* the contexts whose datagram found no listener

vars == <<method, auto, faults, run, contexts, pc, i, child, own, results, shm, bound, mail, lost>>

Ctx == 0 .. MULTITHREAD - 1
Answer(c) == <<"answer", c, run>>
Garbage == <<"garbage">>
Calibrated == <<"calibrated">>
Zero == <<"zero">>
None == <<>>

(* The memory a run starts with: main's results are uninitialised, but those of     *)
(* context 0 once the number of iterations was calibrated.                       *)
Fresh(a) == [c \in Ctx |-> IF a /\ c = 0 THEN Calibrated ELSE Garbage]

Init ==
  /\ method \in Methods /\ auto \in Calibrates /\ faults \in FaultSets /\ run = 1 /\ contexts \in 1 .. MULTITHREAD
  /\ pc = "start" /\ i = 0
  /\ child = [c \in Ctx |-> "none"] /\ own = [c \in Ctx |-> None]
  /\ results = Fresh(auto)
  /\ shm = [c \in Ctx |-> None]
  /\ bound = {} /\ mail = [c \in Ctx |-> None] /\ lost = {}

(* The key of the segment of a context, or its port: the counter is advanced at     *)
(* every start.                                                                  *)
Bug_Key(c) == 0
Key(c) == c

-----------------------------------------------------------------------------
(* core_start_parallel. fork and pthread_create return at once, and the child may    *)
(* be ahead of main from here on.                                                *)
Launch ==
  /\ pc = "start" /\ i < contexts
  /\ \/ child' = [child EXCEPT ![i] = "running"]
     \/ "fork" \in faults /\ method # "pthread" /\ child' = [child EXCEPT ![i] = "failed"]
  /\ IF method = "pthread" THEN pc' = pc /\ i' = i + 1 ELSE pc' = "open" /\ i' = i
  /\ UNCHANGED <<method, auto, faults, run, contexts, own, results, shm, bound, mail, lost>>

(* After the fork main makes the segment, or its socket. A segment that exists is    *)
(* taken as it is.                                                               *)
Attached(k) == [shm EXCEPT ![k] = IF @ = None THEN Zero ELSE @]
Open ==
  /\ pc = "open" /\ pc' = "start" /\ i' = i + 1
  /\ IF method = "fork"
     THEN shm' = Attached(Key(i)) /\ UNCHANGED bound
     ELSE bound' = bound \cup {Key(i)} /\ UNCHANGED shm
  /\ UNCHANGED <<method, auto, faults, run, contexts, child, own, results, mail, lost>>

AllStarted ==
  /\ pc = "start" /\ i = contexts
  /\ pc' = "stop" /\ i' = 0
  /\ UNCHANGED <<method, auto, faults, run, contexts, child, own, results, shm, bound, mail, lost>>

-----------------------------------------------------------------------------
(* The child: iterate on its own copy of the memory, or, as a thread, on main's.     *)
Iterate(c) ==
  /\ child[c] = "running" /\ own[c] = None
  /\ own' = [own EXCEPT ![c] = Answer(c)]
  /\ IF method = "pthread"
     THEN /\ results' = [results EXCEPT ![c] = Answer(c)]
          /\ child' = [child EXCEPT ![c] = "exited"]
     ELSE UNCHANGED <<results, child>>
  /\ UNCHANGED <<method, auto, faults, run, contexts, pc, i, shm, bound, mail, lost>>

(* It leaves the results in the segment and exits; if it cannot attach the segment   *)
(* it only says so.                                                              *)
Deposit(c) ==
  /\ method = "fork" /\ child[c] = "running" /\ own[c] # None
  /\ child' = [child EXCEPT ![c] = "exited"]
  /\ \/ shm' = [shm EXCEPT ![Key(c)] = own[c]]
     \/ "shmat" \in faults /\ shm' = Attached(Key(c))
  /\ UNCHANGED <<method, auto, faults, run, contexts, pc, i, own, results, bound, mail, lost>>

(* Or it sends them: a datagram to a port nobody has bound yet is dropped.           *)
Send(c) ==
  /\ method = "socket" /\ child[c] = "running" /\ own[c] # None
  /\ child' = [child EXCEPT ![c] = "exited"]
  /\ IF Key(c) \in bound
     THEN mail' = [mail EXCEPT ![Key(c)] = own[c]] /\ UNCHANGED lost
     ELSE lost' = lost \cup {c} /\ UNCHANGED mail
  /\ UNCHANGED <<method, auto, faults, run, contexts, pc, i, own, results, shm, bound>>

(* A signal may stop a process for good.                                         *)
Stopped(c) ==
  /\ "stop" \in faults /\ method # "pthread" /\ child[c] = "running"
  /\ child' = [child EXCEPT ![c] = "stopped"]
  /\ UNCHANGED <<method, auto, faults, run, contexts, pc, i, own, results, shm, bound, mail, lost>>

-----------------------------------------------------------------------------
(* core_stop_parallel. The next context, or, for processes with shared memory, the   *)
(* copy that follows a successful wait. A child that exited is gone once waited for; *)
(* a stopped one is reported once.                                               *)
NextStop == pc' = "stop" /\ i' = i + 1
Waited(c) == [child EXCEPT ![c] = IF @ = "exited" THEN "reaped" ELSE "reported"]
Bug_Awaited(c) == c + 1
Awaited(c) == c

Join ==
  /\ pc = "stop" /\ i < contexts /\ method = "pthread"
  /\ Awaited(i) \in Ctx /\ child[Awaited(i)] = "exited"
  /\ child' = Waited(Awaited(i)) /\ NextStop
  /\ UNCHANGED <<method, auto, faults, run, contexts, own, results, shm, bound, mail, lost>>

(* Asked to wait for the child, waitpid also returns when it is stopped (WUNTRACED), *)
(* and fails at once when it was waited for before.                               *)
WaitChild ==
  /\ pc = "stop" /\ i < contexts /\ method = "fork" /\ child[i] # "failed"
  /\ Awaited(i) \in Ctx
  /\ \/ /\ child[Awaited(i)] \in {"exited", "stopped"}
        /\ child' = Waited(Awaited(i))
        /\ pc' = "copy" /\ i' = i
     \/ child[Awaited(i)] = "reaped" /\ NextStop /\ UNCHANGED child
  /\ UNCHANGED <<method, auto, faults, run, contexts, own, results, shm, bound, mail, lost>>

(* The pid of a fork that failed, -1, stands for any child: the wait takes one away   *)
(* from another context. Without a child it returns -1, which passes for success.    *)
WaitAny ==
  /\ pc = "stop" /\ i < contexts /\ method = "fork" /\ child[i] = "failed"
  /\ \/ \E c \in Ctx :
          /\ child[c] \in {"exited", "stopped"}
          /\ child' = Waited(c)
          /\ NextStop
     \/ /\ \A c \in Ctx : child[c] \in {"none", "failed", "reaped"}
        /\ pc' = "copy" /\ i' = i /\ UNCHANGED child
  /\ UNCHANGED <<method, auto, faults, run, contexts, own, results, shm, bound, mail, lost>>

Copy ==
  /\ pc = "copy" /\ NextStop
  /\ \/ results' = [results EXCEPT ![i] = shm[Key(i)]]
     \/ "shmat" \in faults /\ UNCHANGED results
  /\ UNCHANGED <<method, auto, faults, run, contexts, child, own, shm, bound, mail, lost>>

(* recvfrom waits for the datagram; then the child is waited for.                  *)
Receive ==
  /\ pc = "stop" /\ i < contexts /\ method = "socket" /\ mail[Key(i)] # None
  /\ results' = [results EXCEPT ![i] = mail[Key(i)]]
  /\ mail' = [mail EXCEPT ![Key(i)] = None] /\ pc' = "wait"
  /\ UNCHANGED <<method, auto, faults, run, contexts, i, child, own, shm, bound, lost>>
WaitSender ==
  /\ pc = "wait" /\ child[i] \in {"exited", "stopped"}
  /\ child' = Waited(i) /\ NextStop
  /\ UNCHANGED <<method, auto, faults, run, contexts, own, results, shm, bound, mail, lost>>

AllStopped ==
  /\ pc = "stop" /\ i = contexts /\ pc' = "report"
  /\ UNCHANGED <<method, auto, faults, run, contexts, i, child, own, results, shm, bound, mail, lost>>

(* The program ends and is run again: the segments are never removed.              *)
Again ==
  /\ pc = "report" /\ run < Runs /\ run' = run + 1
  /\ pc' = "start" /\ i' = 0
  /\ child' = [c \in Ctx |-> "none"] /\ own' = [c \in Ctx |-> None]
  /\ results' = Fresh(auto)
  /\ bound' = {} /\ mail' = [c \in Ctx |-> None] /\ lost' = {}
  /\ UNCHANGED <<method, auto, faults, contexts, shm>>

Main == Launch \/ Open \/ AllStarted \/ Join \/ WaitChild \/ WaitAny \/ Copy \/ Receive
          \/ WaitSender \/ AllStopped
Child(c) == Iterate(c) \/ Deposit(c) \/ Send(c)
Next == Main \/ Again \/ \E c \in Ctx : Child(c) \/ Stopped(c)

(* The system schedules main and every child that can run.                        *)
Spec == Init /\ [][Next]_vars /\ WF_vars(Main) /\ \A c \in Ctx : WF_vars(Child(c))

-----------------------------------------------------------------------------
Used == 0 .. contexts - 1
Delivered(c) == own[c] = Answer(c) /\ results[c] = Answer(c)

(* main calls a run correct by its values alone. Values it cannot take for right are   *)
(* those of no computation; values it would are those the calibration left in context   *)
(* 0 and those a run before left in a segment (the README): the inputs are the same.    *)
Refused(c) == results[c] \in {Garbage, Zero, None}
Left(c) == (auto /\ c = 0 /\ results[c] = Calibrated) \/ \E r \in 1 .. run - 1 : results[c] = <<"answer", c, r>>

(* "Stop a parallel context execution of coremark, and gather the results": when    *)
(* main reports, every context has finished and the results are those the context    *)
(* computed in this run. Where something went wrong a context that did not deliver    *)
(* is refused, unless what it did not overwrite was left by an earlier computation;   *)
(* never does a context count with what another one computed.                       *)
NoFalseValid ==
  pc = "report" => \A c \in Used : Delivered(c) \/ (faults # {} /\ (Refused(c) \/ Left(c)))

(* main ends the measured run, unless a child was stopped, or it waits for a datagram  *)
(* that was dropped or that no child sends.                                        *)
Finishes ==
  <>(pc = "report" \/ lost # {} \/ (\E c \in Ctx : child[c] \in {"stopped", "reported"})
       \/ (method = "socket" /\ \E c \in Ctx : child[c] = "failed"))
=============================================================================
