----------------------------- MODULE ArxSyscalls -----------------------------
(***************************************************************************)
(* The system calls under the C library (arx_hal/syscalls.c): the heap that _sbrk       *)
(* hands out, and _write, which polls the JTAG UART for space before every character     *)
(* while the host takes characters out at its own pace.                                *)
(***************************************************************************)
EXTENDS Integers, Sequences

CONSTANTS
  Ends,            \* where the program's data ends (_end): in pages of 4 KiB
  Incr,            \* pages asked of _sbrk at a time
  Lengths,         \* characters of a _write
  MaxWrites,       \* calls of _write
  Capacity         \* characters the UART holds

(* In pages: the reserve of linker.ld, and the end _sbrk knows.                          *)
Reserve == 8
heap_end == 4

VARIABLES
  end, heap_ptr, refused,     \* refused: the size of a call that failed, else 0
  pc, i, len, polled, writes,
  fifo, received,             \* characters are numbered as they are written
  written

heap == <<end, heap_ptr, refused>>
uart == <<pc, i, len, polled, writes, fifo, received, written>>
vars == <<heap, uart>>

Init ==
  /\ end \in Ends /\ heap_ptr = end /\ refused = 0
  /\ pc = "program" /\ i = 0 /\ len = 0 /\ polled = FALSE /\ writes = 0
  /\ fifo = <<>> /\ received = <<>> /\ written = 0

(* The library gives back no more than it was given.                                  *)
_sbrk(incr) ==
  /\ pc = "program" /\ heap_ptr + incr >= end
  /\ IF heap_ptr + incr > heap_end
     THEN refused' = incr /\ UNCHANGED heap_ptr
     ELSE refused' = 0 /\ heap_ptr' = heap_ptr + incr
  /\ UNCHANGED <<end, uart>>
Give == \E incr \in Incr : _sbrk(incr)
Release == \E n \in Incr : _sbrk(-n)

_write ==
  /\ pc = "program" /\ writes < MaxWrites /\ writes' = writes + 1
  /\ len' \in Lengths /\ i' = 0 /\ pc' = "write" /\ polled' = FALSE
  /\ UNCHANGED <<heap, fifo, received, written>>

(* One reading of the status, and the store that follows a reading with space.           *)
Bug_HasSpace == TRUE
HasSpace == Len(fifo) < Capacity
Poll ==
  /\ pc = "write" /\ i < len /\ ~ polled
  /\ polled' = HasSpace
  /\ UNCHANGED <<heap, pc, i, len, writes, fifo, received, written>>
Put ==
  /\ pc = "write" /\ polled
  /\ fifo' = IF Len(fifo) < Capacity THEN Append(fifo, written + 1) ELSE fifo
  /\ written' = written + 1 /\ i' = i + 1 /\ polled' = FALSE
  /\ UNCHANGED <<heap, pc, len, writes, received>>
Return ==
  /\ pc = "write" /\ i = len /\ pc' = "program"
  /\ UNCHANGED <<heap, i, len, polled, writes, fifo, received, written>>

(* The terminal on the host, which runs as long as it is attached.                      *)
Host ==
  /\ fifo # <<>> /\ received' = Append(received, Head(fifo)) /\ fifo' = Tail(fifo)
  /\ UNCHANGED <<heap, pc, i, len, polled, writes, written>>

Program == Give \/ Release \/ _write \/ Poll \/ Put \/ Return
Next == Program \/ Host
Fairness == WF_vars(Poll) /\ WF_vars(Put) /\ WF_vars(Return) /\ WF_vars(Host)
Spec == Init /\ [][Next]_vars /\ Fairness

-----------------------------------------------------------------------------
(* The heap stays in the part of the RAM that the linker reserves for it: it never grows    *)
(* into the stack.                                                                  *)
HeapInReserve == heap_ptr \in end .. end + Reserve

(* The host receives every character, once and in order.                                *)
NothingLost == received \o fifo = [k \in 1 .. written |-> k]

(* Every _write returns, if a terminal is attached.                                      *)
WriteReturns == pc = "write" ~> pc = "program"
=============================================================================
