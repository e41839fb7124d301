------------------------------- MODULE ArxDebug -------------------------------
(***************************************************************************)
(* The debug module behind the UART: PacketParser, the command machine of   *)
(* DebugModule, its two DebugMemoryCopiers, PacketBuffer and                *)
(* ResetController, with the host tool on one side and the core's halt      *)
(* logic and two memory ports on the other.  One step is one clock edge.    *)
(*                                                                          *)
(* A request is <<cmd, id, len>> and len bytes of data, a response          *)
(* <<status, id, len>> and len bytes.  A byte has ByteSize values, 256 in   *)
(* the design; pointers and lengths wrap with it, an address is four bytes. *)
(*                                                                          *)
(* A definition Bug_X is a faulty variant of the definition X behind it.    *)
(***************************************************************************)
EXTENDS Integers, Sequences

CONSTANTS
  ByteSize,       \* number of byte values
  TIMEOUT_TICKS,  \* how long the line must be quiet after a parity error
  TIMEOUT_SIZE,   \* number of values of the timeout counter
  RESET_TICKS,    \* length of the reset pulse
  Words,          \* number of words in each memory
  HostPackets,    \* the requests the host tool sends
  BadBytes,       \* which byte of a request may have a parity error, 0 for none
  MaxGap          \* idle cycles between two bytes of one request

Byte  == 0 .. ByteSize - 1
Lanes == 0 .. 3
Space == {"prog", "data"}

CMD_HALT == 0
CMD_RESUME == 1
CMD_READ_PROG == 2
CMD_WRITE_PROG == 3
CMD_READ_DATA == 4
CMD_WRITE_DATA == 5
CMD_RESET == 6
CMD_GET_STATE == 7

STATUS_OK == 0
STATUS_ERROR_PARITY == ByteSize - 1
STATUS_ERROR_ARGS == ByteSize - 2
STATUS_ERROR_CMD == ByteSize - 3

Reads    == {CMD_READ_PROG, CMD_READ_DATA}
Writes   == {CMD_WRITE_PROG, CMD_WRITE_DATA}
SpaceOf(cmd) == IF cmd \in {CMD_READ_PROG, CMD_WRITE_PROG} THEN "prog" ELSE "data"

(* The address in the first four data bytes of a request, below AddrSize.    *)
AddrSize   == ByteSize * ByteSize * ByteSize * ByteSize
AddrOf(pk) == ((pk[4] * ByteSize + pk[5]) * ByteSize + pk[6]) * ByteSize + pk[7]

(* The host tool asks for at least one byte (uart_debug.py, read_data), of   *)
(* memory that exists, and sends its bytes one after the other.              *)
ASSUME HostAssumption ==
  /\ \A pk \in HostPackets :
       /\ pk \in Seq(Byte) /\ Len(pk) >= 3 /\ Len(pk) = 3 + pk[3]
       /\ pk[1] \in Reads /\ pk[3] >= 5 => pk[8] > 0 /\ AddrOf(pk) + pk[8] <= 4 * Words
       /\ pk[1] \in Writes /\ pk[3] >= 4 => AddrOf(pk) + pk[3] - 4 <= 4 * Words
  /\ BadBytes \subseteq Nat
  /\ MaxGap \in Nat /\ MaxGap + 1 < TIMEOUT_TICKS

ASSUME SizeAssumption ==
  /\ ByteSize \in Nat /\ ByteSize > 8
  /\ RESET_TICKS \in Nat \ {0}
  /\ TIMEOUT_TICKS \in Nat /\ TIMEOUT_SIZE \in Nat /\ TIMEOUT_TICKS <= TIMEOUT_SIZE
  /\ Words \in Nat \ {0} /\ 4 * Words <= AddrSize

VARIABLES
  parser,    \* PacketParser
  state, timeout_counter,                \* DebugModule
  copier,    \* DebugMemoryCopier, one for each memory
  buffer,    \* PacketBuffer
  counter,   \* ResetController
  halt_req_in, drained, halted,          \* the core's halt logic
  mem, ack, q,                           \* the two memories behind their ports
  host       \* the request under way, how much of it is sent, the response so far
module == <<parser, state, timeout_counter, copier, buffer, counter>>
core   == <<halt_req_in, drained, halted, mem, ack, q>>
vars   == <<module, core, host>>

Inc(p) == (p + 1) % ByteSize
NoByte == [valid |-> FALSE, byte |-> 0, error |-> FALSE]

-----------------------------------------------------------------------------
(* ResetController and the halt logic of the core.                           *)
soft_reset_n   == counter = 0
soft_reset_ack == counter = 1
m_is_halted    == halt_req_in /\ drained

(* The debugger's acknowledge; that of the data memory comes through the     *)
(* core, which passes it on while it is halted.                              *)
data_ack(sp) == ack[sp] /\ (sp = "data" => m_is_halted)

-----------------------------------------------------------------------------
(* DebugMemoryCopier                                                         *)
copy_write(sp) == state = (IF sp = "prog" THEN "S_CMD_WRITE_PROG" ELSE "S_CMD_WRITE_DATA")
copy_read(sp)  == state = (IF sp = "prog" THEN "S_CMD_READ_PROG" ELSE "S_CMD_READ_DATA")
copy_req(sp)   == copy_write(sp) \/ copy_read(sp)

data_addr(sp) == (copier[sp].start_addr + copier[sp].data_ptr) % AddrSize
Bug_data_req(sp) == copier[sp].state \in {"S_READ", "S_WRITE"}
data_req(sp)  == copier[sp].state \in {"S_READ", "S_WRITE"} /\ ~data_ack(sp)

copier_next(sp) ==
  LET c == copier[sp] IN
  CASE c.state = "S_IDLE"   -> IF copy_req(sp) THEN "S_ADDR_0" ELSE "S_IDLE"
    [] c.state = "S_ADDR_0" -> "S_ADDR_1"
    [] c.state = "S_ADDR_1" -> "S_ADDR_2"
    [] c.state = "S_ADDR_2" -> "S_ADDR_3"
    [] c.state = "S_ADDR_3" -> IF copy_read(sp) THEN "S_LEN"
                               ELSE IF parser.len > 4 THEN "S_WRITE" ELSE "S_IDLE"
    [] c.state = "S_LEN"    -> IF parser.data # 0 THEN "S_READ" ELSE "S_IDLE"
    [] c.state = "S_WRITE"  -> IF data_ack(sp) /\ (c.data_ptr + 5) % ByteSize = parser.len
                               THEN "S_IDLE" ELSE "S_WRITE"
    [] c.state = "S_READ"   -> IF data_ack(sp) /\ Inc(c.data_ptr) = c.read_len
                               THEN "S_IDLE" ELSE "S_READ"
copy_ready(sp) == copier[sp].state # "S_IDLE" /\ copier_next(sp) = "S_IDLE"

(* The byte of the request's data a copier reads at this edge, if any.       *)
Bug_wanted(sp) ==
  LET c == copier[sp] IN
  CASE c.state = "S_IDLE" /\ copy_req(sp) -> {0}
    [] c.state = "S_ADDR_0" -> {1}
    [] c.state = "S_ADDR_1" -> {2}
    [] c.state = "S_ADDR_2" -> {3}
    [] c.state = "S_ADDR_3" -> {4}
    [] c.state = "S_WRITE"  -> {(c.data_ptr + 4) % ByteSize}
    [] OTHER -> {}
wanted(sp) ==
  LET c == copier[sp] IN
  CASE c.state = "S_IDLE" /\ copy_req(sp) -> {0}
    [] c.state = "S_ADDR_0" -> {1}
    [] c.state = "S_ADDR_1" -> {2}
    [] c.state = "S_ADDR_2" -> {3}
    [] c.state = "S_ADDR_3" -> {4}
    [] c.state = "S_WRITE"  ->
         {((IF data_ack(sp) THEN Inc(c.data_ptr) ELSE c.data_ptr) + 4) % ByteSize}
    [] OTHER -> {}

CopierEdge ==
  copier' = [sp \in Space |->
    LET c == copier[sp] IN
    [state      |-> copier_next(sp),
     start_addr |-> IF c.state \in {"S_ADDR_0", "S_ADDR_1", "S_ADDR_2", "S_ADDR_3"}
                    THEN (c.start_addr * ByteSize + parser.data) % AddrSize
                    ELSE c.start_addr,
     data_ptr   |-> IF c.state = "S_IDLE" THEN 0
                    ELSE IF c.state \in {"S_READ", "S_WRITE"} /\ data_ack(sp)
                    THEN Inc(c.data_ptr) ELSE c.data_ptr,
     read_len   |-> IF c.state = "S_LEN" THEN parser.data ELSE c.read_len]]

-----------------------------------------------------------------------------
(* PacketBuffer                                                              *)
send_valid == buffer.state # "S_IDLE"
send_byte ==
  CASE buffer.state = "S_SEND_STATUS" -> buffer.status
    [] buffer.state = "S_SEND_ID"     -> buffer.id
    [] buffer.state = "S_SEND_LEN"    -> buffer.len
    [] OTHER                          -> buffer.payload[buffer.data_ptr]

buffer_next(send_ready) ==
  CASE buffer.state = "S_IDLE" ->
         IF state = "S_WAIT_SEND" THEN "S_SEND_STATUS" ELSE "S_IDLE"
    [] buffer.state = "S_SEND_STATUS" /\ send_ready -> "S_SEND_ID"
    [] buffer.state = "S_SEND_ID" /\ send_ready     -> "S_SEND_LEN"
    [] buffer.state = "S_SEND_LEN" /\ send_ready    ->
         IF buffer.len = 0 THEN "S_IDLE" ELSE "S_SEND_PAYLOAD"
    [] buffer.state = "S_SEND_PAYLOAD" /\ send_ready ->
         IF Inc(buffer.data_ptr) = buffer.len THEN "S_IDLE" ELSE "S_SEND_PAYLOAD"
    [] OTHER -> buffer.state
send_ack(send_ready) == buffer.state # "S_IDLE" /\ buffer_next(send_ready) = "S_IDLE"

(* The states of DebugModule that write the header of the response, and what *)
(* they write; a reading copier writes the payload.                          *)
Errors  == {"S_ERROR_PARITY", "S_ERROR_ARGS", "S_ERROR_CMD"}
answers == state \notin {"S_WAIT_INPUT", "S_WAIT_TIMEOUT", "S_WAIT_SEND"}
out_status ==
  CASE state = "S_ERROR_PARITY" -> STATUS_ERROR_PARITY
    [] state = "S_ERROR_ARGS"   -> STATUS_ERROR_ARGS
    [] state = "S_ERROR_CMD"    -> STATUS_ERROR_CMD
    [] OTHER                    -> STATUS_OK
out_len ==
  CASE state = "S_CMD_STATE"     -> 1
    [] state = "S_CMD_READ_PROG" -> copier["prog"].read_len
    [] state = "S_CMD_READ_DATA" -> copier["data"].read_len
    [] OTHER                     -> 0
out_payload(i) ==
  CASE state = "S_CMD_STATE" /\ i = 0 -> IF halted THEN 1 ELSE 0
    [] \E sp \in Space : /\ copier[sp].state = "S_READ" /\ data_ack(sp)
                         /\ copier[sp].data_ptr = i ->
         LET sp == CHOOSE s \in Space : copier[s].state = "S_READ"
         IN  q[sp][data_addr(sp) % 4]
    [] OTHER -> buffer.payload[i]

BufferEdge(send_ready) ==
  buffer' =
    [state    |-> buffer_next(send_ready),
     status   |-> IF answers THEN out_status ELSE buffer.status,
     id       |-> IF answers THEN parser.id ELSE buffer.id,
     len      |-> IF answers THEN out_len ELSE buffer.len,
     payload  |-> [i \in Byte |-> out_payload(i)],
     data_ptr |-> IF buffer.state = "S_IDLE" /\ state = "S_WAIT_SEND" THEN 0
                  ELSE IF buffer.state = "S_SEND_PAYLOAD" /\ send_ready
                  THEN Inc(buffer.data_ptr) ELSE buffer.data_ptr]

-----------------------------------------------------------------------------
(* DebugModule                                                               *)
Dispatch(cmd, len) ==
  CASE cmd = CMD_HALT       -> "S_CMD_HALT"
    [] cmd = CMD_RESUME     -> "S_CMD_RESUME"
    [] cmd = CMD_READ_PROG  -> IF len >= 5 THEN "S_CMD_READ_PROG" ELSE "S_ERROR_ARGS"
    [] cmd = CMD_WRITE_PROG -> IF len >= 4 THEN "S_CMD_WRITE_PROG" ELSE "S_ERROR_ARGS"
    [] cmd = CMD_READ_DATA  -> IF len >= 5 THEN "S_CMD_READ_DATA" ELSE "S_ERROR_ARGS"
    [] cmd = CMD_WRITE_DATA -> IF len >= 4 THEN "S_CMD_WRITE_DATA" ELSE "S_ERROR_ARGS"
    [] cmd = CMD_RESET      -> "S_CMD_RESET"
    [] cmd = CMD_GET_STATE  -> "S_CMD_STATE"
    [] OTHER                -> "S_ERROR_CMD"

(* A command's state is left when what it waits for has happened.            *)
Bug_done ==   \* a halt is answered when it is requested
  CASE state = "S_CMD_RESUME" -> ~halted
    [] state = "S_CMD_RESET"  -> soft_reset_ack
    [] \E sp \in Space : copy_req(sp) -> \E sp \in Space : copy_req(sp) /\ copy_ready(sp)
    [] OTHER -> TRUE
done ==
  CASE state = "S_CMD_HALT"   -> halted
    [] state = "S_CMD_RESUME" -> ~halted
    [] state = "S_CMD_RESET"  -> soft_reset_ack
    [] \E sp \in Space : copy_req(sp) -> \E sp \in Space : copy_req(sp) /\ copy_ready(sp)
    [] OTHER -> TRUE

Bug_next_state(send_ready) ==   \* answers a parity error without waiting
  CASE state = "S_WAIT_INPUT" ->
         IF parser.state # "S_WAIT_READY" THEN state
         ELSE IF parser.error THEN "S_ERROR_PARITY" ELSE Dispatch(parser.cmd, parser.len)
    [] state = "S_WAIT_SEND" -> IF send_ack(send_ready) THEN "S_WAIT_INPUT" ELSE state
    [] OTHER -> IF done THEN "S_WAIT_SEND" ELSE state
next_state(send_ready) ==
  CASE state = "S_WAIT_INPUT" ->
         IF parser.state # "S_WAIT_READY" THEN state
         ELSE IF parser.error THEN "S_WAIT_TIMEOUT" ELSE Dispatch(parser.cmd, parser.len)
    [] state = "S_WAIT_TIMEOUT" ->
         IF timeout_counter = TIMEOUT_TICKS - 1 THEN "S_ERROR_PARITY" ELSE state
    [] state = "S_WAIT_SEND" -> IF send_ack(send_ready) THEN "S_WAIT_INPUT" ELSE state
    [] OTHER -> IF done THEN "S_WAIT_SEND" ELSE state

Bug_timeout_next(line) ==     \* bytes of the bad request do not restart it
  CASE state = "S_WAIT_TIMEOUT" -> (timeout_counter + 1) % TIMEOUT_SIZE
    [] OTHER                    -> 0
timeout_next(line) ==
  CASE line.valid -> 0
    [] ~line.valid /\ state = "S_WAIT_TIMEOUT" -> (timeout_counter + 1) % TIMEOUT_SIZE
    [] OTHER -> timeout_counter

ModuleEdge(line, send_ready) ==
  /\ state' = next_state(send_ready)
  /\ timeout_counter' = timeout_next(line)

ResetEdge ==
  counter' = IF ~soft_reset_n THEN counter - 1
             ELSE IF state = "S_CMD_RESET" THEN RESET_TICKS ELSE 0

-----------------------------------------------------------------------------
(* PacketParser: the byte on the line, and the copiers' reads.               *)
Bug_after_len(b) == "S_WAIT_DATA"
after_len(b)     == IF b = 0 THEN "S_WAIT_READY" ELSE "S_WAIT_DATA"
parser_next(line) ==
  CASE parser.state = "S_WAIT_CMD"  -> "S_WAIT_ID"
    [] parser.state = "S_WAIT_ID"   -> "S_WAIT_LEN"
    [] parser.state = "S_WAIT_LEN"  -> after_len(line.byte)
    [] parser.state = "S_WAIT_DATA" ->
         IF Inc(parser.data_ptr) = parser.len THEN "S_WAIT_READY" ELSE "S_WAIT_DATA"

ParserEdge(line, send_ready) ==
  LET inp_packet_ready == state = "S_WAIT_SEND" /\ send_ack(send_ready)
      s     == parser.state
      in(x) == line.valid /\ s = x
      reads == wanted("prog") \cup wanted("data")
  IN
  parser' =
    [state    |-> IF s = "S_WAIT_READY"
                  THEN IF inp_packet_ready THEN "S_WAIT_CMD" ELSE s
                  ELSE IF ~line.valid THEN s
                  ELSE IF line.error THEN "S_WAIT_READY" ELSE parser_next(line),
     cmd      |-> IF in("S_WAIT_CMD") THEN line.byte ELSE parser.cmd,
     id       |-> IF in("S_WAIT_ID") THEN line.byte ELSE parser.id,
     len      |-> IF in("S_WAIT_LEN") THEN line.byte ELSE parser.len,
     data_ptr |-> IF in("S_WAIT_LEN") THEN 0
                  ELSE IF in("S_WAIT_DATA") THEN Inc(parser.data_ptr) ELSE parser.data_ptr,
     buf      |-> IF in("S_WAIT_DATA") THEN [parser.buf EXCEPT ![parser.data_ptr] = line.byte]
                  ELSE parser.buf,
     error    |-> IF s = "S_WAIT_READY" THEN parser.error /\ ~inp_packet_ready
                  ELSE IF line.valid THEN line.error ELSE parser.error,
     data     |-> IF reads = {} THEN parser.data ELSE parser.buf[CHOOSE i \in reads : TRUE]]

-----------------------------------------------------------------------------
(* The core as the debug module sees it: it drains some time after a halt    *)
(* request and stays so until a resume request or a reset.                   *)
CoreEdge(drains) ==
  /\ halt_req_in' = /\ counter' = 0
                    /\ state = "S_CMD_HALT" \/ (halt_req_in /\ state # "S_CMD_RESUME")
  /\ drained' = (halt_req_in' /\ (m_is_halted \/ drains))
  /\ halted' = (counter' = 0 /\ m_is_halted)

(* The ports: RamPort for the program memory, the core's data port for the   *)
(* data memory, which the arbiter may grant later.                           *)
PortEdge(grant) ==
  LET performs(sp) == data_req(sp) /\ (sp = "data" => m_is_halted /\ grant)
      word(sp) == data_addr(sp) \div 4
  IN
  /\ ack' = [sp \in Space |-> performs(sp)]
  /\ q' = [sp \in Space |-> IF performs(sp) THEN mem[sp][word(sp)] ELSE q[sp]]
  /\ mem' = [sp \in Space |->
       IF performs(sp) /\ copier[sp].state = "S_WRITE"
       THEN [mem[sp] EXCEPT ![word(sp)][data_addr(sp) % 4] = parser.data]
       ELSE mem[sp]]

-----------------------------------------------------------------------------
(* The host tool: one request at a time, the bytes of a request in a row,    *)
(* any of them with a parity error, the next request after the response.     *)
(* Data memory is accessed while the core is halted.                         *)
complete == /\ host.sent = Len(host.request)
            /\ Len(host.received) >= 3 /\ Len(host.received) = 3 + host.received[3]
LineByte(pk, n, bad) == [valid |-> TRUE, byte |-> IF n = bad THEN 0 ELSE pk[n], error |-> n = bad]
Heard(r, send_ready) == IF send_valid /\ send_ready THEN Append(r, send_byte) ELSE r

HostStarts(pk, bad) ==
  /\ complete /\ ~send_valid
  /\ bad <= Len(pk)
  /\ pk[1] \in {CMD_READ_DATA, CMD_WRITE_DATA} => halted
  /\ host' = [request |-> pk, bad |-> bad, sent |-> 1, gap |-> 0,
              received |-> <<>>, before |-> mem]

sending == host.sent < Len(host.request)
HostSends(send_ready) ==
  /\ sending
  /\ host' = [host EXCEPT !.sent = @ + 1, !.gap = 0, !.received = Heard(@, send_ready)]

HostWaits(send_ready) ==
  /\ sending => host.gap < MaxGap
  /\ host' = [host EXCEPT !.gap = IF sending THEN @ + 1 ELSE 0,
                          !.received = Heard(@, send_ready)]

-----------------------------------------------------------------------------
Init ==
  /\ parser = [state |-> "S_WAIT_CMD", cmd |-> 0, id |-> 0, len |-> 0, data_ptr |-> 0,
               buf |-> [i \in Byte |-> 0], error |-> FALSE, data |-> 0]
  /\ state = "S_WAIT_INPUT" /\ timeout_counter = 0
  /\ copier = [sp \in Space |->
                 [state |-> "S_IDLE", start_addr |-> 0, data_ptr |-> 0, read_len |-> 0]]
  /\ buffer = [state |-> "S_IDLE", status |-> 0, id |-> 0, len |-> 0,
               payload |-> [i \in Byte |-> 0], data_ptr |-> 0]
  /\ counter = 0
  /\ halt_req_in = FALSE /\ drained = FALSE /\ halted = FALSE
  /\ mem = [sp \in Space |-> [w \in 0 .. Words - 1 |->
                            [l \in Lanes |-> (4 * w + l) % ByteSize]]]
  /\ ack = [sp \in Space |-> FALSE]
  /\ q = [sp \in Space |-> [l \in Lanes |-> 0]]
  /\ host = [request |-> <<CMD_GET_STATE, 0, 0>>, bad |-> 0, sent |-> 3, gap |-> 0,
             received |-> <<STATUS_OK, 0, 1, 0>>, before |-> mem]

Clock(line, send_ready, grant, drains) ==
  /\ ParserEdge(line, send_ready)
  /\ ModuleEdge(line, send_ready)
  /\ CopierEdge
  /\ BufferEdge(send_ready)
  /\ ResetEdge
  /\ CoreEdge(drains)
  /\ PortEdge(grant)

Step(send_ready, grant, drains) ==
  \/ \E pk \in HostPackets, bad \in BadBytes :
       HostStarts(pk, bad) /\ Clock(LineByte(pk, 1, bad), send_ready, grant, drains)
  \/ /\ HostSends(send_ready)
     /\ Clock(LineByte(host.request, host.sent + 1, host.bad), send_ready, grant, drains)
  \/ HostWaits(send_ready) /\ Clock(NoByte, send_ready, grant, drains)

(* A choice of the environment where it makes a difference.                  *)
Choice(p) == IF p THEN BOOLEAN ELSE {FALSE}
Next == \E send_ready \in Choice(send_valid), drains \in Choice(~drained),
           grant \in Choice(m_is_halted /\ data_req("data")) :
          Step(send_ready, grant, drains)
Spec == Init /\ [][Next]_vars

(* The clock never stops, the UART takes every byte in the end, the arbiter  *)
(* grants the request in the end, a core asked to halt drains in the end     *)
(* (ArxPipeline).                                                            *)
Fairness ==
  /\ WF_vars(Next)
  /\ WF_vars(send_valid /\ \E g, d \in BOOLEAN : Step(TRUE, g, d))
  /\ WF_vars(data_req("data") /\ m_is_halted /\ \E r, d \in BOOLEAN : Step(r, TRUE, d))
  /\ WF_vars(state = "S_CMD_HALT" /\ \E r, g \in BOOLEAN : Step(r, g, TRUE))
FairSpec == Spec /\ Fairness

-----------------------------------------------------------------------------
(* The answer the protocol of uart_debug.py promises to the request.         *)
ByteAt(m, sp, a) == m[sp][a \div 4][a % 4]
Answer(pk) ==
  LET ok == <<STATUS_OK, pk[2]>> IN
  CASE pk[1] \in {CMD_HALT, CMD_RESUME, CMD_RESET} -> Append(ok, 0)
    [] pk[1] = CMD_GET_STATE -> ok \o <<1, IF halted THEN 1 ELSE 0>>
    [] pk[1] \in Reads /\ pk[3] >= 5 ->
         ok \o <<pk[8]>> \o [i \in 1 .. pk[8] |->
                               ByteAt(host.before, SpaceOf(pk[1]), AddrOf(pk) + i - 1)]
    [] pk[1] \in Writes /\ pk[3] >= 4 -> Append(ok, 0)
    [] pk[1] \in Reads \cup Writes /\ pk[3] < (IF pk[1] \in Reads THEN 5 ELSE 4) ->
         <<STATUS_ERROR_ARGS, pk[2], 0>>
    [] OTHER -> <<STATUS_ERROR_CMD, pk[2], 0>>

(* Every request gets one answer, the right one for this request: whatever   *)
(* was received, dropped, read or sent before leaves no trace in it.  After  *)
(* a parity error the status says so; the id is the request's if it arrived. *)
AnswerRight ==
  complete =>
    IF host.bad = 0 THEN host.received = Answer(host.request)
    ELSE /\ host.received[1] = STATUS_ERROR_PARITY /\ Len(host.received) = 3
         /\ host.bad > 2 => host.received[2] = host.request[2]

(* A request has exactly its effect on memory, when it is answered, and none *)
(* if it was received with an error.                                         *)
EffectRight ==
  complete =>
    LET pk == host.request
        writes(sp, a) == /\ host.bad = 0 /\ pk[1] \in Writes /\ pk[3] >= 4
                         /\ sp = SpaceOf(pk[1])
                         /\ a \in AddrOf(pk) .. AddrOf(pk) + pk[3] - 5
    IN  \A sp \in Space, a \in 0 .. 4 * Words - 1 :
          ByteAt(mem, sp, a) = IF writes(sp, a) THEN pk[8 + a - AddrOf(pk)]
                               ELSE ByteAt(host.before, sp, a)

(* The answer to halt, resume or reset means that the core has halted, runs, *)
(* or has been through reset.                                                *)
ControlRight ==
  complete /\ host.bad = 0 =>
    /\ host.request[1] = CMD_HALT => halted
    /\ host.request[1] \in {CMD_RESUME, CMD_RESET} => ~halted /\ soft_reset_n

(* The module speaks only when the host has sent the last byte of its        *)
(* request, and at no time after the answer: the two stay in step, also when *)
(* a parity error ends a request in the middle and the rest still arrives.   *)
InStep ==
  /\ send_valid => host.sent = Len(host.request)
  /\ complete => ~send_valid

(* No byte of a good request meets a parser that is not listening.           *)
NoByteDropped ==
  [][host'.sent # host.sent /\ parser.state = "S_WAIT_READY" =>
       host'.bad # 0 /\ host'.bad < host'.sent]_vars

(* Every request is answered.                                                *)
Answers == host.sent = Len(host.request) ~> complete
=============================================================================
