---------------------------- MODULE ArxDebugProofs ----------------------------
(***************************************************************************)
(* Theorems about ArxDebug, for bytes of any size, any well formed requests, *)
(* any timeout longer than the pauses on the line, any memory.              *)
(***************************************************************************)
EXTENDS ArxDebug, SequenceTheorems, TLAPS

-----------------------------------------------------------------------------
(* The nets, case by case.                                                   *)
Line   == [valid : BOOLEAN, byte : Byte, error : BOOLEAN]
ParserStates == {"S_WAIT_CMD", "S_WAIT_ID", "S_WAIT_LEN", "S_WAIT_DATA", "S_WAIT_READY"}
BufferStates == {"S_IDLE", "S_SEND_STATUS", "S_SEND_ID", "S_SEND_LEN", "S_SEND_PAYLOAD"}
CopierStates == {"S_IDLE", "S_ADDR_0", "S_ADDR_1", "S_ADDR_2", "S_ADDR_3", "S_LEN", "S_READ", "S_WRITE"}
Waits    == {"S_WAIT_INPUT", "S_WAIT_TIMEOUT", "S_WAIT_SEND"}
Commands == {"S_CMD_HALT", "S_CMD_RESUME", "S_CMD_READ_PROG", "S_CMD_WRITE_PROG", "S_CMD_READ_DATA",
             "S_CMD_WRITE_DATA", "S_CMD_RESET", "S_CMD_STATE", "S_ERROR_ARGS", "S_ERROR_CMD"}
States   == Waits \cup Commands \cup {"S_ERROR_PARITY"}

(* The command codes are different, and each leads to its state.             *)
LEMMA Dispatched ==
  ASSUME NEW c \in Byte, NEW len \in Byte
  PROVE  /\ c = CMD_HALT => Dispatch(c, len) = "S_CMD_HALT"
         /\ c = CMD_RESUME => Dispatch(c, len) = "S_CMD_RESUME"
         /\ c = CMD_READ_PROG => Dispatch(c, len) = (IF len >= 5 THEN "S_CMD_READ_PROG" ELSE "S_ERROR_ARGS")
         /\ c = CMD_WRITE_PROG => Dispatch(c, len) = (IF len >= 4 THEN "S_CMD_WRITE_PROG" ELSE "S_ERROR_ARGS")
         /\ c = CMD_READ_DATA => Dispatch(c, len) = (IF len >= 5 THEN "S_CMD_READ_DATA" ELSE "S_ERROR_ARGS")
         /\ c = CMD_WRITE_DATA => Dispatch(c, len) = (IF len >= 4 THEN "S_CMD_WRITE_DATA" ELSE "S_ERROR_ARGS")
         /\ c = CMD_RESET => Dispatch(c, len) = "S_CMD_RESET"
         /\ c = CMD_GET_STATE => Dispatch(c, len) = "S_CMD_STATE"
         /\ c \notin {CMD_HALT, CMD_RESUME, CMD_READ_PROG, CMD_WRITE_PROG, CMD_READ_DATA, CMD_WRITE_DATA,
                     CMD_RESET, CMD_GET_STATE} => Dispatch(c, len) = "S_ERROR_CMD"
<1>1. ASSUME c = CMD_HALT
      PROVE  Dispatch(c, len) = "S_CMD_HALT"
  <2>1. /\ c # CMD_RESUME /\ c # CMD_READ_PROG /\ c # CMD_WRITE_PROG /\ c # CMD_READ_DATA
        /\ c # CMD_WRITE_DATA /\ c # CMD_RESET /\ c # CMD_GET_STATE
    BY <1>1 DEF CMD_HALT, CMD_RESUME, CMD_READ_PROG, CMD_WRITE_PROG, CMD_READ_DATA, CMD_WRITE_DATA,
                     CMD_RESET, CMD_GET_STATE
  <2>. QED  BY <1>1, <2>1, Zenon DEF Dispatch
<1>2. ASSUME c = CMD_RESUME
      PROVE  Dispatch(c, len) = "S_CMD_RESUME"
  <2>1. /\ c # CMD_HALT /\ c # CMD_READ_PROG /\ c # CMD_WRITE_PROG /\ c # CMD_READ_DATA
        /\ c # CMD_WRITE_DATA /\ c # CMD_RESET /\ c # CMD_GET_STATE
    BY <1>2 DEF CMD_HALT, CMD_RESUME, CMD_READ_PROG, CMD_WRITE_PROG, CMD_READ_DATA, CMD_WRITE_DATA,
                     CMD_RESET, CMD_GET_STATE
  <2>. QED  BY <1>2, <2>1, Zenon DEF Dispatch
<1>3. ASSUME c = CMD_READ_PROG
      PROVE  Dispatch(c, len) = IF len >= 5 THEN "S_CMD_READ_PROG" ELSE "S_ERROR_ARGS"
  <2>1. /\ c # CMD_HALT /\ c # CMD_RESUME /\ c # CMD_WRITE_PROG /\ c # CMD_READ_DATA
        /\ c # CMD_WRITE_DATA /\ c # CMD_RESET /\ c # CMD_GET_STATE
    BY <1>3 DEF CMD_HALT, CMD_RESUME, CMD_READ_PROG, CMD_WRITE_PROG, CMD_READ_DATA, CMD_WRITE_DATA,
                     CMD_RESET, CMD_GET_STATE
  <2>. QED  BY <1>3, <2>1, Zenon DEF Dispatch
<1>4. ASSUME c = CMD_WRITE_PROG
      PROVE  Dispatch(c, len) = IF len >= 4 THEN "S_CMD_WRITE_PROG" ELSE "S_ERROR_ARGS"
  <2>1. /\ c # CMD_HALT /\ c # CMD_RESUME /\ c # CMD_READ_PROG /\ c # CMD_READ_DATA
        /\ c # CMD_WRITE_DATA /\ c # CMD_RESET /\ c # CMD_GET_STATE
    BY <1>4 DEF CMD_HALT, CMD_RESUME, CMD_READ_PROG, CMD_WRITE_PROG, CMD_READ_DATA, CMD_WRITE_DATA,
                     CMD_RESET, CMD_GET_STATE
  <2>. QED  BY <1>4, <2>1, Zenon DEF Dispatch
<1>5. ASSUME c = CMD_READ_DATA
      PROVE  Dispatch(c, len) = IF len >= 5 THEN "S_CMD_READ_DATA" ELSE "S_ERROR_ARGS"
  <2>1. /\ c # CMD_HALT /\ c # CMD_RESUME /\ c # CMD_READ_PROG /\ c # CMD_WRITE_PROG
        /\ c # CMD_WRITE_DATA /\ c # CMD_RESET /\ c # CMD_GET_STATE
    BY <1>5 DEF CMD_HALT, CMD_RESUME, CMD_READ_PROG, CMD_WRITE_PROG, CMD_READ_DATA, CMD_WRITE_DATA,
                     CMD_RESET, CMD_GET_STATE
  <2>. QED  BY <1>5, <2>1, Zenon DEF Dispatch
<1>6. ASSUME c = CMD_WRITE_DATA
      PROVE  Dispatch(c, len) = IF len >= 4 THEN "S_CMD_WRITE_DATA" ELSE "S_ERROR_ARGS"
  <2>1. /\ c # CMD_HALT /\ c # CMD_RESUME /\ c # CMD_READ_PROG /\ c # CMD_WRITE_PROG
        /\ c # CMD_READ_DATA /\ c # CMD_RESET /\ c # CMD_GET_STATE
    BY <1>6 DEF CMD_HALT, CMD_RESUME, CMD_READ_PROG, CMD_WRITE_PROG, CMD_READ_DATA, CMD_WRITE_DATA,
                     CMD_RESET, CMD_GET_STATE
  <2>. QED  BY <1>6, <2>1, Zenon DEF Dispatch
<1>7. ASSUME c = CMD_RESET
      PROVE  Dispatch(c, len) = "S_CMD_RESET"
  <2>1. /\ c # CMD_HALT /\ c # CMD_RESUME /\ c # CMD_READ_PROG /\ c # CMD_WRITE_PROG
        /\ c # CMD_READ_DATA /\ c # CMD_WRITE_DATA /\ c # CMD_GET_STATE
    BY <1>7 DEF CMD_HALT, CMD_RESUME, CMD_READ_PROG, CMD_WRITE_PROG, CMD_READ_DATA, CMD_WRITE_DATA,
                     CMD_RESET, CMD_GET_STATE
  <2>. QED  BY <1>7, <2>1, Zenon DEF Dispatch
<1>8. ASSUME c = CMD_GET_STATE
      PROVE  Dispatch(c, len) = "S_CMD_STATE"
  <2>1. /\ c # CMD_HALT /\ c # CMD_RESUME /\ c # CMD_READ_PROG /\ c # CMD_WRITE_PROG
        /\ c # CMD_READ_DATA /\ c # CMD_WRITE_DATA /\ c # CMD_RESET
    BY <1>8 DEF CMD_HALT, CMD_RESUME, CMD_READ_PROG, CMD_WRITE_PROG, CMD_READ_DATA, CMD_WRITE_DATA,
                     CMD_RESET, CMD_GET_STATE
  <2>. QED  BY <1>8, <2>1, Zenon DEF Dispatch
<1>. QED  BY <1>1, <1>2, <1>3, <1>4, <1>5, <1>6, <1>7, <1>8, Zenon DEF Dispatch

-----------------------------------------------------------------------------
(* The inductive invariant, machine by machine.                              *)

(* Registers.                                                                *)
ParserType ==
  /\ parser.state \in ParserStates /\ parser.error \in BOOLEAN
  /\ parser.cmd \in Byte /\ parser.len \in Byte /\ parser.data_ptr \in Byte
  /\ parser.buf \in [Byte -> Byte] /\ parser.data \in Byte
CopierType ==
  \A sp \in Space : /\ copier[sp].state \in CopierStates
                    /\ copier[sp].data_ptr \in Byte /\ copier[sp].read_len \in Byte
ModuleType ==
  /\ state \in States /\ timeout_counter \in Nat
  /\ buffer.state \in BufferStates /\ buffer.len \in Byte /\ buffer.data_ptr \in Byte
  /\ counter \in Nat /\ halt_req_in \in BOOLEAN /\ drained \in BOOLEAN /\ halted \in BOOLEAN

(* The host sends a request of its list and receives a sequence.             *)
pk == host.request
IsSequence(r) == \E S : r \in Seq(S)
HostInv ==
  /\ host.request \in HostPackets \cup {<<CMD_GET_STATE, 0, 0>>}
  /\ host.sent \in 1 .. Len(pk) /\ host.bad \in 0 .. Len(pk) /\ host.gap \in 0 .. MaxGap
  /\ IsSequence(host.received)

(* How much of the request the parser has, and whether it was right so far.  *)
Receiving == parser.state \in {"S_WAIT_ID", "S_WAIT_LEN", "S_WAIT_DATA"}
Ready     == parser.state = "S_WAIT_READY"
ParserInv ==
  /\ parser.state = "S_WAIT_CMD" => complete
  /\ Receiving => /\ parser.cmd = pk[1] /\ (host.bad = 0 \/ host.bad > host.sent)
  /\ parser.state = "S_WAIT_ID" => host.sent = 1
  /\ parser.state = "S_WAIT_LEN" => host.sent = 2
  /\ parser.state = "S_WAIT_DATA" =>
       /\ host.sent = 3 + parser.data_ptr /\ parser.data_ptr < pk[3] /\ parser.len = pk[3]
  /\ Ready /\ parser.error => host.bad # 0 /\ host.bad <= host.sent
  /\ Ready /\ ~parser.error =>
       /\ host.sent = Len(pk) /\ host.bad = 0 /\ parser.cmd = pk[1]

(* The command machine: it acts on a request that has arrived, and answers a *)
(* bad one when the line has been quiet for longer than the host pauses.     *)
CommandInv ==
  /\ ~Ready => state = "S_WAIT_INPUT"
  /\ state \in {"S_WAIT_TIMEOUT", "S_ERROR_PARITY"} => parser.error
  /\ state \in Commands => ~parser.error /\ state = Dispatch(parser.cmd, parser.len)
  /\ state \notin {"S_WAIT_INPUT", "S_WAIT_TIMEOUT"} => host.sent = Len(pk)
  /\ sending /\ Ready /\ state \in {"S_WAIT_INPUT", "S_WAIT_TIMEOUT"} => timeout_counter <= host.gap

(* The response buffer: how much of the response the host has.               *)
BufferInv ==
  /\ state # "S_WAIT_SEND" => buffer.state = "S_IDLE"
  /\ parser.state # "S_WAIT_CMD" /\ buffer.state \in {"S_IDLE", "S_SEND_STATUS"} =>
       host.received = <<>>
  /\ buffer.state = "S_SEND_ID"  => Len(host.received) = 1
  /\ buffer.state = "S_SEND_LEN" => Len(host.received) = 2
  /\ buffer.state \in {"S_SEND_STATUS", "S_SEND_ID", "S_SEND_LEN"} => buffer.data_ptr = 0
  /\ buffer.state = "S_SEND_PAYLOAD" =>
       /\ Len(host.received) = 3 + buffer.data_ptr /\ host.received[3] = buffer.len
       /\ buffer.data_ptr < buffer.len

(* The core halts and stays halted, and a reset ends with the command.       *)
CoreInv ==
  /\ counter # 0 => state = "S_CMD_RESET" /\ ~halt_req_in /\ ~halted
  /\ halted => m_is_halted \/ state = "S_CMD_RESUME"
  /\ halt_req_in /\ ~halted => state = "S_CMD_HALT"
Obeyed ==
  /\ host.request[1] = CMD_HALT => halted
  /\ host.request[1] \in {CMD_RESUME, CMD_RESET} => ~halted /\ soft_reset_n
ObeyedInv == (state = "S_WAIT_SEND" \/ parser.state = "S_WAIT_CMD") /\ host.bad = 0 => Obeyed

DebugInv ==
  /\ ParserType /\ CopierType /\ ModuleType /\ HostInv /\ ParserInv /\ CommandInv
  /\ BufferInv /\ CoreInv /\ ObeyedInv

-----------------------------------------------------------------------------
(* The nets, case by case.                                                   *)
LEMMA TimeoutNext ==
  ASSUME NEW line
  PROVE  /\ line.valid => timeout_next(line) = 0
         /\ ~line.valid /\ state = "S_WAIT_TIMEOUT" =>
              timeout_next(line) = (timeout_counter + 1) % TIMEOUT_SIZE
         /\ ~line.valid /\ state # "S_WAIT_TIMEOUT" => timeout_next(line) = timeout_counter
BY Zenon DEF timeout_next

LEMMA ParserNext ==
  ASSUME NEW line
  PROVE  /\ parser.state = "S_WAIT_CMD" => parser_next(line) = "S_WAIT_ID"
         /\ parser.state = "S_WAIT_ID" => parser_next(line) = "S_WAIT_LEN"
         /\ parser.state = "S_WAIT_LEN" =>
              parser_next(line) = IF line.byte = 0 THEN "S_WAIT_READY" ELSE "S_WAIT_DATA"
         /\ parser.state = "S_WAIT_DATA" =>
              parser_next(line) = IF Inc(parser.data_ptr) = parser.len THEN "S_WAIT_READY" ELSE "S_WAIT_DATA"
BY Zenon DEF parser_next, after_len

(* When a command is done.                                                   *)
LEMMA Done ==
  /\ state = "S_CMD_HALT" => (done <=> halted)
  /\ state = "S_CMD_RESUME" => (done <=> ~halted)
  /\ state = "S_CMD_RESET" => (done <=> soft_reset_ack)
<1>1. state \in {"S_CMD_HALT", "S_CMD_RESUME", "S_CMD_RESET"} => ~(\E sp \in Space : copy_req(sp))
  BY DEF copy_req, copy_read, copy_write
<1>2. ASSUME state = "S_CMD_HALT" PROVE done <=> halted
  <2>1. /\ state # "S_CMD_RESUME" /\ state # "S_CMD_RESET" /\ ~(\E sp \in Space : copy_req(sp))
    BY <1>1, <1>2
  <2>. QED  BY <1>2, <2>1, Zenon DEF done
<1>3. ASSUME state = "S_CMD_RESUME" PROVE done <=> ~halted
  <2>1. /\ state # "S_CMD_HALT" /\ state # "S_CMD_RESET" /\ ~(\E sp \in Space : copy_req(sp))
    BY <1>1, <1>3
  <2>. QED  BY <1>3, <2>1, Zenon DEF done
<1>4. ASSUME state = "S_CMD_RESET" PROVE done <=> soft_reset_ack
  <2>1. /\ state # "S_CMD_HALT" /\ state # "S_CMD_RESUME" /\ ~(\E sp \in Space : copy_req(sp))
    BY <1>1, <1>4
  <2>. QED  BY <1>4, <2>1, Zenon DEF done
<1>. QED  BY <1>2, <1>3, <1>4

LEMMA NextState ==
  ASSUME NEW sr
  PROVE  /\ state = "S_WAIT_INPUT" /\ ~Ready => next_state(sr) = state
         /\ state = "S_WAIT_INPUT" /\ Ready /\ parser.error => next_state(sr) = "S_WAIT_TIMEOUT"
         /\ state = "S_WAIT_INPUT" /\ Ready /\ ~parser.error =>
              next_state(sr) = Dispatch(parser.cmd, parser.len)
         /\ state = "S_WAIT_TIMEOUT" =>
              next_state(sr) = IF timeout_counter = TIMEOUT_TICKS - 1 THEN "S_ERROR_PARITY" ELSE state
         /\ state = "S_WAIT_SEND" =>
              next_state(sr) = IF send_ack(sr) THEN "S_WAIT_INPUT" ELSE state
         /\ state \notin Waits => next_state(sr) = IF done THEN "S_WAIT_SEND" ELSE state
BY Zenon DEF next_state, Ready, Waits

LEMMA BufferNext ==
  ASSUME NEW sr \in BOOLEAN
  PROVE  /\ buffer.state = "S_IDLE" /\ state # "S_WAIT_SEND" => buffer_next(sr) = "S_IDLE"
         /\ buffer.state = "S_IDLE" /\ state = "S_WAIT_SEND" => buffer_next(sr) = "S_SEND_STATUS"
         /\ buffer.state # "S_IDLE" /\ ~sr => buffer_next(sr) = buffer.state
         /\ buffer.state = "S_SEND_STATUS" /\ sr => buffer_next(sr) = "S_SEND_ID"
         /\ buffer.state = "S_SEND_ID" /\ sr => buffer_next(sr) = "S_SEND_LEN"
         /\ buffer.state = "S_SEND_LEN" /\ sr =>
              buffer_next(sr) = IF buffer.len = 0 THEN "S_IDLE" ELSE "S_SEND_PAYLOAD"
         /\ buffer.state = "S_SEND_PAYLOAD" /\ sr =>
              buffer_next(sr) = IF Inc(buffer.data_ptr) = buffer.len THEN "S_IDLE" ELSE "S_SEND_PAYLOAD"
BY Zenon DEF buffer_next

LEMMA LengthSent == buffer.state = "S_SEND_LEN" => send_byte = buffer.len
BY Zenon DEF send_byte

LEMMA ByteFacts ==
  /\ ByteSize \in Nat /\ ByteSize > 8 /\ 0 \in Byte /\ 1 \in Byte /\ 2 \in Byte /\ 3 \in Byte /\ 4 \in Byte
  /\ \A p \in Byte : Inc(p) \in Byte /\ (p + 4) % ByteSize \in Byte
  /\ \A p, b \in Byte : p < b => Inc(p) = p + 1
BY SizeAssumption DEF Byte, Inc

LEMMA TimeoutFacts ==
  /\ MaxGap \in Nat /\ TIMEOUT_TICKS \in Nat /\ TIMEOUT_SIZE \in Nat \ {0}
  /\ MaxGap + 1 < TIMEOUT_TICKS /\ TIMEOUT_TICKS <= TIMEOUT_SIZE
BY SizeAssumption, HostAssumption

LEMMA OutLen ==
  ASSUME CopierType
  PROVE  out_len \in Byte
<1>1. copier["prog"].read_len \in Byte /\ copier["data"].read_len \in Byte
  BY DEF CopierType, Space
<1>. QED  BY <1>1, ByteFacts, Zenon DEF out_len

LEMMA Wanted ==
  ASSUME CopierType, NEW sp \in Space
  PROVE  wanted(sp) \subseteq Byte
<1>. DEFINE p == IF data_ack(sp) THEN Inc(copier[sp].data_ptr) ELSE copier[sp].data_ptr
<1>1. p \in Byte
  BY ByteFacts DEF CopierType
<1>2. /\ {0} \subseteq Byte /\ {1} \subseteq Byte /\ {2} \subseteq Byte /\ {3} \subseteq Byte
      /\ {4} \subseteq Byte /\ {(p + 4) % ByteSize} \subseteq Byte /\ {} \subseteq Byte
  BY <1>1, ByteFacts
<1>. QED  BY <1>2, Zenon DEF wanted

LEMMA CopierNext ==
  ASSUME CopierType, NEW sp \in Space
  PROVE  copier_next(sp) \in CopierStates
<1>1. copier[sp].state \in CopierStates
  BY DEF CopierType
<1>2. /\ "S_IDLE" \in CopierStates /\ "S_ADDR_0" \in CopierStates /\ "S_ADDR_1" \in CopierStates
      /\ "S_ADDR_2" \in CopierStates /\ "S_ADDR_3" \in CopierStates /\ "S_LEN" \in CopierStates
      /\ "S_READ" \in CopierStates /\ "S_WRITE" \in CopierStates
  BY DEF CopierStates
<1>. QED  BY <1>1, <1>2, Zenon DEF copier_next, CopierStates

-----------------------------------------------------------------------------
(* What the host does at an edge, and what it puts on the line.              *)
Same == host'.request = host.request /\ host'.bad = host.bad /\ host'.before = host.before
Started(line) ==
  /\ complete /\ ~send_valid /\ line.valid
  /\ host'.request \in HostPackets /\ host'.bad \in 0 .. Len(host'.request)
  /\ host'.sent = 1 /\ host'.gap = 0 /\ host'.received = <<>> /\ host'.before = mem
Sent(line, sr) ==
  /\ sending /\ Same /\ line.valid
  /\ host'.sent = host.sent + 1 /\ host'.gap = 0 /\ host'.received = Heard(host.received, sr)
Waited(line, sr) ==
  /\ sending => host.gap < MaxGap /\ host'.gap = host.gap + 1
  /\ ~sending => host'.gap = 0
  /\ Same /\ ~line.valid
  /\ host'.sent = host.sent /\ host'.received = Heard(host.received, sr)
OnLine(line) ==
  line.valid => /\ (line.error <=> host'.sent = host'.bad)
                /\ ~line.error => line.byte = host'.request[host'.sent]
Moves(line, sr) ==
  /\ line \in Line /\ OnLine(line)
  /\ Started(line) \/ Sent(line, sr) \/ Waited(line, sr)

LEMMA RequestFacts ==
  ASSUME NEW p \in HostPackets \cup {<<CMD_GET_STATE, 0, 0>>}
  PROVE  /\ p \in Seq(Byte) /\ Len(p) \in Nat /\ Len(p) >= 3 /\ Len(p) = 3 + p[3]
         /\ p[3] \in Nat /\ \A i \in 1 .. Len(p) : p[i] \in Byte
<1>1. CASE p \in HostPackets
  <2>1. p \in Seq(Byte) /\ Len(p) >= 3 /\ Len(p) = 3 + p[3]
    BY <1>1, HostAssumption
  <2>2. \A i \in 1 .. Len(p) : p[i] \in Byte
    BY <2>1, ElementOfSeq
  <2>3. Len(p) \in Nat
    BY <2>1
  <2>4. 3 \in 1 .. Len(p)
    BY <2>1, <2>3
  <2>. QED  BY <2>1, <2>2, <2>3, <2>4 DEF Byte
<1>2. CASE p = <<CMD_GET_STATE, 0, 0>>
  <2>1. CMD_GET_STATE \in Byte
    BY SizeAssumption DEF CMD_GET_STATE, Byte
  <2>. QED  BY <1>2, <2>1, ByteFacts
<1>. QED  BY <1>1, <1>2

LEMMA HostMoves ==
  ASSUME HostInv, NEW sr, NEW g, NEW d, Step(sr, g, d)
  PROVE  \E line : Moves(line, sr) /\ Clock(line, sr, g, d)
<1>1. ASSUME NEW p \in HostPackets, NEW bad \in BadBytes, HostStarts(p, bad),
             Clock(LineByte(p, 1, bad), sr, g, d)
      PROVE  \E line : Moves(line, sr) /\ Clock(line, sr, g, d)
  <2>1. bad \in 0 .. Len(p) /\ p[1] \in Byte
    BY <1>1, RequestFacts, HostAssumption DEF HostStarts
  <2>2. LineByte(p, 1, bad) \in Line
    BY <2>1, ByteFacts DEF LineByte, Line
  <2>3. Started(LineByte(p, 1, bad)) /\ OnLine(LineByte(p, 1, bad))
    BY <1>1, <2>1 DEF HostStarts, Started, OnLine, LineByte
  <2>. QED  BY <1>1, <2>2, <2>3 DEF Moves
<1>2. ASSUME HostSends(sr), Clock(LineByte(host.request, host.sent + 1, host.bad), sr, g, d)
      PROVE  \E line : Moves(line, sr) /\ Clock(line, sr, g, d)
  <2>. DEFINE l == LineByte(host.request, host.sent + 1, host.bad)
  <2>1. host.sent + 1 \in 1 .. Len(host.request)
    BY <1>2, RequestFacts DEF HostSends, HostInv, sending, pk
  <2>2. host.request[host.sent + 1] \in Byte
    BY <2>1, RequestFacts DEF HostInv
  <2>3. l \in Line
    BY <2>2, ByteFacts DEF LineByte, Line
  <2>4. Sent(l, sr)
    BY <1>2 DEF HostSends, Sent, Same, LineByte
  <2>5. OnLine(l)
    BY <1>2, <2>4 DEF Sent, Same, OnLine, LineByte
  <2>. QED  BY <1>2, <2>3, <2>4, <2>5 DEF Moves
<1>3. ASSUME HostWaits(sr), Clock(NoByte, sr, g, d)
      PROVE  \E line : Moves(line, sr) /\ Clock(line, sr, g, d)
  <2>1. NoByte \in Line
    BY ByteFacts DEF NoByte, Line
  <2>2. Waited(NoByte, sr) /\ OnLine(NoByte)
    BY <1>3 DEF HostWaits, HostInv, Waited, Same, OnLine, NoByte
  <2>. QED  BY <1>3, <2>1, <2>2 DEF Moves
<1>. QED  BY <1>1, <1>2, <1>3 DEF Step

-----------------------------------------------------------------------------
(* One edge, machine by machine.                                             *)
LEMMA ParserTypeStep ==
  ASSUME ParserType, CopierType, NEW line \in Line, NEW sr, ParserEdge(line, sr)
  PROVE  ParserType'
<1>1. parser.state # "S_WAIT_READY" => parser_next(line) \in ParserStates
  BY ParserNext DEF ParserType, ParserStates
<1>2. wanted("prog") \cup wanted("data") \subseteq Byte
  BY Wanted DEF Space
<1>3. line.byte \in Byte /\ line.valid \in BOOLEAN /\ line.error \in BOOLEAN
  BY DEF Line
<1>4. parser'.state \in ParserStates
  BY <1>1 DEF ParserEdge, ParserType, ParserStates
<1>5. parser'.error \in BOOLEAN
  BY <1>3 DEF ParserEdge, ParserType
<1>6. parser'.cmd \in Byte /\ parser'.len \in Byte
  BY <1>3 DEF ParserEdge, ParserType
<1>7. parser'.data_ptr \in Byte
  BY ByteFacts DEF ParserEdge, ParserType
<1>8. parser'.buf \in [Byte -> Byte]
  BY <1>3 DEF ParserEdge, ParserType
<1>9. parser'.data \in Byte
  <2>. DEFINE reads == wanted("prog") \cup wanted("data")
  <2>1. reads # {} => (CHOOSE i \in reads : TRUE) \in Byte
    BY <1>2
  <2>2. parser'.data = IF reads = {} THEN parser.data ELSE parser.buf[CHOOSE i \in reads : TRUE]
    BY DEF ParserEdge
  <2>. QED  BY <2>1, <2>2 DEF ParserType
<1>. QED  BY <1>4, <1>5, <1>6, <1>7, <1>8, <1>9 DEF ParserType

LEMMA CopierTypeStep ==
  ASSUME ParserType, CopierType, CopierEdge
  PROVE  CopierType'
<1>. SUFFICES ASSUME NEW sp \in Space
              PROVE  /\ copier'[sp].state \in CopierStates
                     /\ copier'[sp].data_ptr \in Byte /\ copier'[sp].read_len \in Byte
  BY DEF CopierType
<1>. QED  BY CopierNext, ByteFacts DEF CopierEdge, CopierType, ParserType

LEMMA ModuleTypeStep ==
  ASSUME ParserType, CopierType, ModuleType, NEW line \in Line, NEW sr \in BOOLEAN, NEW d,
         ModuleEdge(line, sr), BufferEdge(sr), ResetEdge, CoreEdge(d)
  PROVE  ModuleType'
<1>1. state' \in States
  <2>1. Dispatch(parser.cmd, parser.len) \in Commands
    <3>. DEFINE c == parser.cmd
                len == parser.len
    <3>1. c \in Byte /\ len \in Byte
      BY DEF ParserType
    <3>. QED  BY <3>1, Dispatched, Zenon DEF Commands
  <2>2. next_state(sr) \in States
    <3>1. parser.error \in BOOLEAN
      BY DEF ParserType
    <3>. QED  BY <2>1, <3>1, NextState, Zenon DEF ModuleType, States, Waits
  <2>. QED  BY <2>2 DEF ModuleEdge
<1>2. timeout_counter' \in Nat
  BY TimeoutNext, TimeoutFacts DEF ModuleEdge, ModuleType, Line
<1>3. buffer'.state \in BufferStates
  <2>1. buffer_next(sr) \in BufferStates
    BY BufferNext, Zenon DEF ModuleType, BufferStates
  <2>. QED  BY <2>1 DEF BufferEdge
<1>4. buffer'.len \in Byte /\ buffer'.data_ptr \in Byte
  BY OutLen, ByteFacts DEF BufferEdge, ModuleType
<1>5. counter' \in Nat
  BY SizeAssumption DEF ResetEdge, soft_reset_n, ModuleType
<1>6. halt_req_in' \in BOOLEAN /\ drained' \in BOOLEAN /\ halted' \in BOOLEAN
  BY DEF CoreEdge
<1>. QED  BY <1>1, <1>2, <1>3, <1>4, <1>5, <1>6 DEF ModuleType

LEMMA LengthFacts ==
  ASSUME NEW r, IsSequence(r)
  PROVE  Len(r) \in Nat /\ (r = <<>> <=> Len(r) = 0)
BY EmptySeq, LenProperties DEF IsSequence

LEMMA AppendFacts ==
  ASSUME NEW r, NEW x, IsSequence(r)
  PROVE  /\ IsSequence(Append(r, x)) /\ Len(Append(r, x)) = Len(r) + 1
         /\ \A i \in 1 .. Len(r) : Append(r, x)[i] = r[i]
         /\ Append(r, x)[Len(r) + 1] = x
<1>1. PICK S : r \in Seq(S)
  BY DEF IsSequence
<1>. DEFINE T == S \cup {x}
<1>2. r \in Seq(T) /\ x \in T
  BY <1>1, SeqMonotonic
<1>. HIDE DEF T
<1>3. Append(r, x) \in Seq(T)
  BY <1>2, AppendProperties
<1>4. /\ Len(Append(r, x)) = Len(r) + 1
      /\ \A i \in 1 .. Len(r) : Append(r, x)[i] = r[i]
      /\ Append(r, x)[Len(r) + 1] = x
  BY <1>2, AppendProperties
<1>. QED  BY <1>3, <1>4 DEF IsSequence

LEMMA HostStep ==
  ASSUME HostInv, NEW line, NEW sr, Moves(line, sr)
  PROVE  HostInv'
<1>1. ASSUME Started(line) PROVE HostInv'
  <2>1. IsSequence(<<>>)
    BY EmptySeq DEF IsSequence
  <2>2. Len(host'.request) \in Nat /\ Len(host'.request) >= 3
    BY <1>1, RequestFacts DEF Started
  <2>. QED  BY <1>1, <2>1, <2>2, TimeoutFacts DEF Started, HostInv, pk
<1>2. IsSequence(Heard(host.received, sr))
  BY AppendFacts DEF HostInv, Heard
<1>3. Len(pk) \in Nat
  BY RequestFacts DEF HostInv, pk
<1>4. ASSUME Sent(line, sr) PROVE HostInv'
  BY <1>2, <1>3, <1>4, TimeoutFacts DEF Sent, Same, HostInv, pk, sending
<1>5. ASSUME Waited(line, sr) PROVE HostInv'
  <2>1. host'.gap \in 0 .. MaxGap
    BY <1>5, TimeoutFacts DEF Waited, HostInv
  <2>. QED  BY <1>2, <1>5, <2>1 DEF Waited, Same, HostInv, pk
<1>. QED  BY <1>1, <1>4, <1>5 DEF Moves

(* The host has its answer exactly when the parser waits for the next        *)
(* request.                                                                  *)
LEMMA Complete ==
  ASSUME ModuleType, HostInv, ParserInv, BufferInv
  PROVE  complete <=> parser.state = "S_WAIT_CMD"
<1>1. SUFFICES ASSUME complete, parser.state # "S_WAIT_CMD" PROVE FALSE
  BY DEF ParserInv
<1>2. Len(host.received) >= 3 /\ Len(host.received) = 3 + host.received[3]
  BY <1>1 DEF complete
<1>3. CASE buffer.state \in {"S_IDLE", "S_SEND_STATUS"}
  <2>1. Len(host.received) = 0
    BY <1>1, <1>3, LengthFacts DEF BufferInv, HostInv
  <2>. QED  BY <1>2, <2>1
<1>4. CASE buffer.state \in {"S_SEND_ID", "S_SEND_LEN"}
  BY <1>2, <1>4 DEF BufferInv
<1>5. CASE buffer.state = "S_SEND_PAYLOAD"
  <2>1. buffer.data_ptr \in Nat /\ buffer.len \in Nat
    BY ByteFacts DEF ModuleType, Byte
  <2>. QED  BY <1>2, <1>5, <2>1 DEF BufferInv
<1>. QED  BY <1>3, <1>4, <1>5 DEF ModuleType, BufferStates

(* An edge in a state of the invariant.                                      *)
Edge(line, sr, g, d) ==
  DebugInv /\ sr \in BOOLEAN /\ Moves(line, sr) /\ Clock(line, sr, g, d)

LEMMA Quiet ==
  ASSUME DebugInv
  PROVE  /\ parser.state = "S_WAIT_CMD" => complete /\ ~sending /\ state = "S_WAIT_INPUT" /\ ~send_valid
         /\ complete => parser.state = "S_WAIT_CMD"
         /\ send_valid => state = "S_WAIT_SEND" /\ Ready /\ ~sending
         /\ state = "S_WAIT_SEND" => ~sending
<1>1. complete <=> parser.state = "S_WAIT_CMD"
  BY Complete DEF DebugInv
<1>2. Len(pk) \in Nat
  BY RequestFacts DEF DebugInv, HostInv, pk
<1>3. state = "S_WAIT_SEND" => ~sending
  BY <1>2 DEF DebugInv, CommandInv, sending, pk
<1>4. parser.state = "S_WAIT_CMD" => state = "S_WAIT_INPUT"
  BY DEF DebugInv, CommandInv, Ready
<1>5. complete => ~sending
  BY <1>2 DEF complete, sending, pk
<1>6. send_valid => state = "S_WAIT_SEND"
  BY DEF DebugInv, BufferInv, send_valid
<1>7. state = "S_WAIT_SEND" => Ready
  BY DEF DebugInv, CommandInv
<1>. QED  BY <1>1, <1>3, <1>4, <1>5, <1>6, <1>7

(* The byte that ends the response completes it.                             *)
LEMMA LastByte ==
  ASSUME DebugInv, NEW sr \in BOOLEAN, send_ack(sr), Same, host'.sent = host.sent,
         host'.received = Heard(host.received, sr)
  PROVE  complete'
<1>. DEFINE r == host.received
<1>1. buffer.state # "S_IDLE" /\ buffer_next(sr) = "S_IDLE"
  BY DEF send_ack
<1>2. host.sent = Len(pk)
  BY <1>1, Quiet DEF DebugInv, CommandInv, send_valid
<1>3. buffer.state \in BufferStates /\ buffer.len \in Nat /\ buffer.data_ptr \in Byte /\ buffer.len \in Byte
  BY ByteFacts DEF DebugInv, ModuleType, Byte
<1>4. sr /\ host'.received = Append(r, send_byte)
  BY <1>1, <1>3, BufferNext DEF Heard, send_valid, BufferStates
<1>5. /\ Len(r) \in Nat /\ Len(host'.received) = Len(r) + 1 /\ host'.received[Len(r) + 1] = send_byte
      /\ \A i \in 1 .. Len(r) : host'.received[i] = r[i]
  <2>1. IsSequence(r)
    BY DEF DebugInv, HostInv
  <2>2. /\ Len(r) \in Nat /\ Len(Append(r, send_byte)) = Len(r) + 1
        /\ Append(r, send_byte)[Len(r) + 1] = send_byte
        /\ \A i \in 1 .. Len(r) : Append(r, send_byte)[i] = r[i]
    BY <2>1, LengthFacts, AppendFacts
  <2>3. host'.received = Append(r, send_byte)
    BY <1>4
  <2>. HIDE DEF r
  <2>. QED  BY <2>2, <2>3, Zenon
<1>6. CASE buffer.state = "S_SEND_LEN"
  <2>1. Len(r) = 2 /\ send_byte = buffer.len /\ buffer.len = 0
    BY <1>1, <1>4, <1>6, LengthSent, BufferNext DEF DebugInv, BufferInv
  <2>2. Len(host'.received) = 3 /\ host'.received[3] = 0
    <3>1. Len(r) + 1 = 3
      BY <2>1
    <3>. QED  BY <1>5, <2>1, <3>1, Zenon
  <2>. QED  BY <1>2, <2>2 DEF complete, Same, pk
<1>7. CASE buffer.state = "S_SEND_PAYLOAD"
  <2>1. /\ Len(r) = 3 + buffer.data_ptr /\ r[3] = buffer.len /\ buffer.data_ptr < buffer.len
        /\ Inc(buffer.data_ptr) = buffer.len
    BY <1>1, <1>4, <1>7, BufferNext DEF DebugInv, BufferInv
  <2>2. buffer.data_ptr \in Nat /\ buffer.data_ptr + 1 = buffer.len
    BY <1>3, <2>1, ByteFacts DEF Byte
  <2>3. 3 \in 1 .. Len(r) /\ Len(r) + 1 = 3 + buffer.len
    BY <2>1, <2>2
  <2>4. Len(host'.received) = 3 + buffer.len /\ host'.received[3] = buffer.len
    BY <1>5, <2>1, <2>3, Zenon
  <2>. QED  BY <1>2, <1>3, <2>4 DEF complete, Same, pk
<1>. QED  BY <1>1, <1>3, <1>4, <1>6, <1>7, BufferNext DEF BufferStates

(* The parser is released when the response has left.                        *)
Released(sr) == state = "S_WAIT_SEND" /\ send_ack(sr)

LEMMA ParserNets ==
  ASSUME NEW line \in Line, NEW sr, parser.error \in BOOLEAN, ParserEdge(line, sr)
  PROVE  /\ parser.state = "S_WAIT_READY" => parser'.state = IF Released(sr) THEN "S_WAIT_CMD" ELSE "S_WAIT_READY"
         /\ parser.state # "S_WAIT_READY" =>
              parser'.state = IF ~line.valid THEN parser.state
                              ELSE IF line.error THEN "S_WAIT_READY" ELSE parser_next(line)
         /\ parser.state = "S_WAIT_READY" => (parser'.error <=> parser.error /\ ~Released(sr))
         /\ parser.state # "S_WAIT_READY" /\ line.valid => (parser'.error <=> line.error)
         /\ parser.state # "S_WAIT_READY" /\ ~line.valid => (parser'.error <=> parser.error)
         /\ parser'.cmd = IF line.valid /\ parser.state = "S_WAIT_CMD" THEN line.byte ELSE parser.cmd
         /\ parser'.len = IF line.valid /\ parser.state = "S_WAIT_LEN" THEN line.byte ELSE parser.len
         /\ parser'.data_ptr = IF line.valid /\ parser.state = "S_WAIT_LEN" THEN 0
                               ELSE IF line.valid /\ parser.state = "S_WAIT_DATA"
                               THEN Inc(parser.data_ptr) ELSE parser.data_ptr
BY DEF ParserEdge, Line, Released

LEMMA ParserStep ==
  ASSUME NEW line, NEW sr, NEW g, NEW d, Edge(line, sr, g, d)
  PROVE  ParserInv'
<1>1. /\ parser.state \in ParserStates /\ parser.error \in BOOLEAN /\ parser.data_ptr \in Byte
      /\ line \in Line /\ sr \in BOOLEAN
  BY DEF Edge, DebugInv, ParserType, Moves
<1>2. /\ parser.state = "S_WAIT_READY" => parser'.state = IF Released(sr) THEN "S_WAIT_CMD" ELSE "S_WAIT_READY"
      /\ parser.state # "S_WAIT_READY" =>
           parser'.state = IF ~line.valid THEN parser.state
                           ELSE IF line.error THEN "S_WAIT_READY" ELSE parser_next(line)
  BY <1>1, ParserNets DEF Edge, Clock
<1>3. /\ parser.state = "S_WAIT_READY" => (parser'.error <=> parser.error /\ ~Released(sr))
      /\ parser.state # "S_WAIT_READY" /\ line.valid => (parser'.error <=> line.error)
      /\ parser.state # "S_WAIT_READY" /\ ~line.valid => (parser'.error <=> parser.error)
  BY <1>1, ParserNets DEF Edge, Clock
<1>4. /\ parser'.cmd = IF line.valid /\ parser.state = "S_WAIT_CMD" THEN line.byte ELSE parser.cmd
      /\ parser'.len = IF line.valid /\ parser.state = "S_WAIT_LEN" THEN line.byte ELSE parser.len
      /\ parser'.data_ptr = IF line.valid /\ parser.state = "S_WAIT_LEN" THEN 0
                            ELSE IF line.valid /\ parser.state = "S_WAIT_DATA"
                            THEN Inc(parser.data_ptr) ELSE parser.data_ptr
  BY <1>1, ParserNets DEF Edge, Clock
<1>5. HostInv /\ HostInv' /\ ParserInv
  BY HostStep DEF Edge, DebugInv
<1>6. pk' = host'.request /\ Len(pk') \in Nat /\ Len(pk') >= 3 /\ Len(pk') = 3 + pk'[3] /\ pk'[3] \in Byte
  <2>1. host'.request \in HostPackets \cup {<<CMD_GET_STATE, 0, 0>>} /\ pk' = host'.request
    BY <1>5 DEF HostInv, pk
  <2>2. Len(pk') \in Nat /\ Len(pk') >= 3 /\ Len(pk') = 3 + pk'[3] /\ pk'[3] \in Nat
    BY <2>1, RequestFacts
  <2>3. 3 \in 1 .. Len(pk')
    BY <2>2
  <2>4. \A i \in 1 .. Len(host'.request) : host'.request[i] \in Byte
    BY <2>1, RequestFacts
  <2>. QED  BY <2>1, <2>2, <2>3, <2>4
<1>7. ASSUME Started(line) PROVE ParserInv'
  <2>1. parser.state = "S_WAIT_CMD" /\ line.valid /\ host'.sent = 1 /\ host'.bad \in Nat
    BY <1>5, <1>6, <1>7, Quiet DEF Started, HostInv, Edge
  <2>2. (line.error <=> 1 = host'.bad) /\ (~line.error => line.byte = pk'[1])
    BY <1>6, <2>1 DEF Edge, Moves, OnLine
  <2>3. CASE line.error
    <3>1. parser'.state = "S_WAIT_READY" /\ parser'.error /\ host'.bad = 1
      BY <1>2, <1>3, <2>1, <2>2, <2>3
    <3>. QED  BY <2>1, <3>1 DEF ParserInv, Receiving, Ready
  <2>4. CASE ~line.error
    <3>1. parser'.state = "S_WAIT_ID" /\ parser'.cmd = pk'[1] /\ host'.bad # 1
      BY <1>2, <1>3, <1>4, <2>1, <2>2, <2>4, ParserNext
    <3>. QED  BY <2>1, <3>1 DEF ParserInv, Receiving, Ready
  <2>. QED  BY <2>3, <2>4
<1>8. ASSUME Sent(line, sr) PROVE ParserInv'
  <2>1. /\ sending /\ line.valid /\ host'.sent = host.sent + 1 /\ host'.bad = host.bad
        /\ pk' = pk /\ host.sent \in Nat /\ host.sent < Len(pk) /\ host.bad \in Nat /\ host.bad <= Len(pk)
    BY <1>5, <1>6, <1>8 DEF Sent, Same, sending, pk, HostInv
  <2>2. (line.error <=> host.sent + 1 = host.bad) /\ (~line.error => line.byte = pk[host.sent + 1])
    BY <1>6, <2>1 DEF Edge, Moves, OnLine
  <2>3. parser.state # "S_WAIT_CMD" /\ ~Released(sr)
    BY <2>1, Quiet DEF Released, Edge
  <2>4. CASE parser.state = "S_WAIT_READY"
    <3>1. parser'.state = "S_WAIT_READY" /\ (parser'.error <=> parser.error)
      BY <1>2, <1>3, <2>3, <2>4
    <3>2. parser.error /\ host.bad # 0 /\ host.bad <= host.sent
      BY <1>5, <2>1, <2>4 DEF ParserInv, Ready
    <3>. QED  BY <2>1, <3>1, <3>2 DEF ParserInv, Receiving, Ready
  <2>5. CASE parser.state # "S_WAIT_READY" /\ line.error
    <3>1. parser'.state = "S_WAIT_READY" /\ parser'.error
      BY <1>2, <1>3, <2>1, <2>5
    <3>. QED  BY <2>1, <2>2, <2>5, <3>1 DEF ParserInv, Receiving, Ready
  <2>6. CASE parser.state # "S_WAIT_READY" /\ ~line.error
    <3>1. Receiving /\ parser.cmd = pk[1] /\ parser'.cmd = pk'[1] /\ ~parser'.error
      BY <1>1, <1>2, <1>3, <1>4, <1>5, <2>1, <2>3, <2>6 DEF Receiving, ParserStates, ParserInv
    <3>2. host'.bad = 0 \/ host'.bad > host'.sent
      BY <1>5, <2>1, <2>2, <2>6, <3>1 DEF ParserInv
    <3>3. parser'.state = parser_next(line)
      BY <1>2, <1>3, <2>1, <2>6
    <3>4. CASE parser.state = "S_WAIT_ID"
      <4>1. parser'.state = "S_WAIT_LEN" /\ host'.sent = 2
        BY <1>5, <2>1, <3>3, <3>4, ParserNext DEF ParserInv
      <4>. QED  BY <3>1, <3>2, <4>1 DEF ParserInv, Receiving, Ready
    <3>5. CASE parser.state = "S_WAIT_LEN"
      <4>1. host'.sent = 3 /\ parser'.len = pk'[3] /\ parser'.data_ptr = 0 /\ line.byte = pk'[3]
        BY <1>4, <1>5, <2>1, <2>2, <2>6, <3>5 DEF ParserInv
      <4>2. parser'.state = IF pk'[3] = 0 THEN "S_WAIT_READY" ELSE "S_WAIT_DATA"
        BY <3>3, <3>5, <4>1, ParserNext
      <4>3. CASE pk'[3] = 0
        <5>1. Len(pk') = 3 /\ Len(pk) = Len(pk')
          BY <1>6, <2>1, <4>3
        <5>2. host'.bad = 0
          BY <2>1, <3>2, <4>1, <5>1
        <5>. QED  BY <3>1, <4>1, <4>2, <4>3, <5>1, <5>2 DEF ParserInv, Receiving, Ready
      <4>4. CASE pk'[3] # 0
        BY <1>6, <2>1, <3>1, <3>2, <4>1, <4>2, <4>4 DEF ParserInv, Receiving, Ready, Byte
      <4>. QED  BY <4>3, <4>4
    <3>6. CASE parser.state = "S_WAIT_DATA"
      <4>1. /\ host'.sent = 4 + parser.data_ptr /\ parser.data_ptr < pk[3] /\ parser.len = pk[3]
            /\ parser'.len = pk'[3] /\ parser'.data_ptr = Inc(parser.data_ptr)
        BY <1>1, <1>4, <1>5, <2>1, <3>6 DEF ParserInv, Byte
      <4>2. Inc(parser.data_ptr) = parser.data_ptr + 1 /\ parser.data_ptr \in Nat
        <5>1. pk[3] \in Byte /\ parser.data_ptr \in Byte /\ parser.data_ptr < pk[3]
          BY <1>1, <1>6, <2>1, <4>1
        <5>2. Inc(parser.data_ptr) = parser.data_ptr + 1
          BY <5>1, ByteFacts
        <5>. QED  BY <5>1, <5>2 DEF Byte
      <4>3. parser'.state = IF parser.data_ptr + 1 = pk[3] THEN "S_WAIT_READY" ELSE "S_WAIT_DATA"
        BY <3>3, <3>6, <4>1, <4>2, ParserNext
      <4>4. CASE parser.data_ptr + 1 = pk[3]
        <5>1. Len(pk') = 3 + pk'[3] /\ host'.sent = Len(pk') /\ pk[3] = pk'[3]
          BY <1>6, <2>1, <4>1, <4>2, <4>4
        <5>2. host'.bad = 0
          BY <2>1, <3>2, <5>1
        <5>3. parser'.state = "S_WAIT_READY"
          BY <4>3, <4>4
        <5>. QED  BY <3>1, <5>1, <5>2, <5>3 DEF ParserInv, Receiving, Ready
      <4>5. CASE parser.data_ptr + 1 # pk[3]
        <5>1. parser'.state = "S_WAIT_DATA" /\ pk'[3] = pk[3]
          BY <2>1, <4>3, <4>5
        <5>2. pk[3] \in Nat
          BY <1>6, <5>1 DEF Byte
        <5>3. parser'.data_ptr < pk'[3] /\ host'.sent = 3 + parser'.data_ptr
          BY <4>1, <4>2, <4>5, <5>1, <5>2
        <5>. QED  BY <3>1, <3>2, <4>1, <5>1, <5>3 DEF ParserInv, Receiving, Ready
      <4>. QED  BY <4>4, <4>5
    <3>. QED  BY <3>1, <3>4, <3>5, <3>6 DEF Receiving
  <2>. QED  BY <2>4, <2>5, <2>6
<1>9. ASSUME Waited(line, sr) PROVE ParserInv'
  <2>1. /\ ~line.valid /\ host'.sent = host.sent /\ host'.bad = host.bad /\ pk' = pk /\ Same
        /\ host'.received = Heard(host.received, sr)
    BY <1>9 DEF Waited, Same, pk
  <2>2. parser'.cmd = parser.cmd /\ parser'.len = parser.len /\ parser'.data_ptr = parser.data_ptr
    BY <1>4, <2>1
  <2>3. CASE Released(sr)
    <3>1. parser.state = "S_WAIT_READY" /\ complete'
      BY <2>1, <2>3, LastByte, Quiet DEF Released, Edge, DebugInv, CommandInv, Ready
    <3>2. parser'.state = "S_WAIT_CMD"
      BY <1>2, <1>3, <2>3, <3>1
    <3>. QED  BY <3>1, <3>2 DEF ParserInv, Receiving, Ready
  <2>4. CASE ~Released(sr)
    <3>1. parser'.state = parser.state /\ (parser'.error <=> parser.error)
      BY <1>2, <1>3, <2>1, <2>4
    <3>2. parser.state = "S_WAIT_CMD" => complete'
      <4>1. parser.state = "S_WAIT_CMD" => host'.received = host.received /\ complete
        BY <2>1, Quiet DEF Edge, Heard
      <4>. QED  BY <2>1, <4>1 DEF complete, Same
    <3>. QED  BY <1>5, <2>1, <2>2, <3>1, <3>2 DEF ParserInv, Receiving, Ready
  <2>. QED  BY <2>3, <2>4
<1>. QED  BY <1>7, <1>8, <1>9 DEF Edge, Moves

(* The states the command machine may be in after an edge.                   *)
LEMMA StateStep ==
  ASSUME NEW line, NEW sr, NEW g, NEW d, Edge(line, sr, g, d)
  PROVE  /\ state = "S_WAIT_INPUT" /\ ~Ready => state' = "S_WAIT_INPUT"
         /\ state = "S_WAIT_INPUT" /\ Ready /\ parser.error => state' = "S_WAIT_TIMEOUT"
         /\ state = "S_WAIT_INPUT" /\ Ready /\ ~parser.error =>
              state' = Dispatch(parser.cmd, parser.len) /\ state' \in Commands
         /\ state = "S_WAIT_TIMEOUT" /\ timeout_counter = TIMEOUT_TICKS - 1 => state' = "S_ERROR_PARITY"
         /\ state = "S_WAIT_TIMEOUT" /\ timeout_counter # TIMEOUT_TICKS - 1 => state' = state
         /\ state = "S_WAIT_SEND" => state' = IF Released(sr) THEN "S_WAIT_INPUT" ELSE state
         /\ state \notin Waits => state' = IF done THEN "S_WAIT_SEND" ELSE state
         /\ state \in States /\ state' \in States
<1>1. state' = next_state(sr)
  BY DEF Edge, Clock, ModuleEdge
<1>2. parser.cmd \in Byte /\ parser.len \in Byte
  BY DEF Edge, DebugInv, ParserType
<1>3. Dispatch(parser.cmd, parser.len) \in Commands
  <2>. DEFINE c == parser.cmd
              len == parser.len
  <2>. QED  BY <1>2, Dispatched, Zenon DEF Commands
<1>4. state \in States
  BY DEF Edge, DebugInv, ModuleType
<1>5. /\ state = "S_WAIT_INPUT" /\ ~Ready => state' = "S_WAIT_INPUT"
      /\ state = "S_WAIT_INPUT" /\ Ready /\ parser.error => state' = "S_WAIT_TIMEOUT"
      /\ state = "S_WAIT_INPUT" /\ Ready /\ ~parser.error =>
           state' = Dispatch(parser.cmd, parser.len) /\ state' \in Commands
  BY <1>1, <1>3, NextState
<1>6. /\ state = "S_WAIT_TIMEOUT" /\ timeout_counter = TIMEOUT_TICKS - 1 => state' = "S_ERROR_PARITY"
      /\ state = "S_WAIT_TIMEOUT" /\ timeout_counter # TIMEOUT_TICKS - 1 => state' = state
  BY <1>1, NextState
<1>7. /\ state = "S_WAIT_SEND" => state' = IF Released(sr) THEN "S_WAIT_INPUT" ELSE state
      /\ state \notin Waits => state' = IF done THEN "S_WAIT_SEND" ELSE state
  BY <1>1, NextState DEF Released
<1>8. state' \in States
  BY <1>4, <1>5, <1>6, <1>7 DEF States, Waits
<1>. QED  BY <1>4, <1>5, <1>6, <1>7, <1>8

LEMMA CommandStep ==
  ASSUME NEW line, NEW sr, NEW g, NEW d, Edge(line, sr, g, d)
  PROVE  CommandInv'
<1>1. /\ ParserInv /\ CommandInv /\ HostInv /\ parser.error \in BOOLEAN /\ parser.state \in ParserStates
      /\ line \in Line /\ timeout_counter \in Nat
  BY DEF Edge, DebugInv, ParserType, ModuleType, Moves
<1>2. Ready => /\ Ready' <=> ~Released(sr)
               /\ ~Released(sr) => (parser'.error <=> parser.error)
               /\ parser'.cmd = parser.cmd /\ parser'.len = parser.len
  BY <1>1, ParserNets DEF Edge, Clock, Ready
<1>3. Released(sr) => state = "S_WAIT_SEND" /\ Ready
  BY <1>1 DEF Released, CommandInv
<1>4. Started(line) => ~Ready
  BY Quiet DEF Started, Ready, Edge
<1>5. /\ Len(pk) \in Nat /\ host.sent \in Nat /\ host.sent <= Len(pk) /\ host.gap \in Nat /\ host.gap <= MaxGap
      /\ sending <=> host.sent < Len(pk)
  BY <1>1, RequestFacts, TimeoutFacts DEF HostInv, pk, sending
<1>6. ~Started(line) => /\ pk' = pk /\ (host'.sent = host.sent \/ (sending /\ line.valid))
  BY DEF Edge, Moves, Sent, Waited, Same, pk
<1>7. ~Ready' => state' = "S_WAIT_INPUT"
  <2>1. CASE Ready
    BY <1>2, <1>3, <2>1, StateStep
  <2>2. CASE ~Ready
    BY <1>1, <2>2, StateStep DEF CommandInv
  <2>. QED  BY <2>1, <2>2
<1>8. ASSUME state' # "S_WAIT_INPUT" PROVE Ready /\ Ready' /\ (parser'.error <=> parser.error)
  BY <1>1, <1>2, <1>7, <1>8, StateStep DEF CommandInv
<1>9. state' \in {"S_WAIT_TIMEOUT", "S_ERROR_PARITY"} => parser'.error
  <2>. SUFFICES ASSUME state' \in {"S_WAIT_TIMEOUT", "S_ERROR_PARITY"} PROVE parser'.error
    OBVIOUS
  <2>1. parser'.error <=> parser.error
    BY <1>8
  <2>2. state \in {"S_WAIT_INPUT", "S_WAIT_TIMEOUT", "S_ERROR_PARITY"}
    BY StateStep DEF States, Waits, Commands
  <2>3. parser.error
    BY <1>1, <1>8, <2>2, StateStep DEF CommandInv, Commands
  <2>. QED  BY <2>1, <2>3
<1>10. state' \in Commands => ~parser'.error /\ state' = Dispatch(parser'.cmd, parser'.len)
  <2>. SUFFICES ASSUME state' \in Commands
                PROVE  ~parser'.error /\ state' = Dispatch(parser'.cmd, parser'.len)
    OBVIOUS
  <2>1. /\ parser'.error <=> parser.error
        /\ parser'.cmd = parser.cmd /\ parser'.len = parser.len
    BY <1>2, <1>8 DEF Commands
  <2>2. ~parser.error /\ state' = Dispatch(parser.cmd, parser.len)
    BY <1>1, <1>8, StateStep DEF CommandInv, States, Waits, Commands
  <2>. QED  BY <2>1, <2>2
<1>11. state' \notin {"S_WAIT_INPUT", "S_WAIT_TIMEOUT"} => host'.sent = Len(pk')
  <2>. SUFFICES ASSUME state' \notin {"S_WAIT_INPUT", "S_WAIT_TIMEOUT"} PROVE host'.sent = Len(pk')
    OBVIOUS
  <2>1. Ready /\ ~Started(line)
    BY <1>4, <1>8
  <2>2. CASE state \notin {"S_WAIT_INPUT", "S_WAIT_TIMEOUT"}
    BY <1>1, <1>5, <1>6, <2>1, <2>2 DEF CommandInv
  <2>3. CASE state = "S_WAIT_INPUT"
    <3>1. ~parser.error
      BY <2>1, <2>3, StateStep
    <3>. QED  BY <1>1, <1>5, <1>6, <2>1, <3>1 DEF ParserInv
  <2>4. CASE state = "S_WAIT_TIMEOUT"
    <3>1. timeout_counter = TIMEOUT_TICKS - 1
      BY <2>4, StateStep
    <3>2. ~sending
      BY <1>1, <1>5, <2>1, <2>4, <3>1, TimeoutFacts DEF CommandInv
    <3>. QED  BY <1>5, <1>6, <2>1, <3>2
  <2>. QED  BY <2>2, <2>3, <2>4
<1>12. sending' /\ Ready' /\ state' \in {"S_WAIT_INPUT", "S_WAIT_TIMEOUT"} => timeout_counter' <= host'.gap
  <2>. SUFFICES ASSUME sending', Ready' PROVE timeout_counter' <= host'.gap
    OBVIOUS
  <2>1. timeout_counter' = timeout_next(line)
    BY DEF Edge, Clock, ModuleEdge
  <2>2. CASE line.valid
    <3>1. timeout_counter' = 0 /\ host'.gap = 0
      BY <2>1, <2>2, TimeoutNext DEF Edge, Moves, Started, Sent, Waited
    <3>. QED  BY <3>1
  <2>3. CASE ~line.valid
    <3>1. Waited(line, sr)
      BY <2>3 DEF Edge, Moves, Started, Sent
    <3>2. sending /\ host'.gap = host.gap + 1 /\ host.gap < MaxGap
      BY <3>1 DEF Waited, Same, sending
    <3>3. Ready
      BY <1>1, <2>3, ParserNets DEF Edge, Clock, Ready
    <3>4. state \in {"S_WAIT_INPUT", "S_WAIT_TIMEOUT"}
      BY <1>1, <1>5, <3>2 DEF CommandInv
    <3>5. timeout_counter <= host.gap
      BY <1>1, <3>2, <3>3, <3>4 DEF CommandInv
    <3>6. timeout_counter' \in {timeout_counter, (timeout_counter + 1) % TIMEOUT_SIZE}
      BY <2>1, <2>3, TimeoutNext
    <3>7. (timeout_counter + 1) % TIMEOUT_SIZE = timeout_counter + 1
      <4>1. timeout_counter + 1 \in 0 .. TIMEOUT_SIZE - 1
        BY <1>1, <1>5, <3>2, <3>5, TimeoutFacts
      <4>. QED  BY <4>1, TimeoutFacts
    <3>. QED  BY <1>1, <1>5, <3>2, <3>5, <3>6, <3>7
  <2>. QED  BY <1>1, <2>2, <2>3 DEF Line
<1>. QED  BY <1>7, <1>9, <1>10, <1>11, <1>12 DEF CommandInv

LEMMA BufferStep ==
  ASSUME NEW line, NEW sr, NEW g, NEW d, Edge(line, sr, g, d)
  PROVE  BufferInv'
<1>. DEFINE r == host.received
<1>1. /\ BufferInv /\ CommandInv /\ sr \in BOOLEAN /\ IsSequence(r)
      /\ buffer.state \in BufferStates /\ buffer.len \in Byte /\ buffer.data_ptr \in Byte
  BY DEF Edge, DebugInv, ModuleType, HostInv
<1>2. /\ buffer'.state = buffer_next(sr)
      /\ state = "S_WAIT_SEND" => buffer'.len = buffer.len
      /\ buffer'.data_ptr = IF buffer.state = "S_IDLE" /\ state = "S_WAIT_SEND" THEN 0
                            ELSE IF buffer.state = "S_SEND_PAYLOAD" /\ sr
                            THEN Inc(buffer.data_ptr) ELSE buffer.data_ptr
  BY DEF Edge, Clock, BufferEdge, answers
<1>3. buffer.state # "S_IDLE" => state = "S_WAIT_SEND" /\ send_valid /\ ~Started(line)
  BY <1>1 DEF BufferInv, send_valid, Started
<1>4. ~Started(line) => host'.received = Heard(r, sr)
  BY DEF Edge, Moves, Sent, Waited
<1>5. /\ buffer.state # "S_IDLE" /\ sr => host'.received = Append(r, send_byte)
      /\ buffer.state # "S_IDLE" /\ ~sr => host'.received = r
      /\ buffer.state = "S_IDLE" /\ ~Started(line) => host'.received = r
      /\ Started(line) => host'.received = <<>>
  BY <1>3, <1>4 DEF Heard, send_valid, Started
<1>6. /\ Len(r) \in Nat /\ Len(Append(r, send_byte)) = Len(r) + 1
      /\ \A i \in 1 .. Len(r) : Append(r, send_byte)[i] = r[i]
      /\ Append(r, send_byte)[Len(r) + 1] = send_byte
      /\ r = <<>> => Len(r) = 0
  BY <1>1, LengthFacts, AppendFacts
<1>. HIDE DEF r
<1>7. state' # "S_WAIT_SEND" => buffer'.state = "S_IDLE"
  BY <1>1, <1>2, StateStep, BufferNext DEF BufferInv, Released, send_ack, States, Waits
<1>8. parser.state = "S_WAIT_CMD" /\ ~Started(line) => parser'.state = "S_WAIT_CMD"
  <2>1. parser.state = "S_WAIT_CMD" => ~Sent(line, sr)
    BY Quiet DEF Edge, Sent
  <2>. QED  BY <2>1, ParserNets DEF Edge, Clock, Moves, Waited, DebugInv, ParserType
<1>9. ASSUME buffer.state # "S_IDLE", buffer'.state = "S_IDLE" PROVE parser'.state = "S_WAIT_CMD"
  <2>1. Released(sr) /\ Ready
    BY <1>1, <1>2, <1>3, <1>9 DEF Released, send_ack, CommandInv
  <2>. QED  BY <2>1, ParserNets DEF Edge, Clock, Moves, DebugInv, ParserType, Ready
<1>10. CASE buffer.state = "S_IDLE"
  <2>1. buffer'.state = IF state = "S_WAIT_SEND" THEN "S_SEND_STATUS" ELSE "S_IDLE"
    BY <1>1, <1>2, <1>10, BufferNext
  <2>2. parser'.state # "S_WAIT_CMD" => host'.received = <<>>
    BY <1>1, <1>5, <1>8, <1>10 DEF BufferInv, r
  <2>3. buffer'.state = "S_SEND_STATUS" => buffer'.data_ptr = 0
    BY <1>2, <1>10, <2>1
  <2>. QED  BY <1>7, <2>1, <2>2, <2>3 DEF BufferInv
<1>11. CASE buffer.state # "S_IDLE" /\ ~sr
  <2>1. /\ buffer'.state = buffer.state /\ buffer'.len = buffer.len /\ buffer'.data_ptr = buffer.data_ptr
        /\ host'.received = host.received
    BY <1>1, <1>2, <1>3, <1>5, <1>11, BufferNext DEF r
  <2>2. parser.state # "S_WAIT_CMD"
    BY <1>3, <1>11, Quiet DEF Edge
  <2>. QED  BY <1>1, <1>7, <2>1, <2>2 DEF BufferInv
<1>12. CASE buffer.state = "S_SEND_STATUS" /\ sr
  <2>1. buffer'.state = "S_SEND_ID" /\ buffer'.data_ptr = 0
    BY <1>1, <1>2, <1>12, BufferNext DEF BufferInv
  <2>2. parser.state # "S_WAIT_CMD"
    BY <1>3, <1>12, Quiet DEF Edge
  <2>3. Len(r) = 0
    BY <1>1, <1>6, <1>12, <2>2 DEF BufferInv, r
  <2>4. Len(host'.received) = Len(r) + 1
    BY <1>5, <1>6, <1>12, Zenon
  <2>. QED  BY <1>7, <2>1, <2>3, <2>4 DEF BufferInv
<1>13. CASE buffer.state = "S_SEND_ID" /\ sr
  <2>1. buffer'.state = "S_SEND_LEN" /\ buffer'.data_ptr = 0
    BY <1>1, <1>2, <1>13, BufferNext DEF BufferInv
  <2>2. Len(r) = 1
    BY <1>1, <1>13 DEF BufferInv, r
  <2>3. Len(host'.received) = Len(r) + 1
    BY <1>5, <1>6, <1>13, Zenon
  <2>. QED  BY <1>7, <2>1, <2>2, <2>3 DEF BufferInv
<1>14. CASE buffer.state = "S_SEND_LEN" /\ sr
  <2>1. /\ buffer'.state = IF buffer.len = 0 THEN "S_IDLE" ELSE "S_SEND_PAYLOAD"
        /\ buffer'.data_ptr = 0 /\ buffer'.len = buffer.len
    BY <1>1, <1>2, <1>3, <1>14, BufferNext DEF BufferInv
  <2>2. CASE buffer.len = 0
    BY <1>7, <1>9, <1>14, <2>1, <2>2 DEF BufferInv
  <2>3. CASE buffer.len # 0
    <3>1. Len(r) = 2
      BY <1>1, <1>14 DEF BufferInv, r
    <3>2. Len(r) + 1 = 3 /\ send_byte = buffer.len
      BY <1>14, <3>1, LengthSent
    <3>4. Len(host'.received) = 3 /\ host'.received[3] = buffer.len
      BY <1>5, <1>6, <1>14, <3>2, Zenon
    <3>3. 0 < buffer.len
      BY <1>1, <2>3, ByteFacts DEF Byte
    <3>. QED  BY <1>7, <2>1, <2>3, <3>3, <3>4 DEF BufferInv
  <2>. QED  BY <2>2, <2>3
<1>15. CASE buffer.state = "S_SEND_PAYLOAD" /\ sr
  <2>1. /\ buffer'.state = IF Inc(buffer.data_ptr) = buffer.len THEN "S_IDLE" ELSE "S_SEND_PAYLOAD"
        /\ buffer'.data_ptr = Inc(buffer.data_ptr) /\ buffer'.len = buffer.len
    BY <1>1, <1>2, <1>3, <1>15, BufferNext
  <2>2. CASE Inc(buffer.data_ptr) = buffer.len
    BY <1>7, <1>9, <1>15, <2>1, <2>2 DEF BufferInv
  <2>3. CASE Inc(buffer.data_ptr) # buffer.len
    <3>1. Len(r) = 3 + buffer.data_ptr /\ r[3] = buffer.len /\ buffer.data_ptr < buffer.len
      BY <1>1, <1>15 DEF BufferInv, r
    <3>2. Inc(buffer.data_ptr) = buffer.data_ptr + 1
      BY <1>1, <3>1, ByteFacts
    <3>3. 3 \in 1 .. Len(r) /\ Len(r) + 1 = 3 + Inc(buffer.data_ptr) /\ Inc(buffer.data_ptr) < buffer.len
      <4>1. buffer.data_ptr \in Nat /\ buffer.len \in Nat
        BY <1>1 DEF Byte
      <4>. QED  BY <2>3, <3>1, <3>2, <4>1
    <3>4. Len(host'.received) = 3 + Inc(buffer.data_ptr) /\ host'.received[3] = buffer.len
      BY <1>5, <1>6, <1>15, <3>1, <3>3, Zenon
    <3>. QED  BY <1>7, <2>1, <2>3, <3>3, <3>4 DEF BufferInv
  <2>. QED  BY <2>2, <2>3
<1>. QED  BY <1>1, <1>10, <1>11, <1>12, <1>13, <1>14, <1>15 DEF BufferStates

LEMMA CoreStep ==
  ASSUME NEW line, NEW sr, NEW g, NEW d, Edge(line, sr, g, d)
  PROVE  CoreInv'
<1>1. CoreInv /\ ModuleType
  BY DEF Edge, DebugInv
<1>2. /\ counter' = IF counter # 0 THEN counter - 1 ELSE IF state = "S_CMD_RESET" THEN RESET_TICKS ELSE 0
      /\ halt_req_in' = (counter' = 0 /\ (state = "S_CMD_HALT" \/ (halt_req_in /\ state # "S_CMD_RESUME")))
      /\ drained' = (halt_req_in' /\ (m_is_halted \/ d))
      /\ halted' = (counter' = 0 /\ m_is_halted)
  BY DEF Edge, Clock, ResetEdge, CoreEdge, soft_reset_n
<1>3. /\ state \in {"S_CMD_HALT", "S_CMD_RESUME", "S_CMD_RESET"} => state' = IF done THEN "S_WAIT_SEND" ELSE state
  BY StateStep DEF Waits
<1>4. counter' # 0 => state' = "S_CMD_RESET" /\ ~halt_req_in' /\ ~halted'
  <2>. SUFFICES ASSUME counter' # 0 PROVE state' = "S_CMD_RESET"
    BY <1>2
  <2>1. state = "S_CMD_RESET" /\ counter # 1
    BY <1>1, <1>2 DEF CoreInv, ModuleType
  <2>. QED  BY <1>3, <2>1, Done DEF soft_reset_ack
<1>5. halted' => m_is_halted' \/ state' = "S_CMD_RESUME"
  <2>. SUFFICES ASSUME halted', ~(halt_req_in' /\ drained') PROVE state' = "S_CMD_RESUME"
    BY DEF m_is_halted
  <2>1. counter' = 0 /\ m_is_halted /\ halt_req_in
    BY <1>2 DEF m_is_halted
  <2>2. state = "S_CMD_RESUME"
    BY <1>2, <2>1
  <2>3. halted
    BY <1>1, <2>1, <2>2 DEF CoreInv
  <2>. QED  BY <1>3, <2>2, <2>3, Done
<1>6. halt_req_in' /\ ~halted' => state' = "S_CMD_HALT"
  <2>. SUFFICES ASSUME halt_req_in', ~halted' PROVE state' = "S_CMD_HALT"
    OBVIOUS
  <2>1. counter' = 0 /\ ~m_is_halted /\ (state = "S_CMD_HALT" \/ (halt_req_in /\ state # "S_CMD_RESUME"))
    BY <1>2
  <2>2. ~halted \/ state = "S_CMD_RESUME"
    BY <1>1, <2>1 DEF CoreInv
  <2>3. state = "S_CMD_HALT" /\ ~halted
    BY <1>1, <2>1, <2>2 DEF CoreInv
  <2>. QED  BY <1>3, <2>3, Done
<1>. QED  BY <1>4, <1>5, <1>6 DEF CoreInv

LEMMA ObeyedStep ==
  ASSUME NEW line, NEW sr, NEW g, NEW d, Edge(line, sr, g, d)
  PROVE  ObeyedInv'
<1>1. /\ CoreInv /\ CoreInv' /\ ModuleType /\ ObeyedInv /\ CommandInv /\ ParserInv
      /\ counter' = IF counter # 0 THEN counter - 1 ELSE IF state = "S_CMD_RESET" THEN RESET_TICKS ELSE 0
      /\ halt_req_in' = (counter' = 0 /\ (state = "S_CMD_HALT" \/ (halt_req_in /\ state # "S_CMD_RESUME")))
      /\ halted' = (counter' = 0 /\ m_is_halted)
  BY CoreStep DEF Edge, DebugInv, Clock, ResetEdge, CoreEdge, soft_reset_n
<1>. SUFFICES ASSUME state' = "S_WAIT_SEND" \/ parser'.state = "S_WAIT_CMD", host'.bad = 0
              PROVE  Obeyed'
  BY DEF ObeyedInv
<1>2. ~Started(line) /\ Same
  <2>1. Started(line) => parser'.state # "S_WAIT_CMD" /\ state' = "S_WAIT_INPUT"
    <3>1. Started(line) => parser.state = "S_WAIT_CMD" /\ state = "S_WAIT_INPUT" /\ ~Ready /\ line.valid
      BY Quiet DEF Edge, Started, Ready
    <3>2. parser.state = "S_WAIT_CMD" => parser_next(line) = "S_WAIT_ID"
      BY ParserNext
    <3>. QED  BY <3>1, <3>2, StateStep, ParserNets DEF Edge, Clock, Moves, DebugInv, ParserType
  <2>. QED  BY <2>1 DEF Edge, Moves, Sent, Waited
<1>3. parser'.state = "S_WAIT_CMD" => parser.state = "S_WAIT_CMD" \/ state = "S_WAIT_SEND"
  <2>1. parser.state # "S_WAIT_CMD" /\ ~Released(sr) => parser'.state # "S_WAIT_CMD"
    BY ParserNets, ParserNext DEF Edge, Clock, Moves, DebugInv, ParserType, ParserStates
  <2>. QED  BY <2>1 DEF Released
<1>4. CASE state = "S_WAIT_SEND" \/ parser.state = "S_WAIT_CMD"
  <2>1. Obeyed
    BY <1>1, <1>2, <1>4 DEF ObeyedInv, Same
  <2>2. state \notin {"S_CMD_HALT", "S_CMD_RESUME", "S_CMD_RESET"}
    BY <1>1, <1>4 DEF CommandInv, Ready
  <2>3. counter = 0 /\ counter' = 0
    BY <1>1, <2>2 DEF CoreInv
  <2>4. halted' <=> halted
    BY <1>1, <2>2, <2>3 DEF CoreInv, m_is_halted, ModuleType
  <2>. QED  BY <1>2, <2>1, <2>3, <2>4 DEF Obeyed, Same, soft_reset_n
<1>5. CASE state # "S_WAIT_SEND" /\ parser.state # "S_WAIT_CMD"
  <2>1. state' = "S_WAIT_SEND" /\ state \in States
    BY <1>3, <1>5, StateStep
  <2>2. state \notin Waits /\ done
    BY <1>5, <2>1, StateStep DEF Waits, Commands
  <2>3. host.bad = 0 /\ Ready
    BY <1>1, <1>2, <2>2 DEF Same, CommandInv, Waits
  <2>4. ~parser.error /\ parser.cmd = pk[1]
    BY <1>1, <2>3 DEF ParserInv, Edge, DebugInv, ParserType
  <2>5. state \in Commands /\ state = Dispatch(parser.cmd, parser.len)
    BY <1>1, <2>1, <2>2, <2>4 DEF CommandInv, States
  <2>6. /\ pk[1] = CMD_HALT => state = "S_CMD_HALT"
        /\ pk[1] = CMD_RESUME => state = "S_CMD_RESUME"
        /\ pk[1] = CMD_RESET => state = "S_CMD_RESET"
    BY <2>4, <2>5, Dispatched DEF Edge, DebugInv, ParserType
  <2>7. pk[1] = CMD_HALT => halted'
    BY <1>1, <2>2, <2>6, Done DEF CoreInv
  <2>8. pk[1] = CMD_RESUME => ~halted' /\ counter' = 0
    BY <1>1, <2>2, <2>6, Done DEF CoreInv, m_is_halted
  <2>9. ASSUME pk[1] = CMD_RESET
        PROVE  ~halted' /\ counter' = 0
    <3>1. counter = 1
      BY <2>2, <2>6, <2>9, Done DEF soft_reset_ack
    <3>2. counter' = 0 /\ ~halt_req_in
      BY <1>1, <3>1 DEF CoreInv
    <3>3. ~m_is_halted
      BY <3>2 DEF m_is_halted
    <3>. QED  BY <1>1, <3>2, <3>3
  <2>. QED  BY <1>2, <2>7, <2>8, <2>9 DEF Obeyed, Same, soft_reset_n, pk
<1>. QED  BY <1>4, <1>5

-----------------------------------------------------------------------------
(* The invariant.                                                            *)
LEMMA DebugInvInit == Init => DebugInv
<1>. SUFFICES ASSUME Init PROVE DebugInv
  OBVIOUS
<1>1. ParserType
  BY ByteFacts DEF Init, ParserType, ParserStates
<1>2. CopierType
  BY ByteFacts DEF Init, CopierType, CopierStates
<1>3. ModuleType
  BY ByteFacts DEF Init, ModuleType, States, Waits, BufferStates
<1>4. /\ pk = <<CMD_GET_STATE, 0, 0>> /\ host.received = <<STATUS_OK, 0, 1, 0>>
      /\ host.sent = 3 /\ host.bad = 0 /\ host.gap = 0
  BY DEF Init, pk
<1>5. HostInv
  <2>1. <<STATUS_OK, 0, 1, 0>> \in Seq(Nat)
    BY DEF STATUS_OK
  <2>. QED  BY <1>4, <2>1, TimeoutFacts DEF HostInv, IsSequence, pk
<1>6. complete
  BY <1>4 DEF complete, pk
<1>7. ParserInv /\ CommandInv
  <2>1. parser.state = "S_WAIT_CMD" /\ state = "S_WAIT_INPUT" /\ ~parser.error
    BY DEF Init
  <2>2. ~sending
    BY <1>4 DEF sending, pk
  <2>. QED  BY <1>6, <2>1, <2>2 DEF ParserInv, CommandInv, Receiving, Ready, Commands
<1>8. BufferInv /\ CoreInv
  BY DEF Init, BufferInv, CoreInv
<1>9. ObeyedInv
  BY <1>4 DEF Init, ObeyedInv, Obeyed, soft_reset_n, pk, CMD_GET_STATE, CMD_HALT, CMD_RESUME, CMD_RESET
<1>. QED  BY <1>1, <1>2, <1>3, <1>5, <1>7, <1>8, <1>9 DEF DebugInv

LEMMA EdgeTaken ==
  ASSUME DebugInv, Next
  PROVE  \E line, sr, g, d : Edge(line, sr, g, d)
<1>1. PICK sr \in Choice(send_valid), d \in Choice(~drained), g \in Choice(m_is_halted /\ data_req("data")) :
        Step(sr, g, d)
  BY DEF Next
<1>2. sr \in BOOLEAN
  BY DEF Choice
<1>3. PICK line : Moves(line, sr) /\ Clock(line, sr, g, d)
  BY <1>1, HostMoves DEF DebugInv
<1>. QED  BY <1>2, <1>3 DEF Edge

LEMMA DebugInvStep == DebugInv /\ [Next]_vars => DebugInv'
<1>. SUFFICES ASSUME DebugInv, [Next]_vars PROVE DebugInv'
  OBVIOUS
<1>1. CASE Next
  <2>1. PICK line, sr, g, d : Edge(line, sr, g, d)
    BY <1>1, EdgeTaken
  <2>2. line \in Line /\ sr \in BOOLEAN /\ Clock(line, sr, g, d)
    BY <2>1 DEF Edge, Moves
  <2>3. ParserType' /\ CopierType' /\ ModuleType'
    BY <2>2, ParserTypeStep, CopierTypeStep, ModuleTypeStep DEF Clock, DebugInv
  <2>4. HostInv'
    BY <2>1, HostStep DEF Edge, DebugInv
  <2>5. ParserInv' /\ CommandInv' /\ BufferInv' /\ CoreInv' /\ ObeyedInv'
    BY <2>1, ParserStep, CommandStep, BufferStep, CoreStep, ObeyedStep
  <2>. QED  BY <2>3, <2>4, <2>5 DEF DebugInv
<1>2. CASE UNCHANGED vars
  <2>1. /\ UNCHANGED <<parser, state, timeout_counter, copier, buffer, counter>>
        /\ UNCHANGED <<halt_req_in, drained, halted, host>>
    BY <1>2 DEF vars, module, core
  <2>2. ParserType' /\ CopierType' /\ ModuleType' /\ HostInv'
    BY <2>1 DEF DebugInv, ParserType, CopierType, ModuleType, HostInv, pk
  <2>3. ParserInv' /\ CommandInv'
    BY <2>1 DEF DebugInv, ParserInv, CommandInv, Receiving, Ready, complete, sending, pk
  <2>4. BufferInv' /\ CoreInv' /\ ObeyedInv'
    BY <2>1 DEF DebugInv, BufferInv, CoreInv, ObeyedInv, Obeyed, m_is_halted, soft_reset_n
  <2>. QED  BY <2>2, <2>3, <2>4 DEF DebugInv
<1>. QED  BY <1>1, <1>2

(* The parser, the command machine, the response buffer and the halt logic   *)
(* agree at every edge on how much of the request has arrived and how much   *)
(* of the answer has left.                                                   *)
THEOREM DebugInvariant == Spec => []DebugInv
BY DebugInvInit, DebugInvStep, PTL DEF Spec

-----------------------------------------------------------------------------
(* The module never speaks before the host has sent the last byte of its     *)
(* request, nor after the answer, whatever the requests, the errors on the   *)
(* line and the pauses.                                                      *)
THEOREM DebugInStep == Spec => []InStep
<1>1. DebugInv => InStep
  <2>. SUFFICES ASSUME DebugInv PROVE InStep
    OBVIOUS
  <2>1. send_valid => host.sent = Len(pk)
    BY Quiet DEF DebugInv, CommandInv
  <2>2. complete => ~send_valid
    BY Quiet
  <2>. QED  BY <2>1, <2>2 DEF InStep, pk
<1>. QED  BY <1>1, DebugInvariant, PTL

(* A parser that is not listening misses only the rest of a request that was *)
(* already received with a parity error.                                     *)
THEOREM DebugNoByteDropped == Spec => NoByteDropped
<1>1. ASSUME DebugInv, [Next]_vars, host'.sent # host.sent, Ready
      PROVE  host'.bad # 0 /\ host'.bad < host'.sent
  <2>1. Next
    BY <1>1 DEF vars
  <2>2. PICK line, sr, g, d : Edge(line, sr, g, d)
    BY <1>1, <2>1, EdgeTaken
  <2>3. sending /\ Same /\ host'.sent = host.sent + 1
    BY <1>1, <2>2, Quiet DEF Edge, Moves, Started, Sent, Waited, Ready
  <2>4. Len(pk) \in Nat /\ host.sent \in Nat /\ host.bad \in Nat /\ host.sent < Len(pk)
    BY <1>1, <2>3, RequestFacts DEF DebugInv, HostInv, sending, pk
  <2>5. host.bad # 0 /\ host.bad <= host.sent
    BY <1>1, <2>4 DEF DebugInv, ParserInv, ParserType
  <2>. QED  BY <2>3, <2>4, <2>5 DEF Same
<1>2. DebugInv /\ [Next]_vars =>
        [host'.sent # host.sent /\ parser.state = "S_WAIT_READY" =>
           host'.bad # 0 /\ host'.bad < host'.sent]_vars
  BY <1>1 DEF Ready
<1>. QED  BY <1>2, DebugInvariant, PTL DEF Spec, NoByteDropped

(* When the host has the answer to a halt, resume or reset request, the core *)
(* has obeyed it.                                                            *)
THEOREM DebugControlRight == Spec => []ControlRight
<1>1. DebugInv => ControlRight
  BY Quiet DEF DebugInv, ObeyedInv, Obeyed, ControlRight
<1>. QED  BY <1>1, DebugInvariant, PTL

-----------------------------------------------------------------------------
(***************************************************************************)
(* What is answered and written: every response is the one the protocol has *)
(* for its request and the memory before it, and memory changes by that      *)
(* request alone.  The invariant follows the bytes of one request through    *)
(* the machines, from the host to memory and back.                           *)
(***************************************************************************)

(* The parser holds what has arrived of a request.                           *)
ArrivedInv ==
  /\ parser.state \in {"S_WAIT_LEN", "S_WAIT_DATA"} \/ (Ready /\ (~parser.error \/ host.bad > 2)) =>
       parser.id = pk[2]
  /\ Ready /\ ~parser.error => parser.len = pk[3]
  /\ parser.state = "S_WAIT_DATA" => \A i \in 0 .. parser.data_ptr - 1 : parser.buf[i] = pk[4 + i]
  /\ Ready /\ ~parser.error => \A i \in 0 .. pk[3] - 1 : parser.buf[i] = pk[4 + i]

(* Only the copier of the command runs, and only its port acknowledges.      *)
Accesses(sp) == copier[sp].state \in {"S_READ", "S_WRITE"}
PortInv ==
  \A sp \in Space :
    /\ copier[sp].state # "S_IDLE" => copy_req(sp)
    /\ copier[sp].state \in {"S_LEN", "S_READ"} => copy_read(sp)
    /\ copier[sp].state = "S_WRITE" => copy_write(sp)
    /\ ack[sp] \in BOOLEAN /\ (ack[sp] => Accesses(sp) /\ data_ack(sp))

(* The copier collects the address of the request, then its length, then     *)
(* the bytes one after the other.                                            *)
Ends(x, weight, value)   == \E o \in Int : x = o * weight + value
Collected(sp, weight, value) == Ends(copier[sp].start_addr, weight, value)
CopierAt(sp) ==
  /\ copier[sp].start_addr \in 0 .. AddrSize - 1
  /\ copier[sp].state \in {"S_ADDR_0", "S_ADDR_1", "S_ADDR_2", "S_ADDR_3", "S_LEN"} => copier[sp].data_ptr = 0
  /\ copier[sp].state = "S_ADDR_0" => parser.data = pk[4]
  /\ copier[sp].state = "S_ADDR_1" => parser.data = pk[5] /\ Collected(sp, ByteSize, pk[4])
  /\ copier[sp].state = "S_ADDR_2" => parser.data = pk[6] /\ Collected(sp, ByteSize * ByteSize, pk[4] * ByteSize + pk[5])
  /\ copier[sp].state = "S_ADDR_3" => parser.data = pk[7] /\ Collected(sp, ByteSize * ByteSize * ByteSize,
                                                 (pk[4] * ByteSize + pk[5]) * ByteSize + pk[6])
  /\ copier[sp].state \in {"S_LEN", "S_READ", "S_WRITE"} => copier[sp].start_addr = AddrOf(pk)
  /\ copier[sp].state = "S_LEN" => parser.data = pk[8]
  /\ copier[sp].state = "S_READ" => copier[sp].read_len = pk[8] /\ copier[sp].data_ptr < copier[sp].read_len
  /\ copier[sp].state = "S_WRITE" => parser.data = pk[8 + copier[sp].data_ptr] /\ copier[sp].data_ptr + 4 < pk[3]
CopierInv == \A sp \in Space : CopierAt(sp)

(* A word acknowledged is the word asked for.                                *)
Reading(sp) == copier[sp].state = "S_READ"
At(sp) == AddrOf(pk) + copier[sp].data_ptr
ReadInv ==
  \A sp \in Space : Reading(sp) =>
    /\ ack[sp] => q[sp] = mem[sp][At(sp) \div 4]
    /\ \A i \in 0 .. copier[sp].data_ptr - 1 :
         buffer.payload[i] = ByteAt(host.before, sp, AddrOf(pk) + i)

(* Memory is what it was before the request and as many of its bytes as the  *)
(* copier has written.                                                       *)
WriteRequest == host.bad = 0 /\ pk[1] \in Writes /\ pk[3] >= 4
Copied(sp) == IF copier[sp].state = "S_WRITE" THEN copier[sp].data_ptr + (IF ack[sp] THEN 1 ELSE 0) ELSE 0
Written ==
  IF ~WriteRequest THEN 0
  ELSE IF state = "S_WAIT_SEND" \/ parser.state = "S_WAIT_CMD" THEN pk[3] - 4
  ELSE Copied(SpaceOf(pk[1]))
MemType(m) == m \in [Space -> [0 .. Words - 1 -> [Lanes -> Byte]]]
Wrote(m, before, p, n) ==
  \A sp \in Space, a \in 0 .. 4 * Words - 1 :
    ByteAt(m, sp, a) = IF n # 0 /\ sp = SpaceOf(p[1]) /\ a >= AddrOf(p) /\ a < AddrOf(p) + n
                       THEN p[8 + a - AddrOf(p)]
                       ELSE ByteAt(before, sp, a)
MemInv ==
  MemType(mem) /\ MemType(host.before) /\ Wrote(mem, host.before, pk, Written)

(* The answer, field by field.                                               *)
Long == pk[3] >= (IF pk[1] \in Reads THEN 5 ELSE 4)
AnswerStatus ==
  IF host.bad # 0 THEN STATUS_ERROR_PARITY
  ELSE IF pk[1] \in Reads \cup Writes /\ ~Long THEN STATUS_ERROR_ARGS
  ELSE IF pk[1] <= CMD_GET_STATE THEN STATUS_OK ELSE STATUS_ERROR_CMD
AnswerLen ==
  IF host.bad = 0 /\ pk[1] = CMD_GET_STATE THEN 1
  ELSE IF host.bad = 0 /\ pk[1] \in Reads /\ Long THEN pk[8] ELSE 0
AnswerByte(i) ==
  IF pk[1] = CMD_GET_STATE THEN IF halted THEN 1 ELSE 0
  ELSE ByteAt(host.before, SpaceOf(pk[1]), AddrOf(pk) + i)

(* A response that is ready to be sent is the answer, and what has been sent *)
(* of it is what the host has.                                               *)
ResponseInv ==
  state = "S_WAIT_SEND" =>
    /\ buffer.status = AnswerStatus /\ buffer.len = AnswerLen
    /\ host.bad = 0 \/ host.bad > 2 => buffer.id = pk[2]
    /\ \A i \in 0 .. AnswerLen - 1 : buffer.payload[i] = AnswerByte(i)
Matches(r, status, id, len, payload) ==
  /\ Len(r) >= 1 => r[1] = status
  /\ Len(r) >= 2 => r[2] = id
  /\ Len(r) >= 3 => r[3] = len
  /\ \A i \in 0 .. Len(r) - 4 : r[4 + i] = payload[i]
ReceivedInv ==
  state = "S_WAIT_SEND" =>
    Matches(host.received, buffer.status, buffer.id, buffer.len, buffer.payload)
AnswerInv ==
  LET r == host.received IN
  parser.state = "S_WAIT_CMD" =>
    /\ Len(r) = 3 + AnswerLen /\ r[1] = AnswerStatus /\ r[3] = AnswerLen
    /\ host.bad = 0 \/ host.bad > 2 => r[2] = pk[2]
    /\ \A i \in 0 .. AnswerLen - 1 : r[4 + i] = AnswerByte(i)

-----------------------------------------------------------------------------
LEMMA PacketFacts ==
  ASSUME HostInv
  PROVE  /\ pk[3] \in Byte /\ pk[3] \in Nat /\ Len(pk) \in Nat /\ Len(pk) = 3 + pk[3]
         /\ \A i \in 1 .. Len(pk) : pk[i] \in Byte
<1>1. /\ Len(pk) \in Nat /\ Len(pk) >= 3 /\ Len(pk) = 3 + pk[3] /\ pk[3] \in Nat
      /\ \A i \in 1 .. Len(pk) : pk[i] \in Byte
  BY RequestFacts DEF HostInv, pk
<1>2. 3 \in 1 .. Len(pk)
  BY <1>1
<1>. QED  BY <1>1, <1>2

LEMMA After ==
  ASSUME NEW line, NEW sr, NEW g, NEW d, Edge(line, sr, g, d)
  PROVE  DebugInv'
<1>1. line \in Line /\ sr \in BOOLEAN /\ Clock(line, sr, g, d)
  BY DEF Edge, Moves
<1>2. ParserType' /\ CopierType' /\ ModuleType'
  BY <1>1, ParserTypeStep, CopierTypeStep, ModuleTypeStep DEF Clock, Edge, DebugInv
<1>3. HostInv'
  BY HostStep DEF Edge, DebugInv
<1>4. ParserInv' /\ CommandInv' /\ BufferInv' /\ CoreInv' /\ ObeyedInv'
  BY ParserStep, CommandStep, BufferStep, CoreStep, ObeyedStep
<1>. QED  BY <1>2, <1>3, <1>4 DEF DebugInv

LEMMA ArrivedStep ==
  ASSUME NEW line, NEW sr, NEW g, NEW d, Edge(line, sr, g, d), ArrivedInv
  PROVE  ArrivedInv'
<1>1. /\ parser.state \in ParserStates /\ parser.error \in BOOLEAN /\ parser.data_ptr \in Byte
      /\ line \in Line /\ sr \in BOOLEAN /\ parser.buf \in [Byte -> Byte]
  BY DEF Edge, DebugInv, ParserType, Moves
<1>2. /\ parser.state = "S_WAIT_READY" => parser'.state = IF Released(sr) THEN "S_WAIT_CMD" ELSE "S_WAIT_READY"
      /\ parser.state # "S_WAIT_READY" =>
           parser'.state = IF ~line.valid THEN parser.state
                           ELSE IF line.error THEN "S_WAIT_READY" ELSE parser_next(line)
  BY <1>1, ParserNets DEF Edge, Clock
<1>3. /\ parser.state = "S_WAIT_READY" => (parser'.error <=> parser.error /\ ~Released(sr))
      /\ parser.state # "S_WAIT_READY" /\ line.valid => (parser'.error <=> line.error)
      /\ parser.state # "S_WAIT_READY" /\ ~line.valid => (parser'.error <=> parser.error)
  BY <1>1, ParserNets DEF Edge, Clock
<1>4. /\ parser'.id = IF line.valid /\ parser.state = "S_WAIT_ID" THEN line.byte ELSE parser.id
      /\ parser'.len = IF line.valid /\ parser.state = "S_WAIT_LEN" THEN line.byte ELSE parser.len
      /\ parser'.data_ptr = IF line.valid /\ parser.state = "S_WAIT_LEN" THEN 0
                            ELSE IF line.valid /\ parser.state = "S_WAIT_DATA"
                            THEN Inc(parser.data_ptr) ELSE parser.data_ptr
      /\ parser'.buf = IF line.valid /\ parser.state = "S_WAIT_DATA"
                       THEN [parser.buf EXCEPT ![parser.data_ptr] = line.byte] ELSE parser.buf
  BY <1>1 DEF Edge, Clock, ParserEdge
<1>5. HostInv /\ HostInv' /\ ParserInv /\ ParserInv'
  BY After DEF Edge, DebugInv
<1>6. pk' = host'.request /\ Len(pk) \in Nat /\ pk[3] \in Byte /\ Len(pk) = 3 + pk[3] /\ pk[3] \in Nat
  BY <1>5, PacketFacts DEF pk
<1>7. ASSUME Started(line) PROVE ArrivedInv'
  <2>1. parser.state = "S_WAIT_CMD" /\ line.valid /\ host'.sent = 1
    BY <1>7, Quiet DEF Started, Edge
  <2>2. (line.error <=> 1 = host'.bad)
    BY <2>1 DEF Edge, Moves, OnLine
  <2>3. parser'.state = "S_WAIT_ID" \/ (parser'.state = "S_WAIT_READY" /\ parser'.error /\ host'.bad = 1)
    BY <1>2, <1>3, <2>1, <2>2, ParserNext
  <2>. QED  BY <2>3 DEF ArrivedInv, Ready
<1>8. ASSUME Sent(line, sr) PROVE ArrivedInv'
  <2>1. /\ sending /\ line.valid /\ host'.sent = host.sent + 1 /\ host'.bad = host.bad
        /\ pk' = pk /\ host.sent \in Nat /\ host.sent < Len(pk) /\ host.bad \in Nat
    BY <1>5, <1>6, <1>8 DEF Sent, Same, sending, pk, HostInv
  <2>2. (line.error <=> host.sent + 1 = host.bad) /\ (~line.error => line.byte = pk[host.sent + 1])
    BY <1>6, <2>1 DEF Edge, Moves, OnLine
  <2>3. parser.state # "S_WAIT_CMD" /\ ~Released(sr)
    BY <2>1, Quiet DEF Released, Edge
  <2>4. CASE parser.state = "S_WAIT_READY"
    <3>1. parser.error /\ parser'.error /\ parser'.state = "S_WAIT_READY" /\ parser'.id = parser.id
      BY <1>2, <1>3, <1>4, <1>5, <2>1, <2>3, <2>4 DEF ParserInv, Ready
    <3>. QED  BY <2>1, <2>4, <3>1 DEF ArrivedInv, Ready
  <2>5. CASE parser.state # "S_WAIT_READY" /\ line.error
    <3>1. parser'.error /\ parser'.state = "S_WAIT_READY" /\ host.bad = host.sent + 1
      BY <1>2, <1>3, <2>1, <2>2, <2>5
    <3>2. host.bad > 2 => parser.state \in {"S_WAIT_LEN", "S_WAIT_DATA"}
      BY <1>1, <1>5, <2>1, <2>3, <2>5, <3>1 DEF ParserInv, ParserStates
    <3>. QED  BY <1>4, <2>1, <3>1, <3>2 DEF ArrivedInv, Ready
  <2>6. CASE parser.state # "S_WAIT_READY" /\ ~line.error
    <3>1. parser'.state = parser_next(line) /\ ~parser'.error /\ line.byte = pk[host.sent + 1]
      BY <1>2, <1>3, <2>1, <2>2, <2>6
    <3>2. CASE parser.state = "S_WAIT_ID"
      <4>1. parser'.state = "S_WAIT_LEN" /\ parser'.id = pk[2]
        <5>1. line.byte = pk[2]
          BY <1>5, <3>1, <3>2 DEF ParserInv
        <5>. QED  BY <1>4, <2>1, <3>1, <3>2, <5>1, ParserNext
      <4>. QED  BY <2>1, <4>1 DEF ArrivedInv, Ready
    <3>3. CASE parser.state = "S_WAIT_LEN"
      <4>1. line.byte = pk[3]
        BY <1>5, <3>1, <3>3 DEF ParserInv
      <4>2. parser'.id = pk'[2] /\ parser'.len = pk'[3] /\ parser'.data_ptr = 0
        BY <1>4, <2>1, <3>3, <4>1 DEF ArrivedInv
      <4>3. parser'.state = IF pk'[3] = 0 THEN "S_WAIT_READY" ELSE "S_WAIT_DATA"
        BY <2>1, <3>1, <3>3, <4>1, ParserNext
      <4>. QED  BY <4>2, <4>3 DEF ArrivedInv, Ready
    <3>4. CASE parser.state = "S_WAIT_DATA"
      <4>1. /\ host.sent + 1 = 4 + parser.data_ptr /\ parser.data_ptr < pk[3] /\ parser.len = pk[3]
            /\ parser.data_ptr \in Nat
        BY <1>1, <1>5, <3>4 DEF ParserInv, Byte
      <4>2. parser'.data_ptr = parser.data_ptr + 1
        <5>1. Inc(parser.data_ptr) = parser.data_ptr + 1
          BY <1>1, <1>6, <4>1, ByteFacts
        <5>. QED  BY <1>4, <2>1, <3>4, <5>1
      <4>3. \A i \in 0 .. parser.data_ptr : parser'.buf[i] = pk[4 + i]
        <5>1. parser'.buf = [parser.buf EXCEPT ![parser.data_ptr] = pk[4 + parser.data_ptr]]
          BY <1>4, <2>1, <3>1, <3>4, <4>1
        <5>2. \A i \in 0 .. parser.data_ptr - 1 : parser.buf[i] = pk[4 + i]
          BY <3>4 DEF ArrivedInv
        <5>. QED  BY <1>1, <4>1, <5>1, <5>2
      <4>4. parser'.id = pk'[2] /\ parser'.len = pk'[3]
        BY <1>4, <2>1, <3>4, <4>1 DEF ArrivedInv
      <4>5. parser'.state = IF parser.data_ptr + 1 = pk[3] THEN "S_WAIT_READY" ELSE "S_WAIT_DATA"
        <5>1. Inc(parser.data_ptr) = parser.data_ptr + 1
          BY <1>1, <1>6, <4>1, ByteFacts
        <5>. QED  BY <3>1, <3>4, <4>1, <5>1, ParserNext
      <4>6. CASE parser.data_ptr + 1 = pk[3]
        <5>1. \A i \in 0 .. pk'[3] - 1 : parser'.buf[i] = pk'[4 + i]
          BY <2>1, <4>1, <4>3, <4>6
        <5>. QED  BY <4>4, <4>5, <4>6, <5>1 DEF ArrivedInv, Ready
      <4>7. CASE parser.data_ptr + 1 # pk[3]
        <5>1. \A i \in 0 .. parser'.data_ptr - 1 : parser'.buf[i] = pk'[4 + i]
          BY <2>1, <4>1, <4>2, <4>3
        <5>. QED  BY <4>4, <4>5, <4>7, <5>1 DEF ArrivedInv, Ready
      <4>. QED  BY <4>6, <4>7
    <3>. QED  BY <1>1, <2>3, <2>6, <3>2, <3>3, <3>4 DEF ParserStates
  <2>. QED  BY <2>4, <2>5, <2>6
<1>9. ASSUME Waited(line, sr) PROVE ArrivedInv'
  <2>1. ~line.valid /\ host'.bad = host.bad /\ pk' = pk
    BY <1>9 DEF Waited, Same, pk
  <2>2. parser'.id = parser.id /\ parser'.len = parser.len /\ parser'.data_ptr = parser.data_ptr /\ parser'.buf = parser.buf
    BY <1>4, <2>1
  <2>3. parser'.state = "S_WAIT_CMD" \/ (parser'.state = parser.state /\ (parser'.error <=> parser.error))
    BY <1>2, <1>3, <2>1
  <2>. QED  BY <2>1, <2>2, <2>3 DEF ArrivedInv, Ready
<1>. QED  BY <1>7, <1>8, <1>9 DEF Edge, Moves

-----------------------------------------------------------------------------
(* Addresses.                                                                *)
LEMMA AddrFacts ==
  ASSUME NEW p, p[4] \in Byte, p[5] \in Byte, p[6] \in Byte, p[7] \in Byte
  PROVE  AddrOf(p) \in 0 .. AddrSize - 1
<1>. DEFINE B == ByteSize
<1>1. B \in Nat /\ B > 8
  BY SizeAssumption
<1>. HIDE DEF B
<1>2. p[4] \in 0 .. B - 1 /\ p[5] \in 0 .. B - 1 /\ p[6] \in 0 .. B - 1 /\ p[7] \in 0 .. B - 1
  BY DEF Byte, B
<1>3. ASSUME NEW x \in Nat, NEW m \in Nat, NEW b \in 0 .. B - 1, x <= m - 1
      PROVE  x * B + b \in Nat /\ x * B + b <= m * B - 1
  <2>1. x * B <= (m - 1) * B
    BY <1>1, <1>3
  <2>2. (m - 1) * B = m * B - B
    BY <1>1
  <2>3. x * B \in Nat /\ m * B \in Nat
    BY <1>1
  <2>. QED  BY <1>1, <2>1, <2>2, <2>3
<1>. DEFINE x1 == p[4] * B + p[5]
            x2 == x1 * B + p[6]
            x3 == x2 * B + p[7]
<1>4. x1 \in Nat /\ x1 <= B * B - 1
  BY <1>1, <1>2, <1>3
<1>5. x2 \in Nat /\ x2 <= B * B * B - 1
  <2>. HIDE DEF x1
  <2>1. B * B \in Nat
    BY <1>1
  <2>. QED  BY <1>1, <1>2, <1>3, <1>4, <2>1
<1>6. x3 \in Nat /\ x3 <= B * B * B * B - 1
  <2>. HIDE DEF x2
  <2>1. B * B * B \in Nat
    BY <1>1
  <2>. QED  BY <1>1, <1>2, <1>3, <1>5, <2>1
<1>7. B * B * B * B \in Nat
  BY <1>1
<1>. QED  BY <1>6, <1>7 DEF AddrOf, AddrSize, B

LEMMA SizeFacts ==
  /\ AddrSize \in Nat /\ AddrSize > 0 /\ ByteSize * ByteSize \in Nat /\ ByteSize * ByteSize * ByteSize \in Nat
  /\ AddrSize = ByteSize * (ByteSize * ByteSize * ByteSize)
  /\ AddrSize = (ByteSize * ByteSize) * (ByteSize * ByteSize)
  /\ AddrSize = (ByteSize * ByteSize * ByteSize) * ByteSize
<1>. DEFINE B == ByteSize
<1>1. B \in Nat /\ B > 8
  BY SizeAssumption
<1>. HIDE DEF B
<1>2. B * B \in Nat /\ B * B > 0
  BY <1>1
<1>3. B * B * B \in Nat /\ B * B * B > 0
  BY <1>1, <1>2
<1>4. B * B * B * B \in Nat /\ B * B * B * B > 0
  BY <1>1, <1>3
<1>5. /\ B * B * B * B = B * (B * B * B)
      /\ B * B * B * B = (B * B) * (B * B)
      /\ B * B * B * B = (B * B * B) * B
  BY <1>1
<1>. QED  BY <1>2, <1>3, <1>4, <1>5 DEF AddrSize, B

(* One more byte of an address, and the loss of those that leave at the top. *)
LEMMA OneMore ==
  ASSUME NEW s \in Int, NEW w \in Int, NEW v \in Int, NEW b \in Int, Ends(s, w, v)
  PROVE  Ends(s * ByteSize + b, w * ByteSize, v * ByteSize + b)
<1>1. PICK o \in Int : s = o * w + v
  BY DEF Ends
<1>2. ByteSize \in Int
  BY SizeAssumption
<1>3. s * ByteSize = (o * w) * ByteSize + v * ByteSize
  BY <1>1, <1>2
<1>4. (o * w) * ByteSize = o * (w * ByteSize)
  BY <1>2
<1>5. o * (w * ByteSize) \in Int /\ v * ByteSize \in Int /\ s * ByteSize \in Int
  BY <1>2
<1>6. s * ByteSize + b = o * (w * ByteSize) + (v * ByteSize + b)
  BY <1>3, <1>4, <1>5
<1>. QED  BY <1>6 DEF Ends

LEMMA Remainder ==
  ASSUME NEW x \in Int, NEW w \in Int, NEW v \in Int, Ends(x, w, v), Ends(AddrSize, w, 0)
  PROVE  Ends(x % AddrSize, w, v)
<1>. DEFINE A == AddrSize
<1>1. A \in Nat /\ A > 0
  BY SizeFacts
<1>. HIDE DEF A
<1>2. PICK o \in Int : x = o * w + v
  BY DEF Ends
<1>7. PICK u \in Int : A = u * w
  <2>1. PICK n \in Int : A = n * w + 0
    BY DEF Ends, A
  <2>2. n * w \in Int
    OBVIOUS
  <2>. QED  BY <2>1, <2>2
<1>3. PICK k \in Int : x = A * k + (x % A)
  <2>1. x = A * (x \div A) + (x % A) /\ x \div A \in Int
    BY <1>1
  <2>. QED  BY <2>1
<1>4. (o - u * k) * w = o * w - (u * w) * k
  <2>1. u * k \in Int /\ (u * k) * w = (u * w) * k
    OBVIOUS
  <2>2. (o - u * k) * w = o * w - (u * k) * w
    BY <2>1
  <2>. QED  BY <2>1, <2>2
<1>5. x % A = (o - u * k) * w + v
  <2>1. o * w \in Int /\ A * k \in Int /\ x % A \in Int
    BY <1>1
  <2>. QED  BY <1>2, <1>3, <1>4, <1>7, <2>1
<1>6. o - u * k \in Int
  OBVIOUS
<1>. QED  BY <1>5, <1>6 DEF Ends, A

LEMMA Weights ==
  /\ Ends(AddrSize, ByteSize, 0) /\ Ends(AddrSize, ByteSize * ByteSize, 0)
  /\ Ends(AddrSize, ByteSize * ByteSize * ByteSize, 0) /\ Ends(AddrSize, AddrSize, 0)
  /\ \A s \in Int : Ends(s, 1, 0)
<1>1. ByteSize \in Nat /\ AddrSize \in Nat /\ ByteSize * ByteSize \in Nat /\ ByteSize * ByteSize * ByteSize \in Nat
  BY SizeFacts, SizeAssumption
<1>2. /\ AddrSize = (ByteSize * ByteSize * ByteSize) * ByteSize + 0
      /\ AddrSize = (ByteSize * ByteSize) * (ByteSize * ByteSize) + 0
      /\ AddrSize = ByteSize * (ByteSize * ByteSize * ByteSize) + 0
      /\ AddrSize = 1 * AddrSize + 0
  BY <1>1, SizeFacts
<1>3. Ends(AddrSize, ByteSize, 0)
  BY <1>1, <1>2 DEF Ends
<1>4. Ends(AddrSize, ByteSize * ByteSize, 0)
  BY <1>1, <1>2 DEF Ends
<1>5. Ends(AddrSize, ByteSize * ByteSize * ByteSize, 0)
  BY <1>1, <1>2 DEF Ends
<1>6. Ends(AddrSize, AddrSize, 0)
  BY <1>1, <1>2 DEF Ends
<1>7. ASSUME NEW s \in Int PROVE Ends(s, 1, 0)
  <2>1. s = s * 1 + 0
    OBVIOUS
  <2>. QED  BY <2>1 DEF Ends
<1>. QED  BY <1>3, <1>4, <1>5, <1>6, <1>7

(* What the copier's shift register ends with after the next byte.           *)
LEMMA Collect ==
  ASSUME NEW s \in Int, NEW w \in Int, NEW v \in Int, NEW b \in Int, Ends(s, w, v), Ends(AddrSize, w * ByteSize, 0)
  PROVE  Ends((s * ByteSize + b) % AddrSize, w * ByteSize, v * ByteSize + b)
<1>1. s * ByteSize + b \in Int /\ w * ByteSize \in Int /\ v * ByteSize + b \in Int
  BY SizeAssumption
<1>2. Ends(s * ByteSize + b, w * ByteSize, v * ByteSize + b)
  BY OneMore
<1>. QED  BY <1>1, <1>2, Remainder

LEMMA Whole ==
  ASSUME NEW x \in 0 .. AddrSize - 1, NEW v \in 0 .. AddrSize - 1, Ends(x, AddrSize, v)
  PROVE  x = v
<1>1. AddrSize \in Nat /\ AddrSize > 0
  BY SizeFacts
<1>2. PICK p \in Int : x = p * AddrSize + v
  BY DEF Ends
<1>3. p >= 1 => p * AddrSize >= AddrSize
  BY <1>1
<1>4. p <= -1 => p * AddrSize <= -AddrSize
  BY <1>1
<1>5. p = 0
  BY <1>1, <1>2, <1>3, <1>4
<1>. QED  BY <1>1, <1>2, <1>5

-----------------------------------------------------------------------------
(* A command under way is the command of the request, which has arrived.     *)
LEMMA Running ==
  ASSUME DebugInv, ArrivedInv, NEW sp \in Space, copy_req(sp)
  PROVE  /\ Ready /\ ~parser.error /\ host.bad = 0 /\ ~sending /\ state \in Commands /\ counter = 0
         /\ parser.len = pk[3] /\ pk[3] >= 4 /\ SpaceOf(pk[1]) = sp
         /\ \A i \in 0 .. pk[3] - 1 : parser.buf[i] = pk[4 + i] /\ pk[4 + i] \in Byte
         /\ AddrOf(pk) \in 0 .. AddrSize - 1
         /\ copy_read(sp) => /\ pk[1] \in Reads /\ pk[1] \notin Writes /\ pk[3] >= 5
                             /\ pk[8] \in Byte /\ pk[8] > 0 /\ AddrOf(pk) + pk[8] <= 4 * Words
         /\ copy_write(sp) => /\ pk[1] \in Writes /\ pk[1] \notin Reads
                              /\ AddrOf(pk) + pk[3] - 4 <= 4 * Words
         /\ ~(copy_read(sp) /\ copy_write(sp))
         /\ \A s \in Space : copy_req(s) => s = sp
<1>1. /\ sp \in {"prog", "data"}
      /\ sp = "prog" => state \in {"S_CMD_READ_PROG", "S_CMD_WRITE_PROG"}
      /\ sp = "data" => state \in {"S_CMD_READ_DATA", "S_CMD_WRITE_DATA"}
      /\ copy_read(sp) <=> state = (IF sp = "prog" THEN "S_CMD_READ_PROG" ELSE "S_CMD_READ_DATA")
      /\ copy_write(sp) <=> state = (IF sp = "prog" THEN "S_CMD_WRITE_PROG" ELSE "S_CMD_WRITE_DATA")
  BY DEF copy_req, copy_read, copy_write, Space
<1>2. state \in Commands
  BY <1>1 DEF Commands
<1>3. Ready /\ ~parser.error /\ state = Dispatch(parser.cmd, parser.len)
  BY <1>2 DEF DebugInv, CommandInv, Commands
<1>4. host.bad = 0 /\ host.sent = Len(pk) /\ parser.cmd = pk[1] /\ parser.len = pk[3] /\ pk[1] \in Byte
      /\ pk[3] \in Byte
  BY <1>3 DEF DebugInv, ParserInv, ArrivedInv, ParserType
<1>5. counter = 0
  BY <1>1 DEF DebugInv, CoreInv
<1>6. state = Dispatch(pk[1], pk[3])
  BY <1>3, <1>4
<1>7. pk[1] \in {CMD_HALT, CMD_RESUME, CMD_READ_PROG, CMD_WRITE_PROG, CMD_READ_DATA, CMD_WRITE_DATA,
                 CMD_RESET, CMD_GET_STATE}
  <2>1. state # "S_ERROR_CMD"
    BY <1>1
  <2>. QED  BY <1>4, <1>6, <2>1, Dispatched
<1>8. /\ state = "S_CMD_READ_PROG" => pk[1] = CMD_READ_PROG /\ pk[3] >= 5
      /\ state = "S_CMD_WRITE_PROG" => pk[1] = CMD_WRITE_PROG /\ pk[3] >= 4
      /\ state = "S_CMD_READ_DATA" => pk[1] = CMD_READ_DATA /\ pk[3] >= 5
      /\ state = "S_CMD_WRITE_DATA" => pk[1] = CMD_WRITE_DATA /\ pk[3] >= 4
  BY <1>4, <1>6, <1>7, Dispatched
<1>9. /\ copy_read(sp) => pk[1] \in Reads /\ pk[1] \notin Writes /\ pk[3] >= 5
      /\ copy_write(sp) => pk[1] \in Writes /\ pk[1] \notin Reads /\ pk[3] >= 4
      /\ SpaceOf(pk[1]) = sp /\ (copy_read(sp) \/ copy_write(sp))
  BY <1>1, <1>8 DEF Reads, Writes, SpaceOf, CMD_READ_PROG, CMD_WRITE_PROG, CMD_READ_DATA, CMD_WRITE_DATA
<1>10. pk[3] >= 4 /\ pk[3] \in Nat
  BY <1>4, <1>9 DEF Byte
<1>11. /\ Len(pk) = 3 + pk[3] /\ \A i \in 1 .. Len(pk) : pk[i] \in Byte
  BY PacketFacts DEF DebugInv
<1>12. \A i \in 0 .. pk[3] - 1 : parser.buf[i] = pk[4 + i] /\ pk[4 + i] \in Byte
  BY <1>3, <1>10, <1>11 DEF ArrivedInv
<1>13. pk[4] \in Byte /\ pk[5] \in Byte /\ pk[6] \in Byte /\ pk[7] \in Byte /\ (pk[3] >= 5 => pk[8] \in Byte)
  BY <1>10, <1>11
<1>14. AddrOf(pk) \in 0 .. AddrSize - 1
  BY <1>13, AddrFacts
<1>15. pk \in HostPackets
  <2>1. pk # <<CMD_GET_STATE, 0, 0>>
    BY <1>10
  <2>. QED  BY <2>1 DEF DebugInv, HostInv, pk
<1>16. /\ copy_read(sp) => pk[8] > 0 /\ AddrOf(pk) + pk[8] <= 4 * Words
       /\ copy_write(sp) => AddrOf(pk) + pk[3] - 4 <= 4 * Words
  BY <1>9, <1>10, <1>15, HostAssumption
<1>17. ~sending
  BY <1>4 DEF sending, pk
<1>18. \A s \in Space : copy_req(s) => s = sp
  BY <1>1 DEF copy_req, copy_read, copy_write, Space
<1>19. ~(copy_read(sp) /\ copy_write(sp))
  BY <1>1
<1>20. copy_read(sp) => pk[8] \in Byte
  BY <1>9, <1>13
<1>. HIDE DEF pk
<1>. QED  BY <1>2, <1>3, <1>4, <1>5, <1>9, <1>10, <1>12, <1>14, <1>16, <1>17, <1>18, <1>19, <1>20

LEMMA CopierNets ==
  ASSUME NEW sp \in Space
  PROVE  /\ copier[sp].state = "S_IDLE" => copier_next(sp) = IF copy_req(sp) THEN "S_ADDR_0" ELSE "S_IDLE"
         /\ copier[sp].state = "S_ADDR_0" => copier_next(sp) = "S_ADDR_1"
         /\ copier[sp].state = "S_ADDR_1" => copier_next(sp) = "S_ADDR_2"
         /\ copier[sp].state = "S_ADDR_2" => copier_next(sp) = "S_ADDR_3"
         /\ copier[sp].state = "S_ADDR_3" =>
              copier_next(sp) = IF copy_read(sp) THEN "S_LEN"
                                ELSE IF parser.len > 4 THEN "S_WRITE" ELSE "S_IDLE"
         /\ copier[sp].state = "S_LEN" => copier_next(sp) = IF parser.data # 0 THEN "S_READ" ELSE "S_IDLE"
         /\ copier[sp].state = "S_WRITE" =>
              copier_next(sp) = IF data_ack(sp) /\ (copier[sp].data_ptr + 5) % ByteSize = parser.len
                                THEN "S_IDLE" ELSE "S_WRITE"
         /\ copier[sp].state = "S_READ" =>
              copier_next(sp) = IF data_ack(sp) /\ Inc(copier[sp].data_ptr) = copier[sp].read_len
                                THEN "S_IDLE" ELSE "S_READ"
BY Zenon DEF copier_next

(* The byte of the request a copier asks for.                                *)
LEMMA WantedNets ==
  ASSUME NEW sp \in Space
  PROVE  /\ copier[sp].state = "S_IDLE" /\ ~copy_req(sp) => wanted(sp) = {}
         /\ copier[sp].state = "S_IDLE" /\ copy_req(sp) => wanted(sp) = {0}
         /\ copier[sp].state = "S_ADDR_0" => wanted(sp) = {1}
         /\ copier[sp].state = "S_ADDR_1" => wanted(sp) = {2}
         /\ copier[sp].state = "S_ADDR_2" => wanted(sp) = {3}
         /\ copier[sp].state = "S_ADDR_3" => wanted(sp) = {4}
         /\ copier[sp].state \in {"S_LEN", "S_READ"} => wanted(sp) = {}
         /\ copier[sp].state = "S_WRITE" /\ data_ack(sp) =>
              wanted(sp) = {(Inc(copier[sp].data_ptr) + 4) % ByteSize}
         /\ copier[sp].state = "S_WRITE" /\ ~data_ack(sp) =>
              wanted(sp) = {(copier[sp].data_ptr + 4) % ByteSize}
BY Zenon DEF wanted

-----------------------------------------------------------------------------
(* One edge of a memory command.                                             *)
LEMMA DoneCopy ==
  ASSUME NEW sp \in Space, copy_req(sp), \A s \in Space : copy_req(s) => s = sp
  PROVE  done <=> copy_ready(sp)
<1>1. state # "S_CMD_HALT" /\ state # "S_CMD_RESUME" /\ state # "S_CMD_RESET"
  BY DEF copy_req, copy_read, copy_write, Space
<1>2. done <=> \E s \in Space : copy_req(s) /\ copy_ready(s)
  BY <1>1, Zenon DEF done
<1>. QED  BY <1>2

LEMMA CopyEdge ==
  ASSUME NEW line, NEW sr, NEW g, NEW d, Edge(line, sr, g, d), ArrivedInv, PortInv,
         NEW sp \in Space, copy_req(sp)
  PROVE  /\ copy_ready(sp) => state' = "S_WAIT_SEND"
         /\ ~copy_ready(sp) => state' = state
         /\ Same /\ pk' = pk
         /\ parser'.len = parser.len /\ parser'.buf = parser.buf /\ parser'.id = parser.id
         /\ wanted(sp) = {} => parser'.data = parser.data
         /\ \A i : wanted(sp) = {i} => parser'.data = parser.buf[i]
         /\ m_is_halted => m_is_halted'
<1>1. /\ Ready /\ ~sending /\ counter = 0 /\ state \in Commands /\ \A s \in Space : copy_req(s) => s = sp
  BY Running DEF Edge
<1>2. (copy_ready(sp) => state' = "S_WAIT_SEND") /\ (~copy_ready(sp) => state' = state)
  <2>1. done <=> copy_ready(sp)
    BY <1>1, DoneCopy
  <2>. QED  BY <1>1, <2>1, StateStep DEF Commands, Waits
<1>3. Same /\ pk' = pk
  <2>1. ~Started(line)
    BY <1>1, Quiet DEF Started, Ready, Edge
  <2>. QED  BY <2>1 DEF Edge, Moves, Sent, Waited, Same, pk
<1>4. parser'.len = parser.len /\ parser'.buf = parser.buf /\ parser'.id = parser.id
  BY <1>1 DEF Edge, Clock, ParserEdge, Ready
<1>5. \A s \in Space : s # sp => wanted(s) = {}
  BY <1>1, WantedNets DEF PortInv
<1>. DEFINE reads == wanted("prog") \cup wanted("data")
<1>6. reads = wanted(sp)
  BY <1>5 DEF Space
<1>7. parser'.data = IF reads = {} THEN parser.data ELSE parser.buf[CHOOSE i \in reads : TRUE]
  BY DEF Edge, Clock, ParserEdge
<1>8. ASSUME NEW i, wanted(sp) = {i} PROVE parser'.data = parser.buf[i]
  <2>1. reads = {i}
    BY <1>6, <1>8
  <2>. HIDE DEF reads
  <2>2. (CHOOSE j \in reads : TRUE) \in reads
    BY <2>1
  <2>. QED  BY <1>7, <2>1, <2>2
<1>9. m_is_halted => m_is_halted'
  <2>1. state # "S_CMD_RESUME" /\ state # "S_CMD_RESET"
    BY DEF copy_req, copy_read, copy_write, Space
  <2>2. counter' = 0
    BY <1>1, <2>1 DEF Edge, Clock, ResetEdge, soft_reset_n
  <2>. QED  BY <2>1, <2>2 DEF Edge, Clock, CoreEdge, m_is_halted
<1>. QED  BY <1>2, <1>3, <1>4, <1>6, <1>7, <1>8, <1>9

LEMMA PortStep ==
  ASSUME NEW line, NEW sr, NEW g, NEW d, Edge(line, sr, g, d), ArrivedInv, PortInv
  PROVE  PortInv'
<1>. SUFFICES ASSUME NEW sp \in Space
              PROVE  /\ copier'[sp].state # "S_IDLE" => copy_req(sp)'
                     /\ copier'[sp].state \in {"S_LEN", "S_READ"} => copy_read(sp)'
                     /\ copier'[sp].state = "S_WRITE" => copy_write(sp)'
                     /\ ack'[sp] \in BOOLEAN /\ (ack'[sp] => Accesses(sp)' /\ data_ack(sp)')
  BY DEF PortInv
<1>1. /\ copier'[sp].state = copier_next(sp)
      /\ ack'[sp] = (data_req(sp) /\ (sp = "data" => m_is_halted /\ g))
  BY DEF Edge, Clock, CopierEdge, PortEdge
<1>2. copier[sp].state \in CopierStates
  BY DEF Edge, DebugInv, CopierType
<1>3. CASE copier[sp].state = "S_IDLE" /\ ~copy_req(sp)
  <2>1. copier'[sp].state = "S_IDLE" /\ ~ack'[sp] /\ ack'[sp] \in BOOLEAN
    BY <1>1, <1>3, CopierNets DEF data_req
  <2>. QED  BY <2>1
<1>4. CASE copy_req(sp)
  <2>1. copier'[sp].state # "S_IDLE" => state' = state
    BY <1>1, <1>2, <1>4, CopyEdge, CopierNets DEF copy_ready
  <2>2. copier'[sp].state # "S_IDLE" => (copy_read(sp)' <=> copy_read(sp)) /\ (copy_write(sp)' <=> copy_write(sp))
    BY <2>1 DEF copy_read, copy_write
  <2>3. copier'[sp].state \in {"S_LEN", "S_READ"} => copy_read(sp)
    BY <1>1, <1>2, CopierNets DEF PortInv, CopierStates
  <2>4. copier'[sp].state = "S_WRITE" => copy_write(sp)
    BY <1>1, <1>2, <1>4, CopierNets DEF PortInv, CopierStates, copy_req
  <2>5. ASSUME ack'[sp] PROVE Accesses(sp)' /\ data_ack(sp)'
    <3>1. copier[sp].state \in {"S_READ", "S_WRITE"} /\ ~data_ack(sp) /\ (sp = "data" => m_is_halted)
      BY <1>1, <2>5 DEF data_req
    <3>2. copier'[sp].state \in {"S_READ", "S_WRITE"}
      BY <1>1, <3>1, CopierNets
    <3>3. sp = "data" => m_is_halted'
      BY <1>4, <3>1, CopyEdge
    <3>. QED  BY <2>5, <3>2, <3>3 DEF Accesses, data_ack
  <2>6. ack'[sp] \in BOOLEAN
    BY <1>1
  <2>7. copier'[sp].state # "S_IDLE" => copy_req(sp)'
    BY <1>4, <2>2 DEF copy_req
  <2>. QED  BY <2>2, <2>3, <2>4, <2>5, <2>6, <2>7
<1>. QED  BY <1>3, <1>4 DEF PortInv

LEMMA CopierFields ==
  ASSUME NEW line, NEW sr, NEW g, NEW d, Edge(line, sr, g, d), NEW sp \in Space
  PROVE  /\ copier'[sp].state = copier_next(sp)
         /\ copier'[sp].start_addr = IF copier[sp].state \in {"S_ADDR_0", "S_ADDR_1", "S_ADDR_2", "S_ADDR_3"}
                                     THEN (copier[sp].start_addr * ByteSize + parser.data) % AddrSize
                                     ELSE copier[sp].start_addr
         /\ copier'[sp].data_ptr = IF copier[sp].state = "S_IDLE" THEN 0
                                   ELSE IF copier[sp].state \in {"S_READ", "S_WRITE"} /\ data_ack(sp)
                                   THEN Inc(copier[sp].data_ptr) ELSE copier[sp].data_ptr
         /\ copier'[sp].read_len = IF copier[sp].state = "S_LEN" THEN parser.data ELSE copier[sp].read_len
BY DEF Edge, Clock, CopierEdge

LEMMA CopierStep ==
  ASSUME NEW line, NEW sr, NEW g, NEW d, Edge(line, sr, g, d), ArrivedInv, PortInv, CopierInv
  PROVE  CopierInv'
<1>. SUFFICES ASSUME NEW sp \in Space PROVE CopierAt(sp)'
  BY DEF CopierInv
<1>. DEFINE c == copier[sp]
            e == copier'[sp]
            B == ByteSize
<1>1. /\ c.state \in CopierStates /\ c.data_ptr \in Byte /\ c.read_len \in Byte /\ CopierAt(sp)
      /\ parser.data \in Byte
  BY DEF Edge, DebugInv, CopierType, ParserType, CopierInv
<1>2. /\ e.state = copier_next(sp)
      /\ e.start_addr = IF c.state \in {"S_ADDR_0", "S_ADDR_1", "S_ADDR_2", "S_ADDR_3"}
                        THEN (c.start_addr * B + parser.data) % AddrSize ELSE c.start_addr
      /\ e.data_ptr = IF c.state = "S_IDLE" THEN 0
                      ELSE IF c.state \in {"S_READ", "S_WRITE"} /\ data_ack(sp)
                      THEN Inc(c.data_ptr) ELSE c.data_ptr
      /\ e.read_len = IF c.state = "S_LEN" THEN parser.data ELSE c.read_len
  BY CopierFields
<1>3. e.start_addr \in 0 .. AddrSize - 1
  <2>1. c.start_addr \in Nat /\ parser.data \in Nat /\ B \in Nat /\ AddrSize \in Nat /\ AddrSize > 0
    BY <1>1, SizeFacts, ByteFacts DEF CopierAt, Byte
  <2>2. c.start_addr * B + parser.data \in Nat
    BY <2>1
  <2>. HIDE DEF c, e, B
  <2>3. (c.start_addr * B + parser.data) % AddrSize \in 0 .. AddrSize - 1
    BY <2>1, <2>2
  <2>. QED  BY <1>1, <1>2, <2>3 DEF CopierAt, c
<1>4. CASE c.state = "S_IDLE" /\ ~copy_req(sp)
  <2>1. e.state = "S_IDLE"
    BY <1>2, <1>4, CopierNets
  <2>. QED  BY <1>3, <2>1 DEF CopierAt
<1>5. CASE copy_req(sp)
  <2>1. /\ parser.len = pk[3] /\ pk[3] >= 4 /\ AddrOf(pk) \in 0 .. AddrSize - 1
        /\ \A i \in 0 .. pk[3] - 1 : parser.buf[i] = pk[4 + i]
        /\ copy_read(sp) => pk[3] >= 5 /\ pk[8] \in Byte /\ pk[8] > 0
    BY <1>5, Running DEF Edge
  <2>2. /\ pk' = pk
        /\ \A i : wanted(sp) = {i} => parser'.data = parser.buf[i]
    BY <1>5, CopyEdge
  <2>3. pk[3] \in Byte /\ pk[3] \in Nat /\ pk[3] < B /\ B \in Nat
    <3>1. pk[3] \in Byte
      BY PacketFacts DEF Edge, DebugInv
    <3>. QED  BY <3>1, ByteFacts DEF Byte
  <2>4. /\ wanted(sp) = {0} => parser'.data = pk'[4]
        /\ wanted(sp) = {1} => parser'.data = pk'[5]
        /\ wanted(sp) = {2} => parser'.data = pk'[6]
        /\ wanted(sp) = {3} => parser'.data = pk'[7]
        /\ wanted(sp) = {4} /\ pk[3] >= 5 => parser'.data = pk'[8]
    BY <2>1, <2>2, <2>3
  <2>14. c.start_addr \in Int /\ parser.data \in Int
    BY <1>1, SizeFacts, ByteFacts DEF CopierAt, Byte
  <2>15. pk[4] \in Int /\ pk[5] \in Int /\ pk[6] \in Int /\ pk[7] \in Int
    <3>1. pk[4] \in Byte /\ pk[5] \in Byte /\ pk[6] \in Byte /\ pk[7] \in Byte
      BY <1>5, <2>1, <2>3, Running DEF Edge
    <3>. QED  BY <3>1, ByteFacts DEF Byte
  <2>16. B \in Int /\ B * B \in Int /\ B * B * B \in Int
    BY <2>3
  <2>5. AddrOf(pk)' = AddrOf(pk)
    BY <2>2 DEF AddrOf
  <2>. HIDE DEF c, e
  <2>6. CASE c.state = "S_IDLE"
    <3>1. e.state = "S_ADDR_0" /\ e.data_ptr = 0 /\ parser'.data = pk'[4]
      BY <1>2, <1>5, <2>4, <2>6, CopierNets, WantedNets DEF c
    <3>. QED  BY <1>3, <3>1 DEF CopierAt, e
  <2>7. CASE c.state = "S_ADDR_0"
    <3>1. e.state = "S_ADDR_1" /\ e.data_ptr = 0 /\ parser'.data = pk'[5]
      BY <1>1, <1>2, <2>4, <2>7, CopierNets, WantedNets DEF c, CopierAt
    <3>2. Collected(sp, B, pk[4])'
      <4>1. e.start_addr = (c.start_addr * B + pk[4]) % AddrSize
        BY <1>1, <1>2, <2>7 DEF CopierAt, c
      <4>2. Ends(c.start_addr, 1, 0) /\ Ends(AddrSize, 1 * B, 0) /\ 1 * B = B /\ 0 * B + pk[4] = pk[4]
        BY <2>14, <2>15, <2>16, Weights
      <4>3. Ends((c.start_addr * B + pk[4]) % AddrSize, 1 * B, 0 * B + pk[4])
        BY <2>14, <2>15, <4>2, Collect
      <4>. QED  BY <2>2, <4>1, <4>2, <4>3 DEF Collected, e
    <3>. QED  BY <1>3, <2>2, <3>1, <3>2 DEF CopierAt, Collected, e
  <2>8. CASE c.state = "S_ADDR_1"
    <3>1. e.state = "S_ADDR_2" /\ e.data_ptr = 0 /\ parser'.data = pk'[6]
      BY <1>1, <1>2, <2>4, <2>8, CopierNets, WantedNets DEF c, CopierAt
    <3>2. Collected(sp, B * B, pk[4] * B + pk[5])'
      <4>1. e.start_addr = (c.start_addr * B + pk[5]) % AddrSize /\ Ends(c.start_addr, B, pk[4])
        BY <1>1, <1>2, <2>8 DEF CopierAt, Collected, c
      <4>2. Ends(e.start_addr, B * B, pk[4] * B + pk[5])
        <5>1. Ends(AddrSize, B * B, 0)
          BY Weights
        <5>2. Ends((c.start_addr * B + pk[5]) % AddrSize, B * B, pk[4] * B + pk[5])
          BY <2>14, <2>15, <2>16, <4>1, <5>1, Collect
        <5>. QED  BY <4>1, <5>2, Zenon
      <4>. QED  BY <2>2, <4>2 DEF Collected, e
    <3>. QED  BY <1>3, <2>2, <3>1, <3>2 DEF CopierAt, Collected, e
  <2>9. CASE c.state = "S_ADDR_2"
    <3>1. e.state = "S_ADDR_3" /\ e.data_ptr = 0 /\ parser'.data = pk'[7]
      BY <1>1, <1>2, <2>4, <2>9, CopierNets, WantedNets DEF c, CopierAt
    <3>2. Collected(sp, B * B * B, (pk[4] * B + pk[5]) * B + pk[6])'
      <4>. DEFINE v == pk[4] * B + pk[5]
      <4>1. e.start_addr = (c.start_addr * B + pk[6]) % AddrSize /\ Ends(c.start_addr, B * B, v)
        BY <1>1, <1>2, <2>9 DEF CopierAt, Collected, c
      <4>2. v \in Int
        BY <2>15, <2>16
      <4>. HIDE DEF v
      <4>3. Ends(e.start_addr, B * B * B, v * B + pk[6])
        <5>1. Ends(AddrSize, B * B * B, 0)
          BY Weights
        <5>2. Ends((c.start_addr * B + pk[6]) % AddrSize, B * B * B, v * B + pk[6])
          BY <2>14, <2>15, <2>16, <4>1, <4>2, <5>1, Collect
        <5>. QED  BY <4>1, <5>2, Zenon
      <4>. QED  BY <2>2, <4>3 DEF Collected, e, v
    <3>. QED  BY <1>3, <2>2, <3>1, <3>2 DEF CopierAt, Collected, e
  <2>10. CASE c.state = "S_ADDR_3"
    <3>1. e.state \in {"S_LEN", "S_WRITE", "S_IDLE"} /\ e.data_ptr = 0
      BY <1>1, <1>2, <2>10, CopierNets DEF c, CopierAt
    <3>2. e.state # "S_IDLE" => pk[3] >= 5 /\ parser'.data = pk'[8]
      BY <1>2, <2>1, <2>3, <2>4, <2>10, CopierNets, WantedNets DEF c
    <3>3. e.start_addr = AddrOf(pk)
      <4>. DEFINE v == (pk[4] * B + pk[5]) * B + pk[6]
      <4>1. e.start_addr = (c.start_addr * B + pk[7]) % AddrSize /\ Ends(c.start_addr, B * B * B, v)
        BY <1>1, <1>2, <2>10 DEF CopierAt, Collected, c
      <4>2. v \in Int
        BY <2>15, <2>16
      <4>3. v * B + pk[7] = AddrOf(pk)
        BY DEF AddrOf
      <4>. HIDE DEF v
      <4>4. (B * B * B) * B = AddrSize
        BY SizeFacts
      <4>5. Ends(e.start_addr, AddrSize, AddrOf(pk))
        <5>1. Ends(AddrSize, B * B * B * B, 0)
          BY <4>4, Weights
        <5>2. Ends((c.start_addr * B + pk[7]) % AddrSize, B * B * B * B, v * B + pk[7])
          BY <2>14, <2>15, <2>16, <4>1, <4>2, <5>1, Collect
        <5>. QED  BY <4>1, <4>3, <4>4, <5>2, Zenon
      <4>. QED  BY <1>3, <2>1, <4>5, Whole
    <3>4. 8 + 0 = 8 /\ (pk[3] >= 5 => 0 + 4 < pk'[3])
      BY <2>2, <2>3
    <3>. QED  BY <1>3, <2>5, <3>1, <3>2, <3>3, <3>4 DEF CopierAt, e
  <2>11. CASE c.state = "S_LEN"
    <3>1. parser.data = pk[8] /\ c.data_ptr = 0 /\ c.start_addr = AddrOf(pk) /\ copy_read(sp)
      BY <1>1, <2>11 DEF CopierAt, PortInv, c
    <3>2. e.state = "S_READ" /\ e.read_len = pk'[8] /\ e.data_ptr = 0 /\ e.start_addr = AddrOf(pk)'
      BY <1>2, <2>1, <2>2, <2>5, <2>11, <3>1, CopierNets DEF c
    <3>3. 0 < pk'[8]
      BY <2>1, <2>2, <3>1 DEF Byte
    <3>. QED  BY <1>3, <3>2, <3>3 DEF CopierAt, e
  <2>12. CASE c.state = "S_READ"
    <3>1. c.read_len = pk[8] /\ c.data_ptr < c.read_len /\ c.start_addr = AddrOf(pk)
      BY <1>1, <2>12 DEF CopierAt, c
    <3>2. Inc(c.data_ptr) = c.data_ptr + 1 /\ c.data_ptr \in Nat /\ c.read_len \in Nat
      <4>1. Inc(c.data_ptr) = c.data_ptr + 1
        BY <1>1, <3>1, ByteFacts
      <4>. QED  BY <1>1, <4>1 DEF Byte
    <3>3. e.read_len = pk'[8] /\ e.start_addr = AddrOf(pk)' /\ e.state \in {"S_IDLE", "S_READ"}
      BY <1>2, <2>2, <2>5, <2>12, <3>1, CopierNets DEF c
    <3>4. e.state = "S_READ" => e.data_ptr < e.read_len
      <4>1. data_ack(sp) /\ c.data_ptr + 1 = c.read_len => e.state = "S_IDLE"
        BY <1>2, <2>12, <3>2, CopierNets DEF c
      <4>2. e.data_ptr = (IF data_ack(sp) THEN c.data_ptr + 1 ELSE c.data_ptr) /\ e.read_len = c.read_len
        BY <1>2, <2>12, <3>2
      <4>. QED  BY <3>1, <3>2, <4>1, <4>2
    <3>. QED  BY <1>3, <3>3, <3>4 DEF CopierAt, e
  <2>13. CASE c.state = "S_WRITE"
    <3>1. parser.data = pk[8 + c.data_ptr] /\ c.data_ptr + 4 < pk[3] /\ c.start_addr = AddrOf(pk)
      BY <1>1, <2>13 DEF CopierAt, c
    <3>2. Inc(c.data_ptr) = c.data_ptr + 1 /\ c.data_ptr \in Nat
      <4>1. c.data_ptr \in Nat
        BY <1>1 DEF Byte
      <4>2. c.data_ptr < pk[3]
        BY <2>3, <3>1, <4>1
      <4>. QED  BY <1>1, <2>3, <4>1, <4>2, ByteFacts
    <3>3. (c.data_ptr + 4) % B = c.data_ptr + 4 /\ (c.data_ptr + 5 # pk[3] => (c.data_ptr + 1 + 4) % B = c.data_ptr + 5)
          /\ (c.data_ptr + 5 = pk[3] => (c.data_ptr + 5) % B = c.data_ptr + 5)
      <4>1. c.data_ptr + 5 <= B - 1
        BY <2>3, <3>1, <3>2
      <4>. QED  BY <2>3, <3>2, <4>1
    <3>4. e.start_addr = AddrOf(pk)' /\ e.state \in {"S_IDLE", "S_WRITE"}
      BY <1>2, <2>5, <2>13, <3>1, CopierNets DEF c
    <3>5. ASSUME e.state = "S_WRITE" PROVE parser'.data = pk'[8 + e.data_ptr] /\ e.data_ptr + 4 < pk'[3]
      <4>1. CASE data_ack(sp)
        <5>1. c.data_ptr + 5 # pk[3]
          BY <1>2, <2>1, <2>13, <3>3, <3>5, <4>1, CopierNets DEF c
        <5>2. e.data_ptr = c.data_ptr + 1 /\ wanted(sp) = {c.data_ptr + 5}
          BY <1>2, <2>13, <3>2, <3>3, <4>1, <5>1, WantedNets DEF c
        <5>3. c.data_ptr + 5 \in 0 .. pk[3] - 1 /\ 4 + (c.data_ptr + 5) = 8 + e.data_ptr
          BY <2>3, <3>1, <3>2, <5>1, <5>2
        <5>4. parser'.data = pk[4 + (c.data_ptr + 5)]
          BY <2>1, <2>2, <5>2, <5>3
        <5>5. e.data_ptr + 4 < pk[3]
          BY <2>3, <3>2, <5>2, <5>3
        <5>. QED  BY <2>2, <5>3, <5>4, <5>5
      <4>2. CASE ~data_ack(sp)
        <5>1. e.data_ptr = c.data_ptr /\ wanted(sp) = {c.data_ptr + 4}
          BY <1>2, <2>13, <3>3, <4>2, WantedNets DEF c
        <5>2. c.data_ptr + 4 \in 0 .. pk[3] - 1 /\ 4 + (c.data_ptr + 4) = 8 + c.data_ptr
          BY <2>3, <3>1, <3>2
        <5>3. parser'.data = pk[4 + (c.data_ptr + 4)]
          BY <2>1, <2>2, <5>1, <5>2
        <5>. QED  BY <2>2, <3>1, <5>1, <5>2, <5>3
      <4>. QED  BY <4>1, <4>2
    <3>. QED  BY <1>3, <3>4, <3>5 DEF CopierAt, e
  <2>. QED  BY <1>1, <2>6, <2>7, <2>8, <2>9, <2>10, <2>11, <2>12, <2>13 DEF CopierStates
<1>. QED  BY <1>4, <1>5 DEF PortInv

-----------------------------------------------------------------------------
(* What is read, and what is written.                                        *)
LEMMA HaltedStays ==
  ASSUME NEW line, NEW sr, NEW g, NEW d, Edge(line, sr, g, d),
         state \notin {"S_CMD_HALT", "S_CMD_RESUME", "S_CMD_RESET"}
  PROVE  halted' <=> halted
<1>1. /\ counter = 0 /\ (halted => m_is_halted) /\ (halt_req_in => halted)
      /\ halted \in BOOLEAN /\ halt_req_in \in BOOLEAN /\ drained \in BOOLEAN
  BY DEF Edge, DebugInv, CoreInv, ModuleType
<1>2. counter' = 0
  BY <1>1 DEF Edge, Clock, ResetEdge, soft_reset_n
<1>3. halted' <=> m_is_halted
  BY <1>2 DEF Edge, Clock, CoreEdge
<1>. QED  BY <1>1, <1>3 DEF m_is_halted

LEMMA Access ==
  ASSUME DebugInv, ArrivedInv, PortInv, CopierInv, NEW sp \in Space, Accesses(sp)
  PROVE  /\ copy_req(sp) /\ copier[sp].data_ptr \in Nat /\ copier[sp].data_ptr \in Byte
         /\ data_addr(sp) = At(sp) /\ At(sp) \in 0 .. 4 * Words - 1
         /\ At(sp) \div 4 \in 0 .. Words - 1 /\ At(sp) % 4 \in Lanes
         /\ At(sp) = 4 * (At(sp) \div 4) + (At(sp) % 4)
<1>1. copy_req(sp)
  BY DEF PortInv, Accesses
<1>2. copier[sp].data_ptr \in Nat /\ copier[sp].data_ptr \in Byte
  BY DEF DebugInv, CopierType, Byte
<1>3. copier[sp].start_addr = AddrOf(pk) /\ AddrOf(pk) \in Nat
  BY <1>1, Running DEF CopierInv, CopierAt, Accesses
<1>4. At(sp) \in Nat /\ At(sp) < 4 * Words
  <2>1. CASE copier[sp].state = "S_READ"
    <3>1. copier[sp].data_ptr < pk[8] /\ copy_read(sp)
      BY <2>1 DEF CopierInv, CopierAt, PortInv
    <3>2. pk[8] \in Nat /\ AddrOf(pk) + pk[8] <= 4 * Words
      BY <1>1, <3>1, Running DEF Byte
    <3>. QED  BY <1>2, <1>3, <3>1, <3>2, SizeAssumption DEF At
  <2>2. CASE copier[sp].state = "S_WRITE"
    <3>1. copier[sp].data_ptr + 4 < pk[3] /\ copy_write(sp)
      BY <2>2 DEF CopierInv, CopierAt, PortInv
    <3>2. pk[3] \in Nat /\ AddrOf(pk) + pk[3] - 4 <= 4 * Words
      BY <1>1, <3>1, Running, PacketFacts DEF DebugInv
    <3>. QED  BY <1>2, <1>3, <3>1, <3>2, SizeAssumption DEF At
  <2>. QED  BY <2>1, <2>2 DEF Accesses
<1>5. data_addr(sp) = At(sp)
  <2>1. At(sp) < AddrSize /\ AddrSize \in Nat
    BY <1>4, SizeAssumption, SizeFacts
  <2>2. data_addr(sp) = (AddrOf(pk) + copier[sp].data_ptr) % AddrSize
    BY <1>3 DEF data_addr
  <2>. QED  BY <1>4, <2>1, <2>2 DEF At
<1>6. /\ At(sp) \in 0 .. 4 * Words - 1 /\ At(sp) \div 4 \in 0 .. Words - 1 /\ At(sp) % 4 \in Lanes
      /\ At(sp) = 4 * (At(sp) \div 4) + (At(sp) % 4)
  BY <1>4, SizeAssumption DEF Lanes
<1>. QED  BY <1>1, <1>2, <1>5, <1>6

(* The payload: a reading copier writes the byte its port acknowledges, the  *)
(* state command writes whether the core is halted.                          *)
LEMMA OutPayload ==
  ASSUME PortInv
  PROVE  /\ \A sp \in Space : Reading(sp) /\ data_ack(sp) =>
              \A i : out_payload(i) = IF i = copier[sp].data_ptr THEN q[sp][data_addr(sp) % 4]
                                      ELSE buffer.payload[i]
         /\ state # "S_CMD_STATE" /\ (\A sp \in Space : ~(Reading(sp) /\ data_ack(sp))) =>
              \A i : out_payload(i) = buffer.payload[i]
         /\ state = "S_CMD_STATE" => out_payload(0) = IF halted THEN 1 ELSE 0
<1>1. ASSUME NEW sp \in Space, Reading(sp), data_ack(sp), NEW i
      PROVE  out_payload(i) = IF i = copier[sp].data_ptr THEN q[sp][data_addr(sp) % 4]
                              ELSE buffer.payload[i]
  <2>1. copy_req(sp)
    BY <1>1 DEF PortInv, Reading
  <2>2. state # "S_CMD_STATE" /\ \A s \in Space : copy_req(s) => s = sp
    BY <2>1 DEF copy_req, copy_read, copy_write, Space
  <2>3. \A s \in Space : copier[s].state = "S_READ" => s = sp
    BY <2>2 DEF PortInv
  <2>4. (CHOOSE s \in Space : copier[s].state = "S_READ") = sp
    BY <1>1, <2>3 DEF Reading
  <2>5. CASE i = copier[sp].data_ptr
    <3>1. \E s \in Space : copier[s].state = "S_READ" /\ data_ack(s) /\ copier[s].data_ptr = i
      BY <1>1, <2>5 DEF Reading
    <3>. QED  BY <2>2, <2>4, <2>5, <3>1, Zenon DEF out_payload
  <2>6. CASE i # copier[sp].data_ptr
    <3>1. ~\E s \in Space : copier[s].state = "S_READ" /\ data_ack(s) /\ copier[s].data_ptr = i
      BY <2>3, <2>6
    <3>. QED  BY <2>2, <2>6, <3>1, Zenon DEF out_payload
  <2>. QED  BY <2>5, <2>6
<1>2. ASSUME state # "S_CMD_STATE", \A sp \in Space : ~(Reading(sp) /\ data_ack(sp)), NEW i
      PROVE  out_payload(i) = buffer.payload[i]
  <2>1. ~\E s \in Space : copier[s].state = "S_READ" /\ data_ack(s) /\ copier[s].data_ptr = i
    BY <1>2 DEF Reading
  <2>. QED  BY <1>2, <2>1, Zenon DEF out_payload
<1>3. ASSUME state = "S_CMD_STATE"
      PROVE  out_payload(0) = IF halted THEN 1 ELSE 0
  <2>1. ~\E s \in Space : copier[s].state = "S_READ"
    BY <1>3 DEF PortInv, copy_req, copy_read, copy_write
  <2>. QED  BY <1>3, <2>1, Zenon DEF out_payload
<1>. QED  BY <1>1, <1>2, <1>3

LEMMA PortFields ==
  ASSUME NEW line, NEW sr, NEW g, NEW d, Edge(line, sr, g, d), NEW sp \in Space
  PROVE  LET performs == data_req(sp) /\ (sp = "data" => m_is_halted /\ g)
             word == data_addr(sp) \div 4
         IN  /\ ack'[sp] = performs
             /\ q'[sp] = IF performs THEN mem[sp][word] ELSE q[sp]
             /\ mem'[sp] = IF performs /\ copier[sp].state = "S_WRITE"
                           THEN [mem[sp] EXCEPT ![word] = [@ EXCEPT ![data_addr(sp) % 4] = parser.data]]
                           ELSE mem[sp]
             /\ buffer'.payload = [i \in Byte |-> out_payload(i)]
BY DEF Edge, Clock, PortEdge, BufferEdge

LEMMA ReadStep ==
  ASSUME NEW line, NEW sr, NEW g, NEW d, Edge(line, sr, g, d), ArrivedInv, PortInv, CopierInv,
         ReadInv, MemInv
  PROVE  ReadInv'
<1>. SUFFICES ASSUME NEW sp \in Space, Reading(sp)'
              PROVE  /\ ack'[sp] => q'[sp] = mem'[sp][At(sp)' \div 4]
                     /\ \A i \in 0 .. copier'[sp].data_ptr - 1 :
                          buffer'.payload[i] = ByteAt(host'.before, sp, (AddrOf(pk) + i)')
  BY DEF ReadInv, ByteAt
<1>1. copier'[sp].state = copier_next(sp) /\ copier[sp].state \in CopierStates /\ copier'[sp].state = "S_READ"
  BY CopierFields DEF Edge, DebugInv, CopierType, Reading
<1>2. copy_req(sp)
  BY <1>1, CopierNets DEF PortInv, CopierStates
<1>3. pk' = pk /\ host'.before = host.before
  BY <1>2, CopyEdge DEF Same
<1>4. copier[sp].state \in {"S_LEN", "S_READ"}
  BY <1>1, <1>2, CopierNets DEF CopierStates
<1>5. AddrOf(pk)' = AddrOf(pk)
  BY <1>3 DEF AddrOf
<1>6. CASE copier[sp].state = "S_LEN"
  <2>1. ~ack'[sp] /\ copier'[sp].data_ptr = 0
    BY <1>6, PortFields, CopierFields DEF data_req, CopierInv, CopierAt
  <2>. QED  BY <2>1
<1>7. CASE copier[sp].state = "S_READ"
  <2>1. Reading(sp) /\ Accesses(sp)
    BY <1>7 DEF Reading, Accesses
  <2>2. /\ copier[sp].data_ptr \in Nat /\ copier[sp].data_ptr \in Byte /\ data_addr(sp) = At(sp)
        /\ At(sp) \in 0 .. 4 * Words - 1
    BY <2>1, Access DEF Edge
  <2>3. mem'[sp] = mem[sp]
    BY <1>7, PortFields
  <2>4. \A i \in 0 .. copier[sp].data_ptr - 1 : buffer.payload[i] = ByteAt(host.before, sp, AddrOf(pk) + i)
    BY <2>1 DEF ReadInv
  <2>5. CASE data_ack(sp)
    <3>1. ~ack'[sp]
      BY <2>5, PortFields DEF data_req
    <3>2. copier'[sp].data_ptr = copier[sp].data_ptr + 1
      <4>1. copier[sp].data_ptr < copier[sp].read_len /\ copier[sp].read_len \in Byte
        BY <1>7 DEF CopierInv, CopierAt, Edge, DebugInv, CopierType
      <4>2. Inc(copier[sp].data_ptr) = copier[sp].data_ptr + 1
        BY <2>2, <4>1, ByteFacts
      <4>. QED  BY <1>7, <2>5, <4>2, CopierFields
    <3>3. \A i \in Byte : buffer'.payload[i] = IF i = copier[sp].data_ptr THEN q[sp][At(sp) % 4] ELSE buffer.payload[i]
      BY <2>1, <2>2, <2>5, OutPayload, PortFields
    <3>4. q[sp][At(sp) % 4] = ByteAt(host.before, sp, At(sp))
      <4>1. ack[sp] /\ q[sp] = mem[sp][At(sp) \div 4]
        BY <2>1, <2>5 DEF ReadInv, data_ack
      <4>2. ByteAt(mem, sp, At(sp)) = ByteAt(host.before, sp, At(sp))
        <5>1. pk[1] \notin Writes
          BY <1>2, <1>7, Running DEF Edge, PortInv
        <5>2. Written = 0
          BY <5>1 DEF Written, WriteRequest
        <5>. QED  BY <2>2, <5>2 DEF MemInv, Wrote
      <4>. QED  BY <4>1, <4>2 DEF ByteAt
    <3>5. ASSUME NEW i \in 0 .. copier[sp].data_ptr
          PROVE  buffer'.payload[i] = ByteAt(host.before, sp, AddrOf(pk) + i)
      <4>1. i \in Byte
        BY <2>2, ByteFacts DEF Byte
      <4>2. CASE i = copier[sp].data_ptr
        BY <3>3, <3>4, <4>1, <4>2 DEF At
      <4>3. CASE i # copier[sp].data_ptr
        <5>1. i \in 0 .. copier[sp].data_ptr - 1
          BY <2>2, <4>3
        <5>. QED  BY <2>4, <3>3, <4>1, <4>3, <5>1
      <4>. QED  BY <4>2, <4>3
    <3>6. 0 .. copier'[sp].data_ptr - 1 = 0 .. copier[sp].data_ptr
      BY <2>2, <3>2
    <3>. QED  BY <1>3, <1>5, <3>1, <3>5, <3>6
  <2>6. CASE ~data_ack(sp)
    <3>1. copier'[sp].data_ptr = copier[sp].data_ptr
      BY <1>7, <2>6, CopierFields
    <3>2. ack'[sp] => q'[sp] = mem[sp][At(sp) \div 4]
      BY <2>2, PortFields
    <3>3. \A i \in Byte : buffer'.payload[i] = buffer.payload[i]
      <4>1. state # "S_CMD_STATE" /\ \A s \in Space : copy_req(s) => s = sp
        BY <1>2 DEF copy_req, copy_read, copy_write, Space
      <4>2. \A s \in Space : ~(Reading(s) /\ data_ack(s))
        BY <2>6, <4>1 DEF PortInv, Reading
      <4>3. \A i : out_payload(i) = buffer.payload[i]
        BY <4>1, <4>2, OutPayload
      <4>4. buffer'.payload = [i \in Byte |-> out_payload(i)]
        BY PortFields
      <4>. QED  BY <4>3, <4>4
    <3>4. \A i \in 0 .. copier[sp].data_ptr - 1 : i \in Byte
      BY <2>2, ByteFacts DEF Byte
    <3>5. At(sp)' = At(sp)
      BY <1>5, <3>1 DEF At
    <3>6. ack'[sp] => q'[sp] = mem'[sp][At(sp)' \div 4]
      BY <2>3, <3>2, <3>5
    <3>. QED  BY <1>3, <1>5, <2>4, <3>1, <3>3, <3>4, <3>6
  <2>. QED  BY <2>5, <2>6
<1>. QED  BY <1>4, <1>6, <1>7

(* One byte written is that byte and no other.                               *)
WithByte(m, sp, a, b) ==
  [s \in Space |-> IF s = sp THEN [m[s] EXCEPT ![a \div 4] = [@ EXCEPT ![a % 4] = b]] ELSE m[s]]
LEMMA OneByte ==
  ASSUME NEW m, MemType(m), NEW n, NEW sp \in Space, NEW a \in 0 .. 4 * Words - 1, NEW b \in Byte,
         n = WithByte(m, sp, a, b)
  PROVE  /\ MemType(n)
         /\ \A s \in Space, x \in 0 .. 4 * Words - 1 :
              ByteAt(n, s, x) = IF s = sp /\ x = a THEN b ELSE ByteAt(m, s, x)
<1>1. ASSUME NEW x \in 0 .. 4 * Words - 1
      PROVE  x \div 4 \in 0 .. Words - 1 /\ x % 4 \in Lanes /\ x = 4 * (x \div 4) + (x % 4)
  BY SizeAssumption DEF Lanes
<1>. DEFINE w == a \div 4
            l == a % 4
<1>2. w \in 0 .. Words - 1 /\ l \in Lanes /\ a = 4 * w + l
  BY <1>1
<1>3. n = [s \in Space |-> IF s = sp THEN [m[s] EXCEPT ![w] = [@ EXCEPT ![l] = b]] ELSE m[s]]
  BY DEF WithByte
<1>. HIDE DEF w, l
<1>4. m[sp] \in [0 .. Words - 1 -> [Lanes -> Byte]] /\ m[sp][w] \in [Lanes -> Byte]
  BY <1>2 DEF MemType
<1>5. [m[sp] EXCEPT ![w] = [@ EXCEPT ![l] = b]] \in [0 .. Words - 1 -> [Lanes -> Byte]]
  <2>1. [m[sp][w] EXCEPT ![l] = b] \in [Lanes -> Byte]
    BY <1>2, <1>4
  <2>. QED  BY <1>2, <1>4, <2>1
<1>6. MemType(n)
  BY <1>3, <1>5 DEF MemType
<1>7. ASSUME NEW s \in Space, NEW x \in 0 .. 4 * Words - 1
      PROVE  ByteAt(n, s, x) = IF s = sp /\ x = a THEN b ELSE ByteAt(m, s, x)
  <2>. DEFINE y == x \div 4
              z == x % 4
  <2>1. y \in 0 .. Words - 1 /\ z \in Lanes /\ x = 4 * y + z
    BY <1>1
  <2>2. ByteAt(n, s, x) = n[s][y][z] /\ ByteAt(m, s, x) = m[s][y][z]
    BY DEF ByteAt
  <2>. HIDE DEF y, z
  <2>3. x = a <=> y = w /\ z = l
    BY <1>2, <2>1 DEF Lanes
  <2>4. n[s][y][z] = IF s = sp /\ y = w /\ z = l THEN b ELSE m[s][y][z]
    <3>1. CASE s = sp
      <4>1. n[s] = [m[s] EXCEPT ![w] = [@ EXCEPT ![l] = b]]
        BY <1>3, <3>1
      <4>2. n[s][y] = IF y = w THEN [m[s][w] EXCEPT ![l] = b] ELSE m[s][y]
        BY <1>4, <2>1, <3>1, <4>1
      <4>3. [m[s][w] EXCEPT ![l] = b][z] = IF z = l THEN b ELSE m[s][w][z]
        BY <1>4, <2>1, <3>1
      <4>. QED  BY <3>1, <4>2, <4>3
    <3>2. CASE s # sp
      BY <1>3, <3>2
    <3>. QED  BY <3>1, <3>2
  <2>. QED  BY <2>2, <2>3, <2>4
<1>. QED  BY <1>6, <1>7

(* An edge at which no byte is written.                                      *)
LEMMA NoWrite ==
  ASSUME NEW line, NEW sr, NEW g, NEW d, Edge(line, sr, g, d), MemInv,
         \A sp \in Space : copier[sp].state = "S_WRITE" => ~data_req(sp)
                                                          \/ ~(sp = "data" => m_is_halted /\ g)
  PROVE  mem' = mem
<1>1. ASSUME NEW sp \in Space PROVE mem'[sp] = mem[sp]
  <2>1. \/ mem'[sp] = mem[sp]
        \/ data_req(sp) /\ (sp = "data" => m_is_halted /\ g) /\ copier[sp].state = "S_WRITE"
    BY PortFields
  <2>. QED  BY <2>1
<1>2. mem' = [sp \in Space |-> mem'[sp]]
  BY DEF Edge, Clock, PortEdge
<1>3. mem = [sp \in Space |-> mem[sp]]
  BY DEF MemInv, MemType
<1>. QED  BY <1>1, <1>2, <1>3

LEMMA WriteStep ==
  ASSUME NEW line, NEW sr, NEW g, NEW d, Edge(line, sr, g, d), ArrivedInv, PortInv, CopierInv,
         MemInv, NEW sp \in Space, copy_write(sp)
  PROVE  MemInv'
<1>1. /\ copy_req(sp) /\ Ready /\ host.bad = 0 /\ pk[1] \in Writes /\ pk[3] >= 4 /\ SpaceOf(pk[1]) = sp
      /\ parser.len = pk[3] /\ AddrOf(pk) \in Nat /\ \A s \in Space : copy_req(s) => s = sp
      /\ AddrOf(pk) + pk[3] - 4 <= 4 * Words
  BY Running DEF Edge, copy_req
<1>2. /\ host'.bad = 0 /\ pk' = pk /\ host'.before = host.before
      /\ copy_ready(sp) => state' = "S_WAIT_SEND"
      /\ ~copy_ready(sp) => state' = state
  BY <1>1, CopyEdge DEF Same
<1>3. parser'.state = "S_WAIT_READY" /\ parser.state # "S_WAIT_CMD" /\ state # "S_WAIT_SEND"
  <2>1. state # "S_WAIT_SEND"
    BY DEF copy_write
  <2>. QED  BY <1>1, <2>1 DEF Edge, Clock, ParserEdge, Ready
<1>4. Written = IF copier[sp].state = "S_WRITE" THEN copier[sp].data_ptr + (IF ack[sp] THEN 1 ELSE 0) ELSE 0
  BY <1>1, <1>3 DEF Written, WriteRequest, Copied
<1>5. Written' = IF state' = "S_WAIT_SEND" THEN pk[3] - 4
                 ELSE IF copier'[sp].state = "S_WRITE" THEN copier'[sp].data_ptr + (IF ack'[sp] THEN 1 ELSE 0) ELSE 0
  <2>1. WriteRequest' /\ SpaceOf(pk[1])' = sp /\ parser'.state # "S_WAIT_CMD" /\ pk'[3] = pk[3]
    BY <1>1, <1>2, <1>3 DEF WriteRequest, SpaceOf
  <2>2. Written' = IF state' = "S_WAIT_SEND" THEN pk'[3] - 4 ELSE Copied(sp)'
    BY <2>1 DEF Written
  <2>. QED  BY <2>1, <2>2 DEF Copied
<1>6. copier'[sp].state = copier_next(sp) /\ copier[sp].state \in CopierStates
  BY CopierFields DEF Edge, DebugInv, CopierType
<1>7. pk[3] \in Nat /\ pk[3] \in Byte /\ Len(pk) = 3 + pk[3] /\ \A i \in 1 .. Len(pk) : pk[i] \in Byte
  BY PacketFacts DEF Edge, DebugInv
<1>8. copier[sp].state # "S_LEN" /\ copier[sp].state # "S_READ" /\ ~copy_read(sp)
  <2>1. ~copy_read(sp)
    BY Running, <1>1 DEF Edge
  <2>. QED  BY <2>1 DEF PortInv
<1>9. \A s \in Space : copier[s].state = "S_WRITE" => s = sp
  BY <1>1 DEF PortInv
<1>10. ASSUME mem' = mem, Written' = Written PROVE MemInv'
  BY <1>2, <1>10 DEF MemInv
<1>11. CASE copier[sp].state # "S_WRITE"
  <2>1. mem' = mem
    BY <1>9, <1>11, NoWrite
  <2>2. ~ack'[sp]
    BY <1>8, <1>11, PortFields DEF data_req
  <2>3. Written = 0
    BY <1>4, <1>11
  <2>4. CASE copier[sp].state = "S_ADDR_3"
    <3>1. CASE pk[3] > 4
      <4>1. copier'[sp].state = "S_WRITE" /\ copier'[sp].data_ptr = 0 /\ ~copy_ready(sp)
        BY <1>1, <1>6, <1>8, <2>4, <3>1, CopierNets, CopierFields DEF CopierInv, CopierAt, copy_ready
      <4>. QED  BY <1>2, <1>3, <1>5, <1>10, <2>1, <2>2, <2>3, <4>1
    <3>2. CASE ~(pk[3] > 4)
      <4>1. pk[3] = 4 /\ copy_ready(sp)
        BY <1>1, <1>6, <1>7, <1>8, <2>4, <3>2, CopierNets DEF copy_ready
      <4>. QED  BY <1>2, <1>5, <1>10, <2>1, <2>3, <4>1
    <3>. QED  BY <3>1, <3>2
  <2>5. CASE copier[sp].state # "S_ADDR_3"
    <3>1. copier'[sp].state # "S_WRITE" /\ ~copy_ready(sp)
      BY <1>1, <1>6, <1>8, <1>11, <2>5, CopierNets DEF CopierStates, copy_ready
    <3>. QED  BY <1>2, <1>3, <1>5, <1>10, <2>1, <2>3, <3>1
  <2>. QED  BY <2>4, <2>5
<1>12. CASE copier[sp].state = "S_WRITE"
  <2>. DEFINE p == copier[sp].data_ptr
  <2>1. Accesses(sp)
    BY <1>12 DEF Accesses
  <2>2. p \in Nat /\ p \in Byte /\ data_addr(sp) = At(sp) /\ At(sp) \in 0 .. 4 * Words - 1
    BY <2>1, Access DEF Edge
  <2>3. parser.data = pk[8 + p] /\ p + 4 < pk[3]
    BY <1>12 DEF CopierInv, CopierAt
  <2>4. Inc(p) = p + 1 /\ (p + 5) % ByteSize = p + 5
    <3>1. p + 5 <= pk[3] /\ pk[3] < ByteSize /\ ByteSize \in Nat
      <4>1. pk[3] \in Byte /\ pk[3] \in Nat /\ p \in Nat
        BY <1>7, <2>2
      <4>. HIDE DEF p
      <4>. QED  BY <2>3, <4>1, SizeAssumption DEF Byte
    <3>2. Inc(p) = p + 1
      <4>1. p < pk[3]
        BY <1>7, <2>2, <3>1
      <4>. QED  BY <1>7, <2>2, <4>1, ByteFacts
    <3>3. p \in Nat /\ pk[3] \in Nat
      BY <1>7, <2>2
    <3>. HIDE DEF p
    <3>. QED  BY <3>1, <3>2, <3>3
  <2>5. /\ copier'[sp].data_ptr = IF data_ack(sp) THEN p + 1 ELSE p
        /\ copier'[sp].state = IF data_ack(sp) /\ p + 5 = pk[3] THEN "S_IDLE" ELSE "S_WRITE"
        /\ copy_ready(sp) <=> data_ack(sp) /\ p + 5 = pk[3]
    BY <1>1, <1>6, <1>12, <2>4, CopierNets, CopierFields DEF copy_ready
  <2>6. CASE data_ack(sp)
    <3>1. ack[sp] /\ ~ack'[sp]
      BY <2>6, PortFields DEF data_ack, data_req
    <3>2. mem' = mem
      BY <1>9, <2>6, NoWrite DEF data_req
    <3>3. Written = p + 1
      BY <1>4, <1>12, <3>1
    <3>4. Written' = p + 1
      BY <1>2, <1>3, <1>5, <1>7, <2>2, <2>5, <2>6, <3>1
    <3>. QED  BY <1>10, <3>2, <3>3, <3>4
  <2>7. CASE ~data_ack(sp)
    <3>1. ~ack[sp]
      BY <2>7 DEF PortInv
    <3>2. Written = p /\ Written' = p + (IF ack'[sp] THEN 1 ELSE 0)
      BY <1>2, <1>3, <1>4, <1>5, <1>12, <2>2, <2>5, <2>7, <3>1
    <3>3. CASE ~ack'[sp]
      <4>1. ~data_req(sp) \/ ~(sp = "data" => m_is_halted /\ g)
        BY <3>3, PortFields
      <4>2. mem' = mem
        BY <1>9, <4>1, NoWrite
      <4>. QED  BY <1>10, <2>2, <3>2, <3>3, <4>2
    <3>4. CASE ack'[sp]
      <4>1. \A s \in Space : mem'[s] = IF s = sp THEN [mem[s] EXCEPT ![At(sp) \div 4] =
                                                        [@ EXCEPT ![At(sp) % 4] = parser.data]] ELSE mem[s]
        BY <1>9, <1>12, <2>2, <3>4, PortFields
      <4>2. mem' = [s \in Space |-> mem'[s]]
        BY DEF Edge, Clock, PortEdge
      <4>3. mem' = WithByte(mem, sp, At(sp), parser.data)
        BY <4>1, <4>2 DEF WithByte
      <4>4. MemType(mem) /\ MemType(host.before) /\ parser.data \in Byte
        BY DEF MemInv, Edge, DebugInv, ParserType
      <4>5. /\ MemType(mem')
            /\ \A s \in Space, x \in 0 .. 4 * Words - 1 :
                 ByteAt(mem', s, x) = IF s = sp /\ x = At(sp) THEN parser.data ELSE ByteAt(mem, s, x)
        BY <2>2, <4>3, <4>4, OneByte
      <4>6. \A s \in Space, x \in 0 .. 4 * Words - 1 :
              ByteAt(mem, s, x) = IF p # 0 /\ s = sp /\ x >= AddrOf(pk) /\ x < AddrOf(pk) + p
                                  THEN pk[8 + x - AddrOf(pk)] ELSE ByteAt(host.before, s, x)
        BY <1>1, <3>2 DEF MemInv, Wrote
      <4>7. ASSUME NEW s \in Space, NEW x \in 0 .. 4 * Words - 1
            PROVE  ByteAt(mem', s, x) = IF p + 1 # 0 /\ s = sp /\ x >= AddrOf(pk) /\ x < AddrOf(pk) + (p + 1)
                                        THEN pk[8 + x - AddrOf(pk)] ELSE ByteAt(host.before, s, x)
        <5>1. x \in Nat /\ At(sp) = AddrOf(pk) + p
          BY DEF At
        <5>2. CASE s = sp /\ x = At(sp)
          <6>1. 8 + x - AddrOf(pk) = 8 + p
            BY <1>1, <2>2, <5>1, <5>2
          <6>. QED  BY <1>1, <2>2, <2>3, <4>5, <5>1, <5>2, <6>1
        <5>3. CASE ~(s = sp /\ x = At(sp))
          <6>1. ByteAt(mem', s, x) = ByteAt(mem, s, x)
            BY <4>5, <5>3
          <6>2. (p # 0 /\ s = sp /\ x >= AddrOf(pk) /\ x < AddrOf(pk) + p)
                 <=> (p + 1 # 0 /\ s = sp /\ x >= AddrOf(pk) /\ x < AddrOf(pk) + (p + 1))
            BY <1>1, <2>2, <5>1, <5>3
          <6>. QED  BY <4>6, <6>1, <6>2
        <5>. QED  BY <5>2, <5>3
      <4>8. Wrote(mem', host.before, pk, p + 1)
        BY <1>1, <4>7 DEF Wrote
      <4>9. Written' = p + 1
        BY <3>2, <3>4
      <4>. QED  BY <1>2, <4>4, <4>5, <4>8, <4>9 DEF MemInv
    <3>. QED  BY <3>3, <3>4
  <2>. QED  BY <2>6, <2>7
<1>. QED  BY <1>11, <1>12

(* A state of the command machine is that of the command of the request.     *)
LEMMA CommandOf ==
  ASSUME DebugInv, ArrivedInv, state \in Commands
  PROVE  /\ Ready /\ ~parser.error /\ host.bad = 0 /\ parser.id = pk[2] /\ state = Dispatch(pk[1], pk[3])
         /\ pk[1] \in Byte /\ pk[3] \in Byte /\ pk[1] \in Nat /\ pk[3] \in Nat
<1>1. Ready /\ ~parser.error /\ state = Dispatch(parser.cmd, parser.len)
  BY DEF DebugInv, CommandInv, Commands
<1>2. host.bad = 0 /\ parser.cmd = pk[1] /\ parser.len = pk[3] /\ parser.id = pk[2] /\ pk[1] \in Byte /\ pk[3] \in Byte
  BY <1>1 DEF DebugInv, ParserInv, ArrivedInv, ParserType
<1>. HIDE DEF pk
<1>. QED  BY <1>1, <1>2, SizeAssumption DEF Byte

LEMMA GoodWrite ==
  ASSUME DebugInv, ArrivedInv, state \in Commands, WriteRequest
  PROVE  copy_write(SpaceOf(pk[1])) /\ SpaceOf(pk[1]) \in Space
<1>1. pk[1] \in Byte /\ pk[3] \in Byte /\ pk[3] >= 4 /\ pk[1] \in {CMD_WRITE_PROG, CMD_WRITE_DATA}
      /\ state = Dispatch(pk[1], pk[3])
  BY CommandOf DEF WriteRequest, Writes
<1>2. state = IF pk[1] = CMD_WRITE_PROG THEN "S_CMD_WRITE_PROG" ELSE "S_CMD_WRITE_DATA"
  BY <1>1, Dispatched
<1>. QED  BY <1>1, <1>2 DEF copy_write, SpaceOf, Space, CMD_READ_PROG, CMD_WRITE_PROG, CMD_WRITE_DATA

LEMMA MemStep ==
  ASSUME NEW line, NEW sr, NEW g, NEW d, Edge(line, sr, g, d), ArrivedInv, PortInv, CopierInv, MemInv
  PROVE  MemInv'
<1>1. CASE \E sp \in Space : copy_write(sp)
  BY <1>1, WriteStep
<1>2. CASE ~\E sp \in Space : copy_write(sp)
  <2>1. \A sp \in Space : copier[sp].state # "S_WRITE"
    BY <1>2 DEF PortInv
  <2>2. mem' = mem
    BY <2>1, NoWrite
  <2>3. /\ parser.state \in ParserStates /\ state \in States /\ sr \in BOOLEAN /\ line \in Line
        /\ parser.error \in BOOLEAN
    BY DEF Edge, DebugInv, ParserType, ModuleType, Moves
  <2>4. /\ parser.state = "S_WAIT_READY" => parser'.state = IF Released(sr) THEN "S_WAIT_CMD" ELSE "S_WAIT_READY"
        /\ parser.state # "S_WAIT_READY" =>
             parser'.state = IF ~line.valid THEN parser.state
                             ELSE IF line.error THEN "S_WAIT_READY" ELSE parser_next(line)
    BY <2>3, ParserNets DEF Edge, Clock
  <2>5. parser.state # "S_WAIT_READY" => state = "S_WAIT_INPUT" /\ state' = "S_WAIT_INPUT"
    BY StateStep DEF Edge, DebugInv, CommandInv, Ready
  <2>6. ASSUME NEW sp \in Space, copier'[sp].state = "S_WRITE" PROVE FALSE
    <3>1. copier_next(sp) = "S_WRITE" /\ copier[sp].state \in CopierStates
      BY <2>6, CopierFields DEF Edge, DebugInv, CopierType
    <3>2. copier[sp].state = "S_ADDR_3" /\ ~copy_read(sp)
      BY <2>1, <3>1, CopierNets DEF CopierStates
    <3>. QED  BY <1>2, <3>2 DEF PortInv, copy_req
  <2>7. \A sp \in Space : Copied(sp) = 0 /\ Copied(sp)' = 0
    BY <2>1, <2>6 DEF Copied
  <2>8. CASE Started(line)
    <3>1. parser.state = "S_WAIT_CMD" /\ host'.before = mem /\ line.valid
      BY <2>8, Quiet DEF Started, Edge
    <3>2. parser'.state # "S_WAIT_CMD" /\ state' = "S_WAIT_INPUT"
      BY <2>4, <2>5, <3>1, ParserNext
    <3>3. Written' = 0
      <4>1. SpaceOf(pk[1])' \in Space
        BY DEF SpaceOf, Space
      <4>2. Written' = IF ~WriteRequest' THEN 0 ELSE Copied(SpaceOf(pk[1]))'
        BY <3>2 DEF Written
      <4>3. Copied(SpaceOf(pk[1]))' = 0
        BY <2>6, <4>1 DEF Copied
      <4>. QED  BY <4>2, <4>3
    <3>4. Wrote(mem', host'.before, pk', 0)
      BY <2>2, <3>1 DEF Wrote
    <3>. QED  BY <2>2, <3>1, <3>3, <3>4 DEF MemInv
  <2>9. CASE ~Started(line)
    <3>1. Same /\ pk' = pk /\ (Sent(line, sr) \/ ~line.valid)
      BY <2>9 DEF Edge, Moves, Sent, Waited, Same, pk
    <3>2. WriteRequest' <=> WriteRequest
      BY <3>1 DEF WriteRequest, Same
    <3>3. SpaceOf(pk[1]) \in Space /\ SpaceOf(pk[1])' = SpaceOf(pk[1])
      BY <3>1 DEF SpaceOf, Space
    <3>4. Copied(SpaceOf(pk[1])) = 0 /\ Copied(SpaceOf(pk[1]))' = 0
      BY <2>1, <2>6, <3>3 DEF Copied
    <3>5. ASSUME WriteRequest
          PROVE  (state' = "S_WAIT_SEND" \/ parser'.state = "S_WAIT_CMD")
                   <=> (state = "S_WAIT_SEND" \/ parser.state = "S_WAIT_CMD")
      <4>1. CASE parser.state = "S_WAIT_CMD"
        <5>1. ~line.valid
          BY <3>1, <4>1, Quiet DEF Sent, Edge
        <5>. QED  BY <2>4, <4>1, <5>1
      <4>2. CASE parser.state \in {"S_WAIT_ID", "S_WAIT_LEN", "S_WAIT_DATA"}
        <5>1. parser'.state # "S_WAIT_CMD"
          BY <2>4, <4>2, ParserNext
        <5>. QED  BY <2>5, <4>2, <5>1
      <4>3. CASE Ready /\ state = "S_WAIT_SEND"
        <5>1. Released(sr) => parser'.state = "S_WAIT_CMD"
          BY <2>4, <4>3 DEF Ready
        <5>2. ~Released(sr) => state' = "S_WAIT_SEND"
          BY <4>3, StateStep
        <5>. QED  BY <4>3, <5>1, <5>2
      <4>4. CASE Ready /\ state # "S_WAIT_SEND"
        <5>1. parser'.state = "S_WAIT_READY"
          BY <2>4, <4>4 DEF Released, Ready
        <5>2. state \notin Commands
          BY <1>2, <3>5, GoodWrite DEF Edge
        <5>3. ~parser.error
          BY <3>5, <4>4 DEF WriteRequest, Edge, DebugInv, ParserInv
        <5>4. state = "S_WAIT_INPUT"
          BY <2>3, <4>4, <5>2, <5>3 DEF States, Waits, Edge, DebugInv, CommandInv
        <5>5. state' # "S_WAIT_SEND"
          <6>1. state' = Dispatch(parser.cmd, parser.len)
            BY <4>4, <5>3, <5>4, StateStep DEF Edge
          <6>2. parser.cmd = pk[1] /\ parser.len = pk[3] /\ pk[1] \in Byte /\ pk[3] \in Byte
            BY <4>4, <5>3 DEF Edge, DebugInv, ParserInv, ArrivedInv, ParserType
          <6>3. pk[1] \in {CMD_WRITE_PROG, CMD_WRITE_DATA}
            BY <3>5 DEF WriteRequest, Writes
          <6>. QED  BY <6>1, <6>2, <6>3, Dispatched
        <5>. QED  BY <4>4, <5>1, <5>5 DEF Ready
      <4>. QED  BY <2>3, <4>1, <4>2, <4>3, <4>4 DEF ParserStates, Ready
    <3>6. Written' = Written
      <4>1. pk'[3] = pk[3]
        BY <3>1
      <4>. QED  BY <3>2, <3>4, <3>5, <4>1 DEF Written
    <3>. QED  BY <2>2, <3>1, <3>6 DEF MemInv, Same
  <2>. QED  BY <2>8, <2>9
<1>. QED  BY <1>1, <1>2

-----------------------------------------------------------------------------
(* What the states write into the response.                                  *)
LEMMA OutNets ==
  /\ state = "S_ERROR_PARITY" => out_status = STATUS_ERROR_PARITY /\ out_len = 0
  /\ state = "S_ERROR_ARGS" => out_status = STATUS_ERROR_ARGS /\ out_len = 0
  /\ state = "S_ERROR_CMD" => out_status = STATUS_ERROR_CMD /\ out_len = 0
  /\ state = "S_CMD_STATE" => out_status = STATUS_OK /\ out_len = 1
  /\ state = "S_CMD_READ_PROG" => out_status = STATUS_OK /\ out_len = copier["prog"].read_len
  /\ state = "S_CMD_READ_DATA" => out_status = STATUS_OK /\ out_len = copier["data"].read_len
  /\ state \in {"S_CMD_HALT", "S_CMD_RESUME", "S_CMD_RESET", "S_CMD_WRITE_PROG", "S_CMD_WRITE_DATA"} =>
       out_status = STATUS_OK /\ out_len = 0
BY Zenon DEF out_status, out_len

(* A read that is done has read the last byte asked for.                     *)
LEMMA ReadDone ==
  ASSUME DebugInv, ArrivedInv, PortInv, CopierInv, ReadInv, MemInv,
         NEW sp \in Space, copy_read(sp), done
  PROVE  /\ copier[sp].read_len = pk[8] /\ pk[8] \in Byte /\ pk[8] \in Nat /\ sp = SpaceOf(pk[1])
         /\ \A i \in 0 .. pk[8] - 1 : out_payload(i) = ByteAt(host.before, sp, AddrOf(pk) + i)
<1>1. copy_req(sp) /\ ~copy_write(sp) /\ pk[8] \in Byte /\ pk[8] > 0 /\ pk[1] \notin Writes /\ sp = SpaceOf(pk[1])
  BY Running DEF copy_req
<1>2. copier[sp].state # "S_IDLE" /\ copier_next(sp) = "S_IDLE"
  <2>1. \A s \in Space : copy_req(s) => s = sp
    BY <1>1, Running
  <2>. QED  BY <1>1, <2>1, DoneCopy DEF copy_ready
<1>3. copier[sp].state = "S_READ" /\ data_ack(sp) /\ Inc(copier[sp].data_ptr) = copier[sp].read_len
  <2>1. copier[sp].state \in CopierStates
    BY DEF DebugInv, CopierType
  <2>2. copier[sp].state # "S_LEN"
    <3>1. copier[sp].state = "S_LEN" => parser.data # 0
      BY <1>1 DEF CopierInv, CopierAt
    <3>. QED  BY <1>2, <3>1, CopierNets
  <2>3. copier[sp].state # "S_WRITE"
    BY <1>1 DEF PortInv
  <2>4. copier[sp].state = "S_READ"
    BY <1>2, <2>1, <2>2, <2>3, CopierNets DEF CopierStates
  <2>. QED  BY <1>2, <2>4, CopierNets
<1>4. /\ copier[sp].data_ptr \in Nat /\ data_addr(sp) = At(sp) /\ At(sp) \in 0 .. 4 * Words - 1
      /\ copier[sp].data_ptr \in Byte
  BY <1>3, Access DEF Accesses
<1>5. copier[sp].read_len = pk[8] /\ copier[sp].data_ptr < copier[sp].read_len
  BY <1>3 DEF CopierInv, CopierAt
<1>6. copier[sp].data_ptr + 1 = pk[8]
  BY <1>1, <1>3, <1>4, <1>5, ByteFacts
<1>7. q[sp][data_addr(sp) % 4] = ByteAt(host.before, sp, At(sp))
  <2>1. ack[sp] /\ q[sp] = mem[sp][At(sp) \div 4]
    BY <1>3 DEF ReadInv, Reading, data_ack
  <2>2. Written = 0
    BY <1>1 DEF Written, WriteRequest
  <2>3. ByteAt(mem, sp, At(sp)) = ByteAt(host.before, sp, At(sp))
    BY <1>4, <2>2 DEF MemInv, Wrote
  <2>. QED  BY <1>4, <2>1, <2>3 DEF ByteAt
<1>8. ASSUME NEW i \in 0 .. pk[8] - 1
      PROVE  out_payload(i) = ByteAt(host.before, sp, AddrOf(pk) + i)
  <2>1. out_payload(i) = IF i = copier[sp].data_ptr THEN q[sp][data_addr(sp) % 4] ELSE buffer.payload[i]
    BY <1>3, OutPayload DEF Reading
  <2>2. CASE i = copier[sp].data_ptr
    BY <1>7, <2>1, <2>2 DEF At
  <2>3. CASE i # copier[sp].data_ptr
    <3>1. i \in 0 .. copier[sp].data_ptr - 1
      BY <1>4, <1>6, <2>3
    <3>. QED  BY <1>3, <2>1, <2>3, <3>1 DEF ReadInv, Reading
  <2>. QED  BY <2>2, <2>3
<1>9. pk[8] \in Nat
  BY <1>4, <1>6
<1>. QED  BY <1>1, <1>5, <1>8, <1>9

(* A command that is done writes the header and the payload of its answer.   *)
LEMMA Response ==
  ASSUME DebugInv, ArrivedInv, PortInv, CopierInv, ReadInv, MemInv, state \notin Waits, done
  PROVE  /\ out_status = AnswerStatus /\ out_len = AnswerLen
         /\ host.bad = 0 \/ host.bad > 2 => parser.id = pk[2]
         /\ \A i \in 0 .. AnswerLen - 1 : i \in Byte /\ out_payload(i) = AnswerByte(i)
<1>1. CASE state = "S_ERROR_PARITY"
  <2>1. Ready /\ parser.error /\ host.bad # 0
    BY <1>1 DEF DebugInv, CommandInv, ParserInv
  <2>2. host.bad > 2 => parser.id = pk[2]
    BY <2>1 DEF ArrivedInv
  <2>3. AnswerStatus = STATUS_ERROR_PARITY /\ AnswerLen = 0
    BY <2>1 DEF AnswerStatus, AnswerLen
  <2>. QED  BY <1>1, <2>1, <2>2, <2>3, OutNets
<1>2. CASE state \in Commands
  <2>1. /\ host.bad = 0 /\ parser.id = pk[2] /\ state = Dispatch(pk[1], pk[3])
        /\ pk[1] \in Byte /\ pk[3] \in Byte /\ pk[1] \in Nat /\ pk[3] \in Nat
    BY <1>2, CommandOf
  <2>. DEFINE c == pk[1]
  <2>2. CASE c \in {CMD_HALT, CMD_RESUME, CMD_RESET}
    <3>1. state \in {"S_CMD_HALT", "S_CMD_RESUME", "S_CMD_RESET"}
      BY <2>1, <2>2, Dispatched
    <3>2. AnswerStatus = STATUS_OK /\ AnswerLen = 0
      BY <2>1, <2>2 DEF AnswerStatus, AnswerLen, Reads, Writes, CMD_HALT, CMD_RESUME, CMD_READ_PROG,
         CMD_WRITE_PROG, CMD_READ_DATA, CMD_WRITE_DATA, CMD_RESET, CMD_GET_STATE
    <3>. QED  BY <2>1, <3>1, <3>2, OutNets
  <2>3. CASE c = CMD_GET_STATE
    <3>1. state = "S_CMD_STATE"
      BY <2>1, <2>3, Dispatched
    <3>2. AnswerStatus = STATUS_OK /\ AnswerLen = 1
      BY <2>1, <2>3 DEF AnswerStatus, AnswerLen, Reads, Writes, CMD_READ_PROG, CMD_WRITE_PROG,
         CMD_READ_DATA, CMD_WRITE_DATA, CMD_GET_STATE
    <3>3. out_payload(0) = AnswerByte(0)
      BY <2>3, <3>1, OutPayload DEF AnswerByte
    <3>4. \A i \in 0 .. 1 - 1 : i = 0
      OBVIOUS
    <3>. QED  BY <2>1, <3>1, <3>2, <3>3, <3>4, OutNets, ByteFacts
  <2>4. CASE c \in Reads
    <3>1. c <= CMD_GET_STATE /\ c # CMD_GET_STATE /\ c \notin Writes
      BY <2>4 DEF Reads, Writes, CMD_READ_PROG, CMD_WRITE_PROG, CMD_READ_DATA, CMD_WRITE_DATA, CMD_GET_STATE
    <3>2. CASE pk[3] >= 5
      <4>1. state = IF c = CMD_READ_PROG THEN "S_CMD_READ_PROG" ELSE "S_CMD_READ_DATA"
        BY <2>1, <2>4, <3>2, Dispatched DEF Reads
      <4>2. PICK sp \in Space : copy_read(sp) /\ (sp = "prog" <=> state = "S_CMD_READ_PROG")
        BY <4>1 DEF copy_read, Space
      <4>3. /\ copier[sp].read_len = pk[8] /\ pk[8] \in Byte /\ pk[8] \in Nat /\ sp = SpaceOf(pk[1])
            /\ \A i \in 0 .. pk[8] - 1 : out_payload(i) = ByteAt(host.before, sp, AddrOf(pk) + i)
        BY <4>2, ReadDone
      <4>4. AnswerStatus = STATUS_OK /\ AnswerLen = pk[8]
        BY <2>1, <2>4, <3>1, <3>2 DEF AnswerStatus, AnswerLen, Long
      <4>5. out_status = STATUS_OK /\ out_len = pk[8]
        BY <4>1, <4>2, <4>3, OutNets DEF Space
      <4>6. ASSUME NEW i \in 0 .. pk[8] - 1 PROVE i \in Byte /\ out_payload(i) = AnswerByte(i)
        <5>1. i \in Byte
          BY <4>3, SizeAssumption DEF Byte
        <5>2. AnswerByte(i) = ByteAt(host.before, sp, AddrOf(pk) + i)
          BY <3>1, <4>3 DEF AnswerByte
        <5>. QED  BY <4>3, <5>1, <5>2
      <4>. QED  BY <2>1, <4>4, <4>5, <4>6
    <3>3. CASE ~(pk[3] >= 5)
      <4>1. state = "S_ERROR_ARGS"
        BY <2>1, <2>4, <3>3, Dispatched DEF Reads
      <4>2. AnswerStatus = STATUS_ERROR_ARGS /\ AnswerLen = 0
        BY <2>1, <2>4, <3>1, <3>3 DEF AnswerStatus, AnswerLen, Long
      <4>. QED  BY <2>1, <4>1, <4>2, OutNets
    <3>. QED  BY <3>2, <3>3
  <2>5. CASE c \in Writes
    <3>1. c <= CMD_GET_STATE /\ c # CMD_GET_STATE /\ c \notin Reads
      BY <2>5 DEF Reads, Writes, CMD_READ_PROG, CMD_WRITE_PROG, CMD_READ_DATA, CMD_WRITE_DATA, CMD_GET_STATE
    <3>2. CASE pk[3] >= 4
      <4>1. state \in {"S_CMD_WRITE_PROG", "S_CMD_WRITE_DATA"}
        BY <2>1, <2>5, <3>2, Dispatched DEF Writes
      <4>2. AnswerStatus = STATUS_OK /\ AnswerLen = 0
        BY <2>1, <2>5, <3>1, <3>2 DEF AnswerStatus, AnswerLen, Long
      <4>. QED  BY <2>1, <4>1, <4>2, OutNets
    <3>3. CASE ~(pk[3] >= 4)
      <4>1. state = "S_ERROR_ARGS"
        BY <2>1, <2>5, <3>3, Dispatched DEF Writes
      <4>2. AnswerStatus = STATUS_ERROR_ARGS /\ AnswerLen = 0
        BY <2>1, <2>5, <3>1, <3>3 DEF AnswerStatus, AnswerLen, Long
      <4>. QED  BY <2>1, <4>1, <4>2, OutNets
    <3>. QED  BY <3>2, <3>3
  <2>6. CASE c \notin {CMD_HALT, CMD_RESUME, CMD_READ_PROG, CMD_WRITE_PROG, CMD_READ_DATA, CMD_WRITE_DATA,
                       CMD_RESET, CMD_GET_STATE}
    <3>1. state = "S_ERROR_CMD"
      BY <2>1, <2>6, Dispatched
    <3>2. c \notin Reads /\ c \notin Writes /\ c # CMD_GET_STATE /\ ~(c <= CMD_GET_STATE)
      BY <2>1, <2>6 DEF Reads, Writes, CMD_HALT, CMD_RESUME, CMD_READ_PROG, CMD_WRITE_PROG,
         CMD_READ_DATA, CMD_WRITE_DATA, CMD_RESET, CMD_GET_STATE
    <3>3. AnswerStatus = STATUS_ERROR_CMD /\ AnswerLen = 0
      BY <2>1, <3>2 DEF AnswerStatus, AnswerLen
    <3>. QED  BY <2>1, <3>1, <3>3, OutNets
  <2>. QED  BY <2>2, <2>3, <2>4, <2>5, <2>6 DEF Reads, Writes
<1>. QED  BY <1>1, <1>2 DEF DebugInv, ModuleType, States

(* The answer stays what it is while it is prepared and sent.                *)
LEMMA AnswerStays ==
  ASSUME NEW line, NEW sr, NEW g, NEW d, Edge(line, sr, g, d), ArrivedInv, ~Started(line)
  PROVE  /\ AnswerStatus' = AnswerStatus /\ AnswerLen' = AnswerLen
         /\ \A i : AnswerByte(i)' = AnswerByte(i)
         /\ Same /\ pk' = pk
<1>1. Same /\ pk' = pk
  BY DEF Edge, Moves, Sent, Waited, Same, pk
<1>2. (halted' <=> halted) \/ pk[1] # CMD_GET_STATE
  <2>1. CASE state \in {"S_CMD_HALT", "S_CMD_RESUME", "S_CMD_RESET"}
    <3>1. state = Dispatch(pk[1], pk[3]) /\ pk[1] \in Byte /\ pk[3] \in Byte
      BY <2>1, CommandOf DEF Edge, Commands
    <3>. QED  BY <2>1, <3>1, Dispatched
  <2>2. CASE state \notin {"S_CMD_HALT", "S_CMD_RESUME", "S_CMD_RESET"}
    BY <2>2, HaltedStays
  <2>. QED  BY <2>1, <2>2
<1>3. AnswerStatus' = AnswerStatus /\ AnswerLen' = AnswerLen
  BY <1>1 DEF AnswerStatus, AnswerLen, Long, Same
<1>4. ASSUME NEW i PROVE AnswerByte(i)' = AnswerByte(i)
  <2>1. ByteAt(host.before, SpaceOf(pk[1]), AddrOf(pk) + i)' = ByteAt(host.before, SpaceOf(pk[1]), AddrOf(pk) + i)
    BY <1>1 DEF ByteAt, SpaceOf, AddrOf, Same
  <2>2. halted \in BOOLEAN /\ halted' \in BOOLEAN
    BY After DEF Edge, DebugInv, ModuleType
  <2>. QED  BY <1>1, <1>2, <2>1, <2>2 DEF AnswerByte
<1>. QED  BY <1>1, <1>3, <1>4

(* The response buffer while the response is sent.                           *)
LEMMA BufferStays ==
  ASSUME NEW line, NEW sr, NEW g, NEW d, Edge(line, sr, g, d), PortInv, state \in Waits
  PROVE  /\ buffer'.status = buffer.status /\ buffer'.id = buffer.id /\ buffer'.len = buffer.len
         /\ \A i \in Byte : buffer'.payload[i] = buffer.payload[i]
<1>1. ~answers
  BY DEF Waits, answers
<1>2. \A sp \in Space : ~Reading(sp)
  BY DEF Waits, PortInv, Reading, copy_req, copy_read, copy_write
<1>3. state # "S_CMD_STATE"
  BY DEF Waits
<1>4. \A i : out_payload(i) = buffer.payload[i]
  BY <1>2, <1>3, OutPayload
<1>. QED  BY <1>1, <1>4 DEF Edge, Clock, BufferEdge

LEMMA ResponseStep ==
  ASSUME NEW line, NEW sr, NEW g, NEW d, Edge(line, sr, g, d), ArrivedInv, PortInv, CopierInv, ReadInv,
         MemInv, ResponseInv
  PROVE  ResponseInv'
<1>. SUFFICES ASSUME state' = "S_WAIT_SEND"
              PROVE  /\ buffer'.status = AnswerStatus' /\ buffer'.len = AnswerLen'
                     /\ host'.bad = 0 \/ host'.bad > 2 => buffer'.id = pk'[2]
                     /\ \A i \in 0 .. AnswerLen' - 1 : buffer'.payload[i] = AnswerByte(i)'
  BY DEF ResponseInv
<1>1. state = "S_WAIT_SEND" \/ (state \notin Waits /\ done)
  BY StateStep DEF Waits, Commands
<1>2. Ready
  BY <1>1 DEF Edge, DebugInv, CommandInv, Waits
<1>3. ~Started(line)
  BY <1>2, Quiet DEF Started, Ready, Edge
<1>4. /\ AnswerStatus' = AnswerStatus /\ AnswerLen' = AnswerLen /\ (\A i : AnswerByte(i)' = AnswerByte(i))
      /\ host'.bad = host.bad /\ pk' = pk
  BY <1>3, AnswerStays DEF Same
<1>5. CASE state = "S_WAIT_SEND"
  <2>1. /\ buffer'.status = buffer.status /\ buffer'.id = buffer.id /\ buffer'.len = buffer.len
        /\ \A i \in Byte : buffer'.payload[i] = buffer.payload[i]
    BY <1>5, BufferStays DEF Waits
  <2>2. /\ buffer.status = AnswerStatus /\ buffer.len = AnswerLen
        /\ host.bad = 0 \/ host.bad > 2 => buffer.id = pk[2]
        /\ \A i \in 0 .. AnswerLen - 1 : buffer.payload[i] = AnswerByte(i)
    BY <1>5 DEF ResponseInv
  <2>3. \A i \in 0 .. AnswerLen - 1 : i \in Byte
    <3>1. AnswerLen \in Byte
      BY <2>2 DEF Edge, DebugInv, ModuleType
    <3>. QED  BY <3>1, SizeAssumption DEF Byte
  <2>. QED  BY <1>4, <2>1, <2>2, <2>3
<1>6. CASE state \notin Waits /\ done
  <2>1. /\ out_status = AnswerStatus /\ out_len = AnswerLen
        /\ host.bad = 0 \/ host.bad > 2 => parser.id = pk[2]
        /\ \A i \in 0 .. AnswerLen - 1 : i \in Byte /\ out_payload(i) = AnswerByte(i)
    BY <1>6, Response DEF Edge
  <2>2. /\ buffer'.status = out_status /\ buffer'.id = parser.id /\ buffer'.len = out_len
        /\ \A i \in Byte : buffer'.payload[i] = out_payload(i)
    BY <1>6 DEF Edge, Clock, BufferEdge, answers, Waits
  <2>. QED  BY <1>4, <2>1, <2>2
<1>. QED  BY <1>1, <1>5, <1>6

-----------------------------------------------------------------------------
(* What the host receives.                                                   *)
LEMMA SendNets ==
  /\ buffer.state = "S_SEND_STATUS" => send_byte = buffer.status
  /\ buffer.state = "S_SEND_ID" => send_byte = buffer.id
  /\ buffer.state = "S_SEND_LEN" => send_byte = buffer.len
  /\ buffer.state = "S_SEND_PAYLOAD" => send_byte = buffer.payload[buffer.data_ptr]
BY Zenon DEF send_byte

LEMMA MatchesMore ==
  ASSUME NEW r, IsSequence(r), NEW x, NEW status, NEW id, NEW len, NEW payload,
         Matches(r, status, id, len, payload),
         Len(r) = 0 => x = status, Len(r) = 1 => x = id, Len(r) = 2 => x = len,
         Len(r) >= 3 => x = payload[Len(r) - 3]
  PROVE  Matches(Append(r, x), status, id, len, payload)
<1>. DEFINE s == Append(r, x)
            n == Len(r)
<1>1. /\ n \in Nat /\ Len(s) = n + 1 /\ s[n + 1] = x
      /\ \A i \in 1 .. n : s[i] = r[i]
  BY AppendFacts, LengthFacts
<1>2. n >= 1 => s[1] = status
  <2>1. n >= 1 => s[1] = r[1]
    BY <1>1
  <2>. QED  BY <2>1 DEF Matches
<1>3. n >= 2 => s[2] = id
  <2>1. n >= 2 => s[2] = r[2]
    BY <1>1
  <2>. QED  BY <2>1 DEF Matches
<1>4. n >= 3 => s[3] = len
  <2>1. n >= 3 => s[3] = r[3]
    BY <1>1
  <2>. QED  BY <2>1 DEF Matches
<1>5. ASSUME NEW i \in 0 .. Len(s) - 4 PROVE s[4 + i] = payload[i]
  <2>1. CASE i \in 0 .. n - 4
    <3>1. s[4 + i] = r[4 + i]
      BY <1>1, <2>1
    <3>. QED  BY <2>1, <3>1 DEF Matches
  <2>2. CASE i \notin 0 .. n - 4
    <3>1. n >= 3 /\ i = n - 3 /\ 4 + i = n + 1
      BY <1>1, <2>2
    <3>. QED  BY <1>1, <3>1
  <2>. QED  BY <2>1, <2>2
<1>6. /\ n = 0 => s[1] = status
      /\ n = 1 => s[2] = id
      /\ n = 2 => s[3] = len
  <2>1. n \in Nat /\ s[n + 1] = x /\ (n = 0 => x = status) /\ (n = 1 => x = id) /\ (n = 2 => x = len)
    BY <1>1
  <2>. HIDE DEF s, n
  <2>2. (n = 0 => n + 1 = 1) /\ (n = 1 => n + 1 = 2) /\ (n = 2 => n + 1 = 3)
    OBVIOUS
  <2>. QED  BY <2>1, <2>2, Zenon
<1>7. /\ Len(s) >= 1 => s[1] = status
      /\ Len(s) >= 2 => s[2] = id
      /\ Len(s) >= 3 => s[3] = len
  <2>. HIDE DEF s, n
  <2>. QED  BY <1>1, <1>2, <1>3, <1>4, <1>6
<1>. QED  BY <1>5, <1>7 DEF Matches

LEMMA HeardMatches ==
  ASSUME DebugInv, ReceivedInv, state = "S_WAIT_SEND", NEW sr
  PROVE  Matches(Heard(host.received, sr), buffer.status, buffer.id, buffer.len, buffer.payload)
<1>1. Matches(host.received, buffer.status, buffer.id, buffer.len, buffer.payload) /\ IsSequence(host.received)
  BY DEF ReceivedInv, DebugInv, HostInv
<1>2. CASE ~(send_valid /\ sr)
  BY <1>1, <1>2 DEF Heard
<1>3. CASE send_valid /\ sr
  <2>1. Heard(host.received, sr) = Append(host.received, send_byte)
    BY <1>3 DEF Heard
  <2>. DEFINE n == Len(host.received)
  <2>2. buffer.state \in BufferStates \ {"S_IDLE"} /\ parser.state = "S_WAIT_READY" /\ buffer.data_ptr \in Nat
    BY <1>3 DEF send_valid, DebugInv, ModuleType, CommandInv, Ready, Byte
  <2>3. /\ buffer.state = "S_SEND_STATUS" => n = 0
        /\ buffer.state = "S_SEND_ID" => n = 1
        /\ buffer.state = "S_SEND_LEN" => n = 2
        /\ buffer.state = "S_SEND_PAYLOAD" => n = 3 + buffer.data_ptr
    BY <1>1, <2>2, LengthFacts DEF DebugInv, BufferInv
  <2>4. /\ n = 0 => buffer.state = "S_SEND_STATUS"
        /\ n = 1 => buffer.state = "S_SEND_ID"
        /\ n = 2 => buffer.state = "S_SEND_LEN"
        /\ n >= 3 => buffer.state = "S_SEND_PAYLOAD" /\ n - 3 = buffer.data_ptr
    <3>. HIDE DEF n
    <3>1. CASE buffer.state = "S_SEND_STATUS"
      BY <2>3, <3>1
    <3>2. CASE buffer.state = "S_SEND_ID"
      BY <2>3, <3>2
    <3>3. CASE buffer.state = "S_SEND_LEN"
      BY <2>3, <3>3
    <3>4. CASE buffer.state = "S_SEND_PAYLOAD"
      BY <2>2, <2>3, <3>4
    <3>. QED  BY <2>2, <3>1, <3>2, <3>3, <3>4 DEF BufferStates
  <2>. QED  BY <1>1, <2>1, <2>4, SendNets, MatchesMore
<1>. QED  BY <1>2, <1>3

LEMMA ReceivedStep ==
  ASSUME NEW line, NEW sr, NEW g, NEW d, Edge(line, sr, g, d), ArrivedInv, PortInv, ReceivedInv
  PROVE  ReceivedInv'
<1>. SUFFICES ASSUME state' = "S_WAIT_SEND"
              PROVE  Matches(host'.received, buffer'.status, buffer'.id, buffer'.len, buffer'.payload)
  BY DEF ReceivedInv
<1>1. state = "S_WAIT_SEND" \/ state \notin Waits
  BY StateStep DEF Waits, Commands
<1>2. Ready
  BY <1>1 DEF Edge, DebugInv, CommandInv, Waits
<1>3. host'.received = Heard(host.received, sr) /\ ~Started(line)
  <2>1. ~Started(line)
    BY <1>2, Quiet DEF Started, Ready, Edge
  <2>. QED  BY <2>1 DEF Edge, Moves, Sent, Waited
<1>4. CASE state = "S_WAIT_SEND"
  <2>1. Matches(host'.received, buffer.status, buffer.id, buffer.len, buffer.payload)
    BY <1>3, <1>4, HeardMatches DEF Edge
  <2>2. /\ buffer'.status = buffer.status /\ buffer'.id = buffer.id /\ buffer'.len = buffer.len
        /\ \A i \in Byte : buffer'.payload[i] = buffer.payload[i]
    BY <1>4, BufferStays DEF Waits
  <2>3. Len(host'.received) <= 3 + ByteSize - 1 /\ Len(host'.received) \in Nat /\ ByteSize \in Nat
    <3>1. BufferInv' /\ HostInv' /\ ModuleType' /\ CommandInv'
      BY After DEF DebugInv
    <3>2. buffer'.state \in BufferStates /\ parser'.state # "S_WAIT_CMD" /\ IsSequence(host'.received)
          /\ buffer'.data_ptr \in Nat /\ buffer'.data_ptr <= ByteSize - 1
      BY <3>1, SizeAssumption DEF ModuleType, CommandInv, Ready, HostInv, Byte
    <3>3. Len(host'.received) \in Nat /\ (host'.received = <<>> => Len(host'.received) = 0)
      BY <3>2, LengthFacts
    <3>4. Len(host'.received) \in {0, 1, 2, 3 + buffer'.data_ptr}
      BY <3>1, <3>2, <3>3 DEF BufferInv, BufferStates
    <3>5. ByteSize \in Nat /\ ByteSize > 8
      BY SizeAssumption
    <3>. DEFINE n == Len(host'.received)
                b == buffer'.data_ptr
    <3>6. n \in {0, 1, 2, 3 + b} /\ b \in Nat /\ b <= ByteSize - 1
      BY <3>2, <3>4
    <3>. HIDE DEF n, b
    <3>7. n <= 3 + ByteSize - 1 /\ n \in Nat
      BY <3>5, <3>6
    <3>. QED  BY <3>5, <3>7 DEF n
  <2>4. \A i \in 0 .. Len(host'.received) - 4 : i \in Byte
    BY <2>3 DEF Byte
  <2>. QED  BY <2>1, <2>2, <2>4 DEF Matches
<1>5. CASE state \notin Waits
  <2>1. host.received = <<>> /\ ~send_valid
    BY <1>2, <1>5 DEF Edge, DebugInv, BufferInv, send_valid, Waits, Ready
  <2>2. Len(host'.received) = 0
    BY <1>3, <2>1 DEF Heard
  <2>. QED  BY <2>2 DEF Matches
<1>. QED  BY <1>1, <1>4, <1>5

LEMMA AnswerStep ==
  ASSUME NEW line, NEW sr, NEW g, NEW d, Edge(line, sr, g, d), ArrivedInv, ResponseInv, ReceivedInv, AnswerInv
  PROVE  AnswerInv'
<1>. SUFFICES ASSUME parser'.state = "S_WAIT_CMD"
              PROVE  LET r == host'.received
                     IN  /\ Len(r) = 3 + AnswerLen' /\ r[1] = AnswerStatus' /\ r[3] = AnswerLen'
                         /\ host'.bad = 0 \/ host'.bad > 2 => r[2] = pk'[2]
                         /\ \A i \in 0 .. AnswerLen' - 1 : r[4 + i] = AnswerByte(i)'
  BY DEF AnswerInv
<1>1. /\ parser.state \in ParserStates /\ sr \in BOOLEAN /\ line \in Line /\ parser.error \in BOOLEAN
  BY DEF Edge, DebugInv, ParserType, Moves
<1>2. /\ parser.state = "S_WAIT_READY" => parser'.state = IF Released(sr) THEN "S_WAIT_CMD" ELSE "S_WAIT_READY"
      /\ parser.state # "S_WAIT_READY" =>
           parser'.state = IF ~line.valid THEN parser.state
                           ELSE IF line.error THEN "S_WAIT_READY" ELSE parser_next(line)
  BY <1>1, ParserNets DEF Edge, Clock
<1>3. \/ parser.state = "S_WAIT_CMD" /\ ~line.valid
      \/ Ready /\ Released(sr)
  BY <1>1, <1>2, ParserNext DEF ParserStates, Ready
<1>4. ~Started(line)
  BY <1>3, Quiet DEF Started, Ready, Edge
<1>5. /\ AnswerStatus' = AnswerStatus /\ AnswerLen' = AnswerLen /\ (\A i : AnswerByte(i)' = AnswerByte(i))
      /\ Same /\ host'.bad = host.bad /\ pk' = pk
  BY <1>4, AnswerStays DEF Same
<1>6. ~sending
  BY <1>3, Quiet DEF Edge, Released
<1>7. host'.sent = host.sent /\ host'.received = Heard(host.received, sr)
  BY <1>4, <1>6 DEF Edge, Moves, Sent, Waited
<1>8. CASE parser.state = "S_WAIT_CMD"
  <2>1. host'.received = host.received
    BY <1>7, <1>8, Quiet DEF Edge, Heard
  <2>. QED  BY <1>5, <1>8, <2>1 DEF AnswerInv
<1>9. CASE Ready /\ Released(sr)
  <2>. DEFINE r == host'.received
  <2>1. complete'
    BY <1>1, <1>5, <1>7, <1>9, LastByte DEF Edge, Released
  <2>2. Len(r) >= 3 /\ Len(r) = 3 + r[3]
    BY <2>1 DEF complete
  <2>3. Matches(r, buffer.status, buffer.id, buffer.len, buffer.payload)
    BY <1>7, <1>9, HeardMatches DEF Edge, Released
  <2>4. /\ buffer.status = AnswerStatus /\ buffer.len = AnswerLen
        /\ host.bad = 0 \/ host.bad > 2 => buffer.id = pk[2]
        /\ \A i \in 0 .. AnswerLen - 1 : buffer.payload[i] = AnswerByte(i)
    BY <1>9 DEF ResponseInv, Released
  <2>5. AnswerLen \in Nat
    BY <2>4, SizeAssumption DEF Edge, DebugInv, ModuleType, Byte
  <2>6. r[3] = AnswerLen /\ Len(r) = 3 + AnswerLen /\ r[1] = AnswerStatus /\ r[2] = buffer.id
    <3>1. Len(r) >= 1 /\ Len(r) >= 2
      BY <2>2, <2>3, <2>4, <2>5 DEF Matches
    <3>. QED  BY <2>2, <2>3, <2>4, <3>1 DEF Matches
  <2>7. \A i \in 0 .. AnswerLen - 1 : r[4 + i] = AnswerByte(i)
    <3>1. 0 .. Len(r) - 4 = 0 .. AnswerLen - 1
      BY <2>5, <2>6
    <3>. HIDE DEF r
    <3>2. \A i \in 0 .. AnswerLen - 1 : r[4 + i] = buffer.payload[i]
      BY <2>3, <3>1 DEF Matches
    <3>. QED  BY <2>4, <3>2
  <2>. QED  BY <1>5, <2>4, <2>6, <2>7
<1>. QED  BY <1>3, <1>8, <1>9

-----------------------------------------------------------------------------
(* The invariant of the data: what has arrived, is copied, read, written,    *)
(* prepared and received is what the request and its answer say.             *)
DataInv ==
  /\ ArrivedInv /\ PortInv /\ CopierInv /\ ReadInv /\ MemInv
  /\ ResponseInv /\ ReceivedInv /\ AnswerInv

LEMMA DataInvInit == Init => DataInv
<1>. SUFFICES ASSUME Init PROVE DataInv
  OBVIOUS
<1>1. /\ pk = <<CMD_GET_STATE, 0, 0>> /\ host.received = <<STATUS_OK, 0, 1, 0>> /\ host.bad = 0
      /\ host.before = mem /\ parser.state = "S_WAIT_CMD" /\ state = "S_WAIT_INPUT" /\ ~halted
      /\ \A sp \in Space : copier[sp].state = "S_IDLE" /\ copier[sp].start_addr = 0 /\ ~ack[sp] /\ ack[sp] \in BOOLEAN
  BY DEF Init, pk
<1>2. ArrivedInv /\ PortInv /\ ReadInv /\ ResponseInv /\ ReceivedInv
  BY <1>1 DEF ArrivedInv, Ready, PortInv, ReadInv, Reading, ResponseInv, ReceivedInv
<1>3. CopierInv
  <2>1. 0 \in 0 .. AddrSize - 1
    BY SizeFacts
  <2>. QED  BY <1>1, <2>1 DEF CopierInv, CopierAt
<1>4. MemInv
  <2>1. MemType(mem)
    <3>1. \A w \in 0 .. Words - 1, l \in Lanes : (4 * w + l) % ByteSize \in Byte
      BY SizeAssumption DEF Lanes, Byte
    <3>. QED  BY <3>1 DEF Init, MemType
  <2>2. Written = 0
    <3>1. ~WriteRequest
      BY <1>1 DEF WriteRequest, Writes, CMD_GET_STATE, CMD_WRITE_PROG, CMD_WRITE_DATA
    <3>. QED  BY <3>1 DEF Written
  <2>. QED  BY <1>1, <2>1, <2>2 DEF MemInv, Wrote
<1>5. AnswerInv
  <2>1. AnswerStatus = STATUS_OK /\ AnswerLen = 1 /\ AnswerByte(0) = 0
    BY <1>1 DEF AnswerStatus, AnswerLen, AnswerByte, Long, Reads, Writes, CMD_GET_STATE, CMD_READ_PROG,
       CMD_WRITE_PROG, CMD_READ_DATA, CMD_WRITE_DATA
  <2>2. \A i \in 0 .. 1 - 1 : i = 0
    OBVIOUS
  <2>. HIDE DEF pk
  <2>. QED  BY <1>1, <2>1, <2>2 DEF AnswerInv
<1>. QED  BY <1>2, <1>3, <1>4, <1>5 DEF DataInv

LEMMA DataInvStep == DebugInv /\ DataInv /\ [Next]_vars => DataInv'
<1>. SUFFICES ASSUME DebugInv, DataInv, [Next]_vars PROVE DataInv'
  OBVIOUS
<1>1. CASE Next
  <2>1. PICK line, sr, g, d : Edge(line, sr, g, d)
    BY <1>1, EdgeTaken
  <2>2. /\ ArrivedInv /\ PortInv /\ CopierInv /\ ReadInv /\ MemInv
        /\ ResponseInv /\ ReceivedInv /\ AnswerInv
    BY DEF DataInv
  <2>3. ArrivedInv' /\ PortInv' /\ CopierInv'
    BY <2>1, <2>2, ArrivedStep, PortStep, CopierStep
  <2>4. ReadInv' /\ MemInv'
    BY <2>1, <2>2, ReadStep, MemStep
  <2>5. ResponseInv' /\ ReceivedInv' /\ AnswerInv'
    BY <2>1, <2>2, ResponseStep, ReceivedStep, AnswerStep
  <2>. QED  BY <2>3, <2>4, <2>5 DEF DataInv
<1>2. CASE UNCHANGED vars
  <2>1. /\ UNCHANGED <<parser, state, timeout_counter, copier, buffer, counter>>
        /\ UNCHANGED <<halt_req_in, drained, halted, host, mem, ack, q>>
    BY <1>2 DEF vars, module, core
  <2>2. pk' = pk
    BY <2>1 DEF pk
  <2>3. ArrivedInv'
    BY <2>1, <2>2 DEF DataInv, ArrivedInv, Ready
  <2>4. PortInv'
    BY <2>1 DEF DataInv, PortInv, copy_req, copy_read, copy_write, Accesses, data_ack, m_is_halted
  <2>5. CopierInv'
    BY <2>1, <2>2 DEF DataInv, CopierInv, CopierAt, Collected, AddrOf
  <2>6. ReadInv'
    BY <2>1, <2>2 DEF DataInv, ReadInv, Reading, At, AddrOf, ByteAt
  <2>7. MemInv'
    <3>1. Written' = Written
      BY <2>1, <2>2 DEF Written, WriteRequest, Copied, SpaceOf
    <3>. QED  BY <2>1, <2>2, <3>1 DEF DataInv, MemInv
  <2>8. /\ AnswerStatus' = AnswerStatus /\ AnswerLen' = AnswerLen
        /\ \A i : AnswerByte(i)' = AnswerByte(i)
    BY <2>1, <2>2 DEF AnswerStatus, AnswerLen, AnswerByte, Long, ByteAt, SpaceOf, AddrOf
  <2>9. ResponseInv'
    BY <2>1, <2>2, <2>8 DEF DataInv, ResponseInv
  <2>10. ReceivedInv'
    BY <2>1 DEF DataInv, ReceivedInv
  <2>11. AnswerInv'
    BY <2>1, <2>2, <2>8 DEF DataInv, AnswerInv
  <2>. QED  BY <2>3, <2>4, <2>5, <2>6, <2>7, <2>9, <2>10, <2>11 DEF DataInv
<1>. QED  BY <1>1, <1>2

(* The data invariant holds at every edge.                                   *)
THEOREM DebugDataInvariant == Spec => []DataInv
BY DataInvInit, DataInvStep, DebugInvariant, PTL DEF Spec

(* A request that is answered has had exactly its effect on memory.          *)
THEOREM DebugEffectRight == Spec => []EffectRight
<1>1. DebugInv /\ DataInv => EffectRight
  <2>. SUFFICES ASSUME DebugInv, DataInv, complete,
                       NEW sp \in Space, NEW a \in 0 .. 4 * Words - 1
                PROVE  ByteAt(mem, sp, a) =
                         IF /\ host.bad = 0 /\ pk[1] \in Writes /\ pk[3] >= 4 /\ sp = SpaceOf(pk[1])
                            /\ a \in AddrOf(pk) .. AddrOf(pk) + pk[3] - 5
                         THEN pk[8 + a - AddrOf(pk)] ELSE ByteAt(host.before, sp, a)
    BY DEF EffectRight, pk
  <2>1. parser.state = "S_WAIT_CMD"
    BY Quiet
  <2>2. Written = IF WriteRequest THEN pk[3] - 4 ELSE 0
    BY <2>1 DEF Written
  <2>3. ByteAt(mem, sp, a) = IF Written # 0 /\ sp = SpaceOf(pk[1]) /\ a >= AddrOf(pk) /\ a < AddrOf(pk) + Written
                             THEN pk[8 + a - AddrOf(pk)] ELSE ByteAt(host.before, sp, a)
    BY DEF DataInv, MemInv, Wrote
  <2>4. CASE WriteRequest
    <3>1. pk[3] \in Nat /\ pk[3] >= 4 /\ host.bad = 0 /\ pk[1] \in Writes /\ AddrOf(pk) \in Nat
      <4>1. pk[3] \in Nat /\ pk[3] >= 4 /\ host.bad = 0 /\ pk[1] \in Writes
            /\ Len(pk) = 3 + pk[3] /\ \A i \in 1 .. Len(pk) : pk[i] \in Byte
        BY <2>4, PacketFacts DEF DebugInv, WriteRequest
      <4>2. pk[4] \in Byte /\ pk[5] \in Byte /\ pk[6] \in Byte /\ pk[7] \in Byte
        BY <4>1
      <4>3. AddrOf(pk) \in 0 .. AddrSize - 1
        BY <4>2, AddrFacts
      <4>. QED  BY <4>1, <4>3
    <3>. DEFINE A == AddrOf(pk)
                n == pk[3]
    <3>2. (n - 4 # 0 /\ a >= A /\ a < A + (n - 4)) <=> a \in A .. A + n - 5
      <4>1. A \in Nat /\ n \in Nat /\ n >= 4 /\ a \in Nat
        BY <3>1
      <4>. HIDE DEF A, n
      <4>. QED  BY <4>1
    <3>. QED  BY <2>2, <2>3, <2>4, <3>1, <3>2
  <2>5. CASE ~WriteRequest
    BY <2>2, <2>3, <2>5 DEF WriteRequest
  <2>. QED  BY <2>4, <2>5
<1>. QED  BY <1>1, DebugInvariant, DebugDataInvariant, PTL

-----------------------------------------------------------------------------
(* The answer as a sequence.                                                 *)
LEMMA ConcatFacts ==
  ASSUME NEW r, NEW t, IsSequence(r), IsSequence(t)
  PROVE  /\ IsSequence(r \o t) /\ Len(r \o t) = Len(r) + Len(t)
         /\ \A i \in 1 .. Len(r) : (r \o t)[i] = r[i]
         /\ \A i \in 1 .. Len(t) : (r \o t)[Len(r) + i] = t[i]
<1>1. PICK R : r \in Seq(R)
  BY DEF IsSequence
<1>2. PICK T : t \in Seq(T)
  BY DEF IsSequence
<1>. DEFINE S == R \cup T
<1>3. r \in Seq(S) /\ t \in Seq(S)
  BY <1>1, <1>2, SeqMonotonic
<1>. HIDE DEF S
<1>4. /\ r \o t \in Seq(S) /\ Len(r \o t) = Len(r) + Len(t)
      /\ \A i \in 1 .. Len(r) + Len(t) : (r \o t)[i] = IF i <= Len(r) THEN r[i] ELSE t[i - Len(r)]
  BY <1>3, ConcatProperties
<1>5. Len(r) \in Nat /\ Len(t) \in Nat
  BY <1>3, LenProperties
<1>6. ASSUME NEW i \in 1 .. Len(r) PROVE (r \o t)[i] = r[i]
  BY <1>4, <1>5
<1>7. ASSUME NEW i \in 1 .. Len(t) PROVE (r \o t)[Len(r) + i] = t[i]
  <2>1. Len(r) + i \in 1 .. Len(r) + Len(t) /\ ~(Len(r) + i <= Len(r)) /\ (Len(r) + i) - Len(r) = i
    BY <1>5
  <2>. QED  BY <1>4, <2>1
<1>. QED  BY <1>4, <1>6, <1>7 DEF IsSequence

LEMMA SameSequence ==
  ASSUME NEW r, NEW t, IsSequence(r), IsSequence(t), Len(r) = Len(t), \A i \in 1 .. Len(r) : r[i] = t[i]
  PROVE  r = t
<1>1. PICK R : r \in Seq(R)
  BY DEF IsSequence
<1>2. PICK T : t \in Seq(T)
  BY DEF IsSequence
<1>. DEFINE S == R \cup T
<1>3. r \in Seq(S) /\ t \in Seq(S)
  BY <1>1, <1>2, SeqMonotonic
<1>. HIDE DEF S
<1>. QED  BY <1>3, SeqEqual

LEMMA One ==
  ASSUME NEW x
  PROVE  IsSequence(<<x>>) /\ Len(<<x>>) = 1 /\ <<x>>[1] = x
<1>1. <<x>> \in Seq({x})
  OBVIOUS
<1>. QED  BY <1>1 DEF IsSequence

LEMMA Two ==
  ASSUME NEW x, NEW y
  PROVE  IsSequence(<<x, y>>) /\ Len(<<x, y>>) = 2 /\ <<x, y>>[1] = x /\ <<x, y>>[2] = y
<1>1. <<x, y>> \in Seq({x, y})
  OBVIOUS
<1>. QED  BY <1>1 DEF IsSequence

LEMMA Three ==
  ASSUME NEW x, NEW y, NEW z
  PROVE  /\ IsSequence(<<x, y, z>>) /\ Len(<<x, y, z>>) = 3
         /\ <<x, y, z>>[1] = x /\ <<x, y, z>>[2] = y /\ <<x, y, z>>[3] = z
<1>1. <<x, y, z>> \in Seq({x, y, z})
  OBVIOUS
<1>. QED  BY <1>1 DEF IsSequence

(* A sequence that is a header and a payload.                                *)
Framed(r, status, id, len) == IsSequence(r) /\ Len(r) = 3 + len /\ r[1] = status /\ r[2] = id /\ r[3] = len

Error(status, id)      == <<status, id, 0>>
Short(status, id)      == Append(<<status, id>>, 0)
Single(status, id, h)  == <<status, id>> \o <<1, h>>
Full(status, id, n, p) == <<status, id>> \o <<n>> \o p

Pair(x, y) == <<x, y>>
LEMMA Header ==
  ASSUME NEW x, NEW y
  PROVE  IsSequence(Pair(x, y)) /\ Len(Pair(x, y)) = 2 /\ Pair(x, y)[1] = x /\ Pair(x, y)[2] = y
BY Two, Zenon DEF Pair

LEMMA ErrorFrame ==
  ASSUME NEW status, NEW id
  PROVE  Framed(Error(status, id), status, id, 0)
<1>1. 3 + 0 = 3
  OBVIOUS
<1>. QED  BY <1>1, Three, Zenon DEF Framed, Error

LEMMA ShortFrame ==
  ASSUME NEW status, NEW id
  PROVE  Framed(Short(status, id), status, id, 0)
<1>1. PICK ok : ok = Pair(status, id) /\ IsSequence(ok) /\ Len(ok) = 2 /\ ok[1] = status /\ ok[2] = id
  BY Header
<1>. DEFINE r == Append(ok, 0)
<1>2. IsSequence(r) /\ Len(r) = Len(ok) + 1 /\ (\A i \in 1 .. Len(ok) : r[i] = ok[i]) /\ r[Len(ok) + 1] = 0
  <2>1. IsSequence(ok)
    BY <1>1
  <2>. QED  BY <2>1, AppendFacts
<1>3. Short(status, id) = r
  BY <1>1 DEF Short, Pair
<1>. HIDE DEF r
<1>4. IsSequence(r) /\ Len(r) = 3 + 0 /\ r[1] = status /\ r[2] = id /\ r[3] = 0
  BY <1>1, <1>2
<1>. QED  BY <1>3, <1>4 DEF Framed

LEMMA SingleFrame ==
  ASSUME NEW status, NEW id, NEW h
  PROVE  Framed(Single(status, id, h), status, id, 1) /\ Single(status, id, h)[4] = h
<1>1. PICK ok : ok = Pair(status, id) /\ IsSequence(ok) /\ Len(ok) = 2 /\ ok[1] = status /\ ok[2] = id
  BY Header
<1>2. PICK t : t = Pair(1, h) /\ IsSequence(t) /\ Len(t) = 2 /\ t[1] = 1 /\ t[2] = h
  BY Header
<1>. DEFINE r == ok \o t
<1>3. /\ IsSequence(r) /\ Len(r) = Len(ok) + Len(t)
      /\ \A i \in 1 .. Len(ok) : r[i] = ok[i]
      /\ \A i \in 1 .. Len(t) : r[Len(ok) + i] = t[i]
  <2>1. IsSequence(ok) /\ IsSequence(t)
    BY <1>1, <1>2
  <2>. QED  BY <2>1, ConcatFacts
<1>4. Single(status, id, h) = r
  BY <1>1, <1>2 DEF Single, Pair
<1>. HIDE DEF r
<1>5. IsSequence(r) /\ Len(r) = 3 + 1 /\ r[1] = status /\ r[2] = id
  BY <1>1, <1>2, <1>3
<1>6. r[2 + 1] = 1 /\ r[2 + 2] = h
  BY <1>1, <1>2, <1>3
<1>. QED  BY <1>4, <1>5, <1>6 DEF Framed

LEMMA FullFrame ==
  ASSUME NEW status, NEW id, NEW n, NEW p, n \in Nat, IsSequence(p), Len(p) = n
  PROVE  /\ Framed(Full(status, id, n, p), status, id, n)
         /\ \A i \in 1 .. n : Full(status, id, n, p)[3 + i] = p[i]
<1>1. PICK ok : ok = Pair(status, id) /\ IsSequence(ok) /\ Len(ok) = 2 /\ ok[1] = status /\ ok[2] = id
  BY Header
<1>2. PICK t : t = <<n>> /\ IsSequence(t) /\ Len(t) = 1 /\ t[1] = n
  BY One, Zenon
<1>. DEFINE u == ok \o t
            r == u \o p
<1>3. Full(status, id, n, p) = r
  BY <1>1, <1>2 DEF Full, Pair
<1>4. /\ IsSequence(u) /\ Len(u) = Len(ok) + Len(t)
      /\ \A i \in 1 .. Len(ok) : u[i] = ok[i]
      /\ \A i \in 1 .. Len(t) : u[Len(ok) + i] = t[i]
  <2>1. IsSequence(ok) /\ IsSequence(t)
    BY <1>1, <1>2
  <2>. QED  BY <2>1, ConcatFacts
<1>5. Len(u) = 3 /\ u[1] = status /\ u[2] = id /\ u[2 + 1] = n
  <2>. HIDE DEF u
  <2>. QED  BY <1>1, <1>2, <1>4
<1>6. /\ IsSequence(r) /\ Len(r) = Len(u) + Len(p)
      /\ \A i \in 1 .. Len(u) : r[i] = u[i]
      /\ \A i \in 1 .. Len(p) : r[Len(u) + i] = p[i]
  BY <1>4, ConcatFacts
<1>. HIDE DEF u, r
<1>7. r[1] = u[1] /\ r[2] = u[2] /\ r[3] = u[3] /\ Len(r) = 3 + n
  BY <1>5, <1>6
<1>8. Framed(r, status, id, n)
  BY <1>5, <1>6, <1>7 DEF Framed
<1>9. \A i \in 1 .. n : r[3 + i] = p[i]
  BY <1>5, <1>6
<1>. QED  BY <1>3, <1>8, <1>9

LEMMA AnswerFrame ==
  ASSUME DebugInv, host.bad = 0
  PROVE  /\ Framed(Answer(pk), AnswerStatus, pk[2], AnswerLen) /\ AnswerLen \in Nat
         /\ \A i \in 0 .. AnswerLen - 1 : Answer(pk)[4 + i] = AnswerByte(i)
<1>. DEFINE c == pk[1]
            n == pk[3]
<1>1. c \in Nat /\ n \in Nat /\ (n >= 5 => pk[8] \in Nat)
  <2>1. Len(pk) = 3 + pk[3] /\ pk[3] \in Nat /\ \A i \in 1 .. Len(pk) : pk[i] \in Byte
    BY PacketFacts DEF DebugInv
  <2>2. pk[1] \in Byte /\ (n >= 5 => pk[8] \in Byte)
    BY <2>1
  <2>3. Byte \subseteq Nat
    BY SizeAssumption DEF Byte
  <2>. QED  BY <2>1, <2>2, <2>3
<1>2. CASE c \in {CMD_HALT, CMD_RESUME, CMD_RESET}
  <2>1. c # CMD_GET_STATE /\ c \notin Reads /\ c \notin Writes /\ c <= CMD_GET_STATE
    BY <1>2 DEF Reads, Writes, CMD_HALT, CMD_RESUME, CMD_READ_PROG, CMD_WRITE_PROG, CMD_READ_DATA,
       CMD_WRITE_DATA, CMD_RESET, CMD_GET_STATE
  <2>2. Answer(pk) = Short(STATUS_OK, pk[2])
    BY <1>2, <2>1, Zenon DEF Answer, Short, Single, Full, Error
  <2>3. AnswerStatus = STATUS_OK /\ AnswerLen = 0
    BY <2>1 DEF AnswerStatus, AnswerLen
  <2>. QED  BY <2>2, <2>3, ShortFrame, ErrorFrame
<1>3. CASE c = CMD_GET_STATE
  <2>1. c \notin {CMD_HALT, CMD_RESUME, CMD_RESET} /\ c \notin Reads /\ c \notin Writes /\ c <= CMD_GET_STATE
    BY <1>3 DEF Reads, Writes, CMD_HALT, CMD_RESUME, CMD_READ_PROG, CMD_WRITE_PROG, CMD_READ_DATA,
       CMD_WRITE_DATA, CMD_RESET, CMD_GET_STATE
  <2>9. PICK h : h = IF halted THEN 1 ELSE 0
    OBVIOUS
  <2>2. Answer(pk) = Single(STATUS_OK, pk[2], h)
    BY <1>3, <2>1, <2>9, Zenon DEF Answer, Short, Single, Full, Error
  <2>3. AnswerStatus = STATUS_OK /\ AnswerLen = 1 /\ AnswerByte(0) = h
    BY <1>3, <2>1, <2>9 DEF AnswerStatus, AnswerLen, AnswerByte
  <2>4. Framed(Answer(pk), STATUS_OK, pk[2], 1) /\ Answer(pk)[4] = h
    <3>1. Framed(Single(STATUS_OK, pk[2], h), STATUS_OK, pk[2], 1) /\ Single(STATUS_OK, pk[2], h)[4] = h
      BY SingleFrame
    <3>. QED  BY <2>2, <3>1
  <2>5. \A i \in 0 .. 1 - 1 : 4 + i = 4 /\ i = 0
    OBVIOUS
  <2>. QED  BY <2>3, <2>4, <2>5
<1>4. CASE c \in Reads /\ n >= 5
  <2>1. c \notin {CMD_HALT, CMD_RESUME, CMD_RESET} /\ c # CMD_GET_STATE /\ c \notin Writes /\ c <= CMD_GET_STATE
    BY <1>4 DEF Reads, Writes, CMD_HALT, CMD_RESUME, CMD_READ_PROG, CMD_WRITE_PROG, CMD_READ_DATA,
       CMD_WRITE_DATA, CMD_RESET, CMD_GET_STATE
  <2>2. ~(n < (IF c \in Reads THEN 5 ELSE 4))
    BY <1>1, <1>4
  <2>9. PICK F : F = [i \in 1 .. pk[8] |-> ByteAt(host.before, SpaceOf(pk[1]), AddrOf(pk) + i - 1)]
    OBVIOUS
  <2>3. Answer(pk) = Full(STATUS_OK, pk[2], pk[8], F)
    BY <1>4, <2>1, <2>2, <2>9, Zenon DEF Answer, Short, Single, Full, Error
  <2>4. AnswerStatus = STATUS_OK /\ AnswerLen = pk[8] /\ pk[8] \in Nat
    BY <1>1, <1>4, <2>1 DEF AnswerStatus, AnswerLen, Long
  <2>5. IsSequence(F) /\ Len(F) = pk[8]
    <3>. DEFINE S == {F[i] : i \in 1 .. pk[8]}
    <3>1. F \in [1 .. pk[8] -> S]
      BY <2>9
    <3>. HIDE DEF S
    <3>2. F \in Seq(S) /\ Len(F) = pk[8]
      BY <2>4, <3>1
    <3>. QED  BY <3>2 DEF IsSequence
  <2>6. \A i \in 1 .. pk[8] : F[i] = ByteAt(host.before, SpaceOf(pk[1]), AddrOf(pk) + i - 1)
    BY <2>9
  <2>7. Framed(Answer(pk), STATUS_OK, pk[2], pk[8]) /\ \A i \in 1 .. pk[8] : Answer(pk)[3 + i] = F[i]
    <3>1. /\ Framed(Full(STATUS_OK, pk[2], pk[8], F), STATUS_OK, pk[2], pk[8])
          /\ \A i \in 1 .. pk[8] : Full(STATUS_OK, pk[2], pk[8], F)[3 + i] = F[i]
      BY <2>4, <2>5, FullFrame
    <3>. QED  BY <2>3, <3>1
  <2>8. ASSUME NEW i \in 0 .. pk[8] - 1 PROVE Answer(pk)[4 + i] = AnswerByte(i)
    <3>1. i + 1 \in 1 .. pk[8] /\ 3 + (i + 1) = 4 + i
      BY <2>4
    <3>2. AddrOf(pk) \in Int
      <4>1. Len(pk) = 3 + pk[3] /\ pk[3] \in Nat /\ \A j \in 1 .. Len(pk) : pk[j] \in Byte
        BY PacketFacts DEF DebugInv
      <4>2. pk[4] \in Byte /\ pk[5] \in Byte /\ pk[6] \in Byte /\ pk[7] \in Byte
        BY <1>4, <4>1
      <4>3. AddrOf(pk) \in 0 .. AddrSize - 1
        BY <4>2, AddrFacts
      <4>. QED  BY <4>3
    <3>3. AddrOf(pk) + (i + 1) - 1 = AddrOf(pk) + i
      BY <3>2
    <3>4. Answer(pk)[4 + i] = ByteAt(host.before, SpaceOf(pk[1]), AddrOf(pk) + i)
      BY <2>6, <2>7, <3>1, <3>3
    <3>. QED  BY <2>1, <3>4 DEF AnswerByte
  <2>. QED  BY <2>4, <2>7, <2>8
<1>5. CASE c \in Writes /\ n >= 4
  <2>1. c \notin {CMD_HALT, CMD_RESUME, CMD_RESET} /\ c # CMD_GET_STATE /\ c \notin Reads /\ c <= CMD_GET_STATE
    BY <1>5 DEF Reads, Writes, CMD_HALT, CMD_RESUME, CMD_READ_PROG, CMD_WRITE_PROG, CMD_READ_DATA,
       CMD_WRITE_DATA, CMD_RESET, CMD_GET_STATE
  <2>2. ~(n < (IF c \in Reads THEN 5 ELSE 4))
    BY <1>1, <1>5, <2>1
  <2>3. Answer(pk) = Short(STATUS_OK, pk[2])
    BY <1>5, <2>1, <2>2, Zenon DEF Answer, Short, Single, Full, Error
  <2>4. AnswerStatus = STATUS_OK /\ AnswerLen = 0
    BY <1>1, <1>5, <2>1 DEF AnswerStatus, AnswerLen, Long
  <2>. QED  BY <2>3, <2>4, ShortFrame, ErrorFrame
<1>6. CASE c \in Reads \cup Writes /\ n < (IF c \in Reads THEN 5 ELSE 4)
  <2>1. c \notin {CMD_HALT, CMD_RESUME, CMD_RESET} /\ c # CMD_GET_STATE /\ ~(c \in Reads /\ c \in Writes)
    BY <1>6 DEF Reads, Writes, CMD_HALT, CMD_RESUME, CMD_READ_PROG, CMD_WRITE_PROG, CMD_READ_DATA,
       CMD_WRITE_DATA, CMD_RESET, CMD_GET_STATE
  <2>2. ~(c \in Reads /\ n >= 5) /\ ~(c \in Writes /\ n >= 4)
    BY <1>1, <1>6, <2>1
  <2>3. Answer(pk) = Error(STATUS_ERROR_ARGS, pk[2])
    BY <1>6, <2>1, <2>2, Zenon DEF Answer, Short, Single, Full, Error
  <2>4. AnswerStatus = STATUS_ERROR_ARGS /\ AnswerLen = 0
    BY <1>1, <1>6, <2>1, <2>2 DEF AnswerStatus, AnswerLen, Long
  <2>. QED  BY <2>3, <2>4, ShortFrame, ErrorFrame
<1>7. CASE c \notin {CMD_HALT, CMD_RESUME, CMD_RESET, CMD_GET_STATE} /\ c \notin Reads /\ c \notin Writes
  <2>1. ~(c <= CMD_GET_STATE)
    BY <1>1, <1>7 DEF Reads, Writes, CMD_HALT, CMD_RESUME, CMD_READ_PROG, CMD_WRITE_PROG, CMD_READ_DATA,
       CMD_WRITE_DATA, CMD_RESET, CMD_GET_STATE
  <2>2. Answer(pk) = Error(STATUS_ERROR_CMD, pk[2])
    BY <1>7, Zenon DEF Answer, Short, Single, Full, Error
  <2>3. AnswerStatus = STATUS_ERROR_CMD /\ AnswerLen = 0
    BY <1>7, <2>1 DEF AnswerStatus, AnswerLen
  <2>. QED  BY <2>2, <2>3, ShortFrame, ErrorFrame
<1>8. \/ c \in Reads /\ n >= 5
      \/ c \in Writes /\ n >= 4
      \/ c \in Reads \cup Writes /\ n < (IF c \in Reads THEN 5 ELSE 4)
      \/ c \notin Reads /\ c \notin Writes
  BY <1>1
<1>. QED  BY <1>2, <1>3, <1>4, <1>5, <1>6, <1>7, <1>8

(* Every request gets exactly the answer the protocol promises it, and the   *)
(* answer to a request with a parity error says so.                          *)
THEOREM DebugAnswerRight == Spec => []AnswerRight
<1>1. DebugInv /\ DataInv => AnswerRight
  <2>. SUFFICES ASSUME DebugInv, DataInv, complete
                PROVE  IF host.bad = 0 THEN host.received = Answer(pk)
                       ELSE /\ host.received[1] = STATUS_ERROR_PARITY /\ Len(host.received) = 3
                            /\ host.bad > 2 => host.received[2] = pk[2]
    BY DEF AnswerRight, pk
  <2>. DEFINE r == host.received
  <2>1. /\ Len(r) = 3 + AnswerLen /\ r[1] = AnswerStatus /\ r[3] = AnswerLen
        /\ host.bad = 0 \/ host.bad > 2 => r[2] = pk[2]
        /\ \A i \in 0 .. AnswerLen - 1 : r[4 + i] = AnswerByte(i)
    BY Quiet DEF DataInv, AnswerInv
  <2>2. CASE host.bad = 0
    <3>1. /\ Framed(Answer(pk), AnswerStatus, pk[2], AnswerLen) /\ AnswerLen \in Nat
          /\ \A i \in 0 .. AnswerLen - 1 : Answer(pk)[4 + i] = AnswerByte(i)
      BY <2>2, AnswerFrame
    <3>2. IsSequence(r) /\ IsSequence(Answer(pk)) /\ Len(Answer(pk)) = Len(r)
      BY <2>1, <3>1 DEF Framed, DebugInv, HostInv
    <3>3. ASSUME NEW i \in 1 .. Len(r) PROVE r[i] = Answer(pk)[i]
      <4>1. CASE i \in {1, 2, 3}
        BY <2>1, <2>2, <3>1, <4>1 DEF Framed
      <4>2. CASE i \notin {1, 2, 3}
        <5>1. i - 4 \in 0 .. AnswerLen - 1 /\ 4 + (i - 4) = i
          BY <2>1, <3>1, <4>2
        <5>2. r[4 + (i - 4)] = Answer(pk)[4 + (i - 4)]
          BY <2>1, <3>1, <5>1
        <5>. QED  BY <5>1, <5>2
      <4>. QED  BY <4>1, <4>2
    <3>. QED  BY <2>2, <3>2, <3>3, SameSequence
  <2>3. CASE host.bad # 0
    <3>1. AnswerStatus = STATUS_ERROR_PARITY /\ AnswerLen = 0
      BY <2>3 DEF AnswerStatus, AnswerLen
    <3>. QED  BY <2>1, <2>3, <3>1
  <2>. QED  BY <2>2, <2>3
<1>. QED  BY <1>1, DebugInvariant, DebugDataInvariant, PTL
=============================================================================
