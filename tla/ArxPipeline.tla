----------------------------- MODULE ArxPipeline -----------------------------
(***************************************************************************)
(* The five-stage pipeline of ArxCore, one clock edge per step: fetch,      *)
(* decode with the register file and its scoreboard, execute, memory with   *)
(* the request splitter and the load/store unit, write back, the halt logic *)
(* of the top of the core, and the two memory ports it talks to.            *)
(*                                                                          *)
(* A state holds the registers of the design.  The combinational nets are   *)
(* operators over a state, in the order of their data flow from the last    *)
(* stage to the first; each always_ff block is an action that gives the     *)
(* next value of its registers.  Next conjoins the blocks: one clock edge.  *)
(*                                                                          *)
(* The environment chooses, at each edge, whether a memory port grants the  *)
(* request it is shown (the arbiters of MemoryInterconnect may serve the    *)
(* other master), which board buttons are down and, when it is idle, the    *)
(* debugger's next command.                                                 *)
(*                                                                          *)
(* A definition Bug_X is a faulty variant of the definition X behind it.    *)
(***************************************************************************)
EXTENDS ArxDecode

CONSTANTS
  Programs,      \* the possible contents of the instruction memory
  MulFuncs,      \* the operations of the MDU the multiplier performs
  DIV_CYCLES,    \* how long the divider is busy, 33 in the core
  HostCommands,  \* debugger commands that occur: "halt", "resume", "mem"
  DebugAddrs,    \* words the debugger accesses
  DebugWrites,   \* data the debugger may write; {} when it only reads
  Buttons        \* board buttons somebody presses: "halt", "resume"

ASSUME PipelineAssumption ==
  /\ Programs \subseteq [Word -> Insn]
  /\ MulFuncs \subseteq Funcs
  /\ DIV_CYCLES \in Nat \ {0}
  /\ HostCommands \subseteq {"halt", "resume", "mem"}
  /\ DebugAddrs \subseteq WordAddr
  /\ DebugWrites \subseteq Word
  /\ Buttons \subseteq {"halt", "resume"}

(* The decoder selects a comparison that raises branch_en for branches only. *)
ASSUME ProgramAssumption ==
  \A p \in Programs, w \in Word :
    p[w].opcode \in {"OP", "OP_IMM"} => \A a, b \in Word : ~Taken(p[w].fn, a, b)

VARIABLES
  prog,                                          \* instruction memory, constant
  fs_state, pc, pc_we_buf, pc_in_buf, insn_buf,  \* InsnFetch
  m_valid, id,                                   \* InsnDecodeStage
  regs, m_used_reg,                              \* register file, scoreboard
  ex, alu, mul, div,                             \* ExecStage and its units
  mem_valid, mem, mem_req_vld_ff,                \* MemStage
  req_vld_ff, req, out_buffer_vld_ff, out_buffer_ff,  \* MemReqSplitter
  wb_valid, wb,                                  \* WriteBackStage
  halt_req_in, halted,                           \* ArxCore
  i_ack, i_data,                                 \* instruction port
  ram, d_ack, d_data,                            \* data port and its memory
  cmd, dbg                                       \* the debugger

fetch_regs  == <<fs_state, pc, pc_we_buf, pc_in_buf, insn_buf>>
decode_regs == <<m_valid, id, regs, m_used_reg>>
exec_regs   == <<ex, alu, mul, div>>
mem_regs    == <<mem_valid, mem, mem_req_vld_ff,
                 req_vld_ff, req, out_buffer_vld_ff, out_buffer_ff>>
wb_regs     == <<wb_valid, wb>>
halt_regs   == <<halt_req_in, halted>>
ports       == <<i_ack, i_data, ram, d_ack, d_data>>
debugger    == <<cmd, dbg>>
vars == <<prog, fetch_regs, decode_regs, exec_regs, mem_regs, wb_regs,
          halt_regs, ports, debugger>>

-----------------------------------------------------------------------------
(* Combinational nets, from the halt logic and write back to the fetch.      *)

(* ArxCore: fetch, decode, execute and memory all acknowledge.               *)
Bug_m_is_halted  == halt_req_in /\ (~mem_req_vld_ff \/ ~mem_valid)
Bug2_m_is_halted == halt_req_in /\ fs_state = "S_WAIT_HANDSHAKE" /\ ~mem_valid
m_is_halted ==
  /\ halt_req_in
  /\ fs_state = "S_WAIT_HANDSHAKE"
  /\ ~mem_req_vld_ff \/ ~mem_valid

(* The core sees the port's acknowledge only while it is not halted.         *)
Bug_lsu_ack   == d_ack
lsu_ack       == ~m_is_halted /\ d_ack
mem_debug_ack == m_is_halted /\ d_ack

resp_valid == out_buffer_vld_ff \/ lsu_ack
resp_data  == IF out_buffer_vld_ff THEN out_buffer_ff ELSE d_data
resp_ready == wb_valid /\ m_mem_op(wb.insn)
Bug_ready_up == resp_valid
ready_up   == resp_ready => resp_valid

rd_we  == wb_valid /\ m_reg_write(wb.insn) /\ (m_mem_op(wb.insn) => resp_valid)
rd_in  == IF wb_valid THEN wb.insn.rd ELSE 0
rd_val == IF m_mem_to_reg(wb.insn) THEN resp_data ELSE wb.alu

(* MemReqSplitter: one request, one response buffer.                         *)
out_handshake       == resp_valid /\ resp_ready
out_buffer_vld_next == ~out_handshake /\ (lsu_ack \/ out_buffer_vld_ff)
req_ready           == (~req_vld_ff \/ lsu_ack) /\ ~out_buffer_vld_next
in_handshake        == mem_req_vld_ff /\ req_ready
lsu_req             == in_handshake \/ (req_vld_ff /\ ~lsu_ack)   \* req_vld_next
lsu_request ==
  IF in_handshake
  THEN [addr |-> mem.alu, store |-> m_is_store(mem.insn), data |-> mem.rs2]
  ELSE req

(* MemStage                                                                  *)
mem_req_vld_next == mem_req_vld_ff /\ ~req_ready
mem_valid_out    == ~halt_req_in /\ mem_valid /\ ~mem_req_vld_next
mem_ready_in     == ~halt_req_in /\ (~mem_valid \/ (mem_valid_out /\ ready_up))

(* ExecStage: a stage register and three units with valid/ready handshakes.  *)
ex_valid_out ==
  /\ ~halt_req_in
  /\ \/ m_alu_en(ex.insn) /\ alu.valid
     \/ m_mdu_en(ex.insn) /\ (mul.valid \/ div.valid)
ex_handoff  == ex_valid_out /\ mem_ready_in
Bug_ex_ready_in ==
  ~halt_req_in /\ ((alu.valid \/ mul.valid \/ div.valid) => mem_ready_in)
ex_ready_in ==
  /\ ~halt_req_in
  /\ ~alu.valid \/ mem_ready_in
  /\ ~mul.valid \/ mem_ready_in
  /\ div.cnt = 0 /\ (~div.valid \/ mem_ready_in)
ex_res == IF m_alu_en(ex.insn) THEN alu.res
          ELSE IF mul.valid THEN mul.res ELSE div.res

pc_we     == /\ (m_alu_en(ex.insn) /\ alu.branch_en) \/ m_pc_jump_en(ex.insn)
             /\ ex_handoff
pc_branch == Plus(IF m_pc_reg_imm(ex.insn) THEN ex.rs1 ELSE ex.pc, ex.insn.imm)

(* InsnDecodeStage: issue waits until no writer of a source is in flight.    *)
Bug_id_valid_out == ~pc_we /\ ~halt_req_in /\ m_valid /\ m_used_reg[id.insn.rs_1] = 0
id_valid_out ==
  /\ ~pc_we /\ ~halt_req_in
  /\ m_valid
  /\ m_used_reg[id.insn.rs_1] = 0
  /\ m_used_reg[id.insn.rs_2] = 0
issue          == id_valid_out /\ ex_ready_in
id_ready_in    == ~pc_we /\ ~halt_req_in /\ (~m_valid \/ issue)
reg_write_sync == issue /\ m_reg_write(id.insn)

(* The two-bit count of writers of register r that are in flight; a release  *)
(* and a reservation at the same edge cancel.                                *)
taken    == IF reg_write_sync THEN {id.insn.rd} ELSE {}
released == IF rd_we THEN {rd_in} ELSE {}
Bug_m_used_reg_next(r) ==    \* the release wins
  (m_used_reg[r] + (IF r \in released THEN 3 ELSE IF r \in taken THEN 1 ELSE 0)) % 4
m_used_reg_next(r) ==
  CASE r \in taken \ released -> (m_used_reg[r] + 1) % 4
    [] r \in released \ taken -> (m_used_reg[r] + 3) % 4
    [] OTHER                  -> m_used_reg[r]

(* InsnFetch                                                                 *)
pc_we_internal == pc_we \/ pc_we_buf
pc_next == IF pc_we THEN pc_branch
           ELSE IF pc_we_buf THEN pc_in_buf ELSE Plus(pc, 4)
Bug_pc_upd ==
  \/ fs_state = "S_FETCH" /\ i_ack /\ (id_ready_in \/ pc_we)
  \/ fs_state = "S_WAIT_HANDSHAKE" /\ (id_ready_in \/ pc_we)
pc_upd ==
  \/ fs_state = "S_FETCH" /\ i_ack /\ (id_ready_in \/ pc_we_internal)
  \/ fs_state = "S_WAIT_HANDSHAKE" /\ (id_ready_in \/ pc_we)
pc_we_ack   == pc_upd /\ pc_we_internal
insn_buf_we == fs_state = "S_FETCH" /\ i_ack /\ ~pc_upd
Bug_fs_deliver == pc_upd /\ ~pc_we /\ id_ready_in
fs_deliver  == pc_upd /\ ~pc_we_internal /\ id_ready_in    \* valid_out & ready_out
fs_insn     == IF fs_state = "S_FETCH" THEN i_data ELSE insn_buf
i_req  == pc_upd \/ (fs_state = "S_FETCH" /\ ~i_ack)
i_addr == IF pc_upd THEN pc_next ELSE pc

(* The port of the data memory: the debugger owns it while the core is       *)
(* halted, and drops its request in the cycle of the acknowledge.            *)
Bug_d_req == IF m_is_halted THEN cmd = "mem" ELSE lsu_req
d_req     == IF m_is_halted THEN cmd = "mem" /\ ~mem_debug_ack ELSE lsu_req
d_request == IF m_is_halted THEN dbg ELSE lsu_request

(* Debugger commands and buttons drive the two request lines.                *)
halt_req(b)   == cmd = "halt" \/ "halt" \in b
resume_req(b) == cmd = "resume" \/ "resume" \in b

-----------------------------------------------------------------------------
(* Reset values.  Registers the design does not reset get an arbitrary       *)
(* value here; nothing reads them before their valid bit is set.             *)

NoInsn    == [opcode |-> "OTHER", fn |-> "ADD", rd |-> 0, rs_1 |-> 0, rs_2 |-> 0, imm |-> 0]
NoRequest == [addr |-> 0, store |-> FALSE, data |-> 0]

Init ==
  /\ prog \in Programs
  /\ fs_state = "S_IDLE" /\ pc = 0 /\ pc_we_buf = FALSE /\ pc_in_buf = 0
  /\ insn_buf = NoInsn
  /\ m_valid = FALSE /\ id = [insn |-> NoInsn, pc |-> 0]
  /\ regs = [r \in Reg |-> 0]
  /\ m_used_reg = [r \in Reg |-> 0]
  /\ ex = [insn |-> NoInsn, pc |-> 0, rs1 |-> 0, rs2 |-> 0]
  /\ alu = [valid |-> FALSE, res |-> 0, branch_en |-> FALSE]
  /\ mul = [valid |-> FALSE, res |-> 0]
  /\ div = [valid |-> FALSE, res |-> 0, cnt |-> 0, quot |-> 0]
  /\ mem_valid = FALSE /\ mem = [insn |-> NoInsn, alu |-> 0, rs2 |-> 0]
  /\ mem_req_vld_ff = FALSE
  /\ req_vld_ff = FALSE /\ req = NoRequest
  /\ out_buffer_vld_ff = FALSE /\ out_buffer_ff = 0
  /\ wb_valid = FALSE /\ wb = [insn |-> NoInsn, alu |-> 0]
  /\ halt_req_in = FALSE /\ halted = FALSE
  /\ i_ack = FALSE /\ i_data = NoInsn
  /\ ram = [a \in WordAddr |-> 0] /\ d_ack = FALSE /\ d_data = 0
  /\ cmd = "none" /\ dbg = NoRequest

-----------------------------------------------------------------------------
(* The always_ff blocks.                                                     *)

(* InsnFetch: pc, the redirect that waits for the outstanding request, and   *)
(* the instruction decode could not take.                                    *)
FetchEdge ==
  /\ fs_state' = CASE fs_state = "S_IDLE" -> "S_FETCH"
                   [] pc_upd             -> "S_FETCH"
                   [] insn_buf_we        -> "S_WAIT_HANDSHAKE"
                   [] OTHER              -> fs_state
  /\ pc' = IF pc_upd THEN pc_next ELSE pc
  /\ pc_we_buf' = (pc_we_internal /\ ~pc_we_ack)
  /\ pc_in_buf' = IF pc_we /\ ~pc_we_ack THEN pc_branch ELSE pc_in_buf
  /\ insn_buf' = IF insn_buf_we THEN i_data ELSE insn_buf

(* InsnDecodeStage: the stage register, and the two-bit count of writers of  *)
(* each register that are in flight.                                         *)
DecodeEdge ==
  /\ m_valid' = (fs_deliver \/ (m_valid /\ ~pc_we /\ ~issue))
  /\ id' = IF fs_deliver THEN [insn |-> fs_insn, pc |-> pc] ELSE id
  /\ regs' = IF rd_we THEN WriteReg(regs, rd_in, rd_val) ELSE regs

ScoreboardEdge == m_used_reg' = [r \in Reg |-> m_used_reg_next(r)]

(* The six-bit count of IDIV: an operation that enters loads it, and it counts *)
(* down while the unit is busy.                                              *)
Bug_div_cnt_next(enters) ==   \* counts down when idle, too
  IF enters THEN DIV_CYCLES ELSE (div.cnt + 63) % 64
div_cnt_next(enters) ==
  IF enters THEN DIV_CYCLES ELSE IF div.cnt > 0 THEN div.cnt - 1 ELSE 0

(* ExecStage with IALU, IMUL and IDIV.  The divider's shift and subtract     *)
(* steps are abstracted to its count down; quot is the result they lead to,  *)
(* which becomes visible when the count reaches one.                         *)
ExecEdge ==
  LET i   == id.insn
      a   == ialu_arg_1(i, id.pc, regs[i.rs_1])
      b   == ialu_arg_2(i, regs[i.rs_2])
      to_alu == issue /\ m_alu_en(i)
      to_mul == issue /\ m_mdu_en(i) /\ i.fn \in MulFuncs
      to_div == issue /\ m_mdu_en(i) /\ i.fn \notin MulFuncs
      unit_ready_out == ~halt_req_in /\ mem_ready_in
  IN
  /\ ex' = IF issue
           THEN [insn |-> i, pc |-> id.pc, rs1 |-> regs[i.rs_1], rs2 |-> regs[i.rs_2]]
           ELSE ex
  /\ alu' = CASE to_alu -> [valid |-> TRUE, res |-> Alu(m_alu_op(i), a, b),
                            branch_en |-> Taken(m_alu_op(i), a, b)]
              [] ~to_alu /\ alu.valid /\ unit_ready_out ->
                   [alu EXCEPT !.valid = FALSE, !.branch_en = FALSE]
              [] OTHER -> alu
  /\ mul' = CASE to_mul -> [valid |-> TRUE, res |-> Mdu(i.fn, a, b)]
              [] ~to_mul /\ mul.valid /\ unit_ready_out -> [mul EXCEPT !.valid = FALSE]
              [] OTHER -> mul
  /\ div' = [valid |-> ~to_div /\ (div.cnt = 1 \/ (div.valid /\ ~unit_ready_out)),
             res   |-> IF ~to_div /\ div.cnt = 1 THEN div.quot ELSE div.res,
             cnt   |-> div_cnt_next(to_div),
             quot  |-> IF to_div THEN Mdu(i.fn, a, b) ELSE div.quot]

(* MemStage and MemReqSplitter.                                              *)
MemEdge ==
  /\ mem_valid' = (ex_handoff \/ (mem_valid /\ ~(mem_valid_out /\ ready_up)))
  /\ mem' = IF ex_handoff THEN [insn |-> ex.insn, alu |-> ex_res, rs2 |-> ex.rs2] ELSE mem
  /\ mem_req_vld_ff' = IF ex_handoff THEN m_mem_op(ex.insn) ELSE mem_req_vld_next
  /\ req_vld_ff' = lsu_req
  /\ req' = lsu_request
  /\ out_buffer_vld_ff' = out_buffer_vld_next
  /\ out_buffer_ff' = IF lsu_ack THEN d_data ELSE out_buffer_ff

WriteBackEdge ==
  /\ wb_valid' = IF ready_up THEN mem_valid_out ELSE wb_valid
  /\ wb' = IF ready_up THEN [insn |-> mem.insn, alu |-> mem.alu] ELSE wb

HaltEdge(b) ==
  /\ halt_req_in' = (halt_req(b) \/ (halt_req_in /\ ~resume_req(b)))
  /\ halted' = m_is_halted

(* RomPort and RamPort behind their arbiters: a granted request is performed *)
(* at this edge and acknowledged in the next cycle.                          *)
InsnPortEdge(grant) ==
  /\ i_ack' = (i_req /\ grant)
  /\ i_data' = IF i_req /\ grant THEN prog[i_addr] ELSE i_data

DataPortEdge(grant) ==
  LET a == Align(d_request.addr) IN
  /\ d_ack' = (d_req /\ grant)
  /\ d_data' = IF d_req /\ grant THEN ram[a] ELSE d_data
  /\ ram' = IF d_req /\ grant /\ d_request.store
            THEN Stored(ram, a, d_request.data) ELSE ram

(* The debug module handles one command at a time: it holds halt_req until   *)
(* halted, resume_req until not halted, a memory request until its           *)
(* acknowledge; the copier goes on to the next byte in the cycle after that. *)
(* The host tool starts a memory command only when it has seen the core      *)
(* halted.                                                                   *)
DebugRequests ==
  {[addr |-> a, store |-> FALSE, data |-> 0] : a \in DebugAddrs}
    \cup {[addr |-> a, store |-> TRUE, data |-> v] : a \in DebugAddrs, v \in DebugWrites}

DebuggerEdge ==
  \/ /\ cmd = "none"
     /\ \/ UNCHANGED debugger
        \/ cmd' \in HostCommands \ {"mem"} /\ UNCHANGED dbg
        \/ "mem" \in HostCommands /\ halted /\ cmd' = "mem" /\ dbg' \in DebugRequests
  \/ cmd = "mem" /\ mem_debug_ack /\ cmd' = "mem" /\ dbg' \in DebugRequests
  \/ /\ \/ cmd = "halt" /\ halted
        \/ cmd = "resume" /\ ~halted
        \/ cmd = "mem" /\ mem_debug_ack
     /\ cmd' = "none" /\ dbg' = NoRequest      \* read only while cmd = "mem"
  \/ /\ \/ cmd = "halt" /\ ~halted
        \/ cmd = "resume" /\ halted
        \/ cmd = "mem" /\ ~mem_debug_ack
     /\ UNCHANGED debugger

-----------------------------------------------------------------------------
(* One clock edge, with the ports' grants and the buttons that are down.     *)
Clock(b, i_grant, d_grant) ==
  /\ FetchEdge
  /\ DecodeEdge
  /\ ScoreboardEdge
  /\ ExecEdge
  /\ MemEdge
  /\ WriteBackEdge
  /\ HaltEdge(b)
  /\ InsnPortEdge(i_grant)
  /\ DataPortEdge(d_grant)
  /\ DebuggerEdge
  /\ UNCHANGED prog

Next == \E b \in SUBSET Buttons, i_grant, d_grant \in BOOLEAN :
          Clock(b, i_grant, d_grant)

Spec == Init /\ [][Next]_vars

(* The clock never stops, and an arbiter that sees a request grants it in    *)
(* the end: RamArbiter2to1 hands the slave to the other master as soon as    *)
(* the one it serves is acknowledged.                                        *)
Fairness ==
  /\ WF_vars(Next)
  /\ WF_vars(i_req /\ \E b \in SUBSET Buttons, g \in BOOLEAN : Clock(b, TRUE, g))
  /\ WF_vars(d_req /\ \E b \in SUBSET Buttons, g \in BOOLEAN : Clock(b, g, TRUE))

FairSpec == Spec /\ Fairness

-----------------------------------------------------------------------------
(* Every register keeps a value it can have; in particular the divider's six *)
(* bits never count outside 0 .. DIV_CYCLES, which would keep it busy for    *)
(* longer than a division, and its ready_in down.                            *)
TypeOK ==
  /\ prog \in [Word -> Insn]
  /\ fs_state \in {"S_IDLE", "S_FETCH", "S_WAIT_HANDSHAKE"}
  /\ pc \in Word /\ pc_we_buf \in BOOLEAN /\ pc_in_buf \in Word
  /\ insn_buf \in Insn
  /\ m_valid \in BOOLEAN /\ id \in [insn : Insn, pc : Word]
  /\ regs \in [Reg -> Word]
  /\ m_used_reg \in [Reg -> 0 .. 3]
  /\ ex \in [insn : Insn, pc : Word, rs1 : Word, rs2 : Word]
  /\ alu \in [valid : BOOLEAN, res : Word, branch_en : BOOLEAN]
  /\ mul \in [valid : BOOLEAN, res : Word]
  /\ div \in [valid : BOOLEAN, res : Word, cnt : 0 .. DIV_CYCLES, quot : Word]
  /\ mem_valid \in BOOLEAN /\ mem \in [insn : Insn, alu : Word, rs2 : Word]
  /\ mem_req_vld_ff \in BOOLEAN
  /\ req_vld_ff \in BOOLEAN /\ req \in [addr : Word, store : BOOLEAN, data : Word]
  /\ out_buffer_vld_ff \in BOOLEAN /\ out_buffer_ff \in Word
  /\ wb_valid \in BOOLEAN /\ wb \in [insn : Insn, alu : Word]
  /\ halt_req_in \in BOOLEAN /\ halted \in BOOLEAN
  /\ i_ack \in BOOLEAN /\ i_data \in Insn
  /\ ram \in [WordAddr -> Word] /\ d_ack \in BOOLEAN /\ d_data \in Word
  /\ cmd \in {"none", "halt", "resume", "mem"}
  /\ dbg \in [addr : Word, store : BOOLEAN, data : Word]

(* Which stages hold an instruction that will write register r.              *)
ex_busy      == alu.valid \/ mul.valid \/ div.valid \/ div.cnt > 0
ExWrites(r)  == ex_busy /\ m_reg_write(ex.insn) /\ ex.insn.rd = r
MemWrites(r) == mem_valid /\ m_reg_write(mem.insn) /\ mem.insn.rd = r
WbWrites(r)  == wb_valid /\ m_reg_write(wb.insn) /\ wb.insn.rd = r
Bit(p)       == IF p THEN 1 ELSE 0

(* The functional units never hold two instructions, and the one that is     *)
(* busy is the one the instruction in the execute stage uses; otherwise a    *)
(* result would be paired with another instruction's destination.            *)
OneUnitBusy ==
  /\ alu.valid => m_alu_en(ex.insn) /\ ~mul.valid /\ ~div.valid /\ div.cnt = 0
  /\ mul.valid => m_mdu_en(ex.insn) /\ ~div.valid /\ div.cnt = 0
  /\ div.valid => m_mdu_en(ex.insn) /\ div.cnt = 0
  /\ div.cnt > 0 => m_mdu_en(ex.insn)
  /\ alu.branch_en => alu.valid

(* The scoreboard counts exactly the writers in flight.  At most three       *)
(* stages hold one, so the two-bit counters of m_used_reg never wrap and an  *)
(* instruction is never issued while a writer of its source is on its way.   *)
ScoreboardExact ==
  \A r \in Reg :
    m_used_reg[r] = Bit(ExWrites(r)) + Bit(MemWrites(r)) + Bit(WbWrites(r))

(* A memory instruction whose request the splitter has accepted but whose    *)
(* response write back has not consumed.                                     *)
WbAwaits  == wb_valid /\ m_mem_op(wb.insn)
MemAwaits == mem_valid /\ m_mem_op(mem.insn) /\ ~mem_req_vld_ff

(* There is exactly one instruction for each outstanding request or buffered *)
(* response, never two of them, and the request is the instruction's own: a  *)
(* response can not be handed to another load, also when the core was halted *)
(* between the request and its acknowledge.                                  *)
ResponseOwned ==
  /\ Bit(WbAwaits) + Bit(MemAwaits) = Bit(req_vld_ff) + Bit(out_buffer_vld_ff)
  /\ ~(WbAwaits /\ MemAwaits)
  /\ WbAwaits => req.addr = wb.alu /\ req.store = m_is_store(wb.insn)
  /\ MemAwaits => req = [addr |-> mem.alu, store |-> m_is_store(mem.insn), data |-> mem.rs2]
  /\ lsu_ack => req_vld_ff

(* An acknowledge the debugger sees belongs to the debugger's request.       *)
DebugAckOwned ==
  cmd = "mem" /\ mem_debug_ack =>
    IF dbg.store THEN ram[Align(dbg.addr)] = dbg.data
                 ELSE d_data = ram[Align(dbg.addr)]

(* A redirect waits only for the request the fetch has outstanding, decode   *)
(* holds nothing from the abandoned path meanwhile, and the fetch never      *)
(* parks an abandoned instruction with the redirect pending (that state      *)
(* leaves at once on pc_we only, so the redirect would wait behind decode).  *)
RedirectPending ==
  /\ pc_we_buf => fs_state = "S_FETCH" /\ ~m_valid
  /\ i_ack => fs_state = "S_FETCH"

(* While the core reports that it is halted, no instruction moves and no     *)
(* register changes; the divider alone may finish.                           *)
HaltedIsFrozen ==
  [][halted /\ halt_req_in =>
       /\ halted'
       /\ UNCHANGED <<fetch_regs, decode_regs, ex, alu, mul,
                      mem_valid, mem, mem_req_vld_ff, wb_valid>>]_vars

(* Without halting nothing gets stuck: the scoreboard, the units, the splitter *)
(* and write back release one another, and instructions retire for ever.       *)
KeepsRetiring == []<>(wb_valid /\ ready_up)

(* A halt, a resume and every memory access of the debugger complete.        *)
CommandCompletes ==
  /\ cmd = "halt" ~> halted
  /\ cmd = "resume" ~> ~halted
  /\ cmd = "mem" ~> mem_debug_ack

=============================================================================
