-------------------------- MODULE ArxPipelineProofs --------------------------
(***************************************************************************)
(* Proofs, for every word size, register count, program set, divider length *)
(* and environment, that the pipeline keeps its types, that the scoreboard  *)
(* is exact, that halting loses, repeats or misplaces nothing, and that the  *)
(* pipeline implements ArxIsa.                                              *)
(***************************************************************************)
EXTENDS ArxRefinement, TLAPS

USE SizeAssumption, RegAssumption

(* Word arithmetic stays within the words.                                   *)
LEMMA WordFacts ==
  /\ 0 \in Word /\ 4 \in Word /\ 0 \in Reg
  /\ \A a, b \in Word : Plus(a, b) \in Word
  /\ \A a \in Word : Align(a) \in WordAddr
  /\ WordAddr \subseteq Word
<1>1. 0 \in Word /\ 4 \in Word /\ 0 \in Reg
  BY DEF Word, Reg
<1>2. ASSUME NEW a \in Word, NEW b \in Word PROVE Plus(a, b) \in Word
  BY DEF Word, Plus
<1>3. ASSUME NEW a \in Word PROVE Align(a) \in Word
  BY DEF Word, Align
<1>4. QED
  BY <1>1, <1>2, <1>3 DEF WordAddr

Request == [addr : Word, store : BOOLEAN, data : Word]

(* The nets that feed registers have the registers' types.                   *)
LEMMA NetTypes ==
  ASSUME TypeOK
  PROVE  /\ resp_data \in Word /\ rd_in \in Reg /\ rd_val \in Word
         /\ lsu_request \in Request /\ d_request \in Request
         /\ ex_res \in Word /\ pc_branch \in Word
         /\ pc_next \in Word /\ i_addr \in Word /\ fs_insn \in Insn
<1>1. resp_data \in Word /\ rd_in \in Reg
  BY WordFacts DEF TypeOK, resp_data, rd_in, Insn
<1>2. rd_val \in Word
  BY <1>1 DEF TypeOK, rd_val
<1>3. lsu_request \in Request
  BY DEF TypeOK, lsu_request, Request, m_is_store
<1>4. d_request \in Request
  BY <1>3 DEF TypeOK, d_request, Request
<1>5. ex_res \in Word
  BY DEF TypeOK, ex_res
<1>6. pc_branch \in Word
  <2>1. (IF m_pc_reg_imm(ex.insn) THEN ex.rs1 ELSE ex.pc) \in Word /\ ex.insn.imm \in Word
    BY DEF TypeOK, Insn
  <2>2. QED
    BY <2>1, WordFacts DEF pc_branch
<1>7. pc_next \in Word
  BY <1>6, WordFacts DEF TypeOK, pc_next
<1>8. i_addr \in Word /\ fs_insn \in Insn
  BY <1>7 DEF TypeOK, i_addr, fs_insn
<1>9. QED
  BY <1>1, <1>2, <1>3, <1>4, <1>5, <1>6, <1>7, <1>8

(* The operands and results of the functional units are words.               *)
LEMMA UnitTypes ==
  ASSUME TypeOK
  PROVE  LET i == id.insn
             a == ialu_arg_1(i, id.pc, regs[i.rs_1])
             b == ialu_arg_2(i, regs[i.rs_2])
         IN  /\ i \in Insn /\ regs[i.rs_1] \in Word /\ regs[i.rs_2] \in Word
             /\ Alu(m_alu_op(i), a, b) \in Word
             /\ Taken(m_alu_op(i), a, b) \in BOOLEAN
             /\ Mdu(i.fn, a, b) \in Word
<1> DEFINE i == id.insn
           a == ialu_arg_1(i, id.pc, regs[i.rs_1])
           b == ialu_arg_2(i, regs[i.rs_2])
<1>1. i \in Insn /\ id.pc \in Word
  BY DEF TypeOK
<1>2. i.fn \in Funcs /\ i.imm \in Word /\ i.rs_1 \in Reg /\ i.rs_2 \in Reg
  BY <1>1 DEF Insn
<1>3. regs[i.rs_1] \in Word /\ regs[i.rs_2] \in Word
  BY <1>2 DEF TypeOK
<1>4. a \in Word
  BY <1>1, <1>3, WordFacts DEF ialu_arg_1
<1>5. b \in Word
  BY <1>2, <1>3, WordFacts DEF ialu_arg_2
<1>6. m_alu_op(i) \in Funcs
  BY <1>2, AddAssumption DEF m_alu_op
<1> HIDE DEF a, b, i
<1>7. /\ Alu(m_alu_op(i), a, b) \in Word
      /\ Taken(m_alu_op(i), a, b) \in BOOLEAN
      /\ Mdu(i.fn, a, b) \in Word
  BY <1>2, <1>4, <1>5, <1>6, UnitAssumption
<1>8. QED
  BY <1>1, <1>3, <1>7 DEF a, b, i

(* The initial state is well typed.                                          *)
LEMMA InitTypes == Init => TypeOK
<1> SUFFICES ASSUME Init PROVE TypeOK
  OBVIOUS
<1>1. NoInsn \in Insn
  BY WordFacts, AddAssumption DEF NoInsn, Insn, Opcodes
<1>2. prog \in [Word -> Insn]
  BY PipelineAssumption DEF Init
<1>3. NoRequest \in Request
  BY WordFacts DEF NoRequest, Request
<1>4. 0 \in 0 .. DIV_CYCLES
  BY PipelineAssumption
<1>5. /\ fs_state \in {"S_IDLE", "S_FETCH", "S_WAIT_HANDSHAKE"}
      /\ pc \in Word /\ pc_we_buf \in BOOLEAN /\ pc_in_buf \in Word
      /\ insn_buf \in Insn
      /\ m_valid \in BOOLEAN /\ id \in [insn : Insn, pc : Word]
  BY <1>1, WordFacts DEF Init
<1>6. /\ regs \in [Reg -> Word]
      /\ m_used_reg \in [Reg -> 0 .. 3]
  BY WordFacts DEF Init
<1>7. /\ ex \in [insn : Insn, pc : Word, rs1 : Word, rs2 : Word]
      /\ alu \in [valid : BOOLEAN, res : Word, branch_en : BOOLEAN]
      /\ mul \in [valid : BOOLEAN, res : Word]
  BY <1>1, WordFacts DEF Init
<1>8. div \in [valid : BOOLEAN, res : Word, cnt : 0 .. DIV_CYCLES, quot : Word]
  BY <1>4, WordFacts DEF Init
<1>9. /\ mem_valid \in BOOLEAN /\ mem \in [insn : Insn, alu : Word, rs2 : Word]
      /\ mem_req_vld_ff \in BOOLEAN
      /\ req_vld_ff \in BOOLEAN /\ req \in Request
      /\ out_buffer_vld_ff \in BOOLEAN /\ out_buffer_ff \in Word
      /\ wb_valid \in BOOLEAN /\ wb \in [insn : Insn, alu : Word]
  BY <1>1, <1>3, WordFacts DEF Init
<1>10. /\ halt_req_in \in BOOLEAN /\ halted \in BOOLEAN
       /\ i_ack \in BOOLEAN /\ i_data \in Insn
       /\ ram \in [WordAddr -> Word] /\ d_ack \in BOOLEAN /\ d_data \in Word
       /\ cmd \in {"none", "halt", "resume", "mem"} /\ dbg \in Request
  BY <1>1, <1>3, WordFacts DEF Init
<1>11. QED
  BY <1>2, <1>5, <1>6, <1>7, <1>8, <1>9, <1>10 DEF TypeOK, Request

(* Every clock edge keeps the types, one step per block of registers.        *)
LEMMA NextTypes ==
  ASSUME TypeOK, [Next]_vars
  PROVE  TypeOK'
<1>1. CASE UNCHANGED vars
  BY <1>1 DEF TypeOK, vars, fetch_regs, decode_regs, exec_regs, mem_regs,
              wb_regs, halt_regs, ports, debugger
<1>2. ASSUME NEW b \in SUBSET Buttons,
             NEW i_grant \in BOOLEAN, NEW d_grant \in BOOLEAN,
             Clock(b, i_grant, d_grant)
      PROVE  TypeOK'
  <2>1. /\ fs_state' \in {"S_IDLE", "S_FETCH", "S_WAIT_HANDSHAKE"}
        /\ pc' \in Word /\ pc_we_buf' \in BOOLEAN /\ pc_in_buf' \in Word
        /\ insn_buf' \in Insn
    BY <1>2, NetTypes DEF Clock, FetchEdge, TypeOK
  <2>2. m_valid' \in BOOLEAN /\ id' \in [insn : Insn, pc : Word]
    BY <1>2, NetTypes DEF Clock, DecodeEdge, TypeOK
  <2>3. regs' \in [Reg -> Word]
    BY <1>2, NetTypes DEF Clock, DecodeEdge, WriteReg, TypeOK
  <2>4. m_used_reg' \in [Reg -> 0 .. 3]
    BY <1>2 DEF Clock, ScoreboardEdge, m_used_reg_next, TypeOK
  <2>5. /\ ex' \in [insn : Insn, pc : Word, rs1 : Word, rs2 : Word]
        /\ alu' \in [valid : BOOLEAN, res : Word, branch_en : BOOLEAN]
        /\ mul' \in [valid : BOOLEAN, res : Word]
    BY <1>2, UnitTypes DEF Clock, ExecEdge, TypeOK
  <2>6. div' \in [valid : BOOLEAN, res : Word, cnt : 0 .. DIV_CYCLES, quot : Word]
    <3>1. /\ div.valid \in BOOLEAN /\ div.res \in Word /\ div.quot \in Word
          /\ div.cnt \in 0 .. DIV_CYCLES /\ DIV_CYCLES \in Nat \ {0}
      BY PipelineAssumption DEF TypeOK
    <3>2. div.cnt > 0 => div.cnt - 1 \in 0 .. DIV_CYCLES
      BY <3>1
    <3>3. DIV_CYCLES \in 0 .. DIV_CYCLES
      BY <3>1
    <3>4. QED
      BY <1>2, <3>1, <3>2, <3>3, UnitTypes DEF Clock, ExecEdge, div_cnt_next, TypeOK
  <2>7. /\ mem_valid' \in BOOLEAN /\ mem' \in [insn : Insn, alu : Word, rs2 : Word]
        /\ mem_req_vld_ff' \in BOOLEAN
    <3>1. mem_valid' \in BOOLEAN
      BY <1>2 DEF Clock, MemEdge
    <3>2. mem' \in [insn : Insn, alu : Word, rs2 : Word]
      BY <1>2, NetTypes DEF Clock, MemEdge, TypeOK
    <3>3. m_mem_op(ex.insn) \in BOOLEAN /\ mem_req_vld_next \in BOOLEAN
      BY DEF m_mem_op, mem_req_vld_next
    <3>4. mem_req_vld_ff' \in BOOLEAN
      BY <1>2, <3>3 DEF Clock, MemEdge
    <3>5. QED
      BY <3>1, <3>2, <3>4
  <2>8. /\ req_vld_ff' \in BOOLEAN /\ req' \in Request
        /\ out_buffer_vld_ff' \in BOOLEAN /\ out_buffer_ff' \in Word
    BY <1>2, NetTypes DEF Clock, MemEdge, TypeOK, lsu_req, out_buffer_vld_next
  <2>9. wb_valid' \in BOOLEAN /\ wb' \in [insn : Insn, alu : Word]
    BY <1>2 DEF Clock, WriteBackEdge, TypeOK, mem_valid_out
  <2>10. halt_req_in' \in BOOLEAN /\ halted' \in BOOLEAN
    BY <1>2 DEF Clock, HaltEdge, TypeOK, m_is_halted, halt_req, resume_req
  <2>11. i_ack' \in BOOLEAN /\ i_data' \in Insn
    BY <1>2, NetTypes DEF Clock, InsnPortEdge, TypeOK
  <2>12. ram' \in [WordAddr -> Word] /\ d_ack' \in BOOLEAN /\ d_data' \in Word
    <3>1. /\ Align(d_request.addr) \in WordAddr
          /\ d_request.data \in Word /\ d_request.store \in BOOLEAN
      BY NetTypes, WordFacts DEF Request
    <3>2. Stored(ram, Align(d_request.addr), d_request.data) \in [WordAddr -> Word]
      BY <3>1, WordFacts DEF Stored, TypeOK
    <3>3. QED
      BY <1>2, <3>1, <3>2 DEF Clock, DataPortEdge, TypeOK
  <2>13. cmd' \in {"none", "halt", "resume", "mem"} /\ dbg' \in Request
    <3>1. DebugRequests \subseteq Request
      <4>1. ASSUME NEW q \in DebugRequests PROVE q \in Request
        <5>1. CASE \E a \in DebugAddrs : q = [addr |-> a, store |-> FALSE, data |-> 0]
          BY <5>1, WordFacts, PipelineAssumption DEF Request
        <5>2. CASE \E a \in DebugAddrs, v \in DebugWrites :
                     q = [addr |-> a, store |-> TRUE, data |-> v]
          BY <5>2, WordFacts, PipelineAssumption DEF Request
        <5>3. QED
          BY <5>1, <5>2 DEF DebugRequests
      <4>2. QED
        BY <4>1
    <3>2. NoRequest \in Request
      BY WordFacts DEF NoRequest, Request
    <3>3. QED
      BY <1>2, <3>1, <3>2, PipelineAssumption DEF Clock, DebuggerEdge, debugger, TypeOK, Request
  <2>14. prog' \in [Word -> Insn]
    BY <1>2 DEF Clock, TypeOK
  <2>15. QED
    BY <2>1, <2>2, <2>3, <2>4, <2>5, <2>6, <2>7, <2>8, <2>9, <2>10, <2>11,
       <2>12, <2>13, <2>14 DEF TypeOK, Request
<1>3. QED
  BY <1>1, <1>2 DEF Next

(* Whatever the memories, the debugger and the program do, every register of *)
(* the pipeline keeps a value of its width.                                  *)
THEOREM TypeCorrect == Spec => []TypeOK
<1>1. Init => TypeOK
  BY InitTypes
<1>2. TypeOK /\ [Next]_vars => TypeOK'
  BY NextTypes
<1>3. QED
  BY <1>1, <1>2, PTL DEF Spec

-----------------------------------------------------------------------------
(* The scoreboard.  The argument follows the instructions: an edge moves an  *)
(* instruction into execute (issue), on to memory (ex_handoff), on to write  *)
(* back (mem_handoff) and out of it, and no stage receives one before it has *)
(* given up its own.                                                         *)
mem_handoff == mem_valid_out /\ ready_up

(* Execute gets an instruction only when it is empty or hands its own over,  *)
(* and the unit that becomes busy is the one the new instruction uses.       *)
LEMMA ExecuteMoves ==
  ASSUME TypeOK, OneUnitBusy,
         NEW b, NEW i_grant, NEW d_grant, Clock(b, i_grant, d_grant)
  PROVE  /\ OneUnitBusy'
         /\ issue => ~ex_busy \/ ex_handoff
         /\ ex_handoff => ex_busy
         /\ ex_busy' <=> issue \/ (ex_busy /\ ~ex_handoff)
         /\ ex'.insn = IF issue THEN id.insn ELSE ex.insn
<1> USE DEF OneUnitBusy, ex_busy, ex_handoff, ex_valid_out, m_alu_en, m_mdu_en
<1>1. ex'.insn = IF issue THEN id.insn ELSE ex.insn
  BY DEF Clock, ExecEdge
<1>2. issue => ~halt_req_in /\ ex_ready_in
  BY DEF issue, id_valid_out
<1>3. issue => ~ex_busy \/ ex_handoff
  BY <1>2 DEF ex_ready_in, TypeOK
<1>4. ex_handoff => ex_busy /\ ~halt_req_in /\ mem_ready_in
  OBVIOUS
<1>5. CASE issue
  <2>1. div.cnt = 0
    BY <1>2, <1>5 DEF ex_ready_in
  <2>2. /\ alu.valid => mem_ready_in
        /\ mul.valid => mem_ready_in
        /\ div.valid => mem_ready_in
    BY <1>2, <1>5 DEF ex_ready_in
  <2>3. CASE m_alu_en(id.insn)
    <3>1. alu'.valid /\ ~mul'.valid /\ ~div'.valid /\ div'.cnt = 0
      BY <1>2, <1>5, <2>1, <2>2, <2>3 DEF Clock, ExecEdge, div_cnt_next, TypeOK
    <3>2. QED
      BY <1>1, <1>2, <1>3, <1>4, <1>5, <2>3, <3>1
  <2>4. CASE m_mdu_en(id.insn) /\ id.insn.fn \in MulFuncs
    <3>1. ~alu'.valid /\ ~alu'.branch_en /\ mul'.valid /\ ~div'.valid /\ div'.cnt = 0
      BY <1>2, <1>5, <2>1, <2>2, <2>4 DEF Clock, ExecEdge, div_cnt_next, TypeOK
    <3>2. QED
      BY <1>1, <1>2, <1>3, <1>4, <1>5, <2>4, <3>1
  <2>5. CASE m_mdu_en(id.insn) /\ id.insn.fn \notin MulFuncs
    <3>1. ~alu'.valid /\ ~alu'.branch_en /\ ~mul'.valid /\ ~div'.valid
      BY <1>2, <1>5, <2>1, <2>2, <2>5 DEF Clock, ExecEdge, div_cnt_next, TypeOK
    <3>2. div'.cnt = DIV_CYCLES /\ DIV_CYCLES \in Nat \ {0}
      BY <1>5, <2>5, PipelineAssumption DEF Clock, ExecEdge, div_cnt_next, TypeOK
    <3>3. QED
      BY <1>1, <1>2, <1>3, <1>4, <1>5, <2>5, <3>1, <3>2
  <2>6. QED
    BY <2>3, <2>4, <2>5
<1>6. CASE ~issue /\ ex_handoff
  <2>1. ~alu'.valid /\ ~alu'.branch_en /\ ~mul'.valid /\ ~div'.valid /\ div'.cnt = 0
    BY <1>4, <1>6 DEF Clock, ExecEdge, div_cnt_next, TypeOK
  <2>2. QED
    BY <1>1, <1>3, <1>4, <1>6, <2>1
<1>7. CASE ~issue /\ ~ex_handoff
  <2>1. alu' = alu /\ mul' = mul
    BY <1>7 DEF Clock, ExecEdge, TypeOK
  <2>2. CASE div.cnt = 0
    <3>1. div' = div
      BY <1>7, <2>2 DEF Clock, ExecEdge, div_cnt_next, TypeOK
    <3>2. QED
      BY <1>1, <1>3, <1>4, <1>7, <2>1, <2>2, <3>1
  <2>3. CASE div.cnt > 0
    <3>1. div.cnt \in Nat /\ div.valid \in BOOLEAN
      BY DEF TypeOK
    <3>2. ~alu.valid /\ ~mul.valid /\ ~div.valid /\ m_mdu_en(ex.insn)
      BY <2>3, <3>1
    <3>3. /\ div'.cnt = div.cnt - 1
          /\ div'.valid = (div.cnt = 1 \/ (div.valid /\ ~(~halt_req_in /\ mem_ready_in)))
      BY <1>7, <2>3 DEF Clock, ExecEdge, div_cnt_next
    <3>4. div'.cnt = div.cnt - 1 /\ (div'.valid <=> div.cnt = 1)
      BY <3>1, <3>2, <3>3 DEF TypeOK
    <3>5. ~issue /\ ~ex_handoff /\ ex_busy
      BY <1>7, <2>3
    <3>6. ~alu'.valid /\ ~alu'.branch_en /\ ~mul'.valid /\ m_mdu_en(ex'.insn)
      BY <1>1, <1>7, <2>1, <3>2
    <3>7. CASE div.cnt = 1
      <4>1. div'.valid /\ div'.cnt = 0
        BY <3>4, <3>7
      <4>2. OneUnitBusy' /\ ex_busy'
        BY <3>6, <4>1
      <4>3. QED
        BY <1>1, <3>5, <4>2
    <3>8. CASE div.cnt > 1
      <4>1. ~div'.valid /\ div'.cnt > 0
        BY <3>1, <3>4, <3>8
      <4>2. OneUnitBusy' /\ ex_busy'
        BY <3>6, <4>1
      <4>3. QED
        BY <1>1, <3>5, <4>2
    <3>9. QED
      BY <2>3, <3>1, <3>7, <3>8
  <2>4. QED
    BY <2>2, <2>3 DEF TypeOK
<1>8. QED
  BY <1>5, <1>6, <1>7

(* Memory gets an instruction only when it is empty or hands its own over,   *)
(* and so does write back; write back releases the register exactly when it  *)
(* gives its instruction up.                                                 *)
LEMMA BackEndMoves ==
  ASSUME TypeOK, NEW b, NEW i_grant, NEW d_grant, Clock(b, i_grant, d_grant)
  PROVE  /\ ex_handoff => ~mem_valid \/ mem_handoff
         /\ mem_handoff => mem_valid /\ ready_up
         /\ mem_valid' <=> ex_handoff \/ (mem_valid /\ ~mem_handoff)
         /\ mem'.insn = IF ex_handoff THEN ex.insn ELSE mem.insn
         /\ ready_up => (wb_valid' <=> mem_handoff) /\ wb'.insn = mem.insn
         /\ ~ready_up => wb_valid /\ wb_valid' /\ wb'.insn = wb.insn
         /\ rd_we <=> wb_valid /\ m_reg_write(wb.insn) /\ ready_up
         /\ wb_valid => rd_in = wb.insn.rd
<1>1. ex_handoff => ~mem_valid \/ mem_handoff
  BY DEF ex_handoff, mem_ready_in, mem_handoff
<1>2. mem_handoff => mem_valid /\ ready_up
  BY DEF mem_handoff, mem_valid_out
<1>3. mem_valid' <=> ex_handoff \/ (mem_valid /\ ~mem_handoff)
  BY DEF Clock, MemEdge, mem_handoff
<1>4. mem'.insn = IF ex_handoff THEN ex.insn ELSE mem.insn
  BY DEF Clock, MemEdge
<1>5. ready_up => (wb_valid' <=> mem_handoff) /\ wb'.insn = mem.insn
  BY DEF Clock, WriteBackEdge, mem_handoff
<1>6. ~ready_up => wb_valid /\ wb_valid' /\ wb'.insn = wb.insn
  BY DEF Clock, WriteBackEdge, ready_up, resp_ready
<1>7. rd_we <=> wb_valid /\ m_reg_write(wb.insn) /\ ready_up
  BY DEF rd_we, ready_up, resp_ready
<1>8. wb_valid => rd_in = wb.insn.rd
  BY DEF rd_in
<1>9. QED
  BY <1>1, <1>2, <1>3, <1>4, <1>5, <1>6, <1>7, <1>8

Inv == TypeOK /\ OneUnitBusy /\ ScoreboardExact

(* One edge keeps the count of each register exact.                          *)
LEMMA ScoreboardStep ==
  ASSUME Inv, NEW b, NEW i_grant, NEW d_grant, Clock(b, i_grant, d_grant),
         NEW r \in Reg
  PROVE  m_used_reg'[r] = Bit(ExWrites(r)') + Bit(MemWrites(r)') + Bit(WbWrites(r)')
<1> DEFINE Taken_r    == issue /\ m_reg_write(id.insn) /\ id.insn.rd = r
           Released_r == WbWrites(r) /\ ready_up
<1>1. ExWrites(r)' <=> Taken_r \/ (ExWrites(r) /\ ~ex_handoff)
  BY ExecuteMoves DEF Inv, ExWrites, m_reg_write
<1>2. MemWrites(r)' <=> (ExWrites(r) /\ ex_handoff) \/ (MemWrites(r) /\ ~mem_handoff)
  BY ExecuteMoves, BackEndMoves DEF Inv, ExWrites, MemWrites, m_reg_write
<1>3. WbWrites(r)' <=> (MemWrites(r) /\ mem_handoff) \/ (WbWrites(r) /\ ~ready_up)
  BY BackEndMoves DEF Inv, WbWrites, MemWrites, m_reg_write
<1>4. /\ Taken_r => ~ExWrites(r) \/ ex_handoff
      /\ ExWrites(r) /\ ex_handoff => ~MemWrites(r) \/ mem_handoff
      /\ mem_handoff => ready_up
  BY ExecuteMoves, BackEndMoves DEF Inv, ExWrites, MemWrites
<1>5. m_used_reg[r] = Bit(ExWrites(r)) + Bit(MemWrites(r)) + Bit(WbWrites(r))
  BY DEF Inv, ScoreboardExact
<1>6. /\ Taken_r /\ ~Released_r => m_used_reg'[r] = (m_used_reg[r] + 1) % 4
      /\ Released_r /\ ~Taken_r => m_used_reg'[r] = (m_used_reg[r] + 3) % 4
      /\ (Taken_r <=> Released_r) => m_used_reg'[r] = m_used_reg[r]
  <2>1. r \in taken <=> Taken_r
    BY DEF taken, reg_write_sync
  <2>2. r \in released <=> Released_r
    BY BackEndMoves DEF released, Inv, WbWrites
  <2>3. m_used_reg'[r] = m_used_reg_next(r)
    BY DEF Clock, ScoreboardEdge
  <2>4. QED
    BY <2>1, <2>2, <2>3 DEF m_used_reg_next
<1> HIDE DEF Taken_r, Released_r
<1>7. Bit(ExWrites(r)) \in 0 .. 1 /\ Bit(MemWrites(r)) \in 0 .. 1 /\ Bit(WbWrites(r)) \in 0 .. 1
  BY DEF Bit
<1>8. CASE Taken_r /\ ~Released_r
  BY <1>1, <1>2, <1>3, <1>4, <1>5, <1>6, <1>8 DEF Bit, Released_r
<1>9. CASE Released_r /\ ~Taken_r
  BY <1>1, <1>2, <1>3, <1>4, <1>5, <1>6, <1>9 DEF Bit, Released_r
<1>10. CASE Taken_r <=> Released_r
  BY <1>1, <1>2, <1>3, <1>4, <1>5, <1>6, <1>10 DEF Bit, Released_r
<1>11. QED
  BY <1>8, <1>9, <1>10

LEMMA InitInv == Init => Inv
<1> SUFFICES ASSUME Init PROVE Inv
  OBVIOUS
<1>1. TypeOK
  BY InitTypes
<1>2. OneUnitBusy /\ ~ex_busy /\ ~mem_valid /\ ~wb_valid
  BY DEF Init, OneUnitBusy, ex_busy
<1>3. ScoreboardExact
  BY <1>2 DEF Init, ScoreboardExact, ExWrites, MemWrites, WbWrites, Bit
<1>4. QED
  BY <1>1, <1>2, <1>3 DEF Inv

LEMMA NextInv == Inv /\ [Next]_vars => Inv'
<1> SUFFICES ASSUME Inv, [Next]_vars PROVE Inv'
  OBVIOUS
<1>1. TypeOK'
  BY NextTypes DEF Inv
<1>2. CASE UNCHANGED vars
  BY <1>1, <1>2 DEF Inv, vars, exec_regs, decode_regs, mem_regs, wb_regs,
                    OneUnitBusy, ScoreboardExact, ExWrites, MemWrites, WbWrites, ex_busy
<1>3. ASSUME NEW b \in SUBSET Buttons,
             NEW i_grant \in BOOLEAN, NEW d_grant \in BOOLEAN,
             Clock(b, i_grant, d_grant)
      PROVE  Inv'
  <2>1. OneUnitBusy'
    BY <1>3, ExecuteMoves DEF Inv
  <2>2. ScoreboardExact'
    BY <1>3, ScoreboardStep DEF ScoreboardExact
  <2>3. QED
    BY <1>1, <2>1, <2>2 DEF Inv
<1>4. QED
  BY <1>2, <1>3 DEF Next

LEMMA InvHolds == Spec => []Inv
<1>1. QED
  BY InitInv, NextInv, PTL DEF Spec

(* No result is paired with another instruction's destination, whatever the  *)
(* length of a division and the memory's latency.                            *)
THEOREM UnitsExclusive == Spec => []OneUnitBusy
<1>1. Inv => OneUnitBusy
  BY DEF Inv
<1>2. QED
  BY <1>1, InvHolds, PTL

(* The two-bit counters of the scoreboard count the writers in flight: they  *)
(* never wrap, for any number of registers and any program.                  *)
THEOREM ScoreboardCorrect == Spec => []ScoreboardExact
<1>1. Inv => ScoreboardExact
  BY DEF Inv
<1>2. QED
  BY <1>1, InvHolds, PTL

-----------------------------------------------------------------------------
(* Halting.  A halt or a resume at any clock edge loses, repeats or          *)
(* misplaces nothing between the stages and the data port: redirects,        *)
(* responses, the frozen core and the debugger's acknowledges.               *)

(* The debug module and the buttons are not told of each other: where the    *)
(* debugger accesses memory, nobody presses a button meanwhile.              *)
OneOperator == "mem" \in HostCommands => Buttons = {}

-----------------------------------------------------------------------------
(* Redirects.                                                                *)
LEMMA RedirectStep ==
  ASSUME TypeOK, RedirectPending,
         NEW b, NEW i_grant, NEW d_grant, Clock(b, i_grant, d_grant)
  PROVE  RedirectPending'
<1>1. i_ack' => fs_state' = "S_FETCH"
  BY DEF Clock, FetchEdge, InsnPortEdge, TypeOK, i_req, pc_upd, insn_buf_we
<1>2. pc_we_buf' => pc_we_internal /\ ~pc_upd
  BY DEF Clock, FetchEdge, pc_we_ack
<1>3. pc_we_internal /\ ~pc_upd => fs_state # "S_WAIT_HANDSHAKE" /\ ~i_ack
  BY DEF RedirectPending, pc_upd, pc_we_internal
<1>4. pc_we_internal /\ ~pc_upd => fs_state' = "S_FETCH"
  BY <1>3 DEF Clock, FetchEdge, TypeOK, insn_buf_we
<1>5. pc_we_internal => ~m_valid'
  BY DEF Clock, DecodeEdge, RedirectPending, fs_deliver, pc_we_internal
<1>6. QED
  BY <1>1, <1>2, <1>4, <1>5 DEF RedirectPending

LEMMA RedirectInvStep == ASSUME TypeOK, RedirectPending, [Next]_vars PROVE RedirectPending'
<1>1. CASE UNCHANGED vars
  BY <1>1 DEF RedirectPending, vars, fetch_regs, decode_regs, ports
<1>2. CASE Next
  BY <1>2, RedirectStep DEF Next
<1>3. QED
  BY <1>1, <1>2

(* A redirect that waits is never overtaken by an instruction of the         *)
(* abandoned path, whenever the instruction memory answers.                  *)
THEOREM RedirectsPending == Spec => []RedirectPending
<1>1. Init => RedirectPending
  BY DEF Init, RedirectPending
<1>2. TypeOK /\ RedirectPending /\ [Next]_vars => RedirectPending'
  BY RedirectInvStep
<1>3. QED
  BY <1>1, <1>2, TypeCorrect, PTL DEF Spec

-----------------------------------------------------------------------------
(* The frozen core.  Nothing moves in the stages while m_is_halted; write    *)
(* back may still finish in its first cycle, after which halted is set.      *)
LEMMA HaltStops ==
  ASSUME TypeOK, m_is_halted,
         NEW b, NEW i_grant, NEW d_grant, Clock(b, i_grant, d_grant)
  PROVE  /\ ~ex_handoff /\ ~mem_valid_out /\ ~issue /\ ~pc_we /\ ~pc_upd /\ ~lsu_ack
         /\ UNCHANGED <<fs_state, mem_valid, mem>>
         /\ halt_req_in' => m_is_halted'
<1>1. /\ halt_req_in /\ fs_state = "S_WAIT_HANDSHAKE"
      /\ ~mem_req_vld_ff \/ ~mem_valid
  BY DEF m_is_halted
<1>2. ~ex_handoff /\ ~mem_valid_out /\ ~issue /\ ~pc_we /\ ~lsu_ack
  BY <1>1 DEF ex_handoff, ex_valid_out, mem_valid_out, issue, id_valid_out, pc_we, lsu_ack
<1>3. ~pc_upd
  BY <1>1, <1>2 DEF pc_upd, id_ready_in
<1>4. fs_state' = "S_WAIT_HANDSHAKE"
  BY <1>1, <1>3 DEF Clock, FetchEdge, insn_buf_we
<1>5. mem_valid' = mem_valid /\ mem' = mem
  BY <1>2 DEF Clock, MemEdge, TypeOK
<1>6. ~mem_req_vld_ff' \/ ~mem_valid'
  BY <1>1, <1>2, <1>5 DEF Clock, MemEdge, mem_req_vld_next
<1>7. QED
  BY <1>1, <1>2, <1>3, <1>4, <1>5, <1>6 DEF m_is_halted

(* A request that is not accepted yet is the request of the instruction in   *)
(* the memory stage.                                                         *)
ReqHeld == mem_req_vld_ff => mem_valid /\ m_mem_op(mem.insn)

LEMMA ReqHeldStep ==
  ASSUME TypeOK, ReqHeld,
         NEW b, NEW i_grant, NEW d_grant, Clock(b, i_grant, d_grant)
  PROVE  ReqHeld'
<1>1. mem_req_vld_ff' => ex_handoff \/ mem_req_vld_next
  BY DEF Clock, MemEdge
<1>2. CASE ex_handoff
  <2>1. mem_valid' /\ mem'.insn = ex.insn /\ (mem_req_vld_ff' = m_mem_op(ex.insn))
    BY <1>2 DEF Clock, MemEdge
  <2>2. QED
    BY <2>1 DEF ReqHeld, m_mem_op
<1>3. CASE ~ex_handoff /\ mem_req_vld_next
  <2>1. mem_valid /\ m_mem_op(mem.insn) /\ ~mem_valid_out
    BY <1>3 DEF ReqHeld, mem_req_vld_next, mem_valid_out
  <2>2. mem_valid' /\ mem' = mem
    BY <1>3, <2>1 DEF Clock, MemEdge
  <2>3. QED
    BY <2>1, <2>2 DEF ReqHeld, m_mem_op
<1>4. QED
  BY <1>1, <1>2, <1>3 DEF ReqHeld

HaltInv ==
  halted /\ halt_req_in =>
    /\ m_is_halted
    /\ wb_valid => WbAwaits /\ ~out_buffer_vld_ff

LEMMA HaltStep ==
  ASSUME TypeOK, HaltInv,
         NEW b, NEW i_grant, NEW d_grant, Clock(b, i_grant, d_grant)
  PROVE  HaltInv'
<1>1. SUFFICES ASSUME m_is_halted, halt_req_in'
               PROVE  m_is_halted' /\ (wb_valid' => WbAwaits' /\ ~out_buffer_vld_ff')
  BY DEF HaltInv, Clock, HaltEdge
<1>2. m_is_halted'
  BY <1>1, HaltStops
<1>3. wb_valid' => ~ready_up
  BY <1>1, HaltStops DEF Clock, WriteBackEdge
<1>4. ~ready_up => WbAwaits /\ ~out_buffer_vld_ff /\ ~lsu_ack
  BY DEF ready_up, resp_ready, resp_valid, WbAwaits
<1>5. ~ready_up => WbAwaits' /\ ~out_buffer_vld_ff'
  BY <1>4 DEF Clock, WriteBackEdge, MemEdge, WbAwaits, out_buffer_vld_next
<1>6. QED
  BY <1>2, <1>3, <1>5

LEMMA FrozenStep ==
  ASSUME TypeOK, ReqHeld, HaltInv, halted, halt_req_in,
         NEW b, NEW i_grant, NEW d_grant, Clock(b, i_grant, d_grant)
  PROVE  /\ halted'
         /\ UNCHANGED <<fetch_regs, decode_regs, ex, alu, mul,
                        mem_valid, mem, mem_req_vld_ff, wb_valid>>
<1>1. m_is_halted /\ halt_req_in
  BY DEF HaltInv
<1>2. ~ex_handoff /\ ~issue /\ ~pc_we /\ ~pc_upd /\ ~mem_valid_out
  BY <1>1, HaltStops
<1>3. ready_up => ~wb_valid
  BY <1>1 DEF HaltInv, WbAwaits, ready_up, resp_ready, resp_valid, lsu_ack
<1>4. ~rd_we
  BY <1>3 DEF rd_we, ready_up, resp_ready
<1>5. halted'
  BY <1>1 DEF Clock, HaltEdge
<1>6. UNCHANGED fetch_regs
  <2>1. fs_state = "S_WAIT_HANDSHAKE"
    BY <1>1 DEF m_is_halted
  <2>2. QED
    BY <1>2, <2>1 DEF Clock, FetchEdge, TypeOK, fetch_regs, insn_buf_we, pc_we_internal, pc_we_ack
<1>7. UNCHANGED <<m_valid, id, regs>>
  BY <1>2, <1>4 DEF Clock, DecodeEdge, TypeOK, fs_deliver
<1>8. UNCHANGED m_used_reg
  <2>1. \A r \in Reg : m_used_reg_next(r) = m_used_reg[r]
    BY <1>2, <1>4 DEF m_used_reg_next, taken, released, reg_write_sync
  <2>2. QED
    BY <2>1 DEF Clock, ScoreboardEdge, TypeOK
<1>9. UNCHANGED <<ex, alu, mul>>
  BY <1>1, <1>2 DEF Clock, ExecEdge
<1>10. UNCHANGED <<mem_valid, mem>>
  BY <1>1, HaltStops
<1>11. UNCHANGED mem_req_vld_ff
  <2>1. mem_req_vld_ff = FALSE
    BY <1>1 DEF ReqHeld, m_is_halted, TypeOK
  <2>2. QED
    BY <1>2, <2>1 DEF Clock, MemEdge, mem_req_vld_next
<1>12. UNCHANGED wb_valid
  <2>1. CASE ready_up
    <3>1. ~wb_valid /\ ~wb_valid'
      BY <1>2, <1>3, <2>1 DEF Clock, WriteBackEdge
    <3>2. wb_valid \in BOOLEAN /\ wb_valid' \in BOOLEAN
      BY <1>2, <2>1 DEF Clock, WriteBackEdge, TypeOK, mem_valid_out
    <3>3. QED
      BY <3>1, <3>2
  <2>2. CASE ~ready_up
    BY <2>2 DEF Clock, WriteBackEdge
  <2>3. QED
    BY <2>1, <2>2
<1>13. QED
  BY <1>5, <1>6, <1>7, <1>8, <1>9, <1>10, <1>11, <1>12 DEF decode_regs

-----------------------------------------------------------------------------
(* The debugger.  It has the data port to itself while it accesses memory:   *)
(* the core is halted before and stays halted, and the acknowledge that      *)
(* comes while halted is set answers the debugger's request.                 *)
CommandInv ==
  /\ cmd \in HostCommands \cup {"none"}
  /\ "mem" \in HostCommands =>
       /\ halt_req_in => cmd = "halt" \/ halted
       /\ halted /\ ~halt_req_in => cmd = "resume"
  /\ cmd = "mem" => halted /\ m_is_halted
  /\ halted /\ d_ack => cmd = "mem"

LEMMA CommandStep ==
  ASSUME OneOperator, TypeOK, HaltInv, CommandInv, NEW b \in SUBSET Buttons,
         NEW i_grant \in BOOLEAN, NEW d_grant \in BOOLEAN, Clock(b, i_grant, d_grant)
  PROVE  CommandInv'
<1>1. cmd' \in HostCommands \cup {"none"}
  BY DEF CommandInv, Clock, DebuggerEdge, debugger
<1>2. "mem" \in HostCommands => b = {}
  BY DEF OneOperator
<1>3. /\ halted' = m_is_halted
      /\ halt_req_in' = (halt_req(b) \/ (halt_req_in /\ ~resume_req(b)))
  BY DEF Clock, HaltEdge
<1>4. ASSUME "mem" \in HostCommands
      PROVE  /\ halt_req_in' => cmd = "halt" \/ (halt_req_in /\ cmd # "resume")
             /\ ~halt_req_in' => cmd # "halt" /\ (halt_req_in => cmd = "resume")
  BY <1>2, <1>3, <1>4 DEF halt_req, resume_req
<1>5. halted /\ halt_req_in => m_is_halted
  BY DEF HaltInv
<1>6. ASSUME "mem" \in HostCommands, halt_req_in' PROVE cmd' = "halt" \/ halted'
  <2>1. CASE cmd = "halt" /\ ~halted
    BY <2>1 DEF Clock, DebuggerEdge, debugger
  <2>2. CASE halted /\ cmd # "resume"
    BY <1>3, <1>5, <1>6, <2>2 DEF CommandInv
  <2>3. QED
    BY <1>4, <1>6, <2>1, <2>2 DEF CommandInv
<1>7. ASSUME "mem" \in HostCommands, halted', ~halt_req_in' PROVE cmd' = "resume"
  <2>1. m_is_halted /\ halt_req_in
    BY <1>3, <1>7 DEF m_is_halted
  <2>2. cmd = "resume" /\ halted
    BY <1>4, <1>7, <2>1 DEF CommandInv
  <2>3. QED
    BY <2>2 DEF Clock, DebuggerEdge, debugger
<1>8. ASSUME cmd' = "mem" PROVE halted' /\ m_is_halted'
  <2>1. "mem" \in HostCommands
    BY <1>1, <1>8
  <2>2. halted /\ cmd \in {"none", "mem"}
    BY <1>8 DEF CommandInv, Clock, DebuggerEdge, debugger
  <2>3. halt_req_in /\ m_is_halted
    BY <1>5, <2>1, <2>2 DEF CommandInv
  <2>4. halt_req_in'
    BY <1>4, <2>1, <2>2, <2>3
  <2>5. QED
    BY <1>3, <2>3, <2>4, HaltStops
<1>9. halted' /\ d_ack' => cmd' = "mem"
  <2>1. halted' /\ d_ack' => cmd = "mem" /\ ~mem_debug_ack
    BY <1>3 DEF Clock, DataPortEdge, d_req
  <2>2. cmd = "mem" /\ ~mem_debug_ack => cmd' = "mem"
    BY DEF Clock, DebuggerEdge, debugger
  <2>3. QED
    BY <2>1, <2>2
<1>10. QED
  BY <1>1, <1>6, <1>7, <1>8, <1>9 DEF CommandInv

-----------------------------------------------------------------------------
(* The responses.  The argument is a count: the splitter has a request or a  *)
(* response exactly for the one instruction that waits for it, in memory or  *)
(* in write back.                                                            *)
LEMMA WaitingMoves ==
  ASSUME TypeOK, ReqHeld, ResponseOwned,
         NEW b, NEW i_grant, NEW d_grant, Clock(b, i_grant, d_grant)
  PROVE  /\ WbAwaits' <=> (~ready_up \/ (mem_valid_out /\ m_mem_op(mem.insn)))
         /\ MemAwaits' <=> (~ex_handoff /\ mem_valid /\ m_mem_op(mem.insn)
                             /\ ~mem_req_vld_next /\ ~(mem_valid_out /\ ready_up))
         /\ ~ready_up <=> WbAwaits /\ ~resp_valid
         /\ out_handshake <=> WbAwaits /\ resp_valid
         /\ ~ready_up => req_vld_ff /\ ~lsu_ack /\ ~in_handshake /\ ~MemAwaits
         /\ MemAwaits => ~WbAwaits /\ (req_vld_ff \/ out_buffer_vld_ff)
         /\ req_vld_ff => ~out_buffer_vld_ff /\ (WbAwaits \/ MemAwaits)
         /\ out_buffer_vld_ff => ~req_vld_ff /\ ~lsu_ack /\ (WbAwaits \/ MemAwaits)
<1>1. /\ ~ready_up <=> WbAwaits /\ ~resp_valid
      /\ out_handshake <=> WbAwaits /\ resp_valid
  BY DEF ready_up, resp_ready, WbAwaits, out_handshake
<1>2. MemAwaits' <=> (~ex_handoff /\ mem_valid /\ m_mem_op(mem.insn)
                        /\ ~mem_req_vld_next /\ ~(mem_valid_out /\ ready_up))
  <2>1. CASE ex_handoff
    <3>1. mem'.insn = ex.insn /\ (mem_req_vld_ff' = m_mem_op(ex.insn))
      BY <2>1 DEF Clock, MemEdge
    <3>2. QED
      BY <2>1, <3>1 DEF MemAwaits, m_mem_op
  <2>2. CASE ~ex_handoff
    <3>1. /\ mem' = mem /\ (mem_req_vld_ff' = mem_req_vld_next)
          /\ mem_valid' = (mem_valid /\ ~(mem_valid_out /\ ready_up))
      BY <2>2 DEF Clock, MemEdge
    <3>2. QED
      BY <2>2, <3>1 DEF MemAwaits, m_mem_op
  <2>3. QED
    BY <2>1, <2>2
<1>3. WbAwaits' <=> (~ready_up \/ (mem_valid_out /\ m_mem_op(mem.insn)))
  <2>1. CASE ready_up
    <3>1. (wb_valid' = mem_valid_out) /\ wb'.insn = mem.insn
      BY <2>1 DEF Clock, WriteBackEdge
    <3>2. QED
      BY <2>1, <3>1 DEF WbAwaits, m_mem_op
  <2>2. CASE ~ready_up
    <3>1. wb_valid' = wb_valid /\ wb' = wb
      BY <2>2 DEF Clock, WriteBackEdge
    <3>2. QED
      BY <1>1, <2>2, <3>1 DEF WbAwaits, m_mem_op
  <2>3. QED
    BY <2>1, <2>2
<1>4. /\ req_vld_ff => ~out_buffer_vld_ff /\ (WbAwaits \/ MemAwaits)
      /\ out_buffer_vld_ff => ~req_vld_ff /\ (WbAwaits \/ MemAwaits)
      /\ WbAwaits \/ MemAwaits => req_vld_ff \/ out_buffer_vld_ff
      /\ ~(WbAwaits /\ MemAwaits)
  BY DEF ResponseOwned, Bit
<1>5. lsu_ack => req_vld_ff
  BY DEF ResponseOwned
<1>6. ~ready_up => req_vld_ff /\ ~lsu_ack /\ ~in_handshake
  BY <1>1, <1>4 DEF resp_valid, in_handshake, req_ready
<1>7. QED
  BY <1>1, <1>2, <1>3, <1>4, <1>5, <1>6

(* The port's acknowledge reaches the core only for a request of the core.   *)
LEMMA AckStep ==
  ASSUME TypeOK, CommandInv', NEW b, NEW i_grant, NEW d_grant,
         Clock(b, i_grant, d_grant)
  PROVE  lsu_ack' => ~m_is_halted /\ d_grant /\ req_vld_ff'
<1>1. SUFFICES ASSUME lsu_ack' PROVE ~m_is_halted /\ d_grant /\ req_vld_ff'
  OBVIOUS
<1>2. ~m_is_halted' /\ d_req /\ d_grant
  BY <1>1 DEF lsu_ack, Clock, DataPortEdge
<1>3. ~m_is_halted
  <2>1. m_is_halted => cmd = "mem" /\ ~mem_debug_ack
    BY <1>2 DEF d_req
  <2>2. cmd = "mem" /\ ~mem_debug_ack => cmd' = "mem"
    BY DEF Clock, DebuggerEdge, debugger
  <2>3. QED
    BY <1>2, <2>1, <2>2 DEF CommandInv
<1>4. QED
  BY <1>2, <1>3 DEF d_req, Clock, MemEdge

LEMMA ResponseStep ==
  ASSUME TypeOK, ReqHeld, ResponseOwned, CommandInv',
         NEW b, NEW i_grant, NEW d_grant, Clock(b, i_grant, d_grant)
  PROVE  ResponseOwned'
<1>1. /\ WbAwaits' <=> (~ready_up \/ (mem_valid_out /\ m_mem_op(mem.insn)))
      /\ MemAwaits' <=> (~ex_handoff /\ mem_valid /\ m_mem_op(mem.insn)
                          /\ ~mem_req_vld_next /\ ~(mem_valid_out /\ ready_up))
      /\ ~ready_up <=> WbAwaits /\ ~resp_valid
      /\ out_handshake <=> WbAwaits /\ resp_valid
      /\ ~ready_up => req_vld_ff /\ ~lsu_ack /\ ~in_handshake /\ ~MemAwaits
      /\ MemAwaits => ~WbAwaits /\ (req_vld_ff \/ out_buffer_vld_ff)
      /\ req_vld_ff => ~out_buffer_vld_ff /\ (WbAwaits \/ MemAwaits)
      /\ out_buffer_vld_ff => ~req_vld_ff /\ ~lsu_ack /\ (WbAwaits \/ MemAwaits)
  BY WaitingMoves
<1>2. /\ MemAwaits <=> mem_valid /\ m_mem_op(mem.insn) /\ ~mem_req_vld_ff
      /\ mem_req_vld_ff => mem_valid /\ m_mem_op(mem.insn)
  BY DEF MemAwaits, ReqHeld
<1>3. /\ mem_valid_out => mem_valid /\ ~mem_req_vld_next
      /\ mem_req_vld_next <=> mem_req_vld_ff /\ ~req_ready
      /\ ex_handoff => ~mem_valid \/ (mem_valid_out /\ ready_up)
  BY DEF mem_valid_out, mem_req_vld_next, ex_handoff, mem_ready_in
<1>4. /\ req_vld_ff' <=> in_handshake \/ (req_vld_ff /\ ~lsu_ack)
      /\ out_buffer_vld_ff' <=> ~out_handshake /\ (lsu_ack \/ out_buffer_vld_ff)
      /\ in_handshake <=> mem_req_vld_ff /\ req_ready
      /\ req_ready <=> (~req_vld_ff \/ lsu_ack) /\ ~out_buffer_vld_ff'
      /\ lsu_ack => req_vld_ff
      /\ resp_valid <=> out_buffer_vld_ff \/ lsu_ack
  BY DEF Clock, MemEdge, lsu_req, out_buffer_vld_next, in_handshake, req_ready,
         ResponseOwned, resp_valid
<1>5. ~(WbAwaits' /\ MemAwaits')
  BY <1>1, <1>2, <1>3, <1>4
<1>6. WbAwaits' \/ MemAwaits' <=> req_vld_ff' \/ out_buffer_vld_ff'
  BY <1>1, <1>2, <1>3, <1>4
<1>7. ~(req_vld_ff' /\ out_buffer_vld_ff')
  BY <1>1, <1>4
<1>8. Bit(WbAwaits') + Bit(MemAwaits') = Bit(req_vld_ff') + Bit(out_buffer_vld_ff')
  BY <1>5, <1>6, <1>7 DEF Bit
<1>9. req' = lsu_request
  BY DEF Clock, MemEdge
<1>10. ASSUME WbAwaits' PROVE req'.addr = wb'.alu /\ req'.store = m_is_store(wb'.insn)
  <2>1. CASE ready_up
    <3>1. wb'.insn = mem.insn /\ wb'.alu = mem.alu
      BY <2>1 DEF Clock, WriteBackEdge
    <3>2. mem_valid_out /\ m_mem_op(mem.insn)
      BY <1>1, <1>10, <2>1
    <3>3. CASE in_handshake
      BY <1>9, <3>1, <3>3 DEF lsu_request, m_is_store
    <3>4. CASE ~in_handshake
      <4>1. MemAwaits
        BY <1>2, <1>3, <1>4, <3>2, <3>4
      <4>2. QED
        BY <1>9, <3>1, <3>4, <4>1 DEF lsu_request, ResponseOwned, m_is_store
    <3>5. QED
      BY <3>3, <3>4
  <2>2. CASE ~ready_up
    <3>1. wb' = wb /\ WbAwaits /\ ~in_handshake
      BY <1>1, <2>2 DEF Clock, WriteBackEdge
    <3>2. QED
      BY <1>9, <3>1 DEF lsu_request, ResponseOwned, m_is_store
  <2>3. QED
    BY <2>1, <2>2
<1>11. ASSUME MemAwaits'
       PROVE  req' = [addr |-> mem'.alu, store |-> m_is_store(mem'.insn), data |-> mem'.rs2]
  <2>1. mem' = mem
    BY <1>1, <1>11 DEF Clock, MemEdge
  <2>2. CASE in_handshake
    BY <1>9, <2>1, <2>2 DEF lsu_request, m_is_store
  <2>3. CASE ~in_handshake
    <3>1. MemAwaits
      BY <1>1, <1>2, <1>3, <1>4, <1>11, <2>3
    <3>2. QED
      BY <1>9, <2>1, <2>3, <3>1 DEF lsu_request, ResponseOwned, m_is_store
  <2>4. QED
    BY <2>2, <2>3
<1>12. lsu_ack' => req_vld_ff'
  BY AckStep
<1>13. QED
  BY <1>5, <1>8, <1>10, <1>11, <1>12 DEF ResponseOwned, m_is_store, Bit

-----------------------------------------------------------------------------
(* The debugger's accesses.  A word it writes behaves as memory: it is not   *)
(* the register of a device.                                                 *)
WritesMemory == DebugWrites = {} \/ DebugAddrs \cap Devices = {}

DebugInv == DebugAckOwned /\ (cmd = "mem" => dbg \in DebugRequests)

LEMMA AlignFacts == \A w \in WordAddr : w \in Word /\ Align(w) = w
<1> SUFFICES ASSUME NEW w \in WordAddr PROVE w \in Word /\ Align(w) = w
  OBVIOUS
<1>1. PICK x \in Word : w = x - (x % 4)
  BY DEF WordAddr, Align
<1>2. Size \in Nat /\ x \in Nat /\ x < Size
  BY SizeAssumption DEF Word
<1>3. w \in Nat /\ w < Size /\ w % 4 = 0
  BY <1>1, <1>2
<1>4. QED
  BY <1>2, <1>3 DEF Word, Align

LEMMA DebugStep ==
  ASSUME WritesMemory, TypeOK, CommandInv', DebugInv,
         NEW b, NEW i_grant, NEW d_grant, Clock(b, i_grant, d_grant)
  PROVE  DebugInv'
<1>1. cmd' = "mem" => dbg' \in DebugRequests
  BY DEF DebugInv, DebugRequests, Clock, DebuggerEdge, debugger
<1>2. ASSUME cmd' = "mem", mem_debug_ack'
      PROVE  IF dbg'.store THEN ram'[Align(dbg'.addr)] = dbg'.data
                           ELSE d_data' = ram'[Align(dbg'.addr)]
  <2>1. m_is_halted /\ d_req /\ d_grant
    BY <1>2 DEF CommandInv, mem_debug_ack, Clock, HaltEdge, DataPortEdge
  <2>2. cmd = "mem" /\ ~mem_debug_ack
    BY <2>1 DEF d_req
  <2>3. dbg' = dbg
    BY <2>2 DEF Clock, DebuggerEdge, debugger
  <2>4. /\ d_data' = ram[Align(dbg.addr)]
        /\ ram' = IF dbg.store THEN Stored(ram, Align(dbg.addr), dbg.data) ELSE ram
    BY <2>1 DEF Clock, DataPortEdge, d_request
  <2>5. CASE dbg.store
    <3>1. PICK a \in DebugAddrs, v \in DebugWrites : dbg = [addr |-> a, store |-> TRUE, data |-> v]
      BY <2>2, <2>5 DEF DebugInv, DebugRequests
    <3>2. a \in WordAddr /\ Align(a) = a /\ a \notin Devices
      BY AlignFacts, PipelineAssumption DEF WritesMemory
    <3>3. ram'[a] = v
      BY <2>4, <3>1, <3>2 DEF Stored, TypeOK
    <3>4. QED
      BY <2>3, <3>1, <3>2, <3>3
  <2>6. CASE ~dbg.store
    BY <2>3, <2>4, <2>6
  <2>7. QED
    BY <2>5, <2>6
<1>3. QED
  BY <1>1, <1>2 DEF DebugInv, DebugAckOwned, DebugRequests

-----------------------------------------------------------------------------
(* The theorems.  CoreInv needs nothing of the environment.                  *)
CoreInv == TypeOK /\ ReqHeld /\ HaltInv

LEMMA CoreInvHolds == Spec => []CoreInv
<1>1. Init => CoreInv
  BY InitTypes DEF Init, CoreInv, ReqHeld, HaltInv
<1>2. CoreInv /\ [Next]_vars => CoreInv'
  <2>1. SUFFICES ASSUME CoreInv, [Next]_vars PROVE CoreInv'
    OBVIOUS
  <2>2. TypeOK'
    BY <2>1, NextTypes DEF CoreInv
  <2>3. CASE UNCHANGED vars
    <3>1. UNCHANGED <<fs_state, mem_valid, mem, mem_req_vld_ff, out_buffer_vld_ff, wb_valid, wb,
                      halt_req_in, halted>>
      BY <2>3 DEF vars, fetch_regs, mem_regs, wb_regs, halt_regs
    <3>2. QED
      BY <2>1, <2>2, <3>1 DEF CoreInv, ReqHeld, HaltInv, m_is_halted, WbAwaits, m_mem_op
  <2>4. CASE Next
    BY <2>1, <2>2, <2>4, ReqHeldStep, HaltStep DEF CoreInv, Next
  <2>5. QED
    BY <2>1, <2>3, <2>4
<1>3. QED
  BY <1>1, <1>2, PTL DEF Spec

(* While the core reports that it is halted nothing but the divider moves,   *)
(* at whatever cycle and by whomever it was halted.                          *)
THEOREM HaltedFrozen == Spec => HaltedIsFrozen
<1>1. CoreInv /\ [Next]_vars =>
        [halted /\ halt_req_in =>
           /\ halted'
           /\ UNCHANGED <<fetch_regs, decode_regs, ex, alu, mul,
                          mem_valid, mem, mem_req_vld_ff, wb_valid>>]_vars
  BY FrozenStep DEF CoreInv, Next
<1>2. QED
  BY <1>1, CoreInvHolds, PTL DEF Spec, HaltedIsFrozen

(* With one operator the port is never shared in the middle of a request.    *)
PortInv == CoreInv /\ CommandInv /\ ResponseOwned

LEMMA PortInvStep == ASSUME OneOperator, PortInv, [Next]_vars PROVE PortInv'
<1>1. CASE UNCHANGED vars
  <2>1. UNCHANGED <<halted, halt_req_in, fs_state, cmd, d_ack, mem_valid, mem, mem_req_vld_ff,
                    req_vld_ff, req, out_buffer_vld_ff, wb_valid, wb>>
    BY <1>1 DEF vars, fetch_regs, mem_regs, wb_regs, halt_regs, ports, debugger
  <2>2. CoreInv'
    BY <1>1, <2>1, NextTypes
       DEF PortInv, CoreInv, ReqHeld, HaltInv, m_is_halted, WbAwaits, m_mem_op
  <2>3. CommandInv'
    BY <2>1 DEF PortInv, CommandInv, m_is_halted
  <2>4. ResponseOwned'
    BY <2>1 DEF PortInv, ResponseOwned, WbAwaits, MemAwaits, lsu_ack, m_is_halted,
                      m_mem_op, m_is_store, Bit
  <2>5. QED
    BY <2>2, <2>3, <2>4 DEF PortInv
<1>2. CASE Next
  <2>1. PICK b \in SUBSET Buttons, i_grant \in BOOLEAN, d_grant \in BOOLEAN :
          Clock(b, i_grant, d_grant)
    BY <1>2 DEF Next
  <2>2. CoreInv'
    BY <2>1, NextTypes, ReqHeldStep, HaltStep DEF PortInv, CoreInv
  <2>3. CommandInv'
    BY <2>1, CommandStep DEF PortInv, CoreInv
  <2>4. ResponseOwned'
    BY <2>1, <2>3, ResponseStep DEF PortInv, CoreInv
  <2>5. QED
    BY <2>2, <2>3, <2>4 DEF PortInv
<1>3. QED
  BY <1>1, <1>2

LEMMA PortInvHolds == ASSUME OneOperator PROVE Spec => []PortInv
<1>1. Init => PortInv
  <2>1. SUFFICES ASSUME Init PROVE PortInv
    OBVIOUS
  <2>2. CoreInv
    BY <2>1, InitTypes DEF Init, CoreInv, ReqHeld, HaltInv
  <2>3. CommandInv
    BY <2>1 DEF Init, CommandInv
  <2>4. ResponseOwned
    BY <2>1 DEF Init, ResponseOwned, WbAwaits, MemAwaits, lsu_ack, Bit
  <2>5. QED
    BY <2>2, <2>3, <2>4 DEF PortInv
<1>2. PortInv /\ [Next]_vars => PortInv'
  BY PortInvStep
<1>3. QED
  BY <1>1, <1>2, PTL DEF Spec

(* A response is never handed to another instruction, also when the core was *)
(* halted between the request and its acknowledge.                           *)
THEOREM ResponsesOwned == ASSUME OneOperator PROVE Spec => []ResponseOwned
<1>1. PortInv => ResponseOwned
  BY DEF PortInv
<1>2. QED
  BY <1>1, PortInvHolds, PTL

(* The debugger gets the word it asked for, and what it wrote is there, also *)
(* when the core's own request was answered in the cycle of the halt.        *)
THEOREM DebugAcksOwned ==
  ASSUME OneOperator, WritesMemory PROVE Spec => []DebugAckOwned
<1>1. Init => DebugInv
  BY DEF Init, DebugInv, DebugAckOwned
<1>2. DebugInv /\ PortInv /\ PortInv' /\ [Next]_vars => DebugInv'
  <2>1. SUFFICES ASSUME DebugInv, PortInv, PortInv', [Next]_vars PROVE DebugInv'
    OBVIOUS
  <2>2. CASE UNCHANGED vars
    <3>1. UNCHANGED <<halt_req_in, fs_state, cmd, dbg, d_ack, d_data, ram, mem_valid, mem_req_vld_ff>>
      BY <2>2 DEF vars, fetch_regs, mem_regs, halt_regs, ports, debugger
    <3>2. QED
      BY <2>1, <3>1 DEF DebugInv, DebugAckOwned, DebugRequests, mem_debug_ack, m_is_halted
  <2>3. CASE Next
    BY <2>1, <2>3, DebugStep DEF PortInv, CoreInv, Next
  <2>4. QED
    BY <2>1, <2>2, <2>3
<1>3. DebugInv => DebugAckOwned
  BY DEF DebugInv
<1>4. QED
  BY <1>1, <1>2, <1>3, PortInvHolds, PTL DEF Spec

-----------------------------------------------------------------------------
(***************************************************************************)
(* The pipeline implements the sequential machine, for every program, every *)
(* number of registers, every latency of the two memories and every moment  *)
(* at which the core is halted or resumed.                                  *)
(*                                                                          *)
(* The argument follows one clock edge through the abstract state of        *)
(* ArxRefinement.  The back end only moves instructions towards the         *)
(* registers and the memory, and that leaves the abstract state as it is    *)
(* (BackEndStep).  Decode's issue appends one instruction to it (IssueStep), *)
(* whose operands are the registers the elder instructions leave behind     *)
(* (SourceReady), and moves the abstract pc on (NextPcStep, IssuePc).      *)
(***************************************************************************)

(* The debugger only reads: what it writes is no step of the machine.        *)
DebuggerReads == DebugWrites = {}

(* A store granted in the cycle of a halt is granted again after the resume, *)
(* which a device would notice and memory does not.                          *)
RepeatsHarmless == Devices = {} \/ "halt" \notin HostCommands \cup Buttons

HaltWanted == halt_req_in => "halt" \in HostCommands \cup Buttons

-----------------------------------------------------------------------------
(* The instruction fetch.                                                    *)

(* What fetch and decode hold is the program at the address they name.       *)
FetchInv ==
  /\ prog \in Programs
  /\ i_ack => i_data = prog[pc]
  /\ fs_state = "S_WAIT_HANDSHAKE" => insn_buf = prog[pc]
  /\ m_valid => id.insn = prog[id.pc] /\ pc = Plus(id.pc, 4)

LEMMA FetchStep ==
  ASSUME TypeOK, RedirectPending, FetchInv,
         NEW b, NEW i_grant, NEW d_grant, Clock(b, i_grant, d_grant)
  PROVE  FetchInv'
<1>1. prog' = prog
  BY DEF Clock
<1>2. pc' = IF pc_upd THEN pc_next ELSE pc
  BY DEF Clock, FetchEdge
<1>3. i_ack' => i_data' = prog'[pc']
  BY <1>1, <1>2 DEF Clock, InsnPortEdge, i_addr
<1>4. ASSUME fs_state' = "S_WAIT_HANDSHAKE" PROVE insn_buf' = prog'[pc']
  <2>1. ~pc_upd /\ (insn_buf_we \/ fs_state = "S_WAIT_HANDSHAKE")
    BY <1>4 DEF Clock, FetchEdge, TypeOK, pc_upd, insn_buf_we
  <2>2. insn_buf_we => insn_buf' = i_data /\ i_ack
    BY DEF Clock, FetchEdge, insn_buf_we
  <2>3. ~insn_buf_we => insn_buf' = insn_buf
    BY DEF Clock, FetchEdge
  <2>4. QED
    BY <1>1, <1>2, <2>1, <2>2, <2>3 DEF FetchInv
<1>5. ASSUME m_valid' PROVE id'.insn = prog'[id'.pc] /\ pc' = Plus(id'.pc, 4)
  <2>1. CASE fs_deliver
    <3>1. id' = [insn |-> fs_insn, pc |-> pc]
      BY <2>1 DEF Clock, DecodeEdge
    <3>2. pc_upd /\ ~pc_we /\ ~pc_we_buf
      BY <2>1 DEF fs_deliver, pc_we_internal
    <3>3. pc' = Plus(pc, 4)
      BY <1>2, <3>2 DEF pc_next
    <3>4. fs_insn = prog[pc]
      BY <3>2 DEF FetchInv, fs_insn, pc_upd
    <3>5. QED
      BY <1>1, <3>1, <3>3, <3>4
  <2>2. CASE ~fs_deliver
    <3>1. id' = id /\ m_valid /\ ~pc_we /\ ~issue
      BY <1>5, <2>2 DEF Clock, DecodeEdge
    <3>2. ~pc_we_internal
      BY <3>1 DEF RedirectPending, pc_we_internal
    <3>3. ~pc_upd
      BY <2>2, <3>1, <3>2 DEF fs_deliver, pc_upd
    <3>4. QED
      BY <1>1, <1>2, <3>1, <3>3 DEF FetchInv
  <2>3. QED
    BY <2>1, <2>2
<1>6. QED
  BY <1>1, <1>3, <1>4, <1>5 DEF FetchInv

-----------------------------------------------------------------------------
(* The effect of an instruction: that of Complete, with nothing performed,   *)
(* and with the response l in its place when the port has carried it out.    *)
Effect(s, i, v, d)    == Complete(s, i, v, d, s.mem[Align(v)], FALSE)
Performed(s, i, v, l) == Complete(s, i, v, 0, l, TRUE)

State == [regs : [Reg -> Word], mem : [WordAddr -> Word]]

LEMMA EffectType ==
  ASSUME NEW s \in State, NEW i \in Insn, NEW v \in Word, NEW d \in Word
  PROVE  /\ Effect(s, i, v, d) \in State
         /\ \A l \in Word : Performed(s, i, v, l) \in State
<1>1. Align(v) \in WordAddr /\ s.mem[Align(v)] \in Word
  BY WordFacts DEF State
<1>2. \A w \in Word : WriteReg(s.regs, i.rd, w) \in [Reg -> Word]
  BY DEF WriteReg, State, Insn
<1>3. Stored(s.mem, Align(v), d) \in [WordAddr -> Word]
  <2>1. Plus(s.mem[Align(v)], d) \in Word
    BY <1>1, WordFacts
  <2>2. QED
    BY <1>1, <2>1 DEF Stored, State
<1>4. QED
  BY <1>1, <1>2, <1>3 DEF Effect, Performed, Complete, State

(* An instruction that does not touch memory has one effect, by either name. *)
LEMMA EffectOnRegisters ==
  ASSUME NEW s, NEW i, NEW v, NEW d, NEW l, ~m_mem_op(i)
  PROVE  /\ Effect(s, i, v, d).mem = s.mem
         /\ Performed(s, i, v, l) = Effect(s, i, v, d)
         /\ \A d2 : Effect(s, i, v, d2) = Effect(s, i, v, d)
BY DEF Effect, Performed, Complete, m_mem_op, m_is_store, m_mem_to_reg

(* One edge of the data port, seen from the request the splitter holds after *)
(* it: the memory changes by that request alone, and the core learns of it   *)
(* at once unless it has just been halted.                                   *)
LEMMA PortStep ==
  ASSUME DebuggerReads, RepeatsHarmless, TypeOK, DebugInv, HaltWanted', CommandInv, CommandInv',
         NEW b, NEW i_grant, NEW d_grant, Clock(b, i_grant, d_grant)
  PROVE  LET a == Align(req'.addr) IN
         /\ ~req_vld_ff' => ram' = ram /\ ~lsu_ack'
         /\ lsu_ack' => d_data' = ram[a]
         /\ lsu_ack' => ram' = IF req'.store THEN Stored(ram, a, req'.data) ELSE ram
         /\ \/ ram' = ram
            \/ req'.store /\ ram' = Stored(ram, a, req'.data) /\ (lsu_ack' \/ Devices = {})
<1>1. /\ req' = lsu_request /\ (req_vld_ff' = lsu_req)
      /\ (d_ack' = (d_req /\ d_grant))
      /\ halted' = m_is_halted
  BY DEF Clock, MemEdge, DataPortEdge, HaltEdge
<1>2. lsu_ack' => ~m_is_halted /\ d_grant /\ req_vld_ff'
  BY AckStep
<1>3. CASE m_is_halted
  <2>1. ~lsu_ack'
    BY <1>2, <1>3
  <2>2. d_req => cmd = "mem"
    BY <1>3 DEF d_req
  <2>3. d_req => ~d_request.store
    BY <1>3, <2>2 DEF DebugInv, DebuggerReads, DebugRequests, d_request
  <2>4. ram' = ram
    BY <2>3 DEF Clock, DataPortEdge
  <2>5. QED
    BY <2>1, <2>4
<1>4. CASE ~m_is_halted
  <2>1. d_req = req_vld_ff' /\ d_request = req'
    BY <1>1, <1>4 DEF d_req, d_request
  <2>2. ram' = IF req_vld_ff' /\ d_grant /\ req'.store
               THEN Stored(ram, Align(req'.addr), req'.data) ELSE ram
    BY <2>1 DEF Clock, DataPortEdge
  <2>3. lsu_ack' => d_data' = ram[Align(req'.addr)]
    BY <1>2, <2>1 DEF Clock, DataPortEdge
  <2>4. req_vld_ff' /\ d_grant => lsu_ack' \/ Devices = {}
    <3>1. req_vld_ff' /\ d_grant => lsu_ack' \/ m_is_halted'
      BY <1>1, <2>1 DEF lsu_ack
    <3>2. m_is_halted' => Devices = {}
      BY DEF m_is_halted, HaltWanted, RepeatsHarmless
    <3>3. QED
      BY <3>1, <3>2
  <2>5. QED
    BY <1>2, <2>2, <2>3, <2>4
<1>5. QED
  BY <1>3, <1>4

(* The request the splitter holds after the edge, for the instruction i with *)
(* address v and data d: granted or not, answered or not, what completing i  *)
(* leads to is what it led to before.                                        *)
LEMMA Outstanding ==
  ASSUME DebuggerReads, RepeatsHarmless, TypeOK, DebugInv, HaltWanted', CommandInv, CommandInv',
         NEW b, NEW i_grant, NEW d_grant, Clock(b, i_grant, d_grant),
         NEW i \in Insn, NEW v \in Word, NEW d \in Word, NEW r \in [Reg -> Word],
         m_mem_op(i), req' = [addr |-> v, store |-> m_is_store(i), data |-> d]
  PROVE  LET s  == [regs |-> r, mem |-> ram]
             s2 == [regs |-> r, mem |-> ram']
         IN  Effect(s, i, v, d) = IF lsu_ack' THEN Performed(s2, i, v, d_data')
                                              ELSE Effect(s2, i, v, d)
<1> DEFINE s  == [regs |-> r, mem |-> ram]
           s2 == [regs |-> r, mem |-> ram']
           a  == Align(v)
<1>1. /\ lsu_ack' => d_data' = ram[a]
      /\ lsu_ack' => ram' = IF m_is_store(i) THEN Stored(ram, a, d) ELSE ram
      /\ \/ ram' = ram
         \/ m_is_store(i) /\ ram' = Stored(ram, a, d) /\ (lsu_ack' \/ Devices = {})
  BY PortStep
<1>2. a \in WordAddr
  BY WordFacts
<1>3. m_is_store(i) <=> ~m_mem_to_reg(i)
  BY DEF m_mem_op, m_is_store, m_mem_to_reg
<1>4. m_is_store(i) => ~m_reg_write(i)
  BY DEF m_reg_write, m_is_store
<1>5. CASE m_is_store(i)
  <2>1. Effect(s, i, v, d) = [regs |-> r, mem |-> Stored(ram, a, d)]
    BY <1>4, <1>5 DEF Effect, Complete
  <2>2. Performed(s2, i, v, d_data') = [regs |-> r, mem |-> ram']
    BY <1>4, <1>5 DEF Performed, Complete
  <2>3. Effect(s2, i, v, d) = [regs |-> r, mem |-> Stored(ram', a, d)]
    BY <1>4, <1>5 DEF Effect, Complete
  <2>4. Devices = {} => Stored(Stored(ram, a, d), a, d) = Stored(ram, a, d)
    BY <1>2 DEF Stored, TypeOK
  <2>5. QED
    BY <1>1, <1>5, <2>1, <2>2, <2>3, <2>4
<1>6. CASE ~m_is_store(i)
  <2>1. ram' = ram
    BY <1>1, <1>6
  <2>2. lsu_ack' => Performed(s2, i, v, d_data') = Effect(s, i, v, d)
    BY <1>1, <1>6, <2>1 DEF Effect, Performed, Complete
  <2>3. QED
    BY <2>1, <2>2
<1>7. QED
  BY <1>5, <1>6

(* The abstract state, stage by stage, in these terms.                       *)
Retired == [regs |-> regs, mem |-> ram]
Answered(s, i, v, d, done) ==
  IF done THEN Performed(s, i, v, resp_data) ELSE Effect(s, i, v, d)
MemAnswered == MemAwaits /\ resp_valid

ByStages ==
  /\ AfterWb = IF wb_valid THEN Answered(Retired, wb.insn, wb.alu, req.data, resp_valid)
                           ELSE Retired
  /\ AfterMem = IF mem_valid THEN Answered(AfterWb, mem.insn, mem.alu, mem.rs2, MemAnswered)
                             ELSE AfterWb
  /\ AfterEx = IF ex_busy THEN Effect(AfterMem, ex.insn, ex_result, ex.rs2) ELSE AfterMem

LEMMA StageEffects == ByStages /\ ByStages'
<1>1. ByStages
  <2>1. AfterWb = IF wb_valid THEN Answered(Retired, wb.insn, wb.alu, req.data, resp_valid)
                              ELSE Retired
    BY DEF AfterWb, Retired, Answered, Effect, Performed, Complete, Loaded
  <2>2. AfterMem = IF mem_valid THEN Answered(AfterWb, mem.insn, mem.alu, mem.rs2, MemAnswered)
                                ELSE AfterWb
    BY DEF AfterMem, MemAnswered, Answered, Effect, Performed, Complete, Loaded
  <2>3. AfterEx = IF ex_busy THEN Effect(AfterMem, ex.insn, ex_result, ex.rs2) ELSE AfterMem
    BY DEF AfterEx, Effect, Loaded
  <2>4. QED
    BY <2>1, <2>2, <2>3 DEF ByStages
<1>2. QED
  BY <1>1, PTL

LEMMA StageTypes == TypeOK => AfterWb \in State /\ AfterMem \in State /\ AfterEx \in State
<1> SUFFICES ASSUME TypeOK PROVE AfterWb \in State /\ AfterMem \in State /\ AfterEx \in State
  OBVIOUS
<1>1. resp_data \in Word /\ ex_result \in Word
  BY NetTypes DEF TypeOK, ex_result
<1>2. \A s \in State, i \in Insn, v \in Word, d \in Word, done \in BOOLEAN :
        Answered(s, i, v, d, done) \in State
  BY <1>1, EffectType DEF Answered
<1>3. Retired \in State
  BY DEF Retired, State, TypeOK
<1>4. AfterWb \in State
  BY <1>2, <1>3, StageEffects DEF ByStages, TypeOK, resp_valid, lsu_ack, m_is_halted
<1>5. AfterMem \in State
  BY <1>2, <1>4, StageEffects DEF ByStages, TypeOK, MemAnswered, MemAwaits, m_mem_op
<1>6. AfterEx \in State
  BY <1>1, <1>5, StageEffects, EffectType DEF ByStages, TypeOK
<1>7. QED
  BY <1>4, <1>5, <1>6

-----------------------------------------------------------------------------
(* The back end.  RefInv collects the invariants proved so far; Edge is a    *)
(* clock edge in their scope.                                                *)
RefInv == Inv /\ PortInv /\ RedirectPending /\ FetchInv /\ DebugInv /\ HaltWanted

Environment == OneOperator /\ DebuggerReads /\ RepeatsHarmless

Edge(b, i_grant, d_grant) == RefInv /\ RefInv' /\ Clock(b, i_grant, d_grant)

(* An instruction that leaves write back has taken its effect.               *)
LEMMA WriteBackRetires ==
  ASSUME RefInv, NEW b, NEW i_grant, NEW d_grant, Clock(b, i_grant, d_grant), ready_up
  PROVE  [regs |-> regs', mem |-> ram] = AfterWb
<1>1. regs' = IF rd_we THEN WriteReg(regs, rd_in, rd_val) ELSE regs
  BY DEF Clock, DecodeEdge
<1>2. rd_we <=> wb_valid /\ m_reg_write(wb.insn)
  BY DEF rd_we, ready_up, resp_ready
<1>3. CASE ~wb_valid
  BY <1>1, <1>2, <1>3, StageEffects DEF ByStages, Retired
<1>4. CASE wb_valid
  <2>1. AfterWb = Answered(Retired, wb.insn, wb.alu, req.data, resp_valid)
    BY <1>4, StageEffects DEF ByStages
  <2>2. rd_in = wb.insn.rd
    BY <1>4 DEF rd_in
  <2>3. AfterWb.regs = regs' /\ AfterWb.mem = ram
    <3>1. CASE m_mem_op(wb.insn)
      <4>1. resp_valid
        BY <1>4, <3>1 DEF ready_up, resp_ready
      <4>2. QED
        BY <1>1, <1>2, <1>4, <2>1, <2>2, <4>1 DEF Answered, Performed, Complete, Retired, rd_val
    <3>2. CASE ~m_mem_op(wb.insn)
      <4>1. ~m_is_store(wb.insn) /\ ~m_mem_to_reg(wb.insn)
        BY <3>2 DEF m_mem_op, m_is_store, m_mem_to_reg
      <4>2. QED
        BY <1>1, <1>2, <1>4, <2>1, <2>2, <4>1
           DEF Answered, Effect, Performed, Complete, Retired, rd_val
    <3>3. QED
      BY <3>1, <3>2
  <2>4. QED
    BY <2>3, StageTypes DEF State, RefInv, Inv
<1>5. QED
  BY <1>3, <1>4

(* The request the splitter has after the edge belongs to the instruction    *)
(* that waits for it; without one the memory keeps its contents.             *)
LEMMA MemoryStill ==
  ASSUME Environment, NEW b, NEW i_grant, NEW d_grant, Edge(b, i_grant, d_grant),
         ~WbAwaits', ~MemAwaits'
  PROVE  ram' = ram
<1>1. ~req_vld_ff'
  BY DEF Edge, RefInv, PortInv, ResponseOwned, Bit
<1>2. QED
  BY <1>1, PortStep DEF Environment, Edge, RefInv, PortInv, CoreInv

(* The instruction in the memory stage, when write back is or becomes free:  *)
(* its response stays its own, buffered or not.                              *)
LEMMA MemoryEffect ==
  ASSUME Environment, NEW b, NEW i_grant, NEW d_grant, Edge(b, i_grant, d_grant),
         ready_up, mem_valid, ex_handoff => mem_valid_out
  PROVE  LET s2 == [regs |-> regs', mem |-> ram'] IN
         AfterMem = IF m_mem_op(mem.insn) /\ ~mem_req_vld_next /\ resp_valid'
                    THEN Performed(s2, mem.insn, mem.alu, resp_data')
                    ELSE Effect(s2, mem.insn, mem.alu, mem.rs2)
<1> DEFINE s2 == [regs |-> regs', mem |-> ram']
           i == mem.insn  v == mem.alu  d == mem.rs2
           accepted == m_mem_op(i) /\ ~mem_req_vld_next
<1>1. TypeOK /\ TypeOK' /\ ReqHeld /\ ResponseOwned /\ ResponseOwned' /\ CommandInv'
  BY DEF Edge, RefInv, PortInv, CoreInv
<1>2. Clock(b, i_grant, d_grant)
  BY DEF Edge
<1>3. [regs |-> regs', mem |-> ram] = AfterWb
  BY <1>2, WriteBackRetires DEF Edge
<1>4. AfterMem = Answered(AfterWb, i, v, d, MemAnswered)
  BY StageEffects DEF ByStages
<1>5. /\ WbAwaits' <=> mem_valid_out /\ m_mem_op(i)
      /\ MemAwaits' <=> (~ex_handoff /\ m_mem_op(i) /\ ~mem_req_vld_next /\ ~mem_valid_out)
      /\ out_handshake <=> WbAwaits /\ resp_valid
      /\ MemAwaits => ~WbAwaits /\ (req_vld_ff \/ out_buffer_vld_ff)
      /\ req_vld_ff => ~out_buffer_vld_ff
      /\ out_buffer_vld_ff => ~lsu_ack
  BY <1>1, <1>2, WaitingMoves
<1>6. mem_valid_out => ~mem_req_vld_next
  BY DEF mem_valid_out
<1>7. accepted <=> WbAwaits' \/ MemAwaits'
  BY <1>5, <1>6
<1>8. CASE ~accepted
  <2>1. ram' = ram
    BY <1>7, <1>8, MemoryStill
  <2>2. ~MemAnswered \/ ~m_mem_op(i)
    BY <1>8 DEF MemAnswered, MemAwaits, mem_req_vld_next
  <2>3. AfterMem = Effect(AfterWb, i, v, d)
    BY <1>4, <2>2, EffectOnRegisters DEF Answered
  <2>4. QED
    BY <1>3, <1>8, <2>1, <2>3
<1>9. CASE accepted /\ MemAnswered
  <2>1. ~out_handshake /\ (lsu_ack \/ out_buffer_vld_ff)
    BY <1>5, <1>9 DEF MemAnswered, resp_valid
  <2>2. out_buffer_vld_ff'
    BY <1>2, <2>1 DEF Clock, MemEdge, out_buffer_vld_next
  <2>3. ~req_vld_ff'
    BY <1>1, <1>7, <1>9, <2>2 DEF ResponseOwned, Bit
  <2>4. ram' = ram
    BY <1>2, <2>3, PortStep DEF Environment, Edge, RefInv, PortInv, CoreInv
  <2>5. resp_data' = resp_data
    BY <1>2, <1>5, <2>1, <2>2 DEF Clock, MemEdge, resp_data
  <2>6. resp_valid'
    BY <2>2 DEF resp_valid
  <2>7. QED
    BY <1>3, <1>4, <1>9, <2>4, <2>5, <2>6 DEF Answered
<1>10. CASE accepted /\ ~MemAnswered
  <2>1. req_vld_ff' /\ req' = [addr |-> v, store |-> m_is_store(i), data |-> d]
    <3>1. CASE MemAwaits
      <4>1. ~resp_valid /\ ~in_handshake /\ req_vld_ff
        BY <1>5, <1>10, <3>1 DEF MemAnswered, resp_valid, in_handshake, MemAwaits
      <4>2. QED
        BY <1>1, <1>2, <3>1, <4>1
           DEF Clock, MemEdge, lsu_req, lsu_request, resp_valid, ResponseOwned
    <3>2. CASE ~MemAwaits
      <4>1. in_handshake
        BY <1>10, <3>2 DEF MemAwaits, mem_req_vld_next, in_handshake
      <4>2. QED
        BY <1>2, <4>1 DEF Clock, MemEdge, lsu_req, lsu_request
    <3>3. QED
      BY <3>1, <3>2
  <2>2. ~out_buffer_vld_ff'
    BY <1>1, <2>1 DEF ResponseOwned, Bit
  <2>3. resp_valid' = lsu_ack' /\ resp_data' = d_data'
    BY <2>2, <1>1 DEF resp_valid, resp_data, lsu_ack, TypeOK
  <2>4. AfterMem = Effect([regs |-> regs', mem |-> ram], i, v, d)
    BY <1>3, <1>4, <1>10 DEF Answered
  <2>5. i \in Insn /\ v \in Word /\ d \in Word /\ regs' \in [Reg -> Word]
    BY <1>1 DEF TypeOK
  <2>6. AfterMem = IF lsu_ack' THEN Performed(s2, i, v, d_data') ELSE Effect(s2, i, v, d)
    BY <1>1, <1>2, <1>10, <2>1, <2>4, <2>5, Outstanding
       DEF Environment, Edge, RefInv, PortInv, CoreInv
  <2>7. QED
    BY <1>10, <2>3, <2>6
<1>11. QED
  BY <1>8, <1>9, <1>10

(* What write back and memory hold comes to the same after the edge, with    *)
(* the instruction execute has handed over.                                  *)
LEMMA BackEndStep ==
  ASSUME Environment, NEW b, NEW i_grant, NEW d_grant, Edge(b, i_grant, d_grant)
  PROVE  AfterMem' = IF ex_handoff THEN Effect(AfterMem, ex.insn, ex_res, ex.rs2)
                                   ELSE AfterMem
<1> DEFINE s2 == [regs |-> regs', mem |-> ram']
<1>1. TypeOK /\ TypeOK' /\ ReqHeld /\ ResponseOwned /\ ResponseOwned' /\ CommandInv'
  BY DEF Edge, RefInv, PortInv, CoreInv
<1>2. Clock(b, i_grant, d_grant)
  BY DEF Edge
<1>3. /\ WbAwaits' <=> (~ready_up \/ (mem_valid_out /\ m_mem_op(mem.insn)))
      /\ MemAwaits' <=> (~ex_handoff /\ mem_valid /\ m_mem_op(mem.insn)
                          /\ ~mem_req_vld_next /\ ~(mem_valid_out /\ ready_up))
      /\ ~ready_up <=> WbAwaits /\ ~resp_valid
      /\ ~ready_up => req_vld_ff /\ ~lsu_ack /\ ~in_handshake /\ ~MemAwaits
  BY <1>1, <1>2, WaitingMoves
<1>4. /\ ex_handoff => ~mem_valid \/ (mem_valid_out /\ ready_up)
      /\ mem_valid_out => mem_valid /\ ~mem_req_vld_next
  BY DEF ex_handoff, mem_ready_in, mem_valid_out
<1>5. mem_valid' <=> ex_handoff \/ (mem_valid /\ ~(mem_valid_out /\ ready_up))
  BY <1>2 DEF Clock, MemEdge
<1>6. ex_handoff => mem' = [insn |-> ex.insn, alu |-> ex_res, rs2 |-> ex.rs2] /\ ~MemAwaits'
  BY <1>2, <1>3 DEF Clock, MemEdge
<1>7. ~ex_handoff => mem' = mem
  BY <1>2 DEF Clock, MemEdge
<1>8. ready_up => (wb_valid' = mem_valid_out) /\ wb' = [insn |-> mem.insn, alu |-> mem.alu]
  BY <1>2 DEF Clock, WriteBackEdge
<1>9. AfterWb' = IF wb_valid' THEN IF resp_valid' THEN Performed(s2, wb'.insn, wb'.alu, resp_data')
                                                  ELSE Effect(s2, wb'.insn, wb'.alu, req'.data)
                              ELSE s2
  BY StageEffects DEF ByStages, Answered, Retired
<1>10. AfterMem' = IF mem_valid' THEN IF MemAnswered'
                                      THEN Performed(AfterWb', mem'.insn, mem'.alu, resp_data')
                                      ELSE Effect(AfterWb', mem'.insn, mem'.alu, mem'.rs2)
                                 ELSE AfterWb'
  BY StageEffects DEF ByStages, Answered
<1>11. ASSUME AfterWb' = AfterMem, ex_handoff \/ ~mem_valid'
       PROVE  AfterMem' = IF ex_handoff THEN Effect(AfterMem, ex.insn, ex_res, ex.rs2)
                                        ELSE AfterMem
  <2>1. CASE ex_handoff
    BY <1>5, <1>6, <1>10, <1>11, <2>1 DEF MemAnswered
  <2>2. CASE ~ex_handoff
    BY <1>10, <1>11, <2>2
  <2>3. QED
    BY <2>1, <2>2
<1>12. CASE ready_up /\ mem_valid_out
  <2>1. AfterMem = IF m_mem_op(mem.insn) /\ resp_valid'
                   THEN Performed(s2, mem.insn, mem.alu, resp_data')
                   ELSE Effect(s2, mem.insn, mem.alu, mem.rs2)
    BY <1>4, <1>12, MemoryEffect
  <2>2. AfterWb' = IF resp_valid' THEN Performed(s2, mem.insn, mem.alu, resp_data')
                                  ELSE Effect(s2, mem.insn, mem.alu, req'.data)
    BY <1>8, <1>9, <1>12
  <2>3. AfterWb' = AfterMem
    <3>1. CASE ~m_mem_op(mem.insn)
      BY <2>1, <2>2, <3>1, EffectOnRegisters
    <3>2. CASE m_mem_op(mem.insn) /\ resp_valid'
      BY <2>1, <2>2, <3>2
    <3>3. CASE m_mem_op(mem.insn) /\ ~resp_valid'
      <4>1. req'.data = mem.rs2
        <5>1. WbAwaits' /\ req_vld_ff'
          BY <1>1, <1>3, <1>12, <3>3 DEF ResponseOwned, Bit, resp_valid
        <5>2. CASE in_handshake
          BY <1>2, <5>2 DEF Clock, MemEdge, lsu_request
        <5>3. CASE ~in_handshake
          <6>1. MemAwaits
            BY <1>4, <1>12, <3>3, <5>3 DEF MemAwaits, mem_req_vld_next, in_handshake
          <6>2. QED
            BY <1>1, <1>2, <5>3, <6>1 DEF Clock, MemEdge, lsu_request, ResponseOwned
        <5>4. QED
          BY <5>2, <5>3
      <4>2. QED
        BY <2>1, <2>2, <3>3, <4>1
    <3>4. QED
      BY <3>1, <3>2, <3>3
  <2>4. QED
    BY <1>5, <1>11, <1>12, <2>3
<1>13. CASE ready_up /\ ~mem_valid_out
  <2>1. AfterWb' = s2
    BY <1>8, <1>9, <1>13
  <2>2. CASE ~mem_valid
    <3>1. ram' = ram
      BY <1>3, <1>13, <2>2, MemoryStill
    <3>2. AfterMem = AfterWb
      BY <2>2, StageEffects DEF ByStages
    <3>3. AfterWb' = AfterMem
      BY <1>2, <1>13, <2>1, <3>1, <3>2, WriteBackRetires DEF Edge
    <3>4. QED
      BY <1>5, <1>11, <2>2, <3>3
  <2>3. CASE mem_valid
    <3>1. ~ex_handoff /\ mem_valid' /\ mem' = mem
      BY <1>4, <1>5, <1>7, <1>13, <2>3
    <3>2. AfterMem = IF m_mem_op(mem.insn) /\ ~mem_req_vld_next /\ resp_valid'
                     THEN Performed(s2, mem.insn, mem.alu, resp_data')
                     ELSE Effect(s2, mem.insn, mem.alu, mem.rs2)
      BY <2>3, <3>1, MemoryEffect, <1>13
    <3>3. MemAnswered' <=> m_mem_op(mem.insn) /\ ~mem_req_vld_next /\ resp_valid'
      BY <1>3, <1>13, <2>3, <3>1 DEF MemAnswered
    <3>4. QED
      BY <1>10, <2>1, <3>1, <3>2, <3>3
  <2>4. QED
    BY <2>2, <2>3
<1>14. CASE ~ready_up
  <2>1. wb_valid /\ m_mem_op(wb.insn) /\ ~resp_valid /\ req_vld_ff /\ ~lsu_ack /\ ~in_handshake
        /\ ~MemAwaits
    BY <1>3, <1>14 DEF WbAwaits
  <2>2. /\ wb' = wb /\ wb_valid' /\ ~MemAwaits'
        /\ req_vld_ff' /\ req' = req /\ ~out_buffer_vld_ff' /\ regs' = regs
    <3>1. wb' = wb /\ wb_valid'
      BY <1>2, <1>14, <2>1 DEF Clock, WriteBackEdge
    <3>2. req_vld_ff' /\ req' = req
      BY <1>2, <2>1 DEF Clock, MemEdge, lsu_req, lsu_request
    <3>3. ~out_buffer_vld_ff'
      BY <1>1, <3>2 DEF ResponseOwned, Bit
    <3>4. regs' = regs
      BY <1>2, <2>1 DEF Clock, DecodeEdge, rd_we
    <3>5. ~MemAwaits'
      BY <1>1, <1>3, <1>14 DEF ResponseOwned
    <3>6. QED
      BY <3>1, <3>2, <3>3, <3>4, <3>5
  <2>3. resp_valid' = lsu_ack' /\ resp_data' = d_data'
    BY <2>2, <1>1 DEF resp_valid, resp_data, lsu_ack, TypeOK
  <2>4. AfterWb = Effect([regs |-> regs', mem |-> ram], wb.insn, wb.alu, req.data)
    BY <2>1, <2>2, StageEffects DEF ByStages, Answered, Retired
  <2>5. req' = [addr |-> wb.alu, store |-> m_is_store(wb.insn), data |-> req.data]
    BY <1>1, <2>1, <2>2 DEF ResponseOwned, WbAwaits, TypeOK
  <2>6. AfterWb' = AfterWb
    <3>1. wb.insn \in Insn /\ wb.alu \in Word /\ req.data \in Word /\ regs' \in [Reg -> Word]
      BY <1>1 DEF TypeOK
    <3>2. AfterWb = IF lsu_ack' THEN Performed(s2, wb.insn, wb.alu, d_data')
                                ELSE Effect(s2, wb.insn, wb.alu, req.data)
      BY <1>1, <1>2, <2>1, <2>4, <2>5, <3>1, Outstanding
         DEF Environment, Edge, RefInv, PortInv, CoreInv
    <3>3. QED
      BY <1>9, <2>2, <2>3, <3>2
  <2>7. AfterMem = IF mem_valid THEN Effect(AfterWb, mem.insn, mem.alu, mem.rs2) ELSE AfterWb
    BY <2>1, StageEffects DEF ByStages, Answered, MemAnswered
  <2>8. CASE ex_handoff
    <3>1. ~mem_valid
      BY <1>4, <1>14, <2>8
    <3>2. QED
      BY <1>11, <2>6, <2>7, <2>8, <3>1
  <2>9. CASE ~ex_handoff
    BY <1>5, <1>7, <1>10, <1>14, <2>2, <2>6, <2>7, <2>9 DEF MemAnswered
  <2>10. QED
    BY <2>8, <2>9
<1>15. QED
  BY <1>12, <1>13, <1>14

-----------------------------------------------------------------------------
(* The execute stage.                                                        *)

(* The value an issued instruction will have, known to the model from the    *)
(* edge of the issue on; the divider shows it DIV_CYCLES later.              *)
IssuedArgs ==
  [a |-> ialu_arg_1(id.insn, id.pc, regs[id.insn.rs_1]),
   b |-> ialu_arg_2(id.insn, regs[id.insn.rs_2])]
IssuedResult ==
  IF m_alu_en(id.insn) THEN Alu(m_alu_op(id.insn), IssuedArgs.a, IssuedArgs.b)
                       ELSE Mdu(id.insn.fn, IssuedArgs.a, IssuedArgs.b)

LEMMA ExecuteKeeps ==
  ASSUME TypeOK, OneUnitBusy, NEW b, NEW i_grant, NEW d_grant, Clock(b, i_grant, d_grant),
         ~issue, ex_busy, ~ex_handoff
  PROVE  /\ ex' = ex /\ alu'.branch_en = alu.branch_en
         /\ ex_result' = ex_result
<1> DEFINE ready == ~halt_req_in /\ mem_ready_in
<1>1. ex' = ex
  BY DEF Clock, ExecEdge
<1>2. ready => ~alu.valid /\ ~mul.valid /\ ~div.valid
  BY DEF ex_handoff, ex_valid_out, OneUnitBusy, m_alu_en, m_mdu_en
<1>3. alu' = alu
  BY <1>2 DEF Clock, ExecEdge
<1>4. mul' = mul
  BY <1>2 DEF Clock, ExecEdge
<1>5. ex_result' = ex_result
  <2>1. CASE div.cnt > 0
    <3>1. ~mul.valid /\ m_mdu_en(ex.insn) /\ ~m_alu_en(ex.insn)
      BY <2>1 DEF OneUnitBusy, TypeOK, m_mdu_en, m_alu_en
    <3>2. /\ div'.cnt = div.cnt - 1 /\ div'.quot = div.quot
          /\ div.cnt = 1 => div'.res = div.quot
      BY <2>1 DEF Clock, ExecEdge, div_cnt_next
    <3>3. ex_res' = div'.res
      BY <1>1, <1>4, <3>1 DEF ex_res, m_alu_en
    <3>4. ex_result = div.quot
      BY <2>1 DEF ex_result
    <3>5. div.cnt \in Nat
      BY PipelineAssumption DEF TypeOK
    <3>6. QED
      BY <2>1, <3>2, <3>3, <3>4, <3>5 DEF ex_result
  <2>2. CASE ~(div.cnt > 0)
    <3>1. div.cnt = 0
      BY <2>2, PipelineAssumption DEF TypeOK
    <3>2. div'.cnt = 0 /\ div'.res = div.res
      <4>1. CASE ready
        BY <3>1, <4>1 DEF Clock, ExecEdge, div_cnt_next, TypeOK
      <4>2. CASE ~ready
        BY <3>1, <4>2 DEF Clock, ExecEdge, div_cnt_next
      <4>3. QED
        BY <4>1, <4>2
    <3>3. QED
      BY <1>1, <1>3, <1>4, <2>2, <3>1, <3>2 DEF ex_result, ex_res, m_alu_en
  <2>3. QED
    BY <2>1, <2>2
<1>6. QED
  BY <1>1, <1>3, <1>5

LEMMA ExecuteHandsOver ==
  ASSUME TypeOK, OneUnitBusy, ex_handoff
  PROVE  ex_result = ex_res
BY DEF ex_handoff, ex_valid_out, ex_result, OneUnitBusy

LEMMA ExecuteIssues ==
  ASSUME TypeOK, OneUnitBusy, NEW b, NEW i_grant, NEW d_grant, Clock(b, i_grant, d_grant),
         issue
  PROVE  /\ ex' = [insn |-> id.insn, pc |-> id.pc,
                   rs1 |-> regs[id.insn.rs_1], rs2 |-> regs[id.insn.rs_2]]
         /\ ex_result' = IssuedResult
         /\ alu'.branch_en <=> m_alu_en(id.insn)
                               /\ Taken(m_alu_op(id.insn), IssuedArgs.a, IssuedArgs.b)
<1> DEFINE ready == ~halt_req_in /\ mem_ready_in
           i == id.insn
<1>1. ex' = [insn |-> id.insn, pc |-> id.pc,
             rs1 |-> regs[id.insn.rs_1], rs2 |-> regs[id.insn.rs_2]]
  BY DEF Clock, ExecEdge
<1>2. /\ ~alu.valid \/ ready
      /\ ~mul.valid \/ ready
      /\ div.cnt = 0
  BY DEF issue, ex_ready_in
<1>3. CASE m_alu_en(i)
  <2>1. ~m_mdu_en(i)
    BY <1>3 DEF m_alu_en, m_mdu_en
  <2>2. alu' = [valid |-> TRUE, res |-> Alu(m_alu_op(i), IssuedArgs.a, IssuedArgs.b),
                branch_en |-> Taken(m_alu_op(i), IssuedArgs.a, IssuedArgs.b)]
    BY <1>3 DEF Clock, ExecEdge, IssuedArgs
  <2>3. div'.cnt = 0
    <3>1. CASE ready
      BY <1>2, <2>1, <3>1 DEF Clock, ExecEdge, div_cnt_next, TypeOK
    <3>2. CASE ~ready
      BY <1>2, <2>1, <3>2 DEF Clock, ExecEdge, div_cnt_next
    <3>3. QED
      BY <3>1, <3>2
  <2>4. QED
    BY <1>1, <1>3, <2>2, <2>3 DEF ex_result, ex_res, IssuedResult, m_alu_en
<1>4. CASE ~m_alu_en(i)
  <2>1. m_mdu_en(i)
    BY <1>4 DEF m_alu_en, m_mdu_en
  <2>2. ~alu'.branch_en
    <3>1. CASE alu.valid
      BY <1>2, <1>4, <3>1 DEF Clock, ExecEdge, div_cnt_next, TypeOK
    <3>2. CASE ~alu.valid
      BY <1>4, <3>2 DEF Clock, ExecEdge, div_cnt_next, OneUnitBusy
    <3>3. QED
      BY <3>1, <3>2
  <2>3. ex_result' = Mdu(i.fn, IssuedArgs.a, IssuedArgs.b)
    <3>1. CASE i.fn \in MulFuncs
      <4>1. mul' = [valid |-> TRUE, res |-> Mdu(i.fn, IssuedArgs.a, IssuedArgs.b)]
        BY <2>1, <3>1 DEF Clock, ExecEdge, IssuedArgs
      <4>2. div'.cnt = 0
        <5>1. CASE ready
          BY <1>2, <3>1, <5>1 DEF Clock, ExecEdge, div_cnt_next, TypeOK
        <5>2. CASE ~ready
          BY <1>2, <3>1, <5>2 DEF Clock, ExecEdge, div_cnt_next
        <5>3. QED
          BY <5>1, <5>2
      <4>3. QED
        BY <1>1, <1>4, <4>1, <4>2 DEF ex_result, ex_res, m_alu_en
    <3>2. CASE i.fn \notin MulFuncs
      <4>1. div'.cnt = DIV_CYCLES /\ div'.quot = Mdu(i.fn, IssuedArgs.a, IssuedArgs.b)
        BY <2>1, <3>2 DEF Clock, ExecEdge, div_cnt_next, IssuedArgs
      <4>2. div'.cnt > 0 /\ div'.quot = Mdu(i.fn, IssuedArgs.a, IssuedArgs.b)
        BY <4>1, PipelineAssumption DEF TypeOK
      <4>3. QED
        BY <4>2 DEF ex_result
    <3>3. QED
      BY <3>1, <3>2
  <2>4. QED
    BY <1>1, <1>4, <2>2, <2>3 DEF IssuedResult
<1>5. QED
  BY <1>3, <1>4

(* One edge of the abstract registers and memory: nothing, or the effect of  *)
(* the instruction decode issues on top of all its elders.                   *)
LEMMA AfterExStep ==
  ASSUME Environment, NEW b, NEW i_grant, NEW d_grant, Edge(b, i_grant, d_grant)
  PROVE  AfterEx' = IF issue
                    THEN Effect(AfterEx, id.insn, IssuedResult, regs[id.insn.rs_2])
                    ELSE AfterEx
<1>1. TypeOK /\ OneUnitBusy /\ Clock(b, i_grant, d_grant)
  BY DEF Edge, RefInv, Inv
<1>2. /\ issue => ~ex_busy \/ ex_handoff
      /\ ex_handoff => ex_busy
      /\ ex_busy' <=> issue \/ (ex_busy /\ ~ex_handoff)
  BY <1>1, ExecuteMoves
<1>3. AfterMem' = IF ex_handoff THEN AfterEx ELSE AfterMem
  BY <1>1, <1>2, BackEndStep, ExecuteHandsOver, StageEffects DEF ByStages
<1>4. AfterEx' = IF ex_busy' THEN Effect(AfterMem', ex'.insn, ex_result', ex'.rs2) ELSE AfterMem'
  BY StageEffects DEF ByStages
<1>5. CASE issue
  <2>1. ex'.insn = id.insn /\ ex'.rs2 = regs[id.insn.rs_2] /\ ex_result' = IssuedResult
    BY <1>1, <1>5, ExecuteIssues
  <2>2. AfterMem' = AfterEx
    BY <1>2, <1>3, <1>5, StageEffects DEF ByStages
  <2>3. QED
    BY <1>2, <1>4, <1>5, <2>1, <2>2
<1>6. CASE ~issue /\ ex_busy /\ ~ex_handoff
  <2>1. ex' = ex /\ ex_result' = ex_result
    BY <1>1, <1>6, ExecuteKeeps
  <2>2. QED
    BY <1>2, <1>3, <1>4, <1>6, <2>1, StageEffects DEF ByStages
<1>7. CASE ~issue /\ ~(ex_busy /\ ~ex_handoff)
  BY <1>2, <1>3, <1>4, <1>7, StageEffects DEF ByStages
<1>8. QED
  BY <1>5, <1>6, <1>7

-----------------------------------------------------------------------------
(* The operands.  No stage holds a writer of a source register when the      *)
(* scoreboard lets the instruction go, so that the register file already     *)
(* has the value its elders leave behind.                                    *)
LEMMA EffectElsewhere ==
  ASSUME NEW s \in State, NEW i \in Insn, NEW v \in Word, NEW d \in Word, NEW r \in Reg,
         ~(m_reg_write(i) /\ i.rd = r)
  PROVE  /\ Effect(s, i, v, d).regs[r] = s.regs[r]
         /\ \A l : Performed(s, i, v, l).regs[r] = s.regs[r]
<1>1. \A w : m_reg_write(i) => WriteReg(s.regs, i.rd, w)[r] = s.regs[r]
  BY DEF WriteReg, State, Insn
<1>2. QED
  BY <1>1 DEF Effect, Performed, Complete

LEMMA SourceReady ==
  ASSUME TypeOK, ScoreboardExact, NEW r \in Reg, m_used_reg[r] = 0
  PROVE  AfterEx.regs[r] = regs[r]
<1>1. ~ExWrites(r) /\ ~MemWrites(r) /\ ~WbWrites(r)
  BY DEF ScoreboardExact, Bit
<1>2. AfterWb \in State /\ AfterMem \in State /\ Retired \in State
  BY StageTypes DEF Retired, State, TypeOK
<1>3. ex_result \in Word
  BY NetTypes DEF TypeOK, ex_result
<1>4. AfterWb.regs[r] = regs[r]
  <2>1. CASE wb_valid
    <3>1. ~(m_reg_write(wb.insn) /\ wb.insn.rd = r)
      BY <1>1, <2>1 DEF WbWrites
    <3>2. QED
      <4>1. wb.insn \in Insn /\ wb.alu \in Word /\ req.data \in Word
        BY DEF TypeOK
      <4>2. /\ Effect(Retired, wb.insn, wb.alu, req.data).regs[r] = Retired.regs[r]
            /\ Performed(Retired, wb.insn, wb.alu, resp_data).regs[r] = Retired.regs[r]
        BY <1>2, <3>1, <4>1, EffectElsewhere
      <4>3. QED
        BY <2>1, <4>2, StageEffects DEF ByStages, Answered, Retired
  <2>2. CASE ~wb_valid
    BY <2>2, StageEffects DEF ByStages, Retired
  <2>3. QED
    BY <2>1, <2>2
<1>5. AfterMem.regs[r] = AfterWb.regs[r]
  <2>1. CASE mem_valid
    <3>1. ~(m_reg_write(mem.insn) /\ mem.insn.rd = r)
      BY <1>1, <2>1 DEF MemWrites
    <3>2. QED
      <4>1. mem.insn \in Insn /\ mem.alu \in Word /\ mem.rs2 \in Word
        BY DEF TypeOK
      <4>2. /\ Effect(AfterWb, mem.insn, mem.alu, mem.rs2).regs[r] = AfterWb.regs[r]
            /\ Performed(AfterWb, mem.insn, mem.alu, resp_data).regs[r] = AfterWb.regs[r]
        BY <1>2, <3>1, <4>1, EffectElsewhere
      <4>3. QED
        BY <2>1, <4>2, StageEffects DEF ByStages, Answered
  <2>2. CASE ~mem_valid
    BY <2>2, StageEffects DEF ByStages
  <2>3. QED
    BY <2>1, <2>2
<1>6. AfterEx.regs[r] = AfterMem.regs[r]
  <2>1. CASE ex_busy
    <3>1. ~(m_reg_write(ex.insn) /\ ex.insn.rd = r)
      BY <1>1, <2>1 DEF ExWrites
    <3>2. QED
      <4>1. ex.insn \in Insn /\ ex.rs2 \in Word
        BY DEF TypeOK
      <4>2. Effect(AfterMem, ex.insn, ex_result, ex.rs2).regs[r] = AfterMem.regs[r]
        BY <1>2, <1>3, <3>1, <4>1, EffectElsewhere
      <4>3. QED
        BY <2>1, <4>2, StageEffects DEF ByStages
  <2>2. CASE ~ex_busy
    BY <2>2, StageEffects DEF ByStages
  <2>3. QED
    BY <2>1, <2>2
<1>7. QED
  BY <1>4, <1>5, <1>6

-----------------------------------------------------------------------------
(* The abstract pc.                                                          *)

(* Without an issue it stays where it is: at the target of the jump in       *)
(* execute, at decode's instruction or at the fetch's.                       *)
LEMMA NextPcStep ==
  ASSUME NEW b, NEW i_grant, NEW d_grant, Edge(b, i_grant, d_grant), ~issue
  PROVE  NextPc' = NextPc
<1>1. /\ TypeOK /\ OneUnitBusy /\ RedirectPending /\ Clock(b, i_grant, d_grant)
  BY DEF Edge, RefInv, Inv
<1>2. /\ ex_handoff => ex_busy
      /\ ex_busy' <=> ex_busy /\ ~ex_handoff
  BY <1>1, ExecuteMoves
<1>3. pc_we <=> ex_handoff /\ Redirects
  BY <1>1, <1>2 DEF pc_we, Redirects, OneUnitBusy
<1>4. /\ pc' = IF pc_upd THEN pc_next ELSE pc
      /\ pc_we_buf' = (pc_we_internal /\ ~pc_upd)
      /\ pc_in_buf' = IF pc_we /\ ~pc_upd THEN pc_branch ELSE pc_in_buf
  BY <1>1 DEF Clock, FetchEdge, pc_we_ack, pc_we_internal
<1>5. /\ m_valid' <=> fs_deliver \/ (m_valid /\ ~pc_we)
      /\ id' = IF fs_deliver THEN [insn |-> fs_insn, pc |-> pc] ELSE id
      /\ fs_deliver => ~pc_we /\ ~pc_we_buf /\ ~m_valid /\ pc_upd
  BY <1>1 DEF Clock, DecodeEdge, fs_deliver, pc_we_internal, id_ready_in
<1>6. CASE Redirects /\ ~ex_handoff
  <2>1. Redirects' /\ pc_branch' = pc_branch
    BY <1>1, <1>2, <1>6, ExecuteKeeps DEF Redirects, pc_branch, m_pc_reg_imm, m_pc_jump_en
  <2>2. QED
    BY <1>6, <2>1 DEF NextPc
<1>7. CASE Redirects /\ ex_handoff
  <2>1. pc_we /\ ~Redirects' /\ ~m_valid'
    BY <1>2, <1>3, <1>5, <1>7 DEF Redirects
  <2>2. (IF pc_we_buf' THEN pc_in_buf' ELSE pc') = pc_branch
    BY <1>4, <2>1 DEF pc_we_internal, pc_next
  <2>3. QED
    BY <1>7, <2>1, <2>2 DEF NextPc
<1>8. CASE ~Redirects
  <2>1. ~pc_we /\ ~Redirects'
    <3>1. CASE ex_busy /\ ~ex_handoff
      BY <1>1, <1>3, <1>8, <3>1, ExecuteKeeps DEF Redirects, m_pc_jump_en
    <3>2. CASE ~(ex_busy /\ ~ex_handoff)
      BY <1>2, <1>3, <1>8, <3>2 DEF Redirects
    <3>3. QED
      BY <3>1, <3>2
  <2>2. CASE m_valid
    <3>1. m_valid' /\ id' = id
      BY <1>5, <2>1, <2>2
    <3>2. QED
      BY <1>8, <2>1, <2>2, <3>1 DEF NextPc
  <2>3. CASE ~m_valid /\ fs_deliver
    <3>1. m_valid' /\ id'.pc = pc /\ ~pc_we_buf
      BY <1>5, <2>3
    <3>2. QED
      BY <1>8, <2>1, <2>3, <3>1 DEF NextPc
  <2>4. CASE ~m_valid /\ ~fs_deliver
    <3>1. ~m_valid'
      BY <1>5, <2>4
    <3>2. pc_upd => pc_we_buf
      BY <2>1, <2>4 DEF pc_upd, fs_deliver, pc_we_internal
    <3>3. (IF pc_we_buf' THEN pc_in_buf' ELSE pc') = IF pc_we_buf THEN pc_in_buf ELSE pc
      BY <1>1, <1>4, <2>1, <3>2 DEF pc_we_internal, pc_next, TypeOK
    <3>4. QED
      BY <1>8, <2>1, <2>4, <3>1, <3>3 DEF NextPc
  <2>5. QED
    BY <2>2, <2>3, <2>4
<1>9. QED
  BY <1>6, <1>7, <1>8

(* The edge of the issue: the abstract pc names the instruction, and moves   *)
(* to its successor, known in the execute stage from this edge on.           *)
LEMMA IssuePc ==
  ASSUME NEW b, NEW i_grant, NEW d_grant, Edge(b, i_grant, d_grant), issue
  PROVE  LET i  == id.insn
             r1 == regs[i.rs_1]
             r2 == regs[i.rs_2]
         IN  /\ NextPc = id.pc /\ i = prog[id.pc]
             /\ NextPc' = IF \/ i.opcode = "BRANCH" /\ Taken(i.fn, r1, r2)
                             \/ m_pc_jump_en(i)
                          THEN Plus(IF i.opcode = "JALR" THEN r1 ELSE id.pc, i.imm)
                          ELSE Plus(id.pc, 4)
<1> DEFINE i  == id.insn
           r1 == regs[i.rs_1]
           r2 == regs[i.rs_2]
           a  == IssuedArgs.a
           c  == IssuedArgs.b
<1>1. TypeOK /\ OneUnitBusy /\ RedirectPending /\ FetchInv /\ Clock(b, i_grant, d_grant)
  BY DEF Edge, RefInv, Inv
<1>2. m_valid /\ ~pc_we /\ ~pc_we_buf
  BY <1>1 DEF issue, id_valid_out, RedirectPending
<1>3. i = prog[id.pc] /\ pc = Plus(id.pc, 4)
  BY <1>1, <1>2 DEF FetchInv
<1>4. NextPc = id.pc
  <2>1. ex_busy => ex_handoff
    BY <1>1, ExecuteMoves
  <2>2. ~Redirects
    BY <1>1, <1>2, <2>1 DEF Redirects, pc_we, OneUnitBusy
  <2>3. QED
    BY <1>2, <2>2 DEF NextPc
<1>5. ex' = [insn |-> i, pc |-> id.pc, rs1 |-> r1, rs2 |-> r2]
      /\ (alu'.branch_en <=> m_alu_en(i) /\ Taken(m_alu_op(i), a, c))
  BY <1>1, ExecuteIssues
<1>6. alu'.branch_en <=> i.opcode = "BRANCH" /\ Taken(i.fn, r1, r2)
  <2>1. i \in Insn /\ id.pc \in Word /\ r1 \in Word /\ r2 \in Word /\ prog \in Programs
    BY <1>1, UnitTypes DEF TypeOK, FetchInv
  <2>2. a \in Word /\ c \in Word
    BY <2>1, WordFacts DEF IssuedArgs, ialu_arg_1, ialu_arg_2, Insn
  <2>3. CASE i.opcode = "BRANCH"
    <3>1. m_alu_op(i) = i.fn /\ a = r1 /\ c = r2 /\ m_alu_en(i)
      BY <2>3 DEF m_alu_op, m_alu_en, IssuedArgs, ialu_arg_1, ialu_arg_2
    <3>2. QED
      BY <1>5, <2>3, <3>1
  <2>4. CASE i.opcode \in {"OP", "OP_IMM"}
    <3>1. m_alu_op(i) = i.fn
      BY <2>4 DEF m_alu_op
    <3>2. id.pc \in Word /\ prog[id.pc].opcode \in {"OP", "OP_IMM"}
      BY <1>3, <2>1, <2>4
    <3>3. ~Taken(i.fn, a, c)
      BY <1>3, <2>1, <2>2, <3>2, ProgramAssumption
    <3>4. QED
      BY <1>5, <2>4, <3>1, <3>3
  <2>5. CASE i.opcode \notin {"BRANCH", "OP", "OP_IMM"}
    <3>1. m_alu_op(i) = "ADD"
      BY <2>5 DEF m_alu_op
    <3>2. QED
      BY <1>5, <2>2, <2>5, <3>1, AddAssumption
  <2>6. QED
    BY <2>3, <2>4, <2>5
<1>7. ex_busy'
  BY <1>1, ExecuteMoves
<1>8. Redirects' <=> (i.opcode = "BRANCH" /\ Taken(i.fn, r1, r2)) \/ m_pc_jump_en(i)
  BY <1>5, <1>6, <1>7 DEF Redirects, m_pc_jump_en
<1>9. pc_branch' = Plus(IF i.opcode = "JALR" THEN r1 ELSE id.pc, i.imm)
  BY <1>5 DEF pc_branch, m_pc_reg_imm
<1>10. (IF m_valid' THEN id'.pc ELSE IF pc_we_buf' THEN pc_in_buf' ELSE pc') = pc
  <2>1. ~pc_we_buf'
    BY <1>1, <1>2 DEF Clock, FetchEdge, pc_we_internal
  <2>2. m_valid' <=> fs_deliver
    BY <1>1 DEF Clock, DecodeEdge
  <2>3. fs_deliver => id'.pc = pc
    BY <1>1 DEF Clock, DecodeEdge
  <2>4. ~fs_deliver => pc' = pc
    BY <1>1, <1>2 DEF Clock, FetchEdge, pc_upd, fs_deliver, pc_we_internal
  <2>5. QED
    BY <2>1, <2>2, <2>3, <2>4
<1>11. NextPc' = IF Redirects' THEN pc_branch' ELSE pc
  BY <1>10 DEF NextPc
<1>12. QED
  BY <1>3, <1>4, <1>8, <1>9, <1>11

-----------------------------------------------------------------------------
(* The steps of the machine.                                                 *)
LEMMA SameArchitecture ==
  /\ \A x, y : Machine!Plus(x, y) = Plus(x, y)
  /\ \A x : Machine!Align(x) = Align(x)
  /\ \A m, x, y : Machine!Stored(m, x, y) = Stored(m, x, y)
  /\ \A r, x, y : Machine!WriteReg(r, x, y) = WriteReg(r, x, y)
BY DEF Machine!Plus, Plus, Machine!Align, Align, Machine!Stored, Stored,
       Machine!WriteReg, WriteReg

LEMMA ZeroPlus == \A w \in Word : Plus(0, w) = w
BY SizeAssumption DEF Word, Plus

LEMMA IssueStep ==
  ASSUME Environment, NEW b, NEW i_grant, NEW d_grant, Edge(b, i_grant, d_grant), issue
  PROVE  Machine!Next
<1> DEFINE i  == id.insn
           r1 == regs[i.rs_1]
           r2 == regs[i.rs_2]
           s  == AfterEx
<1>1. TypeOK /\ ScoreboardExact /\ Clock(b, i_grant, d_grant)
  BY DEF Edge, RefInv, Inv
<1>2. i \in Insn /\ id.pc \in Word /\ r1 \in Word /\ r2 \in Word /\ s \in State
  BY <1>1, UnitTypes, StageTypes DEF TypeOK
<1>3. s.regs[i.rs_1] = r1 /\ s.regs[i.rs_2] = r2
  <2>1. i.rs_1 \in Reg /\ i.rs_2 \in Reg /\ m_used_reg[i.rs_1] = 0 /\ m_used_reg[i.rs_2] = 0
    BY <1>2 DEF Insn, issue, id_valid_out
  <2>2. QED
    BY <1>1, <2>1, SourceReady
<1>4. /\ NextPc = id.pc /\ i = prog[id.pc]
      /\ NextPc' = IF (i.opcode = "BRANCH" /\ Taken(i.fn, r1, r2)) \/ m_pc_jump_en(i)
                   THEN Plus(IF i.opcode = "JALR" THEN r1 ELSE id.pc, i.imm)
                   ELSE Plus(id.pc, 4)
  BY IssuePc
<1>5. s' = Effect(s, i, IssuedResult, r2)
  BY AfterExStep
<1>6. Machine!insn = i /\ Machine!src1 = r1 /\ Machine!src2 = r2 /\ prog' = prog
  BY <1>1, <1>3, <1>4 DEF Machine!insn, Machine!src1, Machine!src2, Clock
<1>7. i.opcode \in Opcodes
  BY <1>2 DEF Insn
<1>8. m_alu_op(i) = "ADD" => IssuedArgs.a \in Word /\ IssuedArgs.b \in Word
  BY <1>2, WordFacts DEF IssuedArgs, ialu_arg_1, ialu_arg_2, Insn
<1>9. m_alu_op(i) = "ADD" /\ m_alu_en(i) =>
        IssuedResult = Plus(IssuedArgs.a, IssuedArgs.b)
  BY <1>8, AddAssumption DEF IssuedResult
<1>10. CASE i.opcode = "OP"
  <2>1. IssuedResult = Alu(i.fn, r1, r2)
    BY <1>10 DEF IssuedResult, IssuedArgs, m_alu_en, m_alu_op, ialu_arg_1, ialu_arg_2
  <2>2. Machine!Op
    BY <1>4, <1>5, <1>6, <1>10, <2>1, SameArchitecture
       DEF Machine!Op, Machine!Compute, Effect, Complete, m_reg_write, m_mem_to_reg,
           m_is_store, m_pc_jump_en
  <2>3. QED
    BY <1>6, <2>2 DEF Machine!Next
<1>11. CASE i.opcode = "MULDIV"
  <2>1. IssuedResult = Mdu(i.fn, r1, r2)
    BY <1>11 DEF IssuedResult, IssuedArgs, m_alu_en, m_alu_op, ialu_arg_1, ialu_arg_2
  <2>2. Machine!MulDiv
    BY <1>4, <1>5, <1>6, <1>11, <2>1, SameArchitecture
       DEF Machine!MulDiv, Machine!Compute, Effect, Complete, m_reg_write, m_mem_to_reg,
           m_is_store, m_pc_jump_en
  <2>3. QED
    BY <1>6, <2>2 DEF Machine!Next
<1>12. CASE i.opcode = "OP_IMM"
  <2>1. IssuedResult = Alu(i.fn, r1, i.imm)
    BY <1>12 DEF IssuedResult, IssuedArgs, m_alu_en, m_alu_op, ialu_arg_1, ialu_arg_2
  <2>2. Machine!OpImm
    BY <1>4, <1>5, <1>6, <1>12, <2>1, SameArchitecture
       DEF Machine!OpImm, Machine!Compute, Effect, Complete, m_reg_write, m_mem_to_reg,
           m_is_store, m_pc_jump_en
  <2>3. QED
    BY <1>6, <2>2 DEF Machine!Next
<1>13. CASE i.opcode = "LUI"
  <2>1. IssuedResult = i.imm
    BY <1>2, <1>9, <1>13, ZeroPlus DEF IssuedArgs, m_alu_en, m_alu_op, ialu_arg_1, ialu_arg_2, Insn
  <2>2. Machine!Lui
    BY <1>4, <1>5, <1>6, <1>13, <2>1, SameArchitecture
       DEF Machine!Lui, Machine!Compute, Effect, Complete, m_reg_write, m_mem_to_reg,
           m_is_store, m_pc_jump_en
  <2>3. QED
    BY <1>6, <2>2 DEF Machine!Next
<1>14. CASE i.opcode = "AUIPC"
  <2>1. IssuedResult = Plus(id.pc, i.imm)
    BY <1>9, <1>14 DEF IssuedArgs, m_alu_en, m_alu_op, ialu_arg_1, ialu_arg_2
  <2>2. Machine!Auipc
    BY <1>4, <1>5, <1>6, <1>14, <2>1, SameArchitecture
       DEF Machine!Auipc, Machine!Compute, Effect, Complete, m_reg_write, m_mem_to_reg,
           m_is_store, m_pc_jump_en
  <2>3. QED
    BY <1>6, <2>2 DEF Machine!Next
<1>15. CASE i.opcode = "LOAD"
  <2>1. IssuedResult = Plus(r1, i.imm)
    BY <1>9, <1>15 DEF IssuedArgs, m_alu_en, m_alu_op, ialu_arg_1, ialu_arg_2
  <2>2. Machine!Load
    BY <1>4, <1>5, <1>6, <1>15, <2>1, SameArchitecture
       DEF Machine!Load, Machine!Compute, Effect, Complete, m_reg_write, m_mem_to_reg,
           m_is_store, m_pc_jump_en
  <2>3. QED
    BY <1>6, <2>2 DEF Machine!Next
<1>16. CASE i.opcode = "STORE"
  <2>1. IssuedResult = Plus(r1, i.imm)
    BY <1>9, <1>16 DEF IssuedArgs, m_alu_en, m_alu_op, ialu_arg_1, ialu_arg_2
  <2>2. Machine!Store
    BY <1>4, <1>5, <1>6, <1>16, <2>1, SameArchitecture
       DEF Machine!Store, Effect, Complete, m_reg_write, m_mem_to_reg,
           m_is_store, m_pc_jump_en
  <2>3. QED
    BY <1>6, <2>2 DEF Machine!Next
<1>17. CASE i.opcode = "BRANCH"
  <2>1. Machine!Branch
    BY <1>4, <1>5, <1>6, <1>17, SameArchitecture
       DEF Machine!Branch, Effect, Complete, m_reg_write, m_is_store, m_pc_jump_en
  <2>2. QED
    BY <1>6, <2>1 DEF Machine!Next
<1>18. CASE i.opcode = "JAL"
  <2>1. IssuedResult = Plus(id.pc, 4)
    BY <1>9, <1>18 DEF IssuedArgs, m_alu_en, m_alu_op, ialu_arg_1, ialu_arg_2
  <2>2. Machine!Jal
    BY <1>4, <1>5, <1>6, <1>18, <2>1, SameArchitecture
       DEF Machine!Jal, Machine!Jump, Effect, Complete, m_reg_write, m_mem_to_reg,
           m_is_store, m_pc_jump_en
  <2>3. QED
    BY <1>6, <2>2 DEF Machine!Next
<1>19. CASE i.opcode = "JALR"
  <2>1. IssuedResult = Plus(id.pc, 4)
    BY <1>9, <1>19 DEF IssuedArgs, m_alu_en, m_alu_op, ialu_arg_1, ialu_arg_2
  <2>2. Machine!Jalr
    BY <1>4, <1>5, <1>6, <1>19, <2>1, SameArchitecture
       DEF Machine!Jalr, Machine!Jump, Effect, Complete, m_reg_write, m_mem_to_reg,
           m_is_store, m_pc_jump_en
  <2>3. QED
    BY <1>6, <2>2 DEF Machine!Next
<1>20. CASE i.opcode = "OTHER"
  <2>1. Machine!Other
    BY <1>4, <1>5, <1>6, <1>20, SameArchitecture
       DEF Machine!Other, Effect, Complete, m_reg_write, m_is_store, m_pc_jump_en
  <2>2. QED
    BY <1>6, <2>1 DEF Machine!Next
<1>21. QED
  BY <1>7, <1>10, <1>11, <1>12, <1>13, <1>14, <1>15, <1>16, <1>17, <1>18, <1>19, <1>20
     DEF Opcodes

-----------------------------------------------------------------------------
(* The refinement.                                                           *)
LEMMA RefinementInit == Init => Machine!Init
<1> SUFFICES ASSUME Init PROVE Machine!Init
  OBVIOUS
<1>1. NextPc = 0
  BY PipelineAssumption DEF Init, NextPc, Redirects, ex_busy
<1>2. AfterEx = [regs |-> regs, mem |-> ram]
  BY DEF Init, AfterEx, AfterMem, AfterWb, ex_busy
<1>3. QED
  BY <1>1, <1>2 DEF Init, Machine!Init, Machine!Reg, Reg, Machine!WordAddr, WordAddr,
                    Machine!Word, Word, Machine!Align, Align

LEMMA RefInvInit == Init => RefInv
<1>1. SUFFICES ASSUME Init PROVE RefInv
  OBVIOUS
<1>2. Inv
  BY <1>1, InitInv
<1>3. PortInv
  BY <1>1, <1>2
     DEF Inv, Init, PortInv, CoreInv, ReqHeld, HaltInv, CommandInv, ResponseOwned,
         WbAwaits, MemAwaits, lsu_ack, Bit
<1>4. FetchInv /\ RedirectPending /\ DebugInv /\ HaltWanted
  BY <1>1 DEF Init, FetchInv, RedirectPending, DebugInv, DebugAckOwned, HaltWanted
<1>5. QED
  BY <1>2, <1>3, <1>4 DEF RefInv

LEMMA HaltWantedStep ==
  ASSUME CommandInv, HaltWanted, NEW b \in SUBSET Buttons,
         NEW i_grant, NEW d_grant, Clock(b, i_grant, d_grant)
  PROVE  HaltWanted'
BY DEF CommandInv, HaltWanted, Clock, HaltEdge, halt_req

LEMMA RefInvStep == ASSUME Environment, RefInv, [Next]_vars PROVE RefInv'
<1>1. Inv' /\ PortInv' /\ RedirectPending'
  BY NextInv, PortInvStep, RedirectInvStep DEF Environment, RefInv, Inv
<1>2. CASE UNCHANGED vars
  <2>1. UNCHANGED <<prog, fetch_regs, decode_regs, halt_regs, ports, debugger, mem_regs>>
    BY <1>2 DEF vars
  <2>2. FetchInv' /\ HaltWanted'
    BY <2>1 DEF RefInv, FetchInv, HaltWanted, fetch_regs, decode_regs, halt_regs, ports
  <2>3. DebugInv'
    BY <2>1 DEF RefInv, DebugInv, DebugAckOwned, DebugRequests, mem_debug_ack, m_is_halted,
                fetch_regs, mem_regs, halt_regs, ports, debugger
  <2>4. QED
    BY <1>1, <2>2, <2>3 DEF RefInv
<1>3. CASE Next
  <2>1. PICK b \in SUBSET Buttons, i_grant \in BOOLEAN, d_grant \in BOOLEAN :
          Clock(b, i_grant, d_grant)
    BY <1>3 DEF Next
  <2>2. FetchInv'
    BY <2>1, FetchStep DEF RefInv, Inv
  <2>3. HaltWanted'
    BY <2>1, HaltWantedStep DEF RefInv, PortInv
  <2>4. DebugInv'
    BY <1>1, <2>1, DebugStep DEF Environment, DebuggerReads, WritesMemory, RefInv, Inv, PortInv
  <2>5. QED
    BY <1>1, <2>2, <2>3, <2>4 DEF RefInv
<1>4. QED
  BY <1>2, <1>3

LEMMA RefinementStep ==
  ASSUME Environment, RefInv, RefInv', [Next]_vars PROVE [Machine!Next]_Machine!vars
<1>1. CASE UNCHANGED vars
  <2>1. UNCHANGED prog
    BY <1>1 DEF vars
  <2>2. UNCHANGED NextPc
    BY <1>1 DEF vars, fetch_regs, decode_regs, exec_regs, NextPc, Redirects, ex_busy,
                pc_branch, m_pc_jump_en
  <2>3. UNCHANGED AfterWb
    BY <1>1 DEF vars, fetch_regs, decode_regs, mem_regs, wb_regs, halt_regs, ports, AfterWb,
                Loaded, resp_valid, resp_data, lsu_ack, m_is_halted, Complete
  <2>4. UNCHANGED AfterMem
    BY <1>1, <2>3 DEF vars, fetch_regs, mem_regs, halt_regs, ports, AfterMem,
                Loaded, MemAwaits, resp_valid, resp_data, lsu_ack, m_is_halted, Complete
  <2>5. UNCHANGED AfterEx
    BY <1>1, <2>4 DEF vars, exec_regs, AfterEx, ex_busy, ex_result, ex_res, Loaded, Complete
  <2>6. QED
    BY <2>1, <2>2, <2>5 DEF Machine!vars
<1>2. CASE Next
  <2>1. PICK b \in SUBSET Buttons, i_grant \in BOOLEAN, d_grant \in BOOLEAN :
          Edge(b, i_grant, d_grant)
    BY <1>2 DEF Next, Edge
  <2>2. CASE issue
    BY <2>1, <2>2, IssueStep
  <2>3. CASE ~issue
    <3>1. UNCHANGED <<prog, NextPc, AfterEx>>
      BY <2>1, <2>3, NextPcStep, AfterExStep DEF Edge, Clock
    <3>2. QED
      BY <3>1 DEF Machine!vars
  <2>4. QED
    BY <2>2, <2>3
<1>3. QED
  BY <1>1, <1>2

(* Every behaviour of the pipeline is a sequential execution of its program: *)
(* no stale operand, no wrong-path effect, no instruction lost or repeated,  *)
(* whatever the memories' latency and whenever the core is halted.           *)
THEOREM PipelineImplementsIsa == ASSUME Environment PROVE Spec => ImplementsIsa
<1>1. RefInv /\ RefInv' /\ [Next]_vars => [Machine!Next]_Machine!vars
  BY RefinementStep
<1>2. Init => RefInv
  BY RefInvInit
<1>3. RefInv /\ [Next]_vars => RefInv'
  BY RefInvStep
<1>4. QED
  BY <1>1, <1>2, <1>3, RefinementInit, PTL DEF Spec, ImplementsIsa, Machine!Spec
=============================================================================
