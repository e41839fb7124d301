---------------------------- MODULE ArxRefinement ----------------------------
(***************************************************************************)
(* The pipeline implements ArxIsa.  An instruction counts as executed from  *)
(* the clock edge at which decode issues it: the abstract state is the one  *)
(* reached when the instructions in write back, memory and execute complete *)
(* in that order, with the values the pipeline already holds for them.      *)
(***************************************************************************)
EXTENDS ArxPipeline

(* The effect of one instruction whose unit result is res; performed says    *)
(* that the port has already carried its store out.                          *)
Complete(s, i, res, store_data, loaded, performed) ==
  [regs |-> IF m_reg_write(i)
            THEN WriteReg(s.regs, i.rd, IF m_mem_to_reg(i) THEN loaded ELSE res)
            ELSE s.regs,
   mem  |-> IF m_is_store(i) /\ ~performed
            THEN Stored(s.mem, Align(res), store_data) ELSE s.mem]

(* What a load will receive: the response if it is already there, otherwise  *)
(* the memory as its elders leave it.                                        *)
Loaded(s, addr, answered) == IF answered THEN resp_data ELSE s.mem[Align(addr)]

AfterWb ==
  LET s == [regs |-> regs, mem |-> ram] IN
  IF wb_valid
  THEN Complete(s, wb.insn, wb.alu, req.data, Loaded(s, wb.alu, resp_valid), resp_valid)
  ELSE s

AfterMem ==
  LET s == AfterWb IN
  IF mem_valid
  THEN Complete(s, mem.insn, mem.alu, mem.rs2, Loaded(s, mem.alu, MemAwaits /\ resp_valid),
                MemAwaits /\ resp_valid)
  ELSE s

ex_result == IF div.cnt > 0 THEN div.quot ELSE ex_res

AfterEx ==
  LET s == AfterMem IN
  IF ex_busy
  THEN Complete(s, ex.insn, ex_result, ex.rs2, Loaded(s, ex_result, FALSE), FALSE)
  ELSE s

(* The next instruction to execute: behind the branch or jump in execute,    *)
(* else the one decode holds, else the fetch's.                              *)
Redirects == ex_busy /\ (alu.branch_en \/ m_pc_jump_en(ex.insn))
NextPc ==
  IF Redirects THEN pc_branch
  ELSE IF m_valid THEN id.pc
  ELSE IF pc_we_buf THEN pc_in_buf ELSE pc

Machine == INSTANCE ArxIsa WITH pc <- NextPc, regs <- AfterEx.regs, mem <- AfterEx.mem

(* Every behaviour of the pipeline, with any memory latency, is a sequential *)
(* execution of the program: no stale operand, no wrong-path effect, no lost *)
(* or repeated instruction.                                                  *)
ImplementsIsa == Machine!Spec
=============================================================================
