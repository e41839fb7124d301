-------------------------------- MODULE ArxIsa --------------------------------
(***************************************************************************)
(* What ArxCore promises: a machine that executes one RV32IM instruction    *)
(* per step, in program order, on registers and memory.  Nothing here knows *)
(* of stages, hazards, memory latency, halting or resuming.  ArxPipeline is *)
(* shown to implement it.                                                   *)
(***************************************************************************)
EXTENDS ArxArch

CONSTANT Programs       \* the possible contents of the instruction memory

VARIABLES prog, pc, regs, mem
vars == <<prog, pc, regs, mem>>

insn == prog[pc]
src1 == regs[insn.rs_1]
src2 == regs[insn.rs_2]

Init ==
  /\ prog \in Programs
  /\ pc = 0
  /\ regs = [r \in Reg |-> 0]
  /\ mem = [a \in WordAddr |-> 0]

(* An instruction that only computes v into its destination register.       *)
Compute(v) ==
  /\ regs' = WriteReg(regs, insn.rd, v)
  /\ pc' = Plus(pc, 4)
  /\ UNCHANGED mem

Op     == insn.opcode = "OP"     /\ Compute(Alu(insn.fn, src1, src2))
MulDiv == insn.opcode = "MULDIV" /\ Compute(Mdu(insn.fn, src1, src2))
OpImm  == insn.opcode = "OP_IMM" /\ Compute(Alu(insn.fn, src1, insn.imm))
Lui    == insn.opcode = "LUI"    /\ Compute(insn.imm)
Auipc  == insn.opcode = "AUIPC"  /\ Compute(Plus(pc, insn.imm))
Load   == insn.opcode = "LOAD"   /\ Compute(mem[Align(Plus(src1, insn.imm))])

Store ==
  /\ insn.opcode = "STORE"
  /\ mem' = Stored(mem, Align(Plus(src1, insn.imm)), src2)
  /\ pc' = Plus(pc, 4)
  /\ UNCHANGED regs

Branch ==
  /\ insn.opcode = "BRANCH"
  /\ pc' = IF Taken(insn.fn, src1, src2) THEN Plus(pc, insn.imm) ELSE Plus(pc, 4)
  /\ UNCHANGED <<regs, mem>>

(* Jumps store the return address and continue at the target.               *)
Jump(target) ==
  /\ regs' = WriteReg(regs, insn.rd, Plus(pc, 4))
  /\ pc' = target
  /\ UNCHANGED mem

Jal  == insn.opcode = "JAL"  /\ Jump(Plus(pc, insn.imm))
Jalr == insn.opcode = "JALR" /\ Jump(Plus(src1, insn.imm))

(* FENCE, ECALL and every other opcode the decoder does not know.            *)
Other ==
  /\ insn.opcode = "OTHER"
  /\ pc' = Plus(pc, 4)
  /\ UNCHANGED <<regs, mem>>

Next ==
  /\ UNCHANGED prog
  /\ \/ Op \/ MulDiv \/ OpImm \/ Lui \/ Auipc
     \/ Load \/ Store \/ Branch \/ Jal \/ Jalr \/ Other

Spec == Init /\ [][Next]_vars
=============================================================================
