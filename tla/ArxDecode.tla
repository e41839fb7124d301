------------------------------ MODULE ArxDecode ------------------------------
(***************************************************************************)
(* The decode table of InsnDecodeStage: the control signals each            *)
(* instruction travels down the pipeline with.  A signal is an operator on  *)
(* the instruction; the table's defaults are its ELSE cases.                *)
(***************************************************************************)
EXTENDS ArxArch

m_reg_write(i)  == i.opcode \in {"OP", "MULDIV", "OP_IMM", "LOAD", "JAL", "JALR", "LUI", "AUIPC"}
m_mem_to_reg(i) == i.opcode = "LOAD"
m_mem_op(i)     == i.opcode \in {"LOAD", "STORE"}
m_is_store(i)   == i.opcode = "STORE"          \* m_mem_op_type is a STORE_*
m_pc_jump_en(i) == i.opcode \in {"JAL", "JALR"}
m_pc_reg_imm(i) == i.opcode = "JALR"           \* BRANCH_REG_IMM
m_mdu_en(i)     == i.opcode = "MULDIV"
m_alu_en(i)     == i.opcode # "MULDIV"

(* Arithmetic, compare and branch opcodes name their function, the others   *)
(* add.                                                                      *)
m_alu_op(i) == IF i.opcode \in {"OP", "OP_IMM", "BRANCH"} THEN i.fn ELSE "ADD"

(* Operand multiplexers of ExecStage, from m_alu_src_1 and m_alu_src_2.      *)
ialu_arg_1(i, pc, rs1) ==
  CASE i.opcode = "LUI" -> 0
    [] i.opcode \in {"JAL", "JALR", "AUIPC"} -> pc
    [] OTHER -> rs1

ialu_arg_2(i, rs2) ==
  CASE i.opcode \in {"OP_IMM", "LOAD", "STORE", "LUI", "AUIPC"} -> i.imm
    [] i.opcode \in {"JAL", "JALR"} -> 4
    [] OTHER -> rs2
=============================================================================
