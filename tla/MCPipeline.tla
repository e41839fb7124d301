------------------------------ MODULE MCPipeline ------------------------------
(***************************************************************************)
(* Instances of the pipeline for TLC: four-bit words, so that the program   *)
(* counter and the arithmetic wrap, three registers, programs of four       *)
(* instructions that run round the address space for ever.                  *)
(***************************************************************************)
EXTENDS ArxRefinement, Sequences, TLC

MCFuncs == {"ADD", "EQ", "NEQ", "MUL", "DIV"}
MCAlu(f, a, b)   == IF f = "ADD" THEN (a + b) % Size ELSE b
MCTaken(f, a, b) == CASE f = "EQ" -> a = b [] f = "NEQ" -> a # b [] OTHER -> FALSE
MCMdu(f, a, b)   == CASE f = "MUL" -> (a * b) % Size
                      [] f = "DIV" /\ b # 0 -> a \div b
                      [] OTHER -> Size - 1

I(op, fn, rd, rs1, rs2, imm) ==
  [opcode |-> op, fn |-> fn, rd |-> rd, rs_1 |-> rs1, rs_2 |-> rs2, imm |-> imm]

(* The program that repeats the instructions of s through the address space. *)
Code(s) == [a \in Word |-> s[((a \div 4) % Len(s)) + 1]]

Addi(rd, rs, n)   == I("OP_IMM", "ADD", rd, rs, 0, n)
Add(rd, rs1, rs2) == I("OP", "ADD", rd, rs1, rs2, 0)
Div(rd, rs1, rs2) == I("MULDIV", "DIV", rd, rs1, rs2, 0)
Mul(rd, rs1, rs2) == I("MULDIV", "MUL", rd, rs1, rs2, 0)
Lw(rd, rs, n)     == I("LOAD", "ADD", rd, rs, 0, n)
Sw(rs2, rs1, n)   == I("STORE", "ADD", 0, rs1, rs2, n)
Bne(a, b, n)      == I("BRANCH", "NEQ", 0, a, b, n)
Beq(a, b, n)      == I("BRANCH", "EQ", 0, a, b, n)
Jal(rd, n)        == I("JAL", "ADD", rd, 0, 0, n)
Jalr(rd, rs, n)   == I("JALR", "ADD", rd, rs, 0, n)
Lui(rd, n)        == I("LUI", "ADD", rd, 1, 2, n)
Auipc(rd, n)      == I("AUIPC", "ADD", rd, 2, 1, n)
Fence             == I("OTHER", "ADD", 0, 0, 0, 0)

(* Read after write through memory, write after write, a store and the load  *)
(* of its word, taken and untaken branches over stores, calls and returns,   *)
(* the multiplier and the divider followed by a user of their result or by   *)
(* an independent instruction, a load and the branch that tests it.          *)
MCPrograms ==
  {Code(p) : p \in {
    <<Addi(1, 0, 5), Sw(1, 0, 4), Lw(2, 0, 4), Add(1, 2, 1)>>,
    <<Lw(1, 0, 0), Addi(1, 1, 1), Sw(1, 0, 0), Lw(1, 0, 8)>>,
    <<Addi(1, 1, 1), Bne(1, 2, 8), Sw(1, 0, 0), Beq(1, 1, 4)>>,
    <<Jal(1, 8), Sw(1, 0, 8), Jalr(2, 1, 8), Addi(1, 1, 3)>>,
    <<Addi(2, 2, 7), Div(1, 2, 1), Mul(1, 1, 2), Sw(1, 0, 4)>>,
    <<Addi(2, 0, 7), Div(1, 2, 2), Lw(1, 0, 4), Sw(2, 0, 4)>>,
    <<Div(2, 1, 0), Mul(1, 0, 0), Lw(1, 0, 4), Beq(1, 0, 4)>>,
    <<Lui(1, 12), Auipc(1, 4), Lw(2, 1, 4), Sw(2, 1, 0)>>,
    <<Addi(1, 0, 3), Sw(1, 0, 8), Sw(1, 0, 0), Lw(2, 0, 8)>>,
    <<Fence, Lw(2, 2, 4), Addi(0, 2, 1), Sw(0, 2, 4)>>}}

(* Programs whose values do not grow, for the runs in which halts multiply   *)
(* the states.                                                               *)
MCHaltPrograms ==
  {Code(p) : p \in {
    <<Addi(1, 0, 5), Sw(1, 0, 4), Lw(2, 0, 4), Bne(1, 2, 8)>>,
    <<Jal(1, 8), Sw(1, 0, 8), Jalr(2, 1, 8), Addi(1, 0, 3)>>,
    <<Div(1, 0, 2), Sw(1, 0, 4), Jal(0, 4), Lw(2, 0, 4)>>}}
=============================================================================
