-------------------------------- MODULE ArxAlu --------------------------------
(***************************************************************************)
(* The single-cycle functional units, IALU and IMUL: what they compute from *)
(* their operands with borrows, sign bits and wide products, against the    *)
(* integers the instructions are about.                                     *)
(*                                                                          *)
(* Pure functions of the operands: the units' valid/ready registers are part *)
(* of ArxPipeline.  The core has XLEN = 32.                                  *)
(***************************************************************************)
EXTENDS Integers

CONSTANTS
  XLEN,        \* width of the operands, a power of two
  SHIFT_WIDTH  \* $clog2(XLEN), the bits of the shift amount that count

Size == 2 ^ XLEN
Word == 0 .. Size - 1

BranchOps  == {"EQ", "NEQ", "LT", "LTU", "GE", "GEU"}
AluOps     == {"ADD", "SUB", "XOR", "OR", "AND", "SLT", "SLTU", "SLL", "SRL", "SRA", "ARG2"}
                \cup BranchOps
MulOps     == {"MUL", "MULH", "MULHSU", "MULHU"}

Msb(x)    == x >= Size \div 2
Signed(x) == IF Msb(x) THEN x - Size ELSE x

-----------------------------------------------------------------------------
(* IALU *)
is_op_signed(op) == op \notin {"LTU", "GEU", "SLTU"}

(* Sum or difference one bit wider than the operands: its top bit is the     *)
(* carry, or the borrow of a subtraction.                                    *)
sumsub(op, a, b) == (IF op = "ADD" THEN a + b ELSE a - b) % (2 * Size)
carry_out(op, a, b) == sumsub(op, a, b) >= Size
(* The word whose bits are those of the operands, combined one by one.       *)
Bit(x, i) == (x \div 2 ^ i) % 2
bitop(op, x, y) ==
  CASE op = "AND" -> x * y
    [] op = "OR"  -> IF x = 1 THEN 1 ELSE y
    [] OTHER      -> IF x = y THEN 0 ELSE 1
bitop_res(op, a, b) ==
  CHOOSE r \in Word : \A i \in 0 .. XLEN - 1 : Bit(r, i) = bitop(op, Bit(a, i), Bit(b, i))

shift(b) == b % (2 ^ SHIFT_WIDTH)
shift_res(op, a, b) ==
  CASE op = "SLL" -> (a * 2 ^ shift(b)) % Size
    [] op = "SRL" -> a \div 2 ^ shift(b)
    [] OTHER      -> (Signed(a) \div 2 ^ shift(b)) % Size

neq_res(op, a, b) == bitop_res(op, a, b) # 0
Bug_lt_res(op, a, b) ==
  IF Msb(a) = Msb(b) THEN carry_out(op, a, b) ELSE Msb(a)
lt_res(op, a, b) ==
  IF Msb(a) = Msb(b) THEN carry_out(op, a, b) ELSE Msb(a) = is_op_signed(op)

m_res(op, a, b) ==
  CASE op \in {"ADD", "SUB"}        -> sumsub(op, a, b) % Size
    [] op \in {"AND", "XOR", "OR"}  -> bitop_res(op, a, b)
    [] op \in {"SLL", "SRL", "SRA"} -> shift_res(op, a, b)
    [] op \in {"SLT", "SLTU"}       -> IF lt_res(op, a, b) THEN 1 ELSE 0
    [] OTHER                        -> b

m_branch_en(op, a, b) ==
  CASE op = "EQ"            -> ~neq_res(op, a, b)
    [] op = "NEQ"           -> neq_res(op, a, b)
    [] op \in {"LT", "LTU"} -> lt_res(op, a, b)
    [] op \in {"GE", "GEU"} -> ~lt_res(op, a, b)
    [] OTHER                -> FALSE

(* IMUL: each operand gets a sign bit of its own, so that one signed         *)
(* multiplier serves the four operations.                                    *)
mul_op_a(op, a) == IF op \in {"MUL", "MULH", "MULHSU"} THEN Signed(a) ELSE a
mul_op_b(op, b) == IF op \in {"MUL", "MULH"} THEN Signed(b) ELSE b
mul_result_wide(op, a, b) == (mul_op_a(op, a) * mul_op_b(op, b)) % (4 * Size * Size)
mul_result(op, a, b) ==
  IF op = "MUL" THEN mul_result_wide(op, a, b) % Size
                ELSE (mul_result_wide(op, a, b) \div Size) % Size

-----------------------------------------------------------------------------
(* The comparisons, which the unit derives from a borrow and two sign bits,  *)
(* are those of the integers the operands stand for; a branch and the SLT of *)
(* the same comparison never disagree.                                       *)
ComparesRight(op, a, b) ==
  LET less == CASE op \in {"LT", "GE", "SLT"}    -> Signed(a) < Signed(b)
                [] op \in {"LTU", "GEU", "SLTU"} -> a < b
                [] OTHER                         -> a # b
  IN  /\ op \in {"SLT", "SLTU"} => m_res(op, a, b) = (IF less THEN 1 ELSE 0)
      /\ op \in {"NEQ", "LT", "LTU"} => m_branch_en(op, a, b) = less
      /\ op \in {"EQ", "GE", "GEU"} => m_branch_en(op, a, b) = ~less
      /\ op \notin BranchOps => ~m_branch_en(op, a, b)

(* The low and high words of the four multiplications are those of the       *)
(* product of the integers the operands stand for.                           *)
MultipliesRight(op, a, b) ==
  LET x == IF op = "MULHU" THEN a ELSE Signed(a)
      y == IF op \in {"MULHU", "MULHSU"} THEN b ELSE Signed(b)
  IN  mul_result(op, a, b) = (IF op = "MUL" THEN x * y ELSE (x * y) \div Size) % Size
=============================================================================
