------------------------------- MODULE ArxArch -------------------------------
(***************************************************************************)
(* What the architecture of ArxCore and its pipeline have in common: words, *)
(* registers, decoded instructions and the arithmetic of the functional     *)
(* units, which is a parameter here and the subject of ArxAlu and ArxDiv.   *)
(*                                                                          *)
(* The real core has XLEN = 32 and 32 registers.  Size stands for 2^XLEN:   *)
(* it is any multiple of 4 above 4, so that pc + 4 keeps the alignment.      *)
(***************************************************************************)
EXTENDS Integers

CONSTANTS
  Size,           \* number of words, 2^XLEN
  NumRegs,        \* number of registers, 32 in the core
  Funcs,          \* names of the operations of the ALU and of the MDU
  Alu(_, _, _),   \* result of the integer ALU
  Taken(_, _, _), \* its branch_en output
  Mdu(_, _, _),   \* result of the multiplier and of the divider
  Devices         \* word addresses where a store has a side effect

Word == 0 .. Size - 1
Reg  == 0 .. NumRegs - 1

ASSUME SizeAssumption == Size \in Nat /\ Size > 4 /\ Size % 4 = 0
ASSUME RegAssumption == NumRegs \in Nat \ {0}
ASSUME UnitAssumption ==
  \A f \in Funcs, a, b \in Word :
    /\ Alu(f, a, b) \in Word
    /\ Taken(f, a, b) \in BOOLEAN
    /\ Mdu(f, a, b) \in Word

Plus(a, b) == (a + b) % Size

(* IALU_ADD, the ALU's operation in every instruction that names no other:   *)
(* it adds, and its branch_en is low.                                        *)
ASSUME AddAssumption ==
  /\ "ADD" \in Funcs
  /\ \A a, b \in Word : Alu("ADD", a, b) = Plus(a, b) /\ ~Taken("ADD", a, b)

Align(a)   == a - (a % 4)        \* {addr[31:2], 2'b00}

(* The opcodes InsnDecodeStage distinguishes; the R-type opcode is two      *)
(* names, MULDIV being the one with funct_7 = 1.                             *)
Opcodes == {"OP", "MULDIV", "OP_IMM", "LOAD", "STORE", "BRANCH",
            "JAL", "JALR", "LUI", "AUIPC", "OTHER"}

(* An instruction as InsnDecoder splits it.  The register fields exist in   *)
(* every format (they may be bits of an immediate), fn is what funct_3 and  *)
(* funct_7 select, imm the immediate of the format.                         *)
Insn == [opcode : Opcodes, fn : Funcs, rd : Reg, rs_1 : Reg, rs_2 : Reg, imm : Word]

WordAddr == {Align(w) : w \in Word}

ASSUME DeviceAssumption == Devices \subseteq WordAddr

(* A store into the memory m.  The devices behind the interconnect (the UART *)
(* transmitter for one) act on every write they are shown: their word        *)
(* accumulates, so that a repeated store is visible.                         *)
Stored(m, a, v) ==
  [m EXCEPT ![a] = IF a \in Devices THEN Plus(@, v) ELSE v]

WriteReg(r, rd, v) == IF rd = 0 THEN r ELSE [r EXCEPT ![rd] = v]
=============================================================================
