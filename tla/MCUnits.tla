------------------------------- MODULE MCUnits --------------------------------
(***************************************************************************)
(* The units that compute: the divider; the ALU and the multiplier, which   *)
(* are functions of the operands shown to them; and the load/store unit.     *)
(* They have no state in common, so a behaviour is one of a single unit      *)
(* while the others stay in reset.                                          *)
(***************************************************************************)
EXTENDS ArxDiv

CONSTANTS
  ALU_XLEN, SHIFT_WIDTH,         \* of ArxAlu
  Words, ByteSize, StoreData     \* of ArxLsu
VARIABLES unit, operands, held, req_mem_op_ff, req_addr_ff, ram, ack, q
lsu_vars == <<held, req_mem_op_ff, req_addr_ff, ram, ack, q>>

Alu == INSTANCE ArxAlu WITH XLEN <- ALU_XLEN
Lsu == INSTANCE ArxLsu

(* Bytes of either sign in every lane.                                       *)
MCStoreData == {[l \in 0 .. 3 |-> l % 2], [l \in 0 .. 3 |-> 1 - l \div 2]}

ASSUME UnitsAssumption ==
  /\ ALU_XLEN \in Nat \ {0}
  /\ Words \in Nat \ {0}
  /\ ByteSize \in Nat /\ ByteSize > 0 /\ ByteSize % 2 = 0
  /\ StoreData \subseteq [0 .. 3 -> 0 .. ByteSize - 1]

Operations == [op : Alu!AluOps \cup Alu!MulOps, a : Alu!Word, b : Alu!Word]

UnitsInit ==
  /\ Init /\ Lsu!Init /\ unit \in {"div", "alu", "lsu"}
  /\ operands \in IF unit = "alu" THEN Operations ELSE {[op |-> "ADD", a |-> 0, b |-> 0]}
UnitsNext ==
  /\ \/ unit = "div" /\ Next /\ UNCHANGED lsu_vars
     \/ unit = "lsu" /\ Lsu!Next /\ UNCHANGED vars
     \/ unit = "alu" /\ UNCHANGED <<vars, lsu_vars>>
  /\ UNCHANGED <<unit, operands>>
UnitsSpec == UnitsInit /\ [][UnitsNext]_<<vars, lsu_vars, unit, operands>>

-----------------------------------------------------------------------------
(* Comparisons, branches and products are those of the integers (ArxAlu).    *)
ComputesRight ==
  IF operands.op \in Alu!MulOps
  THEN Alu!MultipliesRight(operands.op, operands.a, operands.b)
  ELSE Alu!ComparesRight(operands.op, operands.a, operands.b)

(* Loads and stores of every size and alignment, delayed or back to back,    *)
(* are those of an array of bytes (ArxLsu).                                  *)
ImplementsBytes == Lsu!ImplementsBytes
=============================================================================
