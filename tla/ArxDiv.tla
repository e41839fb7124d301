-------------------------------- MODULE ArxDiv --------------------------------
(***************************************************************************)
(* IDIV, the divider of the MDU: it divides absolute values by shift and    *)
(* subtract, one bit per clock edge, and restores the sign of the result.   *)
(* ArxPipeline abstracts these steps to a count down.                       *)
(*                                                                          *)
(* The core has XLEN = 32.  asked records the operation the unit accepted   *)
(* last; only properties read it.                                           *)
(***************************************************************************)
EXTENDS Integers

CONSTANTS
  XLEN,        \* width of the operands
  DIV_CYCLES   \* the initial count, 6'd33 in the core

ASSUME WidthAssumption == XLEN \in Nat /\ XLEN > 1 /\ DIV_CYCLES = XLEN + 1

Size == 2 ^ XLEN
Wide == 2 ^ (2 * XLEN)
Word == 0 .. Size - 1
Ops  == {"DIV", "DIVU", "REM", "REMU"}

VARIABLES cnt, valid_out, res_out, quotient, dividend_wide, divisor_wide,
          sign_res_reg, is_res_quotient_reg, asked

datapath == <<quotient, dividend_wide, divisor_wide, sign_res_reg, is_res_quotient_reg>>
vars == <<cnt, valid_out, res_out, datapath, asked>>

Negative(x) == x >= Size \div 2        \* the sign bit
Minus(x)    == (Size - x) % Size
Signed(x)   == IF Negative(x) THEN x - Size ELSE x

(* What IDIV derives from an operation's code and operands.                  *)
is_signed(op)       == op \in {"DIV", "REM"}
is_res_quotient(op) == op \in {"DIV", "DIVU"}
abs(op, x)          == IF is_signed(op) /\ Negative(x) THEN Minus(x) ELSE x
Bug_sign_res(op, a, b) == is_signed(op) /\ Negative(a) # Negative(b)
sign_res(op, a, b) ==
  CASE op = "DIV" -> Negative(a) # Negative(b)
    [] op = "REM" -> Negative(a)
    [] OTHER      -> FALSE

-----------------------------------------------------------------------------
busy == cnt # 0
ready_in(ready_out) == ~busy /\ (~valid_out \/ ready_out)

diff_wide == (dividend_wide - divisor_wide) % Wide
Bug_fits  == diff_wide > 0 /\ diff_wide < Wide \div 2
fits      == diff_wide < Wide \div 2
last      == cnt = 1
remainder == dividend_wide % Size
result ==
  LET abs_result == IF is_res_quotient_reg THEN quotient ELSE remainder
  IN  IF sign_res_reg THEN Minus(abs_result) ELSE abs_result

Init ==
  /\ cnt = 0 /\ valid_out = FALSE /\ res_out = 0
  /\ quotient = 0 /\ dividend_wide = 0 /\ divisor_wide = 0
  /\ sign_res_reg = FALSE /\ is_res_quotient_reg = FALSE
  /\ asked = [op |-> "DIVU", a |-> 0, b |-> 0]

(* An operation is accepted; a result that was waiting is handed over.       *)
Accept(op, a, b, ready_out) ==
  /\ ready_in(ready_out)
  /\ cnt' = DIV_CYCLES
  /\ quotient' = 0
  /\ dividend_wide' = abs(op, a)
  /\ divisor_wide' = abs(op, b) * (Size \div 2)
  /\ sign_res_reg' = sign_res(op, a, b)
  /\ is_res_quotient_reg' = is_res_quotient(op)
  /\ valid_out' = FALSE
  /\ asked' = [op |-> op, a |-> a, b |-> b]
  /\ UNCHANGED res_out

(* The result in the registers before the last shift becomes the output.     *)
Step ==
  /\ busy
  /\ cnt' = cnt - 1
  /\ divisor_wide' = divisor_wide \div 2
  /\ dividend_wide' = IF fits THEN diff_wide ELSE dividend_wide
  /\ quotient' = (2 * quotient + (IF fits THEN 1 ELSE 0)) % Size
  /\ valid_out' = (valid_out \/ last)
  /\ res_out' = IF last THEN result ELSE res_out
  /\ UNCHANGED <<sign_res_reg, is_res_quotient_reg, asked>>

(* The result is handed over and no operation is waiting.                    *)
Handover ==
  /\ ~busy
  /\ valid_out
  /\ valid_out' = FALSE
  /\ UNCHANGED <<cnt, res_out, datapath, asked>>

Next ==
  \/ \E op \in Ops, a, b \in Word, ready_out \in BOOLEAN : Accept(op, a, b, ready_out)
  \/ Step
  \/ Handover

Spec == Init /\ [][Next]_vars

-----------------------------------------------------------------------------
(* Every register keeps a value of its width.                                *)
TypeOK ==
  /\ cnt \in 0 .. DIV_CYCLES /\ valid_out \in BOOLEAN /\ res_out \in Word
  /\ quotient \in Word /\ dividend_wide \in 0 .. Wide - 1 /\ divisor_wide \in 0 .. Wide - 1
  /\ sign_res_reg \in BOOLEAN /\ is_res_quotient_reg \in BOOLEAN
  /\ asked \in [op : Ops, a : Word, b : Word]

(* Division as RISC-V and IMDU_tb.sv define it: it rounds towards zero, the  *)
(* remainder has the sign of the dividend, a division by zero gives all ones *)
(* and the dividend, the one overflow wraps.                                 *)
Abs(x) == IF x < 0 THEN -x ELSE x
Reference(op, a, b) ==
  LET x == IF is_signed(op) THEN Signed(a) ELSE a
      y == IF is_signed(op) THEN Signed(b) ELSE b
      q == (Abs(x) \div Abs(y)) * (IF (x < 0) # (y < 0) THEN -1 ELSE 1)
  IN  CASE b = 0 /\ is_res_quotient(op)  -> Size - 1
        [] b = 0 /\ ~is_res_quotient(op) -> a
        [] b # 0 /\ is_res_quotient(op)  -> q % Size
        [] OTHER                         -> (x - q * y) % Size

(* The result offered is the quotient or remainder of the operation the unit *)
(* accepted, for all operands but a negative dividend over zero (below).     *)
ResultRight ==
  LET negative_over_zero == asked.op = "DIV" /\ asked.b = 0 /\ Negative(asked.a)
  IN  valid_out /\ ~negative_over_zero => res_out = Reference(asked.op, asked.a, asked.b)

(* "Division by zero returns -1": the helper div_signed of IMDU_tb.sv says   *)
(* so of every signed dividend.                                              *)
DivisionByZeroIsMinusOne ==
  valid_out /\ asked.op = "DIV" /\ asked.b = 0 => res_out = Size - 1

(* The invariant of shift and subtract: after s steps what is left of the    *)
(* dividend, and the quotient bits found so far at their final weight, make  *)
(* up the dividend, and what is left is smaller than the last divisor tried. *)
(* So no step needs a bit above the word, and the steps end at the           *)
(* remainder.                                                                *)
ShiftSubtract ==
  LET s      == DIV_CYCLES - cnt
      weight == 2 ^ (XLEN - s)
      a      == abs(asked.op, asked.a)
      b      == abs(asked.op, asked.b)
  IN  busy =>
        /\ divisor_wide = (b * Size) \div (2 ^ (s + 1))
        /\ s <= XLEN => a = dividend_wide + quotient * b * weight
        /\ b # 0 => dividend_wide < b * weight
        /\ quotient < 2 ^ s
DatapathRight == TypeOK /\ ShiftSubtract
=============================================================================
