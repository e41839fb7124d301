----------------------------- MODULE ArxDivProofs -----------------------------
(***************************************************************************)
(* Theorems about ArxDiv, for operands of any width.  The powers of two     *)
(* behind the widths are counted as subsets of intervals: that 2^(m+n) is   *)
(* 2^m * 2^n says how the subsets of m + n elements are put together.       *)
(***************************************************************************)
EXTENDS ArxDiv, FiniteSets, FiniteSetTheorems, FunctionTheorems, TLAPS

-----------------------------------------------------------------------------
(* Powers of two and division                                                *)

(* There are n numbers from 1 to n.                                         *)
LEMMA Counted ==
  ASSUME NEW n \in Nat
  PROVE  IsFiniteSet(1 .. n) /\ Cardinality(1 .. n) = n
BY FS_Interval

(* A power of two is a positive integer.                                     *)
LEMMA PowerType ==
  ASSUME NEW n \in Nat
  PROVE  2 ^ n \in Nat \ {0}
<1>1. IsFiniteSet(1 .. n) /\ Cardinality(1 .. n) = n
  BY Counted
<1>2. IsFiniteSet(SUBSET (1 .. n)) /\ Cardinality(SUBSET (1 .. n)) = 2 ^ n
  BY <1>1, FS_SUBSET, Zenon
<1>3. SUBSET (1 .. n) # {}
  OBVIOUS
<1>. QED  BY <1>2, <1>3, FS_CardinalityType, FS_EmptySet, Zenon

(* The subsets of 1 .. m + n are the unions of a subset of the first m and   *)
(* a subset of the last n elements.                                          *)
LEMMA PowerSum ==
  ASSUME NEW m \in Nat, NEW n \in Nat
  PROVE  2 ^ (m + n) = 2 ^ m * 2 ^ n
<1>. DEFINE A == 1 .. m
            B == m + 1 .. m + n
            U == 1 .. m + n
            f == [X \in SUBSET U |-> <<X \cap A, X \cap B>>]
<1>1. A \subseteq U /\ B \subseteq U /\ A \cap B = {} /\ U = A \cup B
  OBVIOUS
<1>2. /\ IsFiniteSet(A) /\ Cardinality(A) = m
      /\ IsFiniteSet(B) /\ Cardinality(B) = n
      /\ IsFiniteSet(U) /\ Cardinality(U) = m + n
  <2>1. m + n \in Nat
    OBVIOUS
  <2>2. IsFiniteSet(B) /\ Cardinality(B) = n
    BY FS_Interval
  <2>. QED  BY <2>1, <2>2, Counted
<1>. HIDE DEF A, B, U
<1>3. /\ IsFiniteSet(SUBSET A) /\ Cardinality(SUBSET A) = 2 ^ m
      /\ IsFiniteSet(SUBSET B) /\ Cardinality(SUBSET B) = 2 ^ n
      /\ IsFiniteSet(SUBSET U) /\ Cardinality(SUBSET U) = 2 ^ (m + n)
  BY <1>2, FS_SUBSET, Zenon
<1>4. Cardinality((SUBSET A) \X (SUBSET B)) = 2 ^ m * 2 ^ n
  <2>1. Cardinality((SUBSET A) \X (SUBSET B)) = Cardinality(SUBSET A) * Cardinality(SUBSET B)
    BY <1>3, FS_Product, Zenon
  <2>. QED  BY <2>1, <1>3, Zenon
<1>5. f \in Injection(SUBSET U, (SUBSET A) \X (SUBSET B))
  <2>1. f \in [SUBSET U -> (SUBSET A) \X (SUBSET B)]
    OBVIOUS
  <2>2. ASSUME NEW X \in SUBSET U, NEW Y \in SUBSET U, f[X] = f[Y]
        PROVE  X = Y
    <3>1. X \cap A = Y \cap A /\ X \cap B = Y \cap B
      BY <2>2
    <3>. QED  BY <3>1, <1>1
  <2>. QED  BY <2>1, <2>2, Fun_IsInj, Zenon
<1>6. f \in Surjection(SUBSET U, (SUBSET A) \X (SUBSET B))
  <2>1. f \in [SUBSET U -> (SUBSET A) \X (SUBSET B)]
    OBVIOUS
  <2>2. ASSUME NEW p \in (SUBSET A) \X (SUBSET B)
        PROVE  \E X \in SUBSET U : f[X] = p
    <3>1. PICK Y \in SUBSET A, Z \in SUBSET B : p = <<Y, Z>>
      OBVIOUS
    <3>2. Y \cup Z \in SUBSET U
      BY <1>1
    <3>3. (Y \cup Z) \cap A = Y /\ (Y \cup Z) \cap B = Z
      BY <1>1
    <3>4. f[Y \cup Z] = p
      BY <3>1, <3>2, <3>3
    <3>. QED  BY <3>2, <3>4
  <2>. QED  BY <2>1, <2>2, Fun_IsSurj, Zenon
<1>7. ExistsBijection(SUBSET U, (SUBSET A) \X (SUBSET B))
  BY <1>5, <1>6, Zenon DEF ExistsBijection, Bijection
<1>8. Cardinality((SUBSET A) \X (SUBSET B)) = Cardinality(SUBSET U)
  BY <1>3, <1>7, FS_Bijection, Zenon
<1>. QED  BY <1>3, <1>4, <1>8, Zenon

(* A quotient and a remainder are found by multiplying back.                 *)
LEMMA DivMod ==
  ASSUME NEW x \in Nat, NEW m \in Nat \ {0}, NEW k \in Nat, NEW r \in Nat,
         x = k * m + r, r < m
  PROVE  x \div m = k /\ x % m = r
<1>. DEFINE q == x \div m
            t == x % m
<1>1. q \in Nat /\ t \in Nat /\ t < m /\ x = q * m + t
  OBVIOUS
<1>. HIDE DEF q, t
<1>2. ~(q < k)
  <2>. SUFFICES ASSUME q < k  PROVE FALSE
    OBVIOUS
  <2>1. (k - q - 1) * m >= 0
    BY <1>1
  <2>. QED  BY <2>1, <1>1
<1>3. ~(k < q)
  <2>. SUFFICES ASSUME k < q  PROVE FALSE
    OBVIOUS
  <2>1. (q - k - 1) * m >= 0
    BY <1>1
  <2>. QED  BY <2>1, <1>1
<1>4. q = k
  BY <1>1, <1>2, <1>3
<1>5. t = r
  BY <1>1, <1>4
<1>. QED  BY <1>4, <1>5 DEF q, t

(* Halving a quotient doubles the divisor.                                   *)
LEMMA DivTwice ==
  ASSUME NEW x \in Nat, NEW m \in Nat \ {0}
  PROVE  (x \div m) \div 2 = x \div (2 * m)
<1>. DEFINE q == x \div m
            p == q \div 2
            e == q % 2
            r == x % m
<1>1. q \in Nat /\ r \in Nat /\ r < m /\ x = q * m + r
  OBVIOUS
<1>. HIDE DEF q, r
<1>2. p \in Nat /\ e \in {0, 1} /\ q = 2 * p + e
  BY <1>1
<1>. HIDE DEF p, e
<1>3. e * m + r \in Nat /\ e * m + r < 2 * m
  <2>1. CASE e = 0
    BY <2>1, <1>1
  <2>2. CASE e = 1
    BY <2>2, <1>1
  <2>. QED  BY <1>2, <2>1, <2>2
<1>4. x = p * (2 * m) + (e * m + r)
  BY <1>1, <1>2
<1>5. x \div (2 * m) = p
  BY <1>2, <1>3, <1>4, DivMod
<1>. QED  BY <1>5 DEF p, q

-----------------------------------------------------------------------------
(* Words                                                                     *)

(* The double width holds the product of two words, and a word can be halved. *)
LEMMA Widths ==
  /\ Size \in Nat /\ Size >= 4 /\ Size \div 2 \in Nat
  /\ Size = 2 * (Size \div 2)
  /\ Wide = Size * Size
<1>1. XLEN \in Nat /\ XLEN - 1 \in Nat /\ XLEN - 2 \in Nat
  BY WidthAssumption
<1>2. Size = 2 ^ 2 * 2 ^ (XLEN - 2)
  <2>1. 2 + (XLEN - 2) = XLEN
    BY <1>1
  <2>2. 2 ^ (2 + (XLEN - 2)) = 2 ^ 2 * 2 ^ (XLEN - 2)
    BY <1>1, PowerSum
  <2>. QED  BY <2>1, <2>2 DEF Size
<1>3. 2 ^ (XLEN - 2) \in Nat \ {0}
  BY <1>1, PowerType
<1>4. Size = 4 * 2 ^ (XLEN - 2)
  BY <1>2
<1>5. Wide = Size * Size
  <2>1. 2 * XLEN = XLEN + XLEN
    BY <1>1
  <2>2. 2 ^ (XLEN + XLEN) = 2 ^ XLEN * 2 ^ XLEN
    BY <1>1, PowerSum
  <2>. QED  BY <2>1, <2>2 DEF Wide, Size
<1>. QED  BY <1>3, <1>4, <1>5

(* After s steps of a division the weight of a quotient bit and the quotients  *)
(* so far divide the word between them.                                      *)
LEMMA Weights ==
  ASSUME NEW s \in 0 .. XLEN
  PROVE  /\ 2 ^ (XLEN - s) \in Nat \ {0} /\ 2 ^ s \in Nat \ {0}
         /\ Size = 2 ^ (XLEN - s) * 2 ^ s
         /\ 2 ^ s <= Size
         /\ 2 ^ (s + 1) = 2 * 2 ^ s
<1>1. XLEN \in Nat /\ XLEN - s \in Nat /\ s \in Nat /\ (XLEN - s) + s = XLEN
  BY WidthAssumption
<1>2. 2 ^ (XLEN - s) \in Nat \ {0} /\ 2 ^ s \in Nat \ {0}
  BY <1>1, PowerType
<1>3. 2 ^ ((XLEN - s) + s) = 2 ^ (XLEN - s) * 2 ^ s
  BY <1>1, PowerSum
<1>4. Size = 2 ^ (XLEN - s) * 2 ^ s
  BY <1>1, <1>3 DEF Size
<1>5. 2 ^ s <= Size
  BY <1>2, <1>4
<1>6. 2 ^ (s + 1) = 2 ^ s * 2 ^ 1
  BY <1>1, PowerSum
<1>7. 2 ^ (s + 1) = 2 * 2 ^ s
  BY <1>2, <1>6
<1>. QED  BY <1>2, <1>4, <1>5, <1>7

(* The absolute value of a word is a word, zero for zero only, and the one of *)
(* the number the word stands for.                                           *)
LEMMA AbsoluteValue ==
  ASSUME NEW op \in Ops, NEW x \in Word
  PROVE  /\ abs(op, x) \in Word
         /\ abs(op, x) = 0 <=> x = 0
         /\ abs(op, x) = Abs(IF is_signed(op) THEN Signed(x) ELSE x)
<1>1. CASE is_signed(op) /\ Negative(x)
  <2>1. x \in Nat /\ x > 0 /\ x < Size
    BY <1>1, Widths DEF Word, Negative
  <2>2. Minus(x) = Size - x
    BY <2>1, Widths DEF Minus
  <2>. QED  BY <1>1, <2>1, <2>2, Widths DEF abs, Abs, Signed, Word
<1>2. CASE ~(is_signed(op) /\ Negative(x))
  BY <1>2, Widths DEF abs, Abs, Signed, Word
<1>. QED  BY <1>1, <1>2

(* The sign of the result, operation by operation.                           *)
LEMMA Signs ==
  ASSUME NEW op \in Ops, NEW a \in Word, NEW b \in Word
  PROVE  /\ sign_res(op, a, b) \in BOOLEAN
         /\ op = "DIV" => (sign_res(op, a, b) <=> (Negative(a) <=> ~Negative(b)))
         /\ op = "REM" => (sign_res(op, a, b) <=> Negative(a))
         /\ op \in {"DIVU", "REMU"} => ~sign_res(op, a, b)
<1>0. Negative(a) \in BOOLEAN /\ Negative(b) \in BOOLEAN
  BY DEF Negative
<1>1. ASSUME op = "DIV"
      PROVE  sign_res(op, a, b) \in BOOLEAN /\ (sign_res(op, a, b) <=> (Negative(a) <=> ~Negative(b)))
  <2>1. sign_res(op, a, b) = (Negative(a) # Negative(b))
    BY <1>1, Zenon DEF sign_res
  <2>. QED  BY <1>0, <2>1, Zenon
<1>2. ASSUME op = "REM"
      PROVE  sign_res(op, a, b) \in BOOLEAN /\ (sign_res(op, a, b) <=> Negative(a))
  <2>1. op # "DIV"
    BY <1>2
  <2>. QED  BY <1>0, <1>2, <2>1, Zenon DEF sign_res
<1>3. ASSUME op \in {"DIVU", "REMU"}
      PROVE  sign_res(op, a, b) \in BOOLEAN /\ ~sign_res(op, a, b)
  <2>1. op # "DIV" /\ op # "REM"
    BY <1>3
  <2>. QED  BY <2>1, Zenon DEF sign_res
<1>. QED  BY <1>1, <1>2, <1>3, Zenon DEF Ops

(* The reference, case by case.                                              *)
Number(op, a) == IF is_signed(op) THEN Signed(a) ELSE a
Quotient(op, a, b) ==
  (Abs(Number(op, a)) \div Abs(Number(op, b)))
    * (IF (Number(op, a) < 0) # (Number(op, b) < 0) THEN -1 ELSE 1)

LEMMA References ==
  ASSUME NEW op \in Ops, NEW a \in Word, NEW b \in Word
  PROVE  /\ b = 0 /\ is_res_quotient(op) => Reference(op, a, b) = Size - 1
         /\ b = 0 /\ ~is_res_quotient(op) => Reference(op, a, b) = a
         /\ b # 0 /\ is_res_quotient(op) => Reference(op, a, b) = Quotient(op, a, b) % Size
         /\ b # 0 /\ ~is_res_quotient(op) =>
              Reference(op, a, b)
                = (Number(op, a) - Quotient(op, a, b) * Number(op, b)) % Size
BY Zenon DEF Reference, Quotient, Number

(* Restoring the sign turns the quotient and the remainder of the absolute   *)
(* values into those of the reference.                                       *)
Restored(op, a, b, q, d) ==
  LET r == IF is_res_quotient(op) THEN q ELSE d
  IN  IF sign_res(op, a, b) THEN Minus(r) ELSE r

LEMMA ResultOfDivision ==
  ASSUME NEW op \in Ops, NEW a \in Word, NEW b \in Word, NEW q \in Word, NEW d \in Word,
         b # 0, abs(op, a) = d + q * abs(op, b), d < abs(op, b)
  PROVE  Restored(op, a, b, q, d) = Reference(op, a, b)
<1>. DEFINE x == Number(op, a)
            y == Number(op, b)
            X == abs(op, a)
            Y == abs(op, b)
            neg == (x < 0) # (y < 0)
<1>1. /\ X \in Nat /\ Y \in Nat /\ Y # 0 /\ X = Abs(x) /\ Y = Abs(y)
      /\ q \in Nat /\ d \in Nat
  BY AbsoluteValue, Widths DEF Word, Number
<1>2. x \in Int /\ y \in Int
  BY Widths DEF Number, Signed, Word
<1>3. X \div Y = q
  BY <1>1, DivMod
<1>4. Quotient(op, a, b) = IF neg THEN -q ELSE q
  BY <1>1, <1>3 DEF Quotient
<1>5. CASE is_res_quotient(op)
  <2>0. neg <=> (x < 0 <=> ~(y < 0))
    <3>1. (x < 0) \in BOOLEAN /\ (y < 0) \in BOOLEAN
      BY <1>2
    <3>. QED  BY <3>1, Zenon
  <2>1. sign_res(op, a, b) <=> neg
    <3>1. CASE op = "DIV"
      <4>1. (x < 0 <=> Negative(a)) /\ (y < 0 <=> Negative(b))
        BY <3>1, Widths DEF Number, Signed, is_signed, Word, Negative
      <4>2. sign_res(op, a, b) <=> (Negative(a) <=> ~Negative(b))
        BY <3>1, Signs
      <4>. QED  BY <4>1, <4>2, <2>0, Zenon
    <3>2. CASE op = "DIVU"
      <4>1. ~(x < 0) /\ ~(y < 0)
        BY <3>2, Widths DEF Number, is_signed, Word
      <4>2. ~sign_res(op, a, b)
        BY <3>2, Signs
      <4>. QED  BY <4>1, <4>2, <2>0, Zenon
    <3>. QED  BY <1>5, <3>1, <3>2 DEF is_res_quotient
  <2>2. Reference(op, a, b) = Quotient(op, a, b) % Size
    BY <1>5, References
  <2>3. (-q) % Size = Minus(q) /\ q % Size = q
    BY Widths DEF Minus, Word
  <2>4. Restored(op, a, b, q, d) = IF sign_res(op, a, b) THEN Minus(q) ELSE q
    BY <1>5 DEF Restored
  <2>. QED  BY <1>4, <2>1, <2>2, <2>3, <2>4, Zenon
<1>6. CASE ~is_res_quotient(op)
  <2>1. sign_res(op, a, b) <=> x < 0
    <3>1. CASE op = "REM"
      <4>1. x < 0 <=> Negative(a)
        BY <3>1, Widths DEF Number, Signed, is_signed, Word, Negative
      <4>. QED  BY <3>1, <4>1, Signs
    <3>2. CASE op = "REMU"
      <4>1. ~(x < 0)
        BY <3>2, Widths DEF Number, is_signed, Word
      <4>. QED  BY <3>2, <4>1, Signs
    <3>. QED  BY <1>6, <3>1, <3>2 DEF is_res_quotient, Ops
  <2>2. x - Quotient(op, a, b) * y = IF x < 0 THEN -d ELSE d
    <3>1. x = (IF x < 0 THEN -X ELSE X) /\ y = (IF y < 0 THEN -Y ELSE Y)
      BY <1>1, <1>2 DEF Abs
    <3>. HIDE DEF x, y, X, Y
    <3>2. X = d + q * Y
      BY DEF X, Y
    <3>. QED  BY <1>1, <1>2, <1>4, <3>1, <3>2
  <2>3. Reference(op, a, b) = (x - Quotient(op, a, b) * y) % Size
    BY <1>6, References
  <2>4. (-d) % Size = Minus(d) /\ d % Size = d
    BY Widths DEF Minus, Word
  <2>5. Restored(op, a, b, q, d) = IF sign_res(op, a, b) THEN Minus(d) ELSE d
    BY <1>6 DEF Restored
  <2>. QED  BY <2>1, <2>2, <2>3, <2>4, <2>5, Zenon
<1>. QED  BY <1>5, <1>6

(* A division by zero finds a quotient of ones and leaves the dividend.      *)
LEMMA ResultByZero ==
  ASSUME NEW op \in Ops, NEW a \in Word,
         ~(op = "DIV" /\ Negative(a))
  PROVE  Restored(op, a, 0, Size - 1, abs(op, a)) = Reference(op, a, 0)
<1>1. 0 \in Word
  BY Widths DEF Word
<1>2. CASE is_res_quotient(op)
  <2>1. ~sign_res(op, a, 0)
    <3>1. ~Negative(0)
      BY Widths DEF Negative
    <3>2. CASE op = "DIV"
      BY <1>1, <3>1, <3>2, Signs, Zenon
    <3>3. CASE op = "DIVU"
      BY <1>1, <3>3, Signs
    <3>. QED  BY <1>2, <3>2, <3>3 DEF is_res_quotient
  <2>. QED  BY <1>1, <1>2, <2>1, References DEF Restored
<1>3. CASE ~is_res_quotient(op)
  <2>1. Restored(op, a, 0, Size - 1, abs(op, a)) = a
    <3>1. CASE op = "REM" /\ Negative(a)
      <4>1. sign_res(op, a, 0)
        BY <1>1, <3>1, Signs
      <4>2. Minus(Minus(a)) = a
        BY Widths DEF Minus, Word
      <4>. QED  BY <1>3, <3>1, <4>1, <4>2 DEF Restored, abs, is_signed
    <3>2. CASE op = "REM" /\ ~Negative(a)
      <4>1. ~sign_res(op, a, 0)
        BY <1>1, <3>2, Signs, Zenon
      <4>. QED  BY <1>3, <3>2, <4>1 DEF Restored, abs
    <3>3. CASE op = "REMU"
      <4>1. ~sign_res(op, a, 0)
        BY <1>1, <3>3, Signs
      <4>. QED  BY <1>3, <3>3, <4>1 DEF Restored, abs, is_signed
    <3>. QED  BY <1>3, <3>1, <3>2, <3>3 DEF is_res_quotient, Ops
  <2>. QED  BY <1>1, <1>3, <2>1, References
<1>. QED  BY <1>2, <1>3

-----------------------------------------------------------------------------
(* The inductive invariant: DatapathRight and ResultRight with what the unit *)
(* keeps of its operation while it is busy, and the quotient of ones that a  *)
(* division by zero builds up.                                               *)
steps        == DIV_CYCLES - cnt
abs_dividend == abs(asked.op, asked.a)
abs_divisor  == abs(asked.op, asked.b)

OperationHeld ==
  busy => /\ ~valid_out
          /\ sign_res_reg = sign_res(asked.op, asked.a, asked.b)
          /\ is_res_quotient_reg = is_res_quotient(asked.op)
AllOnes == busy /\ asked.b = 0 => quotient = 2 ^ steps - 1

DivInv == TypeOK /\ ShiftSubtract /\ OperationHeld /\ AllOnes /\ ResultRight

(* While the unit is busy the bits not yet found number XLEN - steps.        *)
LEMMA Busy ==
  ASSUME TypeOK, busy
  PROVE  /\ steps \in 0 .. XLEN /\ cnt = XLEN + 1 - steps /\ cnt \in Nat
         /\ abs_dividend \in Word /\ abs_divisor \in Word
         /\ abs_divisor = 0 <=> asked.b = 0
         /\ asked.op \in Ops /\ asked.a \in Word /\ asked.b \in Word
<1>1. asked.op \in Ops /\ asked.a \in Word /\ asked.b \in Word
  BY DEF TypeOK
<1>2. steps \in 0 .. XLEN /\ cnt = XLEN + 1 - steps /\ cnt \in Nat
  BY WidthAssumption DEF TypeOK, busy, steps
<1>. QED  BY <1>1, <1>2, AbsoluteValue DEF abs_dividend, abs_divisor

(* The invariant of shift and subtract in the words of this module.          *)
LEMMA Shifted ==
  /\ ShiftSubtract /\ busy =>
       /\ divisor_wide = (abs_divisor * Size) \div (2 ^ (steps + 1))
       /\ steps <= XLEN =>
            abs_dividend = dividend_wide + quotient * abs_divisor * 2 ^ (XLEN - steps)
       /\ abs_divisor # 0 => dividend_wide < abs_divisor * 2 ^ (XLEN - steps)
       /\ quotient < 2 ^ steps
  /\ (busy =>
        /\ divisor_wide = (abs_divisor * Size) \div (2 ^ (steps + 1))
        /\ steps <= XLEN =>
             abs_dividend = dividend_wide + quotient * abs_divisor * 2 ^ (XLEN - steps)
        /\ abs_divisor # 0 => dividend_wide < abs_divisor * 2 ^ (XLEN - steps)
        /\ quotient < 2 ^ steps)
     => ShiftSubtract
BY Zenon DEF ShiftSubtract, steps, abs_dividend, abs_divisor

(* The divisor after s steps, as long as a quotient bit is still to be found, *)
(* is the last bit's weight times the divisor of the operation.              *)
LEMMA DivisorWeight ==
  ASSUME TypeOK, ShiftSubtract, busy, steps < XLEN
  PROVE  /\ 2 ^ (XLEN - steps) = 2 * 2 ^ (XLEN - (steps + 1))
         /\ 2 ^ (XLEN - (steps + 1)) \in Nat \ {0}
         /\ divisor_wide = abs_divisor * 2 ^ (XLEN - (steps + 1))
<1>. DEFINE w == 2 ^ (XLEN - (steps + 1))
            P == 2 ^ (steps + 1)
<1>1. steps \in 0 .. XLEN /\ steps + 1 \in 0 .. XLEN /\ abs_divisor \in Nat
  BY Busy, Widths, WidthAssumption DEF Word
<1>2. w \in Nat \ {0} /\ P \in Nat \ {0} /\ Size = w * P
  BY <1>1, Weights
<1>3. divisor_wide = (abs_divisor * Size) \div P
  BY Shifted, Zenon
<1>4. 2 ^ (XLEN - steps) = 2 * w
  <2>1. XLEN - (steps + 1) \in Nat /\ XLEN - (steps + 1) + 1 = XLEN - steps
    BY <1>1, WidthAssumption
  <2>2. 2 ^ (XLEN - (steps + 1) + 1) = w * 2 ^ 1
    BY <2>1, PowerSum
  <2>. QED  BY <1>2, <2>1, <2>2
<1>. HIDE DEF w, P
<1>5. abs_divisor * Size = (abs_divisor * w) * P + 0 /\ abs_divisor * w \in Nat /\ abs_divisor * Size \in Nat
  BY <1>1, <1>2
<1>6. (abs_divisor * Size) \div P = abs_divisor * w
  BY <1>2, <1>5, DivMod
<1>. QED  BY <1>2, <1>3, <1>4, <1>6 DEF w

(* The subtraction fits exactly when the divisor is not the larger.          *)
LEMMA Fits ==
  ASSUME NEW x \in 0 .. Size - 1, NEW y \in 0 .. (Size - 1) * (Size \div 2)
  PROVE  /\ (x - y) % Wide < Wide \div 2 <=> y <= x
         /\ y <= x => (x - y) % Wide = x - y
<1>. DEFINE H == Size \div 2
<1>1. H \in Nat /\ H >= 2 /\ Size = 2 * H /\ Wide = Size * Size
  BY Widths
<1>. HIDE DEF H
<1>2. Wide = 4 * (H * H) /\ H * H \in Nat /\ H * H >= 2 * H /\ Wide \div 2 = 2 * (H * H)
  BY <1>1
<1>3. (Size - 1) * H = 2 * (H * H) - H
  BY <1>1
<1>4. x < 2 * H /\ x \in Nat /\ y \in Nat /\ y <= 2 * (H * H) - H
  BY <1>1, <1>3 DEF H
<1>. DEFINE Q == H * H
<1>. HIDE DEF Q
<1>5. Wide = 4 * Q /\ Q \in Nat /\ Q >= 2 * H /\ Wide \div 2 = 2 * Q /\ y <= 2 * Q - H
  BY <1>2, <1>4 DEF Q
<1>6. CASE y <= x
  <2>1. (x - y) % (4 * Q) = x - y /\ x - y < 2 * Q
    BY <1>1, <1>4, <1>5, <1>6
  <2>. QED  BY <1>5, <1>6, <2>1
<1>7. CASE x < y
  <2>1. (x - y) % (4 * Q) = x - y + 4 * Q /\ x - y + 4 * Q >= 2 * Q
    <3>1. x - y + 4 * Q \in Nat /\ x - y + 4 * Q < 4 * Q /\ x - y + 4 * Q >= 2 * Q
      BY <1>1, <1>4, <1>5, <1>7
    <3>. QED  BY <3>1, <1>4, <1>5
  <2>. QED  BY <1>4, <1>5, <1>7, <2>1
<1>. QED  BY <1>4, <1>6, <1>7

(* A step keeps the widths.                                                  *)
LEMMA StepType ==
  ASSUME TypeOK, Step
  PROVE  TypeOK'
<1>1. cnt' \in 0 .. DIV_CYCLES
  BY WidthAssumption DEF TypeOK, Step, busy
<1>2. \A x \in Word : Minus(x) \in Word
  BY Widths DEF Minus, Word
<1>3. remainder \in Word /\ result \in Word /\ res_out' \in Word
  <2>1. remainder \in Word
    BY Widths DEF TypeOK, remainder, Word
  <2>2. result \in Word
    BY <1>2, <2>1 DEF TypeOK, result
  <2>. QED  BY <2>1, <2>2 DEF TypeOK, Step
<1>4. quotient' \in Word
  BY Widths DEF TypeOK, Step, Word
<1>5. dividend_wide' \in 0 .. Wide - 1 /\ divisor_wide' \in 0 .. Wide - 1
  <2>1. Wide \in Nat \ {0}
    BY Widths
  <2>2. \A x, y \in 0 .. Wide - 1 : (x - y) % Wide \in 0 .. Wide - 1 /\ x \div 2 \in 0 .. Wide - 1
    BY <2>1
  <2>. QED  BY <2>2 DEF TypeOK, Step, diff_wide
<1>6. valid_out' \in BOOLEAN
  BY DEF TypeOK, Step, last
<1>. QED  BY <1>1, <1>3, <1>4, <1>5, <1>6 DEF TypeOK, Step

(* A step finds the next bit of the quotient.                                *)
LEMMA StepShift ==
  ASSUME TypeOK, ShiftSubtract, AllOnes, Step
  PROVE  ShiftSubtract' /\ AllOnes'
<1>. SUFFICES ASSUME busy'
              PROVE  ShiftSubtract' /\ AllOnes'
  BY DEF ShiftSubtract, AllOnes
<1>. DEFINE A == abs_dividend
            B == abs_divisor
            w == 2 ^ (XLEN - (steps + 1))
            d == dividend_wide
            q == quotient
            v == divisor_wide
            t == steps + 1
<1>1. busy /\ steps < XLEN /\ steps' = t /\ abs_dividend' = A /\ abs_divisor' = B /\ asked' = asked
  <2>1. busy /\ asked' = asked /\ cnt' = cnt - 1
    BY DEF Step
  <2>2. cnt = XLEN + 1 - steps /\ steps \in 0 .. XLEN /\ XLEN \in Nat
    BY <2>1, Busy, WidthAssumption
  <2>3. steps' = t
    BY <2>1, <2>2, WidthAssumption DEF steps
  <2>. QED  BY <2>1, <2>2, <2>3 DEF busy, abs_dividend, abs_divisor
<1>2. /\ steps \in 0 .. XLEN /\ t \in 0 .. XLEN /\ XLEN - t \in Nat /\ XLEN - steps \in Nat
      /\ A \in 0 .. Size - 1 /\ B \in 0 .. Size - 1
      /\ B = 0 <=> asked.b = 0
  BY <1>1, Busy, WidthAssumption DEF Word
<1>3. w \in Nat \ {0} /\ 2 ^ (XLEN - steps) = 2 * w /\ v = B * w
  BY <1>1, DivisorWeight
<1>4. /\ d \in Nat /\ q \in Nat
      /\ A = d + q * B * (2 * w)
      /\ B # 0 => d < B * (2 * w)
      /\ q < 2 ^ steps
      /\ v = (B * Size) \div (2 ^ t)
      /\ asked.b = 0 => q = 2 ^ steps - 1
  <2>1. d \in Nat /\ q \in Nat
    BY Widths DEF TypeOK, Word
  <2>2. steps <= XLEN
    BY <1>2
  <2>. QED  BY <1>1, <1>3, <2>1, <2>2, Shifted, Zenon DEF AllOnes
<1>5. /\ 2 ^ steps \in Nat \ {0} /\ 2 ^ t = 2 * 2 ^ steps
      /\ Size = 2 ^ (XLEN - steps) * 2 ^ steps
      /\ 2 ^ t \in Nat \ {0} /\ 2 ^ t <= Size /\ 2 ^ (t + 1) = 2 * 2 ^ t
  <2>1. /\ 2 ^ steps \in Nat \ {0} /\ 2 ^ t = 2 * 2 ^ steps
        /\ Size = 2 ^ (XLEN - steps) * 2 ^ steps
    BY <1>2, Weights, Zenon
  <2>2. 2 ^ t \in Nat \ {0} /\ 2 ^ t <= Size /\ 2 ^ (t + 1) = 2 * 2 ^ t
    BY <1>2, Weights, Zenon
  <2>. QED  BY <2>1, <2>2
<1>6. /\ fits <=> v <= d
      /\ v <= d => diff_wide = d - v
  <2>1. d <= A
    <3>1. q * B * (2 * w) >= 0
      BY <1>2, <1>3, <1>4
    <3>. QED  BY <1>2, <1>3, <1>4, <3>1
  <2>2. v \in 0 .. (Size - 1) * (Size \div 2)
    <3>1. w <= Size \div 2
      <4>1. 2 * w <= Size
        BY <1>3, <1>5
      <4>. QED  BY <1>3, <4>1, Widths
    <3>2. B * w \in Nat /\ B * w <= (Size - 1) * (Size \div 2)
      BY <1>2, <1>3, <3>1, Widths
    <3>. QED  BY <1>3, <3>2, Widths
  <2>3. d \in 0 .. Size - 1
    BY <1>2, <1>4, <2>1, Widths
  <2>4. /\ (d - v) % Wide < Wide \div 2 <=> v <= d
        /\ v <= d => (d - v) % Wide = d - v
    BY <2>2, <2>3, Fits
  <2>. QED  BY <2>4 DEF fits, diff_wide
<1>7. /\ divisor_wide' = v \div 2
      /\ dividend_wide' = IF fits THEN diff_wide ELSE d
      /\ quotient' = (2 * q + (IF fits THEN 1 ELSE 0)) % Size
  BY DEF Step
<1>. HIDE DEF A, B, w, d, q, v
<1>8. divisor_wide' = (B * Size) \div (2 ^ (t + 1))
  <2>1. B * Size \in Nat
    BY <1>2, Widths
  <2>2. ((B * Size) \div (2 ^ t)) \div 2 = (B * Size) \div (2 * 2 ^ t)
    BY <2>1, <1>5, DivTwice, Zenon
  <2>. QED  BY <1>4, <1>5, <1>7, <2>2, Zenon
<1>9. /\ A = dividend_wide' + quotient' * B * w
      /\ B # 0 => dividend_wide' < B * w
      /\ quotient' < 2 ^ t
      /\ asked.b = 0 => quotient' = 2 ^ t - 1
  <2>1. CASE v <= d
    <3>1. 2 * q + 1 \in Nat /\ 2 * q + 1 < 2 ^ t
      BY <1>4, <1>5
    <3>2. quotient' = 2 * q + 1
      <4>1. quotient' = (2 * q + 1) % Size
        BY <1>6, <1>7, <2>1
      <4>2. 2 * q + 1 < Size
        BY <1>5, <3>1, Widths
      <4>. QED  BY <3>1, <4>1, <4>2, Widths
    <3>3. dividend_wide' = d - v
      BY <1>6, <1>7, <2>1
    <3>4. q * B * (2 * w) + B * w = (2 * q + 1) * B * w /\ B * (2 * w) = B * w + B * w
      BY <1>2, <1>3, <1>4
    <3>5. A = (d - v) + (2 * q + 1) * B * w
      BY <1>2, <1>3, <1>4, <3>4
    <3>6. B # 0 => d - v < B * w
      BY <1>2, <1>3, <1>4, <3>4
    <3>7. asked.b = 0 => 2 * q + 1 = 2 ^ t - 1
      BY <1>4, <1>5
    <3>. QED  BY <3>1, <3>2, <3>3, <3>5, <3>6, <3>7
  <2>2. CASE d < v
    <3>1. 2 * q \in Nat /\ 2 * q < 2 ^ t
      BY <1>4, <1>5
    <3>2. ~fits
      BY <1>2, <1>3, <1>4, <1>6, <2>2
    <3>3. quotient' = 2 * q
      BY <1>5, <1>7, <3>1, <3>2, Widths
    <3>4. dividend_wide' = d
      BY <1>7, <3>2
    <3>5. A = d + (2 * q) * B * w
      BY <1>2, <1>3, <1>4
    <3>6. asked.b # 0
      BY <1>2, <1>3, <1>4, <2>2
    <3>. QED  BY <1>3, <2>2, <3>1, <3>3, <3>4, <3>5, <3>6
  <2>. QED  BY <1>2, <1>3, <1>4, <2>1, <2>2
<1>10. ShiftSubtract'
  BY <1>1, <1>8, <1>9, Zenon DEF ShiftSubtract, steps, abs_dividend, abs_divisor, A, B, w
<1>11. AllOnes'
  BY <1>1, <1>9, Zenon DEF AllOnes
<1>. QED  BY <1>10, <1>11

(* The last step gives the result.                                           *)
LEMMA StepResult ==
  ASSUME DivInv, Step
  PROVE  ResultRight'
<1>. SUFFICES ASSUME valid_out'
              PROVE  \/ asked.op = "DIV" /\ asked.b = 0 /\ Negative(asked.a)
                     \/ res_out' = Reference(asked.op, asked.a, asked.b)
  <2>1. asked' = asked
    BY DEF Step
  <2>. QED  BY <2>1, Zenon DEF ResultRight
<1>. DEFINE op == asked.op
            a == asked.a
            b == asked.b
            d == dividend_wide
            q == quotient
<1>1. TypeOK /\ ShiftSubtract /\ OperationHeld /\ AllOnes /\ busy
  BY DEF DivInv, Step
<1>2. last /\ res_out' = result
  BY <1>1 DEF Step, OperationHeld
<1>3. cnt = 1 /\ steps = XLEN /\ XLEN - steps = 0 /\ XLEN \in Nat
  BY <1>2, WidthAssumption DEF last, steps
<1>4. /\ op \in Ops /\ a \in Word /\ b \in Word
      /\ abs_dividend \in Word /\ abs_divisor \in Word
      /\ abs_divisor = 0 <=> b = 0
      /\ abs_dividend = abs(op, a) /\ abs_divisor = abs(op, b)
  BY <1>1, Busy DEF abs_dividend, abs_divisor
<1>5. d \in Nat /\ q \in Word
  BY <1>1, Widths DEF TypeOK
<1>6. 2 ^ (XLEN - steps) = 1 /\ 2 ^ steps = Size
  BY <1>3 DEF Size
<1>7. /\ abs_dividend = d + q * abs_divisor * 1
      /\ abs_divisor # 0 => d < abs_divisor * 1
      /\ b = 0 => q = Size - 1
  <2>1. steps <= XLEN
    BY <1>3
  <2>. QED  BY <1>1, <1>6, <2>1, Shifted, Zenon DEF AllOnes
<1>8. sign_res_reg = sign_res(op, a, b) /\ is_res_quotient_reg = is_res_quotient(op)
  BY <1>1 DEF OperationHeld
<1>. HIDE DEF op, a, b, d, q
<1>9. d \in Word /\ abs_dividend = d + q * abs_divisor /\ (b # 0 => d < abs_divisor)
  <2>1. q * abs_divisor \in Nat
    BY <1>4, <1>5, Widths DEF Word
  <2>. QED  BY <1>4, <1>5, <1>7, <2>1, Widths DEF Word
<1>10. result = Restored(op, a, b, q, d)
  <2>1. remainder = d
    BY <1>9, Widths DEF remainder, Word, d
  <2>. QED  BY <1>8, <2>1, Zenon DEF result, Restored, q
<1>11. CASE b # 0
  <2>1. Restored(op, a, b, q, d) = Reference(op, a, b)
    <3>1. abs(op, a) = d + q * abs(op, b) /\ d < abs(op, b)
      BY <1>4, <1>9, <1>11, Zenon
    <3>2. op \in Ops /\ a \in Word /\ b \in Word /\ q \in Word /\ d \in Word /\ b # 0
      BY <1>4, <1>5, <1>9, <1>11, Zenon
    <3>. QED  BY <3>1, <3>2, ResultOfDivision
  <2>. QED  BY <1>2, <1>10, <2>1, Zenon DEF op, a, b
<1>12. CASE b = 0
  <2>1. d = abs(op, a) /\ q = Size - 1
    BY <1>4, <1>5, <1>7, <1>9, <1>12, Widths DEF Word
  <2>2. ~(op = "DIV" /\ Negative(a)) => Restored(op, a, b, q, d) = Reference(op, a, b)
    BY <1>4, <1>12, <2>1, ResultByZero, Zenon
  <2>. QED  BY <1>2, <1>10, <1>12, <2>2, Zenon DEF op, a, b
<1>. QED  BY <1>11, <1>12

(* An operation is accepted with its absolute values in place.               *)
LEMMA AcceptStep ==
  ASSUME TypeOK, NEW op \in Ops, NEW a \in Word, NEW b \in Word, NEW ready_out \in BOOLEAN,
         Accept(op, a, b, ready_out)
  PROVE  DivInv'
<1>1. /\ asked' = [op |-> op, a |-> a, b |-> b]
      /\ asked'.op = op /\ asked'.a = a /\ asked'.b = b
      /\ cnt' = DIV_CYCLES /\ busy' /\ steps' = 0 /\ ~valid_out'
  BY WidthAssumption DEF Accept, busy, steps
<1>2. abs(op, a) \in Word /\ abs(op, b) \in Word
  BY AbsoluteValue
<1>3. is_res_quotient(op) \in BOOLEAN /\ sign_res(op, a, b) \in BOOLEAN
  BY Signs DEF is_res_quotient
<1>4. abs(op, b) * (Size \div 2) \in 0 .. Wide - 1
  <2>. DEFINE B == abs(op, b)
              H == Size \div 2
  <2>1. B \in Nat /\ B < Size /\ H \in Nat /\ H < Size /\ Wide = Size * Size /\ Size \in Nat
    BY <1>2, Widths DEF Word
  <2>. HIDE DEF B, H
  <2>2. B * H \in Nat /\ B * H < Size * Size
    BY <2>1
  <2>. QED  BY <2>1, <2>2 DEF B, H
<1>5. TypeOK'
  <2>1. abs(op, a) \in 0 .. Wide - 1
    BY <1>2, Widths DEF Word
  <2>2. DIV_CYCLES \in 0 .. DIV_CYCLES /\ 0 \in Word
    BY WidthAssumption, Widths DEF Word
  <2>3. asked' \in [op : Ops, a : Word, b : Word]
    BY <1>1
  <2>. QED  BY <1>1, <1>2, <1>3, <1>4, <2>1, <2>2, <2>3, Zenon DEF Accept, TypeOK
<1>6. ShiftSubtract'
  <2>. DEFINE A == abs(op, a)
              B == abs(op, b)
  <2>1. A \in Nat /\ A < Size /\ B \in Nat
    BY <1>2, Widths DEF Word
  <2>2. XLEN - 0 = XLEN /\ 0 + 1 = 1 /\ 2 ^ 1 = 2 /\ 2 ^ 0 = 1 /\ XLEN \in Nat
    BY WidthAssumption
  <2>3. dividend_wide' = A /\ quotient' = 0 /\ divisor_wide' = B * (Size \div 2)
    BY DEF Accept
  <2>. HIDE DEF A, B
  <2>4. B * (Size \div 2) = (B * Size) \div 2
    <3>1. B * Size = (B * (Size \div 2)) * 2 + 0 /\ B * (Size \div 2) \in Nat /\ B * Size \in Nat
      BY <2>1, Widths
    <3>2. (B * Size) \div 2 = B * (Size \div 2)
      BY <3>1, DivMod
    <3>. QED  BY <3>2
  <2>5. A = A + 0 * B * Size /\ (B # 0 => A < B * Size)
    BY <2>1, Widths
  <2>6. /\ divisor_wide' = (B * Size) \div (2 ^ (0 + 1))
        /\ A = dividend_wide' + quotient' * B * 2 ^ (XLEN - 0)
        /\ B # 0 => dividend_wide' < B * 2 ^ (XLEN - 0)
        /\ quotient' < 2 ^ 0
    <3>1. 2 ^ (XLEN - 0) = Size
      BY <2>2 DEF Size
    <3>2. 0 < 2 ^ 0
      OBVIOUS
    <3>. QED  BY <2>2, <2>3, <2>4, <2>5, <3>1, <3>2, Zenon
  <2>. QED  BY <1>1, <2>6, Zenon DEF ShiftSubtract, steps, A, B
<1>7. OperationHeld'
  BY <1>1 DEF OperationHeld, Accept
<1>8. AllOnes'
  <2>1. quotient' = 0 /\ 2 ^ 0 - 1 = 0
    BY DEF Accept
  <2>. QED  BY <1>1, <2>1, Zenon DEF AllOnes
<1>9. ResultRight'
  BY <1>1 DEF ResultRight
<1>. QED  BY <1>5, <1>6, <1>7, <1>8, <1>9 DEF DivInv

LEMMA DivInvInit ==
  Init => DivInv
<1>. SUFFICES ASSUME Init  PROVE DivInv
  OBVIOUS
<1>1. ~busy /\ ~valid_out
  BY DEF Init, busy
<1>2. TypeOK
  <2>1. 0 \in Word /\ 0 \in 0 .. Wide - 1
    BY Widths DEF Word
  <2>2. 0 \in 0 .. DIV_CYCLES
    BY WidthAssumption
  <2>. QED  BY <2>1, <2>2 DEF Init, TypeOK, Ops
<1>. QED  BY <1>1, <1>2, Zenon DEF DivInv, ShiftSubtract, OperationHeld, AllOnes, ResultRight

LEMMA DivInvStep ==
  DivInv /\ [Next]_vars => DivInv'
<1>. SUFFICES ASSUME DivInv, [Next]_vars  PROVE DivInv'
  OBVIOUS
<1>1. TypeOK /\ ShiftSubtract /\ OperationHeld /\ AllOnes /\ ResultRight
  BY DEF DivInv
<1>2. ASSUME NEW op \in Ops, NEW a \in Word, NEW b \in Word, NEW ready_out \in BOOLEAN,
             Accept(op, a, b, ready_out)
      PROVE  DivInv'
  BY <1>1, <1>2, AcceptStep
<1>3. CASE Step
  <2>1. TypeOK'
    BY <1>1, <1>3, StepType
  <2>2. ShiftSubtract' /\ AllOnes'
    BY <1>1, <1>3, StepShift
  <2>3. OperationHeld'
    <3>1. busy' => ~last
      BY <1>3, WidthAssumption DEF Step, busy, last
    <3>. QED  BY <1>1, <1>3, <3>1 DEF Step, OperationHeld
  <2>4. ResultRight'
    BY <1>3, StepResult
  <2>. QED  BY <2>1, <2>2, <2>3, <2>4 DEF DivInv
<1>4. CASE Handover
  <2>1. ~busy' /\ ~valid_out'
    BY <1>4 DEF Handover, busy
  <2>2. TypeOK'
    BY <1>1, <1>4 DEF Handover, datapath, TypeOK
  <2>. QED  BY <2>1, <2>2, Zenon DEF DivInv, ShiftSubtract, OperationHeld, AllOnes, ResultRight
<1>5. CASE UNCHANGED vars
  BY <1>1, <1>5, Zenon
     DEF vars, datapath, DivInv, TypeOK, ShiftSubtract, OperationHeld, AllOnes, ResultRight, busy, steps
<1>. QED  BY <1>2, <1>3, <1>4, <1>5 DEF Next

LEMMA DivInvariant ==
  Spec => []DivInv
<1>. QED  BY DivInvInit, DivInvStep, PTL DEF Spec

(* Shift and subtract keeps, for every width, dividend = rest + quotient *   *)
(* divisor at the weights of the step, with a rest below the last divisor,   *)
(* and every register of IDIV keeps its width.                               *)
THEOREM DatapathCorrect ==
  Spec => []DatapathRight
<1>1. DivInv => DatapathRight
  BY DEF DivInv, DatapathRight
<1>. QED  BY <1>1, DivInvariant, PTL

(* IDIV offers the quotient or the remainder of RISC-V for every operation,   *)
(* operands and width, but for a negative dividend over zero.                *)
THEOREM ResultCorrect ==
  Spec => []ResultRight
<1>1. DivInv => ResultRight
  BY DEF DivInv
<1>. QED  BY <1>1, DivInvariant, PTL
=============================================================================
