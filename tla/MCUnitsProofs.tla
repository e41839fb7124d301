---------------------------- MODULE MCUnitsProofs ----------------------------
(***************************************************************************)
(* Theorems about the units beside the divider: the comparisons and products *)
(* of the ALU and the multiplier for operands of any width, and the load and *)
(* store unit for any number of words and byte values, any latency of the     *)
(* port and any sequence of requests.                                       *)
(***************************************************************************)
EXTENDS MCUnits, ArxDivProofs

-----------------------------------------------------------------------------
(***************************************************************************)
(* Bits.  A word is given by its bits, and any choice of bits is a word.     *)
(***************************************************************************)
(* Induction over the natural numbers.  A set with 0 and all successors that  *)
(* lacked n would give a set with n, closed under predecessors, that the      *)
(* predecessor maps into itself one to one and that would be finite.          *)
LEMMA Induction ==
  ASSUME NEW S, 0 \in S, \A n \in Nat : n \in S => n + 1 \in S
  PROVE  \A n \in Nat : n \in S
<1>. SUFFICES ASSUME NEW n \in Nat, n \notin S PROVE FALSE
  OBVIOUS
<1>. DEFINE U == {m \in 0 .. n : m \notin S}
            f == [m \in U |-> m - 1]
<1>1. \A m \in U : m - 1 \in U
  <2>. SUFFICES ASSUME NEW m \in U PROVE m - 1 \in U
    OBVIOUS
  <2>1. m \in Nat /\ m # 0 /\ m <= n
    OBVIOUS
  <2>2. m - 1 \in Nat /\ (m - 1) + 1 = m
    BY <2>1
  <2>3. m - 1 \notin S
    BY <2>2
  <2>. QED  BY <2>1, <2>2, <2>3
<1>2. IsFiniteSet(0 .. n)
  BY FS_Interval
<1>3. IsFiniteSet(U)
  BY <1>2, FS_Subset
<1>4. n \in U /\ U \subseteq Nat /\ \A m \in U : m <= n
  OBVIOUS
<1>. HIDE DEF U
<1>5. f \in Injection(U, U)
  <2>1. f \in [U -> U]
    BY <1>1
  <2>2. ASSUME NEW a \in U, NEW b \in U, f[a] = f[b] PROVE a = b
    <3>1. a - 1 = b - 1 /\ a \in Nat /\ b \in Nat
      BY <2>2, <1>4
    <3>. QED  BY <3>1
  <2>. QED  BY <2>1, <2>2, Fun_IsInj, Zenon
<1>. HIDE DEF f
<1>6. f \in Surjection(U, U)
  BY <1>3, <1>5, FS_Injection, Zenon
<1>7. \E m \in U : f[m] = n
  BY <1>4, <1>6 DEF Surjection
<1>. QED  BY <1>4, <1>7 DEF f

LEMMA DoublePower ==
  ASSUME NEW i \in Nat
  PROVE  /\ 2 ^ i \in Nat \ {0} /\ 2 ^ (i + 1) = 2 * 2 ^ i /\ 2 ^ 0 = 1 /\ 2 ^ 1 = 2
<1>1. 2 ^ 1 = 2 /\ 2 ^ 0 = 1
  BY SMT
<1>2. 2 ^ (i + 1) = 2 ^ i * 2 ^ 1
  BY PowerSum
<1>3. 2 ^ i \in Nat \ {0}
  BY PowerType
<1>. QED  BY <1>1, <1>2, <1>3

LEMMA BitType == ASSUME NEW x \in Nat, NEW i \in Nat PROVE Alu!Bit(x, i) \in {0, 1}
<1>1. 2 ^ i \in Nat \ {0}
  BY DoublePower
<1>2. x \div 2 ^ i \in Nat
  BY <1>1
<1>. QED  BY <1>2 DEF Alu!Bit

(* The bits of half a number are those of the number, one place lower.        *)
LEMMA HalfBits ==
  ASSUME NEW x \in Nat, NEW i \in Nat
  PROVE  /\ Alu!Bit(x \div 2, i) = Alu!Bit(x, i + 1)
         /\ Alu!Bit(x, 0) = x % 2
<1>1. 2 ^ i \in Nat \ {0} /\ 2 ^ (i + 1) = 2 * 2 ^ i /\ 2 ^ 0 = 1
  BY DoublePower
<1>. DEFINE w == 2 ^ i
            z == 2 * w
            k == x \div z
            r == x % z
<1>. HIDE DEF w
<1>2. w \in Nat \ {0} /\ z \in Nat \ {0}
  BY <1>1 DEF w
<1>3. k \in Nat /\ r \in Nat /\ r < 2 * w /\ x = k * (2 * w) + r
  <2>1. z = 2 * w
    OBVIOUS
  <2>. HIDE DEF z
  <2>2. k \in Nat /\ r \in Nat /\ r < z /\ x = k * z + r
    BY <1>2
  <2>. QED  BY <2>1, <2>2
<1>. HIDE DEF k, r
<1>4. x \div 2 = k * w + r \div 2 /\ r \div 2 \in Nat /\ r \div 2 < w
  <2>. DEFINE p == k * w
  <2>1. p \in Nat /\ x = 2 * p + r
    BY <1>2, <1>3
  <2>. HIDE DEF p
  <2>2. r \div 2 \in Nat /\ r \div 2 < w /\ r = 2 * (r \div 2) + (r % 2) /\ r % 2 \in 0 .. 1
    BY <1>2, <1>3
  <2>3. x = (p + (r \div 2)) * 2 + (r % 2)
    BY <1>3, <2>1, <2>2
  <2>4. x \div 2 = p + (r \div 2)
    BY <2>1, <2>2, <2>3
  <2>. QED  BY <2>2, <2>4 DEF p
<1>5. (x \div 2) \div w = k
  BY <1>2, <1>3, <1>4, DivMod
<1>6. (x \div 2) \div 2 ^ i = x \div 2 ^ (i + 1)
  BY <1>1, <1>5 DEF k, w
<1>7. x \div 1 = x
  OBVIOUS
<1>. QED  BY <1>1, <1>6, <1>7 DEF Alu!Bit

LEMMA SameBits ==
  \A n \in Nat : \A x, y \in 0 .. 2 ^ n - 1 :
     (\A i \in 0 .. n - 1 : Alu!Bit(x, i) = Alu!Bit(y, i)) => x = y
<1>. DEFINE P(n) == \A x, y \in 0 .. 2 ^ n - 1 :
                      (\A i \in 0 .. n - 1 : Alu!Bit(x, i) = Alu!Bit(y, i)) => x = y
            S == {n \in Nat : P(n)}
<1>1. 0 \in S
  <2>1. 2 ^ 0 = 1
    BY SMT
  <2>. QED  BY <2>1
<1>2. ASSUME NEW n \in Nat, P(n) PROVE P(n + 1)
  <2>. SUFFICES ASSUME NEW x \in 0 .. 2 ^ (n + 1) - 1, NEW y \in 0 .. 2 ^ (n + 1) - 1,
                       \A i \in 0 .. n : Alu!Bit(x, i) = Alu!Bit(y, i)
                PROVE  x = y
    OBVIOUS
  <2>1. 2 ^ n \in Nat \ {0} /\ 2 ^ (n + 1) = 2 * 2 ^ n
    BY DoublePower
  <2>2. x \in Nat /\ y \in Nat /\ x \div 2 \in 0 .. 2 ^ n - 1 /\ y \div 2 \in 0 .. 2 ^ n - 1
    BY <2>1
  <2>3. ASSUME NEW i \in 0 .. n - 1 PROVE Alu!Bit(x \div 2, i) = Alu!Bit(y \div 2, i)
    <3>1. i \in Nat /\ i + 1 \in 0 .. n
      OBVIOUS
    <3>. QED  BY <2>2, <3>1, HalfBits
  <2>4. x \div 2 = y \div 2
    BY <1>2, <2>2, <2>3
  <2>5. x % 2 = y % 2
    <3>1. 0 \in Nat /\ 0 \in 0 .. n
      OBVIOUS
    <3>. QED  BY <2>2, <3>1, HalfBits
  <2>. QED  BY <2>2, <2>4, <2>5
<1>3. \A n \in Nat : n \in S => n + 1 \in S
  BY <1>2
<1>. HIDE DEF P
<1>4. \A n \in Nat : n \in S
  <2>. HIDE DEF S
  <2>. QED  BY <1>1, <1>3, Induction
<1>. QED  BY <1>4 DEF P

(* The places of a word's bits that are set.                                  *)
Places == 0 .. ALU_XLEN - 1
Ones(x) == {i \in Places : Alu!Bit(x, i) = 1}

LEMMA AluWidths ==
  /\ ALU_XLEN \in Nat /\ Alu!Size \in Nat \ {0} /\ Alu!Size = 2 ^ ALU_XLEN
  /\ Alu!Word = 0 .. 2 ^ ALU_XLEN - 1
  /\ \E H \in Nat \ {0} : Alu!Size = 2 * H /\ Alu!Size \div 2 = H
<1>1. ALU_XLEN \in Nat /\ ALU_XLEN # 0 /\ ALU_XLEN - 1 \in Nat
  BY UnitsAssumption
<1>. DEFINE H == 2 ^ (ALU_XLEN - 1)
<1>2. H \in Nat \ {0} /\ 2 ^ ((ALU_XLEN - 1) + 1) = 2 * H
  BY <1>1, DoublePower
<1>3. (ALU_XLEN - 1) + 1 = ALU_XLEN
  BY <1>1
<1>4. Alu!Size = 2 * H
  BY <1>2, <1>3 DEF Alu!Size
<1>. HIDE DEF H
<1>5. 2 * H \in Nat \ {0} /\ (2 * H) \div 2 = H
  BY <1>2
<1>. QED  BY <1>1, <1>2, <1>4, <1>5 DEF Alu!Size, Alu!Word

(* Every set of places is that of one word: there are as many of either.      *)
LEMMA WordOfBits ==
  ASSUME NEW T \in SUBSET Places
  PROVE  \E x \in Alu!Word : Ones(x) = T
<1>. DEFINE W == Alu!Word
            f == [x \in W |-> Ones(x)]
<1>1. IsFiniteSet(W) /\ Cardinality(W) = 2 ^ ALU_XLEN
  <2>1. 2 ^ ALU_XLEN \in Nat \ {0}
    BY AluWidths, DoublePower
  <2>. DEFINE z == 2 ^ ALU_XLEN
  <2>. HIDE DEF z
  <2>2. IsFiniteSet(0 .. z - 1) /\ Cardinality(0 .. z - 1) = z
    <3>1. 0 \in Int /\ z - 1 \in Int /\ z - 1 >= 0 - 1 /\ (z - 1) - 0 + 1 = z /\ ~ (0 > z - 1)
      BY <2>1 DEF z
    <3>. QED  BY <3>1, FS_Interval
  <2>. QED  BY <2>2, AluWidths DEF z
<1>2. IsFiniteSet(SUBSET Places) /\ Cardinality(SUBSET Places) = 2 ^ ALU_XLEN
  <2>1. IsFiniteSet(Places) /\ Cardinality(Places) = ALU_XLEN
    <3>1. 0 \in Int /\ ALU_XLEN - 1 \in Int /\ (ALU_XLEN - 1) - 0 + 1 = ALU_XLEN /\ ~ (0 > ALU_XLEN - 1)
      BY UnitsAssumption
    <3>. QED  BY <3>1, FS_Interval DEF Places
  <2>. QED  BY <2>1, FS_SUBSET, Zenon
<1>3. f \in Injection(W, SUBSET Places)
  <2>1. f \in [W -> SUBSET Places]
    BY DEF Ones
  <2>2. ASSUME NEW x \in W, NEW y \in W, f[x] = f[y] PROVE x = y
    <3>1. x \in Nat /\ y \in Nat
      BY AluWidths
    <3>2. ASSUME NEW i \in Places PROVE Alu!Bit(x, i) = Alu!Bit(y, i)
      <4>1. i \in Nat
        BY DEF Places
      <4>2. Alu!Bit(x, i) \in {0, 1} /\ Alu!Bit(y, i) \in {0, 1}
        BY <3>1, <4>1, BitType
      <4>3. i \in Ones(x) <=> i \in Ones(y)
        BY <2>2
      <4>. QED  BY <4>2, <4>3 DEF Ones
    <3>. QED  BY <3>2, AluWidths, SameBits DEF Places
  <2>. QED  BY <2>1, <2>2, Fun_IsInj, Zenon
<1>. HIDE DEF f
<1>4. f \in Surjection(W, SUBSET Places)
  BY <1>1, <1>2, <1>3, FS_Injection, Zenon
<1>5. \E x \in W : f[x] = T
  BY <1>4 DEF Surjection
<1>. QED  BY <1>5 DEF f

(* The unit's bit operations are defined, for every operation and operands.   *)
LEMMA BitopDefined ==
  ASSUME NEW op, NEW a \in Alu!Word, NEW b \in Alu!Word
  PROVE  /\ Alu!bitop_res(op, a, b) \in Alu!Word
         /\ \A i \in Places : Alu!Bit(Alu!bitop_res(op, a, b), i)
                                = Alu!bitop(op, Alu!Bit(a, i), Alu!Bit(b, i))
<1>. DEFINE c(i) == Alu!bitop(op, Alu!Bit(a, i), Alu!Bit(b, i))
            T == {i \in Places : c(i) = 1}
<1>1. PICK x \in Alu!Word : Ones(x) = T
  BY WordOfBits
<1>2. a \in Nat /\ b \in Nat /\ x \in Nat
  BY AluWidths
<1>3. ASSUME NEW i \in Places PROVE Alu!Bit(x, i) = c(i)
  <2>1. i \in Nat
    BY DEF Places
  <2>2. Alu!Bit(a, i) \in {0, 1} /\ Alu!Bit(b, i) \in {0, 1} /\ Alu!Bit(x, i) \in {0, 1}
    BY <1>2, <2>1, BitType
  <2>3. c(i) \in {0, 1}
    BY <2>2 DEF Alu!bitop
  <2>4. i \in Ones(x) <=> c(i) = 1
    BY <1>1
  <2>5. i \in Ones(x) <=> Alu!Bit(x, i) = 1
    BY DEF Ones
  <2>. HIDE DEF c
  <2>. QED  BY <2>2, <2>3, <2>4, <2>5
<1>. QED  BY <1>3 DEF Alu!bitop_res, Places

(* Two words are equal when no bit of their exclusive or is set.              *)
LEMMA EqualWords ==
  ASSUME NEW op \in {"EQ", "NEQ"}, NEW a \in Alu!Word, NEW b \in Alu!Word
  PROVE  Alu!neq_res(op, a, b) <=> a # b
<1>. DEFINE r == Alu!bitop_res(op, a, b)
<1>1. r \in Alu!Word /\ \A i \in Places : Alu!Bit(r, i) = Alu!bitop(op, Alu!Bit(a, i), Alu!Bit(b, i))
  BY BitopDefined
<1>. HIDE DEF r
<1>2. a \in Nat /\ b \in Nat /\ r \in Nat /\ 0 \in Alu!Word
  BY <1>1, AluWidths
<1>3. ASSUME NEW i \in Places
      PROVE  Alu!Bit(0, i) = 0 /\ (Alu!Bit(r, i) = 0 <=> Alu!Bit(a, i) = Alu!Bit(b, i))
  <2>1. i \in Nat /\ 2 ^ i \in Nat \ {0}
    BY DoublePower DEF Places
  <2>. DEFINE w == 2 ^ i
  <2>. HIDE DEF w
  <2>2. 0 \div w = 0
    BY <2>1 DEF w
  <2>3. Alu!Bit(0, i) = 0
    BY <2>2 DEF w, Alu!Bit
  <2>. QED  BY <1>1, <2>3 DEF Alu!bitop
<1>4. (\A i \in Places : Alu!Bit(a, i) = Alu!Bit(b, i)) => a = b
  BY AluWidths, SameBits DEF Places
<1>5. (\A i \in Places : Alu!Bit(r, i) = Alu!Bit(0, i)) => r = 0
  BY <1>1, <1>2, AluWidths, SameBits DEF Places
<1>6. r = 0 <=> a = b
  BY <1>3, <1>4, <1>5
<1>. QED  BY <1>6 DEF Alu!neq_res, r

-----------------------------------------------------------------------------
(***************************************************************************)
(* Comparisons: the borrow and the two sign bits.                            *)
(***************************************************************************)
LEMMA Borrow ==
  ASSUME NEW op, op # "ADD", NEW a \in Alu!Word, NEW b \in Alu!Word
  PROVE  Alu!carry_out(op, a, b) <=> a < b
<1>. DEFINE Z == Alu!Size
<1>1. Z \in Nat \ {0} /\ a \in Nat /\ b \in Nat /\ a < Z /\ b < Z
  BY AluWidths
<1>2. Alu!carry_out(op, a, b) <=> (a - b) % (2 * Z) >= Z
  BY DEF Alu!carry_out, Alu!sumsub
<1>. HIDE DEF Z
<1>3. CASE a < b
  <2>1. a - b + 2 * Z \in Nat /\ a - b + 2 * Z < 2 * Z /\ a - b + 2 * Z >= Z
    BY <1>1, <1>3
  <2>2. (a - b) % (2 * Z) = a - b + 2 * Z
    BY <1>1, <2>1
  <2>. QED  BY <1>2, <1>3, <2>1, <2>2
<1>4. CASE b <= a
  <2>1. (a - b) % (2 * Z) = a - b /\ a - b < Z
    BY <1>1, <1>4
  <2>. QED  BY <1>1, <1>2, <1>4, <2>1
<1>. QED  BY <1>1, <1>3, <1>4

LEMMA LessThan ==
  ASSUME NEW op, op # "ADD", NEW a \in Alu!Word, NEW b \in Alu!Word
  PROVE  Alu!lt_res(op, a, b)
           <=> IF op \in {"LTU", "GEU", "SLTU"} THEN a < b ELSE Alu!Signed(a) < Alu!Signed(b)
<1>1. PICK H \in Nat \ {0} : Alu!Size = 2 * H /\ Alu!Size \div 2 = H
  BY AluWidths
<1>2. a \in Nat /\ b \in Nat /\ a < 2 * H /\ b < 2 * H
  BY <1>1, AluWidths
<1>3. (Alu!Msb(a) <=> a >= H) /\ (Alu!Msb(b) <=> b >= H)
  BY <1>1 DEF Alu!Msb
<1>4. /\ Alu!Signed(a) = IF a >= H THEN a - 2 * H ELSE a
      /\ Alu!Signed(b) = IF b >= H THEN b - 2 * H ELSE b
  BY <1>1, <1>3 DEF Alu!Signed
<1>5. CASE (a >= H) <=> (b >= H)
  <2>1. Alu!Msb(a) = Alu!Msb(b)
    BY <1>3, <1>5 DEF Alu!Msb
  <2>2. Alu!lt_res(op, a, b) <=> a < b
    BY <2>1, Borrow DEF Alu!lt_res
  <2>3. Alu!Signed(a) < Alu!Signed(b) <=> a < b
    BY <1>2, <1>4, <1>5
  <2>. QED  BY <2>2, <2>3
<1>6. CASE ~ ((a >= H) <=> (b >= H))
  <2>1. Alu!Msb(a) # Alu!Msb(b)
    BY <1>3, <1>6 DEF Alu!Msb
  <2>2. Alu!lt_res(op, a, b) = (Alu!Msb(a) = Alu!is_op_signed(op))
    BY <2>1 DEF Alu!lt_res
  <2>. DEFINE high == a >= H
              unsigned == op \in {"LTU", "GEU", "SLTU"}
  <2>3. Alu!lt_res(op, a, b) <=> (high <=> ~ unsigned)
    <3>1. (Alu!Msb(a) \in BOOLEAN) /\ (Alu!Msb(a) <=> high)
      BY <1>3 DEF Alu!Msb
    <3>2. (Alu!is_op_signed(op) \in BOOLEAN) /\ (Alu!is_op_signed(op) <=> ~ unsigned)
      BY DEF Alu!is_op_signed
    <3>. HIDE DEF high, unsigned
    <3>. QED  BY <2>2, <3>1, <3>2, Zenon
  <2>4. (a < b <=> ~ (a >= H)) /\ (Alu!Signed(a) < Alu!Signed(b) <=> a >= H)
    BY <1>2, <1>4, <1>6
  <2>. QED  BY <2>3, <2>4
<1>. QED  BY <1>5, <1>6

LEMMA SameTruth == ASSUME NEW P \in BOOLEAN, NEW R \in BOOLEAN, P <=> R PROVE P = R
OBVIOUS

LEMMA Comparisons ==
  ASSUME NEW op \in Alu!AluOps, NEW a \in Alu!Word, NEW b \in Alu!Word
  PROVE  Alu!ComparesRight(op, a, b)
<1>. DEFINE signed == Alu!Signed(a) < Alu!Signed(b)
            unsigned == a < b
<1>1. signed \in BOOLEAN /\ unsigned \in BOOLEAN /\ (a # b) \in BOOLEAN
  BY AluWidths DEF Alu!Signed
<1>2. op # "ADD" => (Alu!lt_res(op, a, b) <=> IF op \in {"LTU", "GEU", "SLTU"} THEN unsigned ELSE signed)
  BY LessThan
<1>3. Alu!lt_res(op, a, b) \in BOOLEAN /\ Alu!neq_res(op, a, b) \in BOOLEAN
  <2>1. Alu!carry_out(op, a, b) \in BOOLEAN
    BY DEF Alu!carry_out
  <2>. QED  BY <2>1, Zenon DEF Alu!lt_res, Alu!neq_res
<1>. HIDE DEF signed, unsigned
<1>4. CASE op \in {"EQ", "NEQ"}
  <2>1. Alu!neq_res(op, a, b) <=> a # b
    BY <1>4, EqualWords
  <2>. QED  BY <1>3, <1>4, <2>1, Zenon DEF Alu!ComparesRight, Alu!m_branch_en, Alu!BranchOps
<1>5. CASE op \in {"LT", "GE"}
  <2>1. Alu!lt_res(op, a, b) <=> signed
    BY <1>2, <1>5, Zenon
  <2>2. Alu!lt_res(op, a, b) = signed
    BY <1>1, <1>3, <2>1, SameTruth, Zenon
  <2>. QED  BY <1>5, <2>2, Zenon DEF Alu!ComparesRight, Alu!m_branch_en, Alu!BranchOps, signed
<1>6. CASE op \in {"LTU", "GEU"}
  <2>1. Alu!lt_res(op, a, b) <=> unsigned
    BY <1>2, <1>6, Zenon
  <2>2. Alu!lt_res(op, a, b) = unsigned
    BY <1>1, <1>3, <2>1, SameTruth, Zenon
  <2>. QED  BY <1>6, <2>2, Zenon DEF Alu!ComparesRight, Alu!m_branch_en, Alu!BranchOps, unsigned
<1>7. CASE op \in {"SLT", "SLTU"}
  <2>1. Alu!m_res(op, a, b) = IF Alu!lt_res(op, a, b) THEN 1 ELSE 0
    BY <1>7, Zenon DEF Alu!m_res
  <2>2. ~ Alu!m_branch_en(op, a, b)
    BY <1>7, Zenon DEF Alu!m_branch_en
  <2>3. CASE op = "SLT"
    <3>1. Alu!lt_res(op, a, b) <=> signed
      BY <1>2, <2>3, Zenon
    <3>. QED  BY <2>1, <2>2, <2>3, <3>1, Zenon DEF Alu!ComparesRight, Alu!BranchOps, signed
  <2>4. CASE op = "SLTU"
    <3>1. Alu!lt_res(op, a, b) <=> unsigned
      BY <1>2, <2>4, Zenon
    <3>. QED  BY <2>1, <2>2, <2>4, <3>1, Zenon DEF Alu!ComparesRight, Alu!BranchOps, unsigned
  <2>. QED  BY <1>7, <2>3, <2>4
<1>8. CASE op \in {"ADD", "SUB", "XOR", "OR", "AND", "SLL", "SRL", "SRA", "ARG2"}
  BY <1>8, Zenon DEF Alu!ComparesRight, Alu!m_branch_en, Alu!BranchOps
<1>. QED  BY <1>4, <1>5, <1>6, <1>7, <1>8, Zenon DEF Alu!AluOps, Alu!BranchOps

-----------------------------------------------------------------------------
(***************************************************************************)
(* Products: the two halves of a product taken modulo four times its width.  *)
(***************************************************************************)
LEMMA Unique ==
  ASSUME NEW x \in Int, NEW m \in Nat \ {0}, NEW k \in Int, NEW r \in Nat, x = k * m + r, r < m
  PROVE  x \div m = k /\ x % m = r
<1>. DEFINE d == x \div m
            t == x % m
<1>1. d \in Int /\ t \in Nat /\ t < m /\ x = d * m + t
  OBVIOUS
<1>. HIDE DEF d, t
<1>2. ~ (d < k)
  <2>. SUFFICES ASSUME d < k PROVE FALSE
    OBVIOUS
  <2>1. (k - d - 1) * m >= 0
    BY <1>1
  <2>. QED  BY <2>1, <1>1
<1>3. ~ (k < d)
  <2>. SUFFICES ASSUME k < d PROVE FALSE
    OBVIOUS
  <2>1. (d - k - 1) * m >= 0
    BY <1>1
  <2>. QED  BY <2>1, <1>1
<1>4. d = k
  BY <1>1, <1>2, <1>3
<1>5. t = r
  BY <1>1, <1>4
<1>. QED  BY <1>4, <1>5 DEF d, t

LEMMA ModuloMultiple ==
  ASSUME NEW x \in Int, NEW m \in Nat \ {0}, NEW k \in Nat \ {0}
  PROVE  /\ (x % (k * m)) % m = x % m
         /\ (x % (k * m)) \div m = (x \div m) % k
<1>. DEFINE d == x \div m
            t == x % m
            e == d \div k
            s == d % k
<1>1. d \in Int /\ t \in Nat /\ t < m /\ x = d * m + t
  OBVIOUS
<1>. HIDE DEF d, t
<1>2. e \in Int /\ s \in Nat /\ s < k /\ d = e * k + s
  BY <1>1
<1>. HIDE DEF e, s
<1>3. x = e * (k * m) + (s * m + t)
  BY <1>1, <1>2
<1>4. s * m + t \in Nat /\ s * m + t < k * m
  <2>1. (k - s - 1) * m >= 0
    BY <1>2
  <2>. QED  BY <1>1, <1>2, <2>1
<1>5. k * m \in Nat \ {0}
  OBVIOUS
<1>6. x % (k * m) = s * m + t
  BY <1>2, <1>3, <1>4, <1>5, Unique
<1>7. (s * m + t) \div m = s /\ (s * m + t) % m = t
  BY <1>1, <1>2, <1>4, Unique
<1>. QED  BY <1>6, <1>7 DEF d, t, s

LEMMA Products ==
  ASSUME NEW op \in Alu!MulOps, NEW a \in Alu!Word, NEW b \in Alu!Word
  PROVE  Alu!MultipliesRight(op, a, b)
<1>. DEFINE Z == Alu!Size
            x == IF op = "MULHU" THEN a ELSE Alu!Signed(a)
            y == IF op \in {"MULHU", "MULHSU"} THEN b ELSE Alu!Signed(b)
            p == x * y
<1>1. Z \in Nat \ {0} /\ a \in Int /\ b \in Int /\ Alu!Signed(a) \in Int /\ Alu!Signed(b) \in Int
  BY AluWidths DEF Alu!Signed
<1>2. Alu!mul_op_a(op, a) = x /\ Alu!mul_op_b(op, b) = y
  BY DEF Alu!MulOps, Alu!mul_op_a, Alu!mul_op_b
<1>3. x \in Int /\ y \in Int
  BY <1>1
<1>4. Alu!mul_result_wide(op, a, b) = p % (4 * Z * Z)
  BY <1>2 DEF Alu!mul_result_wide
<1>5. /\ op = "MUL" => Alu!mul_result(op, a, b) = (p % (4 * Z * Z)) % Z
      /\ op # "MUL" => Alu!mul_result(op, a, b) = ((p % (4 * Z * Z)) \div Z) % Z
  BY <1>4 DEF Alu!mul_result
<1>6. Alu!MultipliesRight(op, a, b)
        <=> Alu!mul_result(op, a, b) = (IF op = "MUL" THEN p ELSE p \div Z) % Z
  BY DEF Alu!MultipliesRight
<1>. HIDE DEF Z, x, y
<1>7. p \in Int
  BY <1>3
<1>. HIDE DEF p
<1>8. 4 * Z \in Nat \ {0} /\ 4 \in Nat \ {0} /\ p \div Z \in Int
  BY <1>1, <1>7
<1>9. (p % (4 * Z * Z)) % Z = p % Z /\ (p % (4 * Z * Z)) \div Z = (p \div Z) % (4 * Z)
  <2>1. \A k \in Nat \ {0} : (p % (k * Z)) % Z = p % Z /\ (p % (k * Z)) \div Z = (p \div Z) % k
    BY <1>1, <1>7, ModuloMultiple
  <2>. QED  BY <1>8, <2>1, Zenon
<1>10. ((p \div Z) % (4 * Z)) % Z = (p \div Z) % Z
  BY <1>1, <1>8, ModuloMultiple
<1>. QED  BY <1>5, <1>6, <1>9, <1>10

-----------------------------------------------------------------------------
(***************************************************************************)
(* The load/store unit.                                                      *)
(***************************************************************************)
Parameters ==
  /\ Words \in Nat \ {0}
  /\ ByteSize \in Nat \ {0}
  /\ StoreData \subseteq Lsu!Register

MemoryType == ram \in [0 .. Words - 1 -> Lsu!Register]

-----------------------------------------------------------------------------
(* Addresses: a word number and a lane.                                      *)
LEMMA AddressFacts ==
  ASSUME Parameters, NEW a \in Lsu!ByteAddr
  PROVE  /\ a \in Nat /\ a \div 4 \in 0 .. Words - 1 /\ a % 4 \in Lsu!Lanes
         /\ a = 4 * (a \div 4) + (a % 4)
         /\ a % 2 = (a % 4) % 2 /\ a % 1 = 0
BY DEF Parameters, Lsu!ByteAddr, Lsu!Lanes

(* The k-th byte from the aligned address on, for an access of n bytes.      *)
LEMMA AlignedAddress ==
  ASSUME Parameters, NEW a \in Lsu!ByteAddr, NEW n \in {1, 2, 4}, NEW k \in 0 .. n - 1
  PROVE  LET f == a - (a % n) IN
         /\ f + k \in Lsu!ByteAddr
         /\ (f + k) \div 4 = a \div 4
         /\ (f + k) % 4 = (a % 4) - ((a % 4) % n) + k
<1> DEFINE d == a \div 4
           r == a % 4
<1>1. a \in Nat /\ d \in Nat /\ d < Words /\ r \in {0, 1, 2, 3} /\ a = 4 * d + r /\ Words \in Nat
  BY AddressFacts DEF Lsu!Lanes, Parameters
<1>2. n \in {1, 2, 4} /\ k \in {0, 1, 2, 3} /\ k < n
  OBVIOUS
<1>3. a % n = r % n
  BY <1>1, <1>2
<1>4. PICK e \in 0 .. 3 : e = r - (r % n) + k
  BY <1>1, <1>2
<1>5. a - (a % n) + k = 4 * d + e
  BY <1>1, <1>2, <1>3, <1>4
<1>6. 4 * d + e \in Lsu!ByteAddr /\ (4 * d + e) \div 4 = d /\ (4 * d + e) % 4 = e
  BY <1>1 DEF Lsu!ByteAddr
<1>7. QED
  BY <1>4, <1>5, <1>6

-----------------------------------------------------------------------------
(* Loads.                                                                    *)
ByteArray == [a \in Lsu!ByteAddr |-> ram[a \div 4][a % 4]]

LEMMA LengthType == \A op \in Lsu!Stores \cup Lsu!Loads : Lsu!Bytes!Length(op) \in {1, 2, 4}
BY DEF Lsu!Bytes!Length

LEMMA ByteAt ==
  ASSUME Parameters, NEW op \in Lsu!Stores \cup Lsu!Loads, NEW a \in Lsu!ByteAddr,
         NEW k \in 0 .. Lsu!Bytes!Length(op) - 1
  PROVE  ByteArray[Lsu!Bytes!First(op, a) + k] =
           ram[a \div 4][(a % 4) - ((a % 4) % Lsu!Bytes!Length(op)) + k]
BY LengthType, AlignedAddress DEF ByteArray, Lsu!Bytes!First

(* The bytes the unit extracts from the word are those of the byte array.    *)
LEMMA LoadRight ==
  ASSUME Parameters, MemoryType, NEW op \in Lsu!Loads, NEW a \in Lsu!ByteAddr
  PROVE  Lsu!extract(op, a, ram[a \div 4]) = Lsu!Bytes!Extended(op, a)
<1> DEFINE m == ram[a \div 4]
           r == a % 4
           n == Lsu!Bytes!Length(op)
           at(k) == ByteArray[Lsu!Bytes!First(op, a) + k]
           top == ByteArray[Lsu!Bytes!First(op, a) + n - 1]
           fill == IF op \in {"LOAD_BYTE", "LOAD_HALFWORD"} /\ top >= ByteSize \div 2
                   THEN ByteSize - 1 ELSE 0
<1>1. r \in {0, 1, 2, 3} /\ m \in [Lsu!Lanes -> Lsu!Byte]
  BY AddressFacts DEF Lsu!Lanes, MemoryType, Lsu!Register
<1>2. Lsu!Bytes!Extended(op, a) = [l \in Lsu!Lanes |-> IF l < n THEN at(l) ELSE fill]
  BY DEF Lsu!Bytes!Extended, ByteArray, Lsu!Bytes!Lanes, Lsu!Lanes
<1>3. n \in {1, 2, 4} /\ Lsu!Bytes!First(op, a) \in Int
  BY LengthType, AddressFacts DEF Lsu!Bytes!First
<1>4. \A k \in 0 .. n - 1 : at(k) = m[r - (r % n) + k]
  BY ByteAt
<1>5. top = at(n - 1)
  BY <1>3
<1>6. CASE op = "LOAD_WORD"
  <2>1. n = 4
    BY <1>6 DEF Lsu!Bytes!Length
  <2>2. \A l \in Lsu!Lanes : l < 4 /\ at(l) = m[l]
    BY <1>1, <1>4, <2>1 DEF Lsu!Lanes
  <2>3. m = [l \in Lsu!Lanes |-> m[l]]
    BY <1>1
  <2>4. Lsu!extract(op, a, m) = m
    BY <1>6 DEF Lsu!extract
  <2>5. QED
    BY <1>2, <2>1, <2>2, <2>3, <2>4
<1>7. CASE op \in {"LOAD_HALFWORD", "LOAD_HALFWORD_UNSIGNED"}
  <2>1. n = 2
    BY <1>7 DEF Lsu!Bytes!Length
  <2>2. at(0) = Lsu!Half(m, a)[1] /\ at(1) = Lsu!Half(m, a)[2]
    BY <1>1, <1>4, <2>1 DEF Lsu!Half
  <2>3. fill = IF op = "LOAD_HALFWORD" THEN Lsu!SignFill(Lsu!Half(m, a)[2]) ELSE 0
    BY <1>5, <1>7, <2>1, <2>2 DEF Lsu!SignFill
  <2>4. Lsu!extract(op, a, m) = Lsu!Extend(Lsu!Half(m, a), 2, fill)
    BY <1>7, <2>3 DEF Lsu!extract
  <2>5. \A l \in Lsu!Lanes : l < 2 => at(l) = Lsu!Half(m, a)[l + 1]
    BY <2>2 DEF Lsu!Lanes
  <2>6. QED
    BY <1>2, <2>1, <2>4, <2>5 DEF Lsu!Extend
<1>8. CASE op \in {"LOAD_BYTE", "LOAD_BYTE_UNSIGNED"}
  <2>1. n = 1
    BY <1>8 DEF Lsu!Bytes!Length
  <2>2. at(0) = m[r]
    BY <1>1, <1>4, <2>1
  <2>3. fill = IF op = "LOAD_BYTE" THEN Lsu!SignFill(m[r]) ELSE 0
    BY <1>5, <1>8, <2>1, <2>2 DEF Lsu!SignFill
  <2>4. Lsu!extract(op, a, m) = Lsu!Extend(<<m[r]>>, 1, fill)
    BY <1>8, <2>3 DEF Lsu!extract
  <2>5. \A l \in Lsu!Lanes : l < 1 => at(l) = <<m[r]>>[l + 1]
    BY <2>2 DEF Lsu!Lanes
  <2>6. QED
    BY <1>2, <2>1, <2>4, <2>5 DEF Lsu!Extend
<1>9. QED
  BY <1>6, <1>7, <1>8 DEF Lsu!Loads

-----------------------------------------------------------------------------
(* Stores.  The lanes the mask enables are the bytes the store covers.       *)
LEMMA LanesCovered ==
  ASSUME Parameters, NEW op \in Lsu!Stores, NEW a \in Lsu!ByteAddr, NEW b \in Lsu!ByteAddr
  PROVE  LET f == Lsu!Bytes!First(op, a) IN
         /\ b \in f .. f + Lsu!Bytes!Length(op) - 1
              <=> (b \div 4 = a \div 4 /\ b % 4 \in Lsu!write_mask(op, a))
         /\ b \in f .. f + Lsu!Bytes!Length(op) - 1 => b - f \in Lsu!Lanes
         /\ \A v \in Lsu!Register : b \in f .. f + Lsu!Bytes!Length(op) - 1 =>
              Lsu!write_data(op, v)[b % 4] = v[b - f]
<1> DEFINE d == a \div 4
           r == a % 4
           e == b \div 4
           l == b % 4
           n == Lsu!Bytes!Length(op)
           f == Lsu!Bytes!First(op, a)
<1>1. /\ a \in Nat /\ d \in Nat /\ r \in {0, 1, 2, 3} /\ a = 4 * d + r
      /\ b \in Nat /\ e \in Nat /\ l \in {0, 1, 2, 3} /\ b = 4 * e + l
      /\ a % 2 = r % 2 /\ a % 1 = 0 /\ a % 4 = r
  BY AddressFacts DEF Lsu!Lanes
<1>2. CASE op = "STORE_WORD"
  <2>1. n = 4 /\ f = 4 * d
    BY <1>1, <1>2 DEF Lsu!Bytes!Length, Lsu!Bytes!First
  <2>2. Lsu!write_mask(op, a) = {0, 1, 2, 3} /\ \A v \in Lsu!Register : Lsu!write_data(op, v) = v
    BY <1>2 DEF Lsu!write_mask, Lsu!write_data, Lsu!Lanes
  <2>3. b \in f .. f + n - 1 <=> e = d
    BY <1>1, <2>1
  <2>4. e = d => b - f = l
    BY <1>1, <2>1
  <2>5. QED
    BY <1>1, <2>2, <2>3, <2>4 DEF Lsu!Lanes
<1>3. CASE op = "STORE_HALFWORD"
  <2> DEFINE h == IF r >= 2 THEN 2 ELSE 0
  <2>1. n = 2 /\ f = 4 * d + h
    BY <1>1, <1>3 DEF Lsu!Bytes!Length, Lsu!Bytes!First
  <2>2. Lsu!write_mask(op, a) = {h, h + 1}
    <3>1. CASE r >= 2
      <4>1. a % 4 >= 2 /\ ~(a % 4 < 2)
        BY <1>1, <3>1
      <4>2. Lsu!write_mask(op, a) = {2, 3}
        BY <1>3, <4>1 DEF Lsu!write_mask
      <4>3. QED
        BY <3>1, <4>2
    <3>2. CASE r < 2
      <4>1. a % 4 < 2 /\ ~(a % 4 >= 2)
        BY <1>1, <3>2
      <4>2. Lsu!write_mask(op, a) = {0, 1}
        BY <1>3, <4>1 DEF Lsu!write_mask
      <4>3. QED
        BY <1>1, <3>2, <4>2
    <3>3. QED
      BY <1>1, <3>1, <3>2
  <2>3. b \in f .. f + n - 1 <=> e = d /\ l \in {h, h + 1}
    BY <1>1, <2>1
  <2>4. b \in f .. f + n - 1 => b - f = l % 2 /\ b - f \in {0, 1}
    BY <1>1, <2>1
  <2>5. \A v \in Lsu!Register : Lsu!write_data(op, v)[l] = v[l % 2]
    BY <1>1, <1>3 DEF Lsu!write_data, Lsu!Lanes
  <2>6. QED
    BY <2>2, <2>3, <2>4, <2>5 DEF Lsu!Lanes
<1>4. CASE op = "STORE_BYTE"
  <2>1. n = 1 /\ f = 4 * d + r
    BY <1>1, <1>4 DEF Lsu!Bytes!Length, Lsu!Bytes!First
  <2>2. Lsu!write_mask(op, a) = {r}
    BY <1>4 DEF Lsu!write_mask
  <2>3. b \in f .. f + n - 1 <=> e = d /\ l = r
    BY <1>1, <2>1
  <2>4. b \in f .. f + n - 1 => b - f = 0
    BY <1>1, <2>1
  <2>5. \A v \in Lsu!Register : Lsu!write_data(op, v)[l] = v[0]
    BY <1>1, <1>4 DEF Lsu!write_data, Lsu!Lanes
  <2>6. QED
    BY <2>2, <2>3, <2>4, <2>5 DEF Lsu!Lanes
<1>5. QED
  BY <1>2, <1>3, <1>4 DEF Lsu!Stores

(* What the port writes for the request r.                                   *)
Written(r) ==
  [ram EXCEPT ![r.addr \div 4] =
     [l \in Lsu!Lanes |-> IF l \in Lsu!write_mask(r.op, r.addr)
                      THEN Lsu!write_data(r.op, r.data)[l] ELSE @[l]]]

LEMMA WrittenBytes ==
  ASSUME Parameters, MemoryType, NEW r \in Lsu!Requests, NEW b \in Lsu!ByteAddr
  PROVE  Written(r)[b \div 4][b % 4] =
           IF b \div 4 = r.addr \div 4 /\ b % 4 \in Lsu!write_mask(r.op, r.addr)
           THEN Lsu!write_data(r.op, r.data)[b % 4] ELSE ByteArray[b]
<1>1. r.addr \in Lsu!ByteAddr
  BY DEF Lsu!Requests
<1>2. /\ r.addr \div 4 \in 0 .. Words - 1 /\ b \div 4 \in 0 .. Words - 1 /\ b % 4 \in Lsu!Lanes
  BY <1>1, AddressFacts
<1>3. QED
  BY <1>2 DEF Written, MemoryType, ByteArray

LEMMA StoreStep ==
  ASSUME Parameters, MemoryType, NEW r \in Lsu!Requests, r.op \in Lsu!Stores, ram' = Written(r)
  PROVE  ByteArray' =
           [b \in Lsu!ByteAddr |->
              IF b \in Lsu!Bytes!First(r.op, r.addr)
                         .. Lsu!Bytes!First(r.op, r.addr) + Lsu!Bytes!Length(r.op) - 1
              THEN r.data[b - Lsu!Bytes!First(r.op, r.addr)] ELSE ByteArray[b]]
<1>1. r.addr \in Lsu!ByteAddr /\ r.data \in Lsu!Register
  BY DEF Lsu!Requests, Parameters, Lsu!Stores, Lsu!Loads
<1>2. ByteArray' = [b \in Lsu!ByteAddr |-> Written(r)[b \div 4][b % 4]]
  BY DEF ByteArray
<1>3. QED
  BY <1>1, <1>2, WrittenBytes, LanesCovered

LEMMA LoadStep ==
  ASSUME Parameters, MemoryType, NEW r \in Lsu!Requests, r.op \in Lsu!Loads, ram' = Written(r)
  PROVE  ByteArray' = ByteArray
<1>1. Lsu!write_mask(r.op, r.addr) = {}
  BY DEF Lsu!write_mask, Lsu!Loads
<1>2. ByteArray' = [b \in Lsu!ByteAddr |-> Written(r)[b \div 4][b % 4]]
  BY DEF ByteArray
<1>3. QED
  BY <1>1, <1>2, WrittenBytes DEF ByteArray

-----------------------------------------------------------------------------
(* The refinement.                                                           *)
LEMMA WrittenType ==
  ASSUME Parameters, MemoryType, NEW r \in Lsu!Requests PROVE Written(r) \in [0 .. Words - 1 -> Lsu!Register]
<1> DEFINE w == r.addr \div 4
           new == [l \in Lsu!Lanes |-> IF l \in Lsu!write_mask(r.op, r.addr)
                                   THEN Lsu!write_data(r.op, r.data)[l] ELSE ram[w][l]]
<1>1. r.addr \in Lsu!ByteAddr /\ r.data \in Lsu!Register
  BY DEF Lsu!Requests, Parameters, Lsu!Register, Lsu!Zero, Lsu!Byte
<1>2. w \in 0 .. Words - 1 /\ ram[w] \in [Lsu!Lanes -> Lsu!Byte]
  BY <1>1, AddressFacts DEF MemoryType, Lsu!Register
<1>3. \A l \in Lsu!Lanes : Lsu!write_data(r.op, r.data)[l] \in Lsu!Byte
  <2>1. CASE r.op = "STORE_WORD"
    BY <1>1, <2>1 DEF Lsu!write_data, Lsu!Register
  <2>2. CASE r.op = "STORE_HALFWORD"
    <3>1. \A l \in Lsu!Lanes : l % 2 \in Lsu!Lanes
      BY DEF Lsu!Lanes
    <3>2. QED
      BY <1>1, <2>2, <3>1 DEF Lsu!write_data, Lsu!Register
  <2>3. CASE r.op \notin {"STORE_WORD", "STORE_HALFWORD"}
    <3>1. 0 \in Lsu!Lanes
      BY DEF Lsu!Lanes
    <3>2. QED
      BY <1>1, <2>3, <3>1 DEF Lsu!write_data, Lsu!Register
  <2>4. QED
    BY <2>1, <2>2, <2>3
<1>4. new \in Lsu!Register
  BY <1>2, <1>3 DEF Lsu!Register
<1>5. Written(r) = [ram EXCEPT ![w] = new]
  BY DEF Written
<1>6. QED
  BY <1>2, <1>4, <1>5 DEF MemoryType

LEMMA MemoryTypeStep == ASSUME Parameters, MemoryType, [Lsu!Next]_(Lsu!vars) PROVE MemoryType'
<1>1. CASE UNCHANGED Lsu!vars
  BY <1>1 DEF MemoryType, Lsu!vars
<1>2. ASSUME NEW r \in Lsu!Requests, Lsu!Grant(r) PROVE MemoryType'
  <2>1. ram' = Written(r)
    BY <1>2 DEF Lsu!Grant, Written
  <2>2. QED
    BY <2>1, WrittenType DEF MemoryType
<1>3. ASSUME NEW r \in Lsu!Requests, Lsu!Wait(r) PROVE MemoryType'
  BY <1>3 DEF Lsu!Wait, MemoryType
<1>4. CASE Lsu!Quiet
  BY <1>4 DEF Lsu!Quiet, MemoryType
<1>5. QED
  BY <1>1, <1>2, <1>3, <1>4 DEF Lsu!Next

LEMMA GrantStep ==
  ASSUME Parameters, MemoryType, NEW r \in Lsu!Requests, Lsu!Grant(r) PROVE Lsu!Bytes!Next
<1>1. MemoryType /\ ram' = Written(r) /\ r.addr \in Lsu!ByteAddr /\ r.op \in Lsu!Stores \cup Lsu!Loads
  BY DEF Lsu!Grant, Written, Lsu!Requests
<1>2. ack' /\ Lsu!read_data' = Lsu!extract(r.op, r.addr, ram[r.addr \div 4])
  BY DEF Lsu!Grant, Lsu!Remember, Lsu!read_data
<1>3. CASE r.op \in Lsu!Stores
  <2>1. Lsu!read_data' = Lsu!Zero
    BY <1>2, <1>3 DEF Lsu!extract, Lsu!Stores
  <2>2. r.data \in StoreData
    BY <1>3 DEF Lsu!Requests, Lsu!Stores, Lsu!Loads
  <2>3. Lsu!Bytes!Store(r.op, r.addr, r.data)
    BY <1>1, <1>2, <1>3, <2>1, StoreStep
       DEF Lsu!Bytes!Store, ByteArray, Lsu!Bytes!NoReply, Lsu!Zero, Lsu!Bytes!Lanes, Lsu!Lanes,
           Lsu!Bytes!ByteAddr, Lsu!ByteAddr
  <2>4. QED
    BY <1>1, <1>3, <2>2, <2>3 DEF Lsu!Bytes!Next, Lsu!Bytes!Stores, Lsu!Stores, Lsu!Bytes!ByteAddr, Lsu!ByteAddr
<1>4. CASE r.op \in Lsu!Loads
  <2>1. Lsu!Bytes!Load(r.op, r.addr)
    BY <1>1, <1>2, <1>4, LoadStep, LoadRight DEF Lsu!Bytes!Load, ByteArray
  <2>2. QED
    BY <1>1, <1>4, <2>1 DEF Lsu!Bytes!Next, Lsu!Bytes!Loads, Lsu!Loads, Lsu!Bytes!ByteAddr, Lsu!ByteAddr
<1>5. QED
  BY <1>1, <1>3, <1>4

LEMMA IdleStep == ASSUME ~ack', ram' = ram PROVE Lsu!Bytes!Idle
BY DEF Lsu!Bytes!Idle, Lsu!Bytes!NoReply, Lsu!Zero, Lsu!Bytes!Lanes, Lsu!Lanes

LEMMA BytesStep ==
  ASSUME Parameters, MemoryType, [Lsu!Next]_(Lsu!vars)
  PROVE  [Lsu!Bytes!Next]_<<ByteArray, IF ack THEN [answered |-> TRUE, data |-> Lsu!read_data]
                                          ELSE [answered |-> FALSE, data |-> Lsu!Zero]>>
<1>1. CASE UNCHANGED Lsu!vars
  BY <1>1 DEF Lsu!vars, ByteArray, Lsu!read_data
<1>2. ASSUME NEW r \in Lsu!Requests, Lsu!Grant(r) PROVE Lsu!Bytes!Next
  BY <1>2, GrantStep
<1>3. ASSUME NEW r \in Lsu!Requests, Lsu!Wait(r) PROVE Lsu!Bytes!Next
  BY <1>3, IdleStep DEF Lsu!Wait, Lsu!Bytes!Next
<1>4. CASE Lsu!Quiet
  BY <1>4, IdleStep DEF Lsu!Quiet, Lsu!Bytes!Next
<1>5. QED
  BY <1>1, <1>2, <1>3, <1>4 DEF Lsu!Next

LEMMA BytesInit == ASSUME Parameters, Lsu!Init PROVE Lsu!Bytes!Init
<1>1. ByteArray = [a \in Lsu!ByteAddr |-> 0]
  BY AddressFacts DEF Lsu!Init, ByteArray, Lsu!Zero
<1>2. QED
  BY <1>1 DEF Lsu!Init, Lsu!Bytes!Init, ByteArray, Lsu!Bytes!NoReply, Lsu!Zero, Lsu!Bytes!Lanes, Lsu!Lanes,
              Lsu!Bytes!ByteAddr, Lsu!ByteAddr

(***************************************************************************)
(* The theorems.                                                             *)
(***************************************************************************)
(* The operands do not change while a unit works, so the values computed are   *)
(* right if they are for all operands.                                         *)
LEMMA OperandsKept == UnitsSpec => [](operands \in Operations)
<1>1. UnitsInit => operands \in Operations
  BY AluWidths DEF UnitsInit, Operations, Alu!AluOps
<1>2. operands \in Operations /\ [UnitsNext]_<<vars, lsu_vars, unit, operands>> => (operands \in Operations)'
  BY DEF UnitsNext
<1>. QED  BY <1>1, <1>2, PTL DEF UnitsSpec

(* Comparisons, branches and products are those of the integers that the       *)
(* operands stand for (IALU, IMUL), whatever the width of a word: the borrow     *)
(* and the sign bits order signed and unsigned numbers, no bit of an exclusive   *)
(* or is set only when words are equal, and one signed multiplication gives the   *)
(* low and the high word of all four products.                                  *)
THEOREM UnitsCompute == UnitsSpec => []ComputesRight
<1>1. operands \in Operations => ComputesRight
  <2>. SUFFICES ASSUME operands \in Operations PROVE ComputesRight
    OBVIOUS
  <2>1. /\ operands.op \in Alu!AluOps \cup Alu!MulOps
        /\ operands.a \in Alu!Word /\ operands.b \in Alu!Word
    BY DEF Operations
  <2>. QED  BY <2>1, Comparisons, Products DEF ComputesRight
<1>. QED  BY <1>1, OperandsKept, PTL

(* The load/store unit gives software an array of bytes: a store changes the   *)
(* bytes it covers and no others, a load gives them extended, whatever the       *)
(* alignment, the latency and the requests shown in the meantime.                *)
THEOREM LsuImplementsBytes == UnitsSpec => ImplementsBytes
<1>. DEFINE reply == IF ack THEN [answered |-> TRUE, data |-> Lsu!read_data]
                            ELSE [answered |-> FALSE, data |-> Lsu!Zero]
<1>0. Parameters
  BY UnitsAssumption DEF Parameters, Lsu!Register, Lsu!Lanes, Lsu!Byte
<1>1. UnitsInit => Lsu!Init
  BY DEF UnitsInit
<1>2. [UnitsNext]_<<vars, lsu_vars, unit, operands>> => [Lsu!Next]_(Lsu!vars)
  BY DEF UnitsNext, lsu_vars, Lsu!vars
<1>3. Lsu!Init => MemoryType
  BY <1>0 DEF Lsu!Init, MemoryType, Lsu!Register, Lsu!Zero, Lsu!Byte, Parameters
<1>4. MemoryType /\ [Lsu!Next]_(Lsu!vars) => MemoryType'
  BY <1>0, MemoryTypeStep
<1>5. Lsu!Init => Lsu!Bytes!Init
  BY <1>0, BytesInit
<1>6. MemoryType /\ [Lsu!Next]_(Lsu!vars) => [Lsu!Bytes!Next]_<<ByteArray, reply>>
  BY <1>0, BytesStep
<1>. QED
  BY <1>1, <1>2, <1>3, <1>4, <1>5, <1>6, PTL
     DEF UnitsSpec, ImplementsBytes, Lsu!ImplementsBytes, Lsu!Bytes!Spec, ByteArray
=============================================================================
