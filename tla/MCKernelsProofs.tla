---------------------------- MODULE MCKernelsProofs ----------------------------
(***************************************************************************)
(* Proofs about the kernels of CoreMark (MCKernels), for blocks of any size, any      *)
(* seeds and any constants: the scan of the text stays in the block and classifies     *)
(* every token by its form, text and matrix are restored, and a wrong result shows in   *)
(* the chained crc. The list is checked by TLC alone.                               *)
(***************************************************************************)
EXTENDS MCKernels, FunctionTheorems, FiniteSetTheorems, SequenceTheorems, TLAPS

(***************************************************************************)
(* Bytes and bits.                                                           *)
(***************************************************************************)
Char == 0 .. 255
Bit01 == {0, 1}
LEMMA CharFact == \A x : x \in Char <=> x \in Nat /\ x < 256
  BY DEF Char

LEMMA Powers ==
  2 ^ 0 = 1 /\ 2 ^ 1 = 2 /\ 2 ^ 2 = 4 /\ 2 ^ 3 = 8 /\ 2 ^ 4 = 16 /\ 2 ^ 5 = 32 /\ 2 ^ 6 = 64 /\ 2 ^ 7 = 128
  /\ 2 ^ 14 = 16384
  BY SMT

(* The byte with these bits. *)
Joined(b0, b1, b2, b3, b4, b5, b6, b7) ==
  b0 + 2 * b1 + 4 * b2 + 8 * b3 + 16 * b4 + 32 * b5 + 64 * b6 + 128 * b7

AreBits(b0, b1, b2, b3, b4, b5, b6, b7) ==
  /\ b0 \in Bit01 /\ b1 \in Bit01 /\ b2 \in Bit01 /\ b3 \in Bit01
  /\ b4 \in Bit01 /\ b5 \in Bit01 /\ b6 \in Bit01 /\ b7 \in Bit01

LEMMA BitsOfJoined ==
  \A b0, b1, b2, b3, b4, b5, b6, b7, x :
    AreBits(b0, b1, b2, b3, b4, b5, b6, b7) /\ x = Joined(b0, b1, b2, b3, b4, b5, b6, b7) =>
    /\ x \in Char
    /\ BitOf(x, 0) = b0 /\ BitOf(x, 1) = b1 /\ BitOf(x, 2) = b2 /\ BitOf(x, 3) = b3
    /\ BitOf(x, 4) = b4 /\ BitOf(x, 5) = b5 /\ BitOf(x, 6) = b6 /\ BitOf(x, 7) = b7
<1> SUFFICES
      ASSUME NEW b0, NEW b1, NEW b2, NEW b3, NEW b4, NEW b5, NEW b6, NEW b7,
             AreBits(b0, b1, b2, b3, b4, b5, b6, b7),
             NEW x, x = Joined(b0, b1, b2, b3, b4, b5, b6, b7)
      PROVE  /\ x \in Char
             /\ BitOf(x, 0) = b0 /\ BitOf(x, 1) = b1 /\ BitOf(x, 2) = b2 /\ BitOf(x, 3) = b3
             /\ BitOf(x, 4) = b4 /\ BitOf(x, 5) = b5 /\ BitOf(x, 6) = b6 /\ BitOf(x, 7) = b7
  OBVIOUS
<1> USE DEF AreBits
<1>0. x \in Nat /\ x < 256  BY DEF Joined, Bit01
<1>1. x \in Char  BY <1>0, CharFact
<1>2. BitOf(x, 0) = b0 /\ BitOf(x, 1) = b1 /\ BitOf(x, 2) = b2 /\ BitOf(x, 3) = b3
  BY Powers, SMTT(60) DEF Joined, BitOf, Bit01
<1>3. BitOf(x, 4) = b4 /\ BitOf(x, 5) = b5 /\ BitOf(x, 6) = b6 /\ BitOf(x, 7) = b7
  BY Powers, SMTT(60) DEF Joined, BitOf, Bit01
<1> QED  BY <1>1, <1>2, <1>3

LEMMA CharOfBits ==
  ASSUME NEW x \in Char
  PROVE  /\ BitOf(x, 0) \in Bit01 /\ BitOf(x, 1) \in Bit01 /\ BitOf(x, 2) \in Bit01 /\ BitOf(x, 3) \in Bit01
         /\ BitOf(x, 4) \in Bit01 /\ BitOf(x, 5) \in Bit01 /\ BitOf(x, 6) \in Bit01 /\ BitOf(x, 7) \in Bit01
         /\ x = Joined(BitOf(x, 0), BitOf(x, 1), BitOf(x, 2), BitOf(x, 3),
                       BitOf(x, 4), BitOf(x, 5), BitOf(x, 6), BitOf(x, 7))
<1>0. x \in Nat /\ x < 256  BY CharFact
<1>1. /\ BitOf(x, 0) \in Bit01 /\ BitOf(x, 1) \in Bit01 /\ BitOf(x, 2) \in Bit01 /\ BitOf(x, 3) \in Bit01
      /\ BitOf(x, 4) \in Bit01 /\ BitOf(x, 5) \in Bit01 /\ BitOf(x, 6) \in Bit01 /\ BitOf(x, 7) \in Bit01
  BY <1>0, Powers DEF BitOf, Bit01
<1> DEFINE y(n) == x \div n
<1>2. /\ y(1) = x /\ y(1) = 2 * y(2) + BitOf(x, 0) /\ y(2) = 2 * y(4) + BitOf(x, 1)
      /\ y(4) = 2 * y(8) + BitOf(x, 2) /\ y(8) = 2 * y(16) + BitOf(x, 3)
  BY <1>0, Powers, SMTT(60) DEF BitOf
<1>3. /\ y(16) = 2 * y(32) + BitOf(x, 4) /\ y(32) = 2 * y(64) + BitOf(x, 5)
      /\ y(64) = 2 * y(128) + BitOf(x, 6) /\ y(128) = BitOf(x, 7)
  BY <1>0, Powers, SMTT(60) DEF BitOf
<1>4. x = Joined(BitOf(x, 0), BitOf(x, 1), BitOf(x, 2), BitOf(x, 3),
                 BitOf(x, 4), BitOf(x, 5), BitOf(x, 6), BitOf(x, 7))
  <2>1. y(1) \in Int /\ y(2) \in Int /\ y(4) \in Int /\ y(8) \in Int /\ y(16) \in Int /\ y(32) \in Int
        /\ y(64) \in Int /\ y(128) \in Int
    BY <1>0
  <2>2. /\ BitOf(x, 0) \in Int /\ BitOf(x, 1) \in Int /\ BitOf(x, 2) \in Int /\ BitOf(x, 3) \in Int
        /\ BitOf(x, 4) \in Int /\ BitOf(x, 5) \in Int /\ BitOf(x, 6) \in Int /\ BitOf(x, 7) \in Int
    BY <1>1 DEF Bit01
  <2> HIDE DEF y
  <2> QED  BY <1>2, <1>3, <2>1, <2>2, SMTT(60) DEF Joined
<1> QED  BY <1>1, <1>4

(* What is flipped twice is as it was (the corruption and its undoing).              *)
LEMMA XorTwice ==
  ASSUME NEW x \in Char, NEW y \in Char
  PROVE  Xor(x, y) \in Char /\ Xor(Xor(x, y), y) = x
<1> DEFINE z0 == (BitOf(x, 0) + BitOf(y, 0)) % 2
           z1 == (BitOf(x, 1) + BitOf(y, 1)) % 2
           z2 == (BitOf(x, 2) + BitOf(y, 2)) % 2
           z3 == (BitOf(x, 3) + BitOf(y, 3)) % 2
           z4 == (BitOf(x, 4) + BitOf(y, 4)) % 2
           z5 == (BitOf(x, 5) + BitOf(y, 5)) % 2
           z6 == (BitOf(x, 6) + BitOf(y, 6)) % 2
           z7 == (BitOf(x, 7) + BitOf(y, 7)) % 2
           u == Xor(x, y)
<1>1. u = Joined(z0, z1, z2, z3, z4, z5, z6, z7)
  BY DEF Xor, Bytewise, Joined
<1>2. AreBits(z0, z1, z2, z3, z4, z5, z6, z7)
  BY CharOfBits DEF Bit01, AreBits
<1>3. \A r, s \in Bit01 : (((r + s) % 2) + s) % 2 = r  BY DEF Bit01
<1>4. /\ (z0 + BitOf(y, 0)) % 2 = BitOf(x, 0) /\ (z1 + BitOf(y, 1)) % 2 = BitOf(x, 1)
      /\ (z2 + BitOf(y, 2)) % 2 = BitOf(x, 2) /\ (z3 + BitOf(y, 3)) % 2 = BitOf(x, 3)
      /\ (z4 + BitOf(y, 4)) % 2 = BitOf(x, 4) /\ (z5 + BitOf(y, 5)) % 2 = BitOf(x, 5)
      /\ (z6 + BitOf(y, 6)) % 2 = BitOf(x, 6) /\ (z7 + BitOf(y, 7)) % 2 = BitOf(x, 7)
  BY <1>3, CharOfBits
<1> HIDE DEF z0, z1, z2, z3, z4, z5, z6, z7
<1>5. /\ u \in Char
      /\ BitOf(u, 0) = z0 /\ BitOf(u, 1) = z1 /\ BitOf(u, 2) = z2 /\ BitOf(u, 3) = z3
      /\ BitOf(u, 4) = z4 /\ BitOf(u, 5) = z5 /\ BitOf(u, 6) = z6 /\ BitOf(u, 7) = z7
  <2> HIDE DEF u
  <2> QED  BY <1>1, <1>2, BitsOfJoined
<1> HIDE DEF u
<1>6. Xor(u, y) = Joined(BitOf(x, 0), BitOf(x, 1), BitOf(x, 2), BitOf(x, 3),
                         BitOf(x, 4), BitOf(x, 5), BitOf(x, 6), BitOf(x, 7))
  BY <1>4, <1>5 DEF Xor, Bytewise, Joined
<1>7. Xor(u, y) = x  BY <1>6, CharOfBits
<1> QED  BY <1>5, <1>7 DEF u

LEMMA Induction ==
  ASSUME NEW W, 0 \in W, \A n \in Nat : n \in W => n + 1 \in W
  PROVE  \A n \in Nat : n \in W
<1>. SUFFICES ASSUME NEW n \in Nat, n \notin W PROVE FALSE
  OBVIOUS
<1>. DEFINE U == {m \in 0 .. n : m \notin W}
            f == [m \in U |-> m - 1]
<1>1. \A m \in U : m - 1 \in U
  <2>. SUFFICES ASSUME NEW m \in U PROVE m - 1 \in U
    OBVIOUS
  <2>1. m \in Nat /\ m # 0 /\ m <= n
    OBVIOUS
  <2>2. m - 1 \in Nat /\ (m - 1) + 1 = m
    BY <2>1
  <2>3. m - 1 \notin W
    BY <2>2
  <2>. QED  BY <2>1, <2>2, <2>3
<1>2. IsFiniteSet(0 .. n)
  BY FS_Interval
<1>3. IsFiniteSet(U)
  BY <1>2, FS_Subset
<1>4. n \in U /\ U \subseteq Nat /\ \A m \in U : m <= n
  OBVIOUS
<1>. HIDE DEF U
<1>5. f \in Injection(U, U)
  <2>1. f \in [U -> U]
    BY <1>1
  <2>2. ASSUME NEW a \in U, NEW b \in U, f[a] = f[b] PROVE a = b
    <3>1. a - 1 = b - 1 /\ a \in Nat /\ b \in Nat
      BY <2>2, <1>4
    <3>. QED  BY <3>1
  <2>. QED  BY <2>1, <2>2, Fun_IsInj, Zenon
<1>. HIDE DEF f
<1>6. f \in Surjection(U, U)
  BY <1>3, <1>5, FS_Injection, Zenon
<1>7. \E m \in U : f[m] = n
  BY <1>4, <1>6 DEF Surjection
<1>. QED  BY <1>4, <1>7 DEF f

(***************************************************************************)
(* The walk over a token.                                                    *)
(***************************************************************************)
(* The defining equation of the recursion, as an operator of what it recurs on.          *)
WalkFrom(g, at) ==
  [s \in S!State |->
     IF at = TextSize \/ mem[at] \in {0, S!Comma} \/ s = S!INVALID THEN <<s>>
     ELSE <<s>> \o g[at + 1][S!Transition[s][mem[at]]]]

LEMMA SizeFact == TextSize \in Nat /\ TextSize > 2  BY KernelsAssumption

LEMMA Positions == \A at : at \in 0 .. TextSize <=> at \in Nat /\ at <= TextSize
  BY SizeFact

LEMMA WalkIs == S!Walk = CHOOSE g : g = [at \in 0 .. TextSize |-> WalkFrom(g, at)]
  BY DEF S!Walk, WalkFrom

(* The equation holds from a cell on, for cells that are ever further from the end.        *)
LEMMA WalkUnfolds ==
  /\ S!Walk = [at \in 0 .. TextSize |-> S!Walk[at]]
  /\ \A at \in 0 .. TextSize : S!Walk[at] = WalkFrom(S!Walk, at)
<1> DEFINE Holds(g, n) == \A at \in 0 .. TextSize : TextSize - at <= n => g[at] = WalkFrom(g, at)
           W == {n \in Nat : \E g : Holds(g, n)}
           Next2(g, n) == [at \in 0 .. TextSize |-> IF TextSize - at <= n THEN g[at] ELSE WalkFrom(g, at)]
<1>1. 0 \in W
  <2> DEFINE g == [at \in 0 .. TextSize |-> [s \in S!State |-> <<s>>]]
  <2>1. ASSUME NEW at \in 0 .. TextSize, TextSize - at <= 0 PROVE g[at] = WalkFrom(g, at)
    <3>1. at = TextSize  BY <2>1, SizeFact, Positions
    <3>2. g[at] = [s \in S!State |-> <<s>>]  OBVIOUS
    <3> HIDE DEF g
    <3>3. WalkFrom(g, at) = [s \in S!State |-> <<s>>]  BY <3>1 DEF WalkFrom
    <3> QED  BY <3>2, <3>3
  <2> HIDE DEF g
  <2> QED  BY <2>1
<1>2. ASSUME NEW n \in Nat, n \in W PROVE n + 1 \in W
  <2>1. PICK g : Holds(g, n)  BY <1>2
  <2> DEFINE h == Next2(g, n)
  <2>2. ASSUME NEW at \in 0 .. TextSize, TextSize - at <= n PROVE h[at] = WalkFrom(h, at)
    <3>1. h[at] = g[at] /\ g[at] = WalkFrom(g, at)  BY <2>1, <2>2
    <3>2. CASE at = TextSize  BY <3>1, <3>2 DEF WalkFrom
    <3>3. CASE at # TextSize
      <4>1. at + 1 \in 0 .. TextSize /\ TextSize - (at + 1) <= n  BY <2>2, <3>3, SizeFact, Positions
      <4>2. h[at + 1] = g[at + 1]  BY <4>1
      <4> HIDE DEF h
      <4> QED  BY <3>1, <4>2 DEF WalkFrom
    <3> QED  BY <3>2, <3>3
  <2>3. ASSUME NEW at \in 0 .. TextSize, TextSize - at <= n + 1, ~ (TextSize - at <= n)
        PROVE  h[at] = WalkFrom(h, at)
    <3>1. h[at] = WalkFrom(g, at)  BY <2>3
    <3>2. at + 1 \in 0 .. TextSize /\ TextSize - (at + 1) <= n  BY <2>3, SizeFact, Positions
    <3>3. h[at + 1] = g[at + 1]  BY <3>2
    <3> HIDE DEF h
    <3> QED  BY <3>1, <3>3 DEF WalkFrom
  <2> HIDE DEF h
  <2>4. Holds(h, n + 1)  BY <2>2, <2>3
  <2> QED  BY <2>4
<1> HIDE DEF W
<1>3 TextSize \in W
  <2>1. \A n \in Nat : n \in W => n + 1 \in W  BY <1>2
  <2>2. \A n \in Nat : n \in W  BY <1>1, <2>1, Induction
  <2> QED  BY <2>2, SizeFact
<1>4. PICK g : Holds(g, TextSize)  BY <1>3 DEF W
<1> DEFINE h == [at \in 0 .. TextSize |-> g[at]]
<1>5. ASSUME NEW at \in 0 .. TextSize PROVE h[at] = WalkFrom(h, at)
  <2>1. h[at] = g[at] /\ g[at] = WalkFrom(g, at)  BY <1>4, SizeFact, Positions
  <2>2. CASE at = TextSize  BY <2>1, <2>2 DEF WalkFrom
  <2>3. CASE at # TextSize
    <3>1. at + 1 \in 0 .. TextSize  BY <2>3, SizeFact, Positions
    <3>2. h[at + 1] = g[at + 1]  BY <3>1
    <3> HIDE DEF h
    <3> QED  BY <2>1, <3>2 DEF WalkFrom
  <2> QED  BY <2>2, <2>3
<1>6. h = [at \in 0 .. TextSize |-> WalkFrom(h, at)]
  <2> DEFINE r == [at \in 0 .. TextSize |-> WalkFrom(h, at)]
  <2>1. \A at \in 0 .. TextSize : h[at] = r[at]  BY <1>5
  <2> QED  BY <2>1
<1>7. S!Walk = [at \in 0 .. TextSize |-> WalkFrom(S!Walk, at)]
  <2> HIDE DEF h
  <2> QED  BY <1>6, WalkIs
<1> QED  BY <1>7

(* The machine stays in its states, on every character.                              *)
Machine(s, c) == S!Transition[s][c] = S!Move(s, c) /\ S!Move(s, c) \in S!State
LEMMA Machines == \A s \in S!State, c \in Char : Machine(s, c)
<1> SUFFICES ASSUME NEW s \in S!State, NEW c \in Char PROVE Machine(s, c)  OBVIOUS
<1>1. S!Transition[s][c] = S!Move(s, c)
  BY DEF S!Transition, Char
<1>2. S!Move(s, c) \in S!State
  BY DEF S!Move, S!State, S!START, S!INVALID, S!S1, S!S2, S!INT, S!FLOAT, S!EXPONENT, S!SCIENTIFIC
<1> QED  BY <1>1, <1>2 DEF Machine

(* What a walk from a cell and a state is: a sequence of states, each the machine's answer  *)
(* to the one before and the character between them, up to the end of the token.        *)
Ended(s, at) == s = S!INVALID \/ at = TextSize \/ mem[at] \in {0, S!Comma}
IsWalk(at, s, q) ==
  /\ q \in Seq(S!State) /\ Len(q) > 0 /\ q[1] = s /\ at + Len(q) - 1 <= TextSize
  /\ \A k \in Nat : k > 0 /\ k < Len(q) =>
       ~ Ended(q[k], at + k - 1) /\ q[k + 1] = S!Move(q[k], mem[at + k - 1])
  /\ Ended(q[Len(q)], at + Len(q) - 1)

LEMMA TextCells == \A k : k \in S!Block <=> k \in Nat /\ k < TextSize
  BY SizeFact DEF S!Block

LEMMA Single ==
  ASSUME NEW s \in S!State
  PROVE  <<s>> \in Seq(S!State) /\ Len(<<s>>) = 1 /\ <<s>>[1] = s
  OBVIOUS

LEMMA Walks ==
  ASSUME mem \in [S!Block -> Char]
  PROVE  \A at \in 0 .. TextSize : \A s \in S!State : IsWalk(at, s, S!Walk[at][s])
<1> DEFINE W == {n \in Nat : \A at \in 0 .. TextSize : TextSize - at <= n =>
                   \A s \in S!State : IsWalk(at, s, S!Walk[at][s])}
<1>1. ASSUME NEW at \in 0 .. TextSize, NEW s \in S!State, Ended(s, at)
      PROVE  IsWalk(at, s, S!Walk[at][s])
  <2>1. S!Walk[at][s] = <<s>>
    <3>1. S!Walk[at] = WalkFrom(S!Walk, at)  BY WalkUnfolds
    <3>2. at = TextSize \/ mem[at] \in {0, S!Comma} \/ s = S!INVALID  BY <1>1, Zenon DEF Ended
    <3>3. WalkFrom(S!Walk, at)[s] = <<s>>  BY <3>2 DEF WalkFrom
    <3> QED  BY <3>1, <3>3
  <2>2. at \in Nat /\ at <= TextSize  BY Positions
  <2>3. IsWalk(at, s, <<s>>)
    <3> DEFINE q == <<s>>
    <3>1. q \in Seq(S!State) /\ Len(q) = 1 /\ q[1] = s  BY Single
    <3> HIDE DEF q
    <3> QED  BY <1>1, <2>2, <3>1, SizeFact DEF IsWalk
  <2> QED  BY <2>1, <2>3
<1>2. ASSUME NEW at \in 0 .. TextSize, NEW s \in S!State, ~ Ended(s, at),
             \A t \in S!State : IsWalk(at + 1, t, S!Walk[at + 1][t])
      PROVE  IsWalk(at, s, S!Walk[at][s])
  <2> DEFINE c == mem[at]
             t == S!Transition[s][c]
             q == S!Walk[at + 1][t]
             r == <<s>> \o q
  <2>0. at # TextSize  BY <1>2, Zenon DEF Ended
  <2>1. at \in Nat /\ at < TextSize  BY <2>0, Positions, SizeFact
  <2>2. c \in Char  BY <2>1, TextCells
  <2>3. t = S!Move(s, c) /\ t \in S!State  BY <2>2, Machines DEF Machine
  <2>4. S!Walk[at][s] = r
    BY <1>2, WalkUnfolds DEF WalkFrom, Ended
  <2>5. IsWalk(at + 1, t, q)  BY <1>2, <2>3
  <2> HIDE DEF q, t
  <2>6. q \in Seq(S!State) /\ Len(q) \in Nat /\ Len(q) > 0 /\ q[1] = t  BY <2>5 DEF IsWalk
  <2>7. /\ r \in Seq(S!State) /\ Len(r) = 1 + Len(q) /\ r[1] = s
        /\ \A k \in Nat : k > 1 /\ k <= Len(r) => r[k] = q[k - 1]
    <3>1. <<s>> \in Seq(S!State) /\ Len(<<s>>) = 1 /\ <<s>>[1] = s  BY Single
    <3>2. /\ r \in Seq(S!State) /\ Len(r) = 1 + Len(q)
          /\ \A k \in 1 .. 1 + Len(q) : r[k] = IF k <= 1 THEN <<s>>[k] ELSE q[k - 1]
      BY <2>6, <3>1, ConcatProperties
    <3> HIDE DEF r
    <3> QED  BY <2>6, <3>1, <3>2
  <2> HIDE DEF r
  <2>8. ASSUME NEW k \in Nat, k > 0, k < Len(r)
        PROVE  ~ Ended(r[k], at + k - 1) /\ r[k + 1] = S!Move(r[k], mem[at + k - 1])
    <3>1. CASE k = 1
      <4>1. at + k - 1 = at /\ r[k] = s /\ r[k + 1] = t  BY <2>1, <2>6, <2>7, <2>8, <3>1
      <4> QED  BY <1>2, <2>3, <4>1
    <3>2. CASE k > 1
      <4> DEFINE m == k - 1
      <4>1. m \in Nat /\ m > 0 /\ m < Len(q) /\ m + 1 = k  BY <2>6, <2>7, <2>8, <3>2
      <4>2. r[k] = q[m] /\ r[k + 1] = q[m + 1]  BY <2>6, <2>7, <2>8, <3>2
      <4>3. (at + 1) + m - 1 = at + k - 1  BY <2>1, <4>1
      <4> HIDE DEF m
      <4>4. ~ Ended(q[m], (at + 1) + m - 1) /\ q[m + 1] = S!Move(q[m], mem[(at + 1) + m - 1])
        BY <2>5, <4>1 DEF IsWalk
      <4> QED  BY <4>2, <4>3, <4>4
    <3> QED  BY <2>8, <3>1, <3>2
  <2>9. Ended(r[Len(r)], at + Len(r) - 1) /\ at + Len(r) - 1 <= TextSize
    <3>1. Ended(q[Len(q)], (at + 1) + Len(q) - 1) /\ (at + 1) + Len(q) - 1 <= TextSize
      BY <2>5 DEF IsWalk
    <3>2. (at + 1) + Len(q) - 1 = at + Len(r) - 1  BY <2>1, <2>6, <2>7
    <3>3. r[Len(r)] = q[Len(q)]
      <4>1. Len(r) \in Nat /\ Len(r) > 1 /\ Len(r) - 1 = Len(q)  BY <2>6, <2>7
      <4> QED  BY <2>7, <4>1
    <3> QED  BY <3>1, <3>2, <3>3
  <2> QED  BY <2>4, <2>6, <2>7, <2>8, <2>9 DEF IsWalk
<1>3. 0 \in W
  <2> SUFFICES ASSUME NEW at \in 0 .. TextSize, TextSize - at <= 0, NEW s \in S!State
               PROVE  IsWalk(at, s, S!Walk[at][s])
    OBVIOUS
  <2>1. at = TextSize  BY SizeFact, Positions
  <2> QED  BY <1>1, <2>1 DEF Ended
<1>4. ASSUME NEW n \in Nat, n \in W PROVE n + 1 \in W
  <2> SUFFICES ASSUME NEW at \in 0 .. TextSize, TextSize - at <= n + 1, NEW s \in S!State
               PROVE  IsWalk(at, s, S!Walk[at][s])
    OBVIOUS
  <2>1. CASE Ended(s, at)  BY <1>1, <2>1
  <2>2. CASE ~ Ended(s, at)
    <3>1. at + 1 \in 0 .. TextSize /\ TextSize - (at + 1) <= n  BY <2>2, SizeFact, Positions DEF Ended
    <3>2. \A t \in S!State : IsWalk(at + 1, t, S!Walk[at + 1][t])  BY <1>4, <3>1
    <3> QED  BY <1>2, <2>2, <3>2
  <2> QED  BY <2>1, <2>2
<1> HIDE DEF W
<1>5 TextSize \in W
  <2>1. \A n \in Nat : n \in W => n + 1 \in W  BY <1>4
  <2>2. \A n \in Nat : n \in W  BY <1>3, <2>1, Induction
  <2> QED  BY <2>2, SizeFact
<1> QED  BY <1>5, SizeFact, Positions DEF W

(***************************************************************************)
(* The form of a text that grows by one character.                            *)
(***************************************************************************)
(* The parts of S!Form, for the first n characters of w.                            *)
SignTo(w, n) == IF n # 0 /\ w[1] \in S!Sign THEN 1 ELSE 0
DigitsTo(w, j, k) == \A x \in j .. k : w[x] \in S!Digit
FloatTo(w, s, k) == \E d \in s + 1 .. k : w[d] = S!Dot /\ DigitsTo(w, s + 1, d - 1) /\ DigitsTo(w, d + 1, k)
ExpTo(w, s, k) == w[k] \in S!Exp /\ FloatTo(w, s, k - 1)
SignedTo(w, s, k) == w[k] \in S!Sign /\ w[k - 1] \in S!Exp /\ FloatTo(w, s, k - 2)
SciTo(w, s, k) ==
  \E e \in 2 .. k - 2 : /\ w[e] \in S!Exp /\ FloatTo(w, s, e - 1)
                        /\ w[e + 1] \in S!Sign /\ DigitsTo(w, e + 2, k)
FormTo(w, n) ==
  LET s == SignTo(w, n)
  IN  IF n = 0 THEN S!START
      ELSE IF n = s THEN S!S1
      ELSE IF DigitsTo(w, s + 1, n) THEN S!INT
      ELSE IF FloatTo(w, s, n) THEN S!FLOAT
      ELSE IF ExpTo(w, s, n) THEN S!S2
      ELSE IF SignedTo(w, s, n) THEN S!EXPONENT
      ELSE IF SciTo(w, s, n) THEN S!SCIENTIFIC
      ELSE S!INVALID

LEMMA FormIs == ASSUME NEW w \in Seq(Char) PROVE S!Form(w) = FormTo(w, Len(w))
<1>1. Len(w) \in Nat /\ (w # <<>> <=> Len(w) # 0)  BY EmptySeq
<1>2. S!SignLen(w) = SignTo(w, Len(w))  BY <1>1 DEF S!SignLen, SignTo
<1> QED
  BY <1>1, <1>2, Zenon DEF S!Form, FormTo, FloatTo, DigitsTo, ExpTo, SignedTo, SciTo, S!All

(* The kinds of characters are apart. *)
LEMMA Kinds ==
  /\ \A c \in S!Digit : c \notin S!Sign /\ c \notin S!Exp /\ c # S!Dot
  /\ \A c \in S!Sign : c \notin S!Exp /\ c # S!Dot
  /\ S!Dot \notin S!Exp
  BY DEF S!Digit, S!Sign, S!Exp, S!Dot

(* What a float is made of, and where the other parts end. *)
LEMMA FloatParts ==
  ASSUME NEW w, NEW s \in Nat, NEW k \in Int, FloatTo(w, s, k)
  PROVE  k > s /\ ~ DigitsTo(w, s + 1, k) /\ \A x \in s + 1 .. k : w[x] \in S!Digit \/ w[x] = S!Dot
<1>1. PICK d \in s + 1 .. k : w[d] = S!Dot /\ DigitsTo(w, s + 1, d - 1) /\ DigitsTo(w, d + 1, k)
  BY DEF FloatTo
<1>2. k > s  BY <1>1
<1>3. ~ DigitsTo(w, s + 1, k)
  <2>1. w[d] \notin S!Digit  BY <1>1, Kinds
  <2> QED  BY <2>1 DEF DigitsTo
<1>4. ASSUME NEW x \in s + 1 .. k PROVE w[x] \in S!Digit \/ w[x] = S!Dot
  <2>1. x \in s + 1 .. d - 1 \/ x = d \/ x \in d + 1 .. k  BY <1>4
  <2> QED  BY <1>1, <2>1 DEF DigitsTo
<1> QED  BY <1>2, <1>3, <1>4

LEMMA DigitsGrow ==
  ASSUME NEW w, NEW j \in Int, NEW n \in Int, j <= n + 1
  PROVE  DigitsTo(w, j, n + 1) <=> DigitsTo(w, j, n) /\ w[n + 1] \in S!Digit
<1>1. \A x : x \in j .. n + 1 <=> x \in j .. n \/ x = n + 1  OBVIOUS
<1> QED  BY <1>1, Zenon DEF DigitsTo

LEMMA FloatGrows ==
  ASSUME NEW w, NEW s \in Nat, NEW n \in Nat, s <= n
  PROVE  FloatTo(w, s, n + 1) <=>
           (w[n + 1] = S!Dot /\ DigitsTo(w, s + 1, n)) \/ (FloatTo(w, s, n) /\ w[n + 1] \in S!Digit)
<1>1. ASSUME FloatTo(w, s, n + 1)
      PROVE  (w[n + 1] = S!Dot /\ DigitsTo(w, s + 1, n)) \/ (FloatTo(w, s, n) /\ w[n + 1] \in S!Digit)
  <2>1. PICK d \in s + 1 .. n + 1 : /\ w[d] = S!Dot /\ DigitsTo(w, s + 1, d - 1)
                                    /\ DigitsTo(w, d + 1, n + 1)
    BY <1>1 DEF FloatTo
  <2>2. CASE d = n + 1
    <3>1. d - 1 = n  BY <2>2
    <3> QED  BY <2>1, <2>2, <3>1
  <2>3. CASE d # n + 1
    <3>1. d \in s + 1 .. n /\ d + 1 \in Int /\ d + 1 <= n + 1  BY <2>3
    <3>2. DigitsTo(w, d + 1, n) /\ w[n + 1] \in S!Digit  BY <2>1, <3>1, DigitsGrow
    <3> QED  BY <2>1, <3>1, <3>2 DEF FloatTo
  <2> QED  BY <2>2, <2>3
<1>2. ASSUME w[n + 1] = S!Dot, DigitsTo(w, s + 1, n) PROVE FloatTo(w, s, n + 1)
  <2>1. n + 1 \in s + 1 .. n + 1 /\ (n + 1) - 1 = n  OBVIOUS
  <2>2. DigitsTo(w, (n + 1) + 1, n + 1)  BY DEF DigitsTo
  <2> QED  BY <1>2, <2>1, <2>2 DEF FloatTo
<1>3. ASSUME FloatTo(w, s, n), w[n + 1] \in S!Digit PROVE FloatTo(w, s, n + 1)
  <2>1. PICK d \in s + 1 .. n : w[d] = S!Dot /\ DigitsTo(w, s + 1, d - 1) /\ DigitsTo(w, d + 1, n)
    BY <1>3 DEF FloatTo
  <2>2. d \in s + 1 .. n + 1 /\ d + 1 \in Int /\ d + 1 <= n + 1  OBVIOUS
  <2>3. DigitsTo(w, d + 1, n + 1)  BY <1>3, <2>1, <2>2, DigitsGrow
  <2> QED  BY <2>1, <2>2, <2>3 DEF FloatTo
<1> QED  BY <1>1, <1>2, <1>3

LEMMA SciGrows ==
  ASSUME NEW w, NEW s \in Nat, NEW n \in Nat
  PROVE  SciTo(w, s, n + 1) <=> w[n + 1] \in S!Digit /\ (SciTo(w, s, n) \/ SignedTo(w, s, n))
<1>1. ASSUME SciTo(w, s, n + 1)
      PROVE  w[n + 1] \in S!Digit /\ (SciTo(w, s, n) \/ SignedTo(w, s, n))
  <2>1. PICK e \in 2 .. (n + 1) - 2 : /\ w[e] \in S!Exp /\ FloatTo(w, s, e - 1)
                                      /\ w[e + 1] \in S!Sign /\ DigitsTo(w, e + 2, n + 1)
    BY <1>1 DEF SciTo
  <2>2. e \in Int /\ e + 2 \in Int /\ e + 2 <= n + 1 /\ e >= 2  OBVIOUS
  <2>3. DigitsTo(w, e + 2, n) /\ w[n + 1] \in S!Digit  BY <2>1, <2>2, DigitsGrow
  <2>4. CASE e = n - 1
    <3>1. e + 1 = n /\ e - 1 = n - 2  BY <2>4
    <3> QED  BY <2>1, <2>3, <2>4, <3>1 DEF SignedTo
  <2>5. CASE e # n - 1
    <3>1. e \in 2 .. n - 2  BY <2>5
    <3> QED  BY <2>1, <2>3, <3>1 DEF SciTo
  <2> QED  BY <2>4, <2>5
<1>2. ASSUME w[n + 1] \in S!Digit, SciTo(w, s, n) PROVE SciTo(w, s, n + 1)
  <2>1. PICK e \in 2 .. n - 2 : /\ w[e] \in S!Exp /\ FloatTo(w, s, e - 1)
                                /\ w[e + 1] \in S!Sign /\ DigitsTo(w, e + 2, n)
    BY <1>2 DEF SciTo
  <2>2. e \in 2 .. (n + 1) - 2 /\ e + 2 \in Int /\ e + 2 <= n + 1  OBVIOUS
  <2>3. DigitsTo(w, e + 2, n + 1)  BY <1>2, <2>1, <2>2, DigitsGrow
  <2> QED  BY <2>1, <2>2, <2>3 DEF SciTo
<1>3. ASSUME w[n + 1] \in S!Digit, SignedTo(w, s, n) PROVE SciTo(w, s, n + 1)
  <2>1. w[n] \in S!Sign /\ w[n - 1] \in S!Exp /\ FloatTo(w, s, n - 2)  BY <1>3 DEF SignedTo
  <2>2. n - 2 > s  BY <2>1, FloatParts
  <2> DEFINE e == n - 1
  <2>3. /\ e \in 2 .. (n + 1) - 2 /\ e - 1 = n - 2 /\ e + 1 = n
        /\ \A x : x \in e + 2 .. n + 1 => x = n + 1
    BY <2>2
  <2>4. w[e] \in S!Exp  BY <2>1
  <2> HIDE DEF e
  <2>5. DigitsTo(w, e + 2, n + 1)  BY <1>3, <2>3 DEF DigitsTo
  <2> QED  BY <2>1, <2>3, <2>4, <2>5 DEF SciTo
<1> QED  BY <1>1, <1>2, <1>3

(* The forms exclude one another. *)
LEMMA Apart ==
  ASSUME NEW w, NEW s \in Nat, NEW n \in Nat
  PROVE  /\ FloatTo(w, s, n) => n > s /\ ~ DigitsTo(w, s + 1, n)
         /\ ExpTo(w, s, n) => n > s /\ ~ DigitsTo(w, s + 1, n) /\ ~ FloatTo(w, s, n)
         /\ SignedTo(w, s, n) => /\ n > s /\ ~ DigitsTo(w, s + 1, n) /\ ~ FloatTo(w, s, n)
                                 /\ ~ ExpTo(w, s, n)
         /\ SciTo(w, s, n) => /\ n > s /\ ~ DigitsTo(w, s + 1, n) /\ ~ FloatTo(w, s, n)
                              /\ ~ ExpTo(w, s, n) /\ ~ SignedTo(w, s, n)
<1>0. ASSUME NEW x \in s + 1 .. n, w[x] \notin S!Digit, w[x] # S!Dot
      PROVE  ~ DigitsTo(w, s + 1, n) /\ ~ FloatTo(w, s, n)
  <2>1. ~ DigitsTo(w, s + 1, n)  BY <1>0 DEF DigitsTo
  <2>2. ~ FloatTo(w, s, n)  BY <1>0, FloatParts
  <2> QED  BY <2>1, <2>2
<1>1. FloatTo(w, s, n) => n > s /\ ~ DigitsTo(w, s + 1, n)  BY FloatParts
<1>2. ASSUME ExpTo(w, s, n)
      PROVE  n > s /\ ~ DigitsTo(w, s + 1, n) /\ ~ FloatTo(w, s, n)
  <2>1. w[n] \in S!Exp /\ FloatTo(w, s, n - 1)  BY <1>2 DEF ExpTo
  <2>2. n - 1 > s  BY <2>1, FloatParts
  <2>3. n \in s + 1 .. n  BY <2>2
  <2>4. w[n] \notin S!Digit /\ w[n] # S!Dot  BY <2>1, Kinds
  <2> QED  BY <1>0, <2>2, <2>3, <2>4
<1>3. ASSUME SignedTo(w, s, n)
      PROVE  n > s /\ ~ DigitsTo(w, s + 1, n) /\ ~ FloatTo(w, s, n) /\ ~ ExpTo(w, s, n)
  <2>1. w[n] \in S!Sign /\ FloatTo(w, s, n - 2)  BY <1>3 DEF SignedTo
  <2>2. n - 2 > s  BY <2>1, FloatParts
  <2>3. n \in s + 1 .. n  BY <2>2
  <2>4. w[n] \notin S!Digit /\ w[n] # S!Dot /\ w[n] \notin S!Exp  BY <2>1, Kinds
  <2>5. ~ ExpTo(w, s, n)  BY <2>4 DEF ExpTo
  <2> QED  BY <1>0, <2>2, <2>3, <2>4, <2>5
<1>4. ASSUME SciTo(w, s, n)
      PROVE  /\ n > s /\ ~ DigitsTo(w, s + 1, n) /\ ~ FloatTo(w, s, n)
             /\ ~ ExpTo(w, s, n) /\ ~ SignedTo(w, s, n)
  <2>1. PICK e \in 2 .. n - 2 : /\ w[e] \in S!Exp /\ FloatTo(w, s, e - 1)
                                /\ w[e + 1] \in S!Sign /\ DigitsTo(w, e + 2, n)
    BY <1>4 DEF SciTo
  <2>2. e - 1 > s  BY <2>1, FloatParts
  <2>3. e \in s + 1 .. n /\ n \in e + 2 .. n  BY <2>2
  <2>4. w[e] \notin S!Digit /\ w[e] # S!Dot  BY <2>1, Kinds
  <2>5. w[n] \in S!Digit  BY <2>1, <2>3 DEF DigitsTo
  <2>6. w[n] \notin S!Exp /\ w[n] \notin S!Sign  BY <2>5, Kinds
  <2>7. ~ ExpTo(w, s, n) /\ ~ SignedTo(w, s, n)  BY <2>6 DEF ExpTo, SignedTo
  <2> QED  BY <1>0, <2>2, <2>3, <2>4, <2>7
<1> QED  BY <1>1, <1>2, <1>3, <1>4

LEMMA Names ==
  /\ S!START = 0 /\ S!INVALID = 1 /\ S!S1 = 2 /\ S!S2 = 3 /\ S!INT = 4 /\ S!FLOAT = 5
  /\ S!EXPONENT = 6 /\ S!SCIENTIFIC = 7
  BY DEF S!START, S!INVALID, S!S1, S!S2, S!INT, S!FLOAT, S!EXPONENT, S!SCIENTIFIC

(* The machine, state by state. *)
LEMMA Moves ==
  \A c :
    /\ S!Move(S!START, c) = IF c \in S!Digit THEN S!INT ELSE IF c \in S!Sign THEN S!S1
                            ELSE IF c = S!Dot THEN S!FLOAT ELSE S!INVALID
    /\ S!Move(S!S1, c) = IF c \in S!Digit THEN S!INT ELSE IF c = S!Dot THEN S!FLOAT ELSE S!INVALID
    /\ S!Move(S!INT, c) = IF c = S!Dot THEN S!FLOAT ELSE IF c \in S!Digit THEN S!INT ELSE S!INVALID
    /\ S!Move(S!FLOAT, c) = IF c \in S!Exp THEN S!S2 ELSE IF c \in S!Digit THEN S!FLOAT ELSE S!INVALID
    /\ S!Move(S!S2, c) = IF c \in S!Sign THEN S!EXPONENT ELSE S!INVALID
    /\ S!Move(S!EXPONENT, c) = IF c \in S!Digit THEN S!SCIENTIFIC ELSE S!INVALID
    /\ S!Move(S!SCIENTIFIC, c) = IF c \in S!Digit THEN S!SCIENTIFIC ELSE S!INVALID
<1> TAKE c
<1>1. S!Move(S!START, c) = IF c \in S!Digit THEN S!INT ELSE IF c \in S!Sign THEN S!S1
                          ELSE IF c = S!Dot THEN S!FLOAT ELSE S!INVALID
  BY Names DEF S!Move
<1>2. S!Move(S!S1, c) = IF c \in S!Digit THEN S!INT ELSE IF c = S!Dot THEN S!FLOAT ELSE S!INVALID
  BY Names DEF S!Move
<1>3. S!Move(S!INT, c) = IF c = S!Dot THEN S!FLOAT ELSE IF c \in S!Digit THEN S!INT ELSE S!INVALID
  BY Names DEF S!Move
<1>4. S!Move(S!FLOAT, c) = IF c \in S!Exp THEN S!S2 ELSE IF c \in S!Digit THEN S!FLOAT ELSE S!INVALID
  BY Names DEF S!Move
<1>5. S!Move(S!S2, c) = IF c \in S!Sign THEN S!EXPONENT ELSE S!INVALID
  BY Names DEF S!Move
<1>6. S!Move(S!EXPONENT, c) = IF c \in S!Digit THEN S!SCIENTIFIC ELSE S!INVALID
  BY Names DEF S!Move
<1>7. S!Move(S!SCIENTIFIC, c) = IF c \in S!Digit THEN S!SCIENTIFIC ELSE S!INVALID
  BY Names DEF S!Move
<1> QED  BY <1>1, <1>2, <1>3, <1>4, <1>5, <1>6, <1>7

(* The first character. *)
LEMMA FormBegins ==
  ASSUME NEW w
  PROVE  FormTo(w, 0) = S!START /\ FormTo(w, 1) = S!Move(S!START, w[1])
<1>1. FormTo(w, 0) = S!START  BY DEF FormTo
<1> DEFINE s == SignTo(w, 1)
<1>2. CASE w[1] \in S!Sign
  <2>1. s = 1  BY <1>2 DEF SignTo
  <2>2. FormTo(w, 1) = S!S1  BY <2>1 DEF FormTo
  <2>3. w[1] \notin S!Digit  BY <1>2, Kinds
  <2> QED  BY <1>1, <1>2, <2>2, <2>3, Moves
<1>3. CASE w[1] \notin S!Sign
  <2>1. s = 0  BY <1>3 DEF SignTo
  <2> HIDE DEF s
  <2>2. DigitsTo(w, 1, 0)  BY DEF DigitsTo
  <2>3. DigitsTo(w, 1, 1) <=> w[1] \in S!Digit  BY DEF DigitsTo
  <2>4. ~ FloatTo(w, 0, 0) /\ ~ FloatTo(w, 0, 0 - 1)  BY FloatParts
  <2>5. FloatTo(w, 0, 1) <=> w[1] = S!Dot
    <3>1. FloatTo(w, 0, 0 + 1) <=>
            (w[0 + 1] = S!Dot /\ DigitsTo(w, 0 + 1, 0)) \/ (FloatTo(w, 0, 0) /\ w[0 + 1] \in S!Digit)
      BY FloatGrows
    <3> QED  BY <2>2, <2>4, <3>1
  <2>6. ~ ExpTo(w, 0, 1) /\ ~ SignedTo(w, 0, 1) /\ ~ SciTo(w, 0, 1)
    <3>1. ~ ExpTo(w, 0, 1)  BY <2>4 DEF ExpTo
    <3>2. ~ SignedTo(w, 0, 1)  BY <2>4 DEF SignedTo
    <3>3. ~ SciTo(w, 0, 1)  BY DEF SciTo
    <3> QED  BY <3>1, <3>2, <3>3
  <2>7. FormTo(w, 1) = IF w[1] \in S!Digit THEN S!INT ELSE IF w[1] = S!Dot THEN S!FLOAT ELSE S!INVALID
    <3>1. 0 + 1 = 1 /\ 1 # 0  OBVIOUS
    <3> QED  BY <2>1, <2>3, <2>5, <2>6, <3>1 DEF FormTo, s
  <2>8. S!Move(S!START, w[1]) =
          IF w[1] \in S!Digit THEN S!INT ELSE IF w[1] = S!Dot THEN S!FLOAT ELSE S!INVALID
    BY <1>3, Moves
  <2> QED  BY <1>1, <2>7, <2>8
<1> QED  BY <1>2, <1>3

(* One character more changes the form as the machine changes its state. *)
LEMMA FormGrows ==
  ASSUME NEW w, NEW n \in Nat, FormTo(w, n) # S!INVALID
  PROVE  FormTo(w, n + 1) = S!Move(FormTo(w, n), w[n + 1])
<1>1. CASE n = 0
  <2>1. n + 1 = 1  BY <1>1
  <2> QED  BY <1>1, <2>1, FormBegins
<1>2. CASE n # 0
  <2> DEFINE s == SignTo(w, n)
             c == w[n + 1]
             F == FormTo(w, n)
             G == FormTo(w, n + 1)
  <2>1. SignTo(w, n + 1) = s /\ s \in Nat /\ s <= n /\ n + 1 # 0 /\ n + 1 # s /\ s + 1 \in Int /\ s + 1 <= n + 1
    BY <1>2 DEF SignTo
  <2>2. F = IF n = s THEN S!S1 ELSE IF DigitsTo(w, s + 1, n) THEN S!INT
            ELSE IF FloatTo(w, s, n) THEN S!FLOAT ELSE IF ExpTo(w, s, n) THEN S!S2
            ELSE IF SignedTo(w, s, n) THEN S!EXPONENT ELSE IF SciTo(w, s, n) THEN S!SCIENTIFIC
            ELSE S!INVALID
    BY <1>2 DEF FormTo
  <2>3. G = IF DigitsTo(w, s + 1, n + 1) THEN S!INT
            ELSE IF FloatTo(w, s, n + 1) THEN S!FLOAT ELSE IF ExpTo(w, s, n + 1) THEN S!S2
            ELSE IF SignedTo(w, s, n + 1) THEN S!EXPONENT ELSE IF SciTo(w, s, n + 1) THEN S!SCIENTIFIC
            ELSE S!INVALID
    BY <2>1 DEF FormTo
  <2> SUFFICES G = S!Move(F, c)  OBVIOUS
  <2> HIDE DEF s, F, G
  <2>4. DigitsTo(w, s + 1, n + 1) <=> DigitsTo(w, s + 1, n) /\ c \in S!Digit  BY <2>1, DigitsGrow
  <2>5. FloatTo(w, s, n + 1) <=>
          (c = S!Dot /\ DigitsTo(w, s + 1, n)) \/ (FloatTo(w, s, n) /\ c \in S!Digit)
    BY <2>1, FloatGrows
  <2>6. ExpTo(w, s, n + 1) <=> c \in S!Exp /\ FloatTo(w, s, n)
    <3>1. (n + 1) - 1 = n  OBVIOUS
    <3> QED  BY <3>1, Zenon DEF ExpTo
  <2>7. SignedTo(w, s, n + 1) <=> c \in S!Sign /\ ExpTo(w, s, n)
    <3>1. (n + 1) - 1 = n /\ (n + 1) - 2 = n - 1  OBVIOUS
    <3> QED  BY <3>1, Zenon DEF SignedTo, ExpTo
  <2>8. SciTo(w, s, n + 1) <=> c \in S!Digit /\ (SciTo(w, s, n) \/ SignedTo(w, s, n))
    BY <2>1, SciGrows
  <2>9. /\ FloatTo(w, s, n) => n > s /\ ~ DigitsTo(w, s + 1, n)
        /\ ExpTo(w, s, n) => n > s /\ ~ DigitsTo(w, s + 1, n) /\ ~ FloatTo(w, s, n)
        /\ SignedTo(w, s, n) => /\ n > s /\ ~ DigitsTo(w, s + 1, n) /\ ~ FloatTo(w, s, n)
                                /\ ~ ExpTo(w, s, n)
        /\ SciTo(w, s, n) => /\ n > s /\ ~ DigitsTo(w, s + 1, n) /\ ~ FloatTo(w, s, n)
                             /\ ~ ExpTo(w, s, n) /\ ~ SignedTo(w, s, n)
    BY <2>1, Apart
  <2>10. /\ c \in S!Digit => c \notin S!Sign /\ c \notin S!Exp /\ c # S!Dot
         /\ c \in S!Sign => c \notin S!Exp /\ c # S!Dot
         /\ c = S!Dot => c \notin S!Exp
    BY Kinds
  <2> HIDE DEF c
  <2>11. CASE F = S!S1
    <3>1. n = s  BY <2>2, <2>11, Names
    <3>2. DigitsTo(w, s + 1, n)  BY <2>1, <3>1 DEF DigitsTo
    <3>3. ~ (n > s)  BY <2>1, <3>1
    <3>4. G = IF c \in S!Digit THEN S!INT ELSE IF c = S!Dot THEN S!FLOAT ELSE S!INVALID
      BY <2>3, <2>4, <2>5, <2>6, <2>7, <2>8, <2>9, <2>10, <3>2, <3>3
    <3> QED  BY <2>11, <3>4, Moves
  <2>12. CASE F = S!INT
    <3>1. DigitsTo(w, s + 1, n)  BY <2>2, <2>12, Names
    <3>2. G = IF c = S!Dot THEN S!FLOAT ELSE IF c \in S!Digit THEN S!INT ELSE S!INVALID
      BY <2>3, <2>4, <2>5, <2>6, <2>7, <2>8, <2>9, <2>10, <3>1
    <3> QED  BY <2>12, <3>2, Moves
  <2>13. CASE F = S!FLOAT
    <3>1. FloatTo(w, s, n)  BY <2>2, <2>13, Names
    <3>2. G = IF c \in S!Exp THEN S!S2 ELSE IF c \in S!Digit THEN S!FLOAT ELSE S!INVALID
      BY <2>3, <2>4, <2>5, <2>6, <2>7, <2>8, <2>9, <2>10, <3>1
    <3> QED  BY <2>13, <3>2, Moves
  <2>14. CASE F = S!S2
    <3>1. ExpTo(w, s, n)  BY <2>2, <2>14, Names
    <3>2. G = IF c \in S!Sign THEN S!EXPONENT ELSE S!INVALID
      BY <2>3, <2>4, <2>5, <2>6, <2>7, <2>8, <2>9, <2>10, <3>1
    <3> QED  BY <2>14, <3>2, Moves
  <2>15. CASE F = S!EXPONENT
    <3>1. SignedTo(w, s, n)  BY <2>2, <2>15, Names
    <3>2. G = IF c \in S!Digit THEN S!SCIENTIFIC ELSE S!INVALID
      BY <2>3, <2>4, <2>5, <2>6, <2>7, <2>8, <2>9, <2>10, <3>1
    <3> QED  BY <2>15, <3>2, Moves
  <2>16. CASE F = S!SCIENTIFIC
    <3>1. SciTo(w, s, n)  BY <2>2, <2>16, Names
    <3>2. G = IF c \in S!Digit THEN S!SCIENTIFIC ELSE S!INVALID
      BY <2>3, <2>4, <2>5, <2>6, <2>7, <2>8, <2>9, <2>10, <3>1
    <3> QED  BY <2>16, <3>2, Moves
  <2>17. F # S!INVALID  BY DEF F
  <2>18. \/ F = S!S1 \/ F = S!INT \/ F = S!FLOAT \/ F = S!S2 \/ F = S!EXPONENT \/ F = S!SCIENTIFIC
         \/ F = S!INVALID
    BY <2>2
  <2> QED  BY <2>11, <2>12, <2>13, <2>14, <2>15, <2>16, <2>17, <2>18
<1> QED  BY <1>1, <1>2

(***************************************************************************)
(* A scan of a token.                                                        *)
(***************************************************************************)
LEMMA PathIsWalk ==
  ASSUME mem \in [S!Block -> Char], p \in Nat, p <= TextSize
  PROVE  IsWalk(p, S!START, S!Path(p))
<1>1. p \in 0 .. TextSize  BY SizeFact, Positions
<1>2. S!START \in S!State  BY Names DEF S!State
<1> QED  BY <1>1, <1>2, Walks DEF S!Path

LEMMA TextIs ==
  ASSUME mem \in [S!Block -> Char], p \in Nat, NEW q \in Seq(S!State), Len(q) > 0, p + Len(q) - 1 <= TextSize
  PROVE  /\ S!Text(p, q) \in Seq(Char) /\ Len(S!Text(p, q)) = Len(q) - 1
         /\ \A k \in Nat : k > 0 /\ k < Len(q) => S!Text(p, q)[k] = mem[p + k - 1]
<1> DEFINE n == Len(q) - 1
           w == [k \in 1 .. n |-> mem[p + k - 1]]
<1>1. n \in Nat  OBVIOUS
<1>2. \A k \in 1 .. n : p + k - 1 \in S!Block
  <2> TAKE k \in 1 .. n
  <2>1. p + k - 1 \in Nat /\ p + k - 1 < TextSize  BY SizeFact
  <2> QED  BY <2>1, TextCells
<1>3. w \in [1 .. n -> Char]  BY <1>2
<1>4. w = S!Text(p, q)  BY DEF S!Text
<1> HIDE DEF n
<1>5. w \in Seq(Char) /\ Len(w) = n
  <2> HIDE DEF w
  <2>1. w \in Seq(Char)  BY <1>1, <1>3, SeqDef
  <2>2. Len(w) \in Nat /\ DOMAIN w = 1 .. Len(w)  BY <2>1, LenProperties
  <2>3. DOMAIN w = 1 .. n  BY <1>3
  <2>4. \A a, b \in Nat : 1 .. a = 1 .. b => a = b
    <3> TAKE a, b \in Nat
    <3> SUFFICES ASSUME 1 .. a = 1 .. b, a # b PROVE FALSE  OBVIOUS
    <3>1. CASE a < b  
      <4>1. b \in 1 .. b /\ b \notin 1 .. a  BY <3>1
      <4> QED  BY <4>1
    <3>2. CASE b < a
      <4>1. a \in 1 .. a /\ a \notin 1 .. b  BY <3>2
      <4> QED  BY <4>1
    <3> QED  BY <3>1, <3>2
  <2> QED  BY <1>1, <2>1, <2>2, <2>3, <2>4
<1>6. \A k \in Nat : k > 0 /\ k < Len(q) => k \in 1 .. n  BY DEF n
<1>7. \A k \in Nat : k > 0 /\ k < Len(q) => w[k] = mem[p + k - 1]  BY <1>6
<1> HIDE DEF w
<1> QED  BY <1>4, <1>5, <1>7 DEF n

(* The state a token ends in is the form of its text, by the growth of both.              *)
LEMMA TokenClassified ==
  ASSUME mem \in [S!Block -> Char], p \in Nat, p <= TextSize
  PROVE  S!Last(S!Path(p)) = S!Form(S!Text(p, S!Path(p)))
<1> DEFINE q == S!Path(p)
           w == S!Text(p, q)
           W == {k \in Nat : k < Len(q) => FormTo(w, k) = q[k + 1]}
<1>1. IsWalk(p, S!START, q)  BY PathIsWalk
<1> HIDE DEF q
<1>2. /\ q \in Seq(S!State) /\ Len(q) \in Nat /\ Len(q) > 0 /\ q[1] = S!START
      /\ p + Len(q) - 1 <= TextSize
  BY <1>1 DEF IsWalk
<1>3. /\ w \in Seq(Char) /\ Len(w) = Len(q) - 1
      /\ \A k \in Nat : k > 0 /\ k < Len(q) => w[k] = mem[p + k - 1]
  BY <1>2, TextIs
<1> HIDE DEF w
<1>4. 0 \in W  BY <1>2, FormBegins
<1>5. ASSUME NEW k \in Nat, k \in W PROVE k + 1 \in W
  <2> SUFFICES ASSUME k + 1 < Len(q) PROVE FormTo(w, k + 1) = q[(k + 1) + 1]
    OBVIOUS
  <2> DEFINE j == k + 1
  <2>1. j \in Nat /\ j > 0 /\ j < Len(q) /\ k < Len(q)  BY <1>2
  <2>2. FormTo(w, k) = q[j]  BY <1>5, <2>1
  <2>3. ~ Ended(q[j], p + j - 1) /\ q[j + 1] = S!Move(q[j], mem[p + j - 1])
    BY <1>1, <2>1 DEF IsWalk
  <2>4. w[j] = mem[p + j - 1]  BY <1>3, <2>1
  <2>5. q[j] # S!INVALID  BY <2>3 DEF Ended
  <2>6. FormTo(w, k + 1) = S!Move(FormTo(w, k), w[k + 1])  BY <2>2, <2>5, FormGrows
  <2>7. S!Move(FormTo(w, k), w[k + 1]) = q[j + 1]
    <3> HIDE DEF j
    <3>1. k + 1 = j  BY DEF j
    <3> QED  BY <2>2, <2>3, <2>4, <3>1
  <2> QED  BY <2>6, <2>7
<1>6. Len(w) \in W
  <2> HIDE DEF W
  <2>1. \A k \in Nat : k \in W => k + 1 \in W  BY <1>5
  <2>2. \A k \in Nat : k \in W  BY <1>4, <2>1, Induction
  <2>3. Len(w) \in Nat  BY <1>2, <1>3
  <2> QED  BY <2>2, <2>3
<1>7. FormTo(w, Len(w)) = q[Len(q)]  BY <1>2, <1>3, <1>6
<1>8. S!Form(w) = FormTo(w, Len(w))  BY <1>3, FormIs
<1> QED  BY <1>7, <1>8 DEF S!Last, q, w

(* A token that begins before a zero ends there at the latest.                         *)
LEMMA TokenEnds ==
  ASSUME mem \in [S!Block -> Char], p \in Nat, NEW z \in S!Block, p <= z, mem[z] = 0
  PROVE  S!After(p, S!Path(p)) \in Nat /\ S!After(p, S!Path(p)) <= z
<1> DEFINE q == S!Path(p)
           e == p + Len(q) - 1
<1>0. z \in Nat /\ z < TextSize  BY TextCells
<1>1. IsWalk(p, S!START, q)  BY <1>0, PathIsWalk, SizeFact
<1> HIDE DEF q
<1>2. q \in Seq(S!State) /\ Len(q) \in Nat /\ Len(q) > 0  BY <1>1 DEF IsWalk
<1>3. e <= z
  <2> SUFFICES ASSUME ~ (e <= z) PROVE FALSE  OBVIOUS
  <2> DEFINE k == z - p + 1
  <2>1. k \in Nat /\ k > 0 /\ k < Len(q) /\ p + k - 1 = z  BY <1>0, <1>2
  <2>2. ~ Ended(q[k], z)  BY <1>1, <2>1 DEF IsWalk
  <2> QED  BY <2>2 DEF Ended
<1>4. e \in Nat  BY <1>2
<1>5. S!After(p, q) = IF S!Last(q) # S!INVALID /\ mem[e] = S!Comma THEN e + 1 ELSE e
  BY DEF S!After
<1>6. mem[e] = S!Comma => e < z
  <2>1. S!Comma # 0  BY DEF S!Comma
  <2> HIDE DEF e
  <2> QED  BY <1>0, <1>3, <1>4, <2>1
<1> HIDE DEF e
<1>7. S!After(p, q) \in Nat /\ S!After(p, q) <= z  BY <1>0, <1>3, <1>4, <1>5, <1>6
<1> QED  BY <1>7 DEF q

(***************************************************************************)
(* The corruption of the text and its undoing.                                *)
(***************************************************************************)
(* The corruption strikes cells whose number is a multiple of 17, and of the last two cells, *)
(* which are zero, at most one is such: this one is never struck.                     *)
End == IF (TextSize - 1) % 17 = 0 THEN TextSize - 2 ELSE TextSize - 1
GoodStep(s) == s \in Nat /\ s > 0 /\ s % 17 = 0

LEMMA EndIs == End \in Nat /\ End < TextSize /\ End >= TextSize - 2 /\ End % 17 # 0 /\ End \in S!Block
<1>1. CASE (TextSize - 1) % 17 = 0
  <2>1. End = TextSize - 2  BY <1>1 DEF End
  <2>2. End \in Nat /\ End % 17 # 0  BY <1>1, <2>1, SizeFact
  <2> QED  BY <2>1, <2>2, SizeFact, TextCells
<1>2. CASE (TextSize - 1) % 17 # 0
  <2>1. End = TextSize - 1  BY <1>2 DEF End
  <2> QED  BY <1>2, <2>1, SizeFact, TextCells
<1> QED  BY <1>1, <1>2

LEMMA EndNotStruck == \A s : GoodStep(s) => End % s # 0
<1> SUFFICES ASSUME NEW s, GoodStep(s), End % s = 0 PROVE FALSE  OBVIOUS
<1> DEFINE a == End \div s
           b == s \div 17
<1>1. s \in Nat /\ s > 0 /\ s % 17 = 0 /\ End \in Nat  BY EndIs DEF GoodStep
<1>2. End = s * a /\ a \in Int
  <2> DEFINE n == End
  <2> HIDE DEF n
  <2>1. \A m, d \in Nat : d > 0 => m = d * (m \div d) + (m % d) /\ m \div d \in Int  BY SMTT(60)
  <2> QED  BY <1>1, <2>1
<1>3. s = 17 * b /\ b \in Int  BY <1>1
<1> HIDE DEF a, b
<1>4. End = 17 * (b * a) /\ b * a \in Int  BY <1>2, <1>3, SMTT(60)
<1>5. \A m \in Int : (17 * m) % 17 = 0  BY SMT
<1>6. End % 17 = 0
  <2> DEFINE n == b * a
  <2>1. End = 17 * n /\ n \in Int  BY <1>4
  <2> HIDE DEF n
  <2> QED  BY <1>5, <2>1
<1> QED  BY <1>6, EndIs

LEMMA XorIs == \A m, n : S!Xor(m, n) = Xor(m, n)
  BY DEF S!Xor, Xor, S!Bytewise, Bytewise, S!BitOf, BitOf

LEMMA ByteIs == \A s \in Nat : S!Byte(s) \in Char
  BY CharFact DEF S!Byte

LEMMA Struck ==
  ASSUME mem \in [S!Block -> Char], GoodStep(step), NEW s \in Nat
  PROVE  /\ S!Corrupted(s) \in [S!Block -> Char]
         /\ S!Corrupted(s)[End] = mem[End]
         /\ \A k \in S!Block : S!Corrupted(s)[k] =
              IF k % step = 0 /\ mem[k] # S!Comma THEN Xor(mem[k], S!Byte(s)) ELSE mem[k]
<1> DEFINE b == S!Byte(s)
           m == [k \in S!Block |-> IF k % step = 0 /\ mem[k] # S!Comma THEN S!Xor(mem[k], b) ELSE mem[k]]
<1>1. S!Corrupted(s) = m  BY DEF S!Corrupted
<1>2. b \in Char  BY ByteIs
<1> HIDE DEF b
<1>3. m = [k \in S!Block |-> IF k % step = 0 /\ mem[k] # S!Comma THEN Xor(mem[k], b) ELSE mem[k]]
  BY XorIs
<1>4. \A k \in S!Block : Xor(mem[k], b) \in Char  BY <1>2, XorTwice
<1>5. m \in [S!Block -> Char]  BY <1>3, <1>4
<1>6. m[End] = mem[End]
  <2>1. End % step # 0  BY EndNotStruck
  <2> QED  BY <1>3, <2>1, EndIs
<1>7. \A k \in S!Block : m[k] = IF k % step = 0 /\ mem[k] # S!Comma THEN Xor(mem[k], b) ELSE mem[k]
  BY <1>3
<1> QED  BY <1>1, <1>5, <1>6, <1>7 DEF b

(* The patterns are texts of characters. *)
LEMMA Patterns == \A s \in Nat : S!Pattern(s) \in Seq(Char)
<1> TAKE s \in Nat
<1> DEFINE Texts(t) == t[1] \in Seq(Char) /\ t[2] \in Seq(Char) /\ t[3] \in Seq(Char) /\ t[4] \in Seq(Char)
           n == (s \div 8) % 4
<1>1. Texts(S!intpat)  BY CharFact DEF S!intpat
<1>2. Texts(S!floatpat)  BY CharFact DEF S!floatpat
<1>3. Texts(S!scipat)  BY CharFact DEF S!scipat
<1>4. Texts(S!errpat)  BY CharFact DEF S!errpat
<1>5. 1 + n = 1 \/ 1 + n = 2 \/ 1 + n = 3 \/ 1 + n = 4  BY SMT
<1>6. \E t \in {S!intpat, S!floatpat, S!scipat, S!errpat} : S!Pattern(s) = t[1 + n]
  BY DEF S!Pattern
<1> HIDE DEF n
<1> QED  BY <1>1, <1>2, <1>3, <1>4, <1>5, <1>6

-----------------------------------------------------------------------------
(* Every cell of the block holds a character, the scan is not behind the last zero, and   *)
(* where no character turns into a comma the block is as it was initialised, or that      *)
(* corrupted.                                                                         *)
TextTypes ==
  /\ mem \in [S!Block -> Char] /\ blank \in [S!Block -> Char]
  /\ total \in Nat /\ sseed \in Nat /\ seed1 \in Nat /\ seed2 \in Nat
  /\ sphase \in {"init", "idle", "scan", "rescan"}
  /\ sphase \in {"scan", "rescan"} => GoodStep(step)
ScanInv == mem[End] = 0 /\ p \in Nat /\ p <= End
Undoing ==
  seed1 = seed2 /\ S!CommaSafe =>
    /\ sphase \in {"idle", "scan"} => mem = blank
    /\ sphase = "rescan" =>
         \A k \in S!Block :
           mem[k] = IF k % step = 0 /\ blank[k] # S!Comma THEN Xor(blank[k], S!Byte(seed1)) ELSE blank[k]
TextInv == TextTypes /\ ScanInv /\ Undoing

LEMMA Zero == 0 \in Char  BY CharFact

LEMMA TextBegins == KernelsInit => TextInv
<1> SUFFICES ASSUME S!Init PROVE TextInv  BY DEF KernelsInit
<1>0. TextSeed \subseteq Nat /\ OtherSeed \subseteq Nat  BY KernelsAssumption
<1>1. mem = [k \in S!Block |-> 0] /\ blank = mem  BY DEF S!Init
<1>2. mem \in [S!Block -> Char] /\ mem[End] = 0  BY <1>1, Zero, EndIs
<1>3. sphase = "init" /\ total = 0 /\ p = 0 /\ seed1 \in Nat /\ seed2 \in Nat /\ sseed = (seed1 + 1) % 65536
  BY <1>0 DEF S!Init
<1>4. sseed \in Nat  BY <1>3
<1>5. TextTypes  BY <1>1, <1>2, <1>3, <1>4 DEF TextTypes
<1>6. ScanInv  BY <1>2, <1>3, EndIs DEF ScanInv
<1>7. Undoing  BY <1>3 DEF Undoing
<1> QED  BY <1>5, <1>6, <1>7 DEF TextInv

LEMMA TextAddPattern == TextInv /\ S!AddPattern => TextInv'
<1> SUFFICES ASSUME TextInv, S!AddPattern PROVE TextInv'  OBVIOUS
<1> DEFINE piece == Append(S!Pattern(sseed), S!Comma)
           end == total + Len(piece)
<1>u. UNCHANGED <<seed1, seed2, p, step>>  BY DEF S!AddPattern
<1>i. sphase = "init"  BY DEF S!AddPattern
<1>e. ~ (end < S!Room) => sphase' = "idle" /\ blank' = mem /\ UNCHANGED <<mem, total, sseed>>
  BY SMT DEF S!AddPattern
<1>f. end < S!Room => total' = end /\ sseed' = (sseed + 1) % 65536 /\ UNCHANGED <<sphase, blank>>
  BY SMT DEF S!AddPattern
<1>m. end < S!Room => mem' = S!Written(piece)
  BY SMT DEF S!AddPattern
<1>1. TextTypes /\ ScanInv  BY DEF TextInv
<1>2. piece \in Seq(Char)
  <2>1. S!Pattern(sseed) \in Seq(Char)  BY <1>1, Patterns DEF TextTypes
  <2>2. S!Comma \in Char  BY CharFact DEF S!Comma
  <2> QED  BY <2>1, <2>2
<1> HIDE DEF piece
<1>3. Len(piece) \in Nat /\ \A k \in 1 .. Len(piece) : piece[k] \in Char  BY <1>2
<1>4. CASE end < S!Room
  <2>0. /\ end < S!Room
        /\ mem' = [k \in S!Block |-> IF k >= total /\ k < end THEN piece[k - total + 1] ELSE mem[k]]
        /\ total' = end /\ sseed' = (sseed + 1) % 65536 /\ UNCHANGED <<sphase, blank>>
    BY <1>4, <1>f, <1>m DEF S!Written
  <2>1. ASSUME NEW k \in S!Block, k >= total, k < end PROVE piece[k - total + 1] \in Char
    <3>1. k \in Nat /\ total \in Nat  BY <1>1, TextCells DEF TextTypes
    <3>2. k - total + 1 \in 1 .. Len(piece)  BY <1>3, <2>1, <3>1
    <3> QED  BY <1>3, <3>2
  <2>2. mem' \in [S!Block -> Char]  BY <1>1, <2>0, <2>1 DEF TextTypes
  <2>3. total' \in Nat /\ sseed' \in Nat  BY <1>1, <1>3, <2>0 DEF TextTypes
  <2>4. mem'[End] = 0
    <3>1. ~ (End < end)
      <4>1. end < TextSize - 1 /\ end \in Nat  BY <1>1, <1>3, <2>0 DEF S!Room, TextTypes
      <4> HIDE DEF end
      <4> QED  BY <4>1, EndIs, SizeFact
    <3> HIDE DEF end
    <3> QED  BY <1>1, <2>0, <3>1, EndIs DEF ScanInv
  <2>5. TextTypes'  BY <1>u, <1>i, <1>1, <2>0, <2>2, <2>3 DEF TextTypes
  <2>6. ScanInv'  BY <1>u, <1>i, <1>1, <2>4 DEF ScanInv, End
  <2>7. Undoing'  BY <1>u, <1>i, <2>0 DEF Undoing
  <2> QED  BY <2>5, <2>6, <2>7 DEF TextInv
<1>5. CASE ~ (end < S!Room)
  <2>0. sphase' = "idle" /\ blank' = mem /\ UNCHANGED <<mem, total, sseed>>
    BY <1>5, <1>e
  <2>1. TextTypes'  BY <1>u, <1>1, <2>0 DEF TextTypes
  <2>2. ScanInv'  BY <1>u, <1>1, <2>0 DEF ScanInv, End
  <2>3. Undoing'  BY <1>u, <2>0 DEF Undoing
  <2> QED  BY <2>1, <2>2, <2>3 DEF TextInv
<1> QED  BY <1>4, <1>5

LEMMA TextCall == ASSUME TextInv, NEW s \in Steps, S!Call(s, 0) PROVE TextInv'
<1>1. /\ sphase = "idle" /\ sphase' = "scan" /\ step' = s /\ p' = 0
      /\ UNCHANGED <<seed1, seed2, mem, total, sseed, blank>>
  BY DEF S!Call
<1>2. GoodStep(s)  BY KernelsAssumption DEF GoodStep
<1>3. TextTypes'  BY <1>1, <1>2 DEF TextInv, TextTypes
<1>4. ScanInv'  BY <1>1, EndIs DEF TextInv, ScanInv, End
<1>5. Undoing'  BY <1>1 DEF TextInv, Undoing, S!CommaSafe
<1> QED  BY <1>3, <1>4, <1>5 DEF TextInv

LEMMA TextScanToken == TextInv /\ S!ScanToken => TextInv'
<1> SUFFICES ASSUME TextInv, S!ScanToken PROVE TextInv'  OBVIOUS
<1>1. /\ sphase \in {"scan", "rescan"} /\ p' = S!After(p, S!Path(p))
      /\ UNCHANGED <<seed1, seed2, total, sseed, mem, sphase, step, blank>>
  BY DEF S!ScanToken, S!TakeToken
<1>2. p' \in Nat /\ p' <= End  BY <1>1, TokenEnds, EndIs DEF TextInv, TextTypes, ScanInv
<1>3. TextTypes'  BY <1>1 DEF TextInv, TextTypes
<1>4. ScanInv'  BY <1>1, <1>2 DEF TextInv, ScanInv, End
<1>5. Undoing'  BY <1>1 DEF TextInv, Undoing, S!CommaSafe
<1> QED  BY <1>3, <1>4, <1>5 DEF TextInv

LEMMA TextCorrupt == TextInv /\ S!Corrupt => TextInv'
<1> SUFFICES ASSUME TextInv, S!Corrupt PROVE TextInv'  OBVIOUS
<1>1. /\ sphase = "scan" /\ sphase' = "rescan" /\ mem' = S!Corrupted(seed1) /\ p' = 0
      /\ UNCHANGED <<seed1, seed2, total, sseed, step, blank>>
  BY DEF S!Corrupt
<1>2. mem \in [S!Block -> Char] /\ GoodStep(step) /\ seed1 \in Nat /\ mem[End] = 0
  BY <1>1 DEF TextInv, TextTypes, ScanInv
<1>3. /\ mem' \in [S!Block -> Char] /\ mem'[End] = mem[End]
      /\ \A k \in S!Block : mem'[k] =
           IF k % step = 0 /\ mem[k] # S!Comma THEN Xor(mem[k], S!Byte(seed1)) ELSE mem[k]
  BY <1>1, <1>2, Struck
<1>4. TextTypes'  BY <1>1, <1>2, <1>3 DEF TextInv, TextTypes
<1>5. ScanInv'  BY <1>1, <1>2, <1>3, EndIs DEF ScanInv, End
<1>6. Undoing'
  <2> SUFFICES ASSUME seed1 = seed2, S!CommaSafe
               PROVE  \A k \in S!Block : mem'[k] =
                        IF k % step = 0 /\ blank[k] # S!Comma THEN Xor(blank[k], S!Byte(seed1)) ELSE blank[k]
    BY <1>1 DEF Undoing, S!CommaSafe
  <2>1. mem = blank  BY <1>1 DEF TextInv, Undoing
  <2> QED  BY <1>3, <2>1
<1> QED  BY <1>4, <1>5, <1>6 DEF TextInv

LEMMA TextRestore == TextInv /\ S!Restore => TextInv'
<1> SUFFICES ASSUME TextInv, S!Restore PROVE TextInv'  OBVIOUS
<1>1. /\ sphase = "rescan" /\ sphase' = "idle" /\ mem' = S!Corrupted(seed2)
      /\ UNCHANGED <<seed1, seed2, total, sseed, p, step, blank>>
  BY DEF S!Restore
<1>2. /\ mem \in [S!Block -> Char] /\ blank \in [S!Block -> Char] /\ GoodStep(step)
      /\ seed1 \in Nat /\ seed2 \in Nat /\ mem[End] = 0
  BY <1>1 DEF TextInv, TextTypes, ScanInv
<1>3. /\ mem' \in [S!Block -> Char] /\ mem'[End] = mem[End]
      /\ \A k \in S!Block : mem'[k] =
           IF k % step = 0 /\ mem[k] # S!Comma THEN Xor(mem[k], S!Byte(seed2)) ELSE mem[k]
  BY <1>1, <1>2, Struck
<1>4. TextTypes'  BY <1>1, <1>3 DEF TextInv, TextTypes
<1>5. ScanInv'  BY <1>1, <1>2, <1>3 DEF TextInv, ScanInv, End
<1>6. Undoing'
  <2> SUFFICES ASSUME seed1 = seed2, S!CommaSafe PROVE mem' = blank
    BY <1>1 DEF Undoing, S!CommaSafe
  <2> DEFINE b == S!Byte(seed1)
  <2>1. \A k \in S!Block :
          mem[k] = IF k % step = 0 /\ blank[k] # S!Comma THEN Xor(blank[k], b) ELSE blank[k]
    BY <1>1 DEF TextInv, Undoing
  <2>2. \A k \in S!Block : Xor(blank[k], b) # S!Comma  BY XorIs DEF S!CommaSafe
  <2>3. b \in Char  BY <1>2, ByteIs
  <2>4. \A k \in S!Block : mem'[k] = IF k % step = 0 /\ mem[k] # S!Comma THEN Xor(mem[k], b) ELSE mem[k]
    BY <1>3
  <2> HIDE DEF b
  <2>5. ASSUME NEW k \in S!Block PROVE mem'[k] = blank[k]
    <3>1. blank[k] \in Char  BY <1>2
    <3>2. Xor(Xor(blank[k], b), b) = blank[k]  BY <2>3, <3>1, XorTwice
    <3> QED  BY <2>1, <2>2, <2>4, <3>2
  <2> QED  BY <1>2, <1>3, <2>5
<1> QED  BY <1>4, <1>5, <1>6 DEF TextInv

LEMMA TextSame == TextInv /\ UNCHANGED state_vars => TextInv'
<1> SUFFICES ASSUME TextInv, UNCHANGED state_vars PROVE TextInv'  OBVIOUS
<1>1. UNCHANGED <<seed1, seed2, mem, sphase, total, sseed, p, step, blank>>  BY DEF state_vars
<1>2. TextTypes'  BY <1>1 DEF TextInv, TextTypes
<1>3. ScanInv'  BY <1>1 DEF TextInv, ScanInv, End
<1>4. Undoing'  BY <1>1 DEF TextInv, Undoing, S!CommaSafe
<1> QED  BY <1>2, <1>3, <1>4 DEF TextInv

LEMMA TextKept == TextInv /\ [KernelsNext]_allvars => TextInv'
<1> SUFFICES ASSUME TextInv, [KernelsNext]_allvars PROVE TextInv'  OBVIOUS
<1>1. CASE UNCHANGED state_vars  BY <1>1, TextSame
<1>2. CASE CallState  BY <1>2, TextCall DEF CallState
<1>3. CASE StateStep
  BY <1>3, TextAddPattern, TextScanToken, TextCorrupt, TextRestore DEF StateStep, S!Run
<1>4. UNCHANGED allvars => UNCHANGED state_vars  BY DEF allvars
<1>5. ChainStep \/ ListStep \/ CallMatrix \/ MatrixStep => UNCHANGED state_vars
  BY Zenon DEF ChainStep, ListStep, CallMatrix, MatrixStep
<1> QED  BY <1>1, <1>2, <1>3, <1>4, <1>5 DEF KernelsNext

LEMMA TextInvariant == KernelsSpec => []TextInv
<1> QED  BY TextBegins, TextKept, PTL DEF KernelsSpec

(* The scan of the text stays in the block, whatever the seeds, the size of the block and   *)
(* the data are, and the state every token ends in is the form of its text.               *)
THEOREM ScanIsRight == KernelsSpec => []TextScanned
<1>1. TextInv => TextScanned
  <2> SUFFICES ASSUME TextInv PROVE S!InBlock /\ S!Classified  BY DEF TextScanned
  <2>1. mem \in [S!Block -> Char] /\ mem[End] = 0 /\ p \in Nat /\ p <= End
    BY DEF TextInv, TextTypes, ScanInv
  <2>2. p \in S!Block /\ p <= TextSize  BY <2>1, EndIs, TextCells, SizeFact
  <2>3. S!InBlock  BY <2>1, <2>2, EndIs DEF S!InBlock
  <2>4. S!Classified  BY <2>1, <2>2, TokenClassified DEF S!Classified
  <2> QED  BY <2>3, <2>4
<1> QED  BY <1>1, TextInvariant, PTL

LEMMA TextRestored == KernelsSpec => [](S!Restored)
<1>1. TextInv => S!Restored
  BY DEF TextInv, Undoing, S!Restored
<1> QED  BY <1>1, TextInvariant, PTL

(***************************************************************************)
(* The matrix, to which a constant is added and from which it is taken off.       *)
(***************************************************************************)
Added(v) == [k \in M!Cell |-> M!S16(A0[k] + v)]
MatrixInv ==
  /\ order \in Nat /\ mseed \in Nat
  /\ mphase = "init" => A \in [M!Cell -> Char]
  /\ mphase # "init" => A0 \in [M!Cell -> Char]
  /\ mphase = "idle" => A = A0
  /\ mphase \notin {"init", "idle"} => val \in Nat /\ A = Added(val)

(* A sum that left the 16 bits comes back into them with the subtraction.               *)
LEMMA BackAgain == \A a \in Char, v \in Nat : M!S16(M!S16(a + v) - v) = a
<1> TAKE a \in Char, v \in Nat
<1>1. a \in Nat /\ a < 256  BY CharFact
<1> DEFINE h == (a + v + 32768) \div 65536
           r == (a + v + 32768) % 65536
<1>2. a + v + 32768 = 65536 * h + r /\ h \in Int /\ r \in Int  BY <1>1, SMT
<1>3. M!S16(a + v) = r - 32768  BY DEF M!S16
<1> HIDE DEF h, r
<1>4. (r - 32768) - v + 32768 = a + 32768 - 65536 * h  BY <1>1, <1>2, SMT
<1>5. (a + 32768 - 65536 * h) % 65536 = a + 32768  BY <1>1, <1>2, SMTT(30)
<1> QED  BY <1>1, <1>3, <1>4, <1>5 DEF M!S16

LEMMA MatrixBegins == KernelsInit => MatrixInv
<1> SUFFICES ASSUME M!Init PROVE MatrixInv  BY DEF KernelsInit
<1>1. MatrixSeed \subseteq Nat  BY KernelsAssumption
<1>2. mseed \in Nat /\ order = 1 /\ mphase = "init" /\ A = [k \in M!Cell |-> 0]  BY <1>1 DEF M!Init
<1> QED  BY <1>2, Zero DEF MatrixInv

LEMMA MatrixSame ==
  MatrixInv /\ UNCHANGED <<A, A0, val>> /\ order' \in Nat /\ mseed' \in Nat
    /\ (mphase' = mphase \/ (mphase \notin {"init", "idle"} /\ mphase' \notin {"init", "idle"}))
  => MatrixInv'
  BY DEF MatrixInv, Added

LEMMA MatrixKept == MatrixInv /\ [KernelsNext]_allvars => MatrixInv'
<1> SUFFICES ASSUME MatrixInv, [KernelsNext]_allvars PROVE MatrixInv'  OBVIOUS
<1>0. order \in Nat /\ mseed \in Nat  BY DEF MatrixInv
<1>1. CASE UNCHANGED matrix_vars
  <2>1. UNCHANGED <<A, mseed, order, mphase, val, A0>>  BY <1>1 DEF matrix_vars
  <2> QED  BY <1>0, <2>1, MatrixSame
<1>2. CASE CallMatrix
  <2>1. PICK v \in Vals : M!Call(v, 0)  BY <1>2 DEF CallMatrix
  <2>2. /\ mphase = "idle" /\ mphase' = "const" /\ val' = v /\ A' = [k \in M!Cell |-> M!S16(A[k] + v)]
        /\ UNCHANGED <<mseed, order, A0>>
    BY <2>1 DEF M!Call, M!matrix_add_const
  <2>3. v \in Nat  BY KernelsAssumption
  <2>4. A = A0 /\ A0 \in [M!Cell -> Char]  BY <2>2 DEF MatrixInv
  <2> QED  BY <1>0, <2>2, <2>3, <2>4 DEF MatrixInv, Added
<1>3. CASE M!InitCell
  <2> DEFINE new == (order * mseed) % 65536
             x == (new + 2 * order) % 256
  <2>1. /\ mphase = "init" /\ mseed' = new /\ A' = [A EXCEPT ![order - 1] = x] /\ order' = order + 1
        /\ UNCHANGED mphase
    BY <1>3 DEF M!InitCell
  <2>2. new \in Nat
    <3>1. order * mseed \in Nat  BY <1>0
    <3> DEFINE n == order * mseed
    <3> HIDE DEF n
    <3>2. n \in Nat => n % 65536 \in Nat  BY SMT
    <3> QED  BY <3>1, <3>2 DEF n
  <2> HIDE DEF new
  <2>3. x \in Char  BY <1>0, <2>2, CharFact
  <2> HIDE DEF x
  <2>4. A \in [M!Cell -> Char]  BY <2>1 DEF MatrixInv
  <2>5. A' \in [M!Cell -> Char]  BY <2>1, <2>3, <2>4
  <2> QED  BY <1>0, <2>1, <2>2, <2>5 DEF MatrixInv
<1>4. CASE M!InitDone
  <2>1. mphase = "init" /\ mphase' = "idle" /\ A0' = A /\ UNCHANGED <<A, mseed, order>>  BY <1>4 DEF M!InitDone
  <2>2. A \in [M!Cell -> Char]  BY <2>1 DEF MatrixInv
  <2> QED  BY <1>0, <2>1, <2>2 DEF MatrixInv
<1>5. CASE M!Product
  <2>1. /\ mphase \notin {"init", "idle"} /\ mphase' \notin {"init", "idle"}
        /\ UNCHANGED <<A, A0, val, mseed, order>>
    BY <1>5 DEF M!Product
  <2> QED  BY <1>0, <2>1, MatrixSame
<1>6. CASE M!SumCell
  <2>1. UNCHANGED <<A, A0, val, mseed, order, mphase>>  BY <1>6 DEF M!SumCell
  <2> QED  BY <1>0, <2>1, MatrixSame
<1>7. CASE M!SumDone
  <2>1. UNCHANGED <<A, A0, val, mseed, order>>  BY <1>7 DEF M!SumDone
  <2>2. mphase \notin {"init", "idle"}  BY <1>7 DEF M!SumDone, M!Summing
  <2>3. mphase' \notin {"init", "idle"}  BY <1>7 DEF M!SumDone
  <2> QED  BY <1>0, <2>1, <2>2, <2>3, MatrixSame
<1>8. CASE M!Return
  <2>1. /\ mphase = "last" /\ mphase' = "idle" /\ A' = [k \in M!Cell |-> M!S16(A[k] + (-val))]
        /\ UNCHANGED <<A0, val, mseed, order>>
    BY <1>8 DEF M!Return, M!matrix_add_const
  <2>2. val \in Nat /\ A = Added(val) /\ A0 \in [M!Cell -> Char]  BY <2>1 DEF MatrixInv
  <2>3. ASSUME NEW k \in M!Cell PROVE M!S16(A[k] + (-val)) = A0[k]
    <3>1. A0[k] \in Char  BY <2>2
    <3>2. A[k] = M!S16(A0[k] + val)  BY <2>2 DEF Added
    <3>3. M!S16(A0[k] + val) \in Int
      <4>1. A0[k] + val \in Int  BY <2>2, <3>1, CharFact
      <4> QED  BY <4>1, SMT DEF M!S16
    <3>4. A[k] + (-val) = M!S16(A0[k] + val) - val  BY <2>2, <3>2, <3>3
    <3> QED  BY <2>2, <3>1, <3>4, BackAgain
  <2>4. A' = A0  BY <2>1, <2>2, <2>3
  <2> QED  BY <1>0, <2>1, <2>2, <2>4 DEF MatrixInv
<1>9. UNCHANGED allvars => UNCHANGED matrix_vars  BY DEF allvars
<1>10. ChainStep \/ ListStep \/ CallState \/ StateStep => UNCHANGED matrix_vars
  BY Zenon DEF ChainStep, ListStep, CallState, StateStep
<1> QED  BY <1>1, <1>2, <1>3, <1>4, <1>5, <1>6, <1>7, <1>8, <1>9, <1>10 DEF KernelsNext, MatrixStep, M!Run

LEMMA MatrixRestored == KernelsSpec => [](M!ARestored)
<1>1. MatrixInv => M!ARestored  BY DEF MatrixInv, M!ARestored
<1> QED  BY <1>1, MatrixBegins, MatrixKept, PTL DEF KernelsSpec

(* A call leaves the text as it was initialised, where the seeds are the same and no character *)
(* turns into a comma, and the matrix for every constant, though its elements overflow.       *)
THEOREM DataRestored == KernelsSpec => []Restored
<1> QED  BY TextRestored, MatrixRestored, PTL DEF Restored

(***************************************************************************)
(* The chain of results: for all 16-bit results and any number of them, a single       *)
(* wrong result shows in the crc from then on.                                      *)
(***************************************************************************)
(* The provers meet the register as a number below a bound, never as a set of values.    *)
LEMMA RegisterFact == \A c : c \in Register <=> c \in Nat /\ c < 65536
<1>1. 2 ^ 16 = 65536  BY SMT
<1> QED  BY <1>1, SMT DEF Register

(* ---------------------------------- one turn ---------------------------------- *)
(* The register by what a turn does with it: bits 15 and 14, those up to bit 2, bit 1 and  *)
(* bit 0.                                                                           *)
Bits(t, s, m, u) == t \in Bit01 /\ s \in Bit01 /\ u \in Bit01 /\ m \in Nat /\ m < 4096
IsFields(c, t, s, m, u) ==
  /\ Bits(t, s, m, u)
  /\ c = 32768 * t + 16384 * s + 4 * m + 2 * u + (c % 2)
Shifted(t, s, m, u) == 16384 * t + 8192 * s + 2 * m + u
Flipped(t, s, m, u) == 32768 + 16384 * t + 8192 * (1 - s) + 2 * m + (1 - u)

LEMMA Fields == ASSUME NEW c \in Register PROVE \E t, s, m, u : IsFields(c, t, s, m, u)
<1> DEFINE t == c \div 32768
           s == (c \div 16384) % 2
           m == (c \div 4) % 4096
           u == (c \div 2) % 2
<1>1. c \in Nat /\ c < 65536  BY RegisterFact
<1>2. t \in Bit01 /\ s \in Bit01 /\ u \in Bit01 /\ m \in Nat /\ m < 4096  BY <1>1, SMT DEF Bit01
<1>3. c = 32768 * t + 16384 * s + 4 * m + 2 * u + (c % 2)  BY <1>1, SMT
<1> HIDE DEF t, s, m, u
<1>4. IsFields(c, t, s, m, u)  BY <1>2, <1>3, SMT DEF IsFields, Bits
<1> QED  BY <1>4, Zenon

(* A turn, in these fields. *)
LEMMA OneTurn ==
  ASSUME NEW c \in Register, NEW d \in Bit01, NEW t, NEW s, NEW m, NEW u, IsFields(c, t, s, m, u)
  PROVE  /\ d = c % 2 => CrcBit[d][c] = Shifted(t, s, m, u)
         /\ d # c % 2 => CrcBit[d][c] = Flipped(t, s, m, u)
<1> USE DEF IsFields, Bits, Bit01
<1>0. c \in Nat  BY RegisterFact
<1>1. CrcBit[d][c] = IF d = c % 2 THEN c \div 2 ELSE Flip(Flip(c, 14), 1) \div 2 + 32768
  BY SMT DEF CrcBit
<1>2. c \div 2 = 16384 * t + 8192 * s + 2 * m + u  BY <1>0, SMT
<1>3. BitOf(c, 14) = s /\ BitOf(c, 1) = u  BY <1>0, Powers, SMT DEF BitOf
<1> DEFINE f == 32768 * t + 16384 * (1 - s) + 4 * m + 2 * u + (c % 2)
<1>4. Flip(c, 14) = f  BY <1>0, <1>3, Powers, SMT DEF Flip
<1>5. BitOf(f, 1) = u /\ f \in Int  BY <1>0, Powers, SMT DEF BitOf
<1>6. Flip(f, 1) = 32768 * t + 16384 * (1 - s) + 4 * m + 2 * (1 - u) + (c % 2)
  BY <1>0, <1>5, Powers, SMT DEF Flip
<1>7. Flip(f, 1) \div 2 + 32768 = 32768 + 16384 * t + 8192 * (1 - s) + 2 * m + (1 - u)
  BY <1>0, <1>6, SMT
<1> HIDE DEF f
<1> QED  BY <1>1, <1>2, <1>4, <1>7, SMT DEF Shifted, Flipped

(* ------------------------- a turn, seen from its result ------------------------- *)
Weights == {1, 2, 4, 8, 16, 32, 64, 128, 256, 512, 1024, 2048, 4096, 8192, 16384, 32768}

(* The high bits of a flipped register tell those of the register. *)
LEMMA HighBits ==
  ASSUME NEW t, NEW s, NEW m, NEW u, Bits(t, s, m, u), NEW x, NEW y, NEW n, NEW z, Bits(x, y, n, z),
         NEW w \in Weights, Flipped(t, s, m, u) \div w = Flipped(x, y, n, z) \div w
  PROVE  Shifted(t, s, m, u) \div w = Shifted(x, y, n, z) \div w
<1> USE DEF Bits, Flipped, Shifted, Bit01
<1>2. CASE w = 1  BY <1>2, SMTT(60)
<1>3. CASE w = 2  BY <1>3, SMTT(60)
<1>4. CASE w = 4
  <2>1. \A k \in Nat, r \in Bit01 : (2 * k + r) \div 4 = k \div 2  BY SMTT(60)
  <2>2. \A k, r \in Nat : (4 * k + r) \div 4 = k + r \div 4  BY SMTT(60)
  <2>3. Flipped(t, s, m, u) \div 4 = 8192 + 4096 * t + 2048 * (1 - s) + m \div 2
    <3>1. Flipped(t, s, m, u) = 4 * (8192 + 4096 * t + 2048 * (1 - s)) + (2 * m + (1 - u))  OBVIOUS
    <3>2. (2 * m + (1 - u)) \div 4 = m \div 2  BY <2>1
    <3> QED  BY <2>2, <3>1, <3>2
  <2>4. Flipped(x, y, n, z) \div 4 = 8192 + 4096 * x + 2048 * (1 - y) + n \div 2
    <3>1. Flipped(x, y, n, z) = 4 * (8192 + 4096 * x + 2048 * (1 - y)) + (2 * n + (1 - z))  OBVIOUS
    <3>2. (2 * n + (1 - z)) \div 4 = n \div 2  BY <2>1
    <3> QED  BY <2>2, <3>1, <3>2
  <2>5. m \div 2 \in 0 .. 2047 /\ n \div 2 \in 0 .. 2047  BY SMT
  <2>6. t = x /\ s = y /\ m \div 2 = n \div 2  BY <1>4, <2>3, <2>4, <2>5
  <2>7. Shifted(t, s, m, u) \div 4 = 4096 * t + 2048 * s + m \div 2
    <3>1. Shifted(t, s, m, u) = 4 * (4096 * t + 2048 * s) + (2 * m + u)  OBVIOUS
    <3> QED  BY <2>1, <2>2, <3>1
  <2>8. Shifted(x, y, n, z) \div 4 = 4096 * x + 2048 * y + n \div 2
    <3>1. Shifted(x, y, n, z) = 4 * (4096 * x + 2048 * y) + (2 * n + z)  OBVIOUS
    <3> QED  BY <2>1, <2>2, <3>1
  <2> QED  BY <1>4, <2>6, <2>7, <2>8
<1>5. CASE w = 8  BY <1>5, SMTT(60)
<1>6. CASE w = 16  BY <1>6, SMTT(60)
<1>7. CASE w = 32  BY <1>7, SMTT(60)
<1>8. CASE w = 64  BY <1>8, SMTT(60)
<1>9. CASE w = 128  BY <1>9, SMTT(60)
<1>10. CASE w = 256  BY <1>10, SMTT(60)
<1>11. CASE w = 512  BY <1>11, SMTT(60)
<1>12. CASE w = 1024  BY <1>12, SMTT(60)
<1>13. CASE w = 2048  BY <1>13, SMTT(60)
<1>14. CASE w = 4096  BY <1>14, SMTT(60)
<1>15. CASE w = 8192  BY <1>15, SMTT(60)
<1>16. CASE w = 16384  BY <1>16, SMTT(60)
<1>17. CASE w = 32768  BY <1>17, SMTT(60)
<1> QED  BY <1>2, <1>3, <1>4, <1>5, <1>6, <1>7, <1>8, <1>9, <1>10, <1>11, <1>12, <1>13, <1>14, <1>15, <1>16, <1>17, SMT DEF Weights

(* Its top bit tells whether it was flipped. *)
LEMMA TopBit ==
  ASSUME NEW c, NEW t, NEW s, NEW m, NEW u, IsFields(c, t, s, m, u),
         NEW e, NEW x, NEW y, NEW n, NEW z, IsFields(e, x, y, n, z), NEW w \in Weights
  PROVE  Shifted(t, s, m, u) \div w # Flipped(x, y, n, z) \div w
<1>1. Shifted(t, s, m, u) \in Nat /\ Shifted(t, s, m, u) < 32768  BY SMT DEF Shifted, IsFields, Bits, Bit01
<1>2. Flipped(x, y, n, z) \in Nat /\ Flipped(x, y, n, z) >= 32768  BY SMT DEF Flipped, IsFields, Bits, Bit01
<1>3. ASSUME NEW a \in Nat, a < 32768, NEW b \in Nat, b >= 32768 PROVE a \div w # b \div w
  BY <1>3, SMT DEF Weights
<1> QED  BY <1>1, <1>2, <1>3, SMT

LEMMA Twice == ASSUME NEW c \in Nat, NEW w \in Weights PROVE (c \div 2) \div w = c \div (2 * w)
  BY SMT DEF Weights

LEMMA TurnKept == \A d \in Bit01, c \in Register : CrcBit[d][c] \in Register
<1> TAKE d \in Bit01, c \in Register
<1>1. PICK t, s, m, u : IsFields(c, t, s, m, u)  BY Fields
<1>2. CrcBit[d][c] \in {Shifted(t, s, m, u), Flipped(t, s, m, u)}  BY <1>1, OneTurn
<1>3. /\ Shifted(t, s, m, u) \in Nat /\ Shifted(t, s, m, u) < 65536
      /\ Flipped(t, s, m, u) \in Nat /\ Flipped(t, s, m, u) < 65536
  BY <1>1, SMT DEF IsFields, Bits, Bit01, Shifted, Flipped
<1> QED  BY <1>2, <1>3, RegisterFact, SMT

(* Two turns whose results agree in their high bits flipped both registers or neither, and   *)
(* the registers agree in one bit less.                                             *)
LEMMA TurnBack ==
  ASSUME NEW c \in Register, NEW e \in Register, NEW a \in Bit01, NEW b \in Bit01, NEW w \in Weights,
         CrcBit[a][c] \div w = CrcBit[b][e] \div w
  PROVE  (a = c % 2 <=> b = e % 2) /\ c \div (2 * w) = e \div (2 * w)
<1>1. PICK t, s, m, u : IsFields(c, t, s, m, u)  BY Fields
<1>2. PICK x, y, n, z : IsFields(e, x, y, n, z)  BY Fields
<1> DEFINE sc == Shifted(t, s, m, u)
           fc == Flipped(t, s, m, u)
           se == Shifted(x, y, n, z)
           fe == Flipped(x, y, n, z)
<1>3. (a = c % 2 => CrcBit[a][c] = sc) /\ (a # c % 2 => CrcBit[a][c] = fc)  BY <1>1, OneTurn
<1>4. (b = e % 2 => CrcBit[b][e] = se) /\ (b # e % 2 => CrcBit[b][e] = fe)  BY <1>2, OneTurn
<1>5. sc \div w # fe \div w /\ se \div w # fc \div w  BY <1>1, <1>2, TopBit, Zenon
<1>6. fc \div w = fe \div w => sc \div w = se \div w
  <2>1. Bits(t, s, m, u) /\ Bits(x, y, n, z)  BY <1>1, <1>2, SMT DEF IsFields
  <2>2. ASSUME Flipped(t, s, m, u) \div w = Flipped(x, y, n, z) \div w
        PROVE  Shifted(t, s, m, u) \div w = Shifted(x, y, n, z) \div w
    BY <2>1, <2>2, HighBits
  <2> QED  BY <2>2
<1>7. c \in Nat /\ e \in Nat  BY RegisterFact
<1>8. c \div 2 = sc /\ e \div 2 = se
  <2>1. c \div 2 = sc  BY <1>1, <1>7, SMT DEF IsFields, Bits, Shifted, Bit01
  <2>2. e \div 2 = se  BY <1>2, <1>7, SMT DEF IsFields, Bits, Shifted, Bit01
  <2> QED  BY <2>1, <2>2
<1> HIDE DEF sc, fc, se, fe
<1>9. a = c % 2 <=> b = e % 2
  BY <1>3, <1>4, <1>5, Zenon
<1>10. sc \div w = se \div w  BY <1>3, <1>4, <1>6, <1>9
<1>11. (c \div 2) \div w = c \div (2 * w) /\ (e \div 2) \div w = e \div (2 * w)  BY <1>7, Twice
<1> QED  BY <1>8, <1>9, <1>10, <1>11, Zenon

LEMMA TurnsDiffer ==
  ASSUME NEW d \in Bit01, NEW c \in Register, NEW e \in Register, CrcBit[d][c] = CrcBit[d][e]
  PROVE  c = e
<1>1. 1 \in Weights  BY SMT DEF Weights
<1>2. (d = c % 2 <=> d = e % 2) /\ c \div (2 * 1) = e \div (2 * 1)  BY <1>1, TurnBack
<1>3. c \in Nat /\ e \in Nat  BY RegisterFact
<1> QED  BY <1>2, <1>3, SMT DEF Bit01

(* --------------------------------- eight turns --------------------------------- *)
LEMMA BitTypes == ASSUME NEW n \in Nat PROVE \A j \in 0 .. 7 : BitOf(n, j) \in Bit01
  BY Powers, SMT DEF BitOf, Bit01

LEMMA ByteBits ==
  ASSUME NEW x \in Nat, NEW y \in Nat, \A j \in 0 .. 7 : BitOf(x, j) = BitOf(y, j)
  PROVE  x % 256 = y % 256
<1>1. /\ x % 2 = y % 2 /\ (x \div 2) % 2 = (y \div 2) % 2 /\ (x \div 4) % 2 = (y \div 4) % 2
      /\ (x \div 8) % 2 = (y \div 8) % 2 /\ (x \div 16) % 2 = (y \div 16) % 2
      /\ (x \div 32) % 2 = (y \div 32) % 2 /\ (x \div 64) % 2 = (y \div 64) % 2
      /\ (x \div 128) % 2 = (y \div 128) % 2
  BY Powers, SMT DEF BitOf
<1>2. \A n \in Nat : n % 256 = (n % 2) + 2 * ((n \div 2) % 2) + 4 * ((n \div 4) % 2) + 8 * ((n \div 8) % 2)
                              + 16 * ((n \div 16) % 2) + 32 * ((n \div 32) % 2)
                              + 64 * ((n \div 64) % 2) + 128 * ((n \div 128) % 2)
  <2> TAKE n \in Nat
  <2>1. \A k \in Nat : k = 2 * (k \div 2) + (k % 2)  BY SMT
  <2>2. /\ (n \div 2) \div 2 = n \div 4 /\ (n \div 4) \div 2 = n \div 8 /\ (n \div 8) \div 2 = n \div 16
        /\ (n \div 16) \div 2 = n \div 32 /\ (n \div 32) \div 2 = n \div 64
        /\ (n \div 64) \div 2 = n \div 128 /\ (n \div 128) \div 2 = n \div 256
    BY SMT
  <2>3. n = 256 * (n \div 256) + (n % 256)  BY SMT
  <2>4. /\ n = 2 * (n \div 2) + (n % 2)
        /\ n \div 2 = 2 * (n \div 4) + ((n \div 2) % 2)
        /\ n \div 4 = 2 * (n \div 8) + ((n \div 4) % 2)
        /\ n \div 8 = 2 * (n \div 16) + ((n \div 8) % 2)
        /\ n \div 16 = 2 * (n \div 32) + ((n \div 16) % 2)
        /\ n \div 32 = 2 * (n \div 64) + ((n \div 32) % 2)
        /\ n \div 64 = 2 * (n \div 128) + ((n \div 64) % 2)
        /\ n \div 128 = 2 * (n \div 256) + ((n \div 128) % 2)
    BY <2>2, SMT
  <2> QED  BY <2>3, <2>4, SMT
<1> QED  BY <1>1, <1>2, SMT

LEMMA ByteKept == \A n \in Nat, c \in Register : crcu8(n, c) \in Register
<1> TAKE n \in Nat, c \in Register
<1> DEFINE
     g1 == CrcBit[BitOf(n, 0)][c]
     g2 == CrcBit[BitOf(n, 1)][g1]
     g3 == CrcBit[BitOf(n, 2)][g2]
     g4 == CrcBit[BitOf(n, 3)][g3]
     g5 == CrcBit[BitOf(n, 4)][g4]
     g6 == CrcBit[BitOf(n, 5)][g5]
     g7 == CrcBit[BitOf(n, 6)][g6]
     g8 == CrcBit[BitOf(n, 7)][g7]
<1>1. crcu8(n, c) = g8  BY DEF crcu8
<1>2. \A j \in 0 .. 7 : BitOf(n, j) \in Bit01  BY BitTypes
<1> HIDE DEF g1, g2, g3, g4, g5, g6, g7, g8
<1>3. g1 \in Register  BY <1>2, TurnKept DEF g1
<1>4. g2 \in Register  BY <1>2, <1>3, TurnKept DEF g2
<1>5. g3 \in Register  BY <1>2, <1>4, TurnKept DEF g3
<1>6. g4 \in Register  BY <1>2, <1>5, TurnKept DEF g4
<1>7. g5 \in Register  BY <1>2, <1>6, TurnKept DEF g5
<1>8. g6 \in Register  BY <1>2, <1>7, TurnKept DEF g6
<1>9. g7 \in Register  BY <1>2, <1>8, TurnKept DEF g7
<1>10. g8 \in Register  BY <1>2, <1>9, TurnKept DEF g8
<1> QED  BY <1>1, <1>10

LEMMA BytesDiffer ==
  ASSUME NEW n \in Nat, NEW c \in Register, NEW e \in Register, crcu8(n, c) = crcu8(n, e)
  PROVE  c = e
<1> DEFINE
     g1 == CrcBit[BitOf(n, 0)][c]
     g2 == CrcBit[BitOf(n, 1)][g1]
     g3 == CrcBit[BitOf(n, 2)][g2]
     g4 == CrcBit[BitOf(n, 3)][g3]
     g5 == CrcBit[BitOf(n, 4)][g4]
     g6 == CrcBit[BitOf(n, 5)][g5]
     g7 == CrcBit[BitOf(n, 6)][g6]
     g8 == CrcBit[BitOf(n, 7)][g7]
     h1 == CrcBit[BitOf(n, 0)][e]
     h2 == CrcBit[BitOf(n, 1)][h1]
     h3 == CrcBit[BitOf(n, 2)][h2]
     h4 == CrcBit[BitOf(n, 3)][h3]
     h5 == CrcBit[BitOf(n, 4)][h4]
     h6 == CrcBit[BitOf(n, 5)][h5]
     h7 == CrcBit[BitOf(n, 6)][h6]
     h8 == CrcBit[BitOf(n, 7)][h7]
<1>0. g8 = h8  BY DEF crcu8
<1> HIDE DEF g1, h1, g2, h2, g3, h3, g4, h4, g5, h5, g6, h6, g7, h7, g8, h8
<1>1. \A j \in 0 .. 7 : BitOf(n, j) \in Bit01  BY BitTypes
<1>2. g1 \in Register /\ h1 \in Register  BY <1>1, TurnKept DEF g1, h1
<1>3. g2 \in Register /\ h2 \in Register  BY <1>1, <1>2, TurnKept DEF g2, h2
<1>4. g3 \in Register /\ h3 \in Register  BY <1>1, <1>3, TurnKept DEF g3, h3
<1>5. g4 \in Register /\ h4 \in Register  BY <1>1, <1>4, TurnKept DEF g4, h4
<1>6. g5 \in Register /\ h5 \in Register  BY <1>1, <1>5, TurnKept DEF g5, h5
<1>7. g6 \in Register /\ h6 \in Register  BY <1>1, <1>6, TurnKept DEF g6, h6
<1>8. g7 \in Register /\ h7 \in Register  BY <1>1, <1>7, TurnKept DEF g7, h7
<1>9. g8 \in Register /\ h8 \in Register  BY <1>1, <1>8, TurnKept DEF g8, h8
<1>11. g7 = h7  BY <1>1, <1>8, <1>0, TurnsDiffer DEF g8, h8
<1>12. g6 = h6  BY <1>1, <1>7, <1>11, TurnsDiffer DEF g7, h7
<1>13. g5 = h5  BY <1>1, <1>6, <1>12, TurnsDiffer DEF g6, h6
<1>14. g4 = h4  BY <1>1, <1>5, <1>13, TurnsDiffer DEF g5, h5
<1>15. g3 = h3  BY <1>1, <1>4, <1>14, TurnsDiffer DEF g4, h4
<1>16. g2 = h2  BY <1>1, <1>3, <1>15, TurnsDiffer DEF g3, h3
<1>17. g1 = h1  BY <1>1, <1>2, <1>16, TurnsDiffer DEF g2, h2
<1>18. c = e  BY <1>1, <1>17, TurnsDiffer DEF g1, h1
<1> QED  BY <1>18

(* Back from the high bits of two results of eight turns: the registers agree in eight bits   *)
(* less, and if they are the same then so are the bytes and the results.                *)
LEMMA ByteBack ==
  ASSUME NEW c \in Register, NEW e \in Register, NEW x \in Nat, NEW y \in Nat, NEW w \in {1, 256},
         crcu8(x, c) \div w = crcu8(y, e) \div w
  PROVE  /\ c \div (256 * w) = e \div (256 * w)
         /\ c = e => x % 256 = y % 256 /\ crcu8(x, c) = crcu8(y, e)
<1> DEFINE
     g1 == CrcBit[BitOf(x, 0)][c]
     g2 == CrcBit[BitOf(x, 1)][g1]
     g3 == CrcBit[BitOf(x, 2)][g2]
     g4 == CrcBit[BitOf(x, 3)][g3]
     g5 == CrcBit[BitOf(x, 4)][g4]
     g6 == CrcBit[BitOf(x, 5)][g5]
     g7 == CrcBit[BitOf(x, 6)][g6]
     g8 == CrcBit[BitOf(x, 7)][g7]
     h1 == CrcBit[BitOf(y, 0)][e]
     h2 == CrcBit[BitOf(y, 1)][h1]
     h3 == CrcBit[BitOf(y, 2)][h2]
     h4 == CrcBit[BitOf(y, 3)][h3]
     h5 == CrcBit[BitOf(y, 4)][h4]
     h6 == CrcBit[BitOf(y, 5)][h5]
     h7 == CrcBit[BitOf(y, 6)][h6]
     h8 == CrcBit[BitOf(y, 7)][h7]
<1>0. crcu8(x, c) = g8 /\ crcu8(y, e) = h8  BY DEF crcu8
<1> HIDE DEF g1, h1, g2, h2, g3, h3, g4, h4, g5, h5, g6, h6, g7, h7, g8, h8
<1>1. \A j \in 0 .. 7 : BitOf(x, j) \in Bit01 /\ BitOf(y, j) \in Bit01  BY BitTypes
<1>2. g1 \in Register /\ h1 \in Register  BY <1>1, TurnKept DEF g1, h1
<1>3. g2 \in Register /\ h2 \in Register  BY <1>1, <1>2, TurnKept DEF g2, h2
<1>4. g3 \in Register /\ h3 \in Register  BY <1>1, <1>3, TurnKept DEF g3, h3
<1>5. g4 \in Register /\ h4 \in Register  BY <1>1, <1>4, TurnKept DEF g4, h4
<1>6. g5 \in Register /\ h5 \in Register  BY <1>1, <1>5, TurnKept DEF g5, h5
<1>7. g6 \in Register /\ h6 \in Register  BY <1>1, <1>6, TurnKept DEF g6, h6
<1>8. g7 \in Register /\ h7 \in Register  BY <1>1, <1>7, TurnKept DEF g7, h7
<1>9. g8 \in Register /\ h8 \in Register  BY <1>1, <1>8, TurnKept DEF g8, h8
<1>11. /\ w \in Weights /\ 2 * w \in Weights /\ 4 * w \in Weights /\ 8 * w \in Weights /\ 16 * w \in Weights
       /\ 32 * w \in Weights /\ 64 * w \in Weights /\ 128 * w \in Weights
  BY SMT DEF Weights
<1>12. /\ 2 * (2 * w) = 4 * w /\ 2 * (4 * w) = 8 * w /\ 2 * (8 * w) = 16 * w /\ 2 * (16 * w) = 32 * w
       /\ 2 * (32 * w) = 64 * w /\ 2 * (64 * w) = 128 * w /\ 2 * (128 * w) = 256 * w
  OBVIOUS
<1>13. /\ BitOf(x, 7) = g7 % 2 <=> BitOf(y, 7) = h7 % 2
       /\ g7 \div (2 * w) = h7 \div (2 * w)
  <2>1. CrcBit[BitOf(x, 7)][g7] \div w = CrcBit[BitOf(y, 7)][h7] \div w
    BY <1>0 DEF g8, h8
  <2> QED  BY <2>1, <1>1, <1>8, <1>11, <1>12, TurnBack
<1>14. /\ BitOf(x, 6) = g6 % 2 <=> BitOf(y, 6) = h6 % 2
       /\ g6 \div (4 * w) = h6 \div (4 * w)
  <2>1. CrcBit[BitOf(x, 6)][g6] \div (2 * w) = CrcBit[BitOf(y, 6)][h6] \div (2 * w)
    BY <1>13 DEF g7, h7
  <2> QED  BY <2>1, <1>1, <1>7, <1>11, <1>12, TurnBack
<1>15. /\ BitOf(x, 5) = g5 % 2 <=> BitOf(y, 5) = h5 % 2
       /\ g5 \div (8 * w) = h5 \div (8 * w)
  <2>1. CrcBit[BitOf(x, 5)][g5] \div (4 * w) = CrcBit[BitOf(y, 5)][h5] \div (4 * w)
    BY <1>14 DEF g6, h6
  <2> QED  BY <2>1, <1>1, <1>6, <1>11, <1>12, TurnBack
<1>16. /\ BitOf(x, 4) = g4 % 2 <=> BitOf(y, 4) = h4 % 2
       /\ g4 \div (16 * w) = h4 \div (16 * w)
  <2>1. CrcBit[BitOf(x, 4)][g4] \div (8 * w) = CrcBit[BitOf(y, 4)][h4] \div (8 * w)
    BY <1>15 DEF g5, h5
  <2> QED  BY <2>1, <1>1, <1>5, <1>11, <1>12, TurnBack
<1>17. /\ BitOf(x, 3) = g3 % 2 <=> BitOf(y, 3) = h3 % 2
       /\ g3 \div (32 * w) = h3 \div (32 * w)
  <2>1. CrcBit[BitOf(x, 3)][g3] \div (16 * w) = CrcBit[BitOf(y, 3)][h3] \div (16 * w)
    BY <1>16 DEF g4, h4
  <2> QED  BY <2>1, <1>1, <1>4, <1>11, <1>12, TurnBack
<1>18. /\ BitOf(x, 2) = g2 % 2 <=> BitOf(y, 2) = h2 % 2
       /\ g2 \div (64 * w) = h2 \div (64 * w)
  <2>1. CrcBit[BitOf(x, 2)][g2] \div (32 * w) = CrcBit[BitOf(y, 2)][h2] \div (32 * w)
    BY <1>17 DEF g3, h3
  <2> QED  BY <2>1, <1>1, <1>3, <1>11, <1>12, TurnBack
<1>19. /\ BitOf(x, 1) = g1 % 2 <=> BitOf(y, 1) = h1 % 2
       /\ g1 \div (128 * w) = h1 \div (128 * w)
  <2>1. CrcBit[BitOf(x, 1)][g1] \div (64 * w) = CrcBit[BitOf(y, 1)][h1] \div (64 * w)
    BY <1>18 DEF g2, h2
  <2> QED  BY <2>1, <1>1, <1>2, <1>11, <1>12, TurnBack
<1>20. /\ BitOf(x, 0) = c % 2 <=> BitOf(y, 0) = e % 2
       /\ c \div (256 * w) = e \div (256 * w)
  <2>1. CrcBit[BitOf(x, 0)][c] \div (128 * w) = CrcBit[BitOf(y, 0)][e] \div (128 * w)
    BY <1>19 DEF g1, h1
  <2> QED  BY <2>1, <1>1, <1>11, <1>12, TurnBack
<1>21. ASSUME c = e PROVE x % 256 = y % 256 /\ g8 = h8
  <2>1. BitOf(x, 0) = BitOf(y, 0) /\ g1 = h1
    BY <1>21, <1>1, <1>20, RegisterFact, SMT DEF g1, h1, Bit01
  <2>2. BitOf(x, 1) = BitOf(y, 1) /\ g2 = h2
    BY <2>1, <1>1, <1>2, <1>19, RegisterFact, SMT DEF g2, h2, Bit01
  <2>3. BitOf(x, 2) = BitOf(y, 2) /\ g3 = h3
    BY <2>2, <1>1, <1>3, <1>18, RegisterFact, SMT DEF g3, h3, Bit01
  <2>4. BitOf(x, 3) = BitOf(y, 3) /\ g4 = h4
    BY <2>3, <1>1, <1>4, <1>17, RegisterFact, SMT DEF g4, h4, Bit01
  <2>5. BitOf(x, 4) = BitOf(y, 4) /\ g5 = h5
    BY <2>4, <1>1, <1>5, <1>16, RegisterFact, SMT DEF g5, h5, Bit01
  <2>6. BitOf(x, 5) = BitOf(y, 5) /\ g6 = h6
    BY <2>5, <1>1, <1>6, <1>15, RegisterFact, SMT DEF g6, h6, Bit01
  <2>7. BitOf(x, 6) = BitOf(y, 6) /\ g7 = h7
    BY <2>6, <1>1, <1>7, <1>14, RegisterFact, SMT DEF g7, h7, Bit01
  <2>8. BitOf(x, 7) = BitOf(y, 7) /\ g8 = h8
    BY <2>7, <1>1, <1>8, <1>13, RegisterFact, SMT DEF g8, h8, Bit01
  <2>9. \A j \in 0 .. 7 : BitOf(x, j) = BitOf(y, j)  BY <2>1, <2>2, <2>3, <2>4, <2>5, <2>6, <2>7, <2>8
  <2> QED  BY <2>8, <2>9, ByteBits
<1> QED  BY <1>0, <1>20, <1>21

(* --------------------------------- sixteen turns --------------------------------- *)
LEMMA HalfTypes == \A v \in Register : v \in Nat /\ v \div 256 \in Nat
  BY RegisterFact, SMT

LEMMA WordKept == \A v, c \in Register : crcu16(v, c) \in Register
  BY HalfTypes, ByteKept DEF crcu16

(* The same result keeps two crcs apart. *)
LEMMA SameKeepsApart ==
  ASSUME NEW v \in Register, NEW c \in Register, NEW e \in Register, crcu16(v, c) = crcu16(v, e)
  PROVE  c = e
<1>1. v \in Nat /\ v \div 256 \in Nat  BY HalfTypes
<1>2. crcu8(v, c) \in Register /\ crcu8(v, e) \in Register  BY <1>1, ByteKept
<1>3. crcu8(v, c) = crcu8(v, e)
  <2> DEFINE n == v \div 256
             x == crcu8(v, c)
             y == crcu8(v, e)
  <2>1. n \in Nat /\ x \in Register /\ y \in Register  BY <1>1, <1>2
  <2>2. crcu8(n, x) = crcu8(n, y)  BY DEF crcu16
  <2> HIDE DEF n, x, y
  <2>3. x = y  BY <2>1, <2>2, BytesDiffer
  <2> QED  BY <2>3 DEF x, y
<1> QED  BY <1>1, <1>3, BytesDiffer

(* Two results set the crcs apart. *)
LEMMA OtherSetsApart ==
  ASSUME NEW v \in Register, NEW w \in Register, NEW c \in Register, crcu16(v, c) = crcu16(w, c)
  PROVE  v = w
<1>1. v \in Nat /\ v \div 256 \in Nat /\ w \in Nat /\ w \div 256 \in Nat  BY HalfTypes
<1> DEFINE g == crcu8(v, c)
           h == crcu8(w, c)
<1>2. g \in Register /\ h \in Register  BY <1>1, ByteKept
<1>3. crcu8(v \div 256, g) = crcu8(w \div 256, h)  BY DEF crcu16
<1> HIDE DEF g, h
<1>4. crcu8(v \div 256, g) \div 1 = crcu8(w \div 256, h) \div 1  BY <1>3
<1>5. /\ g \div (256 * 1) = h \div (256 * 1)
      /\ g = h => (v \div 256) % 256 = (w \div 256) % 256
  BY <1>1, <1>2, <1>4, ByteBack
<1>6. g \div 256 = h \div 256  BY <1>5
<1>7. v % 256 = w % 256 /\ g = h  BY <1>1, <1>6, ByteBack DEF g, h
<1>8. v < 65536 /\ w < 65536  BY RegisterFact
<1> QED  BY <1>1, <1>5, <1>7, <1>8, SMT

-----------------------------------------------------------------------------
(* The two runs have sixteen-bit results, and they agree as long as nothing went wrong.     *)
ChainInv == good \in Register /\ bad \in Register /\ NeverMasked

LEMMA ChainStepKept == ChainInv /\ Next => ChainInv'
<1> SUFFICES ASSUME ChainInv, Next PROVE ChainInv'  OBVIOUS
<1>1. Result \subseteq Register  BY ResultAssumption
<1>2. CASE SameResult
  <2>1. PICK v \in Result : good' = crcu16(v, good) /\ bad' = crcu16(v, bad)  BY <1>2 DEF SameResult
  <2>2. good' \in Register /\ bad' \in Register  BY <1>1, <2>1, WordKept DEF ChainInv
  <2>3. good' = bad' <=> good = bad  BY <1>1, <2>1, SameKeepsApart DEF ChainInv
  <2>4. wrong' = wrong  BY <1>2 DEF SameResult
  <2> QED  BY <2>2, <2>3, <2>4 DEF ChainInv, NeverMasked
<1>3. CASE WrongResult
  <2>1. PICK v, w \in Result : v # w /\ good' = crcu16(v, good) /\ bad' = crcu16(w, bad)
    BY <1>3 DEF WrongResult
  <2>2. good' \in Register /\ bad' \in Register  BY <1>1, <2>1, WordKept DEF ChainInv
  <2>3. ~ wrong /\ wrong' = TRUE  BY <1>3 DEF WrongResult
  <2>4. good = bad  BY <2>3 DEF ChainInv, NeverMasked
  <2>5. good' # bad'  BY <1>1, <2>1, <2>4, OtherSetsApart DEF ChainInv
  <2> QED  BY <2>2, <2>3, <2>5 DEF ChainInv, NeverMasked
<1> QED  BY <1>2, <1>3 DEF Next

(* A wrong result is never masked, for all 16-bit results and chains of any length.       *)
THEOREM WrongResultShows == KernelsSpec => []NeverMasked
<1>1. KernelsInit => ChainInv  BY RegisterFact DEF KernelsInit, Init, ChainInv, NeverMasked
<1>2. ChainInv /\ [KernelsNext]_allvars => ChainInv'
  <2> SUFFICES ASSUME ChainInv, [KernelsNext]_allvars PROVE ChainInv'  OBVIOUS
  <2>1. CASE UNCHANGED vars  BY <2>1 DEF vars, ChainInv, NeverMasked
  <2>2. CASE ChainStep  BY <2>2, ChainStepKept DEF ChainStep
  <2>3. UNCHANGED allvars => UNCHANGED vars  BY DEF allvars
  <2>4. ListStep \/ CallState \/ StateStep \/ CallMatrix \/ MatrixStep => UNCHANGED vars
    BY Zenon DEF ListStep, CallState, StateStep, CallMatrix, MatrixStep
  <2> QED  BY <2>1, <2>2, <2>3, <2>4 DEF KernelsNext
<1>3. ChainInv => NeverMasked  BY DEF ChainInv
<1> QED  BY <1>1, <1>2, <1>3, PTL DEF KernelsSpec
=============================================================================
