------------------------------ MODULE CoreMatrix ------------------------------
(***************************************************************************)
(* The matrix benchmark of CoreMark (core_matrix.c). A matrix is a function    *)
(* from the offsets of its elements, row by row. MATDAT has 16 bits, MATRES 32  *)
(* (no sum here leaves them: TLC would stop).                                  *)
(***************************************************************************)
EXTENDS CoreCrc, FiniteSetsExt

CONSTANTS
  BlkSize,   \* blksize of core_init_matrix
  Seeds,     \* values of the seeds, as unsigned 16-bit numbers
  Vals       \* values of the constant, from the data of the list items

(* The largest N with 8*N*N < blksize, which has to be more than eight.        *)
N == CHOOSE n \in 0 .. BlkSize : 8 * n * n < BlkSize /\ BlkSize <= 8 * (n + 1) * (n + 1)

Cell == 0 .. N * N - 1
Index == 0 .. N - 1
At(i, j) == i * N + j

VARIABLES
  A, B, C,
  seed, order,   \* locals of core_init_matrix
  phase,         \* "init", the function matrix_test runs, or "idle"
  val, sums,     \* its parameter, the crc of its sums
  acc,           \* locals of matrix_sum: [k, tmp, prev, ret]
  crc,           \* the crc core_bench_matrix is called with, and returns
  A0             \* for properties: A as initialised

vars == <<A, B, C, seed, order, phase, val, sums, acc, crc, A0>>

(* Conversion to MATDAT.                                                       *)
S16(n) == ((n + 32768) % 65536) - 32768

-----------------------------------------------------------------------------
(* core_init_matrix goes over both matrices at once. Its seed is a 32-bit        *)
(* number made of seed1 and seed2, of which seed1 is left after the first % 65536. *)
Init ==
  /\ \E s1, s2 \in Seeds : seed = IF s1 = 0 /\ s2 = 0 THEN 1 ELSE s1
  /\ A = [k \in Cell |-> 0] /\ B = A /\ C = A /\ A0 = A
  /\ order = 1 /\ phase = "init"
  /\ val = 0 /\ sums = 0 /\ acc = [k |-> 0, tmp |-> 0, prev |-> 0, ret |-> 0] /\ crc = 0

InitCell ==
  /\ phase = "init" /\ order <= N * N
  /\ LET new == (order * seed) % 65536
     IN  /\ seed' = new
         /\ B' = [B EXCEPT ![order - 1] = S16(new + order)]
         /\ A' = [A EXCEPT ![order - 1] = (new + 2 * order) % 256]
  /\ order' = order + 1
  /\ UNCHANGED <<C, phase, val, sums, acc, crc, A0>>

InitDone ==
  /\ phase = "init" /\ order > N * N
  /\ phase' = "idle" /\ A0' = A
  /\ UNCHANGED <<A, B, C, seed, order, val, sums, acc, crc>>

Sum(Term(_)) == MapThenSumSet(Term, Index)
bit_extract(x, lo, n) == (x \div 2 ^ lo) % 2 ^ n
Bits(x) == bit_extract(x, 2, 4) * bit_extract(x, 5, 7)

(* The four products, each into C.                                             *)
matrix_mul_const == [k \in Cell |-> A[k] * val]
matrix_mul_vect ==
  [k \in Cell |-> IF k < N THEN Sum(LAMBDA j : A[At(k, j)] * B[j]) ELSE C[k]]
matrix_mul_matrix ==
  [k \in Cell |-> LET i == k \div N  j == k % N IN Sum(LAMBDA m : A[At(i, m)] * B[At(m, j)])]
matrix_mul_matrix_bitextract ==
  [k \in Cell |-> LET i == k \div N  j == k % N IN Sum(LAMBDA m : Bits(A[At(i, m)] * B[At(m, j)]))]

matrix_add_const(v) == [k \in Cell |-> S16(A[k] + v)]

-----------------------------------------------------------------------------
Call(v, c) ==
  /\ phase = "idle"
  /\ A' = matrix_add_const(v)
  /\ val' = v /\ crc' = c /\ sums' = 0 /\ phase' = "const"
  /\ UNCHANGED <<B, C, seed, order, acc, A0>>

Product ==
  /\ \/ phase = "const"  /\ C' = matrix_mul_const             /\ phase' = "const_sum"
     \/ phase = "vect"   /\ C' = matrix_mul_vect              /\ phase' = "vect_sum"
     \/ phase = "matrix" /\ C' = matrix_mul_matrix            /\ phase' = "matrix_sum"
     \/ phase = "bits"   /\ C' = matrix_mul_matrix_bitextract /\ phase' = "bits_sum"
  /\ UNCHANGED <<A, B, seed, order, val, sums, acc, crc, A0>>

(* matrix_sum: ten for every time the running sum passes clipval (val with the    *)
(* upper four bits set, a negative number), else one for an element larger than   *)
(* the one before.                                                             *)
clipval == S16(61440 + (val % 4096))
Summing == phase \in {"const_sum", "vect_sum", "matrix_sum", "bits_sum"}
SumCell ==
  /\ Summing /\ acc.k < N * N
  /\ LET cur == C[acc.k]
         over == acc.tmp + cur > clipval
         more == IF over THEN 10 ELSE IF cur > acc.prev THEN 1 ELSE 0
     IN  acc' = [k |-> acc.k + 1, tmp |-> IF over THEN 0 ELSE acc.tmp + cur,
                 prev |-> cur, ret |-> S16(acc.ret + more)]
  /\ UNCHANGED <<A, B, C, seed, order, phase, val, sums, crc, A0>>

SumDone ==
  /\ Summing /\ acc.k = N * N
  /\ phase' = CASE phase = "const_sum" -> "vect" [] phase = "vect_sum" -> "matrix"
                [] phase = "matrix_sum" -> "bits" [] OTHER -> "last"
  /\ sums' = crc16(acc.ret, sums)
  /\ acc' = [k |-> 0, tmp |-> 0, prev |-> 0, ret |-> 0]
  /\ UNCHANGED <<A, B, C, seed, order, val, crc, A0>>

(* A is set back, and the crc of the sums chained into the result.              *)
Return ==
  /\ phase = "last" /\ phase' = "idle"
  /\ A' = matrix_add_const(-val)
  /\ crc' = crc16(sums, crc)
  /\ UNCHANGED <<B, C, seed, order, val, sums, acc, A0>>

Run == InitCell \/ InitDone \/ Product \/ SumCell \/ SumDone \/ Return
Next == (\E v \in Vals : Call(v, 0)) \/ Run
Spec == Init /\ [][Next]_vars

-----------------------------------------------------------------------------
(* "After the last step, matrix A is back to original contents".                *)
ARestored == phase = "idle" => A = A0
=============================================================================
