------------------------------- MODULE CoreCrc -------------------------------
(***************************************************************************)
(* The 16-bit CRC of CoreMark (core_util.c), through which every result of   *)
(* the benchmark is chained. A register is a number below 2^16; there is no   *)
(* recursion here, so that theorems can be proved about it.                   *)
(***************************************************************************)
EXTENDS Integers

Register == 0 .. 2 ^ 16 - 1
BitOf(n, i) == (n \div 2 ^ i) % 2

(* C's m ^ n and m | n of bytes, bit by bit.                                    *)
Bytewise(bit(_)) ==
  bit(0) + 2 * bit(1) + 4 * bit(2) + 8 * bit(3) + 16 * bit(4) + 32 * bit(5) + 64 * bit(6) + 128 * bit(7)
Xor(m, n) == Bytewise(LAMBDA i : (BitOf(m, i) + BitOf(n, i)) % 2)
Or(m, n)  == Bytewise(LAMBDA i : (BitOf(m, i) + BitOf(n, i) + 1) \div 2)

(* n with bit i inverted (C's n ^ (1 << i)).                                  *)
Flip(n, i) == IF BitOf(n, i) = 0 THEN n + 2 ^ i ELSE n - 2 ^ i

(* One turn of the loop of crcu8: x16 is the data bit xor-ed with bit 0 of the *)
(* crc; if it is set, the crc is xor-ed with 0x4002; then the crc is shifted    *)
(* right and x16 comes in at the top.                                           *)
CrcBit ==
  [d \in {0, 1} |-> [crc \in Register |->
     IF d = crc % 2 THEN crc \div 2 ELSE Flip(Flip(crc, 14), 1) \div 2 + 32768]]

(* The eight turns, bit 0 of the data first.                                   *)
crcu8(data, crc) ==
  CrcBit[BitOf(data, 7)][CrcBit[BitOf(data, 6)][CrcBit[BitOf(data, 5)][CrcBit[BitOf(data, 4)][
  CrcBit[BitOf(data, 3)][CrcBit[BitOf(data, 2)][CrcBit[BitOf(data, 1)][CrcBit[BitOf(data, 0)][
  crc]]]]]]]]

Bug_crcu16(newval, crc) == crcu8(newval, crcu8(newval, crc))
crcu16(newval, crc) == crcu8(newval \div 256, crcu8(newval, crc))
crc16(newval, crc)  == crcu16(newval, crc)
crcu32(newval, crc) == crc16(newval \div 65536, crc16(newval, crc))
=============================================================================
