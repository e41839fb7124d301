------------------------------- MODULE ArxBytes -------------------------------
(***************************************************************************)
(* What software sees of the data memory: an array of bytes.  A store       *)
(* replaces the low bytes of a register at an address, a load reads one,    *)
(* two or four bytes and extends them; a half-word or word address is       *)
(* rounded down to a multiple of its length.  ArxLsu implements it.         *)
(***************************************************************************)
EXTENDS Integers

CONSTANTS
  Words,        \* number of words
  ByteSize,     \* number of byte values, even, 256 in the core
  StoreData     \* the register values stored, each a sequence of four bytes

Byte     == 0 .. ByteSize - 1
Lanes    == 0 .. 3
Register == [Lanes -> Byte]          \* a word, least significant byte first
ByteAddr == 0 .. 4 * Words - 1

Stores == {"STORE_BYTE", "STORE_HALFWORD", "STORE_WORD"}
Loads  == {"LOAD_BYTE", "LOAD_BYTE_UNSIGNED", "LOAD_HALFWORD",
           "LOAD_HALFWORD_UNSIGNED", "LOAD_WORD"}
Length(op) ==
  CASE op \in {"STORE_WORD", "LOAD_WORD"} -> 4
    [] op \in {"STORE_HALFWORD", "LOAD_HALFWORD", "LOAD_HALFWORD_UNSIGNED"} -> 2
    [] OTHER -> 1

VARIABLES bytes, reply

NoReply == [answered |-> FALSE, data |-> [l \in Lanes |-> 0]]

First(op, a) == a - (a % Length(op))

(* The value a load gives: the bytes read and, above them, copies of the     *)
(* sign or zeroes.                                                           *)
Extended(op, a) ==
  LET n    == Length(op)
      top  == bytes[First(op, a) + n - 1]
      fill == IF op \in {"LOAD_BYTE", "LOAD_HALFWORD"} /\ top >= ByteSize \div 2
              THEN ByteSize - 1 ELSE 0
  IN  [l \in Lanes |-> IF l < n THEN bytes[First(op, a) + l] ELSE fill]

Init == bytes = [a \in ByteAddr |-> 0] /\ reply = NoReply

Store(op, a, v) ==
  /\ bytes' = [b \in ByteAddr |->
                 IF b \in First(op, a) .. First(op, a) + Length(op) - 1
                 THEN v[b - First(op, a)] ELSE bytes[b]]
  /\ reply' = [answered |-> TRUE, data |-> NoReply.data]

Load(op, a) ==
  /\ reply' = [answered |-> TRUE, data |-> Extended(op, a)]
  /\ UNCHANGED bytes

Idle == reply' = NoReply /\ UNCHANGED bytes

Next ==
  \/ \E op \in Stores, a \in ByteAddr, v \in StoreData : Store(op, a, v)
  \/ \E op \in Loads, a \in ByteAddr : Load(op, a)
  \/ Idle

Spec == Init /\ [][Next]_<<bytes, reply>>
=============================================================================
