------------------------------- MODULE MCDebug --------------------------------
(***************************************************************************)
(* Instances of ArxDebug for TLC: bytes of sixteen values, a few words in    *)
(* each memory, requests of every kind.                                     *)
(***************************************************************************)
EXTENDS ArxDebug

(* Halt, resume, reset, an unknown command, the state; a read of data memory *)
(* across lanes, the longest write of it; the longest read of program        *)
(* memory, its empty write, a read without its length.                       *)
MCPackets ==
  { <<CMD_HALT, 1, 0>>, <<CMD_RESUME, 2, 0>>, <<CMD_RESET, 1, 0>>, <<9, 2, 0>>,
    <<CMD_GET_STATE, 2, 0>>,
    <<CMD_READ_DATA, 2, 5, 0, 0, 0, 1, 3>>,
    <<CMD_WRITE_DATA, 1, 15, 0, 0, 0, 2, 5, 6, 7, 8, 9, 10, 11, 12, 13, 14, 15>>,
    <<CMD_READ_PROG, 1, 5, 0, 0, 0, 1, 15>>,
    <<CMD_WRITE_PROG, 2, 4, 0, 0, 0, 3>>,
    <<CMD_READ_DATA, 1, 4, 0, 0, 0, 0>> }

(* Requests with a parity error in any byte, among good ones.                *)
MCErrorPackets ==
  { <<CMD_HALT, 1, 0>>, <<CMD_GET_STATE, 2, 0>>, <<CMD_WRITE_DATA, 1, 5, 0, 0, 0, 2, 5>> }
MCErrorBytes == 0 .. 8
=============================================================================
