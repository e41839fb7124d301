-------------------------------- MODULE ArxLsu --------------------------------
(***************************************************************************)
(* LoadStoreUnit over the word memory with byte enables behind RamPort.     *)
(*                                                                          *)
(* A request is shown until its acknowledge; in the cycle of the            *)
(* acknowledge the next request may already be shown, so the unit extracts  *)
(* a load's bytes with the type and address it registered when the request  *)
(* was made.  A word is a function from byte lanes to bytes.                *)
(***************************************************************************)
EXTENDS Integers

CONSTANTS Words, ByteSize, StoreData   \* as in ArxBytes

Byte     == 0 .. ByteSize - 1
Lanes    == 0 .. 3
Register == [Lanes -> Byte]
ByteAddr == 0 .. 4 * Words - 1

Zero == [l \in Lanes |-> 0]

(* ls_type_e                                                                 *)
Stores == {"STORE_BYTE", "STORE_HALFWORD", "STORE_WORD"}
Loads  == {"LOAD_BYTE", "LOAD_BYTE_UNSIGNED", "LOAD_HALFWORD",
           "LOAD_HALFWORD_UNSIGNED", "LOAD_WORD"}
Requests == [op : Stores, addr : ByteAddr, data : StoreData]
              \cup [op : Loads, addr : ByteAddr, data : {Zero}]
NoRequest == [op |-> "NONE", addr |-> 0, data |-> Zero]

VARIABLES
  held,                         \* the request the port has not granted yet
  req_mem_op_ff, req_addr_ff,   \* LoadStoreUnit
  ram, ack, q                   \* the memory, its acknowledge and read data
vars == <<held, req_mem_op_ff, req_addr_ff, ram, ack, q>>

-----------------------------------------------------------------------------
(* Byte enables and write data of a store.                                   *)
write_mask(op, a) ==
  CASE op = "STORE_WORD"                     -> Lanes
    [] op = "STORE_HALFWORD" /\ a % 4 >= 2   -> {2, 3}
    [] op = "STORE_HALFWORD" /\ a % 4 < 2    -> {0, 1}
    [] op = "STORE_BYTE"                     -> {a % 4}
    [] OTHER                                 -> {}
write_data(op, v) ==
  CASE op = "STORE_WORD"     -> v
    [] op = "STORE_HALFWORD" -> [l \in Lanes |-> v[l % 2]]
    [] OTHER                 -> [l \in Lanes |-> v[0]]

(* The bytes of the read word m that a load of type op at address a wants.   *)
SignFill(b)     == IF b >= ByteSize \div 2 THEN ByteSize - 1 ELSE 0
Half(m, a)      == IF (a % 4) >= 2 THEN <<m[2], m[3]>> ELSE <<m[0], m[1]>>
Extend(s, n, f) == [l \in Lanes |-> IF l < n THEN s[l + 1] ELSE f]
extract(op, a, m) ==
  CASE op = "LOAD_WORD"              -> m
    [] op = "LOAD_HALFWORD_UNSIGNED" -> Extend(Half(m, a), 2, 0)
    [] op = "LOAD_HALFWORD"          -> Extend(Half(m, a), 2, SignFill(Half(m, a)[2]))
    [] op = "LOAD_BYTE_UNSIGNED"     -> Extend(<<m[a % 4]>>, 1, 0)
    [] op = "LOAD_BYTE"              -> Extend(<<m[a % 4]>>, 1, SignFill(m[a % 4]))
    [] OTHER                         -> Zero

(* What the requester reads in the cycle of the acknowledge.                 *)
read_data == extract(req_mem_op_ff, req_addr_ff, q)

Init ==
  /\ held = NoRequest
  /\ req_mem_op_ff = "LOAD_BYTE" /\ req_addr_ff = 0
  /\ ram = [w \in 0 .. Words - 1 |-> Zero] /\ ack = FALSE /\ q = Zero

(* The unit remembers the request it is shown, also when it is shown again.  *)
Bug_Remember(r) == UNCHANGED <<req_mem_op_ff, req_addr_ff>>
Remember(r) == req_mem_op_ff' = r.op /\ req_addr_ff' = r.addr

(* The port performs the request r: new, or shown since some cycles.         *)
Grant(r) ==
  LET w == r.addr \div 4 IN
  /\ held \in {NoRequest, r}
  /\ Remember(r)
  /\ q' = ram[w]
  /\ ram' = [ram EXCEPT ![w] =
               [l \in Lanes |-> IF l \in write_mask(r.op, r.addr)
                                THEN write_data(r.op, r.data)[l] ELSE @[l]]]
  /\ ack' = TRUE
  /\ held' = NoRequest

(* The port serves the other master; what it reads for it is not acknowledged.*)
Wait(r) ==
  /\ held \in {NoRequest, r}
  /\ Remember(r)
  /\ held' = r
  /\ ack' = FALSE
  /\ UNCHANGED <<ram, q>>

Quiet ==
  /\ held = NoRequest
  /\ ack' = FALSE
  /\ UNCHANGED <<held, req_mem_op_ff, req_addr_ff, ram, q>>

Next == (\E r \in Requests : Grant(r) \/ Wait(r)) \/ Quiet

Spec == Init /\ [][Next]_vars

-----------------------------------------------------------------------------
(* The word memory with its byte enables is the byte array, and the data in  *)
(* the cycle of an acknowledge is what the load of that request gives, also  *)
(* when another request is on the wires by then.                             *)
Bytes == INSTANCE ArxBytes WITH
  bytes <- [a \in ByteAddr |-> ram[a \div 4][a % 4]],
  reply <- IF ack THEN [answered |-> TRUE, data |-> read_data]
                  ELSE [answered |-> FALSE, data |-> Zero]

ImplementsBytes == Bytes!Spec
=============================================================================
