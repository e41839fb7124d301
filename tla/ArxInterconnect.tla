--------------------------- MODULE ArxInterconnect ---------------------------
(***************************************************************************)
(* MemoryInterconnect: it decodes the region of each master's request,      *)
(* arbitrates the two masters at every slave (RamArbiter2to1), performs the *)
(* requests at the slave ports (RomPort, RamPort for the RAM and for the    *)
(* peripherals, ArxToAvalon) and routes acknowledge and data back.  One     *)
(* step is one clock edge with clk_en high.                                 *)
(*                                                                          *)
(* Master 1 is the data port of the core, master 2 its instruction port.    *)
(* A request is shown until its acknowledge; in that very cycle the next    *)
(* one may be on the wires already.  The data port breaks this rule when    *)
(* the core halts: the debugger's requests replace the core's.              *)
(***************************************************************************)
CONSTANTS
  Roms,        \* regions behind a RomPort
  Rams,        \* regions behind a RamPort
  Bridges,     \* regions behind an ArxToAvalon
  BadRegions,  \* regions of the address space without a slave
  Cells,       \* words of a region
  Value,       \* contents of a word
  Ones,        \* the data of a request to a bad region, '1
  Withdrawing  \* masters that may drop or replace a request

Slaves == Roms \cup Rams \cup Bridges

ASSUME InterconnectAssumption ==
  /\ Roms \cap Rams = {} /\ Roms \cap Bridges = {} /\ Rams \cap Bridges = {}
  /\ Slaves \cap BadRegions = {}
  /\ "none" \notin Slaves \cup BadRegions
  /\ Ones \in Value
  /\ Withdrawing \subseteq {1, 2}

Masters  == {1, 2}
ReadOnly == {2}
Other(m) == IF m = 1 THEN 2 ELSE 1
Addr     == Slaves \X Cells
RomAddr  == Roms \X Cells
NoAddr   == BadRegions \X Cells

None     == [kind |-> "none"]
Requests == [kind : {"read"}, addr : Addr \cup NoAddr]
              \cup [kind : {"write"}, addr : Addr \cup NoAddr, value : Value]
Region(r) == IF r = None THEN "none" ELSE r.addr[1]

VARIABLES
  selected_master,  \* RamArbiter2to1, one for each slave
  slave_ack,        \* acknowledge of each slave port
  slave_data,       \* read data of each slave port
  req_delay,        \* region of each master's request in the last cycle
  mem,              \* the memories and devices behind the slave ports
  shown             \* each master's request in the last cycle
vars == <<selected_master, slave_ack, slave_data, req_delay, mem, shown>>

-----------------------------------------------------------------------------
(* The answer each master sees in this cycle: the one of the region it asked *)
(* in the last cycle, if that region's arbiter had selected it.              *)
Bug_m_ack(m) ==
  \/ req_delay[m] \in BadRegions
  \/ req_delay[m] \in Slaves /\ slave_ack[req_delay[m]]
m_ack(m) ==
  \/ req_delay[m] \in BadRegions
  \/ req_delay[m] \in Slaves /\ selected_master[req_delay[m]] = m
                             /\ slave_ack[req_delay[m]]
m_data(m) == IF req_delay[m] \in BadRegions THEN Ones ELSE slave_data[req_delay[m]]

(* RamArbiter2to1: the slave goes to the other master as soon as the one it  *)
(* serves is acknowledged.  q is what the masters show in this cycle.        *)
Asks(q, m, s) == Region(q[m]) = s
Bug_next_master(q, s) ==    \* a fixed priority
  IF Asks(q, 1, s) THEN 1 ELSE IF Asks(q, 2, s) THEN 2 ELSE selected_master[s]
Bug2_next_master(q, s) ==   \* takes turns before the acknowledge
  IF Asks(q, 1, s) = Asks(q, 2, s) THEN Other(selected_master[s])
  ELSE IF Asks(q, 1, s) THEN 1 ELSE 2
next_master(q, s) ==
  CASE Asks(q, 1, s) /\ Asks(q, 2, s) ->
         IF slave_ack[s] THEN Other(selected_master[s]) ELSE selected_master[s]
    [] Asks(q, 1, s) /\ ~Asks(q, 2, s) -> 1
    [] Asks(q, 2, s) /\ ~Asks(q, 1, s) -> 2
    [] OTHER                           -> selected_master[s]

slave_req(q, s) == Asks(q, next_master(q, s), s)

Init ==
  /\ selected_master = [s \in Slaves |-> 1]
  /\ slave_ack = [s \in Slaves |-> FALSE]
  /\ slave_data = [s \in Slaves |-> Ones]
  /\ req_delay = [m \in Masters |-> "none"]
  /\ mem \in [Addr -> Value]
  /\ shown = [m \in Masters |-> None]

(* What the masters may show.                                                *)
waiting(m) == shown[m] # None /\ ~m_ack(m)
MayShow(q) ==
  \A m \in Masters :
    /\ m \in ReadOnly => q[m].kind # "write"
    /\ waiting(m) => q[m] = shown[m] \/ m \in Withdrawing

(* The edge that ends a cycle in which the masters show q.  A port performs  *)
(* the request it is shown; a bridge does so when the device behind it       *)
(* acknowledges, it is in answering then.                                    *)
Clock(q, answering) ==
  LET performs(s) == slave_req(q, s) /\ (s \in Bridges => s \in answering)
      request(s)  == q[next_master(q, s)]
      write(s)    == performs(s) /\ request(s).kind = "write" /\ s \notin Roms
  IN
  /\ MayShow(q)
  /\ selected_master' = [s \in Slaves |-> next_master(q, s)]
  /\ slave_ack' = [s \in Slaves |-> performs(s)]
  /\ slave_data' = [s \in Slaves |->
       IF performs(s) /\ request(s).kind = "read" THEN mem[request(s).addr]
       ELSE slave_data[s]]
  /\ mem' = [a \in Addr |->
       IF write(a[1]) /\ request(a[1]).addr = a THEN request(a[1]).value ELSE mem[a]]
  /\ req_delay' = [m \in Masters |-> Region(q[m])]
  /\ shown' = q

Next ==
  \E q \in [Masters -> Requests \cup {None}], answering \in SUBSET Bridges :
    Clock(q, answering)

Spec == Init /\ [][Next]_vars

(* The clock never stops, and a device behind a bridge acknowledges in the   *)
(* end while a master waits for it.                                          *)
Answers(s) ==
  /\ \E m \in Masters : waiting(m) /\ Asks(shown, m, s)
  /\ \E q \in [Masters -> Requests \cup {None}] : slave_req(q, s) /\ Clock(q, Bridges)

FairSpec == Spec /\ WF_vars(Next) /\ \A s \in Bridges : WF_vars(Answers(s))

-----------------------------------------------------------------------------
TypeOK ==
  /\ selected_master \in [Slaves -> Masters]
  /\ slave_ack \in [Slaves -> BOOLEAN]
  /\ slave_data \in [Slaves -> Value]
  /\ req_delay \in [Masters -> Slaves \cup BadRegions \cup {"none"}]
  /\ mem \in [Addr -> Value]
  /\ shown \in [Masters -> Requests \cup {None}]

(* The two masters see one memory: every acknowledge answers the request its *)
(* master showed in the cycle before, that request was performed exactly     *)
(* once, at that edge, and the data are the word's; no request of the other  *)
(* master and no slow device in between changes that.                        *)
Memory == INSTANCE ArxMemory WITH
  ack  <- {m \in Masters : m_ack(m)},
  data <- [m \in Masters |->
             IF m_ack(m) /\ shown[m].kind = "read" THEN m_data(m) ELSE Ones]
ImplementsMemory == Memory!Spec

(* A request that has reached a slow device stays selected there until the   *)
(* device acknowledges it: the other master can not take the bridge over in  *)
(* the middle of an Avalon transfer.                                         *)
TransferUndisturbed ==
  [][\A s \in Bridges, m \in Masters :
       /\ Asks(shown, m, s) /\ selected_master[s] = m /\ ~slave_ack[s]
       /\ Asks(shown', m, s)
       => selected_master'[s] = m]_vars

(* Neither master starves: one that holds its requests, from some time on,   *)
(* is acknowledged again and again, also when the other one withdraws its.   *)
Holds(m) == waiting(m) => shown'[m] = shown[m]
NoStarvation == \A m \in Masters : <>[][Holds(m)]_vars => []<>~waiting(m)
=============================================================================
