------------------------------ MODULE ArxMemory -------------------------------
(***************************************************************************)
(* What the interconnect promises to its two masters, the data port and the *)
(* instruction port of the core: one memory.  At every clock edge any of    *)
(* the requests shown may be granted; a granted request is performed at     *)
(* that edge, once, and acknowledged to its master in the next cycle.       *)
(***************************************************************************)
CONSTANTS
  Masters,     \* the masters of the interconnect
  ReadOnly,    \* masters without writes
  Withdrawing, \* masters that may drop or replace a request before its acknowledge
  Addr,        \* the words that exist
  RomAddr,     \* those that a write leaves alone
  NoAddr,      \* words in regions nothing answers for
  Value,       \* contents of a word
  Ones         \* what a read of a word in NoAddr gives

None     == [kind |-> "none"]
Requests == [kind : {"read"}, addr : Addr \cup NoAddr]
              \cup [kind : {"write"}, addr : Addr \cup NoAddr, value : Value]

VARIABLES
  mem,    \* contents of the words
  shown,  \* what each master asked in the last cycle
  ack,    \* the masters whose request was granted
  data    \* what these have read
vars == <<mem, shown, ack, data>>

Init ==
  /\ mem \in [Addr -> Value]
  /\ shown = [m \in Masters |-> None]
  /\ ack = {}
  /\ data = [m \in Masters |-> Ones]

(* A request stays until it is granted.                                      *)
Ask ==
  /\ shown' \in [Masters -> Requests \cup {None}]
  /\ \A m \in Masters :
       /\ m \in ReadOnly => shown'[m].kind # "write"
       /\ shown[m] # None /\ m \notin ack =>
            shown'[m] = shown[m] \/ m \in Withdrawing

(* The masters granted at this edge, and those of them that write the word a.*)
granted    == ack'
Writers(a) == {m \in granted : /\ shown'[m].kind = "write"
                               /\ shown'[m].addr = a
                               /\ a \notin RomAddr}
Contents(a) == IF a \in Addr THEN mem[a] ELSE Ones

Grant ==
  /\ granted \subseteq {m \in Masters : shown'[m] # None}
  /\ data' = [m \in Masters |->
       IF m \in granted /\ shown'[m].kind = "read" THEN Contents(shown'[m].addr) ELSE Ones]
  /\ \A a \in Addr : \A m, n \in Writers(a) : m = n
  /\ mem' = [a \in Addr |->
       IF Writers(a) = {} THEN mem[a]
       ELSE shown'[CHOOSE m \in Writers(a) : TRUE].value]

Next == Ask /\ Grant

Spec == Init /\ [][Next]_vars
=============================================================================
