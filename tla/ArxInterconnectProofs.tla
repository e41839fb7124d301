------------------------ MODULE ArxInterconnectProofs ------------------------
(***************************************************************************)
(* Proofs about the memory interconnect for any number of slaves of every   *)
(* kind, any memory contents and any two masters: it implements one memory, *)
(* and an Avalon transfer is not disturbed.  That nobody starves is a       *)
(* liveness property, which TLC checks.                                     *)
(***************************************************************************)
EXTENDS ArxInterconnect, TLAPS

-----------------------------------------------------------------------------
(* Requests and their regions.                                               *)
LEMMA RequestFacts ==
  ASSUME NEW r \in Requests \cup {None}
  PROVE  /\ Region(r) \in Slaves \cup BadRegions \cup {"none"}
         /\ Region(r) \in Slaves => /\ r \in Requests /\ r # None
                                    /\ r.addr \in Addr /\ r.addr[1] = Region(r)
         /\ Region(r) \in BadRegions => r \in Requests /\ r # None /\ r.addr \notin Addr
         /\ r.kind = "write" => r.value \in Value
         /\ r \in Requests => r.kind \in {"read", "write"}
<1>1. "none" \notin Slaves /\ "none" \notin BadRegions /\ Slaves \cap BadRegions = {}
  BY InterconnectAssumption
<1>2. CASE r = None
  BY <1>1, <1>2 DEF Region, None, Requests
<1>3. CASE r \in Requests
  <2>1. r # None
    BY <1>3 DEF Requests, None
  <2>2. r.addr \in Addr \cup NoAddr /\ Region(r) = r.addr[1]
    BY <1>3, <2>1 DEF Requests, Region
  <2>3. r.kind \in {"read", "write"} /\ (r.kind = "write" => r.value \in Value)
    BY <1>3 DEF Requests
  <2>4. CASE r.addr \in Addr
    BY <1>1, <1>3, <2>1, <2>2, <2>3, <2>4 DEF Addr
  <2>5. CASE r.addr \in NoAddr
    BY <1>1, <1>3, <2>1, <2>2, <2>3, <2>5 DEF Addr, NoAddr
  <2>6. QED
    BY <2>2, <2>4, <2>5
<1>4. QED
  BY <1>2, <1>3

LEMMA NextMasterType ==
  ASSUME TypeOK, NEW q, NEW s \in Slaves
  PROVE  next_master(q, s) \in Masters
<1>1. selected_master[s] \in {1, 2}
  BY DEF TypeOK, Masters
<1>2. CASE Asks(q, 1, s) /\ Asks(q, 2, s)
  BY <1>1, <1>2 DEF next_master, Other, Masters
<1>3. CASE ~(Asks(q, 1, s) /\ Asks(q, 2, s))
  BY <1>1, <1>3 DEF next_master, Masters
<1>4. QED
  BY <1>2, <1>3

-----------------------------------------------------------------------------
(* One edge.                                                                 *)
Shows(q) == q \in [Masters -> Requests \cup {None}]

(* The slave s performs the request of the master it has selected.           *)
Performs(q, answering, s) == slave_req(q, s) /\ (s \in Bridges => s \in answering)

LEMMA PerformedRequest ==
  ASSUME TypeOK, NEW q, Shows(q), NEW answering, NEW s \in Slaves, Performs(q, answering, s)
  PROVE  LET n == next_master(q, s) IN
         /\ n \in Masters /\ q[n] \in Requests /\ Region(q[n]) = s
         /\ q[n].addr \in Addr /\ q[n].addr[1] = s
<1> DEFINE n == next_master(q, s)
<1>1. n \in Masters
  BY NextMasterType
<1>2. q[n] \in Requests \cup {None} /\ Region(q[n]) = s
  BY <1>1 DEF Shows, Performs, slave_req, Asks
<1>3. QED
  BY <1>1, <1>2, RequestFacts

LEMMA TypeStep ==
  ASSUME TypeOK, NEW q, Shows(q), NEW answering, Clock(q, answering)
  PROVE  TypeOK'
<1>1. selected_master' \in [Slaves -> Masters]
  BY NextMasterType DEF Clock
<1>2. slave_ack' \in [Slaves -> BOOLEAN]
  BY DEF Clock, slave_req, Asks
<1>3. slave_data' \in [Slaves -> Value]
  <2>1. ASSUME NEW s \in Slaves, Performs(q, answering, s)
        PROVE  mem[q[next_master(q, s)].addr] \in Value
    BY <2>1, PerformedRequest DEF TypeOK
  <2>2. slave_data' = [s \in Slaves |->
          IF Performs(q, answering, s) /\ q[next_master(q, s)].kind = "read"
          THEN mem[q[next_master(q, s)].addr] ELSE slave_data[s]]
    BY DEF Clock, Performs
  <2>3. QED
    BY <2>1, <2>2 DEF TypeOK
<1>4. req_delay' \in [Masters -> Slaves \cup BadRegions \cup {"none"}]
  BY RequestFacts DEF Clock, Shows
<1>5. mem' \in [Addr -> Value]
  <2> DEFINE n(a) == next_master(q, a[1])
             writes(a) == /\ Performs(q, answering, a[1]) /\ q[n(a)].kind = "write"
                          /\ a[1] \notin Roms /\ q[n(a)].addr = a
  <2>1. ASSUME NEW a \in Addr, writes(a) PROVE q[n(a)].value \in Value
    <3>1. a[1] \in Slaves
      BY DEF Addr
    <3>2. q[n(a)] \in Requests
      BY <2>1, <3>1, PerformedRequest
    <3>3. QED
      BY <2>1, <3>2, RequestFacts
  <2>2. mem' = [a \in Addr |-> IF writes(a) THEN q[n(a)].value ELSE mem[a]]
    BY DEF Clock, Performs
  <2>3. \A a \in Addr : mem[a] \in Value
    BY DEF TypeOK
  <2>4. QED
    BY <2>1, <2>2, <2>3
<1>6. shown' \in [Masters -> Requests \cup {None}]
  BY DEF Clock, Shows
<1>7. QED
  BY <1>1, <1>2, <1>3, <1>4, <1>5, <1>6 DEF TypeOK

(* Who is acknowledged in the next cycle.                                    *)
LEMMA AckStep ==
  ASSUME NEW q, Shows(q), NEW answering, Clock(q, answering), NEW m \in Masters
  PROVE  LET s == Region(q[m]) IN
         m_ack(m)' <=> \/ s \in BadRegions
                       \/ s \in Slaves /\ next_master(q, s) = m /\ Performs(q, answering, s)
<1> DEFINE s == Region(q[m])
<1>1. req_delay'[m] = s
  BY DEF Clock
<1>2. s \in Slaves => /\ selected_master'[s] = next_master(q, s)
                      /\ slave_ack'[s] = Performs(q, answering, s)
  BY DEF Clock, Performs
<1>3. QED
  BY <1>1, <1>2 DEF m_ack

-----------------------------------------------------------------------------
(* The abstract memory.                                                      *)
Acked == {m \in Masters : m_ack(m)}
Read  == [m \in Masters |->
            IF m_ack(m) /\ shown[m].kind = "read" THEN m_data(m) ELSE Ones]

(* At most one master writes a word at an edge, the one its slave performs.  *)
LEMMA WritersStep ==
  ASSUME TypeOK, NEW q, Shows(q), NEW answering, Clock(q, answering), NEW a \in Addr
  PROVE  LET n == next_master(q, a[1]) IN
         Memory!Writers(a) =
           IF /\ Performs(q, answering, a[1]) /\ q[n].kind = "write"
              /\ a[1] \notin Roms /\ q[n].addr = a
           THEN {n} ELSE {}
<1> DEFINE s == a[1]
           n == next_master(q, s)
           writes == Performs(q, answering, s) /\ q[n].kind = "write"
                       /\ s \notin Roms /\ q[n].addr = a
<1>1. s \in Slaves /\ s \notin BadRegions /\ (a \in RomAddr <=> s \in Roms)
  BY InterconnectAssumption DEF Addr, RomAddr, Slaves
<1>2. shown' = q
  BY DEF Clock
<1>3. Memory!Writers(a) =
        {m \in Masters : m_ack(m)' /\ q[m].kind = "write" /\ q[m].addr = a /\ s \notin Roms}
  BY <1>1, <1>2 DEF Memory!Writers, Memory!granted
<1>4. ASSUME NEW m \in Masters, q[m].kind = "write", q[m].addr = a PROVE Region(q[m]) = s
  <2>1. q[m] # None
    BY <1>4 DEF None
  <2>2. QED
    BY <1>4, <2>1 DEF Region
<1>5. ASSUME NEW m \in Masters, q[m].kind = "write", q[m].addr = a
      PROVE  m_ack(m)' <=> n = m /\ Performs(q, answering, s)
  BY <1>1, <1>4, <1>5, AckStep
<1>6. n \in Masters
  BY <1>1, NextMasterType
<1>7. QED
  BY <1>3, <1>5, <1>6

LEMMA GrantStep ==
  ASSUME TypeOK, NEW q, Shows(q), NEW answering, Clock(q, answering)
  PROVE  Memory!Grant
<1> DEFINE n(s) == next_master(q, s)
<1>1. shown' = q /\ \A m \in Masters : q[m] \in Requests \cup {None}
  BY DEF Clock, Shows
<1>2. Acked' \subseteq {m \in Masters : shown'[m] # Memory!None}
  <2>1. ASSUME NEW m \in Masters, m_ack(m)' PROVE q[m] # None
    <3>1. Region(q[m]) # "none"
      BY <2>1, AckStep, InterconnectAssumption
    <3>2. QED
      BY <3>1 DEF Region
  <2>2. QED
    BY <1>1, <2>1 DEF Acked, Memory!None, None
<1>3. Read' = [m \in Masters |->
         IF m \in Acked' /\ shown'[m].kind = "read" THEN Memory!Contents(shown'[m].addr) ELSE Ones]
  <2>1. ASSUME NEW m \in Masters, m_ack(m)', q[m].kind = "read"
        PROVE  m_data(m)' = Memory!Contents(q[m].addr)
    <3>1. req_delay'[m] = Region(q[m])
      BY DEF Clock
    <3>2. CASE Region(q[m]) \in BadRegions
      <4>1. q[m].addr \notin Addr
        BY <1>1, <3>2, RequestFacts
      <4>2. QED
        BY <3>1, <3>2, <4>1 DEF m_data, Memory!Contents
    <3>3. CASE Region(q[m]) \notin BadRegions
      <4> DEFINE s == Region(q[m])
      <4>1. s \in Slaves /\ n(s) = m /\ Performs(q, answering, s)
        BY <2>1, <3>3, AckStep
      <4>2. slave_data'[s] = mem[q[m].addr]
        BY <2>1, <4>1 DEF Clock, Performs
      <4>3. q[m].addr \in Addr
        BY <1>1, <4>1, RequestFacts
      <4>4. QED
        BY <3>1, <3>3, <4>2, <4>3 DEF m_data, Memory!Contents
    <3>4. QED
      BY <3>2, <3>3
  <2>2. Read' = [m \in Masters |->
           IF m_ack(m)' /\ q[m].kind = "read" THEN m_data(m)' ELSE Ones]
    BY <1>1 DEF Read
  <2>3. \A m \in Masters : m \in Acked' <=> m_ack(m)'
    BY DEF Acked
  <2>4. QED
    BY <1>1, <2>1, <2>2, <2>3
<1>4. \A a \in Addr : \A m1, m2 \in Memory!Writers(a) : m1 = m2
  BY WritersStep
<1>5. mem' = [a \in Addr |->
         IF Memory!Writers(a) = {} THEN mem[a]
         ELSE shown'[CHOOSE m \in Memory!Writers(a) : TRUE].value]
  <2> DEFINE writes(a) == /\ Performs(q, answering, a[1]) /\ q[n(a[1])].kind = "write"
                          /\ a[1] \notin Roms /\ q[n(a[1])].addr = a
  <2>1. mem' = [a \in Addr |-> IF writes(a) THEN q[n(a[1])].value ELSE mem[a]]
    BY DEF Clock, Performs
  <2>2. ASSUME NEW a \in Addr
        PROVE  (IF writes(a) THEN q[n(a[1])].value ELSE mem[a]) =
               IF Memory!Writers(a) = {} THEN mem[a]
               ELSE shown'[CHOOSE m \in Memory!Writers(a) : TRUE].value
    <3>1. Memory!Writers(a) = IF writes(a) THEN {n(a[1])} ELSE {}
      BY WritersStep
    <3>2. \A x : (CHOOSE m \in {x} : TRUE) = x
      OBVIOUS
    <3>3. CASE writes(a)
      <4>1. Memory!Writers(a) = {n(a[1])}
        BY <3>1, <3>3
      <4>2. (CHOOSE m \in Memory!Writers(a) : TRUE) = n(a[1])
        BY <3>2, <4>1
      <4>3. QED
        BY <1>1, <3>3, <4>1, <4>2
    <3>4. CASE ~writes(a)
      BY <3>1, <3>4
    <3>5. QED
      BY <3>3, <3>4
  <2>3. QED
    BY <2>1, <2>2
<1>6. QED
  BY <1>2, <1>3, <1>4, <1>5 DEF Memory!Grant, Memory!granted, Acked, Read

LEMMA AskStep ==
  ASSUME NEW q, Shows(q), NEW answering, Clock(q, answering)
  PROVE  Memory!Ask
<1>1. shown' = q /\ MayShow(q)
  BY DEF Clock
<1>2. Requests = Memory!Requests /\ None = Memory!None
  BY DEF Requests, Memory!Requests, None, Memory!None
<1>3. shown' \in [Masters -> Memory!Requests \cup {Memory!None}]
  BY <1>1, <1>2 DEF Shows
<1>4. ASSUME NEW m \in Masters
      PROVE  /\ m \in ReadOnly => shown'[m].kind # "write"
             /\ shown[m] # None /\ m \notin Acked => shown'[m] = shown[m] \/ m \in Withdrawing
  BY <1>1 DEF MayShow, waiting, Acked
<1>5. QED
  BY <1>2, <1>3, <1>4 DEF Memory!Ask, Acked

LEMMA MemoryInit == Init => Memory!Init
<1> SUFFICES ASSUME Init PROVE Memory!Init
  OBVIOUS
<1>1. \A m \in Masters : ~m_ack(m)
  BY InterconnectAssumption DEF Init, m_ack
<1>2. shown = [m \in Masters |-> Memory!None]
  BY DEF Init, None, Memory!None
<1>3. mem \in [Addr -> Value]
  BY DEF Init
<1>4. QED
  BY <1>1, <1>2, <1>3 DEF Memory!Init

LEMMA InitTypes == Init => TypeOK
<1> SUFFICES ASSUME Init PROVE TypeOK
  OBVIOUS
<1>1. /\ selected_master \in [Slaves -> Masters]
      /\ slave_ack \in [Slaves -> BOOLEAN] /\ slave_data \in [Slaves -> Value]
  BY InterconnectAssumption DEF Init, Masters
<1>2. /\ req_delay \in [Masters -> Slaves \cup BadRegions \cup {"none"}]
      /\ mem \in [Addr -> Value] /\ shown \in [Masters -> Requests \cup {None}]
  BY DEF Init
<1>3. QED
  BY <1>1, <1>2 DEF TypeOK

LEMMA NextTypes == TypeOK /\ [Next]_vars => TypeOK'
<1> SUFFICES ASSUME TypeOK, [Next]_vars PROVE TypeOK'
  OBVIOUS
<1>1. CASE UNCHANGED vars
  BY <1>1 DEF TypeOK, vars
<1>2. CASE Next
  BY <1>2, TypeStep DEF Next, Shows
<1>3. QED
  BY <1>1, <1>2

LEMMA MemoryStep == TypeOK /\ [Next]_vars => [Memory!Next]_Memory!vars
<1> SUFFICES ASSUME TypeOK, [Next]_vars PROVE [Memory!Next]_Memory!vars
  OBVIOUS
<1>1. CASE UNCHANGED vars
  BY <1>1 DEF vars, Memory!vars, m_ack, m_data
<1>2. CASE Next
  BY <1>2, AskStep, GrantStep DEF Next, Shows, Memory!Next
<1>3. QED
  BY <1>1, <1>2

THEOREM TypeCorrect == Spec => []TypeOK
BY InitTypes, NextTypes, PTL DEF Spec

(* The two masters see one memory: whatever the other one asks, however long *)
(* a bridge takes and whichever requests are withdrawn, an acknowledge       *)
(* answers its master's last request, performed once, at that edge.          *)
THEOREM OneMemory == Spec => ImplementsMemory
BY MemoryInit, MemoryStep, TypeCorrect, PTL DEF Spec, ImplementsMemory, Memory!Spec

-----------------------------------------------------------------------------
(* The other master cannot take a bridge over in the middle of a transfer.   *)
THEOREM TransfersUndisturbed == Spec => TransferUndisturbed
<1> DEFINE Undisturbed ==
      \A s \in Bridges, m \in Masters :
        /\ Asks(shown, m, s) /\ selected_master[s] = m /\ ~slave_ack[s]
        /\ Asks(shown', m, s)
        => selected_master'[s] = m
<1>1. [Next]_vars => [Undisturbed]_vars
  <2>1. SUFFICES ASSUME NEW q \in [Masters -> Requests \cup {None}],
                        NEW answering \in SUBSET Bridges, Clock(q, answering),
                        NEW s \in Bridges, NEW m \in Masters,
                        selected_master[s] = m, ~slave_ack[s], Asks(shown', m, s)
                 PROVE  selected_master'[s] = m
    BY DEF Next
  <2>2. shown' = q /\ selected_master'[s] = next_master(q, s)
    BY <2>1 DEF Clock, Slaves
  <2>3. CASE Asks(q, 1, s) /\ Asks(q, 2, s)
    BY <2>1, <2>2, <2>3 DEF next_master
  <2>4. CASE ~(Asks(q, 1, s) /\ Asks(q, 2, s))
    BY <2>1, <2>2, <2>4 DEF next_master, Masters
  <2>5. QED
    BY <2>3, <2>4
<1>2. QED
  BY <1>1, PTL DEF Spec, TransferUndisturbed
=============================================================================
