--------------------------- MODULE MCProgramsProofs ---------------------------
(***************************************************************************)
(* Proofs about the software of the board apart from CoreMark (MCPrograms), for every   *)
(* size of a section, every place of the heap, every capacity of the UART, every prescaler *)
(* and width of the timer, and every cost of a run of Dhrystone.                      *)
(***************************************************************************)
EXTENDS MCPrograms, Sequences, TLAPS

(* ------------------------------ the start code ------------------------------ *)
(* The code of _start is at a place of its loops, with the registers that place has:     *)
(* how far the bytes of a section are done is read off them.                          *)
Part(k) == S!Calls[k][2]
StartTypes ==
  /\ size \in [{"sdata", "data", "sbss", "bss"} -> Nat]
  /\ DOMAIN ram = 0 .. S!Total + Rest - 1
  /\ call \in 1 .. 5 /\ spc \in {"call", "zero_loop", "memcpy_loop", "main"}
  /\ spc = "main" => call = 5
  /\ spc = "zero_loop" => call \in 1 .. 2
  /\ spc = "memcpy_loop" => call \in 3 .. 4
Registers ==
  /\ spc = "zero_loop" => a0 \in Nat /\ a0 >= S!First(Part(call)) /\ a0 <= a1 /\ a1 = S!End(Part(call))
  /\ spc = "memcpy_loop" =>
       /\ a0 \in Nat /\ a0 >= S!First(Part(call)) /\ a0 <= S!End(Part(call))
       /\ a2 = S!End(Part(call)) - a0 /\ a1 = S!Load(Part(call)) + (a0 - S!First(Part(call)))

(* The end of the bytes of the k-th section that are done.                             *)
Until(k) ==
  IF call > k THEN S!End(Part(k))
  ELSE IF call = k /\ spc \in {"zero_loop", "memcpy_loop"} THEN a0 ELSE S!First(Part(k))
Done(k, a) == a >= S!First(Part(k)) /\ a < Until(k)
Contents == \A a \in DOMAIN ram :
  /\ Done(1, a) \/ Done(2, a) => ram[a] = <<"zero">>
  /\ Done(3, a) => ram[a] = <<"data", a - S!First("data")>>
  /\ Done(4, a) => ram[a] = <<"sdata", a - S!First("sdata")>>
  /\ (\A k \in 1 .. 4 : ~ Done(k, a)) => ram[a] = <<"junk">>
StartInv == StartTypes /\ Registers /\ Contents

(* ------------------------------- the system calls ------------------------------- *)
HeapInv ==
  /\ end \in Nat /\ heap_ptr \in Nat /\ heap_ptr >= end
  /\ heap_ptr = end \/ heap_ptr <= H!heap_end

(* Space that was seen is still there when the character is written: only the host       *)
(* changes the queue in between, and it only makes room.                               *)
UartInv ==
  /\ fifo \in Seq(Nat) /\ received \in Seq(Nat)
  /\ polled \in BOOLEAN /\ (polled => Len(fifo) < Capacity)
  /\ written = Len(received) + Len(fifo)
  /\ \A k \in 1 .. Len(received) : received[k] = k
  /\ \A k \in 1 .. Len(fifo) : fifo[k] = Len(received) + k

(* ------------------------------- the peripherals ------------------------------- *)
LampsInv ==
  /\ ppc \in 1 .. 22 /\ q \in Nat /\ v \in [1 .. 4 -> Nat]
  /\ ppc \in 2 .. 5 => out_1 = <<0, 1, 2, 3>>
  /\ \A k \in 1 .. 4 : ppc > k + 1 => v[k] = k - 1
  /\ pending \in {"none", "byte", "start", "poll", "now"}
  /\ pending = "byte" => P!Running /\ P!Op.op = "load" /\ q = P!Op.n
  /\ pending \in {"start", "poll", "now"} => P!Running /\ P!Op.op = "delay"

(* Cycles since the first reading; cycles that a delay of n ticks may take.             *)
Cycles == PRESCALE * since + cnt_50
Limit == PRESCALE * P!Op.n + PRESCALE - 1
After(first, ticks, reading) == reading = first + ticks \/ reading = first + ticks - WRAP
TimerTypes ==
  /\ cnt \in Nat /\ cnt < WRAP /\ cnt_50 \in Nat /\ cnt_50 < PRESCALE
  /\ since \in Nat /\ gap \in Nat /\ gap <= MaxGap /\ start \in Nat /\ start < WRAP
  /\ pending \in {"start", "poll", "now"} => q < WRAP
DelayInv ==
  /\ pending = "start" => After(q, since, cnt) /\ Cycles <= Limit + 1
  /\ pending = "poll" => After(start, since, cnt) /\ Cycles <= Limit + 2 + gap
  /\ pending = "now" =>
       /\ After(start, since, cnt) /\ Cycles <= Limit + 3 + MaxGap
       /\ \E seen \in Nat : /\ After(start, seen, q) /\ seen <= since
                            /\ Cycles <= PRESCALE * seen + PRESCALE
TimerInv == LampsInv /\ TimerTypes /\ DelayInv

(* --------------------------------- Dhrystone --------------------------------- *)
(* What the globals and the locals hold at each call of main, in every run.              *)
At(places) == pc \in places
Body == {"while", "Proc_8", "Proc_1", "Proc_3", "rest", "chars", "Proc_2"}
Finished == {"measured", "done"}
Glob(int) == Record("next", Ident_1, Ident_3, int, "some")
HeapRight ==
  /\ heap = [glob |-> heap.glob, next |-> heap.next] /\ heap.glob = Glob(heap.glob.Int_Comp)
  /\ At({"Proc_3"}) => heap = [glob |-> Glob(5), next |-> Glob(5)]
  /\ At({"rest"}) => heap = [glob |-> Glob(17), next |-> Glob(5)]
  /\ At({"chars", "Proc_2"} \cup Finished) =>
       heap = [glob |-> Glob(17), next |-> Record("next", Ident_1, Ident_2, 18, "some")]
GlobalsRight ==
  /\ At({"Proc_4", "Func_2"} \cup Body \cup Finished) => Ch_1_Glob = A
  /\ At({"Func_2"} \cup Body \cup Finished) => Ch_2_Glob = B /\ Bool_Glob = TRUE
  /\ At({"Proc_1", "Proc_3", "rest", "chars", "Proc_2"} \cup Finished) =>
       Int_Glob = 5 /\ 8 \in DOMAIN Arr_1_Glob /\ Arr_1_Glob[8] = 7
LocalsRight ==
  /\ At({"Func_2"} \cup Body \cup Finished) => Str_2_Loc = "second" /\ Enum_Loc = Ident_2
  /\ At({"Func_2"}) => Int_1_Loc = 2 /\ Int_2_Loc = 3
  /\ At({"while"}) => Int_1_Loc \in 2 .. 3 /\ Int_2_Loc = 3 /\ (Int_1_Loc = 3 => Int_3_Loc = 7)
  /\ At({"Proc_8", "Proc_1", "Proc_3", "rest", "chars"}) => Int_1_Loc = 3 /\ Int_2_Loc = 3 /\ Int_3_Loc = 7
  /\ At({"Proc_2"}) => Int_1_Loc = 1 /\ Int_2_Loc = 13 /\ Int_3_Loc = 7
  /\ At(Finished) => Int_1_Loc = 5 /\ Int_2_Loc = 13 /\ Int_3_Loc = 7
  /\ At({"chars"}) => Ch_Index \in A .. C
RunsRight ==
  /\ executed \in Nat /\ <<8, 7>> \in DOMAIN Arr_2_Glob
  /\ Arr_2_Glob[<<8, 7>>] = 10 + executed + (IF At({"Proc_1", "Proc_3", "rest", "chars", "Proc_2"}) THEN 1 ELSE 0)
(* The runs of earlier tries, if there were any, and those of the present one.           *)
TriesRight ==
  /\ Number_Of_Runs \in Nat \ {0} /\ Run_Index \in Nat \ {0} /\ executed \in Nat
  /\ At(Finished) => Run_Index = Number_Of_Runs + 1
  /\ ~ At(Finished) => Run_Index <= Number_Of_Runs
  /\ \/ Number_Of_Runs = NUMBER_OF_RUNS /\ executed = Run_Index - 1
     \/ Number_Of_Runs > NUMBER_OF_RUNS /\ executed > Run_Index - 1
TimingRight ==
  /\ Number_Of_Runs \in Nat \ {0} /\ cost \in Cost
  /\ pc = "done" =>
       /\ User_Time = Number_Of_Runs * cost
       /\ Microseconds = Product32(User_Time \div Runs) \div HZ
       /\ Dhrystones_Per_Second = (HZ * Runs) \div User_Time
DhryInv ==
  /\ pc \in {"Proc_5", "Proc_4", "Func_2"} \cup Body \cup Finished
  /\ HeapRight /\ GlobalsRight /\ LocalsRight /\ RunsRight /\ TriesRight /\ TimingRight

-----------------------------------------------------------------------------
(* Where the sections lie, and which of them the k-th call is for.                       *)
Fields == {"sdata", "data", "sbss", "bss"}
Layout ==
  /\ Part(1) = "sbss" /\ Part(2) = "bss" /\ Part(3) = "data" /\ Part(4) = "sdata"
  /\ S!First("sdata") = 0 /\ S!End("sdata") = size["sdata"]
  /\ S!First("data") = size["sdata"] /\ S!End("data") = size["sdata"] + size["data"]
  /\ S!First("sbss") = size["sdata"] + size["data"]
  /\ S!End("sbss") = size["sdata"] + size["data"] + size["sbss"]
  /\ S!First("bss") = size["sdata"] + size["data"] + size["sbss"]
  /\ S!End("bss") = size["sdata"] + size["data"] + size["sbss"] + size["bss"]
  /\ S!Total = size["sdata"] + size["data"] + size["sbss"] + size["bss"]
  /\ size["sdata"] \in Nat /\ size["data"] \in Nat /\ size["sbss"] \in Nat /\ size["bss"] \in Nat

LEMMA LayoutFixed == ASSUME size \in [Fields -> Nat] PROVE Layout
  BY DEF Layout, Fields, Part, S!Calls, S!First, S!End, S!Total

LEMMA CallsFixed ==
  /\ S!Calls[1][1] = "zero_loop" /\ S!Calls[2][1] = "zero_loop"
  /\ S!Calls[3][1] = "memcpy_loop" /\ S!Calls[4][1] = "memcpy_loop"
  BY DEF S!Calls

LEMMA StartInitially == ASSUME ProgramsAssumption, S!Init PROVE StartInv
<1> size \in [Fields -> Nat]  BY DEF ProgramsAssumption, S!Init, Fields
<1>1. Layout  BY LayoutFixed
<1>2. StartTypes  BY DEF StartTypes, S!Init, Fields
<1>3. Registers  BY DEF Registers, S!Init
<1>4. \A k \in 1 .. 4 : Until(k) = S!First(Part(k))  BY DEF Until, S!Init
<1>5. \A k \in 1 .. 4, a \in DOMAIN ram : ~ Done(k, a)
  BY <1>1, <1>4 DEF Done, S!Init, Layout
<1>6. Contents  BY <1>5 DEF Contents, S!Init
<1> QED  BY <1>2, <1>3, <1>6 DEF StartInv

(* A call only loads the registers: of its section no byte is done yet. *)
LEMMA CallKept == ASSUME ProgramsAssumption, StartInv, S!Call PROVE StartInv'
<1> size \in [Fields -> Nat] /\ size' = size /\ ram' = ram /\ call' = call /\ spc = "call"
  BY DEF StartInv, StartTypes, Fields, S!Call
<1>1. Layout /\ Layout'
  <2>1. Layout  BY LayoutFixed
  <2>2. Layout'  BY DEF Layout, Fields, Part, S!Calls, S!First, S!End, S!Total
  <2> QED  BY <2>1, <2>2
<1>2. call \in 1 .. 5  BY DEF StartInv, StartTypes
<1>3. /\ call = 5 => spc' = "main"
      /\ call \in 1 .. 2 => spc' = "zero_loop"
      /\ call \in 3 .. 4 => spc' = "memcpy_loop"
  BY <1>2, CallsFixed DEF S!Call
<1>4. StartTypes'  BY <1>1, <1>2, <1>3 DEF StartInv, StartTypes, Layout, Fields
<1>5. call <= 4 => a0' = S!First(Part(call))  BY <1>2 DEF S!Call, Part
<1>6. Registers'
  <2>1. CASE call = 1  BY <2>1, <1>1, <1>3, <1>5, CallsFixed DEF S!Call, Registers, Layout, Part
  <2>2. CASE call = 2  BY <2>2, <1>1, <1>3, <1>5, CallsFixed DEF S!Call, Registers, Layout, Part
  <2>3. CASE call = 3
    BY <2>3, <1>1, <1>3, <1>5, CallsFixed
    DEF S!Call, S!Load, Registers, Layout, Part, ProgramsAssumption
  <2>4. CASE call = 4
    BY <2>4, <1>1, <1>3, <1>5, CallsFixed
    DEF S!Call, S!Load, Registers, Layout, Part, ProgramsAssumption
  <2>5. CASE call = 5  BY <2>5, <1>3 DEF Registers
  <2> QED  BY <1>2, <2>1, <2>2, <2>3, <2>4, <2>5
<1>7. \A k \in 1 .. 4 : Until(k)' = Until(k) /\ S!First(Part(k))' = S!First(Part(k))
  <2> TAKE k \in 1 .. 4
  <2>1. S!First(Part(k))' = S!First(Part(k)) /\ S!End(Part(k))' = S!End(Part(k))
    BY <1>1 DEF Layout
  <2> QED  BY <2>1, <1>5 DEF Until
<1>8. Contents'  BY <1>7, <1>1 DEF Contents, Done, StartInv, Layout
<1> QED  BY <1>4, <1>6, <1>8 DEF StartInv

(* One step of a loop does one byte of its section, or ends with the section done. *)
LEMMA LoopKept ==
  ASSUME ProgramsAssumption, StartInv, S!zero_loop \/ S!memcpy_loop PROVE StartInv'
<1> size \in [Fields -> Nat] /\ size' = size /\ spc \in {"zero_loop", "memcpy_loop"}
  BY DEF StartInv, StartTypes, Fields, S!zero_loop, S!memcpy_loop
<1>1. Layout /\ Layout'
  <2>1. Layout  BY LayoutFixed
  <2>2. Layout'  BY DEF Layout, Fields, Part, S!Calls, S!First, S!End, S!Total
  <2> QED  BY <2>1, <2>2
<1>2. call \in 1 .. 4  BY DEF StartInv, StartTypes
<1> DEFINE to == S!End(Part(call))
<1>3. a0 \in Nat /\ a0 >= S!First(Part(call)) /\ a0 <= to /\ to \in Nat
  <2>1. a0 \in Nat /\ a0 >= S!First(Part(call)) /\ a0 <= to
    BY DEF StartInv, StartTypes, Registers
  <2>2. to \in Nat  BY <1>1, <1>2 DEF Layout
  <2> QED  BY <2>1, <2>2
<1>4. \A k \in 1 .. 4 : S!First(Part(k))' = S!First(Part(k)) /\ S!End(Part(k))' = S!End(Part(k))
  BY <1>1 DEF Layout
<1>5. \A k \in 1 .. 4 : S!First(Part(k)) \in Nat /\ S!End(Part(k)) \in Nat
                        /\ S!First(Part(k)) <= S!End(Part(k)) /\ S!End(Part(k)) <= S!Total
  BY <1>1 DEF Layout
<1>6. CASE a0 = to
  <2>1. spc' = "call" /\ call' = call + 1 /\ ram' = ram
    BY <1>6, <1>3 DEF S!zero_loop, S!memcpy_loop, S!Return, StartInv, StartTypes, Registers
  <2>2. \A k \in 1 .. 4 : Until(k)' = Until(k)
    BY <2>1, <1>2, <1>4, <1>6 DEF Until
  <2>3. Contents'  BY <2>1, <2>2, <1>4, <1>1 DEF Contents, Done, StartInv, Layout
  <2>4. StartTypes'  BY <2>1, <1>1, <1>2 DEF StartInv, StartTypes, Layout, Fields
  <2> QED  BY <2>1, <2>3, <2>4 DEF StartInv, Registers
<1>7. CASE a0 # to
  <2>1. /\ spc' = spc /\ call' = call /\ a0' = a0 + 1 /\ a0 < to
        /\ spc = "zero_loop" => ram' = [ram EXCEPT ![a0] = <<"zero">>] /\ a1' = a1
        /\ spc = "memcpy_loop" => ram' = [ram EXCEPT ![a0] = S!Image(a1)] /\ a1' = a1 + 1 /\ a2' = a2 - 1
    BY <1>7, <1>3 DEF S!zero_loop, S!memcpy_loop, StartInv, StartTypes, Registers
  <2>2. \A k \in 1 .. 4 : Until(k)' = IF k = call THEN a0 + 1 ELSE Until(k)
    BY <2>1, <1>2, <1>4 DEF Until
  <2>3. Until(call) = a0 /\ \A k \in 1 .. 4 : Until(k) \in Nat /\ Until(k) <= S!End(Part(k))
                                              /\ S!First(Part(k)) <= Until(k)
    BY <1>2, <1>3, <1>5 DEF Until
  <2>4. DOMAIN ram = 0 .. S!Total + Rest - 1 /\ a0 \in DOMAIN ram /\ DOMAIN ram' = DOMAIN ram
    <3>1. DOMAIN ram = 0 .. S!Total + Rest - 1 /\ DOMAIN ram' = DOMAIN ram
      BY <2>1 DEF StartInv, StartTypes
    <3>2. a0 < S!Total /\ S!Total \in Nat /\ Rest \in Nat
      BY <2>1, <1>1, <1>2, <1>3, <1>5 DEF Layout, ProgramsAssumption
    <3> QED  BY <3>1, <3>2, <1>3
  <2>5. StartTypes'  BY <2>1, <2>4, <1>1, <1>2 DEF StartInv, StartTypes, Layout, Fields
  <2>6. Registers'
    <3>1. spc = "zero_loop" => a1 = to  BY DEF StartInv, Registers
    <3>2. spc = "memcpy_loop" => a2 = to - a0 /\ a1 = S!Load(Part(call)) + (a0 - S!First(Part(call)))
      BY DEF StartInv, Registers
    <3>3. S!Load(Part(call))' = S!Load(Part(call)) /\ S!Load(Part(call)) \in Nat
      BY <2>1, <1>1, <1>2 DEF S!Load, Layout, ProgramsAssumption
    <3>4. a1 \in Int
      BY <3>1, <3>2, <3>3, <1>2, <1>3, <1>5
    <3>5. S!First(Part(call))' = S!First(Part(call)) /\ S!End(Part(call))' = to /\ Part(call)' = Part(call)
      BY <2>1, <1>2, <1>4 DEF Part
    <3>6. S!First(Part(call)) \in Nat  BY <1>2, <1>5
    <3>7. CASE spc = "zero_loop"
      BY <3>1, <3>5, <3>6, <3>7, <2>1, <1>3 DEF Registers
    <3>8. CASE spc = "memcpy_loop"
      BY <3>2, <3>3, <3>4, <3>5, <3>6, <3>8, <2>1, <1>3 DEF Registers
    <3> QED  BY <3>7, <3>8
  <2>7. /\ call \in 1 .. 2 => ram'[a0] = <<"zero">>
        /\ call = 3 => ram'[a0] = <<"data", a0 - S!First("data")>>
        /\ call = 4 => ram'[a0] = <<"sdata", a0 - S!First("sdata")>>
    <3>1. CASE call \in 1 .. 2
      <4>1. spc = "zero_loop"
        BY <3>1, <1>1 DEF StartInv, StartTypes
      <4>2. ram' = [ram EXCEPT ![a0] = <<"zero">>] /\ call # 3 /\ call # 4
        BY <4>1, <3>1, <2>1
      <4> QED  BY <4>2, <2>4
    <3>2. CASE call = 3
      <4>1. spc = "memcpy_loop" /\ a1 = Text + size["sdata"] + (a0 - size["sdata"])
        <5>1. spc = "memcpy_loop"
          BY <3>2 DEF StartInv, StartTypes
        <5>2. a1 = S!Load(Part(call)) + (a0 - S!First(Part(call)))
          BY <5>1 DEF StartInv, Registers
        <5>3. S!Load(Part(call)) = Text + size["sdata"] /\ S!First(Part(call)) = size["sdata"]
          BY <3>2, <1>1 DEF Layout, S!Load
        <5> QED  BY <5>1, <5>2, <5>3
      <4>2. S!Image(a1) = <<"data", a0 - size["sdata"]>>
        <5>1. Text \in Nat /\ a0 \in Nat /\ a0 >= size["sdata"] /\ size["sdata"] \in Nat
          BY <3>2, <1>1, <1>3 DEF Layout, ProgramsAssumption
        <5>2. ~ (a1 < Text) /\ ~ (a1 < Text + size["sdata"]) /\ a1 - Text - size["sdata"] = a0 - size["sdata"]
          BY <4>1, <5>1
        <5> QED  BY <5>2 DEF S!Image
      <4>3. ram'[a0] = S!Image(a1)  BY <4>1, <2>1, <2>4
      <4> QED  BY <4>2, <4>3, <3>2, <1>1 DEF Layout
    <3>3. CASE call = 4
      <4>1. spc = "memcpy_loop" /\ a1 = Text + a0
        BY <3>3, <1>1, <1>3 DEF StartInv, StartTypes, Registers, Layout, S!Load, ProgramsAssumption
      <4>2. S!Image(a1) = <<"sdata", a0>>
        BY <4>1, <3>3, <1>1, <1>3, <2>1 DEF S!Image, Layout, ProgramsAssumption
      <4>3. ram'[a0] = S!Image(a1)  BY <4>1, <2>1, <2>4
      <4>4. S!First("sdata") = 0 /\ a0 - 0 = a0  BY <1>1, <1>3 DEF Layout
      <4> QED  BY <4>2, <4>3, <4>4, <3>3
    <3> QED  BY <1>2, <3>1, <3>2, <3>3
  <2>8. \A a \in DOMAIN ram : a # a0 => ram'[a] = ram[a]  BY <2>1, <1>2 DEF StartInv, StartTypes
  <2>9. Contents'
    <3> SUFFICES ASSUME NEW a \in DOMAIN ram
                 PROVE  /\ Done(1, a)' \/ Done(2, a)' => ram'[a] = <<"zero">>
                        /\ Done(3, a)' => ram'[a] = <<"data", a - S!First("data")>>
                        /\ Done(4, a)' => ram'[a] = <<"sdata", a - S!First("sdata")>>
                        /\ (\A k \in 1 .. 4 : ~ Done(k, a)') => ram'[a] = <<"junk">>
      BY <2>4, <1>1 DEF Contents, Layout
    <3>1. a \in Int  BY <2>4, <1>1 DEF Layout, ProgramsAssumption
    <3>2. \A k \in 1 .. 4 : Done(k, a)' <=> (a >= S!First(Part(k)) /\ a < Until(k)')
      BY <1>4 DEF Done
    <3>3. \A k \in 1 .. 4 : Done(k, a)' <=> (Done(k, a) \/ (k = call /\ a = a0))
      BY <3>1, <3>2, <2>2, <2>3, <1>2, <1>3, <1>5 DEF Done
    <3>4. CASE a = a0
      <4>1. \A k \in 1 .. 4 : k # call => ~ Done(k, a)
        BY <3>4, <2>1, <2>3, <1>1, <1>2, <1>3 DEF Done, Layout
      <4> QED  BY <4>1, <3>3, <3>4, <2>3, <2>7, <1>2, <1>3 DEF Done
    <3>5. CASE a # a0  BY <3>3, <3>5, <2>8 DEF Contents, StartInv
    <3> QED  BY <3>4, <3>5
  <2> QED  BY <2>5, <2>6, <2>9 DEF StartInv
<1> QED  BY <1>6, <1>7

LEMMA StartEnds == ASSUME StartInv PROVE S!Ready
<1> SUFFICES ASSUME spc = "main", NEW a \in DOMAIN ram PROVE S!Initialised(a)
  BY DEF S!Ready
<1> size \in [Fields -> Nat]  BY DEF StartInv, StartTypes, Fields
<1>1. Layout  BY LayoutFixed
<1>2. \A k \in 1 .. 4 : Until(k) = S!End(Part(k))  BY DEF Until, StartInv, StartTypes
<1>3. a \in Int  BY <1>1 DEF StartInv, StartTypes
<1>4. \A k \in 1 .. 4 : Done(k, a) <=> a \in S!First(Part(k)) .. S!End(Part(k)) - 1
  BY <1>1, <1>2, <1>3 DEF Done, Layout
<1>5. /\ Done(1, a) \/ Done(2, a) => ram[a] = <<"zero">>
      /\ Done(3, a) => ram[a] = <<"data", a - S!First("data")>>
      /\ Done(4, a) => ram[a] = <<"sdata", a - S!First("sdata")>>
      /\ (\A k \in 1 .. 4 : ~ Done(k, a)) => ram[a] = <<"junk">>
  BY DEF StartInv, Contents
<1>6. a \in S!First("sbss") .. S!End("bss") - 1 <=> Done(1, a) \/ Done(2, a)
  BY <1>1, <1>3, <1>4 DEF Layout
<1> QED  BY <1>1, <1>3, <1>4, <1>5, <1>6 DEF S!Initialised, Layout

-----------------------------------------------------------------------------
LEMMA CallsInitially == ASSUME ProgramsAssumption, H!Init PROVE HeapInv /\ UartInv
<1>1. HeapInv  BY DEF HeapInv, H!Init, ProgramsAssumption
<1>2. /\ fifo = <<>> /\ received = <<>> /\ written = 0 /\ polled = FALSE
      /\ fifo \in Seq(Nat) /\ received \in Seq(Nat) /\ Len(fifo) = 0 /\ Len(received) = 0
  BY DEF H!Init
<1>3. \A k \in 1 .. 0 : FALSE  OBVIOUS
<1>4. polled \in BOOLEAN /\ (polled => Len(fifo) < Capacity)  BY <1>2, Zenon
<1>5. /\ written = Len(received) + Len(fifo)
      /\ \A k \in 1 .. Len(received) : received[k] = k
      /\ \A k \in 1 .. Len(fifo) : fifo[k] = Len(received) + k
  BY <1>2, <1>3
<1>6. UartInv  BY <1>2, <1>4, <1>5, Zenon DEF UartInv
<1> QED  BY <1>1, <1>6

LEMMA HeapKept == ASSUME ProgramsAssumption, HeapInv, H!Next PROVE HeapInv'
<1>1. ASSUME NEW incr \in Int, H!_sbrk(incr) PROVE HeapInv'
  BY <1>1 DEF HeapInv, H!_sbrk, H!heap_end
<1>2. CASE UNCHANGED H!heap  BY <1>2 DEF HeapInv, H!heap, H!heap_end
<1>3. \A n \in Incr : n \in Int /\ -n \in Int  BY DEF ProgramsAssumption
<1> QED
  BY <1>1, <1>2, <1>3
  DEF H!Next, H!Program, H!Give, H!Release, H!_write, H!Poll, H!Put, H!Return, H!Host

LEMMA HeapStays == ASSUME HeapInv PROVE H!HeapInReserve
  BY DEF HeapInv, H!HeapInReserve, H!Reserve, H!heap_end

LEMMA UartKept == ASSUME ProgramsAssumption, UartInv, H!Next PROVE UartInv'
<1>1. CASE H!Put
  <2>1. Len(fifo) < Capacity /\ fifo' = Append(fifo, written + 1) /\ received' = received
        /\ written' = written + 1 /\ polled' = FALSE
    BY <1>1 DEF H!Put, UartInv
  <2>2. Len(fifo') = Len(fifo) + 1 /\ fifo' \in Seq(Nat)  BY <2>1 DEF UartInv
  <2>3. \A k \in 1 .. Len(fifo') : fifo'[k] = Len(received) + k
    <3> TAKE k \in 1 .. Len(fifo')
    <3>1. CASE k <= Len(fifo)
      <4>1. k \in 1 .. Len(fifo)  BY <3>1, <2>2 DEF UartInv
      <4>2. fifo'[k] = fifo[k]  BY <4>1, <2>1 DEF UartInv
      <4> QED  BY <4>1, <4>2 DEF UartInv
    <3>2. CASE k = Len(fifo) + 1  BY <3>2, <2>1 DEF UartInv
    <3> QED  BY <3>1, <3>2, <2>2 DEF UartInv
  <2>4. polled' \in BOOLEAN /\ (polled' => Len(fifo') < Capacity)  BY <2>1, Zenon
  <2>5. received' \in Seq(Nat) /\ \A k \in 1 .. Len(received') : received'[k] = k
    BY <2>1 DEF UartInv
  <2>6. written' = Len(received') + Len(fifo')  BY <2>1, <2>2 DEF UartInv
  <2>7. \A k \in 1 .. Len(fifo') : fifo'[k] = Len(received') + k  BY <2>1, <2>3
  <2> QED  BY <2>2, <2>4, <2>5, <2>6, <2>7, Zenon DEF UartInv
<1>2. CASE H!Host
  <2>1. /\ fifo # <<>> /\ received' = Append(received, Head(fifo)) /\ fifo' = Tail(fifo)
        /\ written' = written /\ polled' = polled
    BY <1>2 DEF H!Host
  <2>2. /\ Len(received') = Len(received) + 1 /\ received' \in Seq(Nat)
        /\ Len(fifo') = Len(fifo) - 1 /\ fifo' \in Seq(Nat) /\ Len(fifo) > 0
        /\ Head(fifo) = fifo[1]
    BY <2>1 DEF UartInv
  <2>3. \A k \in 1 .. Len(received') : received'[k] = k
    <3> TAKE k \in 1 .. Len(received')
    <3>1. CASE k <= Len(received)  BY <3>1, <2>1 DEF UartInv
    <3>2. CASE k = Len(received) + 1
      <4>1. fifo[1] = Len(received) + 1  BY <2>2 DEF UartInv
      <4> QED  BY <4>1, <3>2, <2>1, <2>2 DEF UartInv
    <3> QED  BY <3>1, <3>2, <2>2 DEF UartInv
  <2>4. \A k \in 1 .. Len(fifo') : fifo'[k] = Len(received') + k
    <3> TAKE k \in 1 .. Len(fifo')
    <3>1. fifo'[k] = fifo[k + 1]  BY <2>1, <2>2 DEF UartInv
    <3>2. fifo[k + 1] = Len(received) + (k + 1)  BY <2>2 DEF UartInv
    <3> QED  BY <3>1, <3>2, <2>2 DEF UartInv
  <2>5. polled' \in BOOLEAN /\ (polled' => Len(fifo') < Capacity)
    <3>1. Len(fifo) < Capacity => Len(fifo') < Capacity
      BY <2>2 DEF UartInv, ProgramsAssumption
    <3> QED  BY <2>1, <3>1, Zenon DEF UartInv
  <2>6. written' = Len(received') + Len(fifo')  BY <2>1, <2>2 DEF UartInv
  <2> QED  BY <2>2, <2>3, <2>4, <2>5, <2>6, Zenon DEF UartInv
<1>3. CASE H!Poll
  <2>1. polled' = (Len(fifo) < Capacity) /\ fifo' = fifo
    BY <1>3 DEF H!Poll, H!HasSpace
  <2>2. (Len(fifo) < Capacity) \in BOOLEAN  OBVIOUS
  <2>3. polled' \in BOOLEAN /\ (polled' => Len(fifo') < Capacity)  BY <2>1, <2>2, Zenon
  <2>4. fifo' = fifo /\ received' = received /\ written' = written  BY <1>3 DEF H!Poll
  <2>5. /\ fifo' \in Seq(Nat) /\ received' \in Seq(Nat)
        /\ written' = Len(received') + Len(fifo')
        /\ \A k \in 1 .. Len(received') : received'[k] = k
        /\ \A k \in 1 .. Len(fifo') : fifo'[k] = Len(received') + k
    BY <2>4 DEF UartInv
  <2> QED  BY <2>3, <2>5, Zenon DEF UartInv
<1>4. CASE H!Give \/ H!Release \/ H!_write \/ H!Return
  <2>1. fifo' = fifo /\ received' = received /\ written' = written
    BY <1>4 DEF H!Give, H!Release, H!_sbrk, H!_write, H!Return, H!uart
  <2>2. polled' = polled \/ polled' = FALSE
    BY <1>4, Zenon DEF H!Give, H!Release, H!_sbrk, H!_write, H!Return, H!uart
  <2>3. polled' \in BOOLEAN /\ (polled' => Len(fifo') < Capacity)
    <3>1. Len(fifo) < Capacity => Len(fifo') < Capacity  BY <2>1
    <3>2. polled \in BOOLEAN /\ (polled => Len(fifo) < Capacity)  BY Zenon DEF UartInv
    <3>3. CASE polled' = polled  BY <3>1, <3>2, <3>3
    <3>4. CASE polled' = FALSE  BY <3>4
    <3> QED  BY <2>2, <3>3, <3>4
  <2>4. /\ fifo' \in Seq(Nat) /\ received' \in Seq(Nat)
        /\ written' = Len(received') + Len(fifo')
        /\ \A k \in 1 .. Len(received') : received'[k] = k
        /\ \A k \in 1 .. Len(fifo') : fifo'[k] = Len(received') + k
    BY <2>1 DEF UartInv
  <2> QED  BY <2>3, <2>4, Zenon DEF UartInv
<1> QED  BY <1>1, <1>2, <1>3, <1>4 DEF H!Next, H!Program

LEMMA HostHasAll == ASSUME UartInv PROVE H!NothingLost
<1>1. received \o fifo \in Seq(Nat) /\ Len(received \o fifo) = written
  BY DEF UartInv
<1>2. DOMAIN (received \o fifo) = 1 .. written  BY <1>1
<1>3. ASSUME NEW k \in 1 .. written PROVE (received \o fifo)[k] = k
  <2>1. CASE k <= Len(received)  BY <2>1 DEF UartInv
  <2>2. CASE k > Len(received)
    <3>1. k - Len(received) \in 1 .. Len(fifo)  BY <2>2 DEF UartInv
    <3>2. (received \o fifo)[k] = fifo[k - Len(received)]  BY <2>2, <3>1 DEF UartInv
    <3> QED  BY <3>1, <3>2 DEF UartInv
  <2> QED  BY <2>1, <2>2 DEF UartInv
<1>4. received \o fifo \in [1 .. written -> Nat]
  <2>1. \A s \in Seq(Nat) : s \in [1 .. Len(s) -> Nat]  OBVIOUS
  <2> QED  BY <2>1, <1>1
<1> QED  BY <1>3, <1>4 DEF H!NothingLost

-----------------------------------------------------------------------------
(* The program, operation by operation.                                              *)
LEMMA ProgramFixed ==
  /\ Len(P!t_llb_diff) = 21
  /\ \A p \in 1 .. 21 :
       /\ P!t_llb_diff[p].op = "write" <=> p \in {1, 6, 10, 14, 18}
       /\ P!t_llb_diff[p].op = "load" <=> p \in 2 .. 5
       /\ P!t_llb_diff[p].op = "show" <=> p \in {8, 12, 16, 20}
       /\ P!t_llb_diff[p].op = "delay" <=> p \in {7, 9, 11, 13, 15, 17, 19, 21}
  /\ P!t_llb_diff[1].word = <<0, 1, 2, 3>>
  /\ \A p \in 2 .. 5 : P!t_llb_diff[p].n = p - 2
  /\ P!t_llb_diff[8].n = 0 /\ P!t_llb_diff[12].n = 1 /\ P!t_llb_diff[16].n = 2 /\ P!t_llb_diff[20].n = 3
  /\ \A p \in {7, 9, 11, 13, 15, 17, 19, 21} : P!t_llb_diff[p].n \in {Long, Short}
<1> DEFINE t == P!t_llb_diff
<1>1. Len(t) = 21  BY DEF P!t_llb_diff
<1>2. \A p \in 1 .. 21 :
        /\ t[p].op = "write" <=> p \in {1, 6, 10, 14, 18}
        /\ t[p].op = "load" <=> p \in 2 .. 5
        /\ t[p].op = "show" <=> p \in {8, 12, 16, 20}
        /\ t[p].op = "delay" <=> p \in {7, 9, 11, 13, 15, 17, 19, 21}
  <2>1. \A p \in {1, 6, 10, 14, 18} : t[p].op = "write"
    BY DEF P!t_llb_diff, P!Write, P!On
  <2>2. \A p \in 2 .. 5 : t[p].op = "load"
    BY DEF P!t_llb_diff, P!Load
  <2>3. \A p \in {8, 12, 16, 20} : t[p].op = "show"
    BY DEF P!t_llb_diff, P!Show
  <2>4. \A p \in {7, 9, 11, 13, 15, 17, 19, 21} : t[p].op = "delay"
    BY DEF P!t_llb_diff, P!Delay
  <2> HIDE DEF t
  <2> QED  BY <2>1, <2>2, <2>3, <2>4
<1>3. t[1].word = <<0, 1, 2, 3>>  BY DEF P!t_llb_diff, P!Write
<1>4. \A p \in 2 .. 5 : t[p].n = p - 2  BY DEF P!t_llb_diff, P!Load
<1>5. t[8].n = 0 /\ t[12].n = 1 /\ t[16].n = 2 /\ t[20].n = 3  BY DEF P!t_llb_diff, P!Show
<1>6. \A p \in {7, 9, 11, 13, 15, 17, 19, 21} : t[p].n \in {Long, Short}
  BY DEF P!t_llb_diff, P!Delay
<1> QED  BY <1>1, <1>2, <1>3, <1>4, <1>5, <1>6

LEMMA OpFixed ==
  ASSUME ppc \in 1 .. 22, P!Running
  PROVE  /\ ppc \in 1 .. 21
         /\ P!Op.op = "write" <=> ppc \in {1, 6, 10, 14, 18}
         /\ P!Op.op = "load" <=> ppc \in 2 .. 5
         /\ P!Op.op = "show" <=> ppc \in {8, 12, 16, 20}
         /\ P!Op.op = "delay" <=> ppc \in {7, 9, 11, 13, 15, 17, 19, 21}
         /\ ppc = 1 => P!Op.word = <<0, 1, 2, 3>>
         /\ ppc \in 2 .. 5 => P!Op.n = ppc - 2
         /\ ppc = 8 => P!Op.n = 0
         /\ ppc = 12 => P!Op.n = 1
         /\ ppc = 16 => P!Op.n = 2
         /\ ppc = 20 => P!Op.n = 3
         /\ P!Op.op = "delay" => P!Op.n \in {Long, Short}
<1>1. ppc \in 1 .. 21  BY ProgramFixed DEF P!Running
<1> QED  BY <1>1, ProgramFixed DEF P!Op

LEMMA TimerInitially == ASSUME ProgramsAssumption, P!Init PROVE TimerInv
<1>1. P!Running  BY ProgramFixed DEF P!Init, P!Running
<1>2. LampsInv  BY DEF LampsInv, P!Init
<1>3. cnt \in Nat /\ cnt < WRAP  BY DEF P!Init, ProgramsAssumption
<1>4. TimerTypes  BY <1>3 DEF TimerTypes, P!Init, ProgramsAssumption
<1>5. DelayInv  BY DEF DelayInv, P!Init
<1> QED  BY <1>2, <1>4, <1>5 DEF TimerInv

LEMMA LampsKept == ASSUME ProgramsAssumption, TimerInv, P!Next PROVE LampsInv'
<1> USE DEF TimerInv
<1>1. ppc \in 1 .. 22 /\ q \in Nat /\ v \in [1 .. 4 -> Nat] /\ cnt \in Nat  BY DEF LampsInv, TimerTypes
<1>2. CASE P!Idle \/ P!PollGap \/ P!Returned
  BY <1>2 DEF P!Idle, P!PollGap, P!Returned, LampsInv, P!Running, P!Op
<1>3. CASE P!First \/ P!Poll
  BY <1>1, <1>3 DEF P!First, P!Poll, P!ReadTimer, LampsInv, P!Running, P!Op
<1>4. CASE P!Store
  <2>1. /\ ppc \in {1, 6, 8, 10, 12, 14, 16, 18, 20} /\ ppc' = ppc + 1 /\ q' = q /\ v' = v
        /\ pending = "none" /\ pending' = "none" /\ (ppc = 1 => out_1' = <<0, 1, 2, 3>>)
    BY <1>1, <1>4, OpFixed DEF P!Store, P!WriteOut
  <2> QED  BY <1>1, <2>1 DEF LampsInv
<1>5. CASE P!LoadByte
  <2>1. /\ ppc \in 2 .. 5 /\ P!Op.n = ppc - 2 /\ q' = out_1[P!Op.n + 1] /\ pending' = "byte"
        /\ ppc' = ppc /\ v' = v /\ out_1' = out_1 /\ P!Running /\ P!Op.op = "load"
    BY <1>1, <1>5, OpFixed DEF P!LoadByte, P!ByteOf
  <2>2. out_1 = <<0, 1, 2, 3>>  BY <2>1 DEF LampsInv
  <2>3. q' = P!Op.n /\ P!Op.n \in Nat  BY <2>1, <2>2
  <2> QED  BY <1>1, <2>1, <2>2, <2>3 DEF LampsInv, P!Running, P!Op
<1>6. CASE P!Answer
  <2>1. CASE pending = "byte"
    <3>1. ppc \in 2 .. 5 /\ P!Op.n = ppc - 2 /\ q = ppc - 2
      BY <1>1, <2>1, OpFixed DEF LampsInv
    <3>2. /\ v' = [v EXCEPT ![ppc - 1] = q] /\ ppc' = ppc + 1 /\ pending' = "none"
          /\ out_1' = out_1 /\ q' = q
      BY <1>6, <2>1, <3>1 DEF P!Answer
    <3>3. v' \in [1 .. 4 -> Nat]  BY <1>1, <3>1, <3>2
    <3>4. \A k \in 1 .. 4 : ppc' > k + 1 => v'[k] = k - 1
      BY <1>1, <3>1, <3>2 DEF LampsInv
    <3>5. ppc' \in 2 .. 5 => out_1' = <<0, 1, 2, 3>>  BY <3>1, <3>2 DEF LampsInv
    <3> QED  BY <1>1, <3>1, <3>2, <3>3, <3>4, <3>5 DEF LampsInv
  <2>2. CASE pending = "start"
    BY <1>1, <1>6, <2>2 DEF P!Answer, LampsInv, P!Running, P!Op
  <2>3. CASE pending = "now"
    <3>1. ppc \in {7, 9, 11, 13, 15, 17, 19, 21} /\ P!Running /\ P!Op.op = "delay"
      BY <1>1, <2>3, OpFixed DEF LampsInv
    <3>2. /\ \/ ppc' = ppc /\ pending' = "poll"
             \/ ppc' = ppc + 1 /\ pending' = "none"
          /\ out_1' = out_1 /\ q' = q /\ v' = v
      BY <1>6, <2>3 DEF P!Answer
    <3>3. CASE ppc' = ppc /\ pending' = "poll"
      BY <1>1, <3>1, <3>2, <3>3 DEF LampsInv, P!Running, P!Op
    <3>4. CASE ppc' = ppc + 1 /\ pending' = "none"
      BY <1>1, <3>1, <3>2, <3>4 DEF LampsInv
    <3> QED  BY <3>2, <3>3, <3>4
  <2> QED  BY <1>6, <2>1, <2>2, <2>3 DEF P!Answer
<1> QED  BY <1>2, <1>3, <1>4, <1>5, <1>6 DEF P!Next

LEMMA LampsRight == ASSUME LampsInv PROVE P!BytesShown
<1> SUFFICES ASSUME P!Running, P!Op.op = "show" PROVE v[P!Op.n + 1] = P!Op.n
  BY DEF P!BytesShown
<1>1. ppc \in {8, 12, 16, 20}  BY OpFixed DEF LampsInv
<1>2. v[1] = 0 /\ v[2] = 1 /\ v[3] = 2 /\ v[4] = 3  BY <1>1 DEF LampsInv
<1>3. /\ ppc = 8 => P!Op.n = 0
      /\ ppc = 12 => P!Op.n = 1
      /\ ppc = 16 => P!Op.n = 2
      /\ ppc = 20 => P!Op.n = 3
  BY OpFixed DEF LampsInv
<1> QED  BY <1>1, <1>2, <1>3

-----------------------------------------------------------------------------
(* Cycles add up: a tick is PRESCALE of them. *)
LEMMA OneMore ==
  ASSUME NEW p \in Nat, NEW s \in Nat PROVE p * s \in Nat /\ p * (s + 1) = p * s + p
  OBVIOUS

LEMMA Shorter ==
  ASSUME NEW p \in Nat, NEW s \in Nat, NEW n \in Nat, s <= n PROVE p * s <= p * n
<1>1. n - s \in Nat /\ n = s + (n - s)  OBVIOUS
<1>2. p * n = p * s + p * (n - s) /\ p * (n - s) \in Nat  BY <1>1
<1> QED  BY <1>2

(* A delay whose cycles are at most Limit and one turn of the loop is below its ticks and   *)
(* Turn.                                                                            *)
LEMMA TurnBound ==
  ASSUME NEW p \in Nat \ {0}, NEW s \in Nat, NEW n \in Nat, NEW g \in Nat,
         p * s <= p * n + p - 1 + 3 + g
  PROVE  s <= n + (g + 3) \div p + 1
<1> DEFINE d == (g + 3) \div p
<1>1. d \in Nat /\ g + 3 < p * (d + 1)  OBVIOUS
<1> HIDE DEF d
<1>2. SUFFICES ASSUME s >= n + d + 2 PROVE FALSE  BY <1>1 DEF d
<1>3. p * (n + d + 2) <= p * s  BY <1>1, <1>2, Shorter
<1>4. p * (n + d + 2) = p * n + p * (d + 1) + p  BY <1>1
<1> HIDE DEF d
<1>5. p * n \in Nat /\ p * (d + 1) \in Nat /\ p * s \in Nat /\ p * (n + d + 2) \in Nat  BY <1>1
<1> QED  BY <1>1, <1>3, <1>4, <1>5

LEMMA Wrapped ==
  ASSUME NEW w \in Nat \ {0}, NEW x \in Nat, x < 2 * w
  PROVE  (x < w => x % w = x) /\ (x >= w => x % w = x - w)
<1>1. CASE x < w  BY <1>1
<1>2. CASE x >= w
  <2>1. x = w * 1 + (x - w) /\ 0 <= x - w /\ x - w < w  BY <1>2
  <2> QED  BY <2>1, <1>2
<1> QED  BY <1>1, <1>2

LEMMA WrappedBelow ==
  ASSUME NEW w \in Nat \ {0}, NEW x \in Nat, x < w
  PROVE  x % w = x /\ (x - w) % w = x
<1>1. x % w = x  OBVIOUS
<1>2. x - w = w * (-1) + x  OBVIOUS
<1> QED  BY <1>1, <1>2

Delaying == pending \in {"start", "poll", "now"}
LEMMA DelayTicks ==
  ASSUME ProgramsAssumption, TimerAssumption, LampsInv, Delaying
  PROVE  P!Op.n \in Nat /\ P!Op.n + P!Turn < WRAP /\ P!Running
<1>1. P!Running /\ P!Op.op = "delay" /\ ppc \in 1 .. 22  BY DEF LampsInv, Delaying
<1>2. P!Op.n \in {Long, Short}  BY <1>1, OpFixed
<1> QED  BY <1>1, <1>2 DEF ProgramsAssumption, TimerAssumption

(* While a delay lasts its ticks are counted in full, far below the wrap. *)
LEMMA SinceBound ==
  ASSUME ProgramsAssumption, TimerAssumption, TimerInv, Delaying
  PROVE  since <= P!Op.n + P!Turn /\ since < WRAP /\ Cycles \in Nat /\ Limit \in Nat
<1> DEFINE n == P!Op.n
<1>1. n \in Nat /\ n + P!Turn < WRAP  BY DelayTicks DEF TimerInv
<1>2. PRESCALE \in Nat \ {0} /\ MaxGap \in Nat /\ WRAP \in Nat /\ since \in Nat /\ cnt_50 \in Nat /\ gap \in Nat
      /\ gap <= MaxGap
  BY DEF ProgramsAssumption, TimerInv, TimerTypes
<1>3. PRESCALE * n \in Nat /\ PRESCALE * since \in Nat  BY <1>1, <1>2
<1> HIDE DEF n
<1>4. Cycles \in Nat /\ Limit \in Nat  BY <1>2, <1>3 DEF Cycles, Limit, n
<1>5. Cycles <= Limit + 3 + MaxGap
  BY <1>2, <1>4 DEF TimerInv, DelayInv, Delaying
<1>6. PRESCALE * since <= PRESCALE * n + PRESCALE - 1 + 3 + MaxGap
  BY <1>2, <1>3, <1>5 DEF Cycles, Limit, n
<1>7. since <= n + (MaxGap + 3) \div PRESCALE + 1  BY <1>1, <1>2, <1>6, TurnBound
<1>8. (MaxGap + 3) \div PRESCALE \in Nat  BY <1>2
<1> QED  BY <1>1, <1>2, <1>4, <1>7, <1>8 DEF P!Turn, n

(* The timer advances by one cycle, and the program's count of it with it. *)
LEMMA Ticking ==
  ASSUME ProgramsAssumption, TimerTypes, P!Timer, since' = P!Since, since < WRAP
  PROVE  /\ Cycles' = Cycles + 1 /\ since' \in Nat /\ since <= since'
         /\ cnt' \in Nat /\ cnt' < WRAP /\ cnt_50' \in Nat /\ cnt_50' < PRESCALE
         /\ \A first \in Nat : first < WRAP /\ After(first, since, cnt) => After(first, since', cnt')
<1>1. PRESCALE \in Nat \ {0} /\ WRAP \in Nat \ {0} /\ cnt \in Nat /\ cnt < WRAP
      /\ cnt_50 \in Nat /\ cnt_50 < PRESCALE /\ since \in Nat
  BY DEF ProgramsAssumption, TimerTypes
<1>2. PRESCALE * since \in Nat /\ PRESCALE * (since + 1) = PRESCALE * since + PRESCALE
  BY <1>1, OneMore
<1>3. (cnt + 1 < WRAP => (cnt + 1) % WRAP = cnt + 1) /\ (cnt + 1 >= WRAP => (cnt + 1) % WRAP = (cnt + 1) - WRAP)
  <2>1. cnt + 1 \in Nat /\ cnt + 1 < 2 * WRAP  BY <1>1
  <2> QED  BY <1>1, <2>1, Wrapped, Zenon
<1>4. CASE P!Overflow
  <2>1. cnt_50 = PRESCALE - 1 /\ cnt_50' = 0 /\ since' = since + 1 /\ cnt' = (cnt + 1) % WRAP
    BY <1>1, <1>4 DEF P!Timer, P!Since, P!Tick, P!Overflow, P!Counted
  <2>2. Cycles' = Cycles + 1
    <3>1. Cycles' = PRESCALE * (since + 1) + 0  BY <2>1 DEF Cycles
    <3> QED  BY <3>1, <2>1, <1>1, <1>2 DEF Cycles
  <2>3. \A first \in Nat : first < WRAP /\ After(first, since, cnt) => After(first, since', cnt')
    BY <1>1, <1>3, <2>1 DEF After
  <2> QED  BY <1>1, <1>3, <2>1, <2>2, <2>3
<1>5. CASE ~ P!Overflow
  <2>1. cnt_50 # PRESCALE - 1 /\ cnt_50' = cnt_50 + 1 /\ since' = since /\ cnt' = cnt
    BY <1>1, <1>5 DEF P!Timer, P!Since, P!Tick, P!Overflow
  <2>2. Cycles' = Cycles + 1
    <3>1. Cycles' = PRESCALE * since + (cnt_50 + 1)  BY <2>1 DEF Cycles
    <3> QED  BY <3>1, <1>1, <1>2 DEF Cycles
  <2> QED  BY <1>1, <2>1, <2>2 DEF After
<1> QED  BY <1>4, <1>5

LEMMA TypesKept == ASSUME ProgramsAssumption, TimerInv, P!Next PROVE TimerTypes'
<1>1. PRESCALE \in Nat \ {0} /\ WRAP \in Nat \ {0} /\ cnt \in Nat /\ cnt < WRAP
      /\ cnt_50 \in Nat /\ cnt_50 < PRESCALE /\ since \in Nat
  BY DEF ProgramsAssumption, TimerTypes, TimerInv
<1>2. P!Timer  BY DEF P!Next, P!Idle, P!Store, P!LoadByte, P!First, P!ReadTimer, P!Poll, P!PollGap, P!Answer, P!Returned
<1>3. (cnt + 1) % WRAP \in Nat /\ (cnt + 1) % WRAP < WRAP  BY <1>1
<1>4. cnt' \in Nat /\ cnt' < WRAP /\ cnt_50' \in Nat /\ cnt_50' < PRESCALE
  BY <1>1, <1>2, <1>3 DEF P!Timer, P!Overflow, P!Counted
<1>5. P!Tick \in Nat /\ P!Since \in Nat  BY <1>1 DEF P!Tick, P!Since
<1>6. since' \in Nat
  BY <1>5 DEF P!Next, P!Idle, P!Store, P!LoadByte, P!First, P!ReadTimer, P!Poll, P!PollGap, P!Answer, P!Returned
<1>7. MaxGap \in Nat /\ gap \in Nat /\ gap <= MaxGap  BY DEF ProgramsAssumption, TimerInv, TimerTypes
<1>8. gap' \in Nat /\ gap' <= MaxGap
  BY <1>7 DEF P!Next, P!Idle, P!Store, P!LoadByte, P!First, P!ReadTimer, P!Poll, P!PollGap, P!Answer, P!Returned
<1>9. /\ start \in Nat /\ start < WRAP
      /\ pending \in {"start", "poll", "now"} => q < WRAP
      /\ q \in Nat
  BY DEF TimerInv, TimerTypes, LampsInv
<1>10. start' \in Nat /\ start' < WRAP /\ (pending' \in {"start", "poll", "now"} => q' < WRAP)
  <2>1. CASE P!Idle \/ P!Store \/ P!LoadByte \/ P!PollGap \/ P!Returned
    BY <1>9, <2>1 DEF P!Idle, P!Store, P!WriteOut, P!LoadByte, P!PollGap, P!Returned
  <2>2. CASE P!First \/ P!Poll  BY <1>1, <1>9, <2>2 DEF P!First, P!Poll, P!ReadTimer
  <2>3. CASE P!Answer  BY <1>9, <2>3 DEF P!Answer
  <2> QED  BY <2>1, <2>2, <2>3 DEF P!Next
<1> QED  BY <1>4, <1>6, <1>8, <1>10 DEF TimerTypes

(* An answer that is long enough was read after at least the ticks of the delay. *)
LEMMA ElapsedTrue ==
  ASSUME ProgramsAssumption, TimerAssumption, TimerInv, pending = "now"
  PROVE  /\ P!Elapsed(q) \in Nat /\ P!Elapsed(q) <= since
         /\ Cycles <= PRESCALE * P!Elapsed(q) + PRESCALE
<1>1. PICK seen \in Nat : /\ After(start, seen, q) /\ seen <= since
                          /\ Cycles <= PRESCALE * seen + PRESCALE
  BY DEF TimerInv, DelayInv
<1>2. since < WRAP /\ since \in Nat /\ WRAP \in Nat \ {0} /\ start \in Nat
  BY SinceBound DEF Delaying, TimerInv, TimerTypes, ProgramsAssumption
<1>3. q - start = seen \/ q - start = seen - WRAP  BY <1>1, <1>2 DEF After
<1>4. (q - start) % WRAP = seen  BY <1>1, <1>2, <1>3, WrappedBelow
<1> QED  BY <1>1, <1>4 DEF P!Elapsed

LEMMA DelayKept ==
  ASSUME ProgramsAssumption, TimerAssumption, TimerInv, P!Next
  PROVE  DelayInv'
<1>1. /\ PRESCALE \in Nat \ {0} /\ WRAP \in Nat \ {0} /\ MaxGap \in Nat /\ cnt \in Nat /\ cnt < WRAP
      /\ cnt_50 \in Nat /\ cnt_50 < PRESCALE /\ since \in Nat /\ gap \in Nat /\ gap <= MaxGap
      /\ start \in Nat /\ start < WRAP /\ q \in Nat
  BY DEF ProgramsAssumption, TimerInv, TimerTypes, LampsInv
<1>2. CASE P!Idle \/ P!Store \/ P!LoadByte \/ P!Returned
  <2>1. pending' \notin {"start", "poll", "now"}
    BY <1>2 DEF P!Idle, P!Store, P!WriteOut, P!LoadByte, P!Returned, TimerInv, LampsInv
  <2> QED  BY <2>1 DEF DelayInv
<1>3. CASE P!First
  <2>1. /\ pending' = "start" /\ q' = cnt /\ since' = P!Tick /\ P!Timer /\ ppc' = ppc /\ P!Running
        /\ P!Op.op = "delay"
    BY <1>3 DEF P!First, P!ReadTimer
  <2>2. P!Op.n \in Nat
    BY <2>1, OpFixed DEF TimerInv, LampsInv, ProgramsAssumption
  <2>3. Limit' = Limit /\ Limit \in Nat /\ Limit + 1 >= PRESCALE
    <3>1. PRESCALE * P!Op.n \in Nat  BY <2>2, <1>1
    <3> QED  BY <3>1, <1>1, <2>1 DEF Limit, P!Op
  <2>4. Cycles' = cnt_50 + 1 /\ After(q', since', cnt')
    <3>1. (cnt + 1 < WRAP => (cnt + 1) % WRAP = cnt + 1) /\ (cnt + 1 >= WRAP => (cnt + 1) % WRAP = (cnt + 1) - WRAP)
      <4>1. cnt + 1 \in Nat /\ cnt + 1 < 2 * WRAP  BY <1>1
      <4> QED  BY <1>1, <4>1, Wrapped, Zenon
    <3>2. PRESCALE * 0 = 0 /\ PRESCALE * 1 = PRESCALE  BY <1>1
    <3>3. CASE P!Overflow
      BY <1>1, <2>1, <3>1, <3>2, <3>3 DEF P!Tick, P!Timer, P!Counted, P!Overflow, Cycles, After
    <3>4. CASE ~ P!Overflow
      BY <1>1, <2>1, <3>2, <3>4 DEF P!Tick, P!Timer, P!Overflow, Cycles, After
    <3> QED  BY <3>3, <3>4
  <2> QED  BY <1>1, <2>1, <2>3, <2>4 DEF DelayInv
<1>4. ASSUME Delaying, P!Timer, since' = P!Since, ppc' = ppc
      PROVE  /\ Cycles' = Cycles + 1 /\ since' \in Nat /\ since <= since' /\ Cycles \in Nat
             /\ \A first \in Nat : first < WRAP /\ After(first, since, cnt) => After(first, since', cnt')
             /\ Limit' = Limit /\ Limit \in Nat
  <2>1. since < WRAP /\ Cycles \in Nat /\ Limit \in Nat  BY <1>4, SinceBound
  <2>2. Limit' = Limit  BY <1>4 DEF Limit, P!Op
  <2> QED  BY <1>4, <2>1, <2>2, Ticking DEF TimerInv
<1>5. CASE P!PollGap
  <2>1. /\ pending = "poll" /\ pending' = "poll" /\ gap' = gap + 1 /\ P!Timer /\ since' = P!Since
        /\ ppc' = ppc /\ start' = start
    BY <1>5 DEF P!PollGap
  <2> QED  BY <1>1, <1>4, <2>1 DEF DelayInv, TimerInv, Delaying
<1>6. CASE P!Poll
  <2>1. /\ pending = "poll" /\ pending' = "now" /\ q' = cnt /\ P!Timer /\ since' = P!Since
        /\ ppc' = ppc /\ start' = start
    BY <1>6 DEF P!Poll, P!ReadTimer
  <2>2. After(start, since, cnt) /\ Cycles <= Limit + 2 + gap  BY <2>1 DEF TimerInv, DelayInv
  <2>3. After(start', since', cnt') /\ Cycles' <= Limit' + 3 + MaxGap
    BY <1>1, <1>4, <2>1, <2>2 DEF Delaying
  <2>4. PRESCALE * since \in Nat  BY <1>1
  <2>5. Cycles' <= PRESCALE * since + PRESCALE
    BY <1>1, <1>4, <2>1, <2>4 DEF Delaying, Cycles
  <2>6. \E seen \in Nat : /\ After(start', seen, q') /\ seen <= since'
                          /\ Cycles' <= PRESCALE * seen + PRESCALE
    BY <1>1, <1>4, <2>1, <2>2, <2>5 DEF Delaying
  <2>7. (\E seen \in Nat : /\ After(start, seen, q) /\ seen <= since
                           /\ Cycles <= PRESCALE * seen + PRESCALE)'
    BY <2>6 DEF After
  <2> QED  BY <2>1, <2>3, <2>7 DEF DelayInv, After
<1>7. CASE P!Answer
  <2>1. CASE pending = "byte"  BY <1>7, <2>1 DEF P!Answer, DelayInv
  <2>2. CASE pending = "start"
    <3>1. /\ pending' = "poll" /\ start' = q /\ P!Timer /\ since' = P!Since /\ ppc' = ppc /\ gap' = 0
          /\ q < WRAP
      BY <1>7, <2>2 DEF P!Answer, TimerInv, TimerTypes
    <3>2. After(q, since, cnt) /\ Cycles <= Limit + 1  BY <2>2 DEF TimerInv, DelayInv
    <3> QED  BY <1>1, <1>4, <2>2, <3>1, <3>2 DEF DelayInv, Delaying
  <2>3. CASE pending = "now"
    <3>1. P!Timer /\ since' = P!Since /\ start' = start /\ gap' = 0
      BY <1>7, <2>3 DEF P!Answer
    <3>2. CASE P!Elapsed(q) < P!Op.n
      <4>1. pending' = "poll" /\ ppc' = ppc  BY <1>7, <2>3, <3>2 DEF P!Answer
      <4>2. After(start, since, cnt)  BY <2>3 DEF TimerInv, DelayInv
      <4>3. P!Op.n \in Nat  BY <2>3, DelayTicks DEF TimerInv, Delaying
      <4> DEFINE e == P!Elapsed(q)
                 n == P!Op.n
      <4>4. e \in Nat /\ n \in Nat /\ e + 1 <= n /\ Cycles <= PRESCALE * e + PRESCALE
        BY <2>3, <3>2, <4>3, ElapsedTrue
      <4> HIDE DEF e, n
      <4>5. PRESCALE * (e + 1) <= PRESCALE * n /\ PRESCALE * (e + 1) = PRESCALE * e + PRESCALE
            /\ PRESCALE * e \in Nat /\ PRESCALE * n \in Nat
        BY <1>1, <4>4, Shorter, OneMore
      <4>6. Limit = PRESCALE * n + PRESCALE - 1  BY DEF Limit, n
      <4>7. Cycles + 1 <= Limit + 2
        <5>1. Cycles \in Nat  BY <1>4, <2>3, <3>1, <4>1 DEF Delaying
        <5> QED  BY <1>1, <5>1, <4>4, <4>5, <4>6
      <4> QED  BY <1>1, <1>4, <2>3, <3>1, <4>1, <4>2, <4>7 DEF DelayInv, Delaying
    <3>3. CASE ~ (P!Elapsed(q) < P!Op.n)
      BY <1>7, <2>3, <3>3 DEF P!Answer, DelayInv
    <3> QED  BY <3>2, <3>3
  <2> QED  BY <1>7, <2>1, <2>2, <2>3 DEF P!Answer
<1> QED  BY <1>2, <1>3, <1>5, <1>6, <1>7 DEF P!Next

LEMMA DelayTrue ==
  ASSUME ProgramsAssumption, TimerAssumption, TimerInv, P!Next
  PROVE  P!DelayEnds => since >= P!Op.n /\ since <= P!Op.n + P!Turn
<1> SUFFICES ASSUME pending = "now", ppc' = ppc + 1
             PROVE  since >= P!Op.n /\ since <= P!Op.n + P!Turn
  BY DEF P!DelayEnds
<1>1. ppc \in 1 .. 22  BY DEF TimerInv, LampsInv
<1>2. P!Answer
  BY <1>1 DEF P!Next, P!Idle, P!Store, P!LoadByte, P!First, P!Poll, P!ReadTimer, P!PollGap, P!Returned
<1>3. ~ (P!Elapsed(q) < P!Op.n)  BY <1>1, <1>2 DEF P!Answer
<1>4. P!Op.n \in Nat  BY DelayTicks DEF TimerInv, Delaying
<1>5. P!Elapsed(q) \in Nat /\ P!Elapsed(q) <= since /\ since \in Nat
  BY ElapsedTrue DEF TimerInv, TimerTypes
<1> QED  BY <1>3, <1>4, <1>5, SinceBound DEF Delaying

-----------------------------------------------------------------------------
LEMMA DhryInitially == ASSUME ProgramsAssumption, Init PROVE DhryInv
<1> USE DEF At, Body, Finished
<1>1. HeapRight  BY DEF HeapRight, Init, Glob, Record
<1>2. GlobalsRight /\ LocalsRight  BY DEF GlobalsRight, LocalsRight, Init
<1>3. RunsRight  BY DEF RunsRight, Init
<1>4. TimingRight  BY DEF TimingRight, Init, ProgramsAssumption
<1>5. TriesRight  BY DEF TriesRight, Init, ProgramsAssumption
<1> QED  BY <1>1, <1>2, <1>3, <1>4, <1>5 DEF DhryInv, Init

LEMMA HeapKeptRight == ASSUME DhryInv, Next PROVE HeapRight'
<1> USE DEF At, Body, Finished
<1>1. CASE Proc_1  BY <1>1 DEF Proc_1, DhryInv, HeapRight, Glob, Record, Ident_1, Ident_3
<1>2. CASE Proc_3
  <2>1. Int_Glob = 5 /\ heap = [glob |-> Glob(5), next |-> Glob(5)]
    BY <1>2 DEF Proc_3, DhryInv, GlobalsRight, HeapRight
  <2>2. heap.glob.Ptr_Comp = "next" /\ Proc_7(10, Int_Glob) = 17  BY <2>1 DEF Glob, Record, Proc_7
  <2>3. heap' = [heap EXCEPT !.next.Ptr_Comp = "next", !.glob.Int_Comp = 17]
    BY <1>2, <2>2 DEF Proc_3
  <2>4. [Glob(5) EXCEPT !.Ptr_Comp = "next"] = Glob(5) /\ [Glob(5) EXCEPT !.Int_Comp = 17] = Glob(17)
    BY DEF Glob, Record
  <2>5. heap' = [glob |-> Glob(17), next |-> Glob(5)]  BY <2>1, <2>3, <2>4
  <2>6. pc' = "rest"  BY <1>2 DEF Proc_3
  <2> QED  BY <2>5, <2>6 DEF HeapRight, Glob, Record
<1>3. CASE Proc_1_Rest
  <2>1. heap = [glob |-> Glob(17), next |-> Glob(5)]  BY <1>3 DEF Proc_1_Rest, DhryInv, HeapRight
  <2>2. /\ heap.next.Discr = Ident_1 /\ heap.glob.Ptr_Comp = "next" /\ Proc_7(6, 10) = 18
        /\ heap.glob.Enum_Comp = Ident_3
    BY <2>1 DEF Glob, Record, Proc_7
  <2>3. Proc_6(Ident_3) = Ident_2  BY DEF Proc_6, Func_3, Ident_1, Ident_2, Ident_3, Ident_4, Ident_5
  <2>4. heap' = [heap EXCEPT !.next.Enum_Comp = Ident_2, !.next.Ptr_Comp = "next", !.next.Int_Comp = 18]
    BY <1>3, <2>2, <2>3 DEF Proc_1_Rest
  <2>5. /\ [Glob(5) EXCEPT !.Enum_Comp = Ident_2] = Record("next", Ident_1, Ident_2, 5, "some")
        /\ [Record("next", Ident_1, Ident_2, 5, "some") EXCEPT !.Ptr_Comp = "next"]
           = Record("next", Ident_1, Ident_2, 5, "some")
        /\ [Record("next", Ident_1, Ident_2, 5, "some") EXCEPT !.Int_Comp = 18]
           = Record("next", Ident_1, Ident_2, 18, "some")
    BY DEF Glob, Record
  <2>6. heap' = [glob |-> Glob(17), next |-> Record("next", Ident_1, Ident_2, 18, "some")]
    BY <2>1, <2>4, <2>5
  <2>7. pc' = "chars"  BY <1>3 DEF Proc_1_Rest
  <2> QED  BY <2>6, <2>7 DEF HeapRight, Glob, Record
<1>4. CASE heap' = heap /\ (pc' = "Proc_3" \/ pc' = "rest" => pc' = pc)
           /\ (pc' \in {"chars", "Proc_2"} \cup Finished => pc \in {"chars", "Proc_2"} \cup Finished)
  BY <1>4 DEF DhryInv, HeapRight
<1>5. CASE Proc_5 \/ Proc_4 \/ Func_2 \/ While \/ Proc_8 \/ Chars \/ Arithmetic \/ Proc_2 \/ Measured
  BY <1>4, <1>5 DEF Proc_5, Proc_4, Func_2, While, Proc_8, Chars, Arithmetic, Proc_2, Measured, globals
<1> QED  BY <1>1, <1>2, <1>3, <1>5 DEF Next

LEMMA NoElse ==
  ASSUME DhryInv, Chars
  PROVE  Ch_1_Glob' = A /\ UNCHANGED <<Enum_Loc, Str_2_Loc, Int_2_Loc, Int_Glob>>
         /\ Ch_Index' \in A .. C
<1>1. Ch_1_Glob = A /\ Ch_2_Glob = B /\ Enum_Loc = Ident_2 /\ Ch_Index \in A .. C /\ Ch_Index <= B
  BY DEF Chars, DhryInv, GlobalsRight, LocalsRight, At, Body, Finished
<1>2. Ch_Index # C /\ Func_1(Ch_Index, C) = Ident_1 /\ Ident_1 # Ident_2
  BY <1>1 DEF Func_1, Ident_1, Ident_2, A, B, C
<1>3. Ch_1_Glob' = A  BY <1>1, <1>2 DEF Chars, Kept
<1>4. UNCHANGED <<Enum_Loc, Str_2_Loc, Int_2_Loc, Int_Glob>>  BY <1>1, <1>2 DEF Chars
<1>5. Ch_Index' \in A .. C  BY <1>1 DEF Chars, A, B, C
<1> QED  BY <1>3, <1>4, <1>5

(* The strings decide that the first is not behind the second. *)
LEMMA FirstNotBehind == ASSUME DhryInv, Func_2 PROVE Bool_Glob' = TRUE /\ Int_Glob' = Int_Glob
<1>1. Str_2_Loc = "second"
  BY DEF Func_2, DhryInv, LocalsRight, At
<1>2. ~ (Rank["first"] > Rank["second"])  BY DEF Rank
<1> QED  BY <1>1, <1>2 DEF Func_2

LEMMA GlobalsKeptRight == ASSUME DhryInv, Next PROVE GlobalsRight'
<1> USE DEF At, Body, Finished
<1>1. CASE Proc_5  BY <1>1 DEF Proc_5, DhryInv, GlobalsRight
<1>2. CASE Proc_4  BY <1>2 DEF Proc_4, DhryInv, GlobalsRight
<1>3. CASE Func_2  BY <1>3, FirstNotBehind DEF Func_2, DhryInv, GlobalsRight
<1>4. CASE While  BY <1>4 DEF While, globals, DhryInv, GlobalsRight
<1>5. CASE Proc_8
  <2>1. Int_1_Loc = 3 /\ Int_3_Loc = 7  BY <1>5 DEF Proc_8, DhryInv, LocalsRight
  <2>2. 8 \in DOMAIN Arr_1_Glob' /\ Arr_1_Glob'[8] = 7
    <3>1. Arr_1_Glob' = Written([at \in {8, 9, 38} |-> IF at = 38 THEN 8 ELSE 7], Arr_1_Glob)
      BY <1>5, <2>1 DEF Proc_8
    <3> QED  BY <3>1 DEF Written
  <2> QED  BY <1>5, <2>2 DEF Proc_8, DhryInv, GlobalsRight
<1>6. CASE Proc_1 \/ Proc_3 \/ Proc_1_Rest
  BY <1>6 DEF Proc_1, Proc_3, Proc_1_Rest, DhryInv, GlobalsRight
<1>7. CASE Chars  BY <1>7, NoElse DEF Chars, DhryInv, GlobalsRight
<1>8. CASE Arithmetic \/ Proc_2 \/ Measured
  BY <1>8 DEF Arithmetic, Proc_2, Measured, globals, DhryInv, GlobalsRight
<1> QED  BY <1>1, <1>2, <1>3, <1>4, <1>5, <1>6, <1>7, <1>8 DEF Next

LEMMA LocalsKeptRight == ASSUME DhryInv, Next PROVE LocalsRight'
<1> USE DEF At, Body, Finished
<1>1. CASE Proc_5  BY <1>1 DEF Proc_5, locals, DhryInv, LocalsRight
<1>2. CASE Proc_4  BY <1>2 DEF Proc_4, DhryInv, LocalsRight
<1>3. CASE Func_2  BY <1>3 DEF Func_2, locals, DhryInv, LocalsRight
<1>4. CASE While
  <2>1. Int_1_Loc \in 2 .. 3 /\ Int_2_Loc = 3 /\ (Int_1_Loc = 3 => Int_3_Loc = 7)
        /\ Str_2_Loc = "second" /\ Enum_Loc = Ident_2
    BY <1>4 DEF While, DhryInv, LocalsRight
  <2>2. CASE Int_1_Loc = 2
    BY <1>4, <2>1, <2>2 DEF While, Proc_7, LocalsRight
  <2>3. CASE Int_1_Loc = 3  BY <1>4, <2>1, <2>3 DEF While, LocalsRight
  <2> QED  BY <2>1, <2>2, <2>3
<1>5. CASE Proc_8 \/ Proc_1 \/ Proc_3
  BY <1>5 DEF Proc_8, Proc_1, Proc_3, locals, DhryInv, LocalsRight
<1>6. CASE Proc_1_Rest  BY <1>6 DEF Proc_1_Rest, DhryInv, LocalsRight, A, C
<1>7. CASE Chars  BY <1>7, NoElse DEF Chars, DhryInv, LocalsRight
<1>8. CASE Arithmetic
  <2>1. Int_1_Loc = 3 /\ Int_2_Loc = 3 /\ Int_3_Loc = 7 /\ Str_2_Loc = "second" /\ Enum_Loc = Ident_2
    BY <1>8 DEF Arithmetic, DhryInv, LocalsRight
  <2>2. Int_1_Loc' = 9 \div 7 /\ Int_2_Loc' = 7 * (9 - 7) - Int_1_Loc'  BY <1>8, <2>1 DEF Arithmetic
  <2>3. Int_1_Loc' = 1 /\ Int_2_Loc' = 13  BY <2>2
  <2> QED  BY <1>8, <2>1, <2>3 DEF Arithmetic, LocalsRight
<1>9. CASE Proc_2
  <2>1. Int_1_Loc = 1 /\ Int_Glob = 5  BY <1>9 DEF Proc_2, DhryInv, LocalsRight, GlobalsRight
  <2>2. Int_1_Loc' = 5  BY <1>9, <2>1 DEF Proc_2
  <2> QED  BY <1>9, <2>2 DEF Proc_2, DhryInv, LocalsRight
<1>10. CASE Measured  BY <1>10 DEF Measured, locals, DhryInv, LocalsRight
<1> QED  BY <1>1, <1>2, <1>3, <1>4, <1>5, <1>6, <1>7, <1>8, <1>9, <1>10 DEF Next

LEMMA RunsKeptRight == ASSUME DhryInv, Next PROVE RunsRight'
<1> USE DEF At, Body, Finished
<1>1. CASE Proc_8
  <2>1. Int_1_Loc = 3 /\ Int_3_Loc = 7  BY <1>1 DEF Proc_8, DhryInv, LocalsRight
  <2>2. /\ <<8, 7>> \in DOMAIN Arr_2_Glob /\ Arr_2_Glob[<<8, 7>>] = 10 + executed /\ executed \in Nat
        /\ executed' = executed /\ pc' = "Proc_1"
    BY <1>1 DEF Proc_8, timing, DhryInv, RunsRight
  <2> DEFINE new == [at \in {8} \X {7, 8, 9} \cup {<<28, 8>>} |->
                       CASE at = <<8, 7>> -> Element(Arr_2_Glob, at) + 1
                         [] at = <<28, 8>> -> 7
                         [] OTHER -> 8]
  <2>3. Arr_2_Glob' = Written(new, Arr_2_Glob)  BY <1>1, <2>1 DEF Proc_8
  <2>4. <<8, 7>> \in DOMAIN new /\ new[<<8, 7>>] = Element(Arr_2_Glob, <<8, 7>>) + 1  OBVIOUS
  <2> HIDE DEF new
  <2>5. <<8, 7>> \in DOMAIN Arr_2_Glob' /\ Arr_2_Glob'[<<8, 7>>] = Element(Arr_2_Glob, <<8, 7>>) + 1
    BY <2>3, <2>4 DEF Written
  <2>6. Element(Arr_2_Glob, <<8, 7>>) = 10 + executed  BY <2>2 DEF Element
  <2> QED  BY <2>2, <2>5, <2>6 DEF RunsRight
<1>2. CASE Proc_5 \/ Proc_4 \/ Func_2 \/ While
  BY <1>2 DEF Proc_5, Proc_4, Func_2, While, globals, timing, DhryInv, RunsRight
<1>3. CASE Proc_1 \/ Proc_3 \/ Proc_1_Rest \/ Chars \/ Arithmetic
  BY <1>3 DEF Proc_1, Proc_3, Proc_1_Rest, Chars, Arithmetic, globals, timing, DhryInv, RunsRight
<1>4. CASE Proc_2  BY <1>4 DEF Proc_2, globals, DhryInv, RunsRight
<1>5. CASE Measured  BY <1>5 DEF Measured, globals, DhryInv, RunsRight
<1> QED  BY <1>1, <1>2, <1>3, <1>4, <1>5 DEF Next

(* A further try has more runs than the first, and the first one's are executed already. *)
LEMMA TriesKeptRight == ASSUME ProgramsAssumption, DhryInv, Next PROVE TriesRight'
<1> USE DEF At, Body, Finished
<1>1. CASE Proc_5 \/ Proc_4 \/ Func_2 \/ While \/ Proc_8 \/ Proc_1 \/ Proc_3 \/ Proc_1_Rest \/ Chars
           \/ Arithmetic
  BY <1>1
  DEF Proc_5, Proc_4, Func_2, While, Proc_8, Proc_1, Proc_3, Proc_1_Rest, Chars, Arithmetic, timing,
      DhryInv, TriesRight
<1>2. CASE Proc_2  BY <1>2 DEF Proc_2, DhryInv, TriesRight
<1>3. CASE Measured
  <2>1. pc = "measured" /\ NUMBER_OF_RUNS \in Nat \ {0} /\ executed' = executed
    BY <1>3 DEF Measured, ProgramsAssumption
  <2>2. /\ Number_Of_Runs \in Nat \ {0} /\ Run_Index = Number_Of_Runs + 1 /\ executed \in Nat
        /\ Number_Of_Runs >= NUMBER_OF_RUNS /\ executed >= Number_Of_Runs
    BY <2>1 DEF DhryInv, TriesRight
  <2>3. CASE User_Time' < Too_Small_Time
    BY <1>3, <2>1, <2>2, <2>3 DEF Measured, More, TriesRight
  <2>4. CASE ~ (User_Time' < Too_Small_Time)
    BY <1>3, <2>1, <2>4 DEF Measured, DhryInv, TriesRight
  <2> QED  BY <2>3, <2>4
<1> QED  BY <1>1, <1>2, <1>3 DEF Next

LEMMA TimingKeptRight == ASSUME ProgramsAssumption, DhryInv, Next PROVE TimingRight'
<1>1. Number_Of_Runs \in Nat \ {0} /\ cost \in Cost  BY DEF DhryInv, TimingRight
<1>2. CASE Proc_5 \/ Proc_4 \/ Func_2 \/ While \/ Proc_8 \/ Proc_1 \/ Proc_3 \/ Proc_1_Rest \/ Chars
           \/ Arithmetic
  BY <1>1, <1>2
  DEF Proc_5, Proc_4, Func_2, While, Proc_8, Proc_1, Proc_3, Proc_1_Rest, Chars, Arithmetic, timing, TimingRight
<1>3. CASE Proc_2  BY <1>1, <1>3 DEF Proc_2, TimingRight
<1>4. CASE Measured
  <2>1. CASE User_Time' < Too_Small_Time
    BY <1>1, <1>4, <2>1 DEF Measured, More, TimingRight
  <2>2. CASE ~ (User_Time' < Too_Small_Time)
    BY <1>1, <1>4, <2>2 DEF Measured, TimingRight, Runs
  <2> QED  BY <2>1, <2>2
<1> QED  BY <1>2, <1>3, <1>4 DEF Next

LEMMA DhryKept == ASSUME ProgramsAssumption, DhryInv, Next PROVE DhryInv'
<1>1. pc' \in {"Proc_5", "Proc_4", "Func_2"} \cup Body \cup Finished
  BY DEF Next, Proc_5, Proc_4, Func_2, While, Proc_8, Proc_1, Proc_3, Proc_1_Rest, Chars, Arithmetic, Proc_2,
         Measured, DhryInv, Body, Finished
<1> QED
  BY <1>1, HeapKeptRight, GlobalsKeptRight, LocalsKeptRight, RunsKeptRight, TriesKeptRight,
     TimingKeptRight DEF DhryInv

(* The speed is that of one run, whatever their number. *)
LEMMA Common ==
  ASSUME NEW n \in Nat \ {0}, NEW c \in Nat \ {0}, NEW h \in Nat
  PROVE  (n * c) \div n = c /\ (h * n) \div (n * c) = h \div c
<1>1. n * c \in Nat \ {0} /\ n * c = c * n  OBVIOUS
<1>2. (n * c) \div n = c  BY <1>1
<1> DEFINE d == h \div c
           r == h % c
<1>3. d \in Nat /\ r \in Nat /\ r < c /\ h = c * d + r  OBVIOUS
<1> HIDE DEF d, r
<1>4. h * n = (n * c) * d + r * n /\ r * n \in Nat /\ r * n < n * c
  <2>1. h * n = (c * d) * n + r * n  BY <1>3
  <2>2. (c * d) * n = (n * c) * d  BY <1>3
  <2>3. r * n \in Nat /\ (c - r) * n \in Nat \ {0}  BY <1>3
  <2>4. (c - r) * n = c * n - r * n  BY <1>3
  <2> QED  BY <1>1, <2>1, <2>2, <2>3, <2>4
<1>5. (h * n) \div (n * c) = d
  <2> DEFINE m == n * c
             x == h * n
             y == r * n
  <2>1. m \in Nat \ {0} /\ y \in Nat /\ y < m /\ x = m * d + y  BY <1>1, <1>4
  <2> HIDE DEF m, x, y
  <2>2. x \div m = d  BY <2>1, <1>3
  <2> QED  BY <2>2 DEF m, x
<1> QED  BY <1>2, <1>5 DEF d

LEMMA DhryRight == ASSUME ProgramsAssumption, DhryInv PROVE FinalValues /\ RunsCounted /\ SpeedRight
<1>1. FinalValues
  <2> SUFFICES ASSUME pc = "done" PROVE Printed = Should_Be  BY DEF FinalValues
  <2>1. heap = [glob |-> Glob(17), next |-> Record("next", Ident_1, Ident_2, 18, "some")]
    BY DEF DhryInv, HeapRight, At, Finished
  <2>2. Int_Glob = 5 /\ Bool_Glob = TRUE /\ Ch_1_Glob = A /\ Ch_2_Glob = B /\ Arr_1_Glob[8] = 7
    BY DEF DhryInv, GlobalsRight, At, Finished
  <2>3. Int_1_Loc = 5 /\ Int_2_Loc = 13 /\ Int_3_Loc = 7 /\ Enum_Loc = 1 /\ Str_2_Loc = "second"
    BY DEF DhryInv, LocalsRight, At, Finished, Ident_2
  <2>4. heap.glob = Record("next", 0, 2, 17, "some") /\ heap.next = Record("next", 0, 1, 18, "some")
    BY <2>1 DEF Glob, Ident_1, Ident_2, Ident_3
  <2> QED  BY <2>2, <2>3, <2>4, Zenon DEF Printed, Should_Be
<1>2. RunsCounted
  <2>1. pc \in {"Proc_5", "done"} => Arr_2_Glob[<<8, 7>>] = 10 + executed
    BY DEF DhryInv, RunsRight, At
  <2>2. pc = "done" => (executed = Number_Of_Runs <=> Number_Of_Runs = NUMBER_OF_RUNS)
    BY DEF DhryInv, TriesRight, At, Finished, ProgramsAssumption
  <2>3. executed \in Nat /\ Number_Of_Runs \in Nat  BY DEF DhryInv, TriesRight
  <2> QED  BY <2>1, <2>2, <2>3 DEF RunsCounted
<1>3. SpeedRight
  <2> SUFFICES ASSUME pc = "done"
               PROVE  (cost < 2148 => Microseconds = cost) /\ Dhrystones_Per_Second = HZ \div cost
    BY DEF SpeedRight
  <2>1. /\ Number_Of_Runs \in Nat \ {0} /\ cost \in Nat \ {0} /\ User_Time = Number_Of_Runs * cost
        /\ Microseconds = Product32(User_Time \div Number_Of_Runs) \div HZ
        /\ Dhrystones_Per_Second = (HZ * Number_Of_Runs) \div User_Time
    BY DEF DhryInv, TimingRight, ProgramsAssumption, Runs
  <2>2. HZ \in Nat  BY SMT DEF HZ
  <2>3. User_Time \div Number_Of_Runs = cost /\ Dhrystones_Per_Second = HZ \div cost
    <3> DEFINE n == Number_Of_Runs
               u == n * cost
    <3>1. u \div n = cost /\ (HZ * n) \div u = HZ \div cost  BY <2>1, <2>2, Common
    <3>2. User_Time = u  BY <2>1
    <3> HIDE DEF u
    <3> QED  BY <2>1, <3>1, <3>2, Zenon
  <2>4. ASSUME cost < 2148 PROVE Microseconds = cost
    <3>1. Microseconds = (cost * 1000000) \div 1000000
      BY <2>1, <2>3, <2>4, SMT DEF Product32, HZ
    <3> QED  BY <2>1, <3>1, SMT
  <2> QED  BY <2>3, <2>4
<1> QED  BY <1>1, <1>2, <1>3

-----------------------------------------------------------------------------
(* A behaviour is one of a single part: the others keep what they hold initially.        *)
ProgramsInv == StartInv /\ HeapInv /\ UartInv /\ TimerInv /\ DhryInv

LEMMA StartStays == ASSUME StartInv, UNCHANGED start_vars PROVE StartInv'
<1>1. StartTypes'  BY DEF StartInv, StartTypes, start_vars, S!Total, S!End, S!First
<1>2. Registers'  BY DEF StartInv, Registers, start_vars, Part, S!End, S!First, S!Load, S!Calls
<1>3. Contents'  BY DEF StartInv, Contents, Done, Until, start_vars, Part, S!End, S!First, S!Calls
<1> QED  BY <1>1, <1>2, <1>3 DEF StartInv

LEMMA CallsStay == ASSUME HeapInv, UartInv, UNCHANGED calls_vars PROVE HeapInv' /\ UartInv'
<1>1. end' = end /\ heap_ptr' = heap_ptr  BY DEF calls_vars
<1>2. HeapInv'  BY <1>1 DEF HeapInv, H!heap_end
<1>3. polled' = polled  BY DEF calls_vars
<1>4. fifo' = fifo /\ received' = received /\ written' = written  BY DEF calls_vars
<1>5. polled' \in BOOLEAN /\ (polled' => Len(fifo') < Capacity)
  <2>1. Len(fifo) < Capacity => Len(fifo') < Capacity  BY <1>4
  <2>2. polled \in BOOLEAN /\ (polled => Len(fifo) < Capacity)  BY Zenon DEF UartInv
  <2> QED  BY <1>3, <2>1, <2>2
<1>6. /\ fifo' \in Seq(Nat) /\ received' \in Seq(Nat)
      /\ written' = Len(received') + Len(fifo')
      /\ \A k \in 1 .. Len(received') : received'[k] = k
      /\ \A k \in 1 .. Len(fifo') : fifo'[k] = Len(received') + k
  BY <1>4 DEF UartInv
<1>7. UartInv'  BY <1>5, <1>6, Zenon DEF UartInv
<1> QED  BY <1>2, <1>7

LEMMA TimerStays == ASSUME TimerInv, UNCHANGED timer_vars PROVE TimerInv'
<1>1. LampsInv'  BY DEF TimerInv, LampsInv, timer_vars, P!Running, P!Op
<1>2. TimerTypes'  BY DEF TimerInv, TimerTypes, timer_vars
<1>3. DelayInv'  BY DEF TimerInv, DelayInv, timer_vars, After, Cycles, Limit, P!Op
<1> QED  BY <1>1, <1>2, <1>3 DEF TimerInv

LEMMA DhryStays == ASSUME DhryInv, UNCHANGED vars PROVE DhryInv'
<1>1. HeapRight'  BY DEF DhryInv, HeapRight, vars, globals, At
<1>2. GlobalsRight'  BY DEF DhryInv, GlobalsRight, vars, globals, At
<1>3. LocalsRight'  BY DEF DhryInv, LocalsRight, vars, locals, At
<1>4. RunsRight'  BY DEF DhryInv, RunsRight, vars, globals, timing, At
<1>5. TimingRight'  BY DEF DhryInv, TimingRight, vars, timing, Runs
<1>6. TriesRight'  BY DEF DhryInv, TriesRight, vars, timing, At
<1> QED  BY <1>1, <1>2, <1>3, <1>4, <1>5, <1>6 DEF DhryInv, vars

LEMMA ProgramsInitially == ASSUME ProgramsInit PROVE ProgramsInv
<1> USE ProgramsAssumption
<1> QED
  BY StartInitially, CallsInitially, TimerInitially, DhryInitially DEF ProgramsInit, ProgramsInv

LEMMA StartNextKept == ASSUME StartInv, S!Next PROVE StartInv'
  BY ProgramsAssumption, CallKept, LoopKept DEF S!Next

LEMMA TimerNextKept == ASSUME TimerInv, P!Next PROVE TimerInv'
  BY ProgramsAssumption, TimerAssumption, LampsKept, TypesKept, DelayKept DEF TimerInv

LEMMA ProgramsKept == ASSUME ProgramsInv, [ProgramsNext]_allvars PROVE ProgramsInv'
<1>1. CASE StartStep
  <2>1. S!Next /\ UNCHANGED vars /\ UNCHANGED calls_vars /\ UNCHANGED timer_vars  BY <1>1 DEF StartStep
  <2> QED  BY <2>1, StartNextKept, CallsStay, TimerStays, DhryStays DEF ProgramsInv
<1>2. CASE Calls(H!Next)
  <2>1. H!Next /\ UNCHANGED vars /\ UNCHANGED start_vars /\ UNCHANGED timer_vars  BY <1>2 DEF Calls
  <2> QED
    BY <2>1, ProgramsAssumption, HeapKept, UartKept, StartStays, TimerStays, DhryStays DEF ProgramsInv
<1>3. CASE TimerStep
  <2>1. P!Next /\ UNCHANGED vars /\ UNCHANGED start_vars /\ UNCHANGED calls_vars  BY <1>3 DEF TimerStep
  <2> QED  BY <2>1, TimerNextKept, StartStays, CallsStay, DhryStays DEF ProgramsInv
<1>4. CASE DhrystoneStep
  <2>1. Next /\ UNCHANGED start_vars /\ UNCHANGED calls_vars /\ UNCHANGED timer_vars
    BY <1>4 DEF DhrystoneStep
  <2> QED  BY <2>1, ProgramsAssumption, DhryKept, StartStays, CallsStay, TimerStays DEF ProgramsInv
<1>5. CASE UNCHANGED allvars
  <2>1. UNCHANGED vars /\ UNCHANGED start_vars /\ UNCHANGED calls_vars /\ UNCHANGED timer_vars
    BY <1>5 DEF allvars
  <2> QED  BY <2>1, StartStays, CallsStay, TimerStays, DhryStays DEF ProgramsInv
<1> QED  BY <1>1, <1>2, <1>3, <1>4, <1>5 DEF ProgramsNext

(* What each program has done so far, place by place of its code; the three theorems below *)
(* follow from it.                                                                   *)
THEOREM ProgramsInvariant == ProgramsSpec => []ProgramsInv
<1>1. ProgramsInit => ProgramsInv  BY ProgramsInitially
<1>2. ProgramsInv /\ [ProgramsNext]_allvars => ProgramsInv'  BY ProgramsKept
<1> QED  BY <1>1, <1>2, PTL DEF ProgramsSpec

(* main starts on the memory the linker laid out, every section initialised and nothing   *)
(* behind them touched, and the heap stays in its reserve: for every size of a section     *)
(* and every end of the program's data.                                             *)
THEOREM MemoryLaidOut == ProgramsSpec => []MemoryAsLaidOut
<1>1. ProgramsInv => MemoryAsLaidOut  BY StartEnds, HeapStays DEF ProgramsInv, MemoryAsLaidOut
<1> QED  BY <1>1, ProgramsInvariant, PTL

(* The host receives every character once and in order, the lamps show the bytes that      *)
(* were written, and Dhrystone ends with its values, its count and its speed: for every     *)
(* capacity of the UART, every number of runs of the first try and every cost of a run.      *)
THEOREM OutputIsRight == ProgramsSpec => []OutputRight
<1>1. ProgramsInv => OutputRight
  <2> SUFFICES ASSUME ProgramsInv PROVE OutputRight  OBVIOUS
  <2>1. H!NothingLost  BY HostHasAll DEF ProgramsInv
  <2>2. P!BytesShown  BY LampsRight DEF ProgramsInv, TimerInv
  <2>3. FinalValues /\ RunsCounted /\ SpeedRight  BY ProgramsAssumption, DhryRight DEF ProgramsInv
  <2> QED  BY <2>1, <2>2, <2>3 DEF OutputRight
<1> QED  BY <1>1, ProgramsInvariant, PTL

(* A delay lasts its ticks and at most one turn of its loop longer, wherever the timer      *)
(* stands when it begins: for every prescaler, every width of the timer that holds the        *)
(* delay and a turn, and every number of cycles the program may spend in a turn.             *)
THEOREM DelaysAreRight == ProgramsSpec => DelayRight
<1>1. ProgramsInv /\ [ProgramsNext]_allvars
      => [P!DelayEnds => since >= P!Op.n /\ since <= P!Op.n + P!Turn]_(P!vars)
  <2> SUFFICES ASSUME ProgramsInv, [ProgramsNext]_allvars, P!DelayEnds, ~ UNCHANGED P!vars
               PROVE  since >= P!Op.n /\ since <= P!Op.n + P!Turn
    OBVIOUS
  <2>1. ~ UNCHANGED timer_vars  BY DEF P!vars, timer_vars
  <2>2. TimerStep
    BY <2>1 DEF ProgramsNext, StartStep, Calls, DhrystoneStep, allvars
  <2> QED
    BY <2>2, ProgramsAssumption, TimerAssumption, DelayTrue DEF TimerStep, ProgramsInv
<1> QED  BY <1>1, ProgramsInvariant, PTL DEF ProgramsSpec, DelayRight, P!DelayRight
=============================================================================
