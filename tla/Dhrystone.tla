------------------------------ MODULE Dhrystone ------------------------------
(***************************************************************************)
(* The Dhrystone benchmark (dhrystone_main.c, dhrystone.c): one step for each call   *)
(* that main makes in a run, repeated for Number_Of_Runs, and the whole repeated     *)
(* with ten times as many until the measurement is long enough. Times are in         *)
(* microseconds, as the timer of the board counts them.                              *)
(***************************************************************************)
EXTENDS Integers

CONSTANTS
  NUMBER_OF_RUNS,      \* of the first try (500 in dhrystone.h)
  Cost                 \* microseconds of one run on the machine

HZ == 1000000
Too_Small_Time == 2 * HZ

Ident_1 == 0
Ident_2 == 1
Ident_3 == 2
Ident_4 == 3
Ident_5 == 4

(* Characters by their code.                                                      *)
A == 65
B == 66
C == 67
R == 82
Y == 89

VARIABLES
  pc,
  heap,                                         \* the records *Ptr_Glob and *Next_Ptr_Glob
  Int_Glob, Bool_Glob, Ch_1_Glob, Ch_2_Glob,
  Arr_1_Glob, Arr_2_Glob,                       \* the elements written so far
  Int_1_Loc, Int_2_Loc, Int_3_Loc, Enum_Loc, Str_2_Loc, Ch_Index,
  Number_Of_Runs, Run_Index, cost, User_Time,
  Microseconds, Dhrystones_Per_Second,
  executed                                      \* runs since the program began

globals == <<heap, Int_Glob, Bool_Glob, Ch_1_Glob, Ch_2_Glob, Arr_1_Glob, Arr_2_Glob>>
locals == <<Int_1_Loc, Int_2_Loc, Int_3_Loc, Enum_Loc, Str_2_Loc, Ch_Index>>
timing == <<Number_Of_Runs, Run_Index, cost, User_Time, Microseconds, Dhrystones_Per_Second, executed>>
vars == <<pc, globals, locals, timing>>

(* The strings differ only in their last words: DHRYSTONE PROGRAM, ...              *)
Letter == [i \in 0 .. 3 |-> <<68, 72, R, Y>>[i + 1]]
Rank == [first |-> 1, second |-> 2, third |-> 3]       \* by strcmp

Record(ptr, discr, enum, int, str) ==
  [Ptr_Comp |-> ptr, Discr |-> discr, Enum_Comp |-> enum, Int_Comp |-> int, Str_Comp |-> str]

Init ==
  /\ pc = "Proc_5"
  /\ heap = [glob |-> Record("next", Ident_1, Ident_3, 40, "some"),
             next |-> Record("garbage", -1, -1, -1, "garbage")]
  /\ Arr_1_Glob = <<>> /\ Arr_2_Glob = [at \in {<<8, 7>>} |-> 10]
  /\ Int_Glob = 0 /\ Bool_Glob = FALSE /\ Ch_1_Glob = 0 /\ Ch_2_Glob = 0
  /\ Int_1_Loc = -1 /\ Int_2_Loc = -1 /\ Int_3_Loc = -1 /\ Enum_Loc = -1
  /\ Str_2_Loc = "garbage" /\ Ch_Index = 0
  /\ Number_Of_Runs = NUMBER_OF_RUNS /\ Run_Index = 1 /\ cost \in Cost /\ User_Time = 0
  /\ Microseconds = 0 /\ Dhrystones_Per_Second = 0 /\ executed = 0

-----------------------------------------------------------------------------
Proc_7(Int_1_Par_Val, Int_2_Par_Val) == Int_2_Par_Val + (Int_1_Par_Val + 2)

(* Func_1 keeps the first character when both are equal.                            *)
Func_1(c1, c2) == IF c1 # c2 THEN Ident_1 ELSE Ident_2
Bug_Kept(c1, c2) == c1
Kept(c1, c2) == IF c1 # c2 THEN Ch_1_Glob ELSE c1

Func_3(e) == e = Ident_3
Proc_6(e) ==
  CASE e = Ident_1 -> Ident_1
    [] e = Ident_2 -> IF Int_Glob > 100 THEN Ident_1 ELSE Ident_4
    [] e = Ident_3 -> Ident_2
    [] e = Ident_4 -> IF Func_3(e) THEN e ELSE Ident_4
    [] e = Ident_5 -> Ident_3

Proc_5 ==
  /\ pc = "Proc_5" /\ pc' = "Proc_4"
  /\ Ch_1_Glob' = A /\ Bool_Glob' = FALSE
  /\ UNCHANGED <<heap, Int_Glob, Ch_2_Glob, Arr_1_Glob, Arr_2_Glob, locals, timing>>

Proc_4 ==
  /\ pc = "Proc_4" /\ pc' = "Func_2"
  /\ Bool_Glob' = (Ch_1_Glob = A \/ Bool_Glob) /\ Ch_2_Glob' = B
  /\ Int_1_Loc' = 2 /\ Int_2_Loc' = 3 /\ Str_2_Loc' = "second" /\ Enum_Loc' = Ident_2
  /\ UNCHANGED <<heap, Int_Glob, Ch_1_Glob, Arr_1_Glob, Arr_2_Glob, Int_3_Loc, Ch_Index, timing>>

(* The loop of Func_2 ends when the characters differ; Ch_Loc is 'A' then, so that   *)
(* neither test of it succeeds and the strings decide.                            *)
Func_2 ==
  /\ pc = "Func_2" /\ pc' = "while"
  /\ Func_1(Letter[2], Letter[3]) = Ident_1
  /\ LET greater == Rank["first"] > Rank[Str_2_Loc] IN
     /\ Bool_Glob' = ~ greater
     /\ Int_Glob' = IF greater THEN 10 ELSE Int_Glob
  /\ UNCHANGED <<heap, Ch_1_Glob, Ch_2_Glob, Arr_1_Glob, Arr_2_Glob, locals, timing>>

While ==
  /\ pc = "while"
  /\ IF Int_1_Loc < Int_2_Loc
     THEN pc' = pc /\ Int_3_Loc' = Proc_7(Int_1_Loc, Int_2_Loc) /\ Int_1_Loc' = Int_1_Loc + 1
     ELSE pc' = "Proc_8" /\ UNCHANGED <<Int_1_Loc, Int_3_Loc>>
  /\ UNCHANGED <<globals, Int_2_Loc, Enum_Loc, Str_2_Loc, Ch_Index, timing>>

(* The written elements are added to, or replace, those written before.              *)
Element(arr, index) == IF index \in DOMAIN arr THEN arr[index] ELSE 0
Written(new, arr) ==
  [at \in DOMAIN new \cup DOMAIN arr |-> IF at \in DOMAIN new THEN new[at] ELSE arr[at]]
Proc_8 ==
  /\ pc = "Proc_8" /\ pc' = "Proc_1"
  /\ LET loc == Int_1_Loc + 5 IN
     /\ Arr_1_Glob' = Written([at \in {loc, loc + 1, loc + 30} |->
                                 IF at = loc + 30 THEN loc ELSE Int_3_Loc], Arr_1_Glob)
     /\ Arr_2_Glob' = Written([at \in {loc} \X {loc - 1, loc, loc + 1} \cup {<<loc + 20, loc>>} |->
                                 CASE at = <<loc, loc - 1>> -> Element(Arr_2_Glob, at) + 1
                                   [] at = <<loc + 20, loc>> -> Int_3_Loc
                                   [] OTHER -> loc], Arr_2_Glob)
  /\ Int_Glob' = 5
  /\ UNCHANGED <<heap, Bool_Glob, Ch_1_Glob, Ch_2_Glob, locals, timing>>

(* Proc_1 up to its call of Proc_3, Proc_3, and the rest.                          *)
Proc_1 ==
  /\ pc = "Proc_1" /\ pc' = "Proc_3"
  /\ heap' = [glob |-> [heap.glob EXCEPT !.Int_Comp = 5],
              next |-> [heap.glob EXCEPT !.Int_Comp = 5]]
  /\ UNCHANGED <<Int_Glob, Bool_Glob, Ch_1_Glob, Ch_2_Glob, Arr_1_Glob, Arr_2_Glob, locals, timing>>

Proc_3 ==
  /\ pc = "Proc_3" /\ pc' = "rest"
  /\ heap' = [heap EXCEPT !.next.Ptr_Comp = heap.glob.Ptr_Comp,
                          !.glob.Int_Comp = Proc_7(10, Int_Glob)]
  /\ UNCHANGED <<Int_Glob, Bool_Glob, Ch_1_Glob, Ch_2_Glob, Arr_1_Glob, Arr_2_Glob, locals, timing>>

Proc_1_Rest ==
  /\ pc = "rest" /\ pc' = "chars"
  /\ heap' = IF heap.next.Discr = Ident_1
             THEN [heap EXCEPT !.next.Enum_Comp = Proc_6(heap.glob.Enum_Comp),
                               !.next.Ptr_Comp = heap.glob.Ptr_Comp,
                               !.next.Int_Comp = Proc_7(6, 10)]
             ELSE [heap EXCEPT !.glob = heap.next]
  /\ Ch_Index' = A
  /\ UNCHANGED <<Int_Glob, Bool_Glob, Ch_1_Glob, Ch_2_Glob, Arr_1_Glob, Arr_2_Glob,
                 Int_1_Loc, Int_2_Loc, Int_3_Loc, Enum_Loc, Str_2_Loc, timing>>

(* For each letter up to Ch_2_Glob; the body of the if is not executed in a right     *)
(* run.                                                                          *)
Chars ==
  /\ pc = "chars" /\ Ch_Index <= Ch_2_Glob
  /\ Ch_1_Glob' = Kept(Ch_Index, C) /\ Ch_Index' = Ch_Index + 1
  /\ IF Enum_Loc = Func_1(Ch_Index, C)
     THEN /\ Enum_Loc' = Proc_6(Ident_1) /\ Str_2_Loc' = "third"
          /\ Int_2_Loc' = Run_Index /\ Int_Glob' = Run_Index
     ELSE UNCHANGED <<Enum_Loc, Str_2_Loc, Int_2_Loc, Int_Glob>>
  /\ UNCHANGED <<pc, heap, Bool_Glob, Ch_2_Glob, Arr_1_Glob, Arr_2_Glob, Int_1_Loc, Int_3_Loc, timing>>

Arithmetic ==
  /\ pc = "chars" /\ Ch_Index > Ch_2_Glob /\ pc' = "Proc_2"
  /\ LET product == Int_2_Loc * Int_1_Loc IN
     /\ Int_1_Loc' = product \div Int_3_Loc
     /\ Int_2_Loc' = 7 * (product - Int_3_Loc) - Int_1_Loc'
  /\ UNCHANGED <<globals, Int_3_Loc, Enum_Loc, Str_2_Loc, Ch_Index, timing>>

(* The loop of Proc_2 ends only if Ch_1_Glob is 'A'.                                *)
Proc_2 ==
  /\ pc = "Proc_2" /\ Ch_1_Glob = A
  /\ Int_1_Loc' = Int_1_Loc + 10 - 1 - Int_Glob
  /\ Run_Index' = Run_Index + 1 /\ executed' = executed + 1
  /\ pc' = IF Run_Index < Number_Of_Runs THEN "Proc_5" ELSE "measured"
  /\ UNCHANGED <<globals, Int_2_Loc, Int_3_Loc, Enum_Loc, Str_2_Loc, Ch_Index, Number_Of_Runs,
                 cost, User_Time, Microseconds, Dhrystones_Per_Second>>

-----------------------------------------------------------------------------
More(n) == n * 10

(* After a try: once more with ten times the runs, or the end. The product of the    *)
(* first formula has 32 bits.                                                     *)
Runs == Number_Of_Runs
Product32(n) == IF n > 2147 THEN -1 ELSE n * 1000000      \* -1: it overflows

Measured ==
  /\ pc = "measured"
  /\ User_Time' = Number_Of_Runs * cost
  /\ IF User_Time' < Too_Small_Time
     THEN /\ Number_Of_Runs' = More(Number_Of_Runs) /\ Run_Index' = 1 /\ pc' = "Proc_5"
          /\ UNCHANGED <<Microseconds, Dhrystones_Per_Second>>
     ELSE /\ pc' = "done"
          /\ Microseconds' = Product32(User_Time' \div Runs) \div HZ
          /\ Dhrystones_Per_Second' = (HZ * Runs) \div User_Time'
          /\ UNCHANGED <<Number_Of_Runs, Run_Index>>
  /\ UNCHANGED <<globals, locals, cost, executed>>

(* What main prints at the end, and beside it what it "should be" (Arr_2_Glob apart,   *)
(* see RunsCounted).                                                             *)
Printed ==
  << <<Int_Glob, Bool_Glob, Ch_1_Glob, Ch_2_Glob, Arr_1_Glob[8]>>, heap.glob, heap.next,
     <<Int_1_Loc, Int_2_Loc, Int_3_Loc, Enum_Loc, Str_2_Loc>> >>
Should_Be ==
  << <<5, TRUE, A, B, 7>>, Record("next", 0, 2, 17, "some"), Record("next", 0, 1, 18, "some"),
     <<5, 13, 7, 1, "second">> >>

Next == Proc_5 \/ Proc_4 \/ Func_2 \/ While \/ Proc_8 \/ Proc_1 \/ Proc_3 \/ Proc_1_Rest \/ Chars
          \/ Arithmetic \/ Proc_2 \/ Measured
Spec == Init /\ [][Next]_vars /\ WF_vars(Next)

-----------------------------------------------------------------------------
(* The values that main prints are those it prints beside them as "should be", after   *)
(* any number of runs and tries.                                                 *)
FinalValues == pc = "done" => Printed = Should_Be

(* Arr_2_Glob[8][7] counts every run since the program began, not only those of the   *)
(* last try: what main prints beside it, "Number_Of_Runs + 10" (dhrystone_main.c:203),   *)
(* is its value exactly if the first try was long enough.                          *)
RunsCounted ==
  /\ pc \in {"Proc_5", "done"} => Arr_2_Glob[<<8, 7>>] = 10 + executed
  /\ pc = "done" =>
       (Arr_2_Glob[<<8, 7>>] = Number_Of_Runs + 10 <=> Number_Of_Runs = NUMBER_OF_RUNS)

(* The speed printed is that of the runs measured; the time of one run only while it   *)
(* is below 2148 microseconds, where its product still has 32 bits.                *)
SpeedRight ==
  pc = "done" => /\ cost < 2148 => Microseconds = cost
                 /\ Dhrystones_Per_Second = HZ \div cost

(* The benchmark ends: no loop that waits for a value of another procedure hangs, and   *)
(* the tries get long enough.                                                      *)
Terminates == <>(pc = "done")
=============================================================================
