------------------------------- MODULE ArxStart -------------------------------
(***************************************************************************)
(* The start of every program (arx_hal/start.S) on the memory that the linker script    *)
(* lays out: the sections without data are cleared, then the initial data is copied     *)
(* from the ROM, byte by byte, with the registers a0, a1 and a2; then main is called.     *)
(***************************************************************************)
EXTENDS Integers

CONSTANTS
  Sizes,           \* bytes a section may have
  Text,            \* bytes of .text
  Rest             \* bytes of RAM behind the sections: heap and stack

VARIABLES
  size,            \* of each section
  ram,             \* [address -> content]
  pc, call,        \* the loop that runs, and for which of the four calls
  a0, a1, a2

vars == <<size, ram, pc, call, a0, a1, a2>>

(* Where a section begins, in the order of linker.ld.                                 *)
First(s) ==
  CASE s = "sdata" -> 0
    [] s = "data"  -> size["sdata"]
    [] s = "sbss"  -> size["sdata"] + size["data"]
    [] s = "bss"   -> size["sdata"] + size["data"] + size["sbss"]
End(s) == First(s) + size[s]

(* The images in the ROM: .sdata behind the text, .data behind .sdata.                 *)
Bug_Load(s) == Text
Load(s) == IF s = "sdata" THEN Text ELSE Text + size["sdata"]
Image(a) ==
  IF a < Text THEN <<"text", a>>
  ELSE IF a < Text + size["sdata"] THEN <<"sdata", a - Text>>
  ELSE <<"data", a - Text - size["sdata"]>>

Total == End("bss")
Init ==
  /\ size \in [{"sdata", "data", "sbss", "bss"} -> Sizes]
  /\ ram = [a \in 0 .. Total + Rest - 1 |-> <<"junk">>]
  /\ pc = "call" /\ call = 1 /\ a0 = 0 /\ a1 = 0 /\ a2 = 0

Calls == << <<"zero_loop", "sbss">>, <<"zero_loop", "bss">>,
            <<"memcpy_loop", "data">>, <<"memcpy_loop", "sdata">> >>

Call ==
  /\ pc = "call" /\ UNCHANGED <<size, ram, call>>
  /\ IF call > 4 THEN pc' = "main" /\ UNCHANGED <<a0, a1, a2>>
     ELSE LET s == Calls[call][2] IN
          /\ pc' = Calls[call][1]
          /\ a0' = First(s)
          /\ IF pc' = "zero_loop" THEN a1' = End(s) /\ UNCHANGED a2
             ELSE a1' = Load(s) /\ a2' = End(s) - First(s)

Return == pc' = "call" /\ call' = call + 1

(* Both loops test before the first byte, so that an empty section is left alone.         *)
zero_loop ==
  /\ pc = "zero_loop" /\ UNCHANGED <<size, a1, a2>>
  /\ IF a0 = a1 THEN Return /\ UNCHANGED <<ram, a0>>
     ELSE /\ ram' = [ram EXCEPT ![a0] = <<"zero">>] /\ a0' = a0 + 1
          /\ UNCHANGED <<pc, call>>

memcpy_loop ==
  /\ pc = "memcpy_loop" /\ UNCHANGED size
  /\ IF a2 = 0 THEN Return /\ UNCHANGED <<ram, a0, a1, a2>>
     ELSE /\ ram' = [ram EXCEPT ![a0] = Image(a1)]
          /\ a0' = a0 + 1 /\ a1' = a1 + 1 /\ a2' = a2 - 1
          /\ UNCHANGED <<pc, call>>

Next == Call \/ zero_loop \/ memcpy_loop
Spec == Init /\ [][Next]_vars

-----------------------------------------------------------------------------
(* main starts with its variables initialised: each section holds its data or zeros,      *)
(* and nothing behind the sections was touched.                                       *)
Initialised(a) ==
  CASE a \in First("sdata") .. End("sdata") - 1 -> ram[a] = <<"sdata", a - First("sdata")>>
    [] a \in First("data") .. End("data") - 1 -> ram[a] = <<"data", a - First("data")>>
    [] a \in First("sbss") .. End("bss") - 1 -> ram[a] = <<"zero">>
    [] OTHER -> ram[a] = <<"junk">>
Ready == pc = "main" => \A a \in DOMAIN ram : Initialised(a)
=============================================================================
