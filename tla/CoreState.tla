------------------------------ MODULE CoreState ------------------------------
(***************************************************************************)
(* The state machine benchmark of CoreMark (core_state.c): a block of text is   *)
(* packed with numbers and near-numbers, scanned, corrupted with seed1, scanned *)
(* again and restored with seed2. The block is numbered from 0, a character is   *)
(* its code.                                                                   *)
(***************************************************************************)
EXTENDS CoreCrc, SequencesExt

CONSTANTS
  BlkSize,    \* blksize
  Seed,       \* values of seed1, as unsigned 16-bit numbers; seed2 is the same,
  Other,      \* or one of these
  Steps,      \* values of step, from the data of the list items
  MaxCalls    \* bound on the calls of core_bench_state

VARIABLES
  seed1, seed2,
  mem,             \* the block
  phase,           \* "init", "idle", or the loop core_bench_state is in
  total, seed,     \* locals of core_init_state
  p, step, crc,    \* locals of core_bench_state
  final, track,    \* final_counts and track_counts
  blank, calls     \* for properties: the block as initialised; calls so far

vars == <<seed1, seed2, mem, phase, total, seed, p, step, crc, final, track, blank, calls>>

Block == 0 .. BlkSize - 1
Comma == 44
Dot == 46
Digit == 48 .. 57
Exp == {69, 101}
Sign == {43, 45}

(* enum CORE_STATE, in order.                                                  *)
START == 0
INVALID == 1
S1 == 2
S2 == 3
INT == 4
FLOAT == 5
EXPONENT == 6
SCIENTIFIC == 7
State == 0 .. 7

-----------------------------------------------------------------------------
(* The patterns: "5012" "1234" "-874" "+122", and so on.                        *)
intpat == << <<53,48,49,50>>, <<49,50,51,52>>, <<45,56,55,52>>, <<43,49,50,50>> >>
floatpat == << <<51,53,46,53,52,52,48,48>>, <<46,49,50,51,52,53,48,48>>,
               <<45,49,49,48,46,55,48,48>>, <<43,48,46,54,52,52,48,48>> >>
scipat == << <<53,46,53,48,48,101,43,51>>, <<45,46,49,50,51,101,45,50>>,
             <<45,56,55,101,43,56,51,50>>, <<43,48,46,54,101,45,49,50>> >>
errpat == << <<84,48,46,51,101,45,49,70>>, <<45,84,46,84,43,43,84,113>>,
             <<49,84,51,46,52,101,52,122>>, <<51,52,46,48,101,45,84,94>> >>

Pattern(s) ==
  LET pats == CASE s % 8 \in 0 .. 2 -> intpat   [] s % 8 \in {3, 4} -> floatpat
                [] s % 8 \in {5, 6} -> scipat   [] OTHER -> errpat
  IN  pats[1 + ((s \div 8) % 4)]

-----------------------------------------------------------------------------
(* core_state_transition: the machine, one symbol.                             *)
Move(s, c) ==
  CASE s = START      -> IF c \in Digit THEN INT ELSE IF c \in Sign THEN S1
                         ELSE IF c = Dot THEN FLOAT ELSE INVALID
    [] s = S1         -> IF c \in Digit THEN INT ELSE IF c = Dot THEN FLOAT ELSE INVALID
    [] s = INT        -> IF c = Dot THEN FLOAT ELSE IF c \in Digit THEN INT ELSE INVALID
    [] s = FLOAT      -> IF c \in Exp THEN S2 ELSE IF c \in Digit THEN FLOAT ELSE INVALID
    [] s = S2         -> IF c \in Sign THEN EXPONENT ELSE INVALID
    [] s = EXPONENT   -> IF c \in Digit THEN SCIENTIFIC ELSE INVALID
    [] s = SCIENTIFIC -> IF c \in Digit THEN SCIENTIFIC ELSE INVALID
    [] OTHER          -> s
Bug_Transition ==
  [s \in State |-> [c \in 0 .. 255 |-> IF s = INT /\ c \in Exp THEN S2 ELSE Move(s, c)]]
Transition == [s \in State |-> [c \in 0 .. 255 |-> Move(s, c)]]

(* The counter of the state that is left; leaving the first and the last one     *)
(* for INVALID counts there.                                                   *)
Counted(s, t) ==
  (IF s # t /\ s # SCIENTIFIC THEN {s} ELSE {})
    \cup (IF t = INVALID /\ s \in {START, SCIENTIFIC} THEN {INVALID} ELSE {})

(* The states of the machine from a cell and a state on, over one token: up to     *)
(* the end of the text, a comma, or an invalid symbol; a comma is consumed as well.  *)
(* A text without an end would be walked to the end of the block (see InBlock).      *)
Walk[at \in 0 .. BlkSize] ==
  [s \in State |->
     IF at = BlkSize \/ mem[at] \in {0, Comma} \/ s = INVALID THEN <<s>>
     ELSE <<s>> \o Walk[at + 1][Transition[s][mem[at]]]]
Path(from) == Walk[from][START]
Text(from, path) == [k \in 1 .. Len(path) - 1 |-> mem[from + k - 1]]
After(from, path) ==
  LET end == from + Len(path) - 1
  IN  IF Last(path) # INVALID /\ mem[end] = Comma THEN end + 1 ELSE end
Counts(path) ==
  [s \in State |-> Cardinality({k \in 1 .. Len(path) - 1 : s \in Counted(path[k], path[k + 1])})]

(* Every step-th character but the commas is xor-ed with a seed's byte.            *)
Byte(s) == s % 256
Bug_Corrupted(s) ==
  [k \in Block |-> IF k >= p /\ k % step = 0 /\ mem[k] # Comma THEN Xor(mem[k], Byte(s)) ELSE mem[k]]
Corrupted(s) ==
  [k \in Block |-> IF k % step = 0 /\ mem[k] # Comma THEN Xor(mem[k], Byte(s)) ELSE mem[k]]

-----------------------------------------------------------------------------
Zeros == [s \in State |-> 0]
Init ==
  /\ seed1 \in Seed /\ seed2 \in {seed1} \cup Other
  /\ mem = [k \in Block |-> 0] /\ blank = mem
  /\ phase = "init" /\ total = 0 /\ seed = (seed1 + 1) % 65536
  /\ p = 0 /\ step = 1 /\ crc = 0 /\ calls = 0
  /\ final = Zeros /\ track = Zeros

(* core_init_state: patterns, each with a comma behind it, for as long as they    *)
(* leave two cells of the block, which are zero with the rest.                   *)
Room == BlkSize - 1
Written(piece) ==
  [k \in Block |-> IF k >= total /\ k < total + Len(piece) THEN piece[k - total + 1] ELSE mem[k]]

AddPattern ==
  /\ phase = "init"
  /\ LET piece == Append(Pattern(seed), Comma)
         end   == total + Len(piece)
     IN  IF end < Room
         THEN /\ mem' = Written(piece) /\ total' = end /\ seed' = (seed + 1) % 65536
              /\ UNCHANGED <<phase, blank>>
         ELSE phase' = "idle" /\ blank' = mem /\ UNCHANGED <<mem, total, seed>>
  /\ UNCHANGED <<seed1, seed2, p, step, crc, final, track, calls>>

Call(s, c) ==
  /\ phase = "idle"
  /\ step' = s /\ crc' = c /\ p' = 0 /\ final' = Zeros /\ track' = Zeros
  /\ phase' = "scan" /\ calls' = calls + 1
  /\ UNCHANGED <<seed1, seed2, mem, total, seed, blank>>

TakeToken ==
  /\ phase \in {"scan", "rescan"}
  /\ \E path \in {Path(p)} :
       /\ p' = After(p, path)
       /\ final' = [final EXCEPT ![Last(path)] = @ + 1]
       /\ track' = [s \in State |-> track[s] + Counts(path)[s]]
  /\ UNCHANGED <<seed1, seed2, total, seed, mem, phase, step, crc, blank, calls>>
Bug_ScanToken == mem[p] \notin {0, Comma} /\ TakeToken
ScanToken == mem[p] # 0 /\ TakeToken

Corrupt ==
  /\ phase = "scan" /\ mem[p] = 0
  /\ mem' = Corrupted(seed1) /\ p' = 0 /\ phase' = "rescan"
  /\ UNCHANGED <<seed1, seed2, total, seed, step, crc, final, track, blank, calls>>

(* The undoing of the corruption, and the counts chained into the result.        *)
Restore ==
  /\ phase = "rescan" /\ mem[p] = 0
  /\ mem' = Corrupted(seed2)
  /\ LET chain[s \in 0 .. 8, c \in Register] ==
           IF s = 8 THEN c ELSE chain[s + 1, crcu32(track[s], crcu32(final[s], c))]
     IN  crc' = chain[0, crc]
  /\ phase' = "idle"
  /\ UNCHANGED <<seed1, seed2, total, seed, p, step, final, track, blank, calls>>

Run == AddPattern \/ ScanToken \/ Corrupt \/ Restore
Next == (calls < MaxCalls /\ \E s \in Steps : Call(s, 0)) \/ Run
(* The benchmark runs on its own; whether it is called is left open.            *)
Spec == Init /\ [][Next]_vars /\ WF_vars(Run)

-----------------------------------------------------------------------------
(* The scan stays in the block, also when the corruption overwrites one of the   *)
(* zeros that end the text, or a call has left a comma in place of one.          *)
InBlock == p \in Block /\ \E k \in Block : k >= p /\ mem[k] = 0

(* "trying to determine whether the input is a number or something else": the    *)
(* state a token ends in is the form of its text. All(w, j, k) are its digits.    *)
All(w, j, k, set) == \A x \in j .. k : w[x] \in set
SignLen(w) == IF w # <<>> /\ w[1] \in Sign THEN 1 ELSE 0
Form(w) ==
  LET n == Len(w)
      s == SignLen(w)
      FloatTo(k) == \E d \in s + 1 .. k : w[d] = Dot /\ All(w, s + 1, d - 1, Digit) /\ All(w, d + 1, k, Digit)
  IN  IF n = 0 THEN START
      ELSE IF n = s THEN S1
      ELSE IF All(w, s + 1, n, Digit) THEN INT
      ELSE IF FloatTo(n) THEN FLOAT
      ELSE IF w[n] \in Exp /\ FloatTo(n - 1) THEN S2
      ELSE IF w[n] \in Sign /\ w[n - 1] \in Exp /\ FloatTo(n - 2) THEN EXPONENT
      ELSE IF \E e \in 2 .. n - 2 : /\ w[e] \in Exp /\ FloatTo(e - 1)
                                    /\ w[e + 1] \in Sign /\ All(w, e + 2, n, Digit) THEN SCIENTIFIC
      ELSE INVALID
Classified == phase \in {"scan", "rescan"} /\ mem[p] # 0 => Last(Path(p)) = Form(Text(p, Path(p)))

(* "undo corruption is seed1 and seed2 are equal": after a call the block is as   *)
(* it was initialised; first where no character turns into a comma, then always.  *)
CommaSafe == \A k \in Block : Xor(blank[k], Byte(seed1)) # Comma
Restored == phase = "idle" /\ seed1 = seed2 /\ CommaSafe => mem = blank

(* Every call returns: each scan of a token moves on, and the text has an end.    *)
Returns == [](phase = "scan" => <>(phase = "idle"))
=============================================================================
