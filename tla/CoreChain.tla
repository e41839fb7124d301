------------------------------ MODULE CoreChain ------------------------------
(***************************************************************************)
(* Two runs of the benchmark on the same inputs: iterate (core_main.c) and    *)
(* calc_func chain every result into res->crc with crcu16. One of the runs    *)
(* computes one result wrong. Whether the wrong result shows in the crc that  *)
(* is reported is what makes the comparison with the known values a check.    *)
(***************************************************************************)
EXTENDS CoreCrc

CONSTANTS
  Result,    \* the 16-bit results that occur
  MaxChain   \* bound on the number of results of a run

ASSUME ResultAssumption == Result \subseteq Register /\ MaxChain \in Nat

VARIABLES
  good, bad,   \* res->crc of the run without and with the wrong result
  wrong,       \* the wrong result has been computed
  chained      \* results chained so far

vars == <<good, bad, wrong, chained>>

Init ==
  /\ good = 0 /\ bad = 0      \* res->crc = 0
  /\ wrong = FALSE /\ chained = 0

(* Both runs compute the same result.                                        *)
SameResult ==
  /\ chained < MaxChain
  /\ \E v \in Result :
       /\ good' = crcu16(v, good) /\ bad' = crcu16(v, bad)
       /\ chained' = chained + 1
  /\ UNCHANGED wrong

(* The other run computes something else, once.                              *)
WrongResult ==
  /\ chained < MaxChain /\ ~wrong
  /\ \E v, w \in Result :
       /\ v # w
       /\ good' = crcu16(v, good) /\ bad' = crcu16(w, bad)
       /\ chained' = chained + 1
  /\ wrong' = TRUE

Next == SameResult \/ WrongResult
Spec == Init /\ [][Next]_vars

-----------------------------------------------------------------------------
(* A single wrong result is never masked by what is chained after it: the two *)
(* crcs differ from then on (and agree as long as nothing went wrong).        *)
NeverMasked == wrong <=> good # bad
=============================================================================
