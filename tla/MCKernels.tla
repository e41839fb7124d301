------------------------------ MODULE MCKernels ------------------------------
(***************************************************************************)
(* The kernels of CoreMark by themselves, with results, seeds and parameters    *)
(* that the real inputs do not reach, and the crc they are all chained into.     *)
(* They have no state in common here (CoreMark composes them), so a behaviour    *)
(* is one of a single kernel while the others wait where they begin.           *)
(***************************************************************************)
EXTENDS CoreChain

CONSTANTS
  ListSize, ListSeed, FindNum, Iterations, ListResult,      \* of CoreList
  TextSize, TextSeed, OtherSeed, Steps, MaxCalls,           \* of CoreState
  MatrixSize, MatrixSeed, Vals                              \* of CoreMatrix

ASSUME KernelsAssumption ==
  /\ ListSize \in Nat /\ ListSize >= 120 /\ TextSize \in Nat /\ TextSize > 2
  /\ MatrixSize \in Nat /\ MatrixSize > 8
  /\ 0 \in ListSeed \cap TextSeed \cap FindNum /\ 1 \in MatrixSeed
  /\ TextSeed \cup OtherSeed \cup MatrixSeed \cup Vals \subseteq Nat
  /\ \A s \in Steps : s \in Nat /\ s > 0 /\ s % 17 = 0     \* four bits, twice (calc_func)

VARIABLES
  kernel,
  seed, findNum, nxt, info, data, free, home, res, pc, calls, list, i, rev, bench, sort,
  before, original,                                                        \* CoreList
  seed1, seed2, mem, sphase, total, sseed, p, step, scrc, final, track, blank, scalls,
  A, B, C, mseed, order, mphase, val, sums, acc, mcrc, A0                  \* CoreMatrix

L == INSTANCE CoreList WITH BlkSize <- ListSize, Seed <- ListSeed, Result <- ListResult
S == INSTANCE CoreState WITH BlkSize <- TextSize, Seed <- TextSeed, Other <- OtherSeed,
       phase <- sphase, seed <- sseed, crc <- scrc, calls <- scalls
M == INSTANCE CoreMatrix WITH BlkSize <- MatrixSize, Seeds <- MatrixSeed,
       phase <- mphase, seed <- mseed, crc <- mcrc

list_vars == <<seed, findNum, nxt, info, data, free, home, res, pc, calls, list, i, rev, bench,
  sort, before, original>>
state_vars == <<seed1, seed2, mem, sphase, total, sseed, p, step, scrc, final, track, blank, scalls>>
matrix_vars == <<A, B, C, mseed, order, mphase, val, sums, acc, mcrc, A0>>
allvars == <<kernel, vars, list_vars, state_vars, matrix_vars>>

KernelsInit ==
  /\ kernel \in {"chain", "list", "state", "matrix"}
  /\ Init
  /\ L!Init /\ (kernel # "list" => seed = 0 /\ findNum = 0)
  /\ S!Init /\ (kernel # "state" => seed1 = 0 /\ seed2 = 0)
  /\ M!Init /\ (kernel # "matrix" => mseed = 1)

ChainStep  == kernel = "chain" /\ Next /\ UNCHANGED <<kernel, list_vars, state_vars, matrix_vars>>
ListStep   == kernel = "list" /\ L!Next /\ UNCHANGED <<kernel, vars, state_vars, matrix_vars>>
CallState  == /\ kernel = "state" /\ scalls < MaxCalls /\ (\E s \in Steps : S!Call(s, 0))
              /\ UNCHANGED <<kernel, vars, list_vars, matrix_vars>>
StateStep  == kernel = "state" /\ S!Run /\ UNCHANGED <<kernel, vars, list_vars, matrix_vars>>
CallMatrix == kernel = "matrix" /\ (\E v \in Vals : M!Call(v, 0)) /\ UNCHANGED <<kernel, vars, list_vars, state_vars>>
MatrixStep == kernel = "matrix" /\ M!Run /\ UNCHANGED <<kernel, vars, list_vars, state_vars>>
KernelsNext == ChainStep \/ ListStep \/ CallState \/ StateStep \/ CallMatrix \/ MatrixStep

(* A kernel runs on its own processor; whether it is called is left open.       *)
KernelsSpec ==
  /\ KernelsInit /\ [][KernelsNext]_allvars
  /\ WF_allvars(ListStep) /\ WF_allvars(StateStep) /\ WF_allvars(MatrixStep)

-----------------------------------------------------------------------------
(* The list does what the comments of its functions say (CoreListSpec), and an      *)
(* iteration leaves it as it was initialised, sorted back.                      *)
KeepsPromise == L!KeepsPromise /\ [](L!Restored)

(* So do the other kernels with their blocks: the text with its corruption undone,  *)
(* the matrix with the constant taken off. Every iteration computes the same.     *)
Restored == S!Restored /\ M!ARestored

(* The scan of the text stays in the block, and the state it gives a token is the  *)
(* form of the token (CoreState).                                              *)
TextScanned == S!InBlock /\ S!Classified

(* The list's iterations end, and every call of the other two returns.            *)
AllReturn ==
  /\ (kernel = "list") ~> (pc = "done")
  /\ S!Returns
  /\ mphase # "idle" /\ kernel = "matrix" ~> mphase = "idle"
=============================================================================
