------------------------------- MODULE CoreList -------------------------------
(***************************************************************************)
(* The linked list benchmark of CoreMark (core_list_join.c) and the loop that  *)
(* calls it (iterate, core_main.c), pointer by pointer. A node is a cell of    *)
(* the memory block, numbered from 1 (0 is NULL); a slot is the data item a     *)
(* node's info points to. data16 is kept as its two bytes.                      *)
(***************************************************************************)
EXTENDS CoreCrc, SequencesExt

CONSTANTS
  BlkSize,      \* blksize of core_list_init
  Seed,         \* values of seed1, as unsigned 16-bit numbers
  FindNum,      \* values of seed3
  Iterations,   \* res->iterations
  Result        \* what the state and the matrix benchmark may return

(* Blocks below 120 bytes leave no room for the tail item and one more.         *)
Size == BlkSize \div 20 - 2
Node == 1 .. Size
Slot == Node
NULL == 0

VARIABLES
  seed, findNum,         \* seed1 and seed3 of the results structure
  nxt, info, data,       \* the memory block: nodes and data items
  free,                  \* memblock (and datablock) of the insertion
  home,                  \* res->list
  res,                   \* [crc, crclist, crcstate, crcmatrix]
  pc, calls,             \* place in the program; calls of core_bench_list so far
  list, i,               \* local variables of the function that runs
  rev,                   \* next of core_list_reverse
  bench,                 \* locals of core_bench_list
  sort,                  \* locals of core_list_mergesort
  before,                \* for properties: the list at the start of a sort,
  original               \* and its items as core_list_init leaves them

inputs == <<seed, findNum>>
heap == <<nxt, info, data, free, home>>
vars == <<inputs, heap, res, pc, calls, list, i, rev, bench, sort, before, original>>

Data16(d) == data[d].orig * 256 + data[d].low
FinderIdx == IF calls % 2 = 0 THEN 1 ELSE -1

(* The nodes from n on.                                                        *)
Chain(n) ==
  LET from[m \in Node \cup {NULL}] == IF m = NULL THEN <<>> ELSE <<m>> \o from[nxt[m]] IN from[n]
Slots(nodes) == [k \in DOMAIN nodes |-> info[nodes[k]]]
Items(nodes) == [k \in DOMAIN nodes |-> data[info[nodes[k]]]]

-----------------------------------------------------------------------------
(* core_list_init: a head, a tail, then Size items, each behind the head.      *)
Blank == [idx |-> 0, orig |-> 0, low |-> 0]
Head1 == [idx |-> 0, orig |-> 128, low |-> 128]

Init ==
  /\ seed \in Seed /\ findNum \in FindNum
  /\ nxt = [n \in Node |-> NULL] /\ info = [n \in Node |-> n]
  /\ data = [d \in Slot |-> IF d = 1 THEN Head1 ELSE Blank]
  /\ free = 2 /\ home = NULL
  /\ res = [crc |-> 0, crclist |-> 0, crcstate |-> 0, crcmatrix |-> 0]
  /\ pc = "tail" /\ calls = 0 /\ list = 1 /\ i = 0 /\ rev = NULL
  /\ bench = [idx |-> 0, ret |-> 0, found |-> 0, missed |-> 0, at |-> NULL, removed |-> NULL]
  /\ sort = [insize |-> 1, nmerges |-> 0, p |-> NULL, q |-> NULL, psize |-> 0, qsize |-> 0, tail |-> NULL]
  /\ before = <<>> /\ original = <<>>

core_list_insert_new(item) ==
  IF free + 1 > Size
  THEN UNCHANGED <<nxt, data, free>>
  ELSE /\ nxt' = [nxt EXCEPT ![free] = nxt[1], ![1] = free]
       /\ data' = [data EXCEPT ![free] = item]
       /\ free' = free + 1

InsertTail ==
  /\ pc = "tail" /\ pc' = "insert"
  /\ core_list_insert_new([idx |-> 32767, orig |-> 255, low |-> 255])
  /\ UNCHANGED <<inputs, info, home, res, calls, list, i, rev, bench, sort, before>>

InsertItem ==
  /\ pc = "insert" /\ i < Size
  /\ LET dat == (Xor(seed, i) % 16) * 8 + (i % 8)
     IN  core_list_insert_new([idx |-> 32767, orig |-> dat, low |-> dat])
  /\ i' = i + 1
  /\ UNCHANGED <<inputs, info, home, res, pc, calls, list, rev, bench, sort, before>>

(* The first fifth of the items in sequence, the others mixed, behind them.    *)
IndexAt(k) ==
  IF k < Size \div 5 THEN k
  ELSE (256 * Or((k + 1) % 8, Xor(k \div 256, seed \div 256)) + Xor(k, seed)) % 16384

StartSort(to) ==
  /\ pc' = to
  /\ sort' = [sort EXCEPT !.insize = 1, !.nmerges = 0, !.tail = NULL, !.p = list, !.psize = 0, !.q = NULL]

IndexList ==
  /\ pc = "insert" /\ i >= Size
  /\ LET s == Slots(Chain(list))
         Inner == 2 .. Len(s) - 1
     IN  /\ data' = [d \in Slot |->
              IF \E k \in Inner : s[k] = d
              THEN [data[d] EXCEPT !.idx = IndexAt((CHOOSE k \in Inner : s[k] = d) - 1)]
              ELSE data[d]]
         /\ before' = s
  /\ StartSort("sort_idx")
  /\ UNCHANGED <<inputs, nxt, info, free, home, res, calls, list, i, rev, bench>>

-----------------------------------------------------------------------------
(* core_list_mergesort. A pass merges pairs of runs of insize nodes; sort.p is  *)
(* where the next pair starts, or what is left of its first run.               *)
Sorting == pc \in {"sort_idx", "sort_complex"}
BetweenMerges == sort.psize = 0 /\ (sort.qsize = 0 \/ sort.q = NULL)
Unchanged_Sort == UNCHANGED <<inputs, info, free, res, calls, i, rev, bench>>

(* Step along from p for the second run of the pair.                           *)
StartMerge ==
  /\ Sorting /\ BetweenMerges
  /\ LET start == IF sort.nmerges = 0 THEN sort.p ELSE sort.q
         rest  == Chain(start)
     IN  /\ start # NULL
         /\ sort' = [sort EXCEPT
              !.nmerges = @ + 1, !.p = start, !.psize = IF Len(rest) < sort.insize THEN Len(rest) ELSE sort.insize,
              !.qsize = sort.insize, !.q = IF Len(rest) > sort.insize THEN rest[sort.insize + 1] ELSE NULL]
  /\ UNCHANGED <<nxt, data, home, pc, list, before>> /\ Unchanged_Sort

(* Both runs have a node left: their items are compared.                       *)
Comparing == Sorting /\ sort.psize > 0 /\ sort.qsize > 0 /\ sort.q # NULL
Cached(d) == data[d].low >= 128

(* calc_func of an item that is not cached runs the state benchmark, the        *)
(* matrix benchmark or neither, by bits 0-2, and chains what it returns.        *)
Returns(d) == IF data[d].low % 8 \in {0, 1} THEN Result ELSE {Data16(d)}
Cache(retval) == 128 + (retval % 128)
calc_func(d, retval) ==
  /\ res' = [res EXCEPT
       !.crcstate  = IF data[d].low % 8 = 0 /\ @ = 0 THEN retval ELSE @,
       !.crcmatrix = IF data[d].low % 8 = 1 /\ @ = 0 THEN retval ELSE @,
       !.crc = crcu16(retval, @)]
  /\ data' = [data EXCEPT ![d].low = Cache(retval)]

(* cmp_complex evaluates the item of p, then that of q.                        *)
Bug_NextEvaluated == IF Cached(info[sort.q]) THEN info[sort.p] ELSE info[sort.q]
NextEvaluated == IF Cached(info[sort.p]) THEN info[sort.q] ELSE info[sort.p]
NeedsValue == Comparing /\ pc = "sort_complex" /\ ~Cached(NextEvaluated)
Evaluate(retval) ==
  /\ NeedsValue /\ calc_func(NextEvaluated, retval)
  /\ UNCHANGED <<inputs, nxt, info, free, home, pc, calls, list, i, rev, bench, sort, before>>

(* Append node e to the merged list.                                           *)
Attach(e) ==
  IF sort.tail = NULL THEN list' = e /\ UNCHANGED nxt
  ELSE nxt' = [nxt EXCEPT ![sort.tail] = e] /\ UNCHANGED list
TakeP == Attach(sort.p) /\ sort' = [sort EXCEPT !.p = nxt[@], !.psize = @ - 1, !.tail = sort.p]
TakeQ == Attach(sort.q) /\ sort' = [sort EXCEPT !.q = nxt[@], !.qsize = @ - 1, !.tail = sort.q]

(* cmp(p->info, q->info, res) <= 0                                             *)
Cmp ==
  IF pc = "sort_idx" THEN data[info[sort.p]].idx <= data[info[sort.q]].idx
  ELSE data[info[sort.p]].low % 128 <= data[info[sort.q]].low % 128
(* cmp_idx also regenerates the data of both (res is NULL).                    *)
Regenerated ==
  [data EXCEPT ![info[sort.p]].low = data[info[sort.p]].orig, ![info[sort.q]].low = data[info[sort.q]].orig]

Compare ==
  /\ Comparing /\ ~NeedsValue
  /\ IF Cmp THEN TakeP ELSE TakeQ
  /\ data' = IF pc = "sort_idx" THEN Regenerated ELSE data
  /\ UNCHANGED <<home, pc, before>> /\ Unchanged_Sort

(* One of the runs is empty.                                                   *)
TakeRest ==
  /\ Sorting /\ ~Comparing /\ ~BetweenMerges
  /\ IF sort.psize = 0 THEN TakeQ ELSE TakeP
  /\ UNCHANGED <<data, home, pc, before>> /\ Unchanged_Sort

(* The end of a pass: the list is closed; if there was one merge it is sorted.  *)
Twice(insize) == 2 * insize
EndPass ==
  /\ Sorting /\ BetweenMerges /\ sort.nmerges > 0 /\ sort.q = NULL
  /\ nxt' = [nxt EXCEPT ![sort.tail] = NULL]
  /\ IF sort.nmerges <= 1
     THEN /\ pc' = CASE home = NULL -> "bench" [] pc = "sort_complex" -> "remove" [] OTHER -> "crc_start"
          /\ home' = IF home = NULL THEN list ELSE home
          /\ UNCHANGED sort
     ELSE /\ sort' = [sort EXCEPT !.insize = Twice(@), !.nmerges = 0, !.tail = NULL, !.p = list]
          /\ UNCHANGED <<pc, home>>
  /\ UNCHANGED <<data, list, before>> /\ Unchanged_Sort

-----------------------------------------------------------------------------
(* core_bench_list, called by iterate with 1 and -1 in turn.                    *)
BenchList ==
  /\ pc = "bench"
  /\ IF calls = 2 * Iterations
     THEN pc' = "done" /\ UNCHANGED <<list, i, bench>>
     ELSE /\ pc' = "find" /\ list' = home /\ i' = 0
          /\ bench' = [idx |-> FinderIdx, ret |-> 0, found |-> 0, missed |-> 0, at |-> NULL, removed |-> NULL]
  /\ original' = IF calls = 0 THEN Items(Chain(home)) ELSE original
  /\ UNCHANGED <<inputs, heap, res, calls, rev, sort, before>>

(* core_list_find: by idx if it is not negative, by the low byte otherwise.     *)
core_list_find(n, idx, byte) ==
  LET Is(m) == IF idx >= 0 THEN data[info[m]].idx = idx ELSE data[info[m]].low = byte
      from[m \in Node \cup {NULL}] == IF m = NULL \/ Is(m) THEN m ELSE from[nxt[m]]
  IN  from[n]

(* One turn of the find loop: find, reverse, then use what was found.           *)
Find ==
  /\ pc = "find" /\ i < findNum
  /\ bench' = [bench EXCEPT !.at = core_list_find(list, bench.idx, i % 256)]
  /\ rev' = NULL /\ pc' = "reverse"
  /\ UNCHANGED <<inputs, heap, res, calls, list, i, sort, before>>

(* The loop of core_list_reverse.                                              *)
ReverseStep ==
  /\ pc = "reverse" /\ list # NULL
  /\ nxt' = [nxt EXCEPT ![list] = rev]
  /\ rev' = list /\ list' = nxt[list]
  /\ UNCHANGED <<inputs, info, data, free, home, res, pc, calls, i, bench, sort, before>>
Reversed ==
  /\ pc = "reverse" /\ list = NULL
  /\ list' = rev /\ rev' = NULL /\ pc' = "found"
  /\ UNCHANGED <<inputs, heap, res, calls, i, bench, sort, before>>

(* Unlink what follows node f and link it in behind the head: three stores, in  *)
(* this order (f may be the head).                                             *)
CacheNext(f) ==
  LET e    == nxt[f]
      one  == [nxt EXCEPT ![f] = nxt[e]]
      two  == [one EXCEPT ![e] = one[list]]
  IN  [two EXCEPT ![list] = e]

Found ==
  /\ pc = "found" /\ pc' = "find" /\ i' = i + 1
  /\ LET f    == bench.at
         next == IF bench.idx >= 0 THEN bench.idx + 1 ELSE bench.idx
     IN  IF f = NULL
         THEN /\ bench' = [bench EXCEPT !.idx = next, !.missed = @ + 1,
                                         !.ret = @ + (data[info[nxt[list]]].orig % 2)]
              /\ UNCHANGED nxt
         ELSE /\ bench' = [bench EXCEPT !.idx = next, !.found = @ + 1,
                !.ret = IF data[info[f]].low % 2 = 1 THEN @ + ((data[info[f]].orig \div 2) % 2) ELSE @]
              /\ nxt' = IF nxt[f] # NULL THEN CacheNext(f) ELSE nxt
  /\ UNCHANGED <<inputs, info, data, free, home, res, calls, list, rev, sort, before>>

(* retval has 16 bits and may go below zero here.                              *)
FindsDone ==
  /\ pc = "find" /\ i >= findNum
  /\ bench' = [bench EXCEPT !.ret = (@ + bench.found * 4 - bench.missed) % 65536]
  /\ IF FinderIdx > 0
     THEN StartSort("sort_complex") /\ before' = Slots(Chain(list))
     ELSE pc' = "remove" /\ UNCHANGED <<sort, before>>
  /\ UNCHANGED <<inputs, heap, res, calls, list, i, rev>>

(* core_list_remove of the node behind the head: it takes over the item of the  *)
(* next one, which is unlinked.                                                *)
RemoveStep ==
  /\ pc = "remove" /\ pc' = "crc_rest"
  /\ LET item == nxt[list]
         ret  == nxt[item]
         nxt1 == [nxt EXCEPT ![item] = nxt[ret], ![ret] = NULL]
         info1 == [info EXCEPT ![item] = info[ret], ![ret] = info[item]]
     IN  /\ nxt' = nxt1 /\ info' = info1
         /\ bench' = [bench EXCEPT !.removed = ret]
  /\ UNCHANGED <<inputs, data, free, home, res, calls, list, i, rev, sort, before>>

(* Where the crc starts: the item looked for, or else the first one.           *)
LastByte == IF findNum > 0 THEN (findNum - 1) % 256 ELSE 0
CrcFrom ==
  /\ pc \in {"crc_rest", "crc_start"}
  /\ LET f == core_list_find(list, bench.idx, LastByte)
     IN  bench' = [bench EXCEPT !.at = IF pc = "crc_rest" /\ f # NULL THEN f ELSE nxt[list]]
  /\ pc' = IF pc = "crc_rest" THEN "crc1" ELSE "crc2"
  /\ UNCHANGED <<inputs, heap, res, calls, list, i, rev, sort, before>>

(* Each turn takes the data of the head, whatever node the loop is at.         *)
Crc ==
  /\ pc \in {"crc1", "crc2"} /\ bench.at # NULL
  /\ bench' = [bench EXCEPT !.ret = crc16(Data16(info[list]), @), !.at = nxt[@]]
  /\ UNCHANGED <<inputs, heap, res, pc, calls, list, i, rev, sort, before>>

(* core_list_undo_remove, then the sort by idx.                                *)
UndoRemove ==
  /\ pc = "crc1" /\ bench.at = NULL
  /\ LET r == bench.removed
         m == nxt[list]
     IN  /\ info' = [info EXCEPT ![r] = info[m], ![m] = info[r]]
         /\ nxt' = [nxt EXCEPT ![r] = nxt[m], ![m] = r]
  /\ bench' = [bench EXCEPT !.removed = NULL]
  /\ pc' = "undone"
  /\ UNCHANGED <<inputs, data, free, home, res, calls, list, i, rev, sort, before>>
SortBack ==
  /\ pc = "undone"
  /\ StartSort("sort_idx") /\ before' = Slots(Chain(list))
  /\ UNCHANGED <<inputs, heap, res, calls, list, i, rev, bench>>

(* iterate chains the result; crclist is that of the first iteration.          *)
Return ==
  /\ pc = "crc2" /\ bench.at = NULL
  /\ LET crc == crcu16(bench.ret, res.crc)
     IN  res' = [res EXCEPT !.crc = crc, !.crclist = IF calls = 1 THEN crc ELSE @]
  /\ calls' = calls + 1 /\ pc' = "bench"
  /\ UNCHANGED <<inputs, heap, list, i, rev, bench, sort, before>>

ListStep ==
  \/ BenchList
  \/ /\ \/ InsertTail \/ InsertItem \/ IndexList
        \/ StartMerge \/ Compare \/ TakeRest \/ EndPass
        \/ Find \/ ReverseStep \/ Reversed \/ Found \/ FindsDone
        \/ RemoveStep \/ CrcFrom \/ Crc \/ UndoRemove \/ SortBack \/ Return
     /\ UNCHANGED original
EvaluateAny ==
  NeedsValue /\ (\E v \in Returns(NextEvaluated) : Evaluate(v)) /\ UNCHANGED original
Next == ListStep \/ EvaluateAny

(* The program runs on its own processor.                                      *)
Spec == Init /\ [][Next]_vars /\ WF_vars(Next)

-----------------------------------------------------------------------------
(* The nodes reached from the local variables, in list order, also in the       *)
(* middle of a reversal or of a merge.                                         *)
Upto(n, last) ==
  LET from[m \in Node] == IF m = last THEN <<m>> ELSE <<m>> \o from[nxt[m]] IN from[n]
First(n, k) ==
  LET from[j \in 0 .. k] == IF j = 0 THEN n ELSE nxt[from[j - 1]] IN [j \in 1 .. k |-> from[j - 1]]
Whole ==
  IF pc = "reverse" THEN Reverse(Chain(rev)) \o Chain(list)
  ELSE IF ~Sorting THEN Chain(list)
  ELSE (IF sort.tail = NULL THEN <<>> ELSE Upto(list, sort.tail))
       \o (IF sort.nmerges = 0 THEN Chain(sort.p)
           ELSE First(sort.p, sort.psize) \o Chain(sort.q))

(* While a sort takes the list apart, the merged nodes, what is left of the two   *)
(* runs and what lies behind them are still all the nodes, each once.            *)
Rearranged(s, t) == IsInjective(s) /\ Range(s) = Range(t)
NoneLost == Sorting => Rearranged(Slots(Whole), before)

(* The pointer program does what the comments of its functions say: it inserts,   *)
(* reverses, caches, sorts "in place" and stably, removes and undoes, and loses   *)
(* no item, not even while links are being turned or merged. Whatever the         *)
(* comparisons say, the items are evaluated once each in list order              *)
(* (CoreListSpec).                                                             *)
Promise ==
  INSTANCE CoreListSpec WITH
    seq <- IF Sorting THEN before ELSE Slots(Whole),
    taken <- IF bench.removed = NULL THEN <<>> ELSE <<info[bench.removed]>>
KeepsPromise == Promise!Spec /\ []NoneLost

(* "At the end of this function, the list is back to original state" (the        *)
(* comment of core_bench_list): same items, same data, same order. Items with      *)
(* the same idx keep the order the other sort left, see the README.             *)
Returned == pc = "bench" /\ calls > 0
DistinctIdx == \A j, k \in DOMAIN original : j # k => original[j].idx # original[k].idx
Restored == Returned /\ DistinctIdx => Items(Chain(home)) = original

(* The iterations end: every loop over the list finds its NULL.                 *)
Finishes == <>(pc = "done")
=============================================================================
