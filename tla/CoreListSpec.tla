----------------------------- MODULE CoreListSpec -----------------------------
(***************************************************************************)
(* What the comments of core_list_join.c promise of the linked list, as a     *)
(* sequence of the slots of its data items: no pointers, each operation one    *)
(* step.                                                                       *)
(***************************************************************************)
EXTENDS Integers, Sequences

CONSTANT Slot
VARIABLES
  seq,     \* the slots in list order
  taken,   \* <<slot>> while one is removed, else <<>>
  data     \* slot |-> [idx, orig, low]

Value(d) == data[d].low % 128
Index(d) == data[d].idx

(* t is the slots of s in the order of Key, equal ones in the order of s.      *)
IsStableSort(t, s, Key(_)) ==
  /\ Len(t) = Len(s) /\ {t[k] : k \in DOMAIN t} = {s[k] : k \in DOMAIN s}
  /\ \A j, k \in DOMAIN s :
       (Key(s[j]) < Key(s[k]) \/ (Key(s[j]) = Key(s[k]) /\ j < k))
         => \E u, v \in DOMAIN t : u < v /\ t[u] = s[j] /\ t[v] = s[k]

Put(s, d) == <<s[1], d>> \o Tail(s)        \* behind the head
Without(s, k) == SubSeq(s, 1, k - 1) \o SubSeq(s, k + 1, Len(s))
Only(d) == \A e \in Slot \ {d} : data'[e] = data[e]

Init == seq = <<1>> /\ taken = <<>> /\ data \in [Slot -> [idx : Int, orig : Int, low : Int]]

Insert(d) == d \notin {seq[k] : k \in DOMAIN seq} /\ seq' = Put(seq, d) /\ Only(d) /\ UNCHANGED taken
Label     == (\A d \in Slot : [data'[d] EXCEPT !.idx = 0] = [data[d] EXCEPT !.idx = 0]) /\ UNCHANGED <<seq, taken>>
Reverse   == seq' = [k \in DOMAIN seq |-> seq[Len(seq) + 1 - k]] /\ UNCHANGED <<taken, data>>
Move(k)   == seq' = Put(Without(seq, k + 1), seq[k + 1]) /\ UNCHANGED <<taken, data>>
Sort      == (IsStableSort(seq', seq, Value) \/ IsStableSort(seq', seq, Index)) /\ UNCHANGED <<taken, data>>
Take      == taken = <<>> /\ taken' = <<seq[2]>> /\ seq' = Without(seq, 2) /\ UNCHANGED data
PutBack   == taken # <<>> /\ seq' = Put(seq, taken[1]) /\ taken' = <<>> /\ UNCHANGED data
(* The value of a slot is computed once those before it in the list are: a      *)
(* result depends on the crc of those before. A sort regenerates those of two.  *)
Cached(d) == data[d].low >= 128
Cache(d)  == /\ ~Cached(d)
             /\ \E k \in DOMAIN seq : seq[k] = d /\ \A j \in 1 .. k - 1 : Cached(seq[j])
             /\ data'[d].low >= 128 /\ data'[d].orig = data[d].orig
             /\ data'[d].idx = data[d].idx /\ Only(d) /\ UNCHANGED <<seq, taken>>
Regen     == /\ \A d \in Slot : data'[d] \in {data[d], [data[d] EXCEPT !.low = data[d].orig]}
             /\ UNCHANGED <<seq, taken>>

Next ==
  \/ \E d \in Slot : Insert(d) \/ Cache(d)
  \/ \E k \in 1 .. Len(seq) - 1 : Move(k)
  \/ Label \/ Reverse \/ Sort \/ Take \/ PutBack \/ Regen
Spec == Init /\ [][Next]_<<seq, taken, data>>
=============================================================================
