---------------------------- MODULE SortArray ----------------------------
(***************************************************************************)
(* ModRuntime::SortPointerArrayImpl (core/brew/mod_runtime.cpp): SORT, an  *)
(* insertion sort in the guest's memory that asks the guest's comparator   *)
(* at every step.                                                          *)
(***************************************************************************)
EXTENDS Integers, Sequences, FiniteSets

CONSTANTS
    MaxCount,       \* kMaxCount: longer arrays are left alone
    Longest,        \* bound: of the arrays sorted
    Keys            \* what the guest orders by

VARIABLES
    array,      \* the elements; id is where each stood
    i, j,       \* the loops' indices
    fickle,     \* the comparator answers at random
    calls       \* comparator calls made

sortVars == <<array, i, j, fickle, calls>>

Count == Len(array)

SortTypeOK ==
    /\ array \in Seq([key : Keys, id : 0..Longest]) /\ i \in 1..Longest + 2 /\ j \in 0..Longest + 1
    /\ fickle \in BOOLEAN /\ calls \in Nat

Arrays == UNION {[1..n -> Keys] : n \in 0..Longest}

SortInit ==
    /\ \E a \in Arrays : array = [k \in DOMAIN a |-> [key |-> a[k], id |-> k]]
    /\ i = 1 /\ j = 1 /\ fickle \in BOOLEAN /\ calls = 0

Sorting == Count > 1 /\ Count <= MaxCount /\ i < Count

(* The titles' comparators answer 1 when the first argument stands before the
   second or with it, -1 otherwise. *)
Compare(a, b) == IF a.key <= b.key THEN 1 ELSE -1

Answers(a, b) == IF fickle THEN {-1, 0, 1} ELSE {Compare(a, b)}

NextPlace == i' = i + 1 /\ j' = i + 1

(* compar(next, prev) on the elements j and j - 1 of the code, counted from 0. *)
InsertStep ==
    /\ Sorting
    /\ \E result \in Answers(array[j + 1], array[j]) :
           IF result >= 0 THEN NextPlace /\ UNCHANGED array
           ELSE /\ array' = [array EXCEPT ![j] = array[j + 1], ![j + 1] = array[j]]
                /\ IF j = 1 THEN NextPlace ELSE j' = j - 1 /\ UNCHANGED i
    /\ calls' = calls + 1 /\ UNCHANGED fickle

SortSpec == SortInit /\ [][InsertStep]_sortVars /\ WF_sortVars(InsertStep)

-----------------------------------------------------------------------------
(* Properties. *)

(* x stands before y: the larger first, equals as they came. *)
Before(x, y) ==
    \/ x.key > y.key
    \/ x.key = y.key /\ x.id < y.id

(* The array always holds the same elements; a comparator that keeps changing
   its mind costs no more than a call for every pair; and an honest one gives
   the largest first, equals in the order they came (SortPointerArrayImpl). *)
SortedWell ==
    /\ {array[k].id : k \in 1..Count} = 1..Count
    /\ 2 * calls <= Count * (Count - 1)
    /\ ~Sorting /\ ~fickle /\ Count <= MaxCount =>
           \A k \in 1..Count - 1 : Before(array[k], array[k + 1])

-----------------------------------------------------------------------------
(* Why it holds for arrays and bounds of any size (MCPlatform). *)
SortBounds == MaxCount \in Nat /\ Longest \in Nat /\ Keys \subseteq Int

Item == [key : Keys, id : Nat]

(* The first m elements and the one on its way, which is now at r + 1, are in order
   but for what stands before that one. *)
InOrderBut(a, m, r) ==
    \A k, l \in 1..Len(a) : k < l /\ l <= m + 1 /\ l # r + 1 => Before(a[k], a[l])

(* It came from behind them, and the others have not been touched. *)
Numbered(a, m, r) ==
    \A k \in 1..Len(a) : IF k = r + 1 THEN a[k].id = m + 1
                         ELSE IF k <= m + 1 THEN a[k].id <= m ELSE a[k].id = k

SortInv ==
    /\ array \in Seq(Item) /\ fickle \in BOOLEAN /\ calls \in Nat
    /\ i \in Nat /\ j \in 1..i
    /\ IF Count <= 1 THEN i = 1 /\ j = 1 ELSE i <= Count /\ (i = Count => j = i)
    /\ {array[k].id : k \in 1..Count} = 1..Count
    /\ Numbered(array, i, j) /\ (~fickle => InOrderBut(array, i, j))
    /\ 2 * calls <= i * (i - 1) + 2 * (i - j)
=============================================================================
