-------------------------------- MODULE Heap --------------------------------
(***************************************************************************)
(* Heap.cc: a binary heap of integers in a growing array, as the home      *)
(* structure uses it for the recycled tags.  One step is one iteration of  *)
(* BubbleUp or BubbleDown.  The program's heap holds no tag twice (see     *)
(* TagAccounting of NodePool), which is all the guard of HeapAdd says.     *)
(*                                                                         *)
(* Mutants (see the README): GrowWhenOver, EntryAfterLast, FirstKept,      *)
(* AboveIsLargerInner, LeftChild.                                          *)
(***************************************************************************)
EXTENDS Integers

CONSTANTS Tags,
          HeapSizeIncr   \* HEAP_SIZE_INCR
ASSUME HeapTagsAssumption == Tags \subseteq Nat
ASSUME HeapSizeIncrAssumption == HeapSizeIncr \in Nat \ {0}

VARIABLES heap,      \* the array, from index 0
          heapSize, heapCnt,
          loop, at,    \* the loop under way and its index
          result     \* what the last HeapRemove returned

heapVars == <<heap, heapSize, heapCnt, loop, at, result>>

Uninit == -2          \* a cell realloc() has added: smaller than any tag
EmptyHeap == -1       \* "return a -1"
Parent(i) == (i - 1) \div 2
Swap(h, i, j) == [h EXCEPT ![i] = h[j], ![j] = h[i]]
Contents(n) == {heap[i] : i \in 0 .. n - 1}

HeapInit == /\ heap = <<>> /\ heapSize = 0 /\ heapCnt = 0
            /\ loop = "idle" /\ at = 0 /\ result = EmptyHeap

(* HeapAdd, up to the call of BubbleUp. *)
GrowWhenOver == heapCnt > heapSize
MustGrow == heapCnt + 1 >= heapSize
NewSize  == IF MustGrow THEN heapSize + HeapSizeIncr ELSE heapSize
HeapAdd(t) ==
  /\ loop = "idle" /\ t \in Tags \ Contents(heapCnt)
  /\ heapSize' = NewSize
  /\ heap' = [i \in 0 .. NewSize - 1 |->
                IF i = heapCnt THEN t ELSE IF i < heapSize THEN heap[i] ELSE Uninit]
  /\ loop' = "up" /\ at' = heapCnt
  /\ UNCHANGED <<heapCnt, result>>

AboveIsLargerInner == Parent(at) > 0 /\ heap[at] < heap[Parent(at)]
AboveIsLarger == at > 0 /\ heap[at] < heap[Parent(at)]
BubbleUp ==
  /\ loop = "up" /\ AboveIsLarger
  /\ heap' = Swap(heap, at, Parent(at)) /\ at' = Parent(at)
  /\ UNCHANGED <<heapSize, heapCnt, loop, result>>
BubbleUpEnds ==
  /\ loop = "up" /\ ~AboveIsLarger
  /\ loop' = "idle" /\ heapCnt' = heapCnt + 1
  /\ UNCHANGED <<heap, heapSize, at, result>>

(* HeapRemove, up to the call of BubbleDown. *)
EntryAfterLast == heap[heapCnt]
Root == heap[0]
FirstKept == heap[0]
LastEntry == heap[heapCnt - 1]
HeapRemove ==
  /\ loop = "idle"
  /\ IF heapCnt > 0
       THEN /\ result' = Root /\ heapCnt' = heapCnt - 1
            /\ heap' = [heap EXCEPT ![0] = LastEntry]
            /\ loop' = "down" /\ at' = 0
       ELSE result' = EmptyHeap /\ UNCHANGED <<heap, heapCnt, loop, at>>
  /\ UNCHANGED heapSize

LeftChild == 2 * at + 1
SmallerChild == LET left == 2 * at + 1 IN
  IF left + 1 < heapCnt /\ heap[left + 1] < heap[left] THEN left + 1 ELSE left
BelowIsSmaller == 2 * at + 1 < heapCnt /\ heap[SmallerChild] < heap[at]
BubbleDown ==
  /\ loop = "down" /\ BelowIsSmaller
  /\ heap' = Swap(heap, at, SmallerChild) /\ at' = SmallerChild
  /\ UNCHANGED <<heapSize, heapCnt, loop, result>>
BubbleDownEnds ==
  /\ loop = "down" /\ ~BelowIsSmaller
  /\ loop' = "idle"
  /\ UNCHANGED <<heap, heapSize, heapCnt, at, result>>

HeapNext == \/ \E t \in Tags : HeapAdd(t)
            \/ BubbleUp \/ BubbleUpEnds
            \/ HeapRemove \/ BubbleDown \/ BubbleDownEnds
HeapSpec == HeapInit /\ [][HeapNext]_heapVars
-----------------------------------------------------------------------------
(* Entries in use, the one HeapAdd has just written included. *)
Used == IF loop = "up" THEN heapCnt + 1 ELSE heapCnt

HeapTypeOK ==
  /\ heapSize \in Nat /\ heapCnt \in Nat
  /\ heap \in [0 .. heapSize - 1 -> Tags \cup {Uninit}]
  /\ loop \in {"idle", "up", "down"} /\ at \in Nat
  /\ result \in Tags \cup {EmptyHeap}

(* The entries in use lie inside the array and have all been written, and  *)
(* no tag is there twice: BubbleUp and BubbleDown compare and exchange     *)
(* nothing else.                                                           *)
EntriesValid ==
  /\ Used <= heapSize
  /\ \A i \in 0 .. Used - 1 : heap[i] \in Tags
  /\ \A i, j \in 0 .. Used - 1 : heap[i] = heap[j] => i = j

(* "the value of a cell is greater than or equal to the value of its       *)
(* parent cell", except at the place a loop is working on, whose           *)
(* descendants are in order with its ancestors; all of it entries in use.  *)
HeapRule ==
  /\ EntriesValid
  /\ loop # "idle" => at < Used \/ Used = 0
  /\ \A i \in 1 .. Used - 1 :
       \/ heap[Parent(i)] < heap[i]
       \/ loop = "up" /\ i = at
       \/ loop = "down" /\ Parent(i) = at
  /\ \A i \in 1 .. Used - 1 :
       loop # "idle" /\ Parent(i) = at /\ at > 0 => heap[Parent(at)] < heap[i]

(* The array behaves as a set from which the smallest tag is taken.        *)
Abstract == INSTANCE TagHeap WITH tags <- Contents(Used)
IsTagHeap == Abstract!Spec
=============================================================================
