------------------------------- MODULE TagHeap -------------------------------
(***************************************************************************)
(* What the heap of recycled tags promises to GetFreeNodeTag,              *)
(* RecycleNodeTag and CompressNodeKeyArray (Util.cc, CommSendGhosts.cc): a *)
(* set of tags from which the smallest is taken.                           *)
(***************************************************************************)
EXTENDS Integers

CONSTANT Tags   \* tag indices, as Heap assumes of them

VARIABLES tags, result   \* the set, and what the last removal returned

EmptyHeap == -1
IsLeast(t, S) == t \in S /\ \A u \in S : t <= u

Init == tags = {} /\ result = EmptyHeap

Add(t) == /\ t \in Tags \ tags
          /\ tags' = tags \cup {t} /\ UNCHANGED result

Remove == \/ /\ tags = {}
             /\ result' = EmptyHeap /\ UNCHANGED tags
          \/ \E t \in tags : /\ IsLeast(t, tags)
                             /\ result' = t /\ tags' = tags \ {t}

Next == Remove \/ \E t \in Tags : Add(t)
Spec == Init /\ [][Next]_<<tags, result>>
=============================================================================
