------------------------------- MODULE Lists -------------------------------
(***************************************************************************)
(* The doubly linked lists of lib/kernel/list.c as the thread system uses  *)
(* them: a list is the sequence of its elements, ordered by the priorities *)
(* pri (thread.c: priority_bigger).                                        *)
(***************************************************************************)
EXTENDS Integers, Sequences

Members(l) == {l[i] : i \in 1 .. Len(l)}

(* Each element occurs once: a struct list_elem has one prev and one next. *)
Once(l) == \A i, j \in 1 .. Len(l) : l[i] = l[j] => i = j

Before(l, t, u) == \E i, j \in 1 .. Len(l) : i < j /\ l[i] = t /\ l[j] = u

Sorted(l, pri) == \A i, j \in 1 .. Len(l) : i < j => pri[l[i]] >= pri[l[j]]

(* Bug: an element goes in front of those of its own priority. *)
InsertPlace_BeforeEquals(l, t, pri) ==
  CHOOSE k \in 1 .. Len(l) + 1 :
    /\ \A i \in 1 .. k - 1 : pri[l[i]] > pri[t]
    /\ k <= Len(l) => pri[l[k]] <= pri[t]

(* Where list_insert_ordered with priority_bigger puts t: before the first *)
(* element of lower priority.                                              *)
InsertPlace(l, t, pri) ==
  CHOOSE k \in 1 .. Len(l) + 1 :
    /\ \A i \in 1 .. k - 1 : pri[l[i]] >= pri[t]
    /\ k <= Len(l) => pri[l[k]] < pri[t]

(* list_insert: t becomes element k. *)
list_insert(l, k, t) == SubSeq(l, 1, k - 1) \o <<t>> \o SubSeq(l, k, Len(l))

(* Bug: list_push_back instead of list_insert_ordered. *)
list_insert_ordered_PushBack(l, t, pri) == Append(l, t)

list_insert_ordered(l, t, pri) == list_insert(l, InsertPlace(l, t, pri), t)

(* list_remove of element k. *)
list_remove(l, k) == SubSeq(l, 1, k - 1) \o SubSeq(l, k + 1, Len(l))

=============================================================================
