----------------------------- MODULE LinkedList -----------------------------
(***************************************************************************)
(* lib/kernel/list.c, pointer by pointer.  Memory mem gives every cell its *)
(* prev and next: the cells are the elements and the head and the tail of  *)
(* each list.  An element that was removed keeps its old pointers.         *)
(***************************************************************************)
EXTENDS Integers, SequencesExt

CONSTANTS
  Elem, List,
  Key(_),       \* what the less function compares
  NULL

ASSUME LinkedListAssumption ==
  IsFiniteSet(Elem) /\ NULL \notin Elem /\ \A e \in Elem : Key(e) \in Int

VARIABLE mem

head(l) == <<"head", l>>
tail(l) == <<"tail", l>>
Cell == Elem \cup {head(l) : l \in List} \cup {tail(l) : l \in List}

less(a, b) == Key(a) < Key(b)

is_head(m, e) == m[e].prev = NULL /\ m[e].next # NULL
is_interior(m, e) == m[e].prev # NULL /\ m[e].next # NULL
is_tail(m, e) == m[e].prev # NULL /\ m[e].next = NULL

list_begin(m, l) == m[head(l)].next
list_next(m, e) == m[e].next
list_prev(m, e) == m[e].prev
list_rbegin(m, l) == m[tail(l)].prev
list_empty(m, l) == list_begin(m, l) = tail(l)

(* A fresh list: the head before the tail. *)
list_init(m, l) ==
  [m EXCEPT ![head(l)] = [prev |-> NULL, next |-> tail(l)],
            ![tail(l)] = [prev |-> head(l), next |-> NULL]]

list_insert(m, before, e) ==
  LET p == m[before].prev IN
    [m EXCEPT ![e] = [prev |-> p, next |-> before], ![p].next = e, ![before].prev = e]

list_push_front(m, l, e) == list_insert(m, list_begin(m, l), e)
list_push_back(m, l, e) == list_insert(m, tail(l), e)

list_remove(m, e) ==
  [m EXCEPT ![m[e].prev].next = m[e].next, ![m[e].next].prev = m[e].prev]

list_front(m, l) == m[head(l)].next
list_back(m, l) == m[tail(l)].prev
list_pop_front(m, l) == list_remove(m, list_front(m, l))
list_pop_back(m, l) == list_remove(m, list_back(m, l))

(* The range from first up to last goes in front of before. *)
list_splice(m, before, first, last) ==
  LET z == list_prev(m, last)
      cut == [m EXCEPT ![m[first].prev].next = m[z].next, ![m[z].next].prev = m[first].prev]
      p == cut[before].prev
  IN IF first = last THEN m
     ELSE [cut EXCEPT ![first].prev = p, ![z].next = before, ![p].next = first, ![before].prev = z]

(* The cells from a on, up to b. *)
RECURSIVE Cells(_, _, _)
Cells(m, a, b) == IF a = b \/ a = NULL THEN <<>> ELSE <<a>> \o Cells(m, list_next(m, a), b)

list_size(m, l) == Len(Cells(m, list_begin(m, l), tail(l)))

swap(m, c, f, d, g) == [m EXCEPT ![c][f] = m[d][g], ![d][g] = m[c][f]]

RECURSIVE SwapEach(_, _, _)
SwapEach(m, e, end) ==
  IF e = end THEN m
  ELSE LET n == swap(m, e, "prev", e, "next") IN SwapEach(n, n[e].prev, end)

list_reverse(m, l) ==
  IF list_empty(m, l) THEN m
  ELSE LET n == swap(SwapEach(m, list_begin(m, l), tail(l)), head(l), "next", tail(l), "prev")
       IN swap(n, n[head(l)].next, "prev", n[tail(l)].prev, "next")

-----------------------------------------------------------------------------
(* Sorting: adjacent runs are merged until one is left. *)

is_sorted(m, a, b) ==
  LET r == Cells(m, a, b) IN \A i \in 2 .. Len(r) : ~less(r[i], r[i - 1])

RECURSIVE find_end_of_run(_, _, _)
find_end_of_run(m, a, b) ==
  LET n == list_next(m, a) IN
    IF n # b /\ ~less(n, list_prev(m, n)) THEN find_end_of_run(m, n, b) ELSE n

(* Bug: an element of the second run goes before its equals of the first. *)
MergeTakesFirst_Strict(m, a0, a1b0) == less(a0, a1b0)

MergeTakesFirst(m, a0, a1b0) == ~less(a1b0, a0)

RECURSIVE inplace_merge(_, _, _, _)
inplace_merge(m, a0, a1b0, b1) ==
  IF a0 = a1b0 \/ a1b0 = b1 THEN m
  ELSE IF MergeTakesFirst(m, a0, a1b0) THEN inplace_merge(m, list_next(m, a0), a1b0, b1)
  ELSE LET n == list_next(m, a1b0)
       IN inplace_merge(list_splice(m, a0, list_prev(m, n), n), a0, n, b1)

(* One pass from a0 on: the memory after it and how many runs it put out. *)
RECURSIVE MergePass(_, _, _, _)
MergePass(m, l, a0, cnt) ==
  IF a0 = tail(l) THEN <<m, cnt>>
  ELSE LET a1b0 == find_end_of_run(m, a0, tail(l)) IN
         IF a1b0 = tail(l) THEN <<m, cnt + 1>>
         ELSE LET b1 == find_end_of_run(m, a1b0, tail(l))
              IN MergePass(inplace_merge(m, a0, a1b0, b1), l, b1, cnt + 1)

RECURSIVE list_sort(_, _)
list_sort(m, l) ==
  LET p == MergePass(m, l, list_begin(m, l), 0) IN
    IF p[2] > 1 THEN list_sort(p[1], l) ELSE p[1]

(* The first element that e is less than, or the end. *)
list_insert_ordered(m, l, e) ==
  LET r == Cells(m, list_begin(m, l), tail(l))
      after == SelectInSeq(r, LAMBDA x : less(e, x))
  IN list_insert(m, IF after = 0 THEN tail(l) ELSE r[after], e)

RECURSIVE UniqueFrom(_, _, _, _)
UniqueFrom(m, l, e, dup) ==
  LET next == list_next(m, e) IN
    IF next = tail(l) THEN m
    ELSE IF ~less(e, next) /\ ~less(next, e)
         THEN UniqueFrom(list_push_back(list_remove(m, next), dup, next), l, e, dup)
         ELSE UniqueFrom(m, l, next, dup)

list_unique(m, l, dup) ==
  IF list_empty(m, l) THEN m ELSE UniqueFrom(m, l, list_begin(m, l), dup)

(* The list is not empty: of the tail there is nothing to compare. *)
list_max(m, l) ==
  FoldLeft(LAMBDA x, e : IF less(x, e) THEN e ELSE x, list_begin(m, l),
           Cells(m, list_begin(m, l), tail(l)))

list_min(m, l) ==
  FoldLeft(LAMBDA x, e : IF less(e, x) THEN e ELSE x, list_begin(m, l),
           Cells(m, list_begin(m, l), tail(l)))

-----------------------------------------------------------------------------
(* Any sequence of calls that keep to the preconditions of list.h. *)

Contents(l) == Cells(mem, list_begin(mem, l), tail(l))
Unlisted == Elem \ UNION {ToSet(Contents(l)) : l \in List}

ListInit ==
  mem = FoldSet(LAMBDA l, m : list_init(m, l),
                [c \in Cell |-> [prev |-> NULL, next |-> NULL]], List)

PushFront == \E l \in List, e \in Unlisted : mem' = list_push_front(mem, l, e)

PushBack == \E l \in List, e \in Unlisted : mem' = list_push_back(mem, l, e)

InsertOrdered == \E l \in List, e \in Unlisted :
  /\ is_sorted(mem, list_begin(mem, l), tail(l))
  /\ mem' = list_insert_ordered(mem, l, e)

RemoveElem == \E e \in Elem \ Unlisted : is_interior(mem, e) /\ mem' = list_remove(mem, e)

PopFront == \E l \in List : ~list_empty(mem, l) /\ mem' = list_pop_front(mem, l)

PopBack == \E l \in List : ~list_empty(mem, l) /\ mem' = list_pop_back(mem, l)

(* A range of one list goes into the other, or elsewhere in its own. *)
SpliceRange == \E l, n \in List : \E before \in ToSet(Contents(n)) \cup {tail(n)} :
  LET r == Contents(l) \o <<tail(l)>> IN
    \E i, j \in 1 .. Len(r) :
      /\ i <= j
      /\ before \notin {r[k] : k \in i .. j - 1}
      /\ mem' = list_splice(mem, before, r[i], r[j])

ReverseList == \E l \in List : mem' = list_reverse(mem, l)

SortList == \E l \in List : mem' = list_sort(mem, l)

UniqueList == \E l, d \in List : l # d /\ mem' = list_unique(mem, l, d)

ListNext ==
  \/ PushFront \/ PushBack \/ InsertOrdered \/ RemoveElem \/ PopFront \/ PopBack
  \/ SpliceRange \/ ReverseList \/ SortList \/ UniqueList

ListDo == ListInit /\ [][ListNext]_mem

-----------------------------------------------------------------------------

(* Forwards and backwards the lists read alike, and only their ends have a *)
(* null pointer: what is_head, is_interior and is_tail go by.              *)
Linked == \A l \in List :
  LET c == <<head(l)>> \o Contents(l) \o <<tail(l)>> IN
    /\ is_head(mem, head(l)) /\ is_tail(mem, tail(l))
    /\ \A i \in 1 .. Len(c) - 1 : mem[c[i]].next = c[i + 1] /\ mem[c[i + 1]].prev = c[i]

(* list_max and list_min give the first of the largest and of the smallest *)
(* elements.                                                               *)
Extremes == \A l \in List :
  LET s == Contents(l)
      First(e) == \A i, k \in DOMAIN s : s[i] = e /\ k < i => Key(s[k]) # Key(e)
  IN ~list_empty(mem, l) =>
       /\ \A e \in ToSet(s) : ~less(list_max(mem, l), e) /\ ~less(e, list_min(mem, l))
       /\ First(list_max(mem, l)) /\ First(list_min(mem, l))

(* s in order, with equal elements left as they are. *)
StableSort(s) ==
  LET Pos(e) == CHOOSE i \in DOMAIN s : s[i] = e
      Earlier(e) == {d \in ToSet(s) : less(d, e) \/ (Key(d) = Key(e) /\ Pos(d) < Pos(e))}
  IN [i \in DOMAIN s |-> CHOOSE e \in ToSet(s) : Cardinality(Earlier(e)) = i - 1]

(* The lists that memory m holds. *)
Lists_(m) == [l \in List |-> Cells(m, list_begin(m, l), tail(l))]

(* From any lists, list_sort sorts one and keeps equal elements in order,  *)
(* and list_insert_ordered gives what appending and sorting would.         *)
SortsLists == \A l \in List :
  LET now == Lists_(mem) IN
    /\ Lists_(list_sort(mem, l)) = [now EXCEPT ![l] = StableSort(@)]
    /\ StableSort(now[l]) = now[l] => \A e \in Unlisted :
         Lists_(list_insert_ordered(mem, l, e)) = [now EXCEPT ![l] = StableSort(Append(@, e))]

(* From any lists, list_reverse turns one around, list_unique moves each   *)
(* element that equals the one before it to the other list, and            *)
(* list_splice moves a range, inside its list or to the other: nothing     *)
(* else changes, and no element is lost or doubled.                        *)
MovesElements == \A l \in List, n \in List :
  LET now == Lists_(mem)
      s == now[l]
      again == {s[i] : i \in {j \in DOMAIN s : j > 1 /\ Key(s[j - 1]) = Key(s[j])}}
      Without(r, gone) == SelectSeq(r, LAMBDA e : e \notin gone)
      r == s \o <<tail(l)>>
  IN /\ Lists_(list_reverse(mem, l)) = [now EXCEPT ![l] = Reverse(@)]
     /\ l # n => Lists_(list_unique(mem, l, n))
                  = [now EXCEPT ![l] = Without(@, again),
                                ![n] = @ \o Without(s, ToSet(s) \ again)]
     /\ \A i \in 1 .. Len(r), k \in 1 .. Len(now[n]) + 1 : \A j \in i .. Len(r) :
          LET moved == SubSeq(s, i, j - 1)
              rest == [now EXCEPT ![l] = Without(@, ToSet(moved))]
              before == IF k > Len(now[n]) THEN tail(n) ELSE now[n][k]
              at == Len(Without(SubSeq(now[n], 1, k - 1), ToSet(moved)))
          IN before \notin ToSet(moved) =>
               Lists_(list_splice(mem, before, r[i], r[j]))
                 = [rest EXCEPT ![n] = SubSeq(@, 1, at) \o moved \o SubSeq(@, at + 1, Len(@))]

=============================================================================
