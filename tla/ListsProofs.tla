---------------------------- MODULE ListsProofs ----------------------------
(***************************************************************************)
(* What the list operations of module Lists return: their elements, that   *)
(* each occurs once, and that order is kept.                               *)
(***************************************************************************)
EXTENDS Lists, WellFoundedInduction, TLAPS

(* The elements of a concatenation. *)
LEMMA Concat ==
  ASSUME NEW S, NEW a \in Seq(S), NEW b \in Seq(S)
  PROVE  /\ a \o b \in Seq(S)
         /\ Len(a \o b) = Len(a) + Len(b)
         /\ \A i \in 1 .. Len(a) + Len(b) :
              (a \o b)[i] = IF i <= Len(a) THEN a[i] ELSE b[i - Len(a)]
OBVIOUS

(* n is l with t put in at place k. *)
OneMore(n, S, l, k, t) ==
  /\ n \in Seq(S) /\ Len(n) = Len(l) + 1
  /\ \A i \in 1 .. Len(l) + 1 : n[i] = IF i < k THEN l[i] ELSE IF i = k THEN t ELSE l[i - 1]

(* list_insert puts t among the elements of l and changes nothing else. *)
LEMMA InsertElements ==
  ASSUME NEW S, NEW l \in Seq(S), NEW t \in S, NEW k \in 1 .. Len(l) + 1
  PROVE  OneMore(list_insert(l, k, t), S, l, k, t)
<1> DEFINE a == SubSeq(l, 1, k - 1)
           b == SubSeq(l, k, Len(l))
<1>1. a \in Seq(S) /\ Len(a) = k - 1 /\ \A i \in 1 .. k - 1 : a[i] = l[i]
  OBVIOUS
<1>2. b \in Seq(S) /\ Len(b) = Len(l) - k + 1
      /\ \A i \in 1 .. Len(l) - k + 1 : b[i] = l[k + i - 1]
  OBVIOUS
<1> HIDE DEF a, b
<1> DEFINE c == a \o <<t>>
<1>3. c \in Seq(S) /\ Len(c) = k
      /\ \A i \in 1 .. k : c[i] = IF i <= k - 1 THEN l[i] ELSE t
  <2>1. <<t>> \in Seq(S) /\ Len(<<t>>) = 1 /\ <<t>>[1] = t
    OBVIOUS
  <2> QED  BY <1>1, <2>1, Concat
<1> HIDE DEF c
<1>4. list_insert(l, k, t) = c \o b
  BY Zenon DEF list_insert, a, b, c
<1>5. /\ c \o b \in Seq(S)
      /\ Len(c \o b) = Len(l) + 1
      /\ \A i \in 1 .. Len(l) + 1 :
           (c \o b)[i] = IF i <= k THEN c[i] ELSE b[i - k]
  <2>1. /\ c \o b \in Seq(S)
        /\ Len(c \o b) = Len(c) + Len(b)
        /\ \A i \in 1 .. Len(c) + Len(b) :
             (c \o b)[i] = IF i <= Len(c) THEN c[i] ELSE b[i - Len(c)]
    BY <1>2, <1>3, Concat, Zenon
  <2>2. Len(c) = k /\ Len(c) + Len(b) = Len(l) + 1
    BY <1>2, <1>3
  <2> QED  BY <2>1, <2>2, Zenon
<1>6. /\ list_insert(l, k, t) \in Seq(S)
      /\ Len(list_insert(l, k, t)) = Len(l) + 1
      /\ \A i \in 1 .. Len(l) + 1 :
           list_insert(l, k, t)[i] = IF i < k THEN l[i] ELSE IF i = k THEN t ELSE l[i - 1]
  BY <1>2, <1>3, <1>4, <1>5
<1> QED  BY <1>6, Zenon DEF OneMore

(* list_remove takes element k out and changes nothing else. *)
LEMMA RemoveElements ==
  ASSUME NEW S, NEW l \in Seq(S), NEW k \in 1 .. Len(l)
  PROVE  /\ list_remove(l, k) \in Seq(S)
         /\ Len(list_remove(l, k)) = Len(l) - 1
         /\ \A i \in 1 .. Len(l) - 1 :
              list_remove(l, k)[i] = IF i < k THEN l[i] ELSE l[i + 1]
<1> DEFINE a == SubSeq(l, 1, k - 1)
           b == SubSeq(l, k + 1, Len(l))
<1>1. a \in Seq(S) /\ Len(a) = k - 1 /\ \A i \in 1 .. k - 1 : a[i] = l[i]
  OBVIOUS
<1>2. b \in Seq(S) /\ Len(b) = Len(l) - k
      /\ \A i \in 1 .. Len(l) - k : b[i] = l[k + i]
  OBVIOUS
<1>3. list_remove(l, k) = a \o b
  BY Zenon DEF list_remove
<1> HIDE DEF a, b
<1>4. /\ a \o b \in Seq(S)
      /\ Len(a \o b) = Len(l) - 1
      /\ \A i \in 1 .. Len(l) - 1 :
           (a \o b)[i] = IF i <= k - 1 THEN a[i] ELSE b[i - (k - 1)]
  BY <1>1, <1>2, Concat
<1> DEFINE n == a \o b
<1> HIDE DEF n
<1>5. ASSUME NEW i \in 1 .. Len(l) - 1
      PROVE  n[i] = IF i < k THEN l[i] ELSE l[i + 1]
  <2>1. n[i] = IF i <= k - 1 THEN a[i] ELSE b[i - (k - 1)]
    BY <1>4, Zenon DEF n
  <2>2. CASE i < k
    <3>1. i <= k - 1 /\ i \in 1 .. k - 1
      BY <2>2
    <3> QED  BY <2>1, <2>2, <3>1, <1>1, Zenon
  <2>3. CASE ~(i < k)
    <3>1. ~(i <= k - 1) /\ i - (k - 1) \in 1 .. Len(l) - k /\ k + (i - (k - 1)) = i + 1
      BY <2>3
    <3>2. b[i - (k - 1)] = l[k + (i - (k - 1))]
      BY <3>1, <1>2, Zenon
    <3> QED  BY <2>1, <2>3, <3>1, <3>2, Zenon
  <2> QED  BY <2>2, <2>3, Zenon
<1> QED  BY <1>3, <1>4, <1>5, Zenon DEF n

(* list_insert_ordered stops before the first element of lower priority:   *)
(* there is such a place, and t keeps the order if l is in order.          *)
LEMMA InsertPlaceExists ==
  ASSUME NEW S, NEW l \in Seq(S), NEW t \in S, NEW pri \in [S -> Int]
  PROVE  /\ InsertPlace(l, t, pri) \in 1 .. Len(l) + 1
         /\ \A i \in 1 .. InsertPlace(l, t, pri) - 1 : pri[l[i]] >= pri[t]
         /\ InsertPlace(l, t, pri) <= Len(l) =>
              pri[l[InsertPlace(l, t, pri)]] < pri[t]
<1> DEFINE Low == {i \in 1 .. Len(l) : pri[l[i]] < pri[t]}
           Good(k) == /\ \A i \in 1 .. k - 1 : pri[l[i]] >= pri[t]
                      /\ k <= Len(l) => pri[l[k]] < pri[t]
<1>1. \A i \in 1 .. Len(l) : pri[l[i]] \in Int /\ pri[t] \in Int
  OBVIOUS
<1>2. \E k \in 1 .. Len(l) + 1 : Good(k)
  <2>1. CASE Low = {}
    <3>1. Len(l) + 1 \in 1 .. Len(l) + 1
      OBVIOUS
    <3>2. Good(Len(l) + 1)
      BY <1>1, <2>1
    <3> QED  BY <3>1, <3>2, Zenon
  <2>2. CASE Low # {}
    <3>1. Low \subseteq Nat
      OBVIOUS
    <3>2. PICK k \in Low : \A y \in Low : ~(<<y, k>> \in OpToRel(<, Nat))
      BY <2>2, <3>1, WFMin, NatLessThanWellFounded, Zenon
    <3>3. \A y \in Low : k <= y
      <4>1. \A x, y \in Nat : x < y => <<x, y>> \in OpToRel(<, Nat)
        BY Zenon DEF OpToRel
      <4> HIDE DEF Low
      <4>2. \A y \in Low : ~(y < k)
        BY <3>1, <3>2, <4>1, Zenon
      <4> QED  BY <3>1, <4>2
    <3>4. Good(k)
      BY <1>1, <3>3
    <3> QED  BY <3>4
  <2> QED  BY <2>1, <2>2, Zenon
<1>3. InsertPlace(l, t, pri) = CHOOSE k \in 1 .. Len(l) + 1 : Good(k)
  BY Zenon DEF InsertPlace
<1>4. InsertPlace(l, t, pri) \in 1 .. Len(l) + 1 /\ Good(InsertPlace(l, t, pri))
  <2> HIDE DEF Good
  <2> QED  BY <1>2, <1>3, Zenon
<1> QED  BY <1>4, Zenon

-----------------------------------------------------------------------------
(* The same in terms of Members, Once and Sorted, which is how the proofs  *)
(* about the thread system use the lists.                                  *)

(* The elements of a sequence over S are in S. *)
LEMMA MembersOf ==
  ASSUME NEW S, NEW l \in Seq(S)
  PROVE  Members(l) \subseteq S
BY DEF Members

(* The order of a list depends on the priorities of its own elements only. *)
LEMMA SortedSame ==
  ASSUME NEW l, NEW p, NEW q, Sorted(l, p), \A t \in Members(l) : q[t] = p[t]
  PROVE  Sorted(l, q)
BY Zenon DEF Sorted, Members

(* A sequence n that is l with t put in at place k has the elements of l   *)
(* and t, and repeats none if l repeats none and t is not on l.            *)
LEMMA WithOneMore ==
  ASSUME NEW S, NEW l \in Seq(S), NEW t \in S, NEW k \in 1 .. Len(l) + 1,
         NEW n, OneMore(n, S, l, k, t)
  PROVE  /\ Members(n) = Members(l) \cup {t}
         /\ Once(l) /\ t \notin Members(l) => Once(n)
<1>0. /\ n \in Seq(S) /\ Len(n) = Len(l) + 1
      /\ \A i \in 1 .. Len(l) + 1 : n[i] = IF i < k THEN l[i] ELSE IF i = k THEN t ELSE l[i - 1]
  BY Zenon DEF OneMore
<1> USE <1>0
<1>1. Len(l) \in Nat /\ k \in Nat
  OBVIOUS
<1>2. Members(n) \subseteq Members(l) \cup {t}
  <2> SUFFICES ASSUME NEW i \in 1 .. Len(n)
               PROVE  n[i] = t \/ \E j \in 1 .. Len(l) : n[i] = l[j]
    BY Zenon DEF Members
  <2>1. CASE i < k
    BY <2>1
  <2>2. CASE i > k
    <3>1. i - 1 \in 1 .. Len(l) /\ n[i] = l[i - 1]
      BY <2>2
    <3> QED  BY <3>1, Zenon
  <2>3. CASE i = k
    BY <2>3
  <2> QED  BY <1>1, <2>1, <2>2, <2>3
<1>3. t \in Members(n)
  <2>1. k \in 1 .. Len(n) /\ n[k] = t
    OBVIOUS
  <2> QED  BY <2>1, Zenon DEF Members
<1>4. Members(l) \subseteq Members(n)
  <2> SUFFICES ASSUME NEW i \in 1 .. Len(l)
               PROVE  \E j \in 1 .. Len(n) : l[i] = n[j]
    BY SMTT(30) DEF Members
  <2>1. CASE i < k
    BY <2>1
  <2>2. CASE ~(i < k)
    <3>1. i + 1 \in 1 .. Len(n) /\ n[i + 1] = l[i]
      BY <2>2
    <3> QED  BY <3>1, Zenon
  <2> QED  BY <2>1, <2>2, Zenon
<1>5. ASSUME Once(l), t \notin Members(l)
      PROVE  Once(n)
  <2>1. \A i \in 1 .. Len(l) : l[i] # t
    BY <1>5, Zenon DEF Members
  <2>2. ASSUME NEW i \in 1 .. Len(n), NEW j \in 1 .. Len(n), n[i] = n[j], i < j
        PROVE  FALSE
    <3>1. CASE j = k
      <4>1. n[i] = l[i] /\ n[j] = t /\ i \in 1 .. Len(l)
        BY <2>2, <3>1
      <4> QED  BY <2>1, <2>2, <4>1, Zenon
    <3>2. CASE i = k
      <4>1. n[i] = t /\ n[j] = l[j - 1] /\ j - 1 \in 1 .. Len(l)
        BY <2>2, <3>2
      <4> QED  BY <2>1, <2>2, <4>1, Zenon
    <3>3. CASE j < k
      BY <1>5, <2>2, <3>3 DEF Once
    <3>4. CASE i < k /\ j > k
      <4>1. n[i] = l[i] /\ n[j] = l[j - 1] /\ i # j - 1
            /\ i \in 1 .. Len(l) /\ j - 1 \in 1 .. Len(l)
        BY <2>2, <3>4
      <4> QED  BY <1>5, <2>2, <4>1, Zenon DEF Once
    <3>5. CASE i > k
      <4>1. n[i] = l[i - 1] /\ n[j] = l[j - 1] /\ i - 1 # j - 1
            /\ i - 1 \in 1 .. Len(l) /\ j - 1 \in 1 .. Len(l)
        BY <2>2, <3>5
      <4> QED  BY <1>5, <2>2, <4>1, Zenon DEF Once
    <3> QED  BY <1>1, <2>2, <3>1, <3>2, <3>3, <3>4, <3>5
  <2> QED  BY <2>2 DEF Once
<1> QED  BY <1>2, <1>3, <1>4, <1>5, Zenon

(* list_insert adds t to a list it is not on, and keeps elements distinct. *)
LEMMA InsertMembers ==
  ASSUME NEW S, NEW l \in Seq(S), NEW t \in S, NEW k \in 1 .. Len(l) + 1
  PROVE  /\ Members(list_insert(l, k, t)) = Members(l) \cup {t}
         /\ Once(l) /\ t \notin Members(l) => Once(list_insert(l, k, t))
BY InsertElements, WithOneMore, Zenon

(* list_insert_ordered with priority_bigger: t joins l, nothing else       *)
(* changes, and a list in order of priority stays so.                      *)
LEMMA InsertOrdered ==
  ASSUME NEW S, NEW l \in Seq(S), NEW t \in S, NEW pri \in [S -> Int]
  PROVE  /\ list_insert_ordered(l, t, pri) \in Seq(S)
         /\ list_insert_ordered(l, t, pri) # <<>>
         /\ Members(list_insert_ordered(l, t, pri)) = Members(l) \cup {t}
         /\ Once(l) /\ t \notin Members(l) => Once(list_insert_ordered(l, t, pri))
         /\ Sorted(l, pri) => Sorted(list_insert_ordered(l, t, pri), pri)
<1> DEFINE k == InsertPlace(l, t, pri)
           n == list_insert(l, k, t)
<1>1. /\ k \in 1 .. Len(l) + 1
      /\ \A i \in 1 .. k - 1 : pri[l[i]] >= pri[t]
      /\ k <= Len(l) => pri[l[k]] < pri[t]
  BY InsertPlaceExists, Zenon
<1> HIDE DEF k
<1>2. /\ n \in Seq(S) /\ Len(n) = Len(l) + 1
      /\ \A i \in 1 .. Len(l) + 1 :
           n[i] = IF i < k THEN l[i] ELSE IF i = k THEN t ELSE l[i - 1]
  <2>1. k \in 1 .. Len(l) + 1
    BY <1>1, Zenon
  <2>2. OneMore(n, S, l, k, t)
    BY <2>1, InsertElements, Zenon
  <2> QED  BY <2>2, Zenon DEF OneMore
<1>3. /\ Members(n) = Members(l) \cup {t}
      /\ Once(l) /\ t \notin Members(l) => Once(n)
  BY <1>1, InsertMembers, Zenon
<1> HIDE DEF n
<1>0. Len(l) \in Nat /\ k \in Nat
  BY <1>1
<1>7. ASSUME NEW i \in 1 .. Len(l) + 1
      PROVE  /\ i < k => n[i] = l[i]
             /\ i = k => n[i] = t
             /\ i > k => n[i] = l[i - 1]
  <2>1. n[i] = IF i < k THEN l[i] ELSE IF i = k THEN t ELSE l[i - 1]
    BY <1>2, Zenon
  <2>2. i > k => ~(i < k) /\ i # k
    BY <1>0
  <2>3. i = k => ~(i < k)
    BY <1>0
  <2> QED  BY <2>1, <2>2, <2>3, Zenon
<1>4. n # <<>>
  BY <1>2
<1>5. ASSUME Sorted(l, pri)
      PROVE  Sorted(n, pri)
  <2>1. \A i \in 1 .. Len(l) : pri[l[i]] \in Int /\ pri[t] \in Int
    OBVIOUS
  <2>2. \A i \in 1 .. Len(l) : i >= k => pri[l[i]] <= pri[t]
    BY <1>1, <1>5, <2>1 DEF Sorted
  <2> SUFFICES ASSUME NEW i \in 1 .. Len(l) + 1, NEW j \in 1 .. Len(l) + 1, i < j
               PROVE  pri[n[i]] >= pri[n[j]]
    BY <1>2, Zenon DEF Sorted
  <2>3. CASE j < k
    <3>1. i < k /\ i \in 1 .. Len(l) /\ j \in 1 .. Len(l)
      BY <1>0, <1>1, <2>3
    <3>2. n[i] = l[i] /\ n[j] = l[j]
      BY <3>1, <1>7, <2>3, Zenon
    <3> QED  BY <3>1, <3>2, <1>5, Zenon DEF Sorted
  <2>4. CASE j = k
    <3>1. i < k /\ i \in 1 .. k - 1
      BY <1>0, <2>4
    <3>2. n[i] = l[i] /\ n[j] = t
      BY <3>1, <1>7, <2>4, Zenon
    <3> QED  BY <3>1, <3>2, <1>1, Zenon
  <2>5. CASE j > k /\ i = k
    <3>1. j - 1 \in 1 .. Len(l) /\ j - 1 >= k
      BY <1>0, <1>1, <2>5
    <3>2. pri[l[j - 1]] <= pri[t]
      BY <3>1, <2>2, Zenon
    <3>3. n[i] = t /\ n[j] = l[j - 1]
      BY <1>7, <2>5, Zenon
    <3> QED  BY <3>1, <3>2, <3>3, <2>1, Zenon
  <2>6. CASE j > k /\ i < k
    <3>1. /\ j - 1 \in 1 .. Len(l) /\ j - 1 >= k
          /\ i \in 1 .. Len(l) /\ i \in 1 .. k - 1
      BY <1>0, <1>1, <2>6
    <3>2. pri[l[j - 1]] <= pri[t] /\ pri[l[i]] >= pri[t]
      BY <3>1, <2>2, <1>1, Zenon
    <3>3. n[i] = l[i] /\ n[j] = l[j - 1]
      BY <1>7, <2>6, Zenon
    <3> QED  BY <3>1, <3>2, <3>3, <2>1
  <2>7. CASE j > k /\ i > k
    <3>1. i - 1 < j - 1 /\ i - 1 \in 1 .. Len(l) /\ j - 1 \in 1 .. Len(l)
      BY <1>0, <1>1, <2>7
    <3>2. n[i] = l[i - 1] /\ n[j] = l[j - 1]
      BY <1>7, <2>7, Zenon
    <3> QED  BY <3>1, <3>2, <1>5, Zenon DEF Sorted
  <2> QED  BY <1>1, <2>3, <2>4, <2>5, <2>6, <2>7
<1>6. list_insert_ordered(l, t, pri) = n
  BY Zenon DEF list_insert_ordered, k, n
<1> QED  BY <1>2, <1>3, <1>4, <1>5, <1>6, Zenon

(* list_insert_ordered into a list of one element. *)
LEMMA InsertIntoOne ==
  ASSUME NEW S, NEW u \in S, NEW t \in S, t # u, NEW pri \in [S -> Int]
  PROVE  /\ list_insert_ordered(<<u>>, t, pri) \in Seq(S)
         /\ list_insert_ordered(<<u>>, t, pri) # <<>>
         /\ Members(list_insert_ordered(<<u>>, t, pri)) = {u, t}
         /\ Once(list_insert_ordered(<<u>>, t, pri))
         /\ Sorted(list_insert_ordered(<<u>>, t, pri), pri)
<1> DEFINE one == <<u>>
<1>1. one \in Seq(S) /\ Once(one) /\ Sorted(one, pri) /\ Members(one) = {u}
  BY DEF Once, Sorted, Members
<1> HIDE DEF one
<1>2. /\ list_insert_ordered(one, t, pri) \in Seq(S)
      /\ list_insert_ordered(one, t, pri) # <<>>
      /\ Members(list_insert_ordered(one, t, pri)) = Members(one) \cup {t}
      /\ Once(one) /\ t \notin Members(one) => Once(list_insert_ordered(one, t, pri))
      /\ Sorted(one, pri) => Sorted(list_insert_ordered(one, t, pri), pri)
  BY <1>1, InsertOrdered, Zenon
<1>3. /\ list_insert_ordered(one, t, pri) \in Seq(S)
      /\ list_insert_ordered(one, t, pri) # <<>>
      /\ Members(list_insert_ordered(one, t, pri)) = {u, t}
      /\ Once(list_insert_ordered(one, t, pri))
      /\ Sorted(list_insert_ordered(one, t, pri), pri)
  BY <1>1, <1>2, Zenon
<1> QED  BY <1>3, Zenon DEF one

(* list_pop_front: the first element leaves, the others keep their order,  *)
(* and in a sorted list none of them has a higher priority.                *)
LEMMA PopFront ==
  ASSUME NEW S, NEW l \in Seq(S), l # <<>>, Once(l)
  PROVE  /\ Head(l) \in Members(l) /\ Head(l) \in S
         /\ Tail(l) \in Seq(S)
         /\ Members(Tail(l)) = Members(l) \ {Head(l)}
         /\ Once(Tail(l))
         /\ \A pri : Sorted(l, pri) => Sorted(Tail(l), pri)
         /\ \A pri : Sorted(l, pri) =>
              \A t \in Members(Tail(l)) : pri[Head(l)] >= pri[t]
<1> DEFINE m == Tail(l)
<1>1. /\ Len(l) >= 1 /\ Len(l) \in Nat /\ Head(l) = l[1] /\ Head(l) \in S
      /\ m \in Seq(S) /\ Len(m) = Len(l) - 1
      /\ \A i \in 1 .. Len(m) : m[i] = l[i + 1]
  OBVIOUS
<1> HIDE DEF m
<1>2. Head(l) \in Members(l)
  BY <1>1 DEF Members
<1>3. Members(m) = Members(l) \ {Head(l)}
  <2>1. Members(m) \subseteq Members(l) \ {Head(l)}
    <3> SUFFICES ASSUME NEW i \in 1 .. Len(m)
                 PROVE  m[i] \in Members(l) /\ m[i] # Head(l)
      BY Zenon DEF Members
    <3>1. i + 1 \in 1 .. Len(l) /\ m[i] = l[i + 1] /\ 1 \in 1 .. Len(l) /\ i + 1 # 1
      BY <1>1
    <3> QED  BY <1>1, <3>1, Zenon DEF Members, Once
  <2>2. ASSUME NEW i \in 1 .. Len(l), l[i] # Head(l)
        PROVE  l[i] \in Members(m)
    <3>1. i - 1 \in 1 .. Len(m) /\ m[i - 1] = l[i]
      BY <1>1, <2>2
    <3> QED  BY <3>1, Zenon DEF Members
  <2> QED  BY <2>1, <2>2, Zenon DEF Members
<1>4. Once(m)
  <2> SUFFICES ASSUME NEW i \in 1 .. Len(m), NEW j \in 1 .. Len(m), m[i] = m[j]
               PROVE  i = j
    BY Zenon DEF Once
  <2>1. i + 1 \in 1 .. Len(l) /\ j + 1 \in 1 .. Len(l) /\ l[i + 1] = l[j + 1]
    BY <1>1
  <2> QED  BY <1>1, <2>1 DEF Once
<1>5. ASSUME NEW pri, Sorted(l, pri)
      PROVE  Sorted(m, pri)
  <2> SUFFICES ASSUME NEW i \in 1 .. Len(m), NEW j \in 1 .. Len(m), i < j
               PROVE  pri[m[i]] >= pri[m[j]]
    BY Zenon DEF Sorted
  <2>1. /\ i + 1 \in 1 .. Len(l) /\ j + 1 \in 1 .. Len(l) /\ i + 1 < j + 1
        /\ m[i] = l[i + 1] /\ m[j] = l[j + 1]
    BY <1>1
  <2> QED  BY <1>5, <2>1, Zenon DEF Sorted
<1>6. ASSUME NEW pri, Sorted(l, pri), NEW i \in 1 .. Len(m)
      PROVE  pri[Head(l)] >= pri[m[i]]
  <2>1. 1 \in 1 .. Len(l) /\ i + 1 \in 1 .. Len(l) /\ 1 < i + 1
    BY <1>1
  <2> QED  BY <1>1, <1>6, <2>1, Zenon DEF Sorted
<1>7. \A pri : Sorted(l, pri) => \A t \in Members(m) : pri[Head(l)] >= pri[t]
  BY <1>6, Zenon DEF Members
<1> QED  BY <1>1, <1>2, <1>3, <1>4, <1>5, <1>7, Zenon DEF m

(* list_push_back. *)
LEMMA PushBack ==
  ASSUME NEW S, NEW l \in Seq(S), NEW t \in S
  PROVE  /\ Append(l, t) \in Seq(S) /\ Len(Append(l, t)) = Len(l) + 1
         /\ \A i \in 1 .. Len(l) : Append(l, t)[i] = l[i]
         /\ Append(l, t)[Len(l) + 1] = t
         /\ Members(Append(l, t)) = Members(l) \cup {t}
         /\ Once(l) /\ t \notin Members(l) => Once(Append(l, t))
<1> DEFINE n == Append(l, t)
<1>1. /\ n \in Seq(S) /\ Len(n) = Len(l) + 1 /\ Len(l) \in Nat
      /\ \A i \in 1 .. Len(l) : n[i] = l[i]
      /\ n[Len(l) + 1] = t
  OBVIOUS
<1> HIDE DEF n
<1>2. Members(n) \subseteq Members(l) \cup {t}
  <2> SUFFICES ASSUME NEW i \in 1 .. Len(n)
               PROVE  n[i] = t \/ \E j \in 1 .. Len(l) : n[i] = l[j]
    BY Zenon DEF Members
  <2>1. i \in 1 .. Len(l) \/ i = Len(l) + 1
    BY <1>1
  <2> QED  BY <1>1, <2>1, Zenon
<1>3. Members(l) \cup {t} \subseteq Members(n)
  <2>1. \A i \in 1 .. Len(l) : i \in 1 .. Len(n)
    BY <1>1
  <2>2. Len(l) + 1 \in 1 .. Len(n)
    BY <1>1
  <2> QED  BY <1>1, <2>1, <2>2, Zenon DEF Members
<1>4. ASSUME Once(l), t \notin Members(l)
      PROVE  Once(n)
  <2>1. \A i \in 1 .. Len(l) : l[i] # t
    BY <1>4, Zenon DEF Members
  <2> QED  BY <1>1, <1>4, <2>1 DEF Once
<1> QED  BY <1>1, <1>2, <1>3, <1>4, Zenon DEF n

(* list_remove. *)
LEMMA RemoveMembers ==
  ASSUME NEW S, NEW l \in Seq(S), NEW k \in 1 .. Len(l), Once(l)
  PROVE  /\ Members(list_remove(l, k)) = Members(l) \ {l[k]}
         /\ Once(list_remove(l, k))
<1> DEFINE n == list_remove(l, k)
<1>1. /\ n \in Seq(S) /\ Len(n) = Len(l) - 1
      /\ \A i \in 1 .. Len(l) - 1 : n[i] = IF i < k THEN l[i] ELSE l[i + 1]
  BY RemoveElements, Zenon
<1> HIDE DEF n
<1>2. Members(n) \subseteq Members(l) \ {l[k]}
  <2> SUFFICES ASSUME NEW i \in 1 .. Len(n)
               PROVE  \E j \in 1 .. Len(l) : n[i] = l[j] /\ n[i] # l[k]
    BY Zenon DEF Members
  <2>1. CASE i < k
    BY <1>1, <2>1 DEF Once
  <2>2. CASE ~(i < k)
    <3>1. i + 1 \in 1 .. Len(l) /\ n[i] = l[i + 1] /\ i + 1 # k
      BY <1>1, <2>2
    <3> QED  BY <3>1, Zenon DEF Once
  <2> QED  BY <2>1, <2>2, Zenon
<1>3. Members(l) \ {l[k]} \subseteq Members(n)
  <2> SUFFICES ASSUME NEW i \in 1 .. Len(l), i # k
               PROVE  \E j \in 1 .. Len(n) : l[i] = n[j]
    BY Zenon DEF Members
  <2>1. CASE i < k
    BY <1>1, <2>1
  <2>2. CASE i > k
    <3>1. i - 1 \in 1 .. Len(n) /\ n[i - 1] = l[i]
      BY <1>1, <2>2
    <3> QED  BY <3>1, Zenon
  <2> QED  BY <2>1, <2>2
<1>4. Once(n)
  <2> SUFFICES ASSUME NEW i \in 1 .. Len(n), NEW j \in 1 .. Len(n), n[i] = n[j]
               PROVE  i = j
    BY Zenon DEF Once
  <2> DEFINE p(x) == IF x < k THEN x ELSE x + 1
  <2>1. ASSUME NEW x \in 1 .. Len(n)
        PROVE  p(x) \in 1 .. Len(l) /\ n[x] = l[p(x)]
    <3>1. Len(l) \in Nat /\ x \in 1 .. Len(l) - 1
      BY <1>1
    <3>2. p(x) \in 1 .. Len(l)
      BY <3>1
    <3>3. n[x] = l[p(x)]
      BY <3>1, <1>1, Zenon
    <3> QED  BY <3>2, <3>3, Zenon
  <2>2. p(i) = p(j)
    <3>1. p(i) \in 1 .. Len(l) /\ p(j) \in 1 .. Len(l) /\ l[p(i)] = l[p(j)]
      BY <2>1, Zenon
    <3> HIDE DEF p
    <3> QED  BY <3>1, Zenon DEF Once
  <2> QED  BY <1>1, <2>2
<1> QED  BY <1>2, <1>3, <1>4, Zenon DEF n

-----------------------------------------------------------------------------
(* The run queue n follows the run queue l: threads that were on l keep    *)
(* their order, and those that were not are behind their equals.           *)
Follows(l, n, pri) ==
  \A t, u \in Members(n) :
    /\ Before(l, t, u) => Before(n, t, u)
    /\ t \in Members(l) /\ u \notin Members(l) /\ pri[t] = pri[u] => Before(n, t, u)

(* list_insert_ordered: t goes behind its equals and nothing else moves. *)
LEMMA InsertFollows ==
  ASSUME NEW S, NEW l \in Seq(S), NEW t \in S, NEW pri \in [S -> Int],
         t \notin Members(l), Sorted(l, pri)
  PROVE  Follows(l, list_insert_ordered(l, t, pri), pri)
<1> DEFINE k == InsertPlace(l, t, pri)
           n == list_insert(l, k, t)
<1>1. /\ k \in 1 .. Len(l) + 1
      /\ k <= Len(l) => pri[l[k]] < pri[t]
  BY InsertPlaceExists, Zenon
<1> HIDE DEF k
<1>2. /\ Len(n) = Len(l) + 1 /\ Len(l) \in Nat
      /\ \A i \in 1 .. Len(l) + 1 : n[i] = IF i < k THEN l[i] ELSE IF i = k THEN t ELSE l[i - 1]
  <2>1. k \in 1 .. Len(l) + 1
    BY <1>1, Zenon
  <2>2. OneMore(n, S, l, k, t)
    BY <2>1, InsertElements, Zenon
  <2>3. Len(l) \in Nat
    OBVIOUS
  <2> QED  BY <2>2, <2>3, Zenon DEF OneMore
<1>3. Members(n) = Members(l) \cup {t}
  BY <1>1, InsertMembers
<1> HIDE DEF n
<1>4. \A i \in 1 .. Len(l) : \E j \in 1 .. Len(n) : n[j] = l[i] /\ j = IF i < k THEN i ELSE i + 1
  <2> SUFFICES ASSUME NEW i \in 1 .. Len(l)
               PROVE  \E j \in 1 .. Len(n) : n[j] = l[i] /\ j = IF i < k THEN i ELSE i + 1
    BY Zenon
  <2>1. CASE i < k
    BY <1>1, <1>2, <2>1
  <2>2. CASE i >= k
    <3>1. i + 1 \in 1 .. Len(n) /\ ~(i + 1 < k) /\ i + 1 # k /\ (i + 1) - 1 = i
      BY <1>1, <1>2, <2>2
    <3>2. n[i + 1] = l[i]
      BY <1>2, <3>1
    <3>3. ~(i < k)
      BY <1>1, <2>2
    <3> QED  BY <3>1, <3>2, <3>3, Zenon
  <2> QED  BY <1>1, <2>1, <2>2
<1>5. ASSUME NEW a \in Members(n), NEW u \in Members(n), Before(l, a, u)
      PROVE  Before(n, a, u)
  <2>1. PICK i, j \in 1 .. Len(l) : i < j /\ l[i] = a /\ l[j] = u
    BY <1>5, Zenon DEF Before
  <2>2. PICK p \in 1 .. Len(n) : n[p] = l[i] /\ p = IF i < k THEN i ELSE i + 1
    BY <1>4, Zenon
  <2>3. PICK q \in 1 .. Len(n) : n[q] = l[j] /\ q = IF j < k THEN j ELSE j + 1
    BY <1>4, Zenon
  <2>4. p < q
    BY <1>1, <1>2, <2>1, <2>2, <2>3
  <2> QED  BY <2>1, <2>2, <2>3, <2>4, Zenon DEF Before
<1>6. ASSUME NEW a \in Members(l), pri[a] = pri[t]
      PROVE  Before(n, a, t)
  <2>1. PICK i \in 1 .. Len(l) : l[i] = a
    BY Zenon DEF Members
  <2>2. i < k
    <3> SUFFICES ASSUME i >= k
                 PROVE  FALSE
      BY <1>1, <1>2
    <3>1. k \in 1 .. Len(l) /\ k <= i
      BY <1>1, <1>2
    <3>2. pri[l[k]] >= pri[l[i]] \/ k = i
      BY <3>1 DEF Sorted
    <3>3. pri[l[k]] \in Int /\ pri[t] \in Int /\ pri[l[k]] < pri[t]
      BY <1>1, <1>2, <3>1
    <3> QED  BY <1>6, <2>1, <3>2, <3>3
  <2>3. n[i] = a /\ n[k] = t /\ i \in 1 .. Len(n) /\ k \in 1 .. Len(n)
    BY <1>1, <1>2, <2>1, <2>2
  <2> QED  BY <2>2, <2>3, Zenon DEF Before
<1>7. Follows(l, n, pri)
  BY <1>3, <1>5, <1>6, Zenon DEF Follows
<1> QED  BY <1>7, Zenon DEF list_insert_ordered, n, k

(* Taking the first thread off the queue moves nobody else. *)
LEMMA TailFollows ==
  ASSUME NEW S, NEW l, NEW n \in Seq(S), n # <<>>, Once(n), NEW pri, Follows(l, n, pri)
  PROVE  Follows(l, Tail(n), pri)
<1> DEFINE m == Tail(n)
<1>1. /\ Len(n) \in Nat /\ Len(n) >= 1 /\ Len(m) = Len(n) - 1
      /\ \A i \in 1 .. Len(n) - 1 : m[i] = n[i + 1]
  OBVIOUS
<1> HIDE DEF m
<1>2. ASSUME NEW t \in Members(m), NEW u, Before(n, t, u)
      PROVE  Before(m, t, u)
  <2>1. PICK i, j \in 1 .. Len(n) : i < j /\ n[i] = t /\ n[j] = u
    BY <1>2, Zenon DEF Before
  <2>2. PICK p \in 1 .. Len(m) : m[p] = t
    BY Zenon DEF Members
  <2>3. p + 1 \in 1 .. Len(n) /\ n[p + 1] = t
    BY <1>1, <2>2
  <2>4. i = p + 1
    BY <2>1, <2>3, Zenon DEF Once
  <2>5. j - 1 \in 1 .. Len(m) /\ p < j - 1 /\ (j - 1) + 1 = j
    BY <1>1, <2>1, <2>2, <2>4
  <2>6. m[j - 1] = u
    BY <1>1, <2>1, <2>5, Zenon
  <2> QED  BY <2>2, <2>5, <2>6, Zenon DEF Before
<1>3. Members(m) \subseteq Members(n)
  <2> SUFFICES ASSUME NEW p \in 1 .. Len(m)
               PROVE  m[p] \in Members(n)
    BY Zenon DEF Members
  <2>1. p + 1 \in 1 .. Len(n) /\ m[p] = n[p + 1]
    BY <1>1
  <2> QED  BY <2>1, Zenon DEF Members
<1>4. Follows(l, m, pri)
  BY <1>2, <1>3, Zenon DEF Follows
<1> QED  BY <1>4, Zenon DEF m

=============================================================================
