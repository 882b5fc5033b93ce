----------------------------- MODULE HashTable -----------------------------
(***************************************************************************)
(* lib/kernel/hash.c: chains in a power of two of buckets, whose number    *)
(* follows the number of elements unless malloc fails.  A bucket is the    *)
(* sequence of its elements, front first.                                  *)
(***************************************************************************)
EXTENDS Integers, SequencesExt, Bitwise

CONSTANTS
  Item,                  \* the elements
  Id(_),                 \* what less compares: the bytes that are hashed, too
  MinBuckets,            \* 4 in the code
  BEST_ELEMS_PER_BUCKET,
  Width, FNV_PRIME, FNV_BASIS,   \* of the hash value; 32 bits in the code
  Nothing                \* the null pointer

ASSUME HashTableAssumption ==
  /\ Nothing \notin Item
  /\ MinBuckets \in Nat \ {0} /\ BEST_ELEMS_PER_BUCKET \in Nat \ {0}
  /\ Width \in Nat /\ FNV_PRIME \in Nat /\ FNV_BASIS \in Nat

VARIABLES
  h,         \* [elem_cnt, buckets], or Nothing when the table is not set up
  old        \* what the last call returned

hvars == <<h, old>>

(* Fowler-Noll-Vo over bytes, modulo the width of unsigned. *)
hash_bytes(buf) ==
  FoldLeft(LAMBDA v, b : ((v * FNV_PRIME) % 2 ^ Width) ^^ b, FNV_BASIS, buf)

(* The four bytes of an int, the low one first. *)
hash_int(i) == hash_bytes([k \in 1 .. 4 |-> (i \div 256 ^ (k - 1)) % 256])

(* The table's hash function. *)
hash == [e \in Item |-> hash_int(Id(e))]

bucket_cnt(t) == Len(t.buckets)

(* Buckets are numbered from 1. *)
find_bucket(t, e) == 1 + (hash[e] & (bucket_cnt(t) - 1))

find_elem(t, b, e) ==
  LET i == SelectInSeq(t.buckets[b], LAMBDA x : Id(x) = Id(e)) IN
    IF i = 0 THEN Nothing ELSE t.buckets[b][i]

insert_elem(t, b, e) ==
  [t EXCEPT !.elem_cnt = @ + 1, !.buckets[b] = <<e>> \o @]

(* list_remove finds the chain by the element's own pointers. *)
remove_elem(t, e) ==
  [elem_cnt |-> t.elem_cnt - 1,
   buckets |-> [b \in DOMAIN t.buckets |-> SelectSeq(t.buckets[b], LAMBDA x : x # e)]]

turn_off_least_1bit(x) == x & (x - 1)
is_power_of_2(x) == x # 0 /\ turn_off_least_1bit(x) = 0

RECURSIVE DownToPower(_)
DownToPower(x) == IF is_power_of_2(x) THEN x ELSE DownToPower(turn_off_least_1bit(x))

NewCount(t) ==
  LET best == t.elem_cnt \div BEST_ELEMS_PER_BUCKET
  IN DownToPower(IF best < MinBuckets THEN MinBuckets ELSE best)

(* The elements bucket by bucket: the order of hash_apply and of hash_next. *)
InOrder(t) == FlattenSeq(t.buckets)

(* Each old bucket in turn, and each of its elements to the front of its   *)
(* new one; got says whether malloc had room for the buckets.              *)
rehash(t, got) ==
  LET n == NewCount(t)
      empty == [t EXCEPT !.buckets = [b \in 1 .. n |-> <<>>]]
  IN IF n = bucket_cnt(t) \/ ~got THEN t
     ELSE FoldLeft(LAMBDA u, e : [u EXCEPT !.buckets[find_bucket(u, e)] = <<e>> \o @],
                   empty, InOrder(t))

-----------------------------------------------------------------------------

InTable == IF h = Nothing THEN {} ELSE ToSet(InOrder(h))

HashStart == h = Nothing /\ old = Nothing

hash_init ==
  /\ h = Nothing
  /\ h' = [elem_cnt |-> 0, buckets |-> [b \in 1 .. MinBuckets |-> <<>>]]
  /\ UNCHANGED old

hash_insert == h # Nothing /\ \E e \in Item \ InTable, got \in BOOLEAN :
  LET b == find_bucket(h, e)
      o == find_elem(h, b, e)
  IN /\ h' = rehash(IF o = Nothing THEN insert_elem(h, b, e) ELSE h, got)
     /\ old' = o

(* Bug: the old element stays where it is. *)
hash_replace_Keeps == h # Nothing /\ \E e \in Item \ InTable, got \in BOOLEAN :
  LET b == find_bucket(h, e)
  IN h' = rehash(insert_elem(h, b, e), got) /\ old' = find_elem(h, b, e)

hash_replace == h # Nothing /\ \E e \in Item \ InTable, got \in BOOLEAN :
  LET b == find_bucket(h, e)
      o == find_elem(h, b, e)
      t == IF o # Nothing THEN remove_elem(h, o) ELSE h
  IN h' = rehash(insert_elem(t, b, e), got) /\ old' = o

hash_find == h # Nothing /\ \E e \in Item :
  old' = find_elem(h, find_bucket(h, e), e) /\ UNCHANGED h

hash_delete == h # Nothing /\ \E e \in Item, got \in BOOLEAN :
  LET o == find_elem(h, find_bucket(h, e), e) IN
    /\ h' = IF o = Nothing THEN h ELSE rehash(remove_elem(h, o), got)
    /\ old' = o

(* The buckets keep their number. *)
hash_clear ==
  /\ h # Nothing
  /\ h' = [elem_cnt |-> 0, buckets |-> [b \in DOMAIN h.buckets |-> <<>>]]
  /\ old' = Nothing

hash_destroy == h # Nothing /\ h' = Nothing /\ old' = Nothing

HashNext ==
  \/ hash_init \/ hash_insert \/ hash_replace \/ hash_find \/ hash_delete
  \/ hash_clear \/ hash_destroy

HashSpec == HashStart /\ [][HashNext]_hvars

-----------------------------------------------------------------------------
(* Iteration: the place is a bucket and how far it has been walked. *)

hash_first == [bucket |-> 1, at |-> 0]

RECURSIVE SkipEmpty(_, _)
SkipEmpty(t, i) ==
  IF i.bucket > bucket_cnt(t) \/ i.at <= Len(t.buckets[i.bucket]) THEN i
  ELSE SkipEmpty(t, [bucket |-> i.bucket + 1, at |-> 1])

hash_next(t, i) == SkipEmpty(t, [i EXCEPT !.at = @ + 1])

RECURSIVE Iterate(_, _)
Iterate(t, i) ==
  LET j == hash_next(t, i) IN
    IF j.bucket > bucket_cnt(t) THEN <<>> ELSE <<t.buckets[j.bucket][j.at]>> \o Iterate(t, j)

(* hash_size is the number of elements, and hash_first and hash_next visit *)
(* each of them once and no other, however often the table was rehashed    *)
(* and malloc failed.                                                      *)
EachOnce == h # Nothing =>
  LET s == Iterate(h, hash_first) IN
    Len(s) = h.elem_cnt /\ IsInjective(s) /\ ToSet(s) = InTable

Promise == INSTANCE Table WITH Elem <- Item, content <- InTable, found <- old

(* The buckets are a table: a call finds an element wherever rehash put    *)
(* it, two elements of one key are never in it together, and hash_next     *)
(* visits what is in it (EachOnce).                                        *)
ImplementsTable == []EachOnce /\ Promise!Spec

=============================================================================
