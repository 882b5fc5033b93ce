------------------------------- MODULE StdLib -------------------------------
(***************************************************************************)
(* lib/stdlib.c: atoi in a machine integer of IntBits bits, the heap sort  *)
(* and the binary search.  An array is a sequence of the values that       *)
(* compare looks at; a character of a number is its digit, or one of the   *)
(* characters below.                                                       *)
(***************************************************************************)
EXTENDS Integers, SequencesExt

CONSTANT IntBits

ASSUME StdLibAssumption == IntBits \in Nat \ {0}

Space == 10
Plus == 11
Minus == 12
Letter == 13
Digit == 0 .. 9     \* isdigit

(* Two's complement: what an int holds after an operation. *)
Int_(x) ==
  LET m == 2 ^ IntBits
      u == x % m
  IN IF 2 * u >= m THEN u - m ELSE u

(* The longest front of s with characters of chars only is cut off. *)
SkipWhile(s, chars) ==
  LET stop == SelectInSeq(s, LAMBDA c : c \notin chars) IN
    IF stop = 0 THEN <<>> ELSE SubSeq(s, stop, Len(s))

(* Digits are parsed as a negative number. *)
ParseDigits(s) == FoldLeft(LAMBDA v, c : Int_(v * 10 - c), 0, s)

DigitsOf(s) == SubSeq(s, 1, Len(s) - Len(SkipWhile(s, Digit)))

atoi(s) ==
  LET t == SkipWhile(s, {Space})
      signed == t # <<>> /\ t[1] \in {Plus, Minus}
      value == ParseDigits(DigitsOf(IF signed THEN Tail(t) ELSE t))
  IN IF signed /\ t[1] = Minus THEN value ELSE Int_(-value)

-----------------------------------------------------------------------------

do_swap(a, i, j) == [a EXCEPT ![i] = a[j], ![j] = a[i]]

RECURSIVE heapify(_, _, _)
heapify(a, i, cnt) ==
  LET left == 2 * i
      right == 2 * i + 1
      m == IF left <= cnt /\ a[left] > a[i] THEN left ELSE i
      max == IF right <= cnt /\ a[right] > a[m] THEN right ELSE m
  IN IF max = i THEN a ELSE heapify(do_swap(a, i, max), max, cnt)

(* Every parent, the last one first. *)
BuildHeap(a) ==
  FoldLeft(LAMBDA b, k : heapify(b, k, Len(a)), a, Reverse([k \in 1 .. Len(a) \div 2 |-> k]))

RECURSIVE SortHeap(_, _)
SortHeap(a, i) ==
  IF i <= 1 THEN a ELSE SortHeap(heapify(do_swap(a, 1, i), 1, i - 1), i - 1)

sort(a) == SortHeap(BuildHeap(a), Len(a))

(* Elements first up to last, exclusive; 0 is the null pointer. *)
RECURSIVE SearchRange(_, _, _, _)
SearchRange(key, a, first, last) ==
  LET middle == first + ((last - first) \div 2) IN
    IF first >= last THEN 0
    ELSE IF key < a[middle] THEN SearchRange(key, a, first, middle)
    ELSE IF key > a[middle] THEN SearchRange(key, a, middle + 1, last)
    ELSE middle

binary_search(key, a) == SearchRange(key, a, 1, Len(a) + 1)
-----------------------------------------------------------------------------

(* The decimal value of the digits of s. *)
Decimal(s) == FoldLeft(LAMBDA v, c : v * 10 + c, 0, s)

(* atoi gives every number that an int can hold, the most negative one     *)
(* too, behind any spaces and whatever follows the digits.                 *)
NumbersParsed(n) == \A pre \in {<<>>, <<Space>>, <<Space, Space>>}, post \in {<<>>, <<Letter, 1>>} :
  LET m == Decimal(n) IN
    /\ m < 2 ^ (IntBits - 1) =>
         atoi(pre \o n \o post) = m /\ atoi(pre \o <<Plus>> \o n \o post) = m
    /\ m <= 2 ^ (IntBits - 1) => atoi(pre \o <<Minus>> \o n \o post) = -m

(* The heap sort puts every array in order and keeps its elements, and the *)
(* binary search of the result finds a key if and only if it is there.     *)
SortedAndFound(a, keys) ==
  LET s == sort(a)
      Count(r, x) == Cardinality({i \in DOMAIN r : r[i] = x})
  IN /\ \A i \in 2 .. Len(a) : s[i - 1] <= s[i]
     /\ \A x \in ToSet(a) : Count(s, x) = Count(a, x)
     /\ \A k \in keys :
          LET i == binary_search(k, s) IN IF i = 0 THEN k \notin ToSet(a) ELSE s[i] = k

=============================================================================
