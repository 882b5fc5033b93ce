------------------------------- MODULE Bitmap -------------------------------
(***************************************************************************)
(* lib/kernel/bitmap.c: bits packed in elements of ELEM_BITS bits (32 in   *)
(* the code).  A bitmap is [bit_cnt, bits], bits a sequence of numbers.    *)
(***************************************************************************)
EXTENDS Integers, SequencesExt, Bitwise

CONSTANT ELEM_BITS

ASSUME BitmapAssumption == ELEM_BITS \in Nat \ {0}

BITMAP_ERROR == 0 - 1
DIV_ROUND_UP(x, step) == (x + step - 1) \div step

elem_idx(bit_idx) == 1 + (bit_idx \div ELEM_BITS)
bit_mask(bit_idx) == 2 ^ (bit_idx % ELEM_BITS)
elem_cnt(bit_cnt) == DIV_ROUND_UP(bit_cnt, ELEM_BITS)
AllOnes == 2 ^ ELEM_BITS - 1

last_mask(b) ==
  LET last_bits == b.bit_cnt % ELEM_BITS IN IF last_bits # 0 THEN 2 ^ last_bits - 1 ELSE AllOnes

bitmap_mark(b, i) == [b EXCEPT !.bits[elem_idx(i)] = @ | bit_mask(i)]
bitmap_reset(b, i) == [b EXCEPT !.bits[elem_idx(i)] = @ & (AllOnes - bit_mask(i))]
bitmap_flip(b, i) == [b EXCEPT !.bits[elem_idx(i)] = @ ^^ bit_mask(i)]
bitmap_set(b, i, value) == IF value THEN bitmap_mark(b, i) ELSE bitmap_reset(b, i)
bitmap_test(b, i) == b.bits[elem_idx(i)] & bit_mask(i) # 0

Bits(start, cnt) == start .. start + cnt - 1

bitmap_set_multiple(b, start, cnt, value) ==
  FoldSet(LAMBDA i, c : bitmap_set(c, i, value), b, Bits(start, cnt))

bitmap_set_all(b, value) == bitmap_set_multiple(b, 0, b.bit_cnt, value)

(* The elements hold whatever malloc's block held. *)
bitmap_create(cnt, junk) == bitmap_set_all([bit_cnt |-> cnt, bits |-> junk], FALSE)

bitmap_count(b, start, cnt, value) ==
  Cardinality({i \in Bits(start, cnt) : bitmap_test(b, i) = value})

bitmap_contains(b, start, cnt, value) == \E i \in Bits(start, cnt) : bitmap_test(b, i) = value

bitmap_none(b, start, cnt) == ~bitmap_contains(b, start, cnt, TRUE)

Places(b, start, cnt) == start .. b.bit_cnt - cnt

bitmap_scan(b, start, cnt, value) ==
  LET groups == {i \in Places(b, start, cnt) : ~bitmap_contains(b, i, cnt, ~value)}
  IN IF groups = {} THEN BITMAP_ERROR ELSE Min(groups)

(* The bitmap afterwards; the index is that of bitmap_scan. *)
bitmap_scan_and_flip(b, start, cnt, value) ==
  LET i == bitmap_scan(b, start, cnt, value) IN
    IF i = BITMAP_ERROR THEN b ELSE bitmap_set_multiple(b, i, cnt, ~value)

(* Elements as they are in the file, which may have bits set past the end. *)
bitmap_read(b, file) ==
  LET c == [b EXCEPT !.bits = file] IN
    IF b.bit_cnt = 0 THEN b
    ELSE [c EXCEPT !.bits[elem_cnt(b.bit_cnt)] = @ & last_mask(b)]

View(b) == {i \in 0 .. b.bit_cnt - 1 : bitmap_test(b, i)}

-----------------------------------------------------------------------------

(* A group of one bit or more is found whenever there is one, and it is    *)
(* the first; flipping it changes these bits and no other, and what        *)
(* bitmap_count and bitmap_contains say is true of the set of bits that    *)
(* are on.  (Of no bits the comment says the index is 0, the code returns  *)
(* start; no caller asks for it.)                                          *)
GroupsFound(b) == \A v \in BOOLEAN, s \in 0 .. b.bit_cnt : \A n \in 1 .. b.bit_cnt + 1 :
  LET on == View(b)
      Group(i) == Bits(i, n) \subseteq 0 .. b.bit_cnt - 1
                  /\ (IF v THEN Bits(i, n) \subseteq on ELSE Bits(i, n) \cap on = {})
      i == bitmap_scan(b, s, n, v)
      flipped == IF v THEN on \ Bits(i, n) ELSE on \cup Bits(i, n)
  IN /\ i = BITMAP_ERROR => ~\E k \in s .. b.bit_cnt : Group(k)
     /\ i # BITMAP_ERROR =>
          /\ i >= s /\ Group(i) /\ ~\E k \in s .. i - 1 : Group(k)
          /\ View(bitmap_scan_and_flip(b, s, n, v)) = flipped
     /\ s + n <= b.bit_cnt =>
          /\ bitmap_count(b, s, n, TRUE) = Cardinality(on \cap Bits(s, n))
          /\ bitmap_none(b, s, n) <=> bitmap_count(b, s, n, FALSE) = n

(* What was written to a file is read back, stray bits past the end do not *)
(* come into the bitmap, and a new bitmap is empty whatever memory held.   *)
ReadBack(b) ==
  LET new == bitmap_create(b.bit_cnt, b.bits)
      r == bitmap_read(new, b.bits)
  IN /\ View(new) = {} /\ View(r) = View(b)
     /\ \A i \in 0 .. ELEM_BITS * Len(b.bits) - 1 : i >= b.bit_cnt => ~bitmap_test(r, i)

=============================================================================
