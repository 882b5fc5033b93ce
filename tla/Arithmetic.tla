----------------------------- MODULE Arithmetic -----------------------------
(***************************************************************************)
(* lib/arithmetic.c: division of integers of twice the machine's width out *)
(* of divisions that the machine has.  A word has W bits (32 in the code)  *)
(* and a long integer 2 * W.                                               *)
(***************************************************************************)
EXTENDS Integers, SequencesExt

CONSTANT W

ASSUME ArithmeticAssumption == W \in {2 ^ k : k \in 1 .. 5}

Word == 2 ^ W
Long == 2 ^ (2 * W)
Trap == 0 - 1

(* The conversions of C between signed and unsigned. *)
Unsigned(x, m) == x % m
Signed(x, m) == LET u == x % m IN IF 2 * u >= m THEN u - m ELSE u

(* DIVL: traps unless the quotient fits in a word. *)
divl(n, d) == IF d = 0 \/ n \div d >= Word THEN Trap ELSE n \div d

(* The bits from the upper half down: 16, 8, 4, 2, 1 for a word of 32. *)
Halves == [k \in 1 .. CHOOSE b \in 1 .. 5 : 2 ^ b = W |-> W \div 2 ^ k]

(* Leading zeros of x, which is not zero: at each half, if the bits above  *)
(* it are zero they are counted and shifted out.                           *)
nlz(x) ==
  FoldLeft(LAMBDA s, half :
             IF s.x < 2 ^ (W - half) THEN [n |-> s.n + half, x |-> s.x * 2 ^ half] ELSE s,
           [n |-> 0, x |-> x], Halves).n

(* The quotient estimated from the upper words, which may be one too high. *)
Estimate(n, d) ==
  LET s == nlz(d \div Word)
  IN divl(n \div 2, ((d * 2 ^ s) % Long) \div Word) \div 2 ^ (W - 1 - s)

(* Bug: the estimate is returned as it is. *)
udiv64_Uncorrected(n, d) ==
  LET n1 == n \div Word IN
    IF d \div Word = 0
      THEN LET q == divl(Word * (n1 % d) + (n % Word), d) IN
             IF q = Trap THEN Trap ELSE q + Word * (n1 \div d)
    ELSE IF n < d THEN 0 ELSE Estimate(n, d)

udiv64(n, d) ==
  LET n1 == n \div Word IN
    IF d \div Word = 0
      THEN LET q == divl(Word * (n1 % d) + (n % Word), d) IN
             IF q = Trap THEN Trap ELSE q + Word * (n1 \div d)
    ELSE IF n < d THEN 0
    ELSE LET q == Estimate(n, d) IN
           IF (n - (q - 1) * d) % Long < d THEN q - 1 ELSE q

(* The remainder is returned in a word. *)
umod64(n, d) == ((n - d * udiv64(n, d)) % Long) % Word

sdiv64(n, d) ==
  LET Abs(x) == Unsigned(IF x >= 0 THEN x ELSE -x, Long)
      q == Signed(udiv64(Abs(n), Abs(d)), Long)
  IN IF (n < 0) = (d < 0) THEN q ELSE Signed(-q, Long)

smod64(n, d) == Signed((n - d * sdiv64(n, d)) % Long, Word)

-----------------------------------------------------------------------------

(* For every dividend and divisor DIVL never traps and the quotient is the *)
(* floor of the real one; the remainder is the real one if a word holds    *)
(* it (the comments promise it of every remainder, but umod64 and smod64   *)
(* return words).                                                          *)
UnsignedDivision(n) == \A d \in 1 .. Long - 1 :
  udiv64(n, d) = n \div d /\ (n % d < Word => umod64(n, d) = n % d)

(* Signed division rounds toward zero, the one quotient that does not fit  *)
(* wraps around, and a remainder that a word holds has the sign of the     *)
(* dividend.                                                               *)
SignedDivision(n) == \A d \in {x \in -(Long \div 2) .. (Long \div 2) - 1 : x # 0} :
  LET Abs(x) == IF x < 0 THEN -x ELSE x
      q == Abs(n) \div Abs(d)
      real == IF (n < 0) = (d < 0) THEN q ELSE -q
      rem == n - d * real
  IN /\ sdiv64(n, d) = Signed(real, Long)
     /\ rem = Signed(rem, Word) => smod64(n, d) = rem

=============================================================================
