------------------------------ MODULE Strings ------------------------------
(***************************************************************************)
(* lib/string.c.  Memory m is a function from addresses to characters, a   *)
(* string at p ends at the first NUL from p on, and None is the null       *)
(* pointer.                                                                *)
(***************************************************************************)
EXTENDS Integers, SequencesExt

NUL == 0
None == 0 - 1

(* One byte at a time from the front, each read after the ones before it   *)
(* were written.                                                           *)
memcpy(m, dst, src, size) ==
  FoldLeft(LAMBDA n, k : [n EXCEPT ![dst + k - 1] = n[src + k - 1]], m, [k \in 1 .. size |-> k])

CopyBack(m, dst, src, size) ==
  FoldLeft(LAMBDA n, k : [n EXCEPT ![dst + size - k] = n[src + size - k]], m,
           [k \in 1 .. size |-> k])

(* Returns its own pointer, which has gone to the end of the copy if that  *)
(* was made from the front.                                                *)
memmove(m, dst, src, size) ==
  IF dst < src THEN [mem |-> memcpy(m, dst, src, size), dst |-> dst + size]
  ELSE [mem |-> CopyBack(m, dst, src, size), dst |-> dst]

Differ(m, a, b, size) == {k \in 0 .. size - 1 : m[a + k] # m[b + k]}

memcmp(m, a, b, size) ==
  LET d == Differ(m, a, b, size) IN
    IF d = {} THEN 0 ELSE IF m[a + Min(d)] > m[b + Min(d)] THEN 1 ELSE -1

memchr(m, block, ch, size) ==
  LET at == {p \in block .. block + size - 1 : m[p] = ch} IN IF at = {} THEN None ELSE Min(at)

strlen(m, p) == Min({k \in 0 .. Cardinality(DOMAIN m) : p + k \in DOMAIN m /\ m[p + k] = NUL})
strnlen(m, p, maxlen) == Min({strlen(m, p), maxlen})

strchr(m, p, c) == memchr(m, p, c, strlen(m, p) + 1)

strrchr(m, p, c) ==
  LET at == {q \in p .. p + strlen(m, p) - 1 : m[q] = c} IN IF at = {} THEN None ELSE Max(at)

strcmp(m, a, b) ==
  LET k == Min({i \in 0 .. Min({strlen(m, a), strlen(m, b)}) :
                  m[a + i] = NUL \/ m[a + i] # m[b + i]})
  IN IF m[a + k] < m[b + k] THEN -1 ELSE IF m[a + k] > m[b + k] THEN 1 ELSE 0

(* stop and skip are given by the set of their characters. *)
strcspn(m, p, stop) == Min({k \in 0 .. strlen(m, p) : m[p + k] = NUL \/ m[p + k] \in stop})
strspn(m, p, skip) == Min({k \in 0 .. strlen(m, p) : m[p + k] = NUL \/ m[p + k] \notin skip})

strpbrk(m, p, stop) ==
  LET q == p + strcspn(m, p, stop) IN IF m[q] = NUL THEN None ELSE q

strstr(m, haystack, needle) ==
  LET hl == strlen(m, haystack)
      nl == strlen(m, needle)
      at == {i \in 0 .. hl - nl : memcmp(m, haystack + i, needle, nl) = 0}
  IN IF at = {} THEN None ELSE haystack + Min(at)

(* Where the next call starts: behind the delimiter that was overwritten.  *)
Saved(m, s) == IF m[s] = NUL THEN s ELSE s + 1

(* The token from s on, the memory with its end marked and the place kept. *)
strtok_r(m, s, delimiters) ==
  LET token == s + strspn(m, s, delimiters)
      end == token + strcspn(m, token, delimiters)
  IN IF m[token] = NUL THEN [token |-> None, mem |-> m, save |-> token]
     ELSE [token |-> token, mem |-> [m EXCEPT ![end] = NUL], save |-> Saved(m, end)]

(* Characters that fit in size bytes with their NUL. *)
Room(size, len) == Min({size - 1, len})

strlcpy(m, dst, src, size) ==
  LET len == strlen(m, src)
      cnt == Room(size, len)
  IN [len |-> len,
      mem |-> IF size = 0 THEN m ELSE [memcpy(m, dst, src, cnt) EXCEPT ![dst + cnt] = NUL]]

strlcat(m, dst, src, size) ==
  LET src_len == strlen(m, src)
      dst_len == strlen(m, dst)
      cnt == Room(size - dst_len, src_len)
  IN [len |-> src_len + dst_len,
      mem |-> IF dst_len >= size THEN m
              ELSE [memcpy(m, dst + dst_len, src, cnt) EXCEPT ![dst + dst_len + cnt] = NUL]]

-----------------------------------------------------------------------------

Text(m, p) == [k \in 1 .. strlen(m, p) |-> m[p + k - 1]]

(* memmove gives the destination what the source held before the call, and *)
(* leaves the rest, however the two overlap.  Nothing is said of what it   *)
(* returns: the comment says DST, and no caller looks at it.               *)
Moved(m) == \A dst, src \in DOMAIN m : \A size \in 0 .. Cardinality(DOMAIN m) :
  (dst + size - 1 \in DOMAIN m /\ src + size - 1 \in DOMAIN m) =>
    memmove(m, dst, src, size).mem
      = [a \in DOMAIN m |-> IF a \in dst .. dst + size - 1 THEN m[src + a - dst] ELSE m[a]]

(* strlcpy and strlcat write at most size bytes at dst and cut the text    *)
(* off nowhere but at the end, with a NUL among the size bytes; strlcat if *)
(* there was one before the call.  (Without it strlcat writes none, though *)
(* its comment says a null terminator is always written; nothing calls it.)*)
Bounded(m, dst, src) == \A size \in 0 .. src - dst :
  LET cpy == strlcpy(m, dst, src, size)
      cat == strlcat(m, dst, src, size)
      Within(r) == \A a \in DOMAIN m : a \notin dst .. dst + size - 1 => r[a] = m[a]
      Front_(s) == SubSeq(s, 1, Min({size - 1, Len(s)}))
      whole == Text(m, dst) \o Text(m, src)
  IN /\ Within(cpy.mem) /\ Within(cat.mem)
     /\ cpy.len = Len(Text(m, src)) /\ cat.len = Len(whole)
     /\ size > 0 => Text(cpy.mem, dst) = Front_(Text(m, src))
     /\ size > Len(Text(m, dst)) => Text(cat.mem, dst) = Front_(whole)

(* strcmp orders texts as a dictionary does, and strstr finds the first    *)
(* place where the needle is, exactly when there is one.                   *)
Searched(m, a, b) ==
  LET s == Text(m, a)
      t == Text(m, b)
      k == Min({i \in 1 .. Len(s) + 1 : i > Len(s) \/ i > Len(t) \/ s[i] # t[i]})
      Sign(x, y) == IF x < y THEN -1 ELSE IF x > y THEN 1 ELSE 0
      At(r, i) == IF i > Len(r) THEN NUL ELSE r[i]
      places == {i \in 0 .. Len(s) - Len(t) : SubSeq(s, i + 1, i + Len(t)) = t}
  IN /\ strcmp(m, a, b) = Sign(At(s, k), At(t, k)) /\ strcmp(m, b, a) = -strcmp(m, a, b)
     /\ strstr(m, a, b) = IF places = {} THEN None ELSE a + Min(places)
     /\ \A c \in ToSet(s) \cup ToSet(t) :
          /\ strchr(m, a, c) = IF c \in ToSet(s) THEN a + Min({i \in DOMAIN s : s[i] = c}) - 1 ELSE None
          /\ strrchr(m, a, c) = IF c \in ToSet(s) THEN a + Max({i \in DOMAIN s : s[i] = c}) - 1 ELSE None
     /\ strpbrk(m, a, ToSet(t)) = None <=> ToSet(s) \cap ToSet(t) = {}
     /\ strspn(m, a, ToSet(s)) = Len(s) /\ strnlen(m, a, Len(t)) = Min({Len(s), Len(t)})

=============================================================================
