------------------------------ MODULE Library ------------------------------
(***************************************************************************)
(* The code that computes and does not wait: the kernel's library, the     *)
(* division of memory into pools, the loading of programs, and the numbers *)
(* of the feedback queue scheduler.  A behaviour is any sequence of calls  *)
(* on two lists, or any on a hash table, or a choice of inputs for the     *)
(* functions, one after another.                                           *)
(***************************************************************************)
EXTENDS LinkedList, HashTable, Mlfqs, StdLib, Loader, Pools

CONSTANTS
  Loads, Recents, Nices,      \* of the feedback queue scheduler
  Digits, MaxDigits,          \* numbers to parse
  Values, MaxArray,           \* arrays to sort
  Addresses, Characters,      \* memories with a NUL at the last address
  MaxBits,                    \* sizes of bitmaps
  FreeStart, FreeEnds, Limits,        \* where free memory begins and ends
  Words, MaxWords,            \* command lines
  Headers, SomeHeaders, FileLength    \* program headers, alone and in twos

VARIABLE input

lvars == <<mem, h, old, input>>

None_ == [kind |-> "none"]

SeqsUpTo(S, n) == UNION {[1 .. k -> S] : k \in 0 .. n}

Memories == {m \in [Addresses -> Characters] : m[Max(Addresses)] = NUL}

Bitmaps == UNION {{[bit_cnt |-> n, bits |-> w] : w \in [1 .. elem_cnt(n) -> 0 .. AllOnes]} :
                  n \in 0 .. MaxBits}

Executable(ok, num, phdrs) ==
  [created |-> ok[1], opened |-> ok[2], header |-> ok[3], length |-> FileLength,
   e_phnum |-> num, phdrs |-> phdrs]

(* Segments that share no page. *)
Apart(p, q) == \/ pg_round_down(p.p_vaddr) >= q.p_vaddr + q.p_memsz
               \/ pg_round_down(q.p_vaddr) >= p.p_vaddr + p.p_memsz

Init ==
  /\ input \in {[kind |-> "lists"], [kind |-> "table"], None_}
  /\ ListInit /\ HashStart

CallList == input.kind = "lists" /\ ListNext /\ UNCHANGED <<h, old, input>>

CallTable == input.kind = "table" /\ HashNext /\ UNCHANGED <<mem, input>>

Take(record) == input = None_ /\ input' = record /\ UNCHANGED <<mem, h, old>>

Divide == \E n \in 0 .. Long - 1 : Take([kind |-> "dividend", n |-> n])
Tick == \E l \in Loads, r \in Recents, n \in Nices :
          Take([kind |-> "tick", load |-> l, recent |-> r, nice |-> n])
ParseNumber == \E s \in SeqsUpTo(Digits, MaxDigits) : s # <<>> /\ Take([kind |-> "number", s |-> s])
SortArray == \E a \in SeqsUpTo(Values, MaxArray) : Take([kind |-> "array", a |-> a])
UseStrings == \E m \in Memories : Take([kind |-> "memory", m |-> m])
UseBitmap == \E b \in Bitmaps : Take([kind |-> "bitmap", b |-> b])
MakePools == \E e \in FreeEnds, l \in Limits : Take([kind |-> "pools", end |-> e, limit |-> l])
BuildStack == \E w \in SeqsUpTo(Words, MaxWords) : Take([kind |-> "words", w |-> w])

(* A file of one segment with any fields, one that fails a check before    *)
(* the segments, and one of two segments or with a header cut off.         *)
LoadFile ==
  \/ \E p \in Headers : Take([kind |-> "file", f |-> Executable(<<TRUE, TRUE, TRUE>>, 1, <<p>>)])
  \/ \E ok \in [1 .. 3 -> BOOLEAN], p \in SomeHeaders :
       Take([kind |-> "file", f |-> Executable(ok, 1, <<p>>)])
  \/ \E p, q \in SomeHeaders, num \in 0 .. 3 :
       Apart(p, q) /\ Take([kind |-> "file", f |-> Executable(<<TRUE, TRUE, TRUE>>, num, <<p, q>>)])

Another ==
  /\ input.kind \notin {"none", "lists", "table"}
  /\ input' = None_ /\ UNCHANGED <<mem, h, old>>

Next ==
  \/ CallList \/ CallTable \/ Divide \/ Tick \/ ParseNumber \/ SortArray \/ UseStrings
  \/ UseBitmap \/ MakePools \/ BuildStack \/ LoadFile \/ Another

Spec == Init /\ [][Next]_lvars

-----------------------------------------------------------------------------

(* 64-bit unsigned division out of DIVL (arithmetic.c: __udivdi3,          *)
(* __umoddi3): never traps, exact quotient, and exact remainder if it fits *)
(* in a word.                                                              *)
UnsignedDivides == input.kind = "dividend" => UnsignedDivision(input.n)

(* 64-bit signed division (arithmetic.c: __divdi3, __moddi3): toward zero, *)
(* also at the most negative number; the remainder if it fits in a word.   *)
SignedDivides == input.kind = "dividend" => SignedDivision(Signed(input.n, Long))

(* The priorities that thread_tick and thread_set_nice compute (thread.c)  *)
(* are in range, and rank threads by what they have used and by niceness.  *)
RanksThreads == input.kind = "tick" => Ranked(input.recent, input.nice)

(* thread_tick's load_avg (thread.c, fp.h) is the weighted average of the  *)
(* threads that want to run, and never exceeds their number.               *)
AveragesLoad == input.kind = "tick" =>
  \A ready \in 0 .. 4, not_idle \in 0 .. 1 : Averaged(input.load, ready, not_idle)

(* thread_tick's recent_cpu (thread.c, fp.h) decays, slower under load. *)
ForgetsUse == input.kind = "tick" => Forgotten(input.load, input.recent, input.nice)

(* thread_get_load_avg and thread_get_recent_cpu (thread.c) return 100     *)
(* times the number: the nearest integer where it is not negative, and     *)
(* that or at most one less where it is.                                   *)
ReportsHundreds == input.kind = "tick" =>
  /\ Reported(input.load, thread_get_load_avg(input.load))
  /\ Reported(input.recent, thread_get_recent_cpu(input.recent))

(* atoi over the whole range of int (stdlib.c: "the negative range of an   *)
(* int is bigger than the positive range").                                *)
ParsesNumbers == input.kind = "number" => NumbersParsed(input.s)

(* sort, qsort and bsearch (stdlib.c) against order and membership. *)
SortsAndFinds == input.kind = "array" => SortedAndFound(input.a, 0 .. Max(Values) + 1)

(* memmove (string.c) when source and destination overlap. *)
MovesOverlapping == input.kind = "memory" => Moved(input.m)

(* strlcpy and strlcat (string.c) never write past size bytes, and end the *)
(* text; strlcat if the text it extends ended within them.                 *)
CopiesBounded == input.kind = "memory" =>
  \A dst, src \in Addresses : dst < src => Bounded(input.m, dst, src)

(* strcmp, strstr, strchr, strrchr, strpbrk, strspn and strnlen (string.c) *)
(* against texts as sequences.                                             *)
SearchesText == input.kind = "memory" => \A a, b \in Addresses : Searched(input.m, a, b)

(* parse_instruction with strtok_r (process.c, string.c): the words of a   *)
(* command line that has no more of them than argv has places.             *)
ParsesLine == input.kind = "memory" => WordsParsed(input.m)

(* bitmap_scan, bitmap_scan_and_flip, bitmap_count and bitmap_contains     *)
(* (bitmap.c) against the set of bits, for groups of at least one bit.     *)
ScansBitmap == input.kind = "bitmap" => GroupsFound(input.b)

(* bitmap_create and bitmap_read (bitmap.c) with a last element that is    *)
(* used in part.                                                           *)
ReadsBitmap == input.kind = "bitmap" => ReadBack(input.b)

(* palloc_init and page_from_pool (palloc.c) for every memory size and     *)
(* user page limit.                                                        *)
DividesMemory == input.kind = "pools" => PoolsApart(FreeStart, input.end, input.limit)

(* stack_build (process.c): the stack a program starts with. *)
BuildsStack == input.kind = "words" => StackLaidOut(input.w)

(* load, validate_segment and load_segment (process.c), with sums that     *)
(* wrap around.                                                            *)
LoadsSegments == input.kind = "file" => SegmentsMapped(input.f)

(* A list (list.c) is linked both ways after every sequence of calls, and  *)
(* sorting, extremes and splicing are what they are on sequences.          *)
ListsRight == Linked /\ Extremes /\ SortsLists /\ MovesElements

(* Arithmetic on 64 bits, atoi, sort and bsearch (arithmetic.c, stdlib.c)  *)
(* give what mathematics says, also at the ends of their ranges; but for   *)
(* remainders that do not fit in the 32 bits umod64 and smod64 return.     *)
NumbersRight == UnsignedDivides /\ SignedDivides /\ ParsesNumbers /\ SortsAndFinds

(* The fixed-point numbers of the feedback queue scheduler (thread.c,      *)
(* fp.h) rank threads, average the load, decay, and are reported to the    *)
(* nearest hundredth, or one lower where they are negative.                *)
FeedbackRight == RanksThreads /\ AveragesLoad /\ ForgetsUse /\ ReportsHundreds

(* What handles raw memory and addresses: strings, bitmaps, the division   *)
(* into pools, the first stack and the segments of a program (string.c,    *)
(* bitmap.c, palloc.c, process.c) stay within bounds and do what their     *)
(* references say, for the inputs its conjuncts name.                      *)
MemoryRight ==
  /\ MovesOverlapping /\ CopiesBounded /\ SearchesText /\ ParsesLine
  /\ ScansBitmap /\ ReadsBitmap /\ DividesMemory /\ BuildsStack /\ LoadsSegments

=============================================================================
