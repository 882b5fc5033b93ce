----------------------------- MODULE IntQBuffer -----------------------------
(***************************************************************************)
(* The struct intq of devices/intq.h: a circular buffer of bytes, the      *)
(* thread that waits for a byte and the one that waits for room, and the   *)
(* lock for waiting.                                                       *)
(***************************************************************************)
EXTENDS Lists

CONSTANTS
  Byte,
  BufSize,   \* INTQ_BUFSIZE
  Handler,   \* the interrupt handler
  NoThread, NoByte

QueueOf(S) ==
  [buf : [0 .. BufSize - 1 -> Byte \cup {NoByte}],
   head : 0 .. BufSize - 1, tail : 0 .. BufSize - 1,
   waiter : [getc : S \cup {NoThread}, putc : S \cup {NoThread}],
   holder : S \cup {NoThread}, lock_waiters : Seq(S)]

intq_init ==
  [buf |-> [i \in 0 .. BufSize - 1 |-> NoByte], head |-> 0, tail |-> 0,
   waiter |-> [getc |-> NoThread, putc |-> NoThread],
   holder |-> NoThread, lock_waiters |-> <<>>]

(* The buffer: head is where the next byte is written, tail where the next *)
(* one is read; one place stays empty.                                     *)

next(pos) == (pos + 1) % BufSize

intq_empty(x) == x.head = x.tail

(* Bug: the end of the buffer is not wrapped around. *)
intq_full_Unwrapped(x) == x.head + 1 = x.tail

intq_full(x) == next(x.head) = x.tail

(* intq_getc and intq_putc after their loops, with the call of signal. *)
take(x) == [x EXCEPT !.tail = next(@), !.waiter.putc = NoThread]

(* Bug: a thread that waits for a byte is not woken. *)
store_NoSignal(x, b) == [x EXCEPT !.buf[x.head] = b, !.head = next(@)]

store(x, b) ==
  [x EXCEPT !.buf[x.head] = b, !.head = next(@), !.waiter.getc = NoThread]

(* The bytes between tail and head. *)
ContentsOf(x) ==
  [i \in 1 .. (x.head - x.tail) % BufSize |-> x.buf[(x.tail + i - 1) % BufSize]]

=============================================================================
