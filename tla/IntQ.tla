-------------------------------- MODULE IntQ --------------------------------
(***************************************************************************)
(* devices/intq.c: a circular buffer between threads and an interrupt      *)
(* handler.  Every function runs with interrupts off, so a call is one     *)
(* step up to where its thread blocks: in lock_acquire when another thread *)
(* has the queue's lock, or in wait, which sleeps holding that lock.       *)
(* Reading and writing do not take the lock; only waiting does.            *)
(***************************************************************************)
EXTENDS IntQBuffer

CONSTANT Thread   \* the threads that use the queue, all at the same end

ASSUME IntQAssumption ==
  /\ BufSize \in Nat /\ BufSize > 1
  /\ Handler \notin Thread /\ NoThread \notin Thread /\ NoByte \notin Byte

VARIABLES
  op,     \* what threads call, "getc" or "putc"; the handler calls the other
  q,      \* the struct intq; waiter.getc is not_empty, waiter.putc is not_full
  call,   \* where each thread is, and the byte it puts
  got     \* the last byte each thread, or the handler, removed

intqVars == <<op, q, call, got>>

Outside == [at |-> "outside", byte |-> NoByte]

IntQInit ==
  /\ op \in {"getc", "putc"}
  /\ q = intq_init
  /\ call = [t \in Thread |-> Outside]
  /\ got = [t \in Thread \cup {Handler} |-> NoByte]

-----------------------------------------------------------------------------
(* The loop that waits.  b is the byte that t puts, if it is at that end,  *)
(* and x the queue after what t did before it tests the condition.         *)

MustWait(x) == IF op = "getc" THEN intq_empty(x) ELSE intq_full(x)

Finish(t, b, x) ==
  /\ ~ MustWait(x)
  /\ q' = IF op = "getc" THEN take(x) ELSE store(x, b)
  /\ got' = IF op = "getc" THEN [got EXCEPT ![t] = x.buf[x.tail]] ELSE got
  /\ call' = [call EXCEPT ![t] = Outside]

wait(t, b, x) ==
  /\ MustWait(x)
  /\ q' = [x EXCEPT !.holder = t, !.waiter[op] = t]
  /\ call' = [call EXCEPT ![t] = [at |-> "waiting", byte |-> b]]
  /\ UNCHANGED got

LockBlocks(t, b, x) ==
  /\ x.holder # NoThread
  /\ q' = [x EXCEPT !.lock_waiters = Append(@, t)]
  /\ call' = [call EXCEPT ![t] = [at |-> "locking", byte |-> b]]
  /\ UNCHANGED got

Loop(t, b, x) ==
  \/ Finish(t, b, x)
  \/ x.holder = NoThread /\ wait(t, b, x)
  \/ MustWait(x) /\ LockBlocks(t, b, x)

(* A failed assertion stops the kernel. *)
Panicked == \E t \in Thread : call[t].at = "panic"

intq_getc(t) ==
  /\ ~ Panicked /\ op = "getc" /\ call[t] = Outside
  /\ Loop(t, NoByte, q)

intq_putc(t, b) ==
  /\ ~ Panicked /\ op = "putc" /\ call[t] = Outside
  /\ Loop(t, b, q)

(* A thread that signal has unblocked leaves wait, releases the lock and   *)
(* tests its condition again.                                              *)
woken(t) ==
  /\ ~ Panicked /\ call[t].at = "waiting" /\ q.waiter[op] # t
  /\ Loop(t, call[t].byte,
          [q EXCEPT !.holder = NoThread,
                    !.lock_waiters = IF @ = <<>> THEN <<>> ELSE Tail(@)])

(* A thread that lock_release has unblocked gets the lock, unless another  *)
(* thread has it by now, and calls wait, which asserts the condition that  *)
(* was tested before lock_acquire.                                         *)
lock_acquired(t) ==
  /\ ~ Panicked /\ call[t].at = "locking" /\ t \notin Members(q.lock_waiters)
  /\ \/ LockBlocks(t, call[t].byte, q)
     \/ q.holder = NoThread /\ wait(t, call[t].byte, q)
     \/ /\ q.holder = NoThread /\ ~ MustWait(q)
        /\ call' = [call EXCEPT ![t].at = "panic"]
        /\ UNCHANGED <<q, got>>

(* An interrupt handler is at the end where the threads are not, and calls *)
(* intq_getc and intq_putc only when they need not wait.                   *)
intr_getc ==
  /\ ~ Panicked /\ op = "putc" /\ ~ intq_empty(q)
  /\ q' = take(q)
  /\ got' = [got EXCEPT ![Handler] = q.buf[q.tail]]
  /\ UNCHANGED call

intr_putc(b) ==
  /\ ~ Panicked /\ op = "getc" /\ ~ intq_full(q)
  /\ q' = store(q, b)
  /\ UNCHANGED <<call, got>>

Resume(t) == woken(t) \/ lock_acquired(t)

IntQNext ==
  /\ UNCHANGED op
  /\ \/ \E t \in Thread : intq_getc(t) \/ (\E b \in Byte : intq_putc(t, b)) \/ Resume(t)
     \/ intr_getc
     \/ \E b \in Byte : intr_putc(b)

IntQSpec == IntQInit /\ [][IntQNext]_intqVars

-----------------------------------------------------------------------------

Queue == QueueOf(Thread)

Call == [at : {"outside", "locking", "waiting", "panic"}, byte : Byte \cup {NoByte}]

(* The shape of the state. *)
IntQTypeOK ==
  /\ op \in {"getc", "putc"} /\ q \in Queue
  /\ call \in [Thread -> Call]
  /\ got \in [Thread \cup {Handler} -> Byte \cup {NoByte}]

Contents == ContentsOf(q)

F == INSTANCE Fifo WITH
  User <- Thread \cup {Handler}, Capacity <- BufSize - 1, items <- Contents

(* Whatever threads wait, barge in or are interrupted, the bytes come out  *)
(* in the order they went in, each of them once, and none is overwritten:  *)
(* intq.c is a first-in first-out queue of BufSize - 1 places.             *)
ImplementsFifo == F!Spec

(* wait and signal: a thread that sleeps is registered, and its condition  *)
(* still holds; so getc and putc never leave a sleeper behind that could   *)
(* go on.  One waiter field is enough because only the lock's holder uses  *)
(* it.                                                                     *)
SleepersMustWait ==
  /\ \A t \in Thread : q.waiter[op] = t => q.holder = t /\ MustWait(q)
  /\ \A t \in Thread : call[t].at = "waiting" => q.holder = t

(* A thread that puts carries its byte through all of its waits. *)
BytesCarried ==
  \A t \in Thread : op = "putc" /\ call[t].at \in {"waiting", "locking"} => call[t].byte \in Byte

(* The inductive invariant. *)
IInv == IntQTypeOK /\ SleepersMustWait /\ BytesCarried

=============================================================================
