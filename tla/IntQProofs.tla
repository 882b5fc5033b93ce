----------------------------- MODULE IntQProofs -----------------------------
(***************************************************************************)
(* The interrupt queue (module IntQ) is a bounded first-in first-out queue *)
(* and leaves no sleeper behind; the serial port (module Serial), made of  *)
(* two of them, misses no interrupt and sends in order.  All of it holds   *)
(* for every size of the buffers and every number of threads.              *)
(***************************************************************************)
EXTENDS IntQ, Serial, SequenceTheorems, TLAPS

Place == 0 .. BufSize - 1

(* How many bytes there are, and where the i-th is, without %. *)
Count(h, t) == IF h >= t THEN h - t ELSE h - t + BufSize
At(t, i) == IF t + i - 1 < BufSize THEN t + i - 1 ELSE t + i - 1 - BufSize

(* What % does on the numbers that intq.c meets. *)
LEMMA Wraps ==
  /\ \A p \in Place : next(p) = IF p + 1 = BufSize THEN 0 ELSE p + 1
  /\ \A h, t \in Place : (h - t) % BufSize = Count(h, t)
  /\ \A t \in Place, i \in 1 .. BufSize : (t + i - 1) % BufSize = At(t, i)
<1>1. \A x \in Int : 0 <= x /\ x < BufSize => x % BufSize = x
  BY IntQAssumption, SMT
<1>2. \A x \in Int : BufSize <= x /\ x < 2 * BufSize => x % BufSize = x - BufSize
  BY IntQAssumption, SMT
<1>3. \A x \in Int : 0 - BufSize <= x /\ x < 0 => x % BufSize = x + BufSize
  BY IntQAssumption, SMT
<1>4. ASSUME NEW p \in Place
      PROVE  next(p) = IF p + 1 = BufSize THEN 0 ELSE p + 1
  <2>1. p + 1 \in Int /\ 0 <= p + 1 /\ p + 1 <= BufSize
    BY IntQAssumption DEF Place
  <2>2. CASE p + 1 = BufSize
    BY <2>1, <2>2, <1>2, IntQAssumption DEF next
  <2>3. CASE p + 1 # BufSize
    BY <2>1, <2>3, <1>1, IntQAssumption DEF next
  <2> QED
    BY <2>2, <2>3
<1>5. ASSUME NEW h \in Place, NEW t \in Place
      PROVE  (h - t) % BufSize = Count(h, t)
  <2>1. h - t \in Int /\ 0 - BufSize <= h - t /\ h - t < BufSize
    BY IntQAssumption DEF Place
  <2>2. CASE h >= t
    <3>1. 0 <= h - t
      BY <2>2 DEF Place
    <3> QED
      BY <2>1, <2>2, <3>1, <1>1 DEF Count
  <2>3. CASE ~ (h >= t)
    <3>1. h - t < 0
      BY <2>3 DEF Place
    <3> QED
      BY <2>1, <2>3, <3>1, <1>3 DEF Count
  <2> QED
    BY <2>2, <2>3
<1>6. ASSUME NEW t \in Place, NEW i \in 1 .. BufSize
      PROVE  (t + i - 1) % BufSize = At(t, i)
  <2>1. t + i - 1 \in Int /\ 0 <= t + i - 1 /\ t + i - 1 < 2 * BufSize
    BY IntQAssumption DEF Place
  <2>2. CASE t + i - 1 < BufSize
    BY <2>1, <2>2, <1>1 DEF At
  <2>3. CASE ~ (t + i - 1 < BufSize)
    <3>1. BufSize <= t + i - 1
      BY <2>1, <2>3, IntQAssumption
    <3>2. (t + i - 1) % BufSize = (t + i - 1) - BufSize
      BY <2>1, <3>1, <1>2, Zenon
    <3>3. At(t, i) = (t + i - 1) - BufSize
      BY <2>1, <2>3, IntQAssumption DEF At, Place
    <3> QED
      BY <3>2, <3>3, Zenon
  <2> QED
    BY <2>2, <2>3
<1> QED
  BY <1>4, <1>5, <1>6

(* head and tail move round the buffer: a byte more at the head, a byte    *)
(* less at the tail.                                                       *)
LEMMA Moves ==
  ASSUME NEW h \in Place, NEW t \in Place
  PROVE  /\ next(h) \in Place
         /\ Count(h, t) \in Place
         /\ next(h) # t => Count(next(h), t) = Count(h, t) + 1 /\ Count(h, t) < BufSize - 1
         /\ h # t => Count(h, t) > 0 /\ Count(h, next(t)) = Count(h, t) - 1
<1>1. /\ next(h) = IF h + 1 = BufSize THEN 0 ELSE h + 1
      /\ next(t) = IF t + 1 = BufSize THEN 0 ELSE t + 1
  BY Wraps
<1> QED
  BY <1>1, IntQAssumption DEF Place, Count

(* The places of the bytes: head is the one behind the last byte, and the  *)
(* second byte is the first one after a byte was taken.                    *)
LEMMA Places ==
  ASSUME NEW h \in Place, NEW t \in Place, NEW i \in 1 .. Count(h, t) + 1
  PROVE  /\ i \in 1 .. BufSize
         /\ At(t, i) \in Place
         /\ At(t, i) = h <=> i = Count(h, t) + 1
         /\ At(t, 1) = t
         /\ i + 1 \in 1 .. BufSize => At(next(t), i) = At(t, i + 1)
<1>1. next(t) = IF t + 1 = BufSize THEN 0 ELSE t + 1
  BY Wraps
<1>2. i \in Nat /\ i > 0 /\ i <= Count(h, t) + 1
  BY IntQAssumption DEF Place, Count
<1>3. i \in 1 .. BufSize
  BY <1>2, IntQAssumption DEF Place, Count
<1>4. At(t, i) \in Place
  BY <1>3, IntQAssumption DEF Place, At
<1>5. At(t, i) = h <=> i = Count(h, t) + 1
  BY <1>2, <1>3, IntQAssumption DEF Place, At, Count
<1>6. i + 1 \in 1 .. BufSize => At(next(t), i) = At(t, i + 1)
  BY <1>1, <1>2, <1>3, IntQAssumption DEF Place, At
<1>7. At(t, 1) = t
  BY IntQAssumption DEF Place, At
<1> QED
  BY <1>3, <1>4, <1>5, <1>6, <1>7

(* The contents as a sequence. *)
LEMMA ContentsSeqIn ==
  ASSUME NEW W, NEW x \in QueueOf(W)
  PROVE  /\ x.head \in Place /\ x.tail \in Place
         /\ x.buf \in [Place -> Byte \cup {NoByte}]
         /\ ContentsOf(x) \in Seq(Byte \cup {NoByte})
         /\ Len(ContentsOf(x)) = Count(x.head, x.tail)
         /\ \A i \in 1 .. Count(x.head, x.tail) : ContentsOf(x)[i] = x.buf[At(x.tail, i)]
<1> DEFINE n == Count(x.head, x.tail)
<1>1. /\ x.head \in Place /\ x.tail \in Place
      /\ x.buf \in [Place -> Byte \cup {NoByte}]
  BY DEF QueueOf, Place
<1>2. n \in Place /\ (x.head - x.tail) % BufSize = n
  BY <1>1, Moves, Wraps, Zenon
<1> HIDE DEF n
<1> n \in Nat
  BY <1>2, IntQAssumption DEF Place
<1>3. ContentsOf(x) = [i \in 1 .. n |-> x.buf[(x.tail + i - 1) % BufSize]]
  BY <1>2 DEF ContentsOf
<1>4. ASSUME NEW i \in 1 .. n
      PROVE  /\ (x.tail + i - 1) % BufSize = At(x.tail, i)
             /\ x.buf[At(x.tail, i)] \in Byte \cup {NoByte}
  <2>1. i \in 1 .. n + 1
    BY <1>2
  <2>2. i \in 1 .. BufSize /\ At(x.tail, i) \in Place
    BY <1>1, <2>1, Places DEF n
  <2> QED
    BY <1>1, <2>2, Wraps
<1>5. ContentsOf(x) = [i \in 1 .. n |-> x.buf[At(x.tail, i)]]
  BY <1>3, <1>4
<1>6. ContentsOf(x) \in Seq(Byte \cup {NoByte}) /\ Len(ContentsOf(x)) = n
  BY <1>2, <1>4, <1>5
<1> QED
  BY <1>1, <1>5, <1>6 DEF n

(* store appends a byte when the buffer is not full. *)
LEMMA StoredIn ==
  ASSUME NEW W, NEW x \in QueueOf(W), NEW b \in Byte, ~ intq_full(x)
  PROVE  /\ store(x, b) \in QueueOf(W)
         /\ Len(ContentsOf(x)) < BufSize - 1
         /\ ContentsOf(store(x, b)) = Append(ContentsOf(x), b)
<1> DEFINE y == store(x, b)
           n == Count(x.head, x.tail)
           S == Byte \cup {NoByte}
<1>1. /\ x.head \in Place /\ x.tail \in Place /\ x.buf \in [Place -> S]
      /\ next(x.head) \in Place /\ next(x.head) # x.tail
  BY ContentsSeqIn, Moves DEF intq_full
<1>2. /\ y \in QueueOf(W)
      /\ y.head = next(x.head) /\ y.tail = x.tail /\ y.buf = [x.buf EXCEPT ![x.head] = b]
  BY <1>1, Zenon DEF store, QueueOf, Place
<1> HIDE DEF y
<1>3. n \in Nat /\ Count(y.head, y.tail) = n + 1 /\ n < BufSize - 1
  <2>1. n \in Place /\ Count(next(x.head), x.tail) = n + 1 /\ n < BufSize - 1
    BY <1>1, Moves, Zenon
  <2> HIDE DEF n
  <2> QED
    BY <1>2, <2>1, IntQAssumption DEF Place
<1>4. /\ ContentsOf(x) \in Seq(S) /\ Len(ContentsOf(x)) = n
      /\ ContentsOf(y) \in Seq(S) /\ Len(ContentsOf(y)) = n + 1
      /\ \A i \in 1 .. n : ContentsOf(x)[i] = x.buf[At(x.tail, i)]
      /\ \A i \in 1 .. n + 1 : ContentsOf(y)[i] = y.buf[At(x.tail, i)]
  <2>1. /\ ContentsOf(x) \in Seq(S) /\ Len(ContentsOf(x)) = n
        /\ \A i \in 1 .. n : ContentsOf(x)[i] = x.buf[At(x.tail, i)]
    BY ContentsSeqIn
  <2>2. /\ ContentsOf(y) \in Seq(S) /\ Len(ContentsOf(y)) = Count(y.head, y.tail)
        /\ \A i \in 1 .. Count(y.head, y.tail) : ContentsOf(y)[i] = y.buf[At(y.tail, i)]
    BY <1>2, ContentsSeqIn, Zenon
  <2> QED
    BY <1>2, <1>3, <2>1, <2>2
<1>5. ASSUME NEW i \in 1 .. n + 1
      PROVE  ContentsOf(y)[i] = Append(ContentsOf(x), b)[i]
  <2>1. At(x.tail, i) \in Place /\ (At(x.tail, i) = x.head <=> i = n + 1)
    BY <1>1, Places
  <2> HIDE DEF n
  <2>2. CASE i = n + 1
    BY <1>1, <1>2, <1>3, <1>4, <2>1, <2>2
  <2>3. CASE i # n + 1
    <3>1. i \in 1 .. n
      BY <1>3, <2>3
    <3>2. ContentsOf(y)[i] = ContentsOf(x)[i]
      BY <1>1, <1>2, <1>4, <2>1, <2>3, <3>1
    <3> QED
      BY <1>4, <3>1, <3>2
  <2> QED
    BY <2>2, <2>3, Zenon
<1> HIDE DEF n
<1>6. Append(ContentsOf(x), b) \in Seq(S) /\ Len(Append(ContentsOf(x), b)) = n + 1
  BY <1>4
<1>7. ContentsOf(y) = Append(ContentsOf(x), b)
  BY <1>4, <1>5, <1>6, SeqEqual
<1> QED
  BY <1>2, <1>3, <1>4, <1>7 DEF y

(* take removes the oldest byte when the buffer is not empty. *)
LEMMA TakenIn ==
  ASSUME NEW W, NEW x \in QueueOf(W), ~ intq_empty(x)
  PROVE  /\ take(x) \in QueueOf(W)
         /\ ContentsOf(x) # <<>>
         /\ x.buf[x.tail] = Head(ContentsOf(x))
         /\ x.buf[x.tail] \in Byte \cup {NoByte}
         /\ ContentsOf(take(x)) = Tail(ContentsOf(x))
<1> DEFINE y == take(x)
           n == Count(x.head, x.tail)
           S == Byte \cup {NoByte}
<1>1. /\ x.head \in Place /\ x.tail \in Place /\ x.buf \in [Place -> S]
      /\ next(x.tail) \in Place /\ x.head # x.tail
  BY ContentsSeqIn, Moves DEF intq_empty
<1>2. y \in QueueOf(W) /\ y.head = x.head /\ y.tail = next(x.tail) /\ y.buf = x.buf
  BY <1>1, Zenon DEF take, QueueOf, Place
<1> HIDE DEF y
<1>3. n \in Nat /\ n > 0 /\ n < BufSize /\ Count(y.head, y.tail) = n - 1
  <2>1. n \in Place /\ n > 0 /\ Count(x.head, next(x.tail)) = n - 1
    BY <1>1, Moves, Zenon
  <2> HIDE DEF n
  <2> QED
    BY <1>2, <2>1, IntQAssumption DEF Place
<1>4. /\ ContentsOf(x) \in Seq(S) /\ Len(ContentsOf(x)) = n
      /\ ContentsOf(y) \in Seq(S) /\ Len(ContentsOf(y)) = n - 1
      /\ \A i \in 1 .. n : ContentsOf(x)[i] = x.buf[At(x.tail, i)]
      /\ \A i \in 1 .. n - 1 : ContentsOf(y)[i] = x.buf[At(next(x.tail), i)]
  <2>1. /\ ContentsOf(x) \in Seq(S) /\ Len(ContentsOf(x)) = n
        /\ \A i \in 1 .. n : ContentsOf(x)[i] = x.buf[At(x.tail, i)]
    BY ContentsSeqIn
  <2>2. /\ ContentsOf(y) \in Seq(S) /\ Len(ContentsOf(y)) = Count(y.head, y.tail)
        /\ \A i \in 1 .. Count(y.head, y.tail) : ContentsOf(y)[i] = y.buf[At(y.tail, i)]
    BY <1>2, ContentsSeqIn
  <2> QED
    BY <1>2, <1>3, <2>1, <2>2
<1>5. ASSUME NEW i \in 1 .. n - 1
      PROVE  ContentsOf(y)[i] = ContentsOf(x)[i + 1]
  <2>1. i \in 1 .. n + 1 /\ i + 1 \in 1 .. n /\ i + 1 \in 1 .. BufSize
    BY <1>3, IntQAssumption
  <2>2. At(next(x.tail), i) = At(x.tail, i + 1)
    BY <1>1, <2>1, Places
  <2> QED
    BY <1>4, <2>1, <2>2
<1>6. x.buf[x.tail] = ContentsOf(x)[1]
  <2>1. 1 \in 1 .. n /\ 1 \in 1 .. n + 1
    BY <1>3
  <2>2. At(x.tail, 1) = x.tail
    BY <1>1, <2>1, Places
  <2> QED
    BY <1>4, <2>1, <2>2
<1> HIDE DEF n
<1>7. ContentsOf(x) # <<>>
  BY <1>3, <1>4
<1>8. /\ Tail(ContentsOf(x)) \in Seq(S) /\ Len(Tail(ContentsOf(x))) = n - 1
      /\ \A i \in 1 .. n - 1 : Tail(ContentsOf(x))[i] = ContentsOf(x)[i + 1]
  BY <1>3, <1>4, <1>7, HeadTailProperties
<1>9. ContentsOf(y) = Tail(ContentsOf(x))
  BY <1>4, <1>5, <1>8, SeqEqual
<1> QED
  BY <1>1, <1>2, <1>4, <1>6, <1>7, <1>9 DEF y

(* The contents of the queue of module IntQ. *)
LEMMA ContentsSeq ==
  ASSUME NEW x \in Queue
  PROVE  /\ x.head \in Place /\ x.tail \in Place
         /\ Len(ContentsOf(x)) = Count(x.head, x.tail)
         /\ ContentsOf(x) \in Seq(Byte \cup {NoByte})
BY ContentsSeqIn DEF Queue

(* store, on the queue of module IntQ. *)
LEMMA Stored ==
  ASSUME NEW x \in Queue, NEW b \in Byte, ~ intq_full(x)
  PROVE  /\ store(x, b) \in Queue
         /\ Len(ContentsOf(x)) < BufSize - 1
         /\ ContentsOf(store(x, b)) = Append(ContentsOf(x), b)
BY StoredIn DEF Queue

(* take, on the queue of module IntQ. *)
LEMMA Taken ==
  ASSUME NEW x \in Queue, ~ intq_empty(x)
  PROVE  /\ take(x) \in Queue
         /\ ContentsOf(x) # <<>>
         /\ x.buf[x.tail] = Head(ContentsOf(x))
         /\ x.buf[x.tail] \in Byte \cup {NoByte}
         /\ ContentsOf(take(x)) = Tail(ContentsOf(x))
BY TakenIn DEF Queue

-----------------------------------------------------------------------------

(* t stands before the test of its loop with byte b, and x is the queue    *)
(* then: q, but for the lock if t has just released it.                    *)
Looping(t, b, x) ==
  /\ t \in Thread /\ b \in Byte \cup {NoByte} /\ (op = "putc" => b \in Byte)
  /\ x \in Queue
  /\ x.head = q.head /\ x.tail = q.tail /\ x.buf = q.buf /\ x.waiter = q.waiter
  /\ \A u \in Thread : u # t /\ call[u].at = "waiting" => x.holder = u
  /\ \A u \in Thread : x.waiter[op] = u => x.holder = u

(* One call of take or store by u, or nothing: a step of module Fifo. *)
FifoStep == [F!Next]_<<Contents, got>>

(* A thread in the loop sees the bytes of q, and waits for the same reason. *)
LEMMA SameQueue ==
  ASSUME NEW t, NEW b, NEW x, Looping(t, b, x)
  PROVE  ContentsOf(x) = ContentsOf(q) /\ MustWait(x) = MustWait(q)
BY DEF Looping, ContentsOf, MustWait, intq_empty, intq_full

(* intq_putc writes one byte at the end of the bytes in the buffer. *)
LEMMA PutStep ==
  ASSUME q \in Queue, NEW x \in Queue, ContentsOf(x) = ContentsOf(q), NEW b \in Byte,
         ~ intq_full(x), q' = store(x, b), UNCHANGED got
  PROVE  FifoStep
<1>1. Contents' = Append(Contents, b) /\ Len(Contents) < BufSize - 1
  BY Stored DEF Contents
<1> QED
  BY <1>1 DEF FifoStep, F!Next, F!Put

(* intq_getc reads the first of them. *)
LEMMA GetStep ==
  ASSUME q \in Queue, NEW x \in Queue, ContentsOf(x) = ContentsOf(q),
         NEW u \in Thread \cup {Handler},
         ~ intq_empty(x), q' = take(x), got' = [got EXCEPT ![u] = x.buf[x.tail]]
  PROVE  FifoStep
<1>1. Contents' = Tail(Contents) /\ Contents # <<>> /\ x.buf[x.tail] = Head(Contents)
  BY Taken DEF Contents
<1> QED
  BY <1>1, Zenon DEF FifoStep, F!Next, F!Get

(* A thread that need not wait. *)
LEMMA FinishStep ==
  ASSUME IInv, UNCHANGED op, NEW t, NEW b, NEW x, Looping(t, b, x), Finish(t, b, x)
  PROVE  IInv' /\ FifoStep
<1>1. /\ op \in {"getc", "putc"} /\ q \in Queue /\ x \in Queue
      /\ t \in Thread /\ t \in Thread \cup {Handler}
      /\ call \in [Thread -> Call] /\ call' = [call EXCEPT ![t] = Outside]
      /\ got \in [Thread \cup {Handler} -> Byte \cup {NoByte}]
  BY DEF IInv, IntQTypeOK, Looping, Finish
<1>2. ContentsOf(x) = ContentsOf(q) /\ MustWait(x) = MustWait(q) /\ ~ MustWait(x)
  BY SameQueue DEF Finish
<1>3. \A u \in Thread : x.waiter[op] # u
  BY <1>2 DEF IInv, SleepersMustWait, Looping
<1>4. call' \in [Thread -> Call] /\ BytesCarried'
  BY <1>1 DEF IInv, BytesCarried, Outside, Call
<1>5. CASE op = "getc"
  <2>1. ~ intq_empty(x) /\ q' = take(x) /\ got' = [got EXCEPT ![t] = x.buf[x.tail]]
    BY <1>2, <1>5 DEF Finish, MustWait
  <2>2. q' \in Queue /\ x.buf[x.tail] \in Byte \cup {NoByte}
    BY <1>1, <2>1, Taken
  <2>3. IntQTypeOK'
    BY <1>1, <1>4, <2>1, <2>2 DEF IntQTypeOK
  <2>4. q'.holder = x.holder /\ q'.waiter[op] = x.waiter[op]
    BY <1>1, <1>5, <2>1 DEF take, Queue, QueueOf
  <2>5. SleepersMustWait'
    BY <1>1, <1>3, <2>4 DEF SleepersMustWait, Looping, Outside, Call
  <2>6. FifoStep
    BY <1>1, <1>2, <2>1, GetStep, Zenon
  <2> QED
    BY <1>4, <2>3, <2>5, <2>6 DEF IInv
<1>6. CASE op = "putc"
  <2>1. ~ intq_full(x) /\ q' = store(x, b) /\ got' = got /\ b \in Byte
    BY <1>2, <1>6 DEF Finish, MustWait, Looping
  <2>2. q' \in Queue
    BY <1>1, <2>1, Stored
  <2>3. IntQTypeOK'
    BY <1>1, <1>4, <2>1, <2>2 DEF IntQTypeOK
  <2>4. q'.holder = x.holder /\ q'.waiter[op] = x.waiter[op]
    BY <1>1, <1>6, <2>1 DEF store, Queue, QueueOf
  <2>5. SleepersMustWait'
    BY <1>1, <1>3, <2>4 DEF SleepersMustWait, Looping, Outside, Call
  <2>6. FifoStep
    BY <1>1, <1>2, <2>1, PutStep
  <2> QED
    BY <1>4, <2>3, <2>5, <2>6 DEF IInv
<1> QED
  BY <1>1, <1>5, <1>6

(* A thread that sleeps in wait, with the lock. *)
LEMMA WaitStep ==
  ASSUME IInv, UNCHANGED op, NEW t, NEW b, NEW x, Looping(t, b, x),
         x.holder = NoThread, wait(t, b, x)
  PROVE  IInv' /\ FifoStep
<1>1. /\ op \in {"getc", "putc"} /\ q \in Queue /\ x \in Queue /\ t \in Thread
      /\ call \in [Thread -> Call] /\ call' = [call EXCEPT ![t] = [at |-> "waiting", byte |-> b]]
      /\ got' = got /\ q' = [x EXCEPT !.holder = t, !.waiter[op] = t]
      /\ \A u \in Thread : u # t => call[u].at # "waiting"
  BY IntQAssumption DEF IInv, IntQTypeOK, Looping, wait
<1>2. ContentsOf(x) = ContentsOf(q) /\ MustWait(x)
  BY SameQueue DEF wait
<1>3. /\ q' \in Queue /\ q'.head = x.head /\ q'.tail = x.tail /\ q'.buf = x.buf
      /\ q'.holder = t /\ q'.waiter[op] = t
  BY <1>1, Zenon DEF Queue, QueueOf
<1>4. call' \in [Thread -> Call] /\ BytesCarried'
  BY <1>1 DEF IInv, BytesCarried, Call, Looping
<1>5. IntQTypeOK'
  BY <1>1, <1>3, <1>4 DEF IntQTypeOK, IInv
<1>6. MustWait(q)'
  BY <1>2, <1>3 DEF MustWait, intq_empty, intq_full
<1>7. SleepersMustWait'
  BY <1>1, <1>3, <1>6 DEF SleepersMustWait, Call
<1>8. Contents' = Contents
  BY <1>2, <1>3 DEF Contents, ContentsOf
<1> QED
  BY <1>1, <1>4, <1>5, <1>7, <1>8 DEF IInv, FifoStep

(* A thread that finds the lock taken. *)
LEMMA BlockStep ==
  ASSUME IInv, UNCHANGED op, NEW t, NEW b, NEW x, Looping(t, b, x), LockBlocks(t, b, x)
  PROVE  IInv' /\ FifoStep
<1>1. /\ op \in {"getc", "putc"} /\ q \in Queue /\ x \in Queue /\ t \in Thread
      /\ call \in [Thread -> Call] /\ call' = [call EXCEPT ![t] = [at |-> "locking", byte |-> b]]
      /\ got' = got /\ q' = [x EXCEPT !.lock_waiters = Append(@, t)]
  BY DEF IInv, IntQTypeOK, Looping, LockBlocks
<1>2. ContentsOf(x) = ContentsOf(q) /\ MustWait(x) = MustWait(q)
  BY SameQueue
<1>3. /\ q' \in Queue /\ q'.head = x.head /\ q'.tail = x.tail /\ q'.buf = x.buf
      /\ q'.holder = x.holder /\ q'.waiter = x.waiter
  <2>1. x.lock_waiters \in Seq(Thread)
    BY <1>1 DEF Queue, QueueOf
  <2>2. Append(x.lock_waiters, t) \in Seq(Thread)
    BY <1>1, <2>1, AppendProperties
  <2> QED
    BY <1>1, <2>2, Zenon DEF Queue, QueueOf
<1>4. call' \in [Thread -> Call] /\ BytesCarried'
  BY <1>1 DEF IInv, BytesCarried, Call, Looping
<1>5. IntQTypeOK'
  BY <1>1, <1>3, <1>4 DEF IntQTypeOK, IInv
<1>6. MustWait(q)' = MustWait(q)
  BY <1>2, <1>3 DEF MustWait, intq_empty, intq_full
<1>7. SleepersMustWait'
  BY <1>1, <1>3, <1>6 DEF IInv, SleepersMustWait, Looping, Call
<1>8. Contents' = Contents
  BY <1>2, <1>3 DEF Contents, ContentsOf
<1> QED
  BY <1>1, <1>4, <1>5, <1>7, <1>8 DEF IInv, FifoStep

(* A turn of the while loop of intq_getc or intq_putc, whichever way it    *)
(* goes, keeps the invariant and is a step of the bounded queue.           *)
LEMMA LoopStep ==
  ASSUME IInv, UNCHANGED op, NEW t, NEW b, NEW x, Looping(t, b, x), Loop(t, b, x)
  PROVE  IInv' /\ FifoStep
BY FinishStep, WaitStep, BlockStep DEF Loop

-----------------------------------------------------------------------------

(* What intq_init leaves satisfies the invariant and is an empty queue. *)
LEMMA InitIInv == IntQInit => IInv /\ F!Init
<1> SUFFICES ASSUME IntQInit PROVE IInv /\ F!Init
  OBVIOUS
<1>1. q = intq_init /\ intq_init \in Queue
  BY IntQAssumption DEF IntQInit, intq_init, Queue, QueueOf
<1>2. IntQTypeOK
  BY <1>1 DEF IntQInit, IntQTypeOK, Outside, Call
<1>3. SleepersMustWait /\ BytesCarried
  BY IntQAssumption DEF IntQInit, SleepersMustWait, BytesCarried, intq_init, Outside
<1>4. Contents = <<>>
  <2>1. q.head = 0 /\ q.tail = 0 /\ 0 \in Place /\ Count(0, 0) = 0
    BY <1>1, IntQAssumption DEF intq_init, Place, Count
  <2> QED
    BY <1>1, <2>1, ContentsSeq DEF Contents
<1> QED
  BY <1>2, <1>3, <1>4 DEF IInv, F!Init, IntQInit

(* Every step keeps the invariant and is a step of the abstract queue: a   *)
(* byte more at one end, a byte less at the other, or nothing.             *)
LEMMA NextIInv == IInv /\ [IntQNext]_intqVars => IInv' /\ FifoStep
<1> SUFFICES ASSUME IInv, [IntQNext]_intqVars PROVE IInv' /\ FifoStep
  OBVIOUS
<1> USE DEF IInv
<1>1. CASE UNCHANGED intqVars
  BY <1>1 DEF intqVars, IntQTypeOK, SleepersMustWait, BytesCarried, MustWait, intq_empty, intq_full,
              FifoStep, Contents, ContentsOf
<1>2. ASSUME IntQNext, NEW t \in Thread, intq_getc(t)
      PROVE  IInv' /\ FifoStep
  <2>1. Looping(t, NoByte, q)
    BY <1>2 DEF Looping, IntQTypeOK, SleepersMustWait, intq_getc, Outside
  <2> QED
    BY <1>2, <2>1, LoopStep DEF IntQNext, intq_getc
<1>3. ASSUME IntQNext, NEW t \in Thread, NEW b \in Byte, intq_putc(t, b)
      PROVE  IInv' /\ FifoStep
  <2>1. Looping(t, b, q)
    BY <1>3 DEF Looping, IntQTypeOK, SleepersMustWait, intq_putc, Outside
  <2> QED
    BY <1>3, <2>1, LoopStep DEF IntQNext, intq_putc
<1>4. ASSUME IntQNext, NEW t \in Thread, woken(t)
      PROVE  IInv' /\ FifoStep
  <2> DEFINE x == [q EXCEPT !.holder = NoThread,
                            !.lock_waiters = IF @ = <<>> THEN <<>> ELSE Tail(@)]
  <2>1. /\ q \in Queue /\ call[t] \in Call /\ call[t].at = "waiting" /\ q.waiter[op] # t
        /\ q.holder = t
    BY <1>4 DEF woken, IntQTypeOK, SleepersMustWait
  <2>2. (IF q.lock_waiters = <<>> THEN <<>> ELSE Tail(q.lock_waiters)) \in Seq(Thread)
    <3>1. q.lock_waiters \in Seq(Thread)
      BY <2>1 DEF Queue, QueueOf
    <3> QED
      BY <3>1
  <2>3. x \in Queue /\ x.head = q.head /\ x.tail = q.tail /\ x.buf = q.buf /\ x.waiter = q.waiter
    BY <2>1, <2>2, Zenon DEF Queue, QueueOf
  <2>4. \A u \in Thread : q.waiter[op] # u /\ (u # t => call[u].at # "waiting")
    BY <2>1 DEF SleepersMustWait
  <2>5. call[t].byte \in Byte \cup {NoByte} /\ (op = "putc" => call[t].byte \in Byte)
    BY <2>1 DEF Call, BytesCarried
  <2> HIDE DEF x
  <2>6. Looping(t, call[t].byte, x)
    BY <2>3, <2>4, <2>5 DEF Looping
  <2>7. Loop(t, call[t].byte, x)
    BY <1>4 DEF woken, x
  <2> QED
    BY <1>4, <2>6, <2>7, LoopStep DEF IntQNext
<1>5. ASSUME IntQNext, NEW t \in Thread, lock_acquired(t)
      PROVE  IInv' /\ FifoStep
  <2>1. /\ q \in Queue /\ call \in [Thread -> Call] /\ call[t] \in Call
        /\ call[t].at = "locking" /\ UNCHANGED op
    BY <1>5 DEF lock_acquired, IntQTypeOK, IntQNext
  <2>2. call[t].byte \in Byte \cup {NoByte} /\ (op = "putc" => call[t].byte \in Byte)
    BY <2>1 DEF Call, BytesCarried
  <2>3. Looping(t, call[t].byte, q)
    BY <2>1, <2>2 DEF Looping, SleepersMustWait
  <2>4. CASE LockBlocks(t, call[t].byte, q)
    BY <2>1, <2>3, <2>4, BlockStep
  <2>5. CASE q.holder = NoThread /\ wait(t, call[t].byte, q)
    BY <2>1, <2>3, <2>5, WaitStep
  <2>6. CASE call' = [call EXCEPT ![t].at = "panic"] /\ UNCHANGED <<q, got>>
    <3>1. call' \in [Thread -> Call] /\ \A u \in Thread : call'[u].at = "waiting" => u # t /\ call[u].at = "waiting"
      BY <2>1, <2>6 DEF Call
    <3>2. IntQTypeOK' /\ SleepersMustWait'
      BY <2>1, <2>6, <3>1 DEF IntQTypeOK, SleepersMustWait, MustWait, intq_empty, intq_full
    <3>3. BytesCarried'
      BY <2>1, <2>6 DEF BytesCarried, Call
    <3>4. FifoStep
      BY <2>6 DEF FifoStep, Contents, ContentsOf
    <3> QED
      BY <3>2, <3>3, <3>4
  <2> QED
    BY <1>5, <2>4, <2>5, <2>6 DEF lock_acquired
<1>6. ASSUME IntQNext, intr_getc
      PROVE  IInv' /\ FifoStep
  <2>1. /\ q \in Queue /\ op = "putc" /\ UNCHANGED <<op, call>> /\ ~ intq_empty(q) /\ q' = take(q)
        /\ got' = [got EXCEPT ![Handler] = q.buf[q.tail]]
    BY <1>6 DEF intr_getc, IntQTypeOK, IntQNext
  <2>2. q' \in Queue /\ q.buf[q.tail] \in Byte \cup {NoByte}
    BY <2>1, Taken
  <2>3. q'.holder = q.holder /\ q'.waiter["putc"] = NoThread
    BY <2>1 DEF take, Queue, QueueOf
  <2>4. IntQTypeOK' /\ BytesCarried'
    BY <2>1, <2>2 DEF IntQTypeOK, BytesCarried
  <2>5. SleepersMustWait'
    BY <2>1, <2>3, IntQAssumption DEF SleepersMustWait
  <2>6. FifoStep
    BY <2>1, GetStep, Zenon
  <2> QED
    BY <2>4, <2>5, <2>6
<1>7. ASSUME IntQNext, NEW b \in Byte, intr_putc(b)
      PROVE  IInv' /\ FifoStep
  <2>1. /\ q \in Queue /\ op = "getc" /\ UNCHANGED <<op, call, got>> /\ ~ intq_full(q)
        /\ q' = store(q, b)
    BY <1>7 DEF intr_putc, IntQTypeOK, IntQNext
  <2>2. q' \in Queue
    BY <2>1, Stored
  <2>3. q'.holder = q.holder /\ q'.waiter["getc"] = NoThread
    BY <2>1 DEF store, Queue, QueueOf
  <2>4. IntQTypeOK' /\ BytesCarried'
    BY <2>1, <2>2 DEF IntQTypeOK, BytesCarried
  <2>5. SleepersMustWait'
    BY <2>1, <2>3, IntQAssumption DEF SleepersMustWait
  <2>6. FifoStep
    BY <2>1, PutStep
  <2> QED
    BY <2>4, <2>5, <2>6
<1> QED
  BY <1>1, <1>2, <1>3, <1>4, <1>5, <1>6, <1>7 DEF IntQNext, Resume

(* The inductive invariant holds of every reachable state of intq.c. *)
LEMMA Invariance == IntQSpec => []IInv
<1>1. IntQInit => IInv
  BY InitIInv
<1>2. IInv /\ [IntQNext]_intqVars => IInv'
  BY NextIInv
<1> QED
  BY <1>1, <1>2, PTL DEF IntQSpec

(* No thread sleeps in intq.c's wait beside a byte it could take or a      *)
(* place it could fill, for any number of threads and size of the buffer.  *)
THEOREM NobodySleepsOn == IntQSpec => []SleepersMustWait
<1>1. IInv => SleepersMustWait
  BY DEF IInv
<1> QED
  BY <1>1, Invariance, PTL

(* intq.c implements a first-in first-out queue of BufSize - 1 places: no  *)
(* byte is lost, doubled or overtaken.                                     *)
THEOREM IsFifo == IntQSpec => ImplementsFifo
<1>1. IntQInit => F!Init
  BY InitIInv
<1>2. IInv /\ [IntQNext]_intqVars => [F!Next]_<<Contents, got>>
  BY NextIInv DEF FifoStep
<1> QED
  BY <1>1, <1>2, Invariance, PTL DEF IntQSpec, ImplementsFifo, F!Spec

-----------------------------------------------------------------------------
(* The serial port (module Serial): an input queue and an output queue.    *)

(* A thread in serial_putc carries its byte. *)
Carried ==
  \A t \in Writer : tcall[t].at \in {"waiting", "locking"} => tcall[t].byte \in Byte

(* The two queues are well formed. *)
PortQueues ==
  /\ buffer \in QueueOf(Reader) /\ rcall \in [Reader -> Call]
  /\ txq \in QueueOf(Writer) /\ tcall \in [Writer -> Call]
  /\ Carried
  /\ thr \in [Writer \cup {Handler} -> Byte \cup {NoByte}]

(* x is a queue with the bytes of y. *)
Same(x, y) == x.head = y.head /\ x.tail = y.tail /\ x.buf = y.buf

(* What waiting does to a queue: the bytes stay. *)
LEMMA Waits ==
  ASSUME NEW S, NEW x \in QueueOf(S), NEW t \in S
  PROVE  /\ [x EXCEPT !.holder = t, !.waiter["getc"] = t] \in QueueOf(S)
         /\ Same([x EXCEPT !.holder = t, !.waiter["getc"] = t], x)
         /\ [x EXCEPT !.holder = t, !.waiter["putc"] = t] \in QueueOf(S)
         /\ Same([x EXCEPT !.holder = t, !.waiter["putc"] = t], x)
         /\ [x EXCEPT !.lock_waiters = Append(@, t)] \in QueueOf(S)
         /\ Same([x EXCEPT !.lock_waiters = Append(@, t)], x)
<1>1. x.lock_waiters \in Seq(S)
  BY DEF QueueOf
<1>2. Append(x.lock_waiters, t) \in Seq(S)
  BY <1>1, AppendProperties
<1>3. /\ [x EXCEPT !.holder = t, !.waiter["getc"] = t] \in QueueOf(S)
      /\ [x EXCEPT !.holder = t, !.waiter["putc"] = t] \in QueueOf(S)
      /\ [x EXCEPT !.lock_waiters = Append(@, t)] \in QueueOf(S)
  BY <1>2, Zenon DEF QueueOf
<1>4. /\ Same([x EXCEPT !.holder = t, !.waiter["getc"] = t], x)
      /\ Same([x EXCEPT !.holder = t, !.waiter["putc"] = t], x)
      /\ Same([x EXCEPT !.lock_waiters = Append(@, t)], x)
  BY DEF QueueOf, Same
<1> QED
  BY <1>3, <1>4, Zenon

(* The queue when a woken thread has released its lock. *)
Released(x) ==
  [x EXCEPT !.holder = NoThread, !.lock_waiters = IF @ = <<>> THEN <<>> ELSE Tail(@)]

(* Releasing the lock after wait leaves the bytes. *)
LEMMA Releases ==
  ASSUME NEW S, NEW x \in QueueOf(S)
  PROVE  Released(x) \in QueueOf(S) /\ Same(Released(x), x)
<1>1. x.lock_waiters \in Seq(S)
  BY DEF QueueOf
<1>2. (IF x.lock_waiters = <<>> THEN <<>> ELSE Tail(x.lock_waiters)) \in Seq(S)
  BY <1>1
<1>3. Released(x) \in QueueOf(S)
  BY <1>2, Zenon DEF QueueOf, Released
<1>4. Same(Released(x), x)
  BY DEF QueueOf, Same, Released
<1> QED
  BY <1>3, <1>4

(* A turn of intq_putc's loop under serial_putc: the byte goes to the end  *)
(* of the output queue and the call is over, or the thread waits and the   *)
(* bytes stay.                                                             *)
LEMMA PutLoop ==
  ASSUME PortQueues, NEW t \in Writer, NEW b \in Byte,
         NEW x \in QueueOf(Writer), Same(x, txq), T!Loop(t, b, x)
  PROVE  /\ txq' \in QueueOf(Writer) /\ tcall' \in [Writer -> Call] /\ Carried' /\ thr' = thr
         /\ \/ tcall'[t] = Outside /\ ContentsOf(txq') = Append(ContentsOf(txq), b)
            \/ tcall'[t] # Outside /\ Same(txq', txq)
<1>1. tcall \in [Writer -> Call] /\ Carried /\ ContentsOf(x) = ContentsOf(txq)
  BY DEF PortQueues, Same, ContentsOf
<1>2. CASE T!Finish(t, b, x)
  <2>1. ~ intq_full(x)
    BY <1>2 DEF T!Finish, T!MustWait, T!intq_full, T!next, intq_full, next
  <2>2. txq' = store(x, b) /\ thr' = thr
    BY <1>2 DEF T!Finish, T!store, T!next, store, next
  <2>3. tcall' = [tcall EXCEPT ![t] = Outside]
    BY <1>2 DEF T!Finish, T!Outside, Outside
  <2>4. tcall' \in [Writer -> Call] /\ Carried' /\ tcall'[t] = Outside
    BY <1>1, <2>3 DEF Outside, Call, Carried
  <2>5. txq' \in QueueOf(Writer) /\ ContentsOf(txq') = Append(ContentsOf(x), b)
    BY <2>1, <2>2, StoredIn
  <2> QED
    BY <1>1, <2>2, <2>4, <2>5, SMTT(30)
<1>3. CASE T!wait(t, b, x)
  <2>1. txq' = [x EXCEPT !.holder = t, !.waiter["putc"] = t] /\ thr' = thr
    BY <1>3 DEF T!wait
  <2>2. tcall' = [tcall EXCEPT ![t] = [at |-> "waiting", byte |-> b]]
    BY <1>3 DEF T!wait
  <2>3. tcall' \in [Writer -> Call] /\ Carried' /\ tcall'[t] # Outside
    BY <1>1, <2>2 DEF Outside, Call, Carried
  <2>4. txq' \in QueueOf(Writer) /\ Same(txq', x)
    BY <2>1, Waits, Zenon
  <2> QED
    BY <2>1, <2>3, <2>4 DEF Same
<1>4. CASE T!LockBlocks(t, b, x)
  <2>1. txq' = [x EXCEPT !.lock_waiters = Append(@, t)] /\ thr' = thr
    BY <1>4 DEF T!LockBlocks
  <2>2. tcall' = [tcall EXCEPT ![t] = [at |-> "locking", byte |-> b]]
    BY <1>4 DEF T!LockBlocks
  <2>3. tcall' \in [Writer -> Call] /\ Carried' /\ tcall'[t] # Outside
    BY <1>1, <2>2 DEF Outside, Call, Carried
  <2>4. txq' \in QueueOf(Writer) /\ Same(txq', x)
    BY <2>1, Waits, Zenon
  <2> QED
    BY <2>1, <2>3, <2>4 DEF Same
<1> QED
  BY <1>2, <1>3, <1>4 DEF T!Loop

(* A turn of intq_getc's loop under input_getc: a byte is taken and the    *)
(* call is over, or the thread waits and the bytes stay.                   *)
LEMMA GetLoop ==
  ASSUME PortQueues, NEW t \in Reader, NEW b \in Byte \cup {NoByte},
         NEW x \in QueueOf(Reader), Same(x, buffer), R!Loop(t, b, x)
  PROVE  /\ buffer' \in QueueOf(Reader) /\ rcall' \in [Reader -> Call]
         /\ rcall'[t] = Outside \/ (rcall'[t] # Outside /\ Same(buffer', buffer))
<1>1. rcall \in [Reader -> Call]
  BY DEF PortQueues
<1>2. CASE R!Finish(t, b, x)
  <2>1. ~ intq_empty(x)
    BY <1>2 DEF R!Finish, R!MustWait, R!intq_empty, intq_empty
  <2>2. buffer' = take(x)
    BY <1>2 DEF R!Finish, R!take, R!next, take, next
  <2>3. rcall' = [rcall EXCEPT ![t] = Outside]
    BY <1>2 DEF R!Finish, R!Outside, Outside
  <2>4. rcall' \in [Reader -> Call] /\ rcall'[t] = Outside
    BY <1>1, <2>3 DEF Outside, Call
  <2> QED
    BY <2>1, <2>2, <2>4, TakenIn
<1>3. CASE R!wait(t, b, x)
  <2>1. buffer' = [x EXCEPT !.holder = t, !.waiter["getc"] = t]
    BY <1>3 DEF R!wait
  <2>2. rcall' = [rcall EXCEPT ![t] = [at |-> "waiting", byte |-> b]]
    BY <1>3 DEF R!wait
  <2>3. rcall' \in [Reader -> Call] /\ rcall'[t] # Outside
    BY <1>1, <2>2 DEF Outside, Call
  <2>4. buffer' \in QueueOf(Reader) /\ Same(buffer', x)
    BY <2>1, Waits, Zenon
  <2> QED
    BY <2>3, <2>4 DEF Same
<1>4. CASE R!LockBlocks(t, b, x)
  <2>1. buffer' = [x EXCEPT !.lock_waiters = Append(@, t)]
    BY <1>4 DEF R!LockBlocks
  <2>2. rcall' = [rcall EXCEPT ![t] = [at |-> "locking", byte |-> b]]
    BY <1>4 DEF R!LockBlocks
  <2>3. rcall' \in [Reader -> Call] /\ rcall'[t] # Outside
    BY <1>1, <2>2 DEF Outside, Call
  <2>4. buffer' \in QueueOf(Reader) /\ Same(buffer', x)
    BY <2>1, Waits, Zenon
  <2> QED
    BY <2>3, <2>4 DEF Same
<1> QED
  BY <1>2, <1>3, <1>4 DEF R!Loop

(* write_ier sets the register to what the queues then need. *)
LEMMA Assessed ==
  ASSUME write_ier
  PROVE  InterruptsEnabled'
<1>1. ier' = [xmit |-> ~ intq_empty(txq'), recv |-> ~ intq_full(buffer')]
  BY DEF write_ier
<1>2. ier'.xmit = ~ intq_empty(txq') /\ ier'.recv = ~ intq_full(buffer')
  BY <1>1, Zenon
<1> QED
  BY <1>2, Zenon DEF InterruptsEnabled, intq_empty, intq_full, next

(* The register may stay as it is when the bytes stay. *)
LEMMA StaysAssessed ==
  ASSUME InterruptsEnabled, UNCHANGED <<mode, ier>>, Same(txq', txq), Same(buffer', buffer)
  PROVE  InterruptsEnabled'
BY Zenon DEF InterruptsEnabled, Same, intq_empty, intq_full, next

(* What a step may do to the bytes on their way out, in SentInOrder: the   *)
(* k oldest are sent, the last of them last, and a new one may be behind   *)
(* the others.                                                             *)
SentBy(k, new) ==
  LET c == ContentsOf(txq) IN
    /\ ContentsOf(txq') = SubSeq(c, k + 1, Len(c)) \o new
    /\ thr'[Handler] = IF k = 0 THEN thr[Handler] ELSE c[k]

Sent ==
  \E k \in 0 .. Len(ContentsOf(txq)), new \in {<<>>} \cup {<<b>> : b \in Byte} : SentBy(k, new)

(* The bytes stay. *)
LEMMA SentNothing ==
  ASSUME PortQueues, Same(txq', txq), thr' = thr
  PROVE  Sent
<1> DEFINE c == ContentsOf(txq)
<1>1. c \in Seq(Byte \cup {NoByte})
  BY ContentsSeqIn DEF PortQueues
<1>2. ContentsOf(txq') = c
  BY DEF Same, ContentsOf
<1> HIDE DEF c
<1>3. SubSeq(c, 0 + 1, Len(c)) \o <<>> = c /\ 0 \in 0 .. Len(c)
  BY <1>1
<1>4. SentBy(0, <<>>)
  BY <1>2, <1>3 DEF SentBy, c
<1> QED
  BY <1>3, <1>4 DEF Sent, c

(* A byte more. *)
LEMMA SentPut ==
  ASSUME PortQueues, NEW b \in Byte, ContentsOf(txq') = Append(ContentsOf(txq), b), thr' = thr
  PROVE  Sent
<1> DEFINE c == ContentsOf(txq)
<1>1. c \in Seq(Byte \cup {NoByte})
  BY ContentsSeqIn DEF PortQueues
<1>2. ContentsOf(txq') = Append(c, b)
  OBVIOUS
<1> HIDE DEF c
<1>3. SubSeq(c, 0 + 1, Len(c)) \o <<b>> = Append(c, b) /\ 0 \in 0 .. Len(c)
  <2>1. SubSeq(c, 0 + 1, Len(c)) = c /\ 0 \in 0 .. Len(c)
    BY <1>1
  <2>2. Append(c, b) = c \o <<b>>
    BY <1>1, AppendIsConcat
  <2> QED
    BY <2>1, <2>2, Zenon
<1>4. SentBy(0, <<b>>)
  BY <1>2, <1>3 DEF SentBy, c
<1>5. <<b>> \in {<<>>} \cup {<<d>> : d \in Byte}
  OBVIOUS
<1> QED
  BY <1>3, <1>4, <1>5, Zenon DEF Sent, c

(* When k bytes are sent, tail is at the next one, and what was behind     *)
(* them is in the same places as before.                                   *)
LEMMA Skips ==
  ASSUME NEW h \in Place, NEW t \in Place, NEW k \in 0 .. Count(h, t)
  PROVE  /\ (t + k) % BufSize = At(t, k + 1)
         /\ At(t, k + 1) \in Place
         /\ Count(h, At(t, k + 1)) = Count(h, t) - k
         /\ \A i \in 1 .. Count(h, t) - k : At(At(t, k + 1), i) = At(t, k + i)
<1>1. k \in Nat /\ k <= Count(h, t) /\ Count(h, t) \in Place
  BY Moves, IntQAssumption DEF Place
<1>2. k + 1 \in 1 .. BufSize /\ k + 1 \in 1 .. Count(h, t) + 1
  BY <1>1, IntQAssumption DEF Place
<1>3. At(t, k + 1) \in Place
  BY <1>2, Places
<1>4. (t + (k + 1) - 1) % BufSize = At(t, k + 1)
  BY <1>2, Wraps
<1>5. t + (k + 1) - 1 = t + k
  BY <1>1, IntQAssumption DEF Place
<1>6. Count(h, At(t, k + 1)) = Count(h, t) - k
  BY <1>1, IntQAssumption DEF Place, Count, At
<1>7. ASSUME NEW i \in 1 .. Count(h, t) - k
      PROVE  At(At(t, k + 1), i) = At(t, k + i)
  BY <1>1, IntQAssumption DEF Place, Count, At
<1> QED
  BY <1>3, <1>4, <1>5, <1>6, <1>7

(* Send takes the k oldest bytes from the queue. *)
LEMMA SendStep ==
  ASSUME PortQueues, NEW k \in 0 .. Len(ContentsOf(txq)), Send(k)
  PROVE  txq' \in QueueOf(Writer) /\ tcall' = tcall /\ thr' \in [Writer \cup {Handler} -> Byte \cup {NoByte}] /\ Sent
<1> DEFINE c == ContentsOf(txq)
           S == Byte \cup {NoByte}
           n == Count(txq.head, txq.tail)
<1>1. /\ txq \in QueueOf(Writer) /\ thr \in [Writer \cup {Handler} -> S]
      /\ txq.head \in Place /\ txq.tail \in Place /\ txq.buf \in [Place -> S]
      /\ c \in Seq(S) /\ Len(c) = n /\ \A i \in 1 .. n : c[i] = txq.buf[At(txq.tail, i)]
  BY ContentsSeqIn DEF PortQueues
<1>2. k \in 0 .. n /\ n \in Nat /\ k \in Nat /\ k <= n
  BY <1>1, Moves DEF Place
<1>3. tcall' = tcall
  BY DEF Send
<1>4. CASE k = 0
  <2>1. txq' = txq /\ thr' = thr
    BY <1>4 DEF Send
  <2> QED
    BY <1>1, <1>3, <2>1, SentNothing DEF Same
<1>5. CASE k # 0
  <2>1. /\ txq' = [take(txq) EXCEPT !.tail = (txq.tail + k) % BufSize]
        /\ thr' = [thr EXCEPT ![Handler] = c[k]]
    BY <1>5, SMTT(30) DEF Send, take, next, ContentsOf
  <2>2. /\ (txq.tail + k) % BufSize = At(txq.tail, k + 1) /\ At(txq.tail, k + 1) \in Place
        /\ Count(txq.head, At(txq.tail, k + 1)) = n - k
        /\ \A i \in 1 .. n - k : At(At(txq.tail, k + 1), i) = At(txq.tail, k + i)
    BY <1>1, <1>2, Skips
  <2>3. take(txq) \in QueueOf(Writer) /\ take(txq).head = txq.head /\ take(txq).buf = txq.buf
    <3>1. ~ intq_empty(txq)
      BY <1>1, <1>2, <1>5, IntQAssumption, SMTT(30) DEF intq_empty, Count, Place
    <3>2. take(txq) \in QueueOf(Writer)
      BY <1>1, <3>1, TakenIn
    <3> QED
      BY <1>1, <3>2 DEF take, QueueOf
  <2>4. txq' \in QueueOf(Writer)
    BY <2>1, <2>2, <2>3, Zenon DEF QueueOf, Place
  <2>5. txq'.head = txq.head /\ txq'.buf = txq.buf /\ txq'.tail = At(txq.tail, k + 1)
    BY <2>1, <2>2, <2>3, SMTT(30) DEF QueueOf
  <2>6. /\ ContentsOf(txq') \in Seq(S) /\ Len(ContentsOf(txq')) = n - k
        /\ \A i \in 1 .. n - k : ContentsOf(txq')[i] = txq.buf[At(At(txq.tail, k + 1), i)]
    BY <2>2, <2>4, <2>5, ContentsSeqIn
  <2>7. c[k] \in S
    BY <1>1, <1>2, <1>5
  <2>8. thr' \in [Writer \cup {Handler} -> S] /\ thr'[Handler] = c[k]
    BY <1>1, <2>1, <2>7
  <2> HIDE DEF c, n, S
  <2>9. ContentsOf(txq') = SubSeq(c, k + 1, Len(c)) \o <<>>
    <3>1. /\ SubSeq(c, k + 1, Len(c)) \in Seq(S) /\ Len(SubSeq(c, k + 1, Len(c))) = n - k
          /\ \A i \in 1 .. n - k : SubSeq(c, k + 1, Len(c))[i] = c[k + i]
      BY <1>1, <1>2
    <3>2. ASSUME NEW i \in 1 .. n - k
          PROVE  ContentsOf(txq')[i] = SubSeq(c, k + 1, Len(c))[i]
      <4>1. k + i \in 1 .. n
        BY <1>2
      <4> QED
        BY <1>1, <2>2, <2>6, <3>1, <4>1, Zenon
    <3>3. ContentsOf(txq') = SubSeq(c, k + 1, Len(c))
      BY <2>6, <3>1, <3>2, SeqEqual
    <3> QED
      BY <3>1, <3>3, ConcatEmptySeq
  <2>10. SentBy(k, <<>>)
    BY <1>5, <2>8, <2>9 DEF SentBy, c
  <2> QED
    BY <1>3, <2>4, <2>8, <2>10 DEF Sent, S
<1> QED
  BY <1>4, <1>5

(* serial_putc with interrupts off: the new byte goes behind the others,   *)
(* and if there is no room, the oldest is sent before.                     *)
LEMMA PutOff ==
  ASSUME PortQueues, NEW b \in Byte, serial_putc_off(b)
  PROVE  txq' \in QueueOf(Writer) /\ thr' \in [Writer \cup {Handler} -> Byte \cup {NoByte}] /\ Sent
<1> DEFINE c == ContentsOf(txq)
           S == Byte \cup {NoByte}
<1>1. /\ txq \in QueueOf(Writer) /\ thr \in [Writer \cup {Handler} -> S]
      /\ txq.head \in Place /\ txq.tail \in Place /\ c \in Seq(S)
  BY ContentsSeqIn DEF PortQueues
<1>2. CASE ~ intq_full(txq)
  <2>1. txq' = store(txq, b) /\ thr' = thr
    BY <1>2, Zenon DEF serial_putc_off, store, intq_full, next
  <2>2. txq' \in QueueOf(Writer) /\ ContentsOf(txq') = Append(c, b)
    BY <1>1, <1>2, <2>1, StoredIn
  <2> QED
    BY <1>1, <2>1, <2>2, SentPut
<1>3. CASE intq_full(txq)
  <2>1. txq' = store(take(txq), b) /\ thr' = [thr EXCEPT ![Handler] = txq.buf[txq.tail]]
    BY <1>3 DEF serial_putc_off,
                store, take, intq_full, next
  <2>2. next(txq.head) = txq.tail /\ next(txq.tail) # txq.tail /\ txq.head # txq.tail
    <3>1. /\ next(txq.head) = IF txq.head + 1 = BufSize THEN 0 ELSE txq.head + 1
          /\ next(txq.tail) = IF txq.tail + 1 = BufSize THEN 0 ELSE txq.tail + 1
      BY <1>1, Wraps, Zenon
    <3>2. next(txq.head) = txq.tail
      BY <1>3 DEF intq_full
    <3> QED
      BY <1>1, <3>1, <3>2, IntQAssumption DEF Place
  <2>3. /\ take(txq) \in QueueOf(Writer) /\ c # <<>> /\ txq.buf[txq.tail] = Head(c)
        /\ Head(c) \in S /\ ContentsOf(take(txq)) = Tail(c)
    BY <1>1, <2>2, TakenIn DEF intq_empty
  <2>4. ~ intq_full(take(txq))
    BY <1>1, <2>2, SMTT(30) DEF take, intq_full, QueueOf
  <2>5. txq' \in QueueOf(Writer) /\ ContentsOf(txq') = Append(Tail(c), b)
    BY <2>1, <2>3, <2>4, StoredIn, SMTT(30)
  <2>6. thr' \in [Writer \cup {Handler} -> S] /\ thr'[Handler] = Head(c)
    BY <1>1, <2>1, <2>3
  <2> HIDE DEF c, S
  <2>7. 1 \in 0 .. Len(c) /\ c[1] = Head(c) /\ Tail(c) \in Seq(S) /\ Tail(c) = SubSeq(c, 1 + 1, Len(c))
    BY <1>1, <2>3
  <2>8. Append(Tail(c), b) = Tail(c) \o <<b>>
    <3>1. b \in S
      BY DEF S
    <3> QED
      BY <2>7, <3>1, AppendIsConcat
  <2>9. SentBy(1, <<b>>)
    BY <2>5, <2>6, <2>7, <2>8 DEF SentBy, c
  <2>10. <<b>> \in {<<>>} \cup {<<d>> : d \in Byte}
    OBVIOUS
  <2> QED
    BY <2>5, <2>6, <2>7, <2>9, <2>10, Zenon DEF Sent, c, S
<1> QED
  BY <1>2, <1>3, SMTT(30)

(* What is received goes to the places from head on. *)
LEMMA ReceiveStep ==
  ASSUME PortQueues, NEW n \in 0 .. BufSize - 1, NEW bytes \in [1 .. n -> Byte], Receive(bytes)
  PROVE  buffer' \in QueueOf(Reader) /\ rcall' = rcall
<1> DEFINE nth(i) == ((i - buffer.head) % BufSize) + 1
           new == [i \in DOMAIN buffer.buf |-> IF nth(i) <= n THEN bytes[nth(i)] ELSE buffer.buf[i]]
<1>1. /\ buffer \in QueueOf(Reader) /\ buffer.head \in Place
      /\ buffer.buf \in [Place -> Byte \cup {NoByte}]
  BY ContentsSeqIn DEF PortQueues
<1>2. Len(bytes) = n /\ n \in Nat
  BY IntQAssumption
<1>3. (buffer.head + n) % BufSize \in Place
  <2>1. n + 1 \in 1 .. BufSize /\ buffer.head + (n + 1) - 1 = buffer.head + n
    BY <1>1, IntQAssumption DEF Place
  <2>2. (buffer.head + (n + 1) - 1) % BufSize = At(buffer.head, n + 1)
    BY <1>1, <2>1, Wraps
  <2>3. At(buffer.head, n + 1) \in Place
    BY <1>1, <2>1, IntQAssumption DEF At, Place
  <2> QED
    BY <2>1, <2>2, <2>3
<1>4. new \in [Place -> Byte \cup {NoByte}]
  <2>1. ASSUME NEW i \in Place, nth(i) <= n
        PROVE  bytes[nth(i)] \in Byte
    <3>1. (i - buffer.head) % BufSize = Count(i, buffer.head) /\ Count(i, buffer.head) \in Place
      BY <1>1, Wraps, Moves
    <3>2. nth(i) \in 1 .. n
      BY <1>2, <2>1, <3>1, IntQAssumption DEF Place
    <3> QED
      BY <3>2
  <2> HIDE DEF nth
  <2> QED
    BY <1>1, <2>1
<1>5. rcall' = rcall
  BY DEF Receive
<1>6. CASE n = 0
  BY <1>1, <1>2, <1>5, <1>6 DEF Receive
<1>7. CASE n # 0
  <2>1. buffer' = [buffer EXCEPT !.buf = new, !.head = (buffer.head + n) % BufSize, !.waiter.getc = NoThread]
    BY <1>2, <1>7 DEF Receive
  <2> HIDE DEF new
  <2>2. buffer' \in QueueOf(Reader)
    BY <1>1, <1>3, <1>4, <2>1, Zenon DEF QueueOf, Place
  <2> QED
    BY <1>5, <2>2
<1> QED
  BY <1>6, <1>7

(* A writer's step: a byte goes behind the others and the register is      *)
(* reassessed, or the bytes and the register stay.                         *)
LEMMA WriterStep ==
  ASSUME PortQueues, InterruptsEnabled, NEW t \in Writer,
         (\E b \in Byte : serial_putc(t, b)) \/ serial_putc_resume(t)
  PROVE  PortQueues' /\ InterruptsEnabled' /\ Sent
<1>1. /\ UNCHANGED <<mode, buffer, rcall>>
      /\ (tcall'[t] = Outside /\ write_ier) \/ (tcall'[t] # Outside /\ ier' = ier)
  BY Zenon DEF serial_putc, serial_putc_resume, output_done, input, T!Outside, Outside
<1>2. ASSUME txq' \in QueueOf(Writer), tcall' \in [Writer -> Call], Carried', thr' = thr,
             NEW b \in Byte,
             \/ tcall'[t] = Outside /\ ContentsOf(txq') = Append(ContentsOf(txq), b)
             \/ tcall'[t] # Outside /\ Same(txq', txq)
      PROVE  PortQueues' /\ InterruptsEnabled' /\ Sent
  <2>1. PortQueues'
    BY <1>1, <1>2 DEF PortQueues
  <2>2. CASE tcall'[t] = Outside
    BY <1>1, <1>2, <2>1, <2>2, Assessed, SentPut, SMTT(30)
  <2>3. CASE tcall'[t] # Outside
    <3>1. Same(txq', txq) /\ Same(buffer', buffer) /\ UNCHANGED <<mode, ier>>
      BY <1>1, <1>2, <2>3 DEF Same
    <3> QED
      BY <1>2, <2>1, <3>1, StaysAssessed, SentNothing, SMTT(30)
  <2> QED
    BY <2>2, <2>3
<1>3. ASSUME NEW b \in Byte, NEW x \in QueueOf(Writer), Same(x, txq), T!Loop(t, b, x)
      PROVE  PortQueues' /\ InterruptsEnabled' /\ Sent
  BY <1>2, <1>3, PutLoop
<1>4. txq \in QueueOf(Writer) /\ tcall \in [Writer -> Call] /\ tcall[t] \in Call /\ Same(txq, txq)
  BY DEF PortQueues, Same
<1>5. ASSUME NEW b \in Byte, serial_putc(t, b)
      PROVE  PortQueues' /\ InterruptsEnabled' /\ Sent
  BY <1>3, <1>4, <1>5 DEF serial_putc, T!intq_putc
<1>6. CASE T!woken(t)
  <2>1. tcall[t].byte \in Byte
    BY <1>6 DEF T!woken, PortQueues, Carried
  <2>2. T!Loop(t, tcall[t].byte, Released(txq))
    BY <1>6 DEF T!woken, Released
  <2> QED
    BY <1>3, <1>4, <2>1, <2>2, Releases
<1>7. CASE T!lock_acquired(t)
  <2>1. tcall[t].at = "locking" /\ tcall[t].byte \in Byte
    BY <1>7 DEF T!lock_acquired, PortQueues, Carried
  <2>2. CASE /\ tcall' = [tcall EXCEPT ![t].at = "panic"]
             /\ UNCHANGED <<txq, thr>>
    <3>1. tcall' \in [Writer -> Call] /\ Carried' /\ tcall'[t] # Outside
      BY <1>4, <2>2 DEF Call, Carried, Outside, PortQueues
    <3> QED
      BY <1>2, <1>4, <2>1, <2>2, <3>1
  <2>3. CASE T!LockBlocks(t, tcall[t].byte, txq)
    <3>1. PICK b \in Byte : b = tcall[t].byte
      BY <2>1
    <3>2. tcall' = [tcall EXCEPT ![t] = [at |-> "locking", byte |-> b]]
      BY <2>3, <3>1 DEF T!LockBlocks
    <3>3. txq' = [txq EXCEPT !.lock_waiters = Append(@, t)] /\ thr' = thr
      BY <2>3 DEF T!LockBlocks
    <3>4. tcall' \in [Writer -> Call] /\ Carried' /\ tcall'[t] # Outside
      BY <1>4, <3>2 DEF Call, Carried, Outside, PortQueues
    <3>5. txq' \in QueueOf(Writer) /\ Same(txq', txq)
      BY <1>4, <3>3, Waits, Zenon
    <3> QED
      BY <1>2, <3>3, <3>4, <3>5
  <2>4. CASE txq.holder = NoThread /\ T!wait(t, tcall[t].byte, txq)
    BY <1>3, <1>4, <2>1, <2>4 DEF T!Loop
  <2> QED
    BY <1>7, <2>2, <2>3, <2>4 DEF T!lock_acquired
<1> QED
  BY <1>5, <1>6, <1>7 DEF serial_putc_resume, T!Resume

(* A reader's step: a byte is taken and the register is reassessed, or the *)
(* bytes and the register stay.  The output queue is not touched.          *)
LEMMA ReaderStep ==
  ASSUME PortQueues, InterruptsEnabled, NEW t \in Reader,
         input_getc(t) \/ input_getc_resume(t)
  PROVE  PortQueues' /\ InterruptsEnabled' /\ Sent
<1>1. /\ UNCHANGED <<mode, txq, tcall, thr>>
      /\ (rcall'[t] = Outside /\ serial_notify) \/ (rcall'[t] # Outside /\ ier' = ier)
  BY Zenon DEF input_getc, input_getc_resume, input_done, output, R!Outside, Outside
<1>2. ASSUME buffer' \in QueueOf(Reader), rcall' \in [Reader -> Call],
             rcall'[t] = Outside \/ (rcall'[t] # Outside /\ Same(buffer', buffer))
      PROVE  PortQueues' /\ InterruptsEnabled' /\ Sent
  <2>1. PortQueues' /\ Same(txq', txq)
    BY <1>1, <1>2 DEF PortQueues, Carried, Same
  <2>2. Sent
    BY <1>1, <2>1, SentNothing
  <2>3. CASE rcall'[t] = Outside /\ mode = "QUEUE"
    BY <1>1, <2>1, <2>2, <2>3, Assessed DEF serial_notify
  <2>4. CASE mode # "QUEUE"
    BY <1>1, <2>1, <2>2, <2>4 DEF InterruptsEnabled
  <2>5. CASE rcall'[t] # Outside
    BY <1>1, <1>2, <2>1, <2>2, <2>5, StaysAssessed, SMTT(30)
  <2> QED
    BY <2>3, <2>4, <2>5
<1>3. ASSUME NEW b \in Byte \cup {NoByte}, NEW x \in QueueOf(Reader), Same(x, buffer), R!Loop(t, b, x)
      PROVE  PortQueues' /\ InterruptsEnabled' /\ Sent
  BY <1>2, <1>3, GetLoop
<1>4. buffer \in QueueOf(Reader) /\ rcall \in [Reader -> Call] /\ rcall[t] \in Call /\ Same(buffer, buffer)
  BY DEF PortQueues, Same
<1>5. rcall[t].byte \in Byte \cup {NoByte}
  BY <1>4 DEF Call
<1>6. CASE input_getc(t)
  <2>1. R!Loop(t, NoByte, buffer)
    BY <1>6 DEF input_getc, R!intq_getc
  <2> QED
    BY <1>3, <1>4, <2>1
<1>7. CASE R!woken(t)
  <2>1. R!Loop(t, rcall[t].byte, Released(buffer))
    BY <1>7 DEF R!woken, Released
  <2> QED
    BY <1>3, <1>4, <1>5, <2>1, Releases
<1>8. CASE R!lock_acquired(t)
  <2>1. CASE rcall' = [rcall EXCEPT ![t].at = "panic"] /\ buffer' = buffer
    <3>1. rcall' \in [Reader -> Call] /\ rcall'[t] # Outside
      BY <1>4, <2>1 DEF Call, Outside
    <3> QED
      BY <1>2, <1>4, <2>1, <3>1
  <2>2. CASE R!LockBlocks(t, rcall[t].byte, buffer)
    <3>1. /\ rcall' = [rcall EXCEPT ![t] = [at |-> "locking", byte |-> rcall[t].byte]]
          /\ buffer' = [buffer EXCEPT !.lock_waiters = Append(@, t)]
      BY <2>2 DEF R!LockBlocks
    <3>2. rcall' \in [Reader -> Call] /\ rcall'[t] # Outside
      BY <1>4, <1>5, <3>1 DEF Call, Outside
    <3>3. buffer' \in QueueOf(Reader) /\ Same(buffer', buffer)
      BY <1>4, <3>1, Waits, Zenon
    <3> QED
      BY <1>2, <3>2, <3>3
  <2>3. CASE buffer.holder = NoThread /\ R!wait(t, rcall[t].byte, buffer)
    BY <1>3, <1>4, <1>5, <2>3 DEF R!Loop
  <2> QED
    BY <1>8, <2>1, <2>2, <2>3 DEF R!lock_acquired
<1> QED
  BY <1>6, <1>7, <1>8 DEF input_getc_resume, R!Resume

(* serial_init, which makes two empty queues and is in no mode yet. *)
LEMMA PortInit == SerialInit => PortQueues /\ InterruptsEnabled
<1> SUFFICES ASSUME SerialInit PROVE PortQueues /\ InterruptsEnabled
  OBVIOUS
<1>1. /\ mode = "UNINIT" /\ buffer = intq_init /\ txq = intq_init
      /\ rcall = [t \in Reader |-> Outside] /\ tcall = [t \in Writer |-> Outside]
      /\ thr = [t \in Writer \cup {Handler} |-> NoByte]
  BY DEF SerialInit, R!IntQInit, R!intq_init, R!Outside,
         T!IntQInit, T!intq_init, T!Outside, intq_init, Outside
<1>2. intq_init \in QueueOf(Reader) /\ intq_init \in QueueOf(Writer)
  BY IntQAssumption DEF intq_init, QueueOf
<1>3. PortQueues
  BY <1>1, <1>2 DEF PortQueues, Carried, Outside, Call
<1> QED
  BY <1>1, <1>3, SMTT(30) DEF InterruptsEnabled

(* Every step of the port keeps the queues well formed and their           *)
(* interrupts enabled, and sends the oldest bytes first.                   *)
LEMMA PortNext ==
  ASSUME PortQueues, InterruptsEnabled, [SerialNext]_serialVars
  PROVE  PortQueues' /\ InterruptsEnabled' /\ (mode = "QUEUE" => Sent)
<1>1. CASE UNCHANGED serialVars
  <2>1. UNCHANGED <<mode, ier, buffer, rcall, txq, tcall, thr>>
    BY <1>1 DEF serialVars, input, output
  <2>2. PortQueues' /\ Same(txq', txq) /\ Same(buffer', buffer)
    BY <2>1 DEF PortQueues, Carried, Same
  <2> QED
    BY <2>1, <2>2, StaysAssessed, SentNothing
<1>2. CASE serial_init_queue
  <2>1. UNCHANGED <<buffer, rcall, txq, tcall, thr>> /\ write_ier
    BY <1>2 DEF serial_init_queue, input, output
  <2>2. PortQueues' /\ Same(txq', txq)
    BY <2>1 DEF PortQueues, Carried, Same
  <2> QED
    BY <2>1, <2>2, Assessed, SentNothing
<1>3. ASSUME NEW b \in Byte, input_putc(b)
      PROVE  PortQueues' /\ InterruptsEnabled' /\ Sent
  <2>1. UNCHANGED <<mode, rcall, txq, tcall, thr>> /\ serial_notify
    BY <1>3 DEF input_putc, output
  <2>2. ~ intq_full(buffer) /\ buffer' = store(buffer, b)
    BY <1>3 DEF input_putc, intq_full, store, next
  <2>3. buffer' \in QueueOf(Reader)
    BY <2>2, StoredIn DEF PortQueues
  <2>4. PortQueues' /\ Same(txq', txq)
    BY <2>1, <2>3 DEF PortQueues, Carried, Same
  <2>5. CASE mode = "QUEUE"
    BY <2>1, <2>4, <2>5, Assessed, SentNothing DEF serial_notify
  <2>6. CASE mode # "QUEUE"
    BY <2>1, <2>4, <2>6, SentNothing, SMTT(30) DEF InterruptsEnabled
  <2> QED
    BY <2>5, <2>6
<1>4. ASSUME NEW b \in Byte, serial_putc_poll(b)
      PROVE  PortQueues' /\ InterruptsEnabled' /\ mode # "QUEUE"
  <2>1. /\ UNCHANGED <<buffer, rcall, txq, tcall>> /\ mode # "QUEUE" /\ mode' = "POLL"
        /\ thr' = [thr EXCEPT ![Handler] = b]
    BY <1>4 DEF serial_putc_poll, input
  <2>2. thr' \in [Writer \cup {Handler} -> Byte \cup {NoByte}]
    BY <2>1 DEF PortQueues
  <2> QED
    BY <2>1, <2>2 DEF PortQueues, Carried, InterruptsEnabled
<1>5. ASSUME NEW b \in Byte, serial_putc_off(b)
      PROVE  PortQueues' /\ InterruptsEnabled' /\ Sent
  <2>1. UNCHANGED <<buffer, rcall, tcall>> /\ write_ier
    BY <1>5 DEF serial_putc_off, input
  <2>2. txq' \in QueueOf(Writer) /\ thr' \in [Writer \cup {Handler} -> Byte \cup {NoByte}] /\ Sent
    BY <1>5, PutOff
  <2>3. PortQueues'
    BY <2>1, <2>2 DEF PortQueues, Carried
  <2> QED
    BY <2>1, <2>2, <2>3, Assessed, SMTT(30)
<1>6. CASE serial_flush
  <2>1. UNCHANGED <<mode, ier, buffer, rcall>> /\ Send(Len(ContentsOf(txq))) /\ ~ intq_empty(txq)
    BY <1>6 DEF serial_flush, input
  <2>2. Len(ContentsOf(txq)) \in 0 .. Len(ContentsOf(txq))
    <3>1. ContentsOf(txq) \in Seq(Byte \cup {NoByte})
      BY ContentsSeqIn DEF PortQueues
    <3> QED
      BY <3>1
  <2>3. /\ txq' \in QueueOf(Writer) /\ tcall' = tcall /\ Sent
        /\ thr' \in [Writer \cup {Handler} -> Byte \cup {NoByte}]
    BY <2>1, <2>2, SendStep, Zenon
  <2>4. PortQueues'
    BY <2>1, <2>3 DEF PortQueues, Carried
  <2>5. InterruptsEnabled'
    BY <2>1, Zenon DEF InterruptsEnabled, intq_full, next
  <2> QED
    BY <2>3, <2>4, <2>5
<1>7. ASSUME NEW bytes \in Received, NEW k \in 0 .. BufSize - 1, serial_interrupt(bytes, k)
      PROVE  PortQueues' /\ InterruptsEnabled' /\ Sent
  <2>1. Receive(bytes) /\ Send(k) /\ write_ier /\ k <= Len(ContentsOf(txq))
    BY <1>7 DEF serial_interrupt
  <2>2. PICK n \in 0 .. BufSize - 1 : bytes \in [1 .. n -> Byte]
    BY DEF Received
  <2>3. buffer' \in QueueOf(Reader) /\ rcall' = rcall
    BY <2>1, <2>2, ReceiveStep
  <2>4. k \in 0 .. Len(ContentsOf(txq))
    <3>1. ContentsOf(txq) \in Seq(Byte \cup {NoByte})
      BY ContentsSeqIn DEF PortQueues
    <3> QED
      BY <2>1, <3>1, IntQAssumption, SMTT(30)
  <2>5. /\ txq' \in QueueOf(Writer) /\ tcall' = tcall /\ Sent
        /\ thr' \in [Writer \cup {Handler} -> Byte \cup {NoByte}]
    BY <2>1, <2>4, SendStep, Zenon
  <2>6. PortQueues'
    BY <2>3, <2>5 DEF PortQueues, Carried
  <2> QED
    BY <2>1, <2>5, <2>6, Assessed, SMTT(30)
<1>8. ASSUME SerialNext
      PROVE  PortQueues' /\ InterruptsEnabled' /\ (mode = "QUEUE" => Sent)
  BY <1>2, <1>3, <1>4, <1>5, <1>6, <1>7, <1>8, ReaderStep, WriterStep, Zenon DEF SerialNext, Interrupt
<1> QED
  BY <1>1, <1>8

(* The queues of the port are well formed in every reachable state, and    *)
(* the register of interrupts is what they need.                           *)
LEMMA PortInvariance == SerialSpec => [](PortQueues /\ InterruptsEnabled)
<1>1. PortQueues /\ InterruptsEnabled /\ [SerialNext]_serialVars => (PortQueues /\ InterruptsEnabled)'
  BY PortNext, Zenon
<1> QED
  BY <1>1, PortInit, PTL DEF SerialSpec

(* serial.c reassesses the register on every path that needs it: a byte to *)
(* send, or room to receive one, never finds its interrupt disabled, for   *)
(* any number of threads and any size of the buffers.                      *)
THEOREM PortInterrupts == SerialSpec => []InterruptsEnabled
BY PortInvariance, PTL

(* Whatever sends it, the handler, serial_flush or a caller of serial_putc *)
(* with interrupts off, no byte overtakes another on its way to the port.  *)
THEOREM PortSendsInOrder == SerialSpec => SentInOrder
<1> DEFINE Order ==
      mode = "QUEUE" =>
        LET c == ContentsOf(txq) IN
          \E k \in 0 .. Len(c), new \in {<<>>} \cup {<<b>> : b \in Byte} :
            /\ ContentsOf(txq') = SubSeq(c, k + 1, Len(c)) \o new
            /\ thr'[Handler] = IF k = 0 THEN thr[Handler] ELSE c[k]
<1>1. PortQueues /\ InterruptsEnabled /\ [SerialNext]_serialVars => [Order]_serialVars
  <2> SUFFICES ASSUME PortQueues, InterruptsEnabled, [SerialNext]_serialVars, mode = "QUEUE"
               PROVE  Order
    BY Zenon
  <2>1. Sent
    BY PortNext
  <2> QED
    BY <2>1, Zenon DEF Sent, SentBy
<1> QED
  BY <1>1, PortInvariance, PTL DEF SerialSpec, SentInOrder

=============================================================================
