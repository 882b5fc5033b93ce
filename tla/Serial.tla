------------------------------- MODULE Serial -------------------------------
(***************************************************************************)
(* The serial port (devices/serial.c) and the input buffer                 *)
(* (devices/input.c): two interrupt queues whose states decide which       *)
(* interrupts the port may raise.  input_getc and serial_putc run with     *)
(* interrupts off up to where intq_getc and intq_putc block; what they do  *)
(* after that is in the step in which the blocked thread finishes.         *)
(***************************************************************************)
EXTENDS IntQBuffer

CONSTANTS
  Reader,    \* threads that call input_getc
  Writer     \* threads that call serial_putc with interrupts on

VARIABLES
  mode,                  \* UNINIT, POLL or QUEUE
  ier,                   \* the interrupt enable register
  buffer, rcall, rgot,   \* the input queue and its callers
  txq, tcall, thr        \* the output queue; thr[Handler] is the last byte sent

R == INSTANCE IntQ WITH Thread <- Reader, op <- "getc", q <- buffer, call <- rcall, got <- rgot
T == INSTANCE IntQ WITH Thread <- Writer, op <- "putc", q <- txq, call <- tcall, got <- thr

input == <<buffer, rcall, rgot>>
output == <<txq, tcall, thr>>
serialVars == <<mode, ier, input, output>>

SerialInit ==
  /\ mode = "UNINIT"
  /\ ier = [xmit |-> FALSE, recv |-> FALSE]
  /\ R!IntQInit /\ T!IntQInit

(* Bug: the transmit interrupt follows the queue of the previous call. *)
write_ier_Stale ==
  ier' = [xmit |-> ~ intq_empty(txq), recv |-> ~ intq_full(buffer')]

write_ier ==
  ier' = [xmit |-> ~ intq_empty(txq'), recv |-> ~ intq_full(buffer')]

(* Bug: the receive interrupt is not reassessed. *)
serial_notify_Never == UNCHANGED ier

serial_notify == IF mode = "QUEUE" THEN write_ier ELSE UNCHANGED ier

serial_init_queue ==
  /\ mode # "QUEUE"
  /\ mode' = "QUEUE"
  /\ UNCHANGED <<input, output>>
  /\ write_ier

-----------------------------------------------------------------------------

(* What input_getc does once intq_getc has a byte. *)
input_done(t) ==
  /\ IF rcall'[t] = R!Outside THEN serial_notify ELSE UNCHANGED ier
  /\ UNCHANGED <<mode, output>>

input_getc(t) == R!intq_getc(t) /\ UNCHANGED txq /\ input_done(t)

input_getc_resume(t) == R!Resume(t) /\ UNCHANGED txq /\ input_done(t)

(* keyboard_interrupt: a key is dropped when the buffer is full. *)
input_putc(b) ==
  /\ ~ intq_full(buffer)
  /\ buffer' = store(buffer, b)
  /\ UNCHANGED <<mode, rcall, rgot, output>>
  /\ serial_notify

-----------------------------------------------------------------------------

(* Before the port has its interrupt, a byte is sent by polling; the first *)
(* one initializes the port (init_poll).                                   *)
serial_putc_poll(b) ==
  /\ mode # "QUEUE"
  /\ mode' = "POLL"
  /\ thr' = [thr EXCEPT ![Handler] = b]
  /\ UNCHANGED <<ier, input, txq, tcall>>

output_done(t) ==
  /\ IF tcall'[t] = T!Outside THEN write_ier ELSE UNCHANGED ier
  /\ UNCHANGED <<mode, input>>

serial_putc(t, b) ==
  mode = "QUEUE" /\ T!intq_putc(t, b) /\ UNCHANGED buffer /\ output_done(t)

serial_putc_resume(t) == T!Resume(t) /\ UNCHANGED buffer /\ output_done(t)

(* Bug: the new byte, not the oldest, is sent by polling. *)
serial_putc_off_Overtakes(b) ==
  /\ mode = "QUEUE"
  /\ txq' = IF intq_full(txq) THEN txq ELSE store(txq, b)
  /\ thr' = IF intq_full(txq) THEN [thr EXCEPT ![Handler] = b] ELSE thr
  /\ UNCHANGED <<mode, input, tcall>>
  /\ write_ier

(* serial_putc with interrupts off cannot wait: if the queue is full, it   *)
(* sends the oldest byte by polling to make room.                          *)
serial_putc_off(b) ==
  /\ mode = "QUEUE"
  /\ LET full == intq_full(txq) IN
       /\ txq' = store(IF full THEN take(txq) ELSE txq, b)
       /\ thr' = IF full THEN [thr EXCEPT ![Handler] = txq.buf[txq.tail]] ELSE thr
  /\ UNCHANGED <<mode, input, tcall>>
  /\ write_ier

(* k bytes sent, oldest first: k times intq_getc. *)
Send(k) ==
  /\ txq' = IF k = 0 THEN txq ELSE [take(txq) EXCEPT !.tail = (txq.tail + k) % BufSize]
  /\ thr' = IF k = 0 THEN thr ELSE [thr EXCEPT ![Handler] = ContentsOf(txq)[k]]
  /\ UNCHANGED tcall

(* serial_flush polls everything out and leaves ier alone. *)
serial_flush ==
  /\ ~ intq_empty(txq)
  /\ Send(Len(ContentsOf(txq)))
  /\ UNCHANGED <<mode, ier, input>>

-----------------------------------------------------------------------------

(* Bytes received, one after the other: input_putc for each of them. *)
Receive(bytes) ==
  LET n == Len(bytes)
      nth(i) == ((i - buffer.head) % BufSize) + 1
  IN /\ buffer' = IF n = 0 THEN buffer
                  ELSE [buffer EXCEPT !.buf = [i \in DOMAIN @ |-> IF nth(i) <= n THEN bytes[nth(i)] ELSE @[i]],
                                      !.head = (@ + n) % BufSize, !.waiter.getc = NoThread]
     /\ UNCHANGED <<rcall, rgot>>

(* The handler receives bytes as long as the port has some and there is    *)
(* room, then sends bytes as long as the port accepts them.                *)
serial_interrupt(bytes, k) ==
  /\ mode = "QUEUE" /\ (ier.xmit \/ ier.recv)
  /\ Len(bytes) + Len(ContentsOf(buffer)) < BufSize /\ k <= Len(ContentsOf(txq))
  /\ Receive(bytes) /\ Send(k)
  /\ UNCHANGED mode
  /\ write_ier

Received == UNION {[1 .. n -> Byte] : n \in 0 .. BufSize - 1}

Interrupt(ks) == \E bytes \in Received, k \in ks : serial_interrupt(bytes, k)

SerialNext ==
  \/ serial_init_queue
  \/ \E t \in Reader : input_getc(t) \/ input_getc_resume(t)
  \/ \E b \in Byte : input_putc(b) \/ serial_putc_poll(b) \/ serial_putc_off(b)
  \/ \E t \in Writer : (\E b \in Byte : serial_putc(t, b)) \/ serial_putc_resume(t)
  \/ serial_flush
  \/ Interrupt(0 .. BufSize - 1)

SerialSpec == SerialInit /\ [][SerialNext]_serialVars

(* An unblocked thread runs, and a port that may raise the transmit        *)
(* interrupt raises it and takes a byte.                                   *)
FairSerialSpec ==
  /\ SerialSpec
  /\ \A t \in Reader : WF_serialVars(input_getc_resume(t))
  /\ \A t \in Writer : WF_serialVars(serial_putc_resume(t))
  /\ WF_serialVars(ier.xmit /\ Interrupt(1 .. BufSize - 1))

-----------------------------------------------------------------------------

(* write_ier, serial_notify: the register is reassessed on every path that *)
(* changes a queue, so a byte to send, or room to receive one, never finds *)
(* its interrupt disabled.                                                 *)
InterruptsEnabled ==
  mode = "QUEUE" =>
    /\ ~ intq_empty(txq) => ier.xmit
    /\ ~ intq_full(buffer) => ier.recv

(* Bytes reach the port in the order of the calls of serial_putc, whether  *)
(* the handler, a caller with interrupts off or serial_flush sends them.   *)
SentInOrder ==
  [][mode = "QUEUE" =>
       LET c == ContentsOf(txq) IN
         \E k \in 0 .. Len(c), new \in {<<>>} \cup {<<b>> : b \in Byte} :
           /\ ContentsOf(txq') = SubSeq(c, k + 1, Len(c)) \o new
           /\ thr'[Handler] = IF k = 0 THEN thr[Handler] ELSE c[k]]_serialVars

(* serial_putc, serial_interrupt, input_getc: the oldest byte in the queue *)
(* never stays there for ever but is sent, and a reader never waits for    *)
(* ever when there are bytes.                                              *)
NothingStuck ==
  /\ \A p \in 0 .. BufSize - 1 : []<>~ (txq.tail = p /\ txq.head # p)
  /\ \A t \in Reader : []<>(rcall[t].at = "outside" \/ intq_empty(buffer))

=============================================================================
