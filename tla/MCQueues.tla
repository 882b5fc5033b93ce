------------------------------ MODULE MCQueues ------------------------------
(* Three parts of the kernel that share no state: a behaviour is one of    *)
(* the part chosen at the start, with the others as they began.            *)
(*   - serial: one reader (of several, one can fail the assertion in wait  *)
(*     and stop the kernel, action lock_acquired of module IntQ) and one   *)
(*     writer with interrupts on (the console lock admits one);            *)
(*   - intq: threads at one end of a queue, an interrupt handler at the    *)
(*     other;                                                              *)
(*   - process: the initial thread and two processes that it or each       *)
(*     other start.                                                        *)
EXTENDS Serial, IntQ, MCProcess

VARIABLE part

all == <<part, serialVars, intqVars, vars>>

MCInit ==
  /\ SerialInit /\ IntQInit /\ Init
  /\ part \in {"serial", "intq", "process"}
  /\ part # "intq" => op = "getc"

Port(A) == part = "serial" /\ A /\ UNCHANGED <<part, intqVars, vars>>
Device(A) == part = "intq" /\ A /\ UNCHANGED <<part, serialVars, vars>>
Processes(A) == part = "process" /\ A /\ UNCHANGED <<part, serialVars, intqVars>>

(* Processes may all have ended, and all readers or writers of a queue may *)
(* be asleep.                                                              *)
MayStop == part \in {"process", "intq"} /\ UNCHANGED all

MCNext == Port(SerialNext) \/ Device(IntQNext) \/ Processes(Next) \/ MayStop

(* Each part with its own fairness: FairSerialSpec, and FairSpec of module *)
(* Process.                                                                *)
MCFairSpec ==
  /\ MCInit /\ [][MCNext]_all
  /\ \A r \in Reader : WF_all(Port(input_getc_resume(r)))
  /\ \A w \in Writer : WF_all(Port(serial_putc_resume(w)))
  /\ WF_all(Port(ier.xmit /\ Interrupt(1 .. BufSize - 1)))
  /\ \A p \in Proc : WF_all(Processes(Kernel(p)))
=============================================================================
