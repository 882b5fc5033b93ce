-------------------------------- MODULE Fifo --------------------------------
(* What devices/intq.h promises: a bounded first-in first-out queue. *)
EXTENDS Naturals, Sequences

CONSTANTS User, Byte, Capacity, NoByte

VARIABLES
  items,   \* the bytes in the queue, oldest first
  got      \* the last byte each user removed

Init == items = <<>> /\ got = [u \in User |-> NoByte]

Put(b) ==
  /\ Len(items) < Capacity
  /\ items' = Append(items, b)
  /\ UNCHANGED got

Get(u) ==
  /\ items # <<>>
  /\ got' = [got EXCEPT ![u] = Head(items)]
  /\ items' = Tail(items)

Next == (\E b \in Byte : Put(b)) \/ (\E u \in User : Get(u))

Spec == Init /\ [][Next]_<<items, got>>

=============================================================================
