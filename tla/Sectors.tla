------------------------------ MODULE Sectors ------------------------------
(* What devices/disk.h promises: sectors that threads read and write, each *)
(* transfer taking effect at one moment between its call and its return.   *)

CONSTANTS Thread, Dev, Sector, Value, NoData

VARIABLES
  held,   \* the data of each sector of each disk
  call    \* of each thread: [op, d, sec, data, over]

None == [op |-> "none", d |-> 0, sec |-> 0, data |-> NoData, over |-> FALSE]

Init ==
  /\ held \in [Dev -> [Sector -> Value]]
  /\ call = [t \in Thread |-> None]

Call(t) ==
  /\ call[t].op = "none"
  /\ \E op \in {"read", "write"}, d \in Dev, sec \in Sector, v \in Value \cup {NoData} :
       call' = [call EXCEPT ![t] = [op |-> op, d |-> d, sec |-> sec, data |-> v, over |-> FALSE]]
  /\ UNCHANGED held

Transfer(t) ==
  LET k == call[t] IN
    /\ k.op # "none" /\ ~ k.over
    /\ \/ /\ k.op = "read"
          /\ call' = [call EXCEPT ![t].data = held[k.d][k.sec], ![t].over = TRUE]
          /\ UNCHANGED held
       \/ /\ k.op = "write"
          /\ held' = [held EXCEPT ![k.d][k.sec] = k.data]
          /\ call' = [call EXCEPT ![t].over = TRUE]

Return(t) ==
  /\ call[t].over
  /\ call' = [call EXCEPT ![t] = None]
  /\ UNCHANGED held

Next == \E t \in Thread : Call(t) \/ Transfer(t) \/ Return(t)

Spec == Init /\ [][Next]_<<held, call>>

=============================================================================
