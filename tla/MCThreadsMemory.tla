-------------------------- MODULE MCThreadsMemory --------------------------
(* The thread system, and the allocators with two threads and three pages  *)
(* (small blocks two to an arena, big blocks of two pages).  They share no *)
(* state: a behaviour is one of the part chosen at the start, with the     *)
(* other as it began.                                                      *)
EXTENDS MCThreads, Memory

VARIABLE part

all == <<part, vars, memoryVars>>

MCInit == Init /\ MemoryInit /\ part \in {"threads", "memory"}

Threading(A) == part = "threads" /\ A /\ UNCHANGED <<part, memoryVars>>
Allocating(A) == part = "memory" /\ A /\ UNCHANGED <<part, vars>>

MCNext == Threading(Next) \/ Allocating(MemoryNext)

(* Each part with its own fairness: FairSpec and FairMemorySpec. *)
MCFairSpec ==
  /\ MCInit /\ [][MCNext]_all
  /\ SF_all(Threading(timer_interrupt))
  /\ WF_all(Threading(Handler))
  /\ \A t \in Thread : WF_all(Threading(sema_down_retry(t)))
  /\ \A c \in Caller : WF_all(Allocating(Run(c)))
=============================================================================
