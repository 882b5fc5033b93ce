----------------------------- MODULE Semaphore -----------------------------
(***************************************************************************)
(* The counting semaphores of threads/synch.c, with the scheduler          *)
(* abstracted away: any thread that is not asleep may take the next step.  *)
(* Each operation runs with interrupts off on the only CPU, so it is one   *)
(* step.  sema_down is a loop: a thread that is woken re-tests the value   *)
(* only when it is scheduled, which may be long after the sema_up that     *)
(* woke it; until then it is in woken[s].                                  *)
(***************************************************************************)
EXTENDS Lists, FiniteSets

CONSTANTS
  Thread,     \* the threads
  Sema,       \* the semaphores
  InitValue,  \* the value each one is given by sema_init
  MaxValue    \* bound: no sema_up beyond this value

ASSUME SemaAssumption ==
  /\ IsFiniteSet(Thread)
  /\ InitValue \in [Sema -> Nat]
  /\ MaxValue \in Nat

VARIABLES
  value,      \* sema->value
  waiters,    \* sema->waiters
  woken       \* threads taken off waiters that are still inside sema_down

vars == <<value, waiters, woken>>

(* Threads that are inside sema_down on s, asleep or woken. *)
Inside(s) == Members(waiters[s]) \cup woken[s]

Outside == {t \in Thread : \A s \in Sema : t \notin Inside(s)}

Init ==
  /\ value = InitValue
  /\ waiters = [s \in Sema |-> <<>>]
  /\ woken = [s \in Sema |-> {}]

-----------------------------------------------------------------------------

(* The body of sema_down's loop and the decrement after it, for a thread t *)
(* that leaves the threads rest woken.                                     *)
Test(t, s, rest) ==
  /\ woken' = [woken EXCEPT ![s] = rest]
  /\ \/ /\ value[s] = 0
        /\ waiters' = [waiters EXCEPT ![s] = Append(@, t)]
        /\ UNCHANGED value
     \/ /\ value[s] > 0
        /\ value' = [value EXCEPT ![s] = @ - 1]
        /\ UNCHANGED waiters

sema_down(t, s) ==
  /\ t \in Outside
  /\ Test(t, s, woken[s])

(* A woken thread is scheduled and goes round the loop. *)
sema_down_retry(t, s) ==
  /\ t \in woken[s]
  /\ Test(t, s, woken[s] \ {t})

(* Callable from interrupt handlers too, so it has no caller. *)
sema_try_down(s) ==
  /\ value[s] > 0
  /\ value' = [value EXCEPT ![s] = @ - 1]
  /\ UNCHANGED <<waiters, woken>>

(* Bug: the last waiter is taken for the end of the list. *)
sema_up_LeavesLast(s) ==
  /\ value[s] < MaxValue
  /\ value' = [value EXCEPT ![s] = @ + 1]
  /\ \/ /\ Len(waiters[s]) < 2
        /\ UNCHANGED <<waiters, woken>>
     \/ /\ Len(waiters[s]) > 1
        /\ waiters' = [waiters EXCEPT ![s] = Tail(@)]
        /\ woken' = [woken EXCEPT ![s] = @ \cup {Head(waiters[s])}]

sema_up(s) ==
  /\ value[s] < MaxValue
  /\ value' = [value EXCEPT ![s] = @ + 1]
  /\ \/ /\ waiters[s] = <<>>
        /\ UNCHANGED <<waiters, woken>>
     \/ /\ waiters[s] # <<>>
        /\ waiters' = [waiters EXCEPT ![s] = Tail(@)]
        /\ woken' = [woken EXCEPT ![s] = @ \cup {Head(waiters[s])}]

Next ==
  \E s \in Sema :
    \/ sema_up(s)
    \/ sema_try_down(s)
    \/ \E t \in Thread : sema_down(t, s) \/ sema_down_retry(t, s)

Spec == Init /\ [][Next]_vars

(* sema_up as its comment promises it: "wakes up one thread of those       *)
(* waiting for SEMA, if any".                                              *)
sema_up_one(s) ==
  /\ value[s] < MaxValue
  /\ value' = [value EXCEPT ![s] = @ + 1]
  /\ \/ /\ waiters[s] = <<>>
        /\ UNCHANGED <<waiters, woken>>
     \/ \E k \in 1 .. Len(waiters[s]) :
          /\ waiters' = [waiters EXCEPT ![s] = list_remove(@, k)]
          /\ woken' = [woken EXCEPT ![s] = @ \cup {waiters[s][k]}]

NextOne ==
  \E s \in Sema :
    \/ sema_up_one(s)
    \/ sema_try_down(s)
    \/ \E t \in Thread : sema_down(t, s) \/ sema_down_retry(t, s)

(* Semaphores that may be unfair to their waiters. *)
SpecOne == Init /\ [][NextOne]_vars

-----------------------------------------------------------------------------

TypeOK ==
  /\ value \in [Sema -> Nat]
  /\ waiters \in [Sema -> Seq(Thread)]
  /\ woken \in [Sema -> SUBSET Thread]

(* No wakeup is lost (sema_down, sema_up): threads never sleep on a        *)
(* semaphore that is up unless as many threads as it has units have been   *)
(* woken and are on their way to take them.  A sema_up that incremented    *)
(* the value without waking a waiter, or a sema_down that slept without    *)
(* re-testing, would leave a thread asleep beside a unit nobody comes for. *)
NoLostWakeup ==
  \A s \in Sema :
    waiters[s] # <<>> => value[s] <= Cardinality(woken[s])

(* A thread is queued at most once and is never both queued and woken: the *)
(* single list element `elem' of struct thread carries it through both     *)
(* states of the loop in sema_down.                                        *)
QueuedOnce ==
  /\ \A s \in Sema : Once(waiters[s]) /\ Members(waiters[s]) \cap woken[s] = {}
  /\ \A s, r \in Sema : s # r => Inside(s) \cap Inside(r) = {}

=============================================================================
