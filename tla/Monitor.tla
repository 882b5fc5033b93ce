------------------------------ MODULE Monitor ------------------------------
(***************************************************************************)
(* What the comments of threads/synch.c promise of locks and condition     *)
(* variables: a lock has at most one owner, cond_wait "atomically releases *)
(* LOCK and waits for COND to be signaled", cond_signal wakes one of those *)
(* waiting, and a woken thread owns the lock again before it goes on.      *)
(***************************************************************************)
EXTENDS Naturals

CONSTANTS Thread, Lock, Cond, LockOf, NoThread

VARIABLES
  owner,      \* of each lock, or NoThread
  waiting,    \* threads waiting for each condition
  signalled   \* threads that were signalled and need the lock again

vars == <<owner, waiting, signalled>>

Init ==
  /\ owner = [l \in Lock |-> NoThread]
  /\ waiting = [c \in Cond |-> {}]
  /\ signalled = [c \in Cond |-> {}]

Active(t) == \A c \in Cond : t \notin waiting[c] \cup signalled[c]

Acquire(t, l) ==
  /\ Active(t) /\ owner[l] = NoThread
  /\ owner' = [owner EXCEPT ![l] = t]
  /\ UNCHANGED <<waiting, signalled>>

Release(t, l) ==
  /\ Active(t) /\ owner[l] = t
  /\ owner' = [owner EXCEPT ![l] = NoThread]
  /\ UNCHANGED <<waiting, signalled>>

Wait(t, c) ==
  /\ Active(t) /\ owner[LockOf[c]] = t
  /\ owner' = [owner EXCEPT ![LockOf[c]] = NoThread]
  /\ waiting' = [waiting EXCEPT ![c] = @ \cup {t}]
  /\ UNCHANGED signalled

Signal(t, c) ==
  /\ Active(t) /\ owner[LockOf[c]] = t
  /\ \E u \in waiting[c] :
       /\ waiting' = [waiting EXCEPT ![c] = @ \ {u}]
       /\ signalled' = [signalled EXCEPT ![c] = @ \cup {u}]
  /\ UNCHANGED owner

Resume(t, c) ==
  /\ t \in signalled[c] /\ owner[LockOf[c]] = NoThread
  /\ owner' = [owner EXCEPT ![LockOf[c]] = t]
  /\ signalled' = [signalled EXCEPT ![c] = @ \ {t}]
  /\ UNCHANGED waiting

Next ==
  \E t \in Thread :
    \/ \E l \in Lock : Acquire(t, l) \/ Release(t, l)
    \/ \E c \in Cond : Wait(t, c) \/ Signal(t, c) \/ Resume(t, c)

Spec == Init /\ [][Next]_vars

=============================================================================
