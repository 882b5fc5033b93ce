------------------------------- MODULE Synch -------------------------------
(***************************************************************************)
(* Locks and condition variables (threads/synch.c) on the semaphores of    *)
(* module Semaphore.  Their code runs with interrupts on, so a thread can  *)
(* be switched out between any two of its statements: between sema_down    *)
(* and the assignment to holder, between that and sema_up, and at every    *)
(* point of cond_wait and cond_signal.  Each semaphore operation is one    *)
(* step.                                                                   *)
(***************************************************************************)
EXTENDS Semaphore

CONSTANTS
  Lock,        \* each lock's semaphore stands for the lock
  Cond,
  LockOf,      \* the lock a condition is used with
  WaiterSema,  \* the semaphore on the stack of each thread's cond_wait
  NoThread,
  NoLock,
  NoCond

ASSUME SynchAssumption ==
  /\ WaiterSema \in [Thread -> Sema]
  /\ \A t, u \in Thread : WaiterSema[t] = WaiterSema[u] => t = u
  /\ Lock \subseteq Sema /\ \A t \in Thread : WaiterSema[t] \notin Lock
  /\ LockOf \in [Cond -> Lock]
  /\ \A s \in Sema : InitValue[s] = IF s \in Lock THEN 1 ELSE 0
  /\ NoThread \notin Thread /\ NoLock \notin Lock /\ NoCond \notin Cond
  /\ MaxValue > 1

VARIABLES
  holder,        \* lock->holder
  cond_waiters,  \* cond->waiters, as the threads that wait
  pc,            \* where each thread is
  lock,          \* the lock its call is about
  cond,          \* the condition of its cond_wait
  target,        \* the thread its cond_signal has taken off the list
  broadcast      \* the condition of its cond_broadcast

semaVars == <<value, waiters, woken>>
callVars == <<lock, cond, target, broadcast>>
svars == <<semaVars, callVars, holder, cond_waiters, pc>>

SInit ==
  /\ Init
  /\ holder = [l \in Lock |-> NoThread]
  /\ cond_waiters = [c \in Cond |-> <<>>]
  /\ pc = [t \in Thread |-> "run"]
  /\ lock = [t \in Thread |-> NoLock]
  /\ cond = [t \in Thread |-> NoCond]
  /\ target = [t \in Thread |-> NoThread]
  /\ broadcast = [t \in Thread |-> NoCond]

At(t, p) == pc[t] = p
Goto(t, p) == pc' = [pc EXCEPT ![t] = p]

-----------------------------------------------------------------------------
(* lock_acquire, lock_try_acquire: the caller must not hold the lock.  The *)
(* semaphore is taken, then the holder is set.                             *)

AfterDown(t, s, taken, asleep) == Goto(t, IF value[s] > 0 THEN taken ELSE asleep)

lock_acquire(t, l) ==
  /\ At(t, "run") /\ holder[l] # t
  /\ sema_down(t, l)
  /\ AfterDown(t, l, "set_holder", "lock_down")
  /\ lock' = [lock EXCEPT ![t] = l]
  /\ UNCHANGED <<holder, cond_waiters, cond, target, broadcast>>

lock_acquire_retry(t) ==
  /\ At(t, "lock_down")
  /\ sema_down_retry(t, lock[t])
  /\ AfterDown(t, lock[t], "set_holder", "lock_down")
  /\ UNCHANGED <<holder, cond_waiters, callVars>>

lock_try_acquire(t, l) ==
  /\ At(t, "run") /\ holder[l] # t
  /\ sema_try_down(l)
  /\ Goto(t, "set_holder")
  /\ lock' = [lock EXCEPT ![t] = l]
  /\ UNCHANGED <<holder, cond_waiters, cond, target, broadcast>>

(* The end of lock_acquire, and of the cond_wait it may be part of. *)
set_holder(t) ==
  /\ At(t, "set_holder")
  /\ holder' = [holder EXCEPT ![lock[t]] = t]
  /\ lock' = [lock EXCEPT ![t] = NoLock]
  /\ cond' = [cond EXCEPT ![t] = NoCond]
  /\ Goto(t, "run")
  /\ UNCHANGED <<semaVars, cond_waiters, target, broadcast>>

-----------------------------------------------------------------------------
(* lock_release: the holder is cleared, then the semaphore is upped. *)

lock_release(t, l) ==
  /\ At(t, "run") /\ holder[l] = t
  /\ holder' = [holder EXCEPT ![l] = NoThread]
  /\ lock' = [lock EXCEPT ![t] = l]
  /\ Goto(t, "release_up")
  /\ UNCHANGED <<semaVars, cond_waiters, cond, target, broadcast>>

release_up(t) ==
  /\ At(t, "release_up")
  /\ sema_up(lock[t])
  /\ Goto(t, IF cond[t] = NoCond THEN "run" ELSE "cond_down")
  /\ UNCHANGED <<holder, cond_waiters, callVars>>

-----------------------------------------------------------------------------
(* cond_wait: the caller holds the lock. *)

(* sema_init of the waiter and list_push_back ... *)
cond_wait(t, c) ==
  /\ At(t, "run") /\ holder[LockOf[c]] = t
  /\ value' = [value EXCEPT ![WaiterSema[t]] = 0]
  /\ cond_waiters' = [cond_waiters EXCEPT ![c] = Append(@, t)]
  /\ lock' = [lock EXCEPT ![t] = LockOf[c]]
  /\ cond' = [cond EXCEPT ![t] = c]
  /\ Goto(t, "cond_release")
  /\ UNCHANGED <<waiters, woken, holder, target, broadcast>>

(* ... then lock_release (which goes on at release_up) ... *)
cond_release(t) ==
  /\ At(t, "cond_release")
  /\ holder' = [holder EXCEPT ![lock[t]] = NoThread]
  /\ Goto(t, "release_up")
  /\ UNCHANGED <<semaVars, cond_waiters, callVars>>

(* Bug: the waiter's semaphore is initialised only when it is waited for. *)
cond_down_LateInit(t) ==
  /\ At(t, "cond_down")
  /\ value' = [value EXCEPT ![WaiterSema[t]] = 0]
  /\ waiters' = [waiters EXCEPT ![WaiterSema[t]] = Append(@, t)]
  /\ Goto(t, "cond_sleep")
  /\ UNCHANGED <<woken, holder, cond_waiters, callVars>>

(* ... then sema_down of the waiter ... *)
cond_down(t) ==
  /\ At(t, "cond_down")
  /\ sema_down(t, WaiterSema[t])
  /\ AfterDown(t, WaiterSema[t], "cond_lock", "cond_sleep")
  /\ UNCHANGED <<holder, cond_waiters, callVars>>

cond_down_retry(t) ==
  /\ At(t, "cond_sleep")
  /\ sema_down_retry(t, WaiterSema[t])
  /\ AfterDown(t, WaiterSema[t], "cond_lock", "cond_sleep")
  /\ UNCHANGED <<holder, cond_waiters, callVars>>

(* ... and lock_acquire. *)
cond_lock(t) ==
  /\ At(t, "cond_lock")
  /\ sema_down(t, lock[t])
  /\ AfterDown(t, lock[t], "set_holder", "lock_down")
  /\ UNCHANGED <<holder, cond_waiters, callVars>>

-----------------------------------------------------------------------------
(* cond_signal and cond_broadcast: the caller holds the lock. *)

(* Bug: list_front instead of list_pop_front. *)
Pop_Front(t, c) ==
  /\ cond_waiters[c] # <<>>
  /\ target' = [target EXCEPT ![t] = Head(cond_waiters[c])]
  /\ Goto(t, "signal_up")
  /\ UNCHANGED <<semaVars, holder, lock, cond, cond_waiters>>

(* cond_signal takes the first waiter off the list; if there is none, it   *)
(* does nothing.                                                           *)
Pop(t, c) ==
  /\ cond_waiters[c] # <<>>
  /\ cond_waiters' = [cond_waiters EXCEPT ![c] = Tail(@)]
  /\ target' = [target EXCEPT ![t] = Head(cond_waiters[c])]
  /\ Goto(t, "signal_up")
  /\ UNCHANGED <<semaVars, holder, lock, cond>>

cond_signal(t, c) ==
  /\ At(t, "run") /\ holder[LockOf[c]] = t
  /\ Pop(t, c)
  /\ UNCHANGED broadcast

cond_broadcast(t, c) ==
  /\ At(t, "run") /\ holder[LockOf[c]] = t
  /\ Pop(t, c)
  /\ broadcast' = [broadcast EXCEPT ![t] = c]

(* cond_signal's sema_up, and cond_broadcast's test for more waiters. *)
signal_up(t) ==
  /\ At(t, "signal_up")
  /\ sema_up(WaiterSema[target[t]])
  /\ target' = [target EXCEPT ![t] = NoThread]
  /\ LET more == broadcast[t] # NoCond /\ cond_waiters[broadcast[t]] # <<>> IN
       /\ Goto(t, IF more THEN "broadcast" ELSE "run")
       /\ broadcast' = [broadcast EXCEPT ![t] = IF more THEN @ ELSE NoCond]
  /\ UNCHANGED <<holder, cond_waiters, lock, cond>>

broadcast_next(t) ==
  /\ At(t, "broadcast")
  /\ Pop(t, broadcast[t])
  /\ UNCHANGED broadcast

-----------------------------------------------------------------------------

Call(t) ==
  \/ \E l \in Lock : lock_acquire(t, l) \/ lock_try_acquire(t, l) \/ lock_release(t, l)
  \/ \E c \in Cond : cond_wait(t, c) \/ cond_signal(t, c) \/ cond_broadcast(t, c)

(* The steps a thread takes by itself inside a call. *)
Inner(t) ==
  \/ lock_acquire_retry(t) \/ set_holder(t) \/ release_up(t)
  \/ cond_release(t) \/ cond_down(t) \/ cond_down_retry(t) \/ cond_lock(t)
  \/ signal_up(t) \/ broadcast_next(t)

SNext == \E t \in Thread : Call(t) \/ Inner(t)

SynchSpec == SInit /\ [][SNext]_svars

(* Threads of equal priority take turns, so a thread that is not asleep    *)
(* runs on inside a call.  Nothing is assumed of the code between calls.   *)
FairSynchSpec == SynchSpec /\ \A t \in Thread : WF_svars(Inner(t))

-----------------------------------------------------------------------------

(* t has the lock: from the end of lock_acquire's sema_down to the start   *)
(* of lock_release's sema_up.                                              *)
Has(t, l) ==
  \/ holder[l] = t
  \/ pc[t] \in {"set_holder", "release_up"} /\ lock[t] = l

(* lock_acquire, lock_release: a lock is free or has exactly one thread,   *)
(* although the semaphore and the holder are changed in separate steps;    *)
(* the holder, which lock_held_by_current_thread reads unprotected, is     *)
(* never a thread that has not got the lock or has given it back.          *)
OneHolder ==
  \A l \in Lock : value[l] + Cardinality({t \in Thread : Has(t, l)}) = 1

(* t is inside cond_wait and has not taken its signal. *)
Unsignalled(t) ==
  cond[t] # NoCond /\ pc[t] \in {"cond_release", "release_up", "cond_down", "cond_sleep"}

(* cond_wait, cond_signal: from the moment a thread is on the list to the  *)
(* moment it has taken its signal, there is exactly one of: its place on   *)
(* the list, a signaller that has taken it off, a unit in its semaphore.   *)
(* No signal is lost when it comes before the waiter sleeps, and none is   *)
(* delivered twice.                                                        *)
SignalConserved ==
  \A t \in Thread :
    LET queued == {c \in Cond : t \in Members(cond_waiters[c])}
        signals == {u \in Thread : target[u] = t}
    IN Cardinality(queued) + Cardinality(signals) + value[WaiterSema[t]]
         = IF Unsignalled(t) THEN 1 ELSE 0

(* lock_release wakes somebody if anybody waits: a lock that is free while *)
(* a thread is inside lock_acquire is taken.  And a thread that            *)
(* cond_signal or cond_broadcast has picked stops waiting, whenever the    *)
(* signal comes.                                                           *)
WaitersGoOn ==
  /\ \A l \in Lock :
       (value[l] = 1 /\ \E t \in Thread : pc[t] = "lock_down" /\ lock[t] = l)
         ~> value[l] = 0
  /\ \A t \in Thread :
       (\E u \in Thread : target[u] = t) ~> pc[t] \in {"cond_lock", "lock_down", "set_holder"}

-----------------------------------------------------------------------------
(* The inductive invariant behind OneHolder, SignalConserved and the       *)
(* refinement: types ...                                                   *)
LockPc == {"lock_down", "set_holder", "release_up", "cond_release", "cond_down",
           "cond_sleep", "cond_lock"}

SynchTypeOK ==
  /\ TypeOK
  /\ holder \in [Lock -> Thread \cup {NoThread}]
  /\ cond_waiters \in [Cond -> Seq(Thread)]
  /\ pc \in [Thread -> LockPc \cup {"run", "signal_up", "broadcast"}]
  /\ lock \in [Thread -> Lock \cup {NoLock}]
  /\ cond \in [Thread -> Cond \cup {NoCond}]
  /\ target \in [Thread -> Thread \cup {NoThread}]
  /\ broadcast \in [Thread -> Cond \cup {NoCond}]

(* ... a lock's semaphore is 1 when nobody has the lock, 0 when one thread *)
(* has it ...                                                              *)
LockInv ==
  \A l \in Lock :
    /\ value[l] \in {0, 1}
    /\ value[l] = 0 <=> \E t \in Thread : Has(t, l)
    /\ \A t, u \in Thread : Has(t, l) /\ Has(u, l) => t = u

(* ... where a thread is in a call tells what the call is about and        *)
(* whether the thread is the holder ...                                    *)
CallInv ==
  \A t \in Thread :
    /\ pc[t] \in LockPc => /\ lock[t] \in Lock
                           /\ holder[lock[t]] = t <=> pc[t] = "cond_release"
    /\ cond[t] # NoCond => pc[t] \in LockPc /\ lock[t] = LockOf[cond[t]]
    /\ pc[t] \in {"cond_release", "cond_down", "cond_sleep", "cond_lock"} => cond[t] # NoCond
    /\ pc[t] = "signal_up" <=> target[t] # NoThread
    /\ pc[t] = "broadcast" => broadcast[t] # NoCond
    /\ broadcast[t] # NoCond => /\ pc[t] \in {"signal_up", "broadcast"}
                               /\ holder[LockOf[broadcast[t]]] = t

(* ... and who waits for a condition is queued, picked by one signaller,   *)
(* or has its signal; the first as long as it has the lock.                *)
SignalOf(t) ==
  /\ \A c \in Cond : t \in Members(cond_waiters[c]) =>
       /\ Unsignalled(t) /\ c = cond[t] /\ value[WaiterSema[t]] = 0
       /\ \A u \in Thread : target[u] # t
  /\ \A u \in Thread : target[u] = t =>
       /\ Unsignalled(t) /\ value[WaiterSema[t]] = 0
       /\ \A v \in Thread : target[v] = t => v = u
  /\ value[WaiterSema[t]] > 0 => value[WaiterSema[t]] = 1 /\ Unsignalled(t)
  /\ Unsignalled(t) =>
       \/ t \in Members(cond_waiters[cond[t]])
       \/ /\ pc[t] \in {"cond_down", "cond_sleep"}
          /\ value[WaiterSema[t]] = 1 \/ \E u \in Thread : target[u] = t

SignalInv ==
  /\ \A c \in Cond : Once(cond_waiters[c])
  /\ \A t \in Thread : SignalOf(t)

SynchInv == SynchTypeOK /\ LockInv /\ CallInv /\ SignalInv

=============================================================================
