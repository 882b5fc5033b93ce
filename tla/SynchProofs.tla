---------------------------- MODULE SynchProofs ----------------------------
(***************************************************************************)
(* Locks exclude and conditions lose no signal, for any number of threads, *)
(* locks and conditions, although the code of both can be interrupted      *)
(* between any two of its steps.                                           *)
(***************************************************************************)
EXTENDS SynchMonitor, SemaphoreProofs

(* What the actions do to everything but the wait lists of semaphores.     *)
(* lock_acquire, lock_try_acquire and the lock_acquire inside cond_wait    *)
(* take a unit of l's semaphore or wait for one.                           *)
Takes(t, l) ==
  /\ value[l] > 0 /\ value' = [value EXCEPT ![l] = @ - 1]
  /\ pc' = [pc EXCEPT ![t] = "set_holder"]

Acquires(t, l) ==
  /\ pc[t] \in {"run", "lock_down", "cond_lock"} /\ holder[l] # t
  /\ pc[t] # "run" => lock[t] = l
  /\ lock' = [lock EXCEPT ![t] = l]
  /\ Takes(t, l) \/ (value' = value /\ pc' = [pc EXCEPT ![t] = "lock_down"])
  /\ UNCHANGED <<holder, cond_waiters, cond, target, broadcast>>

(* The sema_up at the end of lock_release. *)
Frees(t, l) ==
  /\ pc[t] = "release_up" /\ lock[t] = l
  /\ value' = [value EXCEPT ![l] = @ + 1]
  /\ pc' = [pc EXCEPT ![t] = IF cond[t] = NoCond THEN "run" ELSE "cond_down"]
  /\ UNCHANGED <<holder, cond_waiters, callVars>>

(* The sema_down in cond_wait. *)
Sleeps(t) ==
  /\ pc[t] \in {"cond_down", "cond_sleep"}
  /\ \/ /\ value[WaiterSema[t]] > 0
        /\ value' = [value EXCEPT ![WaiterSema[t]] = @ - 1]
        /\ pc' = [pc EXCEPT ![t] = "cond_lock"]
     \/ /\ value[WaiterSema[t]] = 0
        /\ value' = value
        /\ pc' = [pc EXCEPT ![t] = "cond_sleep"]
  /\ UNCHANGED <<holder, cond_waiters, callVars>>

(* cond_signal, cond_broadcast and its next turn pick a waiter ... *)
Picks(t, c) ==
  /\ pc[t] \in {"run", "broadcast"} /\ holder[LockOf[c]] = t
  /\ Pop(t, c)
  /\ broadcast' = broadcast \/ broadcast' = [broadcast EXCEPT ![t] = c]
  /\ pc[t] = "broadcast" => broadcast' = broadcast

(* ... and up its semaphore. *)
Signals(t, u) ==
  /\ pc[t] = "signal_up" /\ target[t] = u
  /\ value' = [value EXCEPT ![WaiterSema[u]] = @ + 1]
  /\ target' = [target EXCEPT ![t] = NoThread]
  /\ \/ /\ broadcast[t] # NoCond
        /\ pc' = [pc EXCEPT ![t] = "broadcast"]
        /\ broadcast' = broadcast
     \/ /\ pc' = [pc EXCEPT ![t] = "run"]
        /\ broadcast' = [broadcast EXCEPT ![t] = NoCond]
  /\ UNCHANGED <<holder, cond_waiters, lock, cond>>

(* sema_down takes a unit if there is one. *)
LEMMA DownValue ==
  ASSUME SynchTypeOK, NEW t \in Thread, NEW s \in Sema,
         sema_down(t, s) \/ sema_down_retry(t, s)
  PROVE  /\ value[s] \in Nat
         /\ value[s] > 0 => value' = [value EXCEPT ![s] = @ - 1]
         /\ value[s] = 0 => value' = value
BY DEF SynchTypeOK, TypeOK, sema_down, sema_down_retry, Test

(* Every step of a thread is of one of these kinds. *)
LEMMA Kinds ==
  ASSUME SynchInv, NEW t \in Thread, Call(t) \/ Inner(t)
  PROVE  \/ \E l \in Lock : Acquires(t, l) \/ lock_release(t, l) \/ Frees(t, l)
         \/ \E c \in Cond : cond_wait(t, c) \/ Picks(t, c)
         \/ \E u \in Thread : Signals(t, u)
         \/ set_holder(t) \/ cond_release(t) \/ Sleeps(t)
<1> USE SynchAssumption
<1>1. SynchTypeOK /\ TypeOK /\ Lock \subseteq Sema
  BY Zenon DEF SynchInv, SynchTypeOK
<1>2. ASSUME NEW l \in Lock, lock_acquire(t, l)
      PROVE  Acquires(t, l)
  <2>1. /\ value[l] \in Nat
        /\ value[l] > 0 => value' = [value EXCEPT ![l] = @ - 1]
        /\ value[l] = 0 => value' = value
    BY <1>1, <1>2, DownValue, Zenon DEF lock_acquire
  <2>2. /\ pc[t] = "run" /\ holder[l] # t /\ lock' = [lock EXCEPT ![t] = l]
        /\ pc' = [pc EXCEPT ![t] = IF value[l] > 0 THEN "set_holder" ELSE "lock_down"]
        /\ UNCHANGED <<holder, cond_waiters, cond, target, broadcast>>
    BY <1>2, Zenon DEF lock_acquire, At, Goto, AfterDown
  <2>3. CASE value[l] > 0
    BY <2>1, <2>2, <2>3, Zenon DEF Acquires, Takes
  <2>4. CASE value[l] = 0
    <3>1. ~(value[l] > 0)
      BY <2>4
    <3> QED  BY <2>1, <2>2, <2>4, <3>1, Zenon DEF Acquires
  <2> QED  BY <2>1, <2>3, <2>4
<1>3. ASSUME NEW l \in Lock, lock_try_acquire(t, l)
      PROVE  Acquires(t, l)
  BY <1>3, Zenon DEF lock_try_acquire, sema_try_down, Acquires, Takes, At, Goto
<1>4. ASSUME NEW l \in Lock, lock[t] = l, lock_acquire_retry(t) \/ cond_lock(t)
      PROVE  Acquires(t, l)
  <2>1. sema_down(t, l) \/ sema_down_retry(t, l)
    BY <1>4, Zenon DEF lock_acquire_retry, cond_lock
  <2>2. /\ value[l] \in Nat
        /\ value[l] > 0 => value' = [value EXCEPT ![l] = @ - 1]
        /\ value[l] = 0 => value' = value
    BY <1>1, <2>1, DownValue, Zenon
  <2>3. pc[t] \in {"lock_down", "cond_lock"} /\ holder[l] # t
    BY <1>4, Zenon DEF lock_acquire_retry, cond_lock, At, SynchInv, CallInv, LockPc
  <2>4. lock' = [lock EXCEPT ![t] = l]
    BY <1>1, <1>4 DEF lock_acquire_retry, cond_lock, callVars, SynchTypeOK
  <2> QED  BY <1>4, <2>2, <2>3, <2>4 DEF lock_acquire_retry, cond_lock, Acquires, Takes, Goto,
                                        AfterDown, callVars
<1>5. ASSUME NEW l \in Lock, lock[t] = l, release_up(t)
      PROVE  Frees(t, l)
  BY <1>5, Zenon DEF release_up, sema_up, Frees, At, Goto
<1>6. ASSUME cond_down(t) \/ cond_down_retry(t)
      PROVE  Sleeps(t)
  <2>1. WaiterSema[t] \in Sema
    BY Zenon
  <2>2. sema_down(t, WaiterSema[t]) \/ sema_down_retry(t, WaiterSema[t])
    BY <1>6, Zenon DEF cond_down, cond_down_retry
  <2>3. /\ value[WaiterSema[t]] \in Nat
        /\ value[WaiterSema[t]] > 0 => value' = [value EXCEPT ![WaiterSema[t]] = @ - 1]
        /\ value[WaiterSema[t]] = 0 => value' = value
    BY <1>1, <2>1, <2>2, DownValue, Zenon
  <2> QED  BY <1>6, <2>3 DEF cond_down, cond_down_retry, Sleeps, At, Goto, AfterDown
<1>7. ASSUME NEW c \in Cond, cond_signal(t, c) \/ cond_broadcast(t, c)
      PROVE  Picks(t, c)
  BY <1>7, Zenon DEF cond_signal, cond_broadcast, Picks, At
<1>8. ASSUME NEW c \in Cond, broadcast[t] = c, broadcast_next(t)
      PROVE  Picks(t, c)
  BY <1>8, Zenon DEF broadcast_next, Picks, At, SynchInv, CallInv
<1>9. ASSUME NEW u \in Thread, target[t] = u, signal_up(t)
      PROVE  Signals(t, u)
  <2>1. CASE broadcast[t] # NoCond /\ cond_waiters[broadcast[t]] # <<>>
    BY <1>1, <1>9, <2>1, Zenon DEF signal_up, sema_up, Signals, At, Goto, SynchTypeOK
  <2>2. CASE ~(broadcast[t] # NoCond /\ cond_waiters[broadcast[t]] # <<>>)
    BY <1>9, <2>2, Zenon DEF signal_up, sema_up, Signals, At, Goto
  <2> QED  BY <2>1, <2>2, Zenon
<1>10. pc[t] \in LockPc => \E l \in Lock : lock[t] = l
  BY Zenon DEF SynchInv, CallInv
<1>11. pc[t] = "signal_up" => \E u \in Thread : target[t] = u
  BY DEF SynchInv, SynchTypeOK, CallInv
<1>12. pc[t] = "broadcast" => \E c \in Cond : broadcast[t] = c
  BY DEF SynchInv, SynchTypeOK, CallInv
<1>13. CASE Call(t)
  BY <1>2, <1>3, <1>7, <1>13, Zenon DEF Call
<1>14. CASE lock_acquire_retry(t) \/ cond_lock(t) \/ release_up(t)
  <2>1. PICK l \in Lock : lock[t] = l
    BY <1>10, <1>14, Zenon DEF lock_acquire_retry, cond_lock, release_up, At, LockPc
  <2> QED  BY <1>4, <1>5, <1>14, <2>1, Zenon
<1>15. CASE signal_up(t)
  <2>1. PICK u \in Thread : target[t] = u
    BY <1>11, <1>15, Zenon DEF signal_up, At
  <2> QED  BY <1>9, <1>15, <2>1, Zenon
<1>16. CASE broadcast_next(t)
  <2>1. PICK c \in Cond : broadcast[t] = c
    BY <1>12, <1>16, Zenon DEF broadcast_next, At
  <2> QED  BY <1>8, <1>16, <2>1, Zenon
<1> QED  BY <1>6, <1>13, <1>14, <1>15, <1>16, Zenon DEF Inner

-----------------------------------------------------------------------------
(* The semaphores under the locks and conditions. *)

(* cond_wait's sema_init() of a semaphore nobody waits on does no harm. *)
LEMMA InitHarmless ==
  ASSUME SInv, NEW s \in Sema, value' = [value EXCEPT ![s] = 0],
         UNCHANGED <<waiters, woken>>
  PROVE  SInv'
<1>1. /\ value' \in [Sema -> Nat] /\ value'[s] = 0
      /\ \A r \in Sema \ {s} : value'[r] = value[r]
  BY Zenon DEF SInv, TypeOK
<1>2. TypeOK' /\ QueuedOnce'
  BY <1>1, Zenon DEF SInv, TypeOK, QueuedOnce, Inside
<1>3. Cardinality(woken[s]) \in Nat
  BY SemaAssumption, FS_Subset, FS_CardinalityType, Zenon DEF SInv, TypeOK
<1>4. NoLostWakeup'
  BY <1>1, <1>3 DEF SInv, NoLostWakeup
<1> QED  BY <1>2, <1>4, Zenon DEF SInv

(* Locks and conditions use semaphores as module Semaphore allows, but for *)
(* the sema_init in cond_wait; so no wakeup is lost under them either.     *)
LEMMA SemaPart ==
  ASSUME SynchInv, SInv, NEW t \in Thread, Call(t) \/ Inner(t)
  PROVE  SInv'
<1> USE SynchAssumption
<1>1. ASSUME NEW s \in Sema,
             \/ sema_up(s) \/ sema_try_down(s) \/ sema_down(t, s) \/ sema_down_retry(t, s)
      PROVE  SInv'
  BY <1>1, SemaNext, Zenon DEF Next
<1>2. ASSUME UNCHANGED semaVars
      PROVE  SInv'
  BY <1>2, SemaNext, Zenon DEF vars, semaVars
<1>3. CASE Call(t)
  <2>1. ASSUME NEW l \in Lock,
               lock_acquire(t, l) \/ lock_try_acquire(t, l) \/ lock_release(t, l)
        PROVE  SInv'
    BY <1>1, <1>2, <2>1, Zenon DEF lock_acquire, lock_try_acquire, lock_release
  <2>2. ASSUME NEW c \in Cond, cond_wait(t, c)
        PROVE  SInv'
    BY <2>2, InitHarmless, Zenon DEF cond_wait
  <2>3. ASSUME NEW c \in Cond, cond_signal(t, c) \/ cond_broadcast(t, c)
        PROVE  SInv'
    BY <1>2, <2>3, Zenon DEF cond_signal, cond_broadcast, Pop
  <2> QED  BY <1>3, <2>1, <2>2, <2>3, Zenon DEF Call
<1>4. CASE lock_acquire_retry(t) \/ release_up(t) \/ cond_lock(t)
  <2>1. PICK l \in Lock : lock[t] = l
    BY <1>4, Zenon DEF lock_acquire_retry, cond_lock, release_up, At, LockPc, SynchInv, CallInv
  <2> QED  BY <1>1, <1>4, <2>1, Zenon DEF lock_acquire_retry, cond_lock, release_up
<1>5. CASE set_holder(t) \/ cond_release(t) \/ broadcast_next(t)
  BY <1>2, <1>5, Zenon DEF set_holder, cond_release, broadcast_next, Pop
<1>6. CASE cond_down(t) \/ cond_down_retry(t)
  BY <1>1, <1>6, Zenon DEF cond_down, cond_down_retry
<1>7. CASE signal_up(t)
  <2>1. PICK u \in Thread : target[t] = u
    BY <1>7 DEF signal_up, At, SynchInv, SynchTypeOK, CallInv
  <2> QED  BY <1>1, <1>7, <2>1, Zenon DEF signal_up
<1> QED  BY <1>3, <1>4, <1>5, <1>6, <1>7, Zenon DEF Inner

-----------------------------------------------------------------------------
(* The inductive invariant.  Types first. *)

(* Every step keeps the types. *)
LEMMA TypeStep ==
  ASSUME SynchInv, SInv, NEW t \in Thread, Call(t) \/ Inner(t)
  PROVE  SynchTypeOK'
<1> USE SynchAssumption
<1>1. TypeOK'
  BY SemaPart, Zenon DEF SInv
<1>2. SynchTypeOK
  BY Zenon DEF SynchInv
<1>3. ASSUME NEW l \in Lock, Acquires(t, l) \/ lock_release(t, l) \/ Frees(t, l)
      PROVE  SynchTypeOK'
  <2>1. CASE Acquires(t, l)
    <3>1. pc' = [pc EXCEPT ![t] = "set_holder"] \/ pc' = [pc EXCEPT ![t] = "lock_down"]
      BY <2>1, Zenon DEF Acquires, Takes
    <3>2. pc' \in [Thread -> LockPc \cup {"run", "signal_up", "broadcast"}]
      BY <1>2, <3>1, SMTT(20) DEF SynchTypeOK, LockPc
    <3> QED  BY <1>1, <1>2, <2>1, <3>2, Zenon DEF Acquires, SynchTypeOK
  <2>2. CASE lock_release(t, l)
    BY <1>1, <1>2, <2>2, Zenon DEF lock_release, Goto, SynchTypeOK, LockPc
  <2>3. CASE Frees(t, l)
    <3>1. pc' \in [Thread -> LockPc \cup {"run", "signal_up", "broadcast"}]
      BY <1>2, <2>3, Zenon DEF Frees, SynchTypeOK, LockPc
    <3> QED  BY <1>1, <1>2, <2>3, <3>1, Zenon DEF Frees, SynchTypeOK, callVars
  <2> QED  BY <1>3, <2>1, <2>2, <2>3, Zenon
<1>4. ASSUME NEW c \in Cond, cond_wait(t, c)
      PROVE  SynchTypeOK'
  BY <1>1, <1>2, <1>4 DEF cond_wait, Goto, SynchTypeOK, LockPc
<1>5. ASSUME NEW c \in Cond, Picks(t, c)
      PROVE  SynchTypeOK'
  <2>1. /\ cond_waiters[c] \in Seq(Thread) /\ cond_waiters[c] # <<>>
    BY <1>2, <1>5, Zenon DEF Picks, Pop, SynchTypeOK
  <2>2. Head(cond_waiters[c]) \in Thread /\ Tail(cond_waiters[c]) \in Seq(Thread)
    BY <2>1
  <2>3. /\ cond_waiters' \in [Cond -> Seq(Thread)]
        /\ target' \in [Thread -> Thread \cup {NoThread}]
    BY <1>2, <1>5, <2>2, Zenon DEF Picks, Pop, SynchTypeOK
  <2>4. /\ pc' \in [Thread -> LockPc \cup {"run", "signal_up", "broadcast"}]
        /\ broadcast' \in [Thread -> Cond \cup {NoCond}]
    BY <1>2, <1>5 DEF Picks, Pop, Goto, SynchTypeOK
  <2> QED  BY <1>1, <1>2, <1>5, <2>3, <2>4, Zenon DEF Picks, Pop, SynchTypeOK
<1>6. ASSUME NEW u \in Thread, Signals(t, u)
      PROVE  SynchTypeOK'
  <2>1. /\ pc' \in [Thread -> LockPc \cup {"run", "signal_up", "broadcast"}]
        /\ broadcast' \in [Thread -> Cond \cup {NoCond}]
    <3>1. /\ pc' = [pc EXCEPT ![t] = "broadcast"] \/ pc' = [pc EXCEPT ![t] = "run"]
          /\ broadcast' = broadcast \/ broadcast' = [broadcast EXCEPT ![t] = NoCond]
      BY <1>6, Zenon DEF Signals
    <3>2. pc' \in [Thread -> LockPc \cup {"run", "signal_up", "broadcast"}]
      BY <1>2, <3>1 DEF SynchTypeOK
    <3>3. broadcast' \in [Thread -> Cond \cup {NoCond}]
      BY <1>2, <3>1 DEF SynchTypeOK
    <3> QED  BY <3>2, <3>3, Zenon
  <2>2. target' \in [Thread -> Thread \cup {NoThread}]
    BY <1>2, <1>6, Zenon DEF Signals, SynchTypeOK
  <2> QED  BY <1>1, <1>2, <1>6, <2>1, <2>2, Zenon DEF Signals, SynchTypeOK
<1>7. CASE set_holder(t)
  <2>1. PICK l \in Lock : lock[t] = l
    BY <1>7, Zenon DEF set_holder, At, LockPc, SynchInv, CallInv
  <2> QED  BY <1>1, <1>2, <1>7, <2>1, Zenon DEF set_holder, Goto, SynchTypeOK
<1>8. CASE cond_release(t)
  <2>1. PICK l \in Lock : lock[t] = l
    BY <1>8, Zenon DEF cond_release, At, LockPc, SynchInv, CallInv
  <2> QED  BY <1>1, <1>2, <1>8, <2>1, Zenon DEF cond_release, Goto, SynchTypeOK, callVars, LockPc
<1>9. CASE Sleeps(t)
  BY <1>1, <1>2, <1>9, Zenon DEF Sleeps, SynchTypeOK, callVars, LockPc
<1> QED  BY <1>3, <1>4, <1>5, <1>6, <1>7, <1>8, <1>9, Kinds, Zenon

-----------------------------------------------------------------------------
(* LockInv, CallInv and SignalInv, one kind of step at a time. *)

(* A step that changes neither the locks' values nor who has them. *)
LEMMA LockSame ==
  ASSUME LockInv, \A l \in Lock : value'[l] = value[l],
         \A u \in Thread, l \in Lock : Has(u, l)' <=> Has(u, l)
  PROVE  LockInv'
<1> SUFFICES ASSUME NEW l \in Lock
             PROVE  LockInv!(l)'
  BY Zenon DEF LockInv
<1>1. LockInv!(l)
  BY Zenon DEF LockInv
<1> QED  BY <1>1, Zenon

(* A step that moves no waiter and no signal. *)
LEMMA SignalSame ==
  ASSUME SignalInv, UNCHANGED <<cond_waiters, target>>,
         \A u \in Thread :
           /\ value'[WaiterSema[u]] = value[WaiterSema[u]]
           /\ Unsignalled(u)' <=> Unsignalled(u)
           /\ Unsignalled(u) => cond'[u] = cond[u]
           /\ pc[u] \in {"cond_down", "cond_sleep"} => pc'[u] \in {"cond_down", "cond_sleep"}
  PROVE  SignalInv'
<1>1. \A c \in Cond : Once(cond_waiters'[c])
  BY Zenon DEF SignalInv
<1>2. ASSUME NEW u \in Thread
      PROVE  SignalOf(u)'
  <2>1. SignalOf(u)
    BY Zenon DEF SignalInv
  <2>2. /\ value'[WaiterSema[u]] = value[WaiterSema[u]]
        /\ Unsignalled(u)' <=> Unsignalled(u)
        /\ Unsignalled(u) => cond'[u] = cond[u]
        /\ pc[u] \in {"cond_down", "cond_sleep"} => pc'[u] \in {"cond_down", "cond_sleep"}
    BY Zenon
  <2> QED  BY <2>1, <2>2, Zenon DEF SignalOf
<1> QED  BY <1>1, <1>2, Zenon DEF SignalInv

(* The acquisition of a lock. *)
LEMMA AcquireStep ==
  ASSUME SynchInv, NEW t \in Thread, NEW l \in Lock, Acquires(t, l)
  PROVE  LockInv' /\ CallInv' /\ SignalInv'
<1> USE SynchAssumption
<1>0. SynchTypeOK /\ LockInv /\ CallInv /\ SignalInv
  BY Zenon DEF SynchInv
<1>1. /\ pc[t] \in {"run", "lock_down", "cond_lock"} /\ holder[l] # t
      /\ pc[t] # "run" => lock[t] = l
      /\ \A u \in Thread : lock'[u] = IF u = t THEN l ELSE lock[u]
      /\ UNCHANGED <<holder, cond_waiters, cond, target, broadcast>>
  BY <1>0, Zenon DEF Acquires, SynchTypeOK
<1>2. PICK p \in {"set_holder", "lock_down"} :
        /\ \A u \in Thread : pc'[u] = IF u = t THEN p ELSE pc[u]
        /\ p = "set_holder" => value[l] > 0 /\ value' = [value EXCEPT ![l] = @ - 1]
        /\ p = "lock_down" => value' = value
  <2>1. CASE Takes(t, l)
    BY <1>0, <2>1, Zenon DEF Takes, SynchTypeOK
  <2>2. CASE value' = value /\ pc' = [pc EXCEPT ![t] = "lock_down"]
    BY <1>0, <2>2, Zenon DEF SynchTypeOK
  <2> QED  BY <2>1, <2>2, Zenon DEF Acquires
<1>3. \A s \in Sema : value'[s] = IF s = l /\ p = "set_holder" THEN value[l] - 1 ELSE value[s]
  BY <1>0, <1>2, Zenon DEF SynchTypeOK, TypeOK
<1>4. \A u \in Thread, k \in Lock :
        Has(u, k)' <=> Has(u, k) \/ (u = t /\ k = l /\ p = "set_holder")
  BY <1>1, <1>2, Zenon DEF Has
<1>5. LockInv'
  <2>1. CASE p = "lock_down"
    BY <1>0, <1>3, <1>4, <2>1, LockSame, Zenon
  <2>2. CASE p = "set_holder"
    <3>1. value[l] = 1 /\ value'[l] = 0 /\ \A u \in Thread : ~Has(u, l)
      BY <1>0, <1>2, <1>3, <2>2 DEF LockInv
    <3>2. \A u \in Thread : Has(u, l)' <=> u = t
      BY <1>4, <2>2, <3>1, Zenon
    <3>3. \A k \in Lock \ {l} : value'[k] = value[k] /\ \A u \in Thread : Has(u, k)' <=> Has(u, k)
      BY <1>3, <1>4, Zenon
    <3> SUFFICES ASSUME NEW k \in Lock
                 PROVE  LockInv!(k)'
      BY Zenon DEF LockInv
    <3>4. CASE k = l
      BY <3>1, <3>2, <3>4
    <3>5. CASE k # l
      <4>1. LockInv!(k)
        BY <1>0, Zenon DEF LockInv
      <4> QED  BY <3>3, <3>5, <4>1, Zenon
    <3> QED  BY <3>4, <3>5, Zenon
  <2> QED  BY <1>2, <2>1, <2>2, Zenon
<1>6. CallInv'
  <2> SUFFICES ASSUME NEW u \in Thread
               PROVE  CallInv!(u)'
    BY Zenon DEF CallInv
  <2>1. CallInv!(u)
    BY <1>0, Zenon DEF CallInv
  <2> QED  BY <1>1, <1>2, <2>1 DEF LockPc
<1>7. SignalInv'
  BY <1>0, <1>1, <1>2, <1>3, SignalSame DEF Unsignalled
<1> QED  BY <1>5, <1>6, <1>7, Zenon

(* The end of lock_acquire: the thread that has the lock is its holder. *)
LEMMA HolderStep ==
  ASSUME SynchInv, NEW t \in Thread, set_holder(t)
  PROVE  LockInv' /\ CallInv' /\ SignalInv'
<1> USE SynchAssumption
<1>0. SynchTypeOK /\ LockInv /\ CallInv /\ SignalInv
  BY Zenon DEF SynchInv
<1>1. PICK l \in Lock : lock[t] = l
  BY <1>0, Zenon DEF set_holder, At, LockPc, CallInv
<1>2. /\ pc[t] = "set_holder" /\ UNCHANGED <<value, cond_waiters, target, broadcast>>
      /\ \A k \in Lock : holder'[k] = IF k = l THEN t ELSE holder[k]
      /\ \A u \in Thread : /\ lock'[u] = IF u = t THEN NoLock ELSE lock[u]
                           /\ cond'[u] = IF u = t THEN NoCond ELSE cond[u]
                           /\ pc'[u] = IF u = t THEN "run" ELSE pc[u]
  BY <1>0, <1>1 DEF set_holder, At, Goto, semaVars, SynchTypeOK
<1>3. \A u \in Thread : Has(u, l) => u = t
  BY <1>0, <1>1, <1>2 DEF LockInv, Has
<1>4. \A u \in Thread, k \in Lock : Has(u, k)' <=> Has(u, k)
  BY <1>1, <1>2, <1>3 DEF Has
<1>5. LockInv'
  BY <1>0, <1>2, <1>4, LockSame, Zenon
<1>6. CallInv'
  <2> SUFFICES ASSUME NEW u \in Thread
               PROVE  CallInv!(u)'
    BY Zenon DEF CallInv
  <2>1. CallInv!(u)
    BY <1>0, Zenon DEF CallInv
  <2>2. holder[l] = u => u = t
    BY <1>3, Zenon DEF Has
  <2>3. broadcast[u] # NoCond => LockOf[broadcast[u]] \in Lock
    BY <1>0 DEF SynchTypeOK
  <2>4. CASE u = t
    BY <1>2, <2>1, <2>4, Zenon DEF LockPc
  <2>5. CASE u # t
    BY <1>2, <2>1, <2>2, <2>3, <2>5 DEF LockPc
  <2> QED  BY <2>4, <2>5, Zenon
<1>7. SignalInv'
  BY <1>0, <1>2, SignalSame, Zenon DEF Unsignalled
<1> QED  BY <1>5, <1>6, <1>7, Zenon

(* The start of lock_release, by itself or inside cond_wait: the holder is *)
(* cleared, but the thread has the lock until the sema_up.                 *)
LEMMA ClearStep ==
  ASSUME SynchInv, NEW t \in Thread, NEW l \in Lock,
         lock_release(t, l) \/ (lock[t] = l /\ cond_release(t))
  PROVE  LockInv' /\ CallInv' /\ SignalInv'
<1> USE SynchAssumption
<1>0. SynchTypeOK /\ LockInv /\ CallInv /\ SignalInv
  BY Zenon DEF SynchInv
<1>1. /\ pc[t] \in {"run", "cond_release"} /\ holder[l] = t
      /\ pc[t] = "cond_release" => lock[t] = l
  BY <1>0, Zenon DEF lock_release, cond_release, At, CallInv, LockPc
<1>2. /\ UNCHANGED <<value, cond_waiters, cond, target, broadcast>>
      /\ \A k \in Lock : holder'[k] = IF k = l THEN NoThread ELSE holder[k]
      /\ \A u \in Thread : /\ lock'[u] = IF u = t THEN l ELSE lock[u]
                           /\ pc'[u] = IF u = t THEN "release_up" ELSE pc[u]
  <2>1. CASE lock_release(t, l)
    BY <1>0, <2>1, Zenon DEF lock_release, Goto, semaVars, SynchTypeOK
  <2>2. CASE lock[t] = l /\ cond_release(t)
    BY <1>0, <2>2 DEF cond_release, Goto, semaVars, callVars, SynchTypeOK
  <2> QED  BY <2>1, <2>2, Zenon
<1>3. \A u \in Thread, k \in Lock : Has(u, k)' <=> Has(u, k)
  BY <1>1, <1>2 DEF Has
<1>4. LockInv'
  BY <1>0, <1>2, <1>3, LockSame, Zenon
<1>5. CallInv'
  <2> SUFFICES ASSUME NEW u \in Thread
               PROVE  CallInv!(u)'
    BY Zenon DEF CallInv
  <2>1. CallInv!(u)
    BY <1>0, Zenon DEF CallInv
  <2>2. broadcast[u] # NoCond => LockOf[broadcast[u]] \in Lock
    BY <1>0 DEF SynchTypeOK
  <2>3. CASE u = t
    BY <1>1, <1>2, <2>1, <2>3, SMTT(30) DEF LockPc
  <2>4. CASE u # t
    BY <1>1, <1>2, <2>1, <2>2, <2>4, SMTT(30) DEF LockPc
  <2> QED  BY <2>3, <2>4, Zenon
<1>6. SignalInv'
  <2>1. \A u \in Thread : Unsignalled(u)' <=> Unsignalled(u)
    <3>1. pc[t] = "run" => cond[t] = NoCond
      BY <1>0, Zenon DEF CallInv, LockPc
    <3> QED  BY <1>1, <1>2, <3>1, Zenon DEF Unsignalled
  <2> QED  BY <1>0, <1>1, <1>2, <2>1, SignalSame, Zenon
<1> QED  BY <1>4, <1>5, <1>6, Zenon

(* The sema_up at the end of lock_release: the lock is free. *)
LEMMA FreeStep ==
  ASSUME SynchInv, NEW t \in Thread, NEW l \in Lock, Frees(t, l)
  PROVE  LockInv' /\ CallInv' /\ SignalInv'
<1> USE SynchAssumption
<1>0. SynchTypeOK /\ LockInv /\ CallInv /\ SignalInv
  BY Zenon DEF SynchInv
<1>1. /\ pc[t] = "release_up" /\ lock[t] = l /\ holder[l] # t
      /\ UNCHANGED <<holder, cond_waiters, lock, cond, target, broadcast>>
      /\ \A u \in Thread : pc'[u] = IF u # t THEN pc[u]
                                     ELSE IF cond[t] = NoCond THEN "run" ELSE "cond_down"
      /\ \A s \in Sema : value'[s] = IF s = l THEN value[l] + 1 ELSE value[s]
  BY <1>0 DEF Frees, callVars, SynchTypeOK, TypeOK, CallInv, LockPc
<1>2. \A u \in Thread, k \in Lock : Has(u, k)' <=> Has(u, k) /\ ~(u = t /\ k = l)
  BY <1>1, Zenon DEF Has
<1>3. LockInv'
  <2>1. value[l] = 0 /\ \A u \in Thread : Has(u, l) => u = t
    BY <1>0, <1>1 DEF LockInv, Has
  <2>2. value'[l] = 1 /\ \A u \in Thread : ~Has(u, l)'
    BY <1>1, <1>2, <2>1, SMTT(30)
  <2>3. \A k \in Lock \ {l} : value'[k] = value[k] /\ \A u \in Thread : Has(u, k)' <=> Has(u, k)
    BY <1>1, <1>2, Zenon
  <2> SUFFICES ASSUME NEW k \in Lock
               PROVE  LockInv!(k)'
    BY Zenon DEF LockInv
  <2>4. CASE k = l
    BY <2>2, <2>4
  <2>5. CASE k # l
    <3>1. LockInv!(k)
      BY <1>0, Zenon DEF LockInv
    <3> QED  BY <2>3, <2>5, <3>1, Zenon
  <2> QED  BY <2>4, <2>5, Zenon
<1>4. CallInv'
  <2> SUFFICES ASSUME NEW u \in Thread
               PROVE  CallInv!(u)'
    BY Zenon DEF CallInv
  <2>1. CallInv!(u)
    BY <1>0, Zenon DEF CallInv
  <2> QED  BY <1>1, <2>1, Zenon DEF LockPc
<1>5. SignalInv'
  <2>1. \A u \in Thread : value'[WaiterSema[u]] = value[WaiterSema[u]]
    BY <1>1, Zenon
  <2>2. \A u \in Thread : Unsignalled(u)' <=> Unsignalled(u)
    BY <1>1, Zenon DEF Unsignalled
  <2> QED  BY <1>0, <1>1, <2>1, <2>2, SignalSame, Zenon
<1> QED  BY <1>3, <1>4, <1>5, Zenon

(* The start of cond_wait: the thread is on the list before it lets go of  *)
(* the lock.                                                               *)
LEMMA WaitStep ==
  ASSUME SynchInv, NEW t \in Thread, NEW c \in Cond, cond_wait(t, c)
  PROVE  LockInv' /\ CallInv' /\ SignalInv'
<1> USE SynchAssumption
<1>0. SynchTypeOK /\ LockInv /\ CallInv /\ SignalInv
  BY Zenon DEF SynchInv
<1>1. /\ pc[t] = "run" /\ holder[LockOf[c]] = t /\ LockOf[c] \in Lock
      /\ UNCHANGED <<holder, target, broadcast>>
      /\ cond_waiters' = [cond_waiters EXCEPT ![c] = Append(cond_waiters[c], t)]
      /\ value' = [value EXCEPT ![WaiterSema[t]] = 0]
  BY Zenon DEF cond_wait, At
<1>2. \A u \in Thread :
        /\ lock'[u] = IF u = t THEN LockOf[c] ELSE lock[u]
        /\ cond'[u] = IF u = t THEN c ELSE cond[u]
        /\ pc'[u] = IF u = t THEN "cond_release" ELSE pc[u]
  BY <1>0 DEF cond_wait, Goto, SynchTypeOK
<1>3. /\ \A u \in Thread : value'[WaiterSema[u]] = IF u = t THEN 0 ELSE value[WaiterSema[u]]
      /\ \A l \in Lock : value'[l] = value[l]
  BY <1>0, <1>1 DEF SynchTypeOK, TypeOK
<1>4. LockInv'
  <2>1. \A u \in Thread, k \in Lock : Has(u, k)' <=> Has(u, k)
    BY <1>1, <1>2, Zenon DEF Has
  <2> QED  BY <1>0, <1>3, <2>1, LockSame, Zenon
<1>5. CallInv'
  <2> SUFFICES ASSUME NEW u \in Thread
               PROVE  CallInv!(u)'
    BY Zenon DEF CallInv
  <2>1. CallInv!(u)
    BY <1>0, Zenon DEF CallInv
  <2> QED  BY <1>1, <1>2, <2>1 DEF LockPc
<1>6. SignalInv'
  <2>1. cond[t] = NoCond /\ ~Unsignalled(t) /\ SignalOf(t)
    BY <1>0, <1>1, SMTT(30) DEF CallInv, LockPc, Unsignalled, SignalInv
  <2>2. /\ \A k \in Cond : t \notin Members(cond_waiters[k])
        /\ \A u \in Thread : target[u] # t
    BY <2>1, Zenon DEF SignalOf
  <2>3. /\ Members(Append(cond_waiters[c], t)) = Members(cond_waiters[c]) \cup {t}
        /\ Once(Append(cond_waiters[c], t))
    BY <1>0, <2>2, PushBack, SMTT(30) DEF SynchTypeOK, SignalInv
  <2>4. \A k \in Cond :
          /\ Once(cond_waiters'[k])
          /\ Members(cond_waiters'[k]) = IF k = c THEN Members(cond_waiters[c]) \cup {t}
                                                  ELSE Members(cond_waiters[k])
    BY <1>0, <1>1, <2>3, Zenon DEF SynchTypeOK, SignalInv
  <2>5. ASSUME NEW u \in Thread
        PROVE  SignalOf(u)'
    <3>1. CASE u = t
      BY <1>1, <1>2, <1>3, <2>2, <2>4, <3>1, SMTT(30) DEF SignalOf, Unsignalled
    <3>2. CASE u # t
      <4>1. SignalOf(u)
        BY <1>0, Zenon DEF SignalInv
      <4>2. /\ Unsignalled(u)' <=> Unsignalled(u)
            /\ cond'[u] = cond[u] /\ pc'[u] = pc[u]
            /\ value'[WaiterSema[u]] = value[WaiterSema[u]]
        BY <1>2, <1>3, <3>2, Zenon DEF Unsignalled
      <4>3. \A k \in Cond : u \in Members(cond_waiters'[k]) <=> u \in Members(cond_waiters[k])
        BY <2>4, <3>2, Zenon
      <4>4. Unsignalled(u) => cond[u] \in Cond
        BY <1>0 DEF Unsignalled, SynchTypeOK
      <4> QED  BY <1>1, <4>1, <4>2, <4>3, <4>4 DEF SignalOf
    <3> QED  BY <3>1, <3>2, Zenon
  <2> QED  BY <2>4, <2>5, Zenon DEF SignalInv
<1> QED  BY <1>4, <1>5, <1>6, Zenon

(* The sema_down in cond_wait: the thread takes its signal, or sleeps. *)
LEMMA SleepStep ==
  ASSUME SynchInv, NEW t \in Thread, Sleeps(t)
  PROVE  LockInv' /\ CallInv' /\ SignalInv'
<1> USE SynchAssumption
<1>0. SynchTypeOK /\ LockInv /\ CallInv /\ SignalInv
  BY Zenon DEF SynchInv
<1>1. /\ pc[t] \in {"cond_down", "cond_sleep"} /\ cond[t] # NoCond
      /\ UNCHANGED <<holder, cond_waiters, lock, cond, target, broadcast>>
  BY <1>0, Zenon DEF Sleeps, callVars, CallInv
<1>2. PICK p \in {"cond_lock", "cond_sleep"} :
        /\ \A u \in Thread : pc'[u] = IF u = t THEN p ELSE pc[u]
        /\ p = "cond_lock" => /\ value[WaiterSema[t]] > 0
                              /\ value' = [value EXCEPT ![WaiterSema[t]] = @ - 1]
        /\ p = "cond_sleep" => value' = value
  <2>1. CASE /\ value[WaiterSema[t]] > 0
             /\ value' = [value EXCEPT ![WaiterSema[t]] = @ - 1]
             /\ pc' = [pc EXCEPT ![t] = "cond_lock"]
    BY <1>0, <2>1 DEF SynchTypeOK
  <2>2. CASE value' = value /\ pc' = [pc EXCEPT ![t] = "cond_sleep"]
    BY <1>0, <2>2 DEF SynchTypeOK
  <2> QED  BY <2>1, <2>2, Zenon DEF Sleeps
<1>3. /\ \A l \in Lock : value'[l] = value[l]
      /\ \A u \in Thread \ {t} : value'[WaiterSema[u]] = value[WaiterSema[u]]
      /\ p = "cond_lock" => value'[WaiterSema[t]] = value[WaiterSema[t]] - 1
  BY <1>0, <1>2 DEF SynchTypeOK, TypeOK
<1>4. LockInv'
  <2>1. \A u \in Thread, k \in Lock : Has(u, k)' <=> Has(u, k)
    BY <1>1, <1>2, Zenon DEF Has
  <2> QED  BY <1>0, <1>3, <2>1, LockSame, Zenon
<1>5. CallInv'
  <2> SUFFICES ASSUME NEW u \in Thread
               PROVE  CallInv!(u)'
    BY Zenon DEF CallInv
  <2>1. CallInv!(u)
    BY <1>0, Zenon DEF CallInv
  <2> QED  BY <1>1, <1>2, <2>1, Zenon DEF LockPc
<1>6. SignalInv'
  <2>1. CASE p = "cond_sleep"
    <3>1. \A u \in Thread : Unsignalled(u)' <=> Unsignalled(u)
      BY <1>1, <1>2, <2>1, Zenon DEF Unsignalled
    <3> QED  BY <1>0, <1>1, <1>2, <2>1, <3>1, SignalSame, Zenon
  <2>2. CASE p = "cond_lock"
    <3>1. value[WaiterSema[t]] = 1 /\ value'[WaiterSema[t]] = 0
          /\ (\A k \in Cond : t \notin Members(cond_waiters[k]))
          /\ \A u \in Thread : target[u] # t
      <4>1. SignalOf(t)
        BY <1>0, Zenon DEF SignalInv
      <4>2. value[WaiterSema[t]] = 1
        BY <1>2, <2>2, <4>1, Zenon DEF SignalOf
      <4> QED  BY <1>3, <2>2, <4>1, <4>2, SMTT(30) DEF SignalOf
    <3>2. ASSUME NEW u \in Thread
          PROVE  SignalOf(u)'
      <4>1. CASE u = t
        BY <1>1, <1>2, <2>2, <3>1, <4>1, SMTT(30) DEF SignalOf, Unsignalled
      <4>2. CASE u # t
        <5>1. SignalOf(u)
          BY <1>0, Zenon DEF SignalInv
        <5>2. /\ Unsignalled(u)' <=> Unsignalled(u)
              /\ pc'[u] = pc[u] /\ value'[WaiterSema[u]] = value[WaiterSema[u]]
          BY <1>1, <1>2, <1>3, <4>2, Zenon DEF Unsignalled
        <5> QED  BY <1>1, <5>1, <5>2, Zenon DEF SignalOf
      <4> QED  BY <4>1, <4>2, Zenon
    <3> QED  BY <1>0, <1>1, <3>2, Zenon DEF SignalInv
  <2> QED  BY <1>2, <2>1, <2>2, Zenon
<1> QED  BY <1>4, <1>5, <1>6, Zenon

(* cond_signal picks the first waiter.  It has let go of the lock by then, *)
(* for the signaller holds the lock.                                       *)
LEMMA PickStep ==
  ASSUME SynchInv, NEW t \in Thread, NEW c \in Cond, Picks(t, c)
  PROVE  LockInv' /\ CallInv' /\ SignalInv'
<1> USE SynchAssumption
<1>0. SynchTypeOK /\ LockInv /\ CallInv /\ SignalInv
  BY Zenon DEF SynchInv
<1>1. /\ pc[t] \in {"run", "broadcast"} /\ holder[LockOf[c]] = t /\ LockOf[c] \in Lock
      /\ UNCHANGED <<holder, lock, cond, value>>
  BY Zenon DEF Picks, Pop, semaVars
<1>2. PICK u \in Thread :
        /\ u \in Members(cond_waiters[c])
        /\ target' = [target EXCEPT ![t] = u]
        /\ \A k \in Cond :
             /\ Once(cond_waiters'[k])
             /\ Members(cond_waiters'[k]) = IF k = c THEN Members(cond_waiters[c]) \ {u}
                                                     ELSE Members(cond_waiters[k])
  <2>1. cond_waiters[c] \in Seq(Thread) /\ cond_waiters[c] # <<>> /\ Once(cond_waiters[c])
    BY <1>0, Zenon DEF Picks, Pop, SynchTypeOK, SignalInv
  <2>2. /\ Head(cond_waiters[c]) \in Thread
        /\ Head(cond_waiters[c]) \in Members(cond_waiters[c])
        /\ Members(Tail(cond_waiters[c])) = Members(cond_waiters[c]) \ {Head(cond_waiters[c])}
        /\ Once(Tail(cond_waiters[c]))
    BY <2>1, PopFront, Zenon
  <2>3. \A k \in Cond : cond_waiters'[k] = IF k = c THEN Tail(cond_waiters[c]) ELSE cond_waiters[k]
    BY <1>0, Zenon DEF Picks, Pop, SynchTypeOK
  <2>4. target' = [target EXCEPT ![t] = Head(cond_waiters[c])]
    BY Zenon DEF Picks, Pop
  <2>5. \A k \in Cond :
          /\ Once(cond_waiters'[k])
          /\ Members(cond_waiters'[k]) = IF k = c
                                         THEN Members(cond_waiters[c]) \ {Head(cond_waiters[c])}
                                         ELSE Members(cond_waiters[k])
    BY <1>0, <2>2, <2>3, Zenon DEF SignalInv
  <2> QED  BY <2>2, <2>4, <2>5, Zenon
<1>3. /\ \A v \in Thread : pc'[v] = IF v = t THEN "signal_up" ELSE pc[v]
      /\ \A v \in Thread : target'[v] = IF v = t THEN u ELSE target[v]
      /\ \A v \in Thread : v # t => broadcast'[v] = broadcast[v]
      /\ broadcast'[t] = broadcast[t] \/ broadcast'[t] = c
  <2>1. pc' = [pc EXCEPT ![t] = "signal_up"]
        /\ (broadcast' = broadcast \/ broadcast' = [broadcast EXCEPT ![t] = c])
    BY Zenon DEF Picks, Pop, Goto
  <2> QED  BY <1>0, <1>2, <2>1 DEF SynchTypeOK
<1>4. target[t] = NoThread /\ cond[t] = NoCond
  BY <1>0, <1>1 DEF CallInv, LockPc
<1>5. /\ Unsignalled(u) /\ cond[u] = c /\ value[WaiterSema[u]] = 0 /\ u # t
      /\ \A v \in Thread : target[v] # u
      /\ \A k \in Cond \ {c} : u \notin Members(cond_waiters[k])
  <2>1. SignalOf(u)
    BY <1>0, Zenon DEF SignalInv
  <2>2. Unsignalled(u) /\ cond[u] = c /\ value[WaiterSema[u]] = 0
        /\ (\A v \in Thread : target[v] # u)
        /\ \A k \in Cond \ {c} : u \notin Members(cond_waiters[k])
    BY <1>2, <2>1, SMTT(30) DEF SignalOf
  <2> QED  BY <1>4, <2>2, Zenon DEF Unsignalled
<1>6. pc[u] \in {"cond_down", "cond_sleep"}
  <2>1. lock[u] = LockOf[c] /\ (pc[u] = "cond_release" => holder[LockOf[c]] = u)
    BY <1>0, <1>5, Zenon DEF CallInv, Unsignalled
  <2>2. pc[u] \in {"cond_release", "release_up"} => Has(u, LockOf[c])
    BY <2>1, Zenon DEF Has
  <2>3. Has(t, LockOf[c])
    BY <1>1, Zenon DEF Has
  <2>4. ~Has(u, LockOf[c])
    BY <1>0, <1>1, <1>5, <2>3, Zenon DEF LockInv
  <2> QED  BY <1>5, <2>2, <2>4, Zenon DEF Unsignalled
<1>7. LockInv'
  <2>1. \A v \in Thread, k \in Lock : Has(v, k)' <=> Has(v, k)
    BY <1>1, <1>3, Zenon DEF Has
  <2> QED  BY <1>0, <1>1, <2>1, LockSame, Zenon
<1>8. CallInv'
  <2> SUFFICES ASSUME NEW v \in Thread
               PROVE  CallInv!(v)'
    BY Zenon DEF CallInv
  <2>1. CallInv!(v)
    BY <1>0, Zenon DEF CallInv
  <2> QED  BY <1>1, <1>2, <1>3, <1>4, <2>1, SMTT(30) DEF LockPc
<1>9. SignalInv'
  <2>1. \A v \in Thread : Unsignalled(v)' <=> Unsignalled(v)
    BY <1>1, <1>3, Zenon DEF Unsignalled
  <2>2. ASSUME NEW v \in Thread
        PROVE  SignalOf(v)'
    <3>1. SignalOf(v)
      BY <1>0, Zenon DEF SignalInv
    <3>2. CASE v = u
      BY <1>1, <1>2, <1>3, <1>5, <1>6, <2>1, <3>2, SMTT(30) DEF SignalOf
    <3>3. CASE v # u
      <4>1. \A k \in Cond : v \in Members(cond_waiters'[k]) <=> v \in Members(cond_waiters[k])
        BY <1>2, <3>3, Zenon
      <4>2. \A w \in Thread : target'[w] = v <=> target[w] = v
        BY <1>3, <1>4, <3>3, Zenon
      <4>3. Unsignalled(v) => cond[v] \in Cond /\ v # t /\ pc'[v] = pc[v]
        BY <1>0, <1>3, <1>4, SMTT(30) DEF Unsignalled, SynchTypeOK
      <4> QED  BY <1>1, <2>1, <3>1, <4>1, <4>2, <4>3, Zenon DEF SignalOf
    <3> QED  BY <3>2, <3>3, Zenon
  <2> QED  BY <1>2, <2>2, Zenon DEF SignalInv
<1> QED  BY <1>7, <1>8, <1>9, Zenon

(* The signal reaches the semaphore of the waiter that was picked. *)
LEMMA SignalStep ==
  ASSUME SynchInv, NEW t \in Thread, NEW u \in Thread, Signals(t, u)
  PROVE  LockInv' /\ CallInv' /\ SignalInv'
<1> USE SynchAssumption
<1>0. SynchTypeOK /\ LockInv /\ CallInv /\ SignalInv
  BY Zenon DEF SynchInv
<1>1. /\ pc[t] = "signal_up" /\ target[t] = u
      /\ UNCHANGED <<holder, cond_waiters, lock, cond>>
      /\ \A v \in Thread : target'[v] = IF v = t THEN NoThread ELSE target[v]
  BY <1>0 DEF Signals, SynchTypeOK
<1>2. PICK p \in {"broadcast", "run"} :
        /\ \A v \in Thread : pc'[v] = IF v = t THEN p ELSE pc[v]
        /\ \A v \in Thread : v # t => broadcast'[v] = broadcast[v]
        /\ p = "broadcast" => broadcast[t] # NoCond /\ broadcast'[t] = broadcast[t]
        /\ p = "run" => broadcast'[t] = NoCond
  <2>1. CASE /\ broadcast[t] # NoCond
             /\ pc' = [pc EXCEPT ![t] = "broadcast"]
             /\ broadcast' = broadcast
    BY <1>0, <2>1 DEF SynchTypeOK
  <2>2. CASE /\ pc' = [pc EXCEPT ![t] = "run"]
             /\ broadcast' = [broadcast EXCEPT ![t] = NoCond]
    BY <1>0, <2>2 DEF SynchTypeOK
  <2> QED  BY <2>1, <2>2, Zenon DEF Signals
<1>3. /\ \A l \in Lock : value'[l] = value[l]
      /\ \A v \in Thread \ {u} : value'[WaiterSema[v]] = value[WaiterSema[v]]
      /\ value'[WaiterSema[u]] = value[WaiterSema[u]] + 1
  BY <1>0 DEF Signals, SynchTypeOK, TypeOK
<1>4. LockInv'
  <2>1. \A v \in Thread, k \in Lock : Has(v, k)' <=> Has(v, k)
    BY <1>1, <1>2, Zenon DEF Has
  <2> QED  BY <1>0, <1>3, <2>1, LockSame, Zenon
<1>5. CallInv'
  <2> SUFFICES ASSUME NEW v \in Thread
               PROVE  CallInv!(v)'
    BY Zenon DEF CallInv
  <2>1. CallInv!(v)
    BY <1>0, Zenon DEF CallInv
  <2> QED  BY <1>1, <1>2, <2>1 DEF LockPc
<1>6. SignalInv'
  <2>1. \A v \in Thread : Unsignalled(v)' <=> Unsignalled(v)
    BY <1>1, <1>2, Zenon DEF Unsignalled
  <2>2. ASSUME NEW v \in Thread
        PROVE  SignalOf(v)'
    <3>1. SignalOf(v)
      BY <1>0, Zenon DEF SignalInv
    <3>2. Unsignalled(v) => pc'[v] = pc[v]
      BY <1>1, <1>2, Zenon DEF Unsignalled
    <3>3. CASE v = u
      <4>1. /\ Unsignalled(u) /\ value[WaiterSema[u]] = 0
            /\ \A w \in Thread : target[w] = u => w = t
            /\ \A k \in Cond : u \notin Members(cond_waiters[k])
        BY <1>1, <3>1, <3>3, Zenon DEF SignalOf
      <4>2. \A w \in Thread : target'[w] # u
        BY <1>1, <4>1, SMTT(30)
      <4>3. value'[WaiterSema[u]] = 1
        BY <1>3, <4>1, SMTT(30)
      <4>4. pc[u] \in {"cond_down", "cond_sleep"}
        <5>1. u \notin Members(cond_waiters[cond[u]])
          BY <1>0, <4>1, SMTT(30) DEF Unsignalled, SynchTypeOK
        <5> QED  BY <3>1, <3>3, <4>1, <5>1, Zenon DEF SignalOf
      <4> QED  BY <1>1, <2>1, <3>2, <3>3, <4>1, <4>2, <4>3, <4>4, Zenon DEF SignalOf
    <3>4. CASE v # u
      <4>1. \A w \in Thread : target'[w] = v <=> target[w] = v
        BY <1>1, <3>4, Zenon
      <4>2. value'[WaiterSema[v]] = value[WaiterSema[v]]
        BY <1>3, <3>4, Zenon
      <4> QED  BY <1>1, <2>1, <3>1, <3>2, <4>1, <4>2, Zenon DEF SignalOf
    <3> QED  BY <3>3, <3>4, Zenon
  <2> QED  BY <1>0, <1>1, <2>2, Zenon DEF SignalInv
<1> QED  BY <1>4, <1>5, <1>6, Zenon

-----------------------------------------------------------------------------
(* The invariant holds at the start, where no lock is taken and nobody     *)
(* waits ...                                                               *)
LEMMA SynchStart == SInit => SynchInv /\ SInv
<1> USE SynchAssumption
<1> SUFFICES ASSUME SInit
             PROVE  SynchInv /\ SInv
  BY Zenon
<1>1. SInv
  BY SemaInit, Zenon DEF SInit
<1>2. SynchTypeOK
  BY <1>1 DEF SInit, SInv, SynchTypeOK
<1>3. /\ \A s \in Sema : value[s] = IF s \in Lock THEN 1 ELSE 0
      /\ \A t \in Thread, l \in Lock : ~Has(t, l)
  BY Zenon DEF SInit, Init, Has
<1>4. LockInv
  BY <1>3 DEF LockInv
<1>5. CallInv
  BY Zenon DEF SInit, CallInv, LockPc
<1>6. Members(<<>>) = {} /\ Once(<<>>)
  BY DEF Members, Once
<1>7. SignalInv
  BY <1>3, <1>6, SMTT(30) DEF SInit, SignalInv, SignalOf, Unsignalled
<1> QED  BY <1>1, <1>2, <1>4, <1>5, <1>7, Zenon DEF SynchInv

(* ... and every step keeps it. *)
LEMMA SynchNext == SynchInv /\ SInv /\ [SNext]_svars => SynchInv' /\ SInv'
<1> SUFFICES ASSUME SynchInv, SInv, [SNext]_svars
             PROVE  SynchInv' /\ SInv'
  BY Zenon
<1>1. CASE SNext
  <2>1. PICK t \in Thread : Call(t) \/ Inner(t)
    BY <1>1, Zenon DEF SNext
  <2>2. SInv' /\ SynchTypeOK'
    BY <2>1, SemaPart, TypeStep, Zenon
  <2>3. ASSUME cond_release(t)
        PROVE  \E l \in Lock : lock[t] = l
    BY <2>3, Zenon DEF cond_release, At, SynchInv, CallInv, LockPc
  <2>4. LockInv' /\ CallInv' /\ SignalInv'
    BY Zenon, <2>1, <2>3, Kinds, AcquireStep, HolderStep, ClearStep, FreeStep, WaitStep, SleepStep,
       PickStep, SignalStep
  <2> QED  BY <2>2, <2>4, Zenon DEF SynchInv
<1>2. CASE UNCHANGED svars
  <2>1. UNCHANGED <<value, waiters, woken, holder, cond_waiters, pc, lock, cond, target,
                    broadcast>>
    BY <1>2, Zenon DEF svars, semaVars, callVars
  <2>2. SInv'
    BY <2>1, SemaNext, Zenon DEF vars
  <2>3. SynchTypeOK'
    BY <2>1, Zenon DEF SynchInv, SynchTypeOK, TypeOK
  <2>4. LockInv'
    BY <2>1 DEF SynchInv, LockInv, Has
  <2>5. CallInv'
    BY <2>1, Zenon DEF SynchInv, CallInv
  <2>6. SignalInv'
    BY <2>1, SignalSame, Zenon DEF SynchInv, Unsignalled
  <2> QED  BY <2>2, <2>3, <2>4, <2>5, <2>6, Zenon DEF SynchInv
<1> QED  BY <1>1, <1>2, Zenon

(* A set with one element, or none, has that many. *)
LEMMA OneOrNone ==
  ASSUME NEW S, NEW x
  PROVE  /\ S = {} => Cardinality(S) = 0
         /\ S = {x} => Cardinality(S) = 1
BY FS_EmptySet, FS_Singleton, Zenon

(* A lock is free or has exactly one thread. *)
LEMMA LockInvHolder == SynchInv => OneHolder
<1> SUFFICES ASSUME SynchInv, NEW l \in Lock
             PROVE  value[l] + Cardinality({t \in Thread : Has(t, l)}) = 1
  BY Zenon DEF OneHolder
<1> DEFINE S == {t \in Thread : Has(t, l)}
<1>1. LockInv!(l)
  BY Zenon DEF SynchInv, LockInv
<1>2. CASE value[l] = 0
  <2>1. PICK t \in Thread : Has(t, l)
    BY <1>1, <1>2, Zenon
  <2>2. S = {t}
    BY <1>1, <2>1, Zenon
  <2> QED  BY <1>2, <2>2, OneOrNone
<1>3. CASE value[l] = 1
  <2>1. S = {}
    BY <1>1, <1>3
  <2> QED  BY <1>3, <2>1, OneOrNone
<1> QED  BY <1>1, <1>2, <1>3, Zenon

(* A waiter's signal is in exactly one place. *)
LEMMA SignalInvConserved == SynchInv => SignalConserved
<1> SUFFICES ASSUME SynchInv, NEW t \in Thread
             PROVE  Cardinality({c \in Cond : t \in Members(cond_waiters[c])})
                      + Cardinality({u \in Thread : target[u] = t}) + value[WaiterSema[t]]
                        = IF Unsignalled(t) THEN 1 ELSE 0
  BY Zenon DEF SignalConserved
<1> DEFINE Q == {c \in Cond : t \in Members(cond_waiters[c])}
           S == {u \in Thread : target[u] = t}
<1>1. SignalOf(t) /\ value[WaiterSema[t]] \in Nat
  BY SynchAssumption, Zenon DEF SynchInv, SignalInv, SynchTypeOK, TypeOK
<1>2. Unsignalled(t) => cond[t] \in Cond
  BY Zenon DEF SynchInv, SynchTypeOK, Unsignalled
<1>3. CASE ~Unsignalled(t)
  <2>1. Q = {} /\ S = {} /\ value[WaiterSema[t]] = 0
    BY <1>1, <1>3 DEF SignalOf
  <2> QED  BY <1>3, <2>1, OneOrNone
<1>4. CASE Unsignalled(t) /\ t \in Members(cond_waiters[cond[t]])
  <2>1. Q = {cond[t]} /\ S = {} /\ value[WaiterSema[t]] = 0
    BY <1>1, <1>2, <1>4, Zenon DEF SignalOf
  <2>2. Cardinality(Q) = 1 /\ Cardinality(S) = 0
    BY <2>1, OneOrNone, Zenon
  <2> QED  BY <1>4, <2>1, <2>2, SMTT(30)
<1>5. CASE Unsignalled(t) /\ value[WaiterSema[t]] = 1
  <2>1. Q = {} /\ S = {}
    BY <1>1, <1>5, SMTT(30) DEF SignalOf
  <2>2. Cardinality(Q) = 0 /\ Cardinality(S) = 0
    BY <2>1, OneOrNone, Zenon
  <2> QED  BY <1>5, <2>2
<1>6. CASE Unsignalled(t) /\ \E u \in Thread : target[u] = t
  <2>1. PICK u \in Thread : target[u] = t
    BY <1>6, Zenon
  <2>2. Q = {} /\ S = {u} /\ value[WaiterSema[t]] = 0
    BY <1>1, <2>1, Zenon DEF SignalOf
  <2>3. Cardinality(Q) = 0 /\ Cardinality(S) = 1
    BY <2>2, OneOrNone, Zenon
  <2> QED  BY <1>6, <2>2, <2>3, SMTT(30)
<1> QED  BY <1>1, <1>3, <1>4, <1>5, <1>6, Zenon DEF SignalOf

(* A lock excludes: at every moment at most one thread is between the end  *)
(* of lock_acquire's sema_down and the start of lock_release's sema_up,    *)
(* and the lock's semaphore is 1 exactly when there is none.               *)
THEOREM LocksExclude == SynchSpec => []OneHolder
BY SynchStart, SynchNext, LockInvHolder, PTL DEF SynchSpec

(* The semaphores under locks and conditions lose no wakeup, although      *)
(* cond_wait initialises one again for every wait.                         *)
THEOREM SynchWakeups == SynchSpec => []NoLostWakeup
<1>1. SInv => NoLostWakeup
  BY Zenon DEF SInv
<1> QED  BY <1>1, SynchStart, SynchNext, PTL DEF SynchSpec

(* cond_signal and cond_broadcast lose no signal and deliver none twice.   *)
THEOREM SignalsAreConserved == SynchSpec => []SignalConserved
BY SynchStart, SynchNext, SignalInvConserved, PTL DEF SynchSpec

-----------------------------------------------------------------------------
(* Locks and conditions together implement Monitor: the steps of synch.c,  *)
(* which can be interrupted between any two of them, are those of an       *)
(* atomic monitor.                                                         *)

(* The refinement: what Monitor's variables are, element by element. *)

IsWaiting(t, c) == t \in Members(cond_waiters[c]) /\ pc[t] \in {"cond_down", "cond_sleep"}
IsSignalled(t, c) ==
  cond[t] = c /\ t \notin Members(cond_waiters[c]) /\ pc[t] # "set_holder"

Owner ==
  [l \in Lock |-> IF \E t \in Thread : Has(t, l)
                  THEN CHOOSE t \in Thread : Has(t, l) ELSE NoThread]
Waiting ==
  [c \in Cond |-> {t \in Members(cond_waiters[c]) : pc[t] \in {"cond_down", "cond_sleep"}}]
Signalled ==
  [c \in Cond |-> {t \in Thread : /\ cond[t] = c /\ t \notin Members(cond_waiters[c])
                                  /\ pc[t] # "set_holder"}]

Mapped ==
  /\ Owner \in [Lock -> Thread \cup {NoThread}]
  /\ Waiting \in [Cond -> SUBSET Thread]
  /\ Signalled \in [Cond -> SUBSET Thread]
  /\ \A t \in Thread, l \in Lock : Owner[l] = t <=> Has(t, l)
  /\ \A t \in Thread, c \in Cond : t \in Waiting[c] <=> IsWaiting(t, c)
  /\ \A t \in Thread, c \in Cond : t \in Signalled[c] <=> IsSignalled(t, c)

(* Because a lock has one thread, the CHOOSE in the mapping finds it. *)
LEMMA Mapping == SynchInv => Mapped
<1> USE SynchAssumption
<1> SUFFICES ASSUME SynchInv
             PROVE  Mapped
  BY Zenon
<1>1. ASSUME NEW l \in Lock
      PROVE  /\ Owner[l] \in Thread \cup {NoThread}
             /\ \A t \in Thread : Owner[l] = t <=> Has(t, l)
  <2>1. \A t, u \in Thread : Has(t, l) /\ Has(u, l) => t = u
    BY Zenon DEF SynchInv, LockInv
  <2>2. CASE \E t \in Thread : Has(t, l)
    <3>1. Owner[l] = CHOOSE t \in Thread : Has(t, l)
      BY <2>2, Zenon DEF Owner
    <3>2. Owner[l] \in Thread /\ Has(Owner[l], l)
      BY <2>2, <3>1, Zenon
    <3> QED  BY <2>1, <3>2, Zenon
  <2>3. CASE ~\E t \in Thread : Has(t, l)
    <3>1. Owner[l] = NoThread
      BY <2>3, Zenon DEF Owner
    <3> QED  BY <2>3, <3>1, Zenon
  <2> QED  BY <2>2, <2>3, Zenon
<1>2. Owner \in [Lock -> Thread \cup {NoThread}]
  BY <1>1, Zenon DEF Owner
<1>3. \A c \in Cond : Members(cond_waiters[c]) \subseteq Thread
  BY MembersOf DEF SynchInv, SynchTypeOK
<1>4. /\ Waiting \in [Cond -> SUBSET Thread]
      /\ \A t \in Thread, c \in Cond : t \in Waiting[c] <=> IsWaiting(t, c)
  BY <1>3, Zenon DEF Waiting, IsWaiting
<1>5. /\ Signalled \in [Cond -> SUBSET Thread]
      /\ \A t \in Thread, c \in Cond : t \in Signalled[c] <=> IsSignalled(t, c)
  BY Zenon DEF Signalled, IsSignalled
<1> QED  BY <1>1, <1>2, <1>4, <1>5, Zenon DEF Mapped

(* What a step does to Monitor's variables, element by element. *)
OwnersStay == \A u \in Thread, l \in Lock : Has(u, l)' <=> Has(u, l)
WaitersStay == \A u \in Thread, c \in Cond : IsWaiting(u, c)' <=> IsWaiting(u, c)
SignalledStay == \A u \in Thread, c \in Cond : IsSignalled(u, c)' <=> IsSignalled(u, c)

(* What stays so element by element is unchanged. *)
LEMMA Stays ==
  ASSUME Mapped, Mapped'
  PROVE  /\ OwnersStay => Owner' = Owner
         /\ WaitersStay => Waiting' = Waiting
         /\ SignalledStay => Signalled' = Signalled
<1> USE SynchAssumption
<1>1. ASSUME OwnersStay
      PROVE  Owner' = Owner
  <2>1. ASSUME NEW l \in Lock
        PROVE  Owner'[l] = Owner[l]
    <3>1. \A u \in Thread : Owner'[l] = u <=> Owner[l] = u
      BY <1>1, Zenon DEF OwnersStay, Mapped
    <3>2. Owner'[l] \in Thread \cup {NoThread} /\ Owner[l] \in Thread \cup {NoThread}
      BY Zenon DEF Mapped
    <3> QED  BY <3>1, <3>2, Zenon
  <2> QED  BY <2>1 DEF Mapped
<1>2. ASSUME WaitersStay
      PROVE  Waiting' = Waiting
  <2>1. ASSUME NEW c \in Cond
        PROVE  Waiting'[c] = Waiting[c]
    <3>1. \A u \in Thread : u \in Waiting'[c] <=> u \in Waiting[c]
      BY <1>2, Zenon DEF WaitersStay, Mapped
    <3>2. Waiting'[c] \subseteq Thread /\ Waiting[c] \subseteq Thread
      BY Zenon DEF Mapped
    <3> QED  BY <3>1, <3>2, Zenon
  <2> QED  BY <2>1 DEF Mapped
<1>3. ASSUME SignalledStay
      PROVE  Signalled' = Signalled
  <2>1. ASSUME NEW c \in Cond
        PROVE  Signalled'[c] = Signalled[c]
    <3>1. \A u \in Thread : u \in Signalled'[c] <=> u \in Signalled[c]
      BY <1>3, Zenon DEF SignalledStay, Mapped
    <3>2. Signalled'[c] \subseteq Thread /\ Signalled[c] \subseteq Thread
      BY Zenon DEF Mapped
    <3> QED  BY <3>1, <3>2, Zenon
  <2> QED  BY <2>1 DEF Mapped
<1> QED  BY <1>1, <1>2, <1>3, Zenon

(* A lock that changes hands. *)
LEMMA OwnerMoves ==
  ASSUME Mapped, Mapped', NEW l \in Lock, NEW x \in Thread \cup {NoThread},
         \A u \in Thread : Has(u, l)' <=> u = x,
         \A u \in Thread, k \in Lock \ {l} : Has(u, k)' <=> Has(u, k)
  PROVE  Owner' = [Owner EXCEPT ![l] = x]
<1> USE SynchAssumption
<1>1. Owner'[l] = x
  <2>1. \A u \in Thread : Owner'[l] = u <=> u = x
    BY Zenon DEF Mapped
  <2>2. Owner'[l] \in Thread \cup {NoThread}
    BY Zenon DEF Mapped
  <2> QED  BY <2>1, <2>2, Zenon
<1>2. ASSUME NEW k \in Lock \ {l}
      PROVE  Owner'[k] = Owner[k]
  <2>1. \A u \in Thread : Owner'[k] = u <=> Owner[k] = u
    BY Zenon DEF Mapped
  <2>2. Owner'[k] \in Thread \cup {NoThread} /\ Owner[k] \in Thread \cup {NoThread}
    BY Zenon DEF Mapped
  <2> QED  BY <2>1, <2>2, Zenon
<1> QED  BY <1>1, <1>2, Zenon DEF Mapped

(* Monitor's actions, in terms of the mapping. *)
Idle(t) == \A c \in Cond : t \notin Waiting[c] \cup Signalled[c]

(* lock_acquire by a thread that waits for nothing. *)
LEMMA AsAcquire ==
  ASSUME NEW t \in Thread, NEW l \in Lock, Idle(t), Owner[l] = NoThread,
         Owner' = [Owner EXCEPT ![l] = t], Waiting' = Waiting, Signalled' = Signalled
  PROVE  M!Acquire(t, l)
BY Zenon DEF M!Acquire, M!Active, Idle, Owner, Waiting, Signalled

(* lock_release by a thread that waits for nothing. *)
LEMMA AsRelease ==
  ASSUME NEW t \in Thread, NEW l \in Lock, Idle(t), Owner[l] = t,
         Owner' = [Owner EXCEPT ![l] = NoThread], Waiting' = Waiting, Signalled' = Signalled
  PROVE  M!Release(t, l)
BY Zenon DEF M!Release, M!Active, Idle, Owner, Waiting, Signalled

(* The atomic release and wait of cond_wait. *)
LEMMA AsWait ==
  ASSUME NEW t \in Thread, NEW c \in Cond, Idle(t), Owner[LockOf[c]] = t,
         Owner' = [Owner EXCEPT ![LockOf[c]] = NoThread],
         Waiting' = [Waiting EXCEPT ![c] = @ \cup {t}], Signalled' = Signalled
  PROVE  M!Wait(t, c)
BY Zenon DEF M!Wait, M!Active, Idle, Owner, Waiting, Signalled

(* cond_signal, and one turn of cond_broadcast. *)
LEMMA AsSignal ==
  ASSUME NEW t \in Thread, NEW c \in Cond, NEW u \in Waiting[c], Idle(t),
         Owner[LockOf[c]] = t, Owner' = Owner,
         Waiting' = [Waiting EXCEPT ![c] = @ \ {u}],
         Signalled' = [Signalled EXCEPT ![c] = @ \cup {u}]
  PROVE  M!Signal(t, c)
BY Zenon DEF M!Signal, M!Active, Idle, Owner, Waiting, Signalled

(* The lock_acquire at the end of cond_wait. *)
LEMMA AsResume ==
  ASSUME NEW t \in Thread, NEW c \in Cond, t \in Signalled[c],
         Owner[LockOf[c]] = NoThread, Owner' = [Owner EXCEPT ![LockOf[c]] = t],
         Waiting' = Waiting, Signalled' = [Signalled EXCEPT ![c] = @ \ {t}]
  PROVE  M!Resume(t, c)
BY Zenon DEF M!Resume, Owner, Waiting, Signalled

(* A step the monitor does not see. *)
LEMMA AsStutter ==
  ASSUME Owner' = Owner, Waiting' = Waiting, Signalled' = Signalled
  PROVE  UNCHANGED M!vars
BY Zenon DEF M!vars, Owner, Waiting, Signalled

(* A thread that starts or stops waiting, or is signalled or resumes. *)
LEMMA WaiterMoves ==
  ASSUME Mapped, Mapped', NEW t \in Thread, NEW c \in Cond
  PROVE  /\ (\A u \in Thread, k \in Cond : IsWaiting(u, k)' <=> IsWaiting(u, k) \/ (u = t /\ k = c))
              => Waiting' = [Waiting EXCEPT ![c] = Waiting[c] \cup {t}]
         /\ (\A u \in Thread, k \in Cond : IsWaiting(u, k)' <=> IsWaiting(u, k) /\ ~(u = t /\ k = c))
              => Waiting' = [Waiting EXCEPT ![c] = Waiting[c] \ {t}]
         /\ (\A u \in Thread, k \in Cond : IsSignalled(u, k)' <=> IsSignalled(u, k) \/ (u = t /\ k = c))
              => Signalled' = [Signalled EXCEPT ![c] = Signalled[c] \cup {t}]
         /\ (\A u \in Thread, k \in Cond : IsSignalled(u, k)' <=> IsSignalled(u, k) /\ ~(u = t /\ k = c))
              => Signalled' = [Signalled EXCEPT ![c] = Signalled[c] \ {t}]
<1>1. ASSUME \A u \in Thread, k \in Cond : IsWaiting(u, k)' <=> IsWaiting(u, k) \/ (u = t /\ k = c)
      PROVE  Waiting' = [Waiting EXCEPT ![c] = Waiting[c] \cup {t}]
  <2>1. \A u \in Thread, k \in Cond : u \in Waiting'[k] <=> u \in Waiting[k] \/ (u = t /\ k = c)
    BY <1>1, Zenon DEF Mapped
  <2>2. Waiting \in [Cond -> SUBSET Thread] /\ Waiting' \in [Cond -> SUBSET Thread]
    BY Zenon DEF Mapped
  <2>3. Waiting'[c] = Waiting[c] \cup {t}
    BY <2>1, <2>2, Zenon
  <2>4. ASSUME NEW k \in Cond \ {c}
        PROVE  Waiting'[k] = Waiting[k]
    BY <2>1, <2>2, Zenon
  <2> QED  BY <2>2, <2>3, <2>4, Zenon
<1>2. ASSUME \A u \in Thread, k \in Cond : IsWaiting(u, k)' <=> IsWaiting(u, k) /\ ~(u = t /\ k = c)
      PROVE  Waiting' = [Waiting EXCEPT ![c] = Waiting[c] \ {t}]
  <2>1. \A u \in Thread, k \in Cond : u \in Waiting'[k] <=> u \in Waiting[k] /\ ~(u = t /\ k = c)
    BY <1>2, Zenon DEF Mapped
  <2>2. Waiting \in [Cond -> SUBSET Thread] /\ Waiting' \in [Cond -> SUBSET Thread]
    BY Zenon DEF Mapped
  <2>3. Waiting'[c] = Waiting[c] \ {t}
    BY <2>1, <2>2, Zenon
  <2>4. ASSUME NEW k \in Cond \ {c}
        PROVE  Waiting'[k] = Waiting[k]
    BY <2>1, <2>2, Zenon
  <2> QED  BY <2>2, <2>3, <2>4, Zenon
<1>3. ASSUME \A u \in Thread, k \in Cond : IsSignalled(u, k)' <=> IsSignalled(u, k) \/ (u = t /\ k = c)
      PROVE  Signalled' = [Signalled EXCEPT ![c] = Signalled[c] \cup {t}]
  <2>1. \A u \in Thread, k \in Cond : u \in Signalled'[k] <=> u \in Signalled[k] \/ (u = t /\ k = c)
    BY <1>3, Zenon DEF Mapped
  <2>2. Signalled \in [Cond -> SUBSET Thread] /\ Signalled' \in [Cond -> SUBSET Thread]
    BY Zenon DEF Mapped
  <2>3. Signalled'[c] = Signalled[c] \cup {t}
    BY <2>1, <2>2, Zenon
  <2>4. ASSUME NEW k \in Cond \ {c}
        PROVE  Signalled'[k] = Signalled[k]
    BY <2>1, <2>2, Zenon
  <2> QED  BY <2>2, <2>3, <2>4, Zenon
<1>4. ASSUME \A u \in Thread, k \in Cond : IsSignalled(u, k)' <=> IsSignalled(u, k) /\ ~(u = t /\ k = c)
      PROVE  Signalled' = [Signalled EXCEPT ![c] = Signalled[c] \ {t}]
  <2>1. \A u \in Thread, k \in Cond : u \in Signalled'[k] <=> u \in Signalled[k] /\ ~(u = t /\ k = c)
    BY <1>4, Zenon DEF Mapped
  <2>2. Signalled \in [Cond -> SUBSET Thread] /\ Signalled' \in [Cond -> SUBSET Thread]
    BY Zenon DEF Mapped
  <2>3. Signalled'[c] = Signalled[c] \ {t}
    BY <2>1, <2>2, Zenon
  <2>4. ASSUME NEW k \in Cond \ {c}
        PROVE  Signalled'[k] = Signalled[k]
    BY <2>1, <2>2, Zenon
  <2> QED  BY <2>2, <2>3, <2>4, Zenon
<1> QED  BY <1>1, <1>2, <1>3, <1>4, Zenon

(* A thread that is not between cond_wait's start and its signal is on no  *)
(* list of waiters.                                                        *)
LEMMA NotListed ==
  ASSUME SynchInv, NEW t \in Thread, ~Unsignalled(t)
  PROVE  \A c \in Cond : t \notin Members(cond_waiters[c])
BY Zenon DEF SynchInv, SignalInv, SignalOf

(* lock_acquire takes the lock, or the monitor does not see it. *)
LEMMA AcquireMap ==
  ASSUME SynchInv, Mapped, Mapped', NEW t \in Thread, NEW l \in Lock, Acquires(t, l)
  PROVE  M!Next \/ UNCHANGED M!vars
<1> USE SynchAssumption
<1>0. SynchTypeOK /\ LockInv /\ CallInv
  BY Zenon DEF SynchInv
<1>1. /\ pc[t] \in {"run", "lock_down", "cond_lock"} /\ (pc[t] # "run" => lock[t] = l)
      /\ UNCHANGED <<holder, cond_waiters, cond, target, broadcast>>
      /\ \A u \in Thread : lock'[u] = IF u = t THEN l ELSE lock[u]
  BY <1>0, Zenon DEF Acquires, SynchTypeOK
<1>2. \A c \in Cond : t \notin Members(cond_waiters[c])
  BY <1>1, NotListed, Zenon DEF Unsignalled
<1>3. CASE pc' = [pc EXCEPT ![t] = "lock_down"]
  <2>1. \A u \in Thread : pc'[u] = IF u = t THEN "lock_down" ELSE pc[u]
    BY <1>0, <1>3, Zenon DEF SynchTypeOK
  <2>2. OwnersStay
    BY <1>1, <2>1, Zenon DEF OwnersStay, Has
  <2>3. WaitersStay
    BY <1>1, <1>2, <2>1, Zenon DEF WaitersStay, IsWaiting
  <2>4. SignalledStay
    BY <1>1, <2>1, Zenon DEF SignalledStay, IsSignalled
  <2> QED  BY <2>2, <2>3, <2>4, Stays, AsStutter, Zenon
<1>4. CASE Takes(t, l)
  <2>1. \A u \in Thread : pc'[u] = IF u = t THEN "set_holder" ELSE pc[u]
    BY <1>0, <1>4, Zenon DEF Takes, SynchTypeOK
  <2>2. \A u \in Thread : ~Has(u, l)
    BY <1>0, <1>4 DEF Takes, LockInv
  <2>3. Owner[l] = NoThread
    BY <2>2 DEF Mapped
  <2>4. /\ \A u \in Thread : Has(u, l)' <=> u = t
        /\ \A u \in Thread, k \in Lock \ {l} : Has(u, k)' <=> Has(u, k)
    BY <1>1, <2>1, <2>2, Zenon DEF Has
  <2>5. Owner' = [Owner EXCEPT ![l] = t]
    BY <2>4, OwnerMoves, Zenon
  <2>6. WaitersStay
    BY <1>1, <1>2, <2>1, Zenon DEF WaitersStay, IsWaiting
  <2>7. Waiting' = Waiting
    BY <2>6, Stays, Zenon
  <2>8. CASE cond[t] = NoCond
    <3>1. SignalledStay
      BY <1>1, <2>1, <2>8, SMTT(30) DEF SignalledStay, IsSignalled
    <3>2. Idle(t)
      BY <1>2, <2>8, SMTT(30) DEF Idle, Mapped, IsWaiting, IsSignalled
    <3>3. M!Acquire(t, l)
      BY <2>3, <2>5, <2>7, <3>1, <3>2, Stays, AsAcquire, Zenon
    <3> QED  BY <3>3, Zenon DEF M!Next
  <2>9. CASE cond[t] # NoCond
    <3>1. PICK c \in Cond : cond[t] = c
      BY <1>0, <2>9 DEF SynchTypeOK
    <3>2. LockOf[c] = l
      BY <1>0, <1>1, <3>1, Zenon DEF CallInv, LockPc
    <3>3. t \in Signalled[c]
      BY <1>1, <1>2, <3>1, Zenon DEF Mapped, IsSignalled
    <3>4. \A u \in Thread, k \in Cond :
            IsSignalled(u, k)' <=> IsSignalled(u, k) /\ ~(u = t /\ k = c)
      BY <1>1, <2>1, <3>1, Zenon DEF IsSignalled
    <3>5. Signalled' = [Signalled EXCEPT ![c] = Signalled[c] \ {t}]
      BY <3>4, WaiterMoves, Zenon
    <3>6. M!Resume(t, c)
      BY <2>3, <2>5, <2>7, <3>2, <3>3, <3>5, AsResume, Zenon
    <3> QED  BY <3>6, Zenon DEF M!Next
  <2> QED  BY <2>8, <2>9, Zenon
<1> QED  BY <1>3, <1>4, Zenon DEF Acquires

(* The sema_up of lock_release gives the lock back, and in cond_wait it is *)
(* the moment the thread waits.                                            *)
LEMMA FreeMap ==
  ASSUME SynchInv, Mapped, Mapped', NEW t \in Thread, NEW l \in Lock, Frees(t, l)
  PROVE  M!Next
<1> USE SynchAssumption
<1>0. SynchTypeOK /\ LockInv /\ CallInv /\ SignalInv
  BY Zenon DEF SynchInv
<1>1. /\ pc[t] = "release_up" /\ lock[t] = l
      /\ UNCHANGED <<holder, cond_waiters, lock, cond>>
      /\ holder[l] # t
  BY <1>0, Zenon DEF Frees, callVars, CallInv, LockPc
<1>2. \A u \in Thread : pc'[u] = IF u # t THEN pc[u]
                                 ELSE IF cond[t] = NoCond THEN "run" ELSE "cond_down"
  BY <1>0, SMTT(30) DEF Frees, SynchTypeOK
<1>3. Has(t, l) /\ \A u \in Thread : Has(u, l) => u = t
  BY <1>0, <1>1, SMTT(30) DEF LockInv, Has
<1>4. Owner[l] = t
  BY <1>3, Zenon DEF Mapped
<1>5. /\ \A u \in Thread : ~Has(u, l)'
      /\ \A u \in Thread, k \in Lock \ {l} : Has(u, k)' <=> Has(u, k)
  BY <1>1, <1>2, <1>3, Zenon DEF Has
<1>6. Owner' = [Owner EXCEPT ![l] = NoThread]
  BY <1>5, OwnerMoves
<1>7. SignalledStay
  BY <1>1, <1>2, Zenon DEF SignalledStay, IsSignalled
<1>8. CASE cond[t] = NoCond
  <2>1. \A c \in Cond : t \notin Members(cond_waiters[c])
    BY <1>8, NotListed, Zenon DEF Unsignalled
  <2>2. WaitersStay
    BY <1>1, <1>2, <2>1, SMTT(30) DEF WaitersStay, IsWaiting
  <2>3. Idle(t)
    BY <1>8, <2>1, SMTT(30) DEF Idle, Mapped, IsWaiting, IsSignalled
  <2>4. M!Release(t, l)
    BY <1>4, <1>6, <1>7, <2>2, <2>3, Stays, AsRelease, Zenon
  <2> QED  BY <2>4, Zenon DEF M!Next
<1>9. CASE cond[t] # NoCond
  <2>1. PICK c \in Cond : cond[t] = c
    BY <1>0, <1>9 DEF SynchTypeOK
  <2>2. LockOf[c] = l
    BY <1>0, <1>1, <2>1, Zenon DEF CallInv
  <2>3. /\ t \in Members(cond_waiters[c])
        /\ \A k \in Cond \ {c} : t \notin Members(cond_waiters[k])
    BY <1>0, <1>1, <1>9, <2>1, Zenon DEF SignalInv, SignalOf, Unsignalled
  <2>4. Idle(t)
    BY <1>1, <2>1, <2>3, Zenon DEF Idle, Mapped, IsWaiting, IsSignalled
  <2>5. \A u \in Thread, k \in Cond : IsWaiting(u, k)' <=> IsWaiting(u, k) \/ (u = t /\ k = c)
    BY <1>1, <1>2, <1>9, <2>3, SMTT(30) DEF IsWaiting
  <2>6. Waiting' = [Waiting EXCEPT ![c] = Waiting[c] \cup {t}]
    BY <2>5, WaiterMoves, Zenon
  <2>7. M!Wait(t, c)
    BY <1>4, <1>6, <1>7, <2>2, <2>4, <2>6, Stays, AsWait, Zenon
  <2> QED  BY <2>7, Zenon DEF M!Next
<1> QED  BY <1>8, <1>9, Zenon

(* cond_signal's pick is the monitor's signal. *)
LEMMA PickMap ==
  ASSUME SynchInv, Mapped, Mapped', NEW t \in Thread, NEW c \in Cond, Picks(t, c)
  PROVE  M!Next
<1> USE SynchAssumption
<1>0. SynchTypeOK /\ LockInv /\ CallInv /\ SignalInv
  BY Zenon DEF SynchInv
<1>1. /\ pc[t] \in {"run", "broadcast"} /\ holder[LockOf[c]] = t /\ LockOf[c] \in Lock
      /\ UNCHANGED <<holder, lock, cond>>
      /\ \A v \in Thread : pc'[v] = IF v = t THEN "signal_up" ELSE pc[v]
  BY <1>0, Zenon DEF Picks, Pop, Goto, SynchTypeOK
<1>2. PICK u \in Thread :
        /\ u \in Members(cond_waiters[c])
        /\ \A k \in Cond :
             Members(cond_waiters'[k]) = IF k = c THEN Members(cond_waiters[c]) \ {u}
                                                  ELSE Members(cond_waiters[k])
  <2>1. cond_waiters[c] \in Seq(Thread) /\ cond_waiters[c] # <<>> /\ Once(cond_waiters[c])
    BY <1>0, Zenon DEF Picks, Pop, SynchTypeOK, SignalInv
  <2>2. /\ Head(cond_waiters[c]) \in Thread
        /\ Head(cond_waiters[c]) \in Members(cond_waiters[c])
        /\ Members(Tail(cond_waiters[c])) = Members(cond_waiters[c]) \ {Head(cond_waiters[c])}
    BY <2>1, PopFront, Zenon
  <2>3. \A k \in Cond : cond_waiters'[k] = IF k = c THEN Tail(cond_waiters[c]) ELSE cond_waiters[k]
    BY <1>0, Zenon DEF Picks, Pop, SynchTypeOK
  <2> QED  BY <2>2, <2>3, Zenon
<1>3. cond[t] = NoCond /\ \A k \in Cond : t \notin Members(cond_waiters[k])
  <2>1. cond[t] = NoCond
    BY <1>0, <1>1, SMTT(30) DEF CallInv, LockPc
  <2> QED  BY <2>1, NotListed, Zenon DEF Unsignalled
<1>4. Unsignalled(u) /\ cond[u] = c /\ u # t
  BY <1>0, <1>2, <1>3, SMTT(30) DEF SignalInv, SignalOf
<1>5. Has(t, LockOf[c])
  BY <1>1, Zenon DEF Has
<1>6. pc[u] \in {"cond_down", "cond_sleep"}
  <2>1. lock[u] = LockOf[c] /\ (pc[u] = "cond_release" => holder[LockOf[c]] = u)
    BY <1>0, <1>4, Zenon DEF CallInv, Unsignalled
  <2>2. pc[u] \in {"cond_release", "release_up"} => Has(u, LockOf[c])
    BY <2>1, Zenon DEF Has
  <2>3. ~Has(u, LockOf[c])
    BY <1>0, <1>1, <1>4, <1>5, Zenon DEF LockInv
  <2> QED  BY <1>4, <2>2, <2>3, Zenon DEF Unsignalled
<1>7. Owner[LockOf[c]] = t /\ u \in Waiting[c] /\ Idle(t)
  BY <1>1, <1>2, <1>3, <1>5, <1>6, SMTT(30) DEF Mapped, IsWaiting, IsSignalled, Idle
<1>8. Owner' = Owner
  <2>1. OwnersStay
    BY <1>1, Zenon DEF OwnersStay, Has
  <2> QED  BY <2>1, Stays, Zenon
<1>9. Waiting' = [Waiting EXCEPT ![c] = Waiting[c] \ {u}]
  <2>1. \A v \in Thread, k \in Cond : IsWaiting(v, k)' <=> IsWaiting(v, k) /\ ~(v = u /\ k = c)
    BY <1>1, <1>2, <1>3, SMTT(30) DEF IsWaiting
  <2> QED  BY <2>1, WaiterMoves, Zenon
<1>10. Signalled' = [Signalled EXCEPT ![c] = Signalled[c] \cup {u}]
  <2>1. \A v \in Thread, k \in Cond :
          IsSignalled(v, k)' <=> IsSignalled(v, k) \/ (v = u /\ k = c)
    BY <1>1, <1>2, <1>3, <1>4, <1>6, SMTT(30) DEF IsSignalled
  <2> QED  BY <2>1, WaiterMoves, Zenon
<1>11. M!Signal(t, c)
  BY <1>7, <1>8, <1>9, <1>10, AsSignal, Zenon
<1> QED  BY <1>11, Zenon DEF M!Next

(* Of set_holder, the start of lock_release and of cond_wait, the sleep in *)
(* cond_wait and the sema_up of cond_signal the monitor sees nothing.      *)
LEMMA OtherMap ==
  ASSUME SynchInv, Mapped, Mapped', NEW t \in Thread,
         \/ set_holder(t) \/ cond_release(t) \/ Sleeps(t)
         \/ \E l \in Lock : lock_release(t, l)
         \/ \E c \in Cond : cond_wait(t, c)
         \/ \E u \in Thread : Signals(t, u)
  PROVE  UNCHANGED M!vars
<1>0. SynchTypeOK /\ LockInv /\ CallInv /\ SignalInv
  BY Zenon DEF SynchInv
<1> SUFFICES OwnersStay /\ WaitersStay /\ SignalledStay
  BY Stays, AsStutter, Zenon
<1>1. CASE set_holder(t)
  <2>1. PICK l \in Lock : lock[t] = l
    BY <1>0, <1>1, Zenon DEF set_holder, At, LockPc, CallInv
  <2>2. /\ pc[t] = "set_holder" /\ cond_waiters' = cond_waiters
        /\ \A k \in Lock : holder'[k] = IF k = l THEN t ELSE holder[k]
        /\ \A u \in Thread : /\ lock'[u] = IF u = t THEN NoLock ELSE lock[u]
                             /\ cond'[u] = IF u = t THEN NoCond ELSE cond[u]
                             /\ pc'[u] = IF u = t THEN "run" ELSE pc[u]
    <3>1. pc[t] = "set_holder" /\ cond_waiters' = cond_waiters
      BY <1>1, Zenon DEF set_holder, At
    <3>2. \A k \in Lock : holder'[k] = IF k = l THEN t ELSE holder[k]
      BY <1>0, <1>1, <2>1, Zenon DEF set_holder, SynchTypeOK
    <3>3. \A u \in Thread : lock'[u] = IF u = t THEN NoLock ELSE lock[u]
      BY <1>0, <1>1, Zenon DEF set_holder, SynchTypeOK
    <3>4. \A u \in Thread : cond'[u] = IF u = t THEN NoCond ELSE cond[u]
      BY <1>0, <1>1, Zenon DEF set_holder, SynchTypeOK
    <3>5. \A u \in Thread : pc'[u] = IF u = t THEN "run" ELSE pc[u]
      BY <1>0, <1>1, Zenon DEF set_holder, Goto, SynchTypeOK
    <3> QED  BY <3>1, <3>2, <3>3, <3>4, <3>5, Zenon
  <2>3. \A u \in Thread : Has(u, l) => u = t
    <3>1. Has(t, l)
      BY <2>1, <2>2, Zenon DEF Has
    <3> QED  BY <1>0, <3>1, Zenon DEF LockInv
  <2>4. OwnersStay
    BY <2>1, <2>2, <2>3, Zenon DEF OwnersStay, Has
  <2>5. WaitersStay
    BY <2>2, Zenon DEF WaitersStay, IsWaiting
  <2>6. SignalledStay
    <3>1. ASSUME NEW u \in Thread, u # t
          PROVE  pc'[u] = pc[u] /\ cond'[u] = cond[u]
      BY <2>2, <3>1, Zenon
    <3>2. pc'[t] = "run" /\ cond'[t] = NoCond
      BY <2>2, Zenon
    <3> SUFFICES ASSUME NEW u \in Thread, NEW k \in Cond
                 PROVE  IsSignalled(u, k)' <=> IsSignalled(u, k)
      BY Zenon DEF SignalledStay
    <3>3. CASE u = t
      <4>1. cond'[u] # k
        BY <3>2, <3>3, SynchAssumption, Zenon
      <4>2. pc[u] = "set_holder"
        BY <2>2, <3>3, Zenon
      <4> QED  BY <4>1, <4>2, Zenon DEF IsSignalled
    <3>4. CASE u # t
      BY <2>2, <3>1, <3>4, Zenon DEF IsSignalled
    <3> QED  BY <3>3, <3>4, Zenon
  <2> QED  BY <2>4, <2>5, <2>6, Zenon
<1>2. ASSUME NEW l \in Lock, lock_release(t, l) \/ (lock[t] = l /\ cond_release(t))
      PROVE  OwnersStay /\ WaitersStay /\ SignalledStay
  <2>1. /\ pc[t] \in {"run", "cond_release"} /\ holder[l] = t
        /\ pc[t] = "cond_release" => lock[t] = l
    BY <1>0, <1>2, Zenon DEF lock_release, cond_release, At, CallInv, LockPc
  <2>2. /\ UNCHANGED <<cond_waiters, cond>>
        /\ \A k \in Lock : holder'[k] = IF k = l THEN NoThread ELSE holder[k]
        /\ \A u \in Thread : /\ lock'[u] = IF u = t THEN l ELSE lock[u]
                             /\ pc'[u] = IF u = t THEN "release_up" ELSE pc[u]
    <3>1. CASE lock_release(t, l)
      BY <1>0, <3>1, Zenon DEF lock_release, Goto, SynchTypeOK
    <3>2. CASE lock[t] = l /\ cond_release(t)
      <4>1. UNCHANGED <<cond_waiters, cond, lock>> /\ \A k \in Lock : holder'[k] = IF k = l THEN NoThread ELSE holder[k]
        BY <1>0, <3>2, Zenon DEF cond_release, callVars, SynchTypeOK
      <4>2. \A u \in Thread : pc'[u] = IF u = t THEN "release_up" ELSE pc[u]
        BY <1>0, <3>2, Zenon DEF cond_release, Goto, SynchTypeOK
      <4>3. \A u \in Thread : lock'[u] = IF u = t THEN l ELSE lock[u]
        BY <3>2, <4>1, Zenon
      <4> QED  BY <4>1, <4>2, <4>3, Zenon
    <3> QED  BY <1>2, <3>1, <3>2, Zenon
  <2>3. OwnersStay
    BY <2>1, <2>2, SynchAssumption, SMTT(30) DEF OwnersStay, Has
  <2>4. WaitersStay
    BY <2>1, <2>2, Zenon DEF WaitersStay, IsWaiting
  <2>5. SignalledStay
    BY <2>1, <2>2, Zenon DEF SignalledStay, IsSignalled
  <2> QED  BY <2>3, <2>4, <2>5, Zenon
<1>3. CASE cond_release(t)
  <2>1. PICK l \in Lock : lock[t] = l
    BY <1>0, <1>3, Zenon DEF cond_release, At, LockPc, CallInv
  <2> QED  BY <1>2, <1>3, <2>1, Zenon
<1>4. CASE Sleeps(t)
  <2>1. /\ pc[t] \in {"cond_down", "cond_sleep"}
        /\ UNCHANGED <<holder, cond_waiters, lock, cond>>
    BY <1>4, Zenon DEF Sleeps, callVars
  <2>2. PICK p \in {"cond_lock", "cond_sleep"} :
          /\ \A u \in Thread : pc'[u] = IF u = t THEN p ELSE pc[u]
          /\ p = "cond_lock" => value[WaiterSema[t]] > 0
    <3>1. CASE value[WaiterSema[t]] > 0 /\ pc' = [pc EXCEPT ![t] = "cond_lock"]
      <4>1. \A u \in Thread : pc'[u] = IF u = t THEN "cond_lock" ELSE pc[u]
        BY <1>0, <3>1, Zenon DEF SynchTypeOK
      <4> QED  BY <3>1, <4>1, Zenon
    <3>2. CASE pc' = [pc EXCEPT ![t] = "cond_sleep"]
      <4>1. \A u \in Thread : pc'[u] = IF u = t THEN "cond_sleep" ELSE pc[u]
        BY <1>0, <3>2, Zenon DEF SynchTypeOK
      <4>2. "cond_sleep" # "cond_lock"
        BY Zenon
      <4> QED  BY <4>1, <4>2, Zenon
    <3> QED  BY <1>4, <3>1, <3>2, Zenon DEF Sleeps
  <2>3. p = "cond_lock" => \A k \in Cond : t \notin Members(cond_waiters[k])
    <3>1. ASSUME NEW k \in Cond, t \in Members(cond_waiters[k]), value[WaiterSema[t]] > 0
          PROVE  FALSE
      <4>0. SignalOf(t)
        BY <1>0, Zenon DEF SignalInv
      <4>1. value[WaiterSema[t]] = 0
        BY <3>1, <4>0, Zenon DEF SignalOf
      <4> QED  BY <3>1, <4>1
    <3> QED  BY <2>2, <3>1, Zenon
  <2>4. OwnersStay
    BY <2>1, <2>2, Zenon DEF OwnersStay, Has
  <2>5. WaitersStay
    BY <2>1, <2>2, <2>3, Zenon DEF WaitersStay, IsWaiting
  <2>6. SignalledStay
    BY <2>1, <2>2, Zenon DEF SignalledStay, IsSignalled
  <2> QED  BY <2>4, <2>5, <2>6, Zenon
<1>5. ASSUME NEW c \in Cond, cond_wait(t, c)
      PROVE  OwnersStay /\ WaitersStay /\ SignalledStay
  <2>1. /\ pc[t] = "run" /\ holder' = holder
        /\ \A u \in Thread : /\ lock'[u] = IF u = t THEN LockOf[c] ELSE lock[u]
                             /\ cond'[u] = IF u = t THEN c ELSE cond[u]
                             /\ pc'[u] = IF u = t THEN "cond_release" ELSE pc[u]
    <3>1. pc[t] = "run" /\ holder' = holder
      BY <1>5, Zenon DEF cond_wait, At
    <3>2. \A u \in Thread : lock'[u] = IF u = t THEN LockOf[c] ELSE lock[u]
      BY <1>0, <1>5, Zenon DEF cond_wait, SynchTypeOK
    <3>3. \A u \in Thread : cond'[u] = IF u = t THEN c ELSE cond[u]
      BY <1>0, <1>5, Zenon DEF cond_wait, SynchTypeOK
    <3>4. \A u \in Thread : pc'[u] = IF u = t THEN "cond_release" ELSE pc[u]
      BY <1>0, <1>5, Zenon DEF cond_wait, Goto, SynchTypeOK
    <3> QED  BY <3>1, <3>2, <3>3, <3>4, Zenon
  <2>2. cond[t] = NoCond
    BY <1>0, <2>1, Zenon DEF CallInv, LockPc
  <2>3. \A k \in Cond :
          Members(cond_waiters'[k]) = IF k = c THEN Members(cond_waiters[c]) \cup {t}
                                               ELSE Members(cond_waiters[k])
    <3>1. Members(Append(cond_waiters[c], t)) = Members(cond_waiters[c]) \cup {t}
      <4>1. cond_waiters[c] \in Seq(Thread)
        BY <1>0, Zenon DEF SynchTypeOK
      <4> QED  BY <4>1, PushBack, SMTT(20)
    <3> QED  BY <1>0, <1>5, <3>1, Zenon DEF cond_wait, SynchTypeOK
  <2>4. OwnersStay
    BY <2>1, Zenon DEF OwnersStay, Has
  <2>5. WaitersStay
    <3>1. ASSUME NEW u \in Thread, u # t
          PROVE  pc'[u] = pc[u] /\ \A k \in Cond : u \in Members(cond_waiters'[k]) <=> u \in Members(cond_waiters[k])
      BY <2>1, <2>3, <3>1, Zenon
    <3>2. pc'[t] = "cond_release"
      BY <2>1, Zenon
    <3> SUFFICES ASSUME NEW u \in Thread, NEW k \in Cond
                 PROVE  IsWaiting(u, k)' <=> IsWaiting(u, k)
      BY Zenon DEF WaitersStay
    <3>3. CASE u = t
      BY <2>1, <3>2, <3>3, Zenon DEF IsWaiting
    <3>4. CASE u # t
      BY <3>1, <3>4, Zenon DEF IsWaiting
    <3> QED  BY <3>3, <3>4, Zenon
  <2>6. SignalledStay
    <3>1. ASSUME NEW u \in Thread, u # t
          PROVE  /\ pc'[u] = pc[u] /\ cond'[u] = cond[u]
                 /\ \A k \in Cond : u \in Members(cond_waiters'[k]) <=> u \in Members(cond_waiters[k])
      BY <2>1, <2>3, <3>1, Zenon
    <3>2. cond'[t] = c /\ t \in Members(cond_waiters'[c])
      BY <2>1, <2>3, ZenonT(30)
    <3> SUFFICES ASSUME NEW u \in Thread, NEW k \in Cond
                 PROVE  IsSignalled(u, k)' <=> IsSignalled(u, k)
      BY Zenon DEF SignalledStay
    <3>3. CASE u = t
      <4>1. cond[t] # k
        BY <2>2, SynchAssumption, Zenon
      <4> QED  BY <3>2, <3>3, <4>1, SMTT(20) DEF IsSignalled
    <3>4. CASE u # t
      BY <3>1, <3>4, Zenon DEF IsSignalled
    <3> QED  BY <3>3, <3>4, Zenon
  <2> QED  BY <2>4, <2>5, <2>6, Zenon
<1>6. ASSUME NEW u \in Thread, Signals(t, u)
      PROVE  OwnersStay /\ WaitersStay /\ SignalledStay
  <2>1. /\ pc[t] = "signal_up" /\ UNCHANGED <<holder, cond_waiters, lock, cond>>
        /\ pc' = [pc EXCEPT ![t] = "broadcast"] \/ pc' = [pc EXCEPT ![t] = "run"]
    BY <1>6, Zenon DEF Signals
  <2>2. pc'[t] \in {"broadcast", "run"} /\ \A v \in Thread \ {t} : pc'[v] = pc[v]
    BY <1>0, <2>1, SMTT(30) DEF SynchTypeOK
  <2>3. OwnersStay
    BY <2>1, <2>2, Zenon DEF OwnersStay, Has
  <2>4. WaitersStay
    BY <2>1, <2>2, Zenon DEF WaitersStay, IsWaiting
  <2>5. SignalledStay
    BY <2>1, <2>2, Zenon DEF SignalledStay, IsSignalled
  <2> QED  BY <2>3, <2>4, <2>5, Zenon
<1> QED  BY <1>1, <1>2, <1>3, <1>4, <1>5, <1>6, Zenon

(* At the start no lock has an owner, nobody waits and nobody is signalled. *)
LEMMA StartMap == SInit => M!Init
<1> SUFFICES ASSUME SInit
             PROVE  M!Init
  BY Zenon
<1>1. Mapped
  BY SynchStart, Mapping, Zenon
<1>2. Members(<<>>) = {}
  BY DEF Members
<1>3. /\ \A t \in Thread, l \in Lock : ~Has(t, l)
      /\ \A t \in Thread, c \in Cond : ~IsWaiting(t, c) /\ ~IsSignalled(t, c)
  BY <1>2, SynchAssumption, Zenon DEF SInit, Has, IsWaiting, IsSignalled
<1>4. Owner = [l \in Lock |-> NoThread]
  <2>1. \A l \in Lock : Owner[l] = NoThread
    BY <1>1, <1>3, Zenon DEF Mapped
  <2> QED  BY <1>1, <2>1, Zenon DEF Mapped
<1>5. Waiting = [c \in Cond |-> {}] /\ Signalled = [c \in Cond |-> {}]
  <2>1. \A c \in Cond : Waiting[c] = {}
    BY <1>1, <1>3, Zenon DEF Mapped
  <2>2. \A c \in Cond : Signalled[c] = {}
    BY <1>1, <1>3, Zenon DEF Mapped
  <2>3. Waiting = [c \in Cond |-> {}]
    BY <1>1, <2>1, Zenon DEF Mapped
  <2>4. Signalled = [c \in Cond |-> {}]
    BY <1>1, <2>2, Zenon DEF Mapped
  <2> QED  BY <2>3, <2>4, Zenon
<1> QED  BY <1>4, <1>5, Zenon DEF M!Init, Owner, Waiting, Signalled

(* Every step is a step of the monitor, or one it does not see. *)
LEMMA StepMap == SynchInv /\ Mapped /\ Mapped' /\ [SNext]_svars => [M!Next]_(M!vars)
<1> SUFFICES ASSUME SynchInv, Mapped, Mapped', [SNext]_svars
             PROVE  M!Next \/ UNCHANGED M!vars
  BY Zenon
<1>1. CASE SNext
  <2>1. PICK t \in Thread : Call(t) \/ Inner(t)
    BY <1>1, Zenon DEF SNext
  <2> QED  BY <2>1, Kinds, AcquireMap, FreeMap, PickMap, OtherMap, Zenon
<1>2. CASE UNCHANGED svars
  <2>1. UNCHANGED <<holder, cond_waiters, pc, lock, cond>>
    BY <1>2, Zenon DEF svars, callVars
  <2>2. OwnersStay /\ WaitersStay /\ SignalledStay
    BY <2>1, Zenon DEF OwnersStay, WaitersStay, SignalledStay, Has, IsWaiting, IsSignalled
  <2> QED  BY <2>2, Stays, AsStutter, Zenon
<1> QED  BY <1>1, <1>2, Zenon

(* The interruptible code of locks and conditions does what the comments   *)
(* of synch.c promise: a lock has one owner, and the release and the wait  *)
(* of cond_wait are one atomic step.                                       *)
THEOREM IsMonitor == SynchSpec => ImplementsMonitor
<1>1. SynchSpec => []OneHolder
  BY LocksExclude, Zenon
<1>2. SynchSpec => M!Spec
  BY SynchStart, SynchNext, Mapping, StartMap, StepMap, PTL DEF SynchSpec, M!Spec
<1> QED  BY <1>1, <1>2, PTL DEF ImplementsMonitor

=============================================================================
