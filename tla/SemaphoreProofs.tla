-------------------------- MODULE SemaphoreProofs --------------------------
(***************************************************************************)
(* The semaphores of module Semaphore lose no wakeup, however many threads *)
(* and semaphores there are and however they are scheduled.                *)
(***************************************************************************)
EXTENDS Semaphore, ListsProofs, FiniteSetTheorems

SInv == TypeOK /\ QueuedOnce /\ NoLostWakeup

(* The initial states satisfy the inductive invariant. *)
LEMMA SemaInit == Init => SInv
<1> SUFFICES ASSUME Init
             PROVE  SInv
  OBVIOUS
<1>1. Members(<<>>) = {} /\ Once(<<>>)
  BY DEF Members, Once
<1>2. TypeOK
  BY SemaAssumption DEF Init, TypeOK
<1>3. QueuedOnce
  BY <1>1 DEF Init, QueuedOnce, Inside
<1>4. NoLostWakeup
  BY DEF Init, NoLostWakeup
<1> QED  BY <1>2, <1>3, <1>4 DEF SInv

(* A step that changes the wait list of one semaphore s to w and its woken *)
(* threads to k, and brings in no thread from elsewhere.                   *)
LEMMA OneSema ==
  ASSUME SInv, NEW s \in Sema, NEW w \in Seq(Thread), NEW k \in SUBSET Thread,
         NEW t \in Thread,
         waiters' = [waiters EXCEPT ![s] = w], woken' = [woken EXCEPT ![s] = k],
         value' \in [Sema -> Nat], \A r \in Sema \ {s} : value'[r] = value[r],
         Once(w), Members(w) \cap k = {},
         Members(w) \cup k \subseteq Inside(s) \cup {t},
         \A r \in Sema \ {s} : t \notin Inside(r),
         w # <<>> => value'[s] <= Cardinality(k)
  PROVE  SInv'
<1>1. /\ waiters'[s] = w /\ woken'[s] = k
      /\ \A r \in Sema \ {s} : waiters'[r] = waiters[r] /\ woken'[r] = woken[r]
  BY DEF SInv, TypeOK
<1>2. TypeOK'
  BY Zenon DEF SInv, TypeOK
<1>3. QueuedOnce'
  <2>1. \A r \in Sema : Once(waiters'[r]) /\ Members(waiters'[r]) \cap woken'[r] = {}
    BY <1>1 DEF SInv, QueuedOnce
  <2>2. Inside(s)' \subseteq Inside(s) \cup {t}
    BY <1>1 DEF Inside
  <2>3. \A r \in Sema \ {s} : Inside(r)' = Inside(r)
    BY <1>1 DEF Inside
  <2>4. ASSUME NEW q \in Sema, NEW r \in Sema, q # r
        PROVE  Inside(q)' \cap Inside(r)' = {}
    <3>1. Inside(q) \cap Inside(r) = {}
      BY <2>4 DEF SInv, QueuedOnce
    <3>2. CASE q = s
      BY <2>2, <2>3, <2>4, <3>1, <3>2
    <3>3. CASE r = s
      BY <2>2, <2>3, <2>4, <3>1, <3>3
    <3>4. CASE q # s /\ r # s
      BY <2>3, <3>1, <3>4
    <3> QED  BY <3>2, <3>3, <3>4
  <2> QED  BY <2>1, <2>4 DEF QueuedOnce
<1>4. NoLostWakeup'
  BY <1>1 DEF SInv, NoLostWakeup
<1> QED  BY <1>2, <1>3, <1>4 DEF SInv

(* The loop body of sema_down, entered by t from outside or woken. *)
LEMMA TestStep ==
  ASSUME SInv, NEW s \in Sema, NEW t \in Thread, NEW rest \in SUBSET Thread,
         rest = woken[s] \ {t}, Test(t, s, rest), t \notin Members(waiters[s]),
         \A r \in Sema \ {s} : t \notin Inside(r)
  PROVE  SInv'
<1> DEFINE w == Append(waiters[s], t)
<1>1. /\ value[s] \in Nat /\ value \in [Sema -> Nat]
      /\ waiters[s] \in Seq(Thread) /\ Once(waiters[s])
      /\ Members(waiters[s]) \cap woken[s] = {}
      /\ woken' = [woken EXCEPT ![s] = rest]
      /\ woken[s] \in SUBSET Thread
  BY DEF SInv, TypeOK, QueuedOnce, Test
<1>2. IsFiniteSet(woken[s]) /\ Cardinality(woken[s]) \in Nat
  BY <1>1, SemaAssumption, FS_Subset, FS_CardinalityType
<1>3. IsFiniteSet(rest) /\ Cardinality(rest) \in Nat
      /\ Cardinality(rest) >= Cardinality(woken[s]) - 1
  <2> DEFINE a == woken[s]
  <2>1. IsFiniteSet(a) /\ rest = a \ {t}
    BY <1>2
  <2> HIDE DEF a
  <2>2. /\ IsFiniteSet(a \ {t})
        /\ Cardinality(a \ {t}) = IF t \in a THEN Cardinality(a) - 1 ELSE Cardinality(a)
    BY <2>1, FS_RemoveElement
  <2>3. Cardinality(a \ {t}) \in Nat /\ Cardinality(a) \in Nat
    BY <2>1, <2>2, FS_CardinalityType
  <2>4. Cardinality(a \ {t}) >= Cardinality(a) - 1
    BY <2>2, <2>3
  <2> QED  BY <2>1, <2>2, <2>3, <2>4 DEF a
<1>4. CASE value[s] = 0
  <2>1. waiters' = [waiters EXCEPT ![s] = w] /\ value' = value
    BY <1>4 DEF Test
  <2>2. w \in Seq(Thread) /\ Once(w) /\ Members(w) = Members(waiters[s]) \cup {t}
    BY <1>1, PushBack
  <2> HIDE DEF w
  <2>3. Members(w) \cap rest = {} /\ Members(w) \cup rest \subseteq Inside(s) \cup {t}
    BY <1>1, <2>2 DEF Inside
  <2>4. w # <<>> => value'[s] <= Cardinality(rest)
    BY <1>3, <1>4, <2>1
  <2> QED  BY <1>1, <2>1, <2>2, <2>3, <2>4, OneSema, Zenon
<1>5. CASE value[s] > 0
  <2>1. /\ waiters' = [waiters EXCEPT ![s] = waiters[s]]
        /\ value' = [value EXCEPT ![s] = @ - 1]
    BY <1>5 DEF Test, SInv, TypeOK
  <2>2. /\ value' \in [Sema -> Nat] /\ value'[s] = value[s] - 1
        /\ \A r \in Sema \ {s} : value'[r] = value[r]
    BY <1>1, <1>5, <2>1
  <2>3. /\ Members(waiters[s]) \cap rest = {}
        /\ Members(waiters[s]) \cup rest \subseteq Inside(s) \cup {t}
    BY <1>1 DEF Inside
  <2>4. waiters[s] # <<>> => value'[s] <= Cardinality(rest)
    <3>1. waiters[s] # <<>> => value[s] <= Cardinality(woken[s])
      BY DEF SInv, NoLostWakeup
    <3> QED  BY <1>1, <1>2, <1>3, <2>2, <3>1
  <2> QED  BY <1>1, <2>1, <2>2, <2>3, <2>4, OneSema, Zenon
<1> QED  BY <1>1, <1>4, <1>5

(* sema_up() preserves the inductive invariant. *)
LEMMA SemaUpStep ==
  ASSUME SInv, NEW s \in Sema, sema_up(s)
  PROVE  SInv'
<1>1. /\ value[s] \in Nat /\ value \in [Sema -> Nat]
      /\ waiters[s] \in Seq(Thread) /\ Once(waiters[s])
      /\ Members(waiters[s]) \cap woken[s] = {}
      /\ woken[s] \in SUBSET Thread
  BY DEF SInv, TypeOK, QueuedOnce
<1>2. /\ value' \in [Sema -> Nat] /\ value'[s] = value[s] + 1
      /\ \A r \in Sema \ {s} : value'[r] = value[r]
  BY <1>1 DEF sema_up
<1>3. CASE waiters[s] = <<>>
  <2>1. waiters' = waiters /\ woken' = woken
    BY <1>3 DEF sema_up
  <2>2. TypeOK' /\ QueuedOnce'
    BY <1>2, <2>1 DEF SInv, TypeOK, QueuedOnce, Inside
  <2>3. NoLostWakeup'
    BY <1>2, <1>3, <2>1 DEF SInv, NoLostWakeup
  <2> QED  BY <2>2, <2>3 DEF SInv
<1>4. CASE waiters[s] # <<>>
  <2> DEFINE h == Head(waiters[s])
             w == Tail(waiters[s])
             k == woken[s] \cup {h}
  <2>1. waiters' = [waiters EXCEPT ![s] = w] /\ woken' = [woken EXCEPT ![s] = k]
    BY <1>4 DEF sema_up, SInv, TypeOK
  <2>2. /\ h \in Members(waiters[s]) /\ h \in Thread /\ w \in Seq(Thread)
        /\ Members(w) = Members(waiters[s]) \ {h} /\ Once(w)
    BY <1>1, <1>4, PopFront
  <2>3. Cardinality(k) = Cardinality(woken[s]) + 1 /\ Cardinality(woken[s]) \in Nat
    <3>1. IsFiniteSet(woken[s]) /\ Cardinality(woken[s]) \in Nat
      BY <1>1, SemaAssumption, FS_Subset, FS_CardinalityType
    <3>2. h \notin woken[s]
      BY <1>1, <2>2
    <3> HIDE DEF h
    <3> QED  BY <3>1, <3>2, FS_AddElement, Zenon
  <2>4. value[s] <= Cardinality(woken[s])
    BY <1>4 DEF SInv, NoLostWakeup
  <2>5. value'[s] <= Cardinality(k)
    BY <1>1, <1>2, <2>3, <2>4
  <2>6. /\ k \in SUBSET Thread /\ Members(w) \cap k = {}
        /\ Members(w) \cup k \subseteq Inside(s) \cup {h}
        /\ \A r \in Sema \ {s} : h \notin Inside(r)
    <3> HIDE DEF h, w
    <3> QED  BY <1>1, <2>2 DEF SInv, QueuedOnce, Inside
  <2> HIDE DEF h, w, k
  <2> QED  BY <1>2, <2>1, <2>2, <2>5, <2>6, OneSema, Zenon
<1> QED  BY <1>3, <1>4

(* sema_try_down() preserves the inductive invariant. *)
LEMMA TryDownStep ==
  ASSUME SInv, NEW s \in Sema, sema_try_down(s)
  PROVE  SInv'
<1>1. /\ value[s] \in Nat /\ value[s] > 0 /\ value \in [Sema -> Nat]
      /\ value' = [value EXCEPT ![s] = @ - 1] /\ waiters' = waiters /\ woken' = woken
      /\ woken[s] \in SUBSET Thread
  BY DEF SInv, TypeOK, sema_try_down
<1>2. /\ value' \in [Sema -> Nat] /\ value'[s] = value[s] - 1
      /\ \A r \in Sema \ {s} : value'[r] = value[r]
  BY <1>1
<1>3. Cardinality(woken[s]) \in Nat
  BY <1>1, SemaAssumption, FS_Subset, FS_CardinalityType
<1>4. TypeOK' /\ QueuedOnce'
  BY <1>1, <1>2 DEF SInv, TypeOK, QueuedOnce, Inside
<1>5. NoLostWakeup'
  <2> SUFFICES ASSUME NEW r \in Sema, waiters[r] # <<>>
               PROVE  value'[r] <= Cardinality(woken[r])
    BY <1>1 DEF NoLostWakeup
  <2>1. value[r] <= Cardinality(woken[r])
    BY DEF SInv, NoLostWakeup
  <2>2. CASE r = s
    BY <1>1, <1>2, <1>3, <2>1, <2>2
  <2>3. CASE r # s
    BY <1>2, <2>1, <2>3
  <2> QED  BY <2>2, <2>3
<1> QED  BY <1>4, <1>5 DEF SInv

(* Every step preserves the inductive invariant. *)
LEMMA SemaNext == SInv /\ [Next]_vars => SInv'
<1> SUFFICES ASSUME SInv, [Next]_vars
             PROVE  SInv'
  OBVIOUS
<1>1. ASSUME NEW s \in Sema, sema_up(s)
      PROVE  SInv'
  BY <1>1, SemaUpStep
<1>2. ASSUME NEW s \in Sema, sema_try_down(s)
      PROVE  SInv'
  BY <1>2, TryDownStep
<1>3. ASSUME NEW s \in Sema, NEW t \in Thread, sema_down(t, s)
      PROVE  SInv'
  <2>1. \A r \in Sema : t \notin Inside(r)
    BY <1>3 DEF sema_down, Outside
  <2>2. t \notin Members(waiters[s]) /\ woken[s] = woken[s] \ {t}
        /\ woken[s] \in SUBSET Thread
    BY <2>1 DEF Inside, SInv, TypeOK
  <2>3. Test(t, s, woken[s])
    BY <1>3 DEF sema_down
  <2> QED  BY <2>1, <2>2, <2>3, TestStep
<1>4. ASSUME NEW s \in Sema, NEW t \in Thread, sema_down_retry(t, s)
      PROVE  SInv'
  <2>1. t \in woken[s] /\ Test(t, s, woken[s] \ {t})
    BY <1>4 DEF sema_down_retry
  <2>2. t \in Inside(s) /\ t \notin Members(waiters[s])
        /\ woken[s] \ {t} \in SUBSET Thread
    BY <2>1 DEF Inside, SInv, TypeOK, QueuedOnce
  <2>3. \A r \in Sema \ {s} : t \notin Inside(r)
    BY <2>2 DEF SInv, QueuedOnce
  <2> QED  BY <2>1, <2>2, <2>3, TestStep
<1>5. CASE UNCHANGED vars
  BY <1>5 DEF vars, SInv, TypeOK, QueuedOnce, NoLostWakeup, Inside
<1> QED  BY <1>1, <1>2, <1>3, <1>4, <1>5 DEF Next

(* However threads are scheduled, none of them sleeps on a semaphore that  *)
(* has more units than threads already woken for them.                     *)
THEOREM NoWakeupIsLost == Spec => []NoLostWakeup
<1>1. SInv => NoLostWakeup
  BY DEF SInv
<1> QED  BY <1>1, SemaInit, SemaNext, PTL DEF Spec

(* A thread is in one place of one semaphore at a time. *)
THEOREM IsQueuedOnce == Spec => []QueuedOnce
<1>1. SInv => QueuedOnce
  BY DEF SInv
<1> QED  BY <1>1, SemaInit, SemaNext, PTL DEF Spec

=============================================================================
