------------------------------ MODULE MCSynch ------------------------------
(* Three threads, two locks, a condition for each. *)
EXTENDS SynchMonitor, TLC

CONSTANTS t1, t2, t3, l1, l2, c1, c2, w1, w2, w3

MCThread == {t1, t2, t3}
MCLock == {l1, l2}
MCCond == {c1, c2}
MCLockOf == (c1 :> l1) @@ (c2 :> l2)
MCWaiterSema == (t1 :> w1) @@ (t2 :> w2) @@ (t3 :> w3)
MCSema == {l1, l2, w1, w2, w3}
MCInitValue == (l1 :> 1) @@ (l2 :> 1) @@ (w1 :> 0) @@ (w2 :> 0) @@ (w3 :> 0)
=============================================================================
