----------------------------- MODULE MCThreads -----------------------------
(* The thread system with two threads besides main and idle.                 *)
EXTENDS ThreadsProofs, TLC

CONSTANTS tm, ti, t1, t2, s0, s1

MCThread == {tm, ti, t1, t2}
MCSema == {s0, s1}
MCIntrSema == {s1}
MCInitValue == (s0 :> 0) @@ (s1 :> 0)
=============================================================================
