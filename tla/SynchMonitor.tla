---------------------------- MODULE SynchMonitor ----------------------------
(***************************************************************************)
(* What threads/synch.c promises its callers: locks and conditions behave  *)
(* as the atomic monitor of module Monitor.                                *)
(***************************************************************************)
EXTENDS Synch

(* The mapping to Monitor: a thread owns a lock while it Has it, and has   *)
(* waited from the release inside cond_wait on.                            *)
M == INSTANCE Monitor WITH
  owner <- [l \in Lock |-> IF \E t \in Thread : Has(t, l)
                           THEN CHOOSE t \in Thread : Has(t, l) ELSE NoThread],
  waiting <- [c \in Cond |-> {t \in Members(cond_waiters[c]) :
                                pc[t] \in {"cond_down", "cond_sleep"}}],
  signalled <- [c \in Cond |-> {t \in Thread :
                                  /\ cond[t] = c /\ t \notin Members(cond_waiters[c])
                                  /\ pc[t] # "set_holder"}]

(* cond_wait's comment: it "atomically releases LOCK and waits for COND to *)
(* be signaled"; the detailed steps are those of the atomic monitor, and   *)
(* the owner of a lock is unique.                                          *)
ImplementsMonitor == []OneHolder /\ M!Spec
=============================================================================
