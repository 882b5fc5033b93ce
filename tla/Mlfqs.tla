------------------------------- MODULE Mlfqs -------------------------------
(***************************************************************************)
(* What thread_tick computes with -mlfqs (threads/thread.c) in the fixed-  *)
(* point numbers of threads/fp.h: load_avg, recent_cpu and priorities.  F  *)
(* is the number one, 1 << 14 in the code.  A product or quotient has 64   *)
(* bits; what is assigned to an int keeps the lower IntWidth bits.         *)
(***************************************************************************)
EXTENDS Arithmetic

CONSTANTS F, IntWidth, PRI_MIN, PRI_MAX

ASSUME MlfqsAssumption ==
  /\ F \in {2 ^ k : k \in 1 .. 14} /\ IntWidth \in 8 .. 30
  /\ PRI_MIN \in Int /\ PRI_MAX \in Int /\ PRI_MIN < PRI_MAX

int(x) == Signed(x, 2 ^ IntWidth)

(* C's division rounds toward zero, its shift down. *)
Quotient(a, b) == IF a >= 0 THEN a \div b ELSE -((-a) \div b)

fmul(x, y) == Quotient(x * y, F)
fdiv(x, y) == Quotient(x * F, y)
itof(n) == n * F

ftoi(x) == (IF x >= 0 THEN x + (F \div 2) ELSE x - (F \div 2)) \div F

-----------------------------------------------------------------------------

Clamp(p) == IF p > PRI_MAX THEN PRI_MAX ELSE IF p < PRI_MIN THEN PRI_MIN ELSE p

(* Every fourth tick, for every thread, and in thread_set_nice. *)
PriorityOf(recent_cpu, nice) ==
  Clamp(PRI_MAX - ftoi(fdiv(recent_cpu, itof(4))) - nice * 2)

(* Bug: 59/60 is computed with integers. *)
NextLoad_Integers(load_avg, ready, not_idle) ==
  int(fmul(itof(59 \div 60), load_avg) + fmul(fdiv(itof(1), itof(60)), itof(ready + not_idle)))

(* Once a second, with the threads on the run queue and the running one. *)
NextLoad(load_avg, ready, not_idle) ==
  int(fmul(fdiv(itof(59), itof(60)), load_avg)
      + fmul(fdiv(itof(1), itof(60)), itof(ready + not_idle)))

Decay(load_avg) == LET twice == fmul(itof(2), load_avg) IN fdiv(twice, twice + itof(1))

NextRecent(load_avg, recent_cpu, nice) ==
  int(fmul(Decay(load_avg), recent_cpu) + itof(nice))

thread_get_load_avg(load_avg) == int(ftoi(fmul(itof(100), load_avg)))

thread_get_recent_cpu(recent_cpu) == int(ftoi(fmul(itof(100), recent_cpu)))

-----------------------------------------------------------------------------

(* The priorities are in range, and a thread that has used more of the CPU *)
(* or is nicer never has the higher one.                                   *)
Ranked(recent_cpu, nice) ==
  LET p == PriorityOf(recent_cpu, nice) IN
    /\ p \in PRI_MIN .. PRI_MAX
    /\ PriorityOf(recent_cpu + 1, nice) <= p /\ PriorityOf(recent_cpu, nice + 1) <= p

(* load_avg is the average of 59 parts of itself and one of the threads    *)
(* that want to run, up to rounding down, so that it never exceeds them.   *)
Averaged(load_avg, ready, not_idle) ==
  LET new == NextLoad(load_avg, ready, not_idle)
      sum == itof(ready + not_idle)
      off == 59 * load_avg + sum - 60 * new
  IN /\ new >= 0 /\ (new <= load_avg \/ new <= sum)
     /\ off >= 0 /\ off * F < 60 * (load_avg + sum + 2 * F)

(* What a thread has used is forgotten a little every second, less under a *)
(* higher load, and never more than all of it.                             *)
Forgotten(load_avg, recent_cpu, nice) ==
  LET left(l) == NextRecent(l, recent_cpu, nice) - itof(nice) IN
    IF recent_cpu >= 0
    THEN 0 <= left(load_avg) /\ left(load_avg) <= left(load_avg + F)
         /\ (recent_cpu > 0 => left(load_avg) < recent_cpu)
    ELSE recent_cpu <= left(load_avg) /\ left(load_avg) <= 0

(* A number that is not negative is reported rounded to the nearest        *)
(* hundredth.  A negative one is never reported higher than that, and by   *)
(* less than one and a half hundredths too low: the shift of nftoi rounds  *)
(* down what has been rounded already, so that -1.0 is reported as -101.   *)
Reported(x, hundreds) ==
  LET off == 100 * x - F * hundreds IN
    -F <= 2 * off /\ 2 * off < (IF x >= 0 THEN F ELSE 3 * F)

=============================================================================
