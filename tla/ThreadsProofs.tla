--------------------------- MODULE ThreadsProofs ----------------------------
(***************************************************************************)
(* The safety of the thread system for every number of threads and         *)
(* semaphores, every range of priorities and every time slice: first what  *)
(* schedule() does for its callers, then that every step preserves the     *)
(* inductive invariant.                                                    *)
(***************************************************************************)
EXTENDS Threads, ListsProofs

Status == {"NONE", "RUNNING", "READY", "BLOCKED", "DYING"}

(* What schedule() needs of the run queue rl and the statuses st that its  *)
(* caller has built: nobody runs, rl holds the ready threads, and there is *)
(* somebody to switch to.                                                  *)
Runnable(rl, st) ==
  /\ rl \in Seq(Thread) /\ st \in [Thread -> Status]
  /\ Once(rl) /\ Sorted(rl, priority)
  /\ \A t \in Thread : t \in Members(rl) <=> st[t] = "READY" /\ t # idle_thread
  /\ \A t \in Thread : st[t] # "RUNNING"
  /\ \A t \in Thread : st[t] = "DYING" => t \in {Main, current}
  /\ rl # <<>> \/ idle_thread = Idle

(* What schedule() leaves. *)
Switched(st) ==
  /\ current' \in Thread /\ ready_list' \in Seq(Thread) /\ thread_ticks' = 0
  /\ status' = [t \in Thread |->
                  IF t = current' THEN "RUNNING"
                  ELSE IF t = current /\ t # Main /\ st[t] = "DYING" THEN "NONE"
                  ELSE st[t]]
  /\ st[current'] = "READY" \/ current' = idle_thread
  /\ Once(ready_list') /\ Sorted(ready_list', priority)
  /\ st \in [Thread -> Status]
  /\ \A t \in Thread :
       /\ t \in Members(ready_list') <=> status'[t] = "READY" /\ t # idle_thread
       /\ status'[t] = "RUNNING" <=> t = current'
       /\ status'[t] = "DYING" => t = Main
  /\ \A t \in Members(ready_list') : priority[t] <= priority[current']
  /\ current' = idle_thread => ready_list' = <<>>

(* schedule(): one thread is taken off the run queue and runs; the queue   *)
(* still holds exactly the ready threads, in order, and nobody on it has a *)
(* higher priority than the one that runs.                                 *)
LEMMA Schedule ==
  ASSUME NEW rl, NEW st, Runnable(rl, st), schedule(rl, st), current \in Thread,
         idle_thread \in {Idle, NoThread}
  PROVE  Switched(st)
<1> USE ThreadsAssumption
<1> DEFINE n == next_thread_to_run(rl)
<1>1. /\ n \in Thread /\ ready_list' \in Seq(Thread)
      /\ Once(ready_list') /\ Sorted(ready_list', priority)
      /\ st[n] = "READY" \/ n = idle_thread
      /\ \A t \in Thread : t \in Members(ready_list') <=>
                             st[t] = "READY" /\ t # idle_thread /\ t # n
      /\ \A t \in Members(ready_list') : priority[t] <= priority[n]
      /\ n = idle_thread => ready_list' = <<>>
  <2>1. CASE rl = <<>>
    <3>1. Members(<<>>) = {}
      BY DEF Members
    <3> QED  BY <2>1, <3>1, Zenon DEF Runnable, schedule, next_thread_to_run
  <2>2. CASE rl # <<>>
    <3>1. rl \in Seq(Thread) /\ Once(rl) /\ Sorted(rl, priority)
      BY Zenon DEF Runnable
    <3>2. /\ Head(rl) \in Members(rl) /\ Head(rl) \in Thread
          /\ Tail(rl) \in Seq(Thread)
          /\ Members(Tail(rl)) = Members(rl) \ {Head(rl)}
          /\ Once(Tail(rl)) /\ Sorted(Tail(rl), priority)
          /\ \A t \in Members(Tail(rl)) : priority[Head(rl)] >= priority[t]
      BY <2>2, <3>1, PopFront, Zenon
    <3>3. n = Head(rl) /\ ready_list' = Tail(rl)
      BY <2>2, Zenon DEF schedule, next_thread_to_run
    <3> QED  BY <3>2, <3>3, Zenon DEF Runnable
  <2> QED  BY <2>1, <2>2, Zenon
<1>2. current' = n /\ thread_ticks' = 0
      /\ status' = [FreeDying(st) EXCEPT ![n] = "RUNNING"]
  BY Zenon DEF schedule
<1> HIDE DEF n
<1>3. status' = [t \in Thread |->
                  IF t = current' THEN "RUNNING"
                  ELSE IF t = current /\ t # Main /\ st[t] = "DYING" THEN "NONE"
                  ELSE st[t]]
  BY <1>1, <1>2, Zenon DEF FreeDying, Runnable
<1> QED  BY <1>1, <1>2, <1>3, Zenon DEF Switched, Runnable

(* There is always somebody to switch to when the running thread blocks:   *)
(* until idle_thread is set, the idle thread itself is on the run queue.   *)
LEMMA SomebodyToRun ==
  ASSUME IInv, pc[current] \notin {"thread_start", "idle"}
  PROVE  ready_list # <<>> \/ idle_thread = Idle
<1> USE ThreadsAssumption
<1> SUFFICES ASSUME idle_thread = NoThread
             PROVE  ready_list # <<>>
  BY Zenon DEF IInv, TypeOK
<1>1. pc[Main] # "thread_start"
  BY Zenon DEF IInv, BootInv
<1>2. pc[Idle] = "idle" /\ status[Idle] \in {"READY", "RUNNING"}
  BY <1>1, Zenon DEF IInv, BootInv
<1>3. status[Idle] = "READY"
  BY <1>2, Zenon DEF IInv, QueueInv
<1>4. Idle \in Members(ready_list)
  BY <1>3, Zenon DEF IInv, QueueInv
<1>5. Members(<<>>) = {}
  BY DEF Members
<1> QED  BY <1>4, <1>5, Zenon

(* thread_block(): the running thread is blocked and another runs. *)
LEMMA Block ==
  ASSUME IInv, thread_block, pc[current] \notin {"thread_start", "idle"}
  PROVE  Switched([status EXCEPT ![current] = "BLOCKED"])
<1> USE ThreadsAssumption
<1> DEFINE st == [status EXCEPT ![current] = "BLOCKED"]
<1>1. Runnable(ready_list, st)
  BY SomebodyToRun, Zenon DEF IInv, TypeOK, QueueInv, ReadySorted, Runnable, Status
<1>2. current \in Thread /\ idle_thread \in {Idle, NoThread}
  BY Zenon DEF IInv, TypeOK
<1>3. schedule(ready_list, st)
  BY Zenon DEF thread_block
<1> QED  BY <1>1, <1>2, <1>3, Schedule, Zenon

(* thread_yield(): the running thread is ready and the first runs. *)
LEMMA Yield ==
  ASSUME IInv, thread_yield(priority)
  PROVE  Switched([status EXCEPT ![current] = "READY"])
<1> USE ThreadsAssumption
<1> DEFINE st == [status EXCEPT ![current] = "READY"]
           n == list_insert_ordered(ready_list, current, priority)
           rl == IF current = idle_thread THEN ready_list ELSE n
<1>1. /\ current \in Thread /\ idle_thread \in {Idle, NoThread}
      /\ ready_list \in Seq(Thread) /\ Once(ready_list)
      /\ Sorted(ready_list, priority) /\ priority \in [Thread -> Int]
      /\ current \notin Members(ready_list)
  BY DEF IInv, TypeOK, QueueInv, ReadySorted, Priority
<1>2. /\ n \in Seq(Thread) /\ n # <<>>
      /\ Members(n) = Members(ready_list) \cup {current}
      /\ Once(n) /\ Sorted(n, priority)
  BY <1>1, InsertOrdered
<1> HIDE DEF n
<1>3. Runnable(rl, st)
  <2>1. /\ st \in [Thread -> Status] /\ st[current] = "READY"
        /\ \A t \in Thread : t # current => st[t] = status[t] /\ st[t] # "RUNNING"
        /\ \A t \in Thread : st[t] = "DYING" => t \in {Main, current}
    BY <1>1, Zenon DEF IInv, TypeOK, QueueInv, Status
  <2>2. \A t \in Thread : t \in Members(ready_list) <=>
                            status[t] = "READY" /\ t # idle_thread
    BY Zenon DEF IInv, QueueInv
  <2> HIDE DEF st
  <2>3. CASE current = idle_thread
    BY <1>1, <2>1, <2>2, <2>3, Zenon DEF Runnable
  <2>4. CASE current # idle_thread
    BY <1>1, <1>2, <2>1, <2>2, <2>4, Zenon DEF Runnable
  <2> QED  BY <2>3, <2>4, Zenon
<1>4. schedule(rl, st)
  BY Zenon DEF thread_yield, n
<1> QED  BY <1>1, <1>3, <1>4, Schedule, Zenon

(* thread_unblock(): a blocked thread joins the run queue in its place. *)
LEMMA Unblock ==
  ASSUME IInv, NEW u \in Thread, status[u] = "BLOCKED", thread_unblock(u)
  PROVE  /\ current' = current /\ thread_ticks' = thread_ticks
         /\ status' = [status EXCEPT ![u] = "READY"]
         /\ ready_list' \in Seq(Thread) /\ Once(ready_list')
         /\ ready_list' # <<>> /\ Sorted(ready_list', priority)
         /\ Members(ready_list') = Members(ready_list) \cup {u}
<1>1. /\ ready_list \in Seq(Thread) /\ Once(ready_list)
      /\ Sorted(ready_list, priority) /\ priority \in [Thread -> Int]
      /\ u \notin Members(ready_list)
  BY ThreadsAssumption DEF IInv, TypeOK, QueueInv, ReadySorted, Priority
<1> DEFINE n == list_insert_ordered(ready_list, u, priority)
<1>2. /\ n \in Seq(Thread) /\ n # <<>>
      /\ Members(n) = Members(ready_list) \cup {u}
      /\ Once(n) /\ Sorted(n, priority)
  BY <1>1, InsertOrdered
<1> QED  BY <1>2, Zenon DEF thread_unblock

-----------------------------------------------------------------------------
(* The inductive invariant, action by action. *)

(* The initial states, main alone and running, satisfy IInv. *)
LEMMA InitIInv == Init => IInv
<1> SUFFICES ASSUME Init
             PROVE  IInv
  BY Zenon
<1> USE ThreadsAssumption
<1>1. Members(<<>>) = {} /\ Once(<<>>) /\ Sorted(<<>>, priority)
  BY DEF Members, Once, Sorted
<1>2. TypeOK
  BY DEF Init, TypeOK, Priority
<1>3. QueueInv /\ SliceInv /\ SleepInv /\ ReadySorted
  BY <1>1 DEF Init, QueueInv, SliceInv, SleepInv, ReadySorted, intr_context
<1>4. ListInv /\ CreateInv /\ BlockedInv
  BY <1>1, Zenon DEF Init, ListInv, CreateInv, BlockedInv
<1>5. BootInv
  BY DEF Init, BootInv, IdlePc, intr_context
<1> QED  BY <1>2, <1>3, <1>4, <1>5, Zenon DEF IInv

(* Threads on the lists are threads. *)
LEMMA OnLists ==
  ASSUME IInv
  PROVE  /\ Members(ready_list) \subseteq Thread
         /\ Members(sleep_list) \subseteq Thread
         /\ \A s \in Sema : Members(waiters[s]) \subseteq Thread
BY MembersOf, Zenon DEF IInv, TypeOK

(* What a switch leaves of the run queue satisfies the invariant. *)
LEMMA SwitchQueue ==
  ASSUME NEW st, Switched(st), idle_thread' = idle_thread, priority' = priority
  PROVE  /\ QueueInv' /\ SliceInv' /\ ReadySorted'
         /\ status' \in [Thread -> Status] /\ thread_ticks' \in 0 .. TimeSlice
BY ThreadsAssumption DEF Switched, QueueInv, SliceInv, ReadySorted, Status

(* So does what thread_unblock leaves. *)
LEMMA UnblockQueue ==
  ASSUME IInv, NEW u \in Thread, status[u] = "BLOCKED", u # idle_thread,
         thread_unblock(u), idle_thread' = idle_thread, priority' = priority
  PROVE  /\ QueueInv' /\ ReadySorted'
         /\ status' \in [Thread -> Status] /\ ready_list' \in Seq(Thread)
<1>1. /\ current' = current
      /\ status' = [status EXCEPT ![u] = "READY"]
      /\ ready_list' \in Seq(Thread) /\ Once(ready_list')
      /\ Sorted(ready_list', priority)
      /\ Members(ready_list') = Members(ready_list) \cup {u}
  BY Unblock, Zenon
<1> QED  BY <1>1, Zenon DEF IInv, TypeOK, QueueInv, ReadySorted, Status

(* The idle thread is on no list and is nobody's child. *)
LEMMA NotIdle ==
  ASSUME IInv
  PROVE  /\ Idle \notin Members(sleep_list)
         /\ \A s \in Sema : Idle \notin Members(waiters[s])
         /\ \A t \in Thread : child[t] # Idle
<1> USE ThreadsAssumption
<1>1. status[Idle] = "BLOCKED" => pc[Idle] \in IdlePc
  BY Zenon DEF IInv, BootInv
<1> QED  BY <1>1 DEF IInv, ListInv, CreateInv, IdlePc

(* A switch leaves blocked threads where they are.  The running thread may *)
(* be anywhere in its code if it is preempted; if it exits, at "run".      *)
LEMMA SwitchLists ==
  ASSUME IInv, NEW st, Switched(st),
         \A u \in Thread \ {current} : st[u] = status[u],
         st[current] = "BLOCKED" => current = idle_thread,
         st[current] = "DYING" => pc'[current] = "run",
         st[current] # "NONE",
         UNCHANGED <<sleep_list, waiters, wait_on, child, idle_thread>>,
         \A u \in Thread \ {current} : pc'[u] = pc[u],
         \/ pc'[current] = pc[current]
         \/ {pc[current], pc'[current]} \cap {"sema_down", "thread_create"} = {}
  PROVE  ListInv' /\ CreateInv' /\ BlockedInv'
<1> USE ThreadsAssumption
<1>1. /\ current \in Thread /\ status[current] = "RUNNING"
      /\ idle_thread \in {Idle, NoThread}
  BY Zenon DEF IInv, TypeOK, QueueInv
<1>2. /\ \A u \in Thread \ {current} : pc'[u] = pc[u]
      /\ pc'[current] = "sema_down" <=> pc[current] = "sema_down"
      /\ pc'[current] = "thread_create" <=> pc[current] = "thread_create"
  BY Zenon
<1>3. \A u \in Thread : status[u] = "BLOCKED" /\ u # Idle =>
                         status'[u] = "BLOCKED" /\ pc'[u] = pc[u]
  BY <1>1 DEF Switched
<1>4. \A u \in Thread : status'[u] = "BLOCKED" =>
                         status[u] = "BLOCKED" \/ u = idle_thread
  BY <1>1, Zenon DEF Switched
<1>5. \A u \in Thread : status'[u] = "NONE" => pc'[u] = "run"
  BY <1>1 DEF Switched, IInv, CreateInv
<1>6. ListInv'
  BY <1>2, <1>3, NotIdle, OnLists DEF IInv, ListInv
<1>7. CreateInv'
  <2> SUFFICES ASSUME NEW u \in Thread
               PROVE  CreateInv!(u)'
    BY Zenon DEF CreateInv
  <2> QED  BY <1>2, <1>3, <1>5 DEF IInv, CreateInv
<1>8. BlockedInv'
  BY <1>2, <1>4 DEF IInv, BlockedInv
<1> QED  BY <1>6, <1>7, <1>8, Zenon

(* thread_create() up to its unblock of the child preserves IInv. *)
LEMMA CreateStep ==
  ASSUME IInv, NEW t \in Thread, NEW c \in Thread, NEW p \in Priority,
         thread_create(t, c, p)
  PROVE  IInv'
<1> USE ThreadsAssumption
<1>1. /\ current = t /\ pc[t] = "run" /\ status[c] = "NONE" /\ c # Idle
      /\ c # Main /\ c # t /\ pc[c] = "run" /\ scan = 0
      /\ c \notin Members(ready_list) /\ c \notin Members(sleep_list)
      /\ status[t] = "RUNNING"
  BY DEF thread_create, Runs, IInv, QueueInv, ListInv, CreateInv, BootInv, SleepInv,
         intr_context, TypeOK
<1>2. TypeOK'
  BY <1>1, Zenon DEF thread_create, IInv, TypeOK, sleepVars, semaVars
<1>3. QueueInv' /\ SliceInv' /\ SleepInv'
  BY <1>1, Zenon DEF thread_create, IInv, TypeOK, QueueInv, SliceInv, SleepInv, sleepVars,
              intr_context
<1>4. ReadySorted'
  <2>1. \A u \in Members(ready_list) : priority'[u] = priority[u]
    BY <1>1, OnLists, Zenon DEF thread_create, IInv, TypeOK
  <2>2. Sorted(ready_list, priority')
    BY <2>1, SortedSame, Zenon DEF IInv, ReadySorted
  <2> QED  BY <2>2, Zenon DEF thread_create, ReadySorted
<1>5. ListInv'
  BY <1>1, OnLists DEF thread_create, IInv, TypeOK, ListInv, sleepVars, semaVars
<1>6. /\ \A u \in Thread : child'[u] = IF u = t THEN c ELSE child[u]
      /\ \A u \in Thread : pc'[u] = IF u = t THEN "thread_create" ELSE pc[u]
      /\ \A u \in Thread : status'[u] = IF u = c THEN "BLOCKED" ELSE status[u]
      /\ sleep_list' = sleep_list /\ waiters' = waiters /\ wait_on' = wait_on
      /\ idle_thread' = idle_thread
  BY Zenon DEF thread_create, IInv, TypeOK, sleepVars, semaVars
<1>7. \A u \in Thread : child[u] # c
  BY <1>1, SMTT(30) DEF IInv, CreateInv
<1>8. CreateInv'
  <2> SUFFICES ASSUME NEW u \in Thread
               PROVE  CreateInv!(u)'
    BY Zenon DEF CreateInv
  <2> QED  BY <1>1, <1>6, <1>7, SMTT(30) DEF IInv, CreateInv
<1>9. BlockedInv'
  <2> SUFFICES ASSUME NEW u \in Thread
               PROVE  BlockedInv!(u)'
    BY Zenon DEF BlockedInv
  <2>1. child[t] = NoThread /\ child[t] # u
    BY <1>1, SMTT(30) DEF IInv, CreateInv
  <2>2. \A d \in Thread : child[d] = u => child'[d] = u
    BY <1>6, <2>1, Zenon
  <2> QED  BY <1>1, <1>6, <2>2 DEF IInv, BlockedInv
<1>10. BootInv'
  BY <1>1 DEF thread_create, IInv, TypeOK, BootInv, IdlePc, sleepVars, intr_context
<1> QED  BY <1>2, <1>3, <1>4, <1>5, <1>8, <1>9, <1>10, Zenon DEF IInv

(* thread_create() unblocking the child preserves IInv. *)
LEMMA CreateUnblockStep ==
  ASSUME IInv, NEW t \in Thread, thread_create_unblock(t)
  PROVE  IInv'
<1> USE ThreadsAssumption
<1> DEFINE c == child[t]
<1>1. /\ current = t /\ pc[t] = "thread_create" /\ scan = 0
      /\ c \in Thread \ {Main, Idle} /\ status[c] = "BLOCKED" /\ pc[c] = "run"
      /\ c \notin Members(sleep_list) /\ c # t
      /\ \A u \in Thread \ {t} : child[u] # c
      /\ c # idle_thread
      /\ \A s \in Sema : c \notin Members(waiters[s])
  BY DEF thread_create_unblock, Runs, IInv, TypeOK, QueueInv, ListInv, CreateInv,
         intr_context
<1>2. /\ thread_unblock(c) /\ current' = current /\ thread_ticks' = thread_ticks
      /\ \A u \in Thread : status'[u] = IF u = c THEN "READY" ELSE status[u]
      /\ \A u \in Thread : child'[u] = IF u = t THEN NoThread ELSE child[u]
      /\ \A u \in Thread : pc'[u] = IF u = t THEN "thread_yield" ELSE pc[u]
      /\ UNCHANGED <<sleepVars, semaVars, priority, idle_thread>>
  BY Zenon DEF thread_create_unblock, thread_unblock, IInv, TypeOK
<1>3. /\ QueueInv' /\ ReadySorted'
      /\ status' \in [Thread -> Status] /\ ready_list' \in Seq(Thread)
  BY <1>1, <1>2, UnblockQueue, Zenon
<1>4. TypeOK'
  BY <1>1, <1>2, <1>3, ZenonT(60) DEF thread_create_unblock, IInv, TypeOK, Status, sleepVars, semaVars
<1> HIDE DEF c
<1>5. SliceInv' /\ SleepInv'
  BY <1>2, Zenon DEF IInv, SliceInv, SleepInv, sleepVars, intr_context
<1>6. ListInv'
  BY <1>1, <1>2, OnLists, SMTT(30) DEF IInv, ListInv, sleepVars, semaVars
<1>7. CreateInv'
  <2> SUFFICES ASSUME NEW u \in Thread
               PROVE  CreateInv!(u)'
    BY Zenon DEF CreateInv
  <2> QED  BY <1>1, <1>2, SMTT(30) DEF IInv, CreateInv, sleepVars, c
<1>8. BlockedInv'
  <2> SUFFICES ASSUME NEW u \in Thread, status'[u] = "BLOCKED"
               PROVE  BlockedInv!(u)'
    BY Zenon DEF BlockedInv
  <2>1. u # c /\ status[u] = "BLOCKED"
    BY <1>2, Zenon
  <2>2. \A d \in Thread : child[d] = u => child'[d] = u
    BY <1>2, <2>1, Zenon DEF c
  <2>3. pc[u] = "sema_down" => pc'[u] = "sema_down"
    BY <1>1, <1>2, Zenon
  <2> QED  BY <1>2, <2>1, <2>2, <2>3, Zenon DEF IInv, BlockedInv, sleepVars, semaVars
<1>9. BootInv'
  BY <1>1, <1>2, SMTT(30) DEF IInv, TypeOK, BootInv, IdlePc, sleepVars, intr_context
<1> QED  BY <1>3, <1>4, <1>5, <1>6, <1>7, <1>8, <1>9, Zenon DEF IInv

(* thread_yield() preserves IInv. *)
LEMMA YieldStep ==
  ASSUME IInv, NEW t \in Thread, yield(t)
  PROVE  IInv'
<1> USE ThreadsAssumption
<1> DEFINE st == [status EXCEPT ![current] = "READY"]
<1>1. current = t /\ pc[t] \in {"run", "thread_yield"} /\ scan = 0
  BY DEF yield, Runs, IInv, TypeOK, intr_context
<1>2. Switched(st)
  BY Yield, Zenon DEF yield
<1>3. /\ \A u \in Thread : pc'[u] = IF u = t THEN "run" ELSE pc[u]
      /\ UNCHANGED <<sleepVars, semaVars, priority, idle_thread, child>>
  BY Zenon DEF yield, IInv, TypeOK
<1>4. /\ st[current] = "READY"
      /\ \A u \in Thread \ {current} : st[u] = status[u]
  BY <1>1, Zenon DEF IInv, TypeOK
<1> HIDE DEF st
<1>5. /\ QueueInv' /\ SliceInv' /\ ReadySorted'
      /\ status' \in [Thread -> Status] /\ thread_ticks' \in 0 .. TimeSlice
  BY <1>2, <1>3, SwitchQueue, Zenon
<1>6. ListInv' /\ CreateInv' /\ BlockedInv'
  BY <1>1, <1>2, <1>3, <1>4, SwitchLists, Zenon DEF sleepVars, semaVars
<1>7. TypeOK'
  BY <1>2, <1>3, <1>5, SMTT(30) DEF yield, IInv, TypeOK, Status, Switched, sleepVars, semaVars
<1>8. SleepInv'
  BY <1>3, Zenon DEF IInv, SleepInv, sleepVars
<1>9. BootInv'
  <2>1. pc[Main] # "thread_start"
    BY <1>1, Zenon DEF IInv, BootInv
  <2>2. status'[Main] # "NONE" /\ status'[Idle] # "NONE"
    BY <1>1, <1>2, <1>4, <2>1, Zenon DEF IInv, BootInv, Switched
  <2>3. status[Idle] \in {"READY", "RUNNING"} => status'[Idle] \in {"READY", "RUNNING"}
    BY <1>1, <1>2, <1>4, Zenon DEF Switched
  <2> QED  BY <1>1, <1>3, <2>1, <2>2, <2>3, Zenon DEF IInv, BootInv, IdlePc
<1> QED  BY <1>5, <1>6, <1>7, <1>8, <1>9, Zenon DEF IInv

(* thread_set_priority() preserves IInv. *)
LEMMA SetPriorityStep ==
  ASSUME IInv, NEW t \in Thread, NEW p \in Priority, thread_set_priority(t, p)
  PROVE  IInv'
<1> USE ThreadsAssumption
<1>1. current = t /\ pc[t] = "run" /\ t \notin Members(ready_list) /\ status[t] = "RUNNING"
  BY Zenon DEF thread_set_priority, Runs, IInv, QueueInv
<1>2. /\ \A u \in Thread : pc'[u] = IF u = t THEN "thread_yield" ELSE pc[u]
      /\ UNCHANGED <<current, status, ready_list, thread_ticks, sleep_list, sleep_left,
                     scan, value, waiters, wait_on, idle_thread, child>>
  BY Zenon DEF thread_set_priority, IInv, TypeOK, schedVars, sleepVars, semaVars
<1>3. TypeOK'
  BY <1>2, Zenon DEF thread_set_priority, IInv, TypeOK
<1>4. ReadySorted'
  <2>1. \A u \in Members(ready_list) : priority'[u] = priority[u]
    BY <1>1, OnLists, Zenon DEF thread_set_priority, IInv, TypeOK
  <2>2. Sorted(ready_list, priority')
    BY <2>1, SortedSame, Zenon DEF IInv, ReadySorted
  <2> QED  BY <1>2, <2>2, Zenon DEF ReadySorted
<1>5. QueueInv' /\ SliceInv' /\ SleepInv'
  BY <1>2, Zenon DEF IInv, QueueInv, SliceInv, SleepInv, intr_context
<1>6. ListInv' /\ BlockedInv'
  BY <1>1, <1>2, OnLists, SMTT(30) DEF IInv, ListInv, BlockedInv
<1>7. CreateInv'
  <2> SUFFICES ASSUME NEW u \in Thread
               PROVE  CreateInv!(u)'
    BY Zenon DEF CreateInv
  <2>1. CreateInv!(u) /\ CreateInv!(t)
    BY Zenon DEF IInv, CreateInv
  <2>2. status[t] = "RUNNING" /\ child[t] = NoThread
    BY <1>1, <2>1, Zenon
  <2>3. pc[u] = "thread_create" => pc'[child[u]] = pc[child[u]]
    BY <1>1, <1>2, <2>1, Zenon
  <2> QED  BY <1>1, <1>2, <2>1, <2>2, <2>3, Zenon
<1>8. BootInv'
  BY <1>1, <1>2, Zenon DEF IInv, BootInv, IdlePc, intr_context
<1> QED  BY <1>3, <1>4, <1>5, <1>6, <1>7, <1>8, Zenon DEF IInv

(* thread_exit(): the running thread dies and another runs. *)
LEMMA ExitSwitch ==
  ASSUME IInv, NEW t \in Thread, thread_exit(t)
  PROVE  /\ current = t /\ pc[t] = "run"
         /\ Switched([status EXCEPT ![t] = "DYING"])
<1> USE ThreadsAssumption
<1> DEFINE st == [status EXCEPT ![t] = "DYING"]
<1>1. current = t /\ pc[t] = "run"
  BY Zenon DEF thread_exit, Runs, IInv, TypeOK
<1>2. Runnable(ready_list, st)
  BY <1>1, SomebodyToRun, Zenon DEF IInv, TypeOK, QueueInv, ReadySorted, Runnable, Status
<1>3. current \in Thread /\ idle_thread \in {Idle, NoThread}
  BY Zenon DEF IInv, TypeOK
<1>4. schedule(ready_list, st)
  BY Zenon DEF thread_exit
<1> QED  BY <1>1, <1>2, <1>3, <1>4, Schedule, Zenon

(* thread_exit() preserves IInv. *)
LEMMA ExitStep ==
  ASSUME IInv, NEW t \in Thread, thread_exit(t)
  PROVE  IInv'
<1> USE ThreadsAssumption
<1> DEFINE st == [status EXCEPT ![t] = "DYING"]
<1>1. current = t /\ pc[t] = "run"
  BY ExitSwitch, Zenon
<1>2. Switched(st)
  BY ExitSwitch, Zenon
<1>3. /\ st[current] = "DYING"
      /\ \A u \in Thread \ {current} : st[u] = status[u]
  BY <1>1, Zenon DEF IInv, TypeOK
<1>4. UNCHANGED <<sleepVars, semaVars, priority, idle_thread, pc, child>>
  BY Zenon DEF thread_exit
<1> HIDE DEF st
<1>5. /\ QueueInv' /\ SliceInv' /\ ReadySorted'
      /\ status' \in [Thread -> Status] /\ thread_ticks' \in 0 .. TimeSlice
  BY <1>2, <1>4, SwitchQueue, Zenon
<1>6. ListInv' /\ CreateInv' /\ BlockedInv'
  BY <1>1, <1>2, <1>3, <1>4, SwitchLists, Zenon DEF sleepVars, semaVars
<1>7. TypeOK'
  BY <1>2, <1>4, <1>5, Zenon DEF IInv, TypeOK, Status, Switched, sleepVars, semaVars
<1>8. SleepInv'
  BY <1>4, Zenon DEF IInv, SleepInv, sleepVars
<1>9. BootInv'
  <2>1. pc[Main] # "thread_start" /\ t # Idle
    BY <1>1, Zenon DEF IInv, BootInv, IdlePc
  <2>2. status'[Main] # "NONE" /\ status'[Idle] # "NONE"
    BY <1>1, <1>2, <1>3, <2>1, Zenon DEF IInv, BootInv, Switched
  <2>3. status[Idle] \in {"READY", "RUNNING"} => status'[Idle] \in {"READY", "RUNNING"}
    BY <1>1, <1>2, <1>3, <2>1, Zenon DEF Switched
  <2> QED  BY <1>4, <2>1, <2>2, <2>3, Zenon DEF IInv, BootInv
<1> QED  BY <1>5, <1>6, <1>7, <1>8, <1>9, Zenon DEF IInv

(* Before the running thread blocks on a list it is on none, and the idle  *)
(* thread keeps its place.                                                 *)
LEMMA BlockStatus ==
  ASSUME IInv, thread_block, pc[current] \in {"run", "sema_down", "thread_start_wait"}
  PROVE  /\ Switched([status EXCEPT ![current] = "BLOCKED"])
         /\ current \in Thread /\ current # Idle /\ pc[Main] # "thread_start"
         /\ status'[current] = "BLOCKED"
         /\ \A u \in Thread : status[u] = "BLOCKED" /\ u # Idle => status'[u] = "BLOCKED"
         /\ \A u \in Thread : status'[u] = "BLOCKED" => status[u] = "BLOCKED" \/ u = current
         /\ \A u \in Thread : status'[u] = "NONE" => status[u] = "NONE"
         /\ status'[Main] # "NONE" /\ status'[Idle] # "NONE"
         /\ status[Idle] \in {"READY", "RUNNING"} => status'[Idle] \in {"READY", "RUNNING"}
         /\ current \notin Members(sleep_list)
         /\ \A s \in Sema : current \notin Members(waiters[s])
         /\ \A u \in Thread : child[u] # current
<1> USE ThreadsAssumption
<1> DEFINE st == [status EXCEPT ![current] = "BLOCKED"]
<1>1. Switched(st)
  BY Block, Zenon
<1>2. /\ current \in Thread /\ status[current] = "RUNNING"
      /\ idle_thread \in {Idle, NoThread}
  BY Zenon DEF IInv, TypeOK, QueueInv
<1>3. st[current] = "BLOCKED" /\ \A u \in Thread \ {current} : st[u] = status[u]
  BY <1>2, Zenon DEF IInv, TypeOK
<1>4. pc[Main] # "thread_start" /\ current # Idle
  BY Zenon DEF IInv, BootInv, IdlePc
<1> HIDE DEF st
<1>5. \A u \in Thread : status[u] = "BLOCKED" /\ u # Idle => status'[u] = "BLOCKED"
  BY <1>1, <1>2, <1>3 DEF Switched
<1>6. /\ status'[current] = "BLOCKED"
      /\ \A u \in Thread : status'[u] = "BLOCKED" => status[u] = "BLOCKED" \/ u = current
      /\ \A u \in Thread : status'[u] = "NONE" => status[u] = "NONE"
  BY <1>1, <1>2, <1>3, <1>4 DEF Switched
<1>7. status[Idle] \in {"READY", "RUNNING"} => status'[Idle] \in {"READY", "RUNNING"}
  BY <1>1, <1>2, <1>3, <1>4, Zenon DEF Switched
<1>8. status'[Main] # "NONE" /\ status'[Idle] # "NONE"
  BY <1>4, <1>6, Zenon DEF IInv, BootInv
<1>9. /\ current \notin Members(sleep_list)
      /\ \A s \in Sema : current \notin Members(waiters[s])
      /\ \A u \in Thread : child[u] # current
  BY <1>2 DEF IInv, ListInv, CreateInv
<1> QED  BY <1>1, <1>2, <1>4, <1>5, <1>6, <1>7, <1>8, <1>9, Zenon DEF st

(* timer_sleep() preserves IInv. *)
LEMMA SleepStep ==
  ASSUME IInv, NEW t \in Thread, NEW n \in 1 .. MaxSleep, timer_sleep(t, n)
  PROVE  IInv'
<1> USE ThreadsAssumption
<1> DEFINE st == [status EXCEPT ![current] = "BLOCKED"]
<1>1. current = t /\ pc[t] = "run" /\ scan = 0 /\ thread_block
  BY DEF timer_sleep, Runs, IInv, TypeOK, intr_context
<1>2. /\ Switched(st)
      /\ t # Idle /\ pc[Main] # "thread_start"
      /\ status'[t] = "BLOCKED"
      /\ \A u \in Thread : status[u] = "BLOCKED" /\ u # Idle => status'[u] = "BLOCKED"
      /\ \A u \in Thread : status'[u] = "BLOCKED" => status[u] = "BLOCKED" \/ u = t
      /\ \A u \in Thread : status'[u] = "NONE" => status[u] = "NONE"
      /\ status'[Main] # "NONE" /\ status'[Idle] # "NONE"
      /\ status[Idle] \in {"READY", "RUNNING"} => status'[Idle] \in {"READY", "RUNNING"}
      /\ t \notin Members(sleep_list)
      /\ \A s \in Sema : t \notin Members(waiters[s])
      /\ \A u \in Thread : child[u] # t
  BY <1>1, BlockStatus, Zenon
<1> HIDE DEF st
<1>3. /\ sleep_list' \in Seq(Thread) /\ Len(sleep_list') = Len(sleep_list) + 1
      /\ \A i \in 1 .. Len(sleep_list) : sleep_list'[i] = sleep_list[i]
      /\ sleep_list'[Len(sleep_list) + 1] = t
      /\ Members(sleep_list') = Members(sleep_list) \cup {t}
      /\ Once(sleep_list')
  <2>1. sleep_list \in Seq(Thread) /\ Once(sleep_list) /\ sleep_list' = Append(sleep_list, t)
    BY Zenon DEF IInv, TypeOK, ListInv, timer_sleep
  <2> QED  BY <1>2, <2>1, PushBack, SMTT(30)
<1>4. /\ UNCHANGED <<scan, value, waiters, wait_on, priority, idle_thread, pc, child>>
      /\ sleep_left' = [sleep_left EXCEPT ![t] = n]
  BY Zenon DEF timer_sleep, semaVars
<1>5. /\ QueueInv' /\ SliceInv' /\ ReadySorted'
      /\ status' \in [Thread -> Status] /\ thread_ticks' \in 0 .. TimeSlice
  BY <1>2, <1>4, SwitchQueue, Zenon
<1>6. TypeOK'
  <2>1. sleep_left' \in [Thread -> Int]
    BY <1>4 DEF IInv, TypeOK
  <2>2. current' \in Thread /\ ready_list' \in Seq(Thread)
    BY <1>2, Zenon DEF Switched
  <2> QED  BY <1>3, <1>4, <1>5, <2>1, <2>2, SMTT(30) DEF IInv, TypeOK, Status
<1>7. ListInv'
  <2>1. Once(sleep_list') /\ \A u \in Members(sleep_list') : status'[u] = "BLOCKED" /\ pc'[u] = "run"
    <3>1. \A u \in Members(sleep_list) : status[u] = "BLOCKED" /\ pc[u] = "run"
      BY Zenon DEF IInv, ListInv
    <3>2. \A u \in Members(sleep_list) : u \in Thread /\ u # Idle
      BY NotIdle, OnLists, Zenon
    <3> QED  BY <1>1, <1>2, <1>3, <1>4, <3>1, <3>2, Zenon
  <2>2. \A s \in Sema :
          /\ Once(waiters'[s])
          /\ \A u \in Members(waiters'[s]) :
               status'[u] = "BLOCKED" /\ pc'[u] = "sema_down" /\ wait_on'[u] = s
    <3> SUFFICES ASSUME NEW s \in Sema
                 PROVE  /\ Once(waiters[s])
                        /\ \A u \in Members(waiters[s]) :
                             status'[u] = "BLOCKED" /\ pc[u] = "sema_down" /\ wait_on[u] = s
      BY <1>4, Zenon
    <3>1. /\ Once(waiters[s])
          /\ \A u \in Members(waiters[s]) :
               status[u] = "BLOCKED" /\ pc[u] = "sema_down" /\ wait_on[u] = s
      BY Zenon DEF IInv, ListInv
    <3>2. \A u \in Members(waiters[s]) : u \in Thread /\ u # Idle
      BY NotIdle, OnLists, Zenon
    <3> QED  BY <1>2, <3>1, <3>2, Zenon
  <2>3. \A u \in Thread : pc'[u] = "sema_down" => wait_on'[u] \in Sema
    BY <1>4, Zenon DEF IInv, ListInv
  <2> QED  BY <2>1, <2>2, <2>3, Zenon DEF ListInv
<1>8. CreateInv'
  <2> SUFFICES ASSUME NEW u \in Thread
               PROVE  CreateInv!(u)'
    BY Zenon DEF CreateInv
  <2>1. CreateInv!(u)
    BY Zenon DEF IInv, CreateInv
  <2>2. child'[u] = child[u] /\ pc' = pc /\ child' = child
    BY <1>4, Zenon
  <2> QED  BY <1>2, <1>3, <2>1, <2>2, Zenon
<1>9. BlockedInv'
  BY <1>2, <1>3, <1>4, SMTT(30) DEF IInv, BlockedInv
<1>10. BootInv'
  BY <1>2, <1>4, Zenon DEF IInv, BootInv
<1>11. SleepInv'
  <2> SUFFICES ASSUME NEW i \in 1 .. Len(sleep_list) + 1
               PROVE  sleep_left'[sleep_list'[i]] > 0
    BY <1>1, <1>3, <1>4, SMTT(30) DEF SleepInv, IInv, TypeOK
  <2>1. CASE i \in 1 .. Len(sleep_list)
    <3>1. sleep_list[i] \in Thread /\ sleep_list[i] # t /\ sleep_list'[i] = sleep_list[i]
      <4>1. sleep_list[i] \in Members(sleep_list)
        BY <2>1, Zenon DEF Members
      <4> QED  BY <1>2, <1>3, <2>1, <4>1, OnLists, Zenon
    <3> QED  BY <1>1, <1>4, <2>1, <3>1, Zenon DEF IInv, TypeOK, SleepInv
  <2>2. CASE i = Len(sleep_list) + 1
    BY <1>3, <1>4, <2>2, SMTT(30) DEF IInv, TypeOK
  <2> QED  BY <1>3, <2>1, <2>2, SMTT(30) DEF IInv, TypeOK
<1> QED  BY <1>5, <1>6, <1>7, <1>8, <1>9, <1>10, <1>11, Zenon DEF IInv

-----------------------------------------------------------------------------
(* The semaphore operations, by threads and by interrupt handlers. *)

(* sema_down with value 0: the caller joins the wait list and blocks. *)
LEMMA DownWaits ==
  ASSUME IInv, NEW t \in Thread, NEW s \in Sema, Runs(t), Test(t, s), value[s] = 0,
         pc[t] \in {"run", "sema_down", "thread_start_wait"}
  PROVE  IInv'
<1> USE ThreadsAssumption
<1> DEFINE st == [status EXCEPT ![current] = "BLOCKED"]
           w == Append(waiters[s], t)
<1>1. /\ current = t /\ scan = 0 /\ thread_block
      /\ UNCHANGED <<sleep_list, sleep_left, scan, value, priority, idle_thread, child>>
      /\ waiters' = [waiters EXCEPT ![s] = w]
      /\ pc' = [pc EXCEPT ![t] = "sema_down"]
      /\ wait_on' = [wait_on EXCEPT ![t] = s]
  BY SMTT(30) DEF Test, Runs, IInv, TypeOK, intr_context, sleepVars
<1>2. /\ Switched(st)
      /\ t # Idle /\ pc[Main] # "thread_start"
      /\ status'[t] = "BLOCKED"
      /\ \A u \in Thread : status[u] = "BLOCKED" /\ u # Idle => status'[u] = "BLOCKED"
      /\ \A u \in Thread : status'[u] = "BLOCKED" => status[u] = "BLOCKED" \/ u = t
      /\ \A u \in Thread : status'[u] = "NONE" => status[u] = "NONE"
      /\ status'[Main] # "NONE" /\ status'[Idle] # "NONE"
      /\ status[Idle] \in {"READY", "RUNNING"} => status'[Idle] \in {"READY", "RUNNING"}
      /\ t \notin Members(sleep_list)
      /\ \A r \in Sema : t \notin Members(waiters[r])
      /\ \A u \in Thread : child[u] # t
  BY <1>1, BlockStatus, Zenon
<1> HIDE DEF st
<1>3. w \in Seq(Thread) /\ Once(w) /\ Members(w) = Members(waiters[s]) \cup {t}
  <2>1. waiters[s] \in Seq(Thread) /\ Once(waiters[s])
    BY Zenon DEF IInv, TypeOK, ListInv
  <2> QED  BY <1>2, <2>1, PushBack
<1> HIDE DEF w
<1>4. /\ QueueInv' /\ SliceInv' /\ ReadySorted'
      /\ status' \in [Thread -> Status] /\ thread_ticks' \in 0 .. TimeSlice
  BY <1>1, <1>2, SwitchQueue, Zenon
<1>5. TypeOK'
  BY <1>1, <1>2, <1>3, <1>4, Zenon DEF IInv, TypeOK, Status, Switched
<1>6. /\ \A u \in Thread : pc'[u] = IF u = t THEN "sema_down" ELSE pc[u]
      /\ \A u \in Thread : wait_on'[u] = IF u = t THEN s ELSE wait_on[u]
      /\ \A r \in Sema : waiters'[r] = IF r = s THEN w ELSE waiters[r]
  BY <1>1, Zenon DEF IInv, TypeOK
<1>7. ListInv'
  <2>1. Once(sleep_list') /\ \A u \in Members(sleep_list') : status'[u] = "BLOCKED" /\ pc'[u] = "run"
    BY <1>1, <1>2, <1>6, NotIdle, OnLists DEF IInv, ListInv
  <2>2. ASSUME NEW r \in Sema
        PROVE  /\ Once(waiters'[r])
               /\ \A u \in Members(waiters'[r]) :
                    status'[u] = "BLOCKED" /\ pc'[u] = "sema_down" /\ wait_on'[u] = r
    <3>1. CASE r = s
      BY <1>2, <1>3, <1>6, <3>1, NotIdle, OnLists, SMTT(30) DEF IInv, ListInv
    <3>2. CASE r # s
      BY <1>2, <1>6, <3>2, NotIdle, OnLists, SMTT(30) DEF IInv, ListInv
    <3> QED  BY <3>1, <3>2, Zenon
  <2>3. \A u \in Thread : pc'[u] = "sema_down" => wait_on'[u] \in Sema
    BY <1>6, SMTT(30) DEF IInv, ListInv
  <2> QED  BY <2>1, <2>2, <2>3, Zenon DEF ListInv
<1>8. CreateInv'
  <2> SUFFICES ASSUME NEW u \in Thread
               PROVE  CreateInv!(u)'
    BY Zenon DEF CreateInv
  <2>1. status[t] = "RUNNING"
    BY <1>1, Zenon DEF IInv, QueueInv
  <2> QED  BY <1>1, <1>2, <1>6, <2>1 DEF IInv, CreateInv
<1>9. BlockedInv'
  <2> SUFFICES ASSUME NEW u \in Thread, status'[u] = "BLOCKED"
               PROVE  BlockedInv!(u)'
    BY Zenon DEF BlockedInv
  <2>1. CASE u = t
    BY <1>3, <1>6, <2>1, Zenon
  <2>2. CASE u # t
    <3>1. status[u] = "BLOCKED" /\ pc'[u] = pc[u] /\ wait_on'[u] = wait_on[u]
      BY <1>2, <1>6, <2>2, Zenon
    <3>2. pc[u] = "sema_down" /\ u \in Members(waiters[wait_on[u]]) =>
            u \in Members(waiters'[wait_on[u]])
      BY <1>3, <1>6, Zenon DEF IInv, ListInv
    <3> QED  BY <1>1, <3>1, <3>2, Zenon DEF IInv, BlockedInv
  <2> QED  BY <2>1, <2>2, Zenon
<1>10. BootInv'
  BY <1>1, <1>2, <1>6 DEF IInv, BootInv, IdlePc
<1>11. SleepInv'
  BY <1>1, Zenon DEF IInv, SleepInv
<1> QED  BY <1>4, <1>5, <1>7, <1>8, <1>9, <1>10, <1>11, Zenon DEF IInv

(* sema_down with a positive value: the value is taken and the caller goes *)
(* on; so does sema_try_down, which leaves its place in the code alone.    *)
LEMMA DownTakes ==
  ASSUME IInv, NEW t \in Thread, NEW s \in Sema, Runs(t), value[s] > 0,
         pc[t] \in {"run", "sema_down", "thread_start_wait"},
         value' = [value EXCEPT ![s] = @ - 1],
         pc' = [pc EXCEPT ![t] = "run"],
         wait_on' = [wait_on EXCEPT ![t] = NoSema] \/ wait_on' = wait_on,
         UNCHANGED <<waiters, schedVars, sleepVars, priority, idle_thread, child>>
  PROVE  IInv'
<1> USE ThreadsAssumption
<1>1. /\ current = t /\ status[t] = "RUNNING" /\ pc[Main] # "thread_start" /\ t # Idle
      /\ \A u \in Thread : pc'[u] = IF u = t THEN "run" ELSE pc[u]
      /\ \A u \in Thread : u # t => wait_on'[u] = wait_on[u]
      /\ UNCHANGED <<current, status, ready_list, thread_ticks, sleep_list, sleep_left,
                     scan, waiters, priority, idle_thread, child>>
  BY SMTT(30) DEF Runs, IInv, TypeOK, QueueInv, BootInv, IdlePc, schedVars, sleepVars
<1>2. TypeOK'
  <2>1. value[s] - 1 \in Nat /\ value \in [Sema -> Nat]
    BY SMTT(30) DEF IInv, TypeOK
  <2>2. value' \in [Sema -> Nat]
    BY <2>1, Zenon
  <2>3. wait_on' \in [Thread -> Sema \cup {NoSema}]
    BY Zenon DEF IInv, TypeOK
  <2>4. pc' \in [Thread -> {"run", "thread_start", "thread_start_wait", "thread_create",
                            "thread_yield", "sema_down", "idle", "idle_up",
                            "idle_loop", "idle_hlt"}]
    BY Zenon DEF IInv, TypeOK
  <2> QED  BY <1>1, <2>2, <2>3, <2>4, Zenon DEF IInv, TypeOK
<1>3. QueueInv' /\ SliceInv' /\ ReadySorted' /\ SleepInv'
  BY <1>1, ZenonT(30) DEF IInv, QueueInv, SliceInv, ReadySorted, SleepInv, intr_context
<1>4. ListInv'
  BY <1>1, OnLists, SMTT(30) DEF IInv, ListInv
<1>5. CreateInv'
  <2> SUFFICES ASSUME NEW u \in Thread
               PROVE  CreateInv!(u)'
    BY Zenon DEF CreateInv
  <2> QED  BY <1>1 DEF IInv, CreateInv
<1>6. BlockedInv'
  BY <1>1 DEF IInv, BlockedInv
<1>7. BootInv'
  BY <1>1 DEF IInv, BootInv, IdlePc
<1> QED  BY <1>2, <1>3, <1>4, <1>5, <1>6, <1>7, Zenon DEF IInv

(* One evaluation of the loop of sema_down() preserves IInv. *)
LEMMA TestStep ==
  ASSUME IInv, NEW t \in Thread, NEW s \in Sema, Runs(t), Test(t, s),
         pc[t] \in {"run", "sema_down", "thread_start_wait"}
  PROVE  IInv'
<1>1. value[s] \in Nat
  BY Zenon DEF IInv, TypeOK
<1>2. CASE value[s] = 0
  BY <1>2, DownWaits, Zenon
<1>3. CASE value[s] > 0
  BY <1>3, DownTakes DEF Test
<1> QED  BY <1>1, <1>2, <1>3

(* sema_try_down() preserves IInv. *)
LEMMA TryDownStep ==
  ASSUME IInv, NEW t \in Thread, NEW s \in Sema, sema_try_down(t, s)
  PROVE  IInv'
<1>1. /\ Runs(t) /\ pc[t] = "run" /\ value[s] > 0
      /\ value' = [value EXCEPT ![s] = @ - 1]
      /\ wait_on' = wait_on
      /\ UNCHANGED <<waiters, schedVars, sleepVars, priority, idle_thread, child>>
  BY Zenon DEF sema_try_down
<1>2. pc' = [pc EXCEPT ![t] = "run"]
  BY <1>1, Zenon DEF sema_try_down, IInv, TypeOK
<1> QED  BY <1>1, <1>2, DownTakes, Zenon

Pc == {"run", "thread_start", "thread_start_wait", "thread_create", "thread_yield",
       "sema_down", "idle", "idle_up", "idle_loop", "idle_hlt"}

(* sema_up, called by a thread or by an interrupt handler, while the idle  *)
(* thread may move on in its loop.                                         *)
LEMMA UpStep ==
  ASSUME IInv, NEW s \in Sema, Up(s), pc[current] # "thread_start",
         idle_thread' = idle_thread, pc' \in [Thread -> Pc],
         \A u \in Thread \ {Idle} : pc'[u] = pc[u],
         \/ pc'[Idle] = pc[Idle]
         \/ {pc[Idle], pc'[Idle]} \subseteq IdlePc \ {"idle"}
  PROVE  IInv'
<1> USE ThreadsAssumption
<1>1. pc[Main] # "thread_start"
  BY Zenon DEF IInv, BootInv
<1>2. value' \in [Sema -> Nat]
  <2>1. value[s] + 1 \in Nat /\ value \in [Sema -> Nat]
    BY DEF IInv, TypeOK
  <2> QED  BY <2>1, Zenon DEF Up
<1>3. UNCHANGED <<sleep_list, sleep_left, scan, wait_on, priority, child>>
  BY Zenon DEF Up, sleepVars
<1>4. SleepInv'
  BY <1>3, Zenon DEF IInv, SleepInv
<1>5. /\ pc[Idle] \in IdlePc /\ pc'[Idle] \in IdlePc
      /\ pc[Idle] = "idle" <=> pc'[Idle] = "idle"
  BY <1>1, Zenon DEF IInv, BootInv
<1>6. \A u \in Thread : /\ pc'[u] = "sema_down" <=> pc[u] = "sema_down"
                        /\ pc'[u] = "thread_create" <=> pc[u] = "thread_create"
                        /\ pc'[u] = "run" <=> pc[u] = "run"
                        /\ pc'[u] \in IdlePc => u = Idle
                        /\ pc'[u] # "thread_start"
  BY <1>1, <1>5, Zenon DEF IdlePc, IInv, BootInv
<1>7. CASE waiters[s] = <<>>
  <2>1. UNCHANGED <<waiters, current, status, ready_list, thread_ticks>>
    BY <1>7, Zenon DEF Up, schedVars
  <2>2. TypeOK'
    BY <1>2, <1>3, <2>1, Zenon DEF IInv, TypeOK, Pc
  <2>3. QueueInv' /\ SliceInv' /\ ReadySorted'
    BY <1>3, <2>1, Zenon DEF IInv, QueueInv, SliceInv, ReadySorted, intr_context
  <2>4. ListInv' /\ BlockedInv'
    BY <1>3, <1>6, <2>1, OnLists, SMTT(30) DEF IInv, ListInv, BlockedInv
  <2>5. CreateInv'
    BY <1>3, <1>6, <2>1, SMTT(30) DEF IInv, CreateInv
  <2>6. BootInv'
    BY <1>1, <1>5, <1>6, <2>1, Zenon DEF IInv, BootInv
  <2> QED  BY <1>4, <2>2, <2>3, <2>4, <2>5, <2>6, Zenon DEF IInv
<1>8. CASE waiters[s] # <<>>
  <2> DEFINE h == Head(waiters[s])
             w == Tail(waiters[s])
  <2>1. /\ h \in Members(waiters[s]) /\ h \in Thread /\ w \in Seq(Thread)
        /\ Members(w) = Members(waiters[s]) \ {h} /\ Once(w)
    <3>1. waiters[s] \in Seq(Thread) /\ Once(waiters[s])
      BY DEF IInv, TypeOK, ListInv
    <3> QED  BY <1>8, <3>1, PopFront, Zenon
  <2>2. thread_unblock(h) /\ waiters' = [waiters EXCEPT ![s] = w]
    BY <1>8, Zenon DEF Up
  <2> HIDE DEF h, w
  <2>3. /\ status[h] = "BLOCKED" /\ pc[h] = "sema_down" /\ wait_on[h] = s
        /\ h # Idle /\ h # idle_thread
        /\ h \notin Members(sleep_list) /\ \A u \in Thread : child[u] # h
    <3>1. status[h] = "BLOCKED" /\ pc[h] = "sema_down" /\ wait_on[h] = s
      BY <2>1, Zenon DEF IInv, ListInv
    <3>2. h # Idle /\ h # idle_thread
      BY <1>5, <2>1, <3>1, SMTT(30) DEF IInv, TypeOK, IdlePc
    <3>3. h \notin Members(sleep_list)
      BY <3>1, Zenon DEF IInv, ListInv
    <3>4. \A u \in Thread : child[u] # h
      BY <2>1, <3>1 DEF IInv, CreateInv
    <3> QED  BY <3>1, <3>2, <3>3, <3>4, Zenon
  <2>4. /\ QueueInv' /\ ReadySorted'
        /\ status' \in [Thread -> Status] /\ ready_list' \in Seq(Thread)
    BY <1>3, <2>1, <2>2, <2>3, UnblockQueue, Zenon
  <2>5. /\ current' = current /\ thread_ticks' = thread_ticks
        /\ \A u \in Thread : status'[u] = IF u = h THEN "READY" ELSE status[u]
        /\ \A r \in Sema : waiters'[r] = IF r = s THEN w ELSE waiters[r]
    BY <2>2, Zenon DEF thread_unblock, IInv, TypeOK
  <2>6. TypeOK'
    BY <1>2, <1>3, <2>1, <2>2, <2>4, <2>5, Zenon DEF IInv, TypeOK, Status, Pc
  <2>7. SliceInv'
    BY <1>3, <2>5, Zenon DEF IInv, SliceInv, intr_context
  <2>8. ListInv'
    <3>1. Once(sleep_list') /\ \A u \in Members(sleep_list') : status'[u] = "BLOCKED" /\ pc'[u] = "run"
      BY <1>3, <1>6, <2>3, <2>5, OnLists, SMTT(30) DEF IInv, ListInv
    <3>2. ASSUME NEW r \in Sema
          PROVE  /\ Once(waiters'[r])
                 /\ \A u \in Members(waiters'[r]) :
                      status'[u] = "BLOCKED" /\ pc'[u] = "sema_down" /\ wait_on'[u] = r
      <4>1. \A u \in Members(waiters'[r]) : u \in Members(waiters[r]) /\ u \in Thread /\ u # h
        BY <2>1, <2>3, <2>5, OnLists, SMTT(30) DEF IInv, ListInv
      <4>2. Once(waiters'[r])
        BY <2>1, <2>5 DEF IInv, ListInv
      <4>3. \A u \in Members(waiters[r]) :
              status[u] = "BLOCKED" /\ pc[u] = "sema_down" /\ wait_on[u] = r
        BY Zenon DEF IInv, ListInv
      <4> QED  BY <1>3, <1>6, <2>5, <4>1, <4>2, <4>3, ZenonT(30)
    <3>3. \A u \in Thread : pc'[u] = "sema_down" => wait_on'[u] \in Sema
      BY <1>3, <1>6, ZenonT(30) DEF IInv, ListInv
    <3> QED  BY <3>1, <3>2, <3>3, Zenon DEF ListInv
  <2>9. CreateInv'
    <3> SUFFICES ASSUME NEW u \in Thread
                 PROVE  CreateInv!(u)'
      BY Zenon DEF CreateInv
    <3> QED  BY <1>3, <1>6, <2>3, <2>5, SMTT(30) DEF IInv, CreateInv
  <2>10. BlockedInv'
    <3> SUFFICES ASSUME NEW u \in Thread, status'[u] = "BLOCKED"
                 PROVE  BlockedInv!(u)'
      BY Zenon DEF BlockedInv
    <3>1. u # h /\ status[u] = "BLOCKED"
      BY <2>5, Zenon
    <3>2. pc[u] = "sema_down" /\ u \in Members(waiters[wait_on[u]]) =>
            u \in Members(waiters'[wait_on[u]])
      BY <2>1, <2>5, <3>1, Zenon DEF IInv, ListInv
    <3> QED  BY <1>3, <1>6, <3>1, <3>2, Zenon DEF IInv, BlockedInv
  <2>11. BootInv'
    BY <1>1, <1>5, <1>6, <2>3, <2>5, Zenon DEF IInv, BootInv
  <2> QED  BY <1>4, <2>4, <2>6, <2>7, <2>8, <2>9, <2>10, <2>11, Zenon DEF IInv
<1> QED  BY <1>7, <1>8, Zenon

(* sema_up() called by a thread preserves IInv. *)
LEMMA SemaUpStep ==
  ASSUME IInv, NEW t \in Thread, NEW s \in Sema, sema_up(t, s)
  PROVE  IInv'
<1>1. Up(s) /\ pc[current] # "thread_start" /\ idle_thread' = idle_thread /\ pc' = pc
  BY Zenon DEF sema_up, Runs
<1>2. pc' \in [Thread -> Pc]
  BY <1>1, Zenon DEF IInv, TypeOK, Pc
<1> QED  BY <1>1, <1>2, UpStep, Zenon

(* The sema_up() of the idle thread preserves IInv. *)
LEMMA IdleUpStep ==
  ASSUME IInv, idle_up
  PROVE  IInv'
<1> USE ThreadsAssumption
<1>1. /\ Up(IdleStarted) /\ pc[current] # "thread_start" /\ idle_thread' = idle_thread
      /\ pc[Idle] = "idle_up" /\ pc' = [pc EXCEPT ![Idle] = "idle_loop"]
  BY Zenon DEF idle_up, Runs
<1>2. /\ pc' \in [Thread -> Pc]
      /\ \A u \in Thread \ {Idle} : pc'[u] = pc[u]
      /\ {pc[Idle], pc'[Idle]} \subseteq IdlePc \ {"idle"}
  BY <1>1, Zenon DEF IInv, TypeOK, Pc, IdlePc
<1> QED  BY <1>1, <1>2, UpStep, Zenon

(* An interrupt moves nobody but a halted idle thread. *)
LEMMA EndHltPc ==
  ASSUME IInv, EndHlt
  PROVE  /\ pc' \in [Thread -> Pc]
         /\ \A u \in Thread \ {Idle} : pc'[u] = pc[u]
         /\ \/ pc'[Idle] = pc[Idle]
            \/ {pc[Idle], pc'[Idle]} \subseteq IdlePc \ {"idle"}
<1> USE ThreadsAssumption
<1>1. pc \in [Thread -> Pc]
  BY Zenon DEF IInv, TypeOK, Pc
<1>2. CASE current = Idle /\ pc[Idle] = "idle_hlt"
  <2>1. pc' = [pc EXCEPT ![Idle] = "idle_loop"]
    BY <1>1, <1>2, Zenon DEF EndHlt
  <2> QED  BY <1>1, <1>2, <2>1, Zenon DEF Pc, IdlePc
<1>3. CASE ~(current = Idle /\ pc[Idle] = "idle_hlt")
  <2>1. pc' = pc
    BY <1>1, <1>3, Zenon DEF EndHlt
  <2> QED  BY <1>1, <2>1, Zenon
<1> QED  BY <1>2, <1>3, Zenon

(* sema_up() called by an interrupt handler preserves IInv. *)
LEMMA IntrUpStep ==
  ASSUME IInv, NEW s \in IntrSema, intr_sema_up(s)
  PROVE  IInv'
<1>1. /\ s \in Sema /\ Up(s) /\ pc[current] # "thread_start" /\ idle_thread' = idle_thread
      /\ EndHlt
  BY ThreadsAssumption, Zenon DEF intr_sema_up, IntrOn
<1> QED  BY <1>1, EndHltPc, UpStep, Zenon

-----------------------------------------------------------------------------
(* The idle thread and the start of the system. *)

(* The first step of the idle thread preserves IInv. *)
LEMMA IdleStartStep ==
  ASSUME IInv, idle_start
  PROVE  IInv'
<1> USE ThreadsAssumption
<1>1. /\ current = Idle /\ pc[Idle] = "idle" /\ status[Idle] = "RUNNING"
      /\ pc[Main] # "thread_start"
      /\ idle_thread' = Idle
      /\ pc' = [pc EXCEPT ![Idle] = "idle_up"]
      /\ \A u \in Thread : pc'[u] = IF u = Idle THEN "idle_up" ELSE pc[u]
      /\ UNCHANGED <<current, status, ready_list, thread_ticks, sleep_list, sleep_left,
                     scan, value, waiters, wait_on, priority, child>>
  BY Zenon DEF idle_start, Runs, IInv, TypeOK, QueueInv, BootInv, schedVars, sleepVars, semaVars
<1>2. TypeOK'
  BY <1>1, Zenon DEF IInv, TypeOK
<1>3. idle_thread = NoThread
  BY <1>1, Zenon DEF IInv, BootInv, TypeOK
<1>4. QueueInv'
  BY <1>1, <1>3, Zenon DEF IInv, QueueInv
<1>5. SliceInv' /\ ReadySorted' /\ SleepInv'
  BY <1>1, Zenon DEF IInv, SliceInv, ReadySorted, SleepInv, intr_context
<1>6. ListInv'
  BY <1>1, OnLists, SMTT(30) DEF IInv, ListInv
<1>7. CreateInv'
  <2> SUFFICES ASSUME NEW u \in Thread
               PROVE  CreateInv!(u)'
    BY Zenon DEF CreateInv
  <2> QED  BY <1>1 DEF IInv, CreateInv
<1>8. BlockedInv'
  BY <1>1, <1>3, Zenon DEF IInv, BlockedInv
<1>9. BootInv'
  BY <1>1 DEF IInv, BootInv, IdlePc
<1> QED  BY <1>2, <1>4, <1>5, <1>6, <1>7, <1>8, <1>9, Zenon DEF IInv

(* The thread_block() of the idle thread preserves IInv. *)
LEMMA IdleBlockStep ==
  ASSUME IInv, idle_block
  PROVE  IInv'
<1> USE ThreadsAssumption
<1> DEFINE st == [status EXCEPT ![current] = "BLOCKED"]
<1>1. /\ current = Idle /\ pc[Idle] = "idle_loop" /\ thread_block
      /\ pc' = [pc EXCEPT ![Idle] = "idle_hlt"]
      /\ UNCHANGED <<sleepVars, semaVars, priority, idle_thread, child>>
  BY Zenon DEF idle_block, Runs
<1>2. pc[Main] # "thread_start" /\ idle_thread = Idle
  BY <1>1, Zenon DEF IInv, BootInv, TypeOK
<1>3. Switched(st)
  BY <1>1, Block, Zenon
<1>4. /\ st[current] = "BLOCKED"
      /\ \A u \in Thread \ {current} : st[u] = status[u]
      /\ \A u \in Thread : pc'[u] = IF u = Idle THEN "idle_hlt" ELSE pc[u]
  BY <1>1, Zenon DEF IInv, TypeOK
<1> HIDE DEF st
<1>5. /\ QueueInv' /\ SliceInv' /\ ReadySorted'
      /\ status' \in [Thread -> Status] /\ thread_ticks' \in 0 .. TimeSlice
  BY <1>1, <1>3, SwitchQueue, Zenon
<1>6. ListInv' /\ CreateInv' /\ BlockedInv'
  BY <1>1, <1>2, <1>3, <1>4, SwitchLists DEF sleepVars, semaVars
<1>7. TypeOK'
  BY <1>1, <1>3, <1>5, Zenon DEF IInv, TypeOK, Status, Switched, sleepVars, semaVars
<1>8. SleepInv'
  BY <1>1, Zenon DEF IInv, SleepInv, sleepVars
<1>9. status'[Main] # "NONE" /\ status'[Idle] # "NONE"
  BY <1>1, <1>3, <1>4, ZenonT(30) DEF IInv, BootInv, Switched
<1>10. BootInv'
  BY <1>1, <1>2, <1>4, <1>9 DEF IInv, BootInv, IdlePc
<1> QED  BY <1>5, <1>6, <1>7, <1>8, <1>10, Zenon DEF IInv

(* thread_start(): main and idle are put on the run queue, which was empty *)
(* and which nobody else is on, and the first of them runs.                *)
LEMMA StartSwitch ==
  ASSUME IInv, thread_start
  PROVE  /\ Runnable(list_insert_ordered(<<Idle>>, Main, priority),
                     [status EXCEPT ![Idle] = "READY", ![Main] = "READY"])
         /\ Switched([status EXCEPT ![Idle] = "READY", ![Main] = "READY"])
         /\ idle_thread = NoThread /\ ready_list = <<>>
         /\ Members(list_insert_ordered(<<Idle>>, Main, priority)) = {Idle, Main}
<1> USE ThreadsAssumption
<1> DEFINE st == [status EXCEPT ![Idle] = "READY", ![Main] = "READY"]
           rl == list_insert_ordered(<<Idle>>, Main, priority)
<1>1. /\ current = Main /\ pc[Main] = "thread_start" /\ scan = 0
      /\ schedule(rl, st)
      /\ pc' = [pc EXCEPT ![Main] = "thread_start_wait", ![Idle] = "idle"]
      /\ UNCHANGED <<sleepVars, semaVars, priority, idle_thread, child>>
  BY DEF thread_start, Runs, intr_context, IInv, TypeOK
<1>2. /\ idle_thread = NoThread /\ ready_list = <<>> /\ status[Idle] = "NONE"
      /\ status[Main] = "RUNNING" /\ pc[Idle] = "run"
  BY <1>1, Zenon DEF IInv, BootInv, QueueInv, CreateInv
<1>3. /\ st \in [Thread -> Status] /\ st[Idle] = "READY" /\ st[Main] = "READY"
      /\ \A u \in Thread \ {Idle, Main} : st[u] = status[u]
      /\ \A u \in Thread : pc'[u] = IF u = Main THEN "thread_start_wait"
                                    ELSE IF u = Idle THEN "idle" ELSE pc[u]
  BY <1>1, Zenon DEF IInv, TypeOK, Status
<1>4. /\ rl \in Seq(Thread) /\ rl # <<>> /\ Once(rl) /\ Sorted(rl, priority)
      /\ Members(rl) = {Idle, Main}
  <2>1. priority \in [Thread -> Int]
    BY DEF IInv, TypeOK, Priority
  <2> QED  BY <2>1, InsertIntoOne
<1> HIDE DEF st, rl
<1>5. Runnable(rl, st)
  <2>1. Members(<<>>) = {}
    BY DEF Members
  <2>2. \A u \in Thread \ {Idle, Main} : status[u] # "READY" /\ status[u] # "RUNNING"
                                        /\ status[u] # "DYING"
    BY <1>1, <1>2, <2>1, Zenon DEF IInv, QueueInv
  <2> QED  BY <1>2, <1>3, <1>4, <2>2 DEF Runnable
<1>6. Switched(st)
  BY <1>1, <1>2, <1>5, Schedule, Zenon
<1> QED  BY <1>2, <1>4, <1>5, <1>6, Zenon DEF st, rl

(* thread_start() preserves IInv. *)
LEMMA ThreadStartStep ==
  ASSUME IInv, thread_start
  PROVE  IInv'
<1> USE ThreadsAssumption
<1> DEFINE st == [status EXCEPT ![Idle] = "READY", ![Main] = "READY"]
           rl == list_insert_ordered(<<Idle>>, Main, priority)
<1>1. /\ current = Main /\ pc[Main] = "thread_start" /\ scan = 0
      /\ schedule(rl, st)
      /\ pc' = [pc EXCEPT ![Main] = "thread_start_wait", ![Idle] = "idle"]
      /\ UNCHANGED <<sleepVars, semaVars, priority, idle_thread, child>>
  BY DEF thread_start, Runs, intr_context, IInv, TypeOK
<1>2. /\ idle_thread = NoThread /\ ready_list = <<>> /\ status[Idle] = "NONE"
      /\ status[Main] = "RUNNING" /\ pc[Idle] = "run"
  BY <1>1, Zenon DEF IInv, BootInv, QueueInv, CreateInv
<1>3. /\ st \in [Thread -> Status] /\ st[Idle] = "READY" /\ st[Main] = "READY"
      /\ \A u \in Thread \ {Idle, Main} : st[u] = status[u]
      /\ \A u \in Thread : pc'[u] = IF u = Main THEN "thread_start_wait"
                                    ELSE IF u = Idle THEN "idle" ELSE pc[u]
  BY <1>1, Zenon DEF IInv, TypeOK, Status
<1>4. Members(rl) = {Idle, Main}
  BY StartSwitch, Zenon
<1>5. Runnable(rl, st)
  BY StartSwitch, Zenon
<1>6. Switched(st)
  BY StartSwitch, Zenon
<1> HIDE DEF st, rl
<1>7. /\ QueueInv' /\ SliceInv' /\ ReadySorted'
      /\ status' \in [Thread -> Status] /\ thread_ticks' \in 0 .. TimeSlice
  BY <1>1, <1>6, SwitchQueue, Zenon
<1>8. TypeOK'
  BY <1>1, <1>6, <1>7, Zenon DEF IInv, TypeOK, Status, Switched, sleepVars, semaVars
<1>9. /\ \A u \in Thread : status'[u] = "BLOCKED" <=> status[u] = "BLOCKED"
      /\ \A u \in Thread \ {Idle, Main} : status'[u] = status[u]
      /\ status'[Idle] \in {"READY", "RUNNING"} /\ status'[Main] \in {"READY", "RUNNING"}
  <2>1. current' \in {Idle, Main}
    BY <1>2, <1>3, <1>4, <1>5, <1>6, Zenon DEF Switched, Runnable
  <2> QED  BY <1>1, <1>2, <1>3, <1>6, <2>1, Zenon DEF Switched
<1>10. /\ UNCHANGED <<sleep_list, sleep_left, scan, waiters, wait_on, idle_thread, child>>
       /\ \A u \in Thread : status[u] = "BLOCKED" => u \notin {Idle, Main} /\ pc'[u] = pc[u]
       /\ \A u \in Thread :
            /\ pc'[u] = "sema_down" => pc[u] = "sema_down"
            /\ pc'[u] = "thread_create" <=> pc[u] = "thread_create"
            /\ pc'[u] \in IdlePc => u = Idle
            /\ pc'[u] # "thread_start"
  <2>1. UNCHANGED <<sleep_list, sleep_left, scan, waiters, wait_on, idle_thread, child>>
    BY <1>1, Zenon DEF sleepVars, semaVars
  <2>2. \A u \in Thread : status[u] = "BLOCKED" => u \notin {Idle, Main} /\ pc'[u] = pc[u]
    BY <1>2, <1>3, Zenon
  <2>3. \A u \in Thread : /\ pc[u] \in IdlePc => u = Idle
                          /\ pc[u] = "thread_start" => u = Main
    BY Zenon DEF IInv, BootInv
  <2>4. \A u \in Thread :
            /\ pc'[u] = "sema_down" => pc[u] = "sema_down"
            /\ pc'[u] = "thread_create" <=> pc[u] = "thread_create"
            /\ pc'[u] \in IdlePc => u = Idle
            /\ pc'[u] # "thread_start"
    <3>1. pc[Main] = "thread_start" /\ pc[Idle] = "run"
      BY <1>1, <1>2, Zenon
    <3> QED  BY <1>3, <2>3, <3>1, Zenon DEF IdlePc
  <2> QED  BY <2>1, <2>2, <2>4, Zenon
<1>11. ListInv'
  <2>1. Once(sleep_list') /\ \A u \in Members(sleep_list') : status'[u] = "BLOCKED" /\ pc'[u] = "run"
    BY <1>9, <1>10, OnLists, SMTT(30) DEF IInv, ListInv
  <2>2. \A s \in Sema :
          /\ Once(waiters'[s])
          /\ \A u \in Members(waiters'[s]) :
               status'[u] = "BLOCKED" /\ pc'[u] = "sema_down" /\ wait_on'[u] = s
    BY <1>9, <1>10, OnLists, SMTT(30) DEF IInv, ListInv
  <2> QED  BY <1>10, <2>1, <2>2, Zenon DEF IInv, ListInv
<1>12. CreateInv'
  <2> SUFFICES ASSUME NEW u \in Thread
               PROVE  CreateInv!(u)'
    BY Zenon DEF CreateInv
  <2>1. status'[u] = "NONE" => pc'[u] = "run"
    BY <1>3, <1>9 DEF IInv, CreateInv
  <2> QED  BY <1>9, <1>10, <2>1, SMTT(30) DEF IInv, CreateInv
<1>13. BlockedInv' /\ BootInv'
  <2>1. BlockedInv'
    BY <1>9, <1>10 DEF IInv, BlockedInv
  <2>2. pc'[Main] = "thread_start_wait" /\ pc'[Idle] = "idle"
    BY <1>3, Zenon
  <2>3. BootInv'
    BY <1>2, <1>9, <1>10, <2>2, Zenon DEF IInv, BootInv, IdlePc
  <2> QED  BY <2>1, <2>3, Zenon
<1>14. SleepInv'
  BY <1>1, Zenon DEF IInv, SleepInv, sleepVars
<1> QED  BY <1>7, <1>8, <1>11, <1>12, <1>13, <1>14, Zenon DEF IInv

-----------------------------------------------------------------------------

(* The entry of the timer interrupt preserves IInv. *)
LEMMA TimerStep ==
  ASSUME IInv, timer_interrupt
  PROVE  IInv'
<1> USE ThreadsAssumption
<1>1. /\ pc[current] # "thread_start" /\ scan = 0 /\ scan' = 1
      /\ thread_ticks' = thread_ticks + 1
      /\ sleep_left' = [t \in Thread |-> IF t \in Members(sleep_list)
                                         THEN sleep_left[t] - 1 ELSE sleep_left[t]]
      /\ UNCHANGED <<current, status, ready_list, sleep_list, value, waiters, wait_on,
                     priority, idle_thread, child>>
  BY DEF timer_interrupt, IntrOn, intr_context, IInv, TypeOK, semaVars
<1>2. /\ pc' \in [Thread -> Pc]
      /\ \A u \in Thread \ {Idle} : pc'[u] = pc[u]
      /\ \/ pc'[Idle] = pc[Idle]
         \/ {pc[Idle], pc'[Idle]} \subseteq IdlePc \ {"idle"}
  BY EndHltPc, Zenon DEF timer_interrupt
<1>3. pc[Main] # "thread_start"
  BY <1>1, Zenon DEF IInv, BootInv
<1>4. /\ pc[Idle] \in IdlePc /\ pc'[Idle] \in IdlePc
      /\ pc[Idle] = "idle" <=> pc'[Idle] = "idle"
  BY <1>2, <1>3, Zenon DEF IInv, BootInv
<1>5. \A u \in Thread : /\ pc'[u] = "sema_down" <=> pc[u] = "sema_down"
                        /\ pc'[u] = "thread_create" <=> pc[u] = "thread_create"
                        /\ pc'[u] = "run" <=> pc[u] = "run"
                        /\ pc'[u] \in IdlePc => u = Idle
                        /\ pc'[u] # "thread_start"
  BY <1>2, <1>3, <1>4, Zenon DEF IdlePc, IInv, BootInv
<1>6. SliceInv' /\ thread_ticks' \in 0 .. TimeSlice
  BY <1>1 DEF IInv, TypeOK, SliceInv, intr_context
<1>7. sleep_left' \in [Thread -> Int]
  BY <1>1 DEF IInv, TypeOK
<1>8. TypeOK'
  BY <1>1, <1>2, <1>6, <1>7, Zenon DEF IInv, TypeOK, Pc
<1>9. QueueInv' /\ ReadySorted'
  BY <1>1, Zenon DEF IInv, QueueInv, ReadySorted
<1>10. SleepInv'
  BY <1>1, SMTT(30) DEF IInv, SleepInv, TypeOK
<1>11. ListInv' /\ BlockedInv'
  BY <1>1, <1>5, OnLists, SMTT(30) DEF IInv, ListInv, BlockedInv
<1>12. CreateInv'
  BY <1>1, <1>5, ZenonT(30) DEF IInv, CreateInv
<1>13. BootInv'
  BY <1>1, <1>3, <1>4, <1>5, Zenon DEF IInv, BootInv
<1> QED  BY <1>6, <1>8, <1>9, <1>10, <1>11, <1>12, <1>13, Zenon DEF IInv

(* One step of thread_wakeup() along sleep_list preserves IInv. *)
LEMMA WakeupStep ==
  ASSUME IInv, wakeup_sleep_thread
  PROVE  IInv'
<1> USE ThreadsAssumption
<1> DEFINE t == sleep_list[scan]
<1>1. /\ scan \in 1 .. Len(sleep_list) /\ sleep_list \in Seq(Thread) /\ Len(sleep_list) \in Nat
      /\ UNCHANGED <<sleep_left, value, waiters, wait_on, priority, idle_thread, pc, child>>
  BY DEF wakeup_sleep_thread, IInv, TypeOK, semaVars
<1>2. t \in Members(sleep_list) /\ t \in Thread /\ sleep_left[t] \in Int
  <2>1. t \in Members(sleep_list)
    BY <1>1, Zenon DEF Members
  <2> QED  BY <2>1, OnLists, Zenon DEF IInv, TypeOK
<1>3. pc[Main] # "thread_start"
  <2>1. intr_context
    BY <1>1 DEF intr_context
  <2> QED  BY <2>1, Zenon DEF IInv, BootInv
<1>4. CASE sleep_left[t] > 0
  <2>1. scan' = scan + 1 /\ UNCHANGED <<current, status, ready_list, thread_ticks, sleep_list>>
    BY <1>2, <1>4 DEF wakeup_sleep_thread, schedVars
  <2>2. SleepInv'
    <3> SUFFICES ASSUME NEW i \in 1 .. Len(sleep_list), i < scan + 1
                 PROVE  sleep_left[sleep_list[i]] > 0
      BY <1>1, <2>1 DEF SleepInv, IInv
    <3>1. CASE i = scan
      BY <1>4, <3>1, Zenon
    <3>2. CASE i < scan
      BY <3>2, Zenon DEF IInv, SleepInv
    <3> QED  BY <1>1, <3>1, <3>2
  <2>3. TypeOK' /\ SliceInv'
    BY <1>1, <2>1 DEF IInv, TypeOK, SliceInv, intr_context
  <2>4. QueueInv' /\ ReadySorted' /\ ListInv' /\ CreateInv' /\ BlockedInv'
    <3>1. /\ status' = status /\ ready_list' = ready_list /\ sleep_list' = sleep_list /\ current' = current
          /\ waiters' = waiters /\ wait_on' = wait_on /\ priority' = priority /\ idle_thread' = idle_thread
          /\ pc' = pc /\ child' = child
      BY <1>1, <2>1, Zenon
    <3>2. QueueInv' /\ ReadySorted'
      BY <3>1, Zenon DEF IInv, QueueInv, ReadySorted
    <3>3. ListInv'
      BY <3>1, Zenon DEF IInv, ListInv
    <3>4. CreateInv' /\ BlockedInv'
      BY <3>1, Zenon DEF IInv, CreateInv, BlockedInv
    <3> QED  BY <3>2, <3>3, <3>4, Zenon
  <2>5. BootInv'
    BY <1>1, <1>3, <2>1, Zenon DEF IInv, BootInv
  <2> QED  BY <2>2, <2>3, <2>4, <2>5, Zenon DEF IInv
<1>5. CASE sleep_left[t] <= 0
  <2> DEFINE l == list_remove(sleep_list, scan)
  <2>1. /\ scan' = scan /\ sleep_list' = l /\ thread_unblock(t)
    BY <1>2, <1>5 DEF wakeup_sleep_thread
  <2>2. /\ l \in Seq(Thread) /\ Len(l) = Len(sleep_list) - 1
        /\ \A i \in 1 .. Len(sleep_list) - 1 :
             l[i] = IF i < scan THEN sleep_list[i] ELSE sleep_list[i + 1]
    BY <1>1, RemoveElements
  <2>3. Members(l) = Members(sleep_list) \ {t} /\ Once(l)
    <3>1. Once(sleep_list)
      BY Zenon DEF IInv, ListInv
    <3> QED  BY <1>1, <3>1, RemoveMembers, Zenon
  <2> HIDE DEF l, t
  <2>4. /\ status[t] = "BLOCKED" /\ pc[t] = "run" /\ t # Idle /\ t # idle_thread
        /\ \A u \in Thread : child[u] # t
        /\ \A s \in Sema : t \notin Members(waiters[s])
    <3>1. status[t] = "BLOCKED" /\ pc[t] = "run"
      BY <1>2, Zenon DEF IInv, ListInv
    <3>2. t # Idle /\ t # idle_thread
      BY <1>2, NotIdle, Zenon DEF IInv, TypeOK
    <3>3. \A u \in Thread : child[u] # t
      BY <1>2, SMTT(30) DEF IInv, CreateInv
    <3>4. \A s \in Sema : t \notin Members(waiters[s])
      BY <3>1, Zenon DEF IInv, ListInv
    <3> QED  BY <3>1, <3>2, <3>3, <3>4, Zenon
  <2>5. /\ QueueInv' /\ ReadySorted'
        /\ status' \in [Thread -> Status] /\ ready_list' \in Seq(Thread)
    BY <1>1, <1>2, <2>1, <2>4, UnblockQueue, Zenon
  <2>6. /\ current' = current /\ thread_ticks' = thread_ticks
        /\ \A u \in Thread : status'[u] = IF u = t THEN "READY" ELSE status[u]
    BY <2>1, Zenon DEF thread_unblock, IInv, TypeOK
  <2>7. TypeOK' /\ SliceInv'
    BY <1>1, <2>1, <2>2, <2>5, <2>6, Zenon DEF IInv, TypeOK, SliceInv, intr_context, Status
  <2>8. SleepInv'
    <3>1. scan' <= Len(sleep_list') + 1
      BY <1>1, <2>1, <2>2
    <3>2. ASSUME NEW i \in 1 .. Len(l), i < scan
          PROVE  sleep_left[l[i]] > 0
      <4>1. i \in 1 .. Len(sleep_list) /\ l[i] = sleep_list[i]
        BY <1>1, <2>2, <3>2, SMTT(30)
      <4> QED  BY <3>2, <4>1, Zenon DEF IInv, SleepInv
    <3> QED  BY <1>1, <2>1, <3>1, <3>2, SMTT(30) DEF SleepInv
  <2>9. ListInv'
    <3>1. Once(sleep_list') /\ \A u \in Members(sleep_list') : status'[u] = "BLOCKED" /\ pc'[u] = "run"
      BY <1>1, <2>1, <2>3, <2>6, OnLists, Zenon DEF IInv, ListInv
    <3>2. \A s \in Sema :
            /\ Once(waiters'[s])
            /\ \A u \in Members(waiters'[s]) :
                 status'[u] = "BLOCKED" /\ pc'[u] = "sema_down" /\ wait_on'[u] = s
      BY <1>1, <2>4, <2>6, OnLists, SMTT(30) DEF IInv, ListInv
    <3> QED  BY <1>1, <3>1, <3>2, Zenon DEF IInv, ListInv
  <2>10. CreateInv'
    <3> SUFFICES ASSUME NEW u \in Thread
                 PROVE  CreateInv!(u)'
      BY Zenon DEF CreateInv
    <3> QED  BY <1>1, <2>1, <2>3, <2>4, <2>6, SMTT(30) DEF IInv, CreateInv
  <2>11. BlockedInv'
    BY <1>1, <2>1, <2>3, <2>6, Zenon DEF IInv, BlockedInv
  <2>12. BootInv'
    BY <1>1, <1>3, <2>4, <2>6, Zenon DEF IInv, BootInv
  <2> QED  BY <2>5, <2>7, <2>8, <2>9, <2>10, <2>11, <2>12, Zenon DEF IInv
<1> QED  BY <1>2, <1>4, <1>5, SMTT(30)

(* The return of the timer interrupt preserves IInv. *)
LEMMA IntrReturnStep ==
  ASSUME IInv, intr_return
  PROVE  IInv'
<1> USE ThreadsAssumption
<1>1. /\ scan > Len(sleep_list) /\ scan' = 0
      /\ UNCHANGED <<sleep_list, sleep_left, value, waiters, wait_on, priority,
                     idle_thread, pc, child>>
      /\ sleep_list \in Seq(Thread) /\ Len(sleep_list) \in Nat /\ scan \in Nat
  BY DEF intr_return, semaVars, IInv, TypeOK
<1>2. pc[Main] # "thread_start"
  BY <1>1, SMTT(30) DEF IInv, BootInv, intr_context
<1>3. SleepInv'
  <2>1. \A i \in 1 .. Len(sleep_list) : sleep_left[sleep_list[i]] > 0
    BY <1>1 DEF IInv, SleepInv
  <2> QED  BY <1>1, <2>1 DEF SleepInv
<1>4. CASE ~yield_on_return
  <2>1. UNCHANGED <<current, status, ready_list, thread_ticks>>
    BY <1>4, Zenon DEF intr_return, schedVars
  <2>2. TypeOK' /\ SliceInv'
    BY <1>1, <1>4, <2>1, SMTT(30) DEF IInv, TypeOK, SliceInv, intr_context, yield_on_return
  <2>3. QueueInv' /\ ReadySorted' /\ ListInv' /\ CreateInv' /\ BlockedInv'
    BY <1>1, <2>1, SMTT(30) DEF IInv, QueueInv, ReadySorted, ListInv, CreateInv, BlockedInv
  <2>4. BootInv'
    BY <1>1, <1>2, <2>1, Zenon DEF IInv, BootInv
  <2> QED  BY <1>3, <2>2, <2>3, <2>4, Zenon DEF IInv
<1>5. CASE yield_on_return
  <2> DEFINE st == [status EXCEPT ![current] = "READY"]
  <2>1. Switched(st)
    BY <1>5, Yield, Zenon DEF intr_return
  <2>2. /\ st[current] = "READY"
        /\ \A u \in Thread \ {current} : st[u] = status[u]
    BY Zenon DEF IInv, TypeOK
  <2> HIDE DEF st
  <2>3. /\ QueueInv' /\ SliceInv' /\ ReadySorted'
        /\ status' \in [Thread -> Status] /\ thread_ticks' \in 0 .. TimeSlice
    BY <1>1, <2>1, SwitchQueue, Zenon
  <2>4. ListInv' /\ CreateInv' /\ BlockedInv'
    BY <1>1, <2>1, <2>2, SwitchLists, Zenon
  <2>5. TypeOK'
    BY <1>1, <2>1, <2>3, Zenon DEF IInv, TypeOK, Status, Switched
  <2>6. /\ status'[Main] # "NONE" /\ status'[Idle] # "NONE"
        /\ status[Idle] \in {"READY", "RUNNING"} => status'[Idle] \in {"READY", "RUNNING"}
    BY <1>2, <2>1, <2>2, Zenon DEF IInv, BootInv, Switched
  <2>7. BootInv'
    BY <1>1, <1>2, <2>6, Zenon DEF IInv, BootInv
  <2> QED  BY <1>3, <2>3, <2>4, <2>5, <2>7, Zenon DEF IInv
<1> QED  BY <1>4, <1>5, Zenon

(* Every step of the thread system preserves IInv. *)
LEMMA NextIInv == IInv /\ [Next]_vars => IInv'
<1> SUFFICES ASSUME IInv, [Next]_vars
             PROVE  IInv'
  BY Zenon
<1> USE ThreadsAssumption
<1>1. CASE thread_start
  BY <1>1, ThreadStartStep, Zenon
<1>2. CASE IdleStep
  BY <1>2, IdleStartStep, IdleUpStep, IdleBlockStep, Zenon DEF IdleStep
<1>3. ASSUME NEW t \in Thread, Client(t)
      PROVE  IInv'
  <2>1. CASE \E c \in Thread, p \in Priority : thread_create(t, c, p)
    BY <2>1, CreateStep, Zenon
  <2>2. CASE \E p \in Priority : thread_set_priority(t, p)
    BY <2>2, SetPriorityStep, Zenon
  <2>3. CASE \E n \in 1 .. MaxSleep : timer_sleep(t, n)
    BY <2>3, SleepStep, Zenon
  <2>4. ASSUME NEW s \in Sema, sema_down(t, s)
        PROVE  IInv'
    <3>1. Runs(t) /\ Test(t, s) /\ pc[t] \in {"run", "sema_down", "thread_start_wait"}
      BY <2>4, Zenon DEF sema_down
    <3> QED  BY <3>1, TestStep, Zenon
  <2>5. ASSUME NEW s \in Sema, sema_try_down(t, s)
        PROVE  IInv'
    BY <2>5, TryDownStep, Zenon
  <2>6. ASSUME NEW s \in Sema, sema_up(t, s)
        PROVE  IInv'
    BY <2>6, SemaUpStep, Zenon
  <2>7. CASE thread_exit(t)
    BY <2>7, ExitStep, Zenon
  <2> QED  BY <1>3, <2>1, <2>2, <2>3, <2>4, <2>5, <2>6, <2>7, Zenon DEF Client
<1>4. ASSUME NEW t \in Thread, Kernel(t)
      PROVE  IInv'
  <2>1. CASE thread_create_unblock(t)
    BY <2>1, CreateUnblockStep, Zenon
  <2>2. CASE yield(t)
    BY <2>2, YieldStep, Zenon
  <2>3. CASE sema_down_retry(t)
    <3>1. wait_on[t] \in Sema /\ Runs(t) /\ Test(t, wait_on[t]) /\ pc[t] = "sema_down"
      BY <2>3, Zenon DEF sema_down_retry, IInv, ListInv
    <3> QED  BY <3>1, TestStep, Zenon
  <2> QED  BY <1>4, <2>1, <2>2, <2>3, Zenon DEF Kernel
<1>5. ASSUME NEW s \in IntrSema, intr_sema_up(s)
      PROVE  IInv'
  BY <1>5, IntrUpStep, Zenon
<1>6. CASE timer_interrupt
  BY <1>6, TimerStep, Zenon
<1>7. CASE Handler
  BY <1>7, WakeupStep, IntrReturnStep, ZenonT(30) DEF Handler
<1>8. CASE UNCHANGED vars
  <2>1. UNCHANGED <<current, status, ready_list, thread_ticks, sleep_list, sleep_left, scan,
                    value, waiters, wait_on, priority, idle_thread, pc, child>>
    BY <1>8, Zenon DEF vars, schedVars, sleepVars, semaVars
  <2> QED  BY <2>1, SMTT(30) DEF IInv, TypeOK, QueueInv, ListInv, CreateInv, BlockedInv, BootInv,
                       SleepInv, SliceInv, ReadySorted, intr_context
<1> QED  BY <1>1, <1>2, <1>3, <1>4, <1>5, <1>6, <1>7, <1>8, Zenon DEF Next

(* Every reachable state of the thread system satisfies IInv. *)
THEOREM Invariance == Spec => []IInv
BY InitIInv, NextIInv, PTL DEF Spec

(* The variables keep their types; in particular a time slice is never     *)
(* overrun (thread_tick).                                                  *)
THEOREM TypeCorrect == Spec => []TypeOK
<1>1. IInv => TypeOK
  BY Zenon DEF IInv
<1> QED  BY <1>1, Invariance, PTL

(* The run queue and the wait lists exclude each other, so that one `elem' *)
(* per thread is enough and thread_unblock()'s ASSERT holds.               *)
THEOREM ElemIsExclusive == Spec => []ElemExclusive
<1>1. IInv => ElemExclusive
  <2> SUFFICES ASSUME IInv
               PROVE  ElemExclusive
    BY Zenon
  <2>1. Once(ready_list) /\ Once(sleep_list) /\ \A s \in Sema : Once(waiters[s])
    BY Zenon DEF IInv, QueueInv, ListInv
  <2>2. /\ \A t \in Thread : status[t] = "RUNNING" <=> t = current
        /\ \A t \in Members(ready_list) : status[t] = "READY" /\ t # idle_thread
    BY OnLists, Zenon DEF IInv, QueueInv
  <2>3. \A t \in Members(sleep_list) : status[t] = "BLOCKED"
    BY Zenon DEF IInv, ListInv
  <2>4. \A s \in Sema : \A t \in Members(waiters[s]) :
          /\ status[t] = "BLOCKED" /\ t \notin Members(sleep_list)
          /\ \A r \in Sema \ {s} : t \notin Members(waiters[r])
    <3>1. \A s \in Sema : \A t \in Members(waiters[s]) :
            status[t] = "BLOCKED" /\ pc[t] = "sema_down" /\ wait_on[t] = s
      BY Zenon DEF IInv, ListInv
    <3>2. \A t \in Members(sleep_list) : pc[t] = "run"
      BY Zenon DEF IInv, ListInv
    <3> SUFFICES ASSUME NEW s \in Sema, NEW t \in Members(waiters[s])
                 PROVE  /\ status[t] = "BLOCKED" /\ t \notin Members(sleep_list)
                        /\ \A r \in Sema \ {s} : t \notin Members(waiters[r])
      BY Zenon
    <3>3. status[t] = "BLOCKED" /\ pc[t] = "sema_down" /\ wait_on[t] = s
      BY <3>1, Zenon
    <3>4. t \notin Members(sleep_list)
      BY <3>2, <3>3, Zenon
    <3>5. \A r \in Sema \ {s} : t \notin Members(waiters[r])
      BY <3>1, <3>3, Zenon
    <3> QED  BY <3>3, <3>4, <3>5, Zenon
  <2> QED  BY <2>1, <2>2, <2>3, <2>4, Zenon DEF ElemExclusive
<1> QED  BY <1>1, Invariance, PTL

(* Every ready thread is on the run queue and every blocked one is where   *)
(* somebody will unblock it.                                               *)
THEOREM NoThreadIsLost == Spec => []NoThreadLost
<1>1. IInv => NoThreadLost
  <2> SUFFICES ASSUME IInv, NEW t \in Thread
               PROVE  NoThreadLost!(t)
    BY Zenon DEF NoThreadLost
  <2>1. status[t] = "READY" => t \in Members(ready_list) \cup {idle_thread}
    BY Zenon DEF IInv, QueueInv
  <2>2. pc[t] = "sema_down" => wait_on[t] \in Sema
    BY Zenon DEF IInv, ListInv
  <2> QED  BY <2>1, <2>2, Zenon DEF IInv, BlockedInv
<1> QED  BY <1>1, Invariance, PTL

(* The run queue is always in order of priority. *)
THEOREM ReadyIsSorted == Spec => []ReadySorted
<1>1. IInv => ReadySorted
  BY Zenon DEF IInv
<1> QED  BY <1>1, Invariance, PTL

(* No sleeper whose time has come survives the timer's handler. *)
THEOREM NobodyOversleeps == Spec => []NoOversleep
<1>1. IInv => NoOversleep
  <2> SUFFICES ASSUME IInv, ~intr_context, NEW t \in Members(sleep_list)
               PROVE  sleep_left[t] > 0
    BY Zenon DEF NoOversleep
  <2>1. PICK i \in 1 .. Len(sleep_list) : t = sleep_list[i]
    BY Zenon DEF Members
  <2>2. scan = 0
    BY DEF IInv, TypeOK, intr_context
  <2> QED  BY <2>1, <2>2, Zenon DEF IInv, SleepInv
<1> QED  BY <1>1, Invariance, PTL

-----------------------------------------------------------------------------
(* A switch to the first thread of rl keeps to the order rl has. *)
LEMMA SwitchFollows ==
  ASSUME NEW rl \in Seq(Thread), NEW st, Once(rl), schedule(rl, st),
         Follows(ready_list, rl, priority)
  PROVE  Follows(ready_list, ready_list', priority)
<1>1. CASE rl = <<>>
  BY <1>1, Zenon DEF schedule
<1>2. CASE rl # <<>>
  <2>1. Follows(ready_list, Tail(rl), priority)
    BY <1>2, TailFollows, Zenon
  <2> QED  BY <1>2, <2>1, Zenon DEF schedule
<1> QED  BY <1>1, <1>2, Zenon

(* A run queue follows itself, and any run queue follows the empty one. *)
LEMMA FollowsSelf ==
  ASSUME NEW l, NEW pri
  PROVE  Follows(l, l, pri) /\ Follows(<<>>, l, pri)
<1>1. Members(<<>>) = {} /\ \A t, u : ~ Before(<<>>, t, u)
  BY DEF Before, Members
<1> QED  BY <1>1, Zenon DEF Follows

(* thread_yield() leaves a run queue that follows the one before it. *)
LEMMA YieldFollows ==
  ASSUME IInv, thread_yield(priority)
  PROVE  Follows(ready_list, ready_list', priority)
<1> DEFINE st == [status EXCEPT ![current] = "READY"]
           n == list_insert_ordered(ready_list, current, priority)
           rl == IF current = idle_thread THEN ready_list ELSE n
<1>1. /\ current \in Thread /\ ready_list \in Seq(Thread) /\ Once(ready_list)
      /\ Sorted(ready_list, priority) /\ priority \in [Thread -> Int]
      /\ current \notin Members(ready_list)
  BY ThreadsAssumption DEF IInv, TypeOK, QueueInv, ReadySorted, Priority
<1>2. n \in Seq(Thread) /\ Once(n)
  BY <1>1, InsertOrdered, Zenon
<1>3. Follows(ready_list, n, priority)
  BY <1>1, InsertFollows, Zenon
<1>4. schedule(rl, st)
  BY Zenon DEF thread_yield
<1> HIDE DEF n, st
<1>5. rl \in Seq(Thread) /\ Once(rl) /\ Follows(ready_list, rl, priority)
  BY <1>1, <1>2, <1>3, FollowsSelf, Zenon
<1> HIDE DEF rl
<1> QED  BY <1>4, <1>5, SwitchFollows, Zenon

(* So does a thread that leaves the CPU without joining the queue. *)
LEMMA BlockFollows ==
  ASSUME IInv, NEW st, schedule(ready_list, st)
  PROVE  Follows(ready_list, ready_list', priority)
<1>1. ready_list \in Seq(Thread) /\ Once(ready_list)
  BY Zenon DEF IInv, TypeOK, QueueInv
<1> QED  BY <1>1, SwitchFollows, FollowsSelf, Zenon

(* So does thread_unblock(). *)
LEMMA UnblockFollows ==
  ASSUME IInv, NEW u \in Thread, status[u] = "BLOCKED", thread_unblock(u)
  PROVE  Follows(ready_list, ready_list', priority)
<1>1. /\ ready_list \in Seq(Thread) /\ Sorted(ready_list, priority)
      /\ priority \in [Thread -> Int] /\ u \notin Members(ready_list)
  BY ThreadsAssumption, SMTT(30) DEF IInv, TypeOK, QueueInv, ReadySorted, Priority
<1> QED  BY <1>1, InsertFollows, Zenon DEF thread_unblock

-----------------------------------------------------------------------------
(* Each action, for the two properties of the run queue. *)

(* A step that leaves the running thread and the run queue alone. *)
Aside == UNCHANGED <<current, ready_list>>

(* A step that puts a thread on the run queue. *)
Joins ==
  /\ current' = current /\ priority' = priority
  /\ Follows(ready_list, ready_list', priority)

(* A step that switches, or yields to nobody. *)
Switches ==
  /\ priority' = priority /\ Follows(ready_list, ready_list', priority)
  /\ \A t \in Members(ready_list') : priority[t] <= priority[current']
  /\ current' = idle_thread => ready_list' = <<>>

(* sema_up() puts the first waiter, if there is one, on the run queue. *)
LEMMA UpJoins ==
  ASSUME IInv, NEW s \in Sema, Up(s)
  PROVE  Aside \/ Joins
<1>1. CASE waiters[s] = <<>>
  BY <1>1, Zenon DEF Up, schedVars, Aside
<1>2. CASE waiters[s] # <<>>
  <2>1. /\ Head(waiters[s]) \in Members(waiters[s]) /\ Head(waiters[s]) \in Thread
    BY <1>2, PopFront, Zenon DEF IInv, TypeOK, ListInv
  <2>2. status[Head(waiters[s])] = "BLOCKED"
    BY <2>1, Zenon DEF IInv, ListInv
  <2>3. thread_unblock(Head(waiters[s])) /\ priority' = priority
    BY <1>2, Zenon DEF Up
  <2>4. Follows(ready_list, ready_list', priority)
    BY <2>1, <2>2, <2>3, UnblockFollows, Zenon
  <2> QED  BY <2>3, <2>4, Zenon DEF Joins, thread_unblock
<1> QED  BY <1>1, <1>2, Zenon

(* sema_down() takes a unit or blocks. *)
LEMMA TestSwitches ==
  ASSUME IInv, NEW t \in Thread, NEW s \in Sema, Runs(t), Test(t, s),
         pc[t] \in {"run", "sema_down", "thread_start_wait"}
  PROVE  Aside \/ Switches
<1>1. CASE value[s] = 0
  <2>1. thread_block /\ priority' = priority
    BY <1>1 DEF Test
  <2>2. Switched([status EXCEPT ![current] = "BLOCKED"])
    BY <2>1, Block, Zenon DEF Runs
  <2>3. Follows(ready_list, ready_list', priority)
    BY <2>1, BlockFollows, Zenon DEF thread_block
  <2> QED  BY <2>1, <2>2, <2>3, Zenon DEF Switches, Switched
<1>2. CASE value[s] > 0
  <2>1. value[s] # 0
    BY <1>2 DEF IInv, TypeOK
  <2> QED  BY <2>1, Zenon DEF Test, schedVars, Aside
<1>3. value[s] \in Nat
  BY Zenon DEF IInv, TypeOK
<1> QED  BY <1>1, <1>2, <1>3

(* Every step of the thread system is of one of the three kinds. *)
LEMMA QueueStep ==
  ASSUME IInv, [Next]_vars
  PROVE  Aside \/ Joins \/ Switches
<1> USE ThreadsAssumption
<1>1. CASE thread_start
  <2> DEFINE rl == list_insert_ordered(<<Idle>>, Main, priority)
             st == [status EXCEPT ![Idle] = "READY", ![Main] = "READY"]
  <2>1. /\ Runnable(rl, st) /\ Switched(st) /\ ready_list = <<>>
    BY <1>1, StartSwitch, Zenon
  <2>2. schedule(rl, st) /\ priority' = priority
    BY <1>1, Zenon DEF thread_start
  <2> HIDE DEF rl, st
  <2>3. Follows(ready_list, ready_list', priority)
    BY <2>1, FollowsSelf, Zenon
  <2> QED  BY <2>1, <2>2, <2>3, Zenon DEF Switches, Switched
<1>2. CASE idle_start
  BY <1>2, Zenon DEF idle_start, schedVars, Aside
<1>3. CASE idle_up
  BY <1>3, UpJoins, Zenon DEF idle_up
<1>4. CASE idle_block
  <2>1. thread_block /\ priority' = priority /\ pc[current] = "idle_loop"
    BY <1>4, Zenon DEF idle_block, Runs
  <2>2. Switched([status EXCEPT ![current] = "BLOCKED"])
    BY <2>1, Block, Zenon
  <2>3. Follows(ready_list, ready_list', priority)
    BY <2>1, BlockFollows, Zenon DEF thread_block
  <2> QED  BY <2>1, <2>2, <2>3, Zenon DEF Switches, Switched
<1>5. ASSUME NEW t \in Thread, Client(t)
      PROVE  Aside \/ Joins \/ Switches
  <2>1. CASE \E c \in Thread, p \in Priority : thread_create(t, c, p)
    BY <2>1, Zenon DEF thread_create, Aside
  <2>2. CASE \E p \in Priority : thread_set_priority(t, p)
    BY <2>2, Zenon DEF thread_set_priority, schedVars, Aside
  <2>3. ASSUME NEW n \in 1 .. MaxSleep, timer_sleep(t, n)
        PROVE  Switches
    <3>1. thread_block /\ priority' = priority /\ pc[current] = "run"
      BY <2>3, Zenon DEF timer_sleep, Runs
    <3>2. Switched([status EXCEPT ![current] = "BLOCKED"])
      BY <3>1, Block, Zenon
    <3>3. Follows(ready_list, ready_list', priority)
      BY <3>1, BlockFollows, Zenon DEF thread_block
    <3> QED  BY <3>1, <3>2, <3>3, Zenon DEF Switches, Switched
  <2>4. ASSUME NEW s \in Sema, sema_down(t, s)
        PROVE  Aside \/ Switches
    BY <2>4, TestSwitches, Zenon DEF sema_down
  <2>5. CASE \E s \in Sema : sema_try_down(t, s)
    BY <2>5, Zenon DEF sema_try_down, schedVars, Aside
  <2>6. CASE \E s \in Sema : sema_up(t, s)
    BY <2>6, UpJoins, Zenon DEF sema_up
  <2>7. CASE thread_exit(t)
    <3>1. Switched([status EXCEPT ![t] = "DYING"])
      BY <2>7, ExitSwitch, Zenon
    <3>2. Follows(ready_list, ready_list', priority) /\ priority' = priority
      BY <2>7, BlockFollows, Zenon DEF thread_exit
    <3> QED  BY <3>1, <3>2, Zenon DEF Switches, Switched
  <2> QED  BY <1>5, <2>1, <2>2, <2>3, <2>4, <2>5, <2>6, <2>7, Zenon DEF Client
<1>6. ASSUME NEW t \in Thread, thread_create_unblock(t)
      PROVE  Joins
  <2>1. child[t] \in Thread /\ status[child[t]] = "BLOCKED"
    BY <1>6, Zenon DEF thread_create_unblock, IInv, CreateInv
  <2>2. thread_unblock(child[t]) /\ priority' = priority
    BY <1>6, Zenon DEF thread_create_unblock
  <2>3. Follows(ready_list, ready_list', priority)
    BY <2>1, <2>2, UnblockFollows, Zenon
  <2> QED  BY <2>2, <2>3, Zenon DEF Joins, thread_unblock
<1>7. ASSUME thread_yield(priority), priority' = priority
      PROVE  Switches
  BY <1>7, Yield, YieldFollows, Zenon DEF Switches, Switched
<1>8. ASSUME NEW t \in Thread, yield(t)
      PROVE  Switches
  BY <1>7, <1>8, Zenon DEF yield
<1>9. ASSUME NEW t \in Thread, sema_down_retry(t)
      PROVE  Aside \/ Switches
  <2>1. wait_on[t] \in Sema
    BY <1>9, Zenon DEF sema_down_retry, IInv, ListInv
  <2> QED  BY <1>9, <2>1, TestSwitches, Zenon DEF sema_down_retry
<1>10. CASE \E s \in IntrSema : intr_sema_up(s)
  BY <1>10, UpJoins, Zenon DEF intr_sema_up
<1>11. CASE timer_interrupt
  BY <1>11, Zenon DEF timer_interrupt, Aside
<1>12. CASE wakeup_sleep_thread
  <2> DEFINE t == sleep_list[scan]
  <2>1. t \in Members(sleep_list)
    BY <1>12, Zenon DEF wakeup_sleep_thread, Members
  <2>2. t \in Thread /\ status[t] = "BLOCKED"
    BY <2>1, OnLists, Zenon DEF IInv, ListInv
  <2>3. (thread_unblock(t) \/ UNCHANGED schedVars) /\ priority' = priority
    BY <1>12, Zenon DEF wakeup_sleep_thread
  <2> HIDE DEF t
  <2>4. thread_unblock(t) => Follows(ready_list, ready_list', priority)
    BY <2>2, UnblockFollows, Zenon
  <2> QED  BY <2>3, <2>4, Zenon DEF Joins, thread_unblock, schedVars, Aside
<1>13. CASE intr_return
  BY <1>7, <1>13, Zenon DEF intr_return, schedVars, Aside
<1>14. CASE UNCHANGED vars
  BY <1>14, Zenon DEF vars, schedVars, Aside
<1> QED  BY Zenon, <1>1, <1>2, <1>3, <1>4, <1>5, <1>6, <1>8, <1>9, <1>10, <1>11, <1>12, <1>13,
            <1>14 DEF Next, IdleStep, Kernel, Handler

(* next_thread_to_run(): whoever is switched to, by whichever operation,   *)
(* has the highest priority of all that could run, and the idle thread     *)
(* runs only when nobody else can.                                         *)
THEOREM HighestIsDispatched == Spec => DispatchesHighest
<1> DEFINE A == current' # current =>
                  /\ \A t \in Members(ready_list') : priority'[t] <= priority'[current']
                  /\ current' = idle_thread => ready_list' = <<>>
<1>1. IInv /\ [Next]_vars => [A]_vars
  BY QueueStep, Zenon DEF Aside, Joins, Switches
<1>2. DispatchesHighest <=> [][A]_vars
  BY Zenon DEF DispatchesHighest
<1> QED  BY <1>1, <1>2, Invariance, PTL DEF Spec

(* list_insert_ordered() and list_pop_front(): the run queue is first in,  *)
(* first out among threads of one priority, and nobody changes places on   *)
(* it.                                                                     *)
THEOREM TakesTurns == Spec => RoundRobin
<1> DEFINE A == \A t, u \in Members(ready_list') :
                  /\ Before(ready_list, t, u) => Before(ready_list', t, u)
                  /\ (t \in Members(ready_list) /\ u \notin Members(ready_list)
                        /\ priority'[t] = priority'[u]) => Before(ready_list', t, u)
<1>1. IInv /\ [Next]_vars => [A]_vars
  <2> SUFFICES ASSUME IInv, [Next]_vars
               PROVE  A
    BY Zenon
  <2>1. CASE Aside
    BY <2>1, Zenon DEF Aside
  <2>2. CASE Joins \/ Switches
    BY <2>2, Zenon DEF Joins, Switches, Follows
  <2> QED  BY <2>1, <2>2, QueueStep, Zenon
<1>2. RoundRobin <=> [][A]_vars
  BY Zenon DEF RoundRobin
<1> QED  BY <1>1, <1>2, Invariance, PTL DEF Spec

-----------------------------------------------------------------------------
(* The semaphores. *)

(* The threads woken on s: what the refinement mapping gives woken[s]. *)
Woken(s) == {t \in Thread : /\ pc[t] = "sema_down" /\ wait_on[t] = s
                            /\ t \notin Members(waiters[s])}

-----------------------------------------------------------------------------

(* The semaphores of the thread system are those of module Semaphore: what *)
(* is proved there of any schedule holds of this scheduler.                *)
Sem == INSTANCE Semaphore WITH
         woken <- [s \in Sema |-> {t \in Thread : /\ pc[t] = "sema_down"
                                                 /\ wait_on[t] = s
                                                 /\ t \notin Members(waiters[s])}]

(* sema_down, sema_try_down and sema_up lose no unit and no wakeup on this *)
(* scheduler, whoever barges in: every step of a thread or a handler is    *)
(* one of abstract semaphores, where sema_up wakes one thread of those     *)
(* waiting.  Which one it wakes is not said here: see WakesHighest.        *)
ImplementsSemaphore == Sem!SpecOne

(* Module Semaphore means by Members what this module means. *)
LEMMA SameMembers == \A l : Sem!Members(l) = Members(l)
BY Zenon DEF Sem!Members, Members

(* A step that changes no semaphore, and who is inside sema_down of none. *)
LEMMA SemaSame ==
  ASSUME UNCHANGED <<value, waiters, wait_on>>,
         \A u \in Thread : pc'[u] = "sema_down" <=> pc[u] = "sema_down"
  PROVE  UNCHANGED Sem!vars
<1>1. [s \in Sema |-> Woken(s)]' = [s \in Sema |-> Woken(s)]
  BY Zenon DEF Woken
<1> QED  BY <1>1, Zenon DEF Sem!vars, Woken

(* sema_down()'s test is the abstract one, the first time or in a retry. *)
LEMMA TestRefines ==
  ASSUME IInv, NEW t \in Thread, NEW s \in Sema, Runs(t), Test(t, s),
         pc[t] = "sema_down" => wait_on[t] = s
  PROVE  Sem!sema_down(t, s) \/ Sem!sema_down_retry(t, s)
<1> USE ThreadsAssumption
<1> DEFINE W == [r \in Sema |-> Woken(r)]
<1>1. /\ current = t /\ status[t] = "RUNNING" /\ value[s] \in Nat
      /\ waiters \in [Sema -> Seq(Thread)] /\ pc \in [Thread -> Pc]
      /\ wait_on \in [Thread -> Sema \cup {NoSema}]
  BY Zenon DEF Runs, IInv, TypeOK, QueueInv, Pc
<1>2. \A r \in Sema : t \notin Members(waiters[r])
  BY <1>1, Zenon DEF IInv, ListInv
<1>3. W' = [W EXCEPT ![s] = Woken(s) \ {t}]
  <2>1. CASE value[s] = 0
    <3>1. /\ waiters' = [waiters EXCEPT ![s] = Append(waiters[s], t)]
          /\ pc' = [pc EXCEPT ![t] = "sema_down"]
          /\ wait_on' = [wait_on EXCEPT ![t] = s]
      BY <1>1, <2>1, SMTT(30) DEF Test
    <3>2. Members(Append(waiters[s], t)) = Members(waiters[s]) \cup {t}
      BY <1>1, PushBack
    <3>3. \A r \in Sema : Members(waiters'[r]) = IF r = s THEN Members(waiters[s]) \cup {t}
                                                        ELSE Members(waiters[r])
      BY <1>1, <3>1, <3>2, Zenon
    <3>4. \A u \in Thread : /\ pc'[u] = IF u = t THEN "sema_down" ELSE pc[u]
                            /\ wait_on'[u] = IF u = t THEN s ELSE wait_on[u]
      BY <1>1, <3>1, ZenonT(30)
    <3>5. \A r \in Sema : Woken(r)' = IF r = s THEN Woken(s) \ {t} ELSE Woken(r)
      <4> SUFFICES ASSUME NEW r \in Sema, NEW u \in Thread
                   PROVE  u \in Woken(r)' <=> u \in IF r = s THEN Woken(s) \ {t} ELSE Woken(r)
        BY DEF Woken
      <4> QED  BY <3>3, <3>4, SMTT(30) DEF Woken
    <3> QED  BY <3>5, Zenon
  <2>2. CASE value[s] > 0
    <3>1. /\ waiters' = waiters /\ pc' = [pc EXCEPT ![t] = "run"]
          /\ wait_on' = [wait_on EXCEPT ![t] = NoSema]
      BY <1>1, <2>2 DEF Test
    <3>2. \A u \in Thread : /\ pc'[u] = IF u = t THEN "run" ELSE pc[u]
                            /\ u # t => wait_on'[u] = wait_on[u]
      BY <1>1, <3>1, Zenon
    <3>3. \A r \in Sema : Woken(r)' = IF r = s THEN Woken(s) \ {t} ELSE Woken(r)
      <4> SUFFICES ASSUME NEW r \in Sema, NEW u \in Thread
                   PROVE  u \in Woken(r)' <=> u \in IF r = s THEN Woken(s) \ {t} ELSE Woken(r)
        BY DEF Woken
      <4> QED  BY <3>1, <3>2 DEF Woken
    <3> QED  BY <3>3, Zenon
  <2> QED  BY <1>1, <2>1, <2>2
<1>4. /\ \/ /\ value[s] = 0
            /\ waiters' = [waiters EXCEPT ![s] = Append(@, t)]
            /\ UNCHANGED value
         \/ /\ value[s] > 0
            /\ value' = [value EXCEPT ![s] = @ - 1]
            /\ UNCHANGED waiters
  BY Zenon DEF Test
<1>5. W[s] = Woken(s)
  BY Zenon
<1>6. CASE pc[t] = "sema_down"
  <2>1. t \in W[s]
    BY <1>2, <1>5, <1>6, Zenon DEF Woken
  <2>2. Sem!sema_down_retry(t, s)
    BY <1>3, <1>4, <1>5, <2>1, Zenon DEF Sem!sema_down_retry, Sem!Test, Woken
  <2> QED  BY <2>2, Zenon
<1>7. CASE pc[t] # "sema_down"
  <2>1. t \in Sem!Outside
    BY <1>2, <1>7, SameMembers, Zenon DEF Sem!Outside, Sem!Inside
  <2>2. Woken(s) \ {t} = W[s]
    BY <1>5, <1>7, Zenon DEF Woken
  <2>3. Sem!sema_down(t, s)
    BY <1>3, <1>4, <2>1, <2>2, Zenon DEF Sem!sema_down, Sem!Test, Woken
  <2> QED  BY <2>3, Zenon
<1> QED  BY <1>6, <1>7, Zenon

(* sema_up(), from a thread or from an interrupt handler, is the abstract  *)
(* one: the first waiter is woken.                                         *)
LEMMA UpRefines ==
  ASSUME IInv, NEW s \in Sema, Up(s),
         \A u \in Thread : pc'[u] = "sema_down" <=> pc[u] = "sema_down"
  PROVE  Sem!sema_up(s)
<1> DEFINE W == [r \in Sema |-> Woken(r)]
<1>1. /\ value[s] < MaxValue
      /\ value' = [value EXCEPT ![s] = @ + 1]
      /\ wait_on' = wait_on
      /\ waiters \in [Sema -> Seq(Thread)] /\ Once(waiters[s])
  BY Zenon DEF Up, IInv, TypeOK, ListInv
<1>2. CASE waiters[s] = <<>>
  <2>1. waiters' = waiters
    BY <1>2, Zenon DEF Up
  <2>2. W' = W
    BY <1>1, <2>1, Zenon DEF Woken
  <2> QED  BY <1>1, <1>2, <2>1, <2>2, Zenon DEF Sem!sema_up, Woken
<1>3. CASE waiters[s] # <<>>
  <2> DEFINE h == Head(waiters[s])
  <2>1. waiters' = [waiters EXCEPT ![s] = Tail(waiters[s])]
    BY <1>3, Zenon DEF Up
  <2>2. h \in Members(waiters[s]) /\ h \in Thread
        /\ Members(Tail(waiters[s])) = Members(waiters[s]) \ {h}
    BY <1>1, <1>3, PopFront, ZenonT(30)
  <2>3. pc[h] = "sema_down" /\ wait_on[h] = s
    BY <2>2 DEF IInv, ListInv
  <2>4. \A r \in Sema : Members(waiters'[r]) = IF r = s THEN Members(waiters[s]) \ {h}
                                                      ELSE Members(waiters[r])
    BY <1>1, <2>1, <2>2, Zenon
  <2> HIDE DEF h
  <2>5. \A r \in Sema : Woken(r)' = IF r = s THEN Woken(s) \cup {h} ELSE Woken(r)
    <3> SUFFICES ASSUME NEW r \in Sema, NEW u \in Thread
                 PROVE  u \in Woken(r)' <=> u \in IF r = s THEN Woken(s) \cup {h} ELSE Woken(r)
      BY <2>2, SMTT(30) DEF Woken
    <3> QED  BY <1>1, <2>2, <2>3, <2>4, ZenonT(30) DEF Woken
  <2>6. W' = [W EXCEPT ![s] = Woken(s) \cup {h}]
    BY <2>5, Zenon
  <2>7. W[s] = Woken(s)
    BY Zenon
  <2> QED  BY <1>1, <1>3, <2>1, <2>6, <2>7, Zenon DEF Sem!sema_up, Woken, h
<1> QED  BY <1>2, <1>3, Zenon

(* sema_try_down() is the abstract one. *)
LEMMA TryDownRefines ==
  ASSUME NEW t \in Thread, NEW s \in Sema, sema_try_down(t, s)
  PROVE  Sem!sema_try_down(s)
<1>1. /\ value[s] > 0 /\ value' = [value EXCEPT ![s] = @ - 1]
      /\ UNCHANGED <<waiters, wait_on, pc>>
  BY Zenon DEF sema_try_down
<1>2. [r \in Sema |-> Woken(r)]' = [r \in Sema |-> Woken(r)]
  BY <1>1, Zenon DEF Woken
<1> QED  BY <1>1, <1>2, Zenon DEF Sem!sema_try_down, Woken

(* EndHlt moves nobody into or out of sema_down. *)
LEMMA EndHltSame ==
  ASSUME IInv, EndHlt
  PROVE  \A u \in Thread : pc'[u] = "sema_down" <=> pc[u] = "sema_down"
BY EndHltPc, ThreadsAssumption, Zenon DEF IdlePc

(* Every step of the thread system is a step of its semaphores, or leaves  *)
(* them alone.                                                             *)
LEMMA SemaStep ==
  ASSUME IInv, [Next]_vars
  PROVE  [Sem!Next]_(Sem!vars)
<1> USE ThreadsAssumption
<1>0. pc \in [Thread -> Pc] /\ current \in Thread
  BY Zenon DEF IInv, TypeOK, Pc
<1>1. CASE thread_start
  <2>1. pc[Idle] # "sema_down"
    <3>1. status[Idle] = "NONE"
      BY <1>1, Zenon DEF thread_start, IInv, BootInv
    <3> QED  BY <3>1, Zenon DEF IInv, CreateInv
  <2>2. \A u \in Thread : pc'[u] = "sema_down" <=> pc[u] = "sema_down"
    BY <1>0, <1>1, <2>1, Zenon DEF thread_start
  <2> QED  BY <1>1, <2>2, SemaSame, Zenon DEF thread_start, semaVars
<1>2. CASE idle_start
  BY <1>0, <1>2, SemaSame, Zenon DEF idle_start, semaVars
<1>3. CASE idle_up
  <2>1. \A u \in Thread : pc'[u] = "sema_down" <=> pc[u] = "sema_down"
    BY <1>0, <1>3, Zenon DEF idle_up
  <2>2. Sem!sema_up(IdleStarted)
    BY <1>3, <2>1, UpRefines, Zenon DEF idle_up
  <2> QED  BY <2>2, Zenon DEF Sem!Next
<1>4. CASE idle_block
  BY <1>0, <1>4, SemaSame, Zenon DEF idle_block, semaVars
<1>5. ASSUME NEW t \in Thread, Client(t)
      PROVE  [Sem!Next]_(Sem!vars)
  <2>1. CASE \E c \in Thread, p \in Priority : thread_create(t, c, p)
    BY <1>0, <2>1, SemaSame, Zenon DEF thread_create, semaVars
  <2>2. CASE \E p \in Priority : thread_set_priority(t, p)
    BY <1>0, <2>2, SemaSame, Zenon DEF thread_set_priority, semaVars
  <2>3. CASE \E n \in 1 .. MaxSleep : timer_sleep(t, n)
    BY <1>0, <2>3, SemaSame, Zenon DEF timer_sleep, semaVars
  <2>4. ASSUME NEW s \in Sema, sema_down(t, s)
        PROVE  Sem!Next
    <3>1. Sem!sema_down(t, s) \/ Sem!sema_down_retry(t, s)
      BY <2>4, TestRefines, Zenon DEF sema_down
    <3> QED  BY <3>1, Zenon DEF Sem!Next
  <2>5. ASSUME NEW s \in Sema, sema_try_down(t, s)
        PROVE  Sem!Next
    <3>1. Sem!sema_try_down(s)
      BY <2>5, TryDownRefines, Zenon
    <3> QED  BY <3>1, Zenon DEF Sem!Next
  <2>6. ASSUME NEW s \in Sema, sema_up(t, s)
        PROVE  Sem!Next
    <3>1. Sem!sema_up(s)
      BY <2>6, UpRefines, Zenon DEF sema_up
    <3> QED  BY <3>1, Zenon DEF Sem!Next
  <2>7. CASE thread_exit(t)
    BY <2>7, SemaSame, Zenon DEF thread_exit, semaVars
  <2> QED  BY <1>5, <2>1, <2>2, <2>3, <2>4, <2>5, <2>6, <2>7, Zenon DEF Client
<1>6. ASSUME NEW t \in Thread, thread_create_unblock(t)
      PROVE  UNCHANGED Sem!vars
  BY <1>0, <1>6, SemaSame, Zenon DEF thread_create_unblock, semaVars
<1>7. ASSUME NEW t \in Thread, yield(t)
      PROVE  UNCHANGED Sem!vars
  BY <1>0, <1>7, SemaSame, Zenon DEF yield, semaVars
<1>8. ASSUME NEW t \in Thread, sema_down_retry(t)
      PROVE  Sem!Next
  <2>1. PICK s \in Sema : wait_on[t] = s
    BY <1>8, Zenon DEF sema_down_retry, IInv, ListInv
  <2>2. Runs(t) /\ Test(t, s)
    BY <1>8, <2>1, Zenon DEF sema_down_retry
  <2>3. Sem!sema_down(t, s) \/ Sem!sema_down_retry(t, s)
    BY <2>1, <2>2, TestRefines, Zenon
  <2> QED  BY <2>3, Zenon DEF Sem!Next
<1>9. ASSUME NEW s \in IntrSema, intr_sema_up(s)
      PROVE  Sem!Next
  <2>1. s \in Sema /\ Up(s) /\ EndHlt
    BY <1>9, Zenon DEF intr_sema_up
  <2>2. Sem!sema_up(s)
    BY <2>1, EndHltSame, UpRefines, Zenon
  <2> QED  BY <2>1, <2>2, Zenon DEF Sem!Next
<1>10. CASE timer_interrupt
  BY <1>10, EndHltSame, SemaSame, Zenon DEF timer_interrupt, semaVars
<1>11. CASE wakeup_sleep_thread
  BY <1>11, SemaSame, Zenon DEF wakeup_sleep_thread, semaVars
<1>12. CASE intr_return
  BY <1>12, SemaSame, Zenon DEF intr_return, semaVars
<1>13. CASE UNCHANGED vars
  BY <1>13, SemaSame, Zenon DEF vars, semaVars
<1> QED  BY Zenon, <1>1, <1>2, <1>3, <1>4, <1>5, <1>6, <1>7, <1>8, <1>9, <1>10, <1>11, <1>12,
            <1>13 DEF Next, IdleStep, Kernel, Handler

(* The thread system starts with the semaphores sema_init() leaves. *)
LEMMA SemaInit == Init => Sem!Init
<1> SUFFICES ASSUME Init
             PROVE  Sem!Init
  BY Zenon
<1>1. \A t \in Thread : pc[t] # "sema_down"
  BY Zenon DEF Init
<1>2. [s \in Sema |-> Woken(s)] = [s \in Sema |-> {}]
  BY <1>1, Zenon DEF Woken
<1> QED  BY <1>2, Zenon DEF Init, Sem!Init, Woken

(* The semaphores of this scheduler are those of module Semaphore, which   *)
(* wake their waiters in the order of their coming.                        *)
LEMMA IsFifoSemaphore == Spec => Sem!Spec
<1>1. IInv /\ [Next]_vars => [Sem!Next]_(Sem!vars)
  BY SemaStep, Zenon
<1> QED  BY <1>1, SemaInit, Invariance, PTL DEF Spec, Sem!Spec

(* Waking the first waiter is waking one of them. *)
LEMMA FirstIsOne ==
  ASSUME IInv, NEW s \in Sema, Sem!sema_up(s)
  PROVE  Sem!sema_up_one(s)
<1>1. waiters[s] \in Seq(Thread)
  BY Zenon DEF IInv, TypeOK
<1>2. CASE waiters[s] = <<>>
  BY <1>2, Zenon DEF Sem!sema_up, Sem!sema_up_one
<1>3. CASE waiters[s] # <<>>
  <2>1. 1 \in 1 .. Len(waiters[s]) /\ Head(waiters[s]) = waiters[s][1]
    BY <1>1, <1>3
  <2>2. Sem!list_remove(waiters[s], 1) = Tail(waiters[s])
    BY <1>1, <1>3 DEF Sem!list_remove
  <2> QED  BY <1>3, <2>1, <2>2, Zenon DEF Sem!sema_up, Sem!sema_up_one
<1> QED  BY <1>2, <1>3, Zenon

(* sema_down(), sema_try_down() and sema_up() on this scheduler, with its  *)
(* interrupts and its idle thread, implement semaphores of which any       *)
(* thread that is awake may take the next step and sema_up wakes one.      *)
THEOREM IsSemaphore == Spec => ImplementsSemaphore
<1>1. IInv /\ [Sem!Next]_(Sem!vars) => [Sem!NextOne]_(Sem!vars)
  BY FirstIsOne, Zenon DEF Sem!Next, Sem!NextOne
<1> QED  BY <1>1, IsFifoSemaphore, Invariance, PTL DEF ImplementsSemaphore, Sem!Spec, Sem!SpecOne

(* What is proved of module Semaphore, read under the same mapping. *)
SP == INSTANCE SemaphoreProofs WITH
         woken <- [s \in Sema |-> {t \in Thread : /\ pc[t] = "sema_down"
                                                 /\ wait_on[t] = s
                                                 /\ t \notin Members(waiters[s])}]

(* Module Semaphore counts threads as this module does. *)
LEMMA SameCardinality == \A S : SP!Cardinality(S) = Cardinality(S)
BY Zenon DEF SP!Cardinality, Cardinality

(* No thread sleeps in sema_down beside a unit that no woken thread is     *)
(* coming for.                                                             *)
WakeupsKept == \A s \in Sema : waiters[s] # <<>> => value[s] <= Cardinality(Woken(s))

(* sema_up() on this scheduler loses no wakeup: what is proved of the      *)
(* semaphores under any schedule holds here, because these implement them. *)
THEOREM WakeupsAreKept == Spec => []WakeupsKept
<1>1. SP!SemaAssumption
  BY ThreadsAssumption, Zenon DEF SP!SemaAssumption, SP!IsFiniteSet, IsFiniteSet
<1>2. SP!Spec => []SP!NoLostWakeup
  BY <1>1, SP!NoWakeupIsLost, ZenonT(30)
<1>3. Sem!Spec => SP!Spec
  <2>1. Sem!Init => SP!Init
    BY Zenon DEF Sem!Init, SP!Init
  <2>2. [Sem!Next]_(Sem!vars) => [SP!Next]_(SP!vars)
    <3>0. Sem!Outside = SP!Outside
      BY Zenon DEF Sem!Outside, SP!Outside, Sem!Inside, SP!Inside, Sem!Members, SP!Members
    <3>1. ASSUME NEW t \in Thread, NEW s \in Sema
          PROVE  /\ Sem!sema_down(t, s) => SP!sema_down(t, s)
                 /\ Sem!sema_down_retry(t, s) => SP!sema_down_retry(t, s)
      BY <3>0, Zenon DEF Sem!sema_down, SP!sema_down, Sem!sema_down_retry, SP!sema_down_retry,
                  Sem!Test, SP!Test
    <3>2. ASSUME NEW s \in Sema
          PROVE  /\ Sem!sema_try_down(s) => SP!sema_try_down(s)
                 /\ Sem!sema_up(s) => SP!sema_up(s)
      BY Zenon DEF Sem!sema_try_down, SP!sema_try_down, Sem!sema_up, SP!sema_up
    <3>3. Sem!Next => SP!Next
      BY <3>1, <3>2, ZenonT(30) DEF Sem!Next, SP!Next
    <3>4. UNCHANGED Sem!vars => UNCHANGED SP!vars
      BY Zenon DEF Sem!vars, SP!vars
    <3> QED  BY <3>3, <3>4, Zenon
  <2> QED  BY <2>1, <2>2, PTL DEF Sem!Spec, SP!Spec
<1>4. SP!NoLostWakeup => WakeupsKept
  BY SameCardinality, Zenon DEF WakeupsKept, Woken, SP!NoLostWakeup
<1> QED  BY <1>2, <1>3, <1>4, IsFifoSemaphore, PTL

=============================================================================
