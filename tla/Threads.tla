------------------------------ MODULE Threads ------------------------------
(***************************************************************************)
(* The kernel thread system: scheduling (threads/thread.c), semaphores     *)
(* (threads/synch.c), sleeping (devices/timer.c) and the return path of    *)
(* external interrupts (threads/interrupt.c), with the priority scheduler  *)
(* (thread_mlfqs = false).                                                 *)
(*                                                                         *)
(* The machine has one CPU.  Code that runs with interrupts off is one     *)
(* step; between two steps of the running thread an interrupt may arrive.  *)
(* The threads run arbitrary client code, which may call any operation     *)
(* whenever pc[t] = "run"; the other values of pc are places inside the    *)
(* kernel's own code where a thread can be switched out or interrupted.    *)
(***************************************************************************)
EXTENDS Lists, FiniteSets

CONSTANTS
  Thread,       \* the pages that can hold a struct thread
  Main,         \* initial_thread, the thread that runs init.c:main()
  Idle,         \* the thread created by thread_start() to run idle()
  NoThread,     \* a null struct thread *
  Sema,         \* the semaphores
  IdleStarted,  \* the semaphore idle_started of thread_start()
  NoSema,       \* a null struct semaphore *
  IntrSema,     \* the semaphores that device interrupt handlers up
  InitValue,    \* the value each semaphore is given by sema_init
  PriMax,       \* PRI_MAX; PRI_MIN is 0
  PriDefault,   \* PRI_DEFAULT
  TimeSlice,    \* TIME_SLICE
  MaxSleep,     \* bound: longest timer_sleep
  MaxValue      \* bound: no sema_up beyond this value

Priority == 0 .. PriMax

ASSUME ThreadsAssumption ==
  /\ IsFiniteSet(Thread)
  /\ Main \in Thread /\ Idle \in Thread /\ Main # Idle /\ NoThread \notin Thread
  /\ IdleStarted \in Sema /\ NoSema \notin Sema /\ IntrSema \subseteq Sema
  /\ InitValue \in [Sema -> Nat] /\ InitValue[IdleStarted] = 0
  /\ PriMax \in Nat /\ PriDefault \in Priority /\ PriDefault > 0
  /\ TimeSlice \in Nat \ {0} /\ MaxSleep \in Nat /\ MaxValue \in Nat \ {0}

VARIABLES
  current,      \* running_thread()
  status,       \* t->status; "NONE" when the page holds no thread
  priority,     \* t->priority
  ready_list,
  thread_ticks,
  idle_thread,
  sleep_list,
  sleep_left,   \* t->wakeup_time - ticks
  scan,         \* 0, or the place e has reached in wakeup_sleep_thread()
  value,        \* sema->value
  waiters,      \* sema->waiters
  pc,           \* where t stands in the kernel's code
  wait_on,      \* the semaphore whose sema_down t is inside
  child         \* the thread t is creating

schedVars == <<current, status, ready_list, thread_ticks>>
sleepVars == <<sleep_list, sleep_left, scan>>
semaVars  == <<value, waiters, wait_on>>
vars == <<schedVars, sleepVars, semaVars, priority, idle_thread, pc, child>>

Init ==
  /\ current = Main
  /\ status = [t \in Thread |-> IF t = Main THEN "RUNNING" ELSE "NONE"]
  /\ priority = [t \in Thread |-> IF t = Main THEN PriDefault ELSE 0]
  /\ ready_list = <<>>
  /\ thread_ticks = 0
  /\ idle_thread = NoThread
  /\ sleep_list = <<>>
  /\ sleep_left = [t \in Thread |-> 0]
  /\ scan = 0
  /\ value = InitValue
  /\ waiters = [s \in Sema |-> <<>>]
  /\ pc = [t \in Thread |-> IF t = Main THEN "thread_start" ELSE "run"]
  /\ wait_on = [t \in Thread |-> NoSema]
  /\ child = [t \in Thread |-> NoThread]

(* in_external_intr: the timer's handler is part-way through its work. *)
intr_context == scan > 0

(* The running thread executes instructions: no handler is active. *)
Runs(t) == current = t /\ ~intr_context

(* Interrupts are off in thread_start() until idle exists and in a thread  *)
(* that has just been switched back to inside sema_down's loop.            *)
IntrOn == ~intr_context /\ pc[current] \notin {"thread_start", "sema_down"}

-----------------------------------------------------------------------------
(* thread.c: switching.  rl and st are the ready list and the statuses the *)
(* caller has built before it calls schedule().                            *)

next_thread_to_run(rl) == IF rl = <<>> THEN idle_thread ELSE Head(rl)

(* schedule_tail() frees the page of a dying thread, but not Main's. *)
FreeDying(st) ==
  [st EXCEPT ![current] = IF @ = "DYING" /\ current # Main THEN "NONE" ELSE @]

schedule(rl, st) ==
  /\ current' = next_thread_to_run(rl)
  /\ ready_list' = IF rl = <<>> THEN rl ELSE Tail(rl)
  /\ status' = [FreeDying(st) EXCEPT ![next_thread_to_run(rl)] = "RUNNING"]
  /\ thread_ticks' = 0

thread_block == schedule(ready_list, [status EXCEPT ![current] = "BLOCKED"])

(* Bug: the idle thread is put on the run queue like any other. *)
thread_yield_Idle(pri) ==
  schedule(list_insert_ordered(ready_list, current, pri),
           [status EXCEPT ![current] = "READY"])

thread_yield(pri) ==
  schedule(IF current = idle_thread THEN ready_list
           ELSE list_insert_ordered(ready_list, current, pri),
           [status EXCEPT ![current] = "READY"])

thread_unblock(t) ==
  /\ ready_list' = list_insert_ordered(ready_list, t, priority)
  /\ status' = [status EXCEPT ![t] = "READY"]
  /\ UNCHANGED <<current, thread_ticks>>

-----------------------------------------------------------------------------
(* Operations client code calls: the running thread t, interrupts on. *)

(* palloc_get_page, init_thread and allocate_tid: a blocked thread c that  *)
(* is on no list.  (When no page is left thread_create changes nothing.)   *)
thread_create(t, c, p) ==
  /\ Runs(t) /\ pc[t] = "run"
  /\ status[c] = "NONE" /\ c # Idle
  /\ status' = [status EXCEPT ![c] = "BLOCKED"]
  /\ priority' = [priority EXCEPT ![c] = p]
  /\ child' = [child EXCEPT ![t] = c]
  /\ pc' = [pc EXCEPT ![t] = "thread_create"]
  /\ UNCHANGED <<current, ready_list, thread_ticks, sleepVars, semaVars, idle_thread>>

(* thread_create puts the new thread on the run queue ... *)
thread_create_unblock(t) ==
  /\ Runs(t) /\ pc[t] = "thread_create"
  /\ thread_unblock(child[t])
  /\ child' = [child EXCEPT ![t] = NoThread]
  /\ pc' = [pc EXCEPT ![t] = "thread_yield"]
  /\ UNCHANGED <<sleepVars, semaVars, priority, idle_thread>>

(* ... and yields, as does thread_set_priority, and client code at will. *)
yield(t) ==
  /\ Runs(t) /\ pc[t] \in {"run", "thread_yield"}
  /\ thread_yield(priority)
  /\ pc' = [pc EXCEPT ![t] = "run"]
  /\ UNCHANGED <<sleepVars, semaVars, priority, idle_thread, child>>

thread_set_priority(t, p) ==
  /\ Runs(t) /\ pc[t] = "run"
  /\ priority' = [priority EXCEPT ![t] = p]
  /\ pc' = [pc EXCEPT ![t] = "thread_yield"]
  /\ UNCHANGED <<schedVars, sleepVars, semaVars, idle_thread, child>>

thread_exit(t) ==
  /\ Runs(t) /\ pc[t] = "run"
  /\ schedule(ready_list, [status EXCEPT ![t] = "DYING"])
  /\ UNCHANGED <<sleepVars, semaVars, priority, idle_thread, pc, child>>

timer_sleep(t, n) ==
  /\ Runs(t) /\ pc[t] = "run"
  /\ sleep_left' = [sleep_left EXCEPT ![t] = n]
  /\ sleep_list' = Append(sleep_list, t)
  /\ thread_block
  /\ UNCHANGED <<scan, semaVars, priority, idle_thread, pc, child>>

(* Bug: a woken thread that finds the value 0 again blocks unqueued. *)
Test_NoRequeue(t, s) ==
  /\ \/ /\ value[s] = 0
        /\ waiters' = [waiters EXCEPT ![s] = IF pc[t] = "sema_down" THEN @ ELSE Append(@, t)]
        /\ pc' = [pc EXCEPT ![t] = "sema_down"]
        /\ wait_on' = [wait_on EXCEPT ![t] = s]
        /\ thread_block
        /\ UNCHANGED value
     \/ /\ value[s] > 0
        /\ value' = [value EXCEPT ![s] = @ - 1]
        /\ pc' = [pc EXCEPT ![t] = "run"]
        /\ wait_on' = [wait_on EXCEPT ![t] = NoSema]
        /\ UNCHANGED <<waiters, schedVars>>
  /\ UNCHANGED <<sleepVars, priority, idle_thread, child>>

(* One turn of sema_down's loop, and the decrement when the loop ends. *)
Test(t, s) ==
  /\ \/ /\ value[s] = 0
        /\ waiters' = [waiters EXCEPT ![s] = Append(@, t)]
        /\ pc' = [pc EXCEPT ![t] = "sema_down"]
        /\ wait_on' = [wait_on EXCEPT ![t] = s]
        /\ thread_block
        /\ UNCHANGED value
     \/ /\ value[s] > 0
        /\ value' = [value EXCEPT ![s] = @ - 1]
        /\ pc' = [pc EXCEPT ![t] = "run"]
        /\ wait_on' = [wait_on EXCEPT ![t] = NoSema]
        /\ UNCHANGED <<waiters, schedVars>>
  /\ UNCHANGED <<sleepVars, priority, idle_thread, child>>

sema_down(t, s) ==
  /\ Runs(t)
  /\ \/ pc[t] = "run" /\ s # IdleStarted
     \/ pc[t] = "thread_start_wait" /\ s = IdleStarted
  /\ Test(t, s)

(* t is switched back to inside sema_down and goes round the loop. *)
sema_down_retry(t) ==
  /\ Runs(t) /\ pc[t] = "sema_down"
  /\ Test(t, wait_on[t])

sema_try_down(t, s) ==
  /\ Runs(t) /\ pc[t] = "run" /\ s # IdleStarted
  /\ value[s] > 0
  /\ value' = [value EXCEPT ![s] = @ - 1]
  /\ UNCHANGED <<schedVars, sleepVars, waiters, wait_on, priority, idle_thread, pc, child>>

(* Bug: a waiter is woken only if the value was 0. *)
Up_WakeAtZero(s) ==
  /\ value[s] < MaxValue
  /\ value' = [value EXCEPT ![s] = @ + 1]
  /\ \/ /\ waiters[s] = <<>> \/ value[s] > 0
        /\ UNCHANGED <<waiters, schedVars>>
     \/ /\ waiters[s] # <<>> /\ value[s] = 0
        /\ waiters' = [waiters EXCEPT ![s] = Tail(@)]
        /\ thread_unblock(Head(waiters[s]))
  /\ UNCHANGED <<sleepVars, wait_on, priority, child>>

Up(s) ==
  /\ value[s] < MaxValue
  /\ value' = [value EXCEPT ![s] = @ + 1]
  /\ \/ /\ waiters[s] = <<>>
        /\ UNCHANGED <<waiters, schedVars>>
     \/ /\ waiters[s] # <<>>
        /\ waiters' = [waiters EXCEPT ![s] = Tail(@)]
        /\ thread_unblock(Head(waiters[s]))
  /\ UNCHANGED <<sleepVars, wait_on, priority, child>>

sema_up(t, s) ==
  /\ Runs(t) /\ pc[t] = "run" /\ s # IdleStarted
  /\ Up(s)
  /\ UNCHANGED <<idle_thread, pc>>

-----------------------------------------------------------------------------
(* Starting the thread system, and the idle thread. *)

(* thread_start: creates the idle thread with interrupts off. *)
thread_start ==
  /\ Runs(Main) /\ pc[Main] = "thread_start"
  /\ schedule(list_insert_ordered(<<Idle>>, Main, priority),
              [status EXCEPT ![Idle] = "READY", ![Main] = "READY"])
  /\ pc' = [pc EXCEPT ![Main] = "thread_start_wait", ![Idle] = "idle"]
  /\ UNCHANGED <<sleepVars, semaVars, priority, idle_thread, child>>

idle_start ==
  /\ Runs(Idle) /\ pc[Idle] = "idle"
  /\ idle_thread' = Idle
  /\ pc' = [pc EXCEPT ![Idle] = "idle_up"]
  /\ UNCHANGED <<schedVars, sleepVars, semaVars, priority, child>>

idle_up ==
  /\ Runs(Idle) /\ pc[Idle] = "idle_up"
  /\ Up(IdleStarted)
  /\ pc' = [pc EXCEPT ![Idle] = "idle_loop"]
  /\ UNCHANGED idle_thread

(* Blocks; when it is chosen again it enables interrupts and halts. *)
idle_block ==
  /\ Runs(Idle) /\ pc[Idle] = "idle_loop"
  /\ thread_block
  /\ pc' = [pc EXCEPT ![Idle] = "idle_hlt"]
  /\ UNCHANGED <<sleepVars, semaVars, priority, idle_thread, child>>

-----------------------------------------------------------------------------
(* External interrupts.  Any of them ends the idle thread's hlt. *)

EndHlt == pc' = [pc EXCEPT ![Idle] = IF current = Idle /\ @ = "idle_hlt"
                                     THEN "idle_loop" ELSE @]

(* A device's handler ups a semaphore (disk.c); it does not yield. *)
intr_sema_up(s) ==
  /\ IntrOn
  /\ Up(s)
  /\ EndHlt
  /\ UNCHANGED idle_thread

(* Bug: sleepers are looked at only when the CPU would be idle. *)
timer_interrupt_WhenIdle ==
  /\ IntrOn
  /\ thread_ticks' = thread_ticks + 1
  /\ sleep_left' = [t \in Thread |-> IF t \in Members(sleep_list) /\ sleep_left[t] > 0
                                     THEN sleep_left[t] - 1 ELSE sleep_left[t]]
  /\ scan' = IF current = Idle THEN 1 ELSE Len(sleep_list) + 1
  /\ EndHlt
  /\ UNCHANGED <<current, status, ready_list, sleep_list, semaVars, priority,
                 idle_thread, child>>

(* timer_interrupt: ticks++ and thread_tick() ... *)
timer_interrupt ==
  /\ IntrOn
  /\ thread_ticks' = thread_ticks + 1
  /\ sleep_left' = [t \in Thread |-> IF t \in Members(sleep_list)
                                     THEN sleep_left[t] - 1 ELSE sleep_left[t]]
  /\ scan' = 1
  /\ EndHlt
  /\ UNCHANGED <<current, status, ready_list, sleep_list, semaVars, priority,
                 idle_thread, child>>

(* Bug: the loop goes on from the successor of an element it has removed,  *)
(* without stepping back to its predecessor first.                         *)
wakeup_sleep_thread_Skip ==
  /\ scan \in 1 .. Len(sleep_list)
  /\ scan' = scan + 1
  /\ LET t == sleep_list[scan] IN
       \/ /\ sleep_left[t] <= 0
          /\ sleep_list' = list_remove(sleep_list, scan)
          /\ thread_unblock(t)
       \/ /\ sleep_left[t] > 0
          /\ UNCHANGED <<schedVars, sleep_list>>
  /\ UNCHANGED <<sleep_left, semaVars, priority, idle_thread, pc, child>>

(* ... then wakeup_sleep_thread(), one element e of sleep_list at a time:  *)
(* removing e takes the scan back to its predecessor.                      *)
wakeup_sleep_thread ==
  /\ scan \in 1 .. Len(sleep_list)
  /\ LET t == sleep_list[scan] IN
       \/ /\ sleep_left[t] <= 0
          /\ sleep_list' = list_remove(sleep_list, scan)
          /\ thread_unblock(t)
          /\ UNCHANGED scan
       \/ /\ sleep_left[t] > 0
          /\ scan' = scan + 1
          /\ UNCHANGED <<schedVars, sleep_list>>
  /\ UNCHANGED <<sleep_left, semaVars, priority, idle_thread, pc, child>>

(* Set by thread_tick() when the time slice is over. *)
yield_on_return == thread_ticks >= TimeSlice

(* intr_handler's last act. *)
intr_return ==
  /\ scan > Len(sleep_list)
  /\ scan' = 0
  /\ \/ yield_on_return /\ thread_yield(priority)
     \/ ~yield_on_return /\ UNCHANGED schedVars
  /\ UNCHANGED <<sleep_list, sleep_left, semaVars, priority, idle_thread, pc, child>>

Client(t) ==
  \/ \E c \in Thread, p \in Priority : thread_create(t, c, p)
  \/ \E p \in Priority : thread_set_priority(t, p)
  \/ \E n \in 1 .. MaxSleep : timer_sleep(t, n)
  \/ \E s \in Sema : sema_down(t, s) \/ sema_try_down(t, s) \/ sema_up(t, s)
  \/ thread_exit(t)

(* Steps the kernel takes by itself once it is there. *)
Kernel(t) == thread_create_unblock(t) \/ yield(t) \/ sema_down_retry(t)

Handler == wakeup_sleep_thread \/ intr_return

IdleStep == idle_start \/ idle_up \/ idle_block

Next ==
  \/ thread_start
  \/ IdleStep
  \/ \E t \in Thread : Client(t) \/ Kernel(t)
  \/ \E s \in IntrSema : intr_sema_up(s)
  \/ timer_interrupt
  \/ Handler

Spec == Init /\ [][Next]_vars

(* The timer keeps firing and a pending interrupt is taken as soon as      *)
(* interrupts are on; handlers and code that runs with interrupts off run  *)
(* to their end.  Nothing is assumed of client code.                       *)
FairSpec ==
  /\ Spec
  /\ SF_vars(timer_interrupt)
  /\ WF_vars(Handler)
  /\ \A t \in Thread : WF_vars(sema_down_retry(t))

-----------------------------------------------------------------------------
(* Properties. *)

TypeOK ==
  /\ current \in Thread
  /\ status \in [Thread -> {"NONE", "RUNNING", "READY", "BLOCKED", "DYING"}]
  /\ priority \in [Thread -> Priority]
  /\ ready_list \in Seq(Thread)
  /\ thread_ticks \in 0 .. TimeSlice
  /\ idle_thread \in {Idle, NoThread}
  /\ sleep_list \in Seq(Thread)
  /\ sleep_left \in [Thread -> Int]
  /\ scan \in Nat
  /\ value \in [Sema -> Nat]
  /\ waiters \in [Sema -> Seq(Thread)]
  /\ pc \in [Thread -> {"run", "thread_start", "thread_start_wait", "thread_create",
                        "thread_yield", "sema_down", "idle", "idle_up",
                        "idle_loop", "idle_hlt"}]
  /\ wait_on \in [Thread -> Sema \cup {NoSema}]
  /\ child \in [Thread -> Thread \cup {NoThread}]

(* The single list element `elem' of a thread serves the run queue and the *)
(* wait lists, which works only if they exclude each other: a thread is on *)
(* the run queue only if it is ready, on one wait list or on the sleep     *)
(* list only if it is blocked, and on each of them once.  The ASSERTs of   *)
(* thread_current() and thread_unblock() on the status rest on this.       *)
ElemExclusive ==
  /\ Once(ready_list) /\ Once(sleep_list) /\ \A s \in Sema : Once(waiters[s])
  /\ \A t \in Thread : status[t] = "RUNNING" <=> t = current
  /\ \A t \in Members(ready_list) : status[t] = "READY" /\ t # idle_thread
  /\ \A t \in Members(sleep_list) : status[t] = "BLOCKED"
  /\ \A s \in Sema : \A t \in Members(waiters[s]) :
       /\ status[t] = "BLOCKED" /\ t \notin Members(sleep_list)
       /\ \A r \in Sema \ {s} : t \notin Members(waiters[r])

(* No thread is lost: one that can run is on the run queue (the idle       *)
(* thread aside), and one that is blocked is where somebody will find it   *)
(* to unblock it: a wait list, the sleep list, or its creator's hands.     *)
NoThreadLost ==
  \A t \in Thread :
    /\ status[t] = "READY" => t \in Members(ready_list) \cup {idle_thread}
    /\ status[t] = "BLOCKED" =>
         \/ t \in Members(sleep_list)
         \/ \E s \in Sema : t \in Members(waiters[s])
         \/ \E c \in Thread : child[c] = t
         \/ t = idle_thread

(* The run queue is sorted by priority, which is what list_insert_ordered  *)
(* requires of it.                                                         *)
ReadySorted == Sorted(ready_list, priority)

(* next_thread_to_run: no thread left on the run queue has a higher        *)
(* priority than the one switched to, and the idle thread runs only if     *)
(* nobody else can.                                                        *)
DispatchesHighest ==
  [][current' # current =>
       /\ \A t \in Members(ready_list') : priority'[t] <= priority'[current']
       /\ current' = idle_thread => ready_list' = <<>>]_vars

(* Round robin: a thread that joins the run queue goes behind every thread *)
(* of its priority that is there, and two threads on it never change order.*)
RoundRobin ==
  [][\A t, u \in Members(ready_list') :
       /\ Before(ready_list, t, u) => Before(ready_list', t, u)
       /\ (t \in Members(ready_list) /\ u \notin Members(ready_list)
             /\ priority'[t] = priority'[u]) => Before(ready_list', t, u)]_vars

(* sema_up, as a test of it says: "the highest-priority thread waiting on  *)
(* a semaphore is the first to wake up" (tests/threads/priority-sema.c).   *)
WakesHighest ==
  [][\A s \in Sema : \A t \in Members(waiters[s]) \ Members(waiters'[s]) :
       \A u \in Members(waiters[s]) : priority[u] <= priority[t]]_vars

(* timer_sleep, wakeup_sleep_thread: when the timer's handler is done,     *)
(* nobody whose time has come is still asleep.                             *)
NoOversleep ==
  ~intr_context => \A t \in Members(sleep_list) : sleep_left[t] > 0

(* Time slices and round robin: a ready thread that nobody can outrank     *)
(* gets the CPU, whatever the other threads do, yielding or not.           *)
HighestRuns ==
  \A t \in Thread :
    []<>~ (status[t] = "READY" /\ priority[t] = PriMax)

(* Whoever calls timer_sleep is woken, whatever the other threads do. *)
SleeperWakes ==
  \A t \in Thread : []<>(t \notin Members(sleep_list))

(* The inductive invariant behind ElemExclusive, NoThreadLost, ReadySorted *)
(* and NoOversleep: the run queue holds exactly the ready threads other    *)
(* than idle_thread ...                                                    *)
QueueInv ==
  /\ Once(ready_list)
  /\ \A t \in Thread :
       /\ t \in Members(ready_list) <=> status[t] = "READY" /\ t # idle_thread
       /\ status[t] = "RUNNING" <=> t = current
       /\ status[t] = "DYING" => t = Main

(* ... a blocked thread is asleep, waits on the semaphore wait_on says, is *)
(* being created, or is idle, and pc tells these apart ...                 *)
ListInv ==
  /\ Once(sleep_list)
  /\ \A t \in Members(sleep_list) : status[t] = "BLOCKED" /\ pc[t] = "run"
  /\ \A s \in Sema :
       /\ Once(waiters[s])
       /\ \A t \in Members(waiters[s]) :
            status[t] = "BLOCKED" /\ pc[t] = "sema_down" /\ wait_on[t] = s
  /\ \A t \in Thread : pc[t] = "sema_down" => wait_on[t] \in Sema

CreateInv ==
  \A t \in Thread :
    /\ pc[t] = "thread_create" =>
         /\ child[t] \in Thread \ {Main, Idle}
         /\ status[child[t]] = "BLOCKED" /\ pc[child[t]] = "run"
         /\ child[t] \notin Members(sleep_list)
         /\ \A u \in Thread \ {t} : child[u] # child[t]
    /\ pc[t] # "thread_create" => child[t] = NoThread
    /\ status[t] = "NONE" => pc[t] = "run"

BlockedInv ==
  \A t \in Thread : status[t] = "BLOCKED" =>
    \/ t \in Members(sleep_list)
    \/ pc[t] = "sema_down" /\ t \in Members(waiters[wait_on[t]])
    \/ \E c \in Thread : child[c] = t
    \/ t = idle_thread

(* ... there is always somebody to switch to: until idle_thread is set,    *)
(* the thread that will set it can run ...                                 *)
IdlePc == {"idle", "idle_up", "idle_loop", "idle_hlt"}

BootInv ==
  /\ \A t \in Thread : pc[t] \in IdlePc => t = Idle
  /\ \A t \in Thread : pc[t] = "thread_start" => t = Main /\ t = current
  /\ pc[Main] = "thread_start" =>
       /\ idle_thread = NoThread /\ ready_list = <<>> /\ ~intr_context
       /\ status[Idle] = "NONE"
  /\ pc[Main] # "thread_start" => pc[Idle] \in IdlePc /\ status[Idle] # "NONE"
  /\ idle_thread = NoThread /\ pc[Main] # "thread_start" =>
       pc[Idle] = "idle" /\ status[Idle] \in {"READY", "RUNNING"}
  /\ idle_thread = Idle => pc[Idle] # "idle"
  /\ status[Main] # "NONE"

(* ... the sleepers the scan has passed have time left ... *)
SleepInv ==
  /\ scan <= Len(sleep_list) + 1
  /\ \A i \in 1 .. Len(sleep_list) :
       scan = 0 \/ i < scan => sleep_left[sleep_list[i]] > 0

(* ... and a time slice that is over ends with the interrupt. *)
SliceInv == thread_ticks <= TimeSlice /\ (~intr_context => thread_ticks < TimeSlice)

IInv ==
  /\ TypeOK /\ QueueInv /\ ListInv /\ CreateInv /\ BlockedInv /\ BootInv
  /\ SleepInv /\ SliceInv /\ ReadySorted

=============================================================================
