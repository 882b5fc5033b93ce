------------------------------ MODULE Process ------------------------------
(***************************************************************************)
(* How a process is started, waited for and ended: process_execute,        *)
(* start_process, process_wait and process_exit of userprog/process.c,     *)
(* exit of userprog/syscall.c and kill of userprog/exception.c.  Each of   *)
(* the four semaphores in struct thread has one user that downs it, so a   *)
(* semaphore is its value and a blocked sema_down is a step that is not    *)
(* enabled (module Semaphore justifies that); only wait_free, which a      *)
(* woken thread reads again when its memory may be gone, is modelled with  *)
(* its wakeup.                                                             *)
(***************************************************************************)
EXTENDS Integers, Sequences, FiniteSets

CONSTANTS
  Proc,     \* processes, each created at most once
  Main,     \* the initial thread, which starts the first process
  Status,   \* what user programs pass to exit
  NoProc

ASSUME ProcessAssumption ==
  /\ Main \in Proc /\ NoProc \notin Proc
  /\ Status \subseteq Int

TID_ERROR == -1
NoResult == -2

VARIABLES
  pc,               \* where each process is
  parent,
  child_list,       \* children not yet waited for
  child,            \* the child that p's process_execute or process_wait is about
  wait_load, wait_lock, wait_memory, wait_free,   \* the semaphores
  process_started,  \* of the parent: some child has started
  exit_status,
  loaded,           \* the result of load
  lan_lock,         \* the process's lan.lock is held by start_process
  fn_copy,          \* the page with its command line: "none", "live" or "free"
  in_execute,       \* p's process_wait is the one in process_execute
  result            \* of p's last process_execute (a process) or process_wait

semas == <<wait_load, wait_lock, wait_memory, wait_free>>
family == <<parent, child_list>>
start == <<process_started, loaded, lan_lock, fn_copy>>
vars == <<pc, family, child, semas, start, exit_status, in_execute, result>>

Init ==
  /\ pc = [p \in Proc |-> IF p = Main THEN "run" ELSE "unused"]
  /\ parent = [p \in Proc |-> NoProc]
  /\ child_list = [p \in Proc |-> {}]
  /\ child = [p \in Proc |-> NoProc]
  /\ wait_load = [p \in Proc |-> 0] /\ wait_lock = [p \in Proc |-> 0]
  /\ wait_memory = [p \in Proc |-> 0] /\ wait_free = [p \in Proc |-> 0]
  /\ process_started = [p \in Proc |-> FALSE]
  /\ exit_status = [p \in Proc |-> 0]
  /\ loaded = [p \in Proc |-> FALSE]
  /\ lan_lock = [p \in Proc |-> FALSE]
  /\ fn_copy = [p \in Proc |-> "none"]
  /\ in_execute = [p \in Proc |-> FALSE]
  /\ result = [p \in Proc |-> NoResult]

At(p, l) == pc[p] = l
Goto(p, l) == pc' = [pc EXCEPT ![p] = l]
Up(s, p) == s' = [s EXCEPT ![p] = @ + 1]
Down(s, p) == s[p] > 0 /\ s' = [s EXCEPT ![p] = @ - 1]

-----------------------------------------------------------------------------
(* process_execute, in the parent p. *)

(* The file cannot be opened, or there is no memory. *)
execute_fails(p) ==
  /\ At(p, "run")
  /\ result' = [result EXCEPT ![p] = TID_ERROR]
  /\ UNCHANGED <<pc, family, child, semas, start, exit_status, in_execute>>

(* thread_create: init_thread puts c on the list of p's children. *)
process_execute(p, c) ==
  /\ At(p, "run") /\ At(c, "unused")
  /\ pc' = [pc EXCEPT ![p] = "execute", ![c] = "start"]
  /\ parent' = [parent EXCEPT ![c] = p]
  /\ child_list' = [child_list EXCEPT ![p] = @ \cup {c}]
  /\ child' = [child EXCEPT ![p] = c]
  /\ fn_copy' = [fn_copy EXCEPT ![c] = "live"]
  /\ result' = [result EXCEPT ![p] = NoResult]
  /\ UNCHANGED <<semas, process_started, loaded, lan_lock, exit_status, in_execute>>

(* sema_down of wait_load.  If no child has started, p frees the copy and  *)
(* calls process_wait.                                                     *)
execute_loaded(p) ==
  /\ At(p, "execute")
  /\ Down(wait_load, p)
  /\ IF process_started[p]
     THEN Goto(p, "execute_lock") /\ UNCHANGED <<fn_copy, in_execute>>
     ELSE /\ Goto(p, "wait")
          /\ fn_copy' = [fn_copy EXCEPT ![child[p]] = "free"]
          /\ in_execute' = [in_execute EXCEPT ![p] = TRUE]
  /\ UNCHANGED <<family, child, wait_lock, wait_memory, wait_free,
                 process_started, loaded, lan_lock, exit_status, result>>

(* lan.lock is acquired, the copy freed, the tid returned. *)
execute_done(p) ==
  /\ At(p, "execute_lock") /\ ~ lan_lock[child[p]]
  /\ fn_copy' = [fn_copy EXCEPT ![child[p]] = "free"]
  /\ result' = [result EXCEPT ![p] = child[p]]
  /\ Goto(p, "run")
  /\ UNCHANGED <<family, child, semas, process_started, loaded, lan_lock,
                 exit_status, in_execute>>

-----------------------------------------------------------------------------
(* start_process, in the child c. *)

start_process(c) ==
  /\ At(c, "start")
  /\ lan_lock' = [lan_lock EXCEPT ![c] = TRUE]
  /\ Goto(c, "load")
  /\ UNCHANGED <<family, child, semas, process_started, loaded, fn_copy,
                 exit_status, in_execute, result>>

(* load, then sema_up of the parent's wait_load ... *)
load(c, success) ==
  /\ At(c, "load")
  /\ loaded' = [loaded EXCEPT ![c] = success]
  /\ Up(wait_load, parent[c])
  /\ Goto(c, "stack_build")
  /\ UNCHANGED <<family, child, wait_lock, wait_memory, wait_free, process_started,
                 lan_lock, fn_copy, exit_status, in_execute, result>>

(* ... then stack_build, which reads the copy, and the release of lan.lock *)
stack_build(c) ==
  /\ At(c, "stack_build")
  /\ lan_lock' = [lan_lock EXCEPT ![c] = FALSE]
  /\ Goto(c, IF loaded[c] THEN "started" ELSE "exit")
  /\ UNCHANGED <<family, child, semas, process_started, loaded, fn_copy,
                 exit_status, in_execute, result>>

(* ... and only then the parent's process_started. *)
started(c) ==
  /\ At(c, "started")
  /\ process_started' = [process_started EXCEPT ![parent[c]] = TRUE]
  /\ Goto(c, "run")
  /\ UNCHANGED <<family, child, semas, loaded, lan_lock, fn_copy,
                 exit_status, in_execute, result>>

-----------------------------------------------------------------------------
(* process_wait, in the parent p. *)

(* The tid is not that of a child on the list. *)
wait_fails(p, c) ==
  /\ At(p, "run") /\ c \notin child_list[p]
  /\ result' = [result EXCEPT ![p] = -1]
  /\ UNCHANGED <<pc, family, child, semas, start, exit_status, in_execute>>

process_wait(p, c) ==
  /\ At(p, "run") /\ c \in child_list[p]
  /\ child' = [child EXCEPT ![p] = c]
  /\ result' = [result EXCEPT ![p] = NoResult]
  /\ Goto(p, "wait")
  /\ UNCHANGED <<family, semas, start, exit_status, in_execute>>

(* Bug: the status is read without waiting for the child to exit. *)
wait_reap_NoDown(p) ==
  /\ At(p, "wait")
  /\ result' = [result EXCEPT ![p] = exit_status[child[p]]]
  /\ child_list' = [child_list EXCEPT ![p] = @ \ {child[p]}]
  /\ Up(wait_memory, child[p])
  /\ Goto(p, "wait_free")
  /\ UNCHANGED <<parent, child, wait_load, wait_lock, wait_free, start,
                 exit_status, in_execute>>

(* Bug: the child is not let go. *)
wait_reap_NoUp(p) ==
  /\ At(p, "wait")
  /\ Down(wait_lock, child[p])
  /\ result' = [result EXCEPT ![p] = exit_status[child[p]]]
  /\ child_list' = [child_list EXCEPT ![p] = @ \ {child[p]}]
  /\ Goto(p, "wait_free")
  /\ UNCHANGED <<parent, child, wait_load, wait_memory, wait_free, start,
                 exit_status, in_execute>>

(* sema_down of wait_lock; the status is read, the child taken off the     *)
(* list, and let go with wait_memory.                                      *)
wait_reap(p) ==
  /\ At(p, "wait")
  /\ Down(wait_lock, child[p])
  /\ result' = [result EXCEPT ![p] = exit_status[child[p]]]
  /\ child_list' = [child_list EXCEPT ![p] = @ \ {child[p]}]
  /\ Up(wait_memory, child[p])
  /\ Goto(p, "wait_free")
  /\ UNCHANGED <<parent, child, wait_load, wait_free, start, exit_status, in_execute>>

(* The return from process_wait, and from the process_execute it may be in. *)
Return(p) ==
  /\ Goto(p, "run")
  /\ in_execute' = [in_execute EXCEPT ![p] = FALSE]
  /\ result' = [result EXCEPT ![p] = IF in_execute[p] THEN TID_ERROR ELSE @]
  /\ UNCHANGED <<family, child, wait_load, wait_lock, wait_memory, start, exit_status>>

(* sema_down of wait_free: p goes on, or sleeps until process_exit's       *)
(* sema_up and then tests the value again.  By then the child's page may   *)
(* be free, and the value whatever the page holds: p goes on, or never     *)
(* comes back.                                                             *)
wait_free_down(p) ==
  /\ At(p, "wait_free") /\ ~ At(child[p], "freed")
  /\ \/ Down(wait_free, child[p]) /\ Return(p)
     \/ /\ wait_free[child[p]] = 0
        /\ Goto(p, "wait_free_sleep")
        /\ UNCHANGED <<family, child, semas, start, exit_status, in_execute, result>>

wait_free_stale(p) ==
  /\ At(p, "wait_free") /\ At(child[p], "freed")
  /\ \/ UNCHANGED wait_free /\ Return(p)
     \/ /\ Goto(p, "lost")
        /\ UNCHANGED <<family, child, semas, start, exit_status, in_execute, result>>

-----------------------------------------------------------------------------
(* exit and process_exit. *)

exit(p, status) ==
  /\ At(p, "run") /\ p # Main
  /\ exit_status' = [exit_status EXCEPT ![p] = status]
  /\ Goto(p, "exit")
  /\ UNCHANGED <<family, child, semas, start, in_execute, result>>

(* An exception other than a page fault: thread_exit, without a status, so *)
(* that process_wait returns the 0 the thread began with.                  *)
kill(p) ==
  /\ At(p, "run") /\ p # Main
  /\ Goto(p, "exit")
  /\ UNCHANGED <<family, child, semas, start, exit_status, in_execute, result>>

(* Bug: the process frees itself without waiting for its parent. *)
process_exit_NoWait(p) ==
  /\ At(p, "exit")
  /\ Up(wait_lock, p)
  /\ Goto(p, "dying")
  /\ UNCHANGED <<family, child, wait_load, wait_memory, wait_free, start,
                 exit_status, in_execute, result>>

(* Files, directory and mappings are closed; sema_up of wait_lock. *)
process_exit(p) ==
  /\ At(p, "exit")
  /\ Up(wait_lock, p)
  /\ Goto(p, "exit_memory")
  /\ UNCHANGED <<family, child, wait_load, wait_memory, wait_free, start,
                 exit_status, in_execute, result>>

(* sema_down of wait_memory; the memory is freed; sema_up of wait_free     *)
(* wakes the parent if it sleeps.                                          *)
exit_memory(p) ==
  /\ At(p, "exit_memory")
  /\ Down(wait_memory, p)
  /\ Up(wait_free, p)
  /\ LET asleep == {x \in Proc : pc[x] = "wait_free_sleep" /\ child[x] = p} IN
       pc' = [x \in Proc |-> IF x = p THEN "dying"
                             ELSE IF x \in asleep THEN "wait_free" ELSE pc[x]]
  /\ UNCHANGED <<family, child, wait_load, wait_lock, start, exit_status, in_execute, result>>

(* schedule_tail frees the page of struct thread. *)
schedule_tail(p) ==
  /\ At(p, "dying")
  /\ Goto(p, "freed")
  /\ UNCHANGED <<family, child, semas, start, exit_status, in_execute, result>>

-----------------------------------------------------------------------------

Kernel(p) ==
  \/ execute_loaded(p) \/ execute_done(p)
  \/ start_process(p) \/ (\E b \in BOOLEAN : load(p, b)) \/ stack_build(p) \/ started(p)
  \/ wait_reap(p) \/ wait_free_down(p) \/ wait_free_stale(p)
  \/ process_exit(p) \/ exit_memory(p) \/ schedule_tail(p)

User(p) ==
  \/ execute_fails(p) \/ kill(p)
  \/ \E c \in Proc : process_execute(p, c) \/ wait_fails(p, c) \/ process_wait(p, c)
  \/ \E s \in Status : exit(p, s)

Next == \E p \in Proc : Kernel(p) \/ User(p)

Spec == Init /\ [][Next]_vars

(* A process that is not asleep runs, inside the kernel; nothing is        *)
(* assumed of user programs.                                               *)
FairSpec == Spec /\ \A p \in Proc : WF_vars(Kernel(p))

-----------------------------------------------------------------------------

(* process_wait: once p has read the status of its child, the child is off *)
(* the list, runs no user code any more, and the status is final.          *)
ReapedIsOver ==
  \A p \in Proc : pc[p] \in {"wait_free", "wait_free_sleep"} =>
    /\ pc[child[p]] \in {"exit_memory", "dying", "freed"}
    /\ child[p] \notin child_list[p]
    /\ result[p] = exit_status[child[p]]

(* Nothing is freed that another process uses.  process_exit waits for     *)
(* wait_memory: the struct thread of a process stays while it is an        *)
(* element of its parent's child_list, which the parent walks.  lan.lock:  *)
(* while stack_build reads the command line, the only process_execute that *)
(* frees it is one that takes the load for failed.                         *)
InUseIsAlive ==
  /\ \A p \in Proc : \A c \in child_list[p] : pc[c] # "freed"
  /\ \A c \in Proc : pc[c] = "stack_build" /\ fn_copy[c] = "free" => in_execute[parent[c]]

(* The parent of c waits for it, or has taken its status. *)
Awaited(c) ==
  /\ parent[c] # NoProc
  /\ \/ pc[parent[c]] = "wait" /\ child[parent[c]] = c
     \/ c \notin child_list[parent[c]]

(* process_wait, process_exit: a process that has exited and is awaited    *)
(* does not stay, but is freed.  start_process: process_execute is told    *)
(* how the load went.                                                      *)
HandshakesEnd ==
  /\ \A c \in Proc : []<>~ (pc[c] \in {"exit_memory", "dying"} /\ Awaited(c))
  /\ \A p \in Proc : []<>(pc[p] # "execute")

-----------------------------------------------------------------------------
(* The inductive invariant behind ReapedIsOver and InUseIsAlive: types ... *)
Alive == {"start", "load", "stack_build", "started", "run", "execute", "execute_lock",
          "wait", "wait_free", "wait_free_sleep", "lost", "exit"}

TypeOK ==
  /\ pc \in [Proc -> Alive \cup {"unused", "exit_memory", "dying", "freed"}]
  /\ parent \in [Proc -> Proc \cup {NoProc}]
  /\ child_list \in [Proc -> SUBSET Proc]
  /\ child \in [Proc -> Proc \cup {NoProc}]
  /\ wait_load \in [Proc -> Nat] /\ wait_lock \in [Proc -> Nat]
  /\ wait_memory \in [Proc -> Nat] /\ wait_free \in [Proc -> Nat]
  /\ process_started \in [Proc -> BOOLEAN] /\ loaded \in [Proc -> BOOLEAN]
  /\ lan_lock \in [Proc -> BOOLEAN] /\ in_execute \in [Proc -> BOOLEAN]
  /\ fn_copy \in [Proc -> {"none", "live", "free"}]
  /\ exit_status \in [Proc -> Int]
  /\ result \in [Proc -> Proc \cup Int]

(* ... a process is on the list of its parent until the parent has waited  *)
(* for it, and its parent has it to itself ...                             *)
FamilyInv ==
  /\ pc[Main] \in {"run", "execute", "execute_lock", "wait", "wait_free",
                    "wait_free_sleep", "lost"}
  /\ \A p, c \in Proc : c \in child_list[p] => parent[c] = p
  /\ \A c \in Proc :
       /\ pc[c] = "unused" => parent[c] = NoProc
       /\ pc[c] \in Alive /\ c # Main => /\ parent[c] \in Proc
                                       /\ c \in child_list[parent[c]]

(* ... the semaphores a process and its parent hand over with: wait_lock   *)
(* is up from the child's exit until the parent has reaped it, then        *)
(* wait_memory until the child has gone on ...                             *)
ExitInv ==
  \A c \in Proc :
    /\ pc[c] # "exit_memory" => wait_lock[c] = 0 /\ wait_memory[c] = 0
    /\ pc[c] = "exit_memory" =>
         \/ wait_lock[c] = 1 /\ wait_memory[c] = 0
         \/ /\ wait_lock[c] = 0 /\ wait_memory[c] = 1
            /\ \A p \in Proc : c \notin child_list[p]
    /\ pc[c] \in {"dying", "freed"} => \A p \in Proc : c \notin child_list[p]

(* ... what the parent's call is about ...                                 *)
CallInv ==
  \A p \in Proc :
    /\ pc[p] \in {"execute", "execute_lock", "wait"} =>
         child[p] \in Proc /\ child[p] \in child_list[p]
    /\ pc[p] \in {"wait_free", "wait_free_sleep"} =>
         /\ child[p] \in Proc /\ child[p] \notin child_list[p]
         /\ pc[child[p]] \in {"exit_memory", "dying", "freed"}
         /\ result[p] = exit_status[child[p]]

(* ... and how far the load has come: the parent stays in process_execute  *)
(* until the child's load has upped wait_load, and once only; from then on *)
(* lan.lock keeps the parent from freeing the command line, unless it      *)
(* takes the load for failed and waits for the child to exit.              *)
LoadInv ==
  /\ \A p \in Proc :
       /\ wait_load[p] \in {0, 1}
       /\ wait_load[p] = 1 => pc[p] = "execute" /\ pc[child[p]] \notin {"start", "load"}
  /\ \A c \in Proc :
       /\ pc[c] \in {"start", "load"} =>
            /\ pc[parent[c]] = "execute" /\ child[parent[c]] = c /\ fn_copy[c] = "live"
       /\ pc[c] \in {"load", "stack_build"} => lan_lock[c]
       /\ pc[c] = "stack_build" /\ fn_copy[c] = "free" =>
            /\ in_execute[parent[c]] /\ pc[parent[c]] = "wait" /\ child[parent[c]] = c

ProcessInv == TypeOK /\ FamilyInv /\ ExitInv /\ CallInv /\ LoadInv

-----------------------------------------------------------------------------
(* What a comment of the repository says, and the code does not do.         *)

(* process_execute's comment: it returns the new process's thread id, or   *)
(* TID_ERROR if the thread cannot be created; here: if load failed.        *)
LoadedIsReturned ==
  \A p \in Proc : in_execute[p] => ~ loaded[child[p]]

=============================================================================
