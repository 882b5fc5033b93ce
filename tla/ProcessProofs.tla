--------------------------- MODULE ProcessProofs ---------------------------
(***************************************************************************)
(* What a parent and its children may rely on in process_execute,          *)
(* process_wait and process_exit, for any number of processes.             *)
(***************************************************************************)
EXTENDS Process, TLAPS

Gone == {"exit_memory", "dying", "freed"}

(* A step that leaves the lists of children alone and ends nobody's life.  *)
LEMMA FamilySame ==
  ASSUME FamilyInv, UNCHANGED family,
         pc'[Main] \in {"run", "execute", "execute_lock", "wait", "wait_free",
                        "wait_free_sleep", "lost"},
         \A c \in Proc : /\ pc'[c] = "unused" => pc[c] = "unused"
                         /\ pc'[c] \in Alive => pc[c] \in Alive
  PROVE  FamilyInv'
BY Zenon DEF FamilyInv, family

(* A step that has nothing to do with an exit. *)
LEMMA ExitSame ==
  ASSUME ExitInv, UNCHANGED <<child_list, wait_lock, wait_memory>>,
         \A c \in Proc : pc'[c] \in Gone \/ pc[c] \in Gone => pc'[c] = pc[c]
  PROVE  ExitInv'
BY Zenon DEF ExitInv, Gone

(* Who a call is about is a process, and who is being started has a parent. *)
LEMMA Known ==
  ASSUME ProcessInv
  PROVE  /\ \A p \in Proc : pc[p] \in {"execute", "execute_lock", "wait", "wait_free",
                                      "wait_free_sleep"} => child[p] \in Proc
         /\ \A c \in Proc : pc[c] \in {"start", "load", "stack_build", "started"} =>
              c # Main /\ parent[c] \in Proc
<1>1. CallInv /\ FamilyInv
  BY Zenon DEF ProcessInv
<1>2. \A c \in Proc : pc[c] \in {"start", "load", "stack_build", "started"} =>
         c # Main /\ parent[c] \in Proc
  BY <1>1, Zenon DEF FamilyInv, Alive
<1> QED  BY <1>1, <1>2, Zenon DEF CallInv

(* Initially there is only the first thread. *)
LEMMA InitInv == Init => ProcessInv
<1> USE ProcessAssumption
<1> SUFFICES ASSUME Init
             PROVE  ProcessInv
  BY Zenon
<1>1. TypeOK
  BY DEF Init, TypeOK, Alive, NoResult
<1>2. FamilyInv
  BY Zenon DEF Init, FamilyInv, Alive
<1>3. ExitInv
  BY Zenon DEF Init, ExitInv
<1>4. CallInv
  BY Zenon DEF Init, CallInv
<1>5. LoadInv
  BY DEF Init, LoadInv
<1> QED  BY <1>1, <1>2, <1>3, <1>4, <1>5, Zenon DEF ProcessInv

(* process_execute and process_wait that fail only give a result. *)
LEMMA FailStep ==
  ASSUME ProcessInv, NEW p \in Proc, pc[p] = "run",
         result' = [result EXCEPT ![p] = -1],
         UNCHANGED <<pc, family, child, semas, start, exit_status, in_execute>>
  PROVE  ProcessInv'
<1> USE DEF ProcessInv, family, semas, start
<1>1. TypeOK'
  BY DEF TypeOK
<1>2. FamilyInv'
  BY Zenon DEF FamilyInv
<1>3. ExitInv'
  BY Zenon DEF ExitInv
<1>4. CallInv'
  <2>1. \A q \in Proc : q # p => result'[q] = result[q]
    BY Zenon DEF TypeOK
  <2> QED  BY <2>1, Zenon DEF CallInv
<1>5. LoadInv'
  BY Zenon DEF LoadInv
<1> QED  BY <1>1, <1>2, <1>3, <1>4, <1>5, Zenon

(* exit and kill: the process ran, so nobody has read its status yet. *)
LEMMA EndStep ==
  ASSUME ProcessInv, NEW p \in Proc, pc[p] = "run", p # Main, NEW s \in Int,
         pc' = [pc EXCEPT ![p] = "exit"],
         exit_status' = [exit_status EXCEPT ![p] = s] \/ exit_status' = exit_status,
         UNCHANGED <<family, child, semas, start, in_execute, result>>
  PROVE  ProcessInv'
<1> USE ProcessAssumption DEF ProcessInv, family, semas, start
<1>1. /\ \A q \in Proc : pc'[q] = IF q = p THEN "exit" ELSE pc[q]
      /\ \A q \in Proc : q # p => exit_status'[q] = exit_status[q]
  BY Zenon DEF TypeOK
<1>2. TypeOK'
  BY DEF TypeOK, Alive
<1>3. FamilyInv'
  BY <1>1, FamilySame DEF FamilyInv, Alive
<1>4. ExitInv'
  BY <1>1, ExitSame DEF Gone
<1>5. CallInv'
  BY <1>1 DEF CallInv
<1>6. LoadInv'
  BY <1>1 DEF LoadInv
<1> QED  BY <1>2, <1>3, <1>4, <1>5, <1>6, Zenon

-----------------------------------------------------------------------------
(* start_process, in the child: nobody reaps it meanwhile, and its parent  *)
(* is still in process_execute until load ups wait_load.                   *)
LEMMA StartStep ==
  ASSUME ProcessInv, NEW c \in Proc, start_process(c)
  PROVE  ProcessInv'
<1> USE ProcessAssumption DEF ProcessInv, family, semas
<1>1. /\ pc[c] = "start"
      /\ UNCHANGED <<parent, child_list, child, wait_load, wait_lock, wait_memory, wait_free,
                     process_started, loaded, fn_copy, exit_status, in_execute, result>>
      /\ \A q \in Proc : pc'[q] = IF q = c THEN "load" ELSE pc[q]
      /\ lan_lock'[c] /\ \A q \in Proc : q # c => lan_lock'[q] = lan_lock[q]
  BY Zenon DEF start_process, At, Goto, TypeOK
<1>2. TypeOK'
  BY Zenon DEF TypeOK, start_process, Goto, Alive
<1>3. c # Main
  BY <1>1, Zenon DEF FamilyInv
<1>4. FamilyInv'
  BY <1>1, <1>3, FamilySame DEF FamilyInv, Alive
<1>5. ExitInv'
  BY <1>1, ExitSame, Zenon DEF Gone
<1>6. CallInv'
  BY <1>1, Zenon DEF CallInv
<1>7. LoadInv'
  BY <1>1, <1>3, Known DEF LoadInv
<1> QED  BY <1>2, <1>4, <1>5, <1>6, <1>7, Zenon

(* load, in the child, and its sema_up on wait_load: its parent is in      *)
(* process_execute still, so nobody reaps it.                              *)
LEMMA LoadStep ==
  ASSUME ProcessInv, NEW c \in Proc, NEW b \in BOOLEAN, load(c, b)
  PROVE  ProcessInv'
<1> USE ProcessAssumption DEF ProcessInv, family
<1>1. c # Main /\ parent[c] \in Proc
  BY Zenon DEF load, At, FamilyInv, Alive
<1>2. /\ pc[c] = "load"
      /\ UNCHANGED <<parent, child_list, child, wait_lock, wait_memory, wait_free,
                     process_started, lan_lock, fn_copy, exit_status, in_execute, result>>
      /\ \A q \in Proc : pc'[q] = IF q = c THEN "stack_build" ELSE pc[q]
      /\ \A q \in Proc : wait_load'[q] = IF q = parent[c] THEN wait_load[q] + 1 ELSE wait_load[q]
  BY <1>1, Zenon DEF load, At, Goto, Up, TypeOK
<1>3. TypeOK'
  BY <1>1 DEF TypeOK, load, Goto, Up, Alive
<1>4. FamilyInv'
  BY <1>1, <1>2, FamilySame DEF FamilyInv, Alive
<1>5. ExitInv'
  BY <1>2, ExitSame, Zenon DEF Gone
<1>6. CallInv'
  BY <1>2, Zenon DEF CallInv
<1>7. LoadInv'
  <2>1. /\ pc[parent[c]] = "execute" /\ child[parent[c]] = c /\ fn_copy[c] = "live"
        /\ wait_load[parent[c]] = 0 /\ parent[c] # c
    BY <1>1, <1>2 DEF LoadInv
  <2> QED  BY <1>1, <1>2, <2>1, Known DEF LoadInv
<1> QED  BY <1>3, <1>4, <1>5, <1>6, <1>7, Zenon

(* stack_build, in the child, reads the command line under lan.lock.       *)
LEMMA StackStep ==
  ASSUME ProcessInv, NEW c \in Proc, stack_build(c)
  PROVE  ProcessInv'
<1> USE ProcessAssumption DEF ProcessInv, family, semas
<1>1. /\ pc[c] = "stack_build"
      /\ UNCHANGED <<parent, child_list, child, wait_load, wait_lock, wait_memory, wait_free,
                     process_started, loaded, fn_copy, exit_status, in_execute, result>>
      /\ \A q \in Proc : q # c => pc'[q] = pc[q] /\ lan_lock'[q] = lan_lock[q]
      /\ pc'[c] \in {"started", "exit"}
  BY Zenon DEF stack_build, At, Goto, TypeOK
<1>2. TypeOK'
  BY Zenon DEF TypeOK, stack_build, Goto, Alive
<1>3. c # Main
  BY <1>1, Zenon DEF FamilyInv
<1>4. FamilyInv'
  BY <1>1, <1>3, FamilySame, Zenon DEF FamilyInv, Alive
<1>5. ExitInv'
  BY <1>1, ExitSame, Zenon DEF Gone
<1>6. CallInv'
  BY <1>1, Zenon DEF CallInv
<1>7. LoadInv'
  BY <1>1, <1>3, Known DEF LoadInv
<1> QED  BY <1>2, <1>4, <1>5, <1>6, <1>7, Zenon

(* The child tells its parent that it has started, and runs user code.     *)
LEMMA StartedStep ==
  ASSUME ProcessInv, NEW c \in Proc, started(c)
  PROVE  ProcessInv'
<1> USE ProcessAssumption DEF ProcessInv, family, semas
<1>1. /\ pc[c] = "started"
      /\ UNCHANGED <<parent, child_list, child, wait_load, wait_lock, wait_memory, wait_free,
                     loaded, lan_lock, fn_copy, exit_status, in_execute, result>>
      /\ \A q \in Proc : pc'[q] = IF q = c THEN "run" ELSE pc[q]
  BY Zenon DEF started, At, Goto, TypeOK
<1>2. c # Main /\ parent[c] \in Proc
  BY <1>1, Zenon DEF FamilyInv, Alive
<1>3. TypeOK'
  BY <1>2, Zenon DEF TypeOK, started, Goto, Alive
<1>4. FamilyInv'
  BY <1>1, <1>2, FamilySame DEF FamilyInv, Alive
<1>5. ExitInv'
  BY <1>1, ExitSame, Zenon DEF Gone
<1>6. CallInv'
  BY <1>1, Zenon DEF CallInv
<1>7. LoadInv'
  BY <1>1, <1>2, Known DEF LoadInv
<1> QED  BY <1>3, <1>4, <1>5, <1>6, <1>7, Zenon

-----------------------------------------------------------------------------
(* process_execute, in the parent: thread_create puts the child on the     *)
(* list ...                                                                *)
LEMMA ExecuteStep ==
  ASSUME ProcessInv, NEW p \in Proc, NEW c \in Proc, process_execute(p, c)
  PROVE  ProcessInv'
<1> USE ProcessAssumption DEF ProcessInv, family, semas
<1>1. /\ pc[p] = "run" /\ pc[c] = "unused"
      /\ UNCHANGED <<wait_load, wait_lock, wait_memory, wait_free, process_started, loaded,
                     lan_lock, exit_status, in_execute>>
      /\ \A q \in Proc : pc'[q] = IF q = c THEN "start" ELSE IF q = p THEN "execute" ELSE pc[q]
      /\ \A q \in Proc : parent'[q] = IF q = c THEN p ELSE parent[q]
      /\ \A q \in Proc : child_list'[q] = IF q = p THEN child_list[p] \cup {c} ELSE child_list[q]
      /\ \A q \in Proc : child'[q] = IF q = p THEN c ELSE child[q]
      /\ \A q \in Proc : fn_copy'[q] = IF q = c THEN "live" ELSE fn_copy[q]
      /\ \A q \in Proc : q # p => result'[q] = result[q]
  BY Zenon DEF process_execute, At, TypeOK
<1>2. TypeOK'
  <2>1. pc' \in [Proc -> Alive \cup {"unused", "exit_memory", "dying", "freed"}]
    BY Zenon DEF TypeOK, process_execute, Alive
  <2>2. /\ parent' \in [Proc -> Proc \cup {NoProc}] /\ child_list' \in [Proc -> SUBSET Proc]
        /\ child' \in [Proc -> Proc \cup {NoProc}] /\ fn_copy' \in [Proc -> {"none", "live", "free"}]
    BY DEF TypeOK, process_execute
  <2>3. result' \in [Proc -> Proc \cup Int]
    BY DEF TypeOK, process_execute, NoResult
  <2> QED  BY <1>1, <2>1, <2>2, <2>3, Zenon DEF TypeOK
<1>3. c # Main /\ c # p /\ \A q \in Proc : c \notin child_list[q]
  BY <1>1 DEF FamilyInv
<1>4. FamilyInv'
  BY <1>1, <1>3 DEF FamilyInv, Alive
<1>5. ExitInv'
  BY <1>1, <1>3 DEF ExitInv
<1>6. CallInv'
  BY <1>1, <1>3, Known DEF CallInv
<1>7. LoadInv'
  <2>1. \A q \in Proc : pc[q] = "execute" => child[q] \in Proc /\ child[q] # c
    BY <1>3, Zenon DEF CallInv
  <2> QED  BY <1>1, <1>3, <2>1, Known DEF LoadInv
<1> QED  BY <1>2, <1>4, <1>5, <1>6, <1>7, Zenon

(* ... wait_load comes down when the child's load is over ...              *)
LEMMA LoadedStep ==
  ASSUME ProcessInv, NEW p \in Proc, execute_loaded(p)
  PROVE  ProcessInv'
<1> USE ProcessAssumption DEF ProcessInv, family
<1> DEFINE c == child[p]
<1>1. /\ pc[p] = "execute" /\ wait_load[p] > 0
      /\ UNCHANGED <<parent, child_list, child, wait_lock, wait_memory, wait_free,
                     process_started, loaded, lan_lock, exit_status, result>>
      /\ \A q \in Proc : wait_load'[q] = IF q = p THEN wait_load[p] - 1 ELSE wait_load[q]
      /\ \A q \in Proc : q # p => pc'[q] = pc[q] /\ in_execute'[q] = in_execute[q]
      /\ \A q \in Proc : q # c => fn_copy'[q] = fn_copy[q]
      /\ \/ pc'[p] = "execute_lock" /\ in_execute' = in_execute /\ fn_copy' = fn_copy
         \/ pc'[p] = "wait" /\ in_execute'[p]
  BY DEF execute_loaded, Down, Goto, At, TypeOK
<1>2. c \in Proc /\ c \in child_list[p] /\ wait_load[p] = 1 /\ pc[c] \notin {"start", "load"}
  BY <1>1 DEF CallInv, LoadInv
<1>3. parent[c] = p
  BY <1>2, Zenon DEF FamilyInv
<1>4. TypeOK'
  <2>1. wait_load' \in [Proc -> Nat]
    BY <1>1 DEF TypeOK, execute_loaded, Down
  <2>2. pc' \in [Proc -> Alive \cup {"unused", "exit_memory", "dying", "freed"}]
    BY Zenon DEF TypeOK, execute_loaded, Goto, Alive
  <2>3. fn_copy' \in [Proc -> {"none", "live", "free"}] /\ in_execute' \in [Proc -> BOOLEAN]
    BY <1>2, Zenon DEF TypeOK, execute_loaded
  <2> QED  BY <1>1, <2>1, <2>2, <2>3, Zenon DEF TypeOK
<1>5. FamilyInv'
  BY <1>1, FamilySame, Zenon DEF FamilyInv, Alive
<1>6. ExitInv'
  BY <1>1, ExitSame, Zenon DEF Gone
<1>7. CallInv'
  BY <1>1, <1>2, Known, Zenon DEF CallInv
<1>8. LoadInv'
  BY <1>1, <1>2, <1>3, Known DEF LoadInv
<1> QED  BY <1>4, <1>5, <1>6, <1>7, <1>8, Zenon

(* ... and lan.lock, which the child holds until stack_build is over,      *)
(* comes before the command line is freed.                                 *)
LEMMA DoneStep ==
  ASSUME ProcessInv, NEW p \in Proc, execute_done(p)
  PROVE  ProcessInv'
<1> USE ProcessAssumption DEF ProcessInv, family, semas
<1> DEFINE c == child[p]
<1>1. /\ pc[p] = "execute_lock" /\ ~lan_lock[c]
      /\ UNCHANGED <<parent, child_list, child, wait_load, wait_lock, wait_memory, wait_free,
                     process_started, loaded, lan_lock, exit_status, in_execute>>
      /\ \A q \in Proc : pc'[q] = IF q = p THEN "run" ELSE pc[q]
      /\ \A q \in Proc : q # c => fn_copy'[q] = fn_copy[q]
      /\ \A q \in Proc : q # p => result'[q] = result[q]
  BY Zenon DEF execute_done, Goto, At, TypeOK
<1>2. c \in Proc /\ c \in child_list[p]
  BY <1>1, Zenon DEF CallInv
<1>3. parent[c] = p
  BY <1>2, Zenon DEF FamilyInv
<1>4. TypeOK'
  BY <1>2, Zenon DEF TypeOK, execute_done, Goto, Alive
<1>5. FamilyInv'
  BY <1>1, FamilySame DEF FamilyInv, Alive
<1>6. ExitInv'
  BY <1>1, ExitSame, Zenon DEF Gone
<1>7. CallInv'
  BY <1>1, <1>2, Known, Zenon DEF CallInv
<1>8. LoadInv'
  <2>1. pc[c] \notin {"start", "load", "stack_build"}
    BY <1>1, <1>2, <1>3, Zenon DEF LoadInv
  <2> QED  BY <1>1, <1>2, <1>3, <2>1, Known DEF LoadInv
<1> QED  BY <1>4, <1>5, <1>6, <1>7, <1>8, Zenon

-----------------------------------------------------------------------------
(* process_wait: only the parent takes a child off its list, so the child  *)
(* it has found there stays until it is reaped ...                         *)
LEMMA WaitStep ==
  ASSUME ProcessInv, NEW p \in Proc, NEW c \in Proc, process_wait(p, c)
  PROVE  ProcessInv'
<1> USE ProcessAssumption DEF ProcessInv, family, semas, start
<1>1. /\ pc[p] = "run" /\ c \in child_list[p]
      /\ UNCHANGED <<parent, child_list, wait_load, wait_lock, wait_memory, wait_free,
                     process_started, loaded, lan_lock, fn_copy, exit_status, in_execute>>
      /\ \A q \in Proc : pc'[q] = IF q = p THEN "wait" ELSE pc[q]
      /\ \A q \in Proc : child'[q] = IF q = p THEN c ELSE child[q]
      /\ \A q \in Proc : q # p => result'[q] = result[q]
  BY Zenon DEF process_wait, At, Goto, TypeOK
<1>2. TypeOK'
  <2>1. pc' \in [Proc -> Alive \cup {"unused", "exit_memory", "dying", "freed"}]
    BY Zenon DEF TypeOK, process_wait, Goto, Alive
  <2>2. child' \in [Proc -> Proc \cup {NoProc}] /\ result' \in [Proc -> Proc \cup Int]
    BY DEF TypeOK, process_wait, NoResult
  <2> QED  BY <1>1, <2>1, <2>2, Zenon DEF TypeOK
<1>3. FamilyInv'
  BY <1>1, FamilySame, Zenon DEF FamilyInv, Alive
<1>4. ExitInv'
  BY <1>1, ExitSame, Zenon DEF Gone
<1>5. CallInv'
  BY <1>1, Known DEF CallInv
<1>6. LoadInv'
  BY <1>1, Known DEF LoadInv
<1> QED  BY <1>2, <1>3, <1>4, <1>5, <1>6, Zenon

(* ... which is when wait_lock says that it has exited.                    *)
LEMMA ReapStep ==
  ASSUME ProcessInv, NEW p \in Proc, wait_reap(p)
  PROVE  ProcessInv'
<1> USE ProcessAssumption DEF ProcessInv, start
<1> DEFINE c == child[p]
<1>1. c \in Proc /\ c \in child_list[p]
  BY Zenon DEF wait_reap, At, CallInv
<1>2. /\ pc[p] = "wait" /\ wait_lock[c] > 0
      /\ UNCHANGED <<parent, child, wait_load, wait_free, process_started, loaded,
                     lan_lock, fn_copy, exit_status, in_execute>>
      /\ \A q \in Proc : pc'[q] = IF q = p THEN "wait_free" ELSE pc[q]
      /\ \A q \in Proc : child_list'[q] = IF q = p THEN child_list[p] \ {c} ELSE child_list[q]
      /\ \A q \in Proc : wait_lock'[q] = IF q = c THEN wait_lock[c] - 1 ELSE wait_lock[q]
      /\ \A q \in Proc : wait_memory'[q] = IF q = c THEN wait_memory[c] + 1 ELSE wait_memory[q]
      /\ \A q \in Proc : result'[q] = IF q = p THEN exit_status[c] ELSE result[q]
  BY <1>1, Zenon DEF wait_reap, At, Goto, Up, Down, TypeOK
<1>3. /\ parent[c] = p /\ pc[c] = "exit_memory" /\ c # p
      /\ wait_lock[c] = 1 /\ wait_memory[c] = 0
  BY <1>1, <1>2 DEF FamilyInv, ExitInv
<1>4. TypeOK'
  <2>1. pc' \in [Proc -> Alive \cup {"unused", "exit_memory", "dying", "freed"}]
    BY Zenon DEF TypeOK, wait_reap, Goto, Alive
  <2>2. child_list' \in [Proc -> SUBSET Proc] /\ result' \in [Proc -> Proc \cup Int]
    BY <1>1, Zenon DEF TypeOK, wait_reap
  <2>3. wait_lock' \in [Proc -> Nat] /\ wait_memory' \in [Proc -> Nat]
    BY <1>1, <1>2 DEF TypeOK, wait_reap, Up, Down
  <2> QED  BY <1>2, <2>1, <2>2, <2>3, Zenon DEF TypeOK
<1>5. FamilyInv'
  BY <1>1, <1>2, <1>3 DEF FamilyInv, Alive
<1>6. ExitInv'
  <2>1. \A q \in Proc : c \notin child_list'[q]
    BY <1>1, <1>2, <1>3 DEF FamilyInv
  <2> QED  BY <1>1, <1>2, <1>3, <2>1 DEF ExitInv
<1>7. CallInv'
  BY <1>1, <1>2, <1>3, Known DEF CallInv
<1>8. LoadInv'
  BY <1>1, <1>2, <1>3, Known DEF LoadInv
<1> QED  BY <1>4, <1>5, <1>6, <1>7, <1>8, Zenon

(* The end of process_wait: the parent goes on, sleeps, or is lost. *)
LEMMA FreeStep ==
  ASSUME ProcessInv, NEW p \in Proc, wait_free_down(p) \/ wait_free_stale(p)
  PROVE  ProcessInv'
<1> USE ProcessAssumption DEF ProcessInv, family, start, semas
<1>1. /\ pc[p] = "wait_free"
      /\ UNCHANGED <<parent, child_list, child, wait_load, wait_lock, wait_memory,
                     process_started, loaded, lan_lock, fn_copy, exit_status>>
      /\ \A q \in Proc : q # p => pc'[q] = pc[q] /\ result'[q] = result[q]
                                 /\ in_execute'[q] = in_execute[q]
      /\ pc'[p] \in {"run", "wait_free_sleep", "lost"}
      /\ pc'[p] = "wait_free_sleep" => result' = result
  BY DEF wait_free_down, wait_free_stale, Return, At, Goto, TypeOK
<1>2. child[p] \in Proc
  BY <1>1, Known, Zenon
<1>3. TypeOK'
  <2>1. pc' \in [Proc -> Alive \cup {"unused", "exit_memory", "dying", "freed"}]
    BY Zenon DEF TypeOK, wait_free_down, wait_free_stale, Return, Goto, Alive
  <2>2. in_execute' \in [Proc -> BOOLEAN] /\ result' \in [Proc -> Proc \cup Int]
    <3>1. \/ in_execute' = in_execute /\ result' = result
          \/ /\ in_execute' = [in_execute EXCEPT ![p] = FALSE]
             /\ \/ result' = [result EXCEPT ![p] = TID_ERROR]
                \/ result' = [result EXCEPT ![p] = @]
      BY Zenon DEF wait_free_down, wait_free_stale, Return
    <3>2. in_execute' \in [Proc -> BOOLEAN]
      BY <3>1, Zenon DEF TypeOK
    <3>3. TID_ERROR \in Proc \cup Int /\ result \in [Proc -> Proc \cup Int]
      BY DEF TypeOK, TID_ERROR
    <3>4. result' \in [Proc -> Proc \cup Int]
      BY <3>1, <3>3, Zenon
    <3> QED  BY <3>2, <3>4, Zenon
  <2>3. wait_free' \in [Proc -> Nat]
    BY <1>2 DEF TypeOK, wait_free_down, wait_free_stale, Return, Down
  <2> QED  BY <1>1, <2>1, <2>2, <2>3, Zenon DEF TypeOK
<1>4. FamilyInv'
  BY <1>1, FamilySame, Zenon DEF FamilyInv, Alive
<1>5. ExitInv'
  BY <1>1, ExitSame, Zenon DEF Gone
<1>6. CallInv'
  BY <1>1, <1>2, Known, Zenon DEF CallInv
<1>7. LoadInv'
  BY <1>1, Known DEF LoadInv
<1> QED  BY <1>3, <1>4, <1>5, <1>6, <1>7, Zenon

-----------------------------------------------------------------------------
(* process_exit: the process has not been reaped when it ups wait_lock ... *)
LEMMA ExitStep ==
  ASSUME ProcessInv, NEW p \in Proc, process_exit(p)
  PROVE  ProcessInv'
<1> USE ProcessAssumption DEF ProcessInv, family, start
<1>1. /\ pc[p] = "exit"
      /\ UNCHANGED <<parent, child_list, child, wait_load, wait_memory, wait_free,
                     process_started, loaded, lan_lock, fn_copy, exit_status, in_execute, result>>
      /\ \A q \in Proc : pc'[q] = IF q = p THEN "exit_memory" ELSE pc[q]
      /\ \A q \in Proc : wait_lock'[q] = IF q = p THEN wait_lock[p] + 1 ELSE wait_lock[q]
  BY Zenon DEF process_exit, At, Goto, Up, TypeOK
<1>2. TypeOK'
  BY DEF TypeOK, process_exit, Goto, Up, Alive
<1>3. p # Main
  BY <1>1, Zenon DEF FamilyInv
<1>4. FamilyInv'
  BY <1>1, <1>3, FamilySame, Zenon DEF FamilyInv, Alive
<1>5. ExitInv'
  BY <1>1 DEF ExitInv
<1>6. CallInv'
  BY <1>1, Known, Zenon DEF CallInv
<1>7. LoadInv'
  BY <1>1, Known DEF LoadInv
<1> QED  BY <1>2, <1>4, <1>5, <1>6, <1>7, Zenon

(* ... has been when it gets wait_memory, and is freed after that.         *)
LEMMA MemoryStep ==
  ASSUME ProcessInv, NEW p \in Proc, exit_memory(p)
  PROVE  ProcessInv'
<1> USE ProcessAssumption DEF ProcessInv, family, start
<1>1. /\ pc[p] = "exit_memory" /\ wait_memory[p] > 0
      /\ UNCHANGED <<parent, child_list, child, wait_load, wait_lock,
                     process_started, loaded, lan_lock, fn_copy, exit_status, in_execute, result>>
      /\ pc'[p] = "dying"
      /\ \A q \in Proc : q # p => \/ pc'[q] = pc[q]
                                  \/ pc[q] = "wait_free_sleep" /\ pc'[q] = "wait_free"
      /\ \A q \in Proc : wait_memory'[q] = IF q = p THEN wait_memory[p] - 1 ELSE wait_memory[q]
  BY Zenon DEF exit_memory, At, Down, TypeOK
<1>2. p # Main /\ wait_lock[p] = 0 /\ wait_memory[p] = 1 /\ \A q \in Proc : p \notin child_list[q]
  BY <1>1 DEF FamilyInv, ExitInv
<1>3. TypeOK'
  <2>1. pc' \in [Proc -> Alive \cup {"unused", "exit_memory", "dying", "freed"}]
    BY Zenon DEF TypeOK, exit_memory, Alive
  <2>2. wait_memory' \in [Proc -> Nat] /\ wait_free' \in [Proc -> Nat]
    BY <1>1 DEF TypeOK, exit_memory, Up, Down
  <2> QED  BY <1>1, <2>1, <2>2, Zenon DEF TypeOK
<1>4. FamilyInv'
  BY <1>1, <1>2, FamilySame, Zenon DEF FamilyInv, Alive
<1>5. ExitInv'
  BY <1>1, <1>2 DEF ExitInv
<1>6. CallInv'
  BY <1>1, Known, Zenon DEF CallInv
<1>7. LoadInv'
  BY <1>1, Known DEF LoadInv
<1> QED  BY <1>3, <1>4, <1>5, <1>6, <1>7, Zenon

(* schedule_tail frees the thread, which its parent has reaped.            *)
LEMMA TailStep ==
  ASSUME ProcessInv, NEW p \in Proc, schedule_tail(p)
  PROVE  ProcessInv'
<1> USE ProcessAssumption DEF ProcessInv, family, start, semas
<1>1. /\ pc[p] = "dying"
      /\ UNCHANGED <<parent, child_list, child, wait_load, wait_lock, wait_memory, wait_free,
                     process_started, loaded, lan_lock, fn_copy, exit_status, in_execute, result>>
      /\ \A q \in Proc : pc'[q] = IF q = p THEN "freed" ELSE pc[q]
  BY Zenon DEF schedule_tail, At, Goto, TypeOK
<1>2. TypeOK'
  BY Zenon DEF TypeOK, schedule_tail, Goto, Alive
<1>3. p # Main
  BY <1>1, Zenon DEF FamilyInv
<1>4. FamilyInv'
  BY <1>1, <1>3, FamilySame, Zenon DEF FamilyInv, Alive
<1>5. ExitInv'
  BY <1>1, Zenon DEF ExitInv
<1>6. CallInv'
  BY <1>1, Known, Zenon DEF CallInv
<1>7. LoadInv'
  BY <1>1, Known DEF LoadInv
<1> QED  BY <1>2, <1>4, <1>5, <1>6, <1>7, Zenon

-----------------------------------------------------------------------------
(* Every step preserves the invariant. *)
LEMMA NextInv == ProcessInv /\ [Next]_vars => ProcessInv'
<1> USE ProcessAssumption
<1> SUFFICES ASSUME ProcessInv, [Next]_vars
             PROVE  ProcessInv'
  BY Zenon
<1>1. CASE UNCHANGED vars
  BY <1>1 DEF vars, family, semas, start, ProcessInv, TypeOK, FamilyInv, ExitInv, CallInv, LoadInv
<1>2. CASE Next
  <2>1. PICK p \in Proc : Kernel(p) \/ User(p)
    BY <1>2, Zenon DEF Next
  <2>2. CASE Kernel(p)
    BY Zenon, <2>2, LoadedStep, DoneStep, StartStep, LoadStep, StackStep, StartedStep, ReapStep,
       FreeStep, ExitStep, MemoryStep, TailStep, Zenon DEF Kernel
  <2>3. CASE User(p)
    <3>1. CASE execute_fails(p) \/ \E c \in Proc : wait_fails(p, c)
      BY <3>1, FailStep, Zenon DEF execute_fails, wait_fails, At, TID_ERROR
    <3>2. CASE kill(p) \/ \E s \in Status : exit(p, s)
      BY <3>2, EndStep DEF kill, exit, At, Goto
    <3>3. CASE \E c \in Proc : process_execute(p, c) \/ process_wait(p, c)
      BY <3>3, ExecuteStep, WaitStep, Zenon
    <3> QED  BY <2>3, <3>1, <3>2, <3>3, Zenon DEF User
  <2> QED  BY <2>1, <2>2, <2>3, Zenon
<1> QED  BY <1>1, <1>2, Zenon

(* The invariant holds in every reachable state. *)
THEOREM Invariance == Spec => []ProcessInv
BY InitInv, NextInv, PTL DEF Spec

(* process_wait: a parent that has read the status of its child has taken  *)
(* it off its list, the child runs no user code any more, and the status   *)
(* is final: this is what the handover of wait_lock and wait_memory gives. *)
THEOREM ReapedHasExited == Spec => []ReapedIsOver
<1>1. ProcessInv => ReapedIsOver
  BY Zenon DEF ProcessInv, CallInv, ReapedIsOver
<1> QED  BY <1>1, Invariance, PTL

(* Nothing is freed that another process uses: a struct thread stays while *)
(* it is on its parent's child_list, and the command line while            *)
(* stack_build reads it, unless process_execute takes the load for failed. *)
THEOREM NothingInUseIsFreed == Spec => []InUseIsAlive
<1>1. ProcessInv => InUseIsAlive
  <2> SUFFICES ASSUME ProcessInv
               PROVE  InUseIsAlive
    BY Zenon
  <2>1. \A p \in Proc : \A c \in child_list[p] : pc[c] # "freed"
    BY Zenon DEF ProcessInv, TypeOK, ExitInv
  <2>2. \A c \in Proc : pc[c] = "stack_build" /\ fn_copy[c] = "free" => in_execute[parent[c]]
    BY Zenon DEF ProcessInv, LoadInv
  <2> QED  BY <2>1, <2>2, Zenon DEF InUseIsAlive
<1> QED  BY <1>1, Invariance, PTL

=============================================================================
