-------------------------------- MODULE Disk --------------------------------
(***************************************************************************)
(* One channel of devices/disk.c: the detection of its disks, transfers by *)
(* threads, the interrupt handler and, external to the kernel, the ATA     *)
(* devices.  The two channels share no state.                              *)
(*                                                                         *)
(*   c      struct channel: its lock's holder, expecting_interrupt and the *)
(*          value of completion_wait                                       *)
(*   disk   struct disk of device 0 and 1, without the statistics          *)
(*   hw     the registers: status, command, selected device and sector,    *)
(*          the data of the transfer, and whether an interrupt is pending  *)
(*   kind   what is attached                                               *)
(*   halt   "panic" or "late" once the code has given up waiting for a     *)
(*          device: the model ends there                                   *)
(***************************************************************************)
EXTENDS Integers

CONSTANTS
  Thread,
  Main,          \* the thread that runs disk_init
  Nobody,
  Value,         \* of a sector
  Zero,          \* what sectors hold at first
  Attached,      \* the pairs of devices that may be attached
  Capacity,      \* of a disk, in sectors
  MaxSpurious,   \* bound on interrupts that no device asked for
  NoData

Dev == {0, 1}
Sector == 0 .. Capacity - 1

ASSUME DiskAssumption ==
  /\ Main \in Thread /\ Nobody \notin Thread
  /\ Zero \in Value /\ NoData \notin Value
  /\ Attached \subseteq [Dev -> {"ata", "sata", "atapi", "deaf", "alone", "none"}]
  /\ \A k \in Attached : k[1] # "alone"
  /\ Capacity \in Nat \ {0} /\ MaxSpurious \in Nat

VARIABLES kind, c, disk, hw, platter, task, spurious, halt

vars == <<kind, c, disk, hw, platter, task, spurious, halt>>

-----------------------------------------------------------------------------
(* Registers                                                               *)

(* Reading the status register clears a pending interrupt. *)
wait_until_idle(h) == [h EXCEPT !.irq = FALSE]

select_device(h, d) == [h EXCEPT !.device = d]

select_device_wait(h, d) == wait_until_idle(select_device(wait_until_idle(h), d))

(* Bug: as if the channel were idle. *)
Idle_Always == TRUE

(* wait_until_idle returns; on "reset" the code polls for as long. *)
Idle == hw.status = "idle"

(* wait_while_busy returns, and then the DRQ bit. *)
wait_while_busy == hw.status # "busy"
Drq == hw.status = "drq"

Command(h, cmd) == [h EXCEPT !.command = cmd, !.status = "busy", !.data = NoData]

-----------------------------------------------------------------------------
(* The devices                                                             *)

(* What a device shows after a reset.  An "alone" master is a disk that    *)
(* reports its slave as failed; a "deaf" one does not answer IDENTIFY.     *)
Signature(k) ==
  [error |-> IF k = "none" THEN 0 ELSE IF k = "alone" THEN 129 ELSE 1,
   lbam  |-> CASE k = "atapi" -> 20 [] k = "sata" -> 60 [] OTHER -> 0,
   lbah  |-> CASE k = "atapi" -> 235 [] k = "sata" -> 195 [] OTHER -> 0,
   ready |-> k \notin {"none", "atapi"}]

IsDisk(d) == kind[d] \in {"ata", "sata"} \/ (kind[d] = "alone" /\ d = 0)

(* The selected device finishes what it was told. *)
Device ==
  LET d == hw.device
      k == hw.command
      written == k = "write" /\ hw.data # NoData
  IN /\ hw.status = "busy"
     /\ hw' = [hw EXCEPT !.status = IF k = "reset" \/ written \/ (k = "identify" /\ kind[d] = "deaf")
                                    THEN "idle" ELSE "drq",
                         !.irq = @ \/ (k # "reset" /\ (k = "write" => written)),
                         !.data = CASE k = "read" -> platter[d][hw.sector]
                                    [] written -> NoData
                                    [] OTHER -> @]
     /\ platter' = IF written THEN [platter EXCEPT ![d][hw.sector] = hw.data] ELSE platter
     /\ UNCHANGED <<kind, c, disk, task, spurious>>

(* An interrupt comes that nobody asked for. *)
Spurious ==
  /\ spurious < MaxSpurious /\ ~ hw.irq
  /\ hw' = [hw EXCEPT !.irq = TRUE]
  /\ spurious' = spurious + 1
  /\ UNCHANGED <<kind, c, disk, platter, task>>

(* expecting_interrupt is never reset: after the first command every       *)
(* interrupt counts.                                                       *)
interrupt_handler ==
  /\ hw.irq
  /\ hw' = [hw EXCEPT !.irq = FALSE]
  /\ c' = [c EXCEPT !.completion_wait = @ + IF c.expecting_interrupt THEN 1 ELSE 0]
  /\ UNCHANGED <<kind, disk, platter, task, spurious>>

-----------------------------------------------------------------------------
(* What threads do                                                         *)

NoCall == [at |-> "out", op |-> "none", d |-> 0, sec |-> 0, data |-> NoData]

At(t, place) == task[t].at = place
GoTo(t, place) == task' = [task EXCEPT ![t].at = place]

(* disk_init before reset_channel. *)
Init ==
  /\ kind \in Attached
  /\ c = [lock |-> Nobody, expecting_interrupt |-> FALSE, completion_wait |-> 0]
  /\ disk = [d \in Dev |-> [is_ata |-> FALSE, capacity |-> 0]]
  /\ hw = [status |-> "idle", command |-> "none", device |-> 0, sector |-> 0,
           data |-> NoData, irq |-> FALSE]
  /\ platter = [d \in Dev |-> [s \in Sector |-> Zero]]
  /\ task = [t \in Thread |-> IF t = Main THEN [NoCall EXCEPT !.at = "reset"] ELSE NoCall]
  /\ spurious = 0
  /\ halt = "no"

(* reset_channel up to the wait for the devices. *)
reset_channel ==
  /\ At(Main, "reset")
  /\ hw' = [Command(hw, "reset") EXCEPT !.device = 0]
  /\ GoTo(Main, "check")
  /\ UNCHANGED <<kind, c, disk, platter, spurious>>

(* Bug: other devices pass for disks. *)
check_device_type_AnyLba(d) ==
  LET r == Signature(kind[d])
      absent == (r.error # 1 /\ (r.error # 129 \/ d = 1)) \/ ~ r.ready
  IN [is_ata |-> r.error = 1, more |-> IF absent THEN r.error # 129 ELSE TRUE]

check_device_type(d) ==
  LET r == Signature(kind[d])
      absent == (r.error # 1 /\ (r.error # 129 \/ d = 1)) \/ ~ r.ready
  IN [is_ata |-> /\ ~ absent
                 /\ <<r.lbam, r.lbah>> \in {<<0, 0>>, <<60, 195>>},
      more   |-> IF absent THEN r.error # 129 ELSE TRUE]

(* Both calls of check_device_type. *)
disk_init_check ==
  LET more(d) == d = 0 \/ check_device_type(0).more IN
    /\ At(Main, "check") /\ wait_while_busy
    /\ disk' = [d \in Dev |-> [disk[d] EXCEPT !.is_ata = more(d) /\ check_device_type(d).is_ata]]
    /\ hw' = [hw EXCEPT !.device = IF more(1) THEN 1 ELSE 0]
    /\ task' = [task EXCEPT ![Main] = 
                  [at |-> "next", op |-> "identify", d |-> 0, sec |-> 0, data |-> NoData]]
    /\ UNCHANGED <<kind, c, platter, spurious>>

(* The loop over the devices. *)
disk_init_next ==
  /\ At(Main, "next")
  /\ LET d == task[Main].d IN
       \/ d = 2 /\ task' = [task EXCEPT ![Main] = NoCall]
       \/ d < 2 /\ disk[d].is_ata /\ GoTo(Main, "select")
       \/ d < 2 /\ ~ disk[d].is_ata /\ task' = [task EXCEPT ![Main].d = @ + 1]
  /\ UNCHANGED <<kind, c, disk, hw, platter, spurious>>

disk_get(d) == disk[d].is_ata
disk_size(d) == disk[d].capacity

(* A call, once disk_init is over. *)
disk_call(t, op, d, sec, v) ==
  /\ At(t, "out") /\ task[Main].op # "identify" /\ ~ At(Main, "reset") /\ ~ At(Main, "check")
  /\ disk_get(d) /\ sec < disk_size(d)
  /\ task' = [task EXCEPT ![t] = [at |-> "lock", op |-> op, d |-> d, sec |-> sec, data |-> v]]
  /\ UNCHANGED <<kind, c, disk, hw, platter, spurious>>

lock_acquire(t) ==
  /\ At(t, "lock") /\ c.lock = Nobody
  /\ c' = [c EXCEPT !.lock = t]
  /\ GoTo(t, "select")
  /\ UNCHANGED <<kind, disk, hw, platter, spurious>>

(* select_sector, or select_device_wait for IDENTIFY. *)
select_sector(t) ==
  /\ At(t, "select") /\ Idle
  /\ hw' = [select_device_wait(hw, task[t].d) EXCEPT !.sector = task[t].sec]
  /\ GoTo(t, "issue")
  /\ UNCHANGED <<kind, c, disk, platter, spurious>>

(* Bug: no interrupt is expected. *)
issue_pio_command_Unexpected(t) ==
  /\ At(t, "issue")
  /\ hw' = Command(hw, task[t].op)
  /\ GoTo(t, IF task[t].op = "write" THEN "transfer" ELSE "wait")
  /\ UNCHANGED <<kind, c, disk, platter, spurious>>

issue_pio_command(t) ==
  /\ At(t, "issue")
  /\ c' = [c EXCEPT !.expecting_interrupt = TRUE]
  /\ hw' = Command(hw, task[t].op)
  /\ GoTo(t, IF task[t].op = "write" THEN "transfer" ELSE "wait")
  /\ UNCHANGED <<kind, disk, platter, spurious>>

sema_down(t) ==
  /\ At(t, "wait") /\ c.completion_wait > 0
  /\ c' = [c EXCEPT !.completion_wait = @ - 1]
  /\ GoTo(t, IF task[t].op = "write" THEN "release" ELSE "transfer")
  /\ UNCHANGED <<kind, disk, hw, platter, spurious>>

(* disk_read from wait_while_busy on. *)
input_sector(t) ==
  /\ At(t, "transfer") /\ task[t].op = "read" /\ wait_while_busy /\ Drq
  /\ hw' = [hw EXCEPT !.status = "idle", !.data = NoData]
  /\ task' = [task EXCEPT ![t].data = hw.data, ![t].at = "release"]
  /\ UNCHANGED <<kind, c, disk, platter, spurious>>

(* disk_write from wait_while_busy on. *)
output_sector(t) ==
  /\ At(t, "transfer") /\ task[t].op = "write" /\ wait_while_busy /\ Drq
  /\ hw' = [hw EXCEPT !.status = "busy", !.data = task[t].data]
  /\ GoTo(t, "wait")
  /\ UNCHANGED <<kind, c, disk, platter, spurious>>

lock_release(t) ==
  /\ At(t, "release")
  /\ c' = [c EXCEPT !.lock = Nobody]
  /\ task' = [task EXCEPT ![t] = NoCall]
  /\ UNCHANGED <<kind, disk, hw, platter, spurious>>

(* identify_ata_device from wait_while_busy on. *)
identify_ata_device ==
  LET d == task[Main].d IN
    /\ At(Main, "transfer") /\ task[Main].op = "identify" /\ wait_while_busy
    /\ disk' = [disk EXCEPT ![d] = IF Drq THEN [@ EXCEPT !.capacity = Capacity]
                                   ELSE [@ EXCEPT !.is_ata = FALSE]]
    /\ hw' = [hw EXCEPT !.status = "idle"]
    /\ task' = [task EXCEPT ![Main] = [@ EXCEPT !.at = "next", !.d = d + 1]]
    /\ UNCHANGED <<kind, c, platter, spurious>>

-----------------------------------------------------------------------------
(* Devices that are too slow                                               *)

Stop(why) ==
  /\ halt' = why
  /\ UNCHANGED <<kind, c, disk, hw, platter, task, spurious>>

(* wait_while_busy gives up in disk_read or disk_write: the kernel panics. *)
(* (In identify_ata_device the disk counts as absent: a "deaf" device.)    *)
busy_timeout(t) ==
  /\ At(t, "transfer") /\ task[t].op # "identify" /\ hw.status = "busy"
  /\ Stop("panic")

(* wait_until_idle, or the poll after a reset, gives up: the code goes on  *)
(* with a device that is busy, and what follows is up to the device.       *)
idle_timeout(t) ==
  /\ At(t, "select") \/ At(t, "check")
  /\ ~Idle
  /\ Stop("late")

-----------------------------------------------------------------------------

Run(t) ==
  \/ lock_acquire(t) \/ select_sector(t) \/ issue_pio_command(t) \/ sema_down(t)
  \/ input_sector(t) \/ output_sector(t) \/ lock_release(t)

disk_init == reset_channel \/ disk_init_check \/ disk_init_next \/ identify_ata_device

Calls(t) ==
  \E d \in Dev, sec \in Sector :
    \/ disk_call(t, "read", d, sec, NoData)
    \/ \E v \in Value : disk_call(t, "write", d, sec, v)

Works(A) == halt = "no" /\ A /\ UNCHANGED halt

Next ==
  \/ Works(Device) \/ Works(Spurious) \/ Works(interrupt_handler) \/ Works(disk_init)
  \/ \E t \in Thread : Works(Run(t)) \/ Works(Calls(t))
  \/ \E t \in Thread : halt = "no" /\ (busy_timeout(t) \/ idle_timeout(t))

Spec == Init /\ [][Next]_vars

(* Devices answer, interrupts are on and threads run.  Nothing says who    *)
(* gets the lock: sema_up wakes the first waiter, but a thread that runs   *)
(* may take the lock again before that one does.                           *)
FairSpec ==
  /\ Spec
  /\ WF_vars(Works(Device)) /\ WF_vars(Works(interrupt_handler)) /\ WF_vars(Works(disk_init))
  /\ \A t \in Thread : WF_vars(Works(Run(t)))

-----------------------------------------------------------------------------

(* disk_get gives a disk exactly when one answers there, with its size:    *)
(* once disk_init is over is_ata and capacity agree with what is attached. *)
DetectedRight ==
  At(Main, "out") =>
    \A d \in Dev : /\ disk_get(d) <=> IsDisk(d)
                   /\ disk_size(d) = IF IsDisk(d) THEN Capacity ELSE 0

(* What the sectors hold, with a transfer to the device that is not over. *)
Held ==
  [d \in Dev |-> [s \in Sector |->
     IF hw.command = "write" /\ hw.status = "busy" /\ hw.data # NoData
        /\ d = hw.device /\ s = hw.sector
     THEN hw.data ELSE platter[d][s]]]

CallOf(t) ==
  IF task[t].op \notin {"read", "write"} THEN [op |-> "none", d |-> 0, sec |-> 0, data |-> NoData, over |-> FALSE]
  ELSE [op |-> task[t].op, d |-> task[t].d, sec |-> task[t].sec, data |-> task[t].data,
        over |-> At(t, "release") \/ (At(t, "wait") /\ task[t].op = "write")]

(* "Internally synchronizes accesses to disks": concurrent disk_read and   *)
(* disk_write calls are transfers of whole sectors, one at a time.         *)
S == INSTANCE Sectors WITH held <- Held, call <- [t \in Thread |-> CallOf(t)]
ImplementsSectors == S!Spec

(* When disk_read and disk_write find the device not busy it is ready for  *)
(* the transfer, and a read returns data: neither ends in a panic.         *)
TransferReady ==
  \A t \in Thread :
    /\ At(t, "transfer") /\ task[t].op # "identify" /\ wait_while_busy => Drq
    /\ At(t, "release") /\ task[t].op = "read" => task[t].data \in Value

Starts(t) == At(t, "out") /\ task'[t].at # "out"

(* Every transfer that has got the channel ends: no completion is missed   *)
(* and no thread keeps the lock, unless the code gives up on a device.     *)
(* Every call ends once no new ones come; until then a thread that calls   *)
(* again and again may keep a waiter from the lock.  disk_read and         *)
(* disk_write ask a device for a transfer only when it is ready, even if   *)
(* an interrupt came early.                                                *)
EveryTransferEnds ==
  /\ \A t \in Thread : []<>(c.lock # t \/ halt # "no")
  /\ (<>[][\A t \in Thread : ~Starts(t)]_vars) =>
       \A t \in Thread : []<>(At(t, "out") \/ halt # "no")
  /\ []TransferReady

-----------------------------------------------------------------------------
(* The inductive invariant behind DetectedRight, TransferReady and the     *)
(* refinement: types ...                                                   *)
Place ==
  {"out", "reset", "check", "next", "lock", "select", "issue", "wait", "transfer", "release"}

Channel == [lock : Thread \cup {Nobody}, expecting_interrupt : BOOLEAN, completion_wait : Nat]

Registers ==
  [status : {"idle", "busy", "drq"}, command : {"none", "reset", "identify", "read", "write"},
   device : Dev, sector : Sector, data : Value \cup {NoData}, irq : BOOLEAN]

Request ==
  [at : Place, op : {"none", "identify", "read", "write"},
   d : 0 .. 2, sec : Sector, data : Value \cup {NoData}]

TypeOK ==
  /\ kind \in Attached
  /\ c \in Channel
  /\ disk \in [Dev -> [is_ata : BOOLEAN, capacity : {0, Capacity}]]
  /\ hw \in Registers
  /\ platter \in [Dev -> [Sector -> Value]]
  /\ task \in [Thread -> Request]
  /\ spurious \in Nat

(* ... disk_init is over before anybody else comes, and after that who     *)
(* uses the channel has its lock ...                                       *)
Booting == task[Main].op = "identify" \/ task[Main].at \in {"reset", "check"}

TaskInv ==
  /\ Booting => /\ c.lock = Nobody
                /\ \A t \in Thread \ {Main} : task[t] = NoCall
                /\ \/ task[Main].op = "none" /\ task[Main].at \in {"reset", "check"}
                   \/ /\ task[Main].at \in {"next", "select", "issue", "wait", "transfer"}
                      /\ task[Main].at # "next" => task[Main].d \in Dev
  /\ ~Booting => \A t \in Thread :
       \/ task[t] = NoCall /\ c.lock # t
       \/ /\ task[t].op \in {"read", "write"} /\ task[t].d \in Dev
          /\ task[t].at \in {"lock", "select", "issue", "wait", "transfer", "release"}
          /\ c.lock = t <=> task[t].at # "lock"
          /\ task[t].op = "write" \/ task[t].at = "release" => task[t].data \in Value

(* ... the registers are about the call that is being served, or about a   *)
(* write whose completion an interrupt has announced too early ...         *)
Serves(k) ==
  /\ k.at \in {"issue", "wait", "transfer"} => hw.device = k.d /\ hw.sector = k.sec
  /\ k.at = "issue" => hw.status = "idle"
  /\ k.at \in {"wait", "transfer"} => hw.command = k.op
  /\ k.at \in {"wait", "transfer"} /\ k.op = "read" =>
       hw.status = "busy" \/ (hw.status = "drq" /\ hw.data = platter[k.d][k.sec])
  /\ k.at \in {"wait", "transfer"} /\ k.op = "identify" =>
       hw.status = "busy" \/ hw.status = IF kind[k.d] = "deaf" THEN "idle" ELSE "drq"
  /\ k.at = "transfer" /\ k.op = "write" => hw.status \in {"busy", "drq"} /\ hw.data = NoData
  /\ k.at = "wait" /\ k.op = "write" =>
       hw.status = "idle" \/ (hw.status = "busy" /\ hw.data = k.data)

BusInv ==
  /\ \A t \in Thread : Serves(task[t])
  /\ task[Main].at \in {"reset", "check"} =>
       hw.status = "idle" \/ (hw.status = "busy" /\ hw.command = "reset")
  /\ (\A t \in Thread : task[t].at \notin {"check", "issue", "wait", "transfer"}) =>
       hw.status = "idle" \/ (hw.status = "busy" /\ hw.command = "write" /\ hw.data \in Value)

(* ... and disk_init has found what is attached, as far as it has come. *)
Passes(d) == IsDisk(d) \/ kind[d] = "deaf"

DetectInv ==
  LET come == IF task[Main].op = "identify" THEN task[Main].d ELSE 2 IN
    /\ task[Main].at \in {"reset", "check"} =>
         \A d \in Dev : disk[d] = [is_ata |-> FALSE, capacity |-> 0]
    /\ task[Main].at \notin {"reset", "check"} =>
         \A d \in Dev : disk[d] =
           IF d < come THEN [is_ata |-> IsDisk(d), capacity |-> IF IsDisk(d) THEN Capacity ELSE 0]
           ELSE [is_ata |-> Passes(d), capacity |-> 0]
    /\ task[Main].op = "identify" /\ task[Main].at # "next" => Passes(come)

DiskInv == TypeOK /\ TaskInv /\ BusInv /\ DetectInv

=============================================================================
