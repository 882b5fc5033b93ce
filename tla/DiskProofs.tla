----------------------------- MODULE DiskProofs -----------------------------
(***************************************************************************)
(* The channel of Disk, for any threads, values, attached devices and      *)
(* capacity: its inductive invariant DiskInv, what disk_init detects, and  *)
(* that concurrent transfers are atomic (Sectors).                         *)
(***************************************************************************)
EXTENDS Disk, TLAPS

(* Where a thread works with the channel. *)
Using == {"reset", "check", "next", "select", "issue", "wait", "transfer", "release"}

(* Only one thread at a time works with the channel: disk_init, and then   *)
(* the holder of the channel's lock.                                       *)
LEMMA OneUser ==
  ASSUME TaskInv, NEW t \in Thread, NEW u \in Thread,
         task[t].at \in Using, task[u].at \in Using
  PROVE  t = u
<1>1. CASE Booting
  BY <1>1 DEF TaskInv, Using, NoCall
<1>2. CASE ~Booting
  BY <1>2, DiskAssumption DEF TaskInv, Using, NoCall
<1> QED  BY <1>1, <1>2, Zenon

(* What GoTo does to the records of the threads. *)
LEMMA GoToFacts ==
  ASSUME TypeOK, NEW t \in Thread, NEW p \in Place, GoTo(t, p)
  PROVE  /\ task' \in [Thread -> Request]
         /\ task'[t].at = p /\ task'[t].op = task[t].op /\ task'[t].d = task[t].d
         /\ task'[t].sec = task[t].sec /\ task'[t].data = task[t].data
         /\ \A u \in Thread : u # t => task'[u] = task[u]
BY Zenon DEF TypeOK, GoTo, Request

(* A thread that moves on within its call keeps the lock discipline. *)
LEMMA GoToTask ==
  ASSUME TypeOK, TaskInv, c'.lock = c.lock, NEW t \in Thread, NEW p \in {"issue", "wait", "transfer", "release"},
         task[t].at \in {"select", "issue", "wait", "transfer"},
         p = "release" => task[t].op # "identify" /\ task'[t].data \in Value,
         task[t].op = "write" => task'[t].data = task[t].data,
         task'[t].at = p, task'[t].op = task[t].op, task'[t].d = task[t].d,
         \A u \in Thread : u # t => task'[u] = task[u]
  PROVE  TaskInv'
<1>1. Main \in Thread  BY DiskAssumption, Zenon
<1>2. CASE Booting
  <2>1. t = Main  BY <1>2, <1>1 DEF TaskInv, NoCall
  <2>2. task[Main].op = "identify" /\ Booting'
    BY <1>2, <1>1, <2>1, Zenon DEF TaskInv, Booting
  <2> QED  BY <1>2, <1>1, <2>1, <2>2 DEF TaskInv
<1>3. CASE ~Booting
  <2>1. ~Booting'
    BY <1>3, <1>1, Zenon DEF Booting
  <2>2. ASSUME NEW u \in Thread
        PROVE  \/ task'[u] = NoCall /\ c'.lock # u
               \/ /\ task'[u].op \in {"read", "write"} /\ task'[u].d \in Dev
                  /\ task'[u].at \in {"lock", "select", "issue", "wait", "transfer", "release"}
                  /\ c'.lock = u <=> task'[u].at # "lock"
                  /\ task'[u].op = "write" \/ task'[u].at = "release" => task'[u].data \in Value
    <3>1. CASE u # t  BY <3>1, <1>3 DEF TaskInv
    <3>2. CASE u = t  BY <3>2, <1>3 DEF TaskInv, NoCall
    <3> QED  BY <3>1, <3>2, Zenon
  <2> QED  BY <2>1, <2>2, Zenon DEF TaskInv, NoCall
<1> QED  BY <1>2, <1>3, Zenon

(* ... and what disk_init has found. *)
LEMMA GoToDetect ==
  ASSUME TypeOK, TaskInv, DetectInv, kind' = kind, disk' = disk, NEW t \in Thread,
         NEW p \in {"issue", "wait", "transfer", "release"},
         task[t].at \in {"select", "issue", "wait", "transfer"},
         task'[t].at = p, task'[t].op = task[t].op, task'[t].d = task[t].d,
         \A u \in Thread : u # t => task'[u] = task[u]
  PROVE  DetectInv'
<1>1. Main \in Thread  BY DiskAssumption, Zenon
<1>2. /\ task'[Main].op = task[Main].op /\ task'[Main].d = task[Main].d
      /\ task'[Main].at \in {"reset", "check"} <=> task[Main].at \in {"reset", "check"}
      /\ task'[Main].op = "identify" /\ task'[Main].at # "next" =>
           task[Main].op = "identify" /\ task[Main].at # "next"
  BY <1>1, Zenon
<1> QED  BY <1>2, Zenon DEF DetectInv, IsDisk, Passes

(* Nothing has changed for DetectInv. *)
LEMMA DetectSame ==
  ASSUME DetectInv, kind' = kind, disk' = disk, task'[Main] = task[Main]
  PROVE  DetectInv'
BY Zenon DEF DetectInv, IsDisk, Passes

(* Nothing has changed for TaskInv. *)
LEMMA TaskSame ==
  ASSUME TaskInv, task' = task, c'.lock = c.lock
  PROVE  TaskInv'
BY ZenonT(30) DEF TaskInv, Booting, NoCall

(* A thread that is not served leaves the registers to others. *)
LEMMA NotServed ==
  ASSUME NEW t \in Thread, task'[t].at \notin {"issue", "wait", "transfer"}
  PROVE  Serves(task[t])'
BY Zenon DEF Serves

(* BusInv after a step of the thread that works with the channel. *)
LEMMA BusOf ==
  ASSUME TaskInv, NEW t \in Thread, task[t].at \in Using,
         \A u \in Thread : u # t => task'[u] = task[u],
         Serves(task[t])',
         task'[t].at \notin {"reset", "check"} \/ hw'.status = "idle" \/ (hw'.status = "busy" /\ hw'.command = "reset"),
         \/ task'[t].at \in {"check", "issue", "wait", "transfer"}
         \/ hw'.status = "idle"
         \/ hw'.status = "busy" /\ hw'.command = "write" /\ hw'.data \in Value
  PROVE  BusInv'
<1>1. Main \in Thread  BY DiskAssumption, Zenon
<1>2. ASSUME NEW u \in Thread, u # t
      PROVE  task'[u] = task[u] /\ task[u].at \notin Using
  BY <1>2, OneUser, Zenon
<1>3. \A u \in Thread : Serves(task[u])'
  BY <1>2, NotServed, Zenon DEF Using
<1>4. (task[Main].at \in {"reset", "check"} =>
          hw.status = "idle" \/ (hw.status = "busy" /\ hw.command = "reset"))'
  BY <1>1, <1>2, Zenon DEF Using
<1> QED  BY <1>3, <1>4, Zenon DEF BusInv

-----------------------------------------------------------------------------
(* The steps                                                               *)

(* The invariant holds when disk_init starts. *)
LEMMA InitInv == Init => DiskInv
<1> SUFFICES ASSUME Init PROVE DiskInv  BY Zenon
<1>1. TypeOK
  <2>1. NoCall \in Request
    BY DiskAssumption DEF NoCall, Place, Sector, Request
  <2>2. task \in [Thread -> Request]
    BY <2>1, Zenon DEF Init, Place, Request, NoCall
  <2>3. hw \in Registers
    BY DiskAssumption DEF Init, Dev, Sector, Registers
  <2>4. c \in Channel
    BY Zenon DEF Init, Channel
  <2>5. disk \in [Dev -> [is_ata : BOOLEAN, capacity : {0, Capacity}]]
    BY Zenon DEF Init
  <2>6. platter \in [Dev -> [Sector -> Value]]
    BY DiskAssumption, Zenon DEF Init
  <2> QED  BY <2>2, <2>3, <2>4, <2>5, <2>6, Zenon DEF TypeOK, Init
<1>2. Main \in Thread /\ task[Main].at = "reset" /\ task[Main].op = "none"
  BY DiskAssumption, Zenon DEF Init, NoCall
<1>3. \A t \in Thread \ {Main} : task[t] = NoCall
  BY Zenon DEF Init
<1>4. TaskInv
  BY <1>2, <1>3, Zenon DEF TaskInv, Booting, Init
<1>5. BusInv
  <2>1. ASSUME NEW t \in Thread PROVE task[t].at \in {"reset", "out"}
    <3>1. CASE t = Main  BY <3>1, <1>2, Zenon
    <3>2. CASE t # Main  BY <3>2, <1>3 DEF NoCall
    <3> QED  BY <3>1, <3>2, Zenon
  <2>2. \A t \in Thread : Serves(task[t])
    BY <2>1, Zenon DEF Serves
  <2> QED  BY <2>2, <1>2, Zenon DEF BusInv, Init
<1>6. DetectInv
  BY <1>2, Zenon DEF DetectInv, Init
<1> QED  BY <1>1, <1>4, <1>5, <1>6, Zenon DEF DiskInv

(* A device finishes what the served call told it. *)
LEMMA DeviceStep ==
  ASSUME DiskInv, Device
  PROVE  DiskInv'
<1> DEFINE written == hw.command = "write" /\ hw.data # NoData
<1> USE DEF DiskInv
<1>1. hw.status = "busy" /\ UNCHANGED <<kind, c, disk, task, spurious>>
  BY Zenon DEF Device
<1>2. /\ hw'.command = hw.command /\ hw'.device = hw.device /\ hw'.sector = hw.sector
      /\ hw'.status = IF hw.command = "reset" \/ written
                         \/ (hw.command = "identify" /\ kind[hw.device] = "deaf")
                      THEN "idle" ELSE "drq"
  BY Zenon DEF Device, TypeOK, Registers
<1>3. hw.command = "read" => hw'.data = platter[hw.device][hw.sector]
  BY Zenon DEF Device, TypeOK, Registers
<1>4. hw.command = "write" => hw'.data = NoData
  BY Zenon DEF Device, TypeOK, Registers
<1>5. ~written => platter' = platter
  BY Zenon DEF Device
<1>6. TypeOK'
  <2>1. platter[hw.device][hw.sector] \in Value
    BY Zenon DEF TypeOK, Registers
  <2>2. hw'.data \in Value \cup {NoData}
    BY <2>1, Zenon DEF Device, TypeOK, Registers
  <2>3. hw' \in Registers
    BY <2>2, <1>2, Zenon DEF Device, TypeOK, Registers
  <2>4. written => hw.data \in Value
    BY Zenon DEF TypeOK, Registers
  <2>5. platter' \in [Dev -> [Sector -> Value]]
    BY <2>4, Zenon DEF Device, TypeOK, Registers
  <2> QED  BY <2>3, <2>5, <1>1, Zenon DEF TypeOK
<1>7. TaskInv'
  BY <1>1, TaskSame, Zenon
<1>8. BusInv'
  <2>1. ASSUME NEW t \in Thread PROVE Serves(task[t])'
    <3> DEFINE k == task[t]
    <3>0. Serves(k)  BY Zenon DEF BusInv
    <3>1. task' = task /\ kind' = kind  BY <1>1, Zenon
    <3>2. CASE k.at \notin {"issue", "wait", "transfer"}
      BY <3>2, <3>1, NotServed, Zenon
    <3>3. k.at # "issue"  BY <3>0, <1>1, Zenon DEF Serves
    <3>4. CASE k.at \in {"wait", "transfer"}
      <4>1. hw.command = k.op /\ hw.device = k.d /\ hw.sector = k.sec
        BY <3>0, <3>4, Zenon DEF Serves
      <4>2. CASE k.op = "read"
        BY <3>0, <3>1, <3>4, <4>1, <4>2, <1>1, <1>2, <1>3, <1>5, Zenon DEF Serves
      <4>3. CASE k.op = "identify"
        BY <3>0, <3>1, <3>4, <4>1, <4>3, <1>1, <1>2, Zenon DEF Serves
      <4>4. CASE k.op = "write" /\ k.at = "transfer"
        BY <3>0, <3>1, <3>4, <4>1, <4>4, <1>1, <1>2, <1>4, Zenon DEF Serves
      <4>5. CASE k.op = "write" /\ k.at = "wait"
        <5>1. k.data \in Value
          BY <4>5 DEF TaskInv, Booting, NoCall
        <5>2. written
          BY <5>1, <4>1, <4>5, <3>0, <1>1, DiskAssumption, Zenon DEF Serves
        <5> QED  BY <5>2, <3>1, <4>1, <4>5, <1>2, Zenon DEF Serves
      <4> QED  BY <3>4, <4>2, <4>3, <4>4, <4>5, <3>1, <4>1, <1>2, Zenon DEF Serves
    <3> QED  BY <3>2, <3>3, <3>4, Zenon
  <2>2. (task[Main].at \in {"reset", "check"} =>
          hw.status = "idle" \/ (hw.status = "busy" /\ hw.command = "reset"))'
    BY <1>1, <1>2, Zenon DEF BusInv
  <2>3. (\A t \in Thread : task[t].at \notin {"check", "issue", "wait", "transfer"})' => hw'.status = "idle"
    BY <1>1, <1>2, DiskAssumption, Zenon DEF BusInv
  <2> QED  BY <2>1, <2>2, <2>3, Zenon DEF BusInv
<1>9. DetectInv'
  BY <1>1, DetectSame, Zenon
<1> QED  BY <1>6, <1>7, <1>8, <1>9, Zenon

(* BusInv does not see the interrupt line. *)
LEMMA BusSame ==
  ASSUME BusInv, task' = task, kind' = kind, platter' = platter,
         hw'.status = hw.status, hw'.command = hw.command, hw'.device = hw.device,
         hw'.sector = hw.sector, hw'.data = hw.data
  PROVE  BusInv'
<1>1. \A t \in Thread : Serves(task[t])'
  BY Zenon DEF BusInv, Serves
<1> QED  BY <1>1, Zenon DEF BusInv

(* An interrupt that no device asked for. *)
LEMMA SpuriousStep ==
  ASSUME DiskInv, Spurious
  PROVE  DiskInv'
<1> USE DEF DiskInv
<1>1. TypeOK'
  <2>1. hw' \in Registers
    BY Zenon DEF TypeOK, Spurious, Registers
  <2>2. spurious' \in Nat
    BY DEF TypeOK, Spurious
  <2> QED  BY <2>1, <2>2, Zenon DEF TypeOK, Spurious
<1>2. TaskInv'
  BY TaskSame, Zenon DEF Spurious
<1>3. BusInv'
  BY BusSame, Zenon DEF Spurious, TypeOK, Registers
<1>4. DetectInv'
  BY DetectSame, Zenon DEF Spurious
<1> QED  BY <1>1, <1>2, <1>3, <1>4, Zenon

(* The interrupt handler counts a completion. *)
LEMMA HandlerStep ==
  ASSUME DiskInv, interrupt_handler
  PROVE  DiskInv'
<1> USE DEF DiskInv
<1>1. TypeOK'
  <2>1. hw' \in Registers
    BY Zenon DEF TypeOK, interrupt_handler, Registers
  <2>2. c' \in Channel
    <3> DEFINE n == c.completion_wait + IF c.expecting_interrupt THEN 1 ELSE 0
    <3>1. n \in Nat
      BY DEF TypeOK, Channel
    <3>2. c' = [c EXCEPT !.completion_wait = n]
      BY Zenon DEF interrupt_handler
    <3> HIDE DEF n
    <3> QED  BY <3>1, <3>2, SMTT(30) DEF TypeOK, Channel
  <2> QED  BY <2>1, <2>2, Zenon DEF TypeOK, interrupt_handler
<1>2. TaskInv'
  BY TaskSame, Zenon DEF interrupt_handler, TypeOK, Channel
<1>3. BusInv'
  BY BusSame, Zenon DEF interrupt_handler, TypeOK, Registers
<1>4. DetectInv'
  BY DetectSame, Zenon DEF interrupt_handler
<1> QED  BY <1>1, <1>2, <1>3, <1>4, Zenon

(* reset_channel resets the devices. *)
LEMMA ResetStep ==
  ASSUME DiskInv, reset_channel
  PROVE  DiskInv'
<1> USE DEF DiskInv
<1>0. Main \in Thread /\ task[Main].at = "reset" /\ UNCHANGED <<kind, c, disk, platter, spurious>>
  BY DiskAssumption, Zenon DEF reset_channel, At
<1>1. /\ task' \in [Thread -> Request] /\ task'[Main].at = "check"
      /\ task'[Main].op = task[Main].op
      /\ \A u \in Thread : u # Main => task'[u] = task[u]
  BY <1>0, GoToFacts, Zenon DEF reset_channel, Place
<1>2. hw' \in Registers /\ hw'.status = "busy" /\ hw'.command = "reset"
  BY Zenon DEF reset_channel, Command, TypeOK, Registers, Dev
<1>3. TypeOK'
  BY <1>0, <1>1, <1>2, Zenon DEF TypeOK
<1>4. TaskInv'
  <2>1. Booting /\ Booting' /\ task[Main].op = "none"
    BY <1>0, <1>1, Zenon DEF Booting, TaskInv
  <2> QED  BY <2>1, <1>0, <1>1 DEF TaskInv, NoCall
<1>5. BusInv'
  <2>1. Serves(task[Main])'
    BY <1>0, <1>1, NotServed, Zenon
  <2> QED  BY <2>1, <1>0, <1>1, <1>2, BusOf, Zenon DEF Using
<1>6. DetectInv'
  <2>1. task'[Main].op # "identify"
    BY <1>0, <1>1, Zenon DEF Booting, TaskInv
  <2> QED  BY <2>1, <1>0, <1>1, Zenon DEF DetectInv
<1> QED  BY <1>3, <1>4, <1>5, <1>6, Zenon

(* check_device_type finds the devices that look like disks: the disks and *)
(* those that will not answer IDENTIFY.                                    *)
LEMMA Checked ==
  ASSUME TypeOK, NEW d \in Dev
  PROVE  /\ check_device_type(d).is_ata <=> Passes(d)
         /\ check_device_type(0).more
<1>1. kind \in [Dev -> {"ata", "sata", "atapi", "deaf", "alone", "none"}] /\ kind[1] # "alone"
  BY DiskAssumption, Zenon DEF TypeOK
<1>2. check_device_type(0).more
  <2> DEFINE r == Signature(kind[0])
  <2>1. CASE kind[0] = "alone"
    BY <2>1, ZenonT(30) DEF check_device_type, Signature
  <2>2. CASE kind[0] # "alone"
    <3>1. r.error # 129
      BY <2>2 DEF Signature
    <3> HIDE DEF r
    <3>2. check_device_type(0).more =
            IF (r.error # 1 /\ (r.error # 129 \/ 0 = 1)) \/ ~ r.ready THEN r.error # 129 ELSE TRUE
      BY Zenon DEF check_device_type, r
    <3> QED  BY <3>1, <3>2, Zenon
  <2> QED  BY <2>1, <2>2, Zenon
<1>3. check_device_type(d).is_ata <=> Passes(d)
  <2>1. CASE d = 0
    BY <1>1, <2>1, ZenonT(30) DEF check_device_type, Signature, Dev, Passes, IsDisk
  <2>2. CASE d = 1
    BY <1>1, <2>2, ZenonT(30) DEF check_device_type, Signature, Dev, Passes, IsDisk
  <2> QED  BY <2>1, <2>2, Zenon DEF Dev
<1> QED  BY <1>2, <1>3, Zenon

(* disk_init calls check_device_type for both devices. *)
LEMMA CheckStep ==
  ASSUME DiskInv, disk_init_check
  PROVE  DiskInv'
<1> USE DEF DiskInv
<1>0. /\ Main \in Thread /\ task[Main].at = "check" /\ hw.status # "busy"
      /\ UNCHANGED <<kind, c, platter, spurious>>
  BY DiskAssumption, Zenon DEF disk_init_check, At, wait_while_busy
<1>1. /\ task' \in [Thread -> Request]
      /\ task'[Main].at = "next" /\ task'[Main].op = "identify" /\ task'[Main].d = 0
      /\ \A u \in Thread : u # Main => task'[u] = task[u]
  <2> DEFINE k == [at |-> "next", op |-> "identify", d |-> 0, sec |-> 0, data |-> NoData]
  <2>2. k \in Request /\ k.at = "next" /\ k.op = "identify" /\ k.d = 0
    BY DiskAssumption DEF Request, Place, Sector
  <2>3. task' = [task EXCEPT ![Main] = k]
    BY <1>0, Zenon DEF disk_init_check
  <2> HIDE DEF k
  <2> QED  BY <1>0, <2>2, <2>3, Zenon DEF TypeOK
<1>2. hw' \in Registers /\ hw'.status = "idle"
  <2>1. hw.status = "idle"  BY <1>0, Zenon DEF BusInv
  <2> QED  BY <2>1, Zenon DEF disk_init_check, TypeOK, Registers, Dev
<1>3. \A d \in Dev : disk'[d] = [is_ata |-> Passes(d), capacity |-> 0]
  <2> SUFFICES ASSUME NEW d \in Dev PROVE disk'[d] = [is_ata |-> Passes(d), capacity |-> 0]
    BY Zenon
  <2>1. disk[d] = [is_ata |-> FALSE, capacity |-> 0]
    BY <1>0, Zenon DEF DetectInv
  <2>2. disk'[d] = [disk[d] EXCEPT !.is_ata = (d = 0 \/ check_device_type(0).more) /\ check_device_type(d).is_ata]
    BY Zenon DEF disk_init_check
  <2>3. ((d = 0 \/ check_device_type(0).more) /\ check_device_type(d).is_ata) = Passes(d)
    BY Checked DEF check_device_type, Passes, IsDisk
  <2> HIDE DEF check_device_type, Passes
  <2> QED  BY <2>1, <2>2, <2>3
<1>4. TypeOK'
  <2>1. disk' \in [Dev -> [is_ata : BOOLEAN, capacity : {0, Capacity}]]
    <3>1. disk' = [d \in Dev |-> disk'[d]]
      BY Zenon DEF disk_init_check
    <3>2. ASSUME NEW d \in Dev
          PROVE  disk'[d] \in [is_ata : BOOLEAN, capacity : {0, Capacity}]
      <4> DEFINE p == Passes(d)
      <4>1. p \in BOOLEAN
        BY Zenon DEF Passes
      <4>2. disk'[d] = [is_ata |-> p, capacity |-> 0]
        BY <1>3, Zenon
      <4> HIDE DEF p
      <4> QED  BY <4>1, <4>2
    <3> QED  BY <3>1, <3>2, Zenon
  <2> QED  BY <2>1, <1>0, <1>1, <1>2, Zenon DEF TypeOK
<1>5. TaskInv'
  <2>1. Booting /\ Booting'
    BY <1>0, <1>1, Zenon DEF Booting
  <2> QED  BY <2>1, <1>0, <1>1 DEF TaskInv, NoCall
<1>6. BusInv'
  <2>1. Serves(task[Main])'
    BY <1>0, <1>1, NotServed, Zenon
  <2> QED  BY <2>1, <1>0, <1>1, <1>2, BusOf, Zenon DEF Using
<1>7. DetectInv'
  <2>1. \A d \in Dev : ~(d < 0)
    BY DEF Dev
  <2>2. \A d \in Dev : (Passes(d))' = Passes(d)
    BY <1>0, Zenon DEF Passes, IsDisk
  <2> QED  BY <2>1, <2>2, <1>0, <1>1, <1>3, Zenon DEF DetectInv
<1> QED  BY <1>4, <1>5, <1>6, <1>7, Zenon

(* disk_init goes on with the next device, or is over. *)
LEMMA NextStep ==
  ASSUME DiskInv, disk_init_next
  PROVE  DiskInv'
<1> DEFINE m == task[Main]
<1> USE DEF DiskInv
<1>0. Main \in Thread /\ m.at = "next" /\ UNCHANGED <<kind, c, disk, hw, platter, spurious>>
  BY DiskAssumption, Zenon DEF disk_init_next, At
<1>1. Booting /\ m.op = "identify" /\ m \in Request
  BY <1>0 DEF TaskInv, NoCall, TypeOK, Booting
<1>2. \A u \in Thread : u # Main => task'[u] = task[u]
  BY Zenon DEF disk_init_next, TypeOK, GoTo
<1>3. ASSUME NEW k \in Request, task' = [task EXCEPT ![Main] = k],
             k = NoCall \/ (k.op = "identify" /\ k.at \in {"next", "select"}),
             k.at = "select" => k.d \in Dev
      PROVE  TypeOK' /\ TaskInv' /\ BusInv'
  <2>1. task'[Main] = k /\ task' \in [Thread -> Request]
    BY <1>0, <1>3, Zenon DEF TypeOK
  <2>2. TypeOK'
    BY <1>0, <2>1, Zenon DEF TypeOK
  <2>3. TaskInv'
    <3>1. CASE k = NoCall
      <4>1. \A u \in Thread : task'[u] = NoCall
        BY <1>0, <1>1, <1>2, <2>1, <3>1 DEF TaskInv
      <4>2. ~Booting'
        BY <4>1, <1>0 DEF Booting, NoCall
      <4>3. \A u \in Thread : c'.lock # u
        BY <1>0, <1>1, DiskAssumption DEF TaskInv
      <4> QED  BY <4>1, <4>2, <4>3, Zenon DEF TaskInv, NoCall
    <3>2. CASE k.op = "identify" /\ k.at \in {"next", "select"}
      <4>1. Booting'
        BY <3>2, <2>1, Zenon DEF Booting
      <4> QED  BY <4>1, <3>2, <2>1, <1>0, <1>1, <1>2, <1>3 DEF TaskInv, NoCall
    <3> QED  BY <1>3, <3>1, <3>2, Zenon
  <2>4. BusInv'
    <3>1. k.at \in {"out", "next", "select"}
      BY <1>3 DEF NoCall
    <3>2. Serves(task[Main])'
      BY <1>0, <2>1, <3>1, NotServed, Zenon
    <3>3. ASSUME NEW u \in Thread PROVE task[u].at \notin {"check", "issue", "wait", "transfer"}
      BY <3>3, <1>0, <1>1 DEF TaskInv, NoCall
    <3>4. \/ hw'.status = "idle"
          \/ hw'.status = "busy" /\ hw'.command = "write" /\ hw'.data \in Value
      BY <3>3, <1>0, Zenon DEF BusInv
    <3> QED  BY <3>1, <3>2, <3>4, <2>1, <1>0, <1>2, BusOf, Zenon DEF Using
  <2> QED  BY <2>2, <2>3, <2>4, Zenon
<1>4. \A d : (Passes(d))' = Passes(d) /\ (IsDisk(d))' = IsDisk(d)
  BY <1>0, Zenon DEF Passes, IsDisk
<1>5. CASE m.d = 2
  <2>1. task' = [task EXCEPT ![Main] = NoCall]
    BY <1>5 DEF disk_init_next
  <2>2. task'[Main] = NoCall
    BY <2>1, <1>0, Zenon DEF TypeOK
  <2>3. NoCall \in Request
    BY DiskAssumption DEF NoCall, Request, Place, Sector
  <2>4. NoCall.at = "out" /\ NoCall.op = "none"
    BY Zenon DEF NoCall
  <2>5. DetectInv'
    BY <1>0, <1>1, <1>4, <1>5, <2>2, <2>4, Zenon DEF DetectInv
  <2> QED  BY <2>1, <2>3, <2>4, <2>5, <1>3, Zenon
<1>6. CASE m.d \in Dev /\ disk[m.d].is_ata
  <2> DEFINE k == [m EXCEPT !.at = "select"]
  <2>1. task' = [task EXCEPT ![Main] = k]
    BY <1>6, <1>1 DEF disk_init_next, Dev, GoTo
  <2>2. k \in Request /\ k.at = "select" /\ k.op = "identify" /\ k.d = m.d
    BY <1>1, Zenon DEF Request, Place
  <2> HIDE DEF k
  <2>3. task'[Main] = k
    BY <2>1, <1>0, Zenon DEF TypeOK
  <2>4. Passes(m.d)
    BY <1>0, <1>1, <1>6 DEF DetectInv, Dev
  <2>5. DetectInv'
    BY <1>0, <1>1, <1>4, <1>6, <2>2, <2>3, <2>4, Zenon DEF DetectInv
  <2> QED  BY <2>1, <2>2, <2>5, <1>3, <1>6, Zenon
<1>7. CASE m.d \in Dev /\ ~disk[m.d].is_ata
  <2> DEFINE k == [m EXCEPT !.d = @ + 1]
  <2>1. task' = [task EXCEPT ![Main] = k]
    BY <1>7, <1>1 DEF disk_init_next, Dev
  <2>2. k \in Request /\ k.at = "next" /\ k.op = "identify" /\ k.d = m.d + 1
    BY <1>0, <1>1, <1>7 DEF Request, Place, Dev
  <2> HIDE DEF k
  <2>3. task'[Main] = k
    BY <2>1, <1>0, Zenon DEF TypeOK
  <2>4. ~Passes(m.d) /\ ~IsDisk(m.d) /\ disk[m.d] = [is_ata |-> FALSE, capacity |-> 0]
    <3>1. disk[m.d] = [is_ata |-> Passes(m.d), capacity |-> 0]
      BY <1>0, <1>1, <1>7 DEF DetectInv, Dev
    <3>2. ~Passes(m.d)
      BY <3>1, <1>7
    <3>3. Passes(m.d) = FALSE
      BY <3>2, Zenon DEF Passes
    <3> QED  BY <3>1, <3>2, <3>3, Zenon DEF Passes
  <2>5. ASSUME NEW d \in Dev
        PROVE  disk'[d] = IF d < m.d + 1 THEN [is_ata |-> IsDisk(d), capacity |-> IF IsDisk(d) THEN Capacity ELSE 0]
                          ELSE [is_ata |-> Passes(d), capacity |-> 0]
    <3>1. CASE d = m.d
      <4>1. IsDisk(d) = FALSE
        BY <3>1, <2>4, Zenon DEF IsDisk
      <4>2. d < m.d + 1
        BY <3>1 DEF Dev
      <4> QED  BY <3>1, <2>4, <4>1, <4>2, <1>0, Zenon
    <3>2. CASE d # m.d
      <4>1. d < m.d + 1 <=> d < m.d
        BY <3>2, <1>7 DEF Dev
      <4> QED  BY <4>1, <1>0, <1>1, Zenon DEF DetectInv
    <3> QED  BY <3>1, <3>2, Zenon
  <2>6. DetectInv'
    BY <1>0, <1>1, <1>4, <2>2, <2>3, <2>5, Zenon DEF DetectInv
  <2> QED  BY <2>1, <2>2, <2>6, <1>3, Zenon
<1> QED  BY <1>1, <1>5, <1>6, <1>7 DEF Request, Dev

(* identify_ata_device keeps a disk that answers and drops one that does not. *)
LEMMA IdentifyStep ==
  ASSUME DiskInv, identify_ata_device
  PROVE  DiskInv'
<1> DEFINE m == task[Main]
<1> DEFINE k == [m EXCEPT !.at = "next", !.d = m.d + 1]
<1> USE DEF DiskInv
<1>0. /\ Main \in Thread /\ m.at = "transfer" /\ m.op = "identify" /\ hw.status # "busy"
      /\ UNCHANGED <<kind, c, platter, spurious>>
  BY DiskAssumption, Zenon DEF identify_ata_device, At, wait_while_busy
<1>1. Booting /\ m.d \in Dev /\ m \in Request
  BY <1>0, Zenon DEF TaskInv, TypeOK, Booting
<1>2. k \in Request /\ k.at = "next" /\ k.op = "identify" /\ k.d = m.d + 1
  <2>1. m.d + 1 \in 0 .. 2
    BY <1>1 DEF Dev
  <2> DEFINE n == m.d + 1
  <2> HIDE DEF m, n
  <2>2. k.at = "next" /\ k.op = "identify" /\ k.d = n
    BY <1>0, <1>1, Zenon DEF Request, n
  <2>3. k \in Request
    BY <1>1, <2>1, Zenon DEF Request, Place, n
  <2> QED  BY <2>2, <2>3, Zenon DEF m, n
<1>3. task' = [task EXCEPT ![Main] = k]
  BY Zenon DEF identify_ata_device
<1> HIDE DEF k
<1>4. task'[Main] = k /\ task' \in [Thread -> Request] /\ \A u \in Thread : u # Main => task'[u] = task[u]
  BY <1>0, <1>2, <1>3, Zenon DEF TypeOK
<1>5. hw' \in Registers /\ hw'.status = "idle"
  BY Zenon DEF identify_ata_device, TypeOK, Registers
<1>6. Passes(m.d) /\ disk[m.d] = [is_ata |-> Passes(m.d), capacity |-> 0]
  BY <1>0, <1>1 DEF DetectInv, Dev
<1>7. disk[m.d] = [is_ata |-> TRUE, capacity |-> 0]
  <2>1. Passes(m.d) = TRUE
    BY <1>6, Zenon DEF Passes
  <2> QED  BY <2>1, <1>6, Zenon
<1>8. Drq <=> IsDisk(m.d)
  <2>1. Serves(m)
    BY <1>0, Zenon DEF BusInv
  <2>2. hw.status = IF kind[m.d] = "deaf" THEN "idle" ELSE "drq"
    BY <2>1, <1>0, Zenon DEF Serves
  <2>3. IsDisk(m.d) => kind[m.d] # "deaf"
    BY Zenon DEF IsDisk
  <2> QED  BY <2>2, <2>3, <1>6, Zenon DEF Drq, Passes
<1>9. /\ disk'[m.d] = [is_ata |-> IsDisk(m.d), capacity |-> IF IsDisk(m.d) THEN Capacity ELSE 0]
      /\ \A d \in Dev : d # m.d => disk'[d] = disk[d]
      /\ disk' \in [Dev -> [is_ata : BOOLEAN, capacity : {0, Capacity}]]
  <2>1. CASE IsDisk(m.d)
    <3>1. IsDisk(m.d) = TRUE
      BY <2>1, Zenon DEF IsDisk
    <3>2. disk' = [disk EXCEPT ![m.d] = [disk[m.d] EXCEPT !.capacity = Capacity]]
      BY <2>1, <1>8, Zenon DEF identify_ata_device
    <3>3. disk'[m.d] = [disk[m.d] EXCEPT !.capacity = Capacity] /\ \A d \in Dev : d # m.d => disk'[d] = disk[d]
      BY <3>2, <1>1, Zenon DEF TypeOK
    <3>4. disk'[m.d] = [is_ata |-> TRUE, capacity |-> Capacity]
      <4>1. disk[m.d] \in [is_ata : BOOLEAN, capacity : {0, Capacity}]
        BY <1>1, Zenon DEF TypeOK
      <4>2. disk[m.d].is_ata = TRUE /\ disk[m.d].capacity = 0
        BY <1>7
      <4> QED  BY <4>1, <4>2, <3>3, Zenon
    <3>5. disk' \in [Dev -> [is_ata : BOOLEAN, capacity : {0, Capacity}]]
      BY <3>2, <3>3, <3>4, <1>1 DEF TypeOK
    <3> QED  BY <2>1, <3>1, <3>3, <3>4, <3>5, Zenon
  <2>2. CASE ~IsDisk(m.d)
    <3>1. IsDisk(m.d) = FALSE
      BY <2>2, Zenon DEF IsDisk
    <3>2. disk' = [disk EXCEPT ![m.d] = [disk[m.d] EXCEPT !.is_ata = FALSE]]
      BY <2>2, <1>8, Zenon DEF identify_ata_device
    <3>3. disk'[m.d] = [disk[m.d] EXCEPT !.is_ata = FALSE] /\ \A d \in Dev : d # m.d => disk'[d] = disk[d]
      BY <3>2, <1>1, Zenon DEF TypeOK
    <3>4. disk'[m.d] = [is_ata |-> FALSE, capacity |-> 0]
      <4>1. disk[m.d] \in [is_ata : BOOLEAN, capacity : {0, Capacity}]
        BY <1>1, Zenon DEF TypeOK
      <4>2. disk[m.d].is_ata = TRUE /\ disk[m.d].capacity = 0
        BY <1>7
      <4> QED  BY <4>1, <4>2, <3>3, Zenon
    <3>5. disk' \in [Dev -> [is_ata : BOOLEAN, capacity : {0, Capacity}]]
      BY <3>2, <3>3, <3>4, <1>1, ZenonT(30) DEF TypeOK
    <3> QED  BY <2>2, <3>1, <3>3, <3>4, <3>5, Zenon
  <2> QED  BY <2>1, <2>2, Zenon
<1>10. TypeOK'
  BY <1>0, <1>4, <1>5, <1>9, Zenon DEF TypeOK
<1>11. TaskInv'
  <2>1. Booting'
    BY <1>2, <1>4, Zenon DEF Booting
  <2> QED  BY <2>1, <1>0, <1>1, <1>2, <1>4 DEF TaskInv, NoCall
<1>12. BusInv'
  <2>1. Serves(task[Main])'
    BY <1>0, <1>2, <1>4, NotServed, Zenon
  <2> QED  BY <2>1, <1>0, <1>2, <1>4, <1>5, BusOf, Zenon DEF Using
<1>13. DetectInv'
  <2>1. \A d : (Passes(d))' = Passes(d) /\ (IsDisk(d))' = IsDisk(d)
    BY <1>0, Zenon DEF Passes, IsDisk
  <2>2. ASSUME NEW d \in Dev
        PROVE  disk'[d] = IF d < m.d + 1 THEN [is_ata |-> IsDisk(d), capacity |-> IF IsDisk(d) THEN Capacity ELSE 0]
                          ELSE [is_ata |-> Passes(d), capacity |-> 0]
    <3>1. CASE d = m.d
      <4>1. d < m.d + 1
        BY <3>1 DEF Dev
      <4> QED  BY <3>1, <4>1, <1>9, Zenon
    <3>2. CASE d # m.d
      <4>1. d < m.d + 1 <=> d < m.d
        BY <3>2, <1>1 DEF Dev
      <4> QED  BY <4>1, <3>2, <1>0, <1>9, Zenon DEF DetectInv
    <3> QED  BY <3>1, <3>2, Zenon
  <2> QED  BY <2>1, <2>2, <1>2, <1>4, Zenon DEF DetectInv
<1> QED  BY <1>10, <1>11, <1>12, <1>13, Zenon

(* What TaskInv says of a thread with a call. *)
LEMMA Caller ==
  ASSUME TaskInv, NEW t \in Thread, task[t].op \in {"read", "write"}
  PROVE  /\ ~Booting /\ task[t].d \in Dev
         /\ task[t].at \in {"lock", "select", "issue", "wait", "transfer", "release"}
         /\ c.lock = t <=> task[t].at # "lock"
         /\ task[t].op = "write" \/ task[t].at = "release" => task[t].data \in Value
<1>1. ~Booting  BY DEF TaskInv, NoCall, Booting
<1> QED  BY <1>1 DEF TaskInv, NoCall

(* A call is a read, a write or disk_init's IDENTIFY. *)
LEMMA Working ==
  ASSUME TaskInv, NEW t \in Thread, task[t].at \in {"select", "issue", "wait", "transfer", "release"}
  PROVE  task[t].op \in {"read", "write"} \/ (t = Main /\ task[t].op = "identify" /\ task[t].at # "release")
<1>1. Main \in Thread  BY DiskAssumption, Zenon
<1>2. CASE Booting  BY <1>1, <1>2 DEF TaskInv, NoCall, Booting
<1>3. CASE ~Booting  BY <1>3 DEF TaskInv, NoCall
<1> QED  BY <1>2, <1>3, Zenon

(* A thread gets the channel's lock. *)
LEMMA AcquireStep ==
  ASSUME DiskInv, NEW t \in Thread, lock_acquire(t)
  PROVE  DiskInv'
<1> USE DEF DiskInv
<1>0. /\ Main \in Thread /\ task[t].at = "lock" /\ c.lock = Nobody
      /\ UNCHANGED <<kind, disk, hw, platter, spurious>>
  BY DiskAssumption, Zenon DEF lock_acquire, At
<1>1. /\ task' \in [Thread -> Request]
      /\ task'[t].at = "select" /\ task'[t].op = task[t].op /\ task'[t].d = task[t].d
      /\ task'[t].data = task[t].data
      /\ \A u \in Thread : u # t => task'[u] = task[u]
  BY GoToFacts, Zenon DEF lock_acquire, Place
<1>2. c' \in Channel /\ c'.lock = t
  BY Zenon DEF lock_acquire, TypeOK, Channel
<1>3. TypeOK'
  BY <1>0, <1>1, <1>2, Zenon DEF TypeOK
<1>4. ~Booting /\ task[t].op \in {"read", "write"}
  BY <1>0 DEF TaskInv, NoCall, Booting
<1>5. ~Booting'
  BY <1>0, <1>1, <1>4, Zenon DEF Booting
<1>6. TaskInv'
  <2>1. ASSUME NEW u \in Thread
        PROVE  \/ task'[u] = NoCall /\ c'.lock # u
               \/ /\ task'[u].op \in {"read", "write"} /\ task'[u].d \in Dev
                  /\ task'[u].at \in {"lock", "select", "issue", "wait", "transfer", "release"}
                  /\ c'.lock = u <=> task'[u].at # "lock"
                  /\ task'[u].op = "write" \/ task'[u].at = "release" => task'[u].data \in Value
    <3>1. CASE u = t
      BY <3>1, <1>1, <1>2, <1>4, Caller, Zenon
    <3>2. CASE u # t
      BY <3>2, <1>0, <1>1, <1>2, <1>4, DiskAssumption DEF TaskInv
    <3> QED  BY <3>1, <3>2, Zenon
  <2> QED  BY <2>1, <1>5, Zenon DEF TaskInv, NoCall
<1>7. BusInv'
  <2>1. ASSUME NEW u \in Thread PROVE task[u].at \in {"out", "lock"} /\ task'[u].at \in {"out", "lock", "select"}
    BY <2>1, <1>0, <1>1, <1>4, DiskAssumption DEF TaskInv, NoCall
  <2>2. \A u \in Thread : Serves(task[u])'
    BY <2>1, NotServed, Zenon
  <2> QED  BY <1>0, <2>1, <2>2, Zenon DEF BusInv, Using
<1>8. DetectInv'
  <2>1. /\ task'[Main].op = task[Main].op /\ task'[Main].op # "identify"
        /\ task'[Main].at \notin {"reset", "check"} /\ task[Main].at \notin {"reset", "check"}
    BY <1>0, <1>1, <1>4, <1>5, Zenon DEF Booting
  <2> QED  BY <2>1, <1>0, Zenon DEF DetectInv, Passes, IsDisk
<1> QED  BY <1>3, <1>6, <1>7, <1>8, Zenon

(* select_sector waits for an idle channel and sets its registers. *)
LEMMA SelectStep ==
  ASSUME DiskInv, NEW t \in Thread, select_sector(t)
  PROVE  DiskInv'
<1> USE DEF DiskInv
<1>0. task[t].at = "select" /\ hw.status = "idle" /\ UNCHANGED <<kind, c, disk, platter, spurious>>
  BY Zenon DEF select_sector, At, Idle
<1>1. /\ task' \in [Thread -> Request]
      /\ task'[t].at = "issue" /\ task'[t].op = task[t].op /\ task'[t].d = task[t].d
      /\ task'[t].sec = task[t].sec /\ task'[t].data = task[t].data
      /\ \A u \in Thread : u # t => task'[u] = task[u]
  BY GoToFacts, Zenon DEF select_sector, Place
<1>2. task[t].d \in Dev /\ task[t].sec \in Sector
  <2>1. task[t].d \in Dev
    <3>1. CASE task[t].op \in {"read", "write"}
      BY <3>1, Caller, Zenon
    <3>2. CASE task[t].op \notin {"read", "write"}
      BY <3>2, <1>0, Working DEF TaskInv, Booting
    <3> QED  BY <3>1, <3>2, Zenon
  <2> QED  BY <2>1, Zenon DEF TypeOK, Request
<1>3. /\ hw' \in Registers /\ hw'.status = "idle"
      /\ hw'.device = task[t].d /\ hw'.sector = task[t].sec
  <2> DEFINE h1 == wait_until_idle(hw)
             h2 == select_device(h1, task[t].d)
             h3 == wait_until_idle(h2)
  <2>1. h1 \in Registers /\ h1.status = "idle"
    BY <1>0, Zenon DEF wait_until_idle, TypeOK, Registers
  <2> HIDE DEF h1
  <2>2. h2 \in Registers /\ h2.status = "idle" /\ h2.device = task[t].d
    BY <1>2, <2>1, Zenon DEF select_device, Registers
  <2> HIDE DEF h2
  <2>3. h3 \in Registers /\ h3.status = "idle" /\ h3.device = task[t].d
    BY <2>2, Zenon DEF wait_until_idle, Registers
  <2>4. hw' = [h3 EXCEPT !.sector = task[t].sec]
    BY Zenon DEF select_sector, select_device_wait, h1, h2
  <2> HIDE DEF h3
  <2> QED  BY <1>2, <2>3, <2>4, Zenon DEF Registers
<1>4. TypeOK'
  BY <1>0, <1>1, <1>3, Zenon DEF TypeOK
<1>5. TaskInv'
  BY <1>0, <1>1, GoToTask, Zenon
<1>6. BusInv'
  <2>1. Serves(task[t])'
    BY <1>1, <1>3, Zenon DEF Serves
  <2> QED  BY <2>1, <1>0, <1>1, <1>3, BusOf, Zenon DEF Using
<1>7. DetectInv'
  BY <1>0, <1>1, GoToDetect, Zenon
<1> QED  BY <1>4, <1>5, <1>6, <1>7, Zenon

(* issue_pio_command gives the command of the call. *)
LEMMA IssueStep ==
  ASSUME DiskInv, NEW t \in Thread, issue_pio_command(t)
  PROVE  DiskInv'
<1> DEFINE p == IF task[t].op = "write" THEN "transfer" ELSE "wait"
<1> USE DEF DiskInv
<1>0. task[t].at = "issue" /\ GoTo(t, p) /\ UNCHANGED <<kind, disk, platter, spurious>>
  BY Zenon DEF issue_pio_command, At
<1>1. p \in {"transfer", "wait"} /\ (task[t].op = "write" <=> p = "transfer")
  BY Zenon
<1> HIDE DEF p
<1>2. /\ task' \in [Thread -> Request]
      /\ task'[t].at = p /\ task'[t].op = task[t].op /\ task'[t].d = task[t].d
      /\ task'[t].sec = task[t].sec /\ task'[t].data = task[t].data
      /\ \A u \in Thread : u # t => task'[u] = task[u]
  BY <1>0, <1>1, GoToFacts, Zenon DEF Place
<1>3. task[t].op \in {"read", "write", "identify"}
  BY <1>0, Working, Zenon
<1>4. /\ hw' \in Registers /\ hw'.status = "busy" /\ hw'.command = task[t].op /\ hw'.data = NoData
      /\ hw'.device = hw.device /\ hw'.sector = hw.sector
  <2> DEFINE op == task[t].op
  <2>1. hw' = [hw EXCEPT !.command = op, !.status = "busy", !.data = NoData]
    BY Zenon DEF issue_pio_command, Command
  <2>2. op \in {"none", "reset", "identify", "read", "write"}
    BY <1>3, Zenon
  <2> HIDE DEF op
  <2>3. /\ hw'.status = "busy" /\ hw'.command = op /\ hw'.data = NoData
        /\ hw'.device = hw.device /\ hw'.sector = hw.sector
    BY <2>1, Zenon DEF TypeOK, Registers
  <2>4. hw' \in Registers
    BY <2>1, <2>2, Zenon DEF TypeOK, Registers
  <2> QED  BY <2>3, <2>4, Zenon DEF op
<1>5. c' \in Channel /\ c'.lock = c.lock
  BY Zenon DEF issue_pio_command, TypeOK, Channel
<1>6. TypeOK'
  BY <1>0, <1>2, <1>4, <1>5, Zenon DEF TypeOK
<1>7. TaskInv'
  BY <1>0, <1>1, <1>2, <1>5, GoToTask, Zenon
<1>8. BusInv'
  <2>1. hw.device = task[t].d /\ hw.sector = task[t].sec
    BY <1>0, Zenon DEF BusInv, Serves
  <2>2. Serves(task[t])'
    BY <2>1, <1>1, <1>2, <1>4, Zenon DEF Serves
  <2> QED  BY <2>2, <1>0, <1>1, <1>2, <1>4, BusOf, Zenon DEF Using
<1>9. DetectInv'
  BY <1>0, <1>1, <1>2, GoToDetect, Zenon
<1> QED  BY <1>6, <1>7, <1>8, <1>9, Zenon

(* sema_down takes a completion, possibly one that came too early. *)
LEMMA DownStep ==
  ASSUME DiskInv, NEW t \in Thread, sema_down(t)
  PROVE  DiskInv'
<1> DEFINE p == IF task[t].op = "write" THEN "release" ELSE "transfer"
<1> USE DEF DiskInv
<1>0. task[t].at = "wait" /\ GoTo(t, p) /\ UNCHANGED <<kind, disk, hw, platter, spurious>>
  BY Zenon DEF sema_down, At
<1>1. p \in {"transfer", "release"} /\ (task[t].op = "write" <=> p = "release")
  BY Zenon
<1> HIDE DEF p
<1>2. /\ task' \in [Thread -> Request]
      /\ task'[t].at = p /\ task'[t].op = task[t].op /\ task'[t].d = task[t].d
      /\ task'[t].sec = task[t].sec /\ task'[t].data = task[t].data
      /\ \A u \in Thread : u # t => task'[u] = task[u]
  BY <1>0, <1>1, GoToFacts, Zenon DEF Place
<1>3. task[t].op = "write" => task[t].data \in Value
  BY Caller, Zenon
<1>4. c' \in Channel /\ c'.lock = c.lock
  BY DEF sema_down, TypeOK, Channel
<1>5. TypeOK'
  BY <1>0, <1>2, <1>4, Zenon DEF TypeOK
<1>6. TaskInv'
  BY <1>0, <1>1, <1>2, <1>3, <1>4, GoToTask, Zenon
<1>7. BusInv'
  <2>1. Serves(task[t])
    BY Zenon DEF BusInv
  <2>2. Serves(task[t])'
    BY <2>1, <1>0, <1>1, <1>2, Zenon DEF Serves
  <2>3. p = "release" => \/ hw'.status = "idle"
                         \/ hw'.status = "busy" /\ hw'.command = "write" /\ hw'.data \in Value
    BY <2>1, <1>0, <1>1, <1>3, Zenon DEF Serves
  <2> QED  BY <2>2, <2>3, <1>0, <1>1, <1>2, BusOf, Zenon DEF Using
<1>8. DetectInv'
  BY <1>0, <1>1, <1>2, GoToDetect, Zenon
<1> QED  BY <1>5, <1>6, <1>7, <1>8, Zenon

(* disk_read takes the data of its sector. *)
LEMMA InputStep ==
  ASSUME DiskInv, NEW t \in Thread, input_sector(t)
  PROVE  /\ DiskInv'
         /\ hw.data = platter[task[t].d][task[t].sec]
         /\ task'[t].data = hw.data /\ task'[t].at = "release" /\ task'[t].op = task[t].op
         /\ task'[t].d = task[t].d /\ task'[t].sec = task[t].sec
         /\ \A u \in Thread : u # t => task'[u] = task[u]
<1> USE DEF DiskInv
<1>0. /\ task[t].at = "transfer" /\ task[t].op = "read" /\ hw.status = "drq"
      /\ UNCHANGED <<kind, c, disk, platter, spurious>>
  BY Zenon DEF input_sector, At, Drq
<1>1. hw.data = platter[task[t].d][task[t].sec] /\ task[t].d \in Dev /\ task[t].sec \in Sector
  <2>1. Serves(task[t])
    BY Zenon DEF BusInv
  <2>2. hw.data = platter[task[t].d][task[t].sec]
    BY <2>1, <1>0, Zenon DEF Serves
  <2>3. task[t].d \in Dev
    BY <1>0, Caller, Zenon
  <2> QED  BY <2>2, <2>3, Zenon DEF TypeOK, Request
<1>2. hw.data \in Value
  BY <1>1 DEF TypeOK
<1>3. /\ task'[t].at = "release" /\ task'[t].op = task[t].op /\ task'[t].d = task[t].d
      /\ task'[t].sec = task[t].sec /\ task'[t].data = hw.data
      /\ \A u \in Thread : u # t => task'[u] = task[u]
  BY Zenon DEF input_sector, TypeOK, Request
<1>4. task' \in [Thread -> Request]
  <2> DEFINE k == [task[t] EXCEPT !.data = hw.data, !.at = "release"]
  <2>1. k \in Request
    BY <1>2, ZenonT(30) DEF TypeOK, Request, Place
  <2>2. task' = [task EXCEPT ![t] = k]
    BY Zenon DEF input_sector, TypeOK
  <2> HIDE DEF k
  <2> QED  BY <2>1, <2>2, Zenon DEF TypeOK
<1>5. hw' \in Registers /\ hw'.status = "idle"
  BY Zenon DEF input_sector, TypeOK, Registers
<1>6. TypeOK'
  BY <1>0, <1>4, <1>5, Zenon DEF TypeOK
<1>7. TaskInv'
  BY <1>0, <1>2, <1>3, GoToTask, Zenon
<1>8. BusInv'
  <2>1. Serves(task[t])'
    BY <1>3, NotServed, Zenon
  <2> QED  BY <2>1, <1>0, <1>3, <1>5, BusOf, Zenon DEF Using
<1>9. DetectInv'
  BY <1>0, <1>3, GoToDetect, Zenon
<1> QED  BY <1>1, <1>3, <1>6, <1>7, <1>8, <1>9, Zenon

(* disk_write gives the data to the device. *)
LEMMA OutputStep ==
  ASSUME DiskInv, NEW t \in Thread, output_sector(t)
  PROVE  /\ DiskInv'
         /\ hw'.status = "busy" /\ hw'.command = "write" /\ hw'.data = task[t].data
         /\ hw'.device = task[t].d /\ hw'.sector = task[t].sec
<1> USE DEF DiskInv
<1>0. /\ task[t].at = "transfer" /\ task[t].op = "write" /\ hw.status = "drq"
      /\ UNCHANGED <<kind, c, disk, platter, spurious>>
  BY Zenon DEF output_sector, At, Drq
<1>1. /\ task' \in [Thread -> Request]
      /\ task'[t].at = "wait" /\ task'[t].op = task[t].op /\ task'[t].d = task[t].d
      /\ task'[t].sec = task[t].sec /\ task'[t].data = task[t].data
      /\ \A u \in Thread : u # t => task'[u] = task[u]
  BY GoToFacts, Zenon DEF output_sector, Place
<1>2. task[t].data \in Value
  BY <1>0, Caller, Zenon
<1>3. hw' \in Registers /\ hw'.status = "busy" /\ hw'.data = task[t].data
      /\ hw'.command = hw.command /\ hw'.device = hw.device /\ hw'.sector = hw.sector
  BY <1>2, Zenon DEF output_sector, TypeOK, Registers
<1>4. Serves(task[t])
  BY Zenon DEF BusInv
<1>5. hw.command = "write" /\ hw.device = task[t].d /\ hw.sector = task[t].sec
  BY <1>0, <1>4, Zenon DEF Serves
<1>6. TypeOK'
  BY <1>0, <1>1, <1>3, Zenon DEF TypeOK
<1>7. TaskInv'
  BY <1>0, <1>1, GoToTask, Zenon
<1>8. BusInv'
  <2>1. Serves(task[t])'
    BY <1>0, <1>1, <1>3, <1>5, Zenon DEF Serves
  <2> QED  BY <2>1, <1>0, <1>1, BusOf, Zenon DEF Using
<1>9. DetectInv'
  BY <1>0, <1>1, GoToDetect, Zenon
<1> QED  BY <1>3, <1>5, <1>6, <1>7, <1>8, <1>9, Zenon

(* A call ends and gives the lock back. *)
LEMMA ReleaseStep ==
  ASSUME DiskInv, NEW t \in Thread, lock_release(t)
  PROVE  DiskInv'
<1> USE DEF DiskInv
<1>0. Main \in Thread /\ task[t].at = "release" /\ UNCHANGED <<kind, disk, hw, platter, spurious>>
  BY DiskAssumption, Zenon DEF lock_release, At
<1>1. NoCall \in Request /\ NoCall.at = "out" /\ NoCall.op = "none"
  BY DiskAssumption DEF NoCall, Request, Place, Sector
<1>2. /\ task' \in [Thread -> Request] /\ task'[t] = NoCall
      /\ \A u \in Thread : u # t => task'[u] = task[u]
  BY <1>1, Zenon DEF lock_release, TypeOK
<1>3. c' \in Channel /\ c'.lock = Nobody
  BY Zenon DEF lock_release, TypeOK, Channel
<1>4. ~Booting /\ c.lock = t /\ task[t].op \in {"read", "write"}
  BY <1>0, Working, Caller, Zenon
<1>5. ~Booting'
  BY <1>0, <1>1, <1>2, <1>4, Zenon DEF Booting
<1>6. TypeOK'
  BY <1>0, <1>2, <1>3, Zenon DEF TypeOK
<1>7. TaskInv'
  <2>1. ASSUME NEW u \in Thread
        PROVE  \/ task'[u] = NoCall /\ c'.lock # u
               \/ /\ task'[u].op \in {"read", "write"} /\ task'[u].d \in Dev
                  /\ task'[u].at \in {"lock", "select", "issue", "wait", "transfer", "release"}
                  /\ c'.lock = u <=> task'[u].at # "lock"
                  /\ task'[u].op = "write" \/ task'[u].at = "release" => task'[u].data \in Value
    <3>1. c'.lock # u
      BY <1>3, DiskAssumption, Zenon
    <3>2. CASE u = t
      BY <3>1, <3>2, <1>2, Zenon
    <3>3. CASE u # t
      BY <3>1, <3>3, <1>2, <1>4 DEF TaskInv
    <3> QED  BY <3>2, <3>3, Zenon
  <2> QED  BY <2>1, <1>5, Zenon DEF TaskInv, NoCall
<1>8. BusInv'
  <2>1. ASSUME NEW u \in Thread PROVE task[u].at \notin {"check", "issue", "wait", "transfer"}
    BY <2>1, <1>0, OneUser, Zenon DEF Using
  <2>2. Serves(task[t])'
    BY <1>1, <1>2, NotServed, Zenon
  <2>3. \/ hw'.status = "idle"
        \/ hw'.status = "busy" /\ hw'.command = "write" /\ hw'.data \in Value
    BY <2>1, <1>0, Zenon DEF BusInv
  <2> QED  BY <2>2, <2>3, <1>0, <1>1, <1>2, BusOf, Zenon DEF Using
<1>9. DetectInv'
  <2>1. /\ task[Main].op # "identify" /\ task'[Main].op # "identify"
        /\ task'[Main].at \notin {"reset", "check"} /\ task[Main].at \notin {"reset", "check"}
    BY <1>4, <1>5, Zenon DEF Booting
  <2> QED  BY <2>1, <1>0, Zenon DEF DetectInv, Passes, IsDisk
<1> QED  BY <1>6, <1>7, <1>8, <1>9, Zenon

(* A thread calls disk_read or disk_write. *)
LEMMA CallStep ==
  ASSUME DiskInv, NEW t \in Thread, NEW op \in {"read", "write"}, NEW d \in Dev,
         NEW sec \in Sector, NEW v \in Value \cup {NoData}, op = "write" => v \in Value,
         disk_call(t, op, d, sec, v)
  PROVE  /\ DiskInv' /\ task[t] = NoCall
         /\ task'[t] = [at |-> "lock", op |-> op, d |-> d, sec |-> sec, data |-> v]
         /\ \A u \in Thread : u # t => task'[u] = task[u]
<1> DEFINE k == [at |-> "lock", op |-> op, d |-> d, sec |-> sec, data |-> v]
<1> USE DEF DiskInv
<1>0. Main \in Thread /\ task[t].at = "out" /\ UNCHANGED <<kind, c, disk, hw, platter, spurious>>
  BY DiskAssumption, Zenon DEF disk_call, At
<1>1. ~Booting
  BY Zenon DEF disk_call, At, Booting
<1>2. /\ k \in Request /\ k.at = "lock" /\ k.op = op /\ k.d = d /\ k.data = v
  BY DEF Request, Place, Dev
<1>3. task' = [task EXCEPT ![t] = k]
  BY Zenon DEF disk_call
<1> HIDE DEF k
<1>4. /\ task' \in [Thread -> Request] /\ task'[t] = k
      /\ \A u \in Thread : u # t => task'[u] = task[u]
  BY <1>2, <1>3, Zenon DEF TypeOK
<1>5. task[t] = NoCall /\ c.lock # t
  BY <1>0, <1>1, Zenon DEF TaskInv
<1>6. ~Booting'
  BY <1>0, <1>1, <1>2, <1>4, Zenon DEF Booting
<1>7. TypeOK'
  BY <1>0, <1>4, Zenon DEF TypeOK
<1>8. TaskInv'
  <2>1. ASSUME NEW u \in Thread
        PROVE  \/ task'[u] = NoCall /\ c'.lock # u
               \/ /\ task'[u].op \in {"read", "write"} /\ task'[u].d \in Dev
                  /\ task'[u].at \in {"lock", "select", "issue", "wait", "transfer", "release"}
                  /\ c'.lock = u <=> task'[u].at # "lock"
                  /\ task'[u].op = "write" \/ task'[u].at = "release" => task'[u].data \in Value
    <3>1. CASE u = t
      BY <3>1, <1>0, <1>2, <1>4, <1>5, Zenon
    <3>2. CASE u # t
      BY <3>2, <1>0, <1>1, <1>4 DEF TaskInv
    <3> QED  BY <3>1, <3>2, Zenon
  <2> QED  BY <2>1, <1>6, Zenon DEF TaskInv, NoCall
<1>9. BusInv'
  <2>1. Serves(task[t])'
    BY <1>2, <1>4, NotServed, Zenon
  <2>2. ASSUME NEW u \in Thread, u # t
        PROVE  Serves(task[u])' /\ task'[u] = task[u]
    BY <2>2, <1>0, <1>4 DEF BusInv, Serves
  <2>3. task'[Main].at \notin {"reset", "check"}
    BY <1>6, Zenon DEF Booting
  <2>4. (\A u \in Thread : task'[u].at \notin {"check", "issue", "wait", "transfer"})
        => \A u \in Thread : task[u].at \notin {"check", "issue", "wait", "transfer"}
    BY <1>0, <2>2, Zenon
  <2> QED  BY <2>1, <2>2, <2>3, <2>4, <1>0, Zenon DEF BusInv
<1>10. DetectInv'
  <2>1. /\ task[Main].op # "identify" /\ task'[Main].op # "identify"
        /\ task'[Main].at \notin {"reset", "check"} /\ task[Main].at \notin {"reset", "check"}
    BY <1>1, <1>6, Zenon DEF Booting
  <2> QED  BY <2>1, <1>0, Zenon DEF DetectInv, Passes, IsDisk
<1> QED  BY <1>4, <1>5, <1>7, <1>8, <1>9, <1>10, Zenon DEF k

(* Every step keeps the invariant. *)
LEMMA NextInv == DiskInv /\ [Next]_vars => DiskInv'
<1> SUFFICES ASSUME DiskInv, [Next]_vars PROVE DiskInv'
  BY Zenon
<1>1. CASE Device  BY <1>1, DeviceStep, Zenon
<1>2. CASE Spurious  BY <1>2, SpuriousStep, Zenon
<1>3. CASE interrupt_handler  BY <1>3, HandlerStep, Zenon
<1>4. CASE disk_init
  BY <1>4, ResetStep, CheckStep, NextStep, IdentifyStep, Zenon DEF disk_init
<1>5. ASSUME NEW t \in Thread, Run(t) PROVE DiskInv'
  BY <1>5, AcquireStep, SelectStep, IssueStep, DownStep, InputStep, OutputStep, ReleaseStep, Zenon DEF Run
<1>6. ASSUME NEW t \in Thread, Calls(t) PROVE DiskInv'
  <2>1. PICK d \in Dev, sec \in Sector :
          \/ disk_call(t, "read", d, sec, NoData)
          \/ \E v \in Value : disk_call(t, "write", d, sec, v)
    BY <1>6, Zenon DEF Calls
  <2>2. CASE disk_call(t, "read", d, sec, NoData)
    BY <2>2, CallStep, Zenon
  <2>3. CASE \E v \in Value : disk_call(t, "write", d, sec, v)
    BY <2>3, CallStep, Zenon
  <2> QED  BY <2>1, <2>2, <2>3, Zenon
<1>7. CASE UNCHANGED vars
  <2> USE <1>7 DEF vars
  <2>1. TypeOK'  BY Zenon DEF TypeOK, DiskInv
  <2>2. TaskInv'  BY TaskSame, Zenon DEF DiskInv
  <2>3. BusInv'  BY BusSame, Zenon DEF DiskInv
  <2>4. DetectInv'  BY DetectSame, Zenon DEF DiskInv
  <2> QED  BY <2>1, <2>2, <2>3, <2>4, Zenon DEF DiskInv
<1>8. ASSUME NEW t \in Thread, busy_timeout(t) \/ idle_timeout(t) PROVE DiskInv'
  <2> USE <1>8 DEF busy_timeout, idle_timeout, Stop
  <2>1. TypeOK'  BY Zenon DEF TypeOK, DiskInv
  <2>2. TaskInv'  BY TaskSame, Zenon DEF DiskInv
  <2>3. BusInv'  BY BusSame, Zenon DEF DiskInv
  <2>4. DetectInv'  BY DetectSame, Zenon DEF DiskInv
  <2> QED  BY <2>1, <2>2, <2>3, <2>4, Zenon DEF DiskInv
<1> QED  BY <1>1, <1>2, <1>3, <1>4, <1>5, <1>6, <1>7, <1>8, Zenon DEF Next, Works

(* DiskInv is an invariant of disk_init, of transfers by any threads and   *)
(* of interrupts at any time.                                              *)
THEOREM Invariance == Spec => []DiskInv
BY InitInv, NextInv, PTL DEF Spec

(* Once disk_init is over, is_ata and capacity say what is attached.       *)
THEOREM DetectsWhatIsThere == Spec => []DetectedRight
<1>1. DiskInv => DetectedRight
  <2> SUFFICES ASSUME DiskInv, At(Main, "out"), NEW d \in Dev
               PROVE  /\ disk_get(d) <=> IsDisk(d)
                      /\ disk_size(d) = IF IsDisk(d) THEN Capacity ELSE 0
    BY Zenon DEF DetectedRight
  <2>1. task[Main].op # "identify" /\ task[Main].at = "out"
    BY DiskAssumption, Zenon DEF DiskInv, TaskInv, NoCall, At, Booting
  <2>2. d < 2  BY DEF Dev
  <2>3. disk[d] = [is_ata |-> IsDisk(d), capacity |-> IF IsDisk(d) THEN Capacity ELSE 0]
    BY <2>1, <2>2, Zenon DEF DiskInv, DetectInv
  <2> QED  BY <2>3 DEF disk_get, disk_size
<1> QED  BY <1>1, Invariance, PTL

(* disk_read and disk_write never find a device without data to transfer,  *)
(* even after a spurious interrupt, and a read returns data.               *)
THEOREM TransfersAreReady == Spec => []TransferReady
<1>1. DiskInv => TransferReady
  <2> SUFFICES ASSUME DiskInv, NEW t \in Thread
               PROVE  /\ At(t, "transfer") /\ task[t].op # "identify" /\ wait_while_busy => Drq
                      /\ At(t, "release") /\ task[t].op = "read" => task[t].data \in Value
    BY Zenon DEF TransferReady
  <2>1. Serves(task[t]) /\ TaskInv /\ hw.status \in {"idle", "busy", "drq"}
    BY Zenon DEF DiskInv, BusInv, TypeOK, Registers
  <2>2. ASSUME At(t, "transfer"), task[t].op # "identify", wait_while_busy
        PROVE  Drq
    <3>1. task[t].op \in {"read", "write"}
      BY <2>1, <2>2, Working, Zenon DEF At
    <3> QED  BY <2>1, <2>2, <3>1, Zenon DEF Serves, At, wait_while_busy, Drq
  <2>3. ASSUME At(t, "release"), task[t].op = "read"
        PROVE  task[t].data \in Value
    BY <2>1, <2>3, Caller, Zenon DEF At
  <2> QED  BY <2>2, <2>3, Zenon
<1> QED  BY <1>1, Invariance, PTL

-----------------------------------------------------------------------------
(* Transfers are atomic                                                    *)

Calling == [t \in Thread |-> CallOf(t)]

(* Data is on its way from the channel to the platter. *)
Pending == hw.command = "write" /\ hw.status = "busy" /\ hw.data # NoData

(* With nothing on its way the sectors hold what is on the platter. *)
LEMMA HeldOnPlatter ==
  ASSUME TypeOK, ~Pending
  PROVE  Held = platter
BY Zenon DEF Held, TypeOK, Pending

(* What CallOf sees of a thread. *)
LEMMA CallSame ==
  ASSUME NEW t \in Thread, task'[t].op = task[t].op, task'[t].d = task[t].d,
         task'[t].sec = task[t].sec, task'[t].data = task[t].data,
         \/ task'[t].at = task[t].at
         \/ /\ task[t].at \notin {"release", "wait"}
            /\ task'[t].at \notin {"release", "wait"} \/ (task'[t].at = "wait" /\ task[t].op # "write")
         \/ task[t].at = "wait" /\ task[t].op = "write" /\ task'[t].at = "release"
         \/ task[t].at = "wait" /\ task[t].op # "write" /\ task'[t].at = "transfer"
         \/ task[t].op \notin {"read", "write"}
  PROVE  CallOf(t)' = CallOf(t)
<1>1. CASE task[t].op \notin {"read", "write"}
  BY <1>1, Zenon DEF CallOf
<1>2. CASE task[t].op \in {"read", "write"}
  <2>1. (At(t, "release") \/ (At(t, "wait") /\ task[t].op = "write"))'
        = (At(t, "release") \/ (At(t, "wait") /\ task[t].op = "write"))
    BY <1>2, Zenon DEF At
  <2> QED  BY <1>2, <2>1, Zenon DEF CallOf
<1> QED  BY <1>1, <1>2, Zenon

(* If no call is seen to change, nothing is. *)
LEMMA CallingSame ==
  ASSUME \A t \in Thread : CallOf(t)' = CallOf(t)
  PROVE  Calling' = Calling
BY Zenon DEF Calling

(* Nothing has changed for Held. *)
LEMMA HeldSame ==
  ASSUME hw'.command = hw.command, hw'.status = hw.status, hw'.data = hw.data,
         hw'.device = hw.device, hw'.sector = hw.sector, platter' = platter
  PROVE  Held' = Held
BY Zenon DEF Held

(* A device finishes: what it writes was already held. *)
LEMMA DeviceHidden ==
  ASSUME DiskInv, Device
  PROVE  Held' = Held /\ Calling' = Calling
<1>1. TypeOK /\ TypeOK' /\ task' = task
  BY DeviceStep, Zenon DEF DiskInv, Device
<1>2. Calling' = Calling
  BY <1>1, Zenon DEF Calling, CallOf, At
<1>3. hw'.status # "busy" /\ hw.status = "busy"
  BY <1>1 DEF Device, TypeOK, Registers
<1>4. Held' = platter'
  <2>1. ~Pending'  BY <1>3, Zenon DEF Pending
  <2> QED  BY <1>1, <2>1, Zenon DEF Held, TypeOK, Pending
<1>5. CASE Pending
  <2>1. platter' = [platter EXCEPT ![hw.device][hw.sector] = hw.data]
    BY <1>5, Zenon DEF Device, Pending
  <2>2. Held = platter'
    BY <1>1, <1>5, <2>1, Zenon DEF Held, TypeOK, Pending, Registers
  <2> QED  BY <1>2, <1>4, <2>2, Zenon
<1>6. CASE ~Pending
  <2>1. platter' = platter
    BY <1>3, <1>6, Zenon DEF Device, Pending
  <2> QED  BY <1>1, <1>2, <1>4, <1>6, <2>1, HeldOnPlatter, Zenon
<1> QED  BY <1>5, <1>6, Zenon

(* Between two moments with nothing on its way and the same platter, the   *)
(* sectors hold the same.                                                  *)
LEMMA HeldQuiet ==
  ASSUME TypeOK, TypeOK', ~Pending, ~Pending', platter' = platter
  PROVE  Held' = Held
<1>1. Held = platter  BY HeldOnPlatter, Zenon
<1>2. Held' = platter'
  BY Zenon DEF Held, TypeOK, Pending
<1> QED  BY <1>1, <1>2, Zenon

(* disk_init transfers no sector. *)
LEMMA InitHidden ==
  ASSUME DiskInv, disk_init
  PROVE  Held' = Held /\ Calling' = Calling
<1>0. Main \in Thread /\ TypeOK /\ TaskInv /\ BusInv
  BY DiskAssumption, Zenon DEF DiskInv
<1>1. DiskInv' /\ TypeOK'
  BY ResetStep, CheckStep, NextStep, IdentifyStep, Zenon DEF disk_init, DiskInv
<1>2. ASSUME task[Main].op \notin {"read", "write"}, task'[Main].op \notin {"read", "write"},
             \A u \in Thread : u # Main => task'[u] = task[u]
      PROVE  Calling' = Calling
  <2>1. ASSUME NEW u \in Thread PROVE CallOf(u)' = CallOf(u)
    <3>1. CASE u = Main  BY <1>2, <3>1, Zenon DEF CallOf
    <3>2. CASE u # Main  BY <1>2, <3>2, Zenon DEF CallOf, At
    <3> QED  BY <3>1, <3>2, Zenon
  <2> QED  BY <2>1, CallingSame, Zenon
<1>3. CASE reset_channel
  <2>1. task[Main].at = "reset" /\ platter' = platter
    BY <1>3, Zenon DEF reset_channel, At
  <2>2. task[Main].op = "none"
    BY <2>1, <1>0, Zenon DEF TaskInv, Booting
  <2>3. /\ task'[Main].op = task[Main].op
        /\ \A u \in Thread : u # Main => task'[u] = task[u]
    BY <1>0, <1>3, GoToFacts, Zenon DEF reset_channel, Place
  <2>4. Calling' = Calling
    BY <1>2, <2>2, <2>3, Zenon
  <2>5. ~Pending
    BY <2>1, <1>0, Zenon DEF BusInv, Pending
  <2>6. hw'.command = "reset"
    BY <1>0, <1>3, Zenon DEF reset_channel, Command, TypeOK, Registers
  <2>7. ~Pending'
    BY <2>6, Zenon DEF Pending
  <2> QED  BY <2>1, <2>4, <2>5, <2>7, <1>0, <1>1, HeldQuiet, Zenon
<1>4. CASE disk_init_check
  <2>1. task[Main].at = "check" /\ platter' = platter /\ hw.status # "busy"
    BY <1>4, Zenon DEF disk_init_check, At, wait_while_busy
  <2>2. task[Main].op = "none"
    BY <2>1, <1>0, Zenon DEF TaskInv, Booting
  <2>3. task'[Main].op = "identify" /\ \A u \in Thread : u # Main => task'[u] = task[u]
    BY <1>0, <1>4, Zenon DEF disk_init_check, TypeOK
  <2>4. Calling' = Calling
    BY <1>2, <2>2, <2>3, Zenon
  <2>5. ~Pending
    BY <2>1, Zenon DEF Pending
  <2>6. hw'.status = hw.status
    BY <1>0, <1>4, Zenon DEF disk_init_check, TypeOK, Registers
  <2>7. ~Pending'
    BY <2>1, <2>6, Zenon DEF Pending
  <2> QED  BY <2>1, <2>4, <2>5, <2>7, <1>0, <1>1, HeldQuiet, Zenon
<1>5. CASE disk_init_next
  <2>1. task[Main].at = "next" /\ platter' = platter /\ hw' = hw
    BY <1>5, Zenon DEF disk_init_next, At
  <2>2. task[Main].op = "identify"
    BY <2>1, <1>0 DEF TaskInv, Booting, NoCall
  <2>3. /\ task'[Main].op \in {"none", "identify"}
        /\ \A u \in Thread : u # Main => task'[u] = task[u]
    BY <1>0, <1>5, <2>2 DEF disk_init_next, TypeOK, Request, GoTo, NoCall
  <2>4. Calling' = Calling
    BY <1>2, <2>2, <2>3, Zenon
  <2> QED  BY <2>1, <2>4, HeldSame, Zenon
<1>6. CASE identify_ata_device
  <2>1. task[Main].op = "identify" /\ platter' = platter /\ hw.status # "busy"
    BY <1>6, Zenon DEF identify_ata_device, At, wait_while_busy
  <2>2. task'[Main].op = task[Main].op /\ \A u \in Thread : u # Main => task'[u] = task[u]
    BY <1>0, <1>6, Zenon DEF identify_ata_device, TypeOK, Request
  <2>3. Calling' = Calling
    BY <1>2, <2>1, <2>2, Zenon
  <2>4. hw'.status = "idle"
    BY <1>0, <1>6, Zenon DEF identify_ata_device, TypeOK, Registers
  <2>5. ~Pending /\ ~Pending'
    BY <2>1, <2>4, Zenon DEF Pending
  <2> QED  BY <2>1, <2>3, <2>5, <1>0, <1>1, HeldQuiet, Zenon
<1> QED  BY <1>3, <1>4, <1>5, <1>6, Zenon DEF disk_init

(* Taking the lock, selecting, giving the command and waiting change       *)
(* nothing that callers see.                                               *)
LEMMA RunHidden ==
  ASSUME DiskInv, NEW t \in Thread,
         lock_acquire(t) \/ select_sector(t) \/ issue_pio_command(t) \/ sema_down(t)
  PROVE  Held' = Held /\ Calling' = Calling
<1>0. TypeOK /\ TaskInv /\ BusInv
  BY Zenon DEF DiskInv
<1>1. DiskInv' /\ TypeOK'
  BY AcquireStep, SelectStep, IssueStep, DownStep, Zenon DEF DiskInv
<1>2. ASSUME NEW p \in Place, GoTo(t, p),
             \/ /\ task[t].at \notin {"release", "wait"}
                /\ p \notin {"release", "wait"} \/ (p = "wait" /\ task[t].op # "write")
             \/ task[t].at = "wait" /\ task[t].op = "write" /\ p = "release"
             \/ task[t].at = "wait" /\ task[t].op # "write" /\ p = "transfer"
      PROVE  Calling' = Calling
  <2>1. /\ task'[t].at = p /\ task'[t].op = task[t].op /\ task'[t].d = task[t].d
        /\ task'[t].sec = task[t].sec /\ task'[t].data = task[t].data
        /\ \A u \in Thread : u # t => task'[u] = task[u]
    BY <1>0, <1>2, GoToFacts, Zenon
  <2>2. ASSUME NEW u \in Thread PROVE CallOf(u)' = CallOf(u)
    <3>1. CASE u = t  BY <1>2, <2>1, <3>1, CallSame, Zenon
    <3>2. CASE u # t  BY <2>1, <3>2, Zenon DEF CallOf, At
    <3> QED  BY <3>1, <3>2, Zenon
  <2> QED  BY <2>2, CallingSame, Zenon
<1>3. CASE lock_acquire(t)
  <2>1. Calling' = Calling
    BY <1>2, <1>3, Zenon DEF lock_acquire, At, Place
  <2> QED  BY <2>1, <1>3, HeldSame, Zenon DEF lock_acquire
<1>4. CASE select_sector(t)
  <2>1. Calling' = Calling
    BY <1>2, <1>4, Zenon DEF select_sector, At, Place
  <2>2. ~Pending /\ platter' = platter
    BY <1>4, Zenon DEF select_sector, Idle, Pending
  <2>3. task'[t].at = "issue"
    BY <1>0, <1>4, GoToFacts, Zenon DEF select_sector, Place
  <2>4. ~Pending'
    BY <2>3, <1>1, Zenon DEF DiskInv, BusInv, Serves, Pending
  <2> QED  BY <2>1, <2>2, <2>4, <1>0, <1>1, HeldQuiet, Zenon
<1>5. CASE issue_pio_command(t)
  <2>1. Calling' = Calling
    BY <1>2, <1>5, Zenon DEF issue_pio_command, At, Place
  <2>2. ~Pending /\ platter' = platter
    BY <1>0, <1>5, Zenon DEF issue_pio_command, At, BusInv, Serves, Pending
  <2>3. hw'.data = NoData
    BY <1>0, <1>5, Zenon DEF issue_pio_command, Command, TypeOK, Registers
  <2>4. ~Pending'
    BY <2>3, Zenon DEF Pending
  <2> QED  BY <2>1, <2>2, <2>4, <1>0, <1>1, HeldQuiet, Zenon
<1>6. CASE sema_down(t)
  <2>1. Calling' = Calling
    BY <1>2, <1>6, Zenon DEF sema_down, At, Place
  <2> QED  BY <2>1, <1>6, HeldSame, Zenon DEF sema_down
<1> QED  BY <1>3, <1>4, <1>5, <1>6, Zenon

(* What callers see after a step of t alone. *)
LEMMA CallingOf ==
  ASSUME NEW t \in Thread, NEW r, CallOf(t)' = r,
         \A u \in Thread : u # t => task'[u] = task[u]
  PROVE  Calling' = [Calling EXCEPT ![t] = r]
<1>1. \A u \in Thread : u # t => CallOf(u)' = CallOf(u)
  BY Zenon DEF CallOf, At
<1> QED  BY <1>1, Zenon DEF Calling

(* A call of disk_read or disk_write is a call of Sectors. *)
LEMMA CallSeen ==
  ASSUME DiskInv, NEW t \in Thread, NEW op \in {"read", "write"}, NEW d \in Dev,
         NEW sec \in Sector, NEW v \in Value \cup {NoData}, op = "write" => v \in Value,
         disk_call(t, op, d, sec, v)
  PROVE  S!Call(t)
<1> DEFINE r == [op |-> op, d |-> d, sec |-> sec, data |-> v, over |-> FALSE]
<1>1. /\ task[t] = NoCall
      /\ task'[t] = [at |-> "lock", op |-> op, d |-> d, sec |-> sec, data |-> v]
      /\ \A u \in Thread : u # t => task'[u] = task[u]
  BY CallStep
<1>2. Held' = Held
  BY HeldSame, Zenon DEF disk_call
<1>3. CallOf(t)' = r
  <2>1. /\ task'[t].op = op /\ task'[t].d = d /\ task'[t].sec = sec /\ task'[t].data = v
        /\ task'[t].at = "lock"
    BY <1>1
  <2>2. (At(t, "release") \/ (At(t, "wait") /\ task[t].op = "write"))' = FALSE
    BY <2>1, Zenon DEF At
  <2> QED  BY <2>1, <2>2, Zenon DEF CallOf
<1>4. CallOf(t).op = "none"
  BY <1>1 DEF CallOf, NoCall
<1>5. Calling[t].op = "none" /\ Calling' = [Calling EXCEPT ![t] = r]
  BY <1>1, <1>3, <1>4, CallingOf, Zenon DEF Calling
<1>6. \E p \in {"read", "write"}, e \in Dev, x \in Sector, w \in Value \cup {NoData} :
        Calling' = [Calling EXCEPT ![t] = [op |-> p, d |-> e, sec |-> x, data |-> w, over |-> FALSE]]
  BY <1>5, Zenon
<1> QED  BY <1>2, <1>5, <1>6, Zenon DEF S!Call, Calling

(* disk_read's transfer is the transfer of Sectors. *)
LEMMA InputSeen ==
  ASSUME DiskInv, NEW t \in Thread, input_sector(t)
  PROVE  S!Transfer(t)
<1> DEFINE k == Calling[t]
           x == platter[task[t].d][task[t].sec]
<1>0. TypeOK /\ DiskInv' /\ TypeOK'
  BY InputStep, Zenon DEF DiskInv
<1>1. /\ task'[t].data = x /\ task'[t].at = "release" /\ task'[t].op = "read"
      /\ task'[t].d = task[t].d /\ task'[t].sec = task[t].sec /\ task[t].op = "read"
      /\ task[t].at = "transfer" /\ \A u \in Thread : u # t => task'[u] = task[u]
  BY InputStep, Zenon DEF input_sector, At
<1>2. Held = platter /\ Held' = Held
  <2>1. hw.status = "drq" /\ platter' = platter
    BY Zenon DEF input_sector, Drq
  <2>2. hw'.status = "idle"
    BY <1>0, Zenon DEF input_sector, TypeOK, Registers
  <2>3. ~Pending /\ ~Pending'
    BY <2>1, <2>2, Zenon DEF Pending
  <2> QED  BY <2>1, <2>3, <1>0, HeldOnPlatter, HeldQuiet, Zenon
<1>3. k = [op |-> "read", d |-> task[t].d, sec |-> task[t].sec, data |-> task[t].data, over |-> FALSE]
  <2>1. (At(t, "release") \/ (At(t, "wait") /\ task[t].op = "write")) = FALSE
    BY <1>1, Zenon DEF At
  <2>2. k = CallOf(t)
    BY Zenon DEF Calling
  <2> QED  BY <1>1, <2>1, <2>2, Zenon DEF CallOf
<1>4. CallOf(t)' = [op |-> "read", d |-> task[t].d, sec |-> task[t].sec, data |-> x, over |-> TRUE]
  <2>1. (At(t, "release") \/ (At(t, "wait") /\ task[t].op = "write"))' = TRUE
    BY <1>1, Zenon DEF At
  <2> QED  BY <1>1, <2>1, Zenon DEF CallOf
<1>5. /\ k.op = "read" /\ k.d = task[t].d /\ k.sec = task[t].sec /\ ~k.over
  BY <1>3
<1>6. x = Held[k.d][k.sec]
  BY <1>2, <1>5, Zenon
<1>7. Calling' = [Calling EXCEPT ![t] = [op |-> "read", d |-> task[t].d, sec |-> task[t].sec,
                                         data |-> x, over |-> TRUE]]
  BY <1>1, <1>4, CallingOf, Zenon
<1>8. Calling' = [Calling EXCEPT ![t].data = Held[k.d][k.sec], ![t].over = TRUE]
  <2> DEFINE y == Held[k.d][k.sec]
             q == [Calling EXCEPT ![t].data = y, ![t].over = TRUE]
  <2>1. q[t] = [op |-> "read", d |-> task[t].d, sec |-> task[t].sec, data |-> y, over |-> TRUE]
    <3>1. q[t] = [[k EXCEPT !.data = y] EXCEPT !.over = TRUE]
      BY Zenon DEF Calling
    <3> HIDE DEF k, y, q
    <3> QED  BY <3>1, <1>3, Zenon
  <2>2. DOMAIN q = Thread /\ \A u \in Thread : u # t => q[u] = Calling[u]
    BY Zenon DEF Calling
  <2>3. q = [u \in Thread |-> q[u]]
    BY Zenon DEF Calling
  <2> HIDE DEF q, y
  <2>4. Calling' = q
    <3>1. DOMAIN Calling = Thread /\ Calling = [u \in Thread |-> Calling[u]]
      BY Zenon DEF Calling
    <3>2. Calling'[t] = q[t]
      BY <2>1, <3>1, <1>6, <1>7, Zenon DEF y
    <3>3. \A u \in Thread : u # t => Calling'[u] = q[u]
      BY <2>2, <3>1, <1>7, Zenon
    <3>4. Calling' = [u \in Thread |-> Calling'[u]]
      BY Zenon DEF Calling
    <3>5. [u \in Thread |-> Calling'[u]] = [u \in Thread |-> q[u]]
      BY <3>2, <3>3, Zenon
    <3> QED  BY <2>3, <3>4, <3>5, Zenon
  <2> QED  BY <2>4, Zenon DEF q, y
<1> QED  BY <1>2, <1>5, <1>8, Zenon DEF S!Transfer, Calling

(* disk_write's transfer is the transfer of Sectors: it takes effect when  *)
(* the data has gone to the device.                                        *)
LEMMA OutputSeen ==
  ASSUME DiskInv, NEW t \in Thread, output_sector(t)
  PROVE  S!Transfer(t)
<1> DEFINE k == Calling[t]
<1>0. TypeOK /\ TaskInv /\ DiskInv' /\ TypeOK'
  BY OutputStep, Zenon DEF DiskInv
<1>1. /\ task[t].at = "transfer" /\ task[t].op = "write" /\ hw.status = "drq"
      /\ platter' = platter
  BY Zenon DEF output_sector, At, Drq
<1>2. /\ task'[t].at = "wait" /\ task'[t].op = "write" /\ task'[t].d = task[t].d
      /\ task'[t].sec = task[t].sec /\ task'[t].data = task[t].data
      /\ \A u \in Thread : u # t => task'[u] = task[u]
  BY <1>0, <1>1, GoToFacts, Zenon DEF output_sector, Place
<1>3. /\ hw'.status = "busy" /\ hw'.command = "write" /\ hw'.data = task[t].data
      /\ hw'.device = task[t].d /\ hw'.sector = task[t].sec
  BY OutputStep, Zenon
<1>4. task[t].data # NoData /\ task[t].d \in Dev /\ task[t].sec \in Sector
  BY <1>0, <1>1, Caller, DiskAssumption DEF TypeOK, Request
<1>5. Held = platter
  BY <1>0, <1>1, HeldOnPlatter, Zenon DEF Pending
<1>6. Held' = [Held EXCEPT ![task[t].d][task[t].sec] = task[t].data]
  <2>1. Held' = [d \in Dev |-> [s \in Sector |->
                   IF d = task[t].d /\ s = task[t].sec THEN task[t].data ELSE platter[d][s]]]
    BY <1>1, <1>3, <1>4, Zenon DEF Held
  <2> QED  BY <2>1, <1>0, <1>4, <1>5, Zenon DEF TypeOK
<1>7. k = [op |-> "write", d |-> task[t].d, sec |-> task[t].sec, data |-> task[t].data, over |-> FALSE]
  <2>1. (At(t, "release") \/ (At(t, "wait") /\ task[t].op = "write")) = FALSE
    BY <1>1, Zenon DEF At
  <2>2. k = CallOf(t)
    BY Zenon DEF Calling
  <2> QED  BY <1>1, <2>1, <2>2, Zenon DEF CallOf
<1>8. CallOf(t)' = [op |-> "write", d |-> task[t].d, sec |-> task[t].sec, data |-> task[t].data, over |-> TRUE]
  <2>1. (At(t, "release") \/ (At(t, "wait") /\ task[t].op = "write"))' = TRUE
    BY <1>2, Zenon DEF At
  <2> QED  BY <1>2, <2>1, Zenon DEF CallOf
<1>9. k.op = "write" /\ k.d = task[t].d /\ k.sec = task[t].sec /\ k.data = task[t].data /\ ~k.over
  BY <1>7
<1>10. Calling' = [Calling EXCEPT ![t].over = TRUE]
  <2> DEFINE q == [k EXCEPT !.over = TRUE]
  <2>1. q = [k EXCEPT !.over = TRUE]
    BY Zenon
  <2>2. q = [op |-> "write", d |-> task[t].d, sec |-> task[t].sec, data |-> task[t].data, over |-> TRUE]
    <3> HIDE DEF k, q
    <3> QED  BY <1>7, <2>1, Zenon
  <2> HIDE DEF q
  <2>3. CallOf(t)' = q
    BY <2>2, <1>8, Zenon
  <2>4. Calling' = [Calling EXCEPT ![t] = q]
    BY <2>3, <1>2, CallingOf, Zenon
  <2> QED  BY <2>4, Zenon DEF q
<1>11. Held' = [Held EXCEPT ![k.d][k.sec] = k.data]
  BY <1>6, <1>9, Zenon
<1> QED  BY <1>9, <1>10, <1>11, Zenon DEF S!Transfer, Calling

(* A call returns after its transfer. *)
LEMMA ReleaseSeen ==
  ASSUME DiskInv, NEW t \in Thread, lock_release(t)
  PROVE  S!Return(t)
<1>0. TypeOK /\ TaskInv
  BY Zenon DEF DiskInv
<1>1. /\ task[t].at = "release" /\ task'[t] = NoCall
      /\ \A u \in Thread : u # t => task'[u] = task[u]
  BY <1>0, Zenon DEF lock_release, At, TypeOK
<1>2. Held' = Held
  BY HeldSame, Zenon DEF lock_release
<1>3. CallOf(t)' = S!None
  BY <1>1 DEF CallOf, NoCall, S!None
<1>4. CallOf(t).over
  <2>1. task[t].op \in {"read", "write"}
    BY <1>0, <1>1, Working, Zenon
  <2>2. (At(t, "release") \/ (At(t, "wait") /\ task[t].op = "write")) = TRUE
    BY <1>1, Zenon DEF At
  <2> QED  BY <2>1, <2>2, Zenon DEF CallOf
<1>5. Calling[t].over /\ Calling' = [Calling EXCEPT ![t] = S!None]
  BY <1>1, <1>3, <1>4, CallingOf, Zenon DEF Calling
<1> QED  BY <1>2, <1>5, Zenon DEF S!Return, Calling

(* Concurrent calls of disk_read and disk_write, with interrupts early,    *)
(* late or spurious, are transfers of whole sectors that each take effect  *)
(* at one moment between call and return.                                  *)
THEOREM TransfersAreAtomic == Spec => ImplementsSectors
<1>1. Init => S!Init
  <2> SUFFICES ASSUME Init PROVE S!Init  BY Zenon
  <2>1. TypeOK /\ TaskInv
    BY InitInv, Zenon DEF DiskInv
  <2>2. ~Pending
    BY Zenon DEF Init, Pending
  <2>3. Held \in [Dev -> [Sector -> Value]]
    BY <2>1, <2>2, HeldOnPlatter, Zenon DEF TypeOK
  <2>4. ASSUME NEW t \in Thread PROVE CallOf(t) = S!None
    <3>1. task[t].op = "none"
      BY Zenon DEF Init, NoCall
    <3> QED  BY <3>1, Zenon DEF CallOf, S!None
  <2> QED  BY <2>3, <2>4, Zenon DEF S!Init
<1>2. DiskInv /\ [Next]_vars => [S!Next]_<<Held, Calling>>
  <2> SUFFICES ASSUME DiskInv, [Next]_vars
               PROVE  S!Next \/ (Held' = Held /\ Calling' = Calling)
    BY Zenon
  <2>1. CASE Device  BY <2>1, DeviceHidden, Zenon
  <2>2. CASE Spurious
    BY <2>2, HeldSame, Zenon DEF Spurious, Calling, CallOf, At, DiskInv, TypeOK, Registers
  <2>3. CASE interrupt_handler
    BY <2>3, HeldSame, Zenon DEF interrupt_handler, Calling, CallOf, At, DiskInv, TypeOK, Registers
  <2>4. CASE disk_init  BY <2>4, InitHidden, Zenon
  <2>5. ASSUME NEW t \in Thread, Run(t)
        PROVE  S!Next \/ (Held' = Held /\ Calling' = Calling)
    BY <2>5, RunHidden, InputSeen, OutputSeen, ReleaseSeen, Zenon DEF Run, S!Next
  <2>6. ASSUME NEW t \in Thread, Calls(t)
        PROVE  S!Next
    <3>1. PICK d \in Dev, sec \in Sector :
            \/ disk_call(t, "read", d, sec, NoData)
            \/ \E v \in Value : disk_call(t, "write", d, sec, v)
      BY <2>6, Zenon DEF Calls
    <3>2. CASE disk_call(t, "read", d, sec, NoData)
      BY <3>2, CallSeen, Zenon DEF S!Next
    <3>3. CASE \E v \in Value : disk_call(t, "write", d, sec, v)
      BY <3>3, CallSeen, Zenon DEF S!Next
    <3> QED  BY <3>1, <3>2, <3>3, Zenon
  <2>7. CASE UNCHANGED vars
    BY <2>7, Zenon DEF vars, Held, Calling, CallOf, At
  <2>8. ASSUME NEW t \in Thread, busy_timeout(t) \/ idle_timeout(t)
        PROVE  Held' = Held /\ Calling' = Calling
    BY <2>8, Zenon DEF busy_timeout, idle_timeout, Stop, Held, Calling, CallOf, At
  <2> QED  BY <2>1, <2>2, <2>3, <2>4, <2>5, <2>6, <2>7, <2>8, Zenon DEF Next, Works
<1> QED  BY <1>1, <1>2, Invariance, PTL DEF Spec, ImplementsSectors, S!Spec, Calling
=============================================================================
