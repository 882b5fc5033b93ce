------------------------------ MODULE VMProofs ------------------------------
(***************************************************************************)
(* Virtual memory keeps the illusion: pages keep their values, frames have *)
(* one owner and buffers stay, for any number of processes, pages, frames  *)
(* and slots.                                                              *)
(***************************************************************************)
EXTENDS VM, ListsProofs

(* A scan of numbers finds one of them: bitmap_scan, and the clock. *)
LEMMA Found ==
  ASSUME NEW S, S \subseteq Nat, S # {}
  PROVE  First(S) \in S
<1>1. PICK k \in S : \A y \in S : ~(<<y, k>> \in OpToRel(<, Nat))
  BY WFMin, NatLessThanWellFounded, Zenon
<1>2. \A x, y \in Nat : x < y => <<x, y>> \in OpToRel(<, Nat)
  BY Zenon DEF OpToRel
<1>3. \A y \in S : ~(y < k)
  BY <1>1, <1>2, Zenon
<1>4. \A y \in S : k =< y
  BY <1>3
<1> QED  BY <1>4, Zenon DEF First

(* What is left of a list. *)
LEMMA WithoutMembers ==
  ASSUME NEW E, NEW l \in Seq(E), NEW S, NEW m \in Without(l, S)
  PROVE  m \in Seq(E) /\ Once(m) /\ Members(m) = Members(l) \ S
<1>1. Once(m) /\ Members(m) = Members(l) \ S
  BY Zenon DEF Without
<1>2. PICK n \in 0 .. Len(l) : m \in [1 .. n -> Members(l) \ S]
  BY Zenon DEF Without
<1>3. n \in Nat /\ Members(l) \subseteq E
  BY DEF Members
<1>4. m \in [1 .. n -> E]
  BY <1>2, <1>3
<1> QED  BY <1>1, <1>3, <1>4

(* The place of a frame on frame_list. *)
LEMMA PlaceIs ==
  ASSUME frame_list \in Seq(Frame), NEW f \in Members(frame_list)
  PROVE  PlaceOf(f) \in 1 .. Len(frame_list) /\ frame_list[PlaceOf(f)] = f
<1>1. \E i \in 1 .. Len(frame_list) : frame_list[i] = f
  BY Zenon DEF Members
<1> QED  BY <1>1, Zenon DEF PlaceOf

(* list_remove takes the frame off the list, and eviction_ptr_push takes   *)
(* the hand off the frame, to a frame that is left or to none.             *)
LEMMA FrameRemoved ==
  ASSUME frame_list \in Seq(Frame), Once(frame_list), NEW f \in Members(frame_list),
         eviction_ptr \in Members(frame_list) \cup {NULL}
  PROVE  /\ list_remove(frame_list, PlaceOf(f)) \in Seq(Frame)
         /\ Once(list_remove(frame_list, PlaceOf(f)))
         /\ Members(list_remove(frame_list, PlaceOf(f))) = Members(frame_list) \ {f}
         /\ eviction_ptr_push(f) \in (Members(frame_list) \ {f}) \cup {NULL}
         /\ eviction_ptr # f => eviction_ptr_push(f) = eviction_ptr
<1> DEFINE i == PlaceOf(f)
           n == Len(frame_list)
<1>1. i \in 1 .. n /\ frame_list[i] = f
  BY PlaceIs, Zenon
<1>2. n \in Nat
  OBVIOUS
<1> HIDE DEF i, n
<1>3. /\ list_remove(frame_list, i) \in Seq(Frame)
      /\ Once(list_remove(frame_list, i))
      /\ Members(list_remove(frame_list, i)) = Members(frame_list) \ {f}
  BY <1>1, RemoveElements, RemoveMembers, Zenon DEF n
<1>4. eviction_ptr # f => eviction_ptr_push(f) = eviction_ptr
  BY Zenon DEF eviction_ptr_push
<1>5. ASSUME eviction_ptr = f
      PROVE  eviction_ptr_push(f) \in (Members(frame_list) \ {f}) \cup {NULL}
  <2>1. eviction_ptr_push(f) = IF i < n THEN frame_list[i + 1] ELSE IF n = 1 THEN NULL ELSE frame_list[1]
    BY <1>5, Zenon DEF eviction_ptr_push, i, n
  <2>2. \A j \in 1 .. n : j # i => frame_list[j] \in Members(frame_list) \ {f}
    BY <1>1, Zenon DEF Once, Members, n
  <2>3. CASE i < n
    <3>1. i + 1 \in 1 .. n /\ i + 1 # i
      BY <1>1, <1>2, <2>3
    <3> QED  BY <2>1, <2>2, <2>3, <3>1, Zenon
  <2>4. CASE ~ (i < n) /\ n # 1
    <3>1. 1 \in 1 .. n /\ 1 # i
      BY <1>1, <1>2, <2>4
    <3> QED  BY <2>1, <2>2, <2>4, <3>1, Zenon
  <2>5. CASE ~ (i < n) /\ n = 1
    BY <2>1, <2>5, Zenon
  <2> QED  BY <2>3, <2>4, <2>5, Zenon
<1>6. eviction_ptr_push(f) \in (Members(frame_list) \ {f}) \cup {NULL}
  BY <1>4, <1>5, Zenon
<1> QED  BY <1>3, <1>4, <1>6, Zenon DEF i

(* The clock shows frames of the list only. *)
LEMMA ClockIs ==
  ASSUME frame_list \in Seq(Frame), eviction_ptr \in Members(frame_list) \cup {NULL},
         NEW k \in 1 .. Len(frame_list)
  PROVE  Clock(k) \in Members(frame_list)
<1> DEFINE n == Len(frame_list)
           i == IF eviction_ptr = NULL THEN 1 ELSE PlaceOf(eviction_ptr)
           j == ((i + k - 2) % n) + 1
<1>1. n \in Nat /\ k \in 1 .. n
  OBVIOUS
<1>2. i \in 1 .. n
  <2>1. CASE eviction_ptr = NULL
    BY <1>1, <2>1
  <2>2. CASE eviction_ptr # NULL
    BY <2>2, PlaceIs, Zenon
  <2> QED  BY <2>1, <2>2, Zenon
<1>3. Clock(k) = frame_list[j]
  BY Zenon DEF Clock
<1> HIDE DEF i, n
<1>4. j \in 1 .. n
  <2>1. i + k - 2 \in Int /\ n \in Nat /\ n > 0
    BY <1>1, <1>2
  <2>2. (i + k - 2) % n \in 0 .. n - 1
    BY <2>1
  <2> QED  BY <1>1, <2>2
<1> HIDE DEF j
<1> QED  BY <1>3, <1>4, Zenon DEF Members, n

(* When a process ends, the hand moves to a frame that is left, or to none. *)
LEMMA PushedPast ==
  ASSUME frame_list \in Seq(Frame), eviction_ptr \in Members(frame_list) \cup {NULL}, NEW S
  PROVE  PushPast(S) \in (Members(frame_list) \ S) \cup {NULL}
<1> DEFINE rest == {k \in 1 .. Len(frame_list) : Clock(k) \notin S}
<1>1. PushPast(S) = IF eviction_ptr \notin S THEN eviction_ptr
                    ELSE IF rest = {} THEN NULL ELSE Clock(First(rest))
  BY Zenon DEF PushPast
<1>2. rest \subseteq Nat
  OBVIOUS
<1>3. rest # {} => First(rest) \in rest
  <2> HIDE DEF rest
  <2> QED  BY <1>2, Found, Zenon
<1>4. \A k \in rest : Clock(k) \in Members(frame_list) \ S
  BY ClockIs, Zenon
<1> HIDE DEF rest
<1> QED  BY <1>1, <1>3, <1>4, Zenon

(* _allocate_frame puts the frame in front of the others. *)
LEMMA FrameAdded ==
  ASSUME frame_list \in Seq(Frame), Once(frame_list), NEW f \in Frame, f \notin Members(frame_list)
  PROVE  /\ <<f>> \o frame_list \in Seq(Frame)
         /\ Once(<<f>> \o frame_list)
         /\ Members(<<f>> \o frame_list) = Members(frame_list) \cup {f}
<1> DEFINE n == <<f>> \o frame_list
<1>1. <<f>> \in Seq(Frame) /\ Len(<<f>>) = 1 /\ <<f>>[1] = f /\ Len(frame_list) \in Nat
  OBVIOUS
<1>2. /\ n \in Seq(Frame) /\ Len(n) = 1 + Len(frame_list)
      /\ \A i \in 1 .. 1 + Len(frame_list) : n[i] = IF i <= 1 THEN <<f>>[i] ELSE frame_list[i - 1]
  BY <1>1, Concat
<1> HIDE DEF n
<1>3. OneMore(n, Frame, frame_list, 1, f)
  BY <1>1, <1>2, SMT DEF OneMore
<1>4. 1 \in 1 .. Len(frame_list) + 1
  BY <1>1
<1>5. Members(n) = Members(frame_list) \cup {f} /\ Once(n)
  BY <1>3, <1>4, WithOneMore
<1> QED  BY <1>2, <1>5, Zenon DEF n

-----------------------------------------------------------------------------
(* What a step leaves as it is.                                            *)

(* Only process p took a step. *)
Alone(p) == \A q \in Proc : q # p => task'[q] = task[q]

(* Every process whose page kept its state and its pin stands where it may *)
(* stand, if the process that took a step does.                            *)
LEMMA TasksKept ==
  ASSUME TaskInv, NEW p \in Proc, Alone(p), TaskOK(p)',
         \A a \in UserPage : Owner[a] # p =>
           /\ State(a) # "mapped" => State(a)' = State(a)
           /\ Pinned(a) => Pinned(a)'
  PROVE  TaskInv'
<1> SUFFICES ASSUME NEW q \in Proc, q # p
             PROVE  TaskOK(q)'
  BY Zenon DEF TaskInv
<1>1. PICK t : t = task[q] /\ t = task'[q]
  BY Zenon DEF Alone
<1>2. /\ t.at \notin {"user", "exit", "dead"} => t.page \in UserPage /\ Owner[t.page] = q
      /\ t.at \in {"fslock", "alloc", "write", "written"} =>
           \/ t.why = "grow" /\ State(t.page) = "none"
           \/ t.why \in {"in", "pin_in", "munmap_in"} /\ State(t.page) = "evicted"
           \/ t.why \in {"load", "pin_load"} /\ State(t.page) = "load"
      /\ t.at \in {"unpin", "load", "read"} => Pinned(t.page)
      /\ t.at = "io" /\ t.ret # "io" => State(t.page) = "none" \/ Pinned(t.page)
  BY <1>1, ZenonT(30) DEF TaskInv, TaskOK
<1>3. t.at \notin {"user", "exit", "dead"} =>
        /\ State(t.page) # "mapped" => State(t.page)' = State(t.page)
        /\ Pinned(t.page) => Pinned(t.page)'
  BY <1>2, Zenon
<1>4. t.at \in {"fslock", "alloc", "write", "written", "unpin", "load", "read", "io"} =>
        t.at \notin {"user", "exit", "dead"}
  OBVIOUS
<1>5. "none" # "mapped" /\ "evicted" # "mapped" /\ "load" # "mapped"
  OBVIOUS
<1>6. t.at \in {"fslock", "alloc", "write", "written"} =>
           \/ t.why = "grow" /\ State(t.page)' = "none"
           \/ t.why \in {"in", "pin_in", "munmap_in"} /\ State(t.page)' = "evicted"
           \/ t.why \in {"load", "pin_load"} /\ State(t.page)' = "load"
  BY <1>2, <1>3, <1>4, <1>5, Zenon
<1>7. /\ t.at \in {"unpin", "load", "read"} => Pinned(t.page)'
      /\ t.at = "io" /\ t.ret # "io" => State(t.page)' = "none" \/ Pinned(t.page)'
  BY <1>2, <1>3, <1>4, <1>5, Zenon
<1> QED  BY <1>1, <1>2, <1>6, <1>7, Zenon DEF TaskOK

(* Nobody but p acquires or releases frame_table_lock. *)
LEMMA LockKept ==
  ASSUME LockInv, NEW p \in Proc, Alone(p), NeedsLock(task'[p]) => frame_table_lock' = p,
         \A q \in Proc : q # p /\ frame_table_lock = q => frame_table_lock' = q
  PROVE  LockInv'
<1> SUFFICES ASSUME NEW q \in Proc, NeedsLock(task'[q])
             PROVE  frame_table_lock' = q
  BY Zenon DEF LockInv, NeedsLock
<1> QED  BY Zenon DEF LockInv, Alone

(* Who has frame_table_lock, or could acquire it, is the only one that     *)
(* can be at work in swap_out or swap_in.                                  *)
LEMMA OnlyOne ==
  ASSUME LockInv, NEW p \in Proc, HasFrameLock(p), NEW q \in Proc, q # p
  PROVE  ~ NeedsLock(task[q])
BY VMAssumption, Zenon DEF LockInv, HasFrameLock, VMAssumption

(* A process that is not in swap_out leaves it to the one that is. *)
LEMMA EvictingKept ==
  ASSUME NEW p \in Proc, Alone(p),
         task[p].at \notin {"write", "written"}, task'[p].at \notin {"write", "written"}
  PROVE  /\ Evicting' <=> Evicting
         /\ (\E q \in Proc : At(q, "write"))' <=> (\E q \in Proc : At(q, "write"))
<1>1. \A q \in Proc : /\ task'[q].at = "write" <=> task[q].at = "write"
                      /\ task'[q].at = "written" <=> task[q].at = "written"
  BY Zenon DEF Alone
<1> QED  BY <1>1, Zenon DEF Evicting, At

(* A page that is not p's is read and loaded as before. *)
LEMMA TransferKept ==
  ASSUME NEW p \in Proc, Alone(p), NEW a \in UserPage, 
         Owner[a] # p \/ (task[p].at \notin {"read", "load"} /\ task'[p].at \notin {"read", "load"})
  PROVE  (Reading(a)' <=> Reading(a)) /\ (Loading(a)' <=> Loading(a))
<1>1. Owner[a] \in Proc
  BY VMAssumption DEF VMAssumption
<1>2. CASE Owner[a] # p
  BY <1>1, <1>2, Zenon DEF Reading, Loading, At, Page, Alone
<1>3. CASE Owner[a] = p
  BY <1>1, <1>3, Zenon DEF Reading, Loading, At, Page, Alone
<1> QED  BY <1>2, <1>3, Zenon

(* Frame table entries and page tables that only differ in bits. *)
SameFrames ==
  /\ UNCHANGED <<frame_list, eviction_ptr, used>>
  /\ \A f \in used : fte'[f].user = fte[f].user

SamePages ==
  \A a \in UserPage :
    /\ spte'[a].state = spte[a].state /\ spte'[a].kpage = spte[a].kpage
    /\ pte'[a].present <=> pte[a].present
    /\ pte'[a].frame = pte[a].frame

(* A step that leaves the frame table, and what the page tables say about  *)
(* frames, as they were.                                                   *)
LEMMA FramesKept ==
  ASSUME TypeOK, FrameInv, SameFrames, SamePages, Evicting' <=> Evicting
  PROVE  FrameInv'
<1>1. frame_list' = frame_list /\ eviction_ptr' = eviction_ptr /\ used' = used
  BY Zenon DEF SameFrames
<1>2. \A f \in used : fte'[f].user = fte[f].user /\ fte[f].user \in UserPage
  BY DEF SameFrames, TypeOK
<1>3. Once(frame_list') /\ Members(frame_list') = used' /\ eviction_ptr' \in used' \cup {NULL}
  BY <1>1, Zenon DEF FrameInv
<1>4. Evicting' => eviction_ptr' \in used' /\ spte'[fte'[eviction_ptr'].user].state = "evicted"
  BY <1>1, <1>2, Zenon DEF FrameInv, SamePages, State
<1>5. ASSUME NEW f \in used
      PROVE  FrameOK(f)'
  <2>1. FrameOK(f)
    BY Zenon DEF FrameInv
  <2>2. PICK a \in UserPage : a = fte[f].user /\ a = fte'[f].user
    BY <1>2, Zenon
  <2>3. spte[a].kpage = f /\ (spte[a].state = "mapped" \/ (Evicting /\ eviction_ptr = f))
    BY <2>1, <2>2, Zenon DEF FrameOK, State
  <2>4. spte'[a].kpage = f /\ (spte'[a].state = "mapped" \/ (Evicting' /\ eviction_ptr' = f))
    BY <1>1, <2>3, Zenon DEF SamePages
  <2> QED  BY <2>2, <2>4, Zenon DEF FrameOK, State
<1>6. ASSUME NEW a \in UserPage
      PROVE  PageOK(a)'
  <2>1. PageOK(a) /\ spte'[a].state = spte[a].state /\ spte'[a].kpage = spte[a].kpage
    BY Zenon DEF FrameInv, SamePages
  <2>2. spte[a].kpage # NULL => spte[a].kpage \in used /\ fte[spte[a].kpage].user = a
    BY <2>1, Zenon DEF PageOK
  <2> QED  BY <1>1, <1>2, <2>1, <2>2, Zenon DEF PageOK, SamePages, State
<1> QED  BY <1>1, <1>3, <1>4, <1>5, <1>6, Zenon DEF FrameInv, State

(* The page that swap_out writes to the disk is the same after a step of   *)
(* another process.                                                        *)
LEMMA WritingKept ==
  ASSUME FrameInv, SameFrames, NEW p \in Proc, Alone(p), NEW a \in UserPage,
         task[p].at \notin {"write", "written"}, task'[p].at \notin {"write", "written"}
  PROVE  Writing(a)' <=> Writing(a)
<1>1. (\E q \in Proc : At(q, "write"))' <=> (\E q \in Proc : At(q, "write"))
  BY EvictingKept, Zenon
<1>2. (\E q \in Proc : At(q, "write")) => eviction_ptr \in used /\ fte'[eviction_ptr'].user = fte[eviction_ptr].user
  BY Zenon DEF FrameInv, Evicting, SameFrames
<1> QED  BY <1>1, <1>2, Zenon DEF Writing

SameSlots ==
  \A a \in UserPage :
    /\ spte'[a].slot = spte[a].slot
    /\ InSwap(a)' <=> InSwap(a)
    /\ Writing(a)' <=> Writing(a)

(* Pages keep the swap slots that are theirs alone. *)
LEMMA SlotsKept ==
  ASSUME SlotInv, SameSlots, swap_table' = swap_table, swap' = swap
  PROVE  SlotInv'
<1>1. \A a \in UserPage : InSwap(a)' => spte'[a].slot \in swap_table'
  BY Zenon DEF SlotInv, SameSlots
<1>2. \A a \in UserPage : InSwap(a)' /\ ~ Writing(a)' => spte'[a].slot \in DOMAIN swap'
  BY Zenon DEF SlotInv, SameSlots
<1>3. ASSUME NEW a \in UserPage, NEW b \in UserPage, InSwap(a)', InSwap(b)', spte'[a].slot = spte'[b].slot
      PROVE  a = b
  <2>1. InSwap(a) /\ InSwap(b) /\ spte[a].slot = spte[b].slot
    BY <1>3, Zenon DEF SameSlots
  <2> QED  BY <2>1, Zenon DEF SlotInv
<1> QED  BY <1>1, <1>2, <1>3, Zenon DEF SlotInv

(* A page whose entry, whose value and whose place stay as they are. *)
SamePage(a) ==
  /\ spte'[a].state = spte[a].state
  /\ Reading(a)' <=> Reading(a)
  /\ Loading(a)' <=> Loading(a)
  /\ Writing(a)' <=> Writing(a)
  /\ want'[a] = want[a]
  /\ spte[a].state = "load" \/ Loading(a) => file'[a] = file[a]
  /\ spte[a].state = "mapped" => spte'[a].kpage = spte[a].kpage /\ mem'[spte[a].kpage] = mem[spte[a].kpage]
  /\ Writing(a) => mem'[eviction_ptr'] = mem[eviction_ptr]
  /\ InSwap(a) => spte'[a].slot = spte[a].slot
  /\ InSwap(a) /\ ~ Writing(a) => swap'[spte[a].slot] = swap[spte[a].slot]

(* A page that a step does not touch keeps its value, wherever that is. *)
LEMMA ValueKept ==
  ASSUME NEW a \in UserPage, ValueOK(a), SamePage(a)
  PROVE  ValueOK(a)'
<1>1. State(a) = "load" \/ Loading(a) => Loaded(a)' = Loaded(a)
  BY Zenon DEF SamePage, Loaded, State
<1>2. InSwap(a)' <=> InSwap(a)
  BY Zenon DEF SamePage, InSwap, State
<1>3. (State(a) = "none" => want[a] = 0)'
  BY Zenon DEF SamePage, ValueOK, State
<1>4. (State(a) = "load" \/ Loading(a) => want[a] = Loaded(a))'
  BY <1>1, Zenon DEF SamePage, ValueOK, State
<1>5. (State(a) = "mapped" /\ ~ Loading(a) /\ ~ Reading(a) => mem[spte[a].kpage] = want[a])'
  BY Zenon DEF SamePage, ValueOK, State
<1>6. (InSwap(a) /\ Writing(a) => mem[eviction_ptr] = want[a])'
  BY <1>2, Zenon DEF SamePage, ValueOK
<1>7. (InSwap(a) /\ ~ Writing(a) => swap[spte[a].slot] = want[a])'
  BY <1>2, Zenon DEF SamePage, ValueOK
<1> QED  BY <1>3, <1>4, <1>5, <1>6, <1>7, Zenon DEF ValueOK

(* The types that a step of a process keeps when it moves no memory. *)
TypesKept ==
  /\ fte' \in [used -> [user : UserPage, swap_prevention : BOOLEAN]]
  /\ pte' \in [UserPage -> TableEntry]
  /\ frame_table_lock' \in Proc \cup {Nobody}
  /\ task' \in [Proc -> Task]

(* A step of process p that moves no page: the process goes on to another  *)
(* place, the pin of its own page may change, and files that no page waits *)
(* for may be written.                                                     *)
LEMMA MovesAndWrites ==
  ASSUME VMInv, NEW p \in Proc, Alone(p), SameFrames, SamePages, TypesKept,
         UNCHANGED <<spte, mem, swap_table, swap, want>>, file' \in [UserPage -> Nat],
         \A a \in UserPage : State(a) = "load" \/ Loading(a) => file'[a] = file[a],
         \A a \in UserPage : Owner[a] # p /\ Pinned(a) => Pinned(a)',
         TaskOK(p)',
         task[p].at \notin {"write", "written", "read", "load"},
         task'[p].at \notin {"write", "written", "read", "load"},
         NeedsLock(task'[p]) => frame_table_lock' = p,
         \A q \in Proc : q # p /\ frame_table_lock = q => frame_table_lock' = q
  PROVE  VMInv'
<1>1. spte' = spte /\ mem' = mem /\ swap_table' = swap_table /\ swap' = swap /\ want' = want
  BY Zenon
<1>2. frame_list' = frame_list /\ eviction_ptr' = eviction_ptr /\ used' = used
  BY Zenon DEF SameFrames
<1>3. TypeOK'
  BY <1>1, <1>2, Zenon DEF VMInv, TypeOK, TypesKept
<1>4. LockInv'
  BY LockKept, Zenon DEF VMInv
<1>5. /\ task[p].at \notin {"write", "written"} /\ task'[p].at \notin {"write", "written"}
      /\ task[p].at \notin {"read", "load"} /\ task'[p].at \notin {"read", "load"}
  BY Zenon
<1>6. FrameInv'
  BY <1>5, EvictingKept, FramesKept, Zenon DEF VMInv
<1>7. TaskInv'
  BY <1>1, TasksKept, Zenon DEF VMInv, State
<1>8. \A a \in UserPage : /\ Writing(a)' <=> Writing(a)
                          /\ Reading(a)' <=> Reading(a)
                          /\ Loading(a)' <=> Loading(a)
  BY <1>5, WritingKept, TransferKept, Zenon DEF VMInv
<1>9. SlotInv'
  BY <1>1, <1>8, SlotsKept, Zenon DEF VMInv, SameSlots, InSwap, State
<1>10. \A a \in UserPage : SamePage(a)
  BY <1>1, <1>2, <1>8, Zenon DEF SamePage, State
<1>11. ValueInv'
  BY <1>10, ValueKept, Zenon DEF VMInv, ValueInv
<1> QED  BY <1>3, <1>4, <1>6, <1>7, <1>9, <1>11, Zenon DEF VMInv

(* A step that writes nothing. *)
LEMMA Moves ==
  ASSUME VMInv, NEW p \in Proc, Alone(p), SameFrames, SamePages, TypesKept,
         UNCHANGED <<spte, mem, disk, want>>,
         \A a \in UserPage : Owner[a] # p /\ Pinned(a) => Pinned(a)',
         TaskOK(p)',
         task[p].at \notin {"write", "written", "read", "load"},
         task'[p].at \notin {"write", "written", "read", "load"},
         NeedsLock(task'[p]) => frame_table_lock' = p,
         \A q \in Proc : q # p /\ frame_table_lock = q => frame_table_lock' = q
  PROVE  VMInv'
<1>1. UNCHANGED <<spte, mem, swap_table, swap, want>> /\ file' = file
  BY Zenon DEF disk
<1>2. file' \in [UserPage -> Nat]
  BY <1>1, Zenon DEF VMInv, TypeOK
<1> QED  BY <1>1, <1>2, MovesAndWrites, Zenon

-----------------------------------------------------------------------------
(* Steps of a process that move no page.                                   *)

(* What a process does next. *)
LEMMA Moved ==
  ASSUME TypeOK, NEW p \in Proc, NEW t \in Task, task' = [task EXCEPT ![p] = t]
  PROVE  task' \in [Proc -> Task] /\ Alone(p) /\ task'[p] = t
<1>1. task \in [Proc -> Task]
  BY Zenon DEF TypeOK
<1> QED  BY <1>1, Zenon DEF Alone

(* Where a process is next, when nothing else about it changes. *)
LEMMA Gone ==
  ASSUME TypeOK, NEW p \in Proc, NEW place \in Place, GoTo(p, place)
  PROVE  /\ task' \in [Proc -> Task] /\ Alone(p)
         /\ task'[p].at = place /\ task'[p].page = task[p].page /\ task'[p].why = task[p].why
         /\ task'[p].ret = task[p].ret /\ task'[p].end = task[p].end
<1>1. task[p] \in Task
  BY Zenon DEF TypeOK
<1> DEFINE t == [task[p] EXCEPT !.at = place]
<1>2. /\ t \in Task /\ t.at = place /\ t.page = task[p].page /\ t.why = task[p].why
      /\ t.ret = task[p].ret /\ t.end = task[p].end
  BY <1>1, Zenon DEF Task
<1>3. task' = [task EXCEPT ![p] = t]
  BY Zenon DEF GoTo
<1> HIDE DEF t
<1> QED  BY <1>2, <1>3, Moved, Zenon

(* A process that runs user code. *)
LEMMA UserTask ==
  User \in Task /\ User.at = "user" /\ User.ret = "user" /\ Ending \in Task /\ Ending.at = "exit"
BY Zenon DEF User, Task, Place, Ending

(* A page fault or a call returns to where it came from. *)
LEMMA Returned ==
  ASSUME TypeOK, NEW p \in Proc, Return(p)
  PROVE  /\ task' \in [Proc -> Task] /\ Alone(p)
         /\ task'[p].at = task[p].ret
         /\ task'[p].at # "user" => task'[p].page = task[p].page /\ task'[p].ret = task[p].ret
<1>1. task[p] \in Task
  BY Zenon DEF TypeOK
<1> DEFINE t == Back(task[p])
<1>2. task' = [task EXCEPT ![p] = t]
  BY Zenon DEF Return
<1>3. /\ t \in Task /\ t.at = task[p].ret
      /\ t.at # "user" => t.page = task[p].page /\ t.ret = task[p].ret
  <2>1. CASE task[p].ret = "user"
    BY <2>1, UserTask, Zenon DEF Back
  <2>2. CASE task[p].ret # "user"
    <3>1. t = [task[p] EXCEPT !.at = task[p].ret, !.why = ""]
      BY <2>2, Zenon DEF Back
    <3>2. task[p].ret \in Place
      BY <1>1, <2>2, Zenon DEF Task, Place
    <3> HIDE DEF t
    <3> QED  BY <1>1, <3>1, <3>2, Zenon DEF Task
  <2> QED  BY <2>1, <2>2, Zenon
<1> HIDE DEF t
<1> QED  BY <1>2, <1>3, Moved, Zenon

(* A page fault on a page that is not mapped: what is to be done is what   *)
(* its entry calls for.                                                    *)
LEMMA Faults ==
  ASSUME TypeOK, NEW t \in Task, NEW a \in UserPage, State(a) # "mapped"
  PROVE  /\ page_fault(t, a) \in Task
         /\ page_fault(t, a).page = a /\ page_fault(t, a).ret = t.ret
         /\ page_fault(t, a).at \in {"alloc", "fslock"}
         /\ ~ NeedsLock(page_fault(t, a))
         /\ \/ page_fault(t, a).why = "grow" /\ State(a) = "none"
            \/ page_fault(t, a).why = "in" /\ State(a) = "evicted"
            \/ page_fault(t, a).why = "load" /\ State(a) = "load"
<1> DEFINE Fault(at, why) == [at |-> at, page |-> a, why |-> why, ret |-> t.ret, end |-> t.end]
<1>1. State(a) \in {"none", "load", "evicted"}
  BY DEF TypeOK, PageEntry, State
<1>2. t.ret \in {"user", "io", "name", "flush"} /\ t.end \in BOOLEAN
  BY Zenon DEF Task
<1>3. CASE State(a) = "none"
  <2>1. page_fault(t, a) = Fault("alloc", "grow")
    BY <1>3 DEF page_fault
  <2>2. Fault("alloc", "grow") \in Task /\ ~ NeedsLock(Fault("alloc", "grow"))
    BY <1>2, Zenon DEF Task, Place, NeedsLock
  <2> QED  BY <1>3, <2>1, <2>2
<1>4. CASE State(a) = "evicted"
  <2>1. page_fault(t, a) = Fault("alloc", "in")
    BY <1>4 DEF page_fault
  <2>2. Fault("alloc", "in") \in Task /\ ~ NeedsLock(Fault("alloc", "in"))
    BY <1>2, Zenon DEF Task, Place, NeedsLock
  <2> QED  BY <1>4, <2>1, <2>2
<1>5. CASE State(a) = "load"
  <2>1. page_fault(t, a) = Fault("fslock", "load")
    BY <1>5 DEF page_fault
  <2>2. Fault("fslock", "load") \in Task /\ ~ NeedsLock(Fault("fslock", "load"))
    BY <1>2, Zenon DEF Task, Place, NeedsLock
  <2> QED  BY <1>5, <2>1, <2>2
<1> QED  BY <1>1, <1>3, <1>4, <1>5, Zenon

(* Nothing but the place in the kernel changes. *)
LEMMA OnlyMoves ==
  ASSUME VMInv, NEW p \in Proc, Alone(p), task' \in [Proc -> Task],
         UNCHANGED <<frames, pages, disk, want>>, frame_table_lock' \in {frame_table_lock, p},
         frame_table_lock' # frame_table_lock => HasFrameLock(p),
         TaskOK(p)',
         task[p].at \notin {"write", "written", "read", "load"},
         task'[p].at \notin {"write", "written", "read", "load"},
         NeedsLock(task'[p]) => frame_table_lock' = p
  PROVE  VMInv'
<1>1. /\ frame_list' = frame_list /\ eviction_ptr' = eviction_ptr /\ used' = used /\ fte' = fte
      /\ mem' = mem /\ spte' = spte /\ pte' = pte /\ UNCHANGED <<spte, mem, disk, want>>
  BY Zenon DEF frames, pages
<1>2. SameFrames /\ SamePages
  BY <1>1, Zenon DEF SameFrames, SamePages
<1>3. TypesKept
  BY <1>1, Zenon DEF VMInv, TypeOK, TypesKept
<1>4. \A a \in UserPage : Pinned(a) => Pinned(a)'
  BY <1>1, Zenon DEF Pinned, State
<1>5. \A q \in Proc : q # p /\ frame_table_lock = q => frame_table_lock' = q
  BY VMAssumption, Zenon DEF HasFrameLock, VMAssumption
<1> QED  BY <1>1, <1>2, <1>3, <1>4, <1>5, Moves, Zenon

(* User code touches a page that is not present: page_fault. *)
LEMMA TouchStep ==
  ASSUME VMInv, NEW p \in Proc, NEW a \in Pages(p), touch(p, a)
  PROVE  VMInv'
<1>1. TypeOK /\ task[p] \in Task /\ a \in UserPage /\ Owner[a] = p /\ task[p].at = "user"
  BY Zenon DEF VMInv, TypeOK, Pages, touch, At
<1>2. State(a) # "mapped"
  BY <1>1, Zenon DEF touch, VMInv, FrameInv, PageOK
<1> DEFINE t == page_fault(task[p], a)
<1>3. /\ t \in Task /\ t.page = a /\ t.at \in {"alloc", "fslock"} /\ ~ NeedsLock(t)
      /\ \/ t.why = "grow" /\ State(a) = "none"
         \/ t.why = "in" /\ State(a) = "evicted"
         \/ t.why = "load" /\ State(a) = "load"
  BY <1>1, <1>2, Faults, Zenon
<1>4. task' = [task EXCEPT ![p] = t]
  BY Zenon DEF touch
<1> HIDE DEF t
<1>5. task' \in [Proc -> Task] /\ Alone(p) /\ task'[p] = t
  BY <1>1, <1>3, <1>4, Moved, Zenon
<1>6. UNCHANGED <<frames, pages, disk, want>> /\ frame_table_lock' = frame_table_lock /\ spte' = spte
  BY Zenon DEF touch, locks, pages
<1>7. TaskOK(p)'
  <2>1. /\ t.at \notin {"unpin", "load", "read", "io"}
        /\ t.why \in {"in", "pin_in", "munmap_in"} <=> t.why = "in" \/ t.why = "pin_in" \/ t.why = "munmap_in"
        /\ t.why \in {"load", "pin_load"} <=> t.why = "load" \/ t.why = "pin_load"
    BY <1>3
  <2> QED  BY <1>1, <1>3, <1>5, <1>6, <2>1, Zenon DEF TaskOK, State
<1>8. /\ task[p].at \notin {"write", "written", "read", "load"}
      /\ t.at \notin {"write", "written", "read", "load"}
  BY <1>1, <1>3
<1> QED  BY <1>3, <1>5, <1>6, <1>7, <1>8, OnlyMoves, Zenon

(* page_fault acquires filesys_lock. *)
LEMMA FslockStep ==
  ASSUME VMInv, NEW p \in Proc, page_fault_fslock(p)
  PROVE  VMInv'
<1>1. TypeOK /\ task[p].at = "fslock" /\ GoTo(p, "alloc") /\ TaskOK(p)
  BY Zenon DEF VMInv, TaskInv, page_fault_fslock, At
<1>2. "alloc" \in Place
  BY DEF Place
<1>3. /\ task' \in [Proc -> Task] /\ Alone(p) /\ task'[p].at = "alloc"
      /\ task'[p].page = task[p].page /\ task'[p].why = task[p].why
  BY <1>1, <1>2, Gone, Zenon
<1>4. UNCHANGED <<frames, pages, disk, want>> /\ frame_table_lock' = frame_table_lock /\ spte' = spte
  BY Zenon DEF page_fault_fslock, pages
<1>5. TaskOK(p)'
  <2>1. /\ "alloc" \notin {"unpin", "load", "read", "io"}
        /\ "fslock" \notin {"user", "exit", "dead"}
    OBVIOUS
  <2> QED  BY <1>1, <1>3, <1>4, <2>1, Zenon DEF TaskOK, State
<1>6. /\ task[p].at \notin {"write", "written", "read", "load"}
      /\ task'[p].at \notin {"write", "written", "read", "load"}
  BY <1>1, <1>3
<1>7. NeedsLock(task'[p]) => frame_table_lock' = p
  <2>1. NeedsLock(task'[p]) => NeedsLock(task[p])
    BY <1>1, <1>3 DEF NeedsLock
  <2> QED  BY <1>4, <2>1, Zenon DEF VMInv, LockInv
<1> QED  BY <1>3, <1>4, <1>5, <1>6, <1>7, OnlyMoves, Zenon

(* The system call read begins. *)
LEMMA ReadStep ==
  ASSUME VMInv, NEW p \in Proc, NEW a \in Pages(p), read(p, a)
  PROVE  VMInv'
<1>1. TypeOK /\ task[p].at = "user" /\ a \in UserPage /\ Owner[a] = p
  BY Zenon DEF VMInv, read, At, Pages
<1> DEFINE t == [User EXCEPT !.at = "pin", !.page = a]
<1>2. t \in Task /\ t.at = "pin" /\ t.page = a /\ ~ NeedsLock(t)
  BY <1>1, Zenon DEF Task, Place, User, NeedsLock
<1>3. task' = [task EXCEPT ![p] = t]
  BY Zenon DEF read
<1> HIDE DEF t
<1>4. task' \in [Proc -> Task] /\ Alone(p) /\ task'[p] = t
  BY <1>1, <1>2, <1>3, Moved, Zenon
<1>5. UNCHANGED <<frames, pages, disk, want>> /\ frame_table_lock' = frame_table_lock
  BY Zenon DEF read, locks
<1>6. TaskOK(p)'
  <2>1. t.at \notin {"fslock", "alloc", "write", "written", "unpin", "load", "read", "io"}
    BY <1>2
  <2> QED  BY <1>1, <1>2, <1>4, <2>1, Zenon DEF TaskOK
<1>7. /\ task[p].at \notin {"write", "written", "read", "load"}
      /\ t.at \notin {"write", "written", "read", "load"}
  BY <1>1, <1>2
<1> QED  BY <1>2, <1>4, <1>5, <1>6, <1>7, OnlyMoves, Zenon

(* The process ends: exit. *)
LEMMA ExitStep ==
  ASSUME VMInv, NEW p \in Proc, exit(p)
  PROVE  VMInv'
<1>1. TypeOK /\ task[p].at = "user" /\ task' = [task EXCEPT ![p] = Ending]
  BY Zenon DEF VMInv, exit, At
<1>2. task' \in [Proc -> Task] /\ Alone(p) /\ task'[p] = Ending
  BY <1>1, UserTask, Moved, Zenon
<1>3. UNCHANGED <<frames, pages, disk, want>> /\ frame_table_lock' = frame_table_lock
  BY Zenon DEF exit, locks
<1>4. task'[p].at = "exit"
  BY <1>2, UserTask, Zenon
<1>5. TaskOK(p)'
  BY <1>4 DEF TaskOK
<1>6. /\ task[p].at \notin {"write", "written", "read", "load"}
      /\ task'[p].at \notin {"write", "written", "read", "load"}
      /\ ~ NeedsLock(task'[p])
  BY <1>1, <1>4 DEF NeedsLock
<1> QED  BY <1>2, <1>3, <1>5, <1>6, OnlyMoves, Zenon

(* munmap begins, called by the program or by process_exit. *)
LEMMA MunmapStep ==
  ASSUME VMInv, NEW p \in Proc, NEW place \in {"user", "exit"}, munmap(p, place)
  PROVE  VMInv'
<1>1. PICK a \in Mapped(p) :
        /\ task[p].at = place
        /\ task' = [task EXCEPT ![p] = [task[p] EXCEPT !.at = "munmap", !.page = a]]
        /\ UNCHANGED <<frames, pages, disk, frame_table_lock, want>>
  BY Zenon DEF munmap, At, locks
<1>2. TypeOK /\ task[p] \in Task /\ a \in UserPage /\ Owner[a] = p
  BY Zenon DEF VMInv, TypeOK, Mapped, Pages
<1> DEFINE t == [task[p] EXCEPT !.at = "munmap", !.page = a]
<1>3. t \in Task /\ t.at = "munmap" /\ t.page = a
  BY <1>2, Zenon DEF Task, Place
<1>4. task' = [task EXCEPT ![p] = t]
  BY <1>1, Zenon
<1> HIDE DEF t
<1>5. task' \in [Proc -> Task] /\ Alone(p) /\ task'[p] = t
  BY <1>2, <1>3, <1>4, Moved, Zenon
<1>6. UNCHANGED <<frames, pages, disk, want>> /\ frame_table_lock' = frame_table_lock
  BY <1>1, Zenon
<1>7. TaskOK(p)'
  <2>1. t.at \notin {"fslock", "alloc", "write", "written", "unpin", "load", "read", "io"}
    BY <1>3
  <2> QED  BY <1>2, <1>3, <1>5, <2>1, Zenon DEF TaskOK
<1>8. /\ task[p].at \notin {"write", "written", "read", "load"}
      /\ t.at \notin {"write", "written", "read", "load"} /\ ~ NeedsLock(t)
  BY <1>1, <1>3 DEF NeedsLock
<1> QED  BY <1>5, <1>6, <1>7, <1>8, OnlyMoves, Zenon

(* create, remove, open or a write to the console begins. *)
LEMMA NameStep ==
  ASSUME VMInv, NEW p \in Proc, NEW a \in Pages(p), name(p, a)
  PROVE  VMInv'
<1>1. TypeOK /\ task[p].at = "user" /\ a \in UserPage /\ Owner[a] = p
  BY Zenon DEF VMInv, name, At, Pages
<1> DEFINE t == [User EXCEPT !.at = "name", !.page = a]
<1>2. t \in Task /\ t.at = "name" /\ t.page = a /\ ~ NeedsLock(t)
  BY <1>1, Zenon DEF Task, Place, User, NeedsLock
<1>3. task' = [task EXCEPT ![p] = t]
  BY Zenon DEF name
<1> HIDE DEF t
<1>4. task' \in [Proc -> Task] /\ Alone(p) /\ task'[p] = t
  BY <1>1, <1>2, <1>3, Moved, Zenon
<1>5. UNCHANGED <<frames, pages, disk, want>> /\ frame_table_lock' = frame_table_lock
  BY Zenon DEF name, locks
<1>6. TaskOK(p)'
  <2>1. t.at \notin {"fslock", "alloc", "write", "written", "unpin", "load", "read", "io"}
    BY <1>2
  <2> QED  BY <1>1, <1>2, <1>4, <2>1, Zenon DEF TaskOK
<1>7. /\ task[p].at \notin {"write", "written", "read", "load"}
      /\ t.at \notin {"write", "written", "read", "load"}
  BY <1>1, <1>2
<1> QED  BY <1>2, <1>4, <1>5, <1>6, <1>7, OnlyMoves, Zenon

(* A fault inside the kernel, which uses the memory of a program. *)
LEMMA FaultMoves ==
  ASSUME VMInv, NEW p \in Proc, task[p].at \in {"flush", "io", "name"},
         State(Page(p)) # "mapped", NEW ret \in {"io", "flush", "name"},
         task' = [task EXCEPT ![p] = page_fault([@ EXCEPT !.ret = ret], Page(p))],
         UNCHANGED <<frames, pages, disk, frame_table_lock, want>>
  PROVE  VMInv'
<1> DEFINE a == Page(p)
           r == [task[p] EXCEPT !.ret = ret]
           t == page_fault(r, a)
<1>1. TypeOK /\ task[p] \in Task /\ TaskOK(p)
  BY Zenon DEF VMInv, TypeOK, TaskInv
<1>2. a \in UserPage /\ Owner[a] = p
  <2>1. task[p].at \notin {"user", "exit", "dead"}
    OBVIOUS
  <2> QED  BY <1>1, <2>1, Zenon DEF TaskOK, Page
<1>3. r \in Task
  BY <1>1, Zenon DEF Task
<1> HIDE DEF a, r
<1>4. /\ t \in Task /\ t.page = a /\ t.at \in {"alloc", "fslock"} /\ ~ NeedsLock(t)
      /\ \/ t.why = "grow" /\ State(a) = "none"
         \/ t.why = "in" /\ State(a) = "evicted"
         \/ t.why = "load" /\ State(a) = "load"
  BY <1>1, <1>2, <1>3, Faults, Zenon DEF a
<1>5. task' = [task EXCEPT ![p] = t]
  BY Zenon DEF a, r
<1>6. PICK u : u = t
  BY Zenon
<1> HIDE DEF t
<1>7. task' \in [Proc -> Task] /\ Alone(p) /\ task'[p] = u
  BY <1>1, <1>4, <1>5, <1>6, Moved, Zenon
<1>8. UNCHANGED <<frames, pages, disk, want>> /\ frame_table_lock' = frame_table_lock /\ spte' = spte
  BY Zenon DEF pages
<1>9. TaskOK(p)'
  <2>1. /\ u.at \notin {"unpin", "load", "read", "io"}
        /\ u.why \in {"in", "pin_in", "munmap_in"} <=> u.why = "in" \/ u.why = "pin_in" \/ u.why = "munmap_in"
        /\ u.why \in {"load", "pin_load"} <=> u.why = "load" \/ u.why = "pin_load"
    BY <1>4, <1>6
  <2>2. PICK b \in UserPage : b = a
    BY <1>2, Zenon
  <2>3. /\ u.page = b /\ Owner[b] = p
        /\ \/ u.why = "grow" /\ spte'[b].state = "none"
           \/ u.why = "in" /\ spte'[b].state = "evicted"
           \/ u.why = "load" /\ spte'[b].state = "load"
    BY <1>2, <1>4, <1>6, <1>8, <2>2, Zenon DEF State
  <2> QED  BY <1>7, <2>1, <2>3, Zenon DEF TaskOK, State
<1>10. /\ task[p].at \notin {"write", "written", "read", "load"}
       /\ u.at \notin {"write", "written", "read", "load"} /\ ~ NeedsLock(u)
  BY <1>4, <1>6
<1> QED  BY <1>7, <1>8, <1>9, <1>10, OnlyMoves, Zenon

-----------------------------------------------------------------------------
(* Pins, and values that processes put in pages.                           *)

(* A pin is set or taken away in the entry of the page's own frame. *)
LEMMA PinSet ==
  ASSUME TypeOK, FrameInv, NEW a \in UserPage, find_fte(a) # NULL, NEW on \in BOOLEAN,
         fte' = SetPin(a, on)
  PROVE  /\ fte' \in [used -> [user : UserPage, swap_prevention : BOOLEAN]]
         /\ \A f \in used : fte'[f].user = fte[f].user
         /\ fte'[spte[a].kpage].swap_prevention = on
         /\ \A b \in UserPage : b # a /\ State(b) = "mapped" => fte'[spte[b].kpage] = fte[spte[b].kpage]
<1>1. PageOK(a)
  BY Zenon DEF FrameInv
<1>2. PICK f \in used : f = spte[a].kpage /\ fte[f].user = a
  BY <1>1, Zenon DEF PageOK, find_fte
<1>3. fte \in [used -> [user : UserPage, swap_prevention : BOOLEAN]]
  BY Zenon DEF TypeOK
<1>4. fte' = [fte EXCEPT ![f].swap_prevention = on]
  BY <1>2, Zenon DEF SetPin, find_fte
<1>5. /\ fte' \in [used -> [user : UserPage, swap_prevention : BOOLEAN]]
      /\ \A g \in used : fte'[g].user = fte[g].user
      /\ \A g \in used : g # f => fte'[g] = fte[g]
      /\ fte'[f].swap_prevention = on
  BY <1>3, <1>4
<1>6. ASSUME NEW b \in UserPage, b # a, State(b) = "mapped"
      PROVE  fte'[spte[b].kpage] = fte[spte[b].kpage]
  <2>1. spte[b].kpage \in used /\ fte[spte[b].kpage].user = b
    BY <1>6, Zenon DEF FrameInv, PageOK
  <2> QED  BY <1>2, <1>5, <1>6, <2>1, Zenon
<1> QED  BY <1>2, <1>5, <1>6, Zenon

(* A page that is mapped has a frame. *)
LEMMA HasFrame ==
  ASSUME FrameInv, NEW a \in UserPage, State(a) = "mapped"
  PROVE  find_fte(a) # NULL
BY Zenon DEF FrameInv, PageOK, find_fte

(* A step that moves no page and sets the pin of a page of its own. *)
LEMMA PinMoves ==
  ASSUME VMInv, NEW p \in Proc, Alone(p), task' \in [Proc -> Task],
         NEW a \in UserPage, Owner[a] = p, find_fte(a) # NULL, NEW on \in BOOLEAN, fte' = SetPin(a, on),
         UNCHANGED <<frame_list, eviction_ptr, used, mem, pages, disk, want, frame_table_lock>>,
         TaskOK(p)', ~ NeedsLock(task'[p]),
         task[p].at \notin {"write", "written", "read", "load"},
         task'[p].at \notin {"write", "written", "read", "load"}
  PROVE  VMInv'
<1>1. TypeOK /\ FrameInv
  BY Zenon DEF VMInv
<1>2. /\ fte' \in [used -> [user : UserPage, swap_prevention : BOOLEAN]]
      /\ \A f \in used : fte'[f].user = fte[f].user
      /\ \A b \in UserPage : b # a /\ State(b) = "mapped" => fte'[spte[b].kpage] = fte[spte[b].kpage]
  BY <1>1, PinSet, Zenon
<1>3. SameFrames /\ SamePages /\ UNCHANGED <<spte, mem, disk, want>>
  BY <1>2, Zenon DEF SameFrames, SamePages, pages
<1>4. TypesKept
  BY <1>1, <1>2, Zenon DEF TypeOK, TypesKept, pages
<1>5. \A b \in UserPage : Owner[b] # p /\ Pinned(b) => Pinned(b)'
  BY <1>2, <1>3, Zenon DEF Pinned, State
<1> QED  BY <1>3, <1>4, <1>5, Moves, Zenon

(* The stack has a new page, which swap_prevent_off then releases. *)
LEMMA GrowStep ==
  ASSUME VMInv, NEW p \in Proc, grow_done(p)
  PROVE  VMInv'
<1>1. /\ TypeOK /\ FrameInv /\ task[p].at = "unpin" /\ TaskOK(p) /\ task[p] \in Task
      /\ fte' = SetPin(task[p].page, FALSE) /\ Return(p)
      /\ UNCHANGED <<frame_list, eviction_ptr, used, mem, pages, disk, want, frame_table_lock>>
  BY Zenon DEF VMInv, TypeOK, TaskInv, grow_done, At, Page, locks
<1>2. PICK a \in UserPage : a = task[p].page /\ Owner[a] = p /\ State(a) = "mapped"
  BY <1>1 DEF TaskOK, Pinned
<1>3. /\ task' \in [Proc -> Task] /\ Alone(p) /\ task'[p].at = task[p].ret
      /\ task'[p].at # "user" => task'[p].page = task[p].page /\ task'[p].ret = task[p].ret
  BY <1>1, Returned, Zenon
<1>4. task'[p].at \in {"user", "io", "name", "flush"} /\ (task'[p].at = "io" => task'[p].ret = "io")
  BY <1>1, <1>3, Zenon DEF Task
<1>5. task'[p].at # "user" => task'[p].page \in UserPage /\ Owner[task'[p].page] = p
  BY <1>2, <1>3, Zenon
<1>6. TaskOK(p)'
  <2>1. task'[p].at \notin {"fslock", "alloc", "write", "written", "unpin", "load", "read"}
    BY <1>4
  <2> QED  BY <1>4, <1>5, <2>1, Zenon DEF TaskOK
<1>7. /\ task[p].at \notin {"write", "written", "read", "load"}
      /\ task'[p].at \notin {"write", "written", "read", "load"}
      /\ ~ NeedsLock(task'[p])
  BY <1>1, <1>4 DEF NeedsLock
<1> QED  BY <1>1, <1>2, <1>3, <1>6, <1>7, HasFrame, PinMoves, Zenon

(* swap_prevent_on: the page of a buffer is pinned, or has to be brought   *)
(* in first.                                                               *)
LEMMA PinStep ==
  ASSUME VMInv, NEW p \in Proc, swap_prevent_on(p)
  PROVE  VMInv'
<1>1. /\ TypeOK /\ FrameInv /\ task[p].at = "pin" /\ TaskOK(p) /\ task[p] \in Task /\ frame_table_lock = Nobody
      /\ UNCHANGED <<frame_list, eviction_ptr, used, mem, pages, disk, want>> /\ spte' = spte
  BY Zenon DEF VMInv, TypeOK, TaskInv, swap_prevent_on, At, pages
<1>2. PICK a \in UserPage : a = task[p].page /\ Owner[a] = p
  BY <1>1 DEF TaskOK
<1>3. task[p].at \notin {"write", "written", "read", "load"}
  BY <1>1
<1>4. CASE State(a) \in {"none", "mapped"}
  <2>1. /\ GoTo(p, "io") /\ frame_table_lock' = frame_table_lock
        /\ fte' = IF State(a) = "none" THEN fte ELSE SetPin(a, TRUE)
    BY <1>2, <1>4, Zenon DEF swap_prevent_on, Page
  <2>2. "io" \in Place
    BY DEF Place
  <2>3. task' \in [Proc -> Task] /\ Alone(p) /\ task'[p].at = "io" /\ task'[p].page = a
    BY <1>1, <1>2, <2>1, <2>2, Gone, Zenon
  <2>4. task'[p].at \notin {"write", "written", "read", "load"} /\ ~ NeedsLock(task'[p])
    BY <2>3 DEF NeedsLock
  <2>5. TaskOK(p)' <=> State(a)' = "none" \/ Pinned(a)' \/ task'[p].ret = "io"
    <3>1. "io" \notin {"user", "exit", "dead", "fslock", "alloc", "write", "written", "unpin", "load", "read"}
      OBVIOUS
    <3> QED  BY <1>2, <2>3, <3>1, Zenon DEF TaskOK
  <2>6. CASE State(a) = "none"
    <3>1. fte' = fte /\ UNCHANGED <<frames, pages, disk, want>>
      BY <1>1, <2>1, <2>6, Zenon DEF frames
    <3>2. TaskOK(p)'
      BY <1>1, <2>5, <2>6, Zenon DEF State
    <3> QED  BY <1>3, <2>1, <2>3, <2>4, <3>1, <3>2, OnlyMoves, Zenon
  <2>7. CASE State(a) = "mapped"
    <3>1. fte' = SetPin(a, TRUE) /\ TRUE \in BOOLEAN
      BY <2>1, <2>7
    <3>2. fte'[spte[a].kpage].swap_prevention = TRUE
      BY <1>1, <2>7, <3>1, HasFrame, PinSet, Zenon
    <3>3. TaskOK(p)'
      BY <1>1, <2>5, <2>7, <3>2, Zenon DEF State, Pinned
    <3> QED  BY <1>1, <1>2, <1>3, <2>1, <2>3, <2>4, <2>7, <3>1, <3>3, HasFrame, PinMoves, Zenon
  <2> QED  BY <1>4, <2>6, <2>7, Zenon
<1>5. CASE State(a) \in {"evicted", "load"}
  <2> DEFINE t == [task[p] EXCEPT !.at = "alloc", !.why = IF State(a) = "evicted" THEN "pin_in" ELSE "pin_load"]
  <2>1. frame_table_lock' = p /\ task' = [task EXCEPT ![p] = t] /\ fte' = fte
    BY <1>2, <1>5, Zenon DEF swap_prevent_on, Page
  <2>2. /\ t \in Task /\ t.at = "alloc" /\ t.page = a
        /\ t.why = IF State(a) = "evicted" THEN "pin_in" ELSE "pin_load"
    BY <1>1, <1>2, Zenon DEF Task, Place
  <2> HIDE DEF t
  <2>3. task' \in [Proc -> Task] /\ Alone(p) /\ task'[p] = t
    BY <1>1, <2>1, <2>2, Moved, Zenon
  <2>4. t.at \notin {"write", "written", "read", "load"}
    BY <2>2
  <2>5. UNCHANGED <<frames, pages, disk, want>> /\ HasFrameLock(p)
    BY <1>1, <2>1, Zenon DEF frames, HasFrameLock
  <2>6. PICK u : u = t
    BY Zenon
  <2>7. TaskOK(p)'
    <3>1. /\ u.at \notin {"unpin", "load", "read", "io"}
          /\ \/ u.why \in {"in", "pin_in", "munmap_in"} /\ State(a) = "evicted"
             \/ u.why \in {"load", "pin_load"} /\ State(a) = "load"
      BY <1>5, <2>2, <2>6
    <3> QED  BY <1>1, <1>2, <2>2, <2>3, <2>6, <3>1, Zenon DEF TaskOK, State
  <2> QED  BY <1>3, <2>1, <2>3, <2>4, <2>5, <2>7, OnlyMoves, Zenon
<1> QED  BY <1>2, <1>4, <1>5, Zenon DEF swap_prevent_on, Page

(* swap_prevent_off: the buffer was filled. *)
LEMMA UnpinStep ==
  ASSUME VMInv, NEW p \in Proc, swap_prevent_off(p)
  PROVE  VMInv'
<1>1. /\ TypeOK /\ FrameInv /\ task[p].at = "off" /\ TaskOK(p) /\ task[p] \in Task /\ frame_table_lock = Nobody
      /\ UNCHANGED <<frame_list, eviction_ptr, used, mem, pages, disk, want>> /\ spte' = spte
  BY Zenon DEF VMInv, TypeOK, TaskInv, swap_prevent_off, At, pages
<1>2. PICK a \in UserPage : a = task[p].page /\ Owner[a] = p
  BY <1>1 DEF TaskOK
<1>3. task[p].at \notin {"write", "written", "read", "load"}
  BY <1>1
<1>4. CASE State(a) = "mapped"
  <2>1. frame_table_lock' = frame_table_lock /\ fte' = SetPin(a, FALSE) /\ task' = [task EXCEPT ![p] = User]
    BY <1>2, <1>4 DEF swap_prevent_off, Page
  <2>2. task' \in [Proc -> Task] /\ Alone(p) /\ task'[p].at = "user"
    BY <1>1, <2>1, UserTask, Moved, Zenon
  <2>3. task'[p].at \notin {"write", "written", "read", "load"} /\ ~ NeedsLock(task'[p]) /\ TaskOK(p)'
    BY <2>2 DEF NeedsLock, TaskOK
  <2>4. FALSE \in BOOLEAN
    OBVIOUS
  <2> QED  BY <1>1, <1>2, <1>3, <1>4, <2>1, <2>2, <2>3, <2>4, HasFrame, PinMoves, Zenon
<1>5. CASE State(a) = "evicted"
  <2> DEFINE t == [User EXCEPT !.at = "alloc", !.page = a, !.why = "in"]
  <2>1. task' = [task EXCEPT ![p] = t] /\ frame_table_lock' = p /\ fte' = fte
    BY <1>2, <1>5 DEF swap_prevent_off, Page
  <2>2. t \in Task /\ t.at = "alloc" /\ t.page = a /\ t.why = "in"
    BY Zenon DEF Task, Place, User
  <2> HIDE DEF t
  <2>3. task' \in [Proc -> Task] /\ Alone(p) /\ task'[p] = t
    BY <1>1, <2>1, <2>2, Moved, Zenon
  <2>4. t.at \notin {"write", "written", "read", "load", "unpin", "io"} /\ t.why \in {"in", "pin_in", "munmap_in"}
    BY <2>2
  <2>5. UNCHANGED <<frames, pages, disk, want>> /\ HasFrameLock(p)
    BY <1>1, <2>1, Zenon DEF frames, HasFrameLock
  <2>6. TaskOK(p)'
    BY <1>1, <1>2, <1>5, <2>2, <2>3, <2>4, Zenon DEF TaskOK, State
  <2> QED  BY <1>3, <2>1, <2>3, <2>4, <2>5, <2>6, OnlyMoves, Zenon
<1> QED  BY <1>2, <1>4, <1>5, Zenon DEF swap_prevent_off, Page

(* The hardware sets bits of a page table entry and nothing else. *)
LEMMA BitsSet ==
  ASSUME TypeOK, NEW a \in UserPage, NEW d \in BOOLEAN,
         pte' = [pte EXCEPT ![a] = [@ EXCEPT !.accessed = TRUE, !.dirty = d]]
  PROVE  /\ pte' \in [UserPage -> TableEntry]
         /\ \A b \in UserPage : (pte'[b].present <=> pte[b].present) /\ pte'[b].frame = pte[b].frame
<1>1. pte \in [UserPage -> TableEntry]
  BY Zenon DEF TypeOK
<1> DEFINE e == [pte[a] EXCEPT !.accessed = TRUE, !.dirty = d]
<1>2. e \in TableEntry /\ e.present = pte[a].present /\ e.frame = pte[a].frame
  BY <1>1, Zenon DEF TableEntry
<1>3. pte' = [pte EXCEPT ![a] = e]
  BY Zenon
<1> HIDE DEF e
<1>4. pte' \in [UserPage -> TableEntry] /\ pte'[a] = e /\ \A b \in UserPage : b # a => pte'[b] = pte[b]
  BY <1>1, <1>2, <1>3, Zenon
<1> QED  BY <1>2, <1>4, Zenon

(* A process that is not in the middle of a page fault stores into a page  *)
(* that is present: into its frame, which is no other page's.              *)
LEMMA Stores ==
  ASSUME VMInv, NEW p \in Proc, Alone(p), task' \in [Proc -> Task],
         NEW a \in UserPage, Owner[a] = p, pte[a].present, NEW d \in BOOLEAN,
         task[p].at \in {"user", "io"}, task'[p].at \in {"user", "off"}, TaskOK(p)',
         pte' = [pte EXCEPT ![a] = [@ EXCEPT !.accessed = TRUE, !.dirty = d]],
         mem' = [mem EXCEPT ![pte[a].frame] = Token[a]],
         want' = [want EXCEPT ![a] = Token[a]],
         UNCHANGED <<frame_list, eviction_ptr, fte, used, spte, disk, frame_table_lock>>
  PROVE  VMInv'
<1>1. TypeOK /\ FrameInv /\ LockInv /\ TaskInv /\ SlotInv /\ ValueInv
  BY Zenon DEF VMInv
<1>2. /\ frame_list' = frame_list /\ eviction_ptr' = eviction_ptr /\ fte' = fte /\ used' = used
      /\ spte' = spte /\ swap_table' = swap_table /\ swap' = swap /\ file' = file
      /\ frame_table_lock' = frame_table_lock
  BY Zenon DEF disk
<1>3. PICK f \in used : State(a) = "mapped" /\ f = spte[a].kpage /\ f = pte[a].frame /\ fte[f].user = a
  BY <1>1, Zenon DEF FrameInv, PageOK
<1>4. Token[a] \in Nat
  BY VMAssumption, Zenon DEF VMAssumption
<1>5. /\ mem' \in [used -> Nat] /\ mem'[f] = Token[a] /\ \A g \in used : g # f => mem'[g] = mem[g]
  BY <1>1, <1>3, <1>4, Zenon DEF TypeOK
<1>6. /\ want' \in [UserPage -> Nat] /\ want'[a] = Token[a]
      /\ \A b \in UserPage : b # a => want'[b] = want[b]
  BY <1>1, <1>4, Zenon DEF TypeOK
<1>7. /\ pte' \in [UserPage -> TableEntry]
      /\ \A b \in UserPage : (pte'[b].present <=> pte[b].present) /\ pte'[b].frame = pte[b].frame
  BY <1>1, BitsSet, Zenon
<1>8. /\ task[p].at \notin {"write", "written"} /\ task'[p].at \notin {"write", "written"}
      /\ task[p].at \notin {"read", "load"} /\ task'[p].at \notin {"read", "load"}
      /\ ~ NeedsLock(task'[p])
  BY DEF NeedsLock
<1>9. TypeOK'
  BY <1>1, <1>2, <1>5, <1>6, <1>7, Zenon DEF TypeOK
<1>10. LockInv'
  BY <1>1, <1>2, <1>8, LockKept, Zenon
<1>11. SameFrames /\ SamePages
  BY <1>2, <1>7, Zenon DEF SameFrames, SamePages
<1>12. FrameInv'
  BY <1>1, <1>8, <1>11, EvictingKept, FramesKept, Zenon
<1>13. TaskInv'
  <2>1. \A b \in UserPage : State(b)' = State(b) /\ (Pinned(b) => Pinned(b)')
    BY <1>2, Zenon DEF Pinned, State
  <2> QED  BY <1>1, <2>1, TasksKept, Zenon
<1>14. \A b \in UserPage : /\ Writing(b)' <=> Writing(b)
                           /\ Reading(b)' <=> Reading(b)
                           /\ Loading(b)' <=> Loading(b)
  BY <1>1, <1>8, <1>11, WritingKept, TransferKept, Zenon
<1>15. SlotInv'
  BY <1>1, <1>2, <1>14, SlotsKept, Zenon DEF SameSlots, InSwap, State
<1>16. ASSUME NEW b \in UserPage, b # a
       PROVE  SamePage(b)
  <2>1. State(b) = "mapped" => spte[b].kpage \in used /\ spte[b].kpage # f
    <3>1. State(b) = "mapped" => spte[b].kpage \in used /\ fte[spte[b].kpage].user = b
      BY <1>1, Zenon DEF FrameInv, PageOK
    <3> QED  BY <1>3, <1>16, <3>1, Zenon
  <2>2. Writing(b) => eviction_ptr \in used /\ eviction_ptr # f
    BY <1>1, <1>3, <1>16, Zenon DEF FrameInv, Evicting, Writing
  <2> QED  BY <1>2, <1>5, <1>6, <1>14, <1>16, <2>1, <2>2, Zenon DEF SamePage, State
<1>17. ValueOK(a)'
  <2>1. ~ Reading(a)' /\ ~ Loading(a)'
    BY <1>8, Zenon DEF Reading, Loading, At
  <2>2. spte'[a].state = "mapped" /\ mem'[spte'[a].kpage] = want'[a]
    <3>1. spte'[a].state = "mapped" /\ spte'[a].kpage = f
      BY <1>2, <1>3, Zenon DEF State
    <3>2. mem'[f] = want'[a]
      BY <1>5, <1>6, Zenon
    <3> QED  BY <3>1, <3>2, Zenon
  <2> QED  BY <2>1, <2>2 DEF ValueOK, InSwap, State
<1>18. ValueInv'
  BY <1>1, <1>16, <1>17, ValueKept, Zenon DEF ValueInv
<1> QED  BY <1>9, <1>10, <1>12, <1>13, <1>15, <1>18, Zenon DEF VMInv

(* User code reads or writes a page that is present. *)
LEMMA AccessStep ==
  ASSUME VMInv, NEW p \in Proc, NEW a \in Pages(p), NEW write \in BOOLEAN, access(a, write)
  PROVE  VMInv'
<1>1. /\ TypeOK /\ a \in UserPage /\ Owner[a] = p /\ task[p].at = "user" /\ pte[a].present
      /\ task' = task /\ spte' = spte /\ TaskOK(p)
      /\ UNCHANGED <<frame_list, eviction_ptr, fte, used, spte, disk, frame_table_lock>>
  BY Zenon DEF VMInv, TypeOK, TaskInv, access, At, Pages, locks
<1> DEFINE d == pte[a].dirty \/ (write /\ Kind[a] = "mmap")
<1>2. d \in BOOLEAN
  BY Zenon
<1>3. pte' = [pte EXCEPT ![a] = [@ EXCEPT !.accessed = TRUE, !.dirty = d]]
  BY Zenon DEF access, Noted
<1> HIDE DEF d
<1>4. Alone(p) /\ task' \in [Proc -> Task] /\ task'[p].at = "user"
  BY <1>1, Zenon DEF TypeOK, Alone
<1>5. TaskOK(p)' /\ ~ NeedsLock(task'[p]) /\ task'[p].at \notin {"write", "written", "read", "load"}
  BY <1>4 DEF TaskOK, NeedsLock
<1>6. CASE write
  <2>1. /\ mem' = [mem EXCEPT ![pte[a].frame] = Token[a]]
        /\ want' = [want EXCEPT ![a] = Token[a]]
    BY <1>6, Zenon DEF access
  <2>2. task[p].at \in {"user", "io"} /\ task'[p].at \in {"user", "off"}
    BY <1>1, <1>4, Zenon
  <2> QED  BY <1>1, <1>2, <1>3, <1>4, <1>5, <2>1, <2>2, Stores, Zenon
<1>7. CASE ~ write
  <2>1. UNCHANGED <<spte, mem, disk, want>> /\ fte' = fte /\ frame_table_lock' = frame_table_lock
    BY <1>1, <1>7, Zenon DEF access
  <2>2. /\ pte' \in [UserPage -> TableEntry]
        /\ \A b \in UserPage : (pte'[b].present <=> pte[b].present) /\ pte'[b].frame = pte[b].frame
    BY <1>1, <1>2, <1>3, BitsSet, Zenon
  <2>3. SameFrames /\ SamePages /\ TypesKept
    BY <1>1, <1>4, <2>1, <2>2, Zenon DEF SameFrames, SamePages, TypesKept, TypeOK
  <2>4. \A b \in UserPage : Pinned(b) => Pinned(b)'
    BY <1>1, <2>1, Zenon DEF Pinned, State
  <2>5. task[p].at \notin {"write", "written", "read", "load"}
    BY <1>1, <1>4, <1>5, Zenon
  <2> QED  BY <1>4, <1>5, <2>1, <2>3, <2>4, <2>5, Moves, Zenon
<1> QED  BY <1>6, <1>7, Zenon

(* file_read fills the buffer, or faults on it. *)
LEMMA IoStep ==
  ASSUME VMInv, NEW p \in Proc, io(p)
  PROVE  VMInv'
<1>1. /\ TypeOK /\ FrameInv /\ task[p].at = "io" /\ TaskOK(p) /\ task[p] \in Task
      /\ UNCHANGED <<frame_list, eviction_ptr, fte, used, spte, disk, frame_table_lock>>
  BY Zenon DEF VMInv, TypeOK, TaskInv, io, At
<1>2. PICK a \in UserPage : a = Page(p) /\ Owner[a] = p
  BY <1>1 DEF TaskOK, Page
<1>3. CASE pte[a].present
  <2> DEFINE d == pte[a].dirty \/ (TRUE /\ Kind[a] = "mmap")
  <2>1. /\ pte' = [pte EXCEPT ![a] = [@ EXCEPT !.accessed = TRUE, !.dirty = d]]
        /\ mem' = [mem EXCEPT ![pte[a].frame] = Token[a]]
        /\ want' = [want EXCEPT ![a] = Token[a]]
        /\ GoTo(p, "off")
    BY <1>2, <1>3, Zenon DEF io, Noted
  <2>2. "off" \in Place /\ d \in BOOLEAN
    BY DEF Place
  <2> HIDE DEF d
  <2>3. task' \in [Proc -> Task] /\ Alone(p) /\ task'[p].at = "off" /\ task'[p].page = a
    BY <1>1, <1>2, <2>1, <2>2, Gone, Zenon DEF Page
  <2>4. task[p].at \in {"user", "io"} /\ task'[p].at \in {"user", "off"}
    BY <1>1, <2>3, Zenon
  <2>5. TaskOK(p)'
    BY <1>2, <2>3 DEF TaskOK
  <2> QED  BY <1>1, <1>2, <1>3, <2>1, <2>2, <2>3, <2>4, <2>5, Stores, Zenon
<1>4. CASE ~ pte[a].present
  <2>1. /\ task' = [task EXCEPT ![p] = page_fault([@ EXCEPT !.ret = "io"], Page(p))]
        /\ UNCHANGED <<frames, pages, disk, frame_table_lock, want>>
    BY <1>1, <1>2, <1>4, Zenon DEF io, frames, pages
  <2>2. State(Page(p)) # "mapped"
    BY <1>1, <1>2, <1>4, Zenon DEF FrameInv, PageOK
  <2>3. task[p].at \in {"flush", "io", "name"} /\ "io" \in {"io", "flush", "name"}
    BY <1>1, Zenon
  <2> QED  BY <2>1, <2>2, <2>3, FaultMoves, Zenon
<1> QED  BY <1>3, <1>4, Zenon

(* A call reads the name of a file, or faults on it. *)
LEMMA NameReadStep ==
  ASSUME VMInv, NEW p \in Proc, name_read(p)
  PROVE  VMInv'
<1>1. /\ TypeOK /\ FrameInv /\ task[p].at = "name" /\ TaskOK(p) /\ task[p] \in Task
      /\ UNCHANGED <<frame_list, eviction_ptr, fte, used, mem, spte, disk, frame_table_lock, want>>
  BY Zenon DEF VMInv, TypeOK, TaskInv, name_read, At, frames
<1>2. PICK a \in UserPage : a = Page(p) /\ Owner[a] = p
  BY <1>1 DEF TaskOK, Page
<1>3. CASE pte[a].present
  <2> DEFINE d == pte[a].dirty \/ (FALSE /\ Kind[a] = "mmap")
  <2>1. /\ pte' = [pte EXCEPT ![a] = [@ EXCEPT !.accessed = TRUE, !.dirty = d]]
        /\ task' = [task EXCEPT ![p] = User]
    BY <1>2, <1>3, Zenon DEF name_read, Noted
  <2>2. d \in BOOLEAN
    BY Zenon
  <2> HIDE DEF d
  <2>3. task' \in [Proc -> Task] /\ Alone(p) /\ task'[p].at = "user"
    BY <1>1, <2>1, UserTask, Moved, Zenon
  <2>4. /\ task[p].at \notin {"write", "written", "read", "load"}
        /\ task'[p].at \notin {"write", "written", "read", "load"} /\ ~ NeedsLock(task'[p]) /\ TaskOK(p)'
    BY <1>1, <2>3 DEF NeedsLock, TaskOK
  <2>5. /\ pte' \in [UserPage -> TableEntry]
        /\ \A b \in UserPage : (pte'[b].present <=> pte[b].present) /\ pte'[b].frame = pte[b].frame
    BY <1>1, <2>1, <2>2, BitsSet, Zenon
  <2>6. SameFrames /\ SamePages /\ TypesKept
    BY <1>1, <2>3, <2>5, Zenon DEF SameFrames, SamePages, TypesKept, TypeOK
  <2>7. \A b \in UserPage : Pinned(b) => Pinned(b)'
    BY <1>1, Zenon DEF Pinned, State
  <2> QED  BY <1>1, <2>3, <2>4, <2>6, <2>7, Moves, Zenon
<1>4. CASE ~ pte[a].present
  <2>1. /\ task' = [task EXCEPT ![p] = page_fault([@ EXCEPT !.ret = "name"], Page(p))]
        /\ UNCHANGED <<frames, pages, disk, frame_table_lock, want>>
    BY <1>1, <1>2, <1>4, Zenon DEF name_read, frames, pages
  <2>2. State(Page(p)) # "mapped"
    BY <1>1, <1>2, <1>4, Zenon DEF FrameInv, PageOK
  <2>3. task[p].at \in {"flush", "io", "name"} /\ "name" \in {"io", "flush", "name"}
    BY <1>1, Zenon
  <2> QED  BY <2>1, <2>2, <2>3, FaultMoves, Zenon
<1> QED  BY <1>3, <1>4, Zenon

(* munmap goes on without the lock of the frame table: it pins the page,   *)
(* or has it brought in first.                                             *)
LEMMA MunmapPinStep ==
  ASSUME VMInv, NEW p \in Proc, munmap_pin(p)
  PROVE  VMInv'
<1>1. /\ TypeOK /\ FrameInv /\ task[p].at = "munmap_pin" /\ TaskOK(p) /\ task[p] \in Task
      /\ UNCHANGED <<frame_list, eviction_ptr, used, mem, pages, disk, want, frame_table_lock>> /\ spte' = spte
  BY Zenon DEF VMInv, TypeOK, TaskInv, munmap_pin, At, pages, locks
<1>2. PICK a \in UserPage : a = task[p].page /\ Owner[a] = p
  BY <1>1 DEF TaskOK
<1>3. task[p].at \notin {"write", "written", "read", "load"}
  BY <1>1
<1>4. CASE find_fte(a) # NULL
  <2>1. PICK place \in {"flush", "free"} : fte' = SetPin(a, TRUE) /\ GoTo(p, place)
    BY <1>2, <1>4, Zenon DEF munmap_pin, Page
  <2>2. place \in Place /\ TRUE \in BOOLEAN
    BY DEF Place
  <2>3. task' \in [Proc -> Task] /\ Alone(p) /\ task'[p].at = place /\ task'[p].page = a
    BY <1>1, <1>2, <2>1, <2>2, Gone, Zenon
  <2>4. task'[p].at \notin {"write", "written", "read", "load"} /\ ~ NeedsLock(task'[p])
    BY <2>3 DEF NeedsLock
  <2>5. TaskOK(p)'
    <3>1. place \notin {"fslock", "alloc", "write", "written", "unpin", "load", "read", "io"}
      OBVIOUS
    <3> QED  BY <1>2, <2>3, <3>1, Zenon DEF TaskOK
  <2> QED  BY <1>1, <1>2, <1>3, <1>4, <2>1, <2>2, <2>3, <2>4, <2>5, PinMoves, Zenon
<1>5. CASE find_fte(a) = NULL
  <2> DEFINE t == [task[p] EXCEPT !.at = "alloc", !.why = "munmap_in"]
  <2>1. task' = [task EXCEPT ![p] = t] /\ fte' = fte /\ State(a) = "evicted"
    BY <1>2, <1>5, Zenon DEF munmap_pin, Page
  <2>2. t \in Task /\ t.at = "alloc" /\ t.page = a /\ t.why = "munmap_in"
    BY <1>1, <1>2, Zenon DEF Task, Place
  <2> HIDE DEF t
  <2>3. task' \in [Proc -> Task] /\ Alone(p) /\ task'[p] = t
    BY <1>1, <2>1, <2>2, Moved, Zenon
  <2>4. t.at \notin {"write", "written", "read", "load", "unpin", "io"} /\ t.why \in {"in", "pin_in", "munmap_in"}
    BY <2>2
  <2>5. UNCHANGED <<frames, pages, disk, want>> /\ ~ NeedsLock(t)
    BY <1>1, <2>1, <2>2 DEF frames, NeedsLock
  <2>6. TaskOK(p)'
    BY <1>1, <1>2, <2>1, <2>2, <2>3, <2>4, Zenon DEF TaskOK, State
  <2> QED  BY <1>1, <1>3, <2>3, <2>4, <2>5, <2>6, OnlyMoves, Zenon
<1> QED  BY <1>4, <1>5, Zenon

-----------------------------------------------------------------------------
(* Steps that move pages.                                                  *)

(* Page a is in frame f, which was free. *)
NewFrame(a, f) ==
  /\ used' = used \cup {f}
  /\ frame_list' \in Seq(Frame) /\ Once(frame_list') /\ Members(frame_list') = used'
  /\ eviction_ptr' = eviction_ptr
  /\ fte' \in [used' -> [user : UserPage, swap_prevention : BOOLEAN]]
  /\ fte'[f].user = a /\ fte'[f].swap_prevention
  /\ mem' \in [used' -> Nat] /\ mem'[f] = 0
  /\ \A g \in used : g # f /\ fte'[g] = fte[g] /\ mem'[g] = mem[g]
  /\ spte' \in [UserPage -> PageEntry]
  /\ spte'[a].state = "mapped" /\ spte'[a].kpage = f /\ spte'[a].slot = spte[a].slot
  /\ pte' \in [UserPage -> TableEntry]
  /\ pte'[a].present /\ pte'[a].frame = f
  /\ \A b \in UserPage : b # a => spte'[b] = spte[b] /\ pte'[b] = pte[b]

(* A page that is not mapped gets a free frame. *)
LEMMA Allocated ==
  ASSUME VMInv, NEW a \in UserPage, State(a) # "mapped", Frame \ used # {}, _allocate_frame(a)
  PROVE  \E f \in Frame \ used : NewFrame(a, f)
<1> DEFINE f == First(Frame \ used)
<1>0. Frame \subseteq Nat
  BY VMAssumption, Zenon DEF VMAssumption
<1>1. f \in Frame \ used
  <2>1. Frame \ used \subseteq Nat
    BY <1>0, Zenon
  <2> QED  BY <2>1, Found, Zenon
<1>2. /\ used' = used \cup {f}
      /\ frame_list' = <<f>> \o frame_list
      /\ fte' = With(fte, f, [user |-> a, swap_prevention |-> TRUE])
      /\ mem' = With(mem, f, 0)
      /\ spte' = [spte EXCEPT ![a] = [state |-> "mapped", kpage |-> f, slot |-> @.slot, dirty |-> FALSE]]
      /\ pte' = [pte EXCEPT ![a] = [frame |-> f, present |-> TRUE, accessed |-> FALSE, dirty |-> FALSE]]
      /\ eviction_ptr' = eviction_ptr
  BY Zenon DEF _allocate_frame, pagedir_set_page
<1>3. TypeOK /\ FrameInv
  BY Zenon DEF VMInv
<1> HIDE DEF f
<1>4. frame_list' \in Seq(Frame) /\ Once(frame_list') /\ Members(frame_list') = used'
  BY <1>1, <1>2, <1>3, FrameAdded, Zenon DEF TypeOK, FrameInv
<1>5. /\ fte' \in [used' -> [user : UserPage, swap_prevention : BOOLEAN]]
      /\ fte'[f] = [user |-> a, swap_prevention |-> TRUE]
      /\ \A g \in used : g # f /\ fte'[g] = fte[g]
  <2>1. [user |-> a, swap_prevention |-> TRUE] \in [user : UserPage, swap_prevention : BOOLEAN]
    OBVIOUS
  <2>2. fte \in [used -> [user : UserPage, swap_prevention : BOOLEAN]]
    BY <1>3, Zenon DEF TypeOK
  <2>3. /\ fte' \in [used \cup {f} -> [user : UserPage, swap_prevention : BOOLEAN]]
        /\ fte'[f] = [user |-> a, swap_prevention |-> TRUE]
        /\ \A g \in used : g # f => fte'[g] = fte[g]
    BY <1>2, <2>1, <2>2 DEF With
  <2> QED  BY <1>1, <1>2, <2>3, Zenon
<1>6. mem' \in [used' -> Nat] /\ mem'[f] = 0 /\ \A g \in used : mem'[g] = mem[g]
  <2>1. 0 \in Nat
    OBVIOUS
  <2>2. mem \in [used -> Nat]
    BY <1>3, Zenon DEF TypeOK
  <2>3. mem' \in [used \cup {f} -> Nat] /\ mem'[f] = 0 /\ \A g \in used : g # f => mem'[g] = mem[g]
    BY <1>2, <2>1, <2>2 DEF With
  <2> QED  BY <1>1, <1>2, <2>3, Zenon
<1>7. fte'[f].user = a /\ fte'[f].swap_prevention
  BY <1>5
<1> DEFINE e == [state |-> "mapped", kpage |-> f, slot |-> spte[a].slot, dirty |-> FALSE]
           t == [frame |-> f, present |-> TRUE, accessed |-> FALSE, dirty |-> FALSE]
<1>8. /\ e \in PageEntry /\ e.state = "mapped" /\ e.kpage = f /\ e.slot = spte[a].slot
      /\ t \in TableEntry /\ t.present /\ t.frame = f
  BY <1>1, <1>3 DEF TypeOK, PageEntry, TableEntry
<1>9. spte' = [spte EXCEPT ![a] = e] /\ pte' = [pte EXCEPT ![a] = t]
  BY <1>2, Zenon
<1> HIDE DEF e, t
<1>10. /\ spte' \in [UserPage -> PageEntry] /\ spte'[a] = e
       /\ pte' \in [UserPage -> TableEntry] /\ pte'[a] = t
       /\ \A b \in UserPage : b # a => spte'[b] = spte[b] /\ pte'[b] = pte[b]
  BY <1>3, <1>8, <1>9, Zenon DEF TypeOK
<1>11. NewFrame(a, f)
  BY <1>1, <1>2, <1>4, <1>5, <1>6, <1>7, <1>8, <1>10, Zenon DEF NewFrame
<1> QED  BY <1>1, <1>11, Zenon

(* allocate_frame when a frame is free. *)
LEMMA AllocateStep ==
  ASSUME VMInv, NEW p \in Proc, allocate_frame(p)
  PROVE  VMInv'
<1>1. /\ TypeOK /\ FrameInv /\ LockInv /\ TaskInv /\ SlotInv /\ ValueInv
      /\ task[p].at = "alloc" /\ TaskOK(p) /\ HasFrameLock(p) /\ Frame \ used # {}
  BY Zenon DEF VMInv, TaskInv, allocate_frame, At
<1>2. PICK why : why = task[p].why
  BY Zenon
<1>3. PICK a \in UserPage :
        /\ a = task[p].page /\ Owner[a] = p
        /\ \/ why = "grow" /\ State(a) = "none"
           \/ why \in {"in", "pin_in", "munmap_in"} /\ State(a) = "evicted"
           \/ why \in {"load", "pin_load"} /\ State(a) = "load"
  BY <1>1, <1>2 DEF TaskOK
<1>4. State(a) # "mapped"
  BY <1>3
<1>5. PICK f \in Frame \ used : NewFrame(a, f)
  <2>1. _allocate_frame(a)
    BY <1>3, Zenon DEF allocate_frame, Page
  <2> QED  BY <1>1, <1>4, <2>1, Allocated, Zenon
<1>6. /\ frame_table_lock' = IF why \in {"grow", "load", "munmap_in"} THEN Nobody ELSE p
      /\ swap_table' = swap_table /\ swap' = swap /\ file' = file /\ want' = want
  BY <1>2, Zenon DEF allocate_frame, disk
<1>7. PICK place \in Place :
        /\ GoTo(p, place)
        /\ why = "grow" => place = "unpin"
        /\ why \in {"load", "pin_load"} => place = "load"
        /\ why \in {"in", "pin_in", "munmap_in"} => place = "read"
  <2>1. GoTo(p, CASE why = "grow" -> "unpin" [] why \in {"load", "pin_load"} -> "load" [] OTHER -> "read")
    BY <1>2, Zenon DEF allocate_frame
  <2>2. CASE why = "grow"
    <3>1. GoTo(p, "unpin")
      BY <2>1, <2>2
    <3> QED  BY <2>2, <3>1 DEF Place
  <2>3. CASE why \in {"load", "pin_load"}
    <3>1. GoTo(p, "load")
      BY <2>1, <2>3
    <3> QED  BY <2>3, <3>1 DEF Place
  <2>4. CASE why \in {"in", "pin_in", "munmap_in"}
    <3>1. GoTo(p, "read")
      BY <2>1, <2>4
    <3> QED  BY <2>4, <3>1 DEF Place
  <2> QED  BY <1>3, <2>2, <2>3, <2>4, Zenon
<1>8. /\ task' \in [Proc -> Task] /\ Alone(p)
      /\ task'[p].at = place /\ task'[p].page = a /\ task'[p].why = why
  BY <1>1, <1>2, <1>3, <1>7, Gone, Zenon
<1>9. place \in {"unpin", "load", "read"}
  BY <1>3, <1>7, Zenon
<1>10. /\ ~ Evicting /\ ~ Evicting'
       /\ \A b \in UserPage : ~ Writing(b) /\ ~ Writing(b)'
  <2>1. \A q \in Proc : task[q].at \notin {"write", "written"}
    <3>1. \A q \in Proc : q # p => ~ NeedsLock(task[q])
      BY <1>1, OnlyOne, Zenon
    <3>2. task[p].at \notin {"write", "written"}
      BY <1>1
    <3> QED  BY <3>1, <3>2, Zenon DEF NeedsLock
  <2>2. \A q \in Proc : task'[q].at \notin {"write", "written"}
    <3>1. task'[p].at \notin {"write", "written"}
      BY <1>8, <1>9
    <3> QED  BY <1>8, <2>1, <3>1, Zenon DEF Alone
  <2> QED  BY <2>1, <2>2, Zenon DEF Evicting, Writing, At
<1>11. TypeOK'
  <2>1. used' \subseteq Frame /\ frame_table_lock' \in Proc \cup {Nobody}
    BY <1>1, <1>5, <1>6, Zenon DEF TypeOK, NewFrame
  <2> QED  BY <1>1, <1>5, <1>6, <1>8, <2>1, Zenon DEF TypeOK, NewFrame
<1>12. LockInv'
  <2>1. NeedsLock(task'[p]) => frame_table_lock' = p
    <3>1. NeedsLock(task'[p]) => why \notin {"grow", "load", "munmap_in"}
      BY <1>3, <1>7, <1>8 DEF NeedsLock
    <3> QED  BY <1>6, <3>1, Zenon
  <2>2. \A q \in Proc : q # p => frame_table_lock # q
    BY <1>1, VMAssumption, Zenon DEF HasFrameLock, VMAssumption
  <2> QED  BY <1>1, <1>8, <2>1, <2>2, LockKept, Zenon
<1>13. FrameInv'
  <2>1. Once(frame_list') /\ Members(frame_list') = used' /\ eviction_ptr' \in used' \cup {NULL}
    BY <1>1, <1>5, Zenon DEF NewFrame, FrameInv
  <2>2. ASSUME NEW g \in used'
        PROVE  FrameOK(g)'
    <3>1. CASE g = f
      BY <1>5, <3>1, Zenon DEF NewFrame, FrameOK, State
    <3>2. CASE g \in used
      <4>1. /\ fte'[g] = fte[g] /\ spte[fte[g].user].kpage = g /\ fte[g].user \in UserPage
            /\ State(fte[g].user) = "mapped"
        BY <1>1, <1>5, <1>10, <3>2 DEF NewFrame, FrameInv, FrameOK, TypeOK
      <4>2. spte'[fte[g].user] = spte[fte[g].user]
        BY <1>4, <1>5, <4>1, Zenon DEF NewFrame
      <4> QED  BY <4>1, <4>2, Zenon DEF FrameOK, State
    <3> QED  BY <1>5, <3>1, <3>2, Zenon DEF NewFrame
  <2>3. ASSUME NEW b \in UserPage
        PROVE  PageOK(b)'
    <3>1. CASE b = a
      <4>1. f # NULL
        BY <1>5, VMAssumption, Zenon DEF VMAssumption
      <4> QED  BY <1>5, <3>1, <4>1, Zenon DEF NewFrame, PageOK, State
    <3>2. CASE b # a
      <4>1. spte'[b] = spte[b] /\ pte'[b] = pte[b] /\ PageOK(b)
        BY <1>1, <1>5, <3>2, Zenon DEF NewFrame, FrameInv
      <4>2. spte[b].kpage # NULL => spte[b].kpage \in used /\ spte[b].kpage \in used' /\ fte'[spte[b].kpage] = fte[spte[b].kpage]
        BY <1>5, <4>1, Zenon DEF PageOK, NewFrame
      <4> QED  BY <4>1, <4>2, Zenon DEF PageOK, State
    <3> QED  BY <3>1, <3>2, Zenon
  <2> QED  BY <1>10, <2>1, <2>2, <2>3, Zenon DEF FrameInv
<1>14. \A b \in UserPage : b # a => spte'[b] = spte[b]
  BY <1>5, Zenon DEF NewFrame
<1>15. TaskInv'
  <2>1. Pinned(a)'
    BY <1>5, Zenon DEF NewFrame, Pinned, State
  <2>2. TaskOK(p)'
    <3>1. place \notin {"fslock", "alloc", "write", "written", "io"}
      BY <1>9
    <3> QED  BY <1>3, <1>8, <2>1, <3>1, Zenon DEF TaskOK
  <2>3. ASSUME NEW b \in UserPage, Owner[b] # p
        PROVE  State(b)' = State(b) /\ (Pinned(b) => Pinned(b)')
    <3>1. spte'[b] = spte[b]
      BY <1>3, <1>14, <2>3, Zenon
    <3>2. State(b) = "mapped" => spte[b].kpage \in used
      BY <1>1, Zenon DEF FrameInv, PageOK
    <3> QED  BY <1>5, <3>1, <3>2, Zenon DEF NewFrame, Pinned, State
  <2> QED  BY <1>1, <1>8, <2>2, <2>3, TasksKept, Zenon
<1>16. /\ InSwap(a)' => InSwap(a)
       /\ Reading(a)' <=> place = "read"
       /\ Loading(a)' <=> place = "load"
       /\ spte'[a].slot = spte[a].slot
  <2>1. (Reading(a)' <=> place = "read") /\ (Loading(a)' <=> place = "load")
    BY <1>3, <1>8, Zenon DEF Reading, Loading, At, Page
  <2>2. spte'[a].state = "mapped" /\ spte'[a].slot = spte[a].slot
    BY <1>5, Zenon DEF NewFrame
  <2>3. place = "read" => State(a) = "evicted"
    BY <1>3, <1>7
  <2>4. State(a)' # "evicted"
    BY <2>2 DEF State
  <2> QED  BY <2>1, <2>2, <2>3, <2>4, Zenon DEF InSwap
<1>17. ASSUME NEW b \in UserPage, b # a
       PROVE  (Reading(b)' <=> Reading(b)) /\ (Loading(b)' <=> Loading(b)) /\ (InSwap(b)' <=> InSwap(b))
  <2>1. CASE Owner[b] # p
    BY <1>8, <1>14, <1>17, <2>1, TransferKept, Zenon DEF InSwap, State
  <2>2. CASE Owner[b] = p
    <3>1. Page(p) # b /\ Page(p)' # b
      BY <1>3, <1>8, <1>17, Zenon DEF Page
    <3> QED  BY <1>14, <1>17, <2>2, <3>1, Zenon DEF Reading, Loading, InSwap, State
  <2> QED  BY <2>1, <2>2, Zenon
<1>18. SlotInv'
  <2>1. \A b \in UserPage : (InSwap(b)' => InSwap(b)) /\ spte'[b].slot = spte[b].slot
    BY <1>14, <1>16, <1>17, Zenon
  <2>2. \A b, c \in UserPage : InSwap(b)' /\ InSwap(c)' /\ spte'[b].slot = spte'[c].slot => b = c
    BY <1>1, <2>1, Zenon DEF SlotInv
  <2>3. \A b \in UserPage : InSwap(b)' => spte'[b].slot \in swap_table' /\ spte'[b].slot \in DOMAIN swap'
    BY <1>1, <1>6, <1>10, <2>1, Zenon DEF SlotInv
  <2> QED  BY <2>2, <2>3, Zenon DEF SlotInv
<1>19. ASSUME NEW b \in UserPage, b # a
       PROVE  ValueOK(b)'
  <2>1. State(b) = "mapped" => spte[b].kpage \in used
    BY <1>1, Zenon DEF FrameInv, PageOK
  <2>2. State(b) = "mapped" => mem'[spte[b].kpage] = mem[spte[b].kpage]
    BY <1>5, <2>1, Zenon DEF NewFrame
  <2>3. SamePage(b)
    BY <1>6, <1>10, <1>14, <1>17, <1>19, <2>2, Zenon DEF SamePage, State
  <2> QED  BY <1>1, <2>3, ValueKept, Zenon DEF ValueInv
<1>20. ValueOK(a)'
  <2>1. spte'[a].state = "mapped" /\ spte'[a].kpage = f /\ mem'[f] = 0
    BY <1>5, Zenon DEF NewFrame
  <2>2. ValueOK(a) /\ want'[a] = want[a] /\ swap' = swap /\ Loaded(a)' = Loaded(a)
    BY <1>1, <1>6, Zenon DEF ValueInv, Loaded
  <2>3. State(a)' = "mapped" /\ "mapped" \notin {"none", "load", "evicted"}
    BY <2>1, Zenon DEF State
  <2>4. CASE why = "grow"
    <3>1. place # "load" /\ place # "read" /\ want[a] = 0
      BY <1>3, <1>7, <2>2, <2>4 DEF ValueOK
    <3> QED  BY <1>10, <1>16, <2>1, <2>2, <2>3, <3>1, ZenonT(30) DEF ValueOK, InSwap
  <2>5. CASE why \in {"load", "pin_load"}
    <3>1. place = "load" /\ place # "read" /\ want[a] = Loaded(a)
      BY <1>3, <1>7, <2>2, <2>5 DEF ValueOK
    <3> QED  BY <1>10, <1>16, <2>2, <2>3, <3>1, Zenon DEF ValueOK, InSwap
  <2>6. CASE why \in {"in", "pin_in", "munmap_in"}
    <3>1. place = "read" /\ place # "load" /\ State(a) = "evicted"
      BY <1>3, <1>7, <2>6
    <3>2. swap[spte[a].slot] = want[a]
      BY <1>10, <2>2, <3>1, Zenon DEF ValueOK, InSwap
    <3> QED  BY <1>10, <1>16, <2>2, <2>3, <3>1, <3>2, Zenon DEF ValueOK, InSwap
  <2> QED  BY <1>3, <2>4, <2>5, <2>6, Zenon
<1> QED  BY <1>11, <1>12, <1>13, <1>15, <1>18, <1>19, <1>20, Zenon DEF VMInv, ValueInv

(* swap_out has taken page a out of its page table and given it slot s. *)
Chosen(f, a, s) ==
  /\ eviction_ptr' = f /\ a = fte[f].user /\ ~ fte[f].swap_prevention
  /\ pte' \in [UserPage -> TableEntry] /\ ~ pte'[a].present
  /\ \A b \in UserPage : b # a => (pte'[b].present <=> pte[b].present) /\ pte'[b].frame = pte[b].frame
  /\ swap_table' = swap_table \cup {s}
  /\ spte' \in [UserPage -> PageEntry]
  /\ spte'[a].state = "evicted" /\ spte'[a].kpage = spte[a].kpage /\ spte'[a].slot = s
  /\ \A b \in UserPage : b # a => spte'[b] = spte[b]

(* The clock finds a frame that is not pinned. *)
LEMMA VictimIs ==
  ASSUME TypeOK, FrameInv, Evictable # {}
  PROVE  Clock(Victim) \in used /\ ~ fte[Clock(Victim)].swap_prevention
<1>1. Unused \subseteq Evictable /\ Evictable \subseteq 1 .. Len(frame_list)
  BY Zenon DEF Unused, Evictable
<1>2. Unused \subseteq Nat /\ Evictable \subseteq Nat
  BY <1>1
<1>3. Victim \in Evictable
  <2>1. CASE Unused # {}
    BY <1>1, <1>2, <2>1, Found, Zenon DEF Victim
  <2>2. CASE Unused = {}
    BY <1>2, <2>2, Found, Zenon DEF Victim
  <2> QED  BY <2>1, <2>2, Zenon
<1>4. Clock(Victim) \in Members(frame_list)
  BY <1>1, <1>3, ClockIs, Zenon DEF TypeOK, FrameInv
<1> QED  BY <1>3, <1>4, Zenon DEF FrameInv, Evictable

(* The first half of swap_out has a victim and a slot that nobody uses. *)
LEMMA SwapOut ==
  ASSUME VMInv, Evictable # {}, Slot \ swap_table # {}, swap_out
  PROVE  \E f \in used, a \in UserPage, s \in Slot \ swap_table : Chosen(f, a, s)
<1>1. TypeOK /\ FrameInv
  BY Zenon DEF VMInv
<1>2. PICK f \in used : f = Clock(Victim) /\ ~ fte[f].swap_prevention
  BY <1>1, VictimIs, Zenon
<1>3. PICK s \in Slot \ swap_table : s = FreeSlot
  <2>1. Slot \ swap_table \subseteq Nat
    BY VMAssumption, Zenon DEF VMAssumption
  <2> QED  BY <2>1, Found, Zenon DEF FreeSlot
<1>4. PICK a \in UserPage : a = fte[f].user
  BY <1>1, <1>2 DEF TypeOK
<1> DEFINE t == [NoPte EXCEPT !.dirty = pte[a].dirty]
           e == evicted(spte[a], s, pte[a].dirty)
           cleared == pagedir_clear_accessed(Passed)
<1>5. /\ eviction_ptr' = f /\ pte' = [cleared EXCEPT ![a] = t]
      /\ swap_table' = swap_table \cup {s} /\ spte' = [spte EXCEPT ![a] = e]
  BY <1>2, <1>3, <1>4, Zenon DEF swap_out
<1>6. pte \in [UserPage -> TableEntry] /\ spte \in [UserPage -> PageEntry]
  BY <1>1, Zenon DEF TypeOK
<1>7. t \in TableEntry /\ ~ t.present
  BY <1>6, Zenon DEF TableEntry, NoPte
<1>8. e \in PageEntry /\ e.state = "evicted" /\ e.kpage = spte[a].kpage /\ e.slot = s
  BY <1>3, <1>6 DEF PageEntry, evicted
<1>9. /\ cleared \in [UserPage -> TableEntry]
      /\ \A b \in UserPage : (cleared[b].present <=> pte[b].present) /\ cleared[b].frame = pte[b].frame
  <2>1. \A b \in UserPage : LET c == [pte[b] EXCEPT !.accessed = FALSE] IN
          c \in TableEntry /\ c.present = pte[b].present /\ c.frame = pte[b].frame
    BY <1>6, Zenon DEF TableEntry
  <2>2. \A b \in UserPage : cleared[b] \in {pte[b], [pte[b] EXCEPT !.accessed = FALSE]}
    BY Zenon DEF pagedir_clear_accessed
  <2>3. cleared = [b \in UserPage |-> cleared[b]]
    BY Zenon DEF pagedir_clear_accessed
  <2> HIDE DEF cleared
  <2>4. \A b \in UserPage : cleared[b] \in TableEntry
    BY <1>6, <2>1, <2>2, Zenon
  <2>5. cleared \in [UserPage -> TableEntry]
    BY <2>3, <2>4, Zenon
  <2> QED  BY <2>1, <2>2, <2>5, Zenon
<1> HIDE DEF t, e, cleared
<1>10. /\ pte' \in [UserPage -> TableEntry] /\ pte'[a] = t
       /\ \A b \in UserPage : b # a => pte'[b] = cleared[b]
  BY <1>5, <1>7, <1>9, Zenon
<1>11. /\ spte' \in [UserPage -> PageEntry] /\ spte'[a] = e
       /\ \A b \in UserPage : b # a => spte'[b] = spte[b]
  BY <1>5, <1>6, <1>8, Zenon
<1>12. Chosen(f, a, s)
  BY <1>2, <1>4, <1>5, <1>7, <1>8, <1>9, <1>10, <1>11, Zenon DEF Chosen
<1> QED  BY <1>12, Zenon

(* allocate_frame when no frame is free: swap_out up to the disk write. *)
LEMMA EvictStep ==
  ASSUME VMInv, NEW p \in Proc, evict(p)
  PROVE  VMInv'
<1>1. /\ TypeOK /\ FrameInv /\ LockInv /\ TaskInv /\ SlotInv /\ ValueInv
      /\ task[p].at = "alloc" /\ TaskOK(p) /\ HasFrameLock(p)
  BY Zenon DEF VMInv, TaskInv, evict, At
<1>2. PICK f \in used, a \in UserPage, s \in Slot \ swap_table : Chosen(f, a, s)
  BY SwapOut, Zenon DEF evict
<1>3. /\ frame_list' = frame_list /\ fte' = fte /\ used' = used /\ mem' = mem /\ swap' = swap /\ file' = file
      /\ want' = want /\ frame_table_lock' = p /\ GoTo(p, "write")
  BY Zenon DEF evict
<1>4. /\ task' \in [Proc -> Task] /\ Alone(p) /\ task'[p].at = "write"
      /\ task'[p].page = task[p].page /\ task'[p].why = task[p].why
  <2>1. "write" \in Place
    BY DEF Place
  <2> QED  BY <1>1, <1>3, <2>1, Gone, Zenon
<1>5. /\ ~ Evicting /\ Evicting'
      /\ \A b \in UserPage : ~ Writing(b)
      /\ \A b \in UserPage : Writing(b)' <=> b = a
  <2>1. \A q \in Proc : task[q].at \notin {"write", "written"}
    <3>1. \A q \in Proc : q # p => ~ NeedsLock(task[q])
      BY <1>1, OnlyOne, Zenon
    <3>2. task[p].at \notin {"write", "written"}
      BY <1>1
    <3> QED  BY <3>1, <3>2, Zenon DEF NeedsLock
  <2>2. fte'[eviction_ptr'].user = a
    BY <1>2, <1>3, Zenon DEF Chosen
  <2> QED  BY <1>4, <2>1, <2>2, Zenon DEF Evicting, Writing, At
<1>6. /\ State(a) = "mapped" /\ spte[a].kpage = f /\ ~ Pinned(a)
      /\ ~ Reading(a) /\ ~ Loading(a)
  <2>1. State(a) = "mapped" /\ spte[a].kpage = f
    BY <1>1, <1>2, <1>5, Zenon DEF FrameInv, FrameOK, Chosen
  <2>2. ~ Pinned(a)
    BY <1>2, <2>1, Zenon DEF Pinned, Chosen
  <2>3. Owner[a] \in Proc
    BY VMAssumption, Zenon DEF VMAssumption
  <2>4. TaskOK(Owner[a])
    BY <1>1, <2>3, Zenon DEF TaskInv
  <2> QED  BY <2>1, <2>2, <2>4, Zenon DEF TaskOK, Reading, Loading, At, Page
<1>7. \A b \in UserPage : (Reading(b)' <=> Reading(b)) /\ (Loading(b)' <=> Loading(b))
  <2>1. task[p].at \notin {"read", "load"} /\ task'[p].at \notin {"read", "load"}
    BY <1>1, <1>4
  <2> QED  BY <1>4, <2>1, TransferKept, Zenon
<1>8. TypeOK'
  <2>1. eviction_ptr' \in Frame \cup {NULL} /\ swap_table' \subseteq Slot
    BY <1>1, <1>2, Zenon DEF TypeOK, Chosen
  <2> QED  BY <1>1, <1>2, <1>3, <1>4, <2>1, Zenon DEF TypeOK, Chosen
<1>9. LockInv'
  <2>1. \A q \in Proc : q # p => frame_table_lock # q
    BY <1>1, VMAssumption, Zenon DEF HasFrameLock, VMAssumption
  <2> QED  BY <1>1, <1>3, <1>4, <2>1, LockKept, Zenon
<1>10. \A b \in UserPage : b # a => spte'[b] = spte[b]
  BY <1>2, Zenon DEF Chosen
<1>11. FrameInv'
  <2>1. eviction_ptr' = f /\ spte'[a].state = "evicted" /\ spte'[a].kpage = f /\ fte[f].user = a
    BY <1>2, <1>6, Zenon DEF Chosen
  <2>2. ASSUME NEW g \in used
        PROVE  FrameOK(g)'
    <3>1. CASE g = f
      BY <1>3, <1>5, <2>1, <3>1, Zenon DEF FrameOK
    <3>2. CASE g # f
      <4>1. FrameOK(g) /\ fte[g].user \in UserPage
        BY <1>1 DEF FrameInv, TypeOK
      <4>2. fte[g].user # a
        BY <1>6, <3>2, <4>1, Zenon DEF FrameOK
      <4> QED  BY <1>3, <1>5, <1>10, <4>1, <4>2, Zenon DEF FrameOK, State
    <3> QED  BY <3>1, <3>2, Zenon
  <2>3. ASSUME NEW b \in UserPage
        PROVE  PageOK(b)'
    <3>1. CASE b = a
      <4>1. ~ pte'[a].present
        BY <1>2, Zenon DEF Chosen
      <4> QED  BY <1>3, <2>1, <3>1, <4>1 DEF PageOK, State
    <3>2. CASE b # a
      <4>1. PageOK(b) /\ spte'[b] = spte[b] /\ (pte'[b].present <=> pte[b].present) /\ pte'[b].frame = pte[b].frame
        BY <1>1, <1>2, <3>2, Zenon DEF FrameInv, Chosen
      <4> QED  BY <1>3, <4>1, Zenon DEF PageOK, State
    <3> QED  BY <3>1, <3>2, Zenon
  <2>4. Once(frame_list') /\ Members(frame_list') = used' /\ eviction_ptr' \in used' \cup {NULL}
    BY <1>1, <1>3, <2>1, Zenon DEF FrameInv
  <2>5. eviction_ptr' \in used' /\ State(fte[eviction_ptr].user)' = "evicted"
    BY <1>3, <2>1, Zenon DEF State
  <2> QED  BY <1>3, <2>2, <2>3, <2>4, <2>5, Zenon DEF FrameInv
<1>12. TaskInv'
  <2>1. \A b \in UserPage : /\ State(b) # "mapped" => State(b)' = State(b)
                            /\ Pinned(b) => Pinned(b)'
    BY <1>3, <1>6, <1>10, Zenon DEF Pinned, State
  <2>2. TaskOK(p)'
    <3>1. PICK b \in UserPage :
            /\ b = task[p].page /\ Owner[b] = p
            /\ \/ task[p].why = "grow" /\ State(b) = "none"
               \/ task[p].why \in {"in", "pin_in", "munmap_in"} /\ State(b) = "evicted"
               \/ task[p].why \in {"load", "pin_load"} /\ State(b) = "load"
      BY <1>1 DEF TaskOK
    <3>2. State(b)' = State(b)
      BY <2>1, <3>1
    <3>3. "write" \notin {"unpin", "load", "read", "io"}
      OBVIOUS
    <3> QED  BY <1>4, <3>1, <3>2, <3>3, Zenon DEF TaskOK
  <2> QED  BY <1>1, <1>4, <2>1, <2>2, TasksKept, Zenon
<1>13. \A b \in UserPage : b # a => (InSwap(b)' <=> InSwap(b))
  BY <1>7, <1>10, Zenon DEF InSwap, State
<1>14. spte'[a].slot = s /\ s \notin swap_table /\ swap_table' = swap_table \cup {s}
  BY <1>2, Zenon DEF Chosen
<1>15. SlotInv'
  <2>1. \A b \in UserPage : b # a /\ InSwap(b)' =>
          InSwap(b) /\ spte'[b].slot = spte[b].slot /\ spte[b].slot \in swap_table /\ spte[b].slot \in DOMAIN swap
    BY <1>1, <1>5, <1>10, <1>13, Zenon DEF SlotInv
  <2>2. \A b \in UserPage : InSwap(b)' => spte'[b].slot \in swap_table'
    BY <1>14, <2>1, Zenon
  <2>3. \A b \in UserPage : InSwap(b)' /\ ~ Writing(b)' => spte'[b].slot \in DOMAIN swap'
    BY <1>3, <1>5, <2>1, Zenon
  <2>4. ASSUME NEW b \in UserPage, NEW c \in UserPage, InSwap(b)', InSwap(c)', spte'[b].slot = spte'[c].slot
        PROVE  b = c
    <3>1. CASE b = a \/ c = a
      BY <1>14, <2>1, <2>4, <3>1, Zenon
    <3>2. CASE b # a /\ c # a
      <4>1. InSwap(b) /\ InSwap(c) /\ spte[b].slot = spte[c].slot
        BY <2>1, <2>4, <3>2, Zenon
      <4> QED  BY <1>1, <4>1, Zenon DEF SlotInv
    <3> QED  BY <3>1, <3>2, Zenon
  <2> QED  BY <2>2, <2>3, <2>4, Zenon DEF SlotInv
<1>16. ASSUME NEW b \in UserPage, b # a
       PROVE  ValueOK(b)'
  <2>1. SamePage(b)
    BY <1>3, <1>5, <1>7, <1>10, <1>16, Zenon DEF SamePage
  <2> QED  BY <1>1, <2>1, ValueKept, Zenon DEF ValueInv
<1>17. ValueOK(a)'
  <2>1. mem[f] = want[a]
    BY <1>1, <1>6, Zenon DEF ValueInv, ValueOK
  <2>2. mem'[eviction_ptr'] = want'[a]
    BY <1>2, <1>3, <2>1, Zenon DEF Chosen
  <2>3. State(a)' = "evicted" /\ "evicted" \notin {"none", "load", "mapped"}
    BY <1>2, Zenon DEF Chosen, State
  <2> QED  BY <1>5, <1>6, <1>7, <2>2, <2>3, Zenon DEF ValueOK
<1> QED  BY <1>8, <1>9, <1>11, <1>12, <1>15, <1>16, <1>17, Zenon DEF VMInv, ValueInv

(* swap_out has written the page to its slot. *)
LEMMA WriteStep ==
  ASSUME VMInv, NEW p \in Proc, evict_write(p)
  PROVE  VMInv'
<1>1. /\ TypeOK /\ FrameInv /\ LockInv /\ TaskInv /\ SlotInv /\ ValueInv
      /\ task[p].at = "write" /\ TaskOK(p)
  BY Zenon DEF VMInv, TaskInv, evict_write, At
<1>2. /\ UNCHANGED <<frame_list, eviction_ptr, fte, used, mem, spte, pte>>
      /\ swap_table' = swap_table /\ file' = file /\ frame_table_lock' = frame_table_lock /\ want' = want
      /\ GoTo(p, "written")
      /\ swap' = With(swap, spte[fte[eviction_ptr].user].slot, mem[eviction_ptr])
  BY Zenon DEF evict_write, write_to_disk, frames, pages, locks
<1>3. /\ task' \in [Proc -> Task] /\ Alone(p) /\ task'[p].at = "written"
      /\ task'[p].page = task[p].page /\ task'[p].why = task[p].why
  <2>1. "written" \in Place
    BY DEF Place
  <2> QED  BY <1>1, <1>2, <2>1, Gone, Zenon
<1>4. PICK f \in used : f = eviction_ptr
  BY <1>1, Zenon DEF FrameInv, Evicting, At
<1>5. PICK a \in UserPage : a = fte[f].user
  BY <1>1 DEF TypeOK
<1>6. State(a) = "evicted" /\ Evicting /\ Evicting' /\ \A b \in UserPage : (Writing(b) <=> b = a) /\ ~ Writing(b)'
  <2>1. NeedsLock(task[p])
    BY <1>1, Zenon DEF NeedsLock
  <2>2. HasFrameLock(p)
    BY <1>1, <2>1, Zenon DEF LockInv, HasFrameLock
  <2>3. \A q \in Proc : q # p => task'[q].at # "write"
    BY <1>1, <1>3, <2>2, OnlyOne, Zenon DEF NeedsLock, Alone
  <2>4. "write" # "written"
    OBVIOUS
  <2> QED  BY <1>1, <1>3, <1>4, <1>5, <2>3, <2>4, Zenon DEF FrameInv, Evicting, Writing, At
<1>7. \A b \in UserPage : (Reading(b)' <=> Reading(b)) /\ (Loading(b)' <=> Loading(b)) /\ (InSwap(b)' <=> InSwap(b))
  <2>1. task[p].at \notin {"read", "load"} /\ task'[p].at \notin {"read", "load"}
    BY <1>1, <1>3
  <2> QED  BY <1>2, <1>3, <2>1, TransferKept, Zenon DEF InSwap, State
<1>8. PICK s : s = spte[a].slot
  BY Zenon
<1>9. /\ swap' \in [DOMAIN swap' -> Nat] /\ DOMAIN swap' = DOMAIN swap \cup {s} /\ swap'[s] = mem[f]
      /\ \A t \in DOMAIN swap : t # s => swap'[t] = swap[t]
  <2>1. swap \in [DOMAIN swap -> Nat] /\ mem[f] \in Nat
    BY <1>1, Zenon DEF TypeOK
  <2>2. swap' = With(swap, s, mem[f])
    BY <1>2, <1>4, <1>5, <1>8, Zenon
  <2> QED  BY <2>1, <2>2 DEF With
<1>10. TypeOK'
  BY <1>1, <1>2, <1>3, <1>9, Zenon DEF TypeOK
<1>11. LockInv'
  <2>1. NeedsLock(task[p])
    BY <1>1, Zenon DEF NeedsLock
  <2> QED  BY <1>1, <1>2, <1>3, <2>1, LockKept, Zenon DEF LockInv
<1>12. FrameInv'
  <2>1. SameFrames /\ SamePages
    BY <1>2, Zenon DEF SameFrames, SamePages
  <2> QED  BY <1>1, <1>6, <2>1, FramesKept, Zenon
<1>13. TaskInv'
  <2>1. \A b \in UserPage : State(b)' = State(b) /\ (Pinned(b) => Pinned(b)')
    BY <1>2, Zenon DEF Pinned, State
  <2>2. TaskOK(p)'
    <3>1. "written" \notin {"unpin", "load", "read", "io"} /\ "write" \notin {"user", "exit", "dead"}
      OBVIOUS
    <3> QED  BY <1>1, <1>2, <1>3, <3>1, Zenon DEF TaskOK, State
  <2> QED  BY <1>1, <1>3, <2>1, <2>2, TasksKept, Zenon
<1>14. \A b \in UserPage : b # a /\ InSwap(b) => spte[b].slot # s /\ spte[b].slot \in DOMAIN swap
  BY <1>1, <1>6, <1>8, Zenon DEF SlotInv, InSwap
<1>15. SlotInv'
  <2>1. \A b \in UserPage : InSwap(b)' => spte'[b].slot \in swap_table'
    BY <1>1, <1>2, <1>7, Zenon DEF SlotInv
  <2>2. \A b \in UserPage : InSwap(b)' => spte'[b].slot \in DOMAIN swap'
    BY <1>2, <1>7, <1>8, <1>9, <1>14, Zenon
  <2>3. \A b, c \in UserPage : InSwap(b)' /\ InSwap(c)' /\ spte'[b].slot = spte'[c].slot => b = c
    BY <1>1, <1>2, <1>7, Zenon DEF SlotInv
  <2> QED  BY <2>1, <2>2, <2>3, Zenon DEF SlotInv
<1>16. ASSUME NEW b \in UserPage, b # a
       PROVE  ValueOK(b)'
  <2>1. InSwap(b) => swap'[spte[b].slot] = swap[spte[b].slot]
    BY <1>9, <1>14, <1>16, Zenon
  <2>2. SamePage(b)
    BY <1>2, <1>6, <1>7, <1>16, <2>1, Zenon DEF SamePage
  <2> QED  BY <1>1, <2>2, ValueKept, Zenon DEF ValueInv
<1>17. ValueOK(a)'
  <2>1. mem[f] = want[a] /\ (Loading(a) => want[a] = Loaded(a))
    BY <1>1, <1>4, <1>6, Zenon DEF ValueInv, ValueOK, InSwap
  <2>2. swap'[spte'[a].slot] = want'[a]
    BY <1>2, <1>8, <1>9, <2>1, Zenon
  <2>3. State(a)' = "evicted" /\ "evicted" \notin {"none", "load", "mapped"} /\ Loaded(a)' = Loaded(a)
    BY <1>2, <1>6, Zenon DEF State, Loaded
  <2> QED  BY <1>2, <1>6, <1>7, <2>1, <2>2, <2>3, Zenon DEF ValueOK
<1> QED  BY <1>10, <1>11, <1>12, <1>13, <1>15, <1>16, <1>17, Zenon DEF VMInv, ValueInv

(* The frame of page a is free again. *)
Freed(f, a) ==
  /\ used' = used \ {f} /\ a = fte[f].user
  /\ frame_list' \in Seq(Frame) /\ Once(frame_list') /\ Members(frame_list') = used'
  /\ eviction_ptr' \in used' \cup {NULL}
  /\ eviction_ptr # f => eviction_ptr' = eviction_ptr
  /\ fte' \in [used' -> [user : UserPage, swap_prevention : BOOLEAN]]
  /\ mem' \in [used' -> Nat]
  /\ \A g \in used : g # f => fte'[g] = fte[g] /\ mem'[g] = mem[g]
  /\ pte' \in [UserPage -> TableEntry] /\ ~ pte'[a].present
  /\ \A b \in UserPage : b # a => pte'[b] = pte[b]

(* deallocate_fte takes one frame out of the table, the list, the page     *)
(* table and the pool.                                                     *)
LEMMA Deallocated ==
  ASSUME TypeOK, FrameInv, NEW f \in used, deallocate_fte(f)
  PROVE  \E a \in UserPage : Freed(f, a)
<1>1. PICK a \in UserPage : a = fte[f].user
  BY DEF TypeOK
<1>2. /\ eviction_ptr' = eviction_ptr_push(f)
      /\ frame_list' = list_remove(frame_list, PlaceOf(f))
      /\ pte' = [pte EXCEPT ![a] = [NoPte EXCEPT !.dirty = pte[a].dirty]]
      /\ fte' = Less(fte, {f})
      /\ mem' = Less(mem, {f})
      /\ used' = used \ {f}
  BY <1>1, Zenon DEF deallocate_fte, pagedir_clear_page
<1>3. /\ frame_list' \in Seq(Frame) /\ Once(frame_list') /\ Members(frame_list') = used'
      /\ eviction_ptr' \in used' \cup {NULL}
      /\ eviction_ptr # f => eviction_ptr' = eviction_ptr
  BY <1>2, FrameRemoved, Zenon DEF TypeOK, FrameInv
<1>4. /\ fte' \in [used' -> [user : UserPage, swap_prevention : BOOLEAN]]
      /\ \A g \in used : g # f => fte'[g] = fte[g]
  <2>1. fte \in [used -> [user : UserPage, swap_prevention : BOOLEAN]]
    BY Zenon DEF TypeOK
  <2> QED  BY <1>2, <2>1 DEF Less
<1>5. mem' \in [used' -> Nat] /\ \A g \in used : g # f => mem'[g] = mem[g]
  <2>1. mem \in [used -> Nat]
    BY Zenon DEF TypeOK
  <2> QED  BY <1>2, <2>1 DEF Less
<1> DEFINE t == [NoPte EXCEPT !.dirty = pte[a].dirty]
<1>6. t \in TableEntry /\ ~ t.present
  BY Zenon DEF TypeOK, TableEntry, NoPte
<1>7. pte' = [pte EXCEPT ![a] = t]
  BY <1>2, Zenon
<1> HIDE DEF t
<1>8. pte' \in [UserPage -> TableEntry] /\ pte'[a] = t /\ \A b \in UserPage : b # a => pte'[b] = pte[b]
  BY <1>6, <1>7, Zenon DEF TypeOK
<1>9. Freed(f, a)
  BY <1>1, <1>2, <1>3, <1>4, <1>5, <1>6, <1>8, Zenon DEF Freed
<1> QED  BY <1>9, Zenon

(* swap_out frees the frame of the page that is on the disk now. *)
LEMMA EvictDoneStep ==
  ASSUME VMInv, NEW p \in Proc, evict_done(p)
  PROVE  VMInv'
<1>1. /\ TypeOK /\ FrameInv /\ LockInv /\ TaskInv /\ SlotInv /\ ValueInv
      /\ task[p].at = "written" /\ TaskOK(p)
  BY Zenon DEF VMInv, TaskInv, evict_done, At
<1>2. PICK f \in used : f = eviction_ptr
  BY <1>1, Zenon DEF FrameInv, Evicting, At
<1>3. PICK a \in UserPage : Freed(f, a)
  BY <1>1, <1>2, Deallocated, Zenon DEF evict_done
<1>4. /\ swap_table' = swap_table /\ swap' = swap /\ file' = file /\ frame_table_lock' = frame_table_lock
      /\ want' = want /\ GoTo(p, "alloc") /\ spte' = [spte EXCEPT ![a].kpage = NULL]
  BY <1>2, <1>3, Zenon DEF evict_done, disk, locks, Freed
<1>5. /\ task' \in [Proc -> Task] /\ Alone(p) /\ task'[p].at = "alloc"
      /\ task'[p].page = task[p].page /\ task'[p].why = task[p].why
  <2>1. "alloc" \in Place
    BY DEF Place
  <2> QED  BY <1>1, <1>4, <2>1, Gone, Zenon
<1>6. /\ spte' \in [UserPage -> PageEntry]
      /\ \A b \in UserPage : spte'[b].state = spte[b].state /\ spte'[b].slot = spte[b].slot
      /\ \A b \in UserPage : b # a => spte'[b] = spte[b]
      /\ spte'[a].kpage = NULL
  <2>1. spte \in [UserPage -> PageEntry]
    BY <1>1, Zenon DEF TypeOK
  <2> DEFINE e == [spte[a] EXCEPT !.kpage = NULL]
  <2>2. e \in PageEntry /\ e.state = spte[a].state /\ e.slot = spte[a].slot /\ e.kpage = NULL
    BY <2>1 DEF PageEntry
  <2>3. spte' = [spte EXCEPT ![a] = e]
    BY <1>4, Zenon
  <2> HIDE DEF e
  <2> QED  BY <2>1, <2>2, <2>3, Zenon
<1>7. ~ Evicting' /\ \A b \in UserPage : ~ Writing(b) /\ ~ Writing(b)'
  <2>1. NeedsLock(task[p])
    BY <1>1, Zenon DEF NeedsLock
  <2>2. HasFrameLock(p)
    BY <1>1, <2>1, Zenon DEF LockInv, HasFrameLock
  <2>3. \A q \in Proc : q # p => task[q].at \notin {"write", "written"}
    BY <1>1, <2>2, OnlyOne, Zenon DEF NeedsLock
  <2>4. "written" # "write" /\ "alloc" \notin {"write", "written"}
    OBVIOUS
  <2> QED  BY <1>1, <1>5, <2>3, <2>4, Zenon DEF Evicting, Writing, At, Alone
<1>8. State(a) = "evicted"
  BY <1>1, <1>2, <1>3, Zenon DEF FrameInv, Evicting, At, Freed
<1>9. \A b \in UserPage : (Reading(b)' <=> Reading(b)) /\ (Loading(b)' <=> Loading(b)) /\ (InSwap(b)' <=> InSwap(b))
  <2>1. task[p].at \notin {"read", "load"} /\ task'[p].at \notin {"read", "load"}
    BY <1>1, <1>5
  <2> QED  BY <1>5, <1>6, <2>1, TransferKept, Zenon DEF InSwap, State
<1>10. TypeOK'
  <2>1. used' \subseteq Frame /\ eviction_ptr' \in Frame \cup {NULL}
    BY <1>1, <1>3, Zenon DEF TypeOK, Freed
  <2> QED  BY <1>1, <1>3, <1>4, <1>5, <1>6, <2>1, Zenon DEF TypeOK, Freed
<1>11. LockInv'
  <2>1. frame_table_lock = p
    BY <1>1, Zenon DEF LockInv, NeedsLock
  <2> QED  BY <1>1, <1>4, <1>5, <2>1, LockKept, Zenon
<1>12. \A b \in UserPage : State(b) = "mapped" =>
         /\ b # a /\ spte[b].kpage \in used /\ spte[b].kpage # f
         /\ fte[spte[b].kpage].user = b /\ fte'[spte[b].kpage] = fte[spte[b].kpage]
         /\ mem'[spte[b].kpage] = mem[spte[b].kpage]
  <2> SUFFICES ASSUME NEW b \in UserPage, State(b) = "mapped"
               PROVE  /\ b # a /\ spte[b].kpage \in used /\ spte[b].kpage # f
                      /\ fte[spte[b].kpage].user = b /\ fte'[spte[b].kpage] = fte[spte[b].kpage]
                      /\ mem'[spte[b].kpage] = mem[spte[b].kpage]
    BY Zenon
  <2>1. spte[b].kpage \in used /\ fte[spte[b].kpage].user = b
    BY <1>1, Zenon DEF FrameInv, PageOK
  <2>2. b # a
    BY <1>8
  <2>3. spte[b].kpage # f
    BY <1>3, <2>1, <2>2, Zenon DEF Freed
  <2> QED  BY <1>3, <2>1, <2>2, <2>3, Zenon DEF Freed
<1>13. FrameInv'
  <2>1. Once(frame_list') /\ Members(frame_list') = used' /\ eviction_ptr' \in used' \cup {NULL}
    BY <1>3, Zenon DEF Freed
  <2>2. ASSUME NEW g \in used'
        PROVE  FrameOK(g)'
    <3>1. g \in used /\ g # f /\ fte'[g] = fte[g] /\ fte[g].user \in UserPage
      BY <1>1, <1>3 DEF Freed, TypeOK
    <3>2. State(fte[g].user) = "mapped" /\ spte[fte[g].user].kpage = g
      BY <1>1, <1>2, <3>1, Zenon DEF FrameInv, FrameOK
    <3>3. spte'[fte[g].user] = spte[fte[g].user]
      BY <1>6, <1>12, <3>1, <3>2, Zenon
    <3> QED  BY <3>1, <3>2, <3>3, Zenon DEF FrameOK, State
  <2>3. ASSUME NEW b \in UserPage
        PROVE  PageOK(b)'
    <3>1. CASE b = a
      <4>1. ~ pte'[a].present /\ spte'[a].state = "evicted" /\ spte'[a].kpage = NULL
        BY <1>3, <1>6, <1>8, Zenon DEF Freed, State
      <4> QED  BY <3>1, <4>1 DEF PageOK, State
    <3>2. CASE b # a
      <4>1. PageOK(b) /\ spte'[b] = spte[b] /\ pte'[b] = pte[b]
        BY <1>1, <1>3, <1>6, <3>2, Zenon DEF FrameInv, Freed
      <4>2. spte[b].kpage # NULL => spte[b].kpage \in used' /\ fte'[spte[b].kpage] = fte[spte[b].kpage]
        BY <1>3, <3>2, <4>1, Zenon DEF PageOK, Freed
      <4>3. State(b)' = State(b)
        BY <4>1, Zenon DEF State
      <4> QED  BY <4>1, <4>2, <4>3, Zenon DEF PageOK
    <3> QED  BY <3>1, <3>2, Zenon
  <2> QED  BY <1>7, <2>1, <2>2, <2>3, Zenon DEF FrameInv
<1>14. TaskInv'
  <2>1. ASSUME NEW b \in UserPage
        PROVE  State(b)' = State(b) /\ (Pinned(b) => Pinned(b)')
    <3>1. State(b)' = State(b)
      BY <1>6, Zenon DEF State
    <3>2. ASSUME State(b) = "mapped"
          PROVE  fte'[spte'[b].kpage] = fte[spte[b].kpage]
      BY <1>6, <1>12, <3>2, Zenon DEF State
    <3> QED  BY <3>1, <3>2, Zenon DEF Pinned
  <2>2. TaskOK(p)'
    <3>1. "alloc" \notin {"unpin", "load", "read", "io"} /\ "written" \notin {"user", "exit", "dead"}
      OBVIOUS
    <3>2. PICK b \in UserPage : b = task[p].page /\ Owner[b] = p
      BY <1>1, <3>1, Zenon DEF TaskOK
    <3>3. State(b)' = State(b)
      BY <2>1, Zenon
    <3> QED  BY <1>1, <1>5, <3>1, <3>2, <3>3, Zenon DEF TaskOK
  <2> QED  BY <1>1, <1>5, <2>1, <2>2, TasksKept, Zenon
<1>15. SlotInv'
  BY <1>1, <1>4, <1>6, <1>7, <1>9, SlotsKept, Zenon DEF SameSlots
<1>16. ValueInv'
  <2>1. ASSUME NEW b \in UserPage
        PROVE  SamePage(b)
    <3>1. State(b) = "mapped" => spte'[b].kpage = spte[b].kpage /\ mem'[spte[b].kpage] = mem[spte[b].kpage]
      BY <1>6, <1>12, Zenon
    <3> QED  BY <1>4, <1>6, <1>7, <1>9, <3>1, Zenon DEF SamePage, State
  <2> QED  BY <1>1, <2>1, ValueKept, Zenon DEF ValueInv
<1> QED  BY <1>10, <1>11, <1>13, <1>14, <1>15, <1>16, Zenon DEF VMInv

(* A page is in its frame: its process goes on with the buffer it pinned   *)
(* the page for, or where the page fault came from.                        *)
LEMMA Finished ==
  ASSUME TypeOK, NEW p \in Proc, NEW pin, NEW unlocked,
         IF pin THEN GoTo(p, "io") ELSE IF unlocked THEN GoTo(p, "munmap_pin") ELSE Return(p)
  PROVE  /\ task' \in [Proc -> Task] /\ Alone(p)
         /\ task'[p].at \in {"user", "io", "name", "flush", "munmap_pin"}
         /\ task'[p].at # "user" => task'[p].page = task[p].page
         /\ task'[p].at = "io" /\ task'[p].ret # "io" => pin
<1>1. CASE pin
  <2>1. "io" \in Place
    BY DEF Place
  <2>2. GoTo(p, "io")
    BY <1>1, Zenon
  <2> QED  BY <1>1, <2>1, <2>2, Gone, Zenon
<1>2. CASE ~ pin /\ unlocked
  <2>1. "munmap_pin" \in Place /\ "munmap_pin" # "io"
    BY DEF Place
  <2>2. GoTo(p, "munmap_pin")
    BY <1>2, Zenon
  <2> QED  BY <2>1, <2>2, Gone, Zenon
<1>3. CASE ~ pin /\ ~ unlocked
  <2>1. Return(p)
    BY <1>3, Zenon
  <2>2. task[p].ret \in {"user", "io", "name", "flush"}
    BY Zenon DEF TypeOK, Task
  <2>3. /\ task' \in [Proc -> Task] /\ Alone(p)
        /\ task'[p].at = task[p].ret
        /\ task'[p].at # "user" => task'[p].page = task[p].page /\ task'[p].ret = task[p].ret
    BY <2>1, Returned, Zenon
  <2>4. "io" # "user"
    OBVIOUS
  <2> QED  BY <2>2, <2>3, <2>4, Zenon
<1> QED  BY <1>1, <1>2, <1>3, Zenon

(* What pages other than those of A have in swap stays there. *)
OthersInSwap(A) ==
  \A b \in UserPage \ A : InSwap(b) =>
    /\ spte[b].slot \in swap_table'
    /\ ~ Writing(b) => spte[b].slot \in DOMAIN swap' /\ swap'[spte[b].slot] = swap[spte[b].slot]

(* A page that was brought in holds its value. *)
LEMMA Fills ==
  ASSUME VMInv, NEW p \in Proc, task[p].at \in {"read", "load"},
         NEW a \in UserPage, a = task[p].page, NEW pin \in BOOLEAN, NEW unlocked,
         IF pin THEN GoTo(p, "io") ELSE IF unlocked THEN GoTo(p, "munmap_pin") ELSE Return(p),
         mem' = [mem EXCEPT ![spte[a].kpage] = want[a]], fte' = SetPin(a, pin),
         spte' \in [UserPage -> PageEntry],
         \A b \in UserPage : spte'[b].state = spte[b].state /\ spte'[b].kpage = spte[b].kpage,
         \A b \in UserPage : b # a => spte'[b] = spte[b],
         OthersInSwap({a}), swap_table' \subseteq Slot, swap' \in [DOMAIN swap' -> Nat],
         UNCHANGED <<frame_list, eviction_ptr, used, pte, file, want>>,
         frame_table_lock' \in Proc \cup {Nobody},
         \A q \in Proc : q # p /\ frame_table_lock = q => frame_table_lock' = q
  PROVE  VMInv'
<1>1. TypeOK /\ FrameInv /\ LockInv /\ TaskInv /\ SlotInv /\ ValueInv /\ TaskOK(p)
  BY Zenon DEF VMInv, TaskInv
<1>2. Owner[a] = p /\ State(a) = "mapped"
  BY <1>1 DEF TaskOK, Pinned
<1>3. PICK f \in used : f = spte[a].kpage /\ fte[f].user = a
  BY <1>1, <1>2, Zenon DEF FrameInv, PageOK
<1>4. /\ task' \in [Proc -> Task] /\ Alone(p)
      /\ task'[p].at \in {"user", "io", "name", "flush", "munmap_pin"}
      /\ task'[p].at # "user" => task'[p].page = a
      /\ task'[p].at = "io" /\ task'[p].ret # "io" => pin
  BY <1>1, Finished, Zenon
<1>5. /\ task[p].at \notin {"write", "written"} /\ task'[p].at \notin {"write", "written"}
      /\ task'[p].at \notin {"read", "load"} /\ ~ NeedsLock(task'[p])
  BY <1>4 DEF NeedsLock
<1>6. /\ fte' \in [used -> [user : UserPage, swap_prevention : BOOLEAN]]
      /\ \A g \in used : fte'[g].user = fte[g].user
      /\ fte'[spte[a].kpage].swap_prevention = pin
      /\ \A b \in UserPage : b # a /\ State(b) = "mapped" => fte'[spte[b].kpage] = fte[spte[b].kpage]
  BY <1>1, <1>2, HasFrame, PinSet, Zenon
<1>7. mem' \in [used -> Nat] /\ mem'[f] = want[a] /\ \A g \in used : g # f => mem'[g] = mem[g]
  <2>1. mem \in [used -> Nat] /\ want[a] \in Nat
    BY <1>1, Zenon DEF TypeOK
  <2> QED  BY <1>3, <2>1, Zenon
<1>8. TypeOK'
  BY <1>1, <1>4, <1>6, <1>7, Zenon DEF TypeOK
<1>9. LockInv'
  BY <1>1, <1>4, <1>5, LockKept, Zenon
<1>10. SameFrames /\ SamePages
  BY <1>6, Zenon DEF SameFrames, SamePages
<1>11. FrameInv'
  BY <1>1, <1>4, <1>5, <1>10, EvictingKept, FramesKept, Zenon
<1>12. TaskInv'
  <2>1. ASSUME NEW b \in UserPage, Owner[b] # p
        PROVE  State(b)' = State(b) /\ (Pinned(b) => Pinned(b)')
    <3>1. State(b)' = State(b) /\ spte'[b].kpage = spte[b].kpage
      BY Zenon DEF State
    <3>2. State(b) = "mapped" => fte'[spte[b].kpage] = fte[spte[b].kpage]
      BY <1>2, <1>6, <2>1, Zenon
    <3> QED  BY <3>1, <3>2, Zenon DEF Pinned
  <2>2. pin => Pinned(a)'
    BY <1>2, <1>6, Zenon DEF Pinned, State
  <2>3. TaskOK(p)'
    <3>1. task'[p].at \notin {"fslock", "alloc", "write", "written", "unpin", "load", "read"}
      BY <1>4
    <3> QED  BY <1>2, <1>4, <2>2, <3>1, Zenon DEF TaskOK
  <2> QED  BY <1>1, <1>4, <2>1, <2>3, TasksKept, Zenon
<1>13. \A b \in UserPage : Writing(b)' <=> Writing(b)
  BY <1>1, <1>4, <1>5, <1>10, WritingKept, Zenon
<1>14. ASSUME NEW b \in UserPage, b # a
       PROVE  (Reading(b)' <=> Reading(b)) /\ (Loading(b)' <=> Loading(b)) /\ (InSwap(b)' <=> InSwap(b))
  <2>1. (Reading(b)' <=> Reading(b)) /\ (Loading(b)' <=> Loading(b))
    <3>1. CASE Owner[b] # p
      BY <1>4, <3>1, TransferKept, Zenon
    <3>2. CASE Owner[b] = p
      BY <1>5, <1>14, <3>2, Zenon DEF Reading, Loading, At, Page
    <3> QED  BY <3>1, <3>2, Zenon
  <2> QED  BY <2>1, Zenon DEF InSwap, State
<1>15. ~ Reading(a)' /\ ~ Loading(a)' /\ ~ InSwap(a)' /\ State(a)' = "mapped"
  <2>1. ~ Reading(a)' /\ ~ Loading(a)'
    BY <1>2, <1>5, Zenon DEF Reading, Loading, At
  <2>2. State(a)' = "mapped"
    BY <1>2, Zenon DEF State
  <2>3. State(a)' # "evicted"
    BY <2>2
  <2> QED  BY <2>1, <2>2, <2>3, Zenon DEF InSwap
<1>16. SlotInv'
  <2>1. ASSUME NEW b \in UserPage, InSwap(b)'
        PROVE  /\ b # a /\ InSwap(b) /\ spte'[b].slot = spte[b].slot /\ spte'[b].slot \in swap_table'
               /\ ~ Writing(b)' => spte'[b].slot \in DOMAIN swap'
    <3>1. b # a
      BY <1>15, <2>1, Zenon
    <3> QED  BY <1>13, <1>14, <2>1, <3>1, Zenon DEF OthersInSwap
  <2>2. \A b, c \in UserPage : InSwap(b)' /\ InSwap(c)' /\ spte'[b].slot = spte'[c].slot => b = c
    BY <1>1, <2>1, Zenon DEF SlotInv
  <2> QED  BY <2>1, <2>2, Zenon DEF SlotInv
<1>17. ASSUME NEW b \in UserPage, b # a
       PROVE  ValueOK(b)'
  <2>1. State(b) = "mapped" => mem'[spte[b].kpage] = mem[spte[b].kpage]
    <3>1. State(b) = "mapped" => spte[b].kpage \in used /\ fte[spte[b].kpage].user = b
      BY <1>1, Zenon DEF FrameInv, PageOK
    <3>2. State(b) = "mapped" => spte[b].kpage # f
      BY <1>3, <1>17, <3>1, Zenon
    <3> QED  BY <1>7, <3>1, <3>2, Zenon
  <2>2. Writing(b) => mem'[eviction_ptr'] = mem[eviction_ptr]
    <3>1. Writing(b) => eviction_ptr \in used /\ eviction_ptr # f
      BY <1>1, <1>3, <1>17, Zenon DEF FrameInv, Evicting, Writing
    <3> QED  BY <1>7, <3>1, Zenon
  <2>3. SamePage(b)
    BY <1>13, <1>14, <1>17, <2>1, <2>2, Zenon DEF SamePage, OthersInSwap, State
  <2> QED  BY <1>1, <2>3, ValueKept, Zenon DEF ValueInv
<1>18. ValueOK(a)'
  <2>1. mem'[spte'[a].kpage] = want'[a]
    <3>1. spte'[a].kpage = f
      BY <1>3, Zenon
    <3> QED  BY <1>7, <3>1, Zenon
  <2>2. "mapped" \notin {"none", "load", "evicted"}
    OBVIOUS
  <2> QED  BY <1>15, <2>1, <2>2, Zenon DEF ValueOK
<1> QED  BY <1>8, <1>9, <1>11, <1>12, <1>16, <1>17, <1>18, Zenon DEF VMInv, ValueInv

(* swap_in brings the page back and frees its slot. *)
LEMMA SwapInStep ==
  ASSUME VMInv, NEW p \in Proc, swap_in_done(p)
  PROVE  VMInv'
<1>1. TypeOK /\ FrameInv /\ LockInv /\ SlotInv /\ ValueInv /\ TaskOK(p) /\ task[p].at = "read"
  BY Zenon DEF VMInv, TaskInv, swap_in_done, At
<1>2. PICK a \in UserPage : a = task[p].page /\ Owner[a] = p
  BY <1>1 DEF TaskOK
<1> DEFINE pin == task[p].why = "pin_in"
           unlocked == task[p].why = "munmap_in"
           s == spte[a].slot
<1>3. /\ IF pin THEN GoTo(p, "io") ELSE IF unlocked THEN GoTo(p, "munmap_pin") ELSE Return(p)
      /\ mem' = [mem EXCEPT ![spte[a].kpage] = swap[s]]
      /\ swap_table' = swap_table \ {s} /\ swap' = Less(swap, {s})
      /\ spte' = [spte EXCEPT ![a].slot = 0] /\ fte' = SetPin(a, pin)
      /\ UNCHANGED <<frame_list, eviction_ptr, used, pte, file, want>>
      /\ frame_table_lock' = IF unlocked THEN frame_table_lock ELSE Nobody
  BY <1>2, Zenon DEF swap_in_done, swap_in, read_from_disk, SwapFree, find_fte, Page
<1>4. /\ ~ Writing(a)
      /\ \A q \in Proc : q # p /\ frame_table_lock = q => frame_table_lock' = q
  <2>1. State(a) = "mapped"
    BY <1>1, <1>2 DEF TaskOK, Pinned
  <2>2. ~ Writing(a)
    BY <1>1, <2>1 DEF FrameInv, Evicting, Writing
  <2>3. ~ unlocked => frame_table_lock = p
    BY <1>1, Zenon DEF LockInv, NeedsLock
  <2> QED  BY <1>3, <2>2, <2>3, Zenon
<1>5. InSwap(a)
  BY <1>1, <1>2, Zenon DEF InSwap, Reading, At, Page
<1>6. mem' = [mem EXCEPT ![spte[a].kpage] = want[a]]
  <2>1. swap[s] = want[a]
    BY <1>1, <1>4, <1>5, Zenon DEF ValueInv, ValueOK
  <2> QED  BY <1>3, <2>1, Zenon
<1>7. /\ spte' \in [UserPage -> PageEntry]
      /\ \A b \in UserPage : spte'[b].state = spte[b].state /\ spte'[b].kpage = spte[b].kpage
      /\ \A b \in UserPage : b # a => spte'[b] = spte[b]
  <2>1. spte \in [UserPage -> PageEntry]
    BY <1>1, Zenon DEF TypeOK
  <2> DEFINE e == [spte[a] EXCEPT !.slot = 0]
  <2>2. e \in PageEntry /\ e.state = spte[a].state /\ e.kpage = spte[a].kpage
    BY <2>1 DEF PageEntry
  <2>3. spte' = [spte EXCEPT ![a] = e]
    BY <1>3, Zenon
  <2> HIDE DEF e
  <2> QED  BY <2>1, <2>2, <2>3, Zenon
<1>8. pin \in BOOLEAN
  BY Zenon
<1>9. /\ swap_table' \subseteq Slot /\ swap' \in [DOMAIN swap' -> Nat] /\ DOMAIN swap' = DOMAIN swap \ {s}
      /\ \A t \in DOMAIN swap : t # s => swap'[t] = swap[t]
  <2>1. swap \in [DOMAIN swap -> Nat] /\ swap_table \subseteq Slot
    BY <1>1, Zenon DEF TypeOK
  <2> HIDE DEF s
  <2> QED  BY <1>3, <2>1 DEF Less
<1>10. OthersInSwap({a})
  <2>1. ASSUME NEW b \in UserPage, b # a, InSwap(b)
        PROVE  /\ spte[b].slot # s /\ spte[b].slot \in swap_table
               /\ ~ Writing(b) => spte[b].slot \in DOMAIN swap
    BY <1>1, <1>5, <2>1, Zenon DEF SlotInv
  <2> QED  BY <1>3, <1>9, <2>1, Zenon DEF OthersInSwap
<1>11. frame_table_lock' \in Proc \cup {Nobody} /\ task[p].at \in {"read", "load"}
  BY <1>1, <1>3, Zenon DEF TypeOK
<1> HIDE DEF pin, unlocked
<1>12. PICK on \in BOOLEAN : on = pin
  BY <1>8, Zenon
<1> QED  BY <1>2, <1>3, <1>4, <1>6, <1>7, <1>9, <1>10, <1>11, <1>12, Fills, Zenon

(* lazy_load_page reads the page from its file. *)
LEMMA LoadStep ==
  ASSUME VMInv, NEW p \in Proc, load_done(p)
  PROVE  VMInv'
<1>1. TypeOK /\ LockInv /\ SlotInv /\ ValueInv /\ TaskOK(p) /\ task[p].at = "load"
  BY Zenon DEF VMInv, TaskInv, load_done, At
<1>2. PICK a \in UserPage : a = task[p].page /\ Owner[a] = p
  BY <1>1 DEF TaskOK
<1> DEFINE pin == task[p].why = "pin_load"
<1>3. /\ IF pin THEN GoTo(p, "io") ELSE IF FALSE THEN GoTo(p, "munmap_pin") ELSE Return(p)
      /\ mem' = [mem EXCEPT ![spte[a].kpage] = Loaded(a)]
      /\ spte' = spte /\ swap_table' = swap_table /\ swap' = swap /\ fte' = SetPin(a, pin)
      /\ UNCHANGED <<frame_list, eviction_ptr, used, pte, file, want>>
      /\ frame_table_lock' = IF pin THEN Nobody ELSE frame_table_lock
  BY <1>2, Zenon DEF load_done, lazy_load_page, pages, disk, Page
<1>4. mem' = [mem EXCEPT ![spte[a].kpage] = want[a]]
  <2>1. Loading(a)
    BY <1>1, <1>2, Zenon DEF Loading, At, Page
  <2>2. Loaded(a) = want[a]
    BY <1>1, <2>1, Zenon DEF ValueInv, ValueOK
  <2> QED  BY <1>3, <2>2, Zenon
<1>5. OthersInSwap({a})
  BY <1>1, <1>3, Zenon DEF OthersInSwap, SlotInv
<1>6. spte' \in [UserPage -> PageEntry] /\ swap_table' \subseteq Slot /\ swap' \in [DOMAIN swap' -> Nat]
  BY <1>1, <1>3, Zenon DEF TypeOK
<1>7. /\ frame_table_lock' \in Proc \cup {Nobody} /\ task[p].at \in {"read", "load"}
      /\ \A q \in Proc : q # p /\ frame_table_lock = q => frame_table_lock' = q
  <2>1. pin => NeedsLock(task[p])
    BY <1>1, Zenon DEF NeedsLock
  <2> QED  BY <1>1, <1>3, <2>1, Zenon DEF LockInv, TypeOK
<1>8. PICK on \in BOOLEAN : on = pin
  BY Zenon
<1> HIDE DEF pin
<1> QED  BY <1>2, <1>3, <1>4, <1>5, <1>6, <1>7, <1>8, Fills, Zenon

(* mmap: a page of a file that will be read when it is touched. *)
LEMMA MmapStep ==
  ASSUME VMInv, NEW p \in Proc, NEW a \in Pages(p), mmap(a)
  PROVE  VMInv'
<1>1. /\ TypeOK /\ FrameInv /\ LockInv /\ TaskInv /\ SlotInv /\ ValueInv
      /\ a \in UserPage /\ Owner[a] = p /\ task[p].at = "user" /\ Kind[a] = "mmap" /\ State(a) = "none"
  BY Zenon DEF VMInv, mmap, At, Pages
<1>2. /\ UNCHANGED <<frame_list, eviction_ptr, fte, used, mem, pte, swap_table, swap, file, frame_table_lock, task>>
      /\ spte' = [spte EXCEPT ![a] = lazy_load(allocate_page)]
      /\ want' = [want EXCEPT ![a] = file[a]]
  BY Zenon DEF mmap, frames, disk, locks
<1>3. /\ spte' \in [UserPage -> PageEntry] /\ spte'[a].state = "load" /\ spte'[a].kpage = NULL
      /\ \A b \in UserPage : b # a => spte'[b] = spte[b]
  <2> DEFINE e == lazy_load(allocate_page)
  <2>1. e \in PageEntry /\ e.state = "load" /\ e.kpage = NULL
    BY Zenon DEF PageEntry, lazy_load, allocate_page, NoPage
  <2> HIDE DEF e
  <2> QED  BY <1>1, <1>2, <2>1, Zenon DEF TypeOK, e
<1>4. /\ want' \in [UserPage -> Nat] /\ want'[a] = file[a]
      /\ \A b \in UserPage : b # a => want'[b] = want[b]
  <2>1. want \in [UserPage -> Nat] /\ file[a] \in Nat
    BY <1>1, Zenon DEF TypeOK
  <2> QED  BY <1>1, <1>2, <2>1, Zenon
<1>5. Alone(p) /\ task'[p] = task[p]
  BY <1>2, Zenon DEF Alone
<1>6. /\ Evicting' <=> Evicting
      /\ \A b \in UserPage : (Writing(b)' <=> Writing(b)) /\ (Reading(b)' <=> Reading(b)) /\ (Loading(b)' <=> Loading(b))
  BY <1>2, Zenon DEF Evicting, Writing, Reading, Loading, At, Page
<1>7. \A g \in used : fte[g].user # a
  BY <1>1 DEF FrameInv, FrameOK
<1>8. TypeOK'
  BY <1>1, <1>2, <1>3, <1>4, Zenon DEF TypeOK
<1>9. LockInv'
  BY <1>1, <1>2, Zenon DEF LockInv
<1>10. FrameInv'
  <2>1. ASSUME NEW g \in used
        PROVE  FrameOK(g)'
    <3>1. FrameOK(g) /\ fte[g].user \in UserPage /\ fte[g].user # a
      BY <1>1, <1>7 DEF FrameInv, TypeOK
    <3>2. spte'[fte[g].user] = spte[fte[g].user]
      BY <1>3, <3>1, Zenon
    <3> QED  BY <1>2, <1>6, <3>1, <3>2, Zenon DEF FrameOK, State
  <2>2. ASSUME NEW b \in UserPage
        PROVE  PageOK(b)'
    <3>1. CASE b = a
      <4>1. ~ pte[a].present
        BY <1>1 DEF FrameInv, PageOK
      <4> QED  BY <1>2, <1>3, <3>1, <4>1, SMTT(30) DEF PageOK, State
    <3>2. CASE b # a
      BY <1>1, <1>2, <1>3, <3>2, Zenon DEF FrameInv, PageOK, State
    <3> QED  BY <3>1, <3>2, Zenon
  <2>3. Evicting' => eviction_ptr \in used /\ spte'[fte[eviction_ptr].user].state = "evicted"
    <3>1. Evicting => eviction_ptr \in used /\ spte[fte[eviction_ptr].user].state = "evicted"
      BY <1>1, Zenon DEF FrameInv, State
    <3>2. eviction_ptr \in used => fte[eviction_ptr].user \in UserPage /\ fte[eviction_ptr].user # a
      BY <1>1, <1>7 DEF TypeOK
    <3> QED  BY <1>3, <1>6, <3>1, <3>2, Zenon
  <2> QED  BY <1>1, <1>2, <2>1, <2>2, <2>3, Zenon DEF FrameInv, State
<1>11. TaskInv'
  <2>1. TaskOK(p)'
    BY <1>1, <1>5 DEF TaskOK
  <2>2. \A b \in UserPage : b # a => State(b)' = State(b) /\ (Pinned(b) => Pinned(b)')
    BY <1>2, <1>3, Zenon DEF Pinned, State
  <2> QED  BY <1>1, <1>5, <2>1, <2>2, TasksKept, Zenon
<1>12. ~ InSwap(a)' /\ ~ Reading(a) /\ ~ Loading(a) /\ \A b \in UserPage : b # a => (InSwap(b)' <=> InSwap(b))
  <2>1. ~ Reading(a) /\ ~ Loading(a)
    BY <1>1 DEF Reading, Loading, At
  <2>2. spte'[a].state # "evicted"
    BY <1>3
  <2>3. ~ InSwap(a)'
    BY <1>1, <1>6, <2>1, <2>2, Zenon DEF InSwap, State
  <2>4. \A b \in UserPage : b # a => (InSwap(b)' <=> InSwap(b))
    BY <1>3, <1>6, Zenon DEF InSwap, State
  <2> QED  BY <2>1, <2>3, <2>4, Zenon
<1>13. SlotInv'
  <2>1. \A b \in UserPage : InSwap(b)' => InSwap(b) /\ spte'[b].slot = spte[b].slot
    BY <1>3, <1>12, Zenon
  <2>2. \A b, c \in UserPage : InSwap(b)' /\ InSwap(c)' /\ spte'[b].slot = spte'[c].slot => b = c
    BY <1>1, <2>1, Zenon DEF SlotInv
  <2>3. swap_table' = swap_table /\ swap' = swap
    BY <1>2, Zenon
  <2>4. \A b \in UserPage : InSwap(b)' => spte'[b].slot \in swap_table'
    BY <1>1, <2>1, <2>3, Zenon DEF SlotInv
  <2>5. \A b \in UserPage : InSwap(b)' /\ ~ Writing(b)' => spte'[b].slot \in DOMAIN swap'
    BY <1>1, <1>6, <2>1, <2>3, Zenon DEF SlotInv
  <2> QED  BY <2>2, <2>4, <2>5, Zenon DEF SlotInv
<1>14. ASSUME NEW b \in UserPage, b # a
       PROVE  ValueOK(b)'
  <2>1. SamePage(b)
    BY <1>2, <1>3, <1>4, <1>6, <1>14, Zenon DEF SamePage
  <2> QED  BY <1>1, <2>1, ValueKept, Zenon DEF ValueInv
<1>15. ValueOK(a)'
  <2>1. Loaded(a)' = file[a] /\ State(a)' = "load"
    BY <1>1, <1>2, <1>3 DEF Loaded, State
  <2>2. "load" \notin {"none", "mapped"}
    OBVIOUS
  <2> QED  BY <1>4, <1>12, <2>1, <2>2, Zenon DEF ValueOK
<1> QED  BY <1>8, <1>9, <1>10, <1>11, <1>13, <1>14, <1>15, Zenon DEF VMInv, ValueInv

(* The pages of A are gone, with their frames and their entries. *)
Dropped(A) ==
  /\ used' = {g \in used : fte[g].user \notin A}
  /\ frame_list' \in Seq(Frame) /\ Once(frame_list') /\ Members(frame_list') = used'
  /\ eviction_ptr' \in used' \cup {NULL}
  /\ Evicting => eviction_ptr' = eviction_ptr /\ fte[eviction_ptr].user \notin A
  /\ fte' \in [used' -> [user : UserPage, swap_prevention : BOOLEAN]]
  /\ mem' \in [used' -> Nat]
  /\ \A g \in used' : fte'[g] = fte[g] /\ mem'[g] = mem[g]
  /\ pte' \in [UserPage -> TableEntry]
  /\ spte' \in [UserPage -> PageEntry]
  /\ \A a \in A : ~ pte'[a].present /\ spte'[a].state = "none" /\ spte'[a].kpage = NULL /\ want'[a] = 0
  /\ \A b \in UserPage \ A : pte'[b] = pte[b] /\ spte'[b] = spte[b] /\ file'[b] = file[b] /\ want'[b] = want[b]
  /\ swap_table' \subseteq Slot /\ swap' \in [DOMAIN swap' -> Nat]
  /\ file' \in [UserPage -> Nat] /\ want' \in [UserPage -> Nat]
  /\ OthersInSwap(A)
  /\ frame_table_lock' = frame_table_lock

(* A process gives up some of its pages, with their frames: nobody else's  *)
(* pages are affected.                                                     *)
LEMMA Drops ==
  ASSUME VMInv, NEW p \in Proc, Alone(p), task' \in [Proc -> Task],
         task[p].at \in {"munmap", "free", "exit"}, task'[p].at \in {"user", "exit", "dead"},
         NEW A \in SUBSET UserPage, \A a \in A : Owner[a] = p, Dropped(A)
  PROVE  VMInv'
<1>1. TypeOK /\ FrameInv /\ LockInv /\ TaskInv /\ SlotInv /\ ValueInv
  BY Zenon DEF VMInv
<1>2. /\ task[p].at \notin {"write", "written"} /\ task'[p].at \notin {"write", "written"}
      /\ task[p].at \notin {"read", "load"} /\ task'[p].at \notin {"read", "load"}
      /\ ~ NeedsLock(task'[p])
  BY DEF NeedsLock
<1>3. TypeOK'
  <2>1. used' \subseteq Frame /\ eviction_ptr' \in Frame \cup {NULL}
    BY <1>1, Zenon DEF TypeOK, Dropped
  <2> QED  BY <1>1, <2>1, Zenon DEF TypeOK, Dropped
<1>4. LockInv'
  BY <1>1, <1>2, LockKept, Zenon DEF Dropped
<1>5. /\ Evicting' <=> Evicting
      /\ (\E q \in Proc : At(q, "write"))' <=> (\E q \in Proc : At(q, "write"))
  BY <1>2, EvictingKept, Zenon
<1>6. /\ \A b \in UserPage \ A : spte'[b] = spte[b] /\ pte'[b] = pte[b]
      /\ \A g \in used' : g \in used /\ fte'[g] = fte[g] /\ mem'[g] = mem[g] /\ fte[g].user \in UserPage \ A
  <2>1. \A g \in used : fte[g].user \in UserPage
    BY <1>1 DEF TypeOK
  <2> QED  BY <2>1, Zenon DEF Dropped
<1>7. /\ \A b \in UserPage \ A : spte[b].kpage # NULL => spte[b].kpage \in used'
      /\ \A b \in UserPage : State(b) = "mapped" => spte[b].kpage # NULL
  <2>1. \A b \in UserPage : spte[b].kpage # NULL => spte[b].kpage \in used /\ fte[spte[b].kpage].user = b
    BY <1>1, Zenon DEF FrameInv, PageOK
  <2>2. \A b \in UserPage : State(b) = "mapped" => spte[b].kpage # NULL
    BY <1>1, Zenon DEF FrameInv, PageOK
  <2> QED  BY <2>1, <2>2, Zenon DEF Dropped
<1>8. FrameInv'
  <2>1. Once(frame_list') /\ Members(frame_list') = used' /\ eviction_ptr' \in used' \cup {NULL}
    BY Zenon DEF Dropped
  <2>2. Evicting' => eviction_ptr' \in used' /\ spte'[fte'[eviction_ptr'].user].state = "evicted"
    <3>1. Evicting => eviction_ptr \in used /\ spte[fte[eviction_ptr].user].state = "evicted"
      BY <1>1, Zenon DEF FrameInv, State
    <3>2. Evicting => eviction_ptr' = eviction_ptr /\ eviction_ptr \in used'
      BY <3>1, Zenon DEF Dropped
    <3>3. eviction_ptr \in used' =>
            fte'[eviction_ptr] = fte[eviction_ptr] /\ spte'[fte[eviction_ptr].user] = spte[fte[eviction_ptr].user]
      BY <1>6, Zenon
    <3>4. ASSUME Evicting
          PROVE  eviction_ptr' \in used' /\ spte'[fte'[eviction_ptr'].user].state = "evicted"
      BY <3>1, <3>2, <3>3, <3>4, Zenon
    <3> QED  BY <1>5, <3>4, Zenon
  <2>3. ASSUME NEW g \in used'
        PROVE  FrameOK(g)'
    <3>1. FrameOK(g) /\ fte'[g] = fte[g] /\ spte'[fte[g].user] = spte[fte[g].user]
      BY <1>1, <1>6, Zenon DEF FrameInv
    <3>2. Evicting => eviction_ptr' = eviction_ptr
      BY Zenon DEF Dropped
    <3> QED  BY <1>5, <3>1, <3>2, Zenon DEF FrameOK, State
  <2>4. ASSUME NEW b \in UserPage
        PROVE  PageOK(b)'
    <3>1. CASE b \in A
      <4>1. ~ pte'[b].present /\ spte'[b].state = "none" /\ spte'[b].kpage = NULL
        BY <3>1, Zenon DEF Dropped
      <4> QED  BY <4>1 DEF PageOK, State
    <3>2. CASE b \notin A
      <4>1. spte'[b] = spte[b] /\ pte'[b] = pte[b] /\ PageOK(b)
        BY <1>1, <1>6, <3>2, Zenon DEF FrameInv
      <4>2. spte[b].kpage # NULL => spte[b].kpage \in used' /\ fte'[spte[b].kpage] = fte[spte[b].kpage]
        BY <1>6, <1>7, <3>2, Zenon
      <4> QED  BY <4>1, <4>2, Zenon DEF PageOK, State
    <3> QED  BY <3>1, <3>2, Zenon
  <2> QED  BY <2>1, <2>2, <2>3, <2>4, Zenon DEF FrameInv, State
<1>9. TaskInv'
  <2>1. TaskOK(p)'
    <3>1. task'[p].at \notin {"fslock", "alloc", "write", "written", "unpin", "load", "read", "io"}
      OBVIOUS
    <3> QED  BY <3>1, Zenon DEF TaskOK
  <2>2. ASSUME NEW b \in UserPage, Owner[b] # p
        PROVE  State(b)' = State(b) /\ (Pinned(b) => Pinned(b)')
    <3>1. b \in UserPage \ A
      BY <2>2, Zenon
    <3>2. State(b) = "mapped" => fte'[spte[b].kpage] = fte[spte[b].kpage]
      BY <1>6, <1>7, <3>1, Zenon
    <3> QED  BY <1>6, <3>1, <3>2, Zenon DEF Pinned, State
  <2> QED  BY <1>1, <2>1, <2>2, TasksKept, Zenon
<1>10. \A b \in UserPage : (Reading(b)' <=> Reading(b)) /\ (Loading(b)' <=> Loading(b))
  BY <1>2, TransferKept, Zenon
<1>11. \A b \in UserPage \ A : /\ Writing(b)' <=> Writing(b)
                               /\ Writing(b) => mem'[eviction_ptr'] = mem[eviction_ptr]
  <2>1. Evicting => eviction_ptr' = eviction_ptr /\ eviction_ptr \in used'
    BY <1>1, Zenon DEF Dropped, FrameInv
  <2>2. (\E q \in Proc : At(q, "write")) => Evicting
    BY Zenon DEF Evicting
  <2>3. (\E q \in Proc : At(q, "write")) => fte'[eviction_ptr'] = fte[eviction_ptr] /\ mem'[eviction_ptr'] = mem[eviction_ptr]
    BY <1>6, <2>1, <2>2, Zenon
  <2> QED  BY <1>5, <2>3, Zenon DEF Writing
<1>12. ASSUME NEW a \in A
       PROVE  a \in UserPage /\ State(a)' = "none" /\ ~ Reading(a)' /\ ~ Loading(a)' /\ ~ InSwap(a)' /\ want'[a] = 0
  <2>1. a \in UserPage /\ spte'[a].state = "none" /\ want'[a] = 0
    BY Zenon DEF Dropped
  <2>2. ~ Reading(a)' /\ ~ Loading(a)'
    BY <1>2, Zenon DEF Reading, Loading, At
  <2>3. "none" # "evicted"
    OBVIOUS
  <2> QED  BY <2>1, <2>2, <2>3, Zenon DEF InSwap, State
<1>13. \A b \in UserPage \ A : InSwap(b)' <=> InSwap(b)
  BY <1>6, <1>10, Zenon DEF InSwap, State
<1>14. SlotInv'
  <2>1. \A b \in UserPage : InSwap(b)' => b \in UserPage \ A /\ InSwap(b) /\ spte'[b].slot = spte[b].slot
    BY <1>6, <1>12, <1>13, Zenon
  <2>2. \A b, c \in UserPage : InSwap(b)' /\ InSwap(c)' /\ spte'[b].slot = spte'[c].slot => b = c
    BY <1>1, <2>1, Zenon DEF SlotInv
  <2>3. OthersInSwap(A)
    BY Zenon DEF Dropped
  <2>4. \A b \in UserPage : InSwap(b)' => spte'[b].slot \in swap_table'
    BY <2>1, <2>3, Zenon DEF OthersInSwap
  <2>5. \A b \in UserPage : InSwap(b)' /\ ~ Writing(b)' => spte'[b].slot \in DOMAIN swap'
    BY <1>11, <2>1, <2>3, Zenon DEF OthersInSwap
  <2> QED  BY <2>2, <2>4, <2>5, Zenon DEF SlotInv
<1>15. ASSUME NEW b \in UserPage \ A
       PROVE  ValueOK(b)'
  <2>1. State(b) = "mapped" => mem'[spte[b].kpage] = mem[spte[b].kpage]
    BY <1>6, <1>7, Zenon
  <2>2. InSwap(b) /\ ~ Writing(b) => swap'[spte[b].slot] = swap[spte[b].slot]
    BY Zenon DEF Dropped, OthersInSwap
  <2>3. spte'[b] = spte[b] /\ file'[b] = file[b] /\ want'[b] = want[b]
    BY Zenon DEF Dropped
  <2>4. SamePage(b)
    BY <1>10, <1>11, <2>1, <2>2, <2>3, Zenon DEF SamePage, State
  <2> QED  BY <1>1, <2>4, ValueKept, Zenon DEF ValueInv
<1>16. ASSUME NEW a \in A
       PROVE  ValueOK(a)'
  <2>1. "none" \notin {"load", "mapped"}
    OBVIOUS
  <2> QED  BY <1>12, <2>1, Zenon DEF ValueOK
<1> QED  BY <1>3, <1>4, <1>8, <1>9, <1>14, <1>15, <1>16, Zenon DEF VMInv, ValueInv

(* The end of munmap, when the page has no frame or gives it back: nobody  *)
(* is evicting it.                                                         *)
LEMMA Unmaps ==
  ASSUME VMInv, NEW p \in Proc, task[p].at \in {"munmap", "free", "exit"},
         NEW a \in UserPage, a = Page(p), Owner[a] = p, Unmapped(p),
         UNCHANGED <<disk, frame_table_lock>>,
         \/ /\ UNCHANGED <<frames, pte>>
            /\ State(a) = "load" \/ (State(a) = "evicted" /\ spte[a].kpage = NULL)
         \/ deallocate_fte(find_fte(a)) /\ State(a) = "mapped"
  PROVE  VMInv'
<1>1. TypeOK /\ FrameInv /\ LockInv /\ SlotInv /\ ValueInv
  BY Zenon DEF VMInv
<1>2. /\ spte' = [spte EXCEPT ![a] = NoPage] /\ want' = [want EXCEPT ![a] = 0]
      /\ task' = [task EXCEPT ![p] = IF @.end THEN Ending ELSE User]
      /\ swap_table' = swap_table /\ swap' = swap /\ file' = file /\ frame_table_lock' = frame_table_lock
  BY Zenon DEF Unmapped, deallocate_page, disk
<1>3. task' \in [Proc -> Task] /\ Alone(p) /\ task'[p].at \in {"user", "exit", "dead"}
  <2> DEFINE t == IF task[p].end THEN Ending ELSE User
  <2>1. t \in Task /\ t.at \in {"user", "exit", "dead"}
    BY UserTask, Zenon
  <2>2. task' = [task EXCEPT ![p] = t]
    BY <1>2, Zenon
  <2> HIDE DEF t
  <2> QED  BY <1>1, <2>1, <2>2, Moved, Zenon
<1>4. /\ spte' \in [UserPage -> PageEntry] /\ spte'[a].state = "none" /\ spte'[a].kpage = NULL
      /\ \A b \in UserPage : b # a => spte'[b] = spte[b]
  <2>1. NoPage \in PageEntry /\ NoPage.state = "none" /\ NoPage.kpage = NULL
    BY DEF NoPage, PageEntry
  <2> QED  BY <1>1, <1>2, <2>1, Zenon DEF TypeOK
<1>5. want' \in [UserPage -> Nat] /\ want'[a] = 0 /\ \A b \in UserPage : b # a => want'[b] = want[b]
  <2>1. want \in [UserPage -> Nat] /\ 0 \in Nat
    BY <1>1 DEF TypeOK
  <2> QED  BY <1>2, <2>1, Zenon
<1>6. /\ OthersInSwap({a}) /\ swap_table' \subseteq Slot /\ swap' \in [DOMAIN swap' -> Nat]
      /\ file' \in [UserPage -> Nat]
  <2>1. swap_table \subseteq Slot /\ swap \in [DOMAIN swap -> Nat] /\ file \in [UserPage -> Nat]
    BY <1>1, Zenon DEF TypeOK
  <2> QED  BY <1>1, <1>2, <2>1, Zenon DEF OthersInSwap, SlotInv
<1>7. ASSUME NEW f \in used, fte[f].user = a
      PROVE  State(a) = "mapped" /\ f = spte[a].kpage
  <2>1. f = spte[a].kpage /\ (State(a) = "mapped" \/ State(a) = "evicted")
    BY <1>1, <1>7, Zenon DEF FrameInv, FrameOK
  <2>2. f # NULL
    BY <1>1, VMAssumption, Zenon DEF TypeOK, VMAssumption
  <2>3. "load" # "mapped" /\ "load" # "evicted"
    OBVIOUS
  <2> QED  BY <2>1, <2>2, <2>3, Zenon
<1>8. Evicting => fte[eviction_ptr].user # a
  <2>1. Evicting => eviction_ptr \in used /\ State(fte[eviction_ptr].user) = "evicted"
    BY <1>1, Zenon DEF FrameInv
  <2>2. "evicted" # "mapped"
    OBVIOUS
  <2> QED  BY <1>7, <2>1, <2>2, Zenon
<1>9. CASE State(a) = "mapped"
  <2>0. deallocate_fte(find_fte(a))
    BY <1>9
  <2>1. PICK f \in used : f = spte[a].kpage /\ fte[f].user = a
    BY <1>1, <1>9, Zenon DEF FrameInv, PageOK
  <2>2. Freed(f, a)
    BY <1>1, <2>0, <2>1, Deallocated, Zenon DEF Freed, find_fte
  <2>3. used' = {g \in used : fte[g].user \notin {a}}
    BY <1>7, <2>1, <2>2, Zenon DEF Freed
  <2>4. Evicting => eviction_ptr' = eviction_ptr
    BY <1>8, <2>1, <2>2, Zenon DEF Freed
  <2>5. Dropped({a})
    BY <1>2, <1>4, <1>5, <1>6, <1>8, <2>2, <2>3, <2>4, Zenon DEF Dropped, Freed
  <2> QED  BY <1>3, <2>5, Drops, Zenon
<1>10. CASE State(a) # "mapped"
  <2>1. UNCHANGED <<frame_list, eviction_ptr, fte, used, mem>> /\ pte' = pte
    BY <1>10, Zenon DEF frames
  <2>2. ~ pte[a].present
    BY <1>1, <1>10, Zenon DEF FrameInv, PageOK
  <2>3. used' = {g \in used : fte[g].user \notin {a}}
    BY <1>7, <1>10, <2>1, Zenon
  <2>4. /\ frame_list' \in Seq(Frame) /\ Once(frame_list') /\ Members(frame_list') = used'
        /\ eviction_ptr' \in used' \cup {NULL} /\ eviction_ptr' = eviction_ptr
        /\ fte' \in [used' -> [user : UserPage, swap_prevention : BOOLEAN]] /\ mem' \in [used' -> Nat]
        /\ pte' \in [UserPage -> TableEntry]
    BY <1>1, <2>1, Zenon DEF TypeOK, FrameInv
  <2>5. Dropped({a})
    BY <1>2, <1>4, <1>5, <1>6, <1>8, <2>1, <2>2, <2>3, <2>4, Zenon DEF Dropped
  <2> QED  BY <1>3, <2>5, Drops, Zenon
<1> QED  BY <1>9, <1>10, Zenon

(* munmap finds a page with nothing to write, or goes on to pin or write   *)
(* it.                                                                     *)
LEMMA MunmapLookStep ==
  ASSUME VMInv, NEW p \in Proc, munmap_look(p)
  PROVE  VMInv'
<1>1. /\ TypeOK /\ task[p].at = "munmap" /\ TaskOK(p)
      /\ UNCHANGED <<frames, pte, disk, frame_table_lock>>
  BY Zenon DEF VMInv, TaskInv, munmap_look, At
<1>2. PICK a \in UserPage : a = Page(p) /\ Owner[a] = p
  BY <1>1 DEF TaskOK, Page
<1> DEFINE asis == State(a) = "load" \/ (State(a) = "evicted" /\ spte[a].kpage = NULL /\ ~ Dirty(a))
<1>3. CASE asis
  <2>1. Unmapped(p) /\ task[p].at \in {"munmap", "free", "exit"}
    BY <1>1, <1>2, <1>3, Zenon DEF munmap_look
  <2> QED  BY <1>1, <1>2, <1>3, <2>1, Unmaps, Zenon
<1>4. CASE ~ asis
  <2>1. PICK place \in {"munmap_pin", "flush"} : GoTo(p, place) /\ UNCHANGED <<spte, want>>
    BY <1>2, <1>4, Zenon DEF munmap_look
  <2>2. place \in Place
    BY DEF Place
  <2>3. task' \in [Proc -> Task] /\ Alone(p) /\ task'[p].at = place /\ task'[p].page = a
    BY <1>1, <1>2, <2>1, <2>2, Gone, Zenon DEF Page
  <2>4. /\ task[p].at \notin {"write", "written", "read", "load"}
        /\ task'[p].at \notin {"write", "written", "read", "load"} /\ ~ NeedsLock(task'[p])
    BY <1>1, <2>3 DEF NeedsLock
  <2>5. TaskOK(p)'
    <3>1. place \notin {"fslock", "alloc", "write", "written", "unpin", "load", "read", "io"}
      OBVIOUS
    <3> QED  BY <1>2, <2>3, <3>1, Zenon DEF TaskOK
  <2>6. UNCHANGED <<frames, pages, disk, want>> /\ frame_table_lock' = frame_table_lock
    BY <1>1, <2>1, Zenon DEF pages
  <2> QED  BY <2>3, <2>4, <2>5, <2>6, OnlyMoves, Zenon
<1> QED  BY <1>3, <1>4, Zenon

(* munmap writes the page to its file, which no page waits to be read      *)
(* from, or faults on it.                                                  *)
LEMMA MunmapWriteStep ==
  ASSUME VMInv, NEW p \in Proc, munmap_write(p)
  PROVE  VMInv'
<1>1. /\ TypeOK /\ FrameInv /\ task[p].at = "flush" /\ TaskOK(p)
      /\ UNCHANGED <<frames, pages, swap_table, swap, frame_table_lock, want>>
  BY Zenon DEF VMInv, TaskInv, munmap_write, At
<1>2. PICK a \in UserPage : a = Page(p) /\ Owner[a] = p
  BY <1>1 DEF TaskOK, Page
<1>3. CASE pte[a].present
  <2>1. file' = [file EXCEPT ![a] = mem[pte[a].frame]] /\ GoTo(p, "free")
    BY <1>2, <1>3, Zenon DEF munmap_write
  <2>2. "free" \in Place
    BY DEF Place
  <2>3. task' \in [Proc -> Task] /\ Alone(p) /\ task'[p].at = "free" /\ task'[p].page = a
    BY <1>1, <1>2, <2>1, <2>2, Gone, Zenon DEF Page
  <2>4. /\ task[p].at \notin {"write", "written", "read", "load"}
        /\ task'[p].at \notin {"write", "written", "read", "load"} /\ ~ NeedsLock(task'[p])
    BY <1>1, <2>3 DEF NeedsLock
  <2>5. TaskOK(p)'
    BY <1>2, <2>3 DEF TaskOK
  <2>6. State(a) = "mapped" /\ ~ Loading(a) /\ pte[a].frame \in used
    <3>1. State(a) = "mapped" /\ pte[a].frame \in used
      BY <1>1, <1>3, Zenon DEF FrameInv, PageOK
    <3>2. ~ Loading(a)
      BY <1>1, <1>2 DEF Loading, At
    <3> QED  BY <3>1, <3>2, Zenon
  <2>7. /\ file' \in [UserPage -> Nat]
        /\ \A b \in UserPage : State(b) = "load" \/ Loading(b) => file'[b] = file[b]
    <3>1. file \in [UserPage -> Nat] /\ mem[pte[a].frame] \in Nat
      BY <1>1, <2>6, Zenon DEF TypeOK
    <3>2. file' \in [UserPage -> Nat] /\ \A b \in UserPage : b # a => file'[b] = file[b]
      BY <2>1, <3>1, Zenon
    <3>3. State(a) # "load"
      BY <2>6
    <3> QED  BY <2>6, <3>2, <3>3, Zenon
  <2>8. /\ frame_list' = frame_list /\ eviction_ptr' = eviction_ptr /\ used' = used /\ fte' = fte
        /\ mem' = mem /\ spte' = spte /\ pte' = pte /\ frame_table_lock' = frame_table_lock
        /\ UNCHANGED <<spte, mem, swap_table, swap, want>>
    BY <1>1, Zenon DEF frames, pages
  <2>9. SameFrames /\ SamePages
    BY <2>8, Zenon DEF SameFrames, SamePages
  <2>10. TypesKept
    BY <1>1, <2>3, <2>8, Zenon DEF TypeOK, TypesKept
  <2>11. \A b \in UserPage : Pinned(b) => Pinned(b)'
    BY <2>8, Zenon DEF Pinned, State
  <2> QED  BY <2>3, <2>4, <2>5, <2>7, <2>8, <2>9, <2>10, <2>11, MovesAndWrites, Zenon
<1>4. CASE ~ pte[a].present
  <2>1. /\ task' = [task EXCEPT ![p] = page_fault([@ EXCEPT !.ret = "flush"], Page(p))]
        /\ UNCHANGED <<frames, pages, disk, frame_table_lock, want>>
    BY <1>1, <1>2, <1>4, Zenon DEF munmap_write, disk
  <2>2. State(Page(p)) # "mapped"
    BY <1>1, <1>2, <1>4, Zenon DEF FrameInv, PageOK
  <2>3. task[p].at \in {"flush", "io", "name"} /\ "flush" \in {"io", "flush", "name"}
    BY <1>1, Zenon
  <2> QED  BY <2>1, <2>2, <2>3, FaultMoves, Zenon
<1> QED  BY <1>3, <1>4, Zenon

(* munmap frees the frame of the page. *)
LEMMA MunmapFreeStep ==
  ASSUME VMInv, NEW p \in Proc, munmap_free(p)
  PROVE  VMInv'
<1>1. task[p].at = "free" /\ TaskOK(p)
  BY Zenon DEF VMInv, TaskInv, munmap_free, At
<1>2. PICK a \in UserPage : a = Page(p) /\ Owner[a] = p
  BY <1>1 DEF TaskOK, Page
<1>3. /\ deallocate_fte(find_fte(a)) /\ State(a) = "mapped" /\ Unmapped(p)
      /\ UNCHANGED <<disk, frame_table_lock>> /\ task[p].at \in {"munmap", "free", "exit"}
  BY <1>1, <1>2, Zenon DEF munmap_free
<1> QED  BY <1>2, <1>3, Unmaps, Zenon

(* A process that the kernel ends releases what it has of the locks. *)
LEMMA DiesStep ==
  ASSUME VMInv, NEW p \in Proc, dies(p)
  PROVE  VMInv'
<1>1. /\ TypeOK /\ task[p].at \in {"alloc", "free"} /\ task' = [task EXCEPT ![p] = Ending]
      /\ frame_table_lock' = IF frame_table_lock = p THEN Nobody ELSE frame_table_lock
  BY Zenon DEF VMInv, dies, SwapFull, NullEntry, ProcessDies, At
<1>2. /\ frame_list' = frame_list /\ eviction_ptr' = eviction_ptr /\ used' = used /\ fte' = fte
      /\ mem' = mem /\ spte' = spte /\ pte' = pte /\ UNCHANGED <<spte, mem, disk, want>>
  BY Zenon DEF dies, ProcessDies, frames, pages
<1>3. task' \in [Proc -> Task] /\ Alone(p) /\ task'[p].at = "exit"
  BY <1>1, UserTask, Moved, Zenon
<1>4. /\ task[p].at \notin {"write", "written", "read", "load"}
      /\ task'[p].at \notin {"write", "written", "read", "load"} /\ ~ NeedsLock(task'[p]) /\ TaskOK(p)'
  BY <1>1, <1>3 DEF NeedsLock, TaskOK
<1>5. SameFrames /\ SamePages
  BY <1>2, Zenon DEF SameFrames, SamePages
<1>6. TypesKept
  BY <1>1, <1>2, <1>3, Zenon DEF TypeOK, TypesKept
<1>7. \A b \in UserPage : Pinned(b) => Pinned(b)'
  BY <1>2, Zenon DEF Pinned, State
<1>8. \A q \in Proc : q # p /\ frame_table_lock = q => frame_table_lock' = q
  BY <1>1, Zenon
<1> QED  BY <1>2, <1>3, <1>4, <1>5, <1>6, <1>7, <1>8, Moves, Zenon

(* process_exit gives back the slots, the frame table entries and the      *)
(* frames of the process.                                                  *)
LEMMA ProcessExitStep ==
  ASSUME VMInv, NEW p \in Proc, process_exit(p)
  PROVE  VMInv'
<1>1. /\ TypeOK /\ FrameInv /\ LockInv /\ TaskInv /\ SlotInv /\ ValueInv
      /\ task[p].at = "exit" /\ frame_table_lock = Nobody
  BY Zenon DEF VMInv, process_exit, At
<1> DEFINE A == Pages(p)
           mine == OwnedBy(p)
           gone == {pte[a].frame : a \in {b \in A : pte[b].present}}
           slots == {spte[a].slot : a \in {b \in A : State(b) = "evicted"}}
<1>2. /\ swap_table' = swap_table \ slots /\ swap' = Less(swap, slots)
      /\ spte' = [a \in UserPage |-> IF Owner[a] = p THEN NoPage ELSE spte[a]]
      /\ eviction_ptr' = PushPast(mine) /\ frame_list' \in Without(frame_list, mine)
      /\ fte' = Less(fte, mine)
      /\ used' = used \ gone /\ mem' = Less(mem, gone)
      /\ pte' = [a \in UserPage |-> IF Owner[a] = p THEN NoPte ELSE pte[a]]
      /\ want' = [a \in UserPage |-> IF Owner[a] = p THEN 0 ELSE want[a]]
      /\ GoTo(p, "dead") /\ file' = file /\ frame_table_lock' = frame_table_lock
  BY Zenon DEF process_exit, destroy_sup_page_table, SwapFree, deallocate_frame_owned_by_thread, pagedir_destroy, locks
<1>3. A \in SUBSET UserPage /\ \A a \in UserPage : a \in A <=> Owner[a] = p
  BY Zenon DEF Pages
<1>4. ~ Evicting /\ \A b \in UserPage : ~ Writing(b)
  <2>1. \A q \in Proc : ~ NeedsLock(task[q])
    BY <1>1, VMAssumption, Zenon DEF LockInv, VMAssumption
  <2>2. \A q \in Proc : task[q].at \notin {"write", "written"}
    BY <2>1, Zenon DEF NeedsLock
  <2> QED  BY <2>2, Zenon DEF Evicting, Writing, At
<1>5. mine = {f \in used : fte[f].user \in A}
  <2>1. DOMAIN fte = used /\ \A f \in used : fte[f].user \in UserPage
    BY <1>1 DEF TypeOK
  <2> QED  BY <1>3, <2>1, Zenon DEF OwnedBy
<1>6. gone = mine
  <2>1. ASSUME NEW f \in gone
        PROVE  f \in mine
    <3>1. PICK a \in A : pte[a].present /\ f = pte[a].frame
      BY Zenon
    <3>2. PageOK(a)
      BY <1>1, <1>3, Zenon DEF FrameInv
    <3> QED  BY <1>5, <3>1, <3>2, Zenon DEF PageOK
  <2>2. ASSUME NEW f \in mine
        PROVE  f \in gone
    <3>1. PICK a \in A : f \in used /\ a = fte[f].user
      BY <1>5, Zenon
    <3>2. State(a) = "mapped" /\ spte[a].kpage = f
      BY <1>1, <1>4, <3>1, Zenon DEF FrameInv, FrameOK
    <3>3. pte[a].present /\ pte[a].frame = f
      BY <1>1, <1>3, <3>2, Zenon DEF FrameInv, PageOK
    <3> QED  BY <3>3, Zenon
  <2> QED  BY <2>1, <2>2, Zenon
<1>7. used' = {g \in used : fte[g].user \notin A} /\ used' = used \ mine
  BY <1>2, <1>5, <1>6, Zenon
<1>8. /\ frame_list' \in Seq(Frame) /\ Once(frame_list') /\ Members(frame_list') = used'
      /\ eviction_ptr' \in used' \cup {NULL}
  <2>1. frame_list \in Seq(Frame) /\ Once(frame_list) /\ Members(frame_list) = used /\ eviction_ptr \in used \cup {NULL}
    BY <1>1, Zenon DEF TypeOK, FrameInv
  <2> HIDE DEF mine
  <2>2. frame_list' \in Seq(Frame) /\ Once(frame_list') /\ Members(frame_list') = used \ mine
    BY <1>2, <2>1, WithoutMembers, Zenon
  <2>3. PushPast(mine) \in (used \ mine) \cup {NULL}
    BY <2>1, PushedPast, Zenon
  <2> QED  BY <1>2, <1>7, <2>2, <2>3, Zenon
<1> HIDE DEF mine, gone, slots, A
<1>9. /\ fte' \in [used' -> [user : UserPage, swap_prevention : BOOLEAN]]
      /\ \A g \in used' : fte'[g] = fte[g]
  <2>1. fte \in [used -> [user : UserPage, swap_prevention : BOOLEAN]]
    BY <1>1, Zenon DEF TypeOK
  <2> QED  BY <1>2, <1>7, <2>1 DEF Less
<1>10. mem' \in [used' -> Nat] /\ \A g \in used' : mem'[g] = mem[g]
  <2>1. mem \in [used -> Nat]
    BY <1>1, Zenon DEF TypeOK
  <2> QED  BY <1>2, <1>6, <1>7, <2>1 DEF Less
<1>11. /\ pte' \in [UserPage -> TableEntry] /\ spte' \in [UserPage -> PageEntry] /\ want' \in [UserPage -> Nat]
       /\ \A a \in A : ~ pte'[a].present /\ spte'[a].state = "none" /\ spte'[a].kpage = NULL /\ want'[a] = 0
       /\ \A b \in UserPage \ A : pte'[b] = pte[b] /\ spte'[b] = spte[b] /\ want'[b] = want[b]
  <2>1. /\ NoPte \in TableEntry /\ ~ NoPte.present /\ 0 \in Nat
        /\ NoPage \in PageEntry /\ NoPage.state = "none" /\ NoPage.kpage = NULL
    BY DEF NoPte, NoPage, TableEntry, PageEntry
  <2>2. pte \in [UserPage -> TableEntry] /\ spte \in [UserPage -> PageEntry] /\ want \in [UserPage -> Nat]
    BY <1>1, Zenon DEF TypeOK
  <2>3. pte' \in [UserPage -> TableEntry] /\ spte' \in [UserPage -> PageEntry] /\ want' \in [UserPage -> Nat]
    BY <1>2, <2>1, <2>2, Zenon
  <2>4. \A a \in UserPage : Owner[a] = p => pte'[a] = NoPte /\ spte'[a] = NoPage /\ want'[a] = 0
    BY <1>2, Zenon
  <2>5. \A b \in UserPage : Owner[b] # p => pte'[b] = pte[b] /\ spte'[b] = spte[b] /\ want'[b] = want[b]
    BY <1>2, Zenon
  <2>6. \A a \in A : ~ pte'[a].present /\ spte'[a].state = "none" /\ spte'[a].kpage = NULL /\ want'[a] = 0
    BY <1>3, <2>1, <2>4, Zenon
  <2> QED  BY <1>3, <2>3, <2>5, <2>6, Zenon
<1>12. /\ swap_table' \subseteq Slot /\ swap' \in [DOMAIN swap' -> Nat] /\ DOMAIN swap' = DOMAIN swap \ slots
       /\ \A t \in DOMAIN swap \ slots : swap'[t] = swap[t]
  <2>1. swap \in [DOMAIN swap -> Nat] /\ swap_table \subseteq Slot
    BY <1>1, Zenon DEF TypeOK
  <2> QED  BY <1>2, <2>1 DEF Less
<1>13. OthersInSwap(A)
  <2>1. ASSUME NEW b \in UserPage \ A, InSwap(b)
        PROVE  spte[b].slot \in swap_table /\ spte[b].slot \in DOMAIN swap /\ spte[b].slot \notin slots
    <3>1. spte[b].slot \in swap_table /\ spte[b].slot \in DOMAIN swap
      BY <1>1, <1>4, <2>1, Zenon DEF SlotInv
    <3>2. ASSUME NEW a \in A, State(a) = "evicted"
          PROVE  spte[b].slot # spte[a].slot
      BY <1>1, <1>3, <2>1, <3>2, Zenon DEF SlotInv, InSwap
    <3> QED  BY <3>1, <3>2, Zenon DEF slots
  <2> QED  BY <1>2, <1>12, <2>1, Zenon DEF OthersInSwap
<1>14. task' \in [Proc -> Task] /\ Alone(p) /\ task'[p].at = "dead"
  <2>1. "dead" \in Place
    BY DEF Place
  <2> QED  BY <1>1, <1>2, <2>1, Gone, Zenon
<1>15. Dropped(A)
  <2>1. file' \in [UserPage -> Nat]
    BY <1>1, <1>2, Zenon DEF TypeOK
  <2> QED  BY <1>2, <1>4, <1>7, <1>8, <1>9, <1>10, <1>11, <1>12, <1>13, <2>1, Zenon DEF Dropped
<1>16. \A a \in A : Owner[a] = p
  BY <1>3, Zenon
<1>17. task[p].at \in {"munmap", "free", "exit"} /\ task'[p].at \in {"user", "exit", "dead"}
  BY <1>1, <1>14, Zenon
<1> QED  BY <1>3, <1>14, <1>15, <1>16, <1>17, Drops, Zenon

-----------------------------------------------------------------------------

(* Nothing is in memory when the processes start. *)
LEMMA InitInv == Init => VMInv
<1> SUFFICES ASSUME Init
             PROVE  VMInv
  OBVIOUS
<1>1. User \in Task /\ User.at = "user"
  BY UserTask, Zenon
<1>2. \A a \in UserPage : load_segment[a] \in PageEntry /\ load_segment[a].state \in {"none", "load"}
                          /\ (load_segment[a].state = "load" <=> Kind[a] = "exec")
                          /\ load_segment[a].kpage = NULL
  BY Zenon DEF load_segment, lazy_load, allocate_page, NoPage, PageEntry
<1>3. NoPte \in TableEntry /\ ~ NoPte.present
  BY DEF NoPte, TableEntry
<1>4. /\ frame_list = <<>> /\ eviction_ptr = NULL /\ used = {} /\ fte = Nothing /\ mem = Nothing
      /\ spte = load_segment /\ pte = [a \in UserPage |-> NoPte]
      /\ swap_table = {} /\ swap = Nothing /\ file = [a \in UserPage |-> AtFirst(a)]
      /\ frame_table_lock = Nobody /\ task = [p \in Proc |-> User] /\ want = [a \in UserPage |-> AtFirst(a)]
  BY Zenon DEF Init
<1>5. \A p \in Proc : task[p].at = "user"
  BY <1>1, <1>4, Zenon
<1>6. \A a \in UserPage : /\ spte[a].state \in {"none", "load"} /\ spte[a].kpage = NULL
                          /\ spte[a].state = "load" <=> Kind[a] = "exec"
  BY <1>2, <1>4, Zenon
<1>7. \A a \in UserPage : ~ Reading(a) /\ ~ Loading(a) /\ ~ InSwap(a)
  <2>1. \A a \in UserPage : Owner[a] \in Proc
    BY VMAssumption, Zenon DEF VMAssumption
  <2>2. \A a \in UserPage : ~ Reading(a) /\ ~ Loading(a)
    BY <1>5, <2>1 DEF Reading, Loading, At
  <2>3. \A a \in UserPage : spte[a].state # "evicted"
    BY <1>6
  <2> QED  BY <2>2, <2>3, Zenon DEF InSwap, State
<1>8. TypeOK
  <2>1. frame_list \in Seq(Frame)
    BY <1>4
  <2>2. /\ fte \in [used -> [user : UserPage, swap_prevention : BOOLEAN]]
        /\ mem \in [used -> Nat] /\ swap \in [DOMAIN swap -> Nat]
    BY <1>4 DEF Nothing
  <2>3. spte \in [UserPage -> PageEntry]
    <3>1. load_segment = [a \in UserPage |-> load_segment[a]]
      BY Zenon DEF load_segment
    <3> QED  BY <1>2, <1>4, <3>1, Zenon
  <2>4. pte \in [UserPage -> TableEntry] /\ task \in [Proc -> Task]
    BY <1>1, <1>3, <1>4, Zenon
  <2>5. file \in [UserPage -> Nat] /\ want \in [UserPage -> Nat]
    <3>1. \A a \in UserPage : AtFirst(a) \in Nat
      BY VMAssumption DEF VMAssumption, AtFirst
    <3> QED  BY <1>4, <3>1, Zenon
  <2> QED  BY <1>4, <2>1, <2>2, <2>3, <2>4, <2>5, Zenon DEF TypeOK
<1>9. LockInv /\ TaskInv
  BY <1>5 DEF LockInv, NeedsLock, TaskInv, TaskOK
<1>10. FrameInv
  <2>1. Once(frame_list) /\ Members(frame_list) = {}
    BY <1>4 DEF Once, Members
  <2>2. ~ Evicting
    BY <1>5 DEF Evicting, At
  <2>3. \A a \in UserPage : ~ pte[a].present /\ spte[a].state # "mapped" /\ spte[a].kpage = NULL
    BY <1>3, <1>4, <1>6
  <2> QED  BY <1>4, <2>1, <2>2, <2>3, Zenon DEF FrameInv, PageOK, State
<1>11. SlotInv
  BY <1>7, Zenon DEF SlotInv
<1>12. ValueInv
  <2>1. \A a \in UserPage : want[a] = Loaded(a) /\ (spte[a].state = "none" => want[a] = 0) /\ spte[a].state # "mapped"
    BY <1>4, <1>6 DEF Loaded, AtFirst
  <2> QED  BY <1>7, <2>1, Zenon DEF ValueInv, ValueOK, State
<1> QED  BY <1>8, <1>9, <1>10, <1>11, <1>12, Zenon DEF VMInv

(* Every step of every process keeps the invariant. *)
LEMMA NextInv == VMInv /\ [Next]_vars => VMInv'
<1> SUFFICES ASSUME VMInv, [Next]_vars
             PROVE  VMInv'
  OBVIOUS
<1>1. CASE UNCHANGED kernel
  <2>1. /\ frame_list' = frame_list /\ eviction_ptr' = eviction_ptr /\ fte' = fte /\ used' = used /\ mem' = mem
        /\ spte' = spte /\ pte' = pte /\ swap_table' = swap_table /\ swap' = swap /\ file' = file
        /\ frame_table_lock' = frame_table_lock /\ task' = task /\ want' = want
    BY <1>1, Zenon DEF kernel, frames, pages, disk, locks
  <2>2. TypeOK'
    BY <2>1, Zenon DEF VMInv, TypeOK
  <2>3. LockInv' /\ TaskInv'
    BY <2>1, Zenon DEF VMInv, LockInv, TaskInv, TaskOK, Pinned, State
  <2>4. FrameInv'
    BY <2>1, Zenon DEF VMInv, FrameInv, FrameOK, PageOK, State, Evicting, At
  <2>5. SlotInv'
    BY <2>1, Zenon DEF VMInv, SlotInv, InSwap, Writing, Reading, State, At, Page
  <2>6. ValueInv'
    BY <2>1, Zenon DEF VMInv, ValueInv, ValueOK, InSwap, Writing, Reading, Loading, Loaded, State, At, Page
  <2> QED  BY <2>2, <2>3, <2>4, <2>5, <2>6, Zenon DEF VMInv
<1>2. ASSUME NEW p \in Proc, Kernel(p)
      PROVE  VMInv'
  <2>1. "exit" \in {"user", "exit"}
    OBVIOUS
  <2> QED  BY <1>2, <2>1, FslockStep, AllocateStep, EvictStep, WriteStep, EvictDoneStep, GrowStep, SwapInStep,
              LoadStep, PinStep, IoStep, UnpinStep, NameReadStep, MunmapStep, MunmapLookStep, MunmapPinStep,
              MunmapWriteStep, MunmapFreeStep, DiesStep, ProcessExitStep, Zenon DEF Kernel
<1>3. ASSUME NEW p \in Proc, Program(p)
      PROVE  VMInv'
  <2>1. "user" \in {"user", "exit"}
    OBVIOUS
  <2> QED  BY <1>3, <2>1, AccessStep, TouchStep, ReadStep, NameStep, MmapStep, MunmapStep, ExitStep, Zenon DEF Program
<1> QED  BY <1>1, <1>2, <1>3, Zenon DEF Next, Runs, Halts, vars

(* The inductive invariant holds in every reachable state, for any number  *)
(* of processes, pages, frames and swap slots.                             *)
THEOREM Invariance == Spec => []VMInv
BY InitInv, NextInv, PTL DEF Spec

(* A process finds in a page what it last put there, however often         *)
(* swap_out took the frame away and swap_in brought the page back, and     *)
(* whoever used the frame and the slot in between.                         *)
THEOREM PagesKeepTheirValue == Spec => []Illusion
<1>1. VMInv => Illusion
  <2> SUFFICES ASSUME VMInv, NEW a \in UserPage, State(a) # "none", Settled(a)
               PROVE  ValueOf(a) = want[a]
    BY Zenon DEF Illusion
  <2>1. TypeOK /\ ValueOK(a)
    BY Zenon DEF VMInv, ValueInv
  <2>2. ~ Loading(a) /\ ~ Reading(a) /\ ~ Writing(a)
    BY Zenon DEF Settled, BeingEvicted, Evicting, Loading, Reading, Writing, At, Page
  <2>3. State(a) \in {"load", "mapped", "evicted"}
    BY <2>1 DEF TypeOK, PageEntry, State
  <2>4. CASE State(a) = "load"
    <3>1. ValueOf(a) = Loaded(a)
      BY <2>4 DEF ValueOf
    <3> QED  BY <2>1, <2>4, <3>1, Zenon DEF ValueOK
  <2>5. CASE State(a) = "mapped"
    <3>1. ValueOf(a) = mem[spte[a].kpage]
      BY <2>5 DEF ValueOf
    <3> QED  BY <2>1, <2>2, <2>5, <3>1, Zenon DEF ValueOK
  <2>6. CASE State(a) = "evicted"
    <3>1. ValueOf(a) = swap[spte[a].slot]
      BY <2>6 DEF ValueOf
    <3> QED  BY <2>1, <2>2, <2>6, <3>1, Zenon DEF ValueOK, InSwap
  <2> QED  BY <2>3, <2>4, <2>5, <2>6, Zenon
<1> QED  BY <1>1, Invariance, PTL

(* No page table leads to a frame that was given to another page, every    *)
(* frame taken from the pool has its entry in the frame table, and the     *)
(* hand of the clock is on the list, whatever processes allocate, evict,   *)
(* unmap and end.                                                          *)
THEOREM FramesHaveOneOwner == Spec => []FramesOwned
<1>1. VMInv => FramesOwned
  <2> SUFFICES ASSUME VMInv
               PROVE  FramesOwned
    OBVIOUS
  <2>1. FrameInv /\ used = DOMAIN fte
    BY Zenon DEF VMInv, TypeOK
  <2>2. \A f \in DOMAIN fte : spte[fte[f].user].kpage = f
    BY <2>1, Zenon DEF FrameInv, FrameOK
  <2>3. ASSUME NEW a \in UserPage, pte[a].present
        PROVE  pte[a].frame \in DOMAIN fte /\ fte[pte[a].frame].user = a
    BY <2>1, <2>3, Zenon DEF FrameInv, PageOK
  <2> QED  BY <2>1, <2>2, <2>3, Zenon DEF FramesOwned, FrameInv
<1> QED  BY <1>1, Invariance, PTL

(* The page of a buffer that a system call fills stays in its frame,       *)
(* pinned, while other processes evict pages.                              *)
THEOREM BuffersStay == Spec => []BufferStays
<1>1. VMInv => BufferStays
  <2> SUFFICES ASSUME VMInv, NEW p \in Proc, At(p, "io"), State(Page(p)) # "none", task[p].ret # "io"
               PROVE  pte[Page(p)].present /\ fte[pte[Page(p)].frame].swap_prevention
    BY Zenon DEF BufferStays
  <2>1. TaskOK(p) /\ FrameInv /\ task[p].at = "io"
    BY Zenon DEF VMInv, TaskInv, At
  <2>2. Page(p) \in UserPage /\ Pinned(Page(p))
    BY <2>1 DEF TaskOK, Page
  <2> QED  BY <2>1, <2>2, Zenon DEF FrameInv, PageOK, Pinned
<1> QED  BY <1>1, Invariance, PTL

=============================================================================
