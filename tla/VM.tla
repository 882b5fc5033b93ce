--------------------------------- MODULE VM ---------------------------------
(***************************************************************************)
(* Virtual memory: vm/frame.c, vm/page.c, vm/swap.c, the page fault        *)
(* handler, buffers that system calls pin, mapped files and process_exit.  *)
(* Processes run at the same time; only frame_table_lock and filesys_lock  *)
(* order them, with the lock of the disk that has the files, and disk      *)
(* transfers take time.                                                    *)
(*                                                                         *)
(* A user page stands for a process and an address, and has one value; a   *)
(* buffer is one page.                                                     *)
(***************************************************************************)
EXTENDS Lists

CONSTANTS
  Proc,
  Frame,      \* of the user pool, numbers
  Slot,       \* of the swap device, numbers
  UserPage,
  Owner,      \* the process of each user page
  Kind,       \* of each user page: "stack", "exec" or "mmap"
  Names,      \* user pages with names of files, or text for the console
  Token,      \* what processes write to each page; its pages in the executable
              \* hold that from the start, and everything else holds 0
  Nobody, NULL

ASSUME VMAssumption ==
  /\ Frame \subseteq Nat /\ Slot \subseteq Nat
  /\ Owner \in [UserPage -> Proc]
  /\ Kind \in [UserPage -> {"stack", "exec", "mmap"}]
  /\ Names \subseteq UserPage
  /\ Token \in [UserPage -> Nat]
  /\ Nobody \notin Proc /\ NULL \notin Frame /\ NULL \notin UserPage

VARIABLES
  frame_list,        \* frames with a frame table entry, front first
  eviction_ptr,      \* the hand of the clock, or NULL
  fte,               \* frame table entries: [user, swap_prevention]
  used,              \* frames taken from the user pool
  spte,              \* supplemental page tables: [state, kpage, slot, dirty]
  pte,               \* page tables: [frame, present, accessed, dirty]
  swap_table,        \* swap slots in use
  mem, swap, file,   \* what used frames and slots and the files of pages hold
  frame_table_lock,  \* its holder
  filesys_lock,      \* its holder
  channel_lock,      \* the thread that faulted in the middle of a sector
  task,              \* what each process does
  want,              \* what each process last put in its pages (for properties)
  halt               \* "no", or why the kernel does not go on

frames == <<frame_list, eviction_ptr, fte, used, mem>>
pages == <<spte, pte>>
disk == <<swap_table, swap, file>>
locks == <<frame_table_lock, filesys_lock, channel_lock>>
kernel == <<frames, pages, disk, locks, task, want>>
vars == <<kernel, halt>>

Pages(p) == {a \in UserPage : Owner[a] = p}

NoPage == [state |-> "none", kpage |-> NULL, slot |-> 0, dirty |-> FALSE]
NoPte == [frame |-> NULL, present |-> FALSE, accessed |-> FALSE, dirty |-> FALSE]

(* The function g with y at x, and g without what is in S. *)
With(g, x, y) == [z \in DOMAIN g \cup {x} |-> IF z = x THEN y ELSE g[z]]
Less(g, S) == [z \in DOMAIN g \ S |-> g[z]]

(* What a scan finds first. *)
First(S) == CHOOSE x \in S : \A y \in S : x <= y

-----------------------------------------------------------------------------
(* frame.c                                                                 *)

(* What is left of a list without the elements in S: the others, each in  *)
(* its place.  There is one such list.                                     *)
Without(l, S) ==
  {m \in UNION {[1 .. n -> Members(l) \ S] : n \in 0 .. Len(l)} :
     /\ Once(m) /\ Members(m) = Members(l) \ S
     /\ \A x, y \in Members(m) : Before(m, x, y) => Before(l, x, y)}

PlaceOf(f) == CHOOSE i \in 1 .. Len(frame_list) : frame_list[i] = f

(* The hand leaves a frame it points at. *)
eviction_ptr_push(f) ==
  LET i == PlaceOf(f)
      n == Len(frame_list)
  IN IF eviction_ptr # f THEN eviction_ptr
     ELSE IF i < n THEN frame_list[i + 1] ELSE IF n = 1 THEN NULL ELSE frame_list[1]

pagedir_set_page(a, f) ==
  [pte EXCEPT ![a] = [frame |-> f, present |-> TRUE, accessed |-> FALSE, dirty |-> FALSE]]

(* _allocate_frame when there is a free frame, and install_page. *)
_allocate_frame(a) ==
  LET f == First(Frame \ used) IN
    /\ used' = used \cup {f}
    /\ frame_list' = <<f>> \o frame_list
    /\ fte' = With(fte, f, [user |-> a, swap_prevention |-> TRUE])
    /\ mem' = With(mem, f, 0)
    /\ spte' = [spte EXCEPT ![a] = [state |-> "mapped", kpage |-> f, slot |-> @.slot, dirty |-> FALSE]]
    /\ pte' = pagedir_set_page(a, f)
    /\ UNCHANGED eviction_ptr

(* Of an entry that is not present only the dirty bit is ever looked at. *)
pagedir_clear_page(a) == [pte EXCEPT ![a] = [NoPte EXCEPT !.dirty = pte[a].dirty]]

deallocate_fte(f) ==
  /\ eviction_ptr' = eviction_ptr_push(f)
  /\ frame_list' = list_remove(frame_list, PlaceOf(f))
  /\ pte' = pagedir_clear_page(fte[f].user)
  /\ fte' = Less(fte, {f})
  /\ mem' = Less(mem, {f})
  /\ used' = used \ {f}

(* The frames in the order of the clock: the k-th from the hand. *)
Clock(k) ==
  LET i == IF eviction_ptr = NULL THEN 1 ELSE PlaceOf(eviction_ptr) IN
    frame_list[((i + k - 2) % Len(frame_list)) + 1]

(* The hand moves on until it is on a frame that stays. *)
PushPast(S) ==
  LET rest == {k \in 1 .. Len(frame_list) : Clock(k) \notin S} IN
    IF eviction_ptr \notin S THEN eviction_ptr
    ELSE IF rest = {} THEN NULL ELSE Clock(First(rest))

OwnedBy(p) == {f \in DOMAIN fte : Owner[fte[f].user] = p}

(* Bug: the loop starts after the front. *)
deallocate_frame_owned_by_thread_NotFront(p) ==
  LET mine == OwnedBy(p) \ {frame_list[i] : i \in 1 .. Len(frame_list) \cap {1}} IN
    /\ eviction_ptr' = PushPast(mine)
    /\ frame_list' \in Without(frame_list, mine)
    /\ fte' = Less(fte, mine)

(* The frames themselves go when the page directory is destroyed. *)
deallocate_frame_owned_by_thread(p) ==
  LET mine == OwnedBy(p) IN
    /\ eviction_ptr' = PushPast(mine)
    /\ frame_list' \in Without(frame_list, mine)
    /\ fte' = Less(fte, mine)

find_fte(a) == spte[a].kpage

SetPin(a, on) == [fte EXCEPT ![find_fte(a)].swap_prevention = on]

-----------------------------------------------------------------------------
(* swap.c                                                                  *)

pagedir_is_accessed(f) == pte[fte[f].user].accessed

pagedir_clear_accessed(S) ==
  [a \in UserPage |-> IF \E f \in S : fte[f].user = a THEN [pte[a] EXCEPT !.accessed = FALSE] ELSE pte[a]]

(* Bug: pinned frames are evicted as well. *)
Evictable_Any == 1 .. Len(frame_list)

(* Where on the clock frames are that may be evicted. *)
Evictable == {k \in 1 .. Len(frame_list) : ~ fte[Clock(k)].swap_prevention}

Unused == {k \in Evictable : ~ pagedir_is_accessed(Clock(k))}

(* The first frame that was not accessed; if there is none, all of them    *)
(* get another chance and the first is taken in the second round.          *)
Victim == IF Unused # {} THEN First(Unused) ELSE First(Evictable)

Passed == {Clock(k) : k \in {j \in Evictable : Unused # {} => j < Victim}}

FreeSlot == First(Slot \ swap_table)

evicted(e, slot, dirty) == [state |-> "evicted", kpage |-> e.kpage, slot |-> slot, dirty |-> e.dirty \/ dirty]

(* Bug: the page stays mapped while it is written to the disk. *)
swap_out_StaysMapped ==
  LET f == Clock(Victim)
      a == fte[f].user
  IN /\ eviction_ptr' = f
     /\ pte' = pagedir_clear_accessed(Passed)
     /\ swap_table' = swap_table \cup {FreeSlot}
     /\ spte' = [spte EXCEPT ![a] = evicted(@, FreeSlot, pte[a].dirty)]

(* swap_out up to write_to_disk. *)
swap_out ==
  LET f == Clock(Victim)
      a == fte[f].user
  IN /\ eviction_ptr' = f
     /\ pte' = [pagedir_clear_accessed(Passed) EXCEPT ![a] = [NoPte EXCEPT !.dirty = pte[a].dirty]]
     /\ swap_table' = swap_table \cup {FreeSlot}
     /\ spte' = [spte EXCEPT ![a] = evicted(@, FreeSlot, pte[a].dirty)]

write_to_disk(f) == swap' = With(swap, spte[fte[f].user].slot, mem[f])

(* swap_free, of each slot. *)
SwapFree(slots) ==
  /\ swap_table' = swap_table \ slots
  /\ swap' = Less(swap, slots)

read_from_disk(f, slot) == mem' = [mem EXCEPT ![f] = swap[slot]]

(* swap_in after allocate_frame, for a caller that pins the page or not.   *)
(* swap_offset then means nothing.                                         *)
swap_in(a, pin) ==
  /\ read_from_disk(find_fte(a), spte[a].slot)
  /\ SwapFree({spte[a].slot})
  /\ spte' = [spte EXCEPT ![a].slot = 0]
  /\ fte' = SetPin(a, pin)

(* What a page holds when it is read from its file. *)
Loaded(a) == file[a]

(* lazy_load_page after allocate_frame. *)
lazy_load_page(a, pin) ==
  /\ mem' = [mem EXCEPT ![spte[a].kpage] = Loaded(a)]
  /\ fte' = SetPin(a, pin)

-----------------------------------------------------------------------------

allocate_page == [NoPage EXCEPT !.state = "mapped"]

lazy_load(e) == [e EXCEPT !.state = "load"]

(* The pages of the executable wait to be read; the others come later. *)
load_segment == [a \in UserPage |-> IF Kind[a] = "exec" THEN lazy_load(allocate_page) ELSE NoPage]

(* A task is at a place in the kernel, about a page; why tells the callers *)
(* of allocate_frame apart, ret says where a page fault returns to, end    *)
(* that the process is in process_exit.                                    *)
User == [at |-> "user", page |-> NULL, why |-> "", ret |-> "user", end |-> FALSE]

Nothing == [x \in {} |-> NULL]

AtFirst(a) == IF Kind[a] = "exec" THEN Token[a] ELSE 0

Init ==
  /\ frame_list = <<>> /\ eviction_ptr = NULL /\ used = {} /\ fte = Nothing /\ mem = Nothing
  /\ spte = load_segment
  /\ pte = [a \in UserPage |-> NoPte]
  /\ swap_table = {} /\ swap = Nothing /\ file = [a \in UserPage |-> AtFirst(a)]
  /\ frame_table_lock = Nobody /\ filesys_lock = Nobody /\ channel_lock = Nobody
  /\ task = [p \in Proc |-> User]
  /\ want = [a \in UserPage |-> AtFirst(a)]
  /\ halt = "no"

State(a) == spte[a].state

At(p, place) == task[p].at = place
Page(p) == task[p].page
GoTo(p, place) == task' = [task EXCEPT ![p].at = place]

(* Where a page fault or a call came from. *)
Back(t) == IF t.ret = "user" THEN User ELSE [t EXCEPT !.at = t.ret, !.why = ""]

Return(p) == task' = [task EXCEPT ![p] = Back(@)]

(* What the processor notes when a page is used.  Nobody asks whether a    *)
(* page is dirty but munmap.                                               *)
Noted(a, write) ==
  [pte EXCEPT ![a] = [@ EXCEPT !.accessed = TRUE, !.dirty = pte[a].dirty \/ (write /\ Kind[a] = "mmap")]]

(* User code reads or writes a page that is present. *)
access(a, write) ==
  /\ At(Owner[a], "user") /\ pte[a].present
  /\ pte' = Noted(a, write)
  /\ mem' = IF write THEN [mem EXCEPT ![pte[a].frame] = Token[a]] ELSE mem
  /\ want' = IF write THEN [want EXCEPT ![a] = Token[a]] ELSE want
  /\ UNCHANGED <<frame_list, eviction_ptr, fte, used, spte, disk, locks, task>>

(* page_fault, up to the lock it needs, while t is what the process does.  *)
(* It looks at the page without a lock.                                    *)
page_fault(t, a) ==
  CASE State(a) = "none" -> [at |-> "alloc", page |-> a, why |-> "grow", ret |-> t.ret, end |-> t.end]
    [] State(a) = "evicted" -> [at |-> "alloc", page |-> a, why |-> "in", ret |-> t.ret, end |-> t.end]
    [] State(a) = "load" -> [at |-> "fslock", page |-> a, why |-> "load", ret |-> t.ret, end |-> t.end]

(* User code touches a page that is not present. *)
touch(p, a) ==
  /\ At(p, "user") /\ ~ pte[a].present
  /\ Kind[a] = "stack" \/ State(a) # "none"
  /\ task' = [task EXCEPT ![p] = page_fault(@, a)]
  /\ UNCHANGED <<frames, pages, disk, locks, want>>

page_fault_fslock(p) ==
  /\ At(p, "fslock") /\ filesys_lock = Nobody
  /\ filesys_lock' = p
  /\ GoTo(p, "alloc")
  /\ UNCHANGED <<frames, pages, disk, frame_table_lock, channel_lock, want>>

(* lock_acquire by allocate_frame or by its caller comes first. *)
HasFrameLock(p) == frame_table_lock \in {Nobody, p}

(* Bug: the lock is never released. *)
allocate_frame_Locked(p) ==
  LET why == task[p].why IN
    /\ At(p, "alloc") /\ HasFrameLock(p) /\ Frame \ used # {}
    /\ _allocate_frame(Page(p))
    /\ frame_table_lock' = p
    /\ GoTo(p, CASE why = "grow" -> "unpin"
                 [] why \in {"load", "pin_load"} -> "load"
                 [] OTHER -> "read")
    /\ UNCHANGED <<disk, filesys_lock, channel_lock, want>>

(* Callers that had the lock keep it. *)
allocate_frame(p) ==
  LET why == task[p].why IN
    /\ At(p, "alloc") /\ HasFrameLock(p) /\ Frame \ used # {}
    /\ _allocate_frame(Page(p))
    /\ frame_table_lock' = IF why \in {"grow", "load", "munmap_in"} THEN Nobody ELSE p
    /\ GoTo(p, CASE why = "grow" -> "unpin"
                 [] why \in {"load", "pin_load"} -> "load"
                 [] OTHER -> "read")
    /\ UNCHANGED <<disk, filesys_lock, channel_lock, want>>

evict(p) ==
  /\ At(p, "alloc") /\ HasFrameLock(p) /\ Frame \ used = {}
  /\ Evictable # {} /\ Slot \ swap_table # {}
  /\ swap_out
  /\ frame_table_lock' = p
  /\ GoTo(p, "write")
  /\ UNCHANGED <<frame_list, fte, used, mem, swap, file, filesys_lock, channel_lock, want>>

evict_write(p) ==
  /\ At(p, "write")
  /\ write_to_disk(eviction_ptr)
  /\ GoTo(p, "written")
  /\ UNCHANGED <<frames, pages, swap_table, file, locks, want>>

(* The rest of swap_out, once the page is on the disk. *)
evict_done(p) ==
  /\ At(p, "written")
  /\ deallocate_fte(eviction_ptr)
  /\ spte' = [spte EXCEPT ![fte[eviction_ptr].user].kpage = NULL]
  /\ GoTo(p, "alloc")
  /\ UNCHANGED <<disk, locks, want>>

(* Stack growth: swap_prevent_off after the lock is released. *)
grow_done(p) ==
  /\ At(p, "unpin")
  /\ fte' = SetPin(Page(p), FALSE)
  /\ Return(p)
  /\ UNCHANGED <<frame_list, eviction_ptr, used, mem, pages, disk, locks, want>>

(* swap_in, for a page fault, for swap_prevent_on or for swap_prevent_off. *)
(* munmap has not acquired the lock.                                       *)
swap_in_done(p) ==
  LET pin == task[p].why = "pin_in"
      unlocked == task[p].why = "munmap_in"
  IN /\ At(p, "read")
     /\ swap_in(Page(p), pin)
     /\ frame_table_lock' = IF unlocked THEN frame_table_lock ELSE Nobody
     /\ IF pin THEN GoTo(p, "io") ELSE IF unlocked THEN GoTo(p, "munmap_pin") ELSE Return(p)
     /\ UNCHANGED <<frame_list, eviction_ptr, used, pte, file, filesys_lock, channel_lock, want>>

(* lazy_load_page, for a page fault, which has filesys_lock, or for        *)
(* swap_prevent_on, which has frame_table_lock.  It reads from the disk.   *)
load_done(p) ==
  LET pin == task[p].why = "pin_load" IN
    /\ At(p, "load") /\ channel_lock = Nobody
    /\ lazy_load_page(Page(p), pin)
    /\ frame_table_lock' = IF pin THEN Nobody ELSE frame_table_lock
    /\ filesys_lock' = IF pin THEN filesys_lock ELSE Nobody
    /\ IF pin THEN GoTo(p, "io") ELSE Return(p)
    /\ UNCHANGED <<frame_list, eviction_ptr, used, pages, disk, channel_lock, want>>

-----------------------------------------------------------------------------
(* A system call that fills a buffer: read.                                *)

read(p, a) ==
  /\ At(p, "user")
  /\ Kind[a] = "stack" \/ State(a) # "none"
  /\ task' = [task EXCEPT ![p] = [User EXCEPT !.at = "pin", !.page = a]]
  /\ UNCHANGED <<frames, pages, disk, locks, want>>

(* swap_prevent_on, with frame_table_lock. *)
swap_prevent_on(p) ==
  LET a == Page(p) IN
    /\ At(p, "pin") /\ frame_table_lock = Nobody
    /\ \/ /\ State(a) \in {"none", "mapped"}
          /\ fte' = IF State(a) = "none" THEN fte ELSE SetPin(a, TRUE)
          /\ GoTo(p, "io")
          /\ UNCHANGED frame_table_lock
       \/ /\ State(a) \in {"evicted", "load"}
          /\ frame_table_lock' = p
          /\ task' = [task EXCEPT ![p] = [@ EXCEPT !.at = "alloc",
                        !.why = IF State(a) = "evicted" THEN "pin_in" ELSE "pin_load"]]
          /\ UNCHANGED fte
    /\ UNCHANGED <<frame_list, eviction_ptr, used, mem, pages, disk, filesys_lock, channel_lock, want>>

(* file_read fills the buffer, or faults on a page the stack grows by: in  *)
(* memcpy, or in input_sector, with the lock of the disk.                  *)
io(p) ==
  LET a == Page(p) IN
    /\ At(p, "io") /\ filesys_lock \in {Nobody, p}
    /\ \/ /\ pte[a].present
          /\ pte' = Noted(a, TRUE)
          /\ mem' = [mem EXCEPT ![pte[a].frame] = Token[a]]
          /\ want' = [want EXCEPT ![a] = Token[a]]
          /\ filesys_lock' = Nobody /\ channel_lock' = Nobody
          /\ GoTo(p, "off")
       \/ /\ ~ pte[a].present
          /\ filesys_lock' = p /\ channel_lock' \in {channel_lock, p}
          /\ task' = [task EXCEPT ![p] = page_fault([@ EXCEPT !.ret = "io"], a)]
          /\ UNCHANGED <<pte, mem, want>>
    /\ UNCHANGED <<frame_list, eviction_ptr, fte, used, spte, disk, frame_table_lock>>

(* A page that the stack grew by was not pinned: it may be gone again. *)
swap_prevent_off(p) ==
  LET a == Page(p) IN
    /\ At(p, "off") /\ frame_table_lock = Nobody
    /\ \/ /\ State(a) = "mapped"
          /\ fte' = SetPin(a, FALSE)
          /\ task' = [task EXCEPT ![p] = User]
          /\ UNCHANGED frame_table_lock
       \/ /\ State(a) = "evicted"
          /\ frame_table_lock' = p
          /\ task' = [task EXCEPT ![p] = [User EXCEPT !.at = "alloc", !.page = a, !.why = "in"]]
          /\ UNCHANGED fte
    /\ UNCHANGED <<frame_list, eviction_ptr, used, mem, pages, disk, filesys_lock, channel_lock, want>>

-----------------------------------------------------------------------------
(* create, remove, open and a write to the console read the user's memory  *)
(* with filesys_lock, and do not pin it.                                   *)

name(p, a) ==
  /\ At(p, "user") /\ a \in Names
  /\ Kind[a] = "stack" \/ State(a) # "none"
  /\ task' = [task EXCEPT ![p] = [User EXCEPT !.at = "name", !.page = a]]
  /\ UNCHANGED <<frames, pages, disk, locks, want>>

name_read(p) ==
  LET a == Page(p) IN
    /\ At(p, "name") /\ filesys_lock \in {Nobody, p}
    /\ \/ /\ pte[a].present
          /\ pte' = Noted(a, FALSE)
          /\ filesys_lock' = Nobody
          /\ task' = [task EXCEPT ![p] = User]
       \/ /\ ~ pte[a].present /\ State(a) # "load"
          /\ filesys_lock' = p
          /\ task' = [task EXCEPT ![p] = page_fault([@ EXCEPT !.ret = "name"], a)]
          /\ UNCHANGED pte
    /\ UNCHANGED <<frames, spte, disk, frame_table_lock, channel_lock, want>>

(* A page that was never loaded: page_fault acquires filesys_lock again.   *)
AcquiresTwice(p) ==
  At(p, "name") /\ filesys_lock \in {Nobody, p} /\ State(Page(p)) = "load"

-----------------------------------------------------------------------------
(* Mapped files and the end of a process.  munmap has filesys_lock only:   *)
(* between any two of its steps swap_out may choose its page, or be done   *)
(* with it.                                                                *)

Evicting == \E q \in Proc : At(q, "write") \/ At(q, "written")

(* swap_out has chosen this page and is not done with it. *)
BeingEvicted(a) == Evicting /\ fte[eviction_ptr].user = a

mmap(a) ==
  /\ At(Owner[a], "user") /\ Kind[a] = "mmap" /\ State(a) = "none"
  /\ filesys_lock = Nobody
  /\ spte' = [spte EXCEPT ![a] = lazy_load(allocate_page)]
  /\ want' = [want EXCEPT ![a] = file[a]]
  /\ UNCHANGED <<frames, pte, disk, locks, task>>

Ending == [User EXCEPT !.at = "exit", !.end = TRUE]

Mapped(p) == {a \in Pages(p) : Kind[a] = "mmap" /\ State(a) # "none"}

(* A call of the program, or process_exit for what is still mapped. *)
munmap(p, place) ==
  \E a \in Mapped(p) :
    /\ At(p, place)
    /\ task' = [task EXCEPT ![p] = [@ EXCEPT !.at = "munmap", !.page = a]]
    /\ UNCHANGED <<frames, pages, disk, locks, want>>

pagedir_is_dirty(a) == pte[a].dirty

Dirty(a) == spte[a].dirty \/ pagedir_is_dirty(a)

deallocate_page(a) == [spte EXCEPT ![a] = NoPage]

(* The end of munmap. *)
Unmapped(p) ==
  /\ spte' = deallocate_page(Page(p))
  /\ filesys_lock' = Nobody
  /\ task' = [task EXCEPT ![p] = IF @.end THEN Ending ELSE User]
  /\ want' = [want EXCEPT ![Page(p)] = 0]

(* What munmap finds.  The kernel's own mapping of a frame is always       *)
(* dirty.  A clean page that is evicted leaves its slot behind.            *)
munmap_look(p) ==
  LET a == Page(p)
      asis == State(a) = "load" \/ (State(a) = "evicted" /\ spte[a].kpage = NULL /\ ~ Dirty(a))
  IN /\ At(p, "munmap") /\ filesys_lock = Nobody
     /\ \/ asis /\ Unmapped(p)
        \/ /\ ~ asis
           /\ filesys_lock' = p
           /\ GoTo(p, IF State(a) = "mapped" THEN "munmap_pin" ELSE "flush")
           /\ UNCHANGED <<spte, want>>
     /\ UNCHANGED <<frames, pte, disk, frame_table_lock, channel_lock>>

(* swap_prevent_on, without frame_table_lock, and the test that follows. *)
munmap_pin(p) ==
  LET a == Page(p) IN
    /\ At(p, "munmap_pin")
    /\ \/ /\ find_fte(a) # NULL
          /\ fte' = SetPin(a, TRUE)
          /\ GoTo(p, IF Dirty(a) THEN "flush" ELSE "free")
       \/ /\ find_fte(a) = NULL /\ State(a) = "evicted" /\ task[p].why # "munmap_in"
          /\ task' = [task EXCEPT ![p] = [@ EXCEPT !.at = "alloc", !.why = "munmap_in"]]
          /\ UNCHANGED fte
    /\ UNCHANGED <<frame_list, eviction_ptr, used, mem, pages, disk, locks, want>>

(* file_write_at writes the page, or faults on it. *)
munmap_write(p) ==
  LET a == Page(p) IN
    /\ At(p, "flush")
    /\ \/ /\ pte[a].present
          /\ file' = [file EXCEPT ![a] = mem[pte[a].frame]]
          /\ channel_lock' = Nobody
          /\ GoTo(p, "free")
       \/ /\ ~ pte[a].present
          /\ channel_lock' \in {channel_lock, p}
          /\ task' = [task EXCEPT ![p] = page_fault([@ EXCEPT !.ret = "flush"], a)]
          /\ UNCHANGED file
    /\ UNCHANGED <<frames, pages, swap_table, swap, frame_table_lock, filesys_lock, want>>

munmap_free(p) ==
  LET a == Page(p) IN
    /\ At(p, "free") /\ State(a) = "mapped"
    /\ deallocate_fte(find_fte(a))
    /\ Unmapped(p)
    /\ UNCHANGED <<disk, frame_table_lock, channel_lock>>

(* exit(-1) somewhere in the kernel, up to the release of the locks in     *)
(* process_exit, which does not know of the lock of the disk.              *)
ProcessDies(p) ==
  /\ ~ task[p].end /\ channel_lock # p
  /\ frame_table_lock' = IF frame_table_lock = p THEN Nobody ELSE frame_table_lock
  /\ filesys_lock' = IF filesys_lock = p THEN Nobody ELSE filesys_lock
  /\ task' = [task EXCEPT ![p] = Ending]
  /\ UNCHANGED <<frames, pages, disk, channel_lock, want>>

(* swap_out with all slots in use. *)
SwapFull(p) == At(p, "alloc") /\ HasFrameLock(p) /\ used = Frame /\ swap_table = Slot

(* The page was evicted while munmap wrote it: deallocate_fte(NULL). *)
NullEntry(p) == At(p, "free") /\ State(Page(p)) = "evicted" /\ find_fte(Page(p)) = NULL

dies(p) == (SwapFull(p) \/ NullEntry(p)) /\ ProcessDies(p)

(* munmap frees the entry and the frame that swap_out is writing, which    *)
(* swap_out frees as well.                                                 *)
FreesTwice(p) == At(p, "free") /\ State(Page(p)) = "evicted" /\ find_fte(Page(p)) # NULL

(* The page was evicted between swap_in and the assertion in               *)
(* swap_prevent_on.                                                        *)
EvictedAgain(p) == At(p, "munmap_pin") /\ find_fte(Page(p)) = NULL /\ task[p].why = "munmap_in"

exit(p) ==
  /\ At(p, "user")
  /\ task' = [task EXCEPT ![p] = Ending]
  /\ UNCHANGED <<frames, pages, disk, locks, want>>

(* destroy_sup_page_table: the slots of evicted pages. *)
destroy_sup_page_table(p) ==
  /\ SwapFree({spte[a].slot : a \in {b \in Pages(p) : State(b) = "evicted"}})
  /\ spte' = [a \in UserPage |-> IF Owner[a] = p THEN NoPage ELSE spte[a]]

(* pagedir_destroy: the frames of present pages. *)
pagedir_destroy(p) ==
  LET gone == {pte[a].frame : a \in {b \in Pages(p) : pte[b].present}} IN
    /\ used' = used \ gone
    /\ mem' = Less(mem, gone)
    /\ pte' = [a \in UserPage |-> IF Owner[a] = p THEN NoPte ELSE pte[a]]

process_exit(p) ==
  /\ At(p, "exit") /\ Mapped(p) = {} /\ frame_table_lock = Nobody
  /\ destroy_sup_page_table(p)
  /\ deallocate_frame_owned_by_thread(p)
  /\ pagedir_destroy(p)
  /\ GoTo(p, "dead")
  /\ want' = [a \in UserPage |-> IF Owner[a] = p THEN 0 ELSE want[a]]
  /\ UNCHANGED <<file, locks>>

-----------------------------------------------------------------------------

(* What a process does once it is in the kernel. *)
Kernel(p) ==
  \/ page_fault_fslock(p) \/ allocate_frame(p)
  \/ evict(p) \/ evict_write(p) \/ evict_done(p)
  \/ grow_done(p) \/ swap_in_done(p) \/ load_done(p)
  \/ swap_prevent_on(p) \/ io(p) \/ swap_prevent_off(p) \/ name_read(p)
  \/ munmap(p, "exit") \/ munmap_look(p) \/ munmap_pin(p) \/ munmap_write(p) \/ munmap_free(p)
  \/ dies(p) \/ process_exit(p)

Program(p) ==
  \/ \E a \in Pages(p) :
       \/ \E write \in BOOLEAN : access(a, write)
       \/ touch(p, a) \/ read(p, a) \/ name(p, a) \/ mmap(a)
  \/ munmap(p, "user") \/ exit(p)

(* An assertion fails, freed memory is used, or a thread that has to die   *)
(* cannot: what follows is not modelled.                                   *)
Halts(p) ==
  /\ \/ (AcquiresTwice(p) \/ EvictedAgain(p)) /\ halt' = "assert"
     \/ FreesTwice(p) /\ halt' = "freed"
     \/ (SwapFull(p) \/ NullEntry(p)) /\ (task[p].end \/ channel_lock = p) /\ halt' = "dying"
  /\ UNCHANGED kernel

Runs(p) == halt = "no" /\ (Halts(p) \/ (Kernel(p) /\ UNCHANGED halt))

Next == \E p \in Proc : Runs(p) \/ (halt = "no" /\ Program(p) /\ UNCHANGED halt)

Spec == Init /\ [][Next]_vars

(* A thread in the kernel runs on.  The locks promise no more to one that  *)
(* waits: others may always be faster.                                     *)
FairSpec == Spec /\ \A p \in Proc : WF_vars(Runs(p))

-----------------------------------------------------------------------------

(* The page is neither on its way to the disk nor on its way back. *)
Settled(a) ==
  LET p == Owner[a] IN
    /\ ~ BeingEvicted(a)
    /\ Page(p) = a => task[p].at \notin {"unpin", "load", "read"}

ValueOf(a) ==
  CASE State(a) = "mapped" -> mem[spte[a].kpage]
    [] State(a) = "evicted" -> swap[spte[a].slot]
    [] OTHER -> Loaded(a)

(* A page holds what its process last put there, however often other       *)
(* processes made swap_out take its frame and whoever used the frame and   *)
(* the slot in between ("the process should have the illusion that they    *)
(* still have the page allocated to them", swap.c).                        *)
Illusion ==
  \A a \in UserPage : State(a) # "none" /\ Settled(a) => ValueOf(a) = want[a]

(* A frame with an entry belongs to one page, whose tables say so, and     *)
(* every page that is present has the frame: no page table leads to a      *)
(* frame that was given to somebody else.  Every frame taken from the pool *)
(* has an entry: frames of processes that ended, and of pages that were    *)
(* unmapped or evicted, are free again.  And the hand of the clock is on   *)
(* the list.                                                               *)
FramesOwned ==
  /\ Once(frame_list) /\ Members(frame_list) = DOMAIN fte
  /\ used = DOMAIN fte /\ eviction_ptr \in used \cup {NULL}
  /\ \A f \in DOMAIN fte : spte[fte[f].user].kpage = f
  /\ \A a \in UserPage :
       pte[a].present => pte[a].frame \in DOMAIN fte /\ fte[pte[a].frame].user = a

(* While a system call fills a buffer, its page is not evicted: it was     *)
(* present when filesys_lock was acquired, or nothing was there.           *)
BufferStays ==
  \A p \in Proc :
    At(p, "io") /\ State(Page(p)) # "none" /\ task[p].ret # "io" =>
      pte[Page(p)].present /\ fte[pte[Page(p)].frame].swap_prevention

(* swap_out goes round and round: all frames are pinned. *)
Spins == \E p \in Proc : At(p, "alloc") /\ HasFrameLock(p) /\ used = Frame /\ swap_table # Slot /\ Evictable = {}

(* One process has frame_table_lock and loads a page of its buffer from    *)
(* the disk, another has the lock of the disk and needs a frame.           *)
Embrace ==
  \E p, q \in Proc : p # q /\ channel_lock = p /\ At(p, "alloc") /\ frame_table_lock = q /\ At(q, "load")

(* A page fault or a call of the program begins. *)
Starts(p) == At(p, "user") /\ task'[p].at # "user"

(* Unless the kernel halts, swap_out never finds a frame, or the two locks *)
(* are waited for in a circle, frame_table_lock is released again and      *)
(* again, and every page fault and every call ends once no new ones begin. *)
KernelReturns ==
  \/ <>[](halt # "no" \/ Spins \/ Embrace)
  \/ /\ \A p \in Proc : []<>(frame_table_lock # p)
     /\ <>[][\A p \in Proc : ~ Starts(p)]_vars => \A p \in Proc : []<>(task[p].at \in {"user", "dead"})

(* munmap and the end of a process leave in the file what the process      *)
(* wrote through the mapping.                                              *)
WritesBack ==
  [][\A a \in UserPage :
       Kind[a] = "mmap" /\ State(a) # "none" /\ spte'[a].state = "none" =>
         file'[a] = want[a]]_vars

-----------------------------------------------------------------------------
(* The inductive invariant behind FramesOwned, Illusion and BufferStays:   *)
(* types ...                                                               *)
Place == {"user", "fslock", "alloc", "write", "written", "unpin", "read", "load",
          "pin", "io", "off", "name", "munmap", "munmap_pin", "flush", "free", "exit", "dead"}

Task == [at : Place, page : UserPage \cup {NULL},
         why : {"", "grow", "in", "load", "pin_in", "pin_load", "munmap_in"},
         ret : {"user", "io", "name", "flush"}, end : BOOLEAN]

PageEntry == [state : {"none", "load", "mapped", "evicted"},
              kpage : Frame \cup {NULL}, slot : Slot \cup {0}, dirty : BOOLEAN]

TableEntry == [frame : Frame \cup {NULL}, present : BOOLEAN, accessed : BOOLEAN, dirty : BOOLEAN]

TypeOK ==
  /\ frame_list \in Seq(Frame) /\ eviction_ptr \in Frame \cup {NULL}
  /\ used \subseteq Frame
  /\ fte \in [used -> [user : UserPage, swap_prevention : BOOLEAN]]
  /\ mem \in [used -> Nat]
  /\ spte \in [UserPage -> PageEntry] /\ pte \in [UserPage -> TableEntry]
  /\ swap_table \subseteq Slot /\ swap \in [DOMAIN swap -> Nat] /\ file \in [UserPage -> Nat]
  /\ frame_table_lock \in Proc \cup {Nobody}
  /\ task \in [Proc -> Task]
  /\ want \in [UserPage -> Nat]

(* ... who has frame_table_lock: swap_out is never at work twice at a      *)
(* time, nor is swap_in, but for munmap ...                                *)
NeedsLock(t) ==
  \/ t.at \in {"write", "written"}
  \/ t.at = "read" /\ t.why # "munmap_in"
  \/ t.at \in {"fslock", "alloc", "load"} /\ t.why \in {"pin_in", "pin_load"}

LockInv == \A p \in Proc : NeedsLock(task[p]) => frame_table_lock = p

(* ... a page table leads to the frame that the entries of the page and of *)
(* the frame agree on, and a frame whose page is not mapped is the one     *)
(* that swap_out works on ...                                              *)
FrameOK(f) ==
  /\ spte[fte[f].user].kpage = f
  /\ State(fte[f].user) = "mapped" \/ (Evicting /\ eviction_ptr = f)

PageOK(a) ==
  /\ pte[a].present <=> State(a) = "mapped"
  /\ State(a) = "mapped" => spte[a].kpage # NULL /\ pte[a].frame = spte[a].kpage
  /\ spte[a].kpage # NULL => spte[a].kpage \in used /\ fte[spte[a].kpage].user = a

FrameInv ==
  /\ Once(frame_list) /\ Members(frame_list) = used
  /\ eviction_ptr \in used \cup {NULL}
  /\ Evicting => eviction_ptr \in used /\ State(fte[eviction_ptr].user) = "evicted"
  /\ \A f \in used : FrameOK(f)
  /\ \A a \in UserPage : PageOK(a)

(* ... where a process stands in the kernel tells what state its page is   *)
(* in, and whether it is pinned ...                                        *)
Pinned(a) == State(a) = "mapped" /\ fte[spte[a].kpage].swap_prevention

TaskOK(p) ==
  LET t == task[p] IN
    /\ t.at \notin {"user", "exit", "dead"} => t.page \in UserPage /\ Owner[t.page] = p
    /\ t.at \in {"fslock", "alloc", "write", "written"} =>
         \/ t.why = "grow" /\ State(t.page) = "none"
         \/ t.why \in {"in", "pin_in", "munmap_in"} /\ State(t.page) = "evicted"
         \/ t.why \in {"load", "pin_load"} /\ State(t.page) = "load"
    /\ t.at \in {"unpin", "load", "read"} => Pinned(t.page)
    /\ t.at = "io" /\ t.ret # "io" => State(t.page) = "none" \/ Pinned(t.page)

TaskInv == \A p \in Proc : TaskOK(p)

(* ... a page that is in swap, or on its way back, has a slot of its own   *)
Reading(a) == At(Owner[a], "read") /\ Page(Owner[a]) = a
Writing(a) == (\E q \in Proc : At(q, "write")) /\ fte[eviction_ptr].user = a
InSwap(a) == State(a) = "evicted" \/ Reading(a)

SlotInv ==
  /\ \A a \in UserPage : InSwap(a) => spte[a].slot \in swap_table
  /\ \A a \in UserPage : InSwap(a) /\ ~ Writing(a) => spte[a].slot \in DOMAIN swap
  /\ \A a, b \in UserPage : InSwap(a) /\ InSwap(b) /\ spte[a].slot = spte[b].slot => a = b

(* ... and its value is in that place which is about to be read.           *)
Loading(a) == At(Owner[a], "load") /\ Page(Owner[a]) = a

ValueOK(a) ==
  /\ State(a) = "none" => want[a] = 0
  /\ State(a) = "load" \/ Loading(a) => want[a] = Loaded(a)
  /\ State(a) = "mapped" /\ ~ Loading(a) /\ ~ Reading(a) => mem[spte[a].kpage] = want[a]
  /\ InSwap(a) /\ Writing(a) => mem[eviction_ptr] = want[a]
  /\ InSwap(a) /\ ~ Writing(a) => swap[spte[a].slot] = want[a]

ValueInv == \A a \in UserPage : ValueOK(a)

VMInv == TypeOK /\ LockInv /\ FrameInv /\ TaskInv /\ SlotInv /\ ValueInv

=============================================================================
