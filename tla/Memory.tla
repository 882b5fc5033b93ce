------------------------------- MODULE Memory -------------------------------
(***************************************************************************)
(* threads/malloc.c over threads/palloc.c: blocks of a descriptor's size   *)
(* in arenas of one page, and big blocks of whole pages.  The pool has a   *)
(* lock and each descriptor has one; pages are freed without the pool's.   *)
(*                                                                         *)
(* Addresses are numbers, a page is PageSize of them, and a descriptor is  *)
(* its block size.                                                         *)
(*                                                                         *)
(*   used_map   pages marked in the pool's bitmap                          *)
(*   desc       [free_list, lock] of each descriptor                       *)
(*   arena      the headers: [desc (0 for a big block), free_cnt]          *)
(*   mem        who wrote last to each address                             *)
(*   own        the blocks each thread has: [size, good], of which the     *)
(*              first good bytes are its own                               *)
(***************************************************************************)
EXTENDS Integers, SequencesExt

CONSTANTS
  Caller, Nobody,
  PageCnt,      \* pages of the pool
  PageSize, HeaderSize,
  MinBlock,     \* the smallest descriptor
  Size,         \* sizes that threads ask for
  MaxOwn        \* bound on the blocks of a thread

ASSUME MemoryAssumption ==
  /\ Nobody \notin Caller
  /\ PageCnt \in Nat /\ PageSize \in Nat /\ HeaderSize \in 1 .. PageSize - 1
  /\ Size \subseteq Nat \ {0} /\ MinBlock \in Nat \ {0} /\ MaxOwn \in Nat

VARIABLES used_map, pool_lock, desc, arena, mem, own, task

memoryVars == <<used_map, pool_lock, desc, arena, mem, own, task>>

Page == 0 .. PageCnt - 1
Units(a, n) == a .. a + n - 1
Memory == Units(0, PageCnt * PageSize)
NoBlock == 0 - 1

(* The block sizes that malloc_init makes descriptors for. *)
malloc_init == {d \in 1 .. PageSize : 2 * d < PageSize /\ \E k \in 0 .. d : d = MinBlock * 2 ^ k}

blocks_per_arena(d) == (PageSize - HeaderSize) \div d

(* The descriptor of a size, or 0. *)
DescOf(size) ==
  LET fit == {d \in malloc_init : d >= size} IN IF fit = {} THEN 0 ELSE Min(fit)

arena_to_block(pg, i, d) == pg * PageSize + HeaderSize + i * d
block_to_arena(b) == b \div PageSize

block_size(b) ==
  LET a == arena[block_to_arena(b)] IN
    IF a.desc # 0 THEN a.desc ELSE PageSize * a.free_cnt - (b % PageSize)

Blocks(pg, d) == [i \in 1 .. blocks_per_arena(d) |-> arena_to_block(pg, i - 1, d)]

-----------------------------------------------------------------------------

(* A call: where it is, the size it wants and its descriptor, the block it *)
(* frees, and the pages that palloc looks for or frees.                    *)
Out == [at |-> "out", size |-> 0, desc |-> 0, old |-> NoBlock, pg |-> 0, cnt |-> 0, hope |-> FALSE]

MemoryInit ==
  /\ used_map = {} /\ pool_lock = Nobody
  /\ desc = [d \in malloc_init |-> [free_list |-> <<>>, lock |-> Nobody]]
  /\ arena = <<>>
  /\ mem = [u \in Memory |-> Nobody]
  /\ own = [t \in Caller |-> <<>>]
  /\ task = [t \in Caller |-> Out]

Doing(t, place) == task[t].at = place
GoTo(t, place) == task' = [task EXCEPT ![t].at = place]

(* malloc up to its lock, for a caller that goes on to free old, which is  *)
(* realloc's block or NoBlock.                                             *)
malloc_from(t, size, old) ==
  LET d == DescOf(size) IN
    [Out EXCEPT !.size = size, !.old = old, !.desc = d,
                !.at = IF d # 0 THEN "lock" ELSE "palloc",
                !.cnt = IF d # 0 THEN 1 ELSE (size + HeaderSize + PageSize - 1) \div PageSize]

malloc(t, size) ==
  /\ Doing(t, "out") /\ Cardinality(DOMAIN own[t]) < MaxOwn
  /\ task' = [task EXCEPT ![t] = malloc_from(t, size, NoBlock)]
  /\ UNCHANGED <<used_map, pool_lock, desc, arena, mem, own>>

realloc(t, b, size) ==
  /\ Doing(t, "out")
  /\ task' = [task EXCEPT ![t] = malloc_from(t, size, b)]
  /\ UNCHANGED <<used_map, pool_lock, desc, arena, mem, own>>

(* The block as free leaves it, before the lock. *)
free_from(t, m, b) ==
  LET a == block_to_arena(b) IN
    IF arena[a].desc # 0
    THEN [mem |-> [u \in Memory |-> IF u \in Units(b, arena[a].desc) THEN Nobody ELSE m[u]],
          task |-> [Out EXCEPT !.at = "free", !.old = b, !.desc = arena[a].desc]]
    ELSE [mem |-> m, task |-> [Out EXCEPT !.at = "pfree", !.pg = a, !.cnt = arena[a].free_cnt]]

free(t, b) ==
  LET f == free_from(t, mem, b) IN
    /\ Doing(t, "out")
    /\ own' = [own EXCEPT ![t] = Restrict(@, DOMAIN @ \ {b})]
    /\ mem' = f.mem
    /\ task' = [task EXCEPT ![t] = f.task]
    /\ UNCHANGED <<used_map, pool_lock, desc, arena>>

(* How much realloc copies. *)
Kept(b, new_size) == Min({block_size(b), new_size})

(* malloc returns b; the caller fills it, or realloc copies old and frees  *)
(* it.                                                                     *)
Got(t, b) ==
  LET k == task[t]
      n == IF k.old = NoBlock THEN k.size ELSE Kept(k.old, k.size)
      m == [u \in Memory |-> IF u \notin Units(b, n) THEN mem[u]
                             ELSE IF k.old = NoBlock THEN t ELSE mem[k.old + u - b]]
      new == b :> [size |-> k.size, good |-> IF k.old = NoBlock THEN n
                                             ELSE Min({own[t][k.old].good, k.size})]
      f == free_from(t, m, k.old)
  IN IF k.old = NoBlock
     THEN /\ mem' = m
          /\ own' = [own EXCEPT ![t] = new @@ @]
          /\ task' = [task EXCEPT ![t] = Out]
     ELSE /\ mem' = f.mem
          /\ own' = [own EXCEPT ![t] = new @@ Restrict(@, DOMAIN @ \ {k.old})]
          /\ task' = [task EXCEPT ![t] = f.task]

(* malloc with the descriptor's lock.  Nobody sees what happens between    *)
(* the lock and its release, unless a page is needed.                      *)
malloc_lock(t) ==
  LET d == task[t].desc
      b == Head(desc[d].free_list)
  IN /\ Doing(t, "lock") /\ desc[d].lock = Nobody
     /\ \/ /\ desc[d].free_list # <<>>
           /\ desc' = [desc EXCEPT ![d].free_list = Tail(@)]
           /\ arena' = [arena EXCEPT ![block_to_arena(b)].free_cnt = @ - 1]
           /\ Got(t, b)
        \/ /\ desc[d].free_list = <<>>
           /\ desc' = [desc EXCEPT ![d].lock = t]
           /\ GoTo(t, "palloc")
           /\ UNCHANGED <<arena, mem, own>>
     /\ UNCHANGED <<used_map, pool_lock>>

(* bitmap_scan finds the pages from pg on free. *)
Group(pg, cnt) == Units(pg, cnt) \cap used_map = {}

(* Bug: the pool is not locked. *)
palloc_get_multiple_NoLock(t) ==
  /\ Doing(t, "palloc")
  /\ task' = [task EXCEPT ![t] = [@ EXCEPT !.at = "scan", !.pg = 0,
                !.hope = \E pg \in 0 .. PageCnt - task[t].cnt : Group(pg, task[t].cnt)]]
  /\ UNCHANGED <<used_map, pool_lock, desc, arena, mem, own>>

palloc_get_multiple(t) ==
  /\ Doing(t, "palloc") /\ pool_lock = Nobody
  /\ pool_lock' = t
  /\ task' = [task EXCEPT ![t] = [@ EXCEPT !.at = "scan", !.pg = 0,
                !.hope = \E pg \in 0 .. PageCnt - task[t].cnt : Group(pg, task[t].cnt)]]
  /\ UNCHANGED <<used_map, desc, arena, mem, own>>

(* Bug: the last group is not tried. *)
bitmap_scan_StopsEarly(t) ==
  LET k == task[t] IN
    /\ Doing(t, "scan")
    /\ task' = [task EXCEPT ![t] =
                  CASE k.pg >= PageCnt - k.cnt -> [@ EXCEPT !.at = "none"]
                    [] OTHER -> IF Group(k.pg, k.cnt) THEN [@ EXCEPT !.at = "flip"]
                                ELSE [@ EXCEPT !.pg = k.pg + 1]]
    /\ UNCHANGED <<used_map, pool_lock, desc, arena, mem, own>>

(* One turn of its loop: pages may become free in between. *)
bitmap_scan(t) ==
  LET k == task[t] IN
    /\ Doing(t, "scan")
    /\ task' = [task EXCEPT ![t] =
                  CASE k.pg > PageCnt - k.cnt -> [@ EXCEPT !.at = "none"]
                    [] OTHER -> IF Group(k.pg, k.cnt) THEN [@ EXCEPT !.at = "flip"]
                                ELSE [@ EXCEPT !.pg = k.pg + 1]]
    /\ UNCHANGED <<used_map, pool_lock, desc, arena, mem, own>>

(* bitmap_scan_and_flip marks the pages. *)
bitmap_flip(t) ==
  /\ Doing(t, "flip")
  /\ used_map' = used_map \cup Units(task[t].pg, task[t].cnt)
  /\ pool_lock' = Nobody
  /\ GoTo(t, "page")
  /\ UNCHANGED <<desc, arena, mem, own>>

(* The descriptor's lock, if this call has it. *)
Unlock(d, list) == IF d = 0 THEN desc ELSE [desc EXCEPT ![d] = [free_list |-> list, lock |-> Nobody]]

(* A new arena gives its first block; its others are the free list. *)
malloc_page(t) ==
  LET k == task[t]
      blocks == Blocks(k.pg, k.desc)
      header == IF k.desc = 0 THEN [desc |-> 0, free_cnt |-> k.cnt]
                ELSE [desc |-> k.desc, free_cnt |-> Len(blocks) - 1]
  IN /\ Doing(t, "page")
     /\ arena' = (k.pg :> header) @@ arena
     /\ desc' = Unlock(k.desc, IF k.desc = 0 THEN <<>> ELSE Tail(blocks))
     /\ Got(t, arena_to_block(k.pg, 0, 0))
     /\ UNCHANGED <<used_map, pool_lock>>

(* No pages: malloc returns NULL, and realloc leaves the block alone. *)
malloc_null(t) ==
  /\ Doing(t, "none")
  /\ pool_lock' = Nobody
  /\ desc' = Unlock(task[t].desc, <<>>)
  /\ task' = [task EXCEPT ![t] = Out]
  /\ UNCHANGED <<used_map, arena, mem, own>>

(* Bug: off by one, the arena stays. *)
free_lock_Keeps(t) ==
  LET d == task[t].desc
      b == task[t].old
      a == block_to_arena(b)
  IN /\ Doing(t, "free") /\ desc[d].lock = Nobody
     /\ desc' = [desc EXCEPT ![d].free_list = <<b>> \o @]
     /\ arena' = [arena EXCEPT ![a].free_cnt = @ + 1]
     /\ task' = [task EXCEPT ![t] = Out]
     /\ UNCHANGED <<used_map, pool_lock, mem, own>>

(* free with the descriptor's lock. *)
free_lock(t) ==
  LET d == task[t].desc
      b == task[t].old
      a == block_to_arena(b)
      all == arena[a].free_cnt + 1 >= blocks_per_arena(d)
      list == <<b>> \o desc[d].free_list
  IN /\ Doing(t, "free") /\ desc[d].lock = Nobody
     /\ desc' = [desc EXCEPT ![d] =
                   IF all THEN [free_list |-> SelectSeq(list, LAMBDA x : block_to_arena(x) # a), lock |-> t]
                   ELSE [free_list |-> list, lock |-> Nobody]]
     /\ arena' = [arena EXCEPT ![a].free_cnt = @ + 1]
     /\ task' = [task EXCEPT ![t] = IF all THEN [@ EXCEPT !.at = "pfree", !.pg = a, !.cnt = 1] ELSE Out]
     /\ UNCHANGED <<used_map, pool_lock, mem, own>>

(* palloc_free_multiple overwrites the pages, header included. *)
palloc_free_multiple(t) ==
  LET k == task[t] IN
    /\ Doing(t, "pfree")
    /\ mem' = [u \in Memory |-> IF u \in Units(k.pg * PageSize, k.cnt * PageSize) THEN Nobody ELSE mem[u]]
    /\ arena' = Restrict(arena, DOMAIN arena \ {k.pg})
    /\ GoTo(t, "reset")
    /\ UNCHANGED <<used_map, pool_lock, desc, own>>

(* bitmap_set_multiple, one bit at a time and without the lock. *)
bitmap_reset(t) ==
  LET k == task[t] IN
    /\ Doing(t, "reset")
    /\ used_map' = used_map \ {k.pg}
    /\ task' = [task EXCEPT ![t] = IF k.cnt = 1 THEN Out ELSE [@ EXCEPT !.pg = k.pg + 1, !.cnt = k.cnt - 1]]
    /\ desc' = IF k.cnt = 1 /\ k.desc # 0 THEN [desc EXCEPT ![k.desc].lock = Nobody] ELSE desc
    /\ UNCHANGED <<pool_lock, arena, mem, own>>

-----------------------------------------------------------------------------

Run(t) ==
  \/ malloc_lock(t) \/ palloc_get_multiple(t) \/ bitmap_scan(t) \/ bitmap_flip(t)
  \/ malloc_page(t) \/ malloc_null(t)
  \/ free_lock(t) \/ palloc_free_multiple(t) \/ bitmap_reset(t)

Calls(t) ==
  \/ \E size \in Size : malloc(t, size)
  \/ \E b \in DOMAIN own[t] : free(t, b) \/ \E size \in Size : realloc(t, b, size)

MemoryNext == \E t \in Caller : Run(t) \/ Calls(t)

MemorySpec == MemoryInit /\ [][MemoryNext]_memoryVars

(* Threads run.  Nothing says who gets a lock: a thread that runs may take *)
(* it again before the one that sema_up has woken does.                    *)
FairMemorySpec == MemorySpec /\ \A t \in Caller : WF_memoryVars(Run(t))

-----------------------------------------------------------------------------

(* Every block that a thread has, or is about to free, with its extent. *)
Held(t) ==
  {[at |-> b, size |-> own[t][b].size] : b \in DOMAIN own[t]}
    \cup {[at |-> task[t].old, size |-> task[t].desc] : x \in {y \in {t} : Doing(y, "free")}}

FreeBlocks == UNION {{[at |-> b, size |-> d] : b \in ToSet(desc[d].free_list)} : d \in DOMAIN desc}

(* No two blocks that are in use, or one in use and one on a free list,    *)
(* share a byte, whichever way malloc, realloc and free of several threads *)
(* meet, and all lie in pages that the pool has marked.  What a thread     *)
(* wrote into a block is there until it frees the block, and realloc keeps *)
(* what fits: nobody else's free, realloc or new page overwrites it.       *)
BlocksKept ==
  LET all == (UNION {Held(t) : t \in Caller}) \cup FreeBlocks IN
    /\ \A x, y \in all : x # y => Units(x.at, x.size) \cap Units(y.at, y.size) = {}
    /\ \A x \in all : \A u \in Units(x.at, x.size) : u \div PageSize \in used_map
    /\ \A t1, t2 \in Caller : t1 # t2 => Held(t1) \cap Held(t2) = {}
    /\ \A t \in Caller : \A b \in DOMAIN own[t] : \A u \in Units(b, own[t][b].good) : mem[u] = t

(* free_cnt of an arena is the number of its blocks on the free list, and  *)
(* an arena with no block in use does not stay, once its lock is free.     *)
(* When every block was freed, every page is free again (free, malloc,     *)
(* palloc_free_multiple).                                                  *)
PagesReturned ==
  /\ \A pg \in DOMAIN arena :
       LET d == arena[pg].desc
           n == Cardinality({b \in ToSet(desc[d].free_list) : block_to_arena(b) = pg})
       IN d # 0 /\ desc[d].lock = Nobody => arena[pg].free_cnt = n /\ n < blocks_per_arena(d)
  /\ (\A t \in Caller : Doing(t, "out") /\ own[t] = <<>>) => used_map = {} /\ arena = <<>>

Starts(t) == Doing(t, "out") /\ task'[t].at # "out"

(* Nobody keeps the pool's lock for ever, and nobody waits for a lock that *)
(* is not given back: every call returns once no new ones come.  (Until    *)
(* then a thread that calls again and again may keep another from the      *)
(* pool's lock, even one that has a descriptor's lock.)  And malloc fails  *)
(* for want of pages only if there were none in a row when bitmap_scan     *)
(* began, although pages are freed behind its back.                        *)
EveryCallReturns ==
  /\ \A t \in Caller : []<>(pool_lock # t)
  /\ (<>[][\A t \in Caller : ~Starts(t)]_memoryVars) => \A t \in Caller : []<>Doing(t, "out")
  /\ [](\A t \in Caller : Doing(t, "none") => ~ task[t].hope)

=============================================================================
