------------------------------- MODULE Pools -------------------------------
(***************************************************************************)
(* threads/palloc.c: how palloc_init divides the memory behind the kernel  *)
(* into the kernel's and the user's pool, each with its bitmap in front.   *)
(* Pages are numbered; a page holds PageBytes bytes.                       *)
(***************************************************************************)
EXTENDS Bitmap

CONSTANTS
  PageBytes,
  ElemBytes,        \* sizeof (elem_type)
  HeaderBytes       \* sizeof (struct bitmap)

ASSUME PoolsAssumption ==
  PageBytes \in Nat \ {0} /\ ElemBytes \in Nat \ {0} /\ HeaderBytes \in Nat

byte_cnt(bit_cnt) == ElemBytes * elem_cnt(bit_cnt)
bitmap_buf_size(bit_cnt) == HeaderBytes + byte_cnt(bit_cnt)

BitmapPages(page_cnt) == DIV_ROUND_UP(bitmap_buf_size(page_cnt), PageBytes)

Panic == [panic |-> TRUE]

(* A pool is [map: first page of its bitmap, base, bits]. *)
init_pool(base, page_cnt) ==
  LET bm_pages == BitmapPages(page_cnt) IN
    IF bm_pages > page_cnt THEN Panic
    ELSE [panic |-> FALSE, map |-> base, base |-> base + bm_pages, bits |-> page_cnt - bm_pages]

palloc_init(free_start, free_end, user_page_limit) ==
  LET free_pages == free_end - free_start
      user_pages == Min({free_pages \div 2, user_page_limit})
      kernel_pages == free_pages - user_pages
  IN [kernel |-> init_pool(free_start, kernel_pages),
      user |-> init_pool(free_start + kernel_pages, user_pages)]

page_from_pool(pool, page) == page >= pool.base /\ page < pool.base + pool.bits

-----------------------------------------------------------------------------

(* Pages of the two pools are pages of free memory, no page is in both or  *)
(* under a bitmap, and each bitmap fits in front of its pages with a bit   *)
(* for each, whatever the memory's size and the limit of the user's pool.  *)
PoolsApart(start, end, limit) ==
  LET p == palloc_init(start, end, limit)
      Of(x) == {g \in start .. end : page_from_pool(x, g)}
      Map(x) == x.map .. x.base - 1
  IN (~p.kernel.panic /\ ~p.user.panic) =>
       /\ Of(p.kernel) \cap Of(p.user) = {}
       /\ \A x, y \in {p.kernel, p.user} :
            /\ Of(x) \cap Map(y) = {} /\ Of(x) \cup Map(x) \subseteq start .. end - 1
            /\ Cardinality(Map(x)) * PageBytes >= bitmap_buf_size(x.bits)
       /\ UNION {Of(x) \cup Map(x) : x \in {p.kernel, p.user}} = start .. end - 1

=============================================================================
