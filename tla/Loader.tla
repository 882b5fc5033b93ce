------------------------------- MODULE Loader -------------------------------
(***************************************************************************)
(* userprog/process.c: what becomes of a command line and of an ELF file.  *)
(* parse_instruction cuts the line in memory into words, load turns the    *)
(* program headers into the supplemental page table, and stack_build puts  *)
(* the words on the stack.  Addresses have AddrBits bits.                  *)
(***************************************************************************)
EXTENDS Strings

CONSTANTS
  PGSIZE, PHYS_BASE, AddrBits,
  SP,           \* the character that separates words
  ArgMax        \* the pointers that start_process has room for

ASSUME LoaderAssumption ==
  /\ PGSIZE \in Nat \ {0} /\ AddrBits \in Nat /\ ArgMax \in Nat
  /\ PHYS_BASE \in 1 .. 2 ^ AddrBits - 1 /\ PHYS_BASE % PGSIZE = 0 /\ PHYS_BASE % 4 = 0

Wrap(x) == x % 2 ^ AddrBits
pg_ofs(x) == x % PGSIZE
pg_round_down(x) == x - pg_ofs(x)
ROUND_UP(x) == pg_round_down(Wrap(x + PGSIZE - 1))
is_user_vaddr(x) == x < PHYS_BASE

(* The addresses of the words of the line at s, behind those in argv, and  *)
(* memory with each word ended by a NUL.  Nothing stops the loop at the    *)
(* end of the caller's array: what is stored past it is not argv's.        *)
RECURSIVE ParseFrom(_, _, _)
ParseFrom(m, s, argv) ==
  LET t == strtok_r(m, s, {SP}) IN
    IF t.token = None THEN [argv |-> argv, mem |-> m]
    ELSE ParseFrom(t.mem, t.save, Append(argv, t.token))

parse_instruction(m, s) ==
  LET p == ParseFrom(m, s, <<>>) IN p @@ [overrun |-> Len(p.argv) > ArgMax]

-----------------------------------------------------------------------------
(* The stack is a function from addresses to what was stored there: a      *)
(* character, or a word of four bytes at the address of its first byte.    *)

Push(st, size, at) == [esp |-> st.esp - size, mem |-> at @@ st.mem]

PushWord(st, w) == Push(st, 4, (st.esp - 4) :> w)

(* The word and its NUL, and the address it got. *)
PushString(st, str) ==
  LET len == Len(str) + 1
      esp == st.esp - len
      new == Push(st, len, [a \in esp .. st.esp - 1 |->
                              IF a = st.esp - 1 THEN NUL ELSE str[a - esp + 1]])
  IN new @@ [argv |-> <<esp>> \o st.argv]

(* Bytes that bring esp to a multiple of four. *)
Padding(esp) == LET align_manage == 4 - ((PHYS_BASE - esp) % 4) IN
  IF align_manage # 4 THEN align_manage ELSE 0

stack_build(args) ==
  LET start == [esp |-> PHYS_BASE, mem |-> <<>>, argv |-> <<>>]
      strs == FoldRight(LAMBDA a, st : PushString(st, a), args, start)
      null == PushWord([strs EXCEPT !.esp = @ - Padding(@)], 0)
      ptrs == FoldRight(LAMBDA p, st : PushWord(st, p), strs.argv, null)
      argv == PushWord(ptrs, ptrs.esp)
      argc == PushWord(argv, Len(args))
  IN PushWord(argc, 0)

-----------------------------------------------------------------------------
(* load: a program header is [p_type, p_offset, p_vaddr, p_filesz,         *)
(* p_memsz, writable]; an executable is [created, opened, header, length,  *)
(* e_phnum, phdrs], its fields saying which of load's checks it passes.    *)

(* Bug: the end of the region may wrap around. *)
validate_segment_Wraps(ph, length) ==
  /\ pg_ofs(ph.p_offset) = pg_ofs(ph.p_vaddr)
  /\ ph.p_offset <= length
  /\ ph.p_memsz >= ph.p_filesz /\ ph.p_memsz # 0
  /\ is_user_vaddr(ph.p_vaddr) /\ is_user_vaddr(Wrap(ph.p_vaddr + ph.p_memsz))
  /\ ph.p_vaddr >= PGSIZE

validate_segment(ph, length) ==
  /\ pg_ofs(ph.p_offset) = pg_ofs(ph.p_vaddr)
  /\ ph.p_offset <= length
  /\ ph.p_memsz >= ph.p_filesz /\ ph.p_memsz # 0
  /\ is_user_vaddr(ph.p_vaddr) /\ is_user_vaddr(Wrap(ph.p_vaddr + ph.p_memsz))
  /\ Wrap(ph.p_vaddr + ph.p_memsz) >= ph.p_vaddr
  /\ ph.p_vaddr >= PGSIZE

ReadBytes(ph) == IF ph.p_filesz > 0 THEN pg_ofs(ph.p_vaddr) + ph.p_filesz ELSE 0

ZeroBytes(ph) == Wrap(ROUND_UP(pg_ofs(ph.p_vaddr) + ph.p_memsz) - ReadBytes(ph))

(* The entry of the k-th page of a segment, from 0. *)
PageEntry(ofs, read, k, writable) ==
  [ofs |-> ofs + k * PGSIZE, page_read_bytes |-> Max({0, Min({PGSIZE, read - k * PGSIZE})}),
   writable |-> writable]

(* Pages that are in the table keep their entry: hash_insert. *)
load_segment(spt, ofs, upage, read, zero, writable) ==
  LET pages == {upage + k * PGSIZE : k \in 0 .. ((read + zero) \div PGSIZE) - 1}
      entry == [u \in pages |-> PageEntry(ofs, read, (u - upage) \div PGSIZE, writable)]
  IN spt @@ entry

(* One program header after another; at is [ok, spt]. *)
LoadHeader(file, at, i) ==
  LET ph == file.phdrs[i] IN
    IF ~at.ok THEN at
    ELSE IF i > Len(file.phdrs) THEN [at EXCEPT !.ok = FALSE]     \* short read
    ELSE IF ph.p_type \in {"PT_DYNAMIC", "PT_INTERP", "PT_SHLIB"} THEN [at EXCEPT !.ok = FALSE]
    ELSE IF ph.p_type # "PT_LOAD" THEN at
    ELSE IF ~validate_segment(ph, file.length) THEN [at EXCEPT !.ok = FALSE]
    ELSE [at EXCEPT !.spt = load_segment(@, pg_round_down(ph.p_offset), pg_round_down(ph.p_vaddr),
                                         ReadBytes(ph), ZeroBytes(ph), ph.writable)]

(* The executable is protected from writing whenever it is open. *)
Denies(file, at) == file.opened

load(file) ==
  LET none == [ok |-> FALSE, spt |-> <<>>]
      all == FoldLeft(LAMBDA at, i : LoadHeader(file, at, i), [none EXCEPT !.ok = TRUE],
                      [i \in 1 .. file.e_phnum |-> i])
      at == IF file.created /\ file.opened /\ file.header THEN all ELSE none
  IN at @@ [denied |-> file.created /\ Denies(file, at)]

-----------------------------------------------------------------------------

(* parse_instruction finds the words of the line in their order: argument  *)
(* k starts where the k-th word does, and a NUL ends it where the word     *)
(* ended, whatever runs of spaces are around it.  It stores past the array *)
(* of its caller on no line of ArgMax words or fewer; a longer line is not *)
(* refused anywhere, and nothing is said of what becomes of it.            *)
WordsParsed(m) ==
  LET len == strlen(m, 0)
      p == parse_instruction(m, 0)
      Starts == {a \in 0 .. len - 1 : m[a] # SP /\ (a = 0 \/ m[a - 1] = SP)}
      EndOf(a) == Min({e \in a .. len : e = len \/ m[e] = SP})
  IN Cardinality(Starts) <= ArgMax =>
     /\ ~p.overrun /\ ToSet(p.argv) = Starts
     /\ \A i, j \in DOMAIN p.argv : i < j => p.argv[i] < p.argv[j]
     /\ \A a \in Starts :
          /\ a + strlen(p.mem, a) = EndOf(a)
          /\ \A k \in a .. EndOf(a) - 1 : p.mem[k] = m[k]

(* At entry the stack is as a C function called with argc and argv finds   *)
(* it: aligned, argv[0 .. argc-1] pointing to the arguments, each whole    *)
(* and ended by a NUL, and argv[argc] null.                                *)
StackLaidOut(args) ==
  LET st == stack_build(args)
      argc == st.mem[st.esp + 4]
      argv == st.mem[st.esp + 8]
      StringAt(a) ==
        LET n == CHOOSE n \in 0 .. PHYS_BASE - a - 1 :
                   st.mem[a + n] = NUL /\ \A k \in 0 .. n - 1 : st.mem[a + k] # NUL
        IN [k \in 1 .. n |-> st.mem[a + k - 1]]
  IN /\ st.esp % 4 = 0 /\ argc = Len(args)
     /\ \A i \in 1 .. argc : StringAt(st.mem[argv + 4 * (i - 1)]) = args[i]
     /\ st.mem[argv + 4 * argc] = 0
     /\ \A i \in 1 .. argc : st.mem[argv + 4 * (i - 1)] >= argv + 4 * (argc + 1)

(* After a successful load each byte of a segment comes from its place in  *)
(* the file or is zero, and no page is page 0 or a kernel page, for any    *)
(* values of the header's fields; a rejected or unreadable file is not     *)
(* loaded, and an open one can no longer be written.                       *)
SegmentsMapped(file) ==
  LET r == load(file)
      Source(a) ==
        LET e == r.spt[pg_round_down(a)]
        IN IF pg_ofs(a) < e.page_read_bytes THEN e.ofs + pg_ofs(a) ELSE None
  IN /\ file.created /\ file.opened => r.denied
     /\ r.ok =>
          /\ file.e_phnum <= Len(file.phdrs)
          /\ \A u \in DOMAIN r.spt : u \in PGSIZE .. PHYS_BASE - PGSIZE
          /\ \A i \in 1 .. file.e_phnum :
               LET ph == file.phdrs[i] IN
                 ph.p_type = "PT_LOAD" =>
                   \A b \in 0 .. ph.p_memsz - 1 :
                     /\ pg_round_down(ph.p_vaddr + b) \in DOMAIN r.spt
                     /\ Source(ph.p_vaddr + b) = IF b < ph.p_filesz THEN ph.p_offset + b ELSE None

=============================================================================
