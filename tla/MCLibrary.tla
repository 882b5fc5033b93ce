----------------------------- MODULE MCLibrary -----------------------------
(* Words of four bits, pages of four bytes, addresses of seven bits, two   *)
(* keys for four list elements, and two table elements of one key.         *)
EXTENDS Library

CONSTANTS e1, e2, e3, e4

KeyOf(e) == IF e \in {e1, e2} THEN 1 ELSE 2
IdOf(e) == e % 10

(* Elements with the same key are alike, and so are the lists. *)
Alike == Permutations({e1, e2}) \cup Permutations({e3, e4}) \cup Permutations(List)

AllAddresses == 0 .. 5
AllWords == {<<1>>, <<1, 2>>, <<2, 1, 2>>, <<1, 1, 2, 2>>}
AllEnds == 10 .. 34
SomeLoads == {0, 1, 4, 5, 63, 64, 100, 256, 257, 640, 1024}
SomeRecents == {-1000, -257, -256, -129, -128, -127, -1} \cup {37 * k : k \in 0 .. 40} \cup {512, 25600}
SomeNices == {-20, -1, 0, 3, 20}
AllLimits == {0, 1, 2, 3, 5, 100}

Header(type, ofs, va, fs, ms) ==
  [p_type |-> type, p_offset |-> ofs, p_vaddr |-> va, p_filesz |-> fs, p_memsz |-> ms,
   writable |-> ofs = 0]

AllHeaders ==
  {Header("PT_LOAD", ofs, va, fs, ms) :
     ofs \in 0 .. 6, va \in {0, 1, 3, 4, 5, 6, 88, 91, 92, 95, 96, 127},
     fs \in {0, 1, 2, 4, 5, 9}, ms \in {0, 1, 2, 4, 5, 6, 9, 36, 40, 120, 127}}

OtherHeaders ==
  {Header(t, 1, va, 2, ms) : t \in {"PT_LOAD", "PT_NULL", "PT_DYNAMIC"}, va \in {5, 21}, ms \in {1, 9}}

=============================================================================
