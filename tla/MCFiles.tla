------------------------------ MODULE MCFiles ------------------------------
(* The file system calls on a small disk. *)
EXTENDS Files

Sh == [abs |-> TRUE, dirs |-> <<>>, name |-> "sh"]
Paths == {Sh, [abs |-> FALSE, dirs |-> <<>>, name |-> "a"]}
DirPaths == {[abs |-> FALSE, dirs |-> <<>>, name |-> "d"],
             [abs |-> FALSE, dirs |-> <<>>, name |-> ".."]}

Symmetry == Permutations(Proc)

(* States that differ only in how many calls led to them are the same. *)
NoCalls == <<s, fd, curr_dir, exe, boot, want>>

=============================================================================
