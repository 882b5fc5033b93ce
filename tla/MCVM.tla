-------------------------------- MODULE MCVM --------------------------------
(* Two processes whose pages do not fit in the frames. *)
EXTENDS VM, TLC

CONSTANTS p1, p2

Kinds == "st" :> "stack" @@ "ex" :> "exec" @@ "mm" :> "mmap"
Tokens == "st" :> 1 @@ "ex" :> 2 @@ "mm" :> 3
MCOwner == "st" :> p1 @@ "mm" :> p1 @@ "ex" :> p2
=============================================================================
