------------------------------- MODULE Table -------------------------------
(***************************************************************************)
(* What lib/kernel/hash.h promises: a set of elements no two of which have *)
(* the same key, and calls that return the element they found.             *)
(***************************************************************************)
CONSTANTS Elem, Id(_), Nothing

VARIABLES
  content,     \* the elements of the table
  found        \* what the last call returned

Same(e) == {x \in content : Id(x) = Id(e)}
Found(e) == IF Same(e) = {} THEN Nothing ELSE CHOOSE x \in Same(e) : TRUE

Init == content = {} /\ found = Nothing

Insert(e) == content' = (IF Same(e) = {} THEN content \cup {e} ELSE content) /\ found' = Found(e)
Replace(e) == content' = (content \ Same(e)) \cup {e} /\ found' = Found(e)
Find(e) == content' = content /\ found' = Found(e)
Delete(e) == content' = content \ Same(e) /\ found' = Found(e)
Clear == content' = {} /\ found' = Nothing

Next == Clear \/ \E e \in Elem : Insert(e) \/ Replace(e) \/ Find(e) \/ Delete(e)

Spec == Init /\ [][Next]_<<content, found>>

=============================================================================
