----------------------------- MODULE MCProcess -----------------------------
(* The initial thread and two processes that it or each other start. *)
EXTENDS Process

MCStatus == {-1, 7}
=============================================================================
