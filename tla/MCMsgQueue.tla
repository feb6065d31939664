----------------------------- MODULE MCMsgQueue -----------------------------
(* Instance of MsgQueue for TLC. *)
EXTENDS MsgQueue

\* Sent at once, a millisecond later, and late enough to be overtaken.
MCDelays == {0, 1, 3}
=============================================================================
