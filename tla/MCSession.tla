----------------------------- MODULE MCSession ------------------------------
(* Session with two discovery messages, one typed zero, one measured one,   *)
(* and room for three of the messages that may be waiting.             *)
EXTENDS Session

AsFlashed == [offset |-> 1, heartbeat |-> 10]
=============================================================================
