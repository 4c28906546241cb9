--------------------------- MODULE MCMessageQueue ---------------------------
(***************************************************************************)
(* An instance of MessageQueue for TLC: every consumer serves the queue    *)
(* qa, but c3 another one.                                                 *)
(***************************************************************************)
EXTENDS MessageQueue

CONSTANTS qa, qb, c3

TwoQueues == [c \in Consumers |-> IF c = c3 THEN qb ELSE qa]
=============================================================================
