------------------------------ MODULE MCWorks ------------------------------
(* QueueSize 1: the second job makes the queue grow.                       *)
EXTENDS Works
=============================================================================
