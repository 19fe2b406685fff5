------------------------------- MODULE MCSignals -------------------------------
(* A port's queue and the signals to who waits for it, each by itself: a   *)
(* behaviour is about one of them, and the other stays as it was made.     *)
(* One thread for posix and posixfd, two for pthread.                      *)
EXTENDS Signals, Xq

VARIABLE used      \* what this behaviour is about

mcVars == <<vars, xqVars, used>>

OneOrTwo == [posix |-> 1, posixfd |-> 1, pthread |-> 2]

MCInit == /\ Init /\ XqInit
          /\ used \in {"signals", "xq"}
          /\ used = "xq" => peer_type = "posix"
          /\ used = "signals" => xq = [q \in Queues |-> xq_init_empty(1)]

MCNext == /\ \/ used = "signals" /\ Next /\ UNCHANGED xqVars
             \/ used = "xq" /\ XqNext /\ UNCHANGED vars
          /\ UNCHANGED used

MCSpec == MCInit /\ [][MCNext]_mcVars /\ Fairness
=============================================================================
