---------------------------- MODULE MCContainers ----------------------------
(* The hash table, the pool, the binary heap and the lock that is taken    *)
(* round their calls, each by itself: a behaviour uses one of them, and    *)
(* the others stay as they were made.                                      *)
EXTENDS Xhash, Xpool, Xbinheap, Xlock, TLC

CONSTANTS a, b, e, t1, t2, t3, t4

VARIABLE used      \* what this behaviour is about

vars == <<hashVars, poolVars, heapVars, lockVars, used>>

(* The keys collide; e does so only after the first probe.                 *)
CollidingHash == a :> 1 @@ b :> 5 @@ e :> 33

(* Three processes, one of them with two threads, and eight pids modulo    *)
(* PidMod; in Large one that only its low bits name, PidMod + 1.           *)
Small == t1 :> 1 @@ t2 :> 1 @@ t3 :> 2 @@ t4 :> 3
Large == t1 :> 1 @@ t2 :> 1 @@ t3 :> 2 @@ t4 :> 9

Init == /\ HashInit /\ PoolInit /\ HeapInit /\ LockInit
        /\ used \in {"xhash", "xpool", "xbinheap", "xlock"}
        /\ used # "xbinheap" => heap.max

Next == /\ \/ used = "xhash" /\ HashNext /\ UNCHANGED <<poolVars, heapVars, lockVars>>
           \/ used = "xpool" /\ PoolNext /\ UNCHANGED <<hashVars, heapVars, lockVars>>
           \/ used = "xbinheap" /\ HeapNext /\ UNCHANGED <<hashVars, poolVars, lockVars>>
           \/ used = "xlock" /\ LockNext /\ UNCHANGED <<hashVars, poolVars, heapVars>>
        /\ UNCHANGED used

(* Only a behaviour of the lock has threads that may crash, and stop.      *)
Spec == Init /\ [][Next]_vars /\ Fairness
=============================================================================
