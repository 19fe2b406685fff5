----------------------------- MODULE Dictionary -----------------------------
(***************************************************************************)
(* What the hash table promises to those who keep data in it: a partial    *)
(* function from keys to values.  An operation that says it failed left it *)
(* as it was.                                                              *)
(***************************************************************************)
EXTENDS Integers

CONSTANTS Keys, Values, None

VARIABLES dict,   \* the value of each key, or None
          ret     \* of the last call: op, key, val, and r < 0 if it failed

vars == <<dict, ret>>

Returned(op, k, v) == ret' = [op |-> op, key |-> k, val |-> v, r |-> 0]

Init == dict = [k \in Keys |-> None] /\ ret.op = "none"

Set(k, v) == Returned("set", k, v) /\ dict' = [dict EXCEPT ![k] = v]

(* The value is read and removed.                                          *)
Take(k) == /\ ret'.op = "get" /\ ret'.key = k
           /\ dict[k] # None
           /\ Returned("get", k, dict[k])
           /\ dict' = [dict EXCEPT ![k] = None]

(* Add to the value, or start with it.                                     *)
Count(k, v) ==
    /\ Returned("freql", k, v)
    /\ dict' = [dict EXCEPT ![k] = IF @ = None THEN v ELSE @ + v]

(* A key that is there gets another value.                                 *)
Update(k, v) ==
    /\ Returned("update", k, v)
    /\ dict[k] # None
    /\ dict' = [dict EXCEPT ![k] = v]

(* A call that failed, a call about another key, or no call.               *)
Other == /\ ret'.r < 0 \/ ret'.key \notin Keys \/ UNCHANGED ret
         /\ UNCHANGED dict

Next == \/ \E k \in Keys : \/ Take(k)
                           \/ \E v \in Values : Set(k, v) \/ Count(k, v) \/ Update(k, v)
        \/ Other

Spec == Init /\ [][Next]_vars
=============================================================================
