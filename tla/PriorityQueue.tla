--------------------------- MODULE PriorityQueue ---------------------------
(***************************************************************************)
(* What a binary heap promises: elements with a key and a value, named by  *)
(* handlers, from which one with an extreme key can be taken.              *)
(***************************************************************************)
EXTENDS Integers

CONSTANTS Handlers, KeySet, ValueSet, NoNode

VARIABLES max,    \* whether the greatest key comes first; never changes
          elem,   \* the element of each handler, or NoNode
          ret     \* what the last call returned

vars == <<max, elem, ret>>

Live == {h \in Handlers : elem[h] # NoNode}

(* k comes no later than l.                                                *)
Before(k, l) == IF max THEN k >= l ELSE k <= l
Extreme(h) == h \in Live /\ \A g \in Live : Before(elem[h].key, elem[g].key)

Init == max \in BOOLEAN /\ elem = [h \in Handlers |-> NoNode] /\ ret = NoNode

Insert(k, v) ==
    \/ \E h \in Handlers \ Live :
          elem' = [elem EXCEPT ![h] = [key |-> k, value |-> v]] /\ ret' = h
    \/ Live = Handlers /\ UNCHANGED elem /\ ret' = NoNode

Extract == \E h \in Handlers : /\ Extreme(h)
                               /\ elem' = [elem EXCEPT ![h] = NoNode]
                               /\ ret' = elem[h].value

Rekey(h, k) == h \in Live /\ elem' = [elem EXCEPT ![h].key = k] /\ UNCHANGED ret

GetKey(h) == h \in Live /\ UNCHANGED elem /\ ret' = elem[h].key
Peek(h) == Extreme(h) /\ UNCHANGED elem /\ ret' = elem[h].value
Nothing == Live = {} /\ UNCHANGED elem /\ ret' = NoNode

Next == /\ UNCHANGED max
        /\ \/ \E k \in KeySet, v \in ValueSet : Insert(k, v)
           \/ \E h \in Handlers : \/ GetKey(h) \/ Peek(h)
                                  \/ \E k \in KeySet : Rekey(h, k)
           \/ Extract \/ Nothing

Spec == Init /\ [][Next]_vars
=============================================================================
