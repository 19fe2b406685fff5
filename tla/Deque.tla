-------------------------------- MODULE Deque --------------------------------
(***************************************************************************)
(* What an xq promises its users: a bounded double-ended queue per queue   *)
(* structure whose operations happen one at a time.  A queue is a sequence *)
(* read from its tail end to its head end.  ret is what the operation that *)
(* ended last handed back.                                                 *)
(***************************************************************************)
EXTENDS Naturals, Sequences

CONSTANTS Queues,    \* the queue structures
          Values,    \* what is queued
          Sizes,     \* capacities a queue can be given
          None       \* Noneidx

VARIABLES deq,       \* the content of each queue
          cap,       \* its capacity
          ret        \* the last value returned

dvars == <<deq, cap, ret>>

Room(q) == Len(deq[q]) < cap[q]

Upside(s) == [i \in 1..Len(s) |-> s[Len(s) + 1 - i]]

Init == /\ cap \in [Queues -> Sizes]
        /\ deq \in [Queues -> UNION {[1..n -> Values] : n \in Sizes \cup {0}}]
        /\ \A q \in Queues : Len(deq[q]) <= cap[q]
        /\ ret = None

Push(q, v, s) == /\ IF Room(q) THEN /\ deq' = [deq EXCEPT ![q] = s]
                                    /\ ret' = v
                               ELSE deq' = deq /\ ret' = None
                 /\ UNCHANGED cap

Pop(q, v, s) == /\ IF deq[q] = <<>> THEN deq' = deq /\ ret' = None
                                    ELSE /\ deq' = [deq EXCEPT ![q] = s]
                                         /\ ret' = v
                /\ UNCHANGED cap

AppendHead(q, v) == Push(q, v, Append(deq[q], v))
AppendTail(q, v) == Push(q, v, <<v>> \o deq[q])
PopHead(q) == Pop(q, deq[q][Len(deq[q])], SubSeq(deq[q], 1, Len(deq[q]) - 1))
PopTail(q) == Pop(q, Head(deq[q]), Tail(deq[q]))
PeekHead(q) == Pop(q, deq[q][Len(deq[q])], deq[q])
PeekTail(q) == Pop(q, Head(deq[q]), deq[q])

(* Is v queued?  1 or 0 *)
Check(q, v) == /\ ret' = IF \E i \in 1..Len(deq[q]) : deq[q][i] = v THEN 1 ELSE 0
               /\ UNCHANGED <<deq, cap>>

(* The n elements at the head of h move, in their order, to the tail of t, *)
(* or nothing moves.                                                       *)
HeadToTail(h, t, n) ==
    LET k == Len(deq[h]) - n
    IN  /\ IF k >= 0 /\ Len(deq[t]) + n <= cap[t]
           THEN /\ deq' = [deq EXCEPT ![h] = SubSeq(@, 1, k),
                                      ![t] = SubSeq(deq[h], k + 1, k + n) \o @]
                /\ ret' = 0
           ELSE deq' = deq /\ ret' = None
        /\ UNCHANGED cap

(* A new capacity turns the queue upside down.                             *)
Resize(q, size) ==
    IF Len(deq[q]) <= size
    THEN /\ deq' = [deq EXCEPT ![q] = Upside(@)]
         /\ cap' = [cap EXCEPT ![q] = size]
         /\ ret' = Len(deq[q])
    ELSE ret' = None /\ UNCHANGED <<deq, cap>>

Next == \E q \in Queues :
          \/ \E v \in Values : AppendHead(q, v) \/ AppendTail(q, v) \/ Check(q, v)
          \/ PopHead(q) \/ PopTail(q) \/ PeekHead(q) \/ PeekTail(q)
          \/ \E h \in Queues \ {q}, n \in Sizes : HeadToTail(h, q, n)
          \/ \E size \in Sizes : Resize(q, size)

Spec == Init /\ [][Next]_dvars
=============================================================================
