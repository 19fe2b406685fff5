---------------------------------- MODULE Xq ----------------------------------
(***************************************************************************)
(* xtypes/xq.c: a circular queue of xqindex values with two free-running   *)
(* unsigned counters.  head is one past the head element and tail one      *)
(* before the tail element; both wrap modulo IdxMod (2^64 in the code) and *)
(* are masked with size - 1 to give a slot.  Every exported operation runs *)
(* under the lock of its queue; xq_head_to_tail takes two locks.           *)
(***************************************************************************)
EXTENDS Integers, Sequences, FiniteSets

CONSTANTS Queues,     \* queue structures, named by their addresses
          Callers,    \* threads that call the operations
          Values,     \* values queued
          Sizes,      \* sizes, powers of two (__snap rounds to one)
          IdxMod,     \* the counters are modulo IdxMod
          Noneidx,    \* the value ~0 that says "nothing"
          NoCaller    \* XLOCK_NOONE

ASSUME QueuesAreAddresses == Queues \subseteq Nat
ASSUME SizesDivideIdxMod ==
         /\ IdxMod \in Nat
         /\ \A s \in Sizes : s \in Nat \ {0} /\ IdxMod % s = 0 /\ s < IdxMod
ASSUME IndicesAreValues == \A s \in Sizes : 0..s-1 \subseteq Values
ASSUME NoneIsNoValue == Noneidx \notin Values /\ NoCaller \notin Callers

VARIABLES xq,         \* the structures: head, tail, size and the queue memory
          lock,       \* the owner word of each queue's xlock
          call,       \* the xq_head_to_tail call a thread is in
          ret         \* what the operation that ended last returned

xqVars == <<xq, lock, call, ret>>

-----------------------------------------------------------------------------
(* The structure and the operations on it, without the locks.              *)

Wrap(i) == i % IdxMod

Junk == Noneidx      \* content of a slot never written: no reader may use it

xq_init_empty(size) ==
    [head |-> 1, tail |-> 0, size |-> size, queue |-> [i \in 0..size-1 |-> Junk]]

(* The only caller asks for as many elements as the size.                  *)
xq_init_seq(size) ==
    [head |-> size + 1, tail |-> 0, size |-> size, queue |-> [i \in 0..size-1 |-> i]]

xq_count(x) == Wrap(x.head - x.tail - 1)

xq_element(x, i) == x.queue[Wrap(i) % x.size]

Store(x, i, v) == [x EXCEPT !.queue[Wrap(i) % x.size] = v]

append_head(x, v) ==
    IF xq_count(x) >= x.size
    THEN [x |-> x, r |-> Noneidx]
    ELSE [x |-> [Store(x, x.head, v) EXCEPT !.head = Wrap(@ + 1)], r |-> v]

(* The counter does not wrap at zero.                                      *)
pop_head_unwrapped(x) ==
    IF xq_count(x) = 0
    THEN [x |-> x, r |-> Noneidx]
    ELSE [x |-> [x EXCEPT !.head = @ - 1], r |-> xq_element(x, x.head - 1)]

pop_head(x) ==
    IF xq_count(x) = 0
    THEN [x |-> x, r |-> Noneidx]
    ELSE [x |-> [x EXCEPT !.head = Wrap(@ - 1)], r |-> xq_element(x, x.head - 1)]

peek_head(x) == [x |-> x, r |-> pop_head(x).r]

append_tail(x, v) ==
    IF xq_count(x) + 1 > x.size
    THEN [x |-> x, r |-> Noneidx]
    ELSE [x |-> [Store(x, x.tail, v) EXCEPT !.tail = Wrap(@ - 1)], r |-> v]

pop_tail(x) ==
    IF xq_count(x) = 0
    THEN [x |-> x, r |-> Noneidx]
    ELSE [x |-> [x EXCEPT !.tail = Wrap(@ + 1)], r |-> xq_element(x, x.tail + 1)]

peek_tail(x) == [x |-> x, r |-> pop_tail(x).r]

(* The loop runs i from tail + 1 until it meets head.                      *)
check(x, v) ==
    [x |-> x,
     r |-> IF \E k \in 1..xq_count(x) : xq_element(x, x.tail + k) = v THEN 1 ELSE 0]

(* __xq_resize into a queue made with xq_init_empty(size), as its callers  *)
(* do, which then put the new queue in the place of the old one.           *)
resize(x, size) ==
    LET nr   == xq_count(x)
        new  == xq_init_empty(size)
        low  == Wrap(x.head - nr)
        tail == Wrap(new.tail - nr)
        top  == tail + 1 + nr - 1
    IN  IF nr > size
        THEN [x |-> x, r |-> Noneidx]
        ELSE [x |-> [new EXCEPT
                       !.tail  = tail,
                       !.queue = [s \in 0..size-1 |->
                          IF \E i \in 0..nr-1 : Wrap(top - i) % size = s
                          THEN xq_element(x, low + CHOOSE i \in 0..nr-1 :
                                                     Wrap(top - i) % size = s)
                          ELSE @[s]]],
              r |-> nr]

(* The copy loop of xq_head_to_tail: n elements of h from slot `from' on   *)
(* go to the slots of t from slot `to' on.                                 *)
copied(h, t, from, to, n) ==
    [s \in 0..t.size-1 |->
       IF \E i \in 0..n-1 : Wrap(to + i) % t.size = s
       THEN xq_element(h, from + CHOOSE i \in 0..n-1 : Wrap(to + i) % t.size = s)
       ELSE t.queue[s]]

-----------------------------------------------------------------------------
(* The exported operations.                                                *)

NoCall == [headq |-> 0, tailq |-> 0, nr |-> 0]

XqInit == /\ xq \in [Queues -> {xq_init_empty(s) : s \in Sizes}
                                 \cup {xq_init_seq(s) : s \in Sizes}]
          /\ lock = [q \in Queues |-> NoCaller]
          /\ call = [t \in Callers |-> NoCall]
          /\ ret = Noneidx

Idle(t) == call[t] = NoCall

(* xlock_acquire, the operation, xlock_release: one step when the lock is  *)
(* free, since nobody else reads or writes the structure in between.       *)
Locked(t, q, op) == /\ Idle(t)
                    /\ lock[q] = NoCaller
                    /\ xq' = [xq EXCEPT ![q] = op.x]
                    /\ ret' = op.r
                    /\ UNCHANGED <<lock, call>>

AppendHead(t, q, v) == Locked(t, q, append_head(xq[q], v))
AppendTail(t, q, v) == Locked(t, q, append_tail(xq[q], v))
PopHead(t, q)       == Locked(t, q, pop_head(xq[q]))
PopTail(t, q)       == Locked(t, q, pop_tail(xq[q]))
PeekHead(t, q)      == Locked(t, q, peek_head(xq[q]))
PeekTail(t, q)      == Locked(t, q, peek_tail(xq[q]))
Check(t, q, v)      == Locked(t, q, check(xq[q], v))
Resize(t, q, size)  == Locked(t, q, resize(xq[q], size))

(* Locks in the order of the arguments.                                    *)
LockFirst_args(c) == c.headq

(* headq >= tailq compares addresses: the higher one is locked first.      *)
LockFirst(c) == IF c.headq >= c.tailq THEN c.headq ELSE c.tailq

LockSecond(c) == IF LockFirst(c) = c.headq THEN c.tailq ELSE c.headq

(* xq_head_to_tail in two steps: the call up to its first xlock_acquire,   *)
(* and all the rest once the second lock is free.  Distinct queues: with   *)
(* headq = tailq the second acquire would wait for the first.              *)
HeadToTailFirst(t, h, q, n) ==
    LET c == [headq |-> h, tailq |-> q, nr |-> n]
    IN  /\ Idle(t) /\ h # q
        /\ lock[LockFirst(c)] = NoCaller
        /\ lock' = [lock EXCEPT ![LockFirst(c)] = t]
        /\ call' = [call EXCEPT ![t] = c]
        /\ UNCHANGED <<xq, ret>>

(* The test of the room of tailq left out.                                 *)
Fits_headonly(c) == xq_count(xq[c.headq]) >= c.nr

Fits(c) == /\ xq_count(xq[c.headq]) >= c.nr
           /\ xq_count(xq[c.tailq]) + c.nr <= xq[c.tailq].size

HeadToTailSecond(t) ==
    LET c    == call[t]
        h    == xq[c.headq]
        q    == xq[c.tailq]
        head == Wrap(h.head - c.nr)
        tail == Wrap(q.tail - c.nr)
    IN  /\ ~ Idle(t)
        /\ lock[LockSecond(c)] = NoCaller
        /\ IF Fits(c)
           THEN /\ xq' = [xq EXCEPT
                            ![c.headq].head  = head,
                            ![c.tailq].tail  = tail,
                            ![c.tailq].queue = copied(h, q, head, tail + 1, c.nr)]
                /\ ret' = 0
           ELSE xq' = xq /\ ret' = Noneidx
        /\ lock' = [lock EXCEPT ![LockFirst(c)] = NoCaller]
        /\ call' = [call EXCEPT ![t] = NoCall]

XqNext == \E t \in Callers, q \in Queues :
          \/ \E v \in Values : AppendHead(t, q, v) \/ AppendTail(t, q, v) \/ Check(t, q, v)
          \/ PopHead(t, q) \/ PopTail(t, q) \/ PeekHead(t, q) \/ PeekTail(t, q)
          \/ \E size \in Sizes : Resize(t, q, size)
          \/ \E h \in Queues, n \in Sizes : HeadToTailFirst(t, h, q, n)
          \/ HeadToTailSecond(t)

XqSpec == XqInit /\ [][XqNext]_xqVars

-----------------------------------------------------------------------------
(* Properties.                                                             *)

(* The content of a queue from its tail end to its head end.               *)
Content(x) == [k \in 1..xq_count(x) |-> xq_element(x, x.tail + k)]

(* The ring buffer is a bounded deque: whatever the counters have wrapped  *)
(* to, every operation has on the content, and returns, exactly what the   *)
(* one-step operation of Deque does (xq.c as a whole).                     *)
D == INSTANCE Deque WITH deq <- [q \in Queues |-> Content(xq[q])],
                         cap <- [q \in Queues |-> xq[q].size],
                         None <- Noneidx

RefinesDeque == D!Spec

(* Callers inside xq_head_to_tail never wait for each other in a circle,   *)
(* although they name the same queues in both orders: one that holds its   *)
(* first lock finds the second one free, or held by a thread that will not *)
(* wait for the first (the lock order by address of xq_head_to_tail).      *)
NoWaitCycle == \A t, u \in Callers :
                 ~ /\ ~ Idle(t) /\ lock[LockSecond(call[t])] = u
                   /\ ~ Idle(u) /\ lock[LockSecond(call[u])] = t
=============================================================================
