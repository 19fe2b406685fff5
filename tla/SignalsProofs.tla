----------------------------- MODULE SignalsProofs -----------------------------
(***************************************************************************)
(* A peer whose threads prepare to wait before they look into the queue    *)
(* misses no wake-up, for any number of threads, producers and requests.   *)
(***************************************************************************)
EXTENDS Signals, TLAPS

(* A thread that looks into the queue, or has found nothing there, has     *)
(* asked to be signalled.                                                  *)
WaitsCued == \A w \in Threads : pc[w] \in {"drain_prepare", "take", "wait"} => cue[w]

IInv == TypeOK /\ WaitsCued /\ NoLostWakeup

(* The threads are numbered from 1 to the number of waiters.               *)
LEMMA ThreadsAreNumbers ==
    ASSUME TypeOK
    PROVE  /\ Waiters[peer_type] \in Nat \ {0}
           /\ Threads \subseteq Nat
           /\ Waiters[peer_type] \in Threads
           /\ 1 \in Threads
<1>1. Waiters[peer_type] \in Nat \ {0}
  BY WaitersAssumption DEF TypeOK
<1> QED BY <1>1 DEF Threads

(* Init has the types and asks nobody.                                     *)
LEMMA InitIInv == ASSUME PrepareFirst, Init PROVE IInv
<1>1. Waiters[peer_type] \in Nat \ {0}
  BY WaitersAssumption DEF Init
<1>2. 1 \in Threads
  BY <1>1 DEF Threads
<1>3. TypeOK
  BY <1>2, WaitersAssumption DEF Init, TypeOK, Positions
<1>4. WaitsCued
  BY DEF Init, WaitsCued
<1>5. NoLostWakeup
  BY DEF Init, NoLostWakeup
<1> QED BY <1>3, <1>4, <1>5 DEF IInv

(* After's positions, in the order most commands have.                     *)
LEMMA PreparedLoop ==
    ASSUME PrepareFirst
    PROVE  /\ After("prepare") = "take" /\ After("found") = "cancel"
           /\ After("nothing") = "wait" /\ After("wait") = "prepare"
           /\ After("cancel") = "work" /\ After("work") = "prepare"
BY DEF After

(* A step of a thread.                                                     *)
LEMMA ThreadStep ==
    ASSUME PrepareFirst, IInv, NEW w \in Threads, Thread(w) \/ TimeOut(w)
    PROVE  IInv'
<1> USE PreparedLoop DEF IInv
<1>1. Threads' = Threads /\ peer_type' = peer_type
  BY DEF Thread, TimeOut, prepare_wait, cancel_wait, Drain, Take, Work, wait_signal, Threads
<1>2. CASE prepare_wait(w)
  <2>1. pc' = [pc EXCEPT ![w] = "take"] \/ pc' = [pc EXCEPT ![w] = "drain_prepare"]
    BY <1>2 DEF prepare_wait, Finish, Goto, Drains
  <2>2. TypeOK'
    BY <1>1, <1>2, <2>1 DEF prepare_wait, TypeOK, Positions
  <2>3. WaitsCued'
    BY <1>1, <1>2, <2>1 DEF prepare_wait, TypeOK, WaitsCued
  <2>4. NoLostWakeup'
    BY <1>1, <1>2, <2>1 DEF prepare_wait, TypeOK, NoLostWakeup
  <2> QED BY <2>2, <2>3, <2>4
<1>3. CASE cancel_wait(w)
  <2>1. pc' = [pc EXCEPT ![w] = "work"] \/ pc' = [pc EXCEPT ![w] = "drain_cancel"]
    BY <1>3 DEF cancel_wait, Finish, Goto, Drains
  <2>2. TypeOK'
    BY <1>1, <1>3, <2>1 DEF cancel_wait, TypeOK, Positions
  <2>3. WaitsCued'
    BY <1>1, <1>3, <2>1 DEF cancel_wait, TypeOK, WaitsCued
  <2>4. NoLostWakeup'
    BY <1>1, <1>3, <2>1 DEF cancel_wait, TypeOK, NoLostWakeup
  <2> QED BY <2>2, <2>3, <2>4
<1>4. CASE Drain(w)
  <2>1. \/ pc[w] = "drain_prepare" /\ pc' = [pc EXCEPT ![w] = "take"]
        \/ pc[w] = "drain_wait" /\ pc' = [pc EXCEPT ![w] = "prepare"]
        \/ pc[w] = "drain_cancel" /\ pc' = [pc EXCEPT ![w] = "work"]
    <3>1. PICK op \in {"prepare", "wait", "cancel"} : pc[w] = Drains[op] /\ Goto(w, After(op))
      BY <1>4 DEF Drain, Drains
    <3>2. CASE op = "prepare"
      BY <3>1, <3>2 DEF Goto, Drains
    <3>3. CASE op = "wait"
      BY <3>1, <3>3 DEF Goto, Drains
    <3>4. CASE op = "cancel"
      BY <3>1, <3>4 DEF Goto, Drains
    <3> QED BY <3>1, <3>2, <3>3, <3>4
  <2>2. TypeOK'
    BY <1>1, <1>4, <2>1 DEF Drain, TypeOK, Positions
  <2>3. WaitsCued'
    BY <1>1, <1>4, <2>1 DEF Drain, TypeOK, WaitsCued
  <2>4. NoLostWakeup'
    BY <1>1, <1>4, <2>1 DEF Drain, TypeOK, NoLostWakeup
  <2> QED BY <2>2, <2>3, <2>4
<1>5. CASE Take(w)
  <2>1. CASE queue = <<>>
    <3>1. pc' = [pc EXCEPT ![w] = "wait"] /\ queue' = queue /\ hand' = hand
      BY <1>5, <2>1 DEF Take, Goto
    <3>2. TypeOK'
      BY <1>1, <1>5, <3>1 DEF Take, TypeOK, Positions
    <3>3. WaitsCued'
      BY <1>1, <1>5, <3>1 DEF Take, TypeOK, WaitsCued
    <3> QED BY <2>1, <3>1, <3>2, <3>3 DEF NoLostWakeup
  <2>2. CASE queue # <<>>
    <3>1. /\ pc' = [pc EXCEPT ![w] = "cancel"]
          /\ queue' = Tail(queue)
          /\ hand' = [hand EXCEPT ![w] = Head(queue)]
      BY <1>5, <2>2 DEF Take, Goto
    <3>2. queue' \in Seq(Reqs) /\ Len(queue') <= QueueSize /\ Head(queue) \in Reqs
      BY <2>2, <3>1, WaitersAssumption DEF TypeOK
    <3>3. TypeOK'
      BY <1>1, <1>5, <3>1, <3>2 DEF Take, TypeOK, Positions
    <3>4. WaitsCued'
      BY <1>1, <1>5, <3>1 DEF Take, TypeOK, WaitsCued
    <3>5. NoLostWakeup'
      BY <1>1, <3>1 DEF TypeOK, NoLostWakeup
    <3> QED BY <3>3, <3>4, <3>5
  <2> QED BY <2>1, <2>2
<1>6. CASE Work(w)
  <2>1. pc' = [pc EXCEPT ![w] = "prepare"]
    BY <1>6 DEF Work, Goto
  <2>2. TypeOK'
    BY <1>1, <1>6, <2>1 DEF Work, TypeOK, Positions
  <2>3. WaitsCued'
    BY <1>1, <1>6, <2>1 DEF Work, TypeOK, WaitsCued
  <2>4. NoLostWakeup'
    BY <1>1, <1>6, <2>1 DEF Work, TypeOK, NoLostWakeup
  <2> QED BY <2>2, <2>3, <2>4
<1>7. CASE wait_signal(w)
  <2>1. pc' = [pc EXCEPT ![w] = "prepare"] \/ pc' = [pc EXCEPT ![w] = "drain_wait"]
    BY <1>7 DEF wait_signal, Finish, Goto, Drains
  <2>2. TypeOK'
    BY <1>1, <1>7, <2>1 DEF wait_signal, TypeOK, Positions
  <2>3. WaitsCued'
    BY <1>1, <1>7, <2>1 DEF wait_signal, TypeOK, WaitsCued
  <2>4. NoLostWakeup'
    BY <1>1, <1>7, <2>1 DEF wait_signal, TypeOK, NoLostWakeup
  <2> QED BY <2>2, <2>3, <2>4
<1>8. CASE TimeOut(w)
  <2>1. pc' = [pc EXCEPT ![w] = "prepare"]
    BY <1>8 DEF TimeOut, Goto
  <2>2. TypeOK'
    BY <1>1, <1>8, <2>1 DEF TimeOut, TypeOK, Positions
  <2>3. WaitsCued'
    BY <1>1, <1>8, <2>1 DEF TimeOut, TypeOK, WaitsCued
  <2>4. NoLostWakeup'
    BY <1>1, <1>8, <2>1 DEF TimeOut, TypeOK, NoLostWakeup
  <2> QED BY <2>2, <2>3, <2>4
<1> QED BY <1>2, <1>3, <1>4, <1>5, <1>6, <1>7, <1>8 DEF Thread

(* A step of a producer.  Scan is the one that can end without a signal,   *)
(* having found the last thread uncued: then that thread is awake.         *)
LEMMA ProducerStep ==
    ASSUME PrepareFirst, IInv, NEW p \in Producers, Submit(p) \/ Signal(p)
    PROVE  IInv'
<1> USE DEF IInv
<1>1. Threads' = Threads /\ peer_type' = peer_type
  BY DEF Submit, Signal, Scan, Kill, Threads
<1>2. CASE Submit(p)
  <2>1. PICK r \in Reqs : queue' = Append(queue, r)
    BY <1>2 DEF Submit
  <2>2. queue' \in Seq(Reqs) /\ Len(queue') <= QueueSize
    BY <1>2, <2>1, WaitersAssumption DEF Submit, TypeOK
  <2>3. TypeOK'
    BY <1>1, <1>2, <2>2, ThreadsAreNumbers DEF Submit, TypeOK
  <2>4. WaitsCued'
    BY <1>1, <1>2 DEF Submit, WaitsCued
  <2>5. NoLostWakeup'
    BY <1>2 DEF Submit, TypeOK, NoLostWakeup
  <2> QED BY <2>3, <2>4, <2>5
<1>3. CASE Scan(p)
  <2>1. /\ peer_type' = peer_type /\ queue' = queue /\ hand' = hand
        /\ pc' = pc /\ cue' = cue /\ pending' = pending
    BY <1>3 DEF Scan
  <2>2. WaitsCued'
    BY <1>1, <2>1 DEF WaitsCued
  <2>3. CASE cue[slot[p]]
    <3>1. at' = [at EXCEPT ![p] = "kill"] /\ slot' = slot
      BY <1>3, <2>3 DEF Scan
    <3>2. TypeOK'
      BY <1>1, <2>1, <3>1 DEF TypeOK
    <3> QED BY <2>2, <3>1, <3>2 DEF TypeOK, NoLostWakeup
  <2>4. CASE ~cue[slot[p]] /\ slot[p] = Waiters[peer_type]
    <3>1. at' = [at EXCEPT ![p] = "idle"] /\ slot' = slot
      BY <1>3, <2>4 DEF Scan
    <3>2. TypeOK'
      BY <1>1, <2>1, <3>1 DEF TypeOK
    <3>3. slot[p] \in Threads /\ pc[slot[p]] # "wait"
      BY <2>4 DEF TypeOK, WaitsCued
    <3> QED BY <1>1, <2>1, <2>2, <3>2, <3>3 DEF NoLostWakeup
  <2>5. CASE ~cue[slot[p]] /\ slot[p] # Waiters[peer_type]
    <3>1. at' = at /\ slot' = [slot EXCEPT ![p] = @ + 1]
      BY <1>3, <2>5 DEF Scan
    <3>2. slot[p] + 1 \in Threads
      BY <2>5, ThreadsAreNumbers DEF TypeOK, Threads
    <3>3. TypeOK'
      BY <1>1, <2>1, <3>1, <3>2 DEF TypeOK
    <3> QED BY <1>1, <2>1, <2>2, <3>1, <3>3 DEF NoLostWakeup
  <2> QED BY <2>3, <2>4, <2>5
<1>4. CASE Kill(p)
  <2>1. TypeOK'
    BY <1>1, <1>4 DEF Kill, TypeOK
  <2>2. WaitsCued'
    BY <1>1, <1>4 DEF Kill, WaitsCued
  <2>3. slot[p] \in Threads /\ pending'[slot[p]]
    BY <1>4 DEF Kill, TypeOK
  <2> QED BY <1>1, <2>1, <2>2, <2>3 DEF NoLostWakeup
<1> QED BY <1>2, <1>3, <1>4 DEF Signal

(* The invariant is inductive.                                             *)
LEMMA StepIInv == ASSUME PrepareFirst, IInv, [Next]_vars PROVE IInv'
<1>1. CASE Next
  BY <1>1, ThreadStep, ProducerStep DEF Next
<1>2. CASE UNCHANGED vars
  BY <1>2 DEF vars, IInv, TypeOK, WaitsCued, NoLostWakeup, Threads
<1> QED BY <1>1, <1>2

(* No wake-up is lost by peers that prepare before they look: with posix,  *)
(* posixfd and pthread a queued request never meets only sleeping threads  *)
(* that nobody is going to signal.                                         *)
THEOREM WakeupsKept == ASSUME PrepareFirst PROVE Spec => []NoLostWakeup
<1>1. Init => IInv
  BY InitIInv
<1>2. IInv /\ [Next]_vars => IInv'
  BY StepIInv
<1>3. IInv => NoLostWakeup
  BY DEF IInv
<1> QED BY <1>1, <1>2, <1>3, PTL DEF Spec

(* The state keeps its types; the scan of the waiters stays within them.   *)
THEOREM TypeCorrect == ASSUME PrepareFirst PROVE Spec => []TypeOK
<1>1. Init => IInv
  BY InitIInv
<1>2. IInv /\ [Next]_vars => IInv'
  BY StepIInv
<1>3. IInv => TypeOK
  BY DEF IInv
<1> QED BY <1>1, <1>2, <1>3, PTL DEF Spec
=============================================================================
