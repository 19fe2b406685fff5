-------------------------------- MODULE Signals --------------------------------
(***************************************************************************)
(* How a peer sleeps on its port and is woken.  The threads of one peer    *)
(* serve the requests queued on one port; other peers queue requests there *)
(* and then call xseg_signal.  The drivers posix, posixfd and pthread      *)
(* differ in how a thread asks to be woken and in how it is; the port's    *)
(* peer type, one for ever, selects the driver.                            *)
(***************************************************************************)
EXTENDS Naturals, Sequences, SequencesExt

CONSTANTS Waiters,      \* Waiters[type]: the threads 1..Waiters[type] wait
          Producers,    \* threads that queue requests on the port
          Reqs,
          NoReq,
          QueueSize,    \* size of the port's request queue
          PrepareFirst  \* the order of the peer's loop, see After

PeerTypes == {"posix", "posixfd", "pthread"}

(* The descriptors of posix and posixfd have room for one waiter.          *)
ASSUME WaitersAssumption ==
    /\ Waiters \in [PeerTypes -> Nat \ {0}]
    /\ Waiters["posix"] = 1 /\ Waiters["posixfd"] = 1
    /\ NoReq \notin Reqs /\ QueueSize \in Nat /\ PrepareFirst \in BOOLEAN

VARIABLES peer_type,    \* the port's peer type
          queue,        \* the requests queued on the port
          hand,         \* the request a thread has taken, or NoReq
          pc,           \* where each thread of the peer is
          cue,          \* waitcue, flag, pids: who asks to be signalled
          pending,      \* SIGIO is pending for the thread; its pipe has a byte
          at,           \* where each producer is
          slot          \* the entry of cue a producer reads, or signals

vars == <<peer_type, queue, hand, pc, cue, pending, at, slot>>

Threads == 1..Waiters[peer_type]

Init == /\ peer_type \in PeerTypes
        /\ queue = <<>>
        /\ hand = [w \in Threads |-> NoReq]
        /\ pc = [w \in Threads |-> IF PrepareFirst THEN "prepare" ELSE "take"]
        /\ cue = [w \in Threads |-> FALSE]
        /\ pending = [w \in Threads |-> FALSE]
        /\ at = [p \in Producers |-> "idle"]
        /\ slot = [p \in Producers |-> 1]

Goto(w, l) == pc' = [pc EXCEPT ![w] = l]

-----------------------------------------------------------------------------
(* The peer's loop.  Most commands of xseg-tool prepare to wait, look into *)
(* the queue, and wait if they have found nothing, or cancel and work;     *)
(* cmd_wait looks first, and prepares, waits and cancels if it has found   *)
(* nothing.                                                                *)

After(op) == CASE op = "prepare" -> IF PrepareFirst THEN "take" ELSE "wait"
               [] op = "found"   -> IF PrepareFirst THEN "cancel" ELSE "work"
               [] op = "nothing" -> IF PrepareFirst THEN "wait" ELSE "prepare"
               [] op = "wait"    -> IF PrepareFirst THEN "prepare" ELSE "cancel"
               [] op = "cancel"  -> IF PrepareFirst THEN "work" ELSE "take"
               [] op = "work"    -> IF PrepareFirst THEN "prepare" ELSE "take"

(* posixfd empties its pipe at the end of prepare_wait, of wait_signal and *)
(* of cancel_wait.                                                         *)
Drains == [prepare |-> "drain_prepare", wait |-> "drain_wait", cancel |-> "drain_cancel"]

Finish(w, op) == Goto(w, IF peer_type = "posixfd" THEN Drains[op] ELSE After(op))

Drain(w) == /\ \E op \in DOMAIN Drains : pc[w] = Drains[op] /\ Goto(w, After(op))
            /\ pending' = [pending EXCEPT ![w] = FALSE]
            /\ UNCHANGED <<peer_type, queue, hand, cue, at, slot>>

prepare_wait(w) == /\ pc[w] = "prepare"
                   /\ cue' = [cue EXCEPT ![w] = TRUE]
                   /\ Finish(w, "prepare")
                   /\ UNCHANGED <<peer_type, queue, hand, pending, at, slot>>

cancel_wait(w) == /\ pc[w] = "cancel"
                  /\ cue' = [cue EXCEPT ![w] = FALSE]
                  /\ Finish(w, "cancel")
                  /\ UNCHANGED <<peer_type, queue, hand, pending, at, slot>>

(* xseg_accept or xseg_receive, under the lock of the queue.               *)
Take(w) == /\ pc[w] = "take"
           /\ IF queue = <<>>
              THEN Goto(w, After("nothing")) /\ UNCHANGED <<queue, hand>>
              ELSE /\ hand' = [hand EXCEPT ![w] = Head(queue)]
                   /\ queue' = Tail(queue)
                   /\ Goto(w, After("found"))
           /\ UNCHANGED <<peer_type, cue, pending, at, slot>>

(* The request is served and leaves the port.                              *)
Work(w) == /\ pc[w] = "work"
           /\ hand' = [hand EXCEPT ![w] = NoReq]
           /\ Goto(w, After("work"))
           /\ UNCHANGED <<peer_type, queue, cue, pending, at, slot>>

(* Sleeps again when woken.                                                *)
wait_signal_again(w) ==
    /\ pc[w] = "wait" /\ pending[w]
    /\ pending' = [pending EXCEPT ![w] = FALSE]
    /\ UNCHANGED <<peer_type, queue, hand, pc, cue, at, slot>>

(* wait_signal returns for a signal: sigtimedwait takes it, select leaves  *)
(* the byte in the pipe.                                                   *)
wait_signal(w) == /\ pc[w] = "wait" /\ pending[w]
                  /\ pending' = [pending EXCEPT ![w] = peer_type = "posixfd"]
                  /\ Finish(w, "wait")
                  /\ UNCHANGED <<peer_type, queue, hand, cue, at, slot>>

(* wait_signal returns without one, after its time or for another signal.  *)
TimeOut(w) == /\ pc[w] = "wait"
              /\ Goto(w, After("wait"))
              /\ UNCHANGED <<peer_type, queue, hand, cue, pending, at, slot>>

-----------------------------------------------------------------------------
(* A producer queues a request, then calls xseg_signal.                    *)

Submit(p) == /\ at[p] = "idle" /\ Len(queue) < QueueSize
             /\ \E r \in Reqs : /\ r \notin ToSet(queue)
                                /\ \A w \in Threads : hand[w] # r
                                /\ queue' = Append(queue, r)
             /\ at' = [at EXCEPT ![p] = "scan"]
             /\ slot' = [slot EXCEPT ![p] = 1]
             /\ UNCHANGED <<peer_type, hand, pc, cue, pending>>

(* The loop ends one entry too early, or runs over the last one.           *)
Scan_short(p) ==
    /\ at[p] = "scan"
    /\ IF slot[p] = Waiters[peer_type] THEN at' = [at EXCEPT ![p] = "idle"] /\ UNCHANGED slot
       ELSE IF cue[slot[p]] THEN at' = [at EXCEPT ![p] = "kill"] /\ UNCHANGED slot
       ELSE slot' = [slot EXCEPT ![p] = @ + 1] /\ UNCHANGED at
    /\ UNCHANGED <<peer_type, queue, hand, pc, cue, pending>>

Scan_over(p) ==
    /\ at[p] = "scan"
    /\ IF cue[slot[p]] THEN at' = [at EXCEPT ![p] = "kill"] /\ UNCHANGED slot
       ELSE IF slot[p] > Waiters[peer_type] THEN at' = [at EXCEPT ![p] = "idle"] /\ UNCHANGED slot
       ELSE slot' = [slot EXCEPT ![p] = @ + 1] /\ UNCHANGED at
    /\ UNCHANGED <<peer_type, queue, hand, pc, cue, pending>>

(* xseg_signal reads the entries one by one, up to the first that is set.  *)
Scan(p) ==
    /\ at[p] = "scan"
    /\ IF cue[slot[p]] THEN at' = [at EXCEPT ![p] = "kill"] /\ UNCHANGED slot
       ELSE IF slot[p] = Waiters[peer_type] THEN at' = [at EXCEPT ![p] = "idle"] /\ UNCHANGED slot
       ELSE slot' = [slot EXCEPT ![p] = @ + 1] /\ UNCHANGED at
    /\ UNCHANGED <<peer_type, queue, hand, pc, cue, pending>>

(* tkill, or the write to the pipe: a second one adds nothing to a first.  *)
Kill(p) == /\ at[p] = "kill"
           /\ pending' = [pending EXCEPT ![slot[p]] = TRUE]
           /\ at' = [at EXCEPT ![p] = "idle"]
           /\ UNCHANGED <<peer_type, queue, hand, pc, cue, slot>>

-----------------------------------------------------------------------------
Thread(w) == \/ prepare_wait(w) \/ cancel_wait(w) \/ Drain(w)
             \/ Take(w) \/ Work(w) \/ wait_signal(w)

Signal(p) == Scan(p) \/ Kill(p)

Next == \/ \E w \in Threads : Thread(w) \/ TimeOut(w)
        \/ \E p \in Producers : Submit(p) \/ Signal(p)

(* Every thread that can goes on, but nothing is said of time-outs.  The   *)
(* peer type is a variable, so that the threads it has are quantified over *)
(* all types.                                                              *)
AllThreads == UNION {1..Waiters[t] : t \in PeerTypes}

Fairness == /\ \A w \in AllThreads : WF_vars(w \in Threads /\ Thread(w))
            /\ \A p \in Producers : WF_vars(Signal(p))

Spec == Init /\ [][Next]_vars /\ Fairness

-----------------------------------------------------------------------------
(* Properties.                                                             *)

Positions == {"prepare", "take", "wait", "cancel", "work",
              "drain_prepare", "drain_wait", "drain_cancel"}

TypeOK == /\ peer_type \in PeerTypes
          /\ queue \in Seq(Reqs) /\ Len(queue) <= QueueSize
          /\ hand \in [Threads -> Reqs \cup {NoReq}]
          /\ pc \in [Threads -> Positions]
          /\ cue \in [Threads -> BOOLEAN]
          /\ pending \in [Threads -> BOOLEAN]
          /\ at \in [Producers -> {"idle", "scan", "kill"}]
          /\ slot \in [Producers -> Threads]

(* No wake-up is lost: when something is queued, a thread is awake and     *)
(* will look, or has a signal to wake it, or a producer is still to send   *)
(* one.  This is what would let wait_signal do without its time-out.       *)
NoLostWakeup == queue # <<>> => \/ \E w \in Threads : pc[w] # "wait" \/ pending[w]
                                \/ \E p \in Producers : at[p] # "idle"

(* Every request that is queued is taken, though no time-out ever helps    *)
(* and however the signals of several producers fall together.             *)
EachIsTaken == \A r \in Reqs : r \in ToSet(queue) ~> r \notin ToSet(queue)
=============================================================================
