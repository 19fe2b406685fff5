---------------------------- MODULE QueuesProofs ----------------------------
(***************************************************************************)
(* Those that keep things for later: no job of a work or wait queue is     *)
(* lost or run twice, for any threads, jobs, first size and sort of queue; *)
(* a pool is a ring and a binary heap a priority queue, of any size.       *)
(***************************************************************************)
EXTENDS Works, Xpool, Xbinheap, SequenceTheorems, FiniteSetTheorems,
        WellFoundedInduction, NaturalsInduction, TLAPS

HasJob == {"run_now", "enqueue", "run"}
HasLock == {"locked", "pop", "unlock"}

TypeOK ==
    /\ q \in Seq(Jobs)
    /\ state \in [Jobs -> {"new", "queued", "taken", "done", "refused"}]
    /\ pc \in [Threads -> HasJob \cup HasLock \cup {"idle", "signal", "count", "lock"}]
    /\ job \in [Threads -> Jobs \cup {NoJob}]

(* The queue s has the jobs js, each one once.                             *)
Holds(s, js) ==
    /\ s \in Seq(Jobs)
    /\ \A i \in 1..Len(s) : s[i] \in js
    /\ \A j \in js : \E i \in 1..Len(s) : s[i] = j
    /\ \A i, k \in 1..Len(s) : s[i] = s[k] => i = k

In(s) == {j \in Jobs : state[j] = s}

QueuedOnce == Holds(q, In("queued"))

TakenOnce ==
    /\ \A t \in Threads : job[t] # NoJob => state[job[t]] = "taken"
    /\ \A j \in In("taken") : \E t \in Threads : job[t] = j
    /\ \A t, u \in Threads : job[t] = job[u] /\ job[t] # NoJob => t = u

(* A thread has a job in hand just where it is to run or queue one.        *)
JobInHand == \A t \in Threads : job[t] # NoJob <=> pc[t] \in HasJob

(* A wait queue is only popped by who has its lock, which found it filled. *)
PopsFilled ==
    /\ \A t \in Threads : isWaitq /\ pc[t] \in HasLock => lock = t
    /\ \A t \in Threads : pc[t] = "pop" => isWaitq /\ q # <<>>

IInv == TypeOK /\ QueuedOnce /\ TakenOnce /\ JobInHand /\ PopsFilled
-----------------------------------------------------------------------------
(* Turned round, a queue has the same jobs.                                *)
LEMMA ReverseHolds ==
    ASSUME NEW s, NEW js, Holds(s, js)
    PROVE  Holds(Reverse(s), js)
  <1> DEFINE r == Reverse(s)
  <1>1. /\ r \in Seq(Jobs) /\ Len(r) = Len(s) /\ Len(s) \in Nat
        /\ \A i \in 1..Len(s) : r[i] = s[(Len(s) - i) + 1] /\ (Len(s) - i) + 1 \in 1..Len(s)
    BY DEF Reverse, Holds
  <1> HIDE DEF r
  <1>2. \A i \in 1..Len(s) : r[(Len(s) - i) + 1] = s[i]
    <2> SUFFICES ASSUME NEW i \in 1..Len(s) PROVE r[(Len(s) - i) + 1] = s[i]
      OBVIOUS
    <2>1. (Len(s) - ((Len(s) - i) + 1)) + 1 = i
      BY <1>1
    <2> QED BY <1>1, <2>1
  <1>3. \A i \in 1..Len(r) : r[i] \in js
    BY <1>1 DEF Holds
  <1>4. \A j \in js : \E i \in 1..Len(r) : r[i] = j
    <2> SUFFICES ASSUME NEW j \in js PROVE \E i \in 1..Len(r) : r[i] = j
      OBVIOUS
    <2>1. PICK k \in 1..Len(s) : s[k] = j
      BY DEF Holds
    <2>2. (Len(s) - k) + 1 \in 1..Len(r) /\ r[(Len(s) - k) + 1] = j
      BY <1>1, <1>2, <2>1
    <2> QED BY <2>2
  <1>5. \A i, k \in 1..Len(r) : r[i] = r[k] => i = k
    <2> SUFFICES ASSUME NEW i \in 1..Len(r), NEW k \in 1..Len(r), r[i] = r[k] PROVE i = k
      OBVIOUS
    <2> DEFINE a == (Len(s) - i) + 1
               b == (Len(s) - k) + 1
    <2>1. s[a] = s[b] /\ a \in 1..Len(s) /\ b \in 1..Len(s)
      BY <1>1
    <2>2. a = b
      BY <2>1, Zenon DEF Holds
    <2> QED BY <1>1, <2>2
  <1>6. Holds(r, js)
    BY <1>1, <1>3, <1>4, <1>5 DEF Holds
  <1> QED BY <1>6 DEF r

(* A new one at the tail.                                                  *)
LEMMA AppendHolds ==
    ASSUME NEW s, NEW js, Holds(s, js), NEW j \in Jobs, j \notin js
    PROVE  Holds(Append(s, j), js \cup {j})
  <1> DEFINE r == Append(s, j)
  <1>1. /\ r \in Seq(Jobs) /\ Len(r) = Len(s) + 1 /\ Len(s) \in Nat
        /\ \A i \in 1..Len(s) : r[i] = s[i]
        /\ r[Len(s) + 1] = j
    BY AppendProperties DEF Holds
  <1> HIDE DEF r
  <1>2. \A i \in 1..Len(r) : i \in 1..Len(s) \/ i = Len(s) + 1
    BY <1>1
  <1>3. \A i \in 1..Len(r) : r[i] \in js \cup {j}
    BY <1>1, <1>2 DEF Holds
  <1>4. \A k \in js \cup {j} : \E i \in 1..Len(r) : r[i] = k
    <2>1. Len(s) + 1 \in 1..Len(r) /\ \A i \in 1..Len(s) : i \in 1..Len(r)
      BY <1>1
    <2> QED BY <1>1, <2>1 DEF Holds
  <1>5. \A i, k \in 1..Len(r) : r[i] = r[k] => i = k
    BY <1>1, <1>2 DEF Holds
  <1>6. Holds(r, js \cup {j})
    BY <1>1, <1>3, <1>4, <1>5 DEF Holds
  <1> QED BY <1>6 DEF r

(* The head is one of them, the tail has the others.                       *)
LEMMA TailHolds ==
    ASSUME NEW s, NEW js, Holds(s, js), s # <<>>
    PROVE  Head(s) \in js /\ Head(s) \in Jobs /\ Holds(Tail(s), js \ {Head(s)})
  <1> DEFINE r == Tail(s)
  <1>1. /\ r \in Seq(Jobs) /\ Len(r) = Len(s) - 1 /\ Len(s) \in Nat /\ Len(s) > 0
        /\ \A i \in 1..Len(r) : r[i] = s[i + 1] /\ i + 1 \in 1..Len(s) /\ i + 1 # 1
        /\ Head(s) = s[1] /\ 1 \in 1..Len(s) /\ s[1] \in Jobs
    BY HeadTailProperties, EmptySeq DEF Holds
  <1> HIDE DEF r
  <1>2. \A i \in 1..Len(r) : r[i] \in js \ {s[1]}
    BY <1>1 DEF Holds
  <1>3. \A j \in js \ {s[1]} : \E i \in 1..Len(r) : r[i] = j
    <2> SUFFICES ASSUME NEW j \in js \ {s[1]} PROVE \E i \in 1..Len(r) : r[i] = j
      OBVIOUS
    <2>1. PICK k \in 1..Len(s) : s[k] = j
      BY DEF Holds
    <2>2. k - 1 \in 1..Len(r) /\ (k - 1) + 1 = k
      BY <1>1, <2>1
    <2> QED BY <1>1, <2>1, <2>2
  <1>4. \A i, k \in 1..Len(r) : r[i] = r[k] => i = k
    <2> SUFFICES ASSUME NEW i \in 1..Len(r), NEW k \in 1..Len(r), r[i] = r[k] PROVE i = k
      OBVIOUS
    <2>1. s[i + 1] = s[k + 1] /\ i + 1 \in 1..Len(s) /\ k + 1 \in 1..Len(s)
      BY <1>1
    <2>2. i + 1 = k + 1
      BY <2>1, Zenon DEF Holds
    <2> QED BY <2>2
  <1>5. Holds(r, js \ {s[1]})
    BY <1>1, <1>2, <1>3, <1>4 DEF Holds
  <1> QED BY <1>1, <1>5 DEF r, Holds

(* A job changes its state.                                                *)
LEMMA StateMoves ==
    ASSUME TypeOK, NEW j \in Jobs, NEW s \in {"new", "queued", "taken", "done", "refused"},
           state' = [state EXCEPT ![j] = s]
    PROVE  /\ state' \in [Jobs -> {"new", "queued", "taken", "done", "refused"}]
           /\ state'[j] = s /\ \A k \in Jobs \ {j} : state'[k] = state[k]
           /\ \A x : In(x)' = IF x = s THEN In(x) \cup {j} ELSE In(x) \ {j}
  <1>1. /\ state' \in [Jobs -> {"new", "queued", "taken", "done", "refused"}]
        /\ state'[j] = s /\ \A k \in Jobs \ {j} : state'[k] = state[k]
    BY DEF TypeOK
  <1> QED BY <1>1 DEF In

(* A thread takes a job, which nobody had.                                 *)
LEMMA Takes ==
    ASSUME IInv, NEW t \in Threads, job[t] = NoJob, NEW j \in Jobs, state[j] # "taken",
           state' = [state EXCEPT ![j] = "taken"], job' = [job EXCEPT ![t] = j]
    PROVE  TakenOnce' /\ job' \in [Threads -> Jobs \cup {NoJob}]
  <1>1. /\ job' \in [Threads -> Jobs \cup {NoJob}]
        /\ job'[t] = j /\ \A u \in Threads \ {t} : job'[u] = job[u]
    BY DEF IInv, TypeOK
  <1>2. /\ state'[j] = "taken" /\ \A k \in Jobs \ {j} : state'[k] = state[k]
        /\ In("taken")' = In("taken") \cup {j}
    BY StateMoves DEF IInv
  <1>3. \A u \in Threads \ {t} : job[u] # j
    BY WorksAssumption DEF IInv, TakenOnce
  <1>4. \A u \in Threads : job'[u] # NoJob => state'[job'[u]] = "taken"
    BY <1>1, <1>2 DEF IInv, TypeOK, TakenOnce
  <1>5. \A k \in In("taken")' : \E u \in Threads : job'[u] = k
    <2> SUFFICES ASSUME NEW k \in In("taken") PROVE \E u \in Threads : job'[u] = k
      BY <1>1, <1>2
    <2>1. PICK u \in Threads : job[u] = k
      BY DEF IInv, TakenOnce
    <2>2. u # t
      BY <2>1, WorksAssumption DEF In
    <2> QED BY <1>1, <2>1, <2>2
  <1>6. \A u, v \in Threads : job'[u] = job'[v] /\ job'[u] # NoJob => u = v
    BY <1>1, <1>3 DEF IInv, TakenOnce
  <1> QED BY <1>1, <1>4, <1>5, <1>6 DEF TakenOnce

(* A thread lets go of its job.                                            *)
LEMMA LetsGo ==
    ASSUME IInv, NEW t \in Threads, NEW j \in Jobs, job[t] = j,
           NEW s \in {"queued", "done", "refused"},
           state' = [state EXCEPT ![j] = s], job' = [job EXCEPT ![t] = NoJob]
    PROVE  TakenOnce' /\ job' \in [Threads -> Jobs \cup {NoJob}]
  <1>1. /\ job' \in [Threads -> Jobs \cup {NoJob}]
        /\ job'[t] = NoJob /\ \A u \in Threads \ {t} : job'[u] = job[u]
    BY DEF IInv, TypeOK
  <1>2. /\ \A k \in Jobs \ {j} : state'[k] = state[k]
        /\ In("taken")' = In("taken") \ {j}
    BY StateMoves DEF IInv
  <1>3. \A u \in Threads \ {t} : job[u] # j
    BY WorksAssumption DEF IInv, TakenOnce
  <1>4. \A u \in Threads : job'[u] # NoJob => state'[job'[u]] = "taken"
    BY <1>1, <1>2, <1>3 DEF IInv, TypeOK, TakenOnce
  <1>5. \A k \in In("taken")' : \E u \in Threads : job'[u] = k
    <2> SUFFICES ASSUME NEW k \in In("taken") \ {j} PROVE \E u \in Threads : job'[u] = k
      BY <1>2
    <2>1. PICK u \in Threads : job[u] = k
      BY DEF IInv, TakenOnce
    <2> QED BY <1>1, <2>1
  <1>6. \A u, v \in Threads : job'[u] = job'[v] /\ job'[u] # NoJob => u = v
    BY <1>1 DEF IInv, TakenOnce
  <1> QED BY <1>1, <1>4, <1>5, <1>6 DEF TakenOnce

(* A job that was not in it is put into the queue, or refused.             *)
LEMMA Enqueues ==
    ASSUME IInv, NEW j \in Jobs, state[j] # "queued", __enqueue(j)
    PROVE  /\ QueuedOnce' /\ (q # <<>> => q' # <<>>)
           /\ \E s \in {"queued", "refused"} : state' = [state EXCEPT ![j] = s]
  <1>1. CASE Enqueued(j, "queued")
    <2> DEFINE b == IF Len(q) < size THEN q ELSE Reverse(q)
    <2>1. Holds(b, In("queued"))
      BY ReverseHolds DEF IInv, QueuedOnce
    <2>2. q' = Append(b, j) /\ state' = [state EXCEPT ![j] = "queued"]
      BY <1>1 DEF Enqueued
    <2> HIDE DEF b
    <2>3. Holds(q', In("queued") \cup {j}) /\ q' # <<>>
      BY <2>1, <2>2, AppendHolds, AppendProperties DEF In, Holds
    <2>4. In("queued")' = In("queued") \cup {j}
      BY <2>2, StateMoves DEF IInv
    <2> QED BY <2>2, <2>3, <2>4 DEF QueuedOnce, Holds
  <1>2. CASE NotEnqueued(j)
    <2>1. q' = q /\ state' = [state EXCEPT ![j] = "refused"]
      BY <1>2 DEF NotEnqueued
    <2>2. In("queued")' = In("queued")
      BY <2>1, StateMoves DEF IInv, In
    <2> QED BY <2>1, <2>2 DEF IInv, QueuedOnce, Holds
  <1> QED BY <1>1, <1>2 DEF __enqueue

(* Where a thread goes.                                                    *)
LEMMA Goes ==
    ASSUME TypeOK, NEW t \in Threads, NEW l, Goto(t, l),
           l \in HasJob \cup HasLock \cup {"idle", "signal", "count", "lock"}
    PROVE  /\ pc' \in [Threads -> HasJob \cup HasLock \cup {"idle", "signal", "count", "lock"}]
           /\ pc'[t] = l /\ \A u \in Threads \ {t} : pc'[u] = pc[u]
  BY DEF TypeOK, Goto

(* A thread goes on without a job, or with the one it has.                 *)
LEMMA GoesOn ==
    ASSUME IInv, NEW t \in Threads, NEW l, Goto(t, l),
           l \in HasJob \cup HasLock \cup {"idle", "signal", "count", "lock"},
           l \in HasJob <=> pc[t] \in HasJob,
           UNCHANGED <<q, state, job>>, PopsFilled'
    PROVE  IInv'
  <1>1. TypeOK'
    BY Goes DEF IInv, TypeOK
  <1>2. QueuedOnce' /\ TakenOnce'
    BY DEF IInv, QueuedOnce, TakenOnce, In
  <1>3. JobInHand'
    BY Goes DEF IInv, JobInHand
  <1> QED BY <1>1, <1>2, <1>3 DEF IInv

(* A thread takes a new job, or the head of the queue.                     *)
LEMMA TakesStep ==
    ASSUME IInv, NEW t \in Threads, pc[t] \notin HasJob, NEW l \in HasJob, Goto(t, l),
           NEW j \in Jobs, state' = [state EXCEPT ![j] = "taken"],
           job' = [job EXCEPT ![t] = j],
           \/ state[j] = "new" /\ q' = q
           \/ q # <<>> /\ j = Head(q) /\ q' = Tail(q),
           PopsFilled'
    PROVE  IInv'
  <1>1. job[t] = NoJob
    BY DEF IInv, JobInHand
  <1>2. QueuedOnce' /\ state[j] # "taken" /\ q' \in Seq(Jobs)
    <2>1. In("queued")' = In("queued") \ {j}
      BY StateMoves DEF IInv
    <2>2. CASE state[j] = "new" /\ q' = q
      BY <2>1, <2>2 DEF IInv, QueuedOnce, Holds, In
    <2>3. CASE q # <<>> /\ j = Head(q) /\ q' = Tail(q)
      <3>1. j \in In("queued") /\ Holds(q', In("queued") \ {j})
        BY <2>3, TailHolds DEF IInv, QueuedOnce
      <3> QED BY <2>1, <3>1 DEF QueuedOnce, Holds, In
    <2> QED BY <2>2, <2>3
  <1>3. TakenOnce' /\ job' \in [Threads -> Jobs \cup {NoJob}]
    BY <1>1, <1>2, Takes
  <1>4. TypeOK'
    BY <1>2, <1>3, Goes, StateMoves DEF IInv, TypeOK
  <1>5. JobInHand'
    <2>1. job'[t] = j /\ \A u \in Threads \ {t} : job'[u] = job[u]
      BY DEF IInv, TypeOK
    <2>2. j # NoJob
      BY WorksAssumption
    <2> QED BY <2>1, <2>2, Goes DEF IInv, JobInHand
  <1> QED BY <1>2, <1>3, <1>4, <1>5 DEF IInv

(* A thread is rid of its job: it is queued, refused or run.               *)
LEMMA LetsGoStep ==
    ASSUME IInv, NEW t \in Threads, pc[t] \in HasJob,
           NEW l \in HasLock \cup {"idle", "signal", "lock"}, Goto(t, l),
           job' = [job EXCEPT ![t] = NoJob],
           \/ __enqueue(job[t])
           \/ q' = q /\ state' = [state EXCEPT ![job[t]] = "done"],
           PopsFilled'
    PROVE  IInv'
  <1>1. PICK j \in Jobs : j = job[t] /\ state[j] = "taken"
    BY DEF IInv, TypeOK, JobInHand, TakenOnce
  <1>2. PICK s \in {"queued", "done", "refused"} :
           state' = [state EXCEPT ![j] = s] /\ QueuedOnce'
    <2>1. CASE __enqueue(job[t])
      BY <1>1, <2>1, Enqueues
    <2>2. CASE q' = q /\ state' = [state EXCEPT ![job[t]] = "done"]
      <3>1. In("queued")' = In("queued")
        BY <1>1, <2>2, StateMoves DEF IInv, In
      <3> QED BY <1>1, <2>2, <3>1 DEF IInv, QueuedOnce, Holds
    <2> QED BY <2>1, <2>2
  <1>3. TakenOnce' /\ job' \in [Threads -> Jobs \cup {NoJob}]
    BY <1>1, <1>2, LetsGo
  <1>4. TypeOK'
    BY <1>2, <1>3, Goes, StateMoves DEF IInv, TypeOK, QueuedOnce, Holds
  <1>5. JobInHand'
    <2>1. job'[t] = NoJob /\ \A u \in Threads \ {t} : job'[u] = job[u]
      BY DEF IInv, TypeOK
    <2>2. l \notin HasJob
      BY DEF HasJob, HasLock
    <2> QED BY <2>1, <2>2, Goes DEF IInv, JobInHand
  <1> QED BY <1>2, <1>3, <1>4, <1>5 DEF IInv

(* Nothing is queued and no thread has a job.                              *)
LEMMA InitIInv == Init => IInv
  <1> SUFFICES ASSUME Init PROVE IInv
    OBVIOUS
  <1>1. TypeOK
    BY DEF Init, TypeOK
  <1>2. q = <<>> /\ Len(q) = 0 /\ In("queued") = {} /\ In("taken") = {}
    BY DEF Init, In
  <1>3. QueuedOnce
    BY <1>1, <1>2 DEF QueuedOnce, Holds, TypeOK
  <1>4. TakenOnce
    BY <1>2 DEF Init, TakenOnce
  <1>5. JobInHand /\ PopsFilled
    BY DEF Init, JobInHand, PopsFilled, HasJob, HasLock
  <1> QED BY <1>1, <1>3, <1>4, <1>5 DEF IInv

(* A thread that goes somewhere leaves the lock and the queue as those who *)
(* have the lock of a wait queue need them.                                *)
LEMMA PopsKept ==
    ASSUME IInv, NEW t \in Threads, NEW l, Goto(t, l), kind' = kind,
           l \in HasJob \cup HasLock \cup {"idle", "signal", "count", "lock"},
           isWaitq => \A u \in Threads \ {t} : lock = u => lock' = u,
           isWaitq /\ l \in HasLock => lock' = t,
           l = "pop" => isWaitq /\ q' # <<>>,
           \A u \in Threads \ {t} : pc[u] = "pop" => q' # <<>>
    PROVE  PopsFilled'
  BY Goes DEF IInv, PopsFilled, isWaitq

(* A job goes into a work queue straight from its caller.                  *)
LEMMA WorkqStep ==
    ASSUME IInv, NEW t \in Threads, NEW j \in Jobs, xworkq_enqueue(t, j)
    PROVE  IInv'
  <1>1. /\ ~isWaitq /\ pc[t] = "idle" /\ state[j] = "new" /\ __enqueue(j)
        /\ UNCHANGED <<kind, lock, pc, job>>
    BY DEF xworkq_enqueue
  <1>2. PICK s \in {"queued", "refused"} : state' = [state EXCEPT ![j] = s]
    BY <1>1, Enqueues
  <1>3. QueuedOnce' /\ (q # <<>> => q' # <<>>)
    BY <1>1, Enqueues
  <1>4. /\ state' \in [Jobs -> {"new", "queued", "taken", "done", "refused"}]
        /\ \A k \in Jobs \ {j} : state'[k] = state[k]
        /\ In("taken")' = In("taken")
    BY <1>1, <1>2, StateMoves DEF IInv, In
  <1>5. TakenOnce'
    BY <1>1, <1>4 DEF IInv, TypeOK, TakenOnce
  <1>6. TypeOK'
    BY <1>1, <1>3, <1>4 DEF IInv, TypeOK, QueuedOnce, Holds
  <1>7. JobInHand'
    BY <1>1 DEF IInv, JobInHand
  <1>8. PopsFilled'
    BY <1>1 DEF IInv, PopsFilled, isWaitq
  <1> QED BY <1>3, <1>5, <1>6, <1>7, <1>8 DEF IInv

(* Each step keeps the invariant.                                          *)
LEMMA NextIInv ==
    ASSUME IInv, [Next]_vars
    PROVE  IInv'
  <1> USE DEF HasJob, HasLock
  <1>1. ASSUME NEW t \in Threads, NEW j \in Jobs, xwaitq_enqueue(t, j) PROVE IInv'
    <2>1. PICK h \in HasJob : h \in {"run_now", "enqueue"} /\ Goto(t, h)
      BY <1>1 DEF xwaitq_enqueue
    <2>2. PopsFilled'
      BY <1>1, <2>1, PopsKept DEF xwaitq_enqueue, IInv, PopsFilled
    <2> QED BY <1>1, <2>1, <2>2, TakesStep DEF xwaitq_enqueue
  <1>2. ASSUME NEW t \in Threads, run_now(t) PROVE IInv'
    <2>1. PopsFilled'
      BY <1>2, PopsKept DEF run_now, IInv, PopsFilled
    <2> QED BY <1>2, <2>1, LetsGoStep DEF run_now
  <1>3. ASSUME NEW t \in Threads, locked_enqueue(t) PROVE IInv'
    <2>1. job[t] \in Jobs /\ state[job[t]] # "queued"
      BY <1>3 DEF locked_enqueue, IInv, TypeOK, JobInHand, TakenOnce
    <2>2. q # <<>> => q' # <<>>
      BY <1>3, <2>1, Enqueues DEF locked_enqueue
    <2>3. PopsFilled'
      BY <1>3, <2>2, PopsKept DEF locked_enqueue, IInv, PopsFilled
    <2> QED BY <1>3, <2>3, LetsGoStep DEF locked_enqueue
  <1>4. ASSUME NEW t \in Threads, signal_only(t) PROVE IInv'
    <2>1. PopsFilled'
      BY <1>4, PopsKept DEF signal_only, IInv, PopsFilled
    <2> QED BY <1>4, <2>1, GoesOn DEF signal_only
  <1>5. ASSUME NEW t \in Threads, take_address(t) PROVE IInv'
    <2>1. PopsFilled'
      BY <1>5, PopsKept DEF take_address, IInv, PopsFilled
    <2> QED BY <1>5, <2>1, GoesOn DEF take_address
  <1>6. ASSUME NEW t \in Threads, read_count(t) PROVE IInv'
    <2>1. PICK l \in {"lock", "idle"} : Goto(t, l)
      BY <1>6 DEF read_count
    <2>2. PopsFilled'
      BY <1>6, <2>1, PopsKept DEF read_count, IInv, PopsFilled
    <2> QED BY <1>6, <2>1, <2>2, GoesOn DEF read_count
  <1>7. ASSUME NEW t \in Threads, take_lock(t) PROVE IInv'
    <2>1. PICK l \in {"locked", "idle"} :
             /\ Goto(t, l)
             /\ l = "locked" => \/ lock = NoThread /\ lock' = t
                                \/ ~isWaitq
             /\ l = "idle" => lock' = lock
      BY <1>7 DEF take_lock, isWaitq
    <2>2. PopsFilled'
      BY <1>7, <2>1, PopsKept, WorksAssumption DEF take_lock, IInv, PopsFilled
    <2> QED BY <1>7, <2>1, <2>2, GoesOn DEF take_lock
  <1>8. ASSUME NEW t \in Threads, xworkq_pop(t) PROVE IInv'
    <2>1. ~isWaitq /\ \A u \in Threads : pc[u] # "pop"
      BY <1>8 DEF xworkq_pop, IInv, PopsFilled
    <2>2. CASE q # <<>>
      <3>1. PopsFilled'
        BY <1>8, <2>1, <2>2, PopsKept DEF xworkq_pop
      <3>2. Head(q) \in Jobs
        BY <2>2, TailHolds DEF IInv, QueuedOnce
      <3> QED BY <1>8, <2>2, <3>1, <3>2, TakesStep DEF xworkq_pop, pop_head
    <2>3. CASE q = <<>>
      <3>1. PopsFilled'
        BY <1>8, <2>1, <2>3, PopsKept DEF xworkq_pop
      <3> QED BY <1>8, <2>3, <3>1, GoesOn DEF xworkq_pop
    <2> QED BY <2>2, <2>3
  <1>9. ASSUME NEW t \in Threads, xwaitq_test(t) PROVE IInv'
    <2>1. PICK l \in {"pop", "unlock"} : Goto(t, l) /\ (l = "pop" => q # <<>>)
      BY <1>9 DEF xwaitq_test
    <2>2. PopsFilled'
      BY <1>9, <2>1, PopsKept DEF xwaitq_test, IInv, PopsFilled
    <2> QED BY <1>9, <2>1, <2>2, GoesOn DEF xwaitq_test
  <1>10. ASSUME NEW t \in Threads, xwaitq_pop(t) PROVE IInv'
    <2>1. lock = t /\ q # <<>> /\ \A u \in Threads \ {t} : pc[u] # "pop"
      BY <1>10 DEF xwaitq_pop, IInv, PopsFilled
    <2>2. PopsFilled'
      BY <1>10, <2>1, PopsKept DEF xwaitq_pop
    <2>3. Head(q) \in Jobs
      BY <2>1, TailHolds DEF IInv, QueuedOnce
    <2> QED BY <1>10, <2>1, <2>2, <2>3, TakesStep DEF xwaitq_pop, pop_head
  <1>11. ASSUME NEW t \in Threads, run_job(t) PROVE IInv'
    <2>1. PICK l \in {"lock", "locked"} : Goto(t, l) /\ (l = "locked" => ~isWaitq)
      BY <1>11 DEF run_job
    <2>2. PopsFilled'
      BY <1>11, <2>1, PopsKept DEF run_job, IInv, PopsFilled
    <2> QED BY <1>11, <2>1, <2>2, LetsGoStep DEF run_job
  <1>12. ASSUME NEW t \in Threads, unlock(t) PROVE IInv'
    <2>1. PICK l \in {"idle", "signal"} : Goto(t, l)
      BY <1>12 DEF unlock
    <2>2. PopsFilled'
      BY <1>12, <2>1, PopsKept DEF unlock, IInv, PopsFilled
    <2> QED BY <1>12, <2>1, <2>2, GoesOn DEF unlock
  <1>13. ASSUME cond_ends \/ UNCHANGED vars PROVE IInv'
    <2>1. UNCHANGED <<kind, q, lock, state, pc, job>>
      BY <1>13 DEF cond_ends, vars
    <2>2. TypeOK' /\ JobInHand'
      BY <2>1 DEF IInv, TypeOK, JobInHand
    <2>3. QueuedOnce' /\ TakenOnce'
      BY <2>1 DEF IInv, QueuedOnce, TakenOnce, In
    <2>4. PopsFilled'
      BY <2>1 DEF IInv, PopsFilled, isWaitq
    <2> QED BY <2>2, <2>3, <2>4 DEF IInv
  <1> QED BY <1>1, <1>2, <1>3, <1>4, <1>5, <1>6, <1>7, <1>8, <1>9, <1>10, <1>11, <1>12,
             <1>13, WorkqStep DEF Next, Progress

(* The invariant counts the places of a job.                               *)
LEMMA CountsPlaces == IInv => EachJobOnce
  <1> SUFFICES ASSUME IInv, NEW j \in Jobs
               PROVE  /\ Cardinality({i \in DOMAIN q : q[i] = j})
                           = IF state[j] = "queued" THEN 1 ELSE 0
                      /\ Cardinality({t \in Threads : job[t] = j})
                           = IF state[j] = "taken" THEN 1 ELSE 0
    BY DEF EachJobOnce
  <1>1. DOMAIN q = 1..Len(q)
    BY DEF IInv, TypeOK
  <1>2. CASE state[j] = "queued"
    <2>1. PICK i \in DOMAIN q : q[i] = j
      BY <1>1, <1>2 DEF IInv, QueuedOnce, Holds, In
    <2>2. {k \in DOMAIN q : q[k] = j} = {i}
      BY <1>1, <2>1 DEF IInv, QueuedOnce, Holds
    <2>3. {t \in Threads : job[t] = j} = {}
      BY <1>2, WorksAssumption DEF IInv, TakenOnce
    <2> QED BY <1>2, <2>2, <2>3, FS_Singleton, FS_EmptySet
  <1>3. CASE state[j] # "queued"
    <2>1. {k \in DOMAIN q : q[k] = j} = {}
      BY <1>1, <1>3 DEF IInv, QueuedOnce, Holds, In
    <2>2. CASE state[j] = "taken"
      <3>1. PICK t \in Threads : job[t] = j
        BY <2>2 DEF IInv, TakenOnce, In
      <3>2. {u \in Threads : job[u] = j} = {t}
        BY <3>1, WorksAssumption DEF IInv, TakenOnce
      <3> QED BY <2>1, <2>2, <3>2, FS_Singleton, FS_EmptySet
    <2>3. CASE state[j] # "taken"
      <3>1. {u \in Threads : job[u] = j} = {}
        BY <2>3, WorksAssumption DEF IInv, TakenOnce
      <3> QED BY <1>3, <2>1, <2>3, <3>1, FS_EmptySet
    <2> QED BY <2>2, <2>3
  <1> QED BY <1>2, <1>3

(* xworkq and xwaitq neither lose a job nor give it to two threads, though *)
(* the xq is replaced when it is full, and the lock given up round a job.  *)
THEOREM JobsKept == Spec => []EachJobOnce
  BY InitIInv, NextIInv, CountsPlaces, PTL DEF Spec

-----------------------------------------------------------------------------
(* Why no job is left behind: whoever has jobs to leave is seen by another.*)

(* A thread that is going to look at the queue, or has it in hand, or owes *)
(* it a signal.  One whose reading of the count is torn may read zero.     *)
Looks(t) == \/ pc[t] \in {"signal", "lock", "locked", "pop", "run"}
            \/ pc[t] = "count" /\ t \notin torn
            \/ pc[t] = "unlock" /\ ~isWaitq
            \/ t \in owes

(* The lock of a work queue is had by a thread that will look once more.   *)
LockLooks == ~isWaitq /\ lock # NoThread
                => lock \in Threads /\ pc[lock] \in {"locked", "run", "unlock"}

SomeoneLooks == /\ q # <<>> /\ kind # "waitq_one" /\ (isWaitq => cond)
                => \E t \in Threads : Looks(t)

LookInv == LockLooks /\ SomeoneLooks

(* A thread that looks, or will, after its step.                           *)
LEMMA LooksNext ==
    ASSUME NEW t \in Threads, Looks(t)', LockLooks'
    PROVE  LookInv'
  BY DEF LookInv, SomeoneLooks

(* A thread's step keeps the others' places.                               *)
LEMMA OthersPlaces ==
    ASSUME TypeOK, NEW t \in Threads, NEW l, Goto(t, l)
    PROVE  pc'[t] = l /\ \A u \in Threads \ {t} : pc'[u] = pc[u]
  BY DEF TypeOK, Goto

(* Every step keeps that someone looks.                                    *)
LEMMA NextLookInv ==
    ASSUME IInv, LookInv, [Next]_vars
    PROVE  LookInv'
  <1> USE DEF IInv, LookInv
  <1>0. isWaitq' <=> isWaitq
    BY DEF Next, xworkq_enqueue, xwaitq_enqueue, signal_only, cond_ends, Progress, run_now,
           locked_enqueue, take_address, read_count, take_lock, xworkq_pop, xwaitq_test,
           xwaitq_pop, run_job, unlock, vars, isWaitq
  (* A step that changes neither the lock nor what there is to run, of a   *)
  (* thread that did not look, unless it owes a signal, and still does.    *)
  <1>1. ASSUME NEW t \in Threads, NEW l, Goto(t, l), Looks(t) => t \in owes,
               UNCHANGED <<kind, q, lock, owes>>, cond' => cond, torn' \ {t} \subseteq torn,
               pc[t] \notin {"locked", "run", "unlock"} \/ isWaitq
        PROVE  LookInv'
    <2>1. pc'[t] = l /\ \A u \in Threads \ {t} : pc'[u] = pc[u]
      BY <1>1, OthersPlaces
    <2>2. LockLooks'
      BY <1>0, <1>1, <2>1 DEF LockLooks
    <2>3. \A u \in Threads : Looks(u) => Looks(u)'
      BY <1>0, <1>1, <2>1 DEF Looks
    <2> QED BY <1>0, <1>1, <2>2, <2>3 DEF SomeoneLooks
  (* A step to a place that looks.                                         *)
  <1>2. ASSUME NEW t \in Threads, NEW l, Goto(t, l),
               \/ l \in {"signal", "lock"} /\ (pc[t] \in {"locked", "run", "unlock"} => isWaitq)
               \/ l \in {"locked", "run"}
               \/ l = "pop" /\ isWaitq,
               lock' = lock \/ isWaitq
        PROVE  LookInv'
    <2>1. pc'[t] = l /\ \A u \in Threads \ {t} : pc'[u] = pc[u]
      BY <1>2, OthersPlaces
    <2>2. LockLooks'
      BY <1>0, <1>2, <2>1 DEF LockLooks
    <2> QED BY <1>2, <2>1, <2>2, LooksNext DEF Looks
  <1>3. ASSUME NEW t \in Threads, NEW j \in Jobs, xworkq_enqueue(t, j) PROVE LookInv'
    <2>1. LockLooks'
      BY <1>0, <1>3 DEF LockLooks, xworkq_enqueue
    <2>2. Looks(t)'
      BY <1>3 DEF Looks, xworkq_enqueue
    <2> QED BY <2>1, <2>2, LooksNext
  <1>4. ASSUME NEW t \in Threads, NEW j \in Jobs, xwaitq_enqueue(t, j) PROVE LookInv'
    <2>1. Looks(t) => t \in owes
      BY <1>4 DEF xwaitq_enqueue, Looks
    <2> QED BY <1>1, <1>4, <2>1 DEF xwaitq_enqueue
  <1>5. ASSUME NEW t \in Threads, run_now(t) PROVE LookInv'
    <2>1. Looks(t) => t \in owes
      BY <1>5 DEF run_now, Looks
    <2> QED BY <1>1, <1>5, <2>1 DEF run_now
  <1>6. ASSUME NEW t \in Threads, locked_enqueue(t) PROVE LookInv'
    BY <1>2, <1>6 DEF locked_enqueue
  <1>7. ASSUME NEW t \in Threads, signal_only(t) PROVE LookInv'
    BY <1>2, <1>7 DEF signal_only
  <1>8. ASSUME NEW t \in Threads, take_address(t) PROVE LookInv'
    <2>1. pc'[t] = "count" /\ \A u \in Threads \ {t} : pc'[u] = pc[u]
      BY <1>8, OthersPlaces DEF take_address
    <2>2. LockLooks'
      BY <1>0, <1>8, <2>1 DEF LockLooks, take_address
    <2>3. Looks(t)'
      BY <1>8, <2>1 DEF Looks, take_address
    <2> QED BY <2>2, <2>3, LooksNext
  <1>9. ASSUME NEW t \in Threads, read_count(t) PROVE LookInv'
    <2>1. CASE Goto(t, "lock")
      BY <1>2, <1>9, <2>1 DEF read_count
    <2>2. CASE Goto(t, "idle") /\ t \in torn
      <3>1. Looks(t) => t \in owes
        BY <1>9, <2>2 DEF read_count, Looks
      <3> QED BY <1>1, <1>9, <2>2, <3>1 DEF read_count
    <2>3. CASE Goto(t, "idle") /\ q = <<>>
      <3>1. pc'[t] = "idle" /\ \A u \in Threads \ {t} : pc'[u] = pc[u]
        BY <2>3, OthersPlaces
      <3>2. LockLooks'
        BY <1>0, <1>9, <3>1 DEF LockLooks, read_count
      <3> QED BY <1>9, <2>3, <3>2 DEF SomeoneLooks, read_count
    <2> QED BY <1>9, <2>1, <2>2, <2>3 DEF read_count
  <1>10. ASSUME NEW t \in Threads, take_lock(t) PROVE LookInv'
    <2>1. CASE lock = NoThread /\ lock' = t /\ Goto(t, "locked")
      <3>1. pc'[t] = "locked" /\ \A u \in Threads \ {t} : pc'[u] = pc[u]
        BY <2>1, OthersPlaces
      <3>2. LockLooks'
        BY <2>1, <3>1 DEF LockLooks
      <3> QED BY <3>1, <3>2, LooksNext DEF Looks
    <2>2. CASE lock' = lock /\ Goto(t, "locked")
      BY <1>2, <2>2
    <2>3. CASE /\ kind \in {"workq", "waitq_one"} /\ lock # NoThread
               /\ Goto(t, "idle") /\ UNCHANGED lock
      <3>1. pc'[t] = "idle" /\ \A u \in Threads \ {t} : pc'[u] = pc[u]
        BY <2>3, OthersPlaces
      <3>2. LockLooks'
        BY <1>0, <1>10, <2>3, <3>1 DEF LockLooks, take_lock
      <3>3. CASE kind = "workq"
        <4>1. ~isWaitq
          BY <3>3 DEF isWaitq
        <4>2. lock \in Threads /\ pc[lock] \in {"locked", "run", "unlock"} /\ lock # t
          BY <1>10, <2>3, <4>1 DEF LockLooks, take_lock
        <4>3. Looks(lock)'
          BY <1>0, <2>3, <3>1, <4>1, <4>2 DEF Looks
        <4> QED BY <2>3, <3>2, <4>2, <4>3 DEF SomeoneLooks
      <3>4. CASE kind = "waitq_one"
        BY <1>10, <3>2, <3>4 DEF take_lock, SomeoneLooks
      <3> QED BY <2>3, <3>3, <3>4
    <2> QED BY <1>10, <2>1, <2>2, <2>3 DEF take_lock
  <1>11. ASSUME NEW t \in Threads, xworkq_pop(t) PROVE LookInv'
    <2>1. PICK l \in {"run", "unlock"} : Goto(t, l)
      BY <1>11 DEF xworkq_pop
    <2>2. pc'[t] = l /\ \A u \in Threads \ {t} : pc'[u] = pc[u]
      BY <2>1, OthersPlaces
    <2>3. LockLooks'
      BY <1>0, <1>11, <2>2 DEF LockLooks, xworkq_pop
    <2>4. Looks(t)'
      BY <1>0, <1>11, <2>2 DEF Looks, xworkq_pop
    <2> QED BY <2>3, <2>4, LooksNext
  <1>12. ASSUME NEW t \in Threads, xwaitq_test(t) PROVE LookInv'
    <2>1. CASE Goto(t, "pop")
      BY <1>2, <1>12, <2>1 DEF xwaitq_test
    <2>2. CASE Goto(t, "unlock") /\ ~(q # <<>> /\ cond)
      <3>1. LockLooks'
        BY <1>0, <1>12 DEF LockLooks, xwaitq_test
      <3> QED BY <1>0, <1>12, <2>2, <3>1 DEF SomeoneLooks, xwaitq_test
    <2> QED BY <1>12, <2>1, <2>2 DEF xwaitq_test
  <1>13. ASSUME NEW t \in Threads, xwaitq_pop(t) PROVE LookInv'
    BY <1>2, <1>13 DEF xwaitq_pop, PopsFilled
  <1>14. ASSUME NEW t \in Threads, run_job(t) PROVE LookInv'
    BY <1>2, <1>14 DEF run_job
  <1>15. ASSUME NEW t \in Threads, unlock(t) PROVE LookInv'
    <2>1. CASE isWaitq
      <3>1. (Looks(t) => t \in owes) /\ LockLooks'
        BY <1>0, <1>15, <2>1 DEF unlock, Looks, LockLooks
      <3>2. Goto(t, "idle")
        BY <1>15, <2>1 DEF unlock
      <3>3. \A u \in Threads \ {t} : pc'[u] = pc[u]
        BY <3>2, OthersPlaces
      <3>4. \A u \in Threads : Looks(u) => Looks(u)'
        BY <1>0, <1>15, <3>1, <3>3 DEF Looks, unlock
      <3> QED BY <1>0, <1>15, <3>1, <3>4 DEF SomeoneLooks, unlock
    <2>2. CASE ~isWaitq
      <3>1. pc'[t] = "signal" /\ \A u \in Threads \ {t} : pc'[u] = pc[u]
        BY <1>15, <2>2, OthersPlaces DEF unlock
      <3>2. LockLooks'
        BY <1>0, <1>15, <3>1 DEF LockLooks, unlock
      <3> QED BY <3>1, <3>2, LooksNext DEF Looks
    <2> QED BY <2>1, <2>2
  <1>16. ASSUME cond_ends \/ UNCHANGED vars PROVE LookInv'
    <2>1. UNCHANGED <<kind, q, lock, pc, torn, owes>> /\ (cond' => cond)
      BY <1>16 DEF cond_ends, vars
    <2>2. LockLooks'
      BY <1>0, <2>1 DEF LockLooks
    <2>3. \A u \in Threads : Looks(u) => Looks(u)'
      BY <1>0, <2>1 DEF Looks
    <2> QED BY <1>0, <2>1, <2>2, <2>3 DEF SomeoneLooks
  <1> QED BY <1>3, <1>4, <1>5, <1>6, <1>7, <1>8, <1>9, <1>10, <1>11, <1>12, <1>13, <1>14,
             <1>15, <1>16 DEF Next, Progress

(* When all threads are back from their calls, and have signalled a work   *)
(* queue since they put jobs into it, no job that could run is in the      *)
(* queue: a signaller that reads a count of zero, or a torn one, or finds  *)
(* the lock of a work queue taken, leaves to another that looks later;     *)
(* proved for any threads, jobs and first size of the queue.               *)
THEOREM NoneStranded == Spec => []NoJobStranded
  <1>1. Init => LookInv
    BY DEF Init, LookInv, LockLooks, SomeoneLooks
  <1>2. IInv /\ LookInv => NoJobStranded
    <2>1. ASSUME IInv, LookInv, \A t \in Threads : pc[t] = "idle", owes = {}
          PROVE  \A t \in Threads : ~Looks(t)
      BY <2>1 DEF Looks
    <2> QED BY <2>1 DEF LookInv, SomeoneLooks, NoJobStranded
  <1> QED BY <1>1, <1>2, InitIInv, NextIInv, NextLookInv, PTL DEF Spec
-----------------------------------------------------------------------------
(* What the walks of a ring and the calls along a path need: induction.    *)
LEMMA SetInduction ==
    ASSUME NEW T, 0 \in T, \A n \in Nat : n \in T => n + 1 \in T
    PROVE  \A n \in Nat : n \in T
  <1> SUFFICES ASSUME Nat \ T # {} PROVE FALSE
    OBVIOUS
  <1> DEFINE Less == {ss \in Nat \X Nat : ss[1] < ss[2]}
  <1>1. IsWellFoundedOn(Less, Nat)
    BY NatLessThanWellFounded DEF OpToRel
  <1> HIDE DEF Less
  <1>2. PICK n \in Nat \ T : \A m \in Nat \ T : ~(<<m, n>> \in Less)
    <2>1. Nat \ T \in SUBSET Nat
      OBVIOUS
    <2> QED BY <1>1, <2>1, WFMin
  <1>3. n # 0 /\ n - 1 \in Nat /\ n - 1 + 1 = n
    OBVIOUS
  <1>4. n - 1 \in Nat \ T
    BY <1>3
  <1>5. <<n - 1, n>> \in Nat \X Nat /\ <<n - 1, n>>[1] < <<n - 1, n>>[2]
    BY <1>3
  <1>6. <<n - 1, n>> \in Less
    BY <1>5, Zenon DEF Less
  <1> QED BY <1>2, <1>4, <1>6
-----------------------------------------------------------------------------
(* The pool: its members s, n of them, stand in a ring from the next one   *)
(* to be looked at, the nodes f, m of them, on the free list.              *)
Places == Idx \cup {NoIndex}
PoolRec == [list : Places, free : Places, next : [Idx -> Places], prev : [Idx -> Places],
            data : [Idx -> PoolData \cup {NoIndex}]]

Apart(s, n, f, m) ==
    /\ n \in Nat /\ m \in Nat /\ s \in [1..n -> Idx] /\ f \in [1..m -> Idx]
    /\ \A i, j \in 1..n : s[i] = s[j] => i = j
    /\ \A i, j \in 1..m : f[i] = f[j] => i = j
    /\ \A i \in 1..n, j \in 1..m : s[i] # f[j]
    /\ \A k \in Idx : (\E i \in 1..n : s[i] = k) \/ (\E j \in 1..m : f[j] = k)

RingLinks(x, s, n) ==
    \A i \in 1..n : /\ x.next[s[i]] = s[IF i = n THEN 1 ELSE i + 1]
                    /\ x.prev[s[i]] = s[IF i = 1 THEN n ELSE i - 1]

FreeLinks(x, f, m) ==
    \A j \in 1..m : /\ x.next[f[j]] = IF j = m THEN NoIndex ELSE f[j + 1]
                    /\ x.prev[f[j]] = NoIndex

Linked(x, s, n, f, m) ==
    /\ x \in PoolRec /\ Apart(s, n, f, m)
    /\ RingLinks(x, s, n) /\ FreeLinks(x, f, m)
    /\ x.list = IF n = 0 THEN NoIndex ELSE s[1]
    /\ x.free = IF m = 0 THEN NoIndex ELSE f[1]

Shown(x, s, n) == [i \in 1..n |-> <<s[i], x.data[s[i]]>>]

(* The nodes are numbered from 0, and -1 is none of them.                  *)
LEMMA IdxIs == /\ PoolSize \in Nat \ {0} /\ Idx = 0..PoolSize-1 /\ NoIndex \notin Idx
               /\ IsFiniteSet(Idx) /\ Cardinality(Idx) = PoolSize
  <1>1. PoolSize \in Nat \ {0} /\ Idx = 0..PoolSize-1 /\ NoIndex \notin Idx
    BY PoolAssumption DEF Idx
  <1>2. 0 \in Int /\ PoolSize - 1 \in Int /\ 0 <= PoolSize - 1 + 1
    BY <1>1
  <1>3. IsFiniteSet(Idx) /\ Cardinality(Idx) = PoolSize
    BY <1>1, <1>2, FS_Interval
  <1> QED BY <1>1, <1>3

(* A sequence of different nodes is a set of as many.                      *)
LEMMA CountOf ==
    ASSUME NEW n \in Nat, NEW s \in [1..n -> Idx], \A i, j \in 1..n : s[i] = s[j] => i = j,
           NEW S, S = {s[i] : i \in 1..n}
    PROVE  IsFiniteSet(S) /\ Cardinality(S) = n
  <1>1. IsFiniteSet(1..n) /\ Cardinality(1..n) = n
    BY FS_Interval
  <1>2. s \in Bijection(1..n, S)
    BY DEF Bijection, Injection, Surjection, IsInjective
  <1>3. ExistsBijection(1..n, S)
    BY <1>2 DEF ExistsBijection
  <1> QED BY <1>1, <1>3, FS_Bijection

(* Nodes that have a node before them are those of the ring.               *)
LEMMA MembersAre ==
    ASSUME NEW x, NEW s, NEW n, NEW f, NEW m, Linked(x, s, n, f, m)
    PROVE  /\ \A k \in Idx : x.prev[k] # NoIndex <=> \E i \in 1..n : s[i] = k
           /\ {k \in Idx : x.prev[k] # NoIndex} = {s[i] : i \in 1..n}
  <1>1. Apart(s, n, f, m) /\ RingLinks(x, s, n) /\ FreeLinks(x, f, m) /\ NoIndex \notin Idx
    BY IdxIs DEF Linked
  <1>2. ASSUME NEW i \in 1..n PROVE s[i] \in Idx /\ x.prev[s[i]] \in Idx
    <2>1. i \in 1..n /\ n \in 1..n /\ (i # 1 => i - 1 \in 1..n) /\ s \in [1..n -> Idx]
      BY <1>1 DEF Apart
    <2> QED BY <1>1, <2>1 DEF RingLinks
  <1>3. ASSUME NEW k \in Idx PROVE x.prev[k] # NoIndex <=> \E i \in 1..n : s[i] = k
    <2>1. CASE \E i \in 1..n : s[i] = k
      BY <1>1, <1>2, <2>1
    <2>2. CASE \E j \in 1..m : f[j] = k
      BY <1>1, <2>2 DEF FreeLinks, Apart
    <2> QED BY <1>1, <2>1, <2>2 DEF Apart
  <1> QED BY <1>2, <1>3

(* The walk, as a function of the pool.                                    *)
WalkOf(x) ==
    LET nth[n \in 1..Cardinality({i \in Idx : x.prev[i] # NoIndex})] ==
          IF n = 1 THEN x.list ELSE x.next[nth[n-1]]
    IN  [n \in 1..Cardinality({i \in Idx : x.prev[i] # NoIndex}) |-> <<nth[n], x.data[nth[n]]>>]

(* The walk of the state is that of its pool.                              *)
LEMMA WalksAre == Walk = WalkOf(pool) /\ Walk' = WalkOf(pool')
  <1>1. Walk = WalkOf(pool)
    BY DEF Walk, WalkOf, Members
  <1>2. Walk' = WalkOf(pool')
    BY DEF Walk, WalkOf, Members, Idx
  <1> QED BY <1>1, <1>2

(* A walk along next from the list meets the ring in its order.            *)
LEMMA WalkIs ==
    ASSUME NEW x, NEW s, NEW n, NEW f, NEW m, Linked(x, s, n, f, m)
    PROVE  WalkOf(x) = Shown(x, s, n)
  <1>1. /\ Apart(s, n, f, m) /\ RingLinks(x, s, n) /\ n \in Nat /\ s \in [1..n -> Idx]
        /\ (n # 0 => x.list = s[1])
    BY DEF Linked, Apart
  <1> DEFINE members == {i \in Idx : x.prev[i] # NoIndex}
  <1>2. members = {s[i] : i \in 1..n}
    BY MembersAre 
  <1>3. Cardinality(members) = n
    BY <1>1, <1>2, CountOf DEF Apart
  <1> DEFINE Nth(g) == [k \in 1..n |-> IF k = 1 THEN x.list ELSE x.next[g[k-1]]]
             nth == CHOOSE g : g = [k \in 1..Cardinality(members) |->
                                      IF k = 1 THEN x.list ELSE x.next[g[k-1]]]
  <1>4. s = Nth(s)
    <2>1. ASSUME NEW k \in 1..n PROVE s[k] = IF k = 1 THEN x.list ELSE x.next[s[k-1]]
      <3>1. CASE k = 1
        BY <1>1, <3>1
      <3>2. CASE k # 1
        <4>1. k - 1 \in 1..n /\ k - 1 # n /\ k - 1 + 1 = k
          BY <1>1, <3>2
        <4> QED BY <1>1, <3>2, <4>1 DEF RingLinks
      <3> QED BY <3>1, <3>2
    <2> QED BY <1>1, <2>1
  <1>5. nth = Nth(nth)
    BY <1>3, <1>4
  <1>8. WalkOf(x) = [k \in 1..Cardinality(members) |-> <<nth[k], x.data[nth[k]]>>]
    BY DEF WalkOf
  <1> HIDE DEF nth
  <1>6. \A k \in 1..n : nth[k] = IF k = 1 THEN x.list ELSE x.next[nth[k-1]]
    BY <1>5
  <1>7. \A k \in Nat : k \in 1..n => nth[k] = s[k]
    <2> DEFINE T == {k \in Nat : k \in 1..n => nth[k] = s[k]}
    <2>1. 0 \in T
      OBVIOUS
    <2>2. ASSUME NEW k \in Nat, k \in T PROVE k + 1 \in T
      <3> SUFFICES ASSUME k + 1 \in 1..n PROVE nth[k + 1] = s[k + 1]
        OBVIOUS
      <3>1. CASE k = 0
        BY <1>1, <1>6, <3>1
      <3>2. CASE k # 0
        <4>1. k \in 1..n /\ k # n /\ k + 1 - 1 = k /\ k + 1 # 1
          BY <1>1, <3>2
        <4>2. nth[k] = s[k]
          BY <2>2, <4>1
        <4>3. nth[k + 1] = IF k + 1 = 1 THEN x.list ELSE x.next[nth[k + 1 - 1]]
          BY <1>6
        <4>4. nth[k + 1] = x.next[s[k]]
          BY <4>1, <4>2, <4>3
        <4>5. x.next[s[k]] = s[k + 1]
          BY <1>1, <4>1 DEF RingLinks
        <4> QED BY <4>4, <4>5
      <3> QED BY <3>1, <3>2
    <2> HIDE DEF T
    <2>3. \A k \in Nat : k \in T
      BY <2>1, <2>2, SetInduction
    <2> QED BY <2>3 DEF T
  <1>9. \A k \in 1..n : nth[k] = s[k]
    BY <1>1, <1>7
  <1> QED BY <1>3, <1>8, <1>9 DEF Shown

-----------------------------------------------------------------------------
(* What each operation does to the members and to the free list.           *)
LEMMA PoolParts ==
    ASSUME NEW x \in PoolRec
    PROVE  \E l \in Places, e \in Places, nx \in [Idx -> Places], pv \in [Idx -> Places],
              dt \in [Idx -> PoolData \cup {NoIndex}] :
              x = [list |-> l, free |-> e, next |-> nx, prev |-> pv, data |-> dt]
  BY DEF PoolRec

(* xpool_clear: the members become none, every node is free.               *)
LEMMA ClearLinks ==
    ASSUME NEW dt \in [Idx -> PoolData \cup {NoIndex}]
    PROVE  Linked(__xpool_clear(dt), <<>>, 0, [j \in 1..PoolSize |-> j - 1], PoolSize)
  <1> DEFINE x == __xpool_clear(dt)
             f == [j \in 1..PoolSize |-> j - 1]
  <1>1. PoolSize \in Nat \ {0} /\ Idx = 0..PoolSize-1 /\ NoIndex \notin Idx
    BY IdxIs
  <1>2. PICK nx, pv : /\ nx = [i \in Idx |-> IF i = PoolSize - 1 THEN NoIndex ELSE i + 1]
                      /\ pv = [i \in Idx |-> NoIndex]
    OBVIOUS
  <1>3. x = [list |-> NoIndex, free |-> 0, next |-> nx, prev |-> pv, data |-> dt]
    BY <1>2 DEF __xpool_clear
  <1>4. x.list = NoIndex /\ x.free = 0 /\ x.next = nx /\ x.prev = pv /\ x.data = dt
    BY <1>3
  <1>5. nx \in [Idx -> Places] /\ pv \in [Idx -> Places]
    BY <1>1, <1>2 DEF Places
  <1>6. x \in PoolRec
    BY <1>1, <1>3, <1>5 DEF PoolRec, Places
  <1>7. Apart(<<>>, 0, f, PoolSize)
    <2>1. f \in [1..PoolSize -> Idx]
      BY <1>1
    <2>2. \A k \in Idx : k + 1 \in 1..PoolSize /\ f[k + 1] = k
      BY <1>1
    <2>3. \A i, j \in 1..PoolSize : f[i] = f[j] => i = j
      BY <1>1
    <2>4. <<>> \in [1..0 -> Idx]
      OBVIOUS
    <2> HIDE DEF f
    <2> QED BY <1>1, <2>1, <2>2, <2>3, <2>4 DEF Apart
  <1>8. RingLinks(x, <<>>, 0)
    BY DEF RingLinks
  <1>9. FreeLinks(x, f, PoolSize)
    <2>1. ASSUME NEW j \in 1..PoolSize
          PROVE  nx[f[j]] = (IF j = PoolSize THEN NoIndex ELSE f[j + 1]) /\ pv[f[j]] = NoIndex
      BY <1>1, <1>2
    <2> QED BY <1>4, <2>1 DEF FreeLinks
  <1>10. f[1] = 0
    BY <1>1
  <1> QED BY <1>1, <1>4, <1>6, <1>7, <1>8, <1>9, <1>10 DEF Linked

(* xpool_add: the first free node becomes the last member.                 *)
With(s, n, k) == [i \in 1..n+1 |-> IF i = n + 1 THEN k ELSE s[i]]
Rest(f, m) == [j \in 1..m-1 |-> f[j + 1]]

Added(x, y, s, n, f, m, d) ==
    /\ Linked(y, With(s, n, f[1]), n + 1, Rest(f, m), m - 1)
    /\ y.data = [x.data EXCEPT ![f[1]] = d]

(* The first free node goes to the end of the ring: no node is in both, or *)
(* lost.                                                                   *)
LEMMA AddApart ==
    ASSUME NEW s, NEW n, NEW f, NEW m, Apart(s, n, f, m), m # 0
    PROVE  Apart(With(s, n, f[1]), n + 1, Rest(f, m), m - 1)
  <1> DEFINE s2 == [i \in 1..n+1 |-> IF i = n + 1 THEN f[1] ELSE s[i]]
             f2 == [j \in 1..m-1 |-> f[j + 1]]
  <1>1. n \in Nat /\ m \in Nat \ {0} /\ s \in [1..n -> Idx] /\ f \in [1..m -> Idx]
    BY DEF Apart
  <1>2. /\ s2 \in [1..n+1 -> Idx] /\ f2 \in [1..m-1 -> Idx]
        /\ s2[n + 1] = f[1] /\ \A i \in 1..n : s2[i] = s[i]
        /\ \A j \in 1..m-1 : f2[j] = f[j + 1] /\ j + 1 \in 1..m /\ j + 1 # 1
    BY <1>1
  <1>3. n + 1 \in Nat /\ m - 1 \in Nat /\ 1..n+1 = 1..n \cup {n + 1} /\ 1 \in 1..m
        /\ \A j \in 1..m : j = 1 \/ (j - 1 \in 1..m-1 /\ (j - 1) + 1 = j)
    BY <1>1
  <1> HIDE DEF s2, f2
  <1>4. \A i, j \in 1..n+1 : s2[i] = s2[j] => i = j
    <2>1. \A i, j \in 1..n : s2[i] = s2[j] => i = j
      BY <1>2 DEF Apart
    <2>2. \A i \in 1..n : s2[i] # s2[n + 1]
      BY <1>2, <1>3 DEF Apart
    <2> QED BY <1>3, <2>1, <2>2
  <1>5. \A i, j \in 1..m-1 : f2[i] = f2[j] => i = j
    <2>1. ASSUME NEW i \in 1..m-1, NEW j \in 1..m-1, f2[i] = f2[j] PROVE i = j
      <3>1. i + 1 = j + 1
        BY <1>2, <2>1 DEF Apart
      <3> QED BY <1>1, <3>1
    <2> QED BY <2>1
  <1>6. ASSUME NEW i \in 1..n+1, NEW j \in 1..m-1 PROVE s2[i] # f2[j]
    <2>1. f2[j] = f[j + 1] /\ j + 1 \in 1..m /\ j + 1 # 1
      BY <1>2
    <2>2. CASE i \in 1..n
      BY <1>2, <2>1, <2>2 DEF Apart
    <2>3. CASE i = n + 1
      BY <1>2, <1>3, <2>1, <2>3 DEF Apart
    <2> QED BY <1>3, <2>2, <2>3
  <1>7. ASSUME NEW k \in Idx
        PROVE  (\E i \in 1..n+1 : s2[i] = k) \/ (\E j \in 1..m-1 : f2[j] = k)
    <2>1. CASE \E i \in 1..n : s[i] = k
      BY <1>2, <1>3, <2>1
    <2>2. CASE \E j \in 1..m : f[j] = k
      BY <1>2, <1>3, <2>2
    <2> QED BY <2>1, <2>2 DEF Apart
  <1>8. Apart(s2, n + 1, f2, m - 1)
    BY <1>2, <1>3, <1>4, <1>5, <1>6, <1>7 DEF Apart
  <1> QED BY <1>8 DEF s2, f2, With, Rest

(* __xpool_add: the links of a ring and a free list are those of the next  *)
(* ones.                                                                   *)
LEMMA AddLinks ==
    ASSUME NEW x, NEW s, NEW n, NEW f, NEW m, Linked(x, s, n, f, m), m # 0,
           NEW d \in PoolData, NEW y, y = __xpool_add(x, d)
    PROVE  Added(x, y, s, n, f, m, d)
  <1> DEFINE s2 == With(s, n, f[1])
             f2 == Rest(f, m)
             idx == f[1]
             last == s[n]
             first == s[1]
  <1>1. /\ x \in PoolRec /\ Apart(s, n, f, m) /\ RingLinks(x, s, n) /\ FreeLinks(x, f, m)
        /\ n \in Nat /\ m \in Nat \ {0} /\ s \in [1..n -> Idx] /\ f \in [1..m -> Idx]
        /\ NoIndex \notin Idx
        /\ x.list = (IF n = 0 THEN NoIndex ELSE s[1]) /\ x.free = f[1]
    BY IdxIs DEF Linked, Apart
  <1>2. PICK l \in Places, e \in Places, nx \in [Idx -> Places], pv \in [Idx -> Places],
             dt \in [Idx -> PoolData \cup {NoIndex}] :
             x = [list |-> l, free |-> e, next |-> nx, prev |-> pv, data |-> dt]
    BY <1>1, PoolParts
  <1>3. x.list = l /\ x.free = e /\ x.next = nx /\ x.prev = pv /\ x.data = dt
    BY <1>2
  <1>4. 1 \in 1..m /\ idx \in Idx /\ e = idx
    <2>1. 1 \in 1..m
      BY <1>1
    <2> QED BY <1>1, <1>3, <2>1
  <1>5. PICK n2 \in [Idx -> Places], p2 \in [Idx -> Places], l2 \in Places :
          /\ y = [list |-> l2, free |-> nx[idx], next |-> n2, prev |-> p2,
                  data |-> [dt EXCEPT ![idx] = d]]
          /\ n # 0 => l2 = first /\ n2 = [[nx EXCEPT ![idx] = first] EXCEPT ![last] = idx]
                      /\ p2 = [[pv EXCEPT ![idx] = last] EXCEPT ![first] = idx]
          /\ n = 0 => l2 = idx /\ n2 = [nx EXCEPT ![idx] = idx] /\ p2 = [pv EXCEPT ![idx] = idx]
    <2> DEFINE p == [list |-> l, free |-> nx[idx], next |-> nx, prev |-> pv,
                     data |-> [dt EXCEPT ![idx] = d]]
    <2>1. p = [x EXCEPT !.free = x.next[idx], !.data[idx] = d]
      <3>1. PICK u : u = [x EXCEPT !.free = x.next[idx]]
        OBVIOUS
      <3>2. u = [list |-> l, free |-> nx[idx], next |-> nx, prev |-> pv, data |-> dt]
        BY <1>2, <1>3, <3>1
      <3>3. p = [u EXCEPT !.data[idx] = d]
        BY <3>2
      <3> QED BY <3>1, <3>3
    <2>2. CASE n = 0
      <3>1. y = [p EXCEPT !.next[idx] = idx, !.prev[idx] = idx, !.list = idx]
        BY <1>1, <1>3, <1>4, <2>1, <2>2 DEF __xpool_add
      <3>2. y = [list |-> idx, free |-> nx[idx], next |-> [nx EXCEPT ![idx] = idx],
                 prev |-> [pv EXCEPT ![idx] = idx], data |-> [dt EXCEPT ![idx] = d]]
        BY <3>1
      <3>3. [nx EXCEPT ![idx] = idx] \in [Idx -> Places] /\ [pv EXCEPT ![idx] = idx] \in [Idx -> Places]
        BY <1>4 DEF Places
      <3> QED BY <1>4, <2>2, <3>2, <3>3 DEF Places
    <2>3. CASE n # 0
      <3>1. l = first /\ first \in Idx /\ last \in Idx /\ l # NoIndex /\ pv[first] = last
        <4>1. 1 \in 1..n /\ n \in 1..n
          BY <1>1, <2>3
        <4> QED BY <1>1, <1>3, <2>3, <4>1 DEF RingLinks
      <3>2. y = [p EXCEPT !.next = [[nx EXCEPT ![idx] = first] EXCEPT ![last] = idx],
                          !.prev = [[pv EXCEPT ![idx] = last] EXCEPT ![first] = idx]]
        <4>1. /\ x.list # NoIndex /\ x.list = first /\ x.free = idx
              /\ x.next[idx] = nx[idx] /\ x.prev[x.list] = last
          BY <1>3, <1>4, <3>1
        <4> QED BY <1>3, <1>4, <2>1, <4>1 DEF __xpool_add
      <3> DEFINE n2 == [[nx EXCEPT ![idx] = first] EXCEPT ![last] = idx]
                 p2 == [[pv EXCEPT ![idx] = last] EXCEPT ![first] = idx]
      <3>3. n2 \in [Idx -> Places] /\ p2 \in [Idx -> Places]
        BY <1>4, <3>1 DEF Places
      <3>4. y = [list |-> first, free |-> nx[idx], next |-> n2, prev |-> p2,
                 data |-> [dt EXCEPT ![idx] = d]]
        BY <3>1, <3>2
      <3> QED BY <2>3, <3>1, <3>3, <3>4 DEF Places
    <2> QED BY <2>2, <2>3
  <1>6. y.list = l2 /\ y.free = nx[idx] /\ y.next = n2 /\ y.prev = p2
        /\ y.data = [dt EXCEPT ![idx] = d]
    BY <1>5
  <1>7. y \in PoolRec
    <2>1. [dt EXCEPT ![idx] = d] \in [Idx -> PoolData \cup {NoIndex}] /\ nx[idx] \in Places
      BY <1>4
    <2> QED BY <1>5, <2>1 DEF PoolRec
  <1>8. Apart(s2, n + 1, f2, m - 1)
    BY <1>1, AddApart
  <1>9. /\ s2 \in [1..n+1 -> Idx] /\ s2[n + 1] = idx /\ \A i \in 1..n : s2[i] = s[i]
        /\ \A j \in 1..m-1 : f2[j] = f[j + 1] /\ j + 1 \in 1..m /\ j + 1 # 1
    BY <1>1 DEF With, Rest
  <1>10. \A i \in 1..n : s[i] # idx /\ s[i] \in Idx
    BY <1>1 DEF Apart
  <1> HIDE DEF s2, f2, idx, last, first
  <1>11. ASSUME NEW i \in 1..n+1
         PROVE  n2[s2[i]] = s2[IF i = n + 1 THEN 1 ELSE i + 1]
    <2>1. CASE n = 0
      BY <1>4, <1>5, <1>9, <2>1
    <2>2. CASE n # 0 /\ i = n + 1
      <3>1. s2[1] = first /\ idx # last /\ idx \in Idx /\ last \in Idx
        BY <1>1, <1>4, <1>9, <1>10, <2>2 DEF first, last
      <3> QED BY <1>1, <1>5, <1>9, <2>2, <3>1
    <2>3. CASE n # 0 /\ i = n
      <3>1. s2[i] = last /\ last \in Idx /\ i # n + 1
        BY <1>1, <1>9, <1>10, <2>3 DEF last
      <3> QED BY <1>1, <1>5, <1>9, <2>3, <3>1
    <2>4. CASE i \in 1..n /\ i # n
      <3>1. s[i] # last /\ s[i] # idx /\ s[i] \in Idx /\ i + 1 \in 1..n /\ i # n + 1
        BY <1>1, <1>10, <2>4 DEF last, Apart
      <3>2. n2[s[i]] = nx[s[i]]
        BY <1>1, <1>5, <2>4, <3>1
      <3>3. nx[s[i]] = s[i + 1]
        BY <1>1, <1>3, <2>4 DEF RingLinks
      <3> QED BY <1>9, <2>4, <3>1, <3>2, <3>3
    <2> QED BY <1>1, <2>1, <2>2, <2>3, <2>4
  <1>12. ASSUME NEW i \in 1..n+1
         PROVE  p2[s2[i]] = s2[IF i = 1 THEN n + 1 ELSE i - 1]
    <2>1. CASE n = 0
      BY <1>4, <1>5, <1>9, <2>1
    <2>2. CASE n # 0 /\ i = n + 1
      <3>1. s2[n] = last /\ idx # first /\ idx \in Idx /\ i - 1 = n /\ i # 1
        BY <1>1, <1>4, <1>9, <1>10, <2>2 DEF first, last
      <3> QED BY <1>1, <1>5, <1>9, <2>2, <3>1
    <2>3. CASE n # 0 /\ i = 1
      <3>1. s2[i] = first /\ first \in Idx
        BY <1>1, <1>9, <1>10, <2>3 DEF first
      <3> QED BY <1>1, <1>5, <1>9, <2>3, <3>1
    <2>4. CASE i \in 1..n /\ i # 1
      <3>1. s[i] # first /\ s[i] # idx /\ s[i] \in Idx /\ i - 1 \in 1..n
        BY <1>1, <1>10, <2>4 DEF first, Apart
      <3>2. p2[s[i]] = pv[s[i]]
        BY <1>1, <1>5, <2>4, <3>1
      <3>3. pv[s[i]] = s[i - 1]
        BY <1>1, <1>3, <2>4 DEF RingLinks
      <3> QED BY <1>9, <2>4, <3>1, <3>2, <3>3
    <2> QED BY <1>1, <2>1, <2>2, <2>3, <2>4
  <1>13. RingLinks(y, s2, n + 1)
    BY <1>6, <1>11, <1>12 DEF RingLinks
  <1>14. FreeLinks(y, f2, m - 1)
    <2>1. ASSUME NEW j \in 1..m-1
          PROVE  n2[f2[j]] = (IF j = m - 1 THEN NoIndex ELSE f2[j + 1]) /\ p2[f2[j]] = NoIndex
      <3>1. f2[j] = f[j + 1] /\ j + 1 \in 1..m /\ f[j + 1] \in Idx
        BY <1>1, <1>9
      <3>2. f[j + 1] # idx /\ \A i \in 1..n : f[j + 1] # s[i]
        BY <1>1, <1>9, <3>1 DEF Apart, idx
      <3>3. n # 0 => f[j + 1] # first /\ f[j + 1] # last
        BY <1>1, <3>2 DEF first, last
      <3>4. n2[f[j + 1]] = nx[f[j + 1]] /\ p2[f[j + 1]] = pv[f[j + 1]]
        BY <1>5, <3>1, <3>2, <3>3
      <3>5. pv[f[j + 1]] = NoIndex /\ nx[f[j + 1]] = IF j + 1 = m THEN NoIndex ELSE f[j + 1 + 1]
        BY <1>1, <1>3, <3>1 DEF FreeLinks
      <3>6. j # m - 1 => j + 1 \in 1..m-1
        BY <1>1
      <3> QED BY <1>1, <1>9, <3>1, <3>4, <3>5, <3>6
    <2> QED BY <1>6, <2>1 DEF FreeLinks
  <1>15. y.free = IF m - 1 = 0 THEN NoIndex ELSE f2[1]
    <2>1. nx[idx] = IF m = 1 THEN NoIndex ELSE f[2]
      BY <1>1, <1>3, <1>4 DEF FreeLinks, idx
    <2>2. m # 1 => f2[1] = f[2]
      BY <1>1, <1>9
    <2> QED BY <1>1, <1>6, <2>1, <2>2
  <1>16. y.list = IF n + 1 = 0 THEN NoIndex ELSE s2[1]
    BY <1>1, <1>5, <1>6, <1>9 DEF first
  <1>17. Linked(y, s2, n + 1, f2, m - 1)
    BY <1>7, <1>8, <1>13, <1>14, <1>15, <1>16 DEF Linked
  <1> QED BY <1>3, <1>6, <1>17 DEF Added, s2, f2, idx

(* xpool_remove: the p-th member goes to the front of the free list.       *)
Source(p, i) == IF i < p THEN i ELSE i + 1
After(n, i) == IF i = n THEN 1 ELSE i + 1
Before(n, i) == IF i = 1 THEN n ELSE i - 1

Without(s, n, p) == [i \in 1..n-1 |-> s[Source(p, i)]]
Onto(k, f, m) == [j \in 1..m+1 |-> IF j = 1 THEN k ELSE f[j - 1]]

Removed(x, y, s, n, f, m, p) ==
    /\ Linked(y, Without(s, n, p), n - 1, Onto(s[p], f, m), m + 1)
    /\ y.data = x.data

(* Without place p the places above it close up.                           *)
LEMMA SourceFacts ==
    ASSUME NEW n \in Nat, NEW p \in 1..n
    PROVE  /\ \A i \in 1..n-1 : Source(p, i) \in 1..n /\ Source(p, i) # p
           /\ \A i, j \in 1..n-1 : Source(p, i) = Source(p, j) => i = j
           /\ \A h \in 1..n : h = p \/ \E i \in 1..n-1 : Source(p, i) = h
  <1>1. \A i \in 1..n-1 : Source(p, i) \in 1..n /\ Source(p, i) # p
    BY DEF Source
  <1>2. \A i, j \in 1..n-1 : Source(p, i) = Source(p, j) => i = j
    BY DEF Source
  <1>3. ASSUME NEW h \in 1..n, h # p PROVE \E i \in 1..n-1 : Source(p, i) = h
    <2>1. CASE h < p
      <3>1. h \in 1..n-1 /\ Source(p, h) = h
        BY <2>1 DEF Source
      <3> QED BY <3>1
    <2>2. CASE h > p
      <3>1. h - 1 \in 1..n-1 /\ Source(p, h - 1) = h
        BY <2>2 DEF Source
      <3> QED BY <3>1
    <2> QED BY <1>3, <2>1, <2>2
  <1> QED BY <1>1, <1>2, <1>3

(* The neighbours of a member in the ring without the p-th one.            *)
LEMMA Neighbours ==
    ASSUME NEW n \in Nat, NEW p \in 1..n, NEW i \in 1..n-1
    PROVE  LET h == Source(p, i)
           IN  /\ After(n - 1, i) \in 1..n-1 /\ Before(n - 1, i) \in 1..n-1
               /\ After(n, h) \in 1..n /\ Before(n, h) \in 1..n
               /\ Source(p, After(n - 1, i)) = IF h = Before(n, p) THEN After(n, p) ELSE After(n, h)
               /\ Source(p, Before(n - 1, i)) = IF h = After(n, p) THEN Before(n, p) ELSE Before(n, h)
  BY DEF Source, After, Before

(* A member goes to the free list: no node is in both, or lost.            *)
LEMMA RemoveApart ==
    ASSUME NEW s, NEW n, NEW f, NEW m, Apart(s, n, f, m), NEW p \in 1..n
    PROVE  Apart(Without(s, n, p), n - 1, Onto(s[p], f, m), m + 1)
  <1> DEFINE s2 == [i \in 1..n-1 |-> s[Source(p, i)]]
             f2 == [j \in 1..m+1 |-> IF j = 1 THEN s[p] ELSE f[j - 1]]
  <1>0. \A j \in 1..m+1 : j = 1 \/ j - 1 \in 1..m
    BY DEF Apart
  <1>1. n \in Nat \ {0} /\ m \in Nat /\ s \in [1..n -> Idx] /\ f \in [1..m -> Idx]
    BY DEF Apart
  <1>2. /\ \A i \in 1..n-1 : Source(p, i) \in 1..n /\ Source(p, i) # p
        /\ \A i, j \in 1..n-1 : Source(p, i) = Source(p, j) => i = j
        /\ \A h \in 1..n : h = p \/ \E i \in 1..n-1 : Source(p, i) = h
    BY <1>1, SourceFacts
  <1>3. /\ s2 \in [1..n-1 -> Idx] /\ f2 \in [1..m+1 -> Idx] /\ f2[1] = s[p] /\ 1 \in 1..m+1
        /\ \A i \in 1..n-1 : s2[i] = s[Source(p, i)]
        /\ \A j \in 1..m+1 : j = 1 \/ (f2[j] = f[j - 1] /\ j - 1 \in 1..m)
    <2>1. s2 \in [1..n-1 -> Idx] /\ \A i \in 1..n-1 : s2[i] = s[Source(p, i)]
      BY <1>1, <1>2
    <2>2. 1 \in 1..m+1
      BY <1>1
    <2>3. f2 \in [1..m+1 -> Idx] /\ f2[1] = s[p] /\ \A j \in 1..m+1 : j = 1 \/ f2[j] = f[j - 1]
      BY <1>0, <1>1, <2>2
    <2> HIDE DEF s2, f2
    <2>4. ASSUME NEW j \in 1..m+1 PROVE j = 1 \/ (f2[j] = f[j - 1] /\ j - 1 \in 1..m)
      BY <1>0, <2>3
    <2> QED BY <2>1, <2>2, <2>3, <2>4
  <1>4. \A j \in 1..m : j + 1 \in 1..m+1 /\ f2[j + 1] = f[j]
    BY <1>1
  <1> HIDE DEF s2, f2
  <1>5. \A i, j \in 1..n-1 : s2[i] = s2[j] => i = j
    BY <1>2, <1>3 DEF Apart
  <1>6. ASSUME NEW i \in 1..m+1, NEW j \in 1..m+1, f2[i] = f2[j] PROVE i = j
    <2>1. CASE i # 1 /\ j # 1
      <3>1. i - 1 = j - 1
        BY <1>3, <1>6, <2>1 DEF Apart
      <3> QED BY <1>1, <3>1
    <2>2. CASE i = 1 /\ j # 1
      BY <1>3, <1>6, <2>2 DEF Apart
    <2>3. CASE i # 1 /\ j = 1
      BY <1>3, <1>6, <2>3 DEF Apart
    <2> QED BY <2>1, <2>2, <2>3
  <1>7. ASSUME NEW i \in 1..n-1, NEW j \in 1..m+1 PROVE s2[i] # f2[j]
    <2>1. CASE j = 1
      BY <1>2, <1>3, <2>1 DEF Apart
    <2>2. CASE j # 1
      BY <1>2, <1>3, <2>2 DEF Apart
    <2> QED BY <2>1, <2>2
  <1>8. ASSUME NEW k \in Idx
        PROVE  (\E i \in 1..n-1 : s2[i] = k) \/ (\E j \in 1..m+1 : f2[j] = k)
    <2>1. CASE \E h \in 1..n : s[h] = k
      BY <1>2, <1>3, <2>1
    <2>2. CASE \E j \in 1..m : f[j] = k
      BY <1>4, <2>2
    <2> QED BY <2>1, <2>2 DEF Apart
  <1>9. n - 1 \in Nat /\ m + 1 \in Nat
    BY <1>1
  <1>10. Apart(s2, n - 1, f2, m + 1)
    BY <1>3, <1>5, <1>6, <1>7, <1>8, <1>9 DEF Apart
  <1> QED BY <1>10 DEF s2, f2, Without, Onto

(* __xpool_remove: as for adding.                                          *)
LEMMA RemoveLinks ==
    ASSUME NEW x, NEW s, NEW n, NEW f, NEW m, Linked(x, s, n, f, m), NEW p \in 1..n,
           NEW y, y = __xpool_remove(x, s[p])
    PROVE  Removed(x, y, s, n, f, m, p)
  <1> DEFINE s2 == Without(s, n, p)
             f2 == Onto(s[p], f, m)
             idx == s[p]
             pr == Before(n, p)
             nt == After(n, p)
  <1>1. /\ x \in PoolRec /\ Apart(s, n, f, m) /\ RingLinks(x, s, n) /\ FreeLinks(x, f, m)
        /\ n \in Nat \ {0} /\ m \in Nat /\ s \in [1..n -> Idx] /\ f \in [1..m -> Idx]
        /\ NoIndex \notin Idx
        /\ x.list = s[1] /\ x.free = (IF m = 0 THEN NoIndex ELSE f[1])
    <2>1. /\ x \in PoolRec /\ Apart(s, n, f, m) /\ RingLinks(x, s, n) /\ FreeLinks(x, f, m)
          /\ x.list = (IF n = 0 THEN NoIndex ELSE s[1])
          /\ x.free = (IF m = 0 THEN NoIndex ELSE f[1])
      BY DEF Linked
    <2>2. n \in Nat /\ m \in Nat /\ s \in [1..n -> Idx] /\ f \in [1..m -> Idx]
      BY <2>1 DEF Apart
    <2>3. n # 0
      BY <2>2
    <2> QED BY <2>1, <2>2, <2>3, IdxIs
  <1>2. PICK l \in Places, e \in Places, nx \in [Idx -> Places], pv \in [Idx -> Places],
             dt \in [Idx -> PoolData \cup {NoIndex}] :
             x = [list |-> l, free |-> e, next |-> nx, prev |-> pv, data |-> dt]
    BY <1>1, PoolParts
  <1>3. x.list = l /\ x.free = e /\ x.next = nx /\ x.prev = pv /\ x.data = dt
    BY <1>2
  <1>0. n \in Nat /\ p \in 1..n
    BY <1>1
  <1>4. pr \in 1..n /\ nt \in 1..n /\ idx \in Idx /\ nx[idx] = s[nt] /\ pv[idx] = s[pr]
        /\ s[nt] \in Idx /\ s[pr] \in Idx
    <2>1. pr \in 1..n /\ nt \in 1..n
      BY <1>1 DEF Before, After
    <2> QED BY <1>1, <1>3, <2>1 DEF RingLinks, Before, After
  <1>5. \A i, j \in 1..n : s[i] = s[j] => i = j
    BY <1>1 DEF Apart
  <1>9. Apart(s2, n - 1, f2, m + 1)
    BY <1>0, <1>1, RemoveApart
  <1> HIDE DEF s2, f2, idx, pr, nt
  <1>6. PICK n2 \in [Idx -> Places], p2 \in [Idx -> Places], l2 \in Places :
          /\ y = [list |-> l2, free |-> idx, next |-> n2, prev |-> p2, data |-> dt]
          /\ n2 = [[nx EXCEPT ![s[pr]] = s[nt]] EXCEPT ![idx] = e]
          /\ p2 = [[pv EXCEPT ![s[nt]] = s[pr]] EXCEPT ![idx] = NoIndex]
          /\ l2 = IF idx # l THEN l ELSE IF s[nt] = idx THEN NoIndex ELSE s[nt]
    <2> DEFINE n2 == [[nx EXCEPT ![s[pr]] = s[nt]] EXCEPT ![idx] = e]
               p2 == [[pv EXCEPT ![s[nt]] = s[pr]] EXCEPT ![idx] = NoIndex]
               l2 == IF idx # l THEN l ELSE IF s[nt] = idx THEN NoIndex ELSE s[nt]
    <2>1. n2 \in [Idx -> Places] /\ p2 \in [Idx -> Places] /\ l2 \in Places
      BY <1>4 DEF Places
    <2>2. y = [x EXCEPT !.list = IF idx # x.list THEN @
                       ELSE IF x.next[idx] = idx THEN NoIndex ELSE x.next[idx],
              !.next = [[@ EXCEPT ![x.prev[idx]] = x.next[idx]] EXCEPT ![idx] = x.free],
              !.prev = [[@ EXCEPT ![x.next[idx]] = x.prev[idx]] EXCEPT ![idx] = NoIndex],
              !.free = idx]
      BY DEF __xpool_remove, idx
    <2>3. y = [list |-> l2, free |-> idx, next |-> n2, prev |-> p2, data |-> dt]
      <3>1. PICK u : u = [x EXCEPT !.list = IF idx # x.list THEN @
                           ELSE IF x.next[idx] = idx THEN NoIndex ELSE x.next[idx]]
        OBVIOUS
      <3>2. u = [list |-> l2, free |-> e, next |-> nx, prev |-> pv, data |-> dt]
        BY <1>2, <1>3, <1>4, <3>1
      <3>3. PICK v : v = [u EXCEPT !.next = [[@ EXCEPT ![x.prev[idx]] = x.next[idx]] EXCEPT ![idx] = x.free]]
        OBVIOUS
      <3>4. v = [list |-> l2, free |-> e, next |-> n2, prev |-> pv, data |-> dt]
        BY <1>3, <1>4, <3>2, <3>3
      <3>5. PICK w : w = [v EXCEPT !.prev = [[@ EXCEPT ![x.next[idx]] = x.prev[idx]] EXCEPT ![idx] = NoIndex]]
        OBVIOUS
      <3>6. w = [list |-> l2, free |-> e, next |-> n2, prev |-> p2, data |-> dt]
        BY <1>3, <1>4, <3>4, <3>5
      <3>7. y = [w EXCEPT !.free = idx]
        BY <2>2, <3>1, <3>3, <3>5
      <3> HIDE DEF n2, p2, l2
      <3> QED BY <3>6, <3>7
    <2> QED BY <2>1, <2>3
  <1>7. y.list = l2 /\ y.free = idx /\ y.next = n2 /\ y.prev = p2 /\ y.data = dt
    BY <1>6
  <1>8. y \in PoolRec
    BY <1>4, <1>6 DEF PoolRec, Places
  <1>10. \A i \in 1..n-1 : s2[i] = s[Source(p, i)]
    BY DEF s2, Without
  <1>11. ASSUME NEW i \in 1..n-1
         PROVE  /\ n2[s2[i]] = s2[After(n - 1, i)] /\ p2[s2[i]] = s2[Before(n - 1, i)]
    <2>1. PICK h \in 1..n : h = Source(p, i) /\ h # p
      BY <1>0, SourceFacts
    <2>2. /\ After(n - 1, i) \in 1..n-1 /\ Before(n - 1, i) \in 1..n-1
          /\ After(n, h) \in 1..n /\ Before(n, h) \in 1..n
          /\ Source(p, After(n - 1, i)) = IF h = pr THEN nt ELSE After(n, h)
          /\ Source(p, Before(n - 1, i)) = IF h = nt THEN pr ELSE Before(n, h)
      BY <1>0, <2>1, Neighbours, Zenon DEF pr, nt
    <2>3. s[h] \in Idx /\ s[h] # idx /\ s2[i] = s[h]
      BY <1>1, <1>5, <1>10, <2>1 DEF idx
    <2>4. nx[s[h]] = s[After(n, h)] /\ pv[s[h]] = s[Before(n, h)]
      BY <1>1, <1>3 DEF RingLinks, After, Before
    <2>5. n2[s[h]] = IF h = pr THEN s[nt] ELSE s[After(n, h)]
      BY <1>4, <1>5, <1>6, <2>3, <2>4
    <2>6. p2[s[h]] = IF h = nt THEN s[pr] ELSE s[Before(n, h)]
      BY <1>4, <1>5, <1>6, <2>3, <2>4
    <2> QED BY <1>10, <2>2, <2>3, <2>5, <2>6
  <1>12. RingLinks(y, s2, n - 1)
    BY <1>7, <1>11 DEF RingLinks, After, Before
  <1>13. FreeLinks(y, f2, m + 1)
    <2>1. ASSUME NEW j \in 1..m+1
          PROVE  n2[f2[j]] = (IF j = m + 1 THEN NoIndex ELSE f2[j + 1]) /\ p2[f2[j]] = NoIndex
      <3>1. \A k \in 1..m+1 : f2[k] = IF k = 1 THEN idx ELSE f[k - 1]
        BY DEF f2, idx, Onto
      <3>2. CASE j = 1
        <4>1. n2[idx] = e /\ p2[idx] = NoIndex /\ f2[j] = idx
          BY <1>4, <1>6, <3>1, <3>2
        <4>2. m # 0 => j + 1 \in 1..m+1 /\ j + 1 # 1 /\ j + 1 - 1 = 1 /\ f2[j + 1] = f[1]
          <5>1. ASSUME m # 0 PROVE j + 1 \in 1..m+1 /\ j + 1 # 1 /\ j + 1 - 1 = 1
            BY <1>1, <3>2, <5>1
          <5>2. ASSUME m # 0 PROVE f2[j + 1] = f[1]
            <6>1. PICK i \in 1..m+1 : i = j + 1 /\ i # 1 /\ i - 1 = 1
              BY <5>1, <5>2
            <6>2. f2[i] = f[i - 1]
              BY <3>1, <6>1
            <6> QED BY <6>1, <6>2
          <5> QED BY <5>1, <5>2
        <4> QED BY <1>1, <1>3, <3>2, <4>1, <4>2
      <3>3. CASE j # 1
        <4>1. PICK k \in 1..m : k = j - 1 /\ f2[j] = f[k] /\ k + 1 = j
          BY <1>1, <3>1, <3>3
        <4>2. f[k] \in Idx /\ f[k] # idx /\ f[k] # s[pr] /\ f[k] # s[nt]
          BY <1>1, <1>4 DEF Apart, idx
        <4>3. n2[f[k]] = nx[f[k]] /\ p2[f[k]] = pv[f[k]]
          BY <1>4, <1>6, <4>2
        <4>4. pv[f[k]] = NoIndex /\ nx[f[k]] = IF k = m THEN NoIndex ELSE f[k + 1]
          BY <1>1, <1>3 DEF FreeLinks
        <4>5. k # m => j + 1 \in 1..m+1 /\ j + 1 # 1 /\ j + 1 - 1 = k + 1 /\ f2[j + 1] = f[k + 1]
          BY <1>1, <3>1, <4>1
        <4>6. k = m <=> j = m + 1
          BY <1>1, <4>1
        <4> QED BY <4>1, <4>3, <4>4, <4>5, <4>6
      <3> QED BY <3>2, <3>3
    <2> QED BY <1>7, <2>1 DEF FreeLinks
  <1>14. y.free = IF m + 1 = 0 THEN NoIndex ELSE f2[1]
    <2>1. f2[1] = idx
      BY <1>1 DEF f2, idx, Onto
    <2> QED BY <1>1, <1>7, <2>1
  <1>15. y.list = IF n - 1 = 0 THEN NoIndex ELSE s2[1]
    <2>1. idx = l <=> p = 1
      <3>1. 1 \in 1..n /\ l = s[1] /\ idx = s[p]
        BY <1>1, <1>3 DEF idx
      <3> QED BY <1>5, <3>1
    <2>2. s[nt] = idx <=> nt = p
      BY <1>4, <1>5 DEF idx
    <2>3. nt = p <=> n = 1
      BY <1>1 DEF nt, After
    <2>4. n # 1 => s2[1] = s[IF 1 < p THEN 1 ELSE 2]
      BY <1>1, <1>10 DEF Source
    <2>5. n # 1 /\ p = 1 => nt = 2
      BY <1>1 DEF nt, After
    <2>6. n = 1 => p = 1
      BY <1>1
    <2>7. l = s[1]
      BY <1>1, <1>3
    <2> QED BY <1>1, <1>6, <1>7, <2>1, <2>2, <2>3, <2>4, <2>5, <2>6, <2>7
  <1>16. Linked(y, s2, n - 1, f2, m + 1)
    BY <1>8, <1>9, <1>12, <1>13, <1>14, <1>15 DEF Linked
  <1> QED BY <1>3, <1>7, <1>16 DEF Removed, s2, f2, idx

(* xpool_peek_and_fwd: the ring begins one further.                        *)
Turned(s, n) == [i \in 1..n |-> s[After(n, i)]]

(* The list points at the next member: the same ring, turned.              *)
LEMMA ForwardLinks ==
    ASSUME NEW x, NEW s, NEW n, NEW f, NEW m, Linked(x, s, n, f, m), n # 0,
           NEW y, y = [x EXCEPT !.list = x.next[x.list]]
    PROVE  Linked(y, Turned(s, n), n, f, m) /\ y.data = x.data
  <1> DEFINE s2 == Turned(s, n)
  <1>1. /\ x \in PoolRec /\ Apart(s, n, f, m) /\ RingLinks(x, s, n) /\ FreeLinks(x, f, m)
        /\ n \in Nat \ {0} /\ m \in Nat /\ s \in [1..n -> Idx] /\ f \in [1..m -> Idx]
        /\ x.list = s[1] /\ x.free = (IF m = 0 THEN NoIndex ELSE f[1])
    BY DEF Linked, Apart
  <1>2. PICK l \in Places, e \in Places, nx \in [Idx -> Places], pv \in [Idx -> Places],
             dt \in [Idx -> PoolData \cup {NoIndex}] :
             x = [list |-> l, free |-> e, next |-> nx, prev |-> pv, data |-> dt]
    BY <1>1, PoolParts
  <1>3. y = [list |-> nx[l], free |-> e, next |-> nx, prev |-> pv, data |-> dt] /\ x.list = l
    BY <1>2
  <1>4. /\ x.free = e /\ x.next = nx /\ x.prev = pv /\ x.data = dt
        /\ y.free = e /\ y.next = nx /\ y.prev = pv /\ y.data = dt /\ y.list = nx[l]
    BY <1>2, <1>3
  <1>5. 1 \in 1..n /\ After(n, 1) \in 1..n /\ nx[s[1]] = s[After(n, 1)] /\ s[1] \in Idx
    <2>1. 1 \in 1..n /\ After(n, 1) \in 1..n
      BY <1>1 DEF After
    <2> QED BY <1>1, <1>4, <2>1 DEF RingLinks, After
  <1>6. y \in PoolRec
    BY <1>1, <1>3, <1>5 DEF PoolRec
  <1>7. /\ \A i \in 1..n : After(n, i) \in 1..n /\ Before(n, i) \in 1..n
        /\ \A i, j \in 1..n : After(n, i) = After(n, j) => i = j
        /\ \A i \in 1..n : After(n, Before(n, i)) = i /\ Before(n, After(n, i)) = i
    <2>1. \A i \in 1..n : After(n, i) \in 1..n /\ Before(n, i) \in 1..n
      BY <1>1 DEF After, Before
    <2>2. \A i \in 1..n : After(n, Before(n, i)) = i /\ Before(n, After(n, i)) = i
      BY <1>1 DEF After, Before
    <2>3. \A i, j \in 1..n : After(n, i) = After(n, j) => i = j
      BY <2>2
    <2> QED BY <2>1, <2>2, <2>3
  <1>8. s2 \in [1..n -> Idx] /\ \A i \in 1..n : s2[i] = s[After(n, i)]
    BY <1>1, <1>7 DEF Turned
  <1> HIDE DEF s2
  <1>9. Apart(s2, n, f, m)
    <2>1. \A i, j \in 1..n : s2[i] = s2[j] => i = j
      BY <1>1, <1>7, <1>8 DEF Apart
    <2>2. \A i \in 1..n, j \in 1..m : s2[i] # f[j]
      BY <1>1, <1>7, <1>8 DEF Apart
    <2>3. ASSUME NEW k \in Idx, NEW i \in 1..n, s[i] = k PROVE \E j \in 1..n : s2[j] = k
      <3>1. Before(n, i) \in 1..n /\ s2[Before(n, i)] = s[i]
        BY <1>7, <1>8
      <3> QED BY <2>3, <3>1
    <2> QED BY <1>1, <1>8, <2>1, <2>2, <2>3 DEF Apart
  <1>10. RingLinks(y, s2, n)
    <2>1. ASSUME NEW i \in 1..n
          PROVE  nx[s2[i]] = s2[After(n, i)] /\ pv[s2[i]] = s2[Before(n, i)]
      <3>1. PICK h \in 1..n : h = After(n, i)
        BY <1>7
      <3>2. nx[s[h]] = s[After(n, h)] /\ pv[s[h]] = s[Before(n, h)]
        BY <1>1, <1>4 DEF RingLinks, After, Before
      <3>3. Before(n, h) = i /\ After(n, Before(n, i)) = i /\ After(n, i) \in 1..n
            /\ Before(n, i) \in 1..n
        BY <1>7, <3>1
      <3> QED BY <1>8, <3>1, <3>2, <3>3
    <2> QED BY <1>4, <2>1 DEF RingLinks, After, Before
  <1>11. FreeLinks(y, f, m)
    BY <1>1, <1>4 DEF FreeLinks
  <1>12. y.list = IF n = 0 THEN NoIndex ELSE s2[1]
    BY <1>1, <1>3, <1>4, <1>5, <1>8
  <1>13. y.free = IF m = 0 THEN NoIndex ELSE f[1]
    BY <1>1, <1>4
  <1>14. Linked(y, s2, n, f, m)
    BY <1>6, <1>9, <1>10, <1>11, <1>12, <1>13 DEF Linked
  <1> QED BY <1>4, <1>14 DEF s2

(* What a pool is made of.                                                 *)
LEMMA PoolRecIs ==
    ASSUME NEW l \in Places, NEW e \in Places, NEW nx \in [Idx -> Places],
           NEW pv \in [Idx -> Places], NEW dt \in [Idx -> PoolData \cup {NoIndex}]
    PROVE  [list |-> l, free |-> e, next |-> nx, prev |-> pv, data |-> dt] \in PoolRec
  BY DEF PoolRec

WithData(x, k, d) == [x EXCEPT !.data[k] = d]

(* xpool_set_idx: the links stay.                                          *)
LEMMA DataLinks ==
    ASSUME NEW x, NEW s, NEW n, NEW f, NEW m, Linked(x, s, n, f, m),
           NEW k \in Idx, NEW d \in PoolData, NEW y, y = WithData(x, k, d)
    PROVE  Linked(y, s, n, f, m) /\ y.data = [x.data EXCEPT ![k] = d]
  <1>0. y = [x EXCEPT !.data[k] = d]
    BY DEF WithData
  <1>1. x \in PoolRec
    BY DEF Linked
  <1>2. PICK l \in Places, e \in Places, nx \in [Idx -> Places], pv \in [Idx -> Places],
             dt \in [Idx -> PoolData \cup {NoIndex}] :
             x = [list |-> l, free |-> e, next |-> nx, prev |-> pv, data |-> dt]
    BY <1>1, PoolParts
  <1>3. PICK d2 \in [Idx -> PoolData \cup {NoIndex}] : d2 = [dt EXCEPT ![k] = d]
    OBVIOUS
  <1>4. y = [list |-> l, free |-> e, next |-> nx, prev |-> pv, data |-> d2]
    BY <1>0, <1>2, <1>3
  <1>5. /\ x.list = l /\ x.free = e /\ x.next = nx /\ x.prev = pv /\ x.data = dt
        /\ y.list = l /\ y.free = e /\ y.next = nx /\ y.prev = pv /\ y.data = d2
    BY <1>2, <1>4
  <1>6. PICK z : z = [list |-> l, free |-> e, next |-> nx, prev |-> pv, data |-> d2]
    OBVIOUS
  <1>7. z \in PoolRec
    <2>1. [list |-> l, free |-> e, next |-> nx, prev |-> pv, data |-> d2] \in PoolRec
      BY <1>2, <1>3, PoolRecIs, Zenon
    <2> QED BY <1>6, <2>1, Zenon
  <1>8. y \in PoolRec
    BY <1>4, <1>6, <1>7, Zenon
  <1> QED BY <1>3, <1>5, <1>8 DEF Linked, RingLinks, FreeLinks

-----------------------------------------------------------------------------
(* What is seen of the pool.                                               *)
Shows == Idx \X (PoolData \cup {NoIndex})

FirstOf(r) == {r[p][1] : p \in DOMAIN r}
NodesOf(s, n) == {s[i] : i \in 1..n}

(* What the ring shows of itself: its members with their data, each once.  *)
LEMMA ShownIs ==
    ASSUME NEW x, NEW s, NEW n, NEW f, NEW m, Linked(x, s, n, f, m),
           NEW r, r = Shown(x, s, n)
    PROVE  /\ n \in Nat /\ s \in [1..n -> Idx]
           /\ r \in Seq(Shows) /\ Len(r) = n /\ DOMAIN r = 1..n
           /\ \A i \in 1..n : r[i] = <<s[i], x.data[s[i]]>> /\ r[i][1] = s[i]
           /\ \A i, j \in 1..n : s[i] = s[j] => i = j
           /\ FirstOf(r) = NodesOf(s, n)
  <1>1. n \in Nat /\ s \in [1..n -> Idx] /\ x.data \in [Idx -> PoolData \cup {NoIndex}]
        /\ \A i, j \in 1..n : s[i] = s[j] => i = j
    BY DEF Linked, Apart, PoolRec
  <1>2. \A i \in 1..n : <<s[i], x.data[s[i]]>> \in Shows
    BY <1>1 DEF Shows
  <1>3. r = [i \in 1..n |-> <<s[i], x.data[s[i]]>>]
    BY DEF Shown
  <1>4. r \in [1..n -> Shows]
    BY <1>2, <1>3
  <1>5. r \in Seq(Shows) /\ Len(r) = n /\ DOMAIN r = 1..n
    <2>1. r \in Seq(Shows)
      BY <1>1, <1>4, SeqDef
    <2>2. DOMAIN r = 1..n
      BY <1>4
    <2>3. Len(r) \in Nat /\ DOMAIN r = 1..Len(r)
      BY <2>1, LenProperties
    <2> QED BY <1>1, <2>1, <2>2, <2>3
  <1>6. \A i \in 1..n : r[i] = <<s[i], x.data[s[i]]>> /\ r[i][1] = s[i]
    BY <1>3
  <1>7. FirstOf(r) = NodesOf(s, n)
    BY <1>5, <1>6 DEF FirstOf, NodesOf
  <1> QED BY <1>1, <1>5, <1>6, <1>7

(* Sequences with the same elements are the same.                          *)
LEMMA SameSeq ==
    ASSUME NEW a \in Seq(Shows), NEW b \in Seq(Shows), Len(a) = Len(b),
           \A i \in 1..Len(a) : a[i] = b[i]
    PROVE  a = b
  BY SeqEqual

(* Where a member stands in the ring.                                      *)
LEMMA PlaceIs ==
    ASSUME NEW x, NEW s, NEW n, NEW f, NEW m, Linked(x, s, n, f, m),
           Walk = Shown(x, s, n), NEW p \in 1..n
    PROVE  PoolRing!At(s[p]) = p /\ s[p] \in PoolRing!Indices
  <1>1. PICK r : r = Walk
    OBVIOUS
  <1>2. /\ DOMAIN r = 1..n /\ \A i \in 1..n : r[i][1] = s[i]
        /\ \A i, j \in 1..n : s[i] = s[j] => i = j
    BY <1>1, ShownIs
  <1>3. PoolRing!At(s[p]) = CHOOSE h \in DOMAIN r : r[h][1] = s[p]
    BY <1>1 DEF PoolRing!At
  <1>4. PoolRing!Indices = {r[h][1] : h \in DOMAIN r}
    BY <1>1 DEF PoolRing!Indices
  <1>5. (CHOOSE h \in DOMAIN r : r[h][1] = s[p]) = p
    BY <1>2
  <1>6. s[p] \in {r[h][1] : h \in DOMAIN r}
    BY <1>2
  <1> QED BY <1>3, <1>4, <1>5, <1>6

-----------------------------------------------------------------------------
(* The pool implements the ring.                                           *)
PoolInv == \E s, n, f, m : Linked(pool, s, n, f, m)

(* The indices of the ring are the members of the pool.                    *)
LEMMA IndicesAre ==
    ASSUME NEW s, NEW n, NEW f, NEW m, Linked(pool, s, n, f, m)
    PROVE  PoolRing!Indices = {s[i] : i \in 1..n}
  <1>1. PICK r : r = Walk /\ r = Shown(pool, s, n)
    BY WalksAre, WalkIs
  <1>2. FirstOf(r) = NodesOf(s, n)
    BY <1>1, ShownIs
  <1>3. PoolRing!Indices = FirstOf(r)
    BY <1>1 DEF PoolRing!Indices, FirstOf
  <1> QED BY <1>2, <1>3 DEF NodesOf

(* Each operation is a step of the ring.  Adding:                          *)
LEMMA AddStep ==
    ASSUME NEW s, NEW n, NEW f, NEW m, Linked(pool, s, n, f, m), NEW d \in PoolData, xpool_add(d)
    PROVE  PoolInv' /\ PoolRing!Next
  <1>1. PICK r : r = Walk /\ r = Shown(pool, s, n)
    BY WalksAre, WalkIs
  <1>2. /\ n \in Nat /\ s \in [1..n -> Idx] /\ r \in Seq(Shows) /\ Len(r) = n /\ DOMAIN r = 1..n
        /\ \A i \in 1..n : r[i] = <<s[i], pool.data[s[i]]>> /\ r[i][1] = s[i]
        /\ \A i, j \in 1..n : s[i] = s[j] => i = j
        /\ FirstOf(r) = NodesOf(s, n)
    BY <1>1, ShownIs
  <1>3. /\ Apart(s, n, f, m) /\ pool \in PoolRec /\ m \in Nat /\ f \in [1..m -> Idx]
        /\ NoIndex \notin Idx /\ pool.free = IF m = 0 THEN NoIndex ELSE f[1]
    BY IdxIs DEF Linked, Apart
  <1>4. PoolRing!Indices = {s[i] : i \in 1..n}
    BY IndicesAre
  <1>5. CASE m = 0
    <2>1. pret' = NoIndex /\ pool' = pool
      <3>1. pool.free = NoIndex
        BY <1>3, <1>5
      <3> QED BY <3>1 DEF xpool_add
    <2>2. {s[i] : i \in 1..n} = Idx
      <3>1. \A k \in Idx : \E i \in 1..n : s[i] = k
        <4>1. ~\E j \in 1..m : f[j] \in Idx
          BY <1>5
        <4>2. \A k \in Idx : (\E i \in 1..n : s[i] = k) \/ (\E j \in 1..m : f[j] = k)
          BY <1>3, Zenon DEF Apart
        <4> QED BY <4>1, <4>2
      <3>2. \A i \in 1..n : s[i] \in Idx
        BY <1>2
      <3> QED BY <3>1, <3>2, Zenon
    <2>3. n = PoolSize
      <3>1. PICK S : S = {s[i] : i \in 1..n}
        OBVIOUS
      <3>2. n \in Nat /\ s \in [1..n -> Idx] /\ \A i, j \in 1..n : s[i] = s[j] => i = j
        BY <1>2
      <3>4. Cardinality(S) = n
        BY <3>1, <3>2, CountOf
      <3> QED BY <2>2, <3>1, <3>4, IdxIs
    <2>4. Walk' = Walk
      BY <2>1, WalksAre
    <2>5. PoolRing!Add(d)
      BY <1>1, <1>2, <2>1, <2>3, <2>4 DEF PoolRing!Add
    <2>6. PoolInv'
      BY <2>1 DEF PoolInv
    <2> QED BY <2>5, <2>6 DEF PoolRing!Next
  <1>6. CASE m # 0
    <2>1. f[1] \in Idx /\ f[1] # NoIndex /\ pool.free = f[1] /\ \A i \in 1..n : s[i] # f[1]
      <3>1. 1 \in 1..m
        BY <1>3, <1>6
      <3> QED BY <1>3, <1>6, <3>1 DEF Apart
    <2>2. pret' = f[1] /\ pool' = __xpool_add(pool, d)
      BY <2>1 DEF xpool_add
    <2>3. Added(pool, pool', s, n, f, m, d)
      <3>1. PICK y : y = pool' /\ y = __xpool_add(pool, d)
        BY <2>2
      <3>2. Added(pool, y, s, n, f, m, d)
        BY <1>6, <3>1, AddLinks
      <3> QED BY <3>1, <3>2
    <2>4. PICK s2, n2, f2, m2 : /\ s2 = With(s, n, f[1]) /\ n2 = n + 1
                                /\ Linked(pool', s2, n2, f2, m2)
      BY <2>3 DEF Added
    <2>5. PICK t : t = Walk' /\ t = Shown(pool', s2, n2)
      BY <2>4, WalksAre, WalkIs
    <2>6. /\ t \in Seq(Shows) /\ Len(t) = n + 1
          /\ \A i \in 1..n+1 : t[i] = <<s2[i], pool'.data[s2[i]]>>
      BY <2>4, <2>5, ShownIs
    <2>7. /\ s2[n + 1] = f[1] /\ \A i \in 1..n : s2[i] = s[i] /\ i \in 1..n+1
          /\ n + 1 \in 1..n+1
      BY <1>2, <2>4 DEF With
    <2>8. pool.data \in [Idx -> PoolData \cup {NoIndex}] /\ pool'.data = [pool.data EXCEPT ![f[1]] = d]
      BY <1>3, <2>3 DEF Added, PoolRec
    <2>9. t[n + 1] = <<f[1], d>> /\ \A i \in 1..n : t[i] = r[i]
      <3>1. pool'.data[f[1]] = d
        BY <2>1, <2>8
      <3>2. \A i \in 1..n : pool'.data[s[i]] = pool.data[s[i]]
        BY <1>2, <2>1, <2>8
      <3>3. t[n + 1] = <<f[1], d>>
        BY <2>6, <2>7, <3>1
      <3>4. ASSUME NEW i \in 1..n PROVE t[i] = r[i]
        <4>1. s2[i] = s[i] /\ i \in 1..n+1
          BY <2>7
        <4>2. t[i] = <<s[i], pool'.data[s[i]]>>
          BY <2>6, <4>1
        <4> QED BY <1>2, <3>2, <4>2
      <3> QED BY <3>3, <3>4
    <2>10. <<f[1], d>> \in Shows
      BY <2>1 DEF Shows
    <2>11. t = Append(r, <<f[1], d>>)
      <3>1. PICK a \in Seq(Shows) : /\ a = Append(r, <<f[1], d>>) /\ Len(a) = n + 1
                                    /\ \A i \in 1..n : a[i] = r[i]
                                    /\ a[n + 1] = <<f[1], d>>
        <4>1. PICK e \in Shows : e = <<f[1], d>>
          BY <2>10
        <4>2. PICK a : a = Append(r, e)
          OBVIOUS
        <4>3. /\ a \in Seq(Shows) /\ Len(a) = n + 1
              /\ (\A i \in 1..n : a[i] = r[i]) /\ a[n + 1] = e
          BY <1>2, <4>2, AppendProperties
        <4> QED BY <4>1, <4>2, <4>3
      <3>2. \A i \in 1..n+1 : i \in 1..n \/ i = n + 1
        BY <1>2
      <3>3. \A i \in 1..Len(t) : t[i] = a[i]
        BY <2>6, <2>9, <3>1, <3>2
      <3> QED BY <2>6, <3>1, <3>3, SameSeq
    <2>12. f[1] \in (0..PoolSize-1) \ PoolRing!Indices
      BY <1>4, <2>1, IdxIs
    <2>13. PoolRing!Add(d)
      BY <1>1, <2>2, <2>5, <2>11, <2>12 DEF PoolRing!Add
    <2>14. PoolInv'
      BY <2>4 DEF PoolInv
    <2> QED BY <2>13, <2>14 DEF PoolRing!Next
  <1> QED BY <1>5, <1>6

(* A sequence that loses its place p.                                      *)
LEMMA WithoutOne ==
    ASSUME NEW r \in Seq(Shows), NEW n, n = Len(r), NEW p \in 1..n
    PROVE  LET c == SubSeq(r, 1, p - 1) \o SubSeq(r, p + 1, n)
           IN  c \in Seq(Shows) /\ Len(c) = n - 1 /\ \A i \in 1..n-1 : c[i] = r[Source(p, i)]
  <1>1. n \in Nat /\ r \in [1..n -> Shows] /\ p - 1 \in Int /\ p + 1 \in Int /\ n \in Int
    BY LenProperties
  <1>2. PICK a : a = SubSeq(r, 1, p - 1)
    OBVIOUS
  <1>3. PICK b : b = SubSeq(r, p + 1, n)
    OBVIOUS
  <1>4. a \in Seq(Shows) /\ Len(a) = p - 1 /\ \A i \in 1..p-1 : a[i] = r[i]
    <2>1. PICK k \in Int : k = p - 1
      BY <1>1
    <2>2. \A i \in 1..k : r[i] \in Shows
      BY <1>1, <2>1
    <2>3. /\ a \in Seq(Shows) /\ Len(a) = IF 1 <= k THEN k - 1 + 1 ELSE 0
          /\ \A i \in 1..k-1+1 : a[i] = r[1 + i - 1]
      BY <1>2, <2>1, <2>2, SubSeqProperties
    <2> QED BY <1>1, <2>1, <2>3
  <1>5. b \in Seq(Shows) /\ Len(b) = n - p /\ \A i \in 1..n-p : b[i] = r[p + i]
    <2>1. PICK k \in Int : k = p + 1
      BY <1>1
    <2>2. \A i \in k..n : r[i] \in Shows
      BY <1>1, <2>1
    <2>3. /\ b \in Seq(Shows) /\ Len(b) = IF k <= n THEN n - k + 1 ELSE 0
          /\ \A i \in 1..n-k+1 : b[i] = r[k + i - 1]
      BY <1>1, <1>3, <2>1, <2>2, SubSeqProperties
    <2>4. n - k + 1 = n - p /\ \A i \in 1..n-p : k + i - 1 = p + i
      BY <1>1, <2>1
    <2>5. Len(b) = n - p
      BY <1>1, <2>1, <2>3
    <2> QED BY <2>3, <2>4, <2>5
  <1>6. PICK c : c = a \o b
    OBVIOUS
  <1>7. /\ c \in Seq(Shows) /\ Len(c) = (p - 1) + (n - p)
        /\ \A i \in 1..(p-1) + (n-p) : c[i] = IF i <= p - 1 THEN a[i] ELSE b[i - (p - 1)]
    <2>1. /\ c \in Seq(Shows) /\ Len(c) = Len(a) + Len(b)
          /\ \A i \in 1..Len(a) + Len(b) : c[i] = IF i <= Len(a) THEN a[i] ELSE b[i - Len(a)]
      BY <1>4, <1>5, <1>6, ConcatProperties
    <2>2. Len(a) = p - 1 /\ Len(b) = n - p
      BY <1>4, <1>5
    <2> QED BY <2>1, <2>2
  <1>8. (p - 1) + (n - p) = n - 1
    BY <1>1
  <1>9. ASSUME NEW i \in 1..n-1 PROVE c[i] = r[Source(p, i)]
    <2>1. c[i] = IF i <= p - 1 THEN a[i] ELSE b[i - (p - 1)]
      BY <1>7, <1>8
    <2>2. CASE i < p
      <3>1. i \in 1..p-1 /\ i <= p - 1
        BY <1>1, <2>2
      <3> QED BY <1>4, <2>1, <2>2, <3>1 DEF Source
    <2>3. CASE ~(i < p)
      <3>1. i - (p - 1) \in 1..n-p /\ ~(i <= p - 1) /\ p + (i - (p - 1)) = i + 1
        BY <1>1, <2>3
      <3> QED BY <1>5, <2>1, <2>3, <3>1 DEF Source
    <2> QED BY <2>2, <2>3
  <1> QED BY <1>2, <1>3, <1>6, <1>7, <1>8, <1>9

(* Removing, by the index that adding returned.                            *)
LEMMA RemoveStep ==
    ASSUME NEW s, NEW n, NEW f, NEW m, Linked(pool, s, n, f, m), NEW k \in Idx, xpool_remove(k)
    PROVE  PoolInv' /\ PoolRing!Next
  <1>1. PICK r : r = Walk /\ r = Shown(pool, s, n)
    BY WalksAre, WalkIs
  <1>2. /\ n \in Nat /\ s \in [1..n -> Idx] /\ r \in Seq(Shows) /\ Len(r) = n /\ DOMAIN r = 1..n
        /\ \A i \in 1..n : r[i] = <<s[i], pool.data[s[i]]>> /\ r[i][1] = s[i]
        /\ FirstOf(r) = NodesOf(s, n)
    BY <1>1, ShownIs
  <1>3. PoolRing!Indices = {s[i] : i \in 1..n}
    BY IndicesAre
  <1>4. k < PoolSize /\ k \in 0..PoolSize-1
    BY IdxIs
  <1>5. pool.prev[k] # NoIndex <=> \E i \in 1..n : s[i] = k
    BY MembersAre
  <1>6. CASE ~(\E i \in 1..n : s[i] = k)
    <2>1. pret' = NoIndex /\ pool' = pool
      BY <1>5, <1>6 DEF xpool_remove, __validate_idx
    <2>2. Walk' = Walk
      BY <2>1, WalksAre
    <2>3. k \notin PoolRing!Indices
      BY <1>3, <1>6
    <2>4. PoolRing!TakeOut(k)
      BY <2>1, <2>2, <2>3 DEF PoolRing!TakeOut
    <2>5. PoolInv'
      BY <2>1 DEF PoolInv
    <2> QED BY <1>4, <2>4, <2>5 DEF PoolRing!Next
  <1>7. CASE \E i \in 1..n : s[i] = k
    <2>1. PICK p \in 1..n : s[p] = k
      BY <1>7
    <2>2. pret' = k /\ pool' = __xpool_remove(pool, k)
      BY <1>4, <1>5, <1>7 DEF xpool_remove, __validate_idx
    <2>3. Removed(pool, pool', s, n, f, m, p)
      <3>1. PICK y : y = pool' /\ y = __xpool_remove(pool, s[p])
        BY <2>1, <2>2
      <3>2. Removed(pool, y, s, n, f, m, p)
        BY <3>1, RemoveLinks
      <3> QED BY <3>1, <3>2
    <2>4. PICK s2, n2, f2, m2 : /\ s2 = Without(s, n, p) /\ n2 = n - 1
                                /\ Linked(pool', s2, n2, f2, m2)
      BY <2>3 DEF Removed
    <2>5. PICK t : t = Walk' /\ t = Shown(pool', s2, n2)
      BY <2>4, WalksAre, WalkIs
    <2>6. /\ t \in Seq(Shows) /\ Len(t) = n - 1
          /\ \A i \in 1..n-1 : t[i] = <<s2[i], pool'.data[s2[i]]>>
      BY <2>4, <2>5, ShownIs
    <2>7. \A i \in 1..n-1 : s2[i] = s[Source(p, i)] /\ Source(p, i) \in 1..n
      BY <1>2, <2>4, SourceFacts DEF Without
    <2>8. pool'.data = pool.data
      BY <2>3 DEF Removed
    <2>9. ASSUME NEW i \in 1..n-1 PROVE t[i] = r[Source(p, i)]
      <3>1. PICK h \in 1..n : h = Source(p, i) /\ s2[i] = s[h]
        BY <2>7
      <3>2. t[i] = <<s2[i], pool'.data[s2[i]]>>
        BY <2>6
      <3>3. r[h] = <<s[h], pool.data[s[h]]>>
        BY <1>2
      <3> QED BY <2>8, <3>1, <3>2, <3>3
    <2>10. PICK c \in Seq(Shows) : /\ c = SubSeq(r, 1, p - 1) \o SubSeq(r, p + 1, n)
                                   /\ Len(c) = n - 1 /\ \A i \in 1..n-1 : c[i] = r[Source(p, i)]
      <3>1. PICK c : c = SubSeq(r, 1, p - 1) \o SubSeq(r, p + 1, n)
        OBVIOUS
      <3>2. r \in Seq(Shows) /\ n = Len(r)
        BY <1>2
      <3>3. c \in Seq(Shows) /\ Len(c) = n - 1 /\ \A i \in 1..n-1 : c[i] = r[Source(p, i)]
        BY <3>1, <3>2, WithoutOne
      <3> QED BY <3>1, <3>3
    <2>11. t = c
      BY <2>6, <2>9, <2>10, SameSeq
    <2>12. PoolRing!At(k) = p /\ k \in PoolRing!Indices
      BY <1>1, <2>1, PlaceIs
    <2>13. PoolRing!RemoveAt(r, p) = c
      BY <1>2, <2>10 DEF PoolRing!RemoveAt
    <2>14. PoolRing!TakeOut(k)
      BY <1>1, <2>2, <2>5, <2>11, <2>12, <2>13 DEF PoolRing!TakeOut
    <2>15. PoolInv'
      BY <2>4 DEF PoolInv
    <2> QED BY <1>4, <2>14, <2>15 DEF PoolRing!Next
  <1> QED BY <1>6, <1>7

(* An operation that returns a member and changes nothing.                 *)
LEMMA LookStep ==
    ASSUME NEW s, NEW n, NEW f, NEW m, Linked(pool, s, n, f, m), pool' = pool,
           pret' = pool.list \/ pret' = NoIndex \/ \E i \in 1..n : pret' = s[i]
    PROVE  PoolInv' /\ PoolRing!Next
  <1>1. PICK r : r = Walk /\ r = Shown(pool, s, n)
    BY WalksAre, WalkIs
  <1>2. /\ n \in Nat /\ DOMAIN r = 1..n /\ FirstOf(r) = NodesOf(s, n)
    BY <1>1, ShownIs
  <1>3. PoolRing!Indices = {s[i] : i \in 1..n}
    BY IndicesAre
  <1>4. pool.list = IF n = 0 THEN NoIndex ELSE s[1]
    BY DEF Linked
  <1>5. pret' \in PoolRing!Indices \cup {NoIndex}
    <2>1. CASE n = 0
      BY <1>2, <1>3, <1>4, <2>1
    <2>2. CASE n # 0
      <3>1. 1 \in 1..n
        BY <1>2, <2>2
      <3> QED BY <1>3, <1>4, <2>2, <3>1
    <2> QED BY <2>1, <2>2
  <1>6. Walk' = Walk
    BY WalksAre
  <1>7. PoolRing!Look
    BY <1>5, <1>6 DEF PoolRing!Look
  <1>8. PoolInv'
    BY DEF PoolInv
  <1> QED BY <1>7, <1>8 DEF PoolRing!Next

(* Looking at a member and going on to the next one.                       *)
LEMMA ForwardStep ==
    ASSUME NEW s, NEW n, NEW f, NEW m, Linked(pool, s, n, f, m), xpool_peek_and_fwd
    PROVE  PoolInv' /\ PoolRing!Next
  <1>1. PICK r : r = Walk /\ r = Shown(pool, s, n)
    BY WalksAre, WalkIs
  <1>2. /\ n \in Nat /\ s \in [1..n -> Idx] /\ r \in Seq(Shows) /\ Len(r) = n
        /\ \A i \in 1..n : r[i] = <<s[i], pool.data[s[i]]>> /\ r[i][1] = s[i]
    BY <1>1, ShownIs
  <1>3. pool.list = (IF n = 0 THEN NoIndex ELSE s[1]) /\ NoIndex \notin Idx
    BY IdxIs DEF Linked
  <1>4. CASE n = 0
    <2>1. pool' = pool /\ pret' = pool.list
      BY <1>3, <1>4 DEF xpool_peek_and_fwd
    <2> QED BY <2>1, LookStep
  <1>5. CASE n # 0
    <2>1. 1 \in 1..n /\ n \in 1..n /\ s[1] \in Idx /\ pool.list = s[1] /\ pool.list # NoIndex
      BY <1>2, <1>3, <1>5
    <2>2. pret' = s[1] /\ pool' = [pool EXCEPT !.list = pool.next[pool.list]]
      BY <2>1 DEF xpool_peek_and_fwd
    <2>3. PICK s2 : s2 = Turned(s, n) /\ Linked(pool', s2, n, f, m) /\ pool'.data = pool.data
      <3>1. PICK y : y = pool' /\ y = [pool EXCEPT !.list = pool.next[pool.list]]
        BY <2>2
      <3>2. Linked(y, Turned(s, n), n, f, m) /\ y.data = pool.data
        BY <1>5, <3>1, ForwardLinks
      <3> QED BY <3>1, <3>2
    <2>4. PICK t : t = Walk' /\ t = Shown(pool', s2, n)
      BY <2>3, WalksAre, WalkIs
    <2>5. /\ t \in Seq(Shows) /\ Len(t) = n
          /\ \A i \in 1..n : t[i] = <<s2[i], pool'.data[s2[i]]>>
      BY <2>3, <2>4, ShownIs
    <2>6. \A i \in 1..n : s2[i] = s[After(n, i)] /\ After(n, i) \in 1..n
      BY <1>2, <2>1, <2>3 DEF Turned, After
    <2>7. ASSUME NEW i \in 1..n PROVE t[i] = r[After(n, i)]
      <3>1. PICK h \in 1..n : h = After(n, i) /\ s2[i] = s[h]
        BY <2>6
      <3>2. t[i] = <<s2[i], pool'.data[s2[i]]>>
        BY <2>5
      <3>3. r[h] = <<s[h], pool.data[s[h]]>>
        BY <1>2
      <3> QED BY <2>3, <3>1, <3>2, <3>3
    <2>8. r # <<>> /\ Head(r) = r[1] /\ Head(r)[1] = s[1]
      BY <1>2, <1>5, <2>1
    <2>9. PICK g \in Seq(Shows) : g = Tail(r) /\ Len(g) = n - 1 /\ \A i \in 1..n-1 : g[i] = r[i + 1]
      <3>1. PICK g : g = Tail(r)
        OBVIOUS
      <3>2. r \in Seq(Shows) /\ r # <<>> /\ Len(r) = n
        BY <1>2, <2>8
      <3>3. g \in Seq(Shows) /\ Len(g) = Len(r) - 1 /\ \A i \in 1..Len(g) : g[i] = r[i + 1]
        BY <3>1, <3>2, HeadTailProperties
      <3> QED BY <3>1, <3>2, <3>3
    <2>10. PICK e \in Shows : e = Head(r) /\ e = r[1]
      BY <1>2, <2>1, <2>8
    <2>11. PICK a : a = Append(g, e)
      OBVIOUS
    <2>12. /\ a \in Seq(Shows) /\ Len(a) = n - 1 + 1 /\ (\A i \in 1..n-1 : a[i] = g[i])
           /\ a[n - 1 + 1] = e
      BY <2>9, <2>11, AppendProperties
    <2>13. \A i \in 1..n : t[i] = a[i]
      <3>1. ASSUME NEW i \in 1..n PROVE t[i] = a[i]
        <4>1. CASE i = n
          BY <1>2, <2>7, <2>10, <2>12, <4>1 DEF After
        <4>2. CASE i # n
          <5>1. i \in 1..n-1
            BY <1>2, <4>2
          <5> QED BY <2>7, <2>9, <2>12, <4>2, <5>1 DEF After
        <4> QED BY <4>1, <4>2
      <3> QED BY <3>1
    <2>14. t = a
      BY <1>2, <2>5, <2>12, <2>13, SameSeq
    <2>15. PoolRing!Forward
      BY <1>1, <2>2, <2>4, <2>8, <2>9, <2>10, <2>11, <2>14 DEF PoolRing!Forward
    <2>16. PoolInv'
      BY <2>3 DEF PoolInv
    <2> QED BY <2>15, <2>16 DEF PoolRing!Next
  <1> QED BY <1>4, <1>5

(* Other data for a member.                                                *)
LEMMA SetDataStep ==
    ASSUME NEW s, NEW n, NEW f, NEW m, Linked(pool, s, n, f, m),
           NEW k \in Idx, NEW d \in PoolData, xpool_set_idx(k, d)
    PROVE  PoolInv' /\ PoolRing!Next
  <1>1. PICK r : r = Walk /\ r = Shown(pool, s, n)
    BY WalksAre, WalkIs
  <1>2. /\ n \in Nat /\ s \in [1..n -> Idx] /\ r \in Seq(Shows) /\ Len(r) = n /\ DOMAIN r = 1..n
        /\ \A i \in 1..n : r[i] = <<s[i], pool.data[s[i]]>>
        /\ \A i, j \in 1..n : s[i] = s[j] => i = j
    BY <1>1, ShownIs
  <1>3. k < PoolSize /\ k \in 0..PoolSize-1
    BY IdxIs
  <1>4. pool.prev[k] # NoIndex <=> \E i \in 1..n : s[i] = k
    BY MembersAre
  <1>5. CASE ~(\E i \in 1..n : s[i] = k)
    <2>1. pret' = NoIndex /\ pool' = pool
      BY <1>4, <1>5 DEF xpool_set_idx, __validate_idx
    <2> QED BY <2>1, LookStep
  <1>6. CASE \E i \in 1..n : s[i] = k
    <2>1. PICK p \in 1..n : s[p] = k
      BY <1>6
    <2>2. pret' = k /\ pool' = [pool EXCEPT !.data[k] = d]
      BY <1>3, <1>4, <1>6 DEF xpool_set_idx, __validate_idx
    <2>3. Linked(pool', s, n, f, m) /\ pool'.data = [pool.data EXCEPT ![k] = d]
      <3>1. PICK y : y = pool' /\ y = WithData(pool, k, d)
        BY <2>2 DEF WithData
      <3>2. Linked(y, s, n, f, m) /\ y.data = [pool.data EXCEPT ![k] = d]
        BY <3>1, DataLinks
      <3> QED BY <3>1, <3>2
    <2>31. PICK y : y = pool' /\ Linked(y, s, n, f, m)
      BY <2>3
    <2>4. PICK t : t = Walk' /\ t = Shown(y, s, n)
      BY <2>31, WalksAre, WalkIs
    <2>5. /\ t \in Seq(Shows) /\ Len(t) = n
          /\ \A i \in 1..n : t[i] = <<s[i], pool'.data[s[i]]>>
      BY <2>31, <2>4, ShownIs
    <2>6. pool.data \in [Idx -> PoolData \cup {NoIndex}]
      BY DEF Linked, PoolRec
    <2>7. PICK e \in Shows : e = <<k, d>>
      BY DEF Shows
    <2>8. \A i \in 1..n : t[i] = IF i = p THEN e ELSE r[i]
      <3>1. ASSUME NEW i \in 1..n, i # p PROVE t[i] = r[i]
        <4>1. s[i] # k /\ s[i] \in Idx
          BY <1>2, <2>1, <3>1
        <4> QED BY <1>2, <2>3, <2>5, <2>6, <4>1
      <3>2. t[p] = e
        <4>1. pool'.data[k] = d
          BY <2>3, <2>6
        <4> QED BY <2>1, <2>5, <2>7, <4>1
      <3> QED BY <3>1, <3>2
    <2>9. PICK c : c = [r EXCEPT ![p] = e]
      OBVIOUS
    <2>10. c \in Seq(Shows) /\ Len(c) = n /\ \A i \in 1..n : c[i] = IF i = p THEN e ELSE r[i]
      BY <1>2, <2>9, ExceptSeq
    <2>11. t = c
      BY <1>2, <2>5, <2>8, <2>10, SameSeq
    <2>12. PoolRing!At(k) = p /\ k \in PoolRing!Indices
      BY <1>1, <2>1, PlaceIs
    <2>13. PoolRing!SetData(k, d)
      BY <1>1, <2>2, <2>4, <2>7, <2>9, <2>11, <2>12 DEF PoolRing!SetData
    <2>14. PoolInv'
      BY <2>3 DEF PoolInv
    <2> QED BY <1>3, <2>13, <2>14 DEF PoolRing!Next
  <1> QED BY <1>5, <1>6

(* An empty ring shows nothing.                                            *)
LEMMA NoneShown ==
    ASSUME NEW x, NEW f, NEW m, Linked(x, <<>>, 0, f, m)
    PROVE  WalkOf(x) = <<>>
  <1>1. WalkOf(x) = Shown(x, <<>>, 0)
    BY WalkIs
  <1>2. Shown(x, <<>>, 0) = <<>>
    BY DEF Shown
  <1> QED BY <1>1, <1>2

(* All nodes go back to the free list.                                     *)
LEMMA ClearStep ==
    ASSUME NEW s, NEW n, NEW f, NEW m, Linked(pool, s, n, f, m), xpool_clear
    PROVE  PoolInv' /\ PoolRing!Next
  <1>1. pool.data \in [Idx -> PoolData \cup {NoIndex}]
    BY DEF Linked, PoolRec
  <1>2. PICK y : y = pool' /\ y = __xpool_clear(pool.data)
    BY DEF xpool_clear
  <1>3. PICK g : g = [j \in 1..PoolSize |-> j - 1]
    OBVIOUS
  <1>4. Linked(y, <<>>, 0, g, PoolSize)
    BY <1>1, <1>2, <1>3, ClearLinks
  <1>5. Walk' = <<>>
    BY <1>2, <1>4, NoneShown, WalksAre
  <1>6. PoolRing!Clear
    BY <1>5 DEF PoolRing!Clear, xpool_clear
  <1>7. PoolInv'
    BY <1>2, <1>4 DEF PoolInv
  <1> QED BY <1>6, <1>7 DEF PoolRing!Next

(* Looking at a member, whichever it is.                                   *)
LEMMA PeekStep ==
    ASSUME NEW s, NEW n, NEW f, NEW m, Linked(pool, s, n, f, m), NEW k \in Idx,
           xpool_peek \/ xpool_peek_idx(k)
    PROVE  PoolInv' /\ PoolRing!Next
  <1>1. pool' = pool
    BY DEF xpool_peek, xpool_peek_idx
  <1>2. pool.prev[k] # NoIndex <=> \E i \in 1..n : s[i] = k
    BY MembersAre
  <1>3. pret' = pool.list \/ pret' = NoIndex \/ \E i \in 1..n : pret' = s[i]
    BY <1>2 DEF xpool_peek, xpool_peek_idx, __validate_idx
  <1> QED BY <1>1, <1>3, LookStep

(* The pool starts with all of its nodes on the free list.                 *)
LEMMA PoolStart == PoolInit => PoolInv /\ PoolRing!Init
  <1> SUFFICES ASSUME PoolInit PROVE PoolInv /\ PoolRing!Init
    OBVIOUS
  <1>1. PICK dt : dt = [i \in Idx |-> NoIndex] /\ pool = __xpool_clear(dt)
    BY DEF PoolInit
  <1>2. dt \in [Idx -> PoolData \cup {NoIndex}]
    BY <1>1
  <1>3. PICK g : g = [j \in 1..PoolSize |-> j - 1]
    OBVIOUS
  <1>4. Linked(pool, <<>>, 0, g, PoolSize)
    BY <1>1, <1>2, <1>3, ClearLinks
  <1>5. Walk = <<>>
    BY <1>4, NoneShown, WalksAre
  <1>6. PoolRing!Init
    BY <1>5 DEF PoolRing!Init, PoolInit
  <1>7. PoolInv
    BY <1>4 DEF PoolInv
  <1> QED BY <1>6, <1>7

(* Every step keeps the invariant and is one of the ring.                  *)
LEMMA PoolStep ==
    ASSUME PoolInv, [PoolNext]_poolVars
    PROVE  PoolInv' /\ [PoolRing!Next]_PoolRing!vars
  <1>1. PICK s, n, f, m : Linked(pool, s, n, f, m)
    BY DEF PoolInv
  <1>2. CASE UNCHANGED poolVars
    <2>1. pool' = pool /\ pret' = pret
      BY <1>2 DEF poolVars
    <2>2. Walk' = Walk
      BY <2>1, WalksAre
    <2>3. PoolInv'
      BY <1>1, <2>1 DEF PoolInv
    <2> QED BY <2>1, <2>2, <2>3 DEF PoolRing!vars
  <1>3. CASE xpool_clear
    BY <1>1, <1>3, ClearStep
  <1>4. CASE xpool_peek
    <2>1. PICK k \in Idx : k = 0
      <3>1. 0 \in Idx
        BY IdxIs
      <3> QED BY <3>1
    <2> QED BY <1>1, <1>4, <2>1, PeekStep
  <1>5. CASE xpool_peek_and_fwd
    BY <1>1, <1>5, ForwardStep
  <1>6. ASSUME NEW k \in Idx, xpool_remove(k) PROVE PoolInv' /\ PoolRing!Next
    BY <1>1, <1>6, RemoveStep
  <1>7. ASSUME NEW k \in Idx, xpool_peek_idx(k) PROVE PoolInv' /\ PoolRing!Next
    BY <1>1, <1>7, PeekStep
  <1>8. ASSUME NEW d \in PoolData, xpool_add(d) PROVE PoolInv' /\ PoolRing!Next
    BY <1>1, <1>8, AddStep
  <1>9. ASSUME NEW d \in PoolData, NEW k \in Idx, xpool_set_idx(k, d)
        PROVE  PoolInv' /\ PoolRing!Next
    BY <1>1, <1>9, SetDataStep
  <1> QED BY <1>2, <1>3, <1>4, <1>5, <1>6, <1>7, <1>8, <1>9 DEF PoolNext

(* The pool of xpool.c is a ring: nodes are added to it and removed from   *)
(* it anywhere, it is walked from the next one to be looked at, and a node *)
(* is on the free list or a member, never both; for pools of any size.     *)
THEOREM PoolIsARing == PoolSpec => RefinesRing
  <1>1. PoolInit => PoolInv /\ PoolRing!Init
    BY PoolStart
  <1>2. PoolInv /\ [PoolNext]_poolVars => PoolInv' /\ [PoolRing!Next]_PoolRing!vars
    BY PoolStep
  <1> QED BY <1>1, <1>2, PTL DEF PoolSpec, RefinesRing, PoolRing!Spec
-----------------------------------------------------------------------------
(* The heap: what is true of its array between two swaps.                  *)
NodeRec == [key : HeapKeys \cup {NoNode}, value : HeapValues \cup {NoNode}, h : Pos]

(* nodes and indexes name each other; the first c nodes have elements.     *)
Indexed(x, c) ==
    /\ x.nodes \in [Pos -> NodeRec] /\ x.indexes \in [Pos -> Pos]
    /\ x.max \in BOOLEAN /\ x.count \in 0..HeapSize /\ c \in 0..HeapSize
    /\ \A i \in Pos : x.indexes[x.nodes[i].h] = i
    /\ \A k \in Pos : x.nodes[x.indexes[k]].h = k
    /\ \A i \in Pos : i < c => x.nodes[i].key \in HeapKeys /\ x.nodes[i].value \in HeapValues
    /\ x = [count |-> x.count, max |-> x.max, nodes |-> x.nodes, indexes |-> x.indexes]

Parent(i) == (i - 1) \div 2

(* In the heap the parent i of j may be above it.                          *)
Over(x, i, j) == ~above(x, j, i)
Ordered(x, c) == \A i \in 1..c-1 : Over(x, Parent(i), i)

(* Ordered but for node p, which may belong further up, or further down.   *)
Rising(x, c, p) ==
    /\ \A i \in 1..c-1 : i # p => Over(x, Parent(i), i)
    /\ p # 0 => \A i \in 1..c-1 : Parent(i) = p => Over(x, Parent(p), i)
Sinking(x, c, p) ==
    /\ \A i \in 1..c-1 : Parent(i) # p => Over(x, Parent(i), i)
    /\ p # 0 => \A i \in 1..c-1 : Parent(i) = p => Over(x, Parent(p), i)

(* y has the elements of x, with the same handlers.                        *)
Alike(x, y, c) ==
    /\ y.count = x.count /\ y.max = x.max
    /\ \A k \in Pos : /\ y.nodes[y.indexes[k]] = x.nodes[x.indexes[k]]
                      /\ y.indexes[k] < c <=> x.indexes[k] < c

(* Nodes are numbered from 0; keys are numbers.                            *)
LEMMA PosIs == HeapSize \in Nat \ {0} /\ Pos = 0..HeapSize-1 /\ HeapKeys \subseteq Nat
               /\ NoNode \notin [key : HeapKeys, value : HeapValues]
               /\ (\A i \in Pos : i \in Nat)
  BY HeapAssumption DEF Pos

(* A node is the left or the right child of its parent.                    *)
LEMMA Parents ==
    /\ \A i \in Nat \ {0} : /\ Parent(i) \in Nat /\ Parent(i) < i
                            /\ i = 2 * Parent(i) + 1 \/ i = 2 * Parent(i) + 2
    /\ \A p \in Nat : Parent(2 * p + 1) = p /\ Parent(2 * p + 2) = p
  BY DEF Parent

(* The order is transitive, and two nodes are above each other or not.     *)
LEMMA OverIs ==
    ASSUME NEW x, NEW c, Indexed(x, c)
    PROVE  /\ \A i, j, k \in 0..c-1 : Over(x, i, j) /\ Over(x, j, k) => Over(x, i, k)
           /\ \A i, j \in 0..c-1 : above(x, i, j) => Over(x, i, j)
           /\ \A i \in 0..c-1 : Over(x, i, i) /\ ~above(x, i, i)
           /\ \A i, j \in 0..c-1 : Over(x, i, j) <=> ~above(x, j, i)
  <1>1. \A i \in 0..c-1 : x.nodes[i].key \in Nat
    BY PosIs DEF Indexed
  <1>2. PICK ky : ky = [i \in 0..c-1 |-> x.nodes[i].key]
    OBVIOUS
  <1>3. \A i \in 0..c-1 : ky[i] = x.nodes[i].key /\ ky[i] \in Nat
    BY <1>1, <1>2
  <1>4. \A i, j \in 0..c-1 : above(x, i, j) <=> IF x.max THEN ky[i] > ky[j] ELSE ky[i] < ky[j]
    BY <1>3 DEF above
  <1> QED BY <1>3, <1>4 DEF Over

(* A swap of two nodes.                                                    *)
LEMMA Swapped ==
    ASSUME NEW x, NEW c, Indexed(x, c), NEW a \in Pos, NEW b \in Pos, a < c, b < c,
           NEW y, y = swap_nodes(x, a, b)
    PROVE  /\ Indexed(y, c) /\ Alike(x, y, c)
           /\ \A i \in Pos : y.nodes[i] = IF i = a THEN x.nodes[b]
                                          ELSE IF i = b THEN x.nodes[a] ELSE x.nodes[i]
  <1>1. PICK nd \in [Pos -> NodeRec], ix \in [Pos -> Pos] : nd = x.nodes /\ ix = x.indexes
    BY DEF Indexed
  <1>2. /\ x = [count |-> x.count, max |-> x.max, nodes |-> nd, indexes |-> ix]
        /\ \A i \in Pos : nd[i] \in NodeRec /\ nd[i].h \in Pos /\ ix[nd[i].h] = i
        /\ \A k \in Pos : ix[k] \in Pos /\ nd[ix[k]].h = k
        /\ \A i \in Pos : i < c => nd[i].key \in HeapKeys /\ nd[i].value \in HeapValues
    BY <1>1 DEF Indexed, NodeRec
  <1>3. PICK n2 : n2 = [[nd EXCEPT ![a] = nd[b]] EXCEPT ![b] = nd[a]]
    OBVIOUS
  <1>4. PICK x2 : x2 = [[ix EXCEPT ![nd[a].h] = ix[nd[b].h]] EXCEPT ![nd[b].h] = ix[nd[a].h]]
    OBVIOUS
  <1>5. y = [count |-> x.count, max |-> x.max, nodes |-> n2, indexes |-> x2]
    <2>1. y = [x EXCEPT !.nodes = n2, !.indexes = x2]
      BY <1>1, <1>3, <1>4 DEF swap_nodes
    <2> QED BY <1>2, <2>1
  <1>6. y.count = x.count /\ y.max = x.max /\ y.nodes = n2 /\ y.indexes = x2
    BY <1>5
  <1>7. n2 \in [Pos -> NodeRec] /\ \A i \in Pos : n2[i] = IF i = b THEN nd[a]
                                                          ELSE IF i = a THEN nd[b] ELSE nd[i]
    BY <1>2, <1>3
  <1>8. x2 = [[ix EXCEPT ![nd[a].h] = b] EXCEPT ![nd[b].h] = a]
    BY <1>2, <1>4
  <1>9. x2 \in [Pos -> Pos] /\ \A k \in Pos : x2[k] = IF k = nd[b].h THEN a
                                                      ELSE IF k = nd[a].h THEN b ELSE ix[k]
    BY <1>2, <1>8
  <1>10. \A i \in Pos : x2[n2[i].h] = i
    BY <1>2, <1>7, <1>9
  <1>11. \A k \in Pos : n2[x2[k]] = nd[ix[k]] /\ (x2[k] < c <=> ix[k] < c)
    BY <1>2, <1>7, <1>9
  <1>12. \A k \in Pos : n2[x2[k]].h = k
    BY <1>2, <1>11
  <1>13. \A i \in Pos : i < c => n2[i].key \in HeapKeys /\ n2[i].value \in HeapValues
    BY <1>2, <1>7
  <1>14. x.max \in BOOLEAN /\ x.count \in 0..HeapSize /\ c \in 0..HeapSize
    BY DEF Indexed
  <1>15. Indexed(y, c)
    BY <1>5, <1>6, <1>7, <1>9, <1>10, <1>12, <1>13, <1>14 DEF Indexed
  <1>16. Alike(x, y, c)
    BY <1>1, <1>6, <1>11 DEF Alike
  <1> QED BY <1>1, <1>6, <1>7, <1>8, <1>15, <1>16

Other(a, b, i) == IF i = a THEN b ELSE IF i = b THEN a ELSE i

(* Once two nodes are swapped the order is that of the nodes they were.    *)
LEMMA SwapOrder ==
    ASSUME NEW x, NEW c, Indexed(x, c), NEW a \in Pos, NEW b \in Pos, a < c, b < c,
           NEW y, y = swap_nodes(x, a, b)
    PROVE  /\ \A i, j \in 0..c-1 : Over(y, i, j) <=> Over(x, Other(a, b, i), Other(a, b, j))
           /\ \A i \in 0..c-1 : Other(a, b, i) \in 0..c-1
  <1>1. /\ \A i \in Pos : y.nodes[i] = IF i = a THEN x.nodes[b]
                                       ELSE IF i = b THEN x.nodes[a] ELSE x.nodes[i]
        /\ y.max = x.max
    <2>1. Alike(x, y, c) /\ \A i \in Pos : y.nodes[i] = IF i = a THEN x.nodes[b]
                                          ELSE IF i = b THEN x.nodes[a] ELSE x.nodes[i]
      BY Swapped
    <2> QED BY <2>1 DEF Alike
  <1>2. a \in 0..c-1 /\ b \in 0..c-1 /\ \A i \in 0..c-1 : i \in Pos
    BY PosIs DEF Indexed
  <1>3. \A i \in 0..c-1 : /\ Other(a, b, i) \in 0..c-1
                          /\ y.nodes[i] = x.nodes[Other(a, b, i)]
    BY <1>1, <1>2 DEF Other
  <1> QED BY <1>1, <1>3 DEF Over, above

(* Having the same elements is transitive,                                 *)
LEMMA AlikeTwice ==
    ASSUME NEW x, NEW y, NEW z, NEW c, Alike(x, y, c), Alike(y, z, c)
    PROVE  Alike(x, z, c)
  BY DEF Alike

(* and reflexive.                                                          *)
LEMMA AlikeSelf ==
    ASSUME NEW x, NEW c
    PROVE  Alike(x, x, c)
  BY DEF Alike

(* One call of heapify_up.                                                 *)
LEMMA RiseOnce ==
    ASSUME NEW x, NEW c, NEW p \in Pos, Indexed(x, c), p < c, Rising(x, c, p),
           NEW z, z = rise([heap |-> x, at |-> p])
    PROVE  /\ Indexed(z.heap, c) /\ Alike(x, z.heap, c)
           /\ z.at \in Pos /\ z.at < c /\ Rising(z.heap, c, z.at)
           /\ (z.at < p \/ (z.at = p /\ Ordered(z.heap, c)))
           /\ Ordered(x, c) => Ordered(z.heap, c)
           /\ z = [heap |-> z.heap, at |-> z.at]
  <1> DEFINE r == Parent(p)
  <1>1. /\ c \in 0..HeapSize /\ p \in 0..c-1 /\ p \in Nat
        /\ (p # 0 => r \in Nat /\ r < p /\ r \in Pos /\ r < c /\ r \in 0..c-1 /\ p \in 1..c-1)
        /\ \A i \in 1..c-1 : i \in 0..c-1 /\ Parent(i) \in 0..c-1 /\ Parent(i) < i /\ i # 0
    <2>1. c \in 0..HeapSize /\ p \in 0..c-1 /\ p \in Nat
      BY PosIs DEF Indexed
    <2>2. p # 0 => r \in Nat /\ r < p
      BY <2>1, Parents
    <2>3. p # 0 => r \in Pos /\ r < c /\ r \in 0..c-1 /\ p \in 1..c-1
      BY <2>1, <2>2, PosIs
    <2>4. ASSUME NEW i \in 1..c-1
          PROVE  i \in 0..c-1 /\ Parent(i) \in 0..c-1 /\ Parent(i) < i /\ i # 0
      <3>1. i \in Nat \ {0} /\ i <= c - 1
        BY <2>1
      <3>2. Parent(i) \in Nat /\ Parent(i) < i
        BY <3>1, Parents
      <3> QED BY <2>1, <3>1, <3>2
    <2> QED BY <2>1, <2>2, <2>3, <2>4
  <1>2. z = IF p # 0 /\ above(x, p, r) THEN [heap |-> swap_nodes(x, p, r), at |-> r]
            ELSE [heap |-> x, at |-> p]
    BY DEF rise, Parent
  <1>3. CASE p # 0 /\ above(x, p, r)
    <2>1. PICK y : y = swap_nodes(x, p, r)
      OBVIOUS
    <2>2. z.heap = y /\ z.at = r
      BY <1>2, <1>3, <2>1
    <2>3. Indexed(y, c) /\ Alike(x, y, c)
      BY <1>1, <1>3, <2>1, Swapped
    <2>4. /\ \A i, j \in 0..c-1 : Over(y, i, j) <=> Over(x, Other(p, r, i), Other(p, r, j))
          /\ \A i \in 0..c-1 : Other(p, r, i) \in 0..c-1
      BY <1>1, <1>3, <2>1, SwapOrder
    <2>5. /\ \A i, j, k \in 0..c-1 : Over(x, i, j) /\ Over(x, j, k) => Over(x, i, k)
          /\ Over(x, p, r)
      BY <1>1, <1>3, OverIs
    <2>6. p # 0 /\ r \in 0..c-1 /\ p \in 1..c-1 /\ r < p
      BY <1>1, <1>3
    <2>7. ~Ordered(x, c)
      BY <1>1, <1>3, OverIs DEF Ordered, Over
    <2>8. ASSUME NEW i \in 1..c-1, i # r PROVE Over(y, Parent(i), i)
      <3>1. CASE i = p
        <4>1. Other(p, r, Parent(i)) = p /\ Other(p, r, i) = r
          BY <2>6, <3>1 DEF Other
        <4> QED BY <1>1, <2>4, <2>5, <4>1
      <3>2. CASE i # p /\ Parent(i) = p
        <4>1. Other(p, r, Parent(i)) = r /\ Other(p, r, i) = i
          BY <2>8, <2>6, <3>2 DEF Other
        <4>2. Over(x, r, i)
          BY <3>2, <2>6 DEF Rising
        <4> QED BY <1>1, <2>4, <4>1, <4>2
      <3>3. CASE i # p /\ Parent(i) = r
        <4>1. Other(p, r, Parent(i)) = p /\ Other(p, r, i) = i
          BY <2>8, <2>6, <3>3 DEF Other
        <4>2. Over(x, r, i)
          BY <3>3 DEF Rising
        <4>3. Over(x, p, i)
          BY <1>1, <2>5, <2>6, <4>2
        <4> QED BY <1>1, <2>4, <4>1, <4>3
      <3>4. CASE i # p /\ Parent(i) # p /\ Parent(i) # r
        <4>1. Other(p, r, Parent(i)) = Parent(i) /\ Other(p, r, i) = i
          BY <2>8, <3>4 DEF Other
        <4>2. Over(x, Parent(i), i)
          BY <3>4 DEF Rising
        <4> QED BY <1>1, <2>4, <4>1, <4>2
      <3> QED BY <3>1, <3>2, <3>3, <3>4
    <2>9. ASSUME r # 0, NEW i \in 1..c-1, Parent(i) = r PROVE Over(y, Parent(r), i)
      <3>1. r \in 1..c-1 /\ Parent(r) \in 0..c-1 /\ Parent(r) < r /\ r < i
        BY <1>1, <2>6, <2>9
      <3>2. Over(x, Parent(r), r)
        BY <2>6, <3>1 DEF Rising
      <3>3. Other(p, r, Parent(r)) = Parent(r)
        BY <2>6, <3>1 DEF Other
      <3>4. CASE i = p
        <4>1. Other(p, r, i) = r
          BY <3>4 DEF Other
        <4> QED BY <1>1, <2>4, <3>1, <3>2, <3>3, <4>1
      <3>5. CASE i # p
        <4>1. Other(p, r, i) = i
          BY <3>1, <3>5 DEF Other
        <4>2. Over(x, r, i)
          BY <2>9, <3>5 DEF Rising
        <4>3. Over(x, Parent(r), i)
          BY <1>1, <2>5, <3>1, <3>2, <4>2
        <4> QED BY <1>1, <2>4, <3>1, <3>3, <4>1, <4>3
      <3> QED BY <3>4, <3>5
    <2>10. Rising(y, c, r)
      BY <2>8, <2>9 DEF Rising
    <2>11. z.at < p /\ z.at \in Pos /\ z.at < c
      BY <1>1, <2>2, <2>6
    <2>12. Indexed(z.heap, c) /\ Alike(x, z.heap, c) /\ Rising(z.heap, c, z.at)
      BY <2>2, <2>3, <2>10
    <2>13. z = [heap |-> z.heap, at |-> z.at]
      BY <1>2, <1>3
    <2> QED BY <2>7, <2>11, <2>12, <2>13
  <1>4. CASE ~(p # 0 /\ above(x, p, r))
    <2>1. z.heap = x /\ z.at = p
      BY <1>2, <1>4
    <2>2. ASSUME NEW i \in 1..c-1 PROVE Over(x, Parent(i), i)
      <3>1. CASE i = p
        BY <1>1, <1>4, <3>1 DEF Over
      <3>2. CASE i # p
        BY <3>2 DEF Rising
      <3> QED BY <3>1, <3>2
    <2>3. Ordered(x, c)
      BY <2>2 DEF Ordered
    <2>4. z = [heap |-> z.heap, at |-> z.at]
      BY <1>2, <1>4
    <2> QED BY <1>1, <2>1, <2>3, <2>4, AlikeSelf
  <1> QED BY <1>3, <1>4

(* All calls of heapify_up.                                                *)
Rises(g, x, i, n) == g = [k \in 0..n |-> IF k = 0 THEN [heap |-> x, at |-> i] ELSE rise(g[k-1])]

(* The function of the calls of heapify_up exists: its domain is bounded.  *)
LEMMA RisesAre ==
    ASSUME NEW x, NEW i
    PROVE  \A n \in Nat : \E g : Rises(g, x, i, n)
  <1> DEFINE s == [heap |-> x, at |-> i]
             Is(g, n) == g = [k \in 0..n |-> IF k = 0 THEN s ELSE rise(g[k-1])]
             T == {n \in Nat : \E g : Is(g, n)}
  <1>1. 0 \in T
    <2>1. PICK g : g = [k \in 0..0 |-> s]
      OBVIOUS
    <2>2. \A k \in 0..0 : k = 0
      OBVIOUS
    <2>3. Is(g, 0)
      BY <2>1, <2>2
    <2> QED BY <2>3
  <1>2. ASSUME NEW n \in Nat, n \in T PROVE n + 1 \in T
    <2>1. PICK g : Is(g, n)
      BY <1>2
    <2>2. PICK u : u = rise(g[n])
      OBVIOUS
    <2>3. PICK f : f = [k \in 0..n+1 |-> IF k = n + 1 THEN u ELSE g[k]]
      OBVIOUS
    <2>4. ASSUME NEW k \in 0..n+1 PROVE f[k] = IF k = 0 THEN s ELSE rise(f[k-1])
      <3>1. CASE k = n + 1
        <4>1. k - 1 = n /\ n \in 0..n+1 /\ n # n + 1 /\ k # 0
          BY <3>1
        <4> QED BY <2>2, <2>3, <3>1, <4>1
      <3>2. CASE k # n + 1
        <4>1. k \in 0..n /\ f[k] = g[k]
          BY <2>3, <3>2
        <4>2. k # 0 => k - 1 \in 0..n+1 /\ k - 1 # n + 1
          BY <3>2
        <4>3. g[k] = IF k = 0 THEN s ELSE rise(g[k-1])
          BY <2>1, <4>1
        <4> QED BY <2>3, <4>1, <4>2, <4>3
      <3> QED BY <3>1, <3>2
    <2>5. Is(f, n + 1)
      BY <2>3, <2>4
    <2> QED BY <2>5
  <1> HIDE DEF T
  <1>3. \A n \in Nat : n \in T
    BY <1>1, <1>2, SetInduction
  <1>4. ASSUME NEW n \in Nat PROVE \E g : Rises(g, x, i, n)
    <2>1. PICK g : Is(g, n)
      BY <1>3 DEF T
    <2> QED BY <2>1 DEF Rises
  <1> QED BY <1>4

(* A node that may belong further up gets there in HeapSize - 1 calls.     *)
LEMMA HeapifyUp ==
    ASSUME NEW x, NEW c, NEW i \in Pos, Indexed(x, c), i < c, Rising(x, c, i),
           NEW z, z = heapify_up(x, i)
    PROVE  Indexed(z, c) /\ Alike(x, z, c) /\ Ordered(z, c)
  <1> DEFINE step == CHOOSE g : g = [k \in Pos |-> IF k = 0 THEN [heap |-> x, at |-> i]
                                                   ELSE rise(g[k-1])]
  <1>1. z = step[HeapSize-1].heap
    BY DEF heapify_up
  <1>2. HeapSize - 1 \in Nat /\ Pos = 0..HeapSize-1 /\ i \in 0..HeapSize-1
    BY PosIs
  <1>3. step = [k \in Pos |-> IF k = 0 THEN [heap |-> x, at |-> i] ELSE rise(step[k-1])]
    <2>1. PICK n \in Nat : n = HeapSize - 1
      BY <1>2
    <2>2. PICK g : Rises(g, x, i, n)
      BY RisesAre
    <2>3. g = [k \in Pos |-> IF k = 0 THEN [heap |-> x, at |-> i] ELSE rise(g[k-1])]
      BY <1>2, <2>1, <2>2 DEF Rises
    <2> QED BY <2>3
  <1> HIDE DEF step
  <1>4. \A k \in Pos : step[k] = IF k = 0 THEN [heap |-> x, at |-> i] ELSE rise(step[k-1])
    BY <1>3
  <1> DEFINE Good(k) == /\ Indexed(step[k].heap, c) /\ Alike(x, step[k].heap, c)
                        /\ step[k].at \in Pos /\ step[k].at < c
                        /\ Rising(step[k].heap, c, step[k].at)
                        /\ (Ordered(step[k].heap, c) \/ step[k].at + k <= i)
                        /\ step[k] = [heap |-> step[k].heap, at |-> step[k].at]
             T == {k \in Nat : k \in Pos => Good(k)}
  <1>5. 0 \in T
    <2>1. step[0] = [heap |-> x, at |-> i]
      BY <1>2, <1>4
    <2>2. step[0].heap = x /\ step[0].at = i /\ i + 0 <= i
      BY <1>2, <2>1
    <2>3. Good(0)
      BY <2>1, <2>2, AlikeSelf
    <2> QED BY <2>3
  <1>6. ASSUME NEW k \in Nat, k \in T PROVE k + 1 \in T
    <2> SUFFICES ASSUME k + 1 \in Pos PROVE Good(k + 1)
      OBVIOUS
    <2>1. k \in Pos /\ k + 1 # 0 /\ k + 1 - 1 = k
      BY <1>2
    <2>2. Good(k)
      BY <1>6, <2>1
    <2>0. PICK u : u = step[k].heap
      OBVIOUS
    <2>3. PICK p \in Pos : p = step[k].at /\ step[k] = [heap |-> u, at |-> p]
      BY <2>0, <2>2
    <2>4. PICK y : y = step[k + 1] /\ y = rise([heap |-> u, at |-> p])
      <3>1. step[k + 1] = IF k + 1 = 0 THEN [heap |-> x, at |-> i] ELSE rise(step[k + 1 - 1])
        BY <1>4
      <3>2. step[k + 1] = rise(step[k])
        BY <2>1, <3>1
      <3> QED BY <2>3, <3>2, Zenon
    <2>5. Indexed(u, c) /\ Alike(x, u, c) /\ p < c /\ Rising(u, c, p)
          /\ (Ordered(u, c) \/ p + k <= i)
      BY <2>0, <2>2, <2>3
    <2>6. /\ Indexed(y.heap, c) /\ Alike(u, y.heap, c)
          /\ y.at \in Pos /\ y.at < c /\ Rising(y.heap, c, y.at)
          /\ (y.at < p \/ (y.at = p /\ Ordered(y.heap, c)))
          /\ (Ordered(u, c) => Ordered(y.heap, c))
          /\ y = [heap |-> y.heap, at |-> y.at]
      BY <2>4, <2>5, RiseOnce
    <2>7. Alike(x, y.heap, c)
      BY <2>5, <2>6, AlikeTwice
    <2>8. Ordered(y.heap, c) \/ y.at + (k + 1) <= i
      BY <1>2, <2>5, <2>6, PosIs
    <2> QED BY <2>4, <2>6, <2>7, <2>8
  <1> HIDE DEF T
  <1>7. \A k \in Nat : k \in T
    BY <1>5, <1>6, SetInduction
  <1>8. PICK n \in Pos : n = HeapSize - 1
    BY <1>2
  <1>9. Good(n)
    BY <1>2, <1>7, <1>8 DEF T
  <1>10. Ordered(z, c)
    <2>1. CASE step[n].at + n <= i
      <3>1. step[n].at = 0
        BY <1>2, <1>8, <1>9, <2>1
      <3> QED BY <1>1, <1>8, <1>9, <3>1 DEF Rising, Ordered
    <2> QED BY <1>1, <1>8, <1>9, <2>1
  <1> QED BY <1>1, <1>8, <1>9, <1>10

-----------------------------------------------------------------------------
(* heapify_down looks for the child to swap a node with.                   *)
LEMMA LargestIs ==
    ASSUME NEW x, NEW c, Indexed(x, c), x.count = c, NEW p \in Pos, p < c,
           NEW l, l = largest(x, p)
    PROVE  /\ l \in Pos /\ l < c
           /\ (l = p \/ (l # p /\ l > p /\ Parent(l) = p /\ above(x, l, p)))
           /\ \A i \in 1..c-1 : Parent(i) = p => Over(x, l, i)
  <1>1. \A i \in 0..c-1 : x.nodes[i].key \in Nat
    BY PosIs DEF Indexed
  <1>2. PICK ky : ky = [i \in 0..c-1 |-> x.nodes[i].key]
    OBVIOUS
  <1>3. \A i \in 0..c-1 : ky[i] = x.nodes[i].key /\ ky[i] \in Nat
    BY <1>1, <1>2
  <1>4. c \in 0..HeapSize /\ p \in Nat /\ p \in 0..c-1 /\ Pos = 0..HeapSize-1
        /\ Parent(2 * p + 1) = p /\ Parent(2 * p + 2) = p
    BY PosIs, Parents DEF Indexed
  <1>5. \A i, j \in 0..c-1 : above(x, i, j) <=> IF x.max THEN ky[i] > ky[j] ELSE ky[i] < ky[j]
    BY <1>3 DEF above
  <1>6. PICK a, b : a = 2 * p + 1 /\ b = 2 * p + 2
    OBVIOUS
  <1>7. PICK u : u = IF a < c /\ above(x, a, p) THEN a ELSE p
    OBVIOUS
  <1>8. l = IF b < c /\ above(x, b, u) THEN b ELSE u
    <2>1. 2 * p + 1 + 1 = b
      BY <1>4, <1>6
    <2> QED BY <1>6, <1>7, <2>1 DEF largest
  <1>9. a \in Nat /\ b \in Nat /\ a > p /\ b > p /\ a # b /\ Parent(a) = p /\ Parent(b) = p
        /\ (a < c => a \in 0..c-1 /\ a \in Pos) /\ (b < c => b \in 0..c-1 /\ b \in Pos)
    <2>1. Parent(a) = p /\ Parent(b) = p
      BY <1>4, <1>6, Zenon
    <2>2. a \in Nat /\ b \in Nat /\ a > p /\ b > p /\ a # b
      BY <1>4, <1>6
    <2>3. HeapSize \in Nat /\ c \in Nat /\ c <= HeapSize
      BY <1>4, PosIs
    <2>4. (a < c => a \in 0..c-1 /\ a \in Pos) /\ (b < c => b \in 0..c-1 /\ b \in Pos)
      BY <1>4, <2>2, <2>3
    <2> QED BY <2>1, <2>2, <2>4
  <1>10. u \in 0..c-1 /\ l \in 0..c-1
    BY <1>4, <1>7, <1>8, <1>9
  <1>11. l = p \/ (l # p /\ l > p /\ Parent(l) = p /\ above(x, l, p))
    <2>1. u = p \/ (u = a /\ a < c /\ above(x, a, p))
      BY <1>7
    <2>2. CASE l = u
      BY <1>9, <2>1, <2>2
    <2>3. CASE l # u
      <3>1. l = b /\ b < c /\ above(x, b, u)
        BY <1>8, <2>3
      <3>2. ASSUME u = a, a < c, above(x, a, p) PROVE above(x, b, p)
        <4>1. b \in 0..c-1 /\ a \in 0..c-1 /\ p \in 0..c-1 /\ above(x, b, a)
          BY <1>4, <1>9, <3>1, <3>2
        <4>2. ky[a] \in Nat /\ ky[b] \in Nat /\ ky[p] \in Nat
          BY <1>3, <4>1
        <4>3. IF x.max THEN ky[b] > ky[a] /\ ky[a] > ky[p] ELSE ky[b] < ky[a] /\ ky[a] < ky[p]
          BY <1>5, <3>2, <4>1
        <4>4. IF x.max THEN ky[b] > ky[p] ELSE ky[b] < ky[p]
          BY <4>2, <4>3
        <4> QED BY <1>5, <4>1, <4>4
      <3>3. above(x, b, p)
        BY <2>1, <3>1, <3>2
      <3> QED BY <1>9, <3>1, <3>3
    <2> QED BY <2>2, <2>3
  <1>12. ASSUME NEW i \in 1..c-1, Parent(i) = p PROVE Over(x, l, i)
    <2>1. i = a \/ i = b
      <3>1. i \in Nat \ {0}
        BY <1>4
      <3>2. i = 2 * Parent(i) + 1 \/ i = 2 * Parent(i) + 2
        BY <3>1, Parents
      <3> QED BY <1>6, <1>12, <3>2
    <2>2. i \in 0..c-1 /\ i < c
      BY <1>4
    <2>3. ~above(x, i, l)
      BY <1>3, <1>4, <1>5, <1>7, <1>8, <1>9, <1>10, <2>1, <2>2
    <2> QED BY <2>3 DEF Over
  <1>13. l \in Pos /\ l < c
    <2>1. HeapSize \in Nat /\ c \in Nat /\ c <= HeapSize
      BY <1>4, PosIs
    <2> QED BY <1>4, <1>10, <2>1
  <1> QED BY <1>11, <1>12, <1>13

(* One call of heapify_down.                                               *)
LEMMA SinkOnce ==
    ASSUME NEW x, NEW c, NEW p \in Pos, Indexed(x, c), x.count = c, p < c \/ c = 0,
           Ordered(x, c) \/ Sinking(x, c, p),
           NEW z, z = sink([heap |-> x, at |-> p])
    PROVE  /\ Indexed(z.heap, c) /\ Alike(x, z.heap, c)
           /\ z.at \in Pos /\ (z.at < c \/ c = 0)
           /\ (Ordered(z.heap, c) \/ (Sinking(z.heap, c, z.at) /\ z.at > p))
           /\ (Ordered(x, c) => Ordered(z.heap, c))
           /\ z = [heap |-> z.heap, at |-> z.at]
  <1>1. PICK l : l = largest(x, p)
    OBVIOUS
  <1>2. z = IF l # p THEN [heap |-> swap_nodes(x, p, l), at |-> l] ELSE [heap |-> x, at |-> p]
    BY <1>1 DEF sink
  <1>3. /\ c \in 0..HeapSize /\ p \in Nat
        /\ \A i \in 1..c-1 : i \in 0..c-1 /\ Parent(i) \in 0..c-1 /\ Parent(i) < i /\ i # 0
    <2>1. c \in 0..HeapSize /\ p \in Nat
      BY PosIs DEF Indexed
    <2>4. ASSUME NEW i \in 1..c-1
          PROVE  i \in 0..c-1 /\ Parent(i) \in 0..c-1 /\ Parent(i) < i /\ i # 0
      <3>1. i \in Nat \ {0} /\ i <= c - 1
        BY <2>1
      <3>2. Parent(i) \in Nat /\ Parent(i) < i
        BY <3>1, Parents
      <3> QED BY <2>1, <3>1, <3>2
    <2> QED BY <2>1, <2>4
  <1>4. CASE c = 0
    <2>1. l = p
      BY <1>1, <1>3, <1>4 DEF largest
    <2>2. z = [heap |-> x, at |-> p]
      BY <1>2, <2>1
    <2>3. z.heap = x /\ z.at = p
      BY <2>2
    <2>4. Ordered(x, c)
      BY <1>4 DEF Ordered
    <2> QED BY <1>4, <2>2, <2>3, <2>4, AlikeSelf
  <1>5. CASE c # 0 /\ l = p
    <2>1. z = [heap |-> x, at |-> p]
      BY <1>2, <1>5
    <2>2. z.heap = x /\ z.at = p
      BY <2>1
    <2>3. ASSUME Sinking(x, c, p), NEW i \in 1..c-1 PROVE Over(x, Parent(i), i)
      <3>1. CASE Parent(i) = p
        <4>1. Over(x, l, i)
          BY <1>1, <1>5, <3>1, LargestIs
        <4> QED BY <1>5, <3>1, <4>1
      <3>2. CASE Parent(i) # p
        BY <2>3, <3>2 DEF Sinking
      <3> QED BY <3>1, <3>2
    <2>4. Ordered(x, c)
      BY <2>3 DEF Ordered
    <2> QED BY <1>5, <2>1, <2>2, <2>4, AlikeSelf
  <1>6. CASE c # 0 /\ l # p
    <2>1. PICK y : y = swap_nodes(x, p, l)
      OBVIOUS
    <2>2. z = [heap |-> y, at |-> l] /\ z.heap = y /\ z.at = l
      BY <1>2, <1>6, <2>1
    <2>3. /\ l \in Pos /\ l < c /\ p < c /\ l > p /\ Parent(l) = p /\ above(x, l, p)
          /\ \A i \in 1..c-1 : Parent(i) = p => Over(x, l, i)
      BY <1>1, <1>6, LargestIs
    <2>4. p \in 0..c-1 /\ l \in 1..c-1 /\ l \in 0..c-1
      BY <1>3, <2>3, PosIs
    <2>5. Indexed(y, c) /\ Alike(x, y, c)
      BY <2>1, <2>3, Swapped
    <2>6. /\ \A i, j \in 0..c-1 : Over(y, i, j) <=> Over(x, Other(p, l, i), Other(p, l, j))
          /\ \A i \in 0..c-1 : Other(p, l, i) \in 0..c-1
      BY <2>1, <2>3, SwapOrder
    <2>7. Over(x, l, p)
      BY <2>3, <2>4, OverIs
    <2>8. ~Ordered(x, c)
      BY <2>3, <2>4 DEF Ordered, Over
    <2>9. Sinking(x, c, p)
      BY <2>8
    <2>10. ASSUME NEW i \in 1..c-1, Parent(i) # l PROVE Over(y, Parent(i), i)
      <3>1. CASE i = l
        <4>1. Other(p, l, Parent(i)) = l /\ Other(p, l, i) = p
          BY <1>6, <2>3, <3>1 DEF Other
        <4> QED BY <1>3, <2>6, <2>7, <4>1
      <3>2. CASE i # l /\ Parent(i) = p
        <4>1. Other(p, l, Parent(i)) = l /\ Other(p, l, i) = i
          BY <1>3, <3>2 DEF Other
        <4> QED BY <1>3, <2>3, <2>6, <3>2, <4>1
      <3>3. CASE i = p
        <4>1. p # 0 /\ Parent(p) \in 0..c-1 /\ Parent(p) # p /\ Parent(p) # l
          BY <1>3, <2>10, <3>3
        <4>2. Other(p, l, Parent(i)) = Parent(p) /\ Other(p, l, i) = l
          BY <3>3, <4>1 DEF Other
        <4>3. Over(x, Parent(p), l)
          BY <2>3, <2>4, <2>9, <4>1 DEF Sinking
        <4> QED BY <1>3, <2>6, <4>2, <4>3
      <3>4. CASE i # l /\ i # p /\ Parent(i) # p
        <4>1. Other(p, l, Parent(i)) = Parent(i) /\ Other(p, l, i) = i
          BY <2>10, <3>4 DEF Other
        <4>2. Over(x, Parent(i), i)
          BY <2>9, <3>4 DEF Sinking
        <4> QED BY <1>3, <2>6, <4>1, <4>2
      <3> QED BY <3>1, <3>2, <3>3, <3>4
    <2>11. ASSUME NEW i \in 1..c-1, Parent(i) = l PROVE Over(y, Parent(l), i)
      <3>1. i > l /\ i # p /\ i # l
        BY <1>3, <2>3, <2>11
      <3>2. Other(p, l, p) = l /\ Other(p, l, i) = i
        BY <3>1 DEF Other
      <3>3. Over(x, l, i)
        BY <1>6, <2>9, <2>11 DEF Sinking
      <3> QED BY <1>3, <2>3, <2>4, <2>6, <3>2, <3>3
    <2>12. Sinking(y, c, l)
      BY <2>10, <2>11 DEF Sinking
    <2>13. z.at \in Pos /\ z.at < c /\ z.at > p /\ Sinking(z.heap, c, z.at)
      BY <2>2, <2>3, <2>12
    <2> QED BY <2>2, <2>5, <2>8, <2>13
  <1> QED BY <1>4, <1>5, <1>6

Sinks(g, x, i, n) == g = [k \in 0..n |-> IF k = 0 THEN [heap |-> x, at |-> i] ELSE sink(g[k-1])]

(* The same of heapify_down.                                               *)
LEMMA SinksAre ==
    ASSUME NEW x, NEW i
    PROVE  \A n \in Nat : \E g : Sinks(g, x, i, n)
  <1> DEFINE s == [heap |-> x, at |-> i]
             Is(g, n) == g = [k \in 0..n |-> IF k = 0 THEN s ELSE sink(g[k-1])]
             T == {n \in Nat : \E g : Is(g, n)}
  <1>1. 0 \in T
    <2>1. PICK g : g = [k \in 0..0 |-> s]
      OBVIOUS
    <2>2. \A k \in 0..0 : k = 0
      OBVIOUS
    <2>3. Is(g, 0)
      BY <2>1, <2>2
    <2> QED BY <2>3
  <1>2. ASSUME NEW n \in Nat, n \in T PROVE n + 1 \in T
    <2>1. PICK g : Is(g, n)
      BY <1>2
    <2>2. PICK u : u = sink(g[n])
      OBVIOUS
    <2>3. PICK f : f = [k \in 0..n+1 |-> IF k = n + 1 THEN u ELSE g[k]]
      OBVIOUS
    <2>4. ASSUME NEW k \in 0..n+1 PROVE f[k] = IF k = 0 THEN s ELSE sink(f[k-1])
      <3>1. CASE k = n + 1
        <4>1. k - 1 = n /\ n \in 0..n+1 /\ n # n + 1 /\ k # 0
          BY <3>1
        <4> QED BY <2>2, <2>3, <3>1, <4>1
      <3>2. CASE k # n + 1
        <4>1. k \in 0..n /\ f[k] = g[k]
          BY <2>3, <3>2
        <4>2. k # 0 => k - 1 \in 0..n+1 /\ k - 1 # n + 1
          BY <3>2
        <4>3. g[k] = IF k = 0 THEN s ELSE sink(g[k-1])
          BY <2>1, <4>1
        <4> QED BY <2>3, <4>1, <4>2, <4>3
      <3> QED BY <3>1, <3>2
    <2>5. Is(f, n + 1)
      BY <2>3, <2>4
    <2> QED BY <2>5
  <1> HIDE DEF T
  <1>3. \A n \in Nat : n \in T
    BY <1>1, <1>2, SetInduction
  <1>4. ASSUME NEW n \in Nat PROVE \E g : Sinks(g, x, i, n)
    <2>1. PICK g : Is(g, n)
      BY <1>3 DEF T
    <2> QED BY <2>1 DEF Sinks
  <1> QED BY <1>4

(* A node that may belong further down gets there in HeapSize - 1 calls.   *)
LEMMA HeapifyDown ==
    ASSUME NEW x, NEW c, NEW i \in Pos, Indexed(x, c), x.count = c, i < c \/ c = 0,
           Ordered(x, c) \/ Sinking(x, c, i),
           NEW z, z = heapify_down(x, i)
    PROVE  Indexed(z, c) /\ Alike(x, z, c) /\ Ordered(z, c)
  <1> DEFINE step == CHOOSE g : g = [k \in Pos |-> IF k = 0 THEN [heap |-> x, at |-> i]
                                                   ELSE sink(g[k-1])]
  <1>1. z = step[HeapSize-1].heap
    BY DEF heapify_down
  <1>2. HeapSize - 1 \in Nat /\ Pos = 0..HeapSize-1 /\ i \in 0..HeapSize-1
    BY PosIs
  <1>3. step = [k \in Pos |-> IF k = 0 THEN [heap |-> x, at |-> i] ELSE sink(step[k-1])]
    <2>1. PICK n \in Nat : n = HeapSize - 1
      BY <1>2
    <2>2. PICK g : Sinks(g, x, i, n)
      BY SinksAre
    <2>3. g = [k \in Pos |-> IF k = 0 THEN [heap |-> x, at |-> i] ELSE sink(g[k-1])]
      BY <1>2, <2>1, <2>2 DEF Sinks
    <2> QED BY <2>3
  <1> HIDE DEF step
  <1>4. \A k \in Pos : step[k] = IF k = 0 THEN [heap |-> x, at |-> i] ELSE sink(step[k-1])
    BY <1>3
  <1> DEFINE Good(k) == /\ Indexed(step[k].heap, c) /\ Alike(x, step[k].heap, c)
                        /\ step[k].at \in Pos /\ (step[k].at < c \/ c = 0)
                        /\ (Ordered(step[k].heap, c)
                             \/ (Sinking(step[k].heap, c, step[k].at) /\ step[k].at >= i + k))
                        /\ step[k] = [heap |-> step[k].heap, at |-> step[k].at]
             T == {k \in Nat : k \in Pos => Good(k)}
  <1>5. 0 \in T
    <2>1. step[0] = [heap |-> x, at |-> i]
      BY <1>2, <1>4
    <2>2. step[0].heap = x /\ step[0].at = i /\ i >= i + 0
      BY <1>2, <2>1
    <2>3. Good(0)
      BY <2>1, <2>2, AlikeSelf
    <2> QED BY <2>3
  <1>6. ASSUME NEW k \in Nat, k \in T PROVE k + 1 \in T
    <2> SUFFICES ASSUME k + 1 \in Pos PROVE Good(k + 1)
      OBVIOUS
    <2>1. k \in Pos /\ k + 1 # 0 /\ k + 1 - 1 = k
      BY <1>2
    <2>2. Good(k)
      BY <1>6, <2>1
    <2>0. PICK u : u = step[k].heap
      OBVIOUS
    <2>3. PICK p \in Pos : p = step[k].at /\ step[k] = [heap |-> u, at |-> p]
      BY <2>0, <2>2
    <2>4. PICK y : y = step[k + 1] /\ y = sink([heap |-> u, at |-> p])
      <3>1. step[k + 1] = IF k + 1 = 0 THEN [heap |-> x, at |-> i] ELSE sink(step[k + 1 - 1])
        BY <1>4
      <3>2. step[k + 1] = sink(step[k])
        BY <2>1, <3>1
      <3> QED BY <2>3, <3>2, Zenon
    <2>5. /\ Indexed(u, c) /\ Alike(x, u, c) /\ (p < c \/ c = 0) /\ u.count = c
          /\ (Ordered(u, c) \/ (Sinking(u, c, p) /\ p >= i + k))
      BY <2>0, <2>2, <2>3 DEF Alike
    <2>6. /\ Indexed(y.heap, c) /\ Alike(u, y.heap, c)
          /\ y.at \in Pos /\ (y.at < c \/ c = 0)
          /\ (Ordered(y.heap, c) \/ (Sinking(y.heap, c, y.at) /\ y.at > p))
          /\ (Ordered(u, c) => Ordered(y.heap, c))
          /\ y = [heap |-> y.heap, at |-> y.at]
      BY <2>4, <2>5, SinkOnce
    <2>7. Alike(x, y.heap, c)
      BY <2>5, <2>6, AlikeTwice
    <2>8. Ordered(y.heap, c) \/ (Sinking(y.heap, c, y.at) /\ y.at >= i + (k + 1))
      <3>1. p \in Nat /\ y.at \in Nat /\ i \in Nat
        BY <2>6, PosIs
      <3>2. p >= i + k /\ y.at > p => y.at >= i + (k + 1)
        BY <3>1
      <3> QED BY <2>5, <2>6, <3>2
    <2> QED BY <2>4, <2>6, <2>7, <2>8
  <1> HIDE DEF T
  <1>7. \A k \in Nat : k \in T
    BY <1>5, <1>6, SetInduction
  <1>8. PICK n \in Pos : n = HeapSize - 1
    BY <1>2
  <1>9. Good(n)
    BY <1>2, <1>7, <1>8 DEF T
  <1>10. Ordered(z, c)
    <2>1. CASE Sinking(step[n].heap, c, step[n].at) /\ step[n].at >= i + n
      <3>0. c \in 0..HeapSize /\ step[n].at \in Pos
        BY <1>9 DEF Indexed
      <3>1. c \in 0..HeapSize /\ step[n].at >= HeapSize - 1 /\ step[n].at \in Nat
        <4>1. step[n].at \in Nat /\ i \in Nat /\ HeapSize - 1 \in Nat
          BY <1>2, <3>0, PosIs
        <4> QED BY <1>8, <2>1, <3>0, <4>1
      <3>2. ASSUME NEW k \in 1..c-1 PROVE Parent(k) # step[n].at
        <4>1. k \in Nat \ {0} /\ Parent(k) \in Nat /\ Parent(k) < k /\ k <= HeapSize - 1
          <5>1. HeapSize \in Nat /\ c \in Nat /\ c <= HeapSize
            BY <3>1, PosIs
          <5>2. k \in Nat \ {0} /\ k <= HeapSize - 1
            BY <5>1
          <5> QED BY <5>2, Parents
        <4> QED BY <1>2, <3>1, <4>1
      <3> QED BY <1>1, <1>8, <2>1, <3>2 DEF Sinking, Ordered
    <2> QED BY <1>1, <1>8, <1>9, <2>1
  <1> QED BY <1>1, <1>8, <1>9, <1>10

-----------------------------------------------------------------------------
(* What is seen of the heap.                                               *)
ElemAt(x, c, k) == IF x.indexes[k] < c
                   THEN [key |-> x.nodes[x.indexes[k]].key, value |-> x.nodes[x.indexes[k]].value]
                   ELSE NoNode
ElementsOf(x) == [k \in Pos |-> ElemAt(x, x.count, k)]

(* The elements of the state are those of its heap.                        *)
LEMMA ElementsAre == Elements = ElementsOf(heap) /\ Elements' = ElementsOf(heap')
  <1>1. Elements = ElementsOf(heap)
    BY DEF Elements, ElementsOf, ElemAt
  <1>2. Elements' = ElementsOf(heap')
    BY DEF Elements, ElementsOf, ElemAt, Pos
  <1> QED BY <1>1, <1>2

(* Handlers have the same elements in heaps that are alike.                *)
LEMMA AlikeElem ==
    ASSUME NEW x, NEW y, NEW c, Alike(x, y, c), NEW k \in Pos
    PROVE  ElemAt(y, c, k) = ElemAt(x, c, k)
  BY DEF Alike, ElemAt

(* A handler has an element when its node is one of the first c ones.      *)
LEMMA ElemIs ==
    ASSUME NEW x, NEW c, Indexed(x, c), NEW k \in Pos
    PROVE  /\ x.indexes[k] < c =>
                 /\ ElemAt(x, c, k) = [key |-> x.nodes[x.indexes[k]].key,
                                       value |-> x.nodes[x.indexes[k]].value]
                 /\ ElemAt(x, c, k).key = x.nodes[x.indexes[k]].key
                 /\ ElemAt(x, c, k).value = x.nodes[x.indexes[k]].value
                 /\ x.nodes[x.indexes[k]].key \in Nat
           /\ ~(x.indexes[k] < c) => ElemAt(x, c, k) = NoNode
           /\ x.indexes[k] < c <=> ElemAt(x, c, k) # NoNode
           /\ x.indexes[k] \in Pos
  <1>1. PICK i \in Pos : i = x.indexes[k]
    BY DEF Indexed
  <1>2. CASE i < c
    <2>1. PICK ky \in HeapKeys, v \in HeapValues : ky = x.nodes[i].key /\ v = x.nodes[i].value
      BY <1>1, <1>2 DEF Indexed
    <2>2. PICK r : r = [key |-> ky, value |-> v]
      OBVIOUS
    <2>3. r \in [key : HeapKeys, value : HeapValues] /\ r.key = ky /\ r.value = v
      BY <2>2
    <2>4. r # NoNode /\ ky \in Nat
      BY <2>3, PosIs
    <2>5. ElemAt(x, c, k) = r
      BY <1>1, <1>2, <2>1, <2>2 DEF ElemAt
    <2> QED BY <1>1, <1>2, <2>1, <2>2, <2>3, <2>4, <2>5
  <1>3. CASE ~(i < c)
    BY <1>1, <1>3 DEF ElemAt
  <1> QED BY <1>1, <1>2, <1>3

(* The root is over all nodes.                                             *)
LEMMA RootIsOver ==
    ASSUME NEW x, NEW c, Indexed(x, c), Ordered(x, c)
    PROVE  \A i \in 0..c-1 : Over(x, 0, i)
  <1> DEFINE T == {n \in Nat : \A i \in 0..c-1 : i <= n => Over(x, 0, i)}
  <1>1. c \in Nat /\ \A i, j, k \in 0..c-1 : Over(x, i, j) /\ Over(x, j, k) => Over(x, i, k)
    <2>1. c \in Nat
      BY PosIs DEF Indexed
    <2>2. \A i, j, k \in 0..c-1 : Over(x, i, j) /\ Over(x, j, k) => Over(x, i, k)
      BY OverIs
    <2> QED BY <2>1, <2>2
  <1>2. 0 \in T
    <2>1. \A i \in 0..c-1 : i <= 0 => i = 0
      OBVIOUS
    <2> QED BY <2>1, OverIs
  <1>3. ASSUME NEW n \in Nat, n \in T PROVE n + 1 \in T
    <2> SUFFICES ASSUME NEW i \in 0..c-1, i <= n + 1 PROVE Over(x, 0, i)
      OBVIOUS
    <2>1. CASE i <= n
      BY <1>3, <2>1
    <2>2. CASE i = n + 1
      <3>1. i \in Nat \ {0} /\ i \in 1..c-1 /\ 0 \in 0..c-1
        BY <1>1, <2>2
      <3>2. Parent(i) \in Nat /\ Parent(i) < i
        BY <3>1, Parents
      <3>3. Parent(i) \in 0..c-1 /\ Parent(i) <= n
        BY <1>1, <2>2, <3>2
      <3>4. Over(x, 0, Parent(i)) /\ Over(x, Parent(i), i)
        BY <1>3, <3>1, <3>3 DEF Ordered
      <3> QED BY <1>1, <3>1, <3>3, <3>4
    <2> QED BY <2>1, <2>2
  <1> HIDE DEF T
  <1>4. \A n \in Nat : n \in T
    BY <1>2, <1>3, SetInduction
  <1>5. ASSUME NEW i \in 0..c-1 PROVE Over(x, 0, i)
    <2>1. i \in Nat /\ i <= i
      BY <1>1
    <2> QED BY <1>4, <2>1 DEF T
  <1> QED BY <1>5

-----------------------------------------------------------------------------
(* The heap implements the priority queue.                                 *)
HeapInv == Indexed(heap, heap.count) /\ Ordered(heap, heap.count)

(* The handlers of the abstract queue that have an element are those held. *)
LEMMA LiveAre ==
    ASSUME HeapInv
    PROVE  /\ \A k \in Pos : k \in HeapQueue!Live <=> heap.indexes[k] < heap.count
           /\ \A k \in Pos : Elements[k] = ElemAt(heap, heap.count, k)
           /\ HeapQueue!Live \subseteq Pos
  <1>1. \A k \in Pos : Elements[k] = ElemAt(heap, heap.count, k)
    BY ElementsAre DEF ElementsOf
  <1>2. ASSUME NEW k \in Pos PROVE heap.indexes[k] < heap.count <=> Elements[k] # NoNode
    BY <1>1, ElemIs DEF HeapInv
  <1> QED BY <1>1, <1>2 DEF HeapQueue!Live

(* The element of the root comes before every other one.                   *)
LEMMA RootIsExtreme ==
    ASSUME HeapInv, heap.count # 0
    PROVE  /\ heap.nodes[0].h \in Pos /\ HeapQueue!Extreme(heap.nodes[0].h)
           /\ Elements[heap.nodes[0].h].value = heap.nodes[0].value
  <1>1. Indexed(heap, heap.count) /\ Ordered(heap, heap.count)
    BY DEF HeapInv
  <1>2. PICK c \in Nat : c = heap.count /\ 0 < c /\ 0 \in Pos
    BY <1>1, PosIs DEF Indexed
  <1>3. PICK h \in Pos : h = heap.nodes[0].h /\ heap.indexes[h] = 0
    BY <1>1, <1>2 DEF Indexed, NodeRec
  <1>4. \A i \in 0..c-1 : Over(heap, 0, i)
    BY <1>1, <1>2, RootIsOver
  <1>5. /\ Elements[h].key = heap.nodes[0].key /\ Elements[h].value = heap.nodes[0].value
        /\ heap.nodes[0].key \in Nat
    BY <1>1, <1>2, <1>3, LiveAre, ElemIs
  <1>6. ASSUME NEW k \in HeapQueue!Live PROVE HeapQueue!Before(Elements[h].key, Elements[k].key)
    <2>1. k \in Pos /\ heap.indexes[k] < c
      BY <1>2, <1>6, LiveAre
    <2>2. PICK i \in Pos : i = heap.indexes[k] /\ i \in 0..c-1
      <3>1. heap.indexes[k] \in Pos
        BY <1>1, <2>1 DEF Indexed
      <3> QED BY <1>2, <2>1, <3>1, PosIs
    <2>3. Elements[k].key = heap.nodes[i].key /\ heap.nodes[i].key \in Nat
      BY <1>1, <1>2, <2>1, <2>2, LiveAre, ElemIs
    <2>4. ~above(heap, i, 0)
      BY <1>4, <2>2 DEF Over
    <2> QED BY <1>5, <2>3, <2>4 DEF above, HeapQueue!Before
  <1>7. h \in HeapQueue!Live
    BY <1>2, <1>3, LiveAre
  <1> QED BY <1>3, <1>5, <1>6, <1>7 DEF HeapQueue!Extreme

(* A heap that is only looked at.                                          *)
LEMMA HeapStays ==
    ASSUME HeapInv, heap' = heap
    PROVE  HeapInv' /\ Elements' = Elements /\ heap.max' = heap.max
  BY ElementsAre DEF HeapInv

(* A node gets another key and keeps its value and its handler.            *)
LEMMA SetKey ==
    ASSUME NEW nd \in [Pos -> NodeRec], NEW i \in Pos, NEW k \in HeapKeys,
           NEW y, y = [nd EXCEPT ![i].key = k]
    PROVE  y = [nd EXCEPT ![i] = [key |-> k, value |-> nd[i].value, h |-> nd[i].h]]
           /\ y \in [Pos -> NodeRec]
  <1>1. PICK r \in NodeRec : r = nd[i]
    OBVIOUS
  <1>2. r = [key |-> r.key, value |-> r.value, h |-> r.h]
        /\ r.value \in HeapValues \cup {NoNode} /\ r.h \in Pos
    BY DEF NodeRec
  <1>3. PICK s : s = [r EXCEPT !.key = k]
    OBVIOUS
  <1>4. s = [key |-> k, value |-> r.value, h |-> r.h]
    BY <1>2, <1>3
  <1>5. s \in NodeRec
    BY <1>2, <1>4 DEF NodeRec
  <1>6. y = [nd EXCEPT ![i] = s]
    BY <1>1, <1>3
  <1> QED BY <1>1, <1>4, <1>5, <1>6

WithValue(nd, i, v) == [nd EXCEPT ![i].value = v]

(* The same for the value.                                                 *)
LEMMA SetValue ==
    ASSUME NEW nd \in [Pos -> NodeRec], NEW i \in Pos, NEW v \in HeapValues,
           NEW y, y = WithValue(nd, i, v)
    PROVE  y = [nd EXCEPT ![i] = [key |-> nd[i].key, value |-> v, h |-> nd[i].h]]
  <1>1. PICK r \in NodeRec : r = nd[i]
    OBVIOUS
  <1>2. r = [key |-> r.key, value |-> r.value, h |-> r.h]
    BY DEF NodeRec
  <1>3. PICK s : s = [r EXCEPT !.value = v]
    OBVIOUS
  <1>4. s = [key |-> r.key, value |-> v, h |-> r.h]
    BY <1>2, <1>3
  <1>5. y = [nd EXCEPT ![i] = s]
    BY <1>1, <1>3 DEF WithValue
  <1> QED BY <1>1, <1>4, <1>5

(* Each operation is a step of the priority queue.  Inserting:             *)
LEMMA InsertStep ==
    ASSUME HeapInv, NEW key \in HeapKeys, NEW value \in HeapValues, xbinheap_insert(key, value)
    PROVE  HeapInv' /\ HeapQueue!Insert(key, value) /\ heap.max' = heap.max
  <1>1. Indexed(heap, heap.count) /\ Ordered(heap, heap.count)
    BY DEF HeapInv
  <1>2. PICK c \in 0..HeapSize : c = heap.count
    BY <1>1 DEF Indexed
  <1>3. HeapSize \in Nat /\ c \in Nat /\ Pos = 0..HeapSize-1
    BY <1>2, PosIs
  <1>4. CASE c + 1 > HeapSize
    <2>1. bret' = NoNode /\ heap' = heap
      <3>1. ~(heap.count + 1 <= HeapSize)
        BY <1>2, <1>3, <1>4
      <3> QED BY <3>1 DEF xbinheap_insert
    <2>2. ASSUME NEW k \in Pos PROVE k \in HeapQueue!Live
      <3>1. heap.indexes[k] \in Pos
        BY <1>1 DEF Indexed
      <3>2. heap.indexes[k] < heap.count
        BY <1>2, <1>3, <1>4, <3>1
      <3> QED BY <3>2, LiveAre
    <2>3. HeapQueue!Live = Pos
      BY <2>2, LiveAre
    <2>4. HeapQueue!Insert(key, value)
      BY <2>1, <2>3, HeapStays DEF HeapQueue!Insert
    <2> QED BY <2>1, <2>4, HeapStays
  <1>5. CASE ~(c + 1 > HeapSize)
    <2>1. c \in Pos /\ c < c + 1 /\ c + 1 \in 0..HeapSize
      BY <1>3, <1>5
    <2>2. PICK h \in Pos : h = heap.nodes[c].h /\ heap.indexes[h] = c /\ heap.nodes[c].h \in Pos
      BY <1>1, <2>1 DEF Indexed, NodeRec
    <2>3. PICK x : x = [heap EXCEPT !.nodes[heap.count].key = key, !.nodes[heap.count].value = value]
      OBVIOUS
    <2>4. PICK y : y = heapify_up(x, c)
      OBVIOUS
    <2>5. bret' = h /\ heap' = [y EXCEPT !.count = @ + 1]
      BY <1>2, <1>5, <2>2, <2>3, <2>4 DEF xbinheap_insert
    <2>6. /\ x.count = c /\ x.max = heap.max /\ x.indexes = heap.indexes
          /\ x.nodes = [heap.nodes EXCEPT ![c] = [key |-> key, value |-> value, h |-> h]]
          /\ x = [count |-> x.count, max |-> x.max, nodes |-> x.nodes, indexes |-> x.indexes]
      <3>1. PICK nd, ix, mx :
              nd \in [Pos -> NodeRec] /\ heap = [count |-> c, max |-> mx, nodes |-> nd, indexes |-> ix]
        BY <1>1, <1>2 DEF Indexed
      <3>2. heap.nodes = nd /\ heap.count = c /\ heap.max = mx /\ heap.indexes = ix
        BY <3>1
      <3>3. nd[c].h = h
        BY <2>1, <2>2, <3>2
      <3>4. PICK n1 : n1 = [nd EXCEPT ![c].key = key]
        OBVIOUS
      <3>5. n1 = [nd EXCEPT ![c] = [key |-> key, value |-> nd[c].value, h |-> h]]
            /\ n1 \in [Pos -> NodeRec]
        BY <2>1, <3>1, <3>3, <3>4, SetKey
      <3>6. PICK n2 : n2 = [n1 EXCEPT ![c].value = value]
        OBVIOUS
      <3>7. n2 = [nd EXCEPT ![c] = [key |-> key, value |-> value, h |-> h]]
        <4>1. n2 = [n1 EXCEPT ![c] = [key |-> n1[c].key, value |-> value, h |-> n1[c].h]]
          <5>1. n1 \in [Pos -> NodeRec]
            BY <3>5
          <5>2. c \in Pos
            BY <2>1
          <5>3. PICK v \in HeapValues : v = value
            OBVIOUS
          <5>4. PICK u \in [Pos -> NodeRec] : u = n1
            BY <5>1
          <5>5. n2 = WithValue(u, c, v)
            BY <3>6, <5>3, <5>4 DEF WithValue
          <5>6. n2 = [u EXCEPT ![c] = [key |-> u[c].key, value |-> v, h |-> u[c].h]]
            BY <5>2, <5>5, SetValue
          <5> QED BY <5>3, <5>4, <5>6
        <4>2. n1[c].key = key /\ n1[c].h = h
          BY <2>1, <3>1, <3>5
        <4> QED BY <2>1, <3>1, <3>5, <4>1, <4>2
      <3>8. PICK x1 : x1 = [heap EXCEPT !.nodes[c].key = key]
        OBVIOUS
      <3>9. x1 = [count |-> c, max |-> mx, nodes |-> n1, indexes |-> ix]
        BY <3>1, <3>4, <3>8
      <3>10. x = [x1 EXCEPT !.nodes[c].value = value]
        BY <2>3, <3>2, <3>8
      <3>11. x = [count |-> c, max |-> mx, nodes |-> n2, indexes |-> ix]
        BY <3>6, <3>9, <3>10
      <3> QED BY <3>2, <3>7, <3>11
    <2>7. /\ \A i \in Pos : x.nodes[i] = IF i = c THEN [key |-> key, value |-> value, h |-> h]
                                         ELSE heap.nodes[i]
          /\ x.nodes \in [Pos -> NodeRec]
      BY <1>1, <2>1, <2>6 DEF Indexed, NodeRec
    <2>8. Indexed(x, c + 1)
      <3>1. \A i \in Pos : x.nodes[i].h = heap.nodes[i].h
        BY <2>2, <2>7
      <3>2. \A i \in Pos : x.indexes[x.nodes[i].h] = i
        BY <1>1, <2>6, <3>1 DEF Indexed
      <3>3. \A k \in Pos : x.nodes[x.indexes[k]].h = k
        BY <1>1, <2>6, <3>1 DEF Indexed
      <3>4. ASSUME NEW i \in Pos, i < c + 1
            PROVE  x.nodes[i].key \in HeapKeys /\ x.nodes[i].value \in HeapValues
        <4>1. CASE i = c
          BY <2>7, <4>1
        <4>2. CASE i # c
          <5>1. i < c
            BY <1>3, <3>4, <4>2
          <5> QED BY <1>1, <1>2, <2>7, <4>2, <5>1 DEF Indexed
        <4> QED BY <4>1, <4>2
      <3>5. x.indexes \in [Pos -> Pos] /\ x.max \in BOOLEAN /\ x.count \in 0..HeapSize
        BY <1>1, <1>2, <2>6 DEF Indexed
      <3> QED BY <2>1, <2>6, <2>7, <3>2, <3>3, <3>4, <3>5 DEF Indexed
    <2>9. Rising(x, c + 1, c)
      <3>1. ASSUME NEW i \in 1..c PROVE Parent(i) \in Pos /\ Parent(i) # c /\ i \in Pos
        <4>1. i \in Nat \ {0} /\ i <= c
          BY <1>3
        <4>2. Parent(i) \in Nat /\ Parent(i) < i
          BY <4>1, Parents
        <4> QED BY <1>3, <2>1, <4>1, <4>2
      <3>2. ASSUME NEW i \in 1..c, i # c PROVE Over(x, Parent(i), i)
        <4>1. i \in 1..c-1
          BY <1>3, <3>2
        <4>2. Over(heap, Parent(i), i)
          BY <1>1, <1>2, <4>1 DEF Ordered
        <4>3. x.nodes[i] = heap.nodes[i] /\ x.nodes[Parent(i)] = heap.nodes[Parent(i)]
          BY <2>7, <3>1, <3>2
        <4> QED BY <2>6, <4>2, <4>3 DEF Over, above
      <3>3. c + 1 - 1 = c
        BY <1>3
      <3> QED BY <3>1, <3>2, <3>3 DEF Rising
    <2>10. Indexed(y, c + 1) /\ Alike(x, y, c + 1) /\ Ordered(y, c + 1)
      BY <2>1, <2>4, <2>8, <2>9, HeapifyUp
    <2>11. PICK z : z = heap'
      OBVIOUS
    <2>12. /\ z.count = c + 1 /\ z.nodes = y.nodes /\ z.indexes = y.indexes /\ z.max = y.max
           /\ z = [count |-> c + 1, max |-> y.max, nodes |-> y.nodes, indexes |-> y.indexes]
           /\ z.max = heap.max
      <3>1. y = [count |-> y.count, max |-> y.max, nodes |-> y.nodes, indexes |-> y.indexes]
            /\ y.count = c /\ y.max = heap.max
        BY <2>6, <2>10 DEF Indexed, Alike
      <3>2. z = [y EXCEPT !.count = @ + 1]
        BY <2>5, <2>11
      <3> QED BY <3>1, <3>2
    <2>13. Indexed(z, c + 1) /\ Ordered(z, c + 1)
      <3>1. Indexed(z, c + 1)
        BY <2>1, <2>10, <2>12 DEF Indexed
      <3>2. Ordered(z, c + 1)
        BY <2>10, <2>12 DEF Ordered, Over, above
      <3> QED BY <3>1, <3>2
    <2>14. ASSUME NEW k \in Pos
           PROVE  Elements'[k] = IF k = h THEN [key |-> key, value |-> value] ELSE Elements[k]
      <3>1. Elements'[k] = ElemAt(z, c + 1, k)
        BY <2>11, <2>12, ElementsAre DEF ElementsOf
      <3>2. ElemAt(z, c + 1, k) = ElemAt(y, c + 1, k)
        BY <2>12 DEF ElemAt
      <3>3. ElemAt(y, c + 1, k) = ElemAt(x, c + 1, k)
        BY <2>10, AlikeElem
      <3>4. CASE k = h
        <4>1. x.indexes[k] = c /\ x.nodes[c].key = key /\ x.nodes[c].value = value
          BY <2>1, <2>2, <2>6, <2>7, <3>4
        <4> QED BY <2>1, <3>1, <3>2, <3>3, <3>4, <4>1 DEF ElemAt
      <3>5. CASE k # h
        <4>1. PICK i \in Pos : i = heap.indexes[k] /\ i # c
          BY <1>1, <2>2, <3>5 DEF Indexed
        <4>2. (i < c + 1 <=> i < c) /\ x.nodes[i] = heap.nodes[i] /\ x.indexes[k] = i
          BY <1>3, <2>6, <2>7, <4>1
        <4>3. ElemAt(x, c + 1, k) = ElemAt(heap, c, k)
          BY <4>1, <4>2 DEF ElemAt
        <4> QED BY <1>2, <3>1, <3>2, <3>3, <3>5, <4>3, LiveAre
      <3> QED BY <3>4, <3>5
    <2>15. Elements' = [Elements EXCEPT ![h] = [key |-> key, value |-> value]]
      <3>1. Elements = ElementsOf(heap) /\ Elements' = ElementsOf(heap')
        BY ElementsAre
      <3> QED BY <2>14, <3>1 DEF ElementsOf
    <2>16. h \in Pos \ HeapQueue!Live
      BY <1>2, <1>3, <2>2, LiveAre
    <2>17. HeapQueue!Insert(key, value)
      BY <2>5, <2>15, <2>16 DEF HeapQueue!Insert
    <2>18. HeapInv'
      BY <2>11, <2>12, <2>13 DEF HeapInv
    <2> QED BY <2>11, <2>12, <2>17, <2>18
  <1> QED BY <1>4, <1>5

(* Extracting: the last node takes the place of the root and sinks.        *)
LEMMA ExtractStep ==
    ASSUME HeapInv, xbinheap_extract
    PROVE  /\ HeapInv' /\ heap.max' = heap.max
           /\ (HeapQueue!Extract \/ HeapQueue!Nothing)
  <1>1. Indexed(heap, heap.count) /\ Ordered(heap, heap.count)
    BY DEF HeapInv
  <1>2. HeapSize \in Nat /\ heap.count \in 0..HeapSize /\ Pos = 0..HeapSize-1
    BY <1>1, PosIs DEF Indexed
  <1>3. CASE heap.count = 0
    <2>1. bret' = NoNode /\ heap' = heap
      BY <1>3 DEF xbinheap_extract, xbinheap_empty
    <2>2. HeapQueue!Live = {}
      <3>1. ASSUME NEW k \in Pos PROVE ~(heap.indexes[k] < heap.count)
        <4>1. heap.indexes[k] \in Pos
          BY <1>1 DEF Indexed
        <4> QED BY <1>2, <1>3, <4>1
      <3> QED BY <3>1, LiveAre
    <2>3. HeapQueue!Nothing
      BY <2>1, <2>2, HeapStays DEF HeapQueue!Nothing
    <2> QED BY <2>1, <2>3, HeapStays
  <1>4. CASE heap.count # 0
    <2>1. PICK c \in Nat : heap.count = c + 1 /\ c = heap.count - 1 /\ c < HeapSize /\ c \in Pos
                           /\ c \in 0..HeapSize /\ 0 \in Pos /\ 0 < c + 1 /\ c < c + 1
      <3>1. PICK c : c = heap.count - 1
        OBVIOUS
      <3> QED BY <1>2, <1>4, <3>1
    <2>2. PICK h \in Pos : h = heap.nodes[0].h /\ heap.indexes[h] = 0 /\ heap.nodes[0].h \in Pos
      BY <1>1, <2>1 DEF Indexed, NodeRec
    <2>3. PICK x : x = [heap EXCEPT !.count = @ - 1]
      OBVIOUS
    <2>4. PICK y : y = swap_nodes(x, 0, c)
      OBVIOUS
    <2>5. PICK z : z = heap' /\ z = heapify_down(y, 0)
      <3>1. heap' = heapify_down(swap_nodes([heap EXCEPT !.count = @ - 1], 0, heap.count - 1), 0)
        BY <1>4 DEF xbinheap_extract, xbinheap_empty
      <3> QED BY <2>1, <2>3, <2>4, <3>1
    <2>6. bret' = heap.nodes[0].value
      BY <1>4 DEF xbinheap_extract, xbinheap_empty
    <2>7. /\ x.count = c /\ x.max = heap.max /\ x.nodes = heap.nodes /\ x.indexes = heap.indexes
          /\ x = [count |-> x.count, max |-> x.max, nodes |-> x.nodes, indexes |-> x.indexes]
      <3>1. heap = [count |-> heap.count, max |-> heap.max, nodes |-> heap.nodes,
                    indexes |-> heap.indexes]
        BY <1>1 DEF Indexed
      <3>2. x = [count |-> heap.count - 1, max |-> heap.max, nodes |-> heap.nodes,
                 indexes |-> heap.indexes]
        BY <2>3, <3>1
      <3> QED BY <2>1, <3>2
    <2>8. Indexed(x, c + 1)
      BY <1>1, <1>2, <2>1, <2>7 DEF Indexed
    <2>9. /\ Indexed(y, c + 1) /\ Alike(x, y, c + 1)
          /\ \A i \in Pos : y.nodes[i] = IF i = 0 THEN x.nodes[c]
                                         ELSE IF i = c THEN x.nodes[0] ELSE x.nodes[i]
      BY <2>1, <2>4, <2>8, Swapped
    <2>10. y.count = c /\ y.max = heap.max /\ y.nodes[c] = heap.nodes[0] /\ y.indexes[h] = c
      <3>1. y.count = c /\ y.max = heap.max
        BY <2>7, <2>9 DEF Alike
      <3>2. y.nodes[c] = heap.nodes[0]
        BY <2>1, <2>7, <2>9
      <3>3. y.indexes[y.nodes[c].h] = c
        BY <2>1, <2>9 DEF Indexed
      <3> QED BY <2>2, <3>1, <3>2, <3>3
    <2>11. Indexed(y, c)
      <3>1. \A i \in Pos : i < c => i < c + 1
        BY <1>2, <2>1
      <3> QED BY <2>1, <2>9, <3>1 DEF Indexed
    <2>12. Sinking(y, c, 0)
      <3>1. ASSUME NEW i \in 1..c-1, Parent(i) # 0 PROVE Over(y, Parent(i), i)
        <4>1. i \in Nat \ {0} /\ i <= c - 1
          BY <2>1
        <4>2. Parent(i) \in Nat /\ Parent(i) < i
          BY <4>1, Parents
        <4>3. i \in Pos /\ Parent(i) \in Pos /\ i # c /\ Parent(i) # c /\ i # 0
          BY <1>2, <2>1, <4>1, <4>2
        <4>4. y.nodes[i] = heap.nodes[i] /\ y.nodes[Parent(i)] = heap.nodes[Parent(i)]
          BY <2>7, <2>9, <3>1, <4>3
        <4>5. i \in 1..c+1-1
          BY <2>1, <4>1
        <4>6. Over(heap, Parent(i), i)
          BY <1>1, <2>1, <4>5 DEF Ordered
        <4> QED BY <2>10, <4>4, <4>6 DEF Over, above
      <3> QED BY <3>1 DEF Sinking
    <2>13. Indexed(z, c) /\ Alike(y, z, c) /\ Ordered(z, c)
      <3>1. 0 < c \/ c = 0
        BY <2>1
      <3> QED BY <2>1, <2>5, <2>10, <2>11, <2>12, <3>1, HeapifyDown
    <2>14. z.count = c /\ z.max = heap.max
      BY <2>10, <2>13 DEF Alike
    <2>15. ASSUME NEW k \in Pos
           PROVE  Elements'[k] = IF k = h THEN NoNode ELSE Elements[k]
      <3>1. Elements'[k] = ElemAt(z, c, k)
        BY <2>5, <2>14, ElementsAre DEF ElementsOf
      <3>2. ElemAt(z, c, k) = ElemAt(y, c, k)
        BY <2>13, AlikeElem
      <3>3. CASE k = h
        <4>1. ~(y.indexes[k] < c)
          BY <2>1, <2>10, <3>3
        <4> QED BY <3>1, <3>2, <3>3, <4>1 DEF ElemAt
      <3>4. CASE k # h
        <4>1. PICK i \in Pos : i = y.indexes[k] /\ i # c
          BY <2>9, <2>10, <2>2, <3>4 DEF Indexed
        <4>2. i < c <=> i < c + 1
          BY <1>2, <2>1, <4>1
        <4>3. ElemAt(y, c, k) = ElemAt(y, c + 1, k)
          BY <4>1, <4>2 DEF ElemAt
        <4>4. ElemAt(y, c + 1, k) = ElemAt(x, c + 1, k)
          BY <2>9, AlikeElem
        <4>5. ElemAt(x, c + 1, k) = ElemAt(heap, c + 1, k)
          BY <2>7 DEF ElemAt
        <4>6. Elements[k] = ElemAt(heap, c + 1, k)
          BY <2>1, LiveAre
        <4> QED BY <3>1, <3>2, <3>4, <4>3, <4>4, <4>5, <4>6
      <3> QED BY <3>3, <3>4
    <2>16. Elements' = [Elements EXCEPT ![h] = NoNode]
      <3>1. Elements = ElementsOf(heap) /\ Elements' = ElementsOf(heap')
        BY ElementsAre
      <3> QED BY <2>15, <3>1 DEF ElementsOf
    <2>17. HeapQueue!Extreme(h) /\ Elements[h].value = heap.nodes[0].value
      BY <1>4, <2>2, RootIsExtreme
    <2>18. HeapQueue!Extract
      BY <2>6, <2>16, <2>17 DEF HeapQueue!Extract
    <2>19. HeapInv'
      BY <2>5, <2>13, <2>14 DEF HeapInv
    <2> QED BY <2>5, <2>14, <2>18, <2>19
  <1> QED BY <1>3, <1>4

(* A key is set and its node finds its place.                              *)
Earlier(x, k, old) == IF x.max THEN k >= old ELSE k <= old

LEMMA RekeyStep ==
    ASSUME HeapInv, NEW n \in Pos, Held(n), NEW k \in HeapKeys, UNCHANGED bret,
           NEW x, x = [heap EXCEPT !.nodes[heap.indexes[n]].key = k],
           \/ Earlier(heap, k, heap.nodes[heap.indexes[n]].key) /\ heap' = heapify_up(x, heap.indexes[n])
           \/ Earlier(heap, heap.nodes[heap.indexes[n]].key, k) /\ heap' = heapify_down(x, heap.indexes[n])
    PROVE  HeapInv' /\ HeapQueue!Rekey(n, k) /\ heap.max' = heap.max
  <1>1. Indexed(heap, heap.count) /\ Ordered(heap, heap.count)
    BY DEF HeapInv
  <1>2. PICK c \in 0..HeapSize : c = heap.count
    BY <1>1 DEF Indexed
  <1>3. HeapSize \in Nat /\ c \in Nat /\ Pos = 0..HeapSize-1 /\ HeapKeys \subseteq Nat
    BY <1>2, PosIs
  <1>4. PICK i \in Pos : i = heap.indexes[n] /\ i < c
    BY <1>1, <1>2 DEF Indexed, Held
  <1>5. /\ x.count = c /\ x.max = heap.max /\ x.indexes = heap.indexes
        /\ x.nodes = [heap.nodes EXCEPT ![i] = [key |-> k, value |-> heap.nodes[i].value,
                                                h |-> heap.nodes[i].h]]
        /\ x.nodes \in [Pos -> NodeRec]
        /\ x = [count |-> x.count, max |-> x.max, nodes |-> x.nodes, indexes |-> x.indexes]
    <2>1. PICK nd, ix, mx :
            nd \in [Pos -> NodeRec] /\ heap = [count |-> c, max |-> mx, nodes |-> nd, indexes |-> ix]
      BY <1>1, <1>2 DEF Indexed
    <2>2. heap.nodes = nd /\ heap.count = c /\ heap.max = mx /\ heap.indexes = ix
      BY <2>1
    <2>3. PICK n1 : n1 = [nd EXCEPT ![i].key = k]
      OBVIOUS
    <2>4. n1 = [nd EXCEPT ![i] = [key |-> k, value |-> nd[i].value, h |-> nd[i].h]]
          /\ n1 \in [Pos -> NodeRec]
      BY <2>1, <2>3, SetKey
    <2>5. x = [heap EXCEPT !.nodes[i].key = k]
      BY <1>4
    <2>6. x = [count |-> c, max |-> mx, nodes |-> n1, indexes |-> ix]
      BY <2>1, <2>3, <2>5
    <2>7. x.count = c /\ x.max = mx /\ x.nodes = n1 /\ x.indexes = ix
      BY <2>6
    <2>8. x = [count |-> x.count, max |-> x.max, nodes |-> x.nodes, indexes |-> x.indexes]
      BY <2>6, <2>7
    <2> QED BY <2>2, <2>4, <2>7, <2>8
  <1>6. \A j \in Pos : /\ x.nodes[j].h = heap.nodes[j].h /\ x.nodes[j].value = heap.nodes[j].value
                       /\ x.nodes[j].key = IF j = i THEN k ELSE heap.nodes[j].key
    <2>1. PICK nd \in [Pos -> NodeRec] : nd = heap.nodes
      BY <1>1 DEF Indexed
    <2>2. PICK r : r = [key |-> k, value |-> nd[i].value, h |-> nd[i].h]
      OBVIOUS
    <2>3. r.key = k /\ r.value = nd[i].value /\ r.h = nd[i].h
      BY <2>2
    <2>4. \A j \in Pos : x.nodes[j] = IF j = i THEN r ELSE nd[j]
      BY <1>5, <2>1, <2>2
    <2>5. ASSUME NEW j \in Pos
          PROVE  /\ x.nodes[j].h = nd[j].h /\ x.nodes[j].value = nd[j].value
                 /\ x.nodes[j].key = IF j = i THEN k ELSE nd[j].key
      <3>0. PICK u : u = x.nodes[j]
        OBVIOUS
      <3>1. CASE j = i
        <4>1. u = r
          BY <2>4, <3>0, <3>1
        <4>2. u.h = nd[j].h /\ u.value = nd[j].value /\ u.key = k
          BY <2>3, <3>1, <4>1
        <4> QED BY <3>0, <3>1, <4>2, Zenon
      <3>2. CASE j # i
        <4>1. u = nd[j]
          BY <2>4, <3>0, <3>2
        <4>2. (IF j = i THEN k ELSE nd[j].key) = nd[j].key
          BY <3>2
        <4>3. u.key = IF j = i THEN k ELSE nd[j].key
          BY <4>1, <4>2
        <4>4. u.h = nd[j].h /\ u.value = nd[j].value
          BY <4>1
        <4> QED BY <3>0, <4>3, <4>4, Zenon
      <3> QED BY <3>1, <3>2
    <2> QED BY <2>1, <2>5
  <1>7. Indexed(x, c)
    <2>1. \A j \in Pos : j < c => x.nodes[j].key \in HeapKeys /\ x.nodes[j].value \in HeapValues
      BY <1>1, <1>2, <1>6 DEF Indexed
    <2>2. x.indexes \in [Pos -> Pos] /\ x.max \in BOOLEAN /\ x.count \in 0..HeapSize
      BY <1>1, <1>2, <1>5 DEF Indexed
    <2>3. \A j \in Pos : x.indexes[x.nodes[j].h] = j
      BY <1>1, <1>5, <1>6 DEF Indexed
    <2>4. \A j \in Pos : x.nodes[x.indexes[j]].h = j
      BY <1>1, <1>5, <1>6 DEF Indexed
    <2> QED BY <1>2, <1>5, <2>1, <2>2, <2>3, <2>4 DEF Indexed
  <1>8. PICK ky \in [0..c-1 -> Nat] : \A j \in 0..c-1 : ky[j] = heap.nodes[j].key
    <2>1. \A j \in 0..c-1 : heap.nodes[j].key \in Nat
      BY <1>1, <1>2, <1>3 DEF Indexed
    <2>2. PICK ky : ky = [j \in 0..c-1 |-> heap.nodes[j].key]
      OBVIOUS
    <2> QED BY <2>1, <2>2
  <1>9. i \in 0..c-1 /\ k \in Nat /\ ky[i] = heap.nodes[i].key /\ \A j \in 0..c-1 : j \in Pos
    BY <1>3, <1>4, <1>8
  <1>10. /\ \A j, l \in 0..c-1 : Over(heap, j, l) <=> IF heap.max THEN ky[j] >= ky[l] ELSE ky[j] <= ky[l]
         /\ \A j, l \in 0..c-1 : j # i /\ l # i => (Over(x, j, l) <=> Over(heap, j, l))
         /\ \A j \in 0..c-1 : j # i => /\ Over(x, i, j) <=> IF heap.max THEN k >= ky[j] ELSE k <= ky[j]
                                       /\ Over(x, j, i) <=> IF heap.max THEN ky[j] >= k ELSE ky[j] <= k
    <2>1. \A j, l \in 0..c-1 : Over(heap, j, l) <=> IF heap.max THEN ky[j] >= ky[l] ELSE ky[j] <= ky[l]
      BY <1>8 DEF Over, above
    <2>2. \A j, l \in 0..c-1 : j # i /\ l # i => (Over(x, j, l) <=> Over(heap, j, l))
      <3> SUFFICES ASSUME NEW j \in 0..c-1, NEW l \in 0..c-1, j # i, l # i
                   PROVE  Over(x, j, l) <=> Over(heap, j, l)
        OBVIOUS
      <3>1. x.nodes[j].key = heap.nodes[j].key /\ x.nodes[l].key = heap.nodes[l].key
        BY <1>6, <1>9
      <3>2. x.max = heap.max
        BY <1>5
      <3> QED BY <3>1, <3>2, Zenon DEF Over, above
    <2>3. \A j \in 0..c-1 : j # i => /\ Over(x, i, j) <=> IF heap.max THEN k >= ky[j] ELSE k <= ky[j]
                                     /\ Over(x, j, i) <=> IF heap.max THEN ky[j] >= k ELSE ky[j] <= k
      <3> SUFFICES ASSUME NEW j \in 0..c-1, j # i
                   PROVE  /\ Over(x, i, j) <=> IF heap.max THEN k >= ky[j] ELSE k <= ky[j]
                          /\ Over(x, j, i) <=> IF heap.max THEN ky[j] >= k ELSE ky[j] <= k
        OBVIOUS
      <3>1. x.nodes[j].key = ky[j] /\ x.nodes[i].key = k
        BY <1>4, <1>6, <1>8, <1>9
      <3>2. x.max = heap.max /\ ky[j] \in Nat /\ k \in Nat
        BY <1>5, <1>8, <1>9
      <3> QED BY <3>1, <3>2 DEF Over, above
    <2> QED BY <2>1, <2>2, <2>3
  <1>11. \A j \in 1..c-1 : /\ j \in 0..c-1 /\ Parent(j) \in 0..c-1 /\ Parent(j) # j
                           /\ Over(heap, Parent(j), j)
    <2>1. ASSUME NEW j \in 1..c-1 PROVE j \in 0..c-1 /\ Parent(j) \in 0..c-1 /\ Parent(j) # j
      <3>1. j \in Nat \ {0} /\ j <= c - 1
        BY <1>3
      <3>2. Parent(j) \in Nat /\ Parent(j) < j
        BY <3>1, Parents
      <3> QED BY <1>3, <3>1, <3>2
    <2> QED BY <1>1, <1>2, <2>1 DEF Ordered
  <1>12. i # 0 => i \in 1..c-1
    BY <1>3, <1>9
  <1>13. ASSUME i # 0, NEW j \in 1..c-1, Parent(j) = i PROVE Over(x, Parent(i), j)
    <2>1. Over(heap, Parent(i), i) /\ Over(heap, i, j) /\ Parent(i) \in 0..c-1 /\ j \in 0..c-1
          /\ Parent(i) # i /\ j # i
      BY <1>11, <1>12, <1>13
    <2>2. Over(heap, Parent(i), j)
      BY <1>1, <1>2, <1>9, <2>1, OverIs
    <2> QED BY <1>10, <2>1, <2>2
  <1>14. PICK y : y = heap'
    OBVIOUS
  <1>15. Indexed(y, c) /\ Alike(x, y, c) /\ Ordered(y, c)
    <2>1. CASE Earlier(heap, k, heap.nodes[heap.indexes[n]].key) /\ heap' = heapify_up(x, heap.indexes[n])
      <3>1. IF heap.max THEN k >= ky[i] ELSE k <= ky[i]
        BY <1>4, <1>9, <2>1 DEF Earlier
      <3>2. ASSUME NEW j \in 1..c-1, j # i PROVE Over(x, Parent(j), j)
        <4>1. /\ j \in 0..c-1 /\ Parent(j) \in 0..c-1 /\ Over(heap, Parent(j), j)
              /\ ky[j] \in Nat /\ ky[i] \in Nat
          BY <1>8, <1>9, <1>11
        <4>2. CASE Parent(j) = i
          <5>1. IF heap.max THEN ky[i] >= ky[j] ELSE ky[i] <= ky[j]
            BY <1>9, <1>10, <4>1, <4>2
          <5>2. IF heap.max THEN k >= ky[j] ELSE k <= ky[j]
            BY <1>9, <3>1, <4>1, <5>1
          <5> QED BY <1>10, <3>2, <4>1, <4>2, <5>2
        <4>3. CASE Parent(j) # i
          BY <1>10, <3>2, <4>1, <4>3
        <4> QED BY <4>2, <4>3
      <3>3. Rising(x, c, i)
        BY <1>13, <3>2 DEF Rising
      <3>4. y = heapify_up(x, i)
        BY <1>4, <1>14, <2>1
      <3> QED BY <1>4, <1>7, <3>3, <3>4, HeapifyUp
    <2>2. CASE Earlier(heap, heap.nodes[heap.indexes[n]].key, k) /\ heap' = heapify_down(x, heap.indexes[n])
      <3>1. IF heap.max THEN ky[i] >= k ELSE ky[i] <= k
        BY <1>4, <1>9, <2>2 DEF Earlier
      <3>2. ASSUME NEW j \in 1..c-1, Parent(j) # i PROVE Over(x, Parent(j), j)
        <4>1. /\ j \in 0..c-1 /\ Parent(j) \in 0..c-1 /\ Over(heap, Parent(j), j)
              /\ ky[Parent(j)] \in Nat /\ ky[i] \in Nat
          BY <1>8, <1>9, <1>11
        <4>2. CASE j = i
          <5>1. IF heap.max THEN ky[Parent(j)] >= ky[i] ELSE ky[Parent(j)] <= ky[i]
            BY <1>9, <1>10, <4>1, <4>2
          <5>2. IF heap.max THEN ky[Parent(j)] >= k ELSE ky[Parent(j)] <= k
            BY <1>9, <3>1, <4>1, <5>1
          <5> QED BY <1>10, <3>2, <4>1, <4>2, <5>2
        <4>3. CASE j # i
          BY <1>10, <3>2, <4>1, <4>3
        <4> QED BY <4>2, <4>3
      <3>3. Sinking(x, c, i)
        BY <1>13, <3>2 DEF Sinking
      <3>4. y = heapify_down(x, i)
        BY <1>4, <1>14, <2>2
      <3>5. x.count = c /\ (i < c \/ c = 0) /\ (Ordered(x, c) \/ Sinking(x, c, i))
        BY <1>4, <1>5, <3>3
      <3> QED BY <1>7, <3>4, <3>5, HeapifyDown
    <2> QED BY <2>1, <2>2
  <1>16. y.count = c /\ y.max = heap.max
    BY <1>5, <1>15 DEF Alike
  <1>17. ASSUME NEW l \in Pos
         PROVE  Elements'[l] = IF l = n THEN [key |-> k, value |-> Elements[n].value] ELSE Elements[l]
    <2>1. Elements'[l] = ElemAt(y, c, l)
      BY <1>14, <1>16, ElementsAre DEF ElementsOf
    <2>2. ElemAt(y, c, l) = ElemAt(x, c, l)
      BY <1>15, AlikeElem
    <2>3. Elements[l] = ElemAt(heap, c, l)
      BY <1>2, LiveAre
    <2>4. CASE l = n
      <3>1. Elements[n].value = heap.nodes[i].value
        <4>1. Indexed(heap, c) /\ heap.indexes[n] < c
          BY <1>1, <1>2, <1>4
        <4>2. ElemAt(heap, c, n).value = heap.nodes[heap.indexes[n]].value
          BY <4>1, ElemIs
        <4> QED BY <1>4, <2>3, <2>4, <4>2, Zenon
      <3>2. ElemAt(x, c, n) = [key |-> x.nodes[i].key, value |-> x.nodes[i].value]
        BY <1>4, <1>5 DEF ElemAt
      <3> QED BY <1>6, <2>1, <2>2, <2>4, <3>1, <3>2
    <2>5. CASE l # n
      <3>1. PICK j \in Pos : j = heap.indexes[l] /\ j # i
        BY <1>1, <1>4, <2>5 DEF Indexed
      <3>2. ElemAt(x, c, l) = ElemAt(heap, c, l)
        BY <1>5, <1>6, <3>1 DEF ElemAt
      <3> QED BY <2>1, <2>2, <2>3, <2>5, <3>2
    <2> QED BY <2>4, <2>5
  <1>18. Elements[n] = [key |-> Elements[n].key, value |-> Elements[n].value]
    <2>1. Elements[n] = [key |-> heap.nodes[i].key, value |-> heap.nodes[i].value]
      <3>1. Indexed(heap, c) /\ heap.indexes[n] < c /\ Elements[n] = ElemAt(heap, c, n)
        BY <1>1, <1>2, <1>4, LiveAre
      <3>2. ElemAt(heap, c, n) = [key |-> heap.nodes[heap.indexes[n]].key,
                                  value |-> heap.nodes[heap.indexes[n]].value]
        BY <3>1, ElemIs
      <3> QED BY <1>4, <3>1, <3>2, Zenon
    <2> QED BY <2>1
  <1>19. Elements' = [Elements EXCEPT ![n].key = k]
    <2>1. Elements = ElementsOf(heap) /\ Elements' = ElementsOf(heap')
      BY ElementsAre
    <2>2. PICK r : r = Elements[n]
      OBVIOUS
    <2>3. PICK u : u = [r EXCEPT !.key = k]
      OBVIOUS
    <2>4. u = [key |-> k, value |-> Elements[n].value]
      BY <1>18, <2>2, <2>3
    <2>5. Elements' = [Elements EXCEPT ![n] = u]
      BY <1>17, <2>1, <2>4 DEF ElementsOf
    <2> QED BY <2>2, <2>3, <2>5
  <1>20. n \in HeapQueue!Live
    BY <1>2, <1>4, LiveAre
  <1>21. HeapQueue!Rekey(n, k)
    BY <1>19, <1>20 DEF HeapQueue!Rekey
  <1>22. HeapInv'
    BY <1>14, <1>15, <1>16 DEF HeapInv
  <1> QED BY <1>14, <1>16, <1>21, <1>22

(* The heap starts empty, with each handler at its own node.               *)
LEMMA HeapStart ==
    ASSUME HeapInit
    PROVE  HeapInv /\ HeapQueue!Init
  <1>1. PICK mx \in BOOLEAN : heap = xbinheap_init(mx)
    BY DEF HeapInit
  <1>2. PICK nd, ix : /\ nd = [i \in Pos |-> [key |-> NoNode, value |-> NoNode, h |-> i]]
                      /\ ix = [i \in Pos |-> i]
    OBVIOUS
  <1>3. heap = [count |-> 0, max |-> mx, nodes |-> nd, indexes |-> ix]
    BY <1>1, <1>2 DEF xbinheap_init
  <1>4. heap.count = 0 /\ heap.max = mx /\ heap.nodes = nd /\ heap.indexes = ix
    BY <1>3
  <1>5. nd \in [Pos -> NodeRec] /\ ix \in [Pos -> Pos] /\ 0 \in 0..HeapSize
        /\ (\A i \in Pos : nd[i].h = i /\ ix[i] = i) /\ (\A i \in Pos : ~(i < 0))
    BY <1>2, PosIs DEF NodeRec
  <1>6. Indexed(heap, 0)
    BY <1>3, <1>4, <1>5 DEF Indexed
  <1>7. Ordered(heap, 0)
    BY DEF Ordered
  <1>8. HeapInv
    BY <1>4, <1>6, <1>7 DEF HeapInv
  <1>9. Elements = [k \in Pos |-> NoNode]
    <2>1. ASSUME NEW k \in Pos PROVE ElemAt(heap, heap.count, k) = NoNode
      BY <1>4, <1>5 DEF ElemAt
    <2> QED BY <2>1, ElementsAre DEF ElementsOf
  <1>10. HeapQueue!Init
    BY <1>4, <1>9 DEF HeapQueue!Init, HeapInit
  <1> QED BY <1>8, <1>10

(* Every step keeps the invariant and is one of the queue.                 *)
LEMMA HeapStep ==
    ASSUME HeapInv, [HeapNext]_heapVars
    PROVE  HeapInv' /\ [HeapQueue!Next]_HeapQueue!vars
  <1>1. CASE UNCHANGED heapVars
    <2>1. heap' = heap /\ bret' = bret
      BY <1>1 DEF heapVars
    <2> QED BY <2>1, HeapStays DEF HeapQueue!vars
  <1>2. ASSUME NEW key \in HeapKeys, NEW value \in HeapValues, xbinheap_insert(key, value)
        PROVE  HeapInv' /\ HeapQueue!Next
    BY <1>2, InsertStep DEF HeapQueue!Next
  <1>3. CASE xbinheap_peak
    <2>1. heap' = heap
      BY <1>3 DEF xbinheap_peak
    <2>2. HeapInv' /\ Elements' = Elements /\ heap.max' = heap.max
      BY <2>1, HeapStays
    <2>3. CASE heap.count = 0
      <3>1. bret' = NoNode
        BY <1>3, <2>3 DEF xbinheap_peak, xbinheap_empty
      <3>2. HeapQueue!Live = {}
        <4>1. ASSUME NEW k \in Pos PROVE ~(heap.indexes[k] < heap.count)
          <5>1. heap.indexes[k] \in Pos
            BY DEF HeapInv, Indexed
          <5> QED BY <2>3, <5>1, PosIs
        <4> QED BY <4>1, LiveAre
      <3>3. HeapQueue!Nothing
        BY <2>2, <3>1, <3>2 DEF HeapQueue!Nothing
      <3> QED BY <2>2, <3>3 DEF HeapQueue!Next
    <2>4. CASE heap.count # 0
      <3>1. bret' = heap.nodes[0].value
        BY <1>3, <2>4 DEF xbinheap_peak, xbinheap_empty
      <3>2. PICK h \in Pos : HeapQueue!Extreme(h) /\ Elements[h].value = heap.nodes[0].value
        BY <2>4, RootIsExtreme
      <3>3. HeapQueue!Peek(h)
        BY <2>2, <3>1, <3>2 DEF HeapQueue!Peek
      <3> QED BY <2>2, <3>3 DEF HeapQueue!Next
    <2> QED BY <2>3, <2>4
  <1>4. CASE xbinheap_extract
    BY <1>4, ExtractStep DEF HeapQueue!Next
  <1>5. ASSUME NEW n \in Pos, xbinheap_getkey(n) PROVE HeapInv' /\ HeapQueue!Next
    <2>1. heap' = heap /\ bret' = heap.nodes[heap.indexes[n]].key /\ heap.indexes[n] < heap.count
      BY <1>5 DEF xbinheap_getkey, Held
    <2>2. HeapInv' /\ Elements' = Elements /\ heap.max' = heap.max
      BY <2>1, HeapStays
    <2>3. n \in HeapQueue!Live /\ Elements[n].key = heap.nodes[heap.indexes[n]].key
      BY <2>1, LiveAre, ElemIs DEF HeapInv
    <2>4. HeapQueue!GetKey(n)
      BY <2>1, <2>2, <2>3 DEF HeapQueue!GetKey
    <2> QED BY <2>2, <2>4 DEF HeapQueue!Next
  <1>6. ASSUME NEW n \in Pos, NEW key \in HeapKeys,
               xbinheap_increasekey(n, key) \/ xbinheap_decreasekey(n, key)
        PROVE  HeapInv' /\ HeapQueue!Next
    <2>1. PICK x : x = [heap EXCEPT !.nodes[heap.indexes[n]].key = key]
      OBVIOUS
    <2>2. Held(n) /\ UNCHANGED bret
      BY <1>6 DEF xbinheap_increasekey, xbinheap_decreasekey
    <2>3. \/ Earlier(heap, key, heap.nodes[heap.indexes[n]].key) /\ heap' = heapify_up(x, heap.indexes[n])
          \/ Earlier(heap, heap.nodes[heap.indexes[n]].key, key) /\ heap' = heapify_down(x, heap.indexes[n])
      <3>1. key \in Nat /\ heap.nodes[heap.indexes[n]].key \in Nat
        BY <2>2, ElemIs, PosIs DEF HeapInv, Held
      <3>2. PICK old \in Nat : old = heap.nodes[heap.indexes[n]].key
        BY <3>1
      <3>3. CASE xbinheap_increasekey(n, key)
        BY <2>1, <3>1, <3>2, <3>3 DEF xbinheap_increasekey, Earlier
      <3>4. CASE xbinheap_decreasekey(n, key)
        BY <2>1, <3>1, <3>2, <3>4 DEF xbinheap_decreasekey, Earlier
      <3> QED BY <1>6, <3>3, <3>4
    <2>4. HeapInv' /\ HeapQueue!Rekey(n, key) /\ heap.max' = heap.max
      BY <2>1, <2>2, <2>3, RekeyStep
    <2> QED BY <2>4 DEF HeapQueue!Next
  <1> QED BY <1>1, <1>2, <1>3, <1>4, <1>5, <1>6 DEF HeapNext

(* The binary heap of xbinheap.c gives out the element with the least, or  *)
(* the greatest, key of all, and a handler names its element wherever the  *)
(* swaps have brought it; proved for heaps of any size and any keys.       *)
THEOREM HeapIsAQueue == HeapSpec => RefinesQueue
  <1>1. HeapInit => HeapInv /\ HeapQueue!Init
    BY HeapStart
  <1>2. HeapInv /\ [HeapNext]_heapVars => HeapInv' /\ [HeapQueue!Next]_HeapQueue!vars
    BY HeapStep
  <1> QED BY <1>1, <1>2, PTL DEF HeapSpec, RefinesQueue, HeapQueue!Spec
=============================================================================
