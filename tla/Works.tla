------------------------------- MODULE Works -------------------------------
(***************************************************************************)
(* xtypes/xworkq.c and xtypes/xwaitq.c: queues of jobs that whoever        *)
(* signals them runs.  A work queue runs its jobs under a lock of its      *)
(* owner, or without one; a wait queue runs them while a condition holds.  *)
(* Both put their jobs in an xq that is replaced by one of twice the size  *)
(* when it is full, and both look at its count without a lock.             *)
(***************************************************************************)
EXTENDS Integers, Sequences, FiniteSets, SequencesExt

CONSTANTS Threads, NoThread,
          Jobs, NoJob,
          QueueSize,    \* size of the first xq: 8 in the code
          Kinds         \* the sorts of queue to check, see AllKinds

AllKinds == {"workq",         \* xworkq with a lock
             "workq_nolock",  \* xworkq with lock = NULL
             "waitq",         \* xwaitq, flags = 0
             "waitq_one"}     \* xwaitq, flags = XWAIT_SIGNAL_ONE

ASSUME WorksAssumption == /\ Kinds \subseteq AllKinds
                          /\ QueueSize \in Nat \ {0}
                          /\ NoThread \notin Threads /\ NoJob \notin Jobs

VARIABLES kind,     \* the sort of the queue; never changes
          q, size,  \* wq->q: its elements, head first, and its capacity
          lock,     \* owner of wq->lock
          cond,     \* what wq->cond_fn answers (external to the queue)
          state,    \* of a job: "new", "queued", "taken", "done", "refused"
          pc, job,  \* of a thread: where it is, and the job in its hands
          torn,     \* threads about to read the count of a queue that was
                    \* changed, or freed, since they took its address
          owes      \* history: threads that have put jobs into a work queue
                    \* and have not signalled it since

vars == <<kind, q, size, lock, cond, state, pc, job, torn, owes>>

isWaitq == kind \in {"waitq", "waitq_one"}

Init == /\ kind \in Kinds
        /\ q = <<>> /\ size = QueueSize
        /\ lock = NoThread
        /\ cond \in IF isWaitq THEN BOOLEAN ELSE {TRUE}
        /\ state = [j \in Jobs |-> "new"]
        /\ pc = [t \in Threads |-> "idle"]
        /\ job = [t \in Threads |-> NoJob]
        /\ torn = {} /\ owes = {}

Goto(t, l) == pc' = [pc EXCEPT ![t] = l]

(* Every change of the xq, its replacement included, is seen half done by  *)
(* a thread that is reading its count.                                     *)
Tear == torn' = torn \cup {t \in Threads : pc[t] = "count"}

(* __xworkq_enqueue and __xwaitq_enqueue: append at the tail; a full xq is *)
(* first copied, the other way round (__xq_resize), into one of twice the  *)
(* size, if malloc has one.                                                *)
Enqueued(j, s) ==
    /\ q' = Append(IF Len(q) < size THEN q ELSE Reverse(q), j)
    /\ size' = IF Len(q) < size THEN size ELSE 2 * size
    /\ state' = [state EXCEPT ![j] = s]
    /\ Tear

NotEnqueued(j) ==
    /\ Len(q) = size
    /\ state' = [state EXCEPT ![j] = "refused"]
    /\ UNCHANGED <<q, size, torn>>

__enqueue(j) == Enqueued(j, "queued") \/ NotEnqueued(j)

-----------------------------------------------------------------------------
(* xworkq_enqueue: the whole of it is under q_lock, and it signals nobody. *)
xworkq_enqueue(t, j) ==
    /\ ~isWaitq /\ pc[t] = "idle" /\ state[j] = "new"
    /\ __enqueue(j)
    /\ owes' = owes \cup {t}
    /\ UNCHANGED <<kind, lock, cond, pc, job>>

(* xwaitq_enqueue, outside of the lock: run the job at once, or queue it.  *)
xwaitq_enqueue(t, j) ==
    /\ isWaitq /\ pc[t] = "idle" /\ state[j] = "new"
    /\ state' = [state EXCEPT ![j] = "taken"]
    /\ job' = [job EXCEPT ![t] = j]
    /\ Goto(t, IF cond THEN "run_now" ELSE "enqueue")
    /\ UNCHANGED <<kind, q, size, lock, cond, torn, owes>>

run_now(t) ==
    /\ pc[t] = "run_now"
    /\ state' = [state EXCEPT ![job[t]] = "done"]
    /\ job' = [job EXCEPT ![t] = NoJob]
    /\ Goto(t, "idle")
    /\ UNCHANGED <<kind, q, size, lock, cond, torn, owes>>

(* Without the signal at the end.                                          *)
locked_enqueue_return(t) ==
    /\ pc[t] = "enqueue" /\ lock = NoThread
    /\ __enqueue(job[t])
    /\ job' = [job EXCEPT ![t] = NoJob]
    /\ Goto(t, "idle")
    /\ UNCHANGED <<kind, lock, cond, owes>>

(* xlock_acquire, __xwaitq_enqueue, xlock_release, then xwaitq_signal.     *)
locked_enqueue(t) ==
    /\ pc[t] = "enqueue" /\ lock = NoThread
    /\ __enqueue(job[t])
    /\ job' = [job EXCEPT ![t] = NoJob]
    /\ Goto(t, "signal")
    /\ UNCHANGED <<kind, lock, cond, owes>>

(* A call of xworkq_signal, at any time, or of xwaitq_signal by a thread   *)
(* that makes the condition true (external).                               *)
signal_only(t) ==
    /\ pc[t] = "idle"
    /\ \/ ~isWaitq /\ UNCHANGED cond
       \/ isWaitq /\ ~cond /\ cond' = TRUE
    /\ owes' = owes \ {t}
    /\ Goto(t, "signal")
    /\ UNCHANGED <<kind, q, size, lock, state, job, torn>>

(* The condition ends by itself (external).                                *)
cond_ends ==
    /\ isWaitq /\ cond /\ cond' = FALSE
    /\ UNCHANGED <<kind, q, size, lock, state, pc, job, torn, owes>>

-----------------------------------------------------------------------------
(* xworkq_signal and xwaitq_signal.                                        *)

(* xq_count(wq->q): first the address of the xq ...                        *)
take_address(t) ==
    /\ pc[t] = "signal"
    /\ Goto(t, "count")
    /\ torn' = torn \ {t}
    /\ UNCHANGED <<kind, q, size, lock, cond, state, job, owes>>

(* ... then its head and tail, which are anything if it changed between.   *)
read_count(t) ==
    /\ pc[t] = "count"
    /\ \/ (q # <<>> \/ t \in torn) /\ Goto(t, "lock")
       \/ (q = <<>> \/ t \in torn) /\ Goto(t, "idle")
    /\ torn' = torn \ {t}
    /\ UNCHANGED <<kind, q, size, lock, cond, state, job, owes>>

(* try_lock gives up where the queue says so, otherwise the thread waits.  *)
take_lock(t) ==
    /\ pc[t] = "lock"
    /\ \/ /\ kind # "workq_nolock" /\ lock = NoThread /\ lock' = t
          /\ Goto(t, "locked")
       \/ /\ kind = "workq_nolock" /\ UNCHANGED lock
          /\ Goto(t, "locked")
       \/ /\ kind \in {"workq", "waitq_one"} /\ lock # NoThread
          /\ Goto(t, "idle") /\ UNCHANGED lock
    /\ UNCHANGED <<kind, q, size, cond, state, job, torn, owes>>

(* Looks at the head and leaves it there.                                  *)
pop_head_peek(t) ==
    /\ job' = [job EXCEPT ![t] = Head(q)]
    /\ state' = [state EXCEPT ![Head(q)] = "taken"]
    /\ UNCHANGED <<q, torn>>

pop_head(t) ==
    /\ q' = Tail(q)
    /\ job' = [job EXCEPT ![t] = Head(q)]
    /\ state' = [state EXCEPT ![Head(q)] = "taken"]
    /\ Tear

(* The body of xworkq_signal's loop: pop under q_lock, run under lock.     *)
xworkq_pop(t) ==
    /\ ~isWaitq /\ pc[t] = "locked"
    /\ IF q # <<>>
       THEN pop_head(t) /\ Goto(t, "run")
       ELSE Goto(t, "unlock") /\ UNCHANGED <<q, job, state, torn>>
    /\ UNCHANGED <<kind, size, lock, cond, owes>>

(* The test of xwaitq_signal's loop, with the lock held ...                *)
xwaitq_test(t) ==
    /\ isWaitq /\ pc[t] = "locked"
    /\ Goto(t, IF q # <<>> /\ cond THEN "pop" ELSE "unlock")
    /\ UNCHANGED <<kind, q, size, lock, cond, state, job, torn, owes>>

(* ... and its body, which gives up the lock to run the job.               *)
xwaitq_pop(t) ==
    /\ pc[t] = "pop"
    /\ pop_head(t)
    /\ lock' = NoThread
    /\ Goto(t, "run")
    /\ UNCHANGED <<kind, size, cond, owes>>

run_job(t) ==
    /\ pc[t] = "run"
    /\ state' = [state EXCEPT ![job[t]] = "done"]
    /\ job' = [job EXCEPT ![t] = NoJob]
    /\ Goto(t, IF isWaitq THEN "lock" ELSE "locked")
    /\ UNCHANGED <<kind, q, size, lock, cond, torn, owes>>

(* Never looks at the queue again.                                         *)
unlock_return(t) ==
    /\ pc[t] = "unlock"
    /\ lock' = IF lock = t THEN NoThread ELSE lock
    /\ Goto(t, "idle")
    /\ UNCHANGED <<kind, q, size, cond, state, job, torn, owes>>

(* A work queue is looked at again after the lock is free.                 *)
unlock(t) ==
    /\ pc[t] = "unlock"
    /\ lock' = IF lock = t THEN NoThread ELSE lock
    /\ Goto(t, IF isWaitq THEN "idle" ELSE "signal")
    /\ UNCHANGED <<kind, q, size, cond, state, job, torn, owes>>

-----------------------------------------------------------------------------
(* What a thread does by itself once it is in a call.                      *)
Progress(t) == \/ run_now(t) \/ locked_enqueue(t)
               \/ take_address(t) \/ read_count(t) \/ take_lock(t)
               \/ xworkq_pop(t) \/ xwaitq_test(t) \/ xwaitq_pop(t)
               \/ run_job(t) \/ unlock(t)

Next == \/ \E t \in Threads, j \in Jobs : xworkq_enqueue(t, j) \/ xwaitq_enqueue(t, j)
        \/ \E t \in Threads : signal_only(t) \/ Progress(t)
        \/ cond_ends

Fairness == \A t \in Threads : WF_vars(Progress(t))

Spec == Init /\ [][Next]_vars /\ Fairness

-----------------------------------------------------------------------------
(* A job is in the queue once, or in the hands of one thread, or neither:  *)
(* the lock that is given up round every job (xwaitq.c) and the queue that *)
(* is replaced while others read it (xworkq.c) neither lose nor double it. *)
EachJobOnce ==
    \A j \in Jobs :
       /\ Cardinality({i \in DOMAIN q : q[i] = j}) = IF state[j] = "queued" THEN 1 ELSE 0
       /\ Cardinality({t \in Threads : job[t] = j}) = IF state[j] = "taken" THEN 1 ELSE 0

(* When every thread is back from its calls, and has signalled a work      *)
(* queue since it last put a job into it, nothing that could be run is     *)
(* left behind, though a signaller goes away when it reads a count of zero *)
(* or finds the lock taken: whoever made it do so looks again later.  With *)
(* XWAIT_SIGNAL_ONE this is not so (xwaitq.c:98).                          *)
NoJobStranded ==
    /\ \A t \in Threads : pc[t] = "idle"
    /\ owes = {}
    /\ kind # "waitq_one"
    /\ isWaitq => cond
    => q = <<>>

(* A queued job is run, if the condition of a wait queue holds for good    *)
(* from some time on, and if those who put jobs into a work queue signal   *)
(* it some time later, which is theirs to do.                              *)
JobsRun ==
    \A j \in Jobs :
       <>[](isWaitq => cond) /\ (\A t \in Threads : []<>(t \notin owes)) =>
          ((state[j] = "queued" /\ kind # "waitq_one") ~> (state[j] = "done"))

-----------------------------------------------------------------------------
(* What the threads of tests/xworkq_test.c do: nothing but enqueue.        *)
TestNext == \E t \in Threads, j \in Jobs : xworkq_enqueue(t, j)

TestSpec == Init /\ [][TestNext]_vars

(* and what each test then expects of a work queue, "return ((sum == n)?   *)
(* 0 : -1);": that all of the jobs that were queued have been run.         *)
TestsExpectation == (\A j \in Jobs : state[j] # "new") => \A j \in Jobs : state[j] # "queued"
=============================================================================
