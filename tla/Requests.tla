------------------------------- MODULE Requests -------------------------------
(***************************************************************************)
(* The life of a request (xseg.c): a peer takes one from its port          *)
(* (xseg_get_request), submits it (xseg_submit), another accepts it and    *)
(* forwards it or responds, the reply is received back along the path the  *)
(* request came by, and the originator puts it back (xseg_put_request).    *)
(*                                                                         *)
(* Threads run the calls concurrently.  A step is one critical section of  *)
(* a port lock, or one turn of a loop that runs with fq_lock held, with    *)
(* the work on the request in hand that goes before or after it: nobody    *)
(* else has that request.  The queues are deques (module Xq refines        *)
(* Deque), written from head to tail: pop_head takes Head, append_tail is  *)
(* Append.                                                                 *)
(***************************************************************************)
EXTENDS Integers, FiniteSets, SequencesExt

CONSTANTS
    Ports,          \* valid port numbers, below config.nr_ports
    Bound,          \* those with a port structure, ports[portno] # 0
    Usable,         \* those whose flags are set; bind_dynport publishes a
                    \* port before it sets its flags
    NoPort,
    Reqs,           \* the request objects of the segment
    NoReq,
    Threads,        \* threads of the peers
    PortOf,         \* the port the peer of a thread is bound to
    NoThread,       \* XLOCK_NOONE
    Dsts,           \* destinations asked for, valid or not
    StaleSrc,       \* src_portno in memory no request has used before
    QueueSize,      \* size of a new port's queues
    MaxQueueSize,   \* bound: the heap gives no larger queue
    MAX_PATH_LEN,
    DefMaxReqs,     \* XSEG_DEF_MAX_ALLOCATED_REQS
    AllocMod,       \* alloc_reqs is an unsigned counter modulo AllocMod
    AdminOps,       \* which administrative calls are made
    Counts,         \* arguments nr_reqs and size of those
    Hops,           \* arguments <<portno, next>> of xseg_set_path_next
    Resubmit        \* whether a received request is submitted once more

ASSUME PortsAssumption ==
    /\ Usable \subseteq Bound /\ Bound \subseteq Ports /\ NoPort \notin Ports
    /\ PortOf \in [Threads -> Usable] /\ NoThread \notin Threads
    /\ StaleSrc \subseteq Ports \cup {NoPort}
    /\ Hops \subseteq Ports \X Ports /\ NoReq \notin Reqs
ASSUME SizesAssumption ==
    /\ QueueSize \in Nat /\ MaxQueueSize \in Nat /\ MAX_PATH_LEN \in Nat
    /\ DefMaxReqs \in Nat /\ AllocMod \in Nat /\ DefMaxReqs < AllocMod
    /\ Counts \subseteq Nat /\ \A n \in Counts : n < AllocMod
    /\ Resubmit \in BOOLEAN

(* The three queues of a port.                                             *)
free_queue(p)    == <<"free", p>>
request_queue(p) == <<"request", p>>
reply_queue(p)   == <<"reply", p>>
PortQueues       == {"free", "request", "reply"} \X Bound

(* A call at a place l, for request r and port p, with a loop up to n.     *)
Frame(l, r, p, n) == [at |-> l, req |-> r, port |-> p, i |-> 0, nr |-> n]

Idle == Frame("idle", NoReq, NoPort, 0)

VARIABLES
    objs,           \* requests in the free list of request_h
    queue,          \* free_queue, request_queue and reply_queue of each port
    size,           \* their sizes
    alloc,          \* alloc_reqs of each port
    max,            \* max_alloc_reqs of each port
    path_next,      \* the next hop configured for each port
    fq_lock,        \* owner of the fq_lock of each port
    src, dst,       \* src_portno, effective_dst_portno of each request
    transit,        \* transit_portno
    path,           \* path, from its head
    held,           \* requests a thread has in hand
    op,             \* the call a thread is in: where it is, the request and the
                    \* port it works on, its loop counter i and limit nr
    via,            \* history: the call by which a request came to its holder
    sent,           \* history: ports that submitted it and got no reply yet
    home,           \* history: the port that took it from request_h
    lost            \* history: requests nobody can reach any more

segvars == <<objs, queue, size, alloc, max, path_next, fq_lock>>
reqvars == <<src, dst, transit, path>>
thvars  == <<held, op>>
history == <<via, sent, home, lost>>
vars    == <<segvars, reqvars, thvars, history>>

Init ==
    /\ objs = Reqs
    /\ queue = [q \in PortQueues |-> <<>>]
    /\ size = [q \in PortQueues |-> QueueSize]
    /\ alloc = [p \in Bound |-> 0]
    /\ max = [p \in Bound |-> DefMaxReqs]
    /\ path_next = [p \in Ports |-> NoPort]
    /\ fq_lock = [p \in Bound |-> NoThread]
    /\ src \in [Reqs -> StaleSrc]
    /\ dst = [r \in Reqs |-> NoPort]
    /\ transit = [r \in Reqs |-> NoPort]
    /\ path = [r \in Reqs |-> <<>>]
    /\ held = [t \in Threads |-> {}]
    /\ op = [t \in Threads |-> Idle]
    /\ via = [r \in Reqs |-> "none"]
    /\ sent = [r \in Reqs |-> <<>>]
    /\ home = [r \in Reqs |-> NoPort]
    /\ lost = {}

-----------------------------------------------------------------------------
(* Helpers.                                                                *)

At(t, l) == op[t].at = l
Goto(t, l) == op' = [op EXCEPT ![t].at = l]
Return(t) == op' = [op EXCEPT ![t] = Idle]
Hold(t, r) == held' = [held EXCEPT ![t] = @ \cup {r}]
Drop(t, r) == held' = [held EXCEPT ![t] = @ \ {r}]

Fq(p) == queue[free_queue(p)]

(* Off by one.                                                             *)
Room_over(q) == Len(queue[q]) <= size[q]

Room(q) == Len(queue[q]) < size[q]

FqFree(p) == fq_lock[p] = NoThread

-----------------------------------------------------------------------------
(* xseg_get_request.                                                       *)

(* Returns the request to the port that asked for it.                      *)
Prepared(t, r, d) ==
    /\ src' = [src EXCEPT ![r] = PortOf[t]]
    /\ transit' = [transit EXCEPT ![r] = PortOf[t]]
    /\ dst' = [dst EXCEPT ![r] = d]
    /\ path' = [path EXCEPT ![r] = <<>>]
    /\ via' = [via EXCEPT ![r] = "get"]
    /\ sent' = [sent EXCEPT ![r] = <<>>]
    /\ Hold(t, r)
    /\ Return(t)
    /\ UNCHANGED lost

(* xseg_put_request up to its first lock.                                  *)
StartPut(t, r) ==
    /\ op' = [op EXCEPT ![t] = Frame("put_free", r, src[r], 0)]
    /\ src' = [src EXCEPT ![r] = NoPort]
    /\ dst' = [dst EXCEPT ![r] = NoPort]
    /\ transit' = [transit EXCEPT ![r] = NoPort]
    /\ path' = [path EXCEPT ![r] = <<>>]
    /\ via' = [via EXCEPT ![r] = "none"]
    /\ sent' = [sent EXCEPT ![r] = <<>>]

(* xseg_prep_ports refuses dst and the request is put, but by the          *)
(* src_portno some earlier use left in it.                                 *)
Refused(t, r) ==
    IF src[r] \in Bound
    THEN StartPut(t, r) /\ Hold(t, r) /\ UNCHANGED lost
    ELSE /\ lost' = lost \cup {r}
         /\ Return(t)
         /\ UNCHANGED <<held, reqvars, via, sent>>

InitRequest(t, r, d) == IF d \in Ports THEN Prepared(t, r, d) ELSE Refused(t, r)

(* First from the port's free_queue.                                       *)
GetFree(t, d) ==
    LET p == PortOf[t]
    IN  /\ At(t, "idle") /\ FqFree(p)
        /\ Fq(p) # <<>>
        /\ queue' = [queue EXCEPT ![free_queue(p)] = Tail(@)]
        /\ InitRequest(t, Head(Fq(p)), d)
        /\ UNCHANGED <<objs, size, alloc, max, path_next, fq_lock, home>>

(* The free_queue is empty and X_LOCAL not given.                          *)
GetMiss(t, d) ==
    /\ At(t, "idle") /\ FqFree(PortOf[t])
    /\ Fq(PortOf[t]) = <<>>
    /\ op' = [op EXCEPT ![t] = Frame("get_alloc", NoReq, d, 0)]
    /\ UNCHANGED <<segvars, reqvars, held, history>>

(* Counts a request it did not get.                                        *)
GetAlloc_counts(t) ==
    LET p == PortOf[t]
    IN  /\ At(t, "get_alloc")
        /\ alloc' = [alloc EXCEPT ![p] = (@ + 1) % AllocMod]
        /\ IF alloc[p] < max[p] /\ objs # {}
           THEN \E r \in objs : /\ objs' = objs \ {r}
                                /\ home' = [home EXCEPT ![r] = p]
                                /\ InitRequest(t, r, op[t].port)
           ELSE /\ Return(t)
                /\ UNCHANGED <<objs, reqvars, held, history>>
        /\ UNCHANGED <<queue, size, max, path_next, fq_lock>>

(* Then from request_h, within the limit of the port.                      *)
GetAlloc(t) ==
    LET p == PortOf[t]
    IN  /\ At(t, "get_alloc")
        /\ IF alloc[p] < max[p] /\ objs # {}
           THEN \E r \in objs :
                  /\ objs' = objs \ {r}
                  /\ alloc' = [alloc EXCEPT ![p] = (@ + 1) % AllocMod]
                  /\ home' = [home EXCEPT ![r] = p]
                  /\ InitRequest(t, r, op[t].port)
           ELSE /\ Return(t)
                /\ UNCHANGED <<objs, alloc, reqvars, held, history>>
        /\ UNCHANGED <<queue, size, max, path_next, fq_lock>>

-----------------------------------------------------------------------------
(* xseg_put_request.  It goes by the src_portno of the request; one that   *)
(* has none is refused and stays with the caller.                          *)

Put(t, r) ==
    /\ At(t, "idle") /\ r \in held[t] /\ src[r] \in Bound
    /\ StartPut(t, r)
    /\ UNCHANGED <<segvars, held, home, lost>>

(* Falls through to xobj_put_obj after the free_queue took the request.    *)
PutFree_falls(t) ==
    LET p == op[t].port
    IN  /\ At(t, "put_free") /\ FqFree(p)
        /\ IF Room(free_queue(p))
           THEN queue' = [queue EXCEPT ![free_queue(p)] = <<op[t].req>> \o @]
           ELSE UNCHANGED queue
        /\ Goto(t, "put_obj")
        /\ UNCHANGED <<objs, size, alloc, max, path_next, fq_lock, reqvars, held, history>>

(* Without fq_lock.                                                        *)
PutFree_unlocked(t) ==
    LET p == op[t].port
    IN  /\ At(t, "put_free")
        /\ IF Room(free_queue(p))
           THEN /\ queue' = [queue EXCEPT ![free_queue(p)] = <<op[t].req>> \o @]
                /\ Drop(t, op[t].req)
                /\ Return(t)
           ELSE /\ Goto(t, "put_obj")
                /\ UNCHANGED <<queue, held>>
        /\ UNCHANGED <<objs, size, alloc, max, path_next, fq_lock, reqvars, history>>

PutFree(t) ==
    LET p == op[t].port
    IN  /\ At(t, "put_free") /\ FqFree(p)
        /\ IF Room(free_queue(p))
           THEN /\ queue' = [queue EXCEPT ![free_queue(p)] = <<op[t].req>> \o @]
                /\ Drop(t, op[t].req)
                /\ Return(t)
           ELSE /\ Goto(t, "put_obj")
                /\ UNCHANGED <<queue, held>>
        /\ UNCHANGED <<objs, size, alloc, max, path_next, fq_lock, reqvars,
                       history>>

(* The call of xobj_put_obj left out.                                      *)
PutObj_forgets(t) ==
    /\ At(t, "put_obj")
    /\ Drop(t, op[t].req)
    /\ Goto(t, "put_dec")
    /\ UNCHANGED <<segvars, reqvars, history>>

PutObj(t) ==
    /\ At(t, "put_obj")
    /\ objs' = objs \cup {op[t].req}
    /\ home' = [home EXCEPT ![op[t].req] = NoPort]
    /\ Drop(t, op[t].req)
    /\ Goto(t, "put_dec")
    /\ UNCHANGED <<queue, size, alloc, max, path_next, fq_lock, reqvars,
                   via, sent, lost>>

(* A counter that does not wrap.                                           *)
PutDec_signed(t) ==
    /\ At(t, "put_dec")
    /\ alloc' = [alloc EXCEPT ![op[t].port] = @ - 1]
    /\ Return(t)
    /\ UNCHANGED <<objs, queue, size, max, path_next, fq_lock, reqvars, held, history>>

PutDec(t) ==
    /\ At(t, "put_dec")
    /\ alloc' = [alloc EXCEPT ![op[t].port] = (@ - 1) % AllocMod]
    /\ Return(t)
    /\ UNCHANGED <<objs, queue, size, max, path_next, fq_lock, reqvars,
                   held, history>>

-----------------------------------------------------------------------------
(* xseg_submit and xseg_forward.                                           *)

MaySubmit(t, r) == /\ At(t, "idle") /\ r \in held[t]
                   /\ Resubmit \/ via[r] # "receive"
                   /\ transit[r] \in Ports

StartSubmit(t, r) ==
    /\ op' = [op EXCEPT ![t] = Frame("discover", r, transit[r], 0)]
    /\ UNCHANGED <<segvars, src, transit, path, held, history>>

Submit(t, r) == /\ MaySubmit(t, r) /\ StartSubmit(t, r)
                /\ dst[r] \in Ports /\ UNCHANGED dst

Forward(t, r, d) == /\ MaySubmit(t, r) /\ StartSubmit(t, r)
                    /\ d \in Ports /\ dst' = [dst EXCEPT ![r] = d]

(* One turn of the loop that looks for a port willing to accept: it ends   *)
(* with nobody behind the destination, or at a port without structure, or  *)
(* at the first port whose flags are not all clear.                        *)
Discover(t) ==
    LET d    == dst[op[t].req]
        hop  == path_next[op[t].port]
        next == IF hop # NoPort THEN hop ELSE d
    IN  /\ At(t, "discover")
        /\ IF op[t].port = d \/ next \notin Bound
           THEN Return(t)
           ELSE op' = [op EXCEPT ![t].port = next,
                                 ![t].at = IF next \in Usable THEN "submit" ELSE "discover"]
        /\ UNCHANGED <<segvars, reqvars, held, history>>

(* r goes to the tail of a queue; one without room is doubled (X_ALLOC and *)
(* memory in the heap given), which turns it upside down.                  *)
Enqueue(q, r) ==
    \/ /\ Room(q)
       /\ queue' = [queue EXCEPT ![q] = Append(@, r)]
       /\ UNCHANGED size
    \/ /\ ~ Room(q) /\ 2 * size[q] <= MaxQueueSize
       /\ Len(queue[q]) < 2 * size[q]
       /\ queue' = [queue EXCEPT ![q] = Append(Reverse(@), r)]
       /\ size' = [size EXCEPT ![q] = 2 * @]

(* The port in transit_portno goes on the path, then the request into the  *)
(* request_queue; without room in either the request stays as it was.      *)
SubmitQueue(t) ==
    LET r == op[t].req
        q == request_queue(op[t].port)
    IN  /\ At(t, "submit")
        /\ \/ /\ Len(path[r]) < MAX_PATH_LEN /\ Enqueue(q, r)
              /\ path' = [path EXCEPT ![r] = <<transit[r]>> \o @]
              /\ sent' = [sent EXCEPT ![r] = <<PortOf[t]>> \o @]
              /\ Drop(t, r)
           \/ /\ Len(path[r]) >= MAX_PATH_LEN \/ ~ Room(q)
              /\ UNCHANGED <<queue, size, path, sent, held>>
        /\ Return(t)
        /\ UNCHANGED <<objs, alloc, max, path_next, fq_lock, src, dst, transit,
                       via, home, lost>>

-----------------------------------------------------------------------------
(* xseg_accept, xseg_respond, xseg_receive.                                *)

(* Leaves transit_portno as it was.                                        *)
Accept_keeps(t) ==
    LET p == PortOf[t]
        r == Head(queue[request_queue(p)])
    IN  /\ At(t, "idle") /\ queue[request_queue(p)] # <<>>
        /\ queue' = [queue EXCEPT ![request_queue(p)] = Tail(@)]
        /\ via' = [via EXCEPT ![r] = "accept"]
        /\ Hold(t, r)
        /\ UNCHANGED <<objs, size, alloc, max, path_next, fq_lock, reqvars,
                       op, sent, home, lost>>

Accept(t) ==
    LET p == PortOf[t]
        r == Head(queue[request_queue(p)])
    IN  /\ At(t, "idle") /\ queue[request_queue(p)] # <<>>
        /\ queue' = [queue EXCEPT ![request_queue(p)] = Tail(@)]
        /\ transit' = [transit EXCEPT ![r] = p]
        /\ via' = [via EXCEPT ![r] = "accept"]
        /\ Hold(t, r)
        /\ UNCHANGED <<objs, size, alloc, max, path_next, fq_lock, src, dst, path,
                       op, sent, home, lost>>

Respond(t, r) ==
    /\ At(t, "idle") /\ r \in held[t]
    /\ op' = [op EXCEPT ![t] = Frame("respond", r, NoPort, 0)]
    /\ UNCHANGED <<segvars, reqvars, held, history>>

(* Pops the path where it should peek.                                     *)
RespondQueue_pops(t) ==
    LET r == op[t].req
        d == Head(path[r])
    IN  /\ At(t, "respond")
        /\ IF path[r] = <<>> \/ d \notin Usable
           THEN UNCHANGED <<queue, size, path, sent, held>>
           ELSE /\ Enqueue(reply_queue(d), r) /\ Drop(t, r)
                /\ path' = [path EXCEPT ![r] = Tail(@)]
                /\ sent' = [sent EXCEPT ![r] = Tail(@)]
        /\ Return(t)
        /\ UNCHANGED <<objs, alloc, max, path_next, fq_lock, src, dst, transit,
                       via, home, lost>>

(* One turn of the retry loop: a port that cannot receive is taken off the *)
(* path; the request goes to the reply_queue of the first that can.        *)
RespondQueue(t) ==
    LET r == op[t].req
        d == Head(path[r])
    IN  /\ At(t, "respond")
        /\ IF path[r] = <<>> \/ d \notin Bound
           THEN Return(t) /\ UNCHANGED <<queue, size, path, sent, held>>
           ELSE IF d \notin Usable
           THEN /\ path' = [path EXCEPT ![r] = Tail(@)]
                /\ sent' = [sent EXCEPT ![r] = Tail(@)]
                /\ UNCHANGED <<queue, size, held, op>>
           ELSE /\ \/ Enqueue(reply_queue(d), r) /\ Drop(t, r)
                   \/ ~ Room(reply_queue(d)) /\ UNCHANGED <<queue, size, held>>
                /\ Return(t)
                /\ UNCHANGED <<path, sent>>
        /\ UNCHANGED <<objs, alloc, max, path_next, fq_lock, src, dst, transit,
                       via, home, lost>>

(* Takes the port off the wrong end of the path.                           *)
Receive_end(t) ==
    LET p == PortOf[t]
        r == Head(queue[reply_queue(p)])
    IN  /\ At(t, "idle") /\ queue[reply_queue(p)] # <<>>
        /\ queue' = [queue EXCEPT ![reply_queue(p)] = Tail(@)]
        /\ IF path[r] = <<>>
           THEN lost' = lost \cup {r} /\ UNCHANGED <<path, via, sent, held>>
           ELSE /\ path' = [path EXCEPT ![r] = Front(@)]
                /\ sent' = [sent EXCEPT ![r] = Front(@)]
                /\ via' = [via EXCEPT ![r] = "receive"]
                /\ Hold(t, r)
                /\ UNCHANGED lost
        /\ UNCHANGED <<objs, size, alloc, max, path_next, fq_lock, src, dst, transit,
                       op, home>>

(* A reply without a path is dropped and the next one tried.               *)
Receive(t) ==
    LET p == PortOf[t]
        r == Head(queue[reply_queue(p)])
    IN  /\ At(t, "idle") /\ queue[reply_queue(p)] # <<>>
        /\ queue' = [queue EXCEPT ![reply_queue(p)] = Tail(@)]
        /\ IF path[r] = <<>>
           THEN lost' = lost \cup {r} /\ UNCHANGED <<path, via, sent, held>>
           ELSE /\ path' = [path EXCEPT ![r] = Tail(@)]
                /\ sent' = [sent EXCEPT ![r] = Tail(@)]
                /\ via' = [via EXCEPT ![r] = "receive"]
                /\ Hold(t, r)
                /\ UNCHANGED lost
        /\ UNCHANGED <<objs, size, alloc, max, path_next, fq_lock, src, dst, transit,
                       op, home>>

-----------------------------------------------------------------------------
(* The administrative calls, made by a peer on its own port.               *)

(* A loop under fq_lock starts.                                            *)
LockFq(t, l, n) ==
    /\ At(t, "idle") /\ FqFree(PortOf[t])
    /\ fq_lock' = [fq_lock EXCEPT ![PortOf[t]] = t]
    /\ op' = [op EXCEPT ![t] = Frame(l, NoReq, NoPort, n)]
    /\ UNCHANGED <<objs, queue, size, alloc, max, path_next, reqvars, held, history>>

UnlockFq(t) == fq_lock' = [fq_lock EXCEPT ![PortOf[t]] = NoThread]

(* xseg_alloc_requests: the object is taken before i < nr is looked at.    *)
AllocRequests(t, n) == "alloc" \in AdminOps /\ LockFq(t, "alloc", n)

AllocTurn(t) ==
    LET p == PortOf[t]
    IN  /\ At(t, "alloc")
        /\ \/ /\ objs = {} \/ (op[t].i < op[t].nr /\ ~ Room(free_queue(p)))
              /\ UnlockFq(t) /\ Return(t)
              /\ UNCHANGED <<objs, queue, home, lost>>
           \/ /\ op[t].i >= op[t].nr
              /\ \E r \in objs : objs' = objs \ {r} /\ lost' = lost \cup {r}
              /\ UnlockFq(t) /\ Return(t)
              /\ UNCHANGED <<queue, home>>
           \/ /\ op[t].i < op[t].nr /\ Room(free_queue(p))
              /\ \E r \in objs : /\ objs' = objs \ {r}
                                 /\ queue' = [queue EXCEPT ![free_queue(p)] = Append(@, r)]
                                 /\ home' = [home EXCEPT ![r] = p]
              /\ op' = [op EXCEPT ![t].i = @ + 1]
              /\ UNCHANGED <<fq_lock, lost>>
        /\ UNCHANGED <<size, alloc, max, path_next, reqvars, held, via, sent>>

(* xseg_free_requests: likewise a request is popped before i < nr is       *)
(* looked at, and when none was freed it returns with fq_lock held.        *)
FreeRequests(t, n) == "free" \in AdminOps /\ LockFq(t, "free", n)

FreeTurn(t) ==
    LET p == PortOf[t]
        Leave == IF op[t].i = 0 THEN Return(t) /\ UNCHANGED fq_lock
                               ELSE Goto(t, "free_dec") /\ UnlockFq(t)
    IN  /\ At(t, "free")
        /\ \/ /\ Fq(p) = <<>>
              /\ Leave
              /\ UNCHANGED <<objs, queue, home, lost>>
           \/ /\ Fq(p) # <<>> /\ op[t].i >= op[t].nr
              /\ queue' = [queue EXCEPT ![free_queue(p)] = Tail(@)]
              /\ lost' = lost \cup {Head(Fq(p))}
              /\ Leave
              /\ UNCHANGED <<objs, home>>
           \/ /\ Fq(p) # <<>> /\ op[t].i < op[t].nr
              /\ queue' = [queue EXCEPT ![free_queue(p)] = Tail(@)]
              /\ objs' = objs \cup {Head(Fq(p))}
              /\ home' = [home EXCEPT ![Head(Fq(p))] = NoPort]
              /\ op' = [op EXCEPT ![t].i = @ + 1]
              /\ UNCHANGED <<fq_lock, lost>>
        /\ UNCHANGED <<size, alloc, max, path_next, reqvars, held, via, sent>>

FreeDec(t) ==
    /\ At(t, "free_dec")
    /\ alloc' = [alloc EXCEPT ![PortOf[t]] = (@ - op[t].i) % AllocMod]
    /\ Return(t)
    /\ UNCHANGED <<objs, queue, size, max, path_next, fq_lock, reqvars,
                   held, history>>

(* xseg_set_freequeue_size: what does not fit goes back to request_h,      *)
(* alloc_reqs is left alone, and the rest is turned upside down.           *)
SetFreequeueSize(t, n) == "resize" \in AdminOps /\ LockFq(t, "resize", n)

ResizeTurn(t) ==
    LET p == PortOf[t]
    IN  /\ At(t, "resize")
        /\ IF Len(Fq(p)) > op[t].nr
           THEN /\ queue' = [queue EXCEPT ![free_queue(p)] = Tail(@)]
                /\ objs' = objs \cup {Head(Fq(p))}
                /\ home' = [home EXCEPT ![Head(Fq(p))] = NoPort]
                /\ UNCHANGED <<size, fq_lock, op>>
           ELSE /\ queue' = [queue EXCEPT ![free_queue(p)] = Reverse(@)]
                /\ size' = [size EXCEPT ![free_queue(p)] = op[t].nr]
                /\ UnlockFq(t) /\ Return(t)
                /\ UNCHANGED <<objs, home>>
        /\ UNCHANGED <<alloc, max, path_next, reqvars, held,
                       via, sent, lost>>

(* xseg_set_max_requests: the new limit is stored whether it passed the    *)
(* comparison with the size of the free_queue or not.                      *)
SetMaxRequests(t, n) ==
    /\ "limit" \in AdminOps /\ At(t, "idle") /\ FqFree(PortOf[t])
    /\ max' = [max EXCEPT ![PortOf[t]] = n]
    /\ UNCHANGED <<objs, queue, size, alloc, path_next, fq_lock, reqvars, thvars, history>>

SetPathNext(t, hop) ==
    /\ At(t, "idle")
    /\ path_next' = [path_next EXCEPT ![hop[1]] = hop[2]]
    /\ UNCHANGED <<objs, queue, size, alloc, max, fq_lock, reqvars, thvars, history>>

-----------------------------------------------------------------------------
Call(t) ==
    \/ \E d \in Dsts : GetFree(t, d) \/ GetMiss(t, d)
    \/ \E r \in Reqs : \/ Put(t, r) \/ Submit(t, r) \/ Respond(t, r)
                       \/ \E d \in Dsts : Forward(t, r, d)
    \/ Accept(t) \/ Receive(t)
    \/ \E n \in Counts : \/ AllocRequests(t, n) \/ FreeRequests(t, n)
                         \/ SetFreequeueSize(t, n) \/ SetMaxRequests(t, n)
    \/ \E hop \in Hops : SetPathNext(t, hop)

Step(t) ==
    \/ GetAlloc(t) \/ PutFree(t) \/ PutObj(t) \/ PutDec(t)
    \/ Discover(t) \/ SubmitQueue(t) \/ RespondQueue(t)
    \/ AllocTurn(t) \/ FreeTurn(t) \/ FreeDec(t) \/ ResizeTurn(t)

Next == \E t \in Threads : Call(t) \/ Step(t)

Spec == Init /\ [][Next]_vars

-----------------------------------------------------------------------------
(* Properties.                                                             *)

Labels == {"idle", "get_alloc", "put_free", "put_obj", "put_dec", "discover", "submit",
           "respond", "alloc", "free", "free_dec", "resize"}

TypeOK ==
    /\ objs \subseteq Reqs /\ lost \subseteq Reqs
    /\ queue \in [PortQueues -> Seq(Reqs)]
    /\ size \in [PortQueues -> Nat]
    /\ alloc \in [Bound -> 0..AllocMod-1] /\ max \in [Bound -> Nat]
    /\ path_next \in [Ports -> Ports \cup {NoPort}]
    /\ fq_lock \in [Bound -> Threads \cup {NoThread}]
    /\ src \in [Reqs -> Ports \cup {NoPort}]
    /\ dst \in [Reqs -> Ports \cup {NoPort}]
    /\ transit \in [Reqs -> Ports \cup {NoPort}]
    /\ path \in [Reqs -> Seq(Ports)] /\ sent \in [Reqs -> Seq(Ports)]
    /\ held \in [Threads -> SUBSET Reqs]
    /\ op \in [Threads -> [at : Labels, req : Reqs \cup {NoReq}, i : Nat, nr : Nat,
                            port : Ports \cup {NoPort} \cup Dsts]]
    /\ via \in [Reqs -> {"none", "get", "accept", "receive"}]
    /\ home \in [Reqs -> Bound \cup {NoPort}]

Queued(q) == ToSet(queue[q])

(* A request is never in two hands: two queues, two slots of one queue,    *)
(* two threads, a queue and a thread, the free list of request_h and       *)
(* anything else.  Two peers writing to one request is what every call     *)
(* that passes a request on, and the falling back from free_queue to       *)
(* request_h in xseg_get_request and xseg_put_request, must rule out.      *)
NoSharing ==
    /\ \A q \in PortQueues : IsInjective(queue[q])
    /\ \A q, p \in PortQueues : q # p => Queued(q) \cap Queued(p) = {}
    /\ \A q \in PortQueues : Queued(q) \cap (objs \cup lost) = {}
    /\ \A q \in PortQueues, t \in Threads : Queued(q) \cap held[t] = {}
    /\ \A t \in Threads : held[t] \cap (objs \cup lost) = {}
    /\ \A t, u \in Threads : t # u => held[t] \cap held[u] = {}
    /\ objs \cap lost = {}

(* Nor is one forgotten, but by the three leaks that lost records          *)
(* (xseg_alloc_requests and xseg_free_requests take one object too many,   *)
(* xseg_get_request cannot put a request that has no source).              *)
NoneForgotten ==
    \A r \in Reqs : \/ r \in objs \cup lost
                    \/ \E t \in Threads : r \in held[t]
                    \/ \E q \in PortQueues : r \in Queued(q)

(* A reply in the queue of a port carries that port at the head of its     *)
(* path: what the comment in xseg_receive says should never happen, a      *)
(* reply with an empty path, does not, and no reply is misdelivered.       *)
ReplyHasItsPort ==
    \A p \in Bound : \A r \in Queued(reply_queue(p)) :
       path[r] # <<>> /\ Head(path[r]) = p

(* The path is the stack of the ports whose peers really submitted the     *)
(* request and wait for its reply, although xseg_submit takes them from    *)
(* transit_portno, which xseg_accept wrote.                                *)
PathIsSubmitters == path = sent

(* The way back ends where the request was taken: the last port of the     *)
(* path is its source, and who has a request in hand with nowhere left to  *)
(* respond to is the peer that got it, so that xseg_put_request returns it *)
(* to its own port.                                                        *)
EndsAtItsSource ==
    \A r \in Reqs :
      /\ path[r] # <<>> => path[r][Len(path[r])] = src[r]
      /\ \A t \in Threads : r \in held[t] /\ path[r] = <<>> /\ src[r] # NoPort
                             => src[r] = PortOf[t]

Charged(p) == {r \in Reqs : home[r] = p}

(* As long as nobody uses the administrative calls and destinations are    *)
(* valid, alloc_reqs counts exactly the requests a port has taken from     *)
(* request_h and not given back, and those just given back by a            *)
(* xseg_put_request that has not reached its decrement.                    *)
AllocReqsExact ==
    \A p \in Bound : alloc[p] = Cardinality(Charged(p))
       + Cardinality({t \in Threads : At(t, "put_dec") /\ op[t].port = p})

InLoop(t) == op[t].at \in {"alloc", "free", "resize"}

(* While a thread loops with the fq_lock of a port held, no other thread   *)
(* takes a request from that free_queue or puts one there.                 *)
FqLockExcludes ==
    [][\A p \in Bound, t \in Threads :
         fq_lock[p] = t /\ InLoop(t) /\ queue'[free_queue(p)] # queue[free_queue(p)]
         => \A u \in Threads \ {t} : held'[u] = held[u] /\ op'[u] = op[u]]_vars
=============================================================================
