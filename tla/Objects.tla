------------------------------ MODULE Objects ------------------------------
(***************************************************************************)
(* What lives in the heap of a segment: xtypes/xheap.c, which gives out    *)
(* chunks and takes them back into one free list per size; xtypes/xobj.c,  *)
(* which splits chunks into objects; and of xseg.c the ports with their    *)
(* three queues and the requests with their buffers.  The lock of the heap *)
(* and that of a handler are held for a whole call and nothing waits under *)
(* them, so that a call is one step.  Sizes are in bytes.                  *)
(***************************************************************************)
EXTENDS Integers, Sequences, FiniteSets

CONSTANTS HeapSize, alignment_unit,
          HeaderSize,     \* sizeof(struct xheap_header)
          PtrSize,        \* sizeof(xptr), sizeof(xhashidx)
          XhashSize,      \* sizeof(struct xhash)
          HashSlots,      \* slots of the first table of a handler: 2^3 in the code
          AllocNr,        \* objects asked for at a time: 64 in the code
          ObjSize,        \* of the handlers: the size of an object
          Root,           \* the handler of handlers, object_handlers
          RequestH, PortH,
          QueueBytes,     \* what __alloc_queue asks for
          Lens,           \* pairs of a targetlen and a datalen
          MaxRequests, MaxPorts,    \* bounds: in use at a time
          NULL

Handlers == DOMAIN ObjSize

heap_page == 2 ^ alignment_unit

ASSUME ObjectsAssumption ==
         /\ HeapSize \in Nat /\ alignment_unit \in Nat
         /\ HeaderSize \in Nat \ {0} /\ PtrSize \in Nat \ {0}
         /\ heap_page >= HeaderSize    \* or xheap_init refuses
         /\ heap_page >= 3 * PtrSize   \* XSEG_MIN_PAGE_SIZE is far more
         /\ XhashSize \in Nat /\ HashSlots \in Nat \ {0} /\ AllocNr \in Nat
         /\ ObjSize \in [Handlers -> Nat \ {0}]
         /\ {Root, RequestH, PortH} \subseteq Handlers
         /\ Root # RequestH /\ Root # PortH /\ RequestH # PortH
         /\ QueueBytes \in Nat /\ Lens \subseteq Nat \X Nat

(* What a handler is, and an object: its chunk and its place there.        *)
Object == Nat \X Nat
Handler == [self : Nat \cup Object, obj_size : Nat, hash : Nat, slots : Nat,
            chunks : SUBSET Nat, list : Seq(Object), nr_free : Int, nr_allocated : Int]

ASSUME NullAssumption == NULL \notin Nat /\ NULL \notin Object /\ NULL \notin Handler

(* No caller asks for more than the whole heap, for which there is no list. *)
ASSUME RequestsFit ==
         /\ \A t \in Handlers : ObjSize[t] <= HeapSize /\ AllocNr * ObjSize[t] <= HeapSize
         /\ XhashSize + 2 * PtrSize * HashSlots <= HeapSize
         /\ QueueBytes <= HeapSize
         /\ \A l \in Lens : l[1] + l[2] <= HeapSize

VARIABLES heap,      \* cur, free[r], and the size in the header of each chunk
          objh,      \* the handlers that have been made
          reqs,      \* the requests in use, each with its buffer
          ports      \* the ports in use, each with its queues

vars == <<heap, objh, reqs, ports>>

-----------------------------------------------------------------------------
(* xheap.c                                                                 *)
SMALL_LIMIT == 5
MEDIUM_LIMIT == 10
MEDIUM_AL_UNIT == SMALL_LIMIT - 3
LARGE_AL_UNIT == MEDIUM_LIMIT - 3

Small(bytes) == bytes < heap_page * 2 ^ SMALL_LIMIT
Medium(bytes) == ~Small(bytes) /\ bytes < heap_page * 2 ^ MEDIUM_LIMIT

(* x up to a multiple of the unit, a power of two.                         *)
__align(x, unit) == ((x - 1) \div unit + 1) * unit

__get_alloc_bytes(bytes) ==
    __align(bytes + HeaderSize,
            CASE Small(bytes)  -> heap_page
              [] Medium(bytes) -> heap_page * 2 ^ MEDIUM_AL_UNIT
              [] OTHER         -> heap_page * 2 ^ LARGE_AL_UNIT)

ChunkBytes(bytes) == __get_alloc_bytes(bytes) - HeaderSize

IndexOf(b) ==
    CASE Small(b) -> b \div heap_page
      [] Medium(b) ->
           2 ^ SMALL_LIMIT - 2 ^ (SMALL_LIMIT - MEDIUM_AL_UNIT)
           + b \div (heap_page * 2 ^ MEDIUM_AL_UNIT)
      [] OTHER ->
           2 ^ SMALL_LIMIT + 2 ^ MEDIUM_LIMIT - 2 ^ (SMALL_LIMIT - MEDIUM_AL_UNIT)
           - 2 ^ (MEDIUM_LIMIT - (LARGE_AL_UNIT - MEDIUM_AL_UNIT))
           + b \div (heap_page * 2 ^ LARGE_AL_UNIT)

__get_index(bytes) == IndexOf(ChunkBytes(bytes))

(* The memory of the heap is aligned; the lists take its beginning, page   *)
(* by page and up to where the first header goes.  The last list, which    *)
(* the loop does not clear, is empty in a new mapping.                     *)
xheap_init ==
    LET r == __get_index(HeapSize)
    IN  [cur |-> __align(PtrSize * r + HeaderSize, heap_page) - HeaderSize,
         free |-> [i \in 0..r |-> <<>>],
         size |-> [c \in {} |-> 0]]

(* The function f, with the value v at x as well.                          *)
With(f, x, v) == [y \in DOMAIN f \cup {x} |-> IF y = x THEN v ELSE f[y]]
Without(f, x) == [y \in DOMAIN f \ {x} |-> f[y]]

(* A chunk from the list of the size, or a fresh one, or none.             *)
Taken(h, r, bytes) ==
    IF h.free[r] # <<>>
    THEN [heap |-> [h EXCEPT !.free[r] = Tail(@)], addr |-> Head(h.free[r])]
    ELSE IF h.cur + HeaderSize + bytes > HeapSize
    THEN [heap |-> h, addr |-> NULL]
    ELSE [heap |-> [h EXCEPT !.cur = @ + HeaderSize + bytes,
                             !.size = With(@, h.cur + HeaderSize, bytes)],
          addr |-> h.cur + HeaderSize]

(* A chunk of another size than the one asked for is given to nobody, and  *)
(* does not go back to the list it was popped from.                        *)
Checked(got, bytes) ==
    IF got.addr = NULL \/ got.heap.size[got.addr] = bytes THEN got
    ELSE [got EXCEPT !.addr = NULL]

xheap_allocate(h, bytes) ==
    Checked(Taken(h, __get_index(bytes), ChunkBytes(bytes)), ChunkBytes(bytes))

xheap_free(h, addr) == [h EXCEPT !.free[__get_index(h.size[addr])] = <<addr>> \o @]

-----------------------------------------------------------------------------
(* xobj.c                                                                  *)
xhash_get_alloc_size(slots) == XhashSize + 2 * PtrSize * slots

(* A handler as xobj_handler_init leaves it, or NULL when there is no      *)
(* memory for its table.                                                   *)
HandlerIn(got, t, self) ==
    [heap |-> got.heap,
     obj_h |-> IF got.addr = NULL THEN NULL
               ELSE [self |-> self, obj_size |-> ObjSize[t], hash |-> got.addr,
                     slots |-> HashSlots, chunks |-> {}, list |-> <<>>,
                     nr_free |-> 0, nr_allocated |-> 0]]

xobj_handler_init(h, t, self) ==
    HandlerIn(xheap_allocate(h, xhash_get_alloc_size(HashSlots)), t, self)

(* The objects threaded in a chunk: the last byte of it stays unused.      *)
Threaded(mem, bytes, obj_size) ==
    [k \in 1..(bytes - 1) \div obj_size |-> <<mem, k - 1>>]

(* Room in the table of chunks for one more; the old table is freed once   *)
(* the new one has replaced it.                                            *)
Rehashed(new, o) ==
    IF new.addr = NULL THEN [heap |-> new.heap, obj_h |-> o, r |-> -1]
    ELSE [heap |-> xheap_free(new.heap, o.hash),
          obj_h |-> [o EXCEPT !.hash = new.addr, !.slots = 2 * @],
          r |-> 0]

grow_check(o) == LET u == Cardinality(o.chunks) IN u \div 2 + u >= o.slots

HashInsert(h, o) ==
    IF grow_check(o) THEN Rehashed(xheap_allocate(h, xhash_get_alloc_size(2 * o.slots)), o)
    ELSE [heap |-> h, obj_h |-> o, r |-> 0]

(* The objects of the chunk mem go on the list, or the chunk is freed.     *)
WithChunk(o, mem, objs, nr) ==
    [o EXCEPT !.chunks = @ \cup {mem}, !.nr_free = @ + nr, !.nr_allocated = @ + nr,
              !.list = objs \o @]

Listed(ins, mem, objs, nr) ==
    IF ins.r < 0 THEN [ins EXCEPT !.heap = xheap_free(@, mem)]
    ELSE [ins EXCEPT !.obj_h = WithChunk(@, mem, objs, nr)]

Split(got, o, bytes) ==
    IF Threaded(got.addr, bytes, o.obj_size) = <<>>
    THEN [heap |-> xheap_free(got.heap, got.addr), obj_h |-> o, r |-> -1]
    ELSE Listed(HashInsert(got.heap, o), got.addr,
                Threaded(got.addr, bytes, o.obj_size), bytes \div o.obj_size)

ChunkFor(got, o) ==
    IF got.addr = NULL THEN [heap |-> got.heap, obj_h |-> o, r |-> -1]
    ELSE Split(got, o, got.heap.size[got.addr])

xobj_alloc_obj(h, o, nr) == ChunkFor(xheap_allocate(h, nr * o.obj_size), o)

(* xobj_get_obj with X_ALLOC                                               *)
First(got) ==
    IF got.r < 0 THEN [heap |-> got.heap, obj_h |-> got.obj_h, obj |-> NULL]
    ELSE [heap |-> got.heap,
          obj_h |-> [got.obj_h EXCEPT !.list = Tail(@), !.nr_free = @ - 1],
          obj |-> Head(got.obj_h.list)]

xobj_get_obj(h, o) ==
    First(IF o.list # <<>> THEN [heap |-> h, obj_h |-> o, r |-> 0]
          ELSE xobj_alloc_obj(h, o, AllocNr))

(* Forgets to count the object.                                            *)
xobj_put_obj_uncounted(o, obj) == [o EXCEPT !.list = <<obj>> \o @]

xobj_put_obj(o, obj) == [o EXCEPT !.list = <<obj>> \o @, !.nr_free = @ + 1]

(* xobj_iterate: what the loops of xseg-tool and __xobj_check go over.     *)
Iterated(o, h) ==
    UNION {{<<mem, k>> : k \in 0..h.size[mem] \div o.obj_size - 1} : mem \in o.chunks}

-----------------------------------------------------------------------------
(* xseg_get_objh: a handler in an object of Root.                          *)
HandlerFrom(got, made, hs, t) ==
    IF got.obj = NULL THEN [heap |-> got.heap, objh |-> [hs EXCEPT ![Root] = got.obj_h]]
    ELSE [heap |-> made.heap,
          objh |-> IF made.obj_h = NULL
                   THEN [hs EXCEPT ![Root] = xobj_put_obj(got.obj_h, got.obj)]
                   ELSE [hs EXCEPT ![Root] = got.obj_h, ![t] = made.obj_h]]

InitIn(got, hs, t) == HandlerFrom(got, xobj_handler_init(got.heap, t, got.obj), hs, t)

xseg_get_objh(s, t) == InitIn(xobj_get_obj(s.heap, s.objh[Root]), s.objh, t)

(* initialize_segment: a chunk for Root, then the two handlers; a step     *)
(* that fails fails it.                                                    *)
OnlyRoot(root) ==
    [heap |-> root.heap,
     objh |-> [t \in Handlers |-> IF t = Root THEN root.obj_h ELSE NULL]]

Init ==
    /\ xheap_init.cur < HeapSize - heap_page
    /\ \E mem \in {xheap_allocate(xheap_init, ObjSize[Root])} :
       \E root \in {xobj_handler_init(mem.heap, Root, mem.addr)} :
       \E first \in {xseg_get_objh(OnlyRoot(root), RequestH)} :
       \E second \in {xseg_get_objh(first, PortH)} :
          /\ mem.addr # NULL /\ root.obj_h # NULL
          /\ first.objh[RequestH] # NULL /\ second.objh[PortH] # NULL
          /\ heap = second.heap /\ objh = second.objh
    /\ reqs = [r \in {} |-> NULL]
    /\ ports = [p \in {} |-> NULL]

(* The driver of a peer type asks for the handler of its descriptors.      *)
get_objh(t) ==
    /\ objh[t] = NULL
    /\ \E s \in {xseg_get_objh([heap |-> heap, objh |-> objh], t)} :
          heap' = s.heap /\ objh' = s.objh
    /\ UNCHANGED <<reqs, ports>>

(* xseg_get_request, when no free queue has one.                           *)
NoBuffer == [buffer |-> NULL, bufferlen |-> 0, targetlen |-> 0, datalen |-> 0]

xseg_get_request ==
    /\ Cardinality(DOMAIN reqs) < MaxRequests
    /\ \E got \in {xobj_get_obj(heap, objh[RequestH])} :
          /\ heap' = got.heap
          /\ objh' = [objh EXCEPT ![RequestH] = got.obj_h]
          /\ reqs' = IF got.obj = NULL THEN reqs ELSE With(reqs, got.obj, NoBuffer)
    /\ UNCHANGED ports

free_buffer(h, req) == IF req.buffer = NULL THEN h ELSE xheap_free(h, req.buffer)

(* xseg_put_request, when no free queue takes it.                          *)
xseg_put_request(r) ==
    /\ heap' = free_buffer(heap, reqs[r])
    /\ objh' = [objh EXCEPT ![RequestH] = xobj_put_obj(@, r)]
    /\ reqs' = Without(reqs, r)
    /\ UNCHANGED ports

(* The request that xseg_prep_request leaves, and the heap.  When there is *)
(* no buffer the old lengths stay.                                         *)
Buffered(got, req, targetlen, datalen) ==
    [heap |-> got.heap,
     req  |-> IF got.addr = NULL THEN [req EXCEPT !.buffer = NULL, !.bufferlen = 0]
              ELSE [buffer |-> got.addr, bufferlen |-> got.heap.size[got.addr],
                    targetlen |-> targetlen, datalen |-> datalen]]

prep(h, req, targetlen, datalen) ==
    Buffered(xheap_allocate(h, targetlen + datalen), req, targetlen, datalen)

xseg_prep_request(r, targetlen, datalen) ==
    /\ reqs[r] = NoBuffer
    /\ \E p \in {prep(heap, reqs[r], targetlen, datalen)} :
          heap' = p.heap /\ reqs' = [reqs EXCEPT ![r] = p.req]
    /\ UNCHANGED <<objh, ports>>

(* A buffer that is as long as the data alone will do.                     *)
Fits_data(req, targetlen, datalen) == req.bufferlen >= datalen

Fits(req, targetlen, datalen) == req.bufferlen >= datalen + targetlen

xseg_resize_request(r, targetlen, datalen) ==
    /\ IF Fits(reqs[r], targetlen, datalen)
       THEN /\ reqs' = [reqs EXCEPT ![r].targetlen = targetlen, ![r].datalen = datalen]
            /\ UNCHANGED heap
       ELSE \E p \in {prep(free_buffer(heap, reqs[r]), reqs[r], targetlen, datalen)} :
               heap' = p.heap /\ reqs' = [reqs EXCEPT ![r] = p.req]
    /\ UNCHANGED <<objh, ports>>

-----------------------------------------------------------------------------
(* The three queues of a port, one after the other until one cannot be had. *)
Queue(got, qs) ==
    IF got.addr = NULL THEN [heap |-> got.heap, qs |-> qs, ok |-> FALSE]
    ELSE [heap |-> got.heap, qs |-> Append(qs, got.addr), ok |-> TRUE]

__alloc_queue(s) == IF s.ok THEN Queue(xheap_allocate(s.heap, QueueBytes), s.qs) ELSE s

Queues(h) == __alloc_queue(__alloc_queue(__alloc_queue([heap |-> h, qs |-> <<>>, ok |-> TRUE])))

(* The order in which xseg_alloc_port, when it has not got all three, and  *)
(* xseg_free_port give them back.                                          *)
FreeQueue(h, qs, i) == IF i <= Len(qs) THEN xheap_free(h, qs[i]) ELSE h

FreeQueues(h, qs) == FreeQueue(FreeQueue(FreeQueue(h, qs, 2), qs, 1), qs, 3)

xseg_alloc_port ==
    /\ Cardinality(DOMAIN ports) < MaxPorts
    /\ \E got \in {xobj_get_obj(heap, objh[PortH])} :
          IF got.obj = NULL
          THEN /\ heap' = got.heap
               /\ objh' = [objh EXCEPT ![PortH] = got.obj_h]
               /\ UNCHANGED ports
          ELSE \E q \in {Queues(got.heap)} :
                 IF q.ok
                 THEN /\ heap' = q.heap
                      /\ objh' = [objh EXCEPT ![PortH] = got.obj_h]
                      /\ ports' = With(ports, got.obj, q.qs)
                 ELSE /\ heap' = FreeQueues(q.heap, q.qs)
                      /\ objh' = [objh EXCEPT ![PortH] = xobj_put_obj(got.obj_h, got.obj)]
                      /\ UNCHANGED ports
    /\ UNCHANGED reqs

(* Forgets the reply queue.                                                *)
xseg_free_port_two(p) ==
    /\ heap' = FreeQueues(heap, SubSeq(ports[p], 1, 2))
    /\ objh' = [objh EXCEPT ![PortH] = xobj_put_obj(@, p)]
    /\ ports' = Without(ports, p)
    /\ UNCHANGED reqs

xseg_free_port(p) ==
    /\ heap' = FreeQueues(heap, ports[p])
    /\ objh' = [objh EXCEPT ![PortH] = xobj_put_obj(@, p)]
    /\ ports' = Without(ports, p)
    /\ UNCHANGED reqs

Next ==
    \/ \E t \in Handlers \ {Root, RequestH, PortH} : get_objh(t)
    \/ xseg_get_request
    \/ \E r \in DOMAIN reqs : xseg_put_request(r)
    \/ \E r \in DOMAIN reqs, l \in Lens :
         \/ xseg_prep_request(r, l[1], l[2])
         \/ xseg_resize_request(r, l[1], l[2])
    \/ xseg_alloc_port
    \/ \E p \in DOMAIN ports : xseg_free_port(p)

Spec == Init /\ [][Next]_vars
-----------------------------------------------------------------------------
Made == {t \in Handlers : objh[t] # NULL}

InUse(t) ==
    CASE t = RequestH -> DOMAIN reqs
      [] t = PortH    -> DOMAIN ports
      [] t = Root     -> {objh[x].self : x \in Made \ {Root}}
      [] OTHER        -> {}

(* Everything that refers to a chunk: a handler whose objects are in it,   *)
(* or whose table it is, or that is in it; a buffer, a queue, a free list. *)
OfHandlers(c) == {<<"objects", t, 0>> : t \in {t \in Made : c \in objh[t].chunks}}
                   \cup {<<"hash", t, 0>> : t \in {t \in Made : c = objh[t].hash}}
OfRoot(c) == {<<"self", t, 0>> : t \in {t \in {Root} : c = objh[t].self}}
OfRequests(c) == {<<"buffer", r, 0>> : r \in {r \in DOMAIN reqs : c = reqs[r].buffer}}
OfPorts(c) ==
    UNION {{<<"queue", p, i>> : i \in {i \in DOMAIN ports[p] : c = ports[p][i]}} :
           p \in DOMAIN ports}
OfLists(c) ==
    UNION {{<<"free", r, i>> : i \in {i \in DOMAIN heap.free[r] : c = heap.free[r][i]}} :
           r \in DOMAIN heap.free}

Holders(c) == OfHandlers(c) \cup OfRoot(c) \cup OfRequests(c) \cup OfPorts(c) \cup OfLists(c)

(* The two lists with chunks of two sizes: a request just below the limit  *)
(* of the small (medium) sizes is over it once it has its header.          *)
Mixed == {__get_index(heap_page * 2 ^ SMALL_LIMIT), __get_index(heap_page * 2 ^ MEDIUM_LIMIT)}

(* Whatever runs out of memory at whichever point (the chunk of objects,   *)
(* the larger table, the second or third queue of a port, the new buffer), *)
(* every chunk the heap has given out has one owner, or is on one free     *)
(* list: none is lost on an error path and none is given back twice.  Only *)
(* xheap_allocate itself loses chunks, those of the two mixed lists.       *)
ChunksOnce ==
    \A c \in DOMAIN heap.size :
       \/ Cardinality(Holders(c)) = 1
       \/ Holders(c) = {} /\ __get_index(heap.size[c]) \in Mixed

(* An object is either on the list of its handler, once, or in use, and    *)
(* every object in use is seen by xobj_iterate.  The counters agree with   *)
(* each other; where the objects fill a chunk exactly they count one that  *)
(* was never threaded.                                                     *)
ObjectsOnce ==
    \A t \in Made :
       LET o == objh[t]
           listed == {o.list[i] : i \in DOMAIN o.list}
           objs == UNION {LET th == Threaded(c, heap.size[c], o.obj_size)
                          IN  {th[i] : i \in DOMAIN th} : c \in o.chunks}
       IN  /\ Cardinality(listed) = Len(o.list)
           /\ listed \cup InUse(t) = objs
           /\ listed \cap InUse(t) = {}
           /\ InUse(t) \subseteq Iterated(o, heap)
           /\ o.nr_allocated = o.nr_free + Cardinality(InUse(t))
           /\ o.nr_free - Len(o.list) \in 0..Cardinality(o.chunks)

(* The target and the data of a request lie within its buffer, after any   *)
(* number of resizes, failed ones included, and the buffer, with its       *)
(* header, overlaps no other chunk and not the end of the heap.            *)
BuffersApart ==
    \A r \in DOMAIN reqs :
       LET q == reqs[r]
       IN  q.buffer # NULL =>
             /\ q.targetlen + q.datalen <= q.bufferlen
             /\ q.bufferlen = heap.size[q.buffer]
             /\ q.buffer + q.bufferlen <= HeapSize
             /\ \A c \in DOMAIN heap.size \ {q.buffer} :
                   \/ q.buffer + q.bufferlen <= c - HeaderSize
                   \/ c + heap.size[c] <= q.buffer - HeaderSize
=============================================================================
