# libxseg in TLA+

libxseg lets processes on one machine ("peers") exchange requests through a
segment of shared memory. A peer binds a port, takes requests from the segment,
submits them to the ports of other peers and receives them back as replies.
This directory models the parts of it that are hard to get right, checks them
with TLC on small instances and proves the central ones with TLAPS for all
instances. `PROJECT.json` maps every definition to the lines it models and lists
runs, mutants, findings, hazards and theorems.

## Inventory

| Component | State | Operations | Interaction | What is hard, what makes it correct |
|---|---|---|---|---|
| `xtypes/xq.c` | head, tail (free-running, wrapping), size, slots, a lock | append, pop, peek at either end, check, resize, head_to_tail | every queue of ports and the path of a request is one | counters that wrap; two locks in head_to_tail; it must behave as a bounded deque and never wait in a circle |
| `xlock.h` | one owner word: pid, tid, pc | acquire, try_lock, release; recoverlocks of the tool | guards everything in the segment | owners that crash; 16-bit pids; mutual exclusion of live threads, no lock stays with the dead |
| requests (`xseg.c`) | per port three queues, fq/rq/pq/port locks, alloc_reqs, max_alloc_reqs, path_next; per request source, transit, destination, path | get, put, submit, forward, accept, respond, receive, alloc/free_requests, set_freequeue_size, set_max_requests, set_path_next | xq, xobj, xheap, ports | a request must always be in exactly one place; replies must retrace the path; counters and limits |
| signalling (`xseg_posix.c`, `xseg_posixfd.c`, `xseg_pthread.c`) | waitcue / flag and pipe / pids[] | prepare_wait, cancel_wait, wait_signal, signal | called around submit, respond, accept, receive | a wake-up between looking and sleeping; several threads, one signal |
| ports (`xseg.c`) | ports[], owner, flags, signal descriptor | bind_port, bind_dynport, leave_dynport, enable_driver, disable_driver, alloc_port, free_port | segment lock, xobj, xheap, drivers | publication before flags, forced re-bind, locks left held |
| segment (`xseg.c`, `xseg_posix.c`, `xseg_user.c`) | type and peer registry, the shm name, segment header, join_ref | initialize, create, destroy, join, leave, unregister | domain lock, join mutex, drivers | error paths, locks left held, joining what is being created |
| `xobj.c`, `xheap.c` | free lists, counters, hash of chunks | get, put, alloc, iterate, isFree; allocate, free | requests, ports, queues | chunk arithmetic, use of a list under a lock |
| `xcache.c` with `xhash.c`, `xbinheap.c`, `xlist.c` | entries, reference counts, two hash tables, replacement order | lookup, insert, put, evict, invalidate, close | callbacks of the user | an entry put, evicted and inserted again at once; the table with deleted slots |
| `xworkq.c`, `xwaitq.c` | a queue of jobs, one or two locks | enqueue, signal | callers' conditions and locks | jobs stranded between a check and a try_lock |
| `xpool.c` | slots and free list | add, remove, peek | one lock | index arithmetic |
| `xseg-tool.c` | none of its own | recovery (recoverlocks, verify, recoverport), load commands, reports | everything above, while peers run | repairs of a live segment |

The system calls behind the drivers' mapping of memory, the protocol's
structures, the Python binding and what the tool prints are not modelled:
layout, input and output.

## Plan

1. **Done**: `Requests` and its proofs over `Xq`, which implements `Deque`; `Xlock`
   and `Signals` with theirs; `Xcache`, and `XcacheHeap` for its other order of evictions.
2. **Done**: what these stand on. `Ports` (binding and drivers), `Segment`
   (create, destroy, join, leave), `Objects` (heap, objects, buffers), the
   containers `Xhash`, `Xpool` and `Xbinheap` with the abstract `Dictionary`,
   `Ring` and `PriorityQueue`, and `Works` (work and wait queues).
3. Left: verify and recoverport of xseg-tool on `Requests` (a module `Recovery`), and the heap
   mode of the cache with rm_entries.
4. **Done**: proofs of every safety property that a run checks, and of the four
   refinements, by `Xq`, `Xhash`, `Xpool` and `Xbinheap`. Left to TLC is liveness.

How they fit together: `Requests` takes queues to be sequences (`Xq`), `request_h`
to be a set of free objects (`Objects`), ports as bound, some of them without
flags yet (`Ports`), and locks as atomic (`Xlock`). `Xcache` takes its tables to be
functions (`Xhash`) and its access times to be an order, as the array of times gives it;
`XcacheHeap` puts the heap (`Xbinheap`) in its place. `Objects`
takes the table of chunks to be a set that grows when `grow_check` says so (`Xhash`).

## The modules

**Deque, Xq.** `Xq` has the two counters modulo `IdxMod` (2^64 in the code), the
slots and the lock word of each queue. An operation that takes one lock is one
step (`Locked`): nobody reads the structure without it. `xq_head_to_tail` is two
steps, one for each lock, so that calls in opposite directions meet half way. Its
threads are `Callers` and its actions `XqInit` and `XqNext`, because `MCSignals` puts it
into the run of `Signals`: a behaviour is about one of the two.
`Deque` is what users rely on: a bounded sequence. The mapping is `Content`, the
elements from tail + 1 to head - 1. `Deque!Resize` turns the queue upside down,
because `__xq_resize` writes from the other end; a port's queue that grows hands
its requests out in reversed order.

**Requests.** Threads of peers make calls; a step is one critical section, or one
turn of a loop under `fq_lock`. `op[t]` is the call a thread is in; `held[t]` the
requests it has in hand between calls. Queues are sequences from head to tail,
which `Xq` justifies. The heap and `request_h` are abstract: a queue may be
doubled up to `MaxQueueSize`, an object is any of the free ones. History
variables: `via` (how a request came to its holder), `sent` (who really
submitted it), `home` (whose `alloc_reqs` it counts for), `lost` (dropped by
the code: `xseg_alloc_requests` and `xseg_free_requests` each take one object
more than they use, and `xseg_get_request` cannot put back a request that has no
source). Left as in the code: the return with `fq_lock` held of
`xseg_free_requests`, `alloc_reqs` that wraps below zero, and the limit that is
stored whether it was accepted or not.

Peers are taken to follow the library's protocol: they use the port they bound
and operate on requests they hold. `Resubmit` says whether a peer submits a
request again that it has received back.

**Xlock.** One lock, its threads, crashes of processes anywhere, and
`check_and_unlock` in two steps (the comparison, the release). recoverlocks is run for pids
that are dead; the owner word has `pid % PidMod`.

**Signals.** One port, the threads that serve it, producers. `peer_type` selects
the driver, once, in `Init`. `cue` is `waitcue`, `flag` or `pids[]`; `pending` a
pending SIGIO or a byte in the pipe, both of which do not count. `xseg_signal`
reads the entries one by one and signals the first one set, in separate steps;
posixfd empties its pipe in separate steps. `After` is the loop of the peer: most commands of
xseg-tool prepare, look, and then wait or cancel (`PrepareFirst`), `cmd_wait`
looks first. Looking into the queue and submitting take the queue's lock, whose
atomic operation also orders the store to the cue before the look.

**Xcache.** The cache with its two tables, the nodes and their reference counts.
`cache->lock` is a variable, because an insertion holds it over several sections
of `rm_lock` and puts, which do not take it, come in between; what runs under
`rm_lock` is one step. `call[t].puts` are the puts a call has still to make after
it released the lock, `held` and `new` what the callers have, `dropped` a history
of the names that were taken out by a caller. A table is the set of its nodes, since
its keys point to the names inside them (`xhash.c`, which also refuses at the
limit). The module is the cache with `XCACHE_LRU_ARRAY`: a removal sets the node's own time
to the maximum, and the victim is the least of the others, so that `lru`, the order of the
last accesses of the entries, says all there is in the array; the 64-bit counter of accesses
does not wrap. The callbacks only matter where they
decide: on_init may fail, on_finalize may get the entry again. on_node_init is
taken to be set, as only then the counts start at zero. A caller of
`xcache_remove` has a handler that is cached: with an older one the code would
delete the younger entry of the same name. `xcache_close` is in `CloseNext` only.

**XcacheHeap.** The same cache with `XCACHE_LRU_HEAP`: `heap` is an `Xbinheap` of least
first, `ce` the handler and name in each node, `time` the counter. An action is that of
`Xcache` with what it does to the heap; `lru` stays, as the history the heap should agree
with. It does not: a removal (`Forget`) raises the key of the entry, which takes it down in
a minimum heap, and extracts the root, another entry's node. What follows is all there: the
freed node that stays in the heap, the access of a handler that another node has by now,
the access that finds the heap full, the victim that is looked for by the name in its node
(`Victim`), and the insertion that fails (`InsertFails`; it takes a cache of three entries to
get there). Left out are rm_entries,
`xcache_close` and an on_init that fails. Nothing else of what `Xcache` shows is claimed
for this mode.

**Works.** One queue, of one of four sorts: a work queue with or without the lock
of its owner, a wait queue, and a wait queue with `XWAIT_SIGNAL_ONE`. `q` and
`size` are the xq; growing turns it round, as `__xq_resize` does. A signaller takes
the address of the xq and reads its counters in two steps; when the queue was
changed or replaced between them (`torn`), it may see any count. Popping is under
the lock, running a job is a step of its own, outside it for a wait queue.
`xworkq_enqueue` appends and returns; it does not signal. `owes` is a history: who put a
job into a work queue and did not signal it since (`signal_only`). The code leaves that to
its callers, and so NoJobStranded and JobsRun are about callers that do it, at any later
time. The condition of a wait queue comes true by somebody who then signals, as
`tests/xwaitq_test.c` does, and ends by itself. `TestSpec` is what `tests/xworkq_test.c`
does: it only enqueues.

**Dictionary, Xhash.** The slots with their probes: `UNUSED`, `DUMMY` and valid
items, `used` and `dummies`, growing, shrinking and the retry of the caller
(`xseg_set_req_data`, `xseg_get_req_data`), whose malloc may fail. The hash is a
constant; the run has keys that collide. Insert stops at the first slot that is not valid, so
that a key inserted while it is there may take a second slot. The keys of
`Reinsert` are used like that, the others are not, and for these the table is a
`Dictionary`. `xhash_update` of a key that is not there never returns and is not called.

**Ring, Xpool.** The nodes of the pool with their links and the free list through
them; what users see is a ring with a head that moves.

**PriorityQueue, Xbinheap.** The array with `indexes[]`; what users see is a bag of
keys and values, each under the handler its insertion returned. Increasing and
decreasing a key are called with keys that do go up or down. `rise` and `sink` are one call
of `heapify_up` and `heapify_down`, which call themselves for the next node on the path; a
path has less than `HeapSize` steps, and a call beyond its end changes nothing.

`MCContainers` puts the three and `Xlock` into one run: a behaviour uses one of them.

**Objects.** The heap by byte addresses with the code's sizes, headers and
indices; handlers with their lists, counters and table of chunks; the requests
with their buffers and the ports with their queues. The lock of a heap or handler is
held for a whole call, nobody waits under it, and so a call is one step. The heap
of the run is small, so that memory runs out at every allocation. Two of the free
lists hold chunks of two sizes (`Mixed`): a chunk of the wrong one is popped,
refused and lost. A buffer that cannot be had leaves the old lengths in the request.
The number of objects of a chunk that they fill exactly is one too many. The table of
chunks of a handler begins with `HashSlots` slots (2^3 in the code) and doubles. No caller
asks for more than the whole heap (`RequestsFit`), for which there is no list; that the
tables never do, however often they double, is proved.

**Ports.** The segment lock, `ports[]`, the port objects, the table of drivers and
each process's cache of it. A bind is three steps: choosing the port, getting a
descriptor, storing peer type and owner. `torn` are ports whose binder died before the
last. A bind by number takes a port from its owner, and a failing one frees it; the
ports a process has been given (`mine`) are therefore promised to it only above
`dynports`. `DynRefused` is the return with the lock held.

**Segment.** The name of the shm object and the generations it denoted, each with
how far its initialisation has come: `empty` (ftruncate failed), `blank`, `version`,
`ready`. Administrators create in four steps and destroy in two, both by name, and
may die between them; a create that fails unlinks whatever has the name. Threads
join in four steps under `xseg_joinref_mutex`. `raced` is a history of the creates that
ran beside a join. Unset pointers of a half-made segment point to its first byte and
pass `xseg_validate_pointers`. Most failing exits of a join keep their reference, so that the
segment is then never unmapped. A missing type is looked for in a plugin under the
domain lock, where registering it waits for that lock for ever. `cmd_destroy` reads
the handle `xseg_leave` has just freed; its memory is taken to be unchanged still.

## The runs

| Run | Bounds | Shows |
|---|---|---|
| `requests` | 2 peers, 2 requests, 4 port numbers (one unbound, one without flags), queues 1 growing to 2, paths up to 2 | replies retrace the path (ReplyHasItsPort, PathIsSubmitters, EndsAtItsSource); AllocReqsExact |
| `requests_admin` | 2 threads on one port, all administrative calls with 1 and 2, invalid destinations | TypeOK, NoSharing, NoneForgotten, FqLockExcludes |
| `signals` | 3 drivers, 1 or 2 threads, 2 producers, 3 requests, queue of 2; by themselves 2 threads on 2 queues, sizes 1 and 2, counters modulo 4 | NoLostWakeup; EachIsTaken; RefinesDeque over every wrap of both counters, full and empty rings; NoWaitCycle |
| `xcache` | XCACHE_LRU_ARRAY, 2 threads with 2 references each at most, 2 entries, 4 nodes, 3 names, with and without rm_entries | RefExact, FreeIsFree, OneEntryPerName, InsertNeverFails, NoLostNode |
| `xcache_close` | the same with xcache_close | violated: HeldNotFreed |
| `xcache_heap` | 1 thread, XCACHE_LRU_HEAP, 2 entries, 4 nodes, 3 names, 4 accesses | violated: OldestEvicted |
| `works` | 3 threads, 3 jobs, a queue of 1 that doubles, the four sorts of queue | EachJobOnce; NoJobStranded; JobsRun |
| `works_test` | 2 threads that only enqueue 2 jobs in a work queue | violated: TestsExpectation |
| `containers` | 3 colliding keys in tables of 4 and 8 slots with a limit of 4; a pool of 3 nodes; heaps of 4 nodes and 3 keys; a lock with 4 threads of 3 processes | CountersExact, ProbesEnd, ResizeSuffices, IterationComplete, RefinesDictionary; RefinesRing; RefinesQueue; Mutex, LockedByNamed, ComesFree |
| `objects` | a heap of 24100 bytes, 3 requests, 1 port, one driver's handler, objects two at a time, three pairs of lengths on either side of a size limit | ChunksOnce, ObjectsOnce, BuffersApart |
| `ports` | 3 processes of 2 drivers and a third driver, a table of 3, one numbered and two dynamic ports, memory for 2 port objects, one death | DynportOwnedOnce, PublishedOnce, SignalsItsDriver, LockGivenUp |
| `segment` | 2 threads with 2 joins, 2 administrators, 3 creations, one death | JoinRefCovers, ReadyUnlessRaced, MutexReturns |

Two requests are enough for one to be overtaken, shared or counted twice; two
threads for every pair of calls to interleave; queues of one slot for full and
growing queues; a path of two for a forwarded request. Two producers and two
threads make signals fall together, and a signal go to a thread that is at work.

Three names in a cache of two make every insertion evict; with four nodes one
entry can be evicted, re-inserted and evicted again before its first put. `RefMod`
is more than the references there can be (`RefsFit`) and only matters to `xcache_close`,
which counts below zero.

A table of four slots that may not hold more than four keys fills up with dummies,
grows to eight and shrinks again. Three drivers fill the table of drivers, so that a
later bind is refused; two objects for three numbers make allocation fail. Three
creations are what it takes for a creator to map the object of another one: its own
is unlinked by a late destroy, the other's takes the name.

`requests_admin`, `xcache`, `containers`, `works`, `ports` and `segment` allow a stop: the
nodes of a cache may all be lost, `xseg_free_requests` may leave `fq_lock` held and
`xseg_bind_dynport` the segment lock, jobs and creations are used up, and crashed
processes do nothing more.

Fairness. `Xlock`: a thread that has the lock releases it if it lives (critical
sections are short and do not block), and an operator runs recoverlocks for
every dead process; nothing is assumed of those who spin. `Signals`: threads and
producers that can go on do, but no time-out is assumed to end a wait and no
producer to submit. `Works`: a thread that is in a call goes on, which includes that it gets a
lock that stays free; nothing makes it begin one, to signal included. JobsRun supposes
instead that the condition holds for good in the end, and that who has put a job into a
work queue signals it some time later. `Segment`: a thread that is in a join goes on;
nothing is assumed of administrators. Taking a lock is part of that, though a spin lock
promises it only with probability. The other modules have safety properties only.

## Findings and known deviations

`xcache_close` ends in a violation on purpose: `xcache.h` says on_put is called when
the last reference is put, and closing the cache puts an entry twice (`findings`).

`xcache_heap` ends in one too: `__xcache_insert` says that the oldest entry is removed when
there is no space. With `XCACHE_LRU_HEAP` TLC finds: insert a and b; invalidate one, whose
node goes down in the heap while the root, the other's, leaves it; insert c; the next insertion
evicts c, though the other is older. Without removals the heap is right.

`works_test` is a test that asks what the code does not do: `tests/xworkq_test.c` puts jobs
into a work queue, never calls `xworkq_signal`, and expects that all of them have run.
`xworkq_enqueue` does not run any.

The other deviations are in the models as they are in the code, and the properties
name them as exceptions or exclude them by a constant:

- A peer that submits a received request again does so in the name of who answered
  it (the assertion in a comment at `xseg.c:1627`). `Resubmit` TRUE in
  `requests.cfg` makes TLC refute PathIsSubmitters.
- Preallocated requests come on top of the limit "a port can allocate"
  (`xseg.c:2172`, 1284).
- recoverlocks compares 16 bits of a pid: `PidOf <- Large` in `containers.cfg` refutes
  LockedByNamed.
- `cmd_wait` looks before it prepares and only its time-out saves it:
  `PrepareFirst` FALSE in `signals.cfg` refutes NoLostWakeup.
- With rm_entries the last put of an invalidated entry calls no on_put and frees no
  node (`xcache.c:359`; the exception in NoLostNode).
- With `XWAIT_SIGNAL_ONE` a job may stay in the queue though its condition holds: the
  signaller that made it true found the lock taken (`xwaitq.c:102`; excluded from
  NoJobStranded and JobsRun).
- A key inserted while it is in the table may be there twice (`xhash.c:410`; the keys
  of `Reinsert`; the exception in ResizeSuffices).
- `xheap_allocate` loses chunks of the lists at its two limits (`xheap.c:136`; the
  exception in ChunksOnce).
- `xseg_bind_dynport` keeps the segment lock when its driver is refused
  (`xseg.c:2085`; the exception in LockGivenUp); a forced bind that fails frees the
  port of its owner (`xseg.c:2058`).
- `xseg_leave` keeps the mutex when it does not find the type (`xseg.c:1007`); a
  join beside a create may get a half-made segment (`xseg.c:592`; the exceptions of
  MutexReturns and ReadyUnlessRaced).

## The proofs

All proofs are for arbitrary constants under the `ASSUME`s of the modules, which
TLC evaluates in the runs.

`RequestsProofs`: TypeOK, NoSharing, NoneForgotten and ReplyHasItsPort. None is
inductive: a call in the middle knows things about its request. The invariant
`IInv` adds that (`OpHolds`: a call that has not given its request away still
holds it, at a port that exists; `SameDepth`: path and history are of equal
length) and splits the types by part. `Own` is NoSharing with NoneForgotten, the
statement that the places partition the requests, and is shown once for each way a
request moves: from one place to another, within a queue (`Reverse`), or not at
all. Each action is then one of these moves.

The same module proves the other four invariants of the run under its conditions.
FqLockExcludes rests on `LoopsLocked`: a thread in a loop over the free queue owns the
lock of its port. PathIsSubmitters and EndsAtItsSource hold if nobody submits a request
a second time after it received it (`~Resubmit`, as in the runs): the
invariant `PathInv` adds what `transit` says of a request that a peer has in hand
(`Mine`, `Back`) and that one in a request queue has a way back (`WayBack`).
AllocReqsExact is for `AdminOps = {}` and destinations that exist, with finite sets of
requests and threads: `HomeInv` says to whom a request is charged in each place, and each
step then moves one request or one decrement from one count to another.

`ObjectsProofs`, of the lock: Mutex and LockedByNamed, given `PidsTold`: no process has a
pid that is the low bits of another's. With `Large` pids TLC shows that the condition is
needed. The invariant says that the owner word is that of the live thread that is in, and
that recoverlocks, once past its comparison, has the lock of a dead process before it,
which nobody can take in between. This is what lets a call of `Objects` be one step.

`ObjectsProofs`, of the memory: ChunksOnce, ObjectsOnce and BuffersApart, for any heap,
page, sizes of objects, lengths and numbers of requests and ports. They rest on one
invariant, `Good`, which names what the state leaves implicit: the objects of each handler
in use `U`, the buffers `B` and the queues `Q`. It is built in layers, each with its lemmas.
`HeapOK(h, Out)`: the chunks lie one after the other below cur, each with the size of some
request, and a chunk that is not in `Out` is on the list of its size or was lost by a mixed
list; `xheap_allocate` adds one chunk to `Out` and `xheap_free` takes one away. The
arithmetic under it is that the index of a size is that of the chunk made for it
(`SizedLemma`, `IndexStable`: a chunk comes back to the list it came from), and that a list
has chunks of one size unless it is one of the two mixed ones (`SameList`).
`HandlerOK`: the objects threaded in the chunks of a handler are those on its list and
those in use, and its table has room for the slots it says. `Sys`: what the handlers and
the others hold is disjoint (`Apart`), and together it is the `Out` of the heap. Then each
call is shown to keep `Good` in each of its outcomes; an error path is right when it leaves
`Out` as it found it. `GrowFits` shows that a table that doubles still fits into the heap, because
each of its chunks takes a page at least.

`SignalsProofs`: NoLostWakeup and TypeOK for `PrepareFirst`. The invariant adds
`WaitsCued`: who looks or sleeps has its cue set. The one step that matters is the
end of a scan: it has just seen the last entry clear, so that this thread does not sleep.

`PortsProofs`: all four properties of the run, for any processes, drivers, numbers,
objects and size of the table. The invariant says what a bind in the middle knows:
it has the lock (`BinderLocks`), so nothing of the following changes under it; a dynamic
port it chose is published and has no owner, a numbered one is either the one published
under its number or in no place at all (`ChoiceHolds`); the place of its driver in the
table, and whether the descriptor it found is of that driver (`DriverHolds`). It adds that
caches agree with the table, which only grows, and that peer type and descriptor agree for
every object, published or not (`DescriptorMatches`). That the first number of those
that may be bound is one of them needs that the natural numbers are well founded.

`SegmentProofs`: JoinRefCovers, for any finite set of threads. It is inductive once a thread
that joins has no handle (`JoinsOnce`), without which a failing join that gives its
reference back would leave a handle uncovered. Each step then adds at most one user with a
reference, takes one of each, or adds none. ReadyUnlessRaced: the segment that has the name is not
begun, whole, or being filled (`NamedFilled`), nobody creates beside a join that is not
marked (`UnracedAlone`), so that what such a join sees is whole and stays so
(`UnracedWhole`).

`QueuesProofs`, of the work and wait queues: EachJobOnce. The counts are replaced by `QueuedOnce` and `TakenOnce`, which
say the same with quantifiers; `JobInHand` ties a job in hand to where its thread is, and
`PopsFilled` says that only the holder of a wait queue's lock pops, and finds a job. The
queue is only changed in three ways (turned round, appended to, popped), each with a lemma
of its own. NoJobStranded: while there is a job that could run, some thread is going to
look at the queue (`SomeoneLooks`), because who leaves a lock taken leaves it to a thread
that looks once more (`LockLooks`). For a work queue a thread that owes a signal (`owes`)
is one that is going to look: the theorem is about callers that signal after they enqueue,
and says nothing of those that never do.

`ContainersProofs`, of the queue: NoWaitCycle, and that `Xq` implements `Deque`, for any sizes that divide the
modulus of the counters (`SizesDivideIdxMod`) and whose indices are values
(`IndicesAreValues`, for `xq_init_seq`). The invariant of the refinement is that every
ring has as many slots as its size says and no more elements (`WellFormed`). Each operation
has a lemma of its own that says what it does to the content, read as a sequence: the work is that
slots are told apart though the counters wrap (`SlotsApart`), and that the copies of
`xq_head_to_tail` and `xq_resize` meet no slot twice.

`ContainersProofs`, of the hash table: CountersExact, ProbesEnd, IterationComplete,
ResizeSuffices, and that `Xhash` implements `Dictionary`, for any keys, any hashes and tables of
4 slots or more that are resized any number of times. The invariant is `HashInv`:
`Counted`, the counters are numbers of slots; `OnTheWay`, an item stands on the probe
sequence of its key with no unused slot before it; `Room`, there is an unused slot; and
`OwnedOnce`, a key that is not in `Reinsert` is in one slot at most. Three things carry it.
First, a loop ends: once perturb is shifted out, i -> 5i + 1 modulo a power of two goes
through all slots (`Reaches`, by doubling the modulus: `JumpDoubles`), so that every
probe sequence covers its table (`ProbeCovers`) and a search that has a slot to end at
ends there (`FirstOfFacts`). Second, each operation stores an item or replaces one by a dummy
(`Stored`, `Deleted`), and both keep the invariant; grow_check leaves room because u/2 + u
below the size means u + 1 below it. Third, a resize moves the items one by one into a
fresh table (`ResizeMoves`); a key in two slots becomes one item, and the others keep their
values. For ResizeSuffices, growing always gives room at once (`GrowingHelps`). Shrinking is
enough while the table is `Dense`, which holds where no key is set twice: where keys are,
a resize may make one item of two and leave a table that is too empty again, and the
property excepts a delete there. Then `xseg_get_req_data` returns the error and the
data of the request, which stays in the table.

`XcacheProofs`: all five properties of the run, for any threads, names and size, with
`XCACHE_LRU_ARRAY` and without `xcache_close`, which breaks them. They say nothing of heap
mode, where a freed node may still be in the heap and an insertion may find no victim. They need each other, so that there is one invariant,
`IInv`. A reference is a tuple `<<who, why, which>>`, and RefExact counts a set of such
tuples: a step adds one, removes one, or exchanges one for another (`Gained`, `Lost`,
`Swapped`, `SwappedGained`), and the sum never wraps, as the threads have fewer than
`RefMod` among them (`RefsFit`). Around it: a node without references is nobody's
(`Spare`, `Going`), one that is to be inserted has the one reference of its caller
(`Fresh`), and so the puts that come in without the lock cannot touch what an insertion
works on. `Inserting` says what an insertion knows between its sections: nobody brings its
name, or that of the entry it evicted, into a table. `Timed` says that the entries are
those with an access time, each with one, so that a full table has a victim; `Kept` that with
rm_entries every node is in a table or on its way into one, unless its name was taken out,
so that the last put finds it there. That rm_entries has room is arithmetic over the
2 * Size nodes: Size - 1 entries, the victim and the node to be inserted are not in it.

`QueuesProofs`, of the pool: that `Xpool` implements `Ring`, for any number of nodes. The
invariant is `Linked`: there are two lists of nodes, `s` and `f`, which are apart and
together have every node; next and prev close `s` to a ring that begins at list, and next
leads through `f` from free. An operation is shown on the lists first, that no node is lost or
in both (`AddApart`, `RemoveApart`), and then on the links (`AddLinks`, `RemoveLinks`,
`ForwardLinks`), with the rings of one and two members, whose neighbours coincide. `WalkIs` says
that the refinement mapping, a walk along next, is `s`.

`QueuesProofs`, of the binary heap: that `Xbinheap` implements `PriorityQueue`, for heaps of any
size, minimum or maximum. `Indexed` says that nodes and indexes name each other, so that a
handler finds its element wherever it is, and `Ordered` that no node is above its parent.
While an element travels the order is broken at one node only: it may belong further up
(`Rising`) or further down (`Sinking`), and its children are in order with its parent. A call
repairs the node or hands the defect on, to the parent or to the larger child
(`LargestIs`), and the way is shorter than the bound on the calls (`HeapifyUp`,
`HeapifyDown`). Then the root comes before all others (`RootIsExtreme`), by induction
along the parents.

Only model-checked: liveness (EachIsTaken, ComesFree, JobsRun, MutexReturns), which is out
of the prover's reach. No module has a recursive operator: the probes and the resize of
`Xhash`, the walk of `Xpool` and the sifting of `Xbinheap` are recursive functions on
numbers, and the inductions on them are over sets of numbers.

## Not modelled

- verify and recoverport of xseg-tool: they walk all requests of a segment that is
  supposed to be quiet and hold `request_h->lock` over a call that takes it again.
- `xlist.c`, which nothing uses; `pset` and the other build variants of `xhash.c`;
  `xseg_put_objh` and `xcache_remove` of a stale handler, which nothing calls;
  `xseg_leave_port` and `xseg_finalize`, which are not implemented.
- The cache in heap mode with rm_entries, and what is lost in it after a removal beyond the
  order of evictions.
- Memory outside its bounds (a 65th waiter of the pthread driver, a heap request
  whose index is beyond the lists), two segments of different sizes under one name,
  reading a half-made segment's other fields.
- Set-up of signal handlers, names of pipes, the contents of requests and buffers,
  the protocol's structures, the Python binding, and what the tool prints.
