----------------------------- MODULE XcacheHeap ------------------------------
(***************************************************************************)
(* The cache of Xcache with XCACHE_LRU_HEAP, and without rm_entries: the   *)
(* access times are in a binary heap as large as `entries', least first,   *)
(* and each node has the handler of its own.  `lru' of Xcache is now a     *)
(* history: the entries in the order of their last accesses, which the     *)
(* heap is there to know.                                                  *)
(***************************************************************************)
EXTENDS Xcache

CONSTANT MaxTime    \* bound: accesses; the counter has 64 bits

VARIABLES heap,     \* cache->binheap
          ce,       \* h and name of each node, which stay when it is freed
          time      \* cache->time

cacheVars == <<vars, heap, ce, time>>

XCACHE_LRU_MAX == MaxTime + 1

Binheap == INSTANCE Xbinheap WITH HeapSize <- Size, HeapKeys <- 1..XCACHE_LRU_MAX,
                                  HeapValues <- Nodes, NoNode <- NoEntry, bret <- NoEntry

CacheInit == /\ Init /\ ~ rmtable
             /\ heap = Binheap!xbinheap_init(FALSE)
             /\ ce = [n \in Nodes |-> [h |-> NoEntry, name |-> NoName]]
             /\ time = 0

(* xbinheap_increasekey for a handler whose element may have left the heap *)
(* or be another's, with a key that may be less: it asks for neither.      *)
increasekey(x, h, key) ==
    Binheap!heapify_down([x EXCEPT !.nodes[x.indexes[h]].key = key], x.indexes[h])

(* xbinheap_extract: the root goes.                                        *)
extract(x) ==
    IF x.count = 0 THEN x
    ELSE Binheap!heapify_down(
           Binheap!swap_nodes([x EXCEPT !.count = @ - 1], 0, x.count - 1), 0)

(* __update_access_time: xbinheap_insert, which refuses when the heap is   *)
(* full, for a node that has no handler.                                   *)
Access(n) ==
    LET i == heap.count
    IN  /\ time < MaxTime /\ time' = time + 1
        /\ \/ /\ ce[n].h # NoEntry
              /\ heap' = increasekey(heap, ce[n].h, time')
              /\ UNCHANGED ce
           \/ /\ ce[n].h = NoEntry /\ i < Size
              /\ heap' = [Binheap!heapify_up([heap EXCEPT !.nodes[i].key = time',
                                                          !.nodes[i].value = n], i)
                            EXCEPT !.count = @ + 1]
              /\ ce' = [ce EXCEPT ![n].h = heap.nodes[i].h]
           \/ ce[n].h = NoEntry /\ i = Size /\ UNCHANGED <<heap, ce>>

(* The end of __xcache_remove_entries: the time of the node becomes the    *)
(* greatest, and the node with the least time leaves the heap.             *)
Forget(n) ==
    /\ heap' = IF ce[n].h = NoEntry THEN heap
               ELSE extract(increasekey(heap, ce[n].h, XCACHE_LRU_MAX))
    /\ ce' = [ce EXCEPT ![n].h = NoEntry]
    /\ UNCHANGED time

-----------------------------------------------------------------------------
(* xcache_entry_init                                                       *)
AllocInitHeap(t, name) ==
    /\ AllocInit(t, name)
    /\ ce' = [ce EXCEPT ![new'[t]] = [h |-> NoEntry, name |-> name]]
    /\ UNCHANGED <<heap, time>>

LookupHeap(t, name) == xcache_lookup(t, name) /\ Access(Lookup(entries, name))

InsertFindsHeap(t) == InsertFinds(t) /\ Access(Lookup(entries, node[new[t]].name))

InsertEntryHeap(t) == InsertEntry(t) /\ Access(call[t].h)

RemoveHeap(t, n) == xcache_remove(t, n) /\ Forget(n)

InvalidateHeap(t, name) == InvalidateEntry(t, name) /\ Forget(Lookup(entries, name))

(* __xcache_evict_lru: the root of the heap, and what has its name in      *)
(* entries.                                                                *)
Root == heap.nodes[0].value
Victim == Lookup(entries, ce[Root].name)

ExtractRoot ==
    /\ heap' = extract(heap)
    /\ ce' = IF heap.count = 0 THEN ce ELSE [ce EXCEPT ![Root].h = NoEntry]
    /\ UNCHANGED time

EvictRoot(t) ==
    /\ At(t, "insert") /\ ~ Room(entries) /\ heap.count > 0 /\ Victim # NoEntry
    /\ entries' = entries \ {Victim}
    /\ lru' = Without(Victim)
    /\ call' = [call EXCEPT ![t].puts = <<Root>>]
    /\ ExtractRoot
    /\ UNCHANGED <<rmtable, node, free_nodes, rm_entries, lock, held, new, dropped>>

(* The heap is empty, or there is no such entry: xcache_insert returns     *)
(* NoEntry, and the caller keeps its node.                                 *)
InsertFails(t) ==
    /\ At(t, "insert") /\ ~ Room(entries)
    /\ heap.count = 0 \/ Victim = NoEntry
    /\ lock' = NoThread
    /\ call' = [call EXCEPT ![t] = NoCall]
    /\ ExtractRoot
    /\ UNCHANGED <<rmtable, node, free_nodes, entries, rm_entries, lru, held, new, dropped>>

-----------------------------------------------------------------------------
(* The actions that do not touch the heap are those of Xcache.             *)
Other(t) == \/ FreeNew(t) \/ InsertMisses(t) \/ PutRef(t) \/ PutLast(t) \/ Free(t)
            \/ \E n \in Nodes : xcache_get(t, n) \/ xcache_put(t, n)

CacheNext == \E t \in Threads :
               \/ \E name \in Names : \/ AllocInitHeap(t, name) \/ LookupHeap(t, name)
                                      \/ InvalidateHeap(t, name)
               \/ \E n \in Nodes : RemoveHeap(t, n)
               \/ InsertFindsHeap(t) \/ InsertEntryHeap(t) \/ EvictRoot(t) \/ InsertFails(t)
               \/ Other(t) /\ UNCHANGED <<heap, ce, time>>

CacheSpec == CacheInit /\ [][CacheNext]_cacheVars

-----------------------------------------------------------------------------
(* "If no space exists, we remove the oldest entry (LRU) and insert the    *)
(* new entry" (__xcache_insert): the root of the heap is the entry whose   *)
(* last access is the longest ago.                                         *)
OldestEvicted ==
    \A t \in Threads :
      At(t, "insert") /\ ~ Room(entries) => heap.count > 0 /\ Root = Head(lru)
=============================================================================
