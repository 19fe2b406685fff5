-------------------------------- MODULE Xcache --------------------------------
(***************************************************************************)
(* xtypes/xcache.c: a cache of reference-counted nodes, shared by threads. *)
(* `entries' holds the active nodes, at most Size of them, and, under      *)
(* XCACHE_USE_RMTABLE, `rm_entries' the evicted ones somebody still uses.  *)
(* There are 2 * Size nodes.  cache->lock is a variable: an insertion      *)
(* holds it over several steps, and puts come in between.  What runs under *)
(* cache->rm_lock is one step.                                             *)
(*                                                                         *)
(* A hash table is the set of the nodes in it: its keys are pointers to    *)
(* the names in the nodes.  The access times are those of a cache with     *)
(* XCACHE_LRU_ARRAY: the sequence of the nodes whose time is not           *)
(* XCACHE_LRU_MAX, least recent first; the counter of 64 bits they come    *)
(* from does not wrap here.  XcacheHeap is the cache with XCACHE_LRU_HEAP, *)
(* which does not keep to this.                                            *)
(***************************************************************************)
EXTENDS Integers, Sequences, FiniteSets, FiniteSetsExt, SequencesExt

CONSTANTS Nodes,      \* the 2 * Size cache nodes
          Size,       \* cache->size
          Names,      \* names of entries
          Threads,    \* threads that call the operations
          RefMod,     \* a reference count is modulo RefMod (2^32 in the code)
          MaxRefs,    \* bound: references a thread has at a time
          OnInitFails,\* whether on_init of the user may fail
          NoEntry, NoName, NoThread

ASSUME TwiceSize == Size \in Nat \ {0} /\ IsFiniteSet(Nodes) /\ Cardinality(Nodes) = 2 * Size
ASSUME RefsFit == /\ MaxRefs \in Nat /\ RefMod \in Nat /\ IsFiniteSet(Threads)
                  /\ Cardinality(Threads) * (MaxRefs + 3) + 1 < RefMod
ASSUME NoneIsNone == NoEntry \notin Nodes /\ NoName \notin Names /\ NoThread \notin Threads

VARIABLES rmtable,    \* cache->flags & XCACHE_USE_RMTABLE
          node,       \* ref, name and state of each node
          free_nodes, \* the queue of free nodes; which of them is popped is left open
          entries, rm_entries,
          lru,        \* the nodes with a time in cache->times, in its order
          lock,       \* owner of cache->lock
          call,       \* what a thread is at: see NoCall
          held,       \* references each caller has, of each node
          new,        \* the node a caller has from xcache_alloc_init
          dropped     \* history: names xcache_remove and xcache_invalidate took out

vars == <<rmtable, node, free_nodes, entries, rm_entries, lru, lock, call, held, new, dropped>>

-----------------------------------------------------------------------------
(* h is the node being inserted, re the one found in rm_entries for it,    *)
(* puts the puts the call has still to make, todo the nodes xcache_close   *)
(* has still to visit.                                                     *)
NoCall == [pc |-> "idle", h |-> NoEntry, re |-> NoEntry, puts |-> <<>>, todo |-> {}]

Unused == [ref |-> 0, name |-> NoName, state |-> "NODE_ACTIVE"]

Init == /\ rmtable \in BOOLEAN
        /\ node = [n \in Nodes |-> Unused]
        /\ free_nodes = Nodes
        /\ entries = {} /\ rm_entries = {} /\ lru = <<>>
        /\ lock = NoThread
        /\ call = [t \in Threads |-> NoCall]
        /\ held = [t \in Threads |-> [n \in Nodes |-> 0]]
        /\ new = [t \in Threads |-> NoEntry]
        /\ dropped = {}

At(t, pc) == call[t].pc = pc
Idle(t) == At(t, "idle")

(* __table_lookup                                                          *)
Lookup(table, name) ==
    IF \E n \in table : node[n].name = name
    THEN CHOOSE n \in table : node[n].name = name
    ELSE NoEntry

(* One entry too many.                                                     *)
Room_over(table) == Cardinality(table) <= Size

(* xhash_insert refuses with -XHASH_ENOSPC at the limit of the table.      *)
Room(table) == Cardinality(table) < Size

Without_stale(n) == lru

(* cache->times[n] = XCACHE_LRU_MAX                                        *)
Without(n) == IF n \in Range(lru)
              THEN RemoveAt(lru, CHOOSE i \in 1..Len(lru) : lru[i] = n)
              ELSE lru

Touched(n) == Append(Without(n), n)

Hold(t, n, k) == held' = [held EXCEPT ![t][n] = @ + k]
MayHold(t) == Cardinality({x \in Nodes \X (1..MaxRefs) : x[2] <= held[t][x[1]]}) < MaxRefs
AddRef(ref, k) == (ref + k) % RefMod

-----------------------------------------------------------------------------
(* Nodes to insert.                                                        *)

Inited(name) == [ref |-> 1, name |-> name, state |-> "NODE_ACTIVE"]

AllocInit(t, name) ==
    /\ Idle(t) /\ new[t] = NoEntry
    /\ \E n \in free_nodes :
         /\ free_nodes' = free_nodes \ {n}
         /\ node' = [node EXCEPT ![n] = Inited(name)]
         /\ new' = [new EXCEPT ![t] = n]
    /\ UNCHANGED <<rmtable, entries, rm_entries, lru, lock, call, held, dropped>>

(* on_init fails: the node goes back to free_nodes with its ref of one.    *)
(* Bound: no more than one such node at a time.                            *)
AllocInitFails(t, name) ==
    /\ OnInitFails /\ Idle(t) /\ new[t] = NoEntry
    /\ \A n \in free_nodes : node[n].ref = 0
    /\ \E n \in free_nodes : node' = [node EXCEPT ![n] = Inited(name)]
    /\ UNCHANGED <<rmtable, free_nodes, entries, rm_entries, lru, lock, call, held, new, dropped>>

(* The node is not given back.                                             *)
FreeNew_keeps(t) ==
    /\ Idle(t) /\ new[t] # NoEntry
    /\ node' = [node EXCEPT ![new[t]].ref = 0]
    /\ new' = [new EXCEPT ![t] = NoEntry]
    /\ UNCHANGED <<rmtable, free_nodes, entries, rm_entries, lru, lock, call, held, dropped>>

(* xcache_free_new.  Name and state of a free node are not read before     *)
(* xcache_entry_init sets them, unless its ref is not zero.                *)
FreeNew(t) ==
    /\ Idle(t) /\ new[t] # NoEntry
    /\ node' = [node EXCEPT ![new[t]] = Unused]
    /\ free_nodes' = free_nodes \cup {new[t]}
    /\ new' = [new EXCEPT ![t] = NoEntry]
    /\ UNCHANGED <<rmtable, entries, rm_entries, lru, lock, call, held, dropped>>

-----------------------------------------------------------------------------
(* xcache_lookup and xcache_insert.                                        *)

(* xcache_lookup: a reference and a new access time for an active entry.   *)
Found(t, n) ==
    /\ n # NoEntry /\ MayHold(t)
    /\ node' = [node EXCEPT ![n].ref = AddRef(@, 1)]
    /\ lru' = Touched(n)
    /\ Hold(t, n, 1)
    /\ UNCHANGED <<rmtable, free_nodes, entries, rm_entries, lock, call, new, dropped>>

xcache_lookup(t, name) == Idle(t) /\ lock = NoThread /\ Found(t, Lookup(entries, name))

(* xcache_insert finds the name in entries: the caller keeps its own node. *)
InsertFinds(t) ==
    /\ Idle(t) /\ lock = NoThread /\ new[t] # NoEntry
    /\ Found(t, Lookup(entries, node[new[t]].name))

(* The older self in rm_entries is not looked for.                         *)
InsertMisses_direct(t) ==
    /\ Idle(t) /\ lock = NoThread /\ new[t] # NoEntry /\ MayHold(t)
    /\ Lookup(entries, node[new[t]].name) = NoEntry
    /\ lock' = t
    /\ call' = [call EXCEPT ![t].h = new[t], ![t].pc = "insert"]
    /\ UNCHANGED <<rmtable, node, free_nodes, entries, rm_entries, lru, held, new, dropped>>

InsertMisses(t) ==
    /\ Idle(t) /\ lock = NoThread /\ new[t] # NoEntry /\ MayHold(t)
    /\ Lookup(entries, node[new[t]].name) = NoEntry
    /\ lock' = t
    /\ call' = [call EXCEPT ![t].h = new[t],
                            ![t].pc = IF rmtable THEN "lookup_rm" ELSE "insert"]
    /\ UNCHANGED <<rmtable, node, free_nodes, entries, rm_entries, lru, held, new, dropped>>

(* The put still to come of the evicting thread is not made up for.        *)
Reinserted_once(nd) == [nd EXCEPT !.state = "NODE_ACTIVE"]

(* The reference of the cache itself, which its eviction takes away.       *)
Reinserted(nd) == [nd EXCEPT !.state = "NODE_ACTIVE", !.ref = AddRef(@, 1)]

(* Under rm_lock: the older self of the node takes its place.              *)
LookupRm(t) ==
    LET old == Lookup(rm_entries, node[call[t].h].name)
    IN  /\ At(t, "lookup_rm")
        /\ IF old = NoEntry
           THEN /\ call' = [call EXCEPT ![t].pc = "insert"]
                /\ UNCHANGED <<node, rm_entries>>
           ELSE /\ rm_entries' = rm_entries \ {old}
                /\ node' = [node EXCEPT ![old] = Reinserted(@)]
                /\ call' = [call EXCEPT ![t].pc = "insert", ![t].h = old, ![t].re = old]
        /\ UNCHANGED <<rmtable, free_nodes, entries, lru, lock, held, new, dropped>>

(* There is room: the entry comes in and the caller has a reference.  The  *)
(* lock is released, and the evicted entry, if any, put afterwards.        *)
InsertEntry(t) ==
    LET h == call[t].h
    IN  /\ At(t, "insert") /\ Room(entries)
        /\ entries' = entries \cup {h}
        /\ node' = [node EXCEPT ![h].ref = AddRef(@, 1)]
        /\ lru' = Touched(h)
        /\ Hold(t, h, 1)
        /\ new' = [new EXCEPT ![t] = IF @ = h THEN NoEntry ELSE @]
        /\ lock' = NoThread
        /\ call' = [call EXCEPT ![t] = [NoCall EXCEPT
                      !.puts = call[t].puts,
                      !.pc = IF call[t].puts = <<>> THEN "idle" ELSE "put"]]
        /\ UNCHANGED <<rmtable, free_nodes, rm_entries, dropped>>

(* There is none: __xcache_evict_lru takes the node with the least of      *)
(* cache->times out.                                                       *)
(* Its error returns are the states InsertNeverFails says are not reached. *)
EvictLru(t) ==
    /\ At(t, "insert") /\ ~ Room(entries) /\ lru # <<>>
    /\ LET v == Head(lru)
       IN  /\ v \in entries
           /\ entries' = entries \ {v}
           /\ lru' = Without(v)
           /\ node' = IF rmtable THEN [node EXCEPT ![v].state = "NODE_EVICTED"] ELSE node
           /\ call' = [call EXCEPT ![t].puts = <<v>>,
                                   ![t].pc = IF rmtable THEN "insert_rm" ELSE "insert"]
    /\ UNCHANGED <<rmtable, free_nodes, rm_entries, lock, held, new, dropped>>

(* and, under rm_lock, into rm_entries.                                    *)
InsertRm(t) ==
    /\ At(t, "insert_rm") /\ Room(rm_entries)
    /\ rm_entries' = rm_entries \cup {Head(call[t].puts)}
    /\ call' = [call EXCEPT ![t].pc = "insert"]
    /\ UNCHANGED <<rmtable, node, free_nodes, entries, lru, lock, held, new, dropped>>

-----------------------------------------------------------------------------
(* References.                                                             *)

xcache_get(t, n) ==
    /\ Idle(t) /\ held[t][n] > 0 /\ MayHold(t)
    /\ node' = [node EXCEPT ![n].ref = AddRef(@, 1)]
    /\ Hold(t, n, 1)
    /\ UNCHANGED <<rmtable, free_nodes, entries, rm_entries, lru, lock, call, new, dropped>>

xcache_put(t, n) ==
    /\ Idle(t) /\ held[t][n] > 0
    /\ Hold(t, n, -1)
    /\ call' = [call EXCEPT ![t].pc = "put", ![t].puts = <<n>>]
    /\ UNCHANGED <<rmtable, node, free_nodes, entries, rm_entries, lru, lock, new, dropped>>

(* The call after a put: the next one, or the loop of xcache_close.        *)
AfterPut(c) == [c EXCEPT !.puts = Tail(@),
                         !.pc = IF Len(c.puts) > 1 THEN "put"
                                ELSE IF c.todo # {} THEN "close" ELSE "idle"]

(* xcache_entry_put of a reference that is not the last.                   *)
PutRef(t) ==
    LET n == Head(call[t].puts)
    IN  /\ At(t, "put") /\ node[n].ref # 1
        /\ node' = [node EXCEPT ![n].ref = AddRef(@, -1)]
        /\ call' = [call EXCEPT ![t] = AfterPut(@)]
        /\ UNCHANGED <<rmtable, free_nodes, entries, rm_entries, lru, lock, held, new, dropped>>

(* The second look at ref is left out.                                     *)
PutFinalize_ignores(t) ==
    LET n == Head(call[t].puts)
    IN  /\ At(t, "put") /\ rmtable /\ node[n].ref = 1 /\ MayHold(t)
        /\ n \in rm_entries
        /\ Hold(t, n, 1)
        /\ rm_entries' = rm_entries \ {n}
        /\ call' = [call EXCEPT ![t].pc = "free"]
        /\ UNCHANGED <<rmtable, node, free_nodes, entries, lru, lock, new, dropped>>

(* of the last, but on_finalize has work pending and gets the entry again. *)
PutFinalize(t) ==
    LET n == Head(call[t].puts)
    IN  /\ At(t, "put") /\ rmtable /\ node[n].ref = 1 /\ MayHold(t)
        /\ Hold(t, n, 1)
        /\ call' = [call EXCEPT ![t] = AfterPut(@)]
        /\ UNCHANGED <<rmtable, node, free_nodes, entries, rm_entries, lru, lock, new, dropped>>

(* of the last.  __xcache_remove_rm deletes by name: whatever node has the *)
(* name of this one leaves rm_entries, and when there is none, the call    *)
(* returns without freeing this one.                                       *)
PutLast(t) ==
    LET n   == Head(call[t].puts)
        old == Lookup(rm_entries, node[n].name)
    IN  /\ At(t, "put") /\ node[n].ref = 1
        /\ node' = [node EXCEPT ![n].ref = 0]
        /\ rm_entries' = IF rmtable THEN rm_entries \ {old} ELSE rm_entries
        /\ call' = [call EXCEPT ![t] = IF rmtable /\ old = NoEntry
                                       THEN AfterPut(@) ELSE [@ EXCEPT !.pc = "free"]]
        /\ UNCHANGED <<rmtable, free_nodes, entries, lru, lock, held, new, dropped>>

(* on_put and free_cache_entry, no lock held.                              *)
Free(t) ==
    LET n == Head(call[t].puts)
    IN  /\ At(t, "free")
        /\ node' = [node EXCEPT ![n] = [Unused EXCEPT !.ref = node[n].ref]]
        /\ free_nodes' = free_nodes \cup {n}
        /\ call' = [call EXCEPT ![t] = AfterPut(@)]
        /\ UNCHANGED <<rmtable, entries, rm_entries, lru, lock, held, new, dropped>>

-----------------------------------------------------------------------------
(* Removal by a caller.                                                    *)

(* xcache_remove: "after a succesfull call, the handler must be put", that *)
(* is, the caller now has the reference of the cache.  For a handler whose *)
(* name some other node has in entries, see README: callers must not.      *)
xcache_remove(t, n) ==
    /\ Idle(t) /\ lock = NoThread
    /\ held[t][n] > 0 /\ MayHold(t) /\ n \in entries
    /\ entries' = entries \ {n}
    /\ lru' = Without(n)
    /\ Hold(t, n, 1)
    /\ dropped' = dropped \cup {node[n].name}
    /\ UNCHANGED <<rmtable, node, free_nodes, rm_entries, lock, call, new>>

(* xcache_invalidate of an active entry, put after the lock is released.   *)
InvalidateEntry(t, name) ==
    LET n == Lookup(entries, name)
    IN  /\ Idle(t) /\ lock = NoThread /\ n # NoEntry
        /\ entries' = entries \ {n}
        /\ lru' = Without(n)
        /\ call' = [call EXCEPT ![t].pc = "put", ![t].puts = <<n>>]
        /\ dropped' = dropped \cup {name}
        /\ UNCHANGED <<rmtable, node, free_nodes, rm_entries, lock, held, new>>

(* of an evicted one, which is not put.                                    *)
InvalidateRm(t, name) ==
    LET n == Lookup(rm_entries, name)
    IN  /\ Idle(t) /\ lock = NoThread /\ rmtable
        /\ Lookup(entries, name) = NoEntry /\ n # NoEntry
        /\ rm_entries' = rm_entries \ {n}
        /\ dropped' = dropped \cup {name}
        /\ UNCHANGED <<rmtable, node, free_nodes, entries, lru, lock, call, held, new>>

(* xcache_close: each node that has references is invalidated by name,     *)
(* which puts it when it is in entries, and put once more.  It is called   *)
(* when nobody is inserting any more; entries may still be in use.         *)
CloseStart(t) ==
    /\ \A u \in Threads : Idle(u) /\ new[u] = NoEntry
    /\ call' = [call EXCEPT ![t].pc = "close", ![t].todo = Nodes]
    /\ UNCHANGED <<rmtable, node, free_nodes, entries, rm_entries, lru, lock, held, new, dropped>>

CloseNode(t) ==
    /\ At(t, "close") /\ lock = NoThread
    /\ \E n \in call[t].todo :
         LET todo == call[t].todo \ {n}
             e    == Lookup(entries, node[n].name)
             old  == Lookup(rm_entries, node[n].name)
         IN  IF node[n].ref = 0
             THEN /\ call' = [call EXCEPT ![t].todo = todo,
                                          ![t].pc = IF todo = {} THEN "idle" ELSE "close"]
                  /\ UNCHANGED <<entries, rm_entries, lru, dropped>>
             ELSE /\ entries' = entries \ {e}
                  /\ lru' = Without(e)
                  /\ rm_entries' = IF e = NoEntry THEN rm_entries \ {old} ELSE rm_entries
                  /\ call' = [call EXCEPT ![t].todo = todo, ![t].pc = "put",
                                ![t].puts = IF e = NoEntry THEN <<n>> ELSE <<e, n>>]
                  /\ dropped' = dropped \cup {node[n].name}
    /\ UNCHANGED <<rmtable, node, free_nodes, lock, held, new>>

-----------------------------------------------------------------------------
Next == \E t \in Threads :
          \/ \E name \in Names :
               \/ AllocInit(t, name) \/ AllocInitFails(t, name)
               \/ xcache_lookup(t, name)
               \/ InvalidateEntry(t, name) \/ InvalidateRm(t, name)
          \/ \E n \in Nodes : xcache_get(t, n) \/ xcache_put(t, n) \/ xcache_remove(t, n)
          \/ FreeNew(t) \/ InsertFinds(t) \/ InsertMisses(t) \/ LookupRm(t)
          \/ InsertEntry(t) \/ EvictLru(t) \/ InsertRm(t)
          \/ PutRef(t) \/ PutFinalize(t) \/ PutLast(t) \/ Free(t)

Spec == Init /\ [][Next]_vars

(* With xcache_close; the others only put, then, what they have.           *)
CloseNext == \E t \in Threads :
               \/ Next /\ \A u \in Threads : call[u].todo = {}
               \/ CloseStart(t) \/ CloseNode(t)
               \/ \E n \in Nodes : xcache_put(t, n)
               \/ PutRef(t) \/ PutFinalize(t) \/ PutLast(t) \/ Free(t)

CloseSpec == Init /\ [][CloseNext]_vars

-----------------------------------------------------------------------------
(* Properties.                                                             *)

(* The references of a node n there are: the one of its place in entries,  *)
(* that of the caller that has it from xcache_alloc_init, those of puts    *)
(* still to be made, the one a re-inserted node has for its place in       *)
(* entries to come, and those the callers have: <<who, why, which>> each.  *)
References(n) ==
         {<<NoThread, "entries", 0>> : m \in entries \cap {n}}
    \cup {x \in Threads \X {"new"} \X {0} : new[x[1]] = n}
    \cup {x \in Threads \X {"put"} \X {0} :
             ~ At(x[1], "free") /\ n \in Range(call[x[1]].puts)}
    \cup {x \in Threads \X {"re"} \X {0} : call[x[1]].re = n}
    \cup {x \in Threads \X {"held"} \X (1..MaxRefs) : x[3] <= held[x[1]][n]}

(* The count of a node in use is exact through evictions, re-insertions    *)
(* and the puts that come late, after the lock is released                 *)
(* (__xcache_insert, "A re-inserted entry is 'got' two times", and         *)
(* xcache_entry_put).                                                      *)
RefExact == \A n \in Nodes \ free_nodes : node[n].ref = Cardinality(References(n))

(* A node is in free_nodes, where the next xcache_alloc_init takes it,     *)
(* only when nobody has it: no table, no access time, no caller and no     *)
(* call in progress (xcache_entry_put and xcache_free_new).                *)
FreeIsFree == \A n \in free_nodes :
                /\ n \notin entries \cup rm_entries \cup Range(lru)
                /\ \A t \in Threads : held[t][n] = 0 /\ new[t] # n
                                      /\ call[t].h # n /\ n \notin Range(call[t].puts)

(* An entry is under its name once, in one of the tables and in the state  *)
(* for it, although __xcache_insert and __xcache_evict move it by a delete *)
(* and a later insert: never two nodes with dirty data for one name.       *)
OneEntryPerName == /\ \A n, m \in entries \cup rm_entries :
                        node[n].name = node[m].name => n = m
                   /\ entries \cap rm_entries = {}
                   /\ \A n \in entries : node[n].state = "NODE_ACTIVE"
                   /\ \A n \in rm_entries : node[n].state = "NODE_EVICTED"

(* xcache_insert of a node from xcache_alloc_init never returns NoEntry,   *)
(* in a cache with XCACHE_LRU_ARRAY (in XcacheHeap it does, InsertFails):  *)
(* when entries is full, the least recent access is of an entry in it, and *)
(* rm_entries, no larger, has room for that one (__xcache_evict_lru, and   *)
(* "each one indexes at most (cache->nodes / 2) entries").                 *)
InsertNeverFails ==
    \A t \in Threads :
      /\ At(t, "insert") /\ ~ Room(entries) => lru # <<>> /\ Head(lru) \in entries
      /\ At(t, "insert_rm") => Room(rm_entries)

BeingFreed(n) == \E t \in Threads : At(t, "free") /\ Head(call[t].puts) = n

(* A node without references is free or about to be, unless a caller took  *)
(* its name out of a cache that has rm_entries (xcache_entry_put).         *)
NoLostNode == \A n \in Nodes \ free_nodes :
                node[n].ref = 0 => BeingFreed(n) \/ (rmtable /\ node[n].name \in dropped)

(* A reference keeps its node: what a caller still has to put is not free  *)
(* for another ("on_put: called when the last reference to the cache entry *)
(* is put", xcache.h).                                                     *)
HeldNotFreed == \A n \in free_nodes, t \in Threads : held[t][n] = 0
=============================================================================
