------------------------------- MODULE Xpool -------------------------------
(***************************************************************************)
(* xtypes/xpool.c: a pool of nodes in an array, those in use in a doubly   *)
(* linked ring, the others in a singly linked free list.  Every call is    *)
(* under the lock of the pool.                                             *)
(***************************************************************************)
EXTENDS Integers, Sequences, FiniteSets

CONSTANTS PoolSize, PoolData, NoIndex

ASSUME PoolAssumption == PoolSize \in Nat \ {0} /\ NoIndex \notin 0..PoolSize-1

VARIABLES pool,    \* mem[].next, mem[].prev, mem[].data, list and free
          pret     \* the index the last call returned

poolVars == <<pool, pret>>

Idx == 0..PoolSize-1

__xpool_clear(data) ==
    [list |-> NoIndex, free |-> 0,
     next |-> [i \in Idx |-> IF i = PoolSize - 1 THEN NoIndex ELSE i + 1],
     prev |-> [i \in Idx |-> NoIndex],
     data |-> data]

__validate_idx(x, idx) == idx < PoolSize /\ x.prev[idx] # NoIndex

(* After the first one instead of before it.                               *)
__xpool_add_after(x, d) ==
    LET idx == x.free
        p   == [x EXCEPT !.free = x.next[idx], !.data[idx] = d]
    IN  IF x.list # NoIndex
        THEN [p EXCEPT !.next = [@ EXCEPT ![idx] = x.next[x.list], ![x.list] = idx],
                       !.prev = [@ EXCEPT ![idx] = x.list, ![x.next[x.list]] = idx]]
        ELSE [p EXCEPT !.next[idx] = idx, !.prev[idx] = idx, !.list = idx]

__xpool_add(x, d) ==
    LET idx == x.free
        p   == [x EXCEPT !.free = x.next[idx], !.data[idx] = d]
    IN  IF x.list # NoIndex
        THEN [p EXCEPT !.next = [@ EXCEPT ![idx] = x.list, ![x.prev[x.list]] = idx],
                       !.prev = [@ EXCEPT ![idx] = x.prev[x.list], ![x.list] = idx]]
        ELSE [p EXCEPT !.next[idx] = idx, !.prev[idx] = idx, !.list = idx]

(* The last assignments put the node itself right when it was alone.       *)
__xpool_remove(x, idx) ==
    [x EXCEPT !.list = IF idx # x.list THEN @
                       ELSE IF x.next[idx] = idx THEN NoIndex ELSE x.next[idx],
              !.next = [[@ EXCEPT ![x.prev[idx]] = x.next[idx]] EXCEPT ![idx] = x.free],
              !.prev = [[@ EXCEPT ![x.next[idx]] = x.prev[idx]] EXCEPT ![idx] = NoIndex],
              !.free = idx]

-----------------------------------------------------------------------------
PoolInit == /\ pool = __xpool_clear([i \in Idx |-> NoIndex])   \* no data yet
            /\ pret = NoIndex

xpool_clear == pool' = __xpool_clear(pool.data) /\ UNCHANGED pret

xpool_add(d) ==
    \/ pool.free = NoIndex /\ pret' = NoIndex /\ UNCHANGED pool
    \/ pool.free # NoIndex /\ pret' = pool.free /\ pool' = __xpool_add(pool, d)

xpool_remove(idx) ==
    \/ ~__validate_idx(pool, idx) /\ pret' = NoIndex /\ UNCHANGED pool
    \/ __validate_idx(pool, idx) /\ pret' = idx /\ pool' = __xpool_remove(pool, idx)

xpool_peek == pret' = pool.list /\ UNCHANGED pool

xpool_peek_idx(idx) ==
    /\ pret' = IF __validate_idx(pool, idx) THEN idx ELSE NoIndex
    /\ UNCHANGED pool

xpool_peek_and_fwd ==
    /\ pret' = pool.list
    /\ pool' = IF pool.list = NoIndex THEN pool
               ELSE [pool EXCEPT !.list = pool.next[pool.list]]

xpool_set_idx(idx, d) ==
    \/ ~__validate_idx(pool, idx) /\ pret' = NoIndex /\ UNCHANGED pool
    \/ __validate_idx(pool, idx) /\ pret' = idx /\ pool' = [pool EXCEPT !.data[idx] = d]

PoolNext == \/ xpool_clear \/ xpool_peek \/ xpool_peek_and_fwd
            \/ \E idx \in Idx : xpool_remove(idx) \/ xpool_peek_idx(idx)
            \/ \E d \in PoolData : xpool_add(d) \/ \E idx \in Idx : xpool_set_idx(idx, d)

PoolSpec == PoolInit /\ [][PoolNext]_poolVars

-----------------------------------------------------------------------------
Members == {i \in Idx : pool.prev[i] # NoIndex}

(* The members in the order in which xpool_peek_and_fwd shows them.        *)
Walk == LET nth[n \in 1..Cardinality(Members)] ==
              IF n = 1 THEN pool.list ELSE pool.next[nth[n-1]]
        IN  [n \in 1..Cardinality(Members) |-> <<nth[n], pool.data[nth[n]]>>]

(* The links of the nodes make a ring of the members and nothing else,     *)
(* whatever is removed from it, an index used again or used too late       *)
(* included; a pool is full only when every node is a member.              *)
PoolRing == INSTANCE Ring WITH Size <- PoolSize, Data <- PoolData,
                               ring <- Walk, ret <- pret
RefinesRing == PoolRing!Spec
=============================================================================
