------------------------------- MODULE Xhash -------------------------------
(***************************************************************************)
(* xtypes/xhash.c, built with VAL_OVERLOAD, and the way xseg_set_req_data  *)
(* and xseg_get_req_data (xseg.c) use it.  Open addressing: a key is       *)
(* sought along a probe sequence; a deleted item leaves a dummy behind.    *)
(* An operation that finds the table too full, or too empty, asks its      *)
(* caller to resize it.  All calls on one table are under one lock.        *)
(***************************************************************************)
EXTENDS Integers, FiniteSets, FiniteSetsExt

CONSTANTS Keys,       \* integers, or strings: compared for equality
          Hash,       \* what hash_int or hash_string makes of a key
          Data, None,
          UNUSED, DUMMY,
          MinShift,   \* minsize_shift of the table: 3 in the code
          MaxShift,   \* bound: the table is not filled beyond 2^MaxShift
          Limit,      \* limit of the table, 0 for none
          Reinsert    \* keys that are set again while they are there

PERTURB_SHIFT == 5
XHASH_ERESIZE == 1
XHASH_EEXIST == 2
XHASH_ENOSPC == 3

Item == [key : Keys, val : Nat]

ASSUME HashAssumption ==
         /\ Hash \in [Keys -> Nat]
         /\ MinShift \in Nat /\ MinShift >= 2     \* a smaller table fills up wholly
         /\ MaxShift \in Nat /\ MaxShift >= MinShift
         /\ Limit \in Nat
         /\ Data \subseteq Nat /\ None \notin Nat /\ None \notin Keys
         /\ UNUSED # DUMMY /\ UNUSED \notin Item /\ DUMMY \notin Item
         /\ Reinsert \subseteq Keys

VARIABLES xhash,    \* the table: shift, items, used, dummies
          hret,     \* of the last call: op, key, val, r, nomem
          it        \* an iteration that is going on, or NoIter

hashVars == <<xhash, hret, it>>

-----------------------------------------------------------------------------
(* 1UL << shift                                                            *)
OneShl[shift \in Nat] == IF shift = 0 THEN 1 ELSE 2 * OneShl[shift - 1]

xhash_size(x) == OneShl[x.shift]

item_unused(x, i) == x.items[i] = UNUSED
item_dummy(x, i) == x.items[i] = DUMMY
item_valid(x, i) == ~(item_dummy(x, i) \/ item_unused(x, i))

xhash_init(shift) == [shift |-> shift, used |-> 0, dummies |-> 0,
                      items |-> [i \in 0..OneShl[shift]-1 |-> UNUSED]]

holds(x, i, key) == item_valid(x, i) /\ x.items[i].key = key

(* The slots in which a key is sought, one after the other, in a table of  *)
(* some size.  Once perturb is zero, after Hash[key] probes at the latest, *)
(* they go through the whole table.                                        *)
NextProbe(p, size) == [idx |-> (5 * p.idx + 1 + p.perturb) % size,
                       perturb |-> p.perturb \div 2 ^ PERTURB_SHIFT]

Probe(hash, size) ==
    LET p[n \in Nat] == IF n = 0 THEN [idx |-> hash % size, perturb |-> hash]
                        ELSE NextProbe(p[n - 1], size)
    IN  p

Slots == [key \in Keys |-> [shift \in MinShift..MaxShift |->
            [n \in 0..Hash[key] + OneShl[shift] |-> Probe(Hash[key], OneShl[shift])[n].idx]]]

(* The loops of the operations: the first slot of those that end the       *)
(* search, or None for a loop that never ends.                             *)
FirstIn(p, ends) ==
    p[CHOOSE n \in DOMAIN p : p[n] \in ends /\ \A m \in 0..n-1 : p[m] \notin ends]

FirstOf(x, key, ends) == IF ends = {} THEN None ELSE FirstIn(Slots[key][x.shift], ends)

(* xhash_lookup__: the slot, or None for -XHASH_EEXIST.                    *)
xhash_lookup__(x, key) ==
    LET i == FirstOf(x, key, {s \in DOMAIN x.items : item_unused(x, s) \/ holds(x, s, key)})
    IN  IF i # None /\ holds(x, i, key) THEN i ELSE None

xhash_lookup(x, key) ==
    LET i == xhash_lookup__(x, key) IN IF i = None THEN None ELSE x.items[i].val

(* PHASH_UPDATE stops at the first slot that is free or has the key.       *)
UpdateSlot(x, key) ==
    FirstOf(x, key, {s \in DOMAIN x.items : ~item_valid(x, s) \/ holds(x, s, key)})

(* Forgets that the dummy is no more.                                      *)
xhash_upd_set_keeping(x, i, key, val) ==
    [x EXCEPT !.used = @ + 1, !.items[i] = [key |-> key, val |-> val]]

xhash_upd_set(x, i, key, val) ==
    [x EXCEPT !.dummies = IF item_dummy(x, i) THEN @ - 1 ELSE @,
              !.used = @ + 1,
              !.items[i] = [key |-> key, val |-> val]]

set_val(x, i, val) == [x EXCEPT !.items[i].val = val]

xhash_insert__(x, key, val) ==
    LET i == UpdateSlot(x, key)
    IN  IF item_valid(x, i) THEN set_val(x, i, val) ELSE xhash_upd_set(x, i, key, val)

(* The second loop, of xhash_update, passes over the free slots too.       *)
xhash_update(x, key, val) ==
    set_val(x, FirstOf(x, key, {s \in DOMAIN x.items : holds(x, s, key)}), val)

xhash_freql_update__(x, key, val) ==
    LET i == UpdateSlot(x, key)
    IN  IF item_valid(x, i) THEN set_val(x, i, x.items[i].val + val)
        ELSE xhash_upd_set(x, i, key, val)

(* Makes the slot look as if it had never been used.                       *)
xhash_delete_unused(x, key) ==
    [x EXCEPT !.items[xhash_lookup__(x, key)] = UNUSED, !.used = @ - 1]

xhash_delete__(x, key) ==
    [x EXCEPT !.items[xhash_lookup__(x, key)] = DUMMY,
              !.dummies = @ + 1, !.used = @ - 1]

(* Dummies do not count.                                                   *)
grow_check_used(x) == x.used \div 2 + x.used >= xhash_size(x)

grow_check(x) == LET u == x.used + x.dummies IN u \div 2 + u >= xhash_size(x)

shrink_check(x) == 4 * x.used < xhash_size(x) /\ x.shift > MinShift

(* The exported operations: the table they leave and what they return.     *)
xhash_insert(x, key, val) ==
    IF Limit # 0 /\ x.used >= Limit THEN [x |-> x, r |-> -XHASH_ENOSPC]
    ELSE IF grow_check(x) THEN [x |-> x, r |-> -XHASH_ERESIZE]
    ELSE [x |-> xhash_insert__(x, key, val), r |-> 0]

xhash_freql_update(x, key, val) ==
    IF grow_check(x) THEN [x |-> x, r |-> -XHASH_ERESIZE]
    ELSE [x |-> xhash_freql_update__(x, key, val), r |-> 0]

xhash_delete(x, key) ==
    IF shrink_check(x) THEN [x |-> x, r |-> -XHASH_ERESIZE]
    ELSE [x |-> xhash_delete__(x, key), r |-> 0]

(* Never a larger table.                                                   *)
xhash_grow_size_shift_same(x) == x.shift

xhash_grow_size_shift(x) ==
    IF x.used \div 2 + x.used >= xhash_size(x) THEN x.shift + 1 ELSE x.shift

xhash_shrink_size_shift(x) == IF x.shift - 1 < MinShift THEN MinShift ELSE x.shift - 1

(* The valid items in the order of their slots, into a fresh table.        *)
Moved(new, x, i) ==
    IF item_valid(x, i) THEN xhash_insert__(new, x.items[i].key, x.items[i].val) ELSE new

xhash_resize(x, shift) ==
    LET new[i \in Nat] == IF i = 0 THEN xhash_init(shift) ELSE Moved(new[i - 1], x, i - 1)
    IN  new[xhash_size(x)]

-----------------------------------------------------------------------------
NoIter == [loc |-> 0, cnt |-> 0, seen |-> {}, on |-> FALSE, done |-> FALSE]

NoReturn == [op |-> "none", key |-> None, val |-> None, r |-> 0, nomem |-> FALSE]

HashInit == /\ xhash = xhash_init(MinShift)
            /\ hret = NoReturn
            /\ it = NoIter

(* A caller that is asked to resize the table does so, unless malloc has   *)
(* nothing for the new one, and tries once more.                           *)
Outcomes(first, again, shift) ==
    IF first.r # -XHASH_ERESIZE
    THEN {[x |-> first.x, r |-> first.r, nomem |-> FALSE]}
    ELSE {[x |-> xhash, r |-> first.r, nomem |-> TRUE]}
         \cup (IF shift <= MaxShift
               THEN {[x |-> again.x, r |-> again.r, nomem |-> FALSE]} ELSE {})

ResizeAndRetry(op, k, v, first, again, shift) ==
    /\ \E o \in Outcomes(first, again, shift) :
          /\ xhash' = o.x
          /\ hret' = [op |-> op, key |-> k, val |-> v, r |-> o.r, nomem |-> o.nomem]
    /\ it' = NoIter

Grown == xhash_resize(xhash, xhash_grow_size_shift(xhash))

xseg_set_req_data(k, v) ==
    /\ k \in Reinsert \/ xhash_lookup(xhash, k) = None
    /\ ResizeAndRetry("set", k, v, xhash_insert(xhash, k, v), xhash_insert(Grown, k, v),
                      xhash_grow_size_shift(xhash))

(* Values are bounded: the sum must be one.                                *)
freql_update(k, v) ==
    /\ k \in Reinsert \/ xhash_lookup(xhash, k) = None
    /\ \A i \in DOMAIN xhash.items :
          holds(xhash, i, k) => xhash.items[i].val + v \in Data
    /\ ResizeAndRetry("freql", k, v, xhash_freql_update(xhash, k, v),
                      xhash_freql_update(Grown, k, v), xhash_grow_size_shift(xhash))

(* Look the data up and remove it.                                         *)
Shrunk == xhash_resize(xhash, xhash_shrink_size_shift(xhash))

xseg_get_req_data(k) ==
    \/ /\ xhash_lookup(xhash, k) = None
       /\ hret' = [op |-> "get", key |-> k, val |-> None, r |-> -XHASH_EEXIST,
                   nomem |-> FALSE]
       /\ UNCHANGED <<xhash, it>>
    \/ /\ xhash_lookup(xhash, k) # None
       /\ ResizeAndRetry("get", k, xhash_lookup(xhash, k), xhash_delete(xhash, k),
                         xhash_delete(Shrunk, k), xhash_shrink_size_shift(xhash))

(* xhash_update of a key that is there (of another it never returns); it   *)
(* may be called during an iteration.                                      *)
update(k, v) ==
    /\ xhash_lookup(xhash, k) # None
    /\ xhash' = xhash_update(xhash, k, v)
    /\ hret' = [op |-> "update", key |-> k, val |-> v, r |-> 0, nomem |-> FALSE]
    /\ UNCHANGED it

(* An iteration, xhash_iter_init and calls of xhash_iterate.               *)
xhash_iter_init ==
    /\ ~it.on
    /\ it' = [NoIter EXCEPT !.on = TRUE]
    /\ hret' = NoReturn
    /\ UNCHANGED xhash

(* Ends one item early.                                                    *)
xhash_iterate_short ==
    LET left == {i \in it.loc..xhash_size(xhash)-1 : item_valid(xhash, i)}
    IN  /\ it.on /\ ~it.done
        /\ IF xhash.used <= it.cnt + 1 \/ left = {}
           THEN it' = [it EXCEPT !.done = TRUE]
           ELSE it' = [it EXCEPT !.loc = Min(left) + 1, !.cnt = @ + 1,
                                 !.seen = @ \cup {xhash.items[Min(left)].key}]
        /\ UNCHANGED <<xhash, hret>>

xhash_iterate ==
    LET left == {i \in it.loc..xhash_size(xhash)-1 : item_valid(xhash, i)}
    IN  /\ it.on /\ ~it.done
        /\ IF xhash.used = it.cnt \/ left = {}
           THEN it' = [it EXCEPT !.done = TRUE]
           ELSE it' = [it EXCEPT !.loc = Min(left) + 1, !.cnt = @ + 1,
                                 !.seen = @ \cup {xhash.items[Min(left)].key}]
        /\ UNCHANGED <<xhash, hret>>

HashNext == \/ \E k \in Keys : \/ xseg_get_req_data(k)
                               \/ \E v \in Data : \/ xseg_set_req_data(k, v)
                                                    \/ freql_update(k, v)
                                                    \/ update(k, v)
            \/ xhash_iter_init
            \/ xhash_iterate

HashSpec == HashInit /\ [][HashNext]_hashVars

-----------------------------------------------------------------------------
ItemKeys(x) == {x.items[i].key : i \in {j \in DOMAIN x.items : item_valid(x, j)}}

(* used and dummies, on which growing, shrinking and the end of an         *)
(* iteration depend, are what is in the table, across overwritten dummies  *)
(* and resizes that drop them.                                             *)
CountersExact ==
    /\ xhash.used = Cardinality({i \in DOMAIN xhash.items : item_valid(xhash, i)})
    /\ xhash.dummies = Cardinality({i \in DOMAIN xhash.items : item_dummy(xhash, i)})

(* A lookup or a delete of a key that is not there ends only at a slot     *)
(* that was never used: however full of dummies the table, there is one.   *)
ProbesEnd == \E i \in DOMAIN xhash.items : item_unused(xhash, i)

(* One resize is enough: the operation that asked for it is not told to    *)
(* resize again, so that its caller fails only when memory is short.  Only *)
(* where keys are set twice may a delete be: the resize made one item of   *)
(* two, and the smaller table is too empty again.                          *)
ResizeSuffices ==
    hret.r = -XHASH_ERESIZE => hret.nomem \/ (hret.op = "get" /\ Reinsert # {})

(* An iteration that has ended has met every key of the table.             *)
IterationComplete == it.done => it.seen = ItemKeys(xhash)

(* For the keys that no caller sets while they are there, the table is a   *)
(* dictionary; keys that are set twice (and may then be in two slots,      *)
(* xhash.c:410) do not disturb the others.                                 *)
Owned == Keys \ Reinsert
Contents == [k \in Owned |-> xhash_lookup(xhash, k)]
Dict == INSTANCE Dictionary WITH
          Keys <- Owned, Values <- Data, dict <- Contents,
          ret <- [op |-> hret.op, key |-> hret.key, val |-> hret.val, r |-> hret.r]
RefinesDictionary == Dict!Spec
=============================================================================
