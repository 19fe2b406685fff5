------------------------------ MODULE Xbinheap ------------------------------
(***************************************************************************)
(* xtypes/xbinheap.c: a binary heap in an array, whose elements are known  *)
(* to their owners by handlers; indexes[] says in which node a handler is  *)
(* now.  xcache keeps its access times in one, under a lock of its own.    *)
(***************************************************************************)
EXTENDS Integers

CONSTANTS HeapSize, HeapKeys, HeapValues, NoNode

(* NoNode is -1 in the code, and not the key and value of a node.          *)
ASSUME HeapAssumption == /\ HeapSize \in Nat \ {0} /\ HeapKeys \subseteq Nat
                         /\ NoNode \notin [key : HeapKeys, value : HeapValues]

VARIABLES heap,    \* count, flags, nodes[] (key, value, h) and indexes[]
          bret     \* what the last call returned

heapVars == <<heap, bret>>

Pos == 0..HeapSize-1

xbinheap_init(max) ==
    [count |-> 0, max |-> max,
     nodes |-> [i \in Pos |-> [key |-> NoNode, value |-> NoNode, h |-> i]],
     indexes |-> [i \in Pos |-> i]]

(* The indexes stay where they are.                                        *)
swap_nodes_only(x, a, b) ==
    [x EXCEPT !.nodes = [@ EXCEPT ![a] = x.nodes[b], ![b] = x.nodes[a]]]

swap_nodes(x, a, b) ==
    [x EXCEPT !.nodes = [@ EXCEPT ![a] = x.nodes[b], ![b] = x.nodes[a]],
              !.indexes = [@ EXCEPT ![x.nodes[a].h] = x.indexes[x.nodes[b].h],
                                    ![x.nodes[b].h] = x.indexes[x.nodes[a].h]]]

(* Node i has to be above node j.                                          *)
above(x, i, j) == IF x.max THEN x.nodes[i].key > x.nodes[j].key
                           ELSE x.nodes[i].key < x.nodes[j].key

(* One call of heapify_up, for node y.at of y.heap, and the node the next  *)
(* one is for.                                                             *)
rise(y) ==
    LET parent == (y.at - 1) \div 2
    IN  IF y.at # 0 /\ above(y.heap, y.at, parent)
        THEN [heap |-> swap_nodes(y.heap, y.at, parent), at |-> parent]
        ELSE y

(* Each call is for a node nearer to the root, so that these are enough;   *)
(* those beyond the last one change nothing.                               *)
heapify_up(x, i) ==
    LET call[k \in Pos] == IF k = 0 THEN [heap |-> x, at |-> i] ELSE rise(call[k-1])
    IN  call[HeapSize-1].heap

(* Looks at the left child only.                                           *)
largest_of_two(x, i) ==
    IF 2 * i + 1 < x.count /\ above(x, 2 * i + 1, i) THEN 2 * i + 1 ELSE i

largest(x, i) ==
    LET left  == 2 * i + 1
        right == left + 1
        l     == IF left < x.count /\ above(x, left, i) THEN left ELSE i
    IN  IF right < x.count /\ above(x, right, l) THEN right ELSE l

sink(y) ==
    LET l == largest(y.heap, y.at)
    IN  IF l # y.at THEN [heap |-> swap_nodes(y.heap, y.at, l), at |-> l] ELSE y

heapify_down(x, i) ==
    LET call[k \in Pos] == IF k = 0 THEN [heap |-> x, at |-> i] ELSE sink(call[k-1])
    IN  call[HeapSize-1].heap

-----------------------------------------------------------------------------
HeapInit == /\ heap \in {xbinheap_init(max) : max \in BOOLEAN}
            /\ bret = NoNode

(* The node beyond the last one still has the handler that left it there.  *)
xbinheap_insert(key, value) ==
    \/ /\ heap.count + 1 > HeapSize
       /\ bret' = NoNode /\ UNCHANGED heap
    \/ /\ heap.count + 1 <= HeapSize
       /\ bret' = heap.nodes[heap.count].h
       /\ heap' = LET x == [heap EXCEPT !.nodes[heap.count].key = key,
                                        !.nodes[heap.count].value = value]
                  IN  [heapify_up(x, heap.count) EXCEPT !.count = @ + 1]

xbinheap_empty == heap.count = 0

xbinheap_peak == bret' = (IF xbinheap_empty THEN NoNode ELSE heap.nodes[0].value)
                 /\ UNCHANGED heap

xbinheap_extract ==
    \/ xbinheap_empty /\ bret' = NoNode /\ UNCHANGED heap
    \/ /\ ~xbinheap_empty
       /\ bret' = heap.nodes[0].value
       /\ heap' = heapify_down(swap_nodes([heap EXCEPT !.count = @ - 1], 0, heap.count - 1), 0)

(* The owner of a handler uses it while its element is in the heap.        *)
Held(n) == heap.indexes[n] < heap.count

(* Both take the caller's word that the key goes up, or down.              *)
xbinheap_increasekey(n, newkey) ==
    LET x == [heap EXCEPT !.nodes[heap.indexes[n]].key = newkey]
    IN  /\ Held(n) /\ newkey >= heap.nodes[heap.indexes[n]].key
        /\ heap' = IF heap.max THEN heapify_up(x, heap.indexes[n]) ELSE heapify_down(x, heap.indexes[n])
        /\ UNCHANGED bret

xbinheap_decreasekey(n, newkey) ==
    LET x == [heap EXCEPT !.nodes[heap.indexes[n]].key = newkey]
    IN  /\ Held(n) /\ newkey <= heap.nodes[heap.indexes[n]].key
        /\ heap' = IF heap.max THEN heapify_down(x, heap.indexes[n]) ELSE heapify_up(x, heap.indexes[n])
        /\ UNCHANGED bret

xbinheap_getkey(n) == /\ Held(n)
                      /\ bret' = heap.nodes[heap.indexes[n]].key
                      /\ UNCHANGED heap

HeapNext == \/ \E key \in HeapKeys, value \in HeapValues : xbinheap_insert(key, value)
            \/ xbinheap_peak \/ xbinheap_extract
            \/ \E n \in Pos : \/ xbinheap_getkey(n)
                              \/ \E key \in HeapKeys : \/ xbinheap_increasekey(n, key)
                                                       \/ xbinheap_decreasekey(n, key)

HeapSpec == HeapInit /\ [][HeapNext]_heapVars

-----------------------------------------------------------------------------
(* Elements that wander through the array keep their handlers, and the one *)
(* that is extracted has the least, or the greatest, key of all.           *)
Elements == [n \in Pos |-> IF heap.indexes[n] < heap.count
                           THEN [key |-> heap.nodes[heap.indexes[n]].key,
                                 value |-> heap.nodes[heap.indexes[n]].value]
                           ELSE NoNode]
HeapQueue == INSTANCE PriorityQueue WITH
               Handlers <- Pos, KeySet <- HeapKeys, ValueSet <- HeapValues,
               max <- heap.max, elem <- Elements, ret <- bret
RefinesQueue == HeapQueue!Spec
=============================================================================
