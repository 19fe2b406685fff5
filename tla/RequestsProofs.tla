----------------------------- MODULE RequestsProofs -----------------------------
(***************************************************************************)
(* Who has a request, proved for any number of ports, threads, requests    *)
(* and for any queue sizes.                                                *)
(***************************************************************************)
EXTENDS Requests, FiniteSetTheorems, TLAPS

-----------------------------------------------------------------------------
(* What the queue operations do to the elements of a queue.                *)

(* Popping the head of a queue without duplicates takes exactly that       *)
(* element out (__xq_pop_head).                                            *)
LEMMA TailLemma ==
    ASSUME NEW S, NEW s \in Seq(S), s # <<>>, IsInjective(s)
    PROVE  /\ Tail(s) \in Seq(S) /\ IsInjective(Tail(s))
           /\ Head(s) \in ToSet(s) /\ Head(s) \in S
           /\ ToSet(Tail(s)) = ToSet(s) \ {Head(s)}
           /\ Len(Tail(s)) = Len(s) - 1
  <1>1. /\ Tail(s) \in Seq(S) /\ Len(Tail(s)) = Len(s) - 1 /\ Len(s) \in Nat \ {0}
        /\ DOMAIN s = 1..Len(s) /\ DOMAIN Tail(s) = 1..(Len(s) - 1)
        /\ Head(s) = s[1] /\ s[1] \in S
        /\ \A i \in 1..(Len(s) - 1) : Tail(s)[i] = s[i + 1]
    OBVIOUS
  <1>2. IsInjective(Tail(s))
    BY <1>1 DEF IsInjective
  <1>3. Head(s) \in ToSet(s)
    BY <1>1 DEF ToSet
  <1>4. ASSUME NEW x \in ToSet(Tail(s)) PROVE x \in ToSet(s) \ {Head(s)}
    BY <1>1 DEF ToSet, IsInjective
  <1>5. ASSUME NEW x \in ToSet(s), x # Head(s) PROVE x \in ToSet(Tail(s))
    <2>1. PICK i \in 1..Len(s) : x = s[i]
      BY <1>1 DEF ToSet
    <2>2. i - 1 \in 1..(Len(s) - 1) /\ Tail(s)[i - 1] = x
      BY <1>1, <1>5, <2>1
    <2> QED BY <1>1, <2>2 DEF ToSet
  <1> QED BY <1>1, <1>2, <1>3, <1>4, <1>5

(* Appending at the tail adds the element (__xq_append_tail).              *)
LEMMA AppendLemma ==
    ASSUME NEW S, NEW s \in Seq(S), NEW x \in S, IsInjective(s), x \notin ToSet(s)
    PROVE  /\ Append(s, x) \in Seq(S) /\ IsInjective(Append(s, x))
           /\ ToSet(Append(s, x)) = ToSet(s) \cup {x}
           /\ Len(Append(s, x)) = Len(s) + 1
  <1>1. /\ Append(s, x) \in Seq(S) /\ Len(Append(s, x)) = Len(s) + 1
        /\ DOMAIN s = 1..Len(s) /\ DOMAIN Append(s, x) = 1..(Len(s) + 1)
        /\ Len(s) \in Nat /\ Append(s, x)[Len(s) + 1] = x
        /\ \A i \in 1..Len(s) : Append(s, x)[i] = s[i]
    OBVIOUS
  <1>2. IsInjective(Append(s, x))
    BY <1>1 DEF IsInjective, ToSet
  <1>3. ASSUME NEW y \in ToSet(Append(s, x)) PROVE y \in ToSet(s) \cup {x}
    BY <1>1 DEF ToSet
  <1>4. ASSUME NEW y \in ToSet(s) \cup {x} PROVE y \in ToSet(Append(s, x))
    BY <1>1 DEF ToSet
  <1> QED BY <1>1, <1>2, <1>3, <1>4

(* So does putting it before the head (__xq_append_head).                  *)
LEMMA ConsLemma ==
    ASSUME NEW S, NEW s \in Seq(S), NEW x \in S, IsInjective(s), x \notin ToSet(s)
    PROVE  /\ <<x>> \o s \in Seq(S) /\ IsInjective(<<x>> \o s)
           /\ ToSet(<<x>> \o s) = ToSet(s) \cup {x}
           /\ Len(<<x>> \o s) = Len(s) + 1
  <1> DEFINE c == <<x>> \o s
  <1>1. /\ c \in Seq(S) /\ Len(c) = Len(s) + 1
        /\ DOMAIN s = 1..Len(s) /\ DOMAIN c = 1..(Len(s) + 1)
        /\ Len(s) \in Nat /\ c[1] = x
        /\ \A i \in 2..(Len(s) + 1) : c[i] = s[i - 1]
    OBVIOUS
  <1> HIDE DEF c
  <1>2. IsInjective(c)
    <2>1. ASSUME NEW i \in 2..(Len(s) + 1) PROVE c[i] \in ToSet(s)
      BY <1>1 DEF ToSet
    <2>2. ASSUME NEW i \in 2..(Len(s) + 1), NEW j \in 2..(Len(s) + 1), c[i] = c[j]
          PROVE  i = j
      <3>1. i - 1 \in DOMAIN s /\ j - 1 \in DOMAIN s /\ s[i - 1] = s[j - 1]
        BY <1>1, <2>2
      <3>2. i - 1 = j - 1
        BY <3>1 DEF IsInjective
      <3> QED BY <3>2
    <2>3. \A i \in 1..(Len(s) + 1) : i = 1 \/ i \in 2..(Len(s) + 1)
      BY <1>1
    <2> QED BY <1>1, <2>1, <2>2, <2>3 DEF IsInjective
  <1>3. ASSUME NEW y \in ToSet(c) PROVE y \in ToSet(s) \cup {x}
    <2>1. PICK i \in 1..(Len(s) + 1) : y = c[i]
      BY <1>1, <1>3 DEF ToSet
    <2>2. CASE i = 1
      BY <1>1, <2>1, <2>2
    <2>3. CASE i # 1
      BY <1>1, <2>1, <2>3 DEF ToSet
    <2> QED BY <2>2, <2>3
  <1>4. ASSUME NEW y \in ToSet(s) \cup {x} PROVE y \in ToSet(c)
    <2>1. CASE y = x
      BY <1>1, <2>1 DEF ToSet
    <2>2. CASE y \in ToSet(s)
      <3>1. PICK i \in 1..Len(s) : y = s[i]
        BY <1>1, <2>2 DEF ToSet
      <3>2. i + 1 \in 2..(Len(s) + 1) /\ c[i + 1] = y
        BY <1>1, <3>1
      <3> QED BY <1>1, <3>2 DEF ToSet
    <2> QED BY <1>4, <2>1, <2>2
  <1>5. ToSet(c) = ToSet(s) \cup {x}
    BY <1>3, <1>4
  <1> QED BY <1>1, <1>2, <1>5 DEF c

(* Turning a queue upside down keeps its elements (__xq_resize).           *)
LEMMA ReverseLemma ==
    ASSUME NEW S, NEW s \in Seq(S), IsInjective(s)
    PROVE  /\ Reverse(s) \in Seq(S) /\ IsInjective(Reverse(s))
           /\ ToSet(Reverse(s)) = ToSet(s)
           /\ Len(Reverse(s)) = Len(s)
  <1> DEFINE v == Reverse(s)
  <1>1. /\ Len(s) \in Nat /\ DOMAIN s = 1..Len(s) /\ v \in Seq(S)
        /\ Len(v) = Len(s) /\ DOMAIN v = 1..Len(s)
        /\ \A i \in 1..Len(s) : v[i] = s[(Len(s) - i) + 1] /\ (Len(s) - i) + 1 \in 1..Len(s)
    BY DEF Reverse
  <1> HIDE DEF v
  <1>2. IsInjective(v)
    BY <1>1 DEF IsInjective
  <1>3. ASSUME NEW y \in ToSet(v) PROVE y \in ToSet(s)
    BY <1>1 DEF ToSet
  <1>4. ASSUME NEW y \in ToSet(s) PROVE y \in ToSet(v)
    <2>1. PICK i \in 1..Len(s) : y = s[i]
      BY <1>1 DEF ToSet
    <2>2. (Len(s) - i) + 1 \in 1..Len(s) /\ v[(Len(s) - i) + 1] = y
      BY <1>1, <2>1
    <2> QED BY <1>1, <2>2 DEF ToSet
  <1> QED BY <1>1, <1>2, <1>3, <1>4 DEF v

(* Two sequences of one length stay so when both grow or shrink.           *)
LEMMA SameLength ==
    ASSUME NEW S, NEW a \in Seq(S), NEW b \in Seq(S), Len(a) = Len(b), NEW x \in S, NEW y \in S
    PROVE  /\ <<x>> \o a \in Seq(S) /\ <<y>> \o b \in Seq(S)
           /\ Len(<<x>> \o a) = Len(<<y>> \o b)
           /\ a # <<>> => /\ Tail(a) \in Seq(S) /\ Tail(b) \in Seq(S)
                          /\ Len(Tail(a)) = Len(Tail(b))
  <1>1. /\ <<x>> \o a \in Seq(S) /\ <<y>> \o b \in Seq(S)
        /\ Len(<<x>> \o a) = Len(<<y>> \o b)
    OBVIOUS
  <1>2. ASSUME a # <<>>
        PROVE  /\ Tail(a) \in Seq(S) /\ Tail(b) \in Seq(S)
               /\ Len(Tail(a)) = Len(Tail(b))
    <2>1. b # <<>>
      BY <1>2
    <2> QED BY <1>2, <2>1
  <1> QED BY <1>1, <1>2

-----------------------------------------------------------------------------
(* The moves: each step of the program takes at most one request from one  *)
(* place (the free list, a queue, a thread, lost) to another.              *)

(* Every request is in exactly one place.                                  *)
Own == NoSharing /\ NoneForgotten

(* Types of what says where requests are.                                  *)
Places == /\ objs \subseteq Reqs /\ lost \subseteq Reqs
          /\ queue \in [PortQueues -> Seq(Reqs)]
          /\ held \in [Threads -> SUBSET Reqs]

(* A step that moves nothing.                                              *)
LEMMA NoMove ==
    ASSUME Places, Own, UNCHANGED <<objs, lost, queue, held>>
    PROVE  Places' /\ Own'
  BY DEF Places, Own, NoSharing, NoneForgotten, Queued

(* The head of a queue is popped.                                          *)
LEMMA Popped ==
    ASSUME Places, Own, NEW q \in PortQueues, queue[q] # <<>>,
           queue' = [queue EXCEPT ![q] = Tail(@)]
    PROVE  /\ Head(queue[q]) \in Queued(q) /\ Head(queue[q]) \in Reqs
           /\ queue' \in [PortQueues -> Seq(Reqs)]
           /\ \A p \in PortQueues : IsInjective(queue'[p])
           /\ Queued(q)' = Queued(q) \ {Head(queue[q])}
           /\ \A p \in PortQueues : p # q => Queued(p)' = Queued(p)
  <1>1. /\ Tail(queue[q]) \in Seq(Reqs) /\ IsInjective(Tail(queue[q]))
        /\ Head(queue[q]) \in Queued(q) /\ Head(queue[q]) \in Reqs
        /\ ToSet(Tail(queue[q])) = Queued(q) \ {Head(queue[q])}
    BY TailLemma DEF Places, Own, NoSharing, Queued
  <1>2. /\ queue' \in [PortQueues -> Seq(Reqs)] /\ queue'[q] = Tail(queue[q])
        /\ \A p \in PortQueues : p # q => queue'[p] = queue[p]
    BY <1>1 DEF Places
  <1> QED BY <1>1, <1>2 DEF Queued, Own, NoSharing

(* A queue is given a content without duplicates.                          *)
LEMMA Filled ==
    ASSUME Places, Own, NEW q \in PortQueues, NEW s \in Seq(Reqs), IsInjective(s),
           queue' = [queue EXCEPT ![q] = s]
    PROVE  /\ queue' \in [PortQueues -> Seq(Reqs)]
           /\ \A p \in PortQueues : IsInjective(queue'[p])
           /\ Queued(q)' = ToSet(s)
           /\ \A p \in PortQueues : p # q => Queued(p)' = Queued(p)
  <1>1. /\ queue' \in [PortQueues -> Seq(Reqs)] /\ queue'[q] = s
        /\ \A p \in PortQueues : p # q => queue'[p] = queue[p]
    BY DEF Places
  <1> QED BY <1>1 DEF Queued, Own, NoSharing

(* From the head of a queue to a thread.                                   *)
LEMMA QueueToThread ==
    ASSUME Places, Own, NEW q \in PortQueues, NEW t \in Threads, queue[q] # <<>>,
           queue' = [queue EXCEPT ![q] = Tail(@)],
           held' = [held EXCEPT ![t] = @ \cup {Head(queue[q])}],
           UNCHANGED <<objs, lost>>
    PROVE  Places' /\ Own'
  <1> DEFINE r == Head(queue[q])
  <1>1. /\ r \in Queued(q) /\ r \in Reqs
        /\ queue' \in [PortQueues -> Seq(Reqs)]
        /\ \A p \in PortQueues : IsInjective(queue'[p])
        /\ Queued(q)' = Queued(q) \ {r}
        /\ \A p \in PortQueues : p # q => Queued(p)' = Queued(p)
    BY Popped
  <1>2. /\ held' \in [Threads -> SUBSET Reqs] /\ held'[t] = held[t] \cup {r}
        /\ \A u \in Threads : u # t => held'[u] = held[u]
    BY <1>1 DEF Places
  <1> HIDE DEF r
  <1>3. NoSharing'
    BY <1>1, <1>2 DEF Own, NoSharing
  <1>4. NoneForgotten'
    BY <1>1, <1>2 DEF Own, NoneForgotten
  <1> QED BY <1>1, <1>2, <1>3, <1>4 DEF Places, Own

(* From the head of a queue back to the free list, or out of reach.        *)
LEMMA QueueToSegment ==
    ASSUME Places, Own, NEW q \in PortQueues, queue[q] # <<>>,
           queue' = [queue EXCEPT ![q] = Tail(@)], UNCHANGED held,
           \/ objs' = objs \cup {Head(queue[q])} /\ UNCHANGED lost
           \/ lost' = lost \cup {Head(queue[q])} /\ UNCHANGED objs
    PROVE  Places' /\ Own'
  <1> DEFINE r == Head(queue[q])
  <1>1. /\ r \in Queued(q) /\ r \in Reqs
        /\ queue' \in [PortQueues -> Seq(Reqs)]
        /\ \A p \in PortQueues : IsInjective(queue'[p])
        /\ Queued(q)' = Queued(q) \ {r}
        /\ \A p \in PortQueues : p # q => Queued(p)' = Queued(p)
    BY Popped
  <1>2. objs' \cup lost' = objs \cup lost \cup {r}
    OBVIOUS
  <1>3. /\ objs' \subseteq Reqs /\ lost' \subseteq Reqs
        /\ objs' \cap lost' = {}
    BY <1>1 DEF Places, Own, NoSharing
  <1>6. held' = held
    OBVIOUS
  <1> HIDE DEF r
  <1>4. NoSharing'
    <2>1. \A p \in PortQueues : Queued(p)' \cap (objs' \cup lost') = {}
      BY <1>1, <1>2 DEF Own, NoSharing
    <2>2. \A u \in Threads : held'[u] \cap (objs' \cup lost') = {}
      BY <1>1, <1>2, <1>6 DEF Own, NoSharing
    <2>3. \A p \in PortQueues : Queued(p)' \subseteq Queued(p)
      BY <1>1
    <2> QED BY ONLY <1>1, <1>3, <1>6, <2>1, <2>2, <2>3, Own DEF Own, NoSharing
  <1>5. NoneForgotten'
    BY <1>1, <1>2 DEF Own, NoneForgotten
  <1> QED BY <1>1, <1>3, <1>4, <1>5 DEF Places, Own

(* From a thread into a queue, wherever it goes there.                     *)
LEMMA ThreadToQueue ==
    ASSUME Places, Own, NEW q \in PortQueues, NEW t \in Threads, NEW r \in held[t],
           NEW s \in Seq(Reqs), IsInjective(s), ToSet(s) = Queued(q) \cup {r},
           queue' = [queue EXCEPT ![q] = s],
           held' = [held EXCEPT ![t] = @ \ {r}],
           UNCHANGED <<objs, lost>>
    PROVE  Places' /\ Own'
  <1>1. /\ queue' \in [PortQueues -> Seq(Reqs)]
        /\ \A p \in PortQueues : IsInjective(queue'[p])
        /\ Queued(q)' = Queued(q) \cup {r}
        /\ \A p \in PortQueues : p # q => Queued(p)' = Queued(p)
    BY Filled
  <1>2. /\ held' \in [Threads -> SUBSET Reqs] /\ held'[t] = held[t] \ {r}
        /\ \A u \in Threads : u # t => held'[u] = held[u]
        /\ r \in Reqs
    BY DEF Places
  <1>3. NoSharing'
    BY <1>1, <1>2 DEF Own, NoSharing
  <1>4. NoneForgotten'
    BY <1>1, <1>2 DEF Own, NoneForgotten
  <1> QED BY <1>1, <1>2, <1>3, <1>4 DEF Places, Own

(* From a thread back to the free list.                                    *)
LEMMA ThreadToObjs ==
    ASSUME Places, Own, NEW t \in Threads, NEW r \in held[t],
           objs' = objs \cup {r}, held' = [held EXCEPT ![t] = @ \ {r}],
           UNCHANGED <<queue, lost>>
    PROVE  Places' /\ Own'
  <1>1. /\ held' \in [Threads -> SUBSET Reqs] /\ held'[t] = held[t] \ {r}
        /\ \A u \in Threads : u # t => held'[u] = held[u]
        /\ r \in Reqs
    BY DEF Places
  <1>2. \A p \in PortQueues : Queued(p)' = Queued(p)
    BY DEF Queued
  <1>3. NoSharing'
    BY <1>1, <1>2 DEF Own, NoSharing
  <1>4. NoneForgotten'
    BY <1>1, <1>2 DEF Own, NoneForgotten
  <1> QED BY <1>1, <1>3, <1>4 DEF Places, Own

(* From the free list to a thread.                                         *)
LEMMA ObjsToThread ==
    ASSUME Places, Own, NEW t \in Threads, NEW r \in objs,
           objs' = objs \ {r}, held' = [held EXCEPT ![t] = @ \cup {r}],
           UNCHANGED <<queue, lost>>
    PROVE  Places' /\ Own'
  <1>1. /\ held' \in [Threads -> SUBSET Reqs] /\ held'[t] = held[t] \cup {r}
        /\ \A u \in Threads : u # t => held'[u] = held[u]
        /\ r \in Reqs
    BY DEF Places
  <1>2. \A p \in PortQueues : Queued(p)' = Queued(p)
    BY DEF Queued
  <1>3. NoSharing'
    BY <1>1, <1>2 DEF Own, NoSharing
  <1>4. NoneForgotten'
    BY <1>1, <1>2 DEF Own, NoneForgotten
  <1> QED BY <1>1, <1>3, <1>4 DEF Places, Own

(* From the free list out of reach.                                        *)
LEMMA ObjsToLost ==
    ASSUME Places, Own, NEW r \in objs, objs' = objs \ {r}, lost' = lost \cup {r},
           UNCHANGED <<queue, held>>
    PROVE  Places' /\ Own'
  <1>1. \A p \in PortQueues : Queued(p)' = Queued(p)
    BY DEF Queued
  <1>2. objs' \cup lost' = objs \cup lost
    OBVIOUS
  <1>3. objs' \subseteq Reqs /\ lost' \subseteq Reqs /\ objs' \cap lost' = {}
    BY DEF Places, Own, NoSharing
  <1>4. NoSharing'
    BY <1>1, <1>2, <1>3 DEF Own, NoSharing
  <1>5. NoneForgotten'
    BY <1>1, <1>2 DEF Own, NoneForgotten
  <1> QED BY <1>3, <1>4, <1>5 DEF Places, Own

(* From the free list to the tail of a queue.                              *)
LEMMA ObjsToQueue ==
    ASSUME Places, Own, NEW q \in PortQueues, NEW r \in objs, objs' = objs \ {r},
           queue' = [queue EXCEPT ![q] = Append(@, r)],
           UNCHANGED <<held, lost>>
    PROVE  Places' /\ Own'
  <1>1. /\ r \in Reqs /\ r \notin Queued(q)
        /\ queue[q] \in Seq(Reqs) /\ IsInjective(queue[q])
    BY DEF Places, Own, NoSharing
  <1>2. /\ Append(queue[q], r) \in Seq(Reqs) /\ IsInjective(Append(queue[q], r))
        /\ ToSet(Append(queue[q], r)) = Queued(q) \cup {r}
    BY <1>1, AppendLemma DEF Queued
  <1>3. /\ queue' \in [PortQueues -> Seq(Reqs)]
        /\ \A p \in PortQueues : IsInjective(queue'[p])
        /\ Queued(q)' = Queued(q) \cup {r}
        /\ \A p \in PortQueues : p # q => Queued(p)' = Queued(p)
    BY <1>2, Filled
  <1>4. NoSharing'
    BY <1>1, <1>3 DEF Own, NoSharing
  <1>5. NoneForgotten'
    BY <1>1, <1>3 DEF Own, NoneForgotten
  <1> QED BY <1>1, <1>3, <1>4, <1>5 DEF Places, Own

(* A queue is turned upside down.                                          *)
LEMMA UpsideDown ==
    ASSUME Places, Own, NEW q \in PortQueues,
           queue' = [queue EXCEPT ![q] = Reverse(@)],
           UNCHANGED <<held, objs, lost>>
    PROVE  Places' /\ Own'
  <1>1. /\ Reverse(queue[q]) \in Seq(Reqs) /\ IsInjective(Reverse(queue[q]))
        /\ ToSet(Reverse(queue[q])) = Queued(q)
    BY ReverseLemma DEF Places, Own, NoSharing, Queued
  <1>2. /\ queue' \in [PortQueues -> Seq(Reqs)]
        /\ \A p \in PortQueues : IsInjective(queue'[p])
        /\ \A p \in PortQueues : Queued(p)' = Queued(p)
    BY <1>1, Filled
  <1>3. NoSharing'
    BY <1>2 DEF Own, NoSharing
  <1>4. NoneForgotten'
    BY <1>2 DEF Own, NoneForgotten
  <1> QED BY <1>2, <1>3, <1>4 DEF Places, Own

-----------------------------------------------------------------------------
(* The inductive invariant.                                                *)

(* Types of the rest of the state.                                         *)
SegmentTypes ==
    /\ size \in [PortQueues -> Nat]
    /\ alloc \in [Bound -> 0..AllocMod-1] /\ max \in [Bound -> Nat]
    /\ path_next \in [Ports -> Ports \cup {NoPort}]
    /\ fq_lock \in [Bound -> Threads \cup {NoThread}]
    /\ home \in [Reqs -> Bound \cup {NoPort}]

RequestTypes ==
    /\ src \in [Reqs -> Ports \cup {NoPort}]
    /\ dst \in [Reqs -> Ports \cup {NoPort}]
    /\ transit \in [Reqs -> Ports \cup {NoPort}]
    /\ path \in [Reqs -> Seq(Ports)] /\ sent \in [Reqs -> Seq(Ports)]
    /\ via \in [Reqs -> {"none", "get", "accept", "receive"}]

CallTypes ==
    op \in [Threads -> [at : Labels, req : Reqs \cup {NoReq}, i : Nat, nr : Nat,
                        port : Ports \cup {NoPort} \cup Dsts]]

(* The request a call works on is in the hand of its thread, and the port  *)
(* it is on its way to is there: nobody else can write its transit_portno  *)
(* between the check of xseg_submit and its use.                           *)
HoldsOf(t) ==
    /\ op[t].at \in {"put_free", "put_obj", "discover", "submit", "respond"}
         => op[t].req \in held[t]
    /\ op[t].at \in {"put_free", "put_obj", "put_dec"} => op[t].port \in Bound
    /\ op[t].at = "submit" => op[t].port \in Usable
    /\ op[t].at \in {"discover", "submit"} => transit[op[t].req] \in Ports

OpHolds == \A t \in Threads : HoldsOf(t)

(* The path and its history are equally long.                              *)
SameDepth == \A r \in Reqs : Len(path[r]) = Len(sent[r])

IInv == /\ Places /\ SegmentTypes /\ RequestTypes /\ CallTypes
        /\ Own /\ OpHolds /\ SameDepth /\ ReplyHasItsPort

LEMMA TypeOKSplit == TypeOK <=> Places /\ SegmentTypes /\ RequestTypes /\ CallTypes
  BY DEF TypeOK, Places, SegmentTypes, RequestTypes, CallTypes

(* Init establishes it.                                                    *)
LEMMA InitIInv == Init => IInv
  <1> SUFFICES ASSUME Init PROVE IInv
    OBVIOUS
  <1> USE PortsAssumption, SizesAssumption
  <1>1. Places /\ SegmentTypes /\ RequestTypes
    BY DEF Init, Places, SegmentTypes, RequestTypes
  <1>2. CallTypes /\ OpHolds
    BY DEF Init, CallTypes, OpHolds, HoldsOf, Frame, Idle, Labels
  <1>3. \A q \in PortQueues : queue[q] = <<>> /\ Queued(q) = {}
    BY DEF Init, Queued, ToSet
  <1>4. NoSharing
    BY <1>3 DEF Init, NoSharing, IsInjective
  <1>5. NoneForgotten
    BY DEF Init, NoneForgotten
  <1>6. \A p \in Bound : reply_queue(p) \in PortQueues
    BY DEF reply_queue, PortQueues
  <1>7. SameDepth /\ ReplyHasItsPort
    BY <1>3, <1>6 DEF Init, SameDepth, ReplyHasItsPort
  <1> QED BY <1>1, <1>2, <1>4, <1>5, <1>7 DEF IInv, Own

(* What other threads hold stays as it is, and so do their calls.          *)
LEMMA OthersHold ==
    ASSUME IInv, NEW t \in Threads, HoldsOf(t)',
           \A u \in Threads : u # t => op'[u] = op[u] /\ held'[u] = held[u],
           \A u \in Threads : u # t => \A x \in held[u] : transit'[x] = transit[x]
    PROVE  OpHolds'
  BY DEF IInv, OpHolds, HoldsOf

(* A port that has a queue.                                                *)
LEMMA QueuesOf ==
    ASSUME NEW p \in Bound
    PROVE  /\ free_queue(p) \in PortQueues /\ request_queue(p) \in PortQueues
           /\ reply_queue(p) \in PortQueues
           /\ \A x : /\ reply_queue(p) # free_queue(x) /\ reply_queue(p) # request_queue(x)
                     /\ reply_queue(p) = reply_queue(x) => p = x
  BY DEF free_queue, request_queue, reply_queue, PortQueues

(* Replies that were queued before keep their path, if nobody had them.    *)
LEMMA RepliesKept ==
    ASSUME IInv,
           \A p \in Bound : Queued(reply_queue(p))' \subseteq Queued(reply_queue(p)),
           \A p \in Bound : \A x \in Queued(reply_queue(p))' : path'[x] = path[x]
    PROVE  ReplyHasItsPort'
  BY DEF IInv, ReplyHasItsPort

-----------------------------------------------------------------------------
(* Steps that move no request and leave every path alone.                  *)

(* A counter modulo AllocMod stays in its range.                           *)
LEMMA ModLemma == \A n \in Int : n % AllocMod \in 0..AllocMod-1
  BY SizesAssumption

LEMMA QuietStep ==
    ASSUME IInv, NEW t \in Threads,
           UNCHANGED <<objs, lost, queue, held, path, sent, transit>>,
           SegmentTypes', RequestTypes', CallTypes', HoldsOf(t)',
           \A u \in Threads : u # t => op'[u] = op[u]
    PROVE  IInv'
  <1>1. Places' /\ Own'
    BY NoMove DEF IInv
  <1>2. OpHolds'
    BY OthersHold
  <1>3. SameDepth'
    BY DEF IInv, SameDepth
  <1>4. \A p \in Bound : Queued(reply_queue(p))' = Queued(reply_queue(p))
    BY DEF Queued
  <1>5. ReplyHasItsPort'
    BY <1>4, RepliesKept
  <1> QED BY <1>1, <1>2, <1>3, <1>5 DEF IInv

(* xseg_get_request goes on to the heap.                                   *)
LEMMA GetMissStep ==
    ASSUME IInv, NEW t \in Threads, NEW d \in Dsts, GetMiss(t, d)
    PROVE  IInv'
  <1>1. SegmentTypes' /\ RequestTypes'
    BY DEF IInv, SegmentTypes, RequestTypes, GetMiss, segvars, reqvars, history
  <1>2. CallTypes' /\ HoldsOf(t)' /\ \A u \in Threads : u # t => op'[u] = op[u]
    BY DEF IInv, CallTypes, HoldsOf, GetMiss, Frame, Idle, Labels
  <1> QED BY <1>1, <1>2, QuietStep DEF GetMiss, segvars, reqvars, history

(* The decrements of alloc_reqs.                                           *)
LEMMA DecStep ==
    ASSUME IInv, NEW t \in Threads, PutDec(t) \/ FreeDec(t)
    PROVE  IInv'
  <1>1. alloc' \in [Bound -> 0..AllocMod-1]
    <2>1. \A p \in Bound : alloc[p] - 1 \in Int /\ alloc[p] - op[t].i \in Int
      BY SizesAssumption DEF IInv, SegmentTypes, CallTypes
    <2> QED BY <2>1, ModLemma DEF IInv, SegmentTypes, PutDec, FreeDec
  <1>2. SegmentTypes' /\ RequestTypes'
    BY <1>1 DEF IInv, SegmentTypes, RequestTypes, PutDec, FreeDec, reqvars, history
  <1>3. CallTypes' /\ HoldsOf(t)' /\ \A u \in Threads : u # t => op'[u] = op[u]
    BY DEF IInv, CallTypes, HoldsOf, PutDec, FreeDec, Return, Frame, Idle, Labels
  <1> QED BY <1>2, <1>3, QuietStep DEF PutDec, FreeDec, reqvars, history

(* xseg_submit and xseg_forward up to their loop: transit_portno is valid  *)
(* and the request in hand.                                                *)
LEMMA StartSubmitStep ==
    ASSUME IInv, NEW t \in Threads, NEW r \in Reqs,
           Submit(t, r) \/ \E d \in Dsts : Forward(t, r, d)
    PROVE  IInv'
  <1>1. /\ r \in held[t] /\ transit[r] \in Ports
        /\ op' = [op EXCEPT ![t] = Frame("discover", r, transit[r], 0)]
        /\ UNCHANGED <<segvars, src, transit, path, held, history>>
    BY DEF Submit, Forward, MaySubmit, StartSubmit
  <1>2. dst' \in [Reqs -> Ports \cup {NoPort}]
    BY DEF IInv, RequestTypes, Submit, Forward
  <1>3. SegmentTypes' /\ RequestTypes'
    BY <1>1, <1>2 DEF IInv, SegmentTypes, RequestTypes, segvars, history
  <1>4. CallTypes' /\ HoldsOf(t)' /\ \A u \in Threads : u # t => op'[u] = op[u]
    BY <1>1 DEF IInv, CallTypes, HoldsOf, Frame, Labels
  <1> QED BY <1>1, <1>3, <1>4, QuietStep DEF segvars, history

(* A turn of its loop.                                                     *)
LEMMA DiscoverStep ==
    ASSUME IInv, NEW t \in Threads, Discover(t)
    PROVE  IInv'
  <1>1. SegmentTypes' /\ RequestTypes'
    BY DEF IInv, SegmentTypes, RequestTypes, Discover, segvars, reqvars, history
  <1>2. CallTypes' /\ HoldsOf(t)' /\ \A u \in Threads : u # t => op'[u] = op[u]
    BY PortsAssumption
       DEF IInv, OpHolds, CallTypes, HoldsOf, Discover, At, Return, Frame, Idle, Labels,
           reqvars, history
  <1> QED BY <1>1, <1>2, QuietStep DEF Discover, segvars, reqvars, history

LEMMA RespondStep ==
    ASSUME IInv, NEW t \in Threads, NEW r \in Reqs, Respond(t, r)
    PROVE  IInv'
  <1>1. SegmentTypes' /\ RequestTypes'
    BY DEF IInv, SegmentTypes, RequestTypes, Respond, segvars, reqvars, history
  <1>2. CallTypes' /\ HoldsOf(t)' /\ \A u \in Threads : u # t => op'[u] = op[u]
    BY DEF IInv, CallTypes, HoldsOf, Respond, Frame, Idle, Labels
  <1> QED BY <1>1, <1>2, QuietStep DEF Respond, segvars, reqvars, history

(* Administrative calls start or set a limit or a hop.                     *)
LEMMA AdminStep ==
    ASSUME IInv, NEW t \in Threads, NEW n \in Counts,
           \/ AllocRequests(t, n) \/ FreeRequests(t, n)
           \/ SetFreequeueSize(t, n) \/ SetMaxRequests(t, n)
    PROVE  IInv'
  <1>1. CASE SetMaxRequests(t, n)
    <2>1. SegmentTypes' /\ RequestTypes'
      BY <1>1, SizesAssumption
         DEF IInv, SegmentTypes, RequestTypes, SetMaxRequests, reqvars, history
    <2>2. CallTypes' /\ HoldsOf(t)'
      BY <1>1 DEF IInv, OpHolds, CallTypes, HoldsOf, SetMaxRequests, thvars, reqvars
    <2> QED BY <1>1, <2>1, <2>2, QuietStep DEF SetMaxRequests, thvars, reqvars, history
  <1>2. ASSUME NEW l \in {"alloc", "free", "resize"}, LockFq(t, l, n) PROVE IInv'
    <2>1. SegmentTypes' /\ RequestTypes'
      BY <1>2 DEF IInv, SegmentTypes, RequestTypes, LockFq, reqvars, history
    <2>2. CallTypes' /\ HoldsOf(t)' /\ \A u \in Threads : u # t => op'[u] = op[u]
      BY <1>2, SizesAssumption DEF IInv, CallTypes, HoldsOf, LockFq, Frame, Idle, Labels
    <2> QED BY <1>2, <2>1, <2>2, QuietStep DEF LockFq, reqvars, history
  <1> QED BY <1>1, <1>2 DEF AllocRequests, FreeRequests, SetFreequeueSize

LEMMA SetPathNextStep ==
    ASSUME IInv, NEW t \in Threads, NEW hop \in Hops, SetPathNext(t, hop)
    PROVE  IInv'
  <1>1. SegmentTypes' /\ RequestTypes'
    BY PortsAssumption
       DEF IInv, SegmentTypes, RequestTypes, SetPathNext, reqvars, history
  <1>2. CallTypes' /\ HoldsOf(t)'
    BY DEF IInv, OpHolds, CallTypes, HoldsOf, SetPathNext, thvars, reqvars
  <1> QED BY <1>1, <1>2, QuietStep DEF SetPathNext, thvars, reqvars, history

-----------------------------------------------------------------------------
(* Steps that give a new path to a request nobody else has.                *)

(* Request r, in no queue of replies and with no other thread than t, gets *)
(* new fields.                                                             *)
LEMMA FieldsStep ==
    ASSUME IInv, NEW t \in Threads, NEW r \in Reqs, Places', Own',
           SegmentTypes', RequestTypes', CallTypes', HoldsOf(t)',
           \A u \in Threads : u # t => op'[u] = op[u] /\ held'[u] = held[u] /\ r \notin held[u],
           \A x \in Reqs : x # r => /\ path'[x] = path[x] /\ sent'[x] = sent[x]
                                   /\ transit'[x] = transit[x],
           Len(path'[r]) = Len(sent'[r]),
           \A p \in Bound : /\ Queued(reply_queue(p))' \subseteq Queued(reply_queue(p))
                            /\ r \notin Queued(reply_queue(p))'
    PROVE  IInv'
  <1>1. \A u \in Threads : held[u] \subseteq Reqs
    BY DEF IInv, Places
  <1>2. OpHolds'
    BY <1>1, OthersHold
  <1>3. SameDepth'
    BY DEF IInv, SameDepth
  <1>4. \A p \in Bound : Queued(reply_queue(p)) \subseteq Reqs
    BY QueuesOf DEF IInv, Places, Queued, ToSet
  <1>5. ReplyHasItsPort'
    BY <1>4, RepliesKept
  <1> QED BY <1>2, <1>3, <1>5 DEF IInv

(* Where xseg_get_request leaves the request it took.                      *)
LEMMA InitRequestLemma ==
    ASSUME IInv, NEW t \in Threads, NEW r \in Reqs, NEW d, InitRequest(t, r, d)
    PROVE  /\ \/ held' = [held EXCEPT ![t] = @ \cup {r}] /\ lost' = lost
              \/ held' = held /\ lost' = lost \cup {r}
           /\ RequestTypes' /\ CallTypes'
           /\ held' = [held EXCEPT ![t] = @ \cup {r}] => HoldsOf(t)'
           /\ held' = held => HoldsOf(t)'
           /\ \A u \in Threads : u # t => op'[u] = op[u]
           /\ \A x \in Reqs : x # r => /\ path'[x] = path[x] /\ sent'[x] = sent[x]
                                      /\ transit'[x] = transit[x]
           /\ Len(path'[r]) = Len(sent'[r])
  <1>1. CASE d \in Ports
    <2> USE <1>1, PortsAssumption
    <2>1. Prepared(t, r, d)
      BY DEF InitRequest
    <2>2. RequestTypes'
      BY <2>1 DEF Prepared, IInv, RequestTypes
    <2>3. CallTypes' /\ HoldsOf(t)' /\ \A u \in Threads : u # t => op'[u] = op[u]
      BY <2>1 DEF Prepared, Return, IInv, CallTypes, HoldsOf, Frame, Idle, Labels
    <2> QED BY <2>1, <2>2, <2>3 DEF Prepared, Hold, IInv, RequestTypes
  <1>2. CASE d \notin Ports /\ src[r] \in Bound
    <2> USE <1>2, PortsAssumption
    <2>1. StartPut(t, r) /\ Hold(t, r) /\ UNCHANGED lost
      BY DEF InitRequest, Refused
    <2>2. RequestTypes'
      BY <2>1 DEF StartPut, IInv, RequestTypes
    <2>3. held'[t] = held[t] \cup {r}
      BY <2>1 DEF Hold, IInv, Places
    <2>4. CallTypes' /\ HoldsOf(t)' /\ \A u \in Threads : u # t => op'[u] = op[u]
      BY <2>1, <2>3 DEF StartPut, Frame, IInv, CallTypes, HoldsOf, Labels
    <2> QED BY <2>1, <2>2, <2>4 DEF StartPut, Hold, IInv, RequestTypes
  <1>3. CASE d \notin Ports /\ src[r] \notin Bound
    <2> USE <1>3
    <2>1. /\ lost' = lost \cup {r} /\ Return(t)
          /\ UNCHANGED <<held, reqvars, via, sent>>
      BY DEF InitRequest, Refused
    <2>2. RequestTypes'
      BY <2>1 DEF IInv, RequestTypes, reqvars
    <2>3. CallTypes' /\ HoldsOf(t)' /\ \A u \in Threads : u # t => op'[u] = op[u]
      BY <2>1 DEF Return, IInv, CallTypes, HoldsOf, Frame, Idle, Labels
    <2> QED BY <2>1, <2>2, <2>3 DEF IInv, SameDepth, reqvars
  <1> QED BY <1>1, <1>2, <1>3

(* xseg_get_request from the free_queue.                                   *)
LEMMA GetFreeStep ==
    ASSUME IInv, NEW t \in Threads, NEW d \in Dsts, GetFree(t, d)
    PROVE  IInv'
  <1> DEFINE q == free_queue(PortOf[t])
             r == Head(queue[q])
  <1>1. /\ queue[q] # <<>> /\ queue' = [queue EXCEPT ![q] = Tail(@)]
        /\ InitRequest(t, r, d)
        /\ UNCHANGED <<objs, size, alloc, max, path_next, fq_lock, home>>
    BY DEF GetFree, Fq
  <1>2. PortOf[t] \in Bound /\ q \in PortQueues
    BY PortsAssumption, QueuesOf
  <1>3. /\ r \in Queued(q) /\ r \in Reqs
        /\ Queued(q)' = Queued(q) \ {r}
        /\ \A p \in PortQueues : p # q => Queued(p)' = Queued(p)
    BY <1>1, <1>2, Popped DEF IInv
  <1>4. /\ \/ held' = [held EXCEPT ![t] = @ \cup {r}] /\ lost' = lost
           \/ held' = held /\ lost' = lost \cup {r}
        /\ RequestTypes' /\ CallTypes' /\ HoldsOf(t)'
        /\ \A u \in Threads : u # t => op'[u] = op[u]
        /\ \A x \in Reqs : x # r => /\ path'[x] = path[x] /\ sent'[x] = sent[x]
                                   /\ transit'[x] = transit[x]
        /\ Len(path'[r]) = Len(sent'[r])
    BY <1>1, <1>3, InitRequestLemma
  <1>5. Places' /\ Own'
    BY <1>1, <1>2, <1>4, QueueToThread, QueueToSegment DEF IInv
  <1>6. SegmentTypes'
    BY <1>1 DEF IInv, SegmentTypes
  <1>7. \A p \in Bound : /\ reply_queue(p) \in PortQueues /\ reply_queue(p) # q
                         /\ Queued(reply_queue(p))' = Queued(reply_queue(p))
                         /\ r \notin Queued(reply_queue(p))
    BY <1>2, <1>3, QueuesOf DEF IInv, Own, NoSharing
  <1>8. \A u \in Threads : u # t => held'[u] = held[u] /\ r \notin held[u]
    BY <1>2, <1>3, <1>4 DEF IInv, Own, NoSharing, Places
  <1> HIDE DEF q, r
  <1> QED BY <1>3, <1>4, <1>5, <1>6, <1>7, <1>8, FieldsStep

(* xseg_get_request from request_h.                                        *)
LEMMA GetAllocStep ==
    ASSUME IInv, NEW t \in Threads, GetAlloc(t)
    PROVE  IInv'
  <1> DEFINE p == PortOf[t]
  <1>1. p \in Bound
    BY PortsAssumption
  <1>2. CASE alloc[p] < max[p] /\ objs # {}
    <2>1. PICK r \in objs :
            /\ objs' = objs \ {r} /\ InitRequest(t, r, op[t].port)
            /\ alloc' = [alloc EXCEPT ![p] = (@ + 1) % AllocMod]
            /\ home' = [home EXCEPT ![r] = p]
            /\ UNCHANGED <<queue, size, max, path_next, fq_lock>>
      BY <1>2 DEF GetAlloc
    <2>2. r \in Reqs
      BY DEF IInv, Places
    <2>3. SegmentTypes'
      <3>1. \A x \in Bound : alloc[x] + 1 \in Int
        BY SizesAssumption DEF IInv, SegmentTypes
      <3>2. alloc' \in [Bound -> 0..AllocMod-1]
        BY <2>1, <3>1, ModLemma DEF IInv, SegmentTypes
      <3> QED BY <1>1, <2>1, <3>2 DEF IInv, SegmentTypes
    <2>4. /\ \/ held' = [held EXCEPT ![t] = @ \cup {r}] /\ lost' = lost
             \/ held' = held /\ lost' = lost \cup {r}
          /\ RequestTypes' /\ CallTypes' /\ HoldsOf(t)'
          /\ \A u \in Threads : u # t => op'[u] = op[u]
          /\ \A x \in Reqs : x # r => /\ path'[x] = path[x] /\ sent'[x] = sent[x]
                                     /\ transit'[x] = transit[x]
          /\ Len(path'[r]) = Len(sent'[r])
      BY <2>1, <2>2, InitRequestLemma
    <2>5. Places' /\ Own'
      BY <2>1, <2>4, ObjsToThread, ObjsToLost DEF IInv
    <2>6. \A x \in Bound : /\ Queued(reply_queue(x))' = Queued(reply_queue(x))
                           /\ r \notin Queued(reply_queue(x))
      BY <2>1, QueuesOf DEF IInv, Own, NoSharing, Queued
    <2>7. \A u \in Threads : u # t => held'[u] = held[u] /\ r \notin held[u]
      BY <2>4 DEF IInv, Own, NoSharing, Places
    <2> QED BY <2>2, <2>3, <2>4, <2>5, <2>6, <2>7, FieldsStep
  <1>3. CASE ~ (alloc[p] < max[p] /\ objs # {})
    <2>1. /\ Return(t) /\ UNCHANGED <<objs, alloc, reqvars, held, history>>
          /\ UNCHANGED <<queue, size, max, path_next, fq_lock>>
      BY <1>3 DEF GetAlloc
    <2>2. SegmentTypes' /\ RequestTypes'
      BY <2>1 DEF IInv, SegmentTypes, RequestTypes, reqvars, history
    <2>3. CallTypes' /\ HoldsOf(t)' /\ \A u \in Threads : u # t => op'[u] = op[u]
      BY <2>1 DEF IInv, CallTypes, HoldsOf, Return, Frame, Idle, Labels
    <2> QED BY <2>1, <2>2, <2>3, QuietStep DEF reqvars, history
  <1> QED BY <1>2, <1>3

(* xseg_put_request up to its first lock.                                  *)
LEMMA PutStep ==
    ASSUME IInv, NEW t \in Threads, NEW r \in Reqs, Put(t, r)
    PROVE  IInv'
  <1>1. /\ r \in held[t] /\ src[r] \in Bound /\ StartPut(t, r)
        /\ UNCHANGED <<segvars, held, home, lost>>
    BY DEF Put
  <1>2. SegmentTypes' /\ RequestTypes'
    BY <1>1 DEF IInv, SegmentTypes, RequestTypes, StartPut, segvars
  <1>3. CallTypes' /\ HoldsOf(t)' /\ \A u \in Threads : u # t => op'[u] = op[u]
    BY <1>1, PortsAssumption DEF IInv, CallTypes, HoldsOf, StartPut, Frame, Labels
  <1>4. Places' /\ Own'
    BY <1>1, NoMove DEF IInv, segvars
  <1>5. \A p \in Bound : /\ Queued(reply_queue(p))' = Queued(reply_queue(p))
                         /\ r \notin Queued(reply_queue(p))
    BY <1>1, QueuesOf DEF IInv, Own, NoSharing, Queued, segvars
  <1>6. \A u \in Threads : u # t => held'[u] = held[u] /\ r \notin held[u]
    BY <1>1 DEF IInv, Own, NoSharing
  <1>7. /\ \A x \in Reqs : x # r => /\ path'[x] = path[x] /\ sent'[x] = sent[x]
                                   /\ transit'[x] = transit[x]
        /\ Len(path'[r]) = Len(sent'[r])
    BY <1>1 DEF StartPut, IInv, RequestTypes
  <1> QED BY <1>2, <1>3, <1>4, <1>5, <1>6, <1>7, FieldsStep

-----------------------------------------------------------------------------
(* Steps that put a request in hand somewhere else.                        *)

(* The part of the invariant about paths when r leaves the hand of t and   *)
(* its fields stay as they are.                                            *)
LEMMA HandOver ==
    ASSUME IInv, NEW t \in Threads, NEW r \in held[t], Places', Own',
           SegmentTypes', CallTypes', HoldsOf(t)',
           held' = [held EXCEPT ![t] = @ \ {r}],
           \A u \in Threads : u # t => op'[u] = op[u],
           UNCHANGED <<path, sent, transit, src, dst, via>>,
           \A p \in Bound : \A x \in Queued(reply_queue(p))' :
               x \in Queued(reply_queue(p)) \/ (x = r /\ path[r] # <<>> /\ Head(path[r]) = p)
    PROVE  IInv'
  <1>1. OpHolds'
    BY OthersHold DEF IInv, Places
  <1>2. SameDepth' /\ RequestTypes'
    BY DEF IInv, SameDepth, RequestTypes
  <1>3. ReplyHasItsPort'
    BY DEF IInv, ReplyHasItsPort
  <1> QED BY <1>1, <1>2, <1>3 DEF IInv

(* The free_queue takes the request, or has no room.                       *)
LEMMA PutFreeStep ==
    ASSUME IInv, NEW t \in Threads, PutFree(t)
    PROVE  IInv'
  <1> DEFINE r == op[t].req
             q == free_queue(op[t].port)
  <1>1. r \in held[t] /\ op[t].port \in Bound /\ q \in PortQueues
    BY QueuesOf DEF IInv, OpHolds, HoldsOf, PutFree, At
  <1>2. CASE Room(q)
    <2>1. /\ queue' = [queue EXCEPT ![q] = <<r>> \o @]
          /\ held' = [held EXCEPT ![t] = @ \ {r}] /\ Return(t)
          /\ UNCHANGED <<objs, size, alloc, max, path_next, fq_lock, reqvars, history>>
      BY <1>2 DEF PutFree, Drop
    <2>2. /\ r \in Reqs /\ r \notin Queued(q)
          /\ queue[q] \in Seq(Reqs) /\ IsInjective(queue[q])
      BY <1>1 DEF IInv, Places, Own, NoSharing
    <2>3. /\ <<r>> \o queue[q] \in Seq(Reqs) /\ IsInjective(<<r>> \o queue[q])
          /\ ToSet(<<r>> \o queue[q]) = Queued(q) \cup {r}
      BY <2>2, ConsLemma DEF Queued
    <2>4. Places' /\ Own'
      BY <1>1, <2>1, <2>3, ThreadToQueue DEF IInv, history
    <2>5. SegmentTypes' /\ CallTypes' /\ HoldsOf(t)'
          /\ \A u \in Threads : u # t => op'[u] = op[u]
      BY <2>1 DEF IInv, SegmentTypes, CallTypes, HoldsOf, Return, Frame, Idle, Labels, history
    <2>6. \A p \in Bound : Queued(reply_queue(p))' = Queued(reply_queue(p))
      <3>1. \A p \in PortQueues : p # q => Queued(p)' = Queued(p)
        BY <1>1, <2>1, <2>3, Filled DEF IInv
      <3> QED BY <1>1, <3>1, QueuesOf
    <2> QED BY <1>1, <2>1, <2>4, <2>5, <2>6, HandOver DEF reqvars, history
  <1>3. CASE ~ Room(q)
    <2>1. /\ Goto(t, "put_obj") /\ UNCHANGED <<queue, held>>
          /\ UNCHANGED <<objs, size, alloc, max, path_next, fq_lock, reqvars, history>>
      BY <1>3 DEF PutFree
    <2>2. SegmentTypes' /\ RequestTypes'
      BY <2>1 DEF IInv, SegmentTypes, RequestTypes, reqvars, history
    <2>3. CallTypes' /\ HoldsOf(t)' /\ \A u \in Threads : u # t => op'[u] = op[u]
      BY <1>1, <2>1 DEF IInv, CallTypes, HoldsOf, Goto, Labels
    <2> QED BY <2>1, <2>2, <2>3, QuietStep DEF reqvars, history
  <1> QED BY <1>2, <1>3

(* Back to request_h.                                                      *)
LEMMA PutObjStep ==
    ASSUME IInv, NEW t \in Threads, PutObj(t)
    PROVE  IInv'
  <1> DEFINE r == op[t].req
  <1>1. r \in held[t] /\ op[t].port \in Bound
    BY DEF IInv, OpHolds, HoldsOf, PutObj, At
  <1>2. /\ objs' = objs \cup {r} /\ held' = [held EXCEPT ![t] = @ \ {r}]
        /\ home' = [home EXCEPT ![r] = NoPort] /\ Goto(t, "put_dec")
        /\ UNCHANGED <<queue, size, alloc, max, path_next, fq_lock, reqvars, via, sent, lost>>
    BY DEF PutObj, Drop
  <1>3. Places' /\ Own'
    BY <1>1, <1>2, ThreadToObjs DEF IInv
  <1>4. SegmentTypes'
    BY <1>2 DEF IInv, SegmentTypes
  <1>5. CallTypes' /\ HoldsOf(t)' /\ \A u \in Threads : u # t => op'[u] = op[u]
    BY <1>1, <1>2 DEF IInv, CallTypes, HoldsOf, Goto, Labels
  <1>6. \A p \in Bound : Queued(reply_queue(p))' = Queued(reply_queue(p))
    BY <1>2 DEF Queued
  <1> QED BY <1>1, <1>2, <1>3, <1>4, <1>5, <1>6, HandOver DEF reqvars

(* What Enqueue makes of the queue.                                        *)
LEMMA EnqueueLemma ==
    ASSUME IInv, NEW t \in Threads, NEW r \in held[t], NEW q \in PortQueues, Enqueue(q, r)
    PROVE  /\ \E s \in Seq(Reqs) : /\ IsInjective(s) /\ ToSet(s) = Queued(q) \cup {r}
                                    /\ queue' = [queue EXCEPT ![q] = s]
           /\ size' \in [PortQueues -> Nat]
           /\ Queued(q)' = Queued(q) \cup {r}
           /\ \A p \in PortQueues : p # q => Queued(p)' = Queued(p)
  <1>1. /\ r \in Reqs /\ r \notin Queued(q) /\ r \notin ToSet(queue[q])
        /\ queue[q] \in Seq(Reqs) /\ IsInjective(queue[q])
    BY DEF IInv, Places, Own, NoSharing, Queued
  <1>2. /\ Reverse(queue[q]) \in Seq(Reqs) /\ IsInjective(Reverse(queue[q]))
        /\ ToSet(Reverse(queue[q])) = ToSet(queue[q])
    BY <1>1, ReverseLemma
  <1>3. \E s \in Seq(Reqs) : /\ IsInjective(s) /\ ToSet(s) = Queued(q) \cup {r}
                              /\ queue' = [queue EXCEPT ![q] = s]
    <2>1. CASE queue' = [queue EXCEPT ![q] = Append(@, r)]
      <3>1. /\ Append(queue[q], r) \in Seq(Reqs) /\ IsInjective(Append(queue[q], r))
            /\ ToSet(Append(queue[q], r)) = Queued(q) \cup {r}
        BY <1>1, AppendLemma DEF Queued
      <3> QED BY <2>1, <3>1
    <2>2. CASE queue' = [queue EXCEPT ![q] = Append(Reverse(@), r)]
      <3> DEFINE v == Reverse(queue[q])
      <3>1. v \in Seq(Reqs) /\ IsInjective(v) /\ r \notin ToSet(v) /\ ToSet(v) = Queued(q)
        BY <1>1, <1>2 DEF Queued
      <3>2. queue' = [queue EXCEPT ![q] = Append(v, r)]
        BY <2>2
      <3> HIDE DEF v
      <3>3. /\ Append(v, r) \in Seq(Reqs) /\ IsInjective(Append(v, r))
            /\ ToSet(Append(v, r)) = Queued(q) \cup {r}
        BY <1>1, <3>1, AppendLemma
      <3> QED BY <3>2, <3>3
    <2> QED BY <2>1, <2>2 DEF Enqueue
  <1>4. size' \in [PortQueues -> Nat]
    BY DEF Enqueue, IInv, SegmentTypes
  <1> QED BY <1>3, <1>4, Filled DEF IInv

(* xseg_submit under rq_lock.                                              *)
LEMMA SubmitQueueStep ==
    ASSUME IInv, NEW t \in Threads, SubmitQueue(t)
    PROVE  IInv'
  <1> DEFINE r == op[t].req
             q == request_queue(op[t].port)
  <1>1. /\ r \in held[t] /\ r \in Reqs /\ op[t].port \in Bound /\ q \in PortQueues
        /\ transit[r] \in Ports /\ PortOf[t] \in Ports
    BY PortsAssumption, QueuesOf DEF IInv, OpHolds, HoldsOf, Places, SubmitQueue, At
  <1>2. /\ Return(t)
        /\ UNCHANGED <<objs, alloc, max, path_next, fq_lock, src, dst, transit, via, home, lost>>
    BY DEF SubmitQueue
  <1>3. CallTypes' /\ HoldsOf(t)' /\ \A u \in Threads : u # t => op'[u] = op[u]
    BY <1>2 DEF IInv, CallTypes, HoldsOf, Return, Frame, Idle, Labels
  <1>4. CASE /\ Enqueue(q, r)
             /\ path' = [path EXCEPT ![r] = <<transit[r]>> \o @]
             /\ sent' = [sent EXCEPT ![r] = <<PortOf[t]>> \o @]
             /\ Drop(t, r)
    <2>1. /\ \E s \in Seq(Reqs) : /\ IsInjective(s) /\ ToSet(s) = Queued(q) \cup {r}
                                   /\ queue' = [queue EXCEPT ![q] = s]
          /\ size' \in [PortQueues -> Nat]
          /\ \A p \in PortQueues : p # q => Queued(p)' = Queued(p)
      BY <1>1, <1>4, EnqueueLemma
    <2>2. Places' /\ Own'
      BY <1>1, <1>2, <1>4, <2>1, ThreadToQueue DEF IInv, Drop
    <2>3. SegmentTypes'
      BY <1>2, <2>1 DEF IInv, SegmentTypes
    <2>4. /\ <<transit[r]>> \o path[r] \in Seq(Ports) /\ <<PortOf[t]>> \o sent[r] \in Seq(Ports)
          /\ Len(<<transit[r]>> \o path[r]) = Len(<<PortOf[t]>> \o sent[r])
      BY <1>1, SameLength DEF IInv, RequestTypes, SameDepth
    <2>5. /\ RequestTypes' /\ Len(path'[r]) = Len(sent'[r])
          /\ \A x \in Reqs : x # r => path'[x] = path[x] /\ sent'[x] = sent[x]
      BY <1>1, <1>2, <1>4, <2>4 DEF IInv, RequestTypes
    <2>6. \A p \in Bound : /\ Queued(reply_queue(p))' = Queued(reply_queue(p))
                           /\ r \notin Queued(reply_queue(p))
      BY <1>1, <2>1, QueuesOf DEF IInv, Own, NoSharing
    <2>7. \A u \in Threads : u # t => held'[u] = held[u] /\ r \notin held[u]
      BY <1>1, <1>4 DEF IInv, Own, NoSharing, Places, Drop
    <2> HIDE DEF r
    <2> QED BY <1>1, <1>2, <1>3, <2>2, <2>3, <2>5, <2>6, <2>7, FieldsStep
  <1>5. CASE UNCHANGED <<queue, size, path, sent, held>>
    <2>1. SegmentTypes' /\ RequestTypes'
      BY <1>2, <1>5 DEF IInv, SegmentTypes, RequestTypes
    <2> QED BY <1>2, <1>3, <1>5, <2>1, QuietStep
  <1> QED BY <1>4, <1>5 DEF SubmitQueue

LEMMA AcceptStep ==
    ASSUME IInv, NEW t \in Threads, Accept(t)
    PROVE  IInv'
  <1> DEFINE q == request_queue(PortOf[t])
             r == Head(queue[q])
  <1>1. /\ PortOf[t] \in Bound /\ PortOf[t] \in Ports /\ q \in PortQueues
    BY PortsAssumption, QueuesOf
  <1>2. /\ At(t, "idle") /\ queue[q] # <<>> /\ queue' = [queue EXCEPT ![q] = Tail(@)]
        /\ transit' = [transit EXCEPT ![r] = PortOf[t]]
        /\ via' = [via EXCEPT ![r] = "accept"]
        /\ held' = [held EXCEPT ![t] = @ \cup {r}]
        /\ UNCHANGED <<objs, size, alloc, max, path_next, fq_lock, src, dst, path, op, sent,
                       home, lost>>
    BY DEF Accept, Hold
  <1>3. /\ r \in Queued(q) /\ r \in Reqs
        /\ \A p \in PortQueues : p # q => Queued(p)' = Queued(p)
    BY <1>1, <1>2, Popped DEF IInv
  <1>4. Places' /\ Own'
    BY <1>1, <1>2, QueueToThread DEF IInv
  <1>5. SegmentTypes' /\ CallTypes' /\ HoldsOf(t)'
    BY <1>2 DEF IInv, SegmentTypes, CallTypes, HoldsOf, At
  <1>6. RequestTypes' /\ Len(path'[r]) = Len(sent'[r])
    BY <1>1, <1>2, <1>3 DEF IInv, RequestTypes, SameDepth
  <1>7. \A x \in Reqs : x # r => transit'[x] = transit[x]
    BY <1>2 DEF IInv, RequestTypes
  <1>8. \A p \in Bound : /\ Queued(reply_queue(p))' = Queued(reply_queue(p))
                         /\ r \notin Queued(reply_queue(p))
    BY <1>1, <1>3, QueuesOf DEF IInv, Own, NoSharing
  <1>9. \A u \in Threads : u # t => held'[u] = held[u] /\ r \notin held[u]
    BY <1>1, <1>2, <1>3 DEF IInv, Own, NoSharing, Places
  <1> HIDE DEF r, q
  <1> QED BY <1>2, <1>3, <1>4, <1>5, <1>6, <1>7, <1>8, <1>9, FieldsStep

(* xseg_receive: by ReplyHasItsPort the reply has a path, the branch that  *)
(* drops one is never taken.                                               *)
LEMMA ReceiveStep ==
    ASSUME IInv, NEW t \in Threads, Receive(t)
    PROVE  IInv'
  <1> DEFINE q == reply_queue(PortOf[t])
             r == Head(queue[q])
  <1>1. PortOf[t] \in Bound /\ q \in PortQueues
    BY PortsAssumption, QueuesOf
  <1>2. /\ At(t, "idle") /\ queue[q] # <<>> /\ queue' = [queue EXCEPT ![q] = Tail(@)]
        /\ UNCHANGED <<objs, size, alloc, max, path_next, fq_lock, src, dst, transit, op, home>>
    BY DEF Receive
  <1>3. /\ r \in Queued(q) /\ r \in Reqs
        /\ Queued(q)' = Queued(q) \ {r}
        /\ \A p \in PortQueues : p # q => Queued(p)' = Queued(p)
    BY <1>1, <1>2, Popped DEF IInv
  <1>4. path[r] # <<>>
    BY <1>1, <1>3 DEF IInv, ReplyHasItsPort
  <1>5. /\ path' = [path EXCEPT ![r] = Tail(@)]
        /\ sent' = [sent EXCEPT ![r] = Tail(@)]
        /\ via' = [via EXCEPT ![r] = "receive"]
        /\ held' = [held EXCEPT ![t] = @ \cup {r}]
        /\ UNCHANGED lost
    BY <1>4 DEF Receive, Hold
  <1>6. Places' /\ Own'
    BY <1>1, <1>2, <1>5, QueueToThread DEF IInv
  <1>7. SegmentTypes' /\ CallTypes' /\ HoldsOf(t)'
    BY <1>2 DEF IInv, SegmentTypes, CallTypes, HoldsOf, At
  <1>8. /\ Tail(path[r]) \in Seq(Ports) /\ Tail(sent[r]) \in Seq(Ports)
        /\ Len(Tail(path[r])) = Len(Tail(sent[r]))
    <2>1. /\ path[r] \in Seq(Ports) /\ sent[r] \in Seq(Ports) /\ Len(path[r]) = Len(sent[r])
          /\ Head(path[r]) \in Ports
      BY <1>3, <1>4 DEF IInv, RequestTypes, SameDepth
    <2> QED BY <1>4, <2>1, SameLength
  <1>9. /\ RequestTypes' /\ Len(path'[r]) = Len(sent'[r])
        /\ \A x \in Reqs : x # r => path'[x] = path[x] /\ sent'[x] = sent[x]
    BY <1>2, <1>3, <1>5, <1>8 DEF IInv, RequestTypes
  <1>10. \A p \in Bound : /\ Queued(reply_queue(p))' \subseteq Queued(reply_queue(p))
                          /\ r \notin Queued(reply_queue(p))'
    BY <1>1, <1>3, QueuesOf DEF IInv, Own, NoSharing
  <1>11. \A u \in Threads : u # t => held'[u] = held[u] /\ r \notin held[u]
    BY <1>1, <1>3, <1>5 DEF IInv, Own, NoSharing, Places
  <1> HIDE DEF r, q
  <1> QED BY <1>2, <1>3, <1>6, <1>7, <1>9, <1>10, <1>11, FieldsStep

(* xseg_respond puts the request into the reply_queue of the port at the   *)
(* head of its path.                                                       *)
LEMMA ReplyStep ==
    ASSUME IInv, NEW t \in Threads, NEW r \in held[t], NEW d \in Bound,
           path[r] # <<>>, d = Head(path[r]),
           Enqueue(reply_queue(d), r), Drop(t, r), Return(t), UNCHANGED <<path, sent>>,
           UNCHANGED <<objs, alloc, max, path_next, fq_lock, src, dst, transit, via, home, lost>>
    PROVE  IInv'
  <1> DEFINE q == reply_queue(d)
  <1>1. q \in PortQueues
    BY QueuesOf
  <1>2. /\ \E s \in Seq(Reqs) : /\ IsInjective(s) /\ ToSet(s) = Queued(q) \cup {r}
                                 /\ queue' = [queue EXCEPT ![q] = s]
        /\ size' \in [PortQueues -> Nat]
        /\ Queued(q)' = Queued(q) \cup {r}
        /\ \A p \in PortQueues : p # q => Queued(p)' = Queued(p)
    BY <1>1, EnqueueLemma
  <1>3. Places' /\ Own'
    BY <1>1, <1>2, ThreadToQueue DEF IInv, Drop
  <1>4. SegmentTypes'
    BY <1>2 DEF IInv, SegmentTypes
  <1>5. CallTypes' /\ HoldsOf(t)' /\ \A u \in Threads : u # t => op'[u] = op[u]
    BY DEF IInv, CallTypes, HoldsOf, Return, Frame, Idle, Labels
  <1>6. ASSUME NEW p \in Bound, NEW x \in Queued(reply_queue(p))'
        PROVE  x \in Queued(reply_queue(p)) \/ (x = r /\ p = d)
    <2>1. reply_queue(p) \in PortQueues /\ (reply_queue(p) = q => p = d)
      BY QueuesOf
    <2> QED BY <1>2, <1>6, <2>1
  <1> QED BY <1>3, <1>4, <1>5, <1>6, HandOver DEF Drop

(* xseg_respond: a turn of its retry loop.                                 *)
LEMMA RespondQueueStep ==
    ASSUME IInv, NEW t \in Threads, RespondQueue(t)
    PROVE  IInv'
  <1> DEFINE r == op[t].req
             d == Head(path[r])
  <1>1. r \in held[t] /\ r \in Reqs
    BY DEF IInv, OpHolds, HoldsOf, Places, RespondQueue, At
  <1>2. UNCHANGED <<objs, alloc, max, path_next, fq_lock, src, dst, transit, via, home, lost>>
    BY DEF RespondQueue
  <1>3. ASSUME Return(t)
        PROVE  CallTypes' /\ HoldsOf(t)' /\ \A u \in Threads : u # t => op'[u] = op[u]
    BY <1>3 DEF IInv, CallTypes, HoldsOf, Return, Frame, Idle, Labels
  <1>4. CASE Return(t) /\ UNCHANGED <<queue, size, path, sent, held>>
    <2>1. SegmentTypes' /\ RequestTypes'
      BY <1>2, <1>4 DEF IInv, SegmentTypes, RequestTypes
    <2> QED BY <1>2, <1>3, <1>4, <2>1, QuietStep
  <1>5. CASE /\ path[r] # <<>>
             /\ path' = [path EXCEPT ![r] = Tail(@)]
             /\ sent' = [sent EXCEPT ![r] = Tail(@)]
             /\ UNCHANGED <<queue, size, held, op>>
    <2>1. SegmentTypes' /\ CallTypes' /\ HoldsOf(t)'
      BY <1>1, <1>2, <1>5 DEF IInv, SegmentTypes, CallTypes, HoldsOf, OpHolds
    <2>2. /\ Tail(path[r]) \in Seq(Ports) /\ Tail(sent[r]) \in Seq(Ports)
          /\ Len(Tail(path[r])) = Len(Tail(sent[r]))
      BY <1>1, <1>5 DEF IInv, RequestTypes, SameDepth
    <2>3. /\ RequestTypes' /\ Len(path'[r]) = Len(sent'[r])
          /\ \A x \in Reqs : x # r => path'[x] = path[x] /\ sent'[x] = sent[x]
      BY <1>1, <1>2, <1>5, <2>2 DEF IInv, RequestTypes
    <2>4. Places' /\ Own'
      BY <1>2, <1>5, NoMove DEF IInv
    <2>5. \A p \in Bound : /\ Queued(reply_queue(p))' = Queued(reply_queue(p))
                           /\ r \notin Queued(reply_queue(p))
      BY <1>1, <1>5, QueuesOf DEF IInv, Own, NoSharing, Queued
    <2>6. \A u \in Threads : u # t => held'[u] = held[u] /\ r \notin held[u]
      BY <1>1, <1>5 DEF IInv, Own, NoSharing
    <2> HIDE DEF r
    <2> QED BY <1>1, <1>2, <1>5, <2>1, <2>3, <2>4, <2>5, <2>6, FieldsStep
  <1>6. CASE /\ path[r] # <<>> /\ d \in Usable /\ Enqueue(reply_queue(d), r) /\ Drop(t, r)
             /\ Return(t) /\ UNCHANGED <<path, sent>>
    BY <1>1, <1>2, <1>6, PortsAssumption, ReplyStep
  <1> QED BY <1>4, <1>5, <1>6 DEF RespondQueue

-----------------------------------------------------------------------------
(* The loops under fq_lock.                                                *)

LEMMA TurnStep ==
    ASSUME IInv, NEW t \in Threads, Places', Own', SegmentTypes', CallTypes', HoldsOf(t)',
           UNCHANGED <<reqvars, held, via, sent>>,
           \A u \in Threads : u # t => op'[u] = op[u],
           \A p \in Bound : Queued(reply_queue(p))' = Queued(reply_queue(p))
    PROVE  IInv'
  <1>1. OpHolds'
    BY OthersHold DEF reqvars
  <1>2. SameDepth' /\ RequestTypes'
    BY DEF IInv, SameDepth, RequestTypes, reqvars
  <1>3. ReplyHasItsPort'
    BY RepliesKept DEF reqvars
  <1> QED BY <1>1, <1>2, <1>3 DEF IInv

(* Only the free_queue of the thread's port changes.                       *)
LEMMA RepliesAside ==
    ASSUME NEW t \in Threads, NEW q, q = free_queue(PortOf[t]),
           \A p \in PortQueues : p # q => Queued(p)' = Queued(p)
    PROVE  \A p \in Bound : Queued(reply_queue(p))' = Queued(reply_queue(p))
  BY QueuesOf

(* The loop counter goes up.                                               *)
LEMMA CountUp ==
    ASSUME IInv, NEW t \in Threads, op[t].at \in {"alloc", "free"},
           op' = [op EXCEPT ![t].i = @ + 1]
    PROVE  CallTypes' /\ HoldsOf(t)' /\ \A u \in Threads : u # t => op'[u] = op[u]
  <1> DEFINE o == op[t]
             R == [at : Labels, req : Reqs \cup {NoReq}, i : Nat, nr : Nat,
                   port : Ports \cup {NoPort} \cup Dsts]
  <1>1. op \in [Threads -> R]
    BY DEF IInv, CallTypes
  <1>2. o \in R /\ o.i + 1 \in Nat
    BY <1>1
  <1>3. [o EXCEPT !.i = @ + 1] \in R /\ [o EXCEPT !.i = @ + 1].at = o.at
    BY <1>2
  <1>4. op' = [op EXCEPT ![t] = [o EXCEPT !.i = @ + 1]]
    OBVIOUS
  <1> HIDE DEF R
  <1>5. op' \in [Threads -> R] /\ op'[t].at = o.at /\ \A u \in Threads : u # t => op'[u] = op[u]
    BY <1>1, <1>3, <1>4
  <1> QED BY <1>5 DEF R, CallTypes, HoldsOf

LEMMA AllocTurnStep ==
    ASSUME IInv, NEW t \in Threads, AllocTurn(t)
    PROVE  IInv'
  <1> DEFINE q == free_queue(PortOf[t])
  <1>1. PortOf[t] \in Bound /\ q \in PortQueues
    BY PortsAssumption, QueuesOf
  <1>2. UNCHANGED <<size, alloc, max, path_next, reqvars, held, via, sent>>
    BY DEF AllocTurn
  <1>3. CASE UnlockFq(t) /\ Return(t) /\ UNCHANGED <<objs, queue, home, lost>>
    <2>1. SegmentTypes' /\ RequestTypes'
      BY <1>2, <1>3 DEF IInv, SegmentTypes, RequestTypes, UnlockFq, reqvars
    <2>2. CallTypes' /\ HoldsOf(t)' /\ \A u \in Threads : u # t => op'[u] = op[u]
      BY <1>3 DEF IInv, CallTypes, HoldsOf, Return, Frame, Idle, Labels
    <2> QED BY <1>2, <1>3, <2>1, <2>2, QuietStep DEF reqvars
  <1>4. CASE /\ \E r \in objs : objs' = objs \ {r} /\ lost' = lost \cup {r}
             /\ UnlockFq(t) /\ Return(t) /\ UNCHANGED <<queue, home>>
    <2>1. Places' /\ Own'
      BY <1>2, <1>4, ObjsToLost DEF IInv
    <2>2. SegmentTypes'
      BY <1>2, <1>4 DEF IInv, SegmentTypes, UnlockFq
    <2>3. CallTypes' /\ HoldsOf(t)' /\ \A u \in Threads : u # t => op'[u] = op[u]
      BY <1>4 DEF IInv, CallTypes, HoldsOf, Return, Frame, Idle, Labels
    <2>4. \A p \in Bound : Queued(reply_queue(p))' = Queued(reply_queue(p))
      BY <1>4 DEF Queued
    <2> QED BY <1>2, <2>1, <2>2, <2>3, <2>4, TurnStep
  <1>5. ASSUME NEW r \in objs, objs' = objs \ {r}, At(t, "alloc"),
               queue' = [queue EXCEPT ![q] = Append(@, r)],
               home' = [home EXCEPT ![r] = PortOf[t]],
               op' = [op EXCEPT ![t].i = @ + 1], UNCHANGED <<fq_lock, lost>>
        PROVE  IInv'
    <2>1. Places' /\ Own'
      BY <1>1, <1>2, <1>5, ObjsToQueue DEF IInv
    <2>2. SegmentTypes'
      BY <1>1, <1>2, <1>5 DEF IInv, SegmentTypes, Places
    <2>3. CallTypes' /\ HoldsOf(t)' /\ \A u \in Threads : u # t => op'[u] = op[u]
      BY <1>5, CountUp DEF At
    <2>4. \A p \in Bound : Queued(reply_queue(p))' = Queued(reply_queue(p))
      <3>1. \A p \in PortQueues : p # q => Queued(p)' = Queued(p)
        BY <1>5 DEF Queued, IInv, Places
      <3> QED BY <3>1, RepliesAside
    <2> QED BY <1>2, <2>1, <2>2, <2>3, <2>4, TurnStep
  <1> QED BY <1>3, <1>4, <1>5 DEF AllocTurn, At

LEMMA FreeTurnStep ==
    ASSUME IInv, NEW t \in Threads, FreeTurn(t)
    PROVE  IInv'
  <1> DEFINE q == free_queue(PortOf[t])
             r == Head(queue[q])
             Leave == IF op[t].i = 0 THEN Return(t) /\ UNCHANGED fq_lock
                                    ELSE Goto(t, "free_dec") /\ UnlockFq(t)
  <1>1. PortOf[t] \in Bound /\ q \in PortQueues
    BY PortsAssumption, QueuesOf
  <1>2. At(t, "free") /\ UNCHANGED <<size, alloc, max, path_next, reqvars, held, via, sent>>
    BY DEF FreeTurn
  <1>3. ASSUME Leave
        PROVE  /\ CallTypes' /\ HoldsOf(t)' /\ \A u \in Threads : u # t => op'[u] = op[u]
               /\ fq_lock' \in [Bound -> Threads \cup {NoThread}]
    <2>1. fq_lock' \in [Bound -> Threads \cup {NoThread}]
      BY <1>3 DEF IInv, SegmentTypes, UnlockFq
    <2> QED BY <1>3, <2>1 DEF IInv, CallTypes, HoldsOf, Return, Goto, Frame, Idle, Labels
  <1>4. CASE Leave /\ UNCHANGED <<objs, queue, home, lost>>
    <2>1. SegmentTypes' /\ RequestTypes'
      BY <1>2, <1>3, <1>4 DEF IInv, SegmentTypes, RequestTypes, reqvars
    <2> HIDE DEF Leave
    <2> QED BY <1>2, <1>3, <1>4, <2>1, QuietStep DEF reqvars
  <1>5. ASSUME queue[q] # <<>>, queue' = [queue EXCEPT ![q] = Tail(@)]
        PROVE  /\ r \in Reqs
               /\ \A p \in Bound : Queued(reply_queue(p))' = Queued(reply_queue(p))
    <2>1. r \in Reqs /\ \A p \in PortQueues : p # q => Queued(p)' = Queued(p)
      BY <1>1, <1>5, Popped DEF IInv
    <2> QED BY <2>1, RepliesAside
  <1>6. CASE /\ queue[q] # <<>> /\ queue' = [queue EXCEPT ![q] = Tail(@)]
             /\ lost' = lost \cup {r} /\ Leave /\ UNCHANGED <<objs, home>>
    <2>1. Places' /\ Own'
      BY <1>1, <1>2, <1>6, QueueToSegment DEF IInv
    <2>2. SegmentTypes'
      BY <1>2, <1>3, <1>6 DEF IInv, SegmentTypes
    <2> HIDE DEF Leave
    <2> QED BY <1>2, <1>3, <1>5, <1>6, <2>1, <2>2, TurnStep
  <1>7. CASE /\ queue[q] # <<>> /\ queue' = [queue EXCEPT ![q] = Tail(@)]
             /\ objs' = objs \cup {r} /\ home' = [home EXCEPT ![r] = NoPort]
             /\ op' = [op EXCEPT ![t].i = @ + 1] /\ UNCHANGED <<fq_lock, lost>>
    <2>1. Places' /\ Own'
      BY <1>1, <1>2, <1>7, QueueToSegment DEF IInv
    <2>2. SegmentTypes'
      BY <1>2, <1>5, <1>7 DEF IInv, SegmentTypes
    <2>3. CallTypes' /\ HoldsOf(t)' /\ \A u \in Threads : u # t => op'[u] = op[u]
      BY <1>2, <1>7, CountUp DEF At
    <2> QED BY <1>2, <1>5, <1>7, <2>1, <2>2, <2>3, TurnStep
  <1> QED BY <1>4, <1>6, <1>7 DEF FreeTurn, Fq

LEMMA ResizeTurnStep ==
    ASSUME IInv, NEW t \in Threads, ResizeTurn(t)
    PROVE  IInv'
  <1> DEFINE q == free_queue(PortOf[t])
             r == Head(queue[q])
  <1>1. PortOf[t] \in Bound /\ q \in PortQueues
    BY PortsAssumption, QueuesOf
  <1>2. At(t, "resize") /\ UNCHANGED <<alloc, max, path_next, reqvars, held, via, sent, lost>>
    BY DEF ResizeTurn
  <1>3. CASE /\ Len(queue[q]) > op[t].nr /\ queue' = [queue EXCEPT ![q] = Tail(@)]
             /\ objs' = objs \cup {r} /\ home' = [home EXCEPT ![r] = NoPort]
             /\ UNCHANGED <<size, fq_lock, op>>
    <2>1. queue[q] # <<>>
      BY <1>1, <1>3 DEF IInv, Places, CallTypes
    <2>2. r \in Reqs /\ \A p \in PortQueues : p # q => Queued(p)' = Queued(p)
      BY <1>1, <1>3, <2>1, Popped DEF IInv
    <2>3. \A p \in Bound : Queued(reply_queue(p))' = Queued(reply_queue(p))
      BY <2>2, RepliesAside
    <2>4. Places' /\ Own'
      BY <1>1, <1>2, <1>3, <2>1, QueueToSegment DEF IInv
    <2>5. SegmentTypes' /\ CallTypes' /\ HoldsOf(t)'
      BY <1>2, <1>3, <2>2 DEF IInv, SegmentTypes, CallTypes, HoldsOf, At
    <2> QED BY <1>2, <1>3, <2>3, <2>4, <2>5, TurnStep
  <1>4. CASE /\ queue' = [queue EXCEPT ![q] = Reverse(@)]
             /\ size' = [size EXCEPT ![q] = op[t].nr]
             /\ UnlockFq(t) /\ Return(t) /\ UNCHANGED <<objs, home>>
    <2>1. Places' /\ Own'
      BY <1>1, <1>2, <1>4, UpsideDown DEF IInv
    <2>2. SegmentTypes'
      BY <1>1, <1>2, <1>4 DEF IInv, SegmentTypes, CallTypes, UnlockFq
    <2>3. CallTypes' /\ HoldsOf(t)' /\ \A u \in Threads : u # t => op'[u] = op[u]
      BY <1>4 DEF IInv, CallTypes, HoldsOf, Return, Frame, Idle, Labels
    <2>4. \A p \in Bound : Queued(reply_queue(p))' = Queued(reply_queue(p))
      <3>1. \A p \in PortQueues : p # q => Queued(p)' = Queued(p)
        BY <1>4 DEF Queued, IInv, Places
      <3> QED BY <3>1, RepliesAside
    <2> QED BY <1>2, <2>1, <2>2, <2>3, <2>4, TurnStep
  <1> QED BY <1>3, <1>4 DEF ResizeTurn, Fq

-----------------------------------------------------------------------------
(* The theorems.                                                           *)

LEMMA NextIInv == IInv /\ [Next]_vars => IInv'
  <1> SUFFICES ASSUME IInv, [Next]_vars PROVE IInv'
    OBVIOUS
  <1>1. ASSUME NEW t \in Threads, Call(t) PROVE IInv'
    BY <1>1, GetFreeStep, GetMissStep, PutStep, StartSubmitStep, RespondStep, AcceptStep,
       ReceiveStep, AdminStep, SetPathNextStep DEF Call
  <1>2. ASSUME NEW t \in Threads, Step(t) PROVE IInv'
    BY <1>2, GetAllocStep, PutFreeStep, PutObjStep, DecStep, DiscoverStep, SubmitQueueStep,
       RespondQueueStep, AllocTurnStep, FreeTurnStep, ResizeTurnStep DEF Step
  <1>3. CASE UNCHANGED vars
    <2>1. /\ UNCHANGED <<objs, lost, queue, held, path, sent, transit, op, reqvars>>
          /\ UNCHANGED <<size, alloc, max, path_next, fq_lock, home, src, dst, via>>
      BY <1>3 DEF vars, segvars, reqvars, thvars, history
    <2>2. Places' /\ Own'
      BY <2>1, NoMove DEF IInv
    <2>3. SegmentTypes' /\ RequestTypes' /\ CallTypes'
      BY <2>1 DEF IInv, SegmentTypes, RequestTypes, CallTypes
    <2>4. OpHolds' /\ SameDepth'
      BY <2>1 DEF IInv, OpHolds, HoldsOf, SameDepth
    <2>5. ReplyHasItsPort'
      BY <2>1 DEF IInv, ReplyHasItsPort, Queued
    <2> QED BY <2>2, <2>3, <2>4, <2>5 DEF IInv
  <1> QED BY <1>1, <1>2, <1>3 DEF Next

THEOREM Inductive == Spec => []IInv
  BY InitIInv, NextIInv, PTL DEF Spec

(* Type correctness: the counters stay in range, a path holds port numbers *)
(* and nothing else, whatever xseg_submit read transit_portno as.          *)
THEOREM TypeCorrect == Spec => []TypeOK
  <1>1. IInv => TypeOK
    BY TypeOKSplit DEF IInv
  <1> QED BY <1>1, Inductive, PTL

(* No request is ever in two hands (xseg_get_request, xseg_put_request,    *)
(* the queues and the administrative loops).                               *)
THEOREM RequestsNotShared == Spec => []NoSharing
  <1>1. IInv => NoSharing
    BY DEF IInv, Own
  <1> QED BY <1>1, Inductive, PTL

(* And none vanishes but by the leaks recorded in lost.                    *)
THEOREM RequestsNotForgotten == Spec => []NoneForgotten
  <1>1. IInv => NoneForgotten
    BY DEF IInv, Own
  <1> QED BY <1>1, Inductive, PTL

(* A reply is queued only at the port at the head of its path, so that the *)
(* branch of xseg_receive that "should never happen" never does.           *)
THEOREM RepliesDelivered == Spec => []ReplyHasItsPort
  <1>1. IInv => ReplyHasItsPort
    BY DEF IInv
  <1> QED BY <1>1, Inductive, PTL

-----------------------------------------------------------------------------
(* The loops under fq_lock.                                                *)

(* A thread changes its own call and its own hand only.                    *)
LEMMA OwnCall ==
    ASSUME IInv, NEW t \in Threads, Call(t) \/ Step(t), NEW u \in Threads, u # t
    PROVE  op'[u] = op[u] /\ held'[u] = held[u]
  <1> USE DEF Return, Goto, Hold, Drop, reqvars, segvars, thvars, history
  <1>1. op \in [Threads -> [at : Labels, req : Reqs \cup {NoReq}, i : Nat, nr : Nat,
                            port : Ports \cup {NoPort} \cup Dsts]]
        /\ held \in [Threads -> SUBSET Reqs]
    BY DEF IInv, CallTypes, Places
  <1>2. ASSUME NEW r, NEW d, InitRequest(t, r, d) PROVE op'[u] = op[u] /\ held'[u] = held[u]
    BY <1>1, <1>2 DEF InitRequest, Prepared, Refused, StartPut
  <1>3. ASSUME NEW d \in Dsts, GetFree(t, d) \/ GetMiss(t, d)
        PROVE  op'[u] = op[u] /\ held'[u] = held[u]
    BY <1>1, <1>2, <1>3 DEF GetFree, GetMiss
  <1>4. ASSUME NEW r \in Reqs,
               \/ Put(t, r) \/ Submit(t, r) \/ Respond(t, r)
               \/ \E d \in Dsts : Forward(t, r, d)
        PROVE  op'[u] = op[u] /\ held'[u] = held[u]
    BY <1>1, <1>4 DEF Put, Submit, Respond, Forward, StartPut, StartSubmit
  <1>5. CASE Accept(t) \/ Receive(t)
    BY <1>1, <1>5 DEF Accept, Receive
  <1>6. ASSUME NEW n \in Counts, \/ AllocRequests(t, n) \/ FreeRequests(t, n)
                                 \/ SetFreequeueSize(t, n) \/ SetMaxRequests(t, n)
        PROVE  op'[u] = op[u] /\ held'[u] = held[u]
    BY <1>1, <1>6 DEF AllocRequests, FreeRequests, SetFreequeueSize, SetMaxRequests, LockFq
  <1>7. ASSUME NEW hop \in Hops, SetPathNext(t, hop)
        PROVE  op'[u] = op[u] /\ held'[u] = held[u]
    BY <1>1, <1>7 DEF SetPathNext
  <1>8. CASE GetAlloc(t) \/ PutFree(t) \/ PutObj(t) \/ PutDec(t)
    BY <1>1, <1>2, <1>8 DEF GetAlloc, PutFree, PutObj, PutDec
  <1>9. CASE Discover(t) \/ SubmitQueue(t) \/ RespondQueue(t)
    <2>1. CASE Discover(t)
      BY <1>1, <2>1 DEF Discover
    <2>2. CASE SubmitQueue(t)
      BY <1>1, <2>2 DEF SubmitQueue
    <2>3. CASE RespondQueue(t)
      BY <1>1, <2>3 DEF RespondQueue
    <2> QED BY <1>9, <2>1, <2>2, <2>3
  <1>10. CASE AllocTurn(t) \/ FreeTurn(t) \/ FreeDec(t) \/ ResizeTurn(t)
    BY <1>1, <1>10 DEF AllocTurn, FreeTurn, FreeDec, ResizeTurn
  <1> QED BY <1>3, <1>4, <1>5, <1>6, <1>7, <1>8, <1>9, <1>10 DEF Call, Step

(* A thread in such a loop owns the lock of its port.                      *)
LoopsLocked == \A t \in Threads : InLoop(t) => fq_lock[PortOf[t]] = t

(* A thread takes the lock when it is free and gives its own back.         *)
LEMMA LockMoves ==
    ASSUME IInv, LoopsLocked, NEW t \in Threads, Call(t) \/ Step(t),
           \/ fq_lock' = fq_lock
           \/ fq_lock' = [fq_lock EXCEPT ![PortOf[t]] = NoThread] /\ InLoop(t)
           \/ fq_lock' = [fq_lock EXCEPT ![PortOf[t]] = t] /\ FqFree(PortOf[t]),
           InLoop(t)' => fq_lock'[PortOf[t]] = t
    PROVE  LoopsLocked'
  <1> SUFFICES ASSUME NEW u \in Threads, u # t, InLoop(u)' PROVE fq_lock'[PortOf[u]] = u
    BY DEF LoopsLocked
  <1>1. op'[u] = op[u]
    BY OwnCall
  <1>2. fq_lock[PortOf[u]] = u /\ u # NoThread
    BY <1>1, PortsAssumption DEF LoopsLocked, InLoop
  <1>3. /\ PortOf[u] \in Bound /\ PortOf[t] \in Bound
        /\ fq_lock \in [Bound -> Threads \cup {NoThread}]
    BY PortsAssumption DEF IInv, SegmentTypes
  <1>4. PortOf[u] # PortOf[t] \/ fq_lock' = fq_lock
    BY <1>2 DEF LoopsLocked, FqFree
  <1> QED BY <1>2, <1>3, <1>4

LEMMA NextLoops ==
    ASSUME IInv, LoopsLocked, [Next]_vars PROVE LoopsLocked'
  <1> USE DEF Return, Goto, reqvars, segvars, thvars, history
  <1>1. /\ op \in [Threads -> [at : Labels, req : Reqs \cup {NoReq}, i : Nat, nr : Nat,
                              port : Ports \cup {NoPort} \cup Dsts]]
        /\ fq_lock \in [Bound -> Threads \cup {NoThread}]
        /\ \A t \in Threads : PortOf[t] \in Bound
    BY PortsAssumption DEF IInv, CallTypes, SegmentTypes
  <1>2. ASSUME NEW t \in Threads, Call(t) PROVE LoopsLocked'
    <2>1. ASSUME NEW d \in Dsts, GetFree(t, d) \/ GetMiss(t, d)
          PROVE  fq_lock' = fq_lock /\ ~InLoop(t)'
      BY <1>1, <2>1
         DEF GetFree, GetMiss, InLoop, Frame, Idle, InitRequest, Prepared, Refused, StartPut
    <2>2. ASSUME NEW r \in Reqs,
                 \/ Put(t, r) \/ Submit(t, r) \/ Respond(t, r)
                 \/ \E d \in Dsts : Forward(t, r, d)
          PROVE  fq_lock' = fq_lock /\ ~InLoop(t)'
      BY <1>1, <2>2
         DEF Put, Submit, Respond, Forward, StartPut, StartSubmit, InLoop, Frame
    <2>3. ASSUME Accept(t) \/ Receive(t) PROVE fq_lock' = fq_lock /\ ~InLoop(t)'
      BY <1>1, <2>3 DEF Accept, Receive, InLoop, At
    <2>4. ASSUME NEW n \in Counts, SetMaxRequests(t, n)
          PROVE  fq_lock' = fq_lock /\ ~InLoop(t)'
      BY <1>1, <2>4 DEF SetMaxRequests, InLoop, At
    <2>5. ASSUME NEW hop \in Hops, SetPathNext(t, hop)
          PROVE  fq_lock' = fq_lock /\ ~InLoop(t)'
      BY <1>1, <2>5 DEF SetPathNext, InLoop, At
    <2>6. ASSUME NEW l, NEW n, LockFq(t, l, n)
          PROVE  /\ fq_lock' = [fq_lock EXCEPT ![PortOf[t]] = t] /\ FqFree(PortOf[t])
                 /\ fq_lock'[PortOf[t]] = t
      BY <1>1, <2>6 DEF LockFq
    <2>7. \/ fq_lock' = fq_lock /\ ~InLoop(t)'
          \/ /\ fq_lock' = [fq_lock EXCEPT ![PortOf[t]] = t] /\ FqFree(PortOf[t])
             /\ fq_lock'[PortOf[t]] = t
      BY <1>2, <2>1, <2>2, <2>3, <2>4, <2>5, <2>6
         DEF Call, AllocRequests, FreeRequests, SetFreequeueSize
    <2> QED BY <1>2, <2>7, LockMoves
  <1>3. ASSUME NEW t \in Threads, Step(t) PROVE LoopsLocked'
    <2>1. ASSUME GetAlloc(t) \/ PutFree(t) \/ PutObj(t) \/ PutDec(t) \/ FreeDec(t)
          PROVE  fq_lock' = fq_lock /\ ~InLoop(t)'
      BY <1>1, <2>1
         DEF GetAlloc, PutFree, PutObj, PutDec, FreeDec, InLoop, Frame, Idle, InitRequest,
             Prepared, Refused, StartPut
    <2>2. ASSUME Discover(t) \/ SubmitQueue(t) \/ RespondQueue(t)
          PROVE  fq_lock' = fq_lock /\ ~InLoop(t)'
      <3>1. CASE Discover(t)
        BY <1>1, <3>1 DEF Discover, InLoop, Frame, Idle
      <3>2. CASE SubmitQueue(t)
        BY <1>1, <3>2 DEF SubmitQueue, InLoop, Frame, Idle
      <3>3. CASE RespondQueue(t)
        BY <1>1, <3>3 DEF RespondQueue, InLoop, Frame, Idle, At
      <3> QED BY <2>2, <3>1, <3>2, <3>3
    <2>3. ASSUME AllocTurn(t) \/ FreeTurn(t) \/ ResizeTurn(t)
          PROVE  /\ InLoop(t)
                 /\ \/ fq_lock' = fq_lock
                    \/ fq_lock' = [fq_lock EXCEPT ![PortOf[t]] = NoThread] /\ ~InLoop(t)'
      BY <1>1, <2>3
         DEF AllocTurn, FreeTurn, ResizeTurn, UnlockFq, InLoop, At, Frame, Idle
    <2>4. \/ fq_lock' = fq_lock /\ ~InLoop(t)'
          \/ fq_lock' = fq_lock /\ InLoop(t)
          \/ fq_lock' = [fq_lock EXCEPT ![PortOf[t]] = NoThread] /\ ~InLoop(t)' /\ InLoop(t)
      BY <1>3, <2>1, <2>2, <2>3 DEF Step
    <2> QED BY <1>3, <2>4, LockMoves DEF LoopsLocked
  <1>4. CASE UNCHANGED vars
    BY <1>4 DEF vars, LoopsLocked, InLoop
  <1> QED BY <1>2, <1>3, <1>4 DEF Next

(* Who changes a free_queue: a thread that finds its lock free, or one     *)
(* that loops on its own port.                                             *)
LEMMA FreeQueueMoves ==
    ASSUME IInv, NEW t \in Threads, Call(t) \/ Step(t), NEW p \in Bound,
           queue'[free_queue(p)] # queue[free_queue(p)]
    PROVE  FqFree(p) \/ (InLoop(t) /\ PortOf[t] = p)
  <1> USE DEF reqvars, segvars, thvars, history
  <1>1. /\ queue \in [PortQueues -> Seq(Reqs)]
        /\ free_queue(p) \in PortQueues
        /\ \A x : free_queue(p) = free_queue(x) => p = x
        /\ \A x : free_queue(p) # request_queue(x) /\ free_queue(p) # reply_queue(x)
    BY DEF IInv, Places, PortQueues, free_queue, request_queue, reply_queue
  <1>2. ASSUME NEW d \in Dsts, GetFree(t, d) \/ GetMiss(t, d) PROVE FqFree(p)
    BY <1>1, <1>2 DEF GetFree, GetMiss
  <1>3. ASSUME NEW r \in Reqs,
               \/ Put(t, r) \/ Submit(t, r) \/ Respond(t, r)
               \/ \E d \in Dsts : Forward(t, r, d)
        PROVE  FALSE
    BY <1>3 DEF Put, Submit, Respond, Forward, StartSubmit
  <1>4. ASSUME Accept(t) \/ Receive(t) PROVE FALSE
    BY <1>1, <1>4 DEF Accept, Receive
  <1>5. ASSUME NEW n \in Counts, \/ AllocRequests(t, n) \/ FreeRequests(t, n)
                                 \/ SetFreequeueSize(t, n) \/ SetMaxRequests(t, n)
        PROVE  FALSE
    BY <1>5 DEF AllocRequests, FreeRequests, SetFreequeueSize, SetMaxRequests, LockFq
  <1>6. ASSUME NEW hop \in Hops, SetPathNext(t, hop) PROVE FALSE
    BY <1>6 DEF SetPathNext
  <1>7. ASSUME GetAlloc(t) \/ PutObj(t) \/ PutDec(t) \/ FreeDec(t) \/ Discover(t) PROVE FALSE
    BY <1>7 DEF GetAlloc, PutObj, PutDec, FreeDec, Discover
  <1>8. ASSUME PutFree(t) PROVE FqFree(p)
    BY <1>1, <1>8 DEF PutFree
  <1>9. ASSUME SubmitQueue(t) PROVE FALSE
    BY <1>1, <1>9 DEF SubmitQueue, Enqueue
  <1>10. ASSUME RespondQueue(t) PROVE FALSE
    BY <1>1, <1>10 DEF RespondQueue, Enqueue
  <1>11. ASSUME AllocTurn(t) \/ FreeTurn(t) \/ ResizeTurn(t)
         PROVE  InLoop(t) /\ PortOf[t] = p
    BY <1>1, <1>11 DEF AllocTurn, FreeTurn, ResizeTurn, InLoop, At
  <1> QED BY <1>2, <1>3, <1>4, <1>5, <1>6, <1>7, <1>8, <1>9, <1>10, <1>11 DEF Call, Step

(* While a thread loops with fq_lock held (xseg_alloc_requests,            *)
(* xseg_free_requests, xseg_set_freequeue_size), no other thread changes   *)
(* that free_queue.                                                        *)
THEOREM LoopsAlone == Spec => FqLockExcludes
  <1> DEFINE Alone == \A p \in Bound, t \in Threads :
                 fq_lock[p] = t /\ InLoop(t) /\ queue'[free_queue(p)] # queue[free_queue(p)]
                 => \A u \in Threads \ {t} : held'[u] = held[u] /\ op'[u] = op[u]
  <1>1. Init => LoopsLocked
    BY DEF Init, LoopsLocked, InLoop, Idle, Frame
  <1>2. IInv /\ LoopsLocked /\ [Next]_vars => LoopsLocked'
    BY NextLoops
  <1>3. IInv /\ LoopsLocked /\ [Next]_vars => [Alone]_vars
    <2> SUFFICES ASSUME IInv, LoopsLocked, Next, NEW p \in Bound, NEW t \in Threads,
                        fq_lock[p] = t, InLoop(t),
                        queue'[free_queue(p)] # queue[free_queue(p)],
                        NEW u \in Threads \ {t}
                 PROVE  held'[u] = held[u] /\ op'[u] = op[u]
      OBVIOUS
    <2>1. PICK w \in Threads : Call(w) \/ Step(w)
      BY DEF Next
    <2>2. InLoop(w) /\ PortOf[w] = p
      BY <2>1, FreeQueueMoves, PortsAssumption DEF FqFree
    <2>3. w = t
      BY <2>2 DEF LoopsLocked
    <2> QED BY <2>1, <2>3, OwnCall
  <1> QED BY <1>1, <1>2, <1>3, Inductive, PTL DEF Spec, FqLockExcludes

-----------------------------------------------------------------------------
(* The way back, when no received request is submitted again: what         *)
(* xseg_submit puts on the path is then the port of the peer that submits. *)

(* The last port of a path, when one goes on at the head or comes off.     *)
LEMMA ConsEnd ==
    ASSUME NEW S, NEW s \in Seq(S), NEW x \in S, NEW c, c = <<x>> \o s
    PROVE  /\ c \in Seq(S) /\ c # <<>>
           /\ s = <<>> => c[Len(c)] = x
           /\ s # <<>> => c[Len(c)] = s[Len(s)]
  <1>1. /\ c \in Seq(S) /\ Len(c) = Len(s) + 1 /\ Len(s) \in Nat
        /\ c[1] = x /\ \A i \in 2..(Len(s) + 1) : c[i] = s[i - 1]
    OBVIOUS
  <1>2. c # <<>> /\ (s = <<>> => c[Len(c)] = x)
    BY <1>1
  <1>3. ASSUME s # <<>> PROVE c[Len(c)] = s[Len(s)]
    <2>1. Len(s) + 1 \in 2..(Len(s) + 1) /\ (Len(s) + 1) - 1 = Len(s)
      BY <1>1, <1>3
    <2> QED BY <1>1, <2>1
  <1> QED BY <1>1, <1>2, <1>3

LEMMA TailEnd ==
    ASSUME NEW S, NEW s \in Seq(S), s # <<>>, NEW c, c = Tail(s)
    PROVE  /\ c \in Seq(S) /\ Head(s) \in S /\ s[Len(s)] \in S
           /\ c = <<>> => s[Len(s)] = Head(s)
           /\ c # <<>> => c[Len(c)] = s[Len(s)]
  <1>1. /\ c \in Seq(S) /\ Len(c) = Len(s) - 1 /\ Len(s) \in Nat \ {0}
        /\ Head(s) = s[1] /\ \A i \in 1..Len(s) : s[i] \in S
        /\ \A i \in 1..(Len(s) - 1) : c[i] = s[i + 1]
    OBVIOUS
  <1>2. ASSUME c = <<>> PROVE s[Len(s)] = Head(s)
    <2>2. Len(<<>>) = 0
      OBVIOUS
    <2>1. Len(c) = 0
      BY <1>2, <2>2
    <2> QED BY <1>1, <2>1
  <1>3. ASSUME c # <<>> PROVE c[Len(c)] = s[Len(s)]
    <2>1. Len(c) # 0
      BY <1>1, <1>3
    <2>2. Len(c) \in 1..(Len(s) - 1) /\ Len(c) + 1 = Len(s)
      BY <1>1, <2>1
    <2> QED BY <1>1, <2>2
  <1> QED BY <1>1, <1>2, <1>3

(* A request that came by xseg_get_request or xseg_accept and is still     *)
(* with the thread carries the port of that thread in transit_portno, and  *)
(* only such a request is being submitted.                                 *)
Fresh(r) == via[r] \in {"get", "accept"}

Mine(t) == /\ \A r \in held[t] : Fresh(r) => transit[r] = PortOf[t]
           /\ op[t].at \in {"discover", "submit"} => Fresh(op[t].req)

(* The fields of a request: one that is with nobody, or being put, has no  *)
(* transit_portno, any other has a source; the ports of its path are those *)
(* that submitted it, all of them able to receive, up to its source.       *)
Tracked(r) == /\ path[r] = sent[r] /\ path[r] \in Seq(Usable)
              /\ via[r] = "none" => transit[r] = NoPort
              /\ via[r] # "none" => src[r] # NoPort
              /\ path[r] # <<>> => path[r][Len(path[r])] = src[r]

(* Who has it with nowhere left to respond to got it.                      *)
Back(t, r) == path[r] = <<>> /\ src[r] # NoPort => src[r] = PortOf[t]

(* Requests on their way have a way back.                                  *)
WayBack == \A p \in Bound : \A r \in Queued(request_queue(p)) : path[r] # <<>>

PathInv == /\ \A r \in Reqs : Tracked(r)
           /\ \A t \in Threads : Mine(t) /\ \A r \in held[t] : Back(t, r)
           /\ WayBack

LEMMA PathInvGives ==
    ASSUME IInv, PathInv PROVE PathIsSubmitters /\ EndsAtItsSource
  <1>1. path = sent
    BY DEF IInv, RequestTypes, PathInv, Tracked
  <1> QED BY <1>1 DEF PathInv, Tracked, Back, PathIsSubmitters, EndsAtItsSource

LEMMA InitPathInv == Init => PathInv
  <1> SUFFICES ASSUME Init PROVE PathInv
    OBVIOUS
  <1>1. \A q \in PortQueues : Queued(q) = {}
    BY DEF Init, Queued, ToSet
  <1>2. WayBack
    BY <1>1, QueuesOf DEF WayBack
  <1>3. \A r \in Reqs : Tracked(r)
    BY DEF Init, Tracked
  <1>4. \A t \in Threads : Mine(t) /\ \A r \in held[t] : Back(t, r)
    BY DEF Init, Mine, Idle, Frame
  <1> QED BY <1>2, <1>3, <1>4 DEF PathInv

(* A request with a path has a source.                                     *)
LEMMA PathHasSource ==
    ASSUME PathInv, NEW r \in Reqs, path[r] # <<>> PROVE src[r] \in Usable /\ src[r] # NoPort
  <1>1. path[r] \in Seq(Usable) /\ path[r][Len(path[r])] = src[r]
    BY DEF PathInv, Tracked
  <1>2. path[r][Len(path[r])] \in Usable
    BY <1>1, TailEnd
  <1> QED BY <1>1, <1>2, PortsAssumption

(* A step that changes the fields of no request.                           *)
LEMMA FieldsKept ==
    ASSUME IInv, PathInv, NEW t \in Threads, Call(t) \/ Step(t),
           UNCHANGED <<src, transit, path, via, sent>>, held'[t] \subseteq held[t],
           \A p \in Bound : Queued(request_queue(p))' \subseteq Queued(request_queue(p)),
           op'[t].at \in {"discover", "submit"} => Fresh(op'[t].req)
    PROVE  PathInv'
  <1>1. \A u \in Threads : u # t => op'[u] = op[u] /\ held'[u] = held[u]
    BY OwnCall
  <1>2. \A r \in Reqs : Tracked(r)'
    BY DEF PathInv, Tracked
  <1>3. \A u \in Threads : Mine(u)' /\ \A r \in held'[u] : Back(u, r)'
    BY <1>1 DEF PathInv, Mine, Back, Fresh
  <1>4. WayBack'
    BY DEF PathInv, WayBack
  <1> QED BY <1>2, <1>3, <1>4 DEF PathInv

(* A step that changes the fields of one request, which no other has.      *)
LEMMA FieldsOfOne ==
    ASSUME IInv, PathInv, NEW t \in Threads, Call(t) \/ Step(t), NEW r \in Reqs,
           \A u \in Threads : u # t => r \notin held[u],
           \A x \in Reqs : x # r => /\ src'[x] = src[x] /\ transit'[x] = transit[x]
                                   /\ path'[x] = path[x] /\ sent'[x] = sent[x]
                                   /\ via'[x] = via[x],
           held'[t] \subseteq held[t] \cup {r},
           Tracked(r)',
           r \in held'[t] => Back(t, r)' /\ (Fresh(r)' => transit'[r] = PortOf[t]),
           \A p \in Bound : Queued(request_queue(p))' \subseteq Queued(request_queue(p)) \cup {r},
           \A p \in Bound : r \in Queued(request_queue(p))' => path'[r] # <<>>,
           op'[t].at \notin {"discover", "submit"}
    PROVE  PathInv'
  <1>1. \A u \in Threads : u # t => op'[u] = op[u] /\ held'[u] = held[u]
    BY OwnCall
  <1>2. \A x \in Reqs : Tracked(x)'
    BY DEF PathInv, Tracked
  <1>3. /\ \A u \in Threads : held[u] \subseteq Reqs
        /\ \A u \in Threads : op[u].at \in {"discover", "submit"} => op[u].req \in held[u]
        /\ \A p \in Bound : Queued(request_queue(p)) \subseteq Reqs
    BY QueuesOf DEF IInv, Places, OpHolds, HoldsOf, Queued, ToSet
  <1>4. ASSUME NEW u \in Threads, u # t PROVE Mine(u)' /\ \A x \in held'[u] : Back(u, x)'
    BY <1>1, <1>3, <1>4 DEF PathInv, Mine, Back, Fresh
  <1>5. Mine(t)' /\ \A x \in held'[t] : Back(t, x)'
    BY <1>3 DEF PathInv, Mine, Back, Fresh
  <1>6. WayBack'
    BY <1>3 DEF PathInv, WayBack
  <1> QED BY <1>2, <1>4, <1>5, <1>6 DEF PathInv

(* Only a queue of another kind changes.                                   *)
LEMMA RequestsAside ==
    ASSUME IInv, NEW q \in PortQueues, NEW s, queue' = [queue EXCEPT ![q] = s],
           \A x : q # request_queue(x)
    PROVE  \A p \in Bound : Queued(request_queue(p))' = Queued(request_queue(p))
  BY QueuesOf DEF IInv, Places, Queued

(* xseg_get_request has taken a request out of a free_queue or request_h.  *)
LEMMA InitRequestPath ==
    ASSUME IInv, PathInv, NEW t \in Threads, Call(t) \/ Step(t), NEW r \in Reqs, NEW d,
           InitRequest(t, r, d), \A u \in Threads : r \notin held[u],
           \A p \in Bound : /\ Queued(request_queue(p))' = Queued(request_queue(p))
                            /\ r \notin Queued(request_queue(p))
    PROVE  PathInv'
  <1> USE DEF reqvars
  <1>1. CASE d \in Ports
    <2>1. Prepared(t, r, d)
      BY <1>1 DEF InitRequest
    <2>2. /\ src'[r] = PortOf[t] /\ transit'[r] = PortOf[t] /\ path'[r] = <<>>
          /\ sent'[r] = <<>> /\ via'[r] = "get" /\ PortOf[t] # NoPort
      BY <2>1, PortsAssumption DEF Prepared, IInv, RequestTypes
    <2>3. \A x \in Reqs : x # r => /\ src'[x] = src[x] /\ transit'[x] = transit[x]
                                   /\ path'[x] = path[x] /\ sent'[x] = sent[x]
                                   /\ via'[x] = via[x]
      BY <2>1 DEF Prepared, IInv, RequestTypes
    <2>4. held'[t] \subseteq held[t] \cup {r} /\ op'[t].at \notin {"discover", "submit"}
      BY <2>1 DEF Prepared, Hold, Return, Idle, Frame, IInv, Places, CallTypes
    <2>5. Tracked(r)' /\ Back(t, r)'
      BY <2>2 DEF Tracked, Back
    <2> QED BY <2>2, <2>3, <2>4, <2>5, FieldsOfOne
  <1>2. CASE d \notin Ports /\ src[r] \in Bound
    <2>1. StartPut(t, r) /\ Hold(t, r)
      BY <1>2 DEF InitRequest, Refused
    <2>2. /\ src'[r] = NoPort /\ transit'[r] = NoPort /\ path'[r] = <<>>
          /\ sent'[r] = <<>> /\ via'[r] = "none"
      BY <2>1 DEF StartPut, IInv, RequestTypes
    <2>3. \A x \in Reqs : x # r => /\ src'[x] = src[x] /\ transit'[x] = transit[x]
                                   /\ path'[x] = path[x] /\ sent'[x] = sent[x]
                                   /\ via'[x] = via[x]
      BY <2>1 DEF StartPut, IInv, RequestTypes
    <2>4. held'[t] \subseteq held[t] \cup {r} /\ op'[t].at \notin {"discover", "submit"}
      BY <2>1 DEF StartPut, Hold, Frame, IInv, Places, CallTypes
    <2>5. Tracked(r)' /\ Back(t, r)' /\ ~Fresh(r)'
      BY <2>2 DEF Tracked, Back, Fresh
    <2> QED BY <2>2, <2>3, <2>4, <2>5, FieldsOfOne
  <1>3. CASE d \notin Ports /\ src[r] \notin Bound
    <2>1. Return(t) /\ UNCHANGED <<held, reqvars, via, sent>>
      BY <1>3 DEF InitRequest, Refused
    <2>2. op'[t].at \notin {"discover", "submit"}
      BY <2>1 DEF Return, Idle, Frame, IInv, CallTypes
    <2> QED BY <2>1, <2>2, FieldsKept
  <1> QED BY <1>1, <1>2, <1>3

LEMMA GetPath ==
    ASSUME IInv, PathInv, NEW t \in Threads,
           GetAlloc(t) \/ \E d \in Dsts : GetFree(t, d)
    PROVE  PathInv'
  <1>0. Call(t) \/ Step(t)
    BY DEF Call, Step
  <1>1. ASSUME NEW d \in Dsts, GetFree(t, d) PROVE PathInv'
    <2> DEFINE q == free_queue(PortOf[t])
               r == Head(queue[q])
    <2>1. /\ queue[q] # <<>> /\ queue' = [queue EXCEPT ![q] = Tail(queue[q])]
          /\ InitRequest(t, r, d)
      BY <1>1 DEF GetFree, Fq
    <2>2. q \in PortQueues /\ \A x : q # request_queue(x)
      BY PortsAssumption, QueuesOf DEF free_queue, request_queue
    <2>3. r \in Queued(q) /\ r \in Reqs
      BY <2>1, <2>2, Popped DEF IInv
    <2>6. PICK s : queue' = [queue EXCEPT ![q] = s]
      BY <2>1
    <2>7. \A p \in Bound : Queued(request_queue(p))' = Queued(request_queue(p))
      BY <2>2, <2>6, RequestsAside
    <2>4. \A p \in Bound : /\ Queued(request_queue(p))' = Queued(request_queue(p))
                           /\ r \notin Queued(request_queue(p))
      BY <2>2, <2>3, <2>7, QueuesOf DEF IInv, Own, NoSharing
    <2>5. \A u \in Threads : r \notin held[u]
      BY <2>2, <2>3 DEF IInv, Own, NoSharing
    <2> HIDE DEF q, r
    <2> QED BY <1>0, <2>1, <2>3, <2>4, <2>5, InitRequestPath
  <1>2. ASSUME GetAlloc(t) PROVE PathInv'
    <2>1. CASE alloc[PortOf[t]] < max[PortOf[t]] /\ objs # {}
      <3>1. PICK r \in objs : InitRequest(t, r, op[t].port) /\ UNCHANGED queue
        BY <1>2, <2>1 DEF GetAlloc
      <3>2. /\ r \in Reqs /\ \A u \in Threads : r \notin held[u]
            /\ \A p \in Bound : /\ Queued(request_queue(p))' = Queued(request_queue(p))
                                /\ r \notin Queued(request_queue(p))
        BY <3>1, QueuesOf DEF IInv, Places, Own, NoSharing, Queued
      <3> QED BY <1>0, <3>1, <3>2, InitRequestPath
    <2>2. CASE ~ (alloc[PortOf[t]] < max[PortOf[t]] /\ objs # {})
      <3>1. Return(t) /\ UNCHANGED <<queue, reqvars, held, history>>
        BY <1>2, <2>2 DEF GetAlloc
      <3>2. op'[t].at \notin {"discover", "submit"}
        BY <3>1 DEF Return, Idle, Frame, IInv, CallTypes
      <3>3. \A p \in Bound : Queued(request_queue(p))' = Queued(request_queue(p))
        BY <3>1 DEF Queued
      <3> QED BY <1>0, <3>1, <3>2, <3>3, FieldsKept DEF reqvars, history
    <2> QED BY <2>1, <2>2
  <1> QED BY <1>1, <1>2

LEMMA PutPath ==
    ASSUME IInv, PathInv, NEW t \in Threads, NEW r \in Reqs, Put(t, r)
    PROVE  PathInv'
  <1>0. Call(t) \/ Step(t)
    BY DEF Call
  <1>1. r \in held[t] /\ StartPut(t, r) /\ UNCHANGED <<segvars, held>>
    BY DEF Put
  <1>2. /\ src'[r] = NoPort /\ transit'[r] = NoPort /\ path'[r] = <<>>
        /\ sent'[r] = <<>> /\ via'[r] = "none"
    BY <1>1 DEF StartPut, IInv, RequestTypes
  <1>3. \A x \in Reqs : x # r => /\ src'[x] = src[x] /\ transit'[x] = transit[x]
                                 /\ path'[x] = path[x] /\ sent'[x] = sent[x]
                                 /\ via'[x] = via[x]
    BY <1>1 DEF StartPut, IInv, RequestTypes
  <1>4. op'[t].at \notin {"discover", "submit"}
    BY <1>1 DEF StartPut, Frame, IInv, CallTypes
  <1>5. Tracked(r)' /\ Back(t, r)' /\ ~Fresh(r)'
    BY <1>2 DEF Tracked, Back, Fresh
  <1>6. \A p \in Bound : /\ Queued(request_queue(p))' = Queued(request_queue(p))
                         /\ r \notin Queued(request_queue(p))
    BY <1>1, QueuesOf DEF IInv, Own, NoSharing, Queued, segvars
  <1>7. \A u \in Threads : u # t => r \notin held[u]
    BY <1>1 DEF IInv, Own, NoSharing
  <1> QED BY <1>0, <1>1, <1>3, <1>4, <1>5, <1>6, <1>7, FieldsOfOne

(* xseg_submit and xseg_forward start with a request that is not a reply.  *)
LEMMA SubmitPath ==
    ASSUME ~Resubmit, IInv, PathInv, NEW t \in Threads, NEW r \in Reqs,
           Submit(t, r) \/ \E d \in Dsts : Forward(t, r, d)
    PROVE  PathInv'
  <1>0. Call(t) \/ Step(t)
    BY DEF Call
  <1>1. MaySubmit(t, r) /\ StartSubmit(t, r)
    BY DEF Submit, Forward
  <1>2. Fresh(r)
    <2>1. via[r] # "receive" /\ transit[r] \in Ports
      BY <1>1 DEF MaySubmit
    <2>2. via[r] # "none"
      BY <2>1, PortsAssumption DEF PathInv, Tracked
    <2> QED BY <2>1, <2>2 DEF Fresh, IInv, RequestTypes
  <1>3. op'[t].req = r
    BY <1>1 DEF StartSubmit, Frame, IInv, CallTypes
  <1>4. \A p \in Bound : Queued(request_queue(p))' = Queued(request_queue(p))
    BY <1>1 DEF StartSubmit, segvars, Queued
  <1> QED BY <1>0, <1>1, <1>2, <1>3, <1>4, FieldsKept DEF StartSubmit, history

(* It goes on the path as what it is.                                      *)
LEMMA SubmitQueuePath ==
    ASSUME IInv, PathInv, NEW t \in Threads, SubmitQueue(t)
    PROVE  PathInv'
  <1> DEFINE q == request_queue(op[t].port)
  <1>9. PICK r : r = op[t].req
    OBVIOUS
  <1>0. Call(t) \/ Step(t)
    BY DEF Step
  <1>1. r \in held[t] /\ r \in Reqs /\ op[t].port \in Bound /\ q \in PortQueues
    BY <1>9, PortsAssumption, QueuesOf DEF IInv, OpHolds, HoldsOf, Places, SubmitQueue, At
  <1>2. Return(t) /\ UNCHANGED <<src, transit, via>> /\ op'[t].at \notin {"discover", "submit"}
    BY DEF SubmitQueue, Return, Idle, Frame, IInv, CallTypes
  <1>3. CASE /\ Enqueue(q, r) /\ Drop(t, r)
             /\ path' = [path EXCEPT ![r] = <<transit[r]>> \o @]
             /\ sent' = [sent EXCEPT ![r] = <<PortOf[t]>> \o @]
    <2>1. transit[r] = PortOf[t] /\ PortOf[t] \in Usable /\ Fresh(r)
      BY <1>1, <1>9, PortsAssumption DEF PathInv, Mine, SubmitQueue, At
    <2>2. Tracked(r) /\ Back(t, r) /\ src[r] # NoPort /\ via[r] # "none"
      BY <1>1, <2>1 DEF PathInv, Tracked, Fresh
    <2>3. PICK c : c = <<PortOf[t]>> \o path[r]
      OBVIOUS
    <2>4. path'[r] = c /\ sent'[r] = c
      BY <1>1, <1>3, <2>1, <2>2, <2>3 DEF IInv, RequestTypes, Tracked
    <2>5. /\ c \in Seq(Usable) /\ c # <<>> /\ c[Len(c)] = src[r]
      BY <2>1, <2>2, <2>3, ConsEnd DEF Tracked, Back
    <2>6. Tracked(r)'
      BY <1>2, <2>2, <2>4, <2>5 DEF Tracked
    <2>7. \A x \in Reqs : x # r => path'[x] = path[x] /\ sent'[x] = sent[x]
      BY <1>3 DEF IInv, RequestTypes
    <2>8. held'[t] \subseteq held[t] /\ r \notin held'[t]
      BY <1>3 DEF Drop, IInv, Places
    <2>9. \A u \in Threads : u # t => r \notin held[u]
      BY <1>1 DEF IInv, Own, NoSharing
    <2>10. \A p \in Bound : Queued(request_queue(p))' \subseteq Queued(request_queue(p)) \cup {r}
      BY <1>1, <1>3, EnqueueLemma, QueuesOf
    <2> QED BY <1>0, <1>1, <1>2, <2>4, <2>5, <2>6, <2>7, <2>8, <2>9, <2>10, FieldsOfOne
  <1>4. CASE UNCHANGED <<queue, size, path, sent, held>>
    <2>1. \A p \in Bound : Queued(request_queue(p))' = Queued(request_queue(p))
      BY <1>4 DEF Queued
    <2> QED BY <1>0, <1>2, <1>4, <2>1, FieldsKept
  <1> QED BY <1>3, <1>4, <1>9 DEF SubmitQueue

(* xseg_accept stamps the request with its own port.                       *)
LEMMA AcceptPath ==
    ASSUME IInv, PathInv, NEW t \in Threads, Accept(t)
    PROVE  PathInv'
  <1> DEFINE q == request_queue(PortOf[t])
  <1>20. PICK r : r = Head(queue[q])
    OBVIOUS
  <1>0. Call(t) \/ Step(t)
    BY DEF Call
  <1>1. PortOf[t] \in Bound /\ q \in PortQueues
    BY PortsAssumption, QueuesOf
  <1>2. /\ At(t, "idle") /\ queue[q] # <<>> /\ queue' = [queue EXCEPT ![q] = Tail(@)]
        /\ transit' = [transit EXCEPT ![r] = PortOf[t]]
        /\ via' = [via EXCEPT ![r] = "accept"]
        /\ held' = [held EXCEPT ![t] = @ \cup {r}]
        /\ UNCHANGED <<src, path, op, sent>>
    BY <1>20 DEF Accept, Hold
  <1>3. /\ r \in Queued(q) /\ r \in Reqs
        /\ Queued(q)' = Queued(q) \ {r}
        /\ \A p \in PortQueues : p # q => Queued(p)' = Queued(p)
    BY <1>1, <1>2, <1>20, Popped DEF IInv
  <1>4. path[r] # <<>> /\ src[r] # NoPort
    BY <1>1, <1>3, PathHasSource DEF PathInv, WayBack
  <1>5. Tracked(r)' /\ Back(t, r)' /\ transit'[r] = PortOf[t]
    <2>1. Tracked(r) /\ via'[r] = "accept" /\ transit'[r] = PortOf[t]
      BY <1>2, <1>3 DEF PathInv, IInv, RequestTypes
    <2> QED BY <1>2, <1>4, <2>1 DEF Tracked, Back
  <1>6. \A x \in Reqs : x # r => transit'[x] = transit[x] /\ via'[x] = via[x]
    BY <1>2 DEF IInv, RequestTypes
  <1>7. held'[t] \subseteq held[t] \cup {r} /\ op'[t].at \notin {"discover", "submit"}
    BY <1>2 DEF IInv, Places, At
  <1>8. \A u \in Threads : u # t => r \notin held[u]
    BY <1>1, <1>3 DEF IInv, Own, NoSharing
  <1>9. \A p \in Bound : Queued(request_queue(p))' \subseteq Queued(request_queue(p))
    BY <1>3, QueuesOf
  <1> HIDE DEF q
  <1> QED BY <1>0, <1>2, <1>3, <1>4, <1>5, <1>6, <1>7, <1>8, <1>9, FieldsOfOne

(* xseg_receive takes the port of the receiver off the path.               *)
LEMMA ReceivePath ==
    ASSUME IInv, PathInv, NEW t \in Threads, Receive(t)
    PROVE  PathInv'
  <1> DEFINE q == reply_queue(PortOf[t])
  <1>20. PICK r : r = Head(queue[q])
    OBVIOUS
  <1>0. Call(t) \/ Step(t)
    BY DEF Call
  <1>1. PortOf[t] \in Bound /\ q \in PortQueues
    BY PortsAssumption, QueuesOf
  <1>2. /\ At(t, "idle") /\ queue[q] # <<>> /\ queue' = [queue EXCEPT ![q] = Tail(@)]
        /\ UNCHANGED <<src, transit, op>>
    BY DEF Receive
  <1>3. /\ r \in Queued(q) /\ r \in Reqs
        /\ \A p \in PortQueues : p # q => Queued(p)' = Queued(p)
    BY <1>1, <1>2, <1>20, Popped DEF IInv
  <1>4. path[r] # <<>> /\ Head(path[r]) = PortOf[t] /\ src[r] # NoPort
    BY <1>1, <1>3, PathHasSource DEF IInv, ReplyHasItsPort
  <1>5. /\ path' = [path EXCEPT ![r] = Tail(@)]
        /\ sent' = [sent EXCEPT ![r] = Tail(@)]
        /\ via' = [via EXCEPT ![r] = "receive"]
        /\ held' = [held EXCEPT ![t] = @ \cup {r}]
    BY <1>4, <1>20 DEF Receive, Hold
  <1>6. PICK c : c = Tail(path[r])
    OBVIOUS
  <1>7. Tracked(r) /\ path'[r] = c /\ sent'[r] = c /\ via'[r] = "receive"
    BY <1>3, <1>5, <1>6 DEF PathInv, Tracked, IInv, RequestTypes
  <1>8. /\ c \in Seq(Usable)
        /\ c = <<>> => src[r] = PortOf[t]
        /\ c # <<>> => c[Len(c)] = src[r]
    BY <1>4, <1>6, <1>7, TailEnd DEF Tracked
  <1>9. Tracked(r)' /\ Back(t, r)' /\ ~Fresh(r)'
    BY <1>2, <1>4, <1>7, <1>8 DEF Tracked, Back, Fresh
  <1>10. \A x \in Reqs : x # r => path'[x] = path[x] /\ sent'[x] = sent[x] /\ via'[x] = via[x]
    BY <1>5 DEF IInv, RequestTypes
  <1>11. held'[t] \subseteq held[t] \cup {r} /\ op'[t].at \notin {"discover", "submit"}
    BY <1>2, <1>5 DEF IInv, Places, At
  <1>12. \A u \in Threads : u # t => r \notin held[u]
    BY <1>1, <1>3 DEF IInv, Own, NoSharing
  <1>13. \A p \in Bound : /\ request_queue(p) \in PortQueues /\ request_queue(p) # q
                          /\ Queued(request_queue(p))' = Queued(request_queue(p))
                          /\ r \notin Queued(request_queue(p))
    BY <1>1, <1>3, QueuesOf DEF IInv, Own, NoSharing
  <1> HIDE DEF q
  <1> QED BY <1>0, <1>2, <1>3, <1>9, <1>10, <1>11, <1>12, <1>13, FieldsOfOne

(* xseg_respond never has to go past a port: each can receive.             *)
LEMMA RespondQueuePath ==
    ASSUME IInv, PathInv, NEW t \in Threads, RespondQueue(t)
    PROVE  PathInv'
  <1> DEFINE r == op[t].req
             d == Head(path[r])
  <1>0. Call(t) \/ Step(t)
    BY DEF Step
  <1>1. r \in held[t] /\ r \in Reqs
    BY DEF IInv, OpHolds, HoldsOf, Places, RespondQueue, At
  <1>2. path[r] # <<>> => d \in Usable /\ d \in Bound
    BY <1>1, PortsAssumption, TailEnd DEF PathInv, Tracked
  <1>3. Return(t) /\ UNCHANGED <<src, transit, via, path, sent>>
    BY <1>2 DEF RespondQueue
  <1>4. op'[t].at \notin {"discover", "submit"}
    BY <1>3 DEF Return, Idle, Frame, IInv, CallTypes
  <1>5. \/ UNCHANGED <<queue, held>>
        \/ path[r] # <<>> /\ Enqueue(reply_queue(d), r) /\ Drop(t, r)
    BY <1>2 DEF RespondQueue
  <1>6. CASE UNCHANGED <<queue, held>>
    <2>1. \A p \in Bound : Queued(request_queue(p))' = Queued(request_queue(p))
      BY <1>6 DEF Queued
    <2> QED BY <1>0, <1>3, <1>4, <1>6, <2>1, FieldsKept
  <1>7. CASE path[r] # <<>> /\ Enqueue(reply_queue(d), r) /\ Drop(t, r)
    <2>1. held'[t] \subseteq held[t]
      BY <1>7 DEF Drop, IInv, Places
    <2>2. reply_queue(d) \in PortQueues
      BY <1>2, <1>7, QueuesOf
    <2>3. \A p \in PortQueues : p # reply_queue(d) => Queued(p)' = Queued(p)
      BY <1>1, <1>7, <2>2, EnqueueLemma
    <2>4. \A p \in Bound : request_queue(p) \in PortQueues /\ request_queue(p) # reply_queue(d)
      BY QueuesOf DEF request_queue, reply_queue
    <2>5. \A p \in Bound : Queued(request_queue(p))' = Queued(request_queue(p))
      BY <2>3, <2>4
    <2> QED BY <1>0, <1>3, <1>4, <2>1, <2>5, FieldsKept
  <1> QED BY <1>5, <1>6, <1>7

(* The other calls and steps change no field the invariant is about.       *)
LEMMA OtherCallsPath ==
    ASSUME IInv, PathInv, NEW t \in Threads,
           \/ \E d \in Dsts : GetMiss(t, d)
           \/ \E r \in Reqs : Respond(t, r)
           \/ \E n \in Counts : \/ AllocRequests(t, n) \/ FreeRequests(t, n)
                                \/ SetFreequeueSize(t, n) \/ SetMaxRequests(t, n)
           \/ \E hop \in Hops : SetPathNext(t, hop)
    PROVE  PathInv'
  <1> USE DEF reqvars, segvars, thvars, history
  <1>0. Call(t) \/ Step(t)
    BY DEF Call
  <1>1. UNCHANGED <<src, transit, path, via, sent, held, queue>>
    BY DEF GetMiss, Respond, AllocRequests, FreeRequests, SetFreequeueSize, SetMaxRequests,
           LockFq, SetPathNext
  <1>2. op'[t].at \notin {"discover", "submit"}
    <2>1. op \in [Threads -> [at : Labels, req : Reqs \cup {NoReq}, i : Nat, nr : Nat,
                              port : Ports \cup {NoPort} \cup Dsts]]
      BY DEF IInv, CallTypes
    <2> QED BY <2>1 DEF GetMiss, Respond, AllocRequests, FreeRequests, SetFreequeueSize,
                        SetMaxRequests, LockFq, SetPathNext, Frame, At
  <1>3. \A p \in Bound : Queued(request_queue(p))' = Queued(request_queue(p))
    BY <1>1 DEF Queued
  <1> QED BY <1>0, <1>1, <1>2, <1>3, FieldsKept

LEMMA OtherStepsPath ==
    ASSUME IInv, PathInv, NEW t \in Threads,
           \/ PutFree(t) \/ PutObj(t) \/ PutDec(t) \/ Discover(t)
           \/ AllocTurn(t) \/ FreeTurn(t) \/ FreeDec(t) \/ ResizeTurn(t)
    PROVE  PathInv'
  <1> USE DEF reqvars, segvars, thvars, history
  <1>0. Call(t) \/ Step(t)
    BY DEF Step
  <1>1. op \in [Threads -> [at : Labels, req : Reqs \cup {NoReq}, i : Nat, nr : Nat,
                            port : Ports \cup {NoPort} \cup Dsts]]
    BY DEF IInv, CallTypes
  <1>2. UNCHANGED <<src, transit, path, via, sent>> /\ held'[t] \subseteq held[t]
    BY DEF PutFree, PutObj, PutDec, Discover, AllocTurn, FreeTurn, FreeDec, ResizeTurn,
           Drop, IInv, Places
  <1>3. op'[t].at \in {"discover", "submit"} => Fresh(op'[t].req)
    <2>1. CASE Discover(t)
      <3>1. Fresh(op[t].req)
        BY <2>1 DEF Discover, At, PathInv, Mine
      <3>2. op'[t].at = "idle" \/ op'[t].req = op[t].req
        BY <1>1, <2>1 DEF Discover, Return, Idle, Frame
      <3> QED BY <3>1, <3>2
    <2>2. CASE PutFree(t) \/ PutObj(t) \/ PutDec(t)
      BY <1>1, <2>2 DEF PutFree, PutObj, PutDec, Return, Goto, Idle, Frame, At
    <2>3. CASE AllocTurn(t) \/ FreeTurn(t) \/ FreeDec(t) \/ ResizeTurn(t)
      BY <1>1, <2>3
         DEF AllocTurn, FreeTurn, FreeDec, ResizeTurn, Return, Goto, Idle, Frame, At
    <2> QED BY <2>1, <2>2, <2>3
  <1>4. \/ UNCHANGED queue
        \/ \E p \in Bound : \E s : queue' = [queue EXCEPT ![free_queue(p)] = s]
    <2>1. CASE PutFree(t)
      <3>1. op[t].req \in Reqs /\ op[t].port \in Bound
        BY <2>1 DEF IInv, OpHolds, HoldsOf, Places, PutFree, At
      <3> QED BY <2>1, <3>1 DEF PutFree
    <2>2. CASE PutObj(t) \/ PutDec(t) \/ Discover(t) \/ FreeDec(t)
      BY <2>2 DEF PutObj, PutDec, Discover, FreeDec
    <2>3. PortOf[t] \in Bound /\ objs \subseteq Reqs
      BY PortsAssumption DEF IInv, Places
    <2>4. CASE AllocTurn(t) \/ FreeTurn(t) \/ ResizeTurn(t)
      BY <2>3, <2>4 DEF AllocTurn, FreeTurn, ResizeTurn
    <2> QED BY <2>1, <2>2, <2>4
  <1>5. \A p \in Bound : Queued(request_queue(p))' = Queued(request_queue(p))
    <2>1. CASE UNCHANGED queue
      BY <2>1 DEF Queued
    <2>2. CASE \E p \in Bound : \E s : queue' = [queue EXCEPT ![free_queue(p)] = s]
      <3>0. PICK p \in Bound : \E s : queue' = [queue EXCEPT ![free_queue(p)] = s]
        BY <2>2
      <3>1. PICK s : queue' = [queue EXCEPT ![free_queue(p)] = s]
        BY <3>0
      <3>2. free_queue(p) \in PortQueues /\ \A x : free_queue(p) # request_queue(x)
        BY QueuesOf DEF free_queue, request_queue
      <3> QED BY <3>1, <3>2, RequestsAside
    <2> QED BY <1>4, <2>1, <2>2
  <1> QED BY <1>0, <1>2, <1>3, <1>5, FieldsKept

LEMMA NextPathInv ==
    ASSUME ~Resubmit, IInv, PathInv, [Next]_vars PROVE PathInv'
  <1>1. ASSUME NEW t \in Threads, Call(t) PROVE PathInv'
    BY <1>1, GetPath, PutPath, SubmitPath, AcceptPath, ReceivePath, OtherCallsPath DEF Call
  <1>2. ASSUME NEW t \in Threads, Step(t) PROVE PathInv'
    BY <1>2, GetPath, SubmitQueuePath, RespondQueuePath, OtherStepsPath DEF Step
  <1>3. CASE UNCHANGED vars
    <2>1. UNCHANGED <<src, transit, path, via, sent, held, queue, op>>
      BY <1>3 DEF vars, segvars, reqvars, thvars, history
    <2> QED BY <2>1 DEF PathInv, Tracked, Mine, Back, Fresh, WayBack, Queued
  <1> QED BY <1>1, <1>2, <1>3 DEF Next

(* Under that assumption the path of a request is the stack of the ports   *)
(* whose peers submitted it and have not had the reply, for all that       *)
(* xseg_submit pushes whatever transit_portno says.                        *)
THEOREM PathsAreSubmitters == ASSUME ~Resubmit PROVE Spec => []PathIsSubmitters
  <1>1. Init => PathInv
    BY InitPathInv
  <1>2. IInv /\ PathInv /\ [Next]_vars => PathInv'
    BY NextPathInv
  <1>3. IInv /\ PathInv => PathIsSubmitters
    BY PathInvGives
  <1> QED BY <1>1, <1>2, <1>3, Inductive, PTL DEF Spec

(* And it ends at the source: a request nobody waits for any more is with  *)
(* the peer that got it, whose port xseg_put_request returns it to.        *)
THEOREM PathsEndAtSource == ASSUME ~Resubmit PROVE Spec => []EndsAtItsSource
  <1>1. Init => PathInv
    BY InitPathInv
  <1>2. IInv /\ PathInv /\ [Next]_vars => PathInv'
    BY NextPathInv
  <1>3. IInv /\ PathInv => EndsAtItsSource
    BY PathInvGives
  <1> QED BY <1>1, <1>2, <1>3, Inductive, PTL DEF Spec

-----------------------------------------------------------------------------
(* alloc_reqs, when the administrative calls are not used and destinations *)
(* are valid: a request is put back to the port that is charged for it.    *)

(* Whoever was given a request, and whom it is queued for.                 *)
Lines(p) == Queued(request_queue(p)) \cup Queued(reply_queue(p))

Putting(t) == op[t].at \in {"put_free", "put_obj"}

(* What a thread has in hand is in use, but for the request it is putting  *)
(* back, which goes to the port that is charged for it.                    *)
Charges(t) ==
    /\ op[t].at = "get_alloc" => op[t].port \in Ports
    /\ Putting(t) => home[op[t].req] = op[t].port /\ via[op[t].req] = "none"
    /\ ~InLoop(t) /\ op[t].at # "free_dec"
    /\ \A r \in held[t] : via[r] # "none" \/ (Putting(t) /\ op[t].req = r)

(* A request in use is charged to its source, one in a free_queue to the   *)
(* port of that queue, one in request_h to nobody.                         *)
InUse(r)  == via[r] # "none" => home[r] = src[r]
Charged_q == \A p \in Bound : /\ \A r \in Queued(free_queue(p)) : home[r] = p
                              /\ \A r \in Lines(p) : via[r] # "none"
Charged_o == \A r \in objs : home[r] = NoPort
Limits    == \A p \in Bound : max[p] = DefMaxReqs

HomeInv == /\ \A r \in Reqs : InUse(r)
           /\ \A t \in Threads : Charges(t)
           /\ Charged_q /\ Charged_o /\ Limits

LEMMA InitHomeInv == Init => HomeInv
  <1> SUFFICES ASSUME Init PROVE HomeInv
    OBVIOUS
  <1>1. \A q \in PortQueues : Queued(q) = {}
    BY DEF Init, Queued, ToSet
  <1>2. Charged_q
    BY <1>1, QueuesOf DEF Charged_q, Lines
  <1>3. \A t \in Threads : Charges(t)
    BY DEF Init, Charges, Putting, InLoop, Idle, Frame
  <1>4. (\A r \in Reqs : InUse(r)) /\ Charged_o /\ Limits
    BY DEF Init, InUse, Charged_o, Limits
  <1> QED BY <1>2, <1>3, <1>4 DEF HomeInv

(* A step that charges no request to another port.                         *)
LEMMA HomesKept ==
    ASSUME IInv, HomeInv, NEW t \in Threads, Call(t) \/ Step(t),
           UNCHANGED <<src, via, home, max>>, objs' \subseteq objs, Charges(t)',
           \A p \in Bound : /\ Queued(free_queue(p))' \subseteq Queued(free_queue(p))
                            /\ Lines(p)' \subseteq Lines(p)
    PROVE  HomeInv'
  <1>1. \A u \in Threads : u # t => op'[u] = op[u] /\ held'[u] = held[u]
    BY OwnCall
  <1>2. \A u \in Threads : Charges(u)'
    BY <1>1 DEF HomeInv, Charges, Putting, InLoop
  <1>3. (\A r \in Reqs : InUse(r)') /\ Charged_o' /\ Limits'
    BY DEF HomeInv, InUse, Charged_o, Limits
  <1>4. Charged_q'
    BY DEF HomeInv, Charged_q
  <1> QED BY <1>2, <1>3, <1>4 DEF HomeInv

(* A step that changes the charge, the source or the use of one request,   *)
(* which no other thread has, or moves it.                                 *)
LEMMA HomeOfOne ==
    ASSUME IInv, HomeInv, NEW t \in Threads, Call(t) \/ Step(t), NEW r \in Reqs,
           \A u \in Threads : u # t => r \notin held[u],
           \A x \in Reqs : x # r => src'[x] = src[x] /\ via'[x] = via[x] /\ home'[x] = home[x],
           InUse(r)', max' = max, Charges(t)',
           objs' \subseteq objs \cup {r}, r \in objs' => home'[r] = NoPort,
           \A p \in Bound : /\ Queued(free_queue(p))' \subseteq Queued(free_queue(p)) \cup {r}
                            /\ r \in Queued(free_queue(p))' => home'[r] = p
                            /\ Lines(p)' \subseteq Lines(p) \cup {r}
                            /\ r \in Lines(p)' => via'[r] # "none"
    PROVE  HomeInv'
  <1>1. \A u \in Threads : u # t => op'[u] = op[u] /\ held'[u] = held[u]
    BY OwnCall
  <1>2. /\ \A u \in Threads : held[u] \subseteq Reqs
        /\ \A u \in Threads : Putting(u) => op[u].req \in held[u]
        /\ objs \subseteq Reqs
    BY DEF IInv, Places, OpHolds, HoldsOf, Putting
  <1>3. \A p \in Bound : Queued(free_queue(p)) \subseteq Reqs /\ Lines(p) \subseteq Reqs
    BY QueuesOf DEF IInv, Places, Queued, ToSet, Lines
  <1>4. ASSUME NEW u \in Threads, u # t PROVE Charges(u)'
    BY <1>1, <1>2, <1>4 DEF HomeInv, Charges, Putting, InLoop
  <1>5. \A x \in Reqs : InUse(x)'
    BY DEF HomeInv, InUse
  <1>6. Charged_q'
    BY <1>3 DEF HomeInv, Charged_q
  <1>7. Charged_o' /\ Limits'
    BY <1>2 DEF HomeInv, Charged_o, Limits
  <1> QED BY <1>4, <1>5, <1>6, <1>7 DEF HomeInv

(* The counts, when nothing is charged or given back.                      *)
Decs(p) == {t \in Threads : At(t, "put_dec") /\ op[t].port = p}

LEMMA CountKept ==
    ASSUME IInv, AllocReqsExact, NEW t \in Threads, Call(t) \/ Step(t),
           UNCHANGED <<home, alloc>>, ~At(t, "put_dec"), ~At(t, "put_dec")'
    PROVE  AllocReqsExact'
  <1>1. \A u \in Threads : u # t => op'[u] = op[u]
    BY OwnCall
  <1>2. \A p \in Bound : Charged(p)' = Charged(p)
    BY DEF Charged
  <1>3. \A p \in Bound : Decs(p)' = Decs(p)
    BY <1>1 DEF Decs, At
  <1> QED BY <1>2, <1>3 DEF AllocReqsExact, Decs

(* xseg_get_request charges the port of the caller, or takes what is       *)
(* charged to it already.                                                  *)
LEMMA PreparedHome ==
    ASSUME IInv, HomeInv, NEW t \in Threads, Call(t) \/ Step(t), NEW r \in Reqs, NEW d,
           Prepared(t, r, d), \A u \in Threads : r \notin held[u], ~Putting(t),
           home'[r] = PortOf[t], \A x \in Reqs : x # r => home'[x] = home[x], max' = max,
           objs' \subseteq objs, r \notin objs',
           \A p \in Bound : /\ Queued(free_queue(p))' \subseteq Queued(free_queue(p))
                            /\ Lines(p)' \subseteq Lines(p)
                            /\ r \notin Queued(free_queue(p))' /\ r \notin Lines(p)'
    PROVE  HomeInv'
  <1>1. /\ src'[r] = PortOf[t] /\ via'[r] = "get"
        /\ \A x \in Reqs : x # r => src'[x] = src[x] /\ via'[x] = via[x]
    BY DEF Prepared, IInv, RequestTypes
  <1>2. op'[t] = Idle /\ held'[t] = held[t] \cup {r} /\ held[t] \subseteq Reqs
    BY DEF Prepared, Hold, Return, IInv, Places, CallTypes
  <1>3. \A x \in held[t] : via[x] # "none"
    BY DEF HomeInv, Charges
  <1>4. op'[t].at = "idle"
    BY <1>2 DEF Idle, Frame
  <1>5. Charges(t)'
    BY <1>1, <1>2, <1>3, <1>4 DEF Charges, Putting, InLoop
  <1>6. InUse(r)'
    BY <1>1 DEF InUse
  <1> QED BY <1>1, <1>5, <1>6, HomeOfOne

LEMMA GetFreeHome ==
    ASSUME Dsts \subseteq Ports, IInv, HomeInv, NEW t \in Threads, NEW d \in Dsts, GetFree(t, d)
    PROVE  HomeInv'
  <1> DEFINE q == free_queue(PortOf[t])
  <1>0. Call(t) \/ Step(t)
    BY DEF Call
  <1>1. PICK r : r = Head(queue[q])
    OBVIOUS
  <1>2. /\ queue[q] # <<>> /\ queue' = [queue EXCEPT ![q] = Tail(@)] /\ At(t, "idle")
        /\ Prepared(t, r, d) /\ UNCHANGED <<objs, max, home>>
    BY <1>1 DEF GetFree, Fq, InitRequest
  <1>3. PortOf[t] \in Bound /\ q \in PortQueues
    BY PortsAssumption, QueuesOf
  <1>4. /\ r \in Queued(q) /\ r \in Reqs /\ Queued(q)' = Queued(q) \ {r}
        /\ \A p \in PortQueues : p # q => Queued(p)' = Queued(p)
    BY <1>1, <1>2, <1>3, Popped DEF IInv
  <1>5. /\ \A u \in Threads : r \notin held[u]
        /\ r \notin objs /\ home[r] = PortOf[t] /\ ~Putting(t)
        /\ \A p \in PortQueues : p # q => r \notin Queued(p)
    BY <1>2, <1>3, <1>4 DEF IInv, Own, NoSharing, HomeInv, Charged_q, Putting, At
  <1>6. ASSUME NEW p \in Bound
        PROVE  /\ Queued(free_queue(p))' \subseteq Queued(free_queue(p))
               /\ Lines(p)' \subseteq Lines(p)
               /\ r \notin Queued(free_queue(p))' /\ r \notin Lines(p)'
    <2>1. /\ free_queue(p) \in PortQueues /\ request_queue(p) \in PortQueues
          /\ reply_queue(p) \in PortQueues /\ request_queue(p) # q /\ reply_queue(p) # q
      BY QueuesOf DEF request_queue, free_queue
    <2>2. Queued(request_queue(p))' = Queued(request_queue(p))
          /\ Queued(reply_queue(p))' = Queued(reply_queue(p))
      BY <1>4, <2>1
    <2> QED BY <1>4, <1>5, <2>1, <2>2 DEF Lines
  <1> HIDE DEF q
  <1> QED BY <1>0, <1>2, <1>4, <1>5, <1>6, PreparedHome

(* The queues stay as they are.                                            *)
LEMMA QueuesKept ==
    ASSUME UNCHANGED queue
    PROVE  \A p : Queued(free_queue(p))' = Queued(free_queue(p)) /\ Lines(p)' = Lines(p)
  BY DEF Queued, Lines

(* A request from request_h.                                               *)
LEMMA GetAllocHome ==
    ASSUME IInv, HomeInv, NEW t \in Threads, GetAlloc(t)
    PROVE  HomeInv'
  <1>0. Call(t) \/ Step(t)
    BY DEF Step
  <1>1. At(t, "get_alloc") /\ op[t].port \in Ports /\ ~Putting(t) /\ UNCHANGED <<queue, max>>
    BY DEF GetAlloc, At, HomeInv, Charges, Putting
  <1>2. CASE alloc[PortOf[t]] < max[PortOf[t]] /\ objs # {}
    <2>1. PICK r \in objs : /\ objs' = objs \ {r} /\ home' = [home EXCEPT ![r] = PortOf[t]]
                            /\ Prepared(t, r, op[t].port)
      BY <1>1, <1>2 DEF GetAlloc, InitRequest
    <2>2. r \in Reqs /\ \A u \in Threads : r \notin held[u]
      BY DEF IInv, Places, Own, NoSharing
    <2>3. \A p \in Bound : r \notin Queued(free_queue(p)) /\ r \notin Lines(p)
      BY QueuesOf DEF IInv, Own, NoSharing, Lines
    <2>4. home'[r] = PortOf[t] /\ \A x \in Reqs : x # r => home'[x] = home[x]
      BY <2>1, <2>2 DEF IInv, SegmentTypes
    <2> QED BY <1>0, <1>1, <2>1, <2>2, <2>3, <2>4, QueuesKept, PreparedHome
  <1>3. CASE ~ (alloc[PortOf[t]] < max[PortOf[t]] /\ objs # {})
    <2>1. Return(t) /\ UNCHANGED <<objs, reqvars, held, history>>
      BY <1>3 DEF GetAlloc
    <2>2. op'[t] = Idle
      BY <2>1 DEF Return, IInv, CallTypes
    <2>3. Charges(t)'
      BY <1>1, <2>1, <2>2 DEF HomeInv, Charges, Putting, InLoop, Idle, Frame, reqvars, history
    <2> QED BY <1>0, <1>1, <2>1, <2>3, QueuesKept, HomesKept DEF reqvars, history
  <1> QED BY <1>2, <1>3

(* xseg_put_request goes by the source, which is the port charged.         *)
LEMMA PutHome ==
    ASSUME IInv, HomeInv, NEW t \in Threads, NEW r \in Reqs, Put(t, r)
    PROVE  HomeInv'
  <1>0. Call(t) \/ Step(t)
    BY DEF Call
  <1>1. /\ At(t, "idle") /\ r \in held[t] /\ StartPut(t, r)
        /\ UNCHANGED <<objs, queue, max, held, home>>
    BY DEF Put, segvars
  <1>2. /\ via[r] # "none" /\ home[r] = src[r]
        /\ \A x \in held[t] : x \in Reqs /\ via[x] # "none"
    BY <1>1 DEF HomeInv, Charges, InUse, Putting, At, IInv, Places
  <1>3. /\ via'[r] = "none"
        /\ \A x \in Reqs : x # r => src'[x] = src[x] /\ via'[x] = via[x]
    BY <1>1 DEF StartPut, IInv, RequestTypes
  <1>4. op'[t] = Frame("put_free", r, src[r], 0)
    BY <1>1 DEF StartPut, IInv, CallTypes
  <1>5. op'[t].at = "put_free" /\ op'[t].req = r /\ op'[t].port = src[r]
    BY <1>4 DEF Frame
  <1>6. Charges(t)'
    BY <1>1, <1>2, <1>3, <1>5 DEF Charges, Putting, InLoop
  <1>7. InUse(r)'
    BY <1>3 DEF InUse
  <1>8. /\ \A u \in Threads : u # t => r \notin held[u]
        /\ r \notin objs /\ \A p \in Bound : r \notin Queued(free_queue(p)) /\ r \notin Lines(p)
    BY <1>1, QueuesOf DEF IInv, Own, NoSharing, Lines
  <1> QED BY <1>0, <1>1, <1>3, <1>6, <1>7, <1>8, QueuesKept, HomeOfOne

LEMMA PutFreeHome ==
    ASSUME IInv, HomeInv, NEW t \in Threads, PutFree(t)
    PROVE  HomeInv'
  <1>0. Call(t) \/ Step(t)
    BY DEF Step
  <1>1. PICK r, p : r = op[t].req /\ p = op[t].port
    OBVIOUS
  <1> DEFINE q == free_queue(p)
  <1>2. /\ r \in held[t] /\ r \in Reqs /\ p \in Bound /\ q \in PortQueues
        /\ home[r] = p /\ via[r] = "none" /\ Putting(t)
    BY <1>1, QueuesOf
       DEF IInv, Places, OpHolds, HoldsOf, PutFree, At, HomeInv, Charges, Putting
  <1>3. UNCHANGED <<objs, max, home, src, via>>
    BY DEF PutFree, reqvars, history
  <1>4. CASE Room(q)
    <2>1. /\ queue' = [queue EXCEPT ![q] = <<r>> \o @]
          /\ held' = [held EXCEPT ![t] = @ \ {r}] /\ Return(t)
      BY <1>1, <1>4 DEF PutFree, Drop
    <2>2. op'[t] = Idle /\ held'[t] = held[t] \ {r}
      BY <2>1 DEF Return, IInv, CallTypes, Places
    <2>3. Charges(t)'
      BY <1>1, <1>3, <2>2 DEF HomeInv, Charges, Putting, InLoop, Idle, Frame
    <2>4. r \notin Queued(q) /\ queue[q] \in Seq(Reqs) /\ IsInjective(queue[q])
      BY <1>2 DEF IInv, Places, Own, NoSharing
    <2>5. /\ <<r>> \o queue[q] \in Seq(Reqs) /\ IsInjective(<<r>> \o queue[q])
          /\ ToSet(<<r>> \o queue[q]) = Queued(q) \cup {r}
      BY <1>2, <2>4, ConsLemma DEF Queued
    <2>6. /\ Queued(q)' = Queued(q) \cup {r}
          /\ \A x \in PortQueues : x # q => Queued(x)' = Queued(x)
      BY <1>2, <2>1, <2>5, Filled DEF IInv
    <2>7. ASSUME NEW x \in Bound
          PROVE  /\ Queued(free_queue(x))' \subseteq Queued(free_queue(x)) \cup {r}
                 /\ r \in Queued(free_queue(x))' => p = x
                 /\ Lines(x)' = Lines(x) /\ r \notin Lines(x)
      <3>1. /\ free_queue(x) \in PortQueues /\ request_queue(x) \in PortQueues
            /\ reply_queue(x) \in PortQueues /\ request_queue(x) # q /\ reply_queue(x) # q
            /\ free_queue(x) = q => x = p
        BY QueuesOf DEF request_queue, free_queue
      <3>2. /\ r \notin Queued(free_queue(x)) /\ r \notin Queued(request_queue(x))
            /\ r \notin Queued(reply_queue(x))
        BY <1>2, <3>1 DEF IInv, Own, NoSharing
      <3>3. /\ Queued(request_queue(x))' = Queued(request_queue(x))
            /\ Queued(reply_queue(x))' = Queued(reply_queue(x))
        BY <2>6, <3>1
      <3> QED BY <2>6, <3>1, <3>2, <3>3 DEF Lines
    <2>8. \A u \in Threads : u # t => r \notin held[u]
      BY <1>2 DEF IInv, Own, NoSharing
    <2>9. InUse(r)' /\ r \notin objs
      BY <1>2, <1>3 DEF InUse, IInv, Own, NoSharing
    <2> HIDE DEF q
    <2> QED BY <1>0, <1>2, <1>3, <2>3, <2>7, <2>8, <2>9, HomeOfOne
  <1>5. CASE ~ Room(q)
    <2>1. Goto(t, "put_obj") /\ UNCHANGED <<queue, held>>
      BY <1>1, <1>5 DEF PutFree
    <2>2. op'[t].at = "put_obj" /\ op'[t].req = r /\ op'[t].port = p
      BY <1>1, <2>1 DEF Goto, IInv, CallTypes
    <2>3. Charges(t)'
      BY <1>1, <1>2, <1>3, <2>1, <2>2 DEF HomeInv, Charges, Putting, InLoop
    <2> QED BY <1>0, <1>3, <2>1, <2>3, QueuesKept, HomesKept
  <1> QED BY <1>4, <1>5

(* Back in request_h the request is charged to nobody.                     *)
LEMMA PutObjHome ==
    ASSUME IInv, HomeInv, NEW t \in Threads, PutObj(t)
    PROVE  HomeInv'
  <1>0. Call(t) \/ Step(t)
    BY DEF Step
  <1>1. PICK r : r = op[t].req
    OBVIOUS
  <1>2. r \in held[t] /\ r \in Reqs /\ via[r] = "none" /\ Putting(t)
    BY <1>1 DEF IInv, Places, OpHolds, HoldsOf, PutObj, At, HomeInv, Charges, Putting
  <1>3. /\ objs' = objs \cup {r} /\ held' = [held EXCEPT ![t] = @ \ {r}]
        /\ home' = [home EXCEPT ![r] = NoPort] /\ Goto(t, "put_dec")
        /\ UNCHANGED <<queue, max, src, via>>
    BY <1>1 DEF PutObj, Drop, reqvars
  <1>4. op'[t].at = "put_dec" /\ held'[t] = held[t] \ {r}
    BY <1>3 DEF Goto, IInv, CallTypes, Places
  <1>5. Charges(t)'
    BY <1>1, <1>3, <1>4 DEF HomeInv, Charges, Putting, InLoop
  <1>6. home'[r] = NoPort /\ \A x \in Reqs : x # r => home'[x] = home[x]
    BY <1>2, <1>3 DEF IInv, SegmentTypes
  <1>7. /\ \A u \in Threads : u # t => r \notin held[u]
        /\ \A p \in Bound : r \notin Queued(free_queue(p)) /\ r \notin Lines(p)
    BY <1>2, QueuesOf DEF IInv, Own, NoSharing, Lines
  <1>8. InUse(r)'
    BY <1>2, <1>3 DEF InUse
  <1> QED BY <1>0, <1>2, <1>3, <1>5, <1>6, <1>7, <1>8, QueuesKept, HomeOfOne

(* A request goes from a queue of its port to a thread, or the other way.  *)
LEMMA TakenHome ==
    ASSUME IInv, HomeInv, NEW t \in Threads, Accept(t) \/ Receive(t)
    PROVE  HomeInv'
  <1>0. Call(t) \/ Step(t)
    BY DEF Call
  <1>1. PICK q \in {request_queue(PortOf[t]), reply_queue(PortOf[t])} :
          /\ queue[q] # <<>> /\ queue' = [queue EXCEPT ![q] = Tail(@)]
          /\ q = request_queue(PortOf[t]) => Accept(t)
          /\ q = reply_queue(PortOf[t]) => Receive(t)
    BY DEF Accept, Receive, request_queue, reply_queue
  <1>2. PICK r : r = Head(queue[q])
    OBVIOUS
  <1>3. PortOf[t] \in Bound /\ q \in PortQueues /\ At(t, "idle")
    BY <1>1, PortsAssumption, QueuesOf DEF Accept, Receive
  <1>4. /\ r \in Queued(q) /\ r \in Reqs /\ Queued(q)' = Queued(q) \ {r}
        /\ \A p \in PortQueues : p # q => Queued(p)' = Queued(p)
    BY <1>1, <1>2, <1>3, Popped DEF IInv
  <1>5. q = reply_queue(PortOf[t]) => path[r] # <<>>
    BY <1>3, <1>4 DEF IInv, ReplyHasItsPort
  <1>6. /\ via' = [via EXCEPT ![r] = "accept"] \/ via' = [via EXCEPT ![r] = "receive"]
        /\ held' = [held EXCEPT ![t] = @ \cup {r}]
        /\ UNCHANGED <<objs, max, src, op, home>>
    <2>1. CASE q = request_queue(PortOf[t])
      BY <1>1, <1>2, <2>1 DEF Accept, Hold
    <2>2. CASE q = reply_queue(PortOf[t])
      BY <1>1, <1>2, <1>5, <2>2 DEF Receive, Hold
    <2> QED BY <2>1, <2>2
  <1>7. r \in Lines(PortOf[t])
    BY <1>1, <1>4 DEF Lines
  <1>8. via[r] # "none" /\ home[r] = src[r] /\ \A x \in held[t] : x \in Reqs /\ via[x] # "none"
    BY <1>3, <1>4, <1>7
       DEF HomeInv, Charged_q, InUse, Charges, Putting, At, IInv, Places
  <1>9. via'[r] # "none" /\ \A x \in Reqs : x # r => via'[x] = via[x]
    BY <1>4, <1>6 DEF IInv, RequestTypes
  <1>10. InUse(r)' /\ held'[t] = held[t] \cup {r} /\ op'[t] = op[t]
    BY <1>6, <1>8 DEF InUse, IInv, Places
  <1>11. Charges(t)'
    BY <1>3, <1>8, <1>9, <1>10 DEF Charges, Putting, InLoop, At
  <1>12. ASSUME NEW p \in Bound
         PROVE  /\ Queued(free_queue(p))' \subseteq Queued(free_queue(p))
                /\ r \notin Queued(free_queue(p)) /\ Lines(p)' \subseteq Lines(p)
    <2>1. /\ free_queue(p) \in PortQueues /\ request_queue(p) \in PortQueues
          /\ reply_queue(p) \in PortQueues /\ free_queue(p) # q
      BY QueuesOf DEF request_queue, free_queue, reply_queue
    <2>2. /\ Queued(free_queue(p))' = Queued(free_queue(p))
          /\ Queued(request_queue(p))' \subseteq Queued(request_queue(p))
          /\ Queued(reply_queue(p))' \subseteq Queued(reply_queue(p))
      BY <1>4, <2>1
    <2>3. r \notin Queued(free_queue(p))
      BY <1>3, <1>4, <2>1 DEF IInv, Own, NoSharing
    <2> QED BY <2>2, <2>3 DEF Lines
  <1>13. r \notin objs /\ \A u \in Threads : r \notin held[u]
    BY <1>3, <1>4 DEF IInv, Own, NoSharing
  <1> QED BY <1>0, <1>4, <1>6, <1>9, <1>10, <1>11, <1>12, <1>13, HomeOfOne

LEMMA HandedHome ==
    ASSUME IInv, HomeInv, NEW t \in Threads, Call(t) \/ Step(t), NEW r \in held[t],
           NEW p \in Bound, NEW q \in {request_queue(p), reply_queue(p)},
           Enqueue(q, r), Drop(t, r), Return(t), ~Putting(t), UNCHANGED <<objs, max, src, via, home>>
    PROVE  HomeInv'
  <1>1. q \in PortQueues /\ r \in Reqs
    BY QueuesOf DEF IInv, Places
  <1>2. /\ Queued(q)' = Queued(q) \cup {r}
        /\ \A x \in PortQueues : x # q => Queued(x)' = Queued(x)
    BY <1>1, EnqueueLemma
  <1>3. via[r] # "none" /\ \A x \in held[t] : via[x] # "none"
    BY DEF HomeInv, Charges
  <1>4. op'[t] = Idle /\ held'[t] = held[t] \ {r}
    BY DEF Return, Drop, IInv, CallTypes, Places
  <1>5. Charges(t)'
    BY <1>3, <1>4 DEF Charges, Putting, InLoop, Idle, Frame
  <1>6. InUse(r)'
    BY <1>1 DEF HomeInv, InUse
  <1>7. ASSUME NEW x \in Bound
        PROVE  /\ Queued(free_queue(x))' \subseteq Queued(free_queue(x))
               /\ r \notin Queued(free_queue(x)) /\ Lines(x)' \subseteq Lines(x) \cup {r}
    <2>1. /\ free_queue(x) \in PortQueues /\ request_queue(x) \in PortQueues
          /\ reply_queue(x) \in PortQueues /\ free_queue(x) # q
      BY QueuesOf DEF request_queue, free_queue, reply_queue
    <2>2. /\ Queued(free_queue(x))' = Queued(free_queue(x))
          /\ Queued(request_queue(x))' \subseteq Queued(request_queue(x)) \cup {r}
          /\ Queued(reply_queue(x))' \subseteq Queued(reply_queue(x)) \cup {r}
      BY <1>2, <2>1
    <2>3. r \notin Queued(free_queue(x))
      BY <2>1 DEF IInv, Own, NoSharing
    <2> QED BY <2>2, <2>3 DEF Lines
  <1>8. r \notin objs /\ \A u \in Threads : u # t => r \notin held[u]
    BY DEF IInv, Own, NoSharing
  <1> QED BY <1>1, <1>3, <1>5, <1>6, <1>7, <1>8, HomeOfOne

LEMMA SubmitQueueHome ==
    ASSUME IInv, HomeInv, NEW t \in Threads, SubmitQueue(t)
    PROVE  HomeInv'
  <1>0. Call(t) \/ Step(t)
    BY DEF Step
  <1>1. PICK r, p : r = op[t].req /\ p = op[t].port
    OBVIOUS
  <1>2. r \in held[t] /\ p \in Bound /\ ~Putting(t)
    BY <1>1, PortsAssumption DEF IInv, OpHolds, HoldsOf, SubmitQueue, At, Putting
  <1>3. Return(t) /\ UNCHANGED <<objs, max, src, via, home>>
    BY DEF SubmitQueue
  <1>4. CASE Enqueue(request_queue(p), r) /\ Drop(t, r)
    BY <1>0, <1>2, <1>3, <1>4, HandedHome
  <1>5. CASE UNCHANGED <<queue, held>>
    <2>1. op'[t] = Idle
      BY <1>3 DEF Return, IInv, CallTypes
    <2>2. Charges(t)'
      BY <1>2, <1>3, <1>5, <2>1 DEF HomeInv, Charges, Putting, InLoop, Idle, Frame
    <2> QED BY <1>0, <1>3, <1>5, <2>2, QueuesKept, HomesKept
  <1> QED BY <1>1, <1>4, <1>5 DEF SubmitQueue

LEMMA RespondQueueHome ==
    ASSUME IInv, HomeInv, NEW t \in Threads, RespondQueue(t)
    PROVE  HomeInv'
  <1>0. Call(t) \/ Step(t)
    BY DEF Step
  <1>1. PICK r, d : r = op[t].req /\ d = Head(path[r])
    OBVIOUS
  <1>2. r \in held[t] /\ ~Putting(t)
    BY <1>1 DEF IInv, OpHolds, HoldsOf, RespondQueue, At, Putting
  <1>3. UNCHANGED <<objs, max, src, via, home>>
    BY DEF RespondQueue
  <1>4. CASE d \in Bound /\ Enqueue(reply_queue(d), r) /\ Drop(t, r) /\ Return(t)
    BY <1>0, <1>2, <1>3, <1>4, HandedHome
  <1>5. CASE UNCHANGED <<queue, held>> /\ (Return(t) \/ UNCHANGED op)
    <2>1. op'[t] = Idle \/ op'[t] = op[t]
      BY <1>5 DEF Return, IInv, CallTypes
    <2>2. Charges(t)'
      BY <1>2, <1>3, <1>5, <2>1 DEF HomeInv, Charges, Putting, InLoop, Idle, Frame
    <2> QED BY <1>0, <1>3, <1>5, <2>2, QueuesKept, HomesKept
  <1> QED BY <1>1, <1>4, <1>5 DEF RespondQueue

(* The rest charges nobody.                                                *)
LEMMA OthersHome ==
    ASSUME AdminOps = {}, Dsts \subseteq Ports, IInv, HomeInv, NEW t \in Threads,
           \/ \E d \in Dsts : GetMiss(t, d)
           \/ \E r \in Reqs : \/ Submit(t, r) \/ Respond(t, r)
                              \/ \E d \in Dsts : Forward(t, r, d)
           \/ \E n \in Counts : \/ AllocRequests(t, n) \/ FreeRequests(t, n)
                                \/ SetFreequeueSize(t, n) \/ SetMaxRequests(t, n)
           \/ \E hop \in Hops : SetPathNext(t, hop)
           \/ PutDec(t) \/ Discover(t)
           \/ AllocTurn(t) \/ FreeTurn(t) \/ FreeDec(t) \/ ResizeTurn(t)
    PROVE  HomeInv'
  <1> USE DEF reqvars, segvars, thvars, history
  <1>0. Call(t) \/ Step(t)
    BY DEF Call, Step
  <1>1. /\ ~(AllocTurn(t) \/ FreeTurn(t) \/ FreeDec(t) \/ ResizeTurn(t))
        /\ \A n : ~(\/ AllocRequests(t, n) \/ FreeRequests(t, n)
                    \/ SetFreequeueSize(t, n) \/ SetMaxRequests(t, n))
    BY DEF HomeInv, Charges, InLoop, AllocTurn, FreeTurn, FreeDec, ResizeTurn, At,
           AllocRequests, FreeRequests, SetFreequeueSize, SetMaxRequests
  <1>2. op \in [Threads -> [at : Labels, req : Reqs \cup {NoReq}, i : Nat, nr : Nat,
                            port : Ports \cup {NoPort} \cup Dsts]]
    BY DEF IInv, CallTypes
  <1>3. UNCHANGED <<src, via, home, max, objs, queue, held>> /\ ~Putting(t)
    BY <1>1 DEF GetMiss, Submit, Respond, Forward, MaySubmit, StartSubmit, SetPathNext, PutDec,
           Discover, At, Putting
  <1>4. /\ op'[t].at \in {"idle", "get_alloc", "discover", "submit", "respond"}
        /\ op'[t].at = "get_alloc" => op'[t].port \in Ports
    <2>1. ASSUME NEW d \in Dsts, GetMiss(t, d)
          PROVE  op'[t].at = "get_alloc" /\ op'[t].port \in Ports
      BY <1>2, <2>1 DEF GetMiss, Frame
    <2>2. ASSUME NEW r \in Reqs, \/ Submit(t, r) \/ Respond(t, r)
                                 \/ \E d \in Dsts : Forward(t, r, d)
          PROVE  op'[t].at \in {"discover", "respond"}
      BY <1>2, <2>2 DEF Submit, Respond, Forward, StartSubmit, Frame
    <2>3. ASSUME PutDec(t) \/ Discover(t) PROVE op'[t].at \in {"idle", "discover", "submit"}
      BY <1>2, <2>3 DEF PutDec, Discover, Return, Idle, Frame
    <2>4. ASSUME NEW hop \in Hops, SetPathNext(t, hop) PROVE op'[t].at = "idle"
      BY <1>2, <2>4 DEF SetPathNext, At
    <2> QED BY <1>1, <2>1, <2>2, <2>3, <2>4
  <1>5. Charges(t)'
    BY <1>3, <1>4 DEF HomeInv, Charges, Putting, InLoop
  <1> QED BY <1>0, <1>3, <1>5, QueuesKept, HomesKept

LEMMA NextHomeInv ==
    ASSUME AdminOps = {}, Dsts \subseteq Ports, IInv, HomeInv, [Next]_vars PROVE HomeInv'
  <1>1. ASSUME NEW t \in Threads, Call(t) PROVE HomeInv'
    BY <1>1, GetFreeHome, PutHome, TakenHome, OthersHome DEF Call
  <1>2. ASSUME NEW t \in Threads, Step(t) PROVE HomeInv'
    BY <1>2, GetAllocHome, PutFreeHome, PutObjHome, SubmitQueueHome, RespondQueueHome,
       OthersHome DEF Step
  <1>3. CASE UNCHANGED vars
    <2>1. UNCHANGED <<src, via, held, queue, op, objs, home, max>>
      BY <1>3 DEF vars, segvars, reqvars, thvars, history
    <2> QED BY <2>1
           DEF HomeInv, InUse, Charges, Charged_q, Charged_o, Limits, Putting, InLoop, Lines, Queued
  <1> QED BY <1>1, <1>2, <1>3 DEF Next

(* A request is charged, or given back, or the counter follows.            *)
LEMMA ChargeOne ==
    ASSUME AdminOps = {}, IsFiniteSet(Reqs), IsFiniteSet(Threads), IInv, HomeInv, AllocReqsExact,
           NEW t \in Threads, GetAlloc(t)
    PROVE  AllocReqsExact'
  <1>0. Call(t) \/ Step(t)
    BY DEF Step
  <1>1. PICK p \in Bound : p = PortOf[t]
    BY PortsAssumption
  <1>2. At(t, "get_alloc") /\ op[t].port \in Ports
    BY DEF GetAlloc, At, HomeInv, Charges
  <1>3. CASE alloc[p] < max[p] /\ objs # {}
    <2>1. PICK r \in objs : /\ home' = [home EXCEPT ![r] = p]
                            /\ alloc' = [alloc EXCEPT ![p] = (@ + 1) % AllocMod]
                            /\ Prepared(t, r, op[t].port)
      BY <1>1, <1>2, <1>3 DEF GetAlloc, InitRequest
    <2>2. r \in Reqs /\ home[r] = NoPort /\ p # NoPort
      BY <1>1, PortsAssumption DEF IInv, Places, HomeInv, Charged_o
    <2>3. /\ Charged(p)' = Charged(p) \cup {r} /\ r \notin Charged(p)
          /\ \A x \in Bound : x # p => Charged(x)' = Charged(x)
      BY <2>1, <2>2, PortsAssumption DEF Charged, IInv, SegmentTypes
    <2>4. IsFiniteSet(Charged(p))
      BY FS_Subset DEF Charged
    <2>5. Cardinality(Charged(p)') = Cardinality(Charged(p)) + 1 /\ Cardinality(Charged(p)) \in Nat
      BY <2>3, <2>4, FS_AddElement, FS_CardinalityType
    <2>6. alloc[p] + 1 \in 0..AllocMod-1
      BY <1>3, SizesAssumption DEF HomeInv, Limits, IInv, SegmentTypes
    <2>7. alloc'[p] = alloc[p] + 1 /\ \A x \in Bound : x # p => alloc'[x] = alloc[x]
      <3>1. (alloc[p] + 1) % AllocMod = alloc[p] + 1
        BY <2>6, SizesAssumption
      <3> QED BY <2>1, <3>1 DEF IInv, SegmentTypes
    <2>8. \A x \in Bound : Decs(x)' = Decs(x)
      <3>1. op'[t].at = "idle" /\ \A u \in Threads : u # t => op'[u] = op[u]
        BY <1>0, <2>1, OwnCall DEF Prepared, Return, Idle, Frame, IInv, CallTypes
      <3> QED BY <1>2, <3>1 DEF Decs, At
    <2>9. \A x \in Bound : Cardinality(Decs(x)) \in Nat
      BY FS_Subset, FS_CardinalityType DEF Decs
    <2>10. \A x \in Bound : alloc[x] = Cardinality(Charged(x)) + Cardinality(Decs(x))
      BY DEF AllocReqsExact, Decs
    <2>11. ASSUME NEW x \in Bound
           PROVE  alloc'[x] = Cardinality(Charged(x)') + Cardinality(Decs(x)')
      <3>1. CASE x = p
        BY <2>5, <2>7, <2>8, <2>9, <2>10, <3>1
      <3>2. CASE x # p
        BY <2>3, <2>7, <2>8, <2>10, <3>2
      <3> QED BY <3>1, <3>2
    <2> QED BY <2>11 DEF AllocReqsExact, Decs
  <1>4. CASE ~ (alloc[p] < max[p] /\ objs # {})
    <2>1. Return(t) /\ UNCHANGED <<alloc, home>>
      BY <1>1, <1>4 DEF GetAlloc, history
    <2>2. ~At(t, "put_dec") /\ ~At(t, "put_dec")'
      BY <1>2, <2>1 DEF At, Return, Idle, Frame, IInv, CallTypes
    <2> QED BY <1>0, <2>1, <2>2, CountKept
  <1> QED BY <1>3, <1>4

LEMMA GiveBackOne ==
    ASSUME IsFiniteSet(Reqs), IsFiniteSet(Threads), IInv, HomeInv, AllocReqsExact,
           NEW t \in Threads, PutObj(t)
    PROVE  AllocReqsExact'
  <1>0. Call(t) \/ Step(t)
    BY DEF Step
  <1>1. PICK r, p : r = op[t].req /\ p = op[t].port
    OBVIOUS
  <1>2. /\ r \in Reqs /\ p \in Bound /\ home[r] = p /\ At(t, "put_obj")
    BY <1>1 DEF IInv, Places, OpHolds, HoldsOf, PutObj, At, HomeInv, Charges, Putting
  <1>3. home' = [home EXCEPT ![r] = NoPort] /\ Goto(t, "put_dec") /\ UNCHANGED alloc
    BY <1>1 DEF PutObj
  <1>4. /\ Charged(p)' = Charged(p) \ {r} /\ r \in Charged(p)
        /\ \A x \in Bound : x # p => Charged(x)' = Charged(x)
    BY <1>2, <1>3, PortsAssumption DEF Charged, IInv, SegmentTypes
  <1>5. /\ Decs(p)' = Decs(p) \cup {t} /\ t \notin Decs(p)
        /\ \A x \in Bound : x # p => Decs(x)' = Decs(x)
    <2>1. /\ op'[t].at = "put_dec" /\ op'[t].port = p
          /\ \A u \in Threads : u # t => op'[u] = op[u]
      BY <1>0, <1>1, <1>3, OwnCall DEF Goto, IInv, CallTypes
    <2> QED BY <1>2, <2>1 DEF Decs, At
  <1>6. IsFiniteSet(Charged(p)) /\ IsFiniteSet(Decs(p))
    BY FS_Subset DEF Charged, Decs
  <1>7. /\ Cardinality(Charged(p)') = Cardinality(Charged(p)) - 1
        /\ Cardinality(Charged(p)) \in Nat
    BY <1>4, <1>6, FS_RemoveElement, FS_CardinalityType
  <1>8. Cardinality(Decs(p)') = Cardinality(Decs(p)) + 1 /\ Cardinality(Decs(p)) \in Nat
    BY <1>5, <1>6, FS_AddElement, FS_CardinalityType
  <1>9. \A x \in Bound : alloc[x] = Cardinality(Charged(x)) + Cardinality(Decs(x))
    BY DEF AllocReqsExact, Decs
  <1>10. ASSUME NEW x \in Bound
         PROVE  alloc'[x] = Cardinality(Charged(x)') + Cardinality(Decs(x)')
    <2>1. CASE x = p
      BY <1>3, <1>7, <1>8, <1>9, <2>1
    <2>2. CASE x # p
      BY <1>3, <1>4, <1>5, <1>9, <2>2
    <2> QED BY <2>1, <2>2
  <1> QED BY <1>10 DEF AllocReqsExact, Decs

LEMMA CountDown ==
    ASSUME IsFiniteSet(Reqs), IsFiniteSet(Threads), IInv, AllocReqsExact,
           NEW t \in Threads, PutDec(t)
    PROVE  AllocReqsExact'
  <1>0. Call(t) \/ Step(t)
    BY DEF Step
  <1>1. PICK p : p = op[t].port
    OBVIOUS
  <1>2. p \in Bound /\ At(t, "put_dec")
    BY <1>1 DEF IInv, OpHolds, HoldsOf, PutDec, At
  <1>3. /\ alloc' = [alloc EXCEPT ![p] = (@ - 1) % AllocMod] /\ Return(t)
        /\ UNCHANGED home
    BY <1>1 DEF PutDec, history
  <1>4. /\ Decs(p)' = Decs(p) \ {t} /\ t \in Decs(p)
        /\ \A x \in Bound : x # p => Decs(x)' = Decs(x)
    <2>1. op'[t].at = "idle" /\ \A u \in Threads : u # t => op'[u] = op[u]
      BY <1>0, <1>3, OwnCall DEF Return, Idle, Frame, IInv, CallTypes
    <2> QED BY <1>1, <1>2, <2>1 DEF Decs, At
  <1>5. IsFiniteSet(Charged(p)) /\ IsFiniteSet(Decs(p)) /\ IsFiniteSet(Decs(p)')
    BY <1>4, FS_Subset DEF Charged, Decs
  <1>6. /\ Cardinality(Decs(p)') = Cardinality(Decs(p)) - 1
        /\ Cardinality(Decs(p)) \in Nat /\ Cardinality(Charged(p)) \in Nat
        /\ Cardinality(Decs(p)') \in Nat
    BY <1>4, <1>5, FS_RemoveElement, FS_CardinalityType
  <1>7. \A x \in Bound : alloc[x] = Cardinality(Charged(x)) + Cardinality(Decs(x))
    BY DEF AllocReqsExact, Decs
  <1>8. alloc[p] - 1 \in 0..AllocMod-1
    <2>1. alloc[p] \in 0..AllocMod-1 /\ alloc[p] >= 1
      BY <1>2, <1>6, <1>7 DEF IInv, SegmentTypes
    <2> QED BY <2>1, SizesAssumption
  <1>9. alloc'[p] = alloc[p] - 1 /\ \A x \in Bound : x # p => alloc'[x] = alloc[x]
    <2>1. (alloc[p] - 1) % AllocMod = alloc[p] - 1
      BY <1>8, SizesAssumption
    <2> QED BY <1>2, <1>3, <2>1 DEF IInv, SegmentTypes
  <1>10. \A x \in Bound : Charged(x)' = Charged(x)
    BY <1>3 DEF Charged
  <1>11. ASSUME NEW x \in Bound
         PROVE  alloc'[x] = Cardinality(Charged(x)') + Cardinality(Decs(x)')
    <2>1. CASE x = p
      BY <1>6, <1>7, <1>9, <1>10, <2>1
    <2>2. CASE x # p
      BY <1>4, <1>7, <1>9, <1>10, <2>2
    <2> QED BY <2>1, <2>2
  <1> QED BY <1>11 DEF AllocReqsExact, Decs

LEMMA NextExact ==
    ASSUME AdminOps = {}, Dsts \subseteq Ports, IsFiniteSet(Reqs), IsFiniteSet(Threads),
           IInv, HomeInv, AllocReqsExact, [Next]_vars
    PROVE  AllocReqsExact'
  <1> USE DEF reqvars, segvars, thvars, history
  <1>1. op \in [Threads -> [at : Labels, req : Reqs \cup {NoReq}, i : Nat, nr : Nat,
                            port : Ports \cup {NoPort} \cup Dsts]]
    BY DEF IInv, CallTypes
  <1>2. ASSUME NEW t \in Threads, Call(t) PROVE AllocReqsExact'
    <2>1. \A n : ~(\/ AllocRequests(t, n) \/ FreeRequests(t, n)
                   \/ SetFreequeueSize(t, n) \/ SetMaxRequests(t, n))
      BY DEF AllocRequests, FreeRequests, SetFreequeueSize, SetMaxRequests
    <2>2. UNCHANGED <<home, alloc>> /\ At(t, "idle")
      BY <1>2, <2>1
         DEF Call, GetFree, GetMiss, Put, Submit, Respond, Forward, MaySubmit, StartSubmit,
             Accept, Receive, SetPathNext
    <2>3. ASSUME NEW d \in Dsts, GetFree(t, d) \/ GetMiss(t, d) PROVE op'[t].at # "put_dec"
      BY <1>1, <2>3
         DEF GetFree, GetMiss, InitRequest, Prepared, Refused, StartPut, Return, Idle, Frame
    <2>4. ASSUME NEW r \in Reqs, \/ Put(t, r) \/ Submit(t, r) \/ Respond(t, r)
                                 \/ \E d \in Dsts : Forward(t, r, d)
          PROVE  op'[t].at # "put_dec"
      BY <1>1, <2>4 DEF Put, Submit, Respond, Forward, StartPut, StartSubmit, Frame
    <2>5. ASSUME Accept(t) \/ Receive(t) \/ \E hop \in Hops : SetPathNext(t, hop)
          PROVE  op'[t].at # "put_dec"
      BY <1>1, <2>2, <2>5 DEF Accept, Receive, SetPathNext, At
    <2>6. op'[t].at # "put_dec"
      BY <1>2, <2>1, <2>3, <2>4, <2>5 DEF Call
    <2> QED BY <1>2, <2>2, <2>6, CountKept DEF At
  <1>3. ASSUME NEW t \in Threads, Step(t) PROVE AllocReqsExact'
    <2>1. ~(AllocTurn(t) \/ FreeTurn(t) \/ FreeDec(t) \/ ResizeTurn(t))
      BY DEF HomeInv, Charges, InLoop, AllocTurn, FreeTurn, FreeDec, ResizeTurn, At
    <2>2. ASSUME PutFree(t) \/ Discover(t) \/ SubmitQueue(t) \/ RespondQueue(t)
          PROVE  UNCHANGED <<home, alloc>> /\ ~At(t, "put_dec") /\ ~At(t, "put_dec")'
      <3>1. UNCHANGED <<home, alloc>> /\ ~At(t, "put_dec")
        BY <2>2 DEF PutFree, Discover, SubmitQueue, RespondQueue, At
      <3>2. CASE PutFree(t)
        BY <1>1, <3>1, <3>2 DEF PutFree, Return, Goto, Idle, Frame, At
      <3>3. CASE Discover(t)
        BY <1>1, <3>1, <3>3 DEF Discover, Return, Idle, Frame, At
      <3>4. CASE SubmitQueue(t)
        BY <1>1, <3>1, <3>4 DEF SubmitQueue, Return, Idle, Frame, At
      <3>5. CASE RespondQueue(t)
        BY <1>1, <3>1, <3>5 DEF RespondQueue, Return, Idle, Frame, At
      <3> QED BY <2>2, <3>1, <3>2, <3>3, <3>4, <3>5
    <2> QED BY <1>3, <2>1, <2>2, ChargeOne, GiveBackOne, CountDown, CountKept DEF Step
  <1>4. CASE UNCHANGED vars
    BY <1>4 DEF vars, AllocReqsExact, Charged, At
  <1> QED BY <1>2, <1>3, <1>4 DEF Next

(* alloc_reqs counts exactly the requests charged to a port, and those on  *)
(* their way through xseg_put_request to its decrement, whatever the       *)
(* interleaving of the two: it neither drifts nor wraps.                   *)
THEOREM AllocReqsCount ==
    ASSUME AdminOps = {}, Dsts \subseteq Ports, IsFiniteSet(Reqs), IsFiniteSet(Threads)
    PROVE  Spec => []AllocReqsExact
  <1>1. Init => HomeInv /\ AllocReqsExact
    <2> SUFFICES ASSUME Init PROVE AllocReqsExact
      BY InitHomeInv
    <2>1. \A p \in Bound : Charged(p) = {} /\ Decs(p) = {} /\ alloc[p] = 0
      BY PortsAssumption DEF Init, Charged, Decs, At, Idle, Frame
    <2>2. Cardinality({}) = 0
      BY FS_EmptySet
    <2>3. \A p \in Bound : alloc[p] = Cardinality(Charged(p)) + Cardinality(Decs(p))
      BY <2>1, <2>2
    <2> QED BY <2>3 DEF AllocReqsExact, Decs
  <1>2. IInv /\ HomeInv /\ AllocReqsExact /\ [Next]_vars => HomeInv' /\ AllocReqsExact'
    BY NextHomeInv, NextExact
  <1> QED BY <1>1, <1>2, Inductive, PTL DEF Spec
=============================================================================
