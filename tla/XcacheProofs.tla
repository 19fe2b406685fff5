----------------------------- MODULE XcacheProofs -----------------------------
(***************************************************************************)
(* The counts, the names and the free nodes of a cache that keeps its      *)
(* access times in an array, XCACHE_LRU_ARRAY, as Xcache has it, proved    *)
(* for any threads, names and size of the cache.                           *)
(***************************************************************************)
EXTENDS Xcache, SequenceTheorems, FiniteSetTheorems, TLAPS

Locked == {"lookup_rm", "insert", "insert_rm"}

CallRec == [pc : Locked \cup {"idle", "put", "free"},
            h : Nodes \cup {NoEntry}, re : Nodes \cup {NoEntry},
            puts : {<<>>} \cup {<<n>> : n \in Nodes}, todo : SUBSET Nodes]

TypeOK ==
    /\ rmtable \in BOOLEAN
    /\ node \in [Nodes -> [ref : Nat, name : Names \cup {NoName},
                           state : {"NODE_ACTIVE", "NODE_EVICTED"}]]
    /\ free_nodes \subseteq Nodes /\ entries \subseteq Nodes /\ rm_entries \subseteq Nodes
    /\ lru \in Seq(Nodes)
    /\ lock \in Threads \cup {NoThread}
    /\ call \in [Threads -> CallRec]
    /\ held \in [Threads -> [Nodes -> 0..MaxRefs]]
    /\ new \in [Threads -> Nodes \cup {NoEntry}]

(* What a call has in hand where it is.                                    *)
CallOK(t) ==
    /\ call[t].todo = {}
    /\ Idle(t) => call[t].h = NoEntry /\ call[t].re = NoEntry /\ call[t].puts = <<>>
    /\ call[t].pc \in {"put", "free"}
         => call[t].h = NoEntry /\ call[t].re = NoEntry /\ call[t].puts # <<>>
    /\ lock = t <=> call[t].pc \in Locked
    /\ call[t].pc \in Locked
         => /\ MayHold(t) /\ new[t] # NoEntry /\ call[t].h # NoEntry
            /\ \/ call[t].h = new[t] /\ call[t].re = NoEntry
               \/ call[t].h = call[t].re
    /\ At(t, "lookup_rm") => call[t].puts = <<>> /\ call[t].re = NoEntry /\ rmtable
    /\ At(t, "insert_rm") => call[t].puts # <<>> /\ rmtable

(* The access times are those of the entries, each of which has one.       *)
Timed == /\ \A n \in Nodes : n \in entries <=> \E i \in 1..Len(lru) : lru[i] = n
         /\ \A i, j \in 1..Len(lru) : lru[i] = lru[j] => i = j

Limits == Cardinality(entries) <= Size /\ (rm_entries # {} => rmtable)

NotNamed(table, n) == \A m \in table : node[m].name # node[n].name

(* While an insertion has the lock, nobody else brings its name into a     *)
(* table; nor that of the entry it has evicted.                            *)
Inserting(t) ==
    LET h == call[t].h
        v == Head(call[t].puts)
    IN  /\ At(t, "lookup_rm") => NotNamed(entries, h)
        /\ call[t].pc \in {"insert", "insert_rm"}
             => NotNamed(entries \cup rm_entries, h) /\ node[h].state = "NODE_ACTIVE"
        /\ call[t].pc \in {"insert", "insert_rm"} /\ call[t].puts # <<>> => Room(entries)
        /\ At(t, "insert_rm")
             => /\ NotNamed(entries \cup rm_entries, v) /\ node[v].state = "NODE_EVICTED"
                /\ node[h].name # node[v].name
                /\ Cardinality(entries) = Size - 1

(* A node to be inserted is known to its caller alone.                     *)
Fresh == \A t \in Threads : new[t] # NoEntry =>
           /\ new[t] \notin free_nodes \cup rm_entries
           /\ node[new[t]].ref = 1 /\ node[new[t]].state = "NODE_ACTIVE"

(* Nobody has a free node or is about to free it.                          *)
Spare == \A n \in free_nodes :
           /\ References(n) = {} /\ n \notin rm_entries
           /\ \A t \in Threads : call[t].puts # <<n>>

(* A node that is about to be freed is so by one thread.                   *)
Going == \A t \in Threads : At(t, "free") =>
           /\ node[Head(call[t].puts)].ref = 0
           /\ Head(call[t].puts) \notin free_nodes \cup rm_entries
           /\ \A u \in Threads : At(u, "free") /\ call[u].puts = call[t].puts => u = t

(* An evicted entry is in rm_entries for somebody who still has it.        *)
RmUsed == \A n \in rm_entries : node[n].ref # 0

(* With rm_entries, a node in use is in a table or on its way into one,    *)
(* unless its name was taken out.                                          *)
InPlace(n) ==
    \/ n \in free_nodes \cup entries \cup rm_entries
    \/ node[n].name \in dropped
    \/ \E t \in Threads : \/ new[t] = n \/ call[t].re = n
                          \/ call[t].puts = <<n>> /\ call[t].pc \in {"insert_rm", "free"}

Kept == rmtable => \A n \in Nodes : InPlace(n)

CallsOK == \A t \in Threads : CallOK(t)
Insertings == \A t \in Threads : Inserting(t)

IInv == /\ TypeOK /\ CallsOK /\ Timed /\ OneEntryPerName /\ Limits /\ Insertings
        /\ Fresh /\ Spare /\ Going /\ RmUsed /\ RefExact /\ Kept /\ NoLostNode

-----------------------------------------------------------------------------
(* References and how many they are.                                       *)

Slots == {<<NoThread, "entries", 0>>}
         \cup (Threads \X {"new", "put", "re"} \X {0})
         \cup (Threads \X {"held"} \X (1..MaxRefs))

HasPut(t, n) == ~ At(t, "free") /\ call[t].puts = <<n>>

(* There are fewer of them than a reference count can tell.                *)
LEMMA SlotsFit == IsFiniteSet(Slots) /\ Cardinality(Slots) \in Nat /\ Cardinality(Slots) < RefMod
  <1> DEFINE Whys  == {<<"new", 0>>, <<"put", 0>>, <<"re", 0>>}
             Helds == {"held"} \X (1..MaxRefs)
             Pairs == Threads \X (Whys \cup Helds)
             All   == Pairs \cup {<<NoThread, <<"entries", 0>>>>}
  <1>1. IsFiniteSet(Whys) /\ Cardinality(Whys) = 3
    <2>1. PICK a, b, c : a = <<"new", 0>> /\ b = <<"put", 0>> /\ c = <<"re", 0>>
      OBVIOUS
    <2>2. a # b /\ a # c /\ b # c
      BY <2>1
    <2>3. IsFiniteSet({a}) /\ Cardinality({a}) = 1
      BY FS_Singleton
    <2>4. IsFiniteSet({a} \cup {b}) /\ Cardinality({a} \cup {b}) = 2
      BY <2>2, <2>3, FS_AddElement
    <2>5. IsFiniteSet(({a} \cup {b}) \cup {c}) /\ Cardinality(({a} \cup {b}) \cup {c}) = 3
      BY <2>2, <2>4, FS_AddElement
    <2>6. Whys = ({a} \cup {b}) \cup {c}
      BY <2>1
    <2> QED BY <2>5, <2>6
  <1>2. IsFiniteSet(Helds) /\ Cardinality(Helds) = MaxRefs
    <2>1. IsFiniteSet(1..MaxRefs) /\ Cardinality(1..MaxRefs) = MaxRefs
      BY FS_Interval, RefsFit
    <2>2. IsFiniteSet({"held"}) /\ Cardinality({"held"}) = 1
      BY FS_Singleton
    <2>3. Cardinality(Helds) = 1 * MaxRefs /\ IsFiniteSet(Helds)
      BY <2>1, <2>2, FS_Product
    <2> QED BY <2>3, RefsFit
  <1>3. IsFiniteSet(Whys \cup Helds) /\ Cardinality(Whys \cup Helds) = MaxRefs + 3
    <2>1. Whys \cap Helds = {}
      OBVIOUS
    <2>2. Cardinality(Whys \cap Helds) = 0
      BY <2>1, FS_EmptySet
    <2> HIDE DEF Whys, Helds
    <2>3. Cardinality(Whys \cup Helds) = 3 + MaxRefs - 0 /\ IsFiniteSet(Whys \cup Helds)
      BY <1>1, <1>2, <2>2, FS_Union
    <2> QED BY <2>3, RefsFit
  <1>4. IsFiniteSet(Pairs) /\ Cardinality(Pairs) = Cardinality(Threads) * (MaxRefs + 3)
    <2> HIDE DEF Whys, Helds
    <2> QED BY <1>3, FS_Product, RefsFit
  <1>5. IsFiniteSet(All) /\ Cardinality(All) <= Cardinality(Pairs) + 1
        /\ Cardinality(All) \in Nat /\ Cardinality(Pairs) \in Nat
    <2> HIDE DEF Pairs
    <2>1. PICK e : e = <<NoThread, <<"entries", 0>>>>
      OBVIOUS
    <2>2. IsFiniteSet(Pairs \cup {e})
          /\ Cardinality(Pairs \cup {e}) = IF e \in Pairs THEN Cardinality(Pairs)
                                           ELSE Cardinality(Pairs) + 1
      BY <1>4, FS_AddElement
    <2>3. Cardinality(Pairs \cup {e}) \in Nat /\ Cardinality(Pairs) \in Nat
      BY <1>4, <2>2, FS_CardinalityType
    <2> QED BY <2>1, <2>2, <2>3
  <1> DEFINE f == [x \in Slots |-> <<x[1], <<x[2], x[3]>>>>]
  <1>6. \A x \in Slots : x = <<x[1], x[2], x[3]>> /\ <<x[1], <<x[2], x[3]>>>> \in All
    BY DEF Slots
  <1>7. f \in Injection(Slots, All)
    <2>1. f \in [Slots -> All]
      BY <1>6
    <2>2. \A x, y \in Slots : f[x] = f[y] => x = y
      BY <1>6
    <2> HIDE DEF f
    <2> QED BY <2>1, <2>2 DEF Injection, IsInjective
  <1>8. IsFiniteSet(Slots) /\ Cardinality(Slots) <= Cardinality(All)
    <2> HIDE DEF f, All
    <2> QED BY <1>5, <1>7, FS_Injection
  <1> HIDE DEF All, Pairs
  <1> QED BY <1>4, <1>5, <1>8, FS_CardinalityType, RefsFit

(* A reference is had for one of these reasons.                            *)
RefsTold(n) ==
    /\ References(n) \subseteq Slots
    /\ <<NoThread, "entries", 0>> \in References(n) <=> n \in entries
    /\ \A t \in Threads :
         /\ <<t, "new", 0>> \in References(n) <=> new[t] = n
         /\ <<t, "put", 0>> \in References(n) <=> HasPut(t, n)
         /\ <<t, "re", 0>> \in References(n) <=> call[t].re = n
         /\ \A k \in 1..MaxRefs : <<t, "held", k>> \in References(n) <=> k <= held[t][n]

LEMMA RefMember == TypeOK => \A n \in Nodes : RefsTold(n)
  <1> SUFFICES ASSUME TypeOK, NEW n \in Nodes PROVE RefsTold(n)
    OBVIOUS
  <1>1. \A t \in Threads : n \in Range(call[t].puts) <=> call[t].puts = <<n>>
    <2> SUFFICES ASSUME NEW t \in Threads
                 PROVE  n \in Range(call[t].puts) <=> call[t].puts = <<n>>
      OBVIOUS
    <2>1. call[t].puts = <<>> \/ \E m \in Nodes : call[t].puts = <<m>>
      BY DEF TypeOK, CallRec
    <2>2. CASE call[t].puts = <<>>
      BY <2>2 DEF Range
    <2>3. ASSUME NEW m \in Nodes, call[t].puts = <<m>>
          PROVE  n \in Range(call[t].puts) <=> call[t].puts = <<n>>
      BY <2>3 DEF Range
    <2> QED BY <2>1, <2>2, <2>3
  <1>2. References(n) \subseteq Slots
    BY DEF References, Slots
  <1>3. <<NoThread, "entries", 0>> \in References(n) <=> n \in entries
    BY NoneIsNone DEF References
  <1>4. ASSUME NEW t \in Threads
        PROVE  /\ <<t, "new", 0>> \in References(n) <=> new[t] = n
               /\ <<t, "put", 0>> \in References(n) <=> HasPut(t, n)
               /\ <<t, "re", 0>> \in References(n) <=> call[t].re = n
               /\ \A k \in 1..MaxRefs :
                    <<t, "held", k>> \in References(n) <=> k <= held[t][n]
    <2>1. <<t, "new", 0>> \in References(n) <=> new[t] = n
      BY DEF References
    <2>2. <<t, "put", 0>> \in References(n) <=> HasPut(t, n)
      BY <1>1 DEF References, HasPut
    <2>3. <<t, "re", 0>> \in References(n) <=> call[t].re = n
      BY DEF References
    <2>4. \A k \in 1..MaxRefs : <<t, "held", k>> \in References(n) <=> k <= held[t][n]
      BY DEF References
    <2> QED BY <2>1, <2>2, <2>3, <2>4
  <1> QED BY <1>2, <1>3, <1>4 DEF RefsTold

(* ... as well after a step.                                               *)
LEMMA RefMemberNext == TypeOK' => \A n \in Nodes : RefsTold(n)'
  <1>1. (TypeOK => \A n \in Nodes : RefsTold(n))'
    BY RefMember, PTL
  <1> QED BY <1>1

LEMMA RefsFinite ==
    ASSUME TypeOK, NEW n \in Nodes
    PROVE  /\ IsFiniteSet(References(n)) /\ Cardinality(References(n)) \in Nat
           /\ Cardinality(References(n)) < RefMod
  <1>1. References(n) \in SUBSET Slots
    BY RefMember DEF RefsTold
  <1>2. IsFiniteSet(References(n)) /\ Cardinality(References(n)) <= Cardinality(Slots)
    BY <1>1, SlotsFit, FS_Subset
  <1> QED BY <1>2, SlotsFit, FS_CardinalityType, RefsFit

LEMMA SlotKinds ==
    ASSUME NEW x \in Slots
    PROVE  \/ x = <<NoThread, "entries", 0>>
           \/ \E t \in Threads : x \in {<<t, "new", 0>>, <<t, "put", 0>>, <<t, "re", 0>>}
           \/ \E t \in Threads, k \in 1..MaxRefs : x = <<t, "held", k>>
  BY DEF Slots

(* What a thread has to do with a node.                                    *)
SameFor(u, n) == /\ new'[u] = n <=> new[u] = n
                 /\ HasPut(u, n)' <=> HasPut(u, n)
                 /\ call'[u].re = n <=> call[u].re = n
                 /\ held'[u][n] = held[u][n]

(* The references T of n after a step of t.                                *)
Becomes(t, n, T) ==
    /\ T \subseteq Slots
    /\ <<NoThread, "entries", 0>> \in T <=> n \in entries'
    /\ <<t, "new", 0>> \in T <=> new'[t] = n
    /\ <<t, "put", 0>> \in T <=> HasPut(t, n)'
    /\ <<t, "re", 0>> \in T <=> call'[t].re = n
    /\ \A k \in 1..MaxRefs : <<t, "held", k>> \in T <=> k <= held'[t][n]
    /\ \A u \in Threads \ {t} :
         /\ SameFor(u, n)
         /\ \A w \in {"new", "put", "re"} : <<u, w, 0>> \in T <=> <<u, w, 0>> \in References(n)
         /\ \A k \in 1..MaxRefs : <<u, "held", k>> \in T <=> <<u, "held", k>> \in References(n)

LEMMA RefsBecome ==
    ASSUME TypeOK, TypeOK', NEW t \in Threads, NEW n \in Nodes, NEW T, Becomes(t, n, T)
    PROVE  References(n)' = T
  <1>1. References(n)' \subseteq Slots /\ T \subseteq Slots
    BY RefMemberNext DEF Becomes, RefsTold
  <1>2. <<NoThread, "entries", 0>> \in References(n)' <=> <<NoThread, "entries", 0>> \in T
    BY RefMemberNext DEF Becomes, RefsTold
  <1>3. ASSUME NEW u \in Threads
        PROVE  /\ \A w \in {"new", "put", "re"} : <<u, w, 0>> \in References(n)' <=> <<u, w, 0>> \in T
               /\ \A k \in 1..MaxRefs : <<u, "held", k>> \in References(n)' <=> <<u, "held", k>> \in T
    <2>1. /\ <<u, "new", 0>> \in References(n)' <=> new'[u] = n
          /\ <<u, "put", 0>> \in References(n)' <=> HasPut(u, n)'
          /\ <<u, "re", 0>> \in References(n)' <=> call'[u].re = n
          /\ \A k \in 1..MaxRefs : <<u, "held", k>> \in References(n)' <=> k <= held'[u][n]
      BY RefMemberNext DEF RefsTold
    <2>2. CASE u = t
      BY <2>1, <2>2 DEF Becomes
    <2>3. CASE u # t
      <3>1. /\ <<u, "new", 0>> \in References(n) <=> new[u] = n
            /\ <<u, "put", 0>> \in References(n) <=> HasPut(u, n)
            /\ <<u, "re", 0>> \in References(n) <=> call[u].re = n
            /\ \A k \in 1..MaxRefs : <<u, "held", k>> \in References(n) <=> k <= held[u][n]
        BY RefMember DEF RefsTold
      <3> QED BY <2>1, <2>3, <3>1 DEF Becomes, SameFor
    <2> QED BY <2>2, <2>3
  <1>4. ASSUME NEW x \in Slots PROVE x \in References(n)' <=> x \in T
    <2>1. CASE x = <<NoThread, "entries", 0>>
      BY <1>2, <2>1
    <2>2. ASSUME NEW u \in Threads, x \in {<<u, "new", 0>>, <<u, "put", 0>>, <<u, "re", 0>>}
          PROVE  x \in References(n)' <=> x \in T
      BY <1>3, <2>2
    <2>3. ASSUME NEW u \in Threads, NEW k \in 1..MaxRefs, x = <<u, "held", k>>
          PROVE  x \in References(n)' <=> x \in T
      BY <1>3, <2>3
    <2> QED BY <2>1, <2>2, <2>3, SlotKinds
  <1> QED BY <1>1, <1>4

LEMMA SameRefs ==
    ASSUME TypeOK, TypeOK', NEW n \in Nodes, n \in entries' <=> n \in entries,
           \A u \in Threads : SameFor(u, n)
    PROVE  References(n)' = References(n)
  <1>1. References(n)' \subseteq Slots /\ References(n) \subseteq Slots
    BY RefMember, RefMemberNext DEF RefsTold
  <1>2. <<NoThread, "entries", 0>> \in References(n)' <=> <<NoThread, "entries", 0>> \in References(n)
    BY RefMember, RefMemberNext DEF RefsTold
  <1>3. ASSUME NEW u \in Threads
        PROVE  /\ \A w \in {"new", "put", "re"} :
                    <<u, w, 0>> \in References(n)' <=> <<u, w, 0>> \in References(n)
               /\ \A k \in 1..MaxRefs :
                    <<u, "held", k>> \in References(n)' <=> <<u, "held", k>> \in References(n)
    BY RefMember, RefMemberNext DEF SameFor, RefsTold
  <1>4. ASSUME NEW x \in Slots PROVE x \in References(n)' <=> x \in References(n)
    <2>1. CASE x = <<NoThread, "entries", 0>>
      BY <1>2, <2>1
    <2>2. ASSUME NEW u \in Threads, x \in {<<u, "new", 0>>, <<u, "put", 0>>, <<u, "re", 0>>}
          PROVE  x \in References(n)' <=> x \in References(n)
      BY <1>3, <2>2
    <2>3. ASSUME NEW u \in Threads, NEW k \in 1..MaxRefs, x = <<u, "held", k>>
          PROVE  x \in References(n)' <=> x \in References(n)
      BY <1>3, <2>3
    <2> QED BY <2>1, <2>2, <2>3, SlotKinds
  <1> QED BY <1>1, <1>4

Countable(n) == /\ IsFiniteSet(References(n)) /\ Cardinality(References(n)) \in Nat
                /\ Cardinality(References(n)) < RefMod

LEMMA RefsFiniteAll == TypeOK => \A n \in Nodes : Countable(n)
  BY RefsFinite DEF Countable

LEMMA RefsFiniteNext == TypeOK' => \A n \in Nodes : Countable(n)'
  <1>1. (TypeOK => \A n \in Nodes : Countable(n))'
    BY RefsFiniteAll, PTL
  <1> QED BY <1>1

(* The count after a reference is got, put, or changes hands.              *)
LEMMA Gained ==
    ASSUME TypeOK, TypeOK', RefExact, NEW n \in Nodes \ free_nodes,
           NEW a, a \notin References(n), References(n)' = References(n) \cup {a}
    PROVE  AddRef(node[n].ref, 1) = Cardinality(References(n)')
  <1>1. PICK S, c : S = References(n) /\ c = Cardinality(S)
    OBVIOUS
  <1>2. IsFiniteSet(S) /\ c \in Nat /\ node[n].ref = c
    BY <1>1, RefsFiniteAll DEF Countable, RefExact
  <1>3. Cardinality(S \cup {a}) = c + 1
    BY <1>1, <1>2, FS_AddElement
  <1>4. c + 1 < RefMod
    BY <1>1, <1>3, RefsFiniteNext DEF Countable
  <1>5. (c + 1) % RefMod = c + 1
    BY <1>2, <1>4, RefsFit
  <1> QED BY <1>1, <1>2, <1>3, <1>5 DEF AddRef

LEMMA Lost ==
    ASSUME TypeOK, RefExact, NEW n \in Nodes \ free_nodes,
           NEW a \in References(n), References(n)' = References(n) \ {a}
    PROVE  AddRef(node[n].ref, -1) = Cardinality(References(n)')
  <1>1. PICK S, c : S = References(n) /\ c = Cardinality(S)
    OBVIOUS
  <1>2. IsFiniteSet(S) /\ c \in Nat /\ node[n].ref = c /\ c < RefMod
    BY <1>1, RefsFiniteAll DEF Countable, RefExact
  <1>3. Cardinality(S \ {a}) = c - 1
    BY <1>1, <1>2, FS_RemoveElement
  <1>4. c # 0
    BY <1>1, <1>2, FS_EmptySet
  <1>5. (c + (-1)) % RefMod = c - 1
    BY <1>2, <1>4, RefsFit
  <1> QED BY <1>1, <1>2, <1>3, <1>5 DEF AddRef

LEMMA Swapped ==
    ASSUME TypeOK, RefExact, NEW n \in Nodes \ free_nodes,
           NEW a \in References(n), NEW b, b \notin References(n),
           References(n)' = (References(n) \ {a}) \cup {b}
    PROVE  node[n].ref = Cardinality(References(n)')
  <1>1. PICK S, c : S = References(n) /\ c = Cardinality(S)
    OBVIOUS
  <1>2. IsFiniteSet(S) /\ c \in Nat /\ node[n].ref = c
    BY <1>1, RefsFiniteAll DEF Countable, RefExact
  <1>3. IsFiniteSet(S \ {a}) /\ Cardinality(S \ {a}) = c - 1
    BY <1>1, <1>2, FS_RemoveElement
  <1>4. b \notin S \ {a}
    BY <1>1
  <1>5. Cardinality((S \ {a}) \cup {b}) = (c - 1) + 1
    BY <1>3, <1>4, FS_AddElement
  <1> QED BY <1>1, <1>2, <1>5

(* An insertion: the reference a of the node is now that of its place b,   *)
(* and the caller has another one.                                         *)
LEMMA SwappedGained ==
    ASSUME TypeOK, TypeOK', RefExact, NEW n \in Nodes \ free_nodes,
           NEW a \in References(n), NEW b, NEW c, b # c, b \notin References(n),
           c \notin References(n),
           References(n)' = ((References(n) \ {a}) \cup {b}) \cup {c}
    PROVE  AddRef(node[n].ref, 1) = Cardinality(References(n)')
  <1>1. PICK S, d : S = References(n) /\ d = Cardinality(S)
    OBVIOUS
  <1>2. IsFiniteSet(S) /\ d \in Nat /\ node[n].ref = d
    BY <1>1, RefsFiniteAll DEF Countable, RefExact
  <1>3. IsFiniteSet(S \ {a}) /\ Cardinality(S \ {a}) = d - 1
    BY <1>1, <1>2, FS_RemoveElement
  <1>4. b \notin S \ {a} /\ c \notin (S \ {a}) \cup {b}
    BY <1>1
  <1>5. IsFiniteSet((S \ {a}) \cup {b}) /\ Cardinality((S \ {a}) \cup {b}) = d
    <2>1. IsFiniteSet((S \ {a}) \cup {b}) /\ Cardinality((S \ {a}) \cup {b}) = (d - 1) + 1
      BY <1>3, <1>4, FS_AddElement
    <2> QED BY <1>2, <2>1
  <1>6. Cardinality(((S \ {a}) \cup {b}) \cup {c}) = d + 1
    BY <1>4, <1>5, FS_AddElement
  <1>7. d + 1 < RefMod
    BY <1>1, <1>6, RefsFiniteNext DEF Countable
  <1>8. (d + 1) % RefMod = d + 1
    BY <1>2, <1>7, RefsFit
  <1> QED BY <1>1, <1>2, <1>6, <1>8 DEF AddRef

LEMMA NoRef ==
    ASSUME TypeOK, RefExact, NEW n \in Nodes \ free_nodes
    PROVE  node[n].ref = 0 <=> References(n) = {}
  BY RefsFiniteAll, FS_EmptySet DEF Countable, RefExact

LEMMA OneRef ==
    ASSUME TypeOK, RefExact, NEW n \in Nodes \ free_nodes, node[n].ref = 1,
           NEW a \in References(n)
    PROVE  References(n) = {a}
  <1>1. IsFiniteSet(References(n)) /\ Cardinality(References(n)) = 1
    BY RefsFiniteAll DEF Countable, RefExact
  <1>2. PICK x : References(n) = {x}
    BY <1>1, FS_Singleton
  <1> QED BY <1>2

(* Nobody has to do with a node without references.                        *)
Untouched(n) ==
    /\ n \notin entries
    /\ \A u \in Threads : /\ new[u] # n /\ call[u].re # n /\ call[u].h # n
                          /\ ~ HasPut(u, n) /\ held[u][n] = 0

LEMMA NoRefUntouched ==
    ASSUME TypeOK, CallsOK, NEW n \in Nodes, References(n) = {}
    PROVE  Untouched(n)
  <1>1. n \notin entries
    BY RefMember DEF RefsTold
  <1>2. ASSUME NEW u \in Threads
        PROVE  new[u] # n /\ call[u].re # n /\ ~ HasPut(u, n) /\ held[u][n] = 0
    <2>1. new[u] # n /\ call[u].re # n /\ ~ HasPut(u, n)
      BY RefMember DEF RefsTold
    <2>2. held[u][n] \in 0..MaxRefs
      BY DEF TypeOK
    <2>3. 1 \in 1..MaxRefs => ~ (1 <= held[u][n])
      BY RefMember DEF RefsTold
    <2> QED BY <2>1, <2>2, <2>3, RefsFit
  <1>3. ASSUME NEW u \in Threads PROVE call[u].h # n
    <2>1. call[u].pc \in Locked \cup {"idle", "put", "free"}
      BY DEF TypeOK, CallRec
    <2>2. n # NoEntry
      BY NoneIsNone
    <2> QED BY <1>2, <2>1, <2>2 DEF CallsOK, CallOK, Idle, At, NoCall
  <1> QED BY <1>1, <1>2, <1>3 DEF Untouched

LEMMA MayHoldRoom ==
    ASSUME TypeOK, NEW t \in Threads, MayHold(t), NEW n \in Nodes
    PROVE  held[t][n] \in Nat /\ held[t][n] + 1 \in 1..MaxRefs
  <1> DEFINE All == {x \in Nodes \X (1..MaxRefs) : x[2] <= held[t][x[1]]}
             Its == {n} \X (1..MaxRefs)
  <1>1. held[t][n] \in 0..MaxRefs
    BY DEF TypeOK
  <1>2. held[t][n] # MaxRefs
    <2> SUFFICES ASSUME held[t][n] = MaxRefs PROVE FALSE
      OBVIOUS
    <2>1. IsFiniteSet(1..MaxRefs) /\ Cardinality(1..MaxRefs) = MaxRefs
      BY FS_Interval, RefsFit
    <2>2. IsFiniteSet({n}) /\ Cardinality({n}) = 1
      BY FS_Singleton
    <2>3. Cardinality(Its) = 1 * MaxRefs
      BY <2>1, <2>2, FS_Product
    <2>4. IsFiniteSet(Nodes \X (1..MaxRefs))
      BY <2>1, FS_Product, TwiceSize
    <2>5. All \in SUBSET (Nodes \X (1..MaxRefs))
      OBVIOUS
    <2>6. IsFiniteSet(All)
      <3> HIDE DEF All
      <3> QED BY <2>4, <2>5, FS_Subset
    <2>7. Its \in SUBSET All
      BY RefsFit
    <2>8. Cardinality(Its) <= Cardinality(All)
      <3> HIDE DEF All, Its
      <3> QED BY <2>6, <2>7, FS_Subset
    <2>9. Cardinality(All) < MaxRefs /\ Cardinality(All) \in Nat
      <3>1. Cardinality(All) < MaxRefs
        BY DEF MayHold
      <3> HIDE DEF All
      <3> QED BY <2>6, <3>1, FS_CardinalityType
    <2> HIDE DEF All, Its
    <2> QED BY <2>3, <2>8, <2>9, RefsFit
  <1> QED BY <1>1, <1>2, RefsFit

LEMMA AddRefNat ==
    ASSUME NEW r \in Nat, NEW k \in Int PROVE AddRef(r, k) \in Nat
  <1>1. RefMod \in Nat /\ RefMod > 0
    BY SlotsFit, RefsFit
  <1>2. PICK i \in Int : i = r + k
    OBVIOUS
  <1>3. i % RefMod \in Nat
    BY <1>1, <1>2
  <1> QED BY <1>2, <1>3 DEF AddRef

-----------------------------------------------------------------------------
(* What the invariant says of a call and of its nodes.                     *)

Only(t) == \A u \in Threads \ {t} :
             call'[u] = call[u] /\ held'[u] = held[u] /\ new'[u] = new[u]

LEMMA OnePut ==
    ASSUME TypeOK, NEW t \in Threads, call[t].puts # <<>>
    PROVE  \E n \in Nodes : /\ call[t].puts = <<n>> /\ Head(call[t].puts) = n
                            /\ Tail(call[t].puts) = <<>> /\ Len(call[t].puts) = 1
  <1>1. PICK n \in Nodes : call[t].puts = <<n>>
    BY DEF TypeOK, CallRec
  <1> QED BY <1>1

LEMMA AfterPutIdle ==
    ASSUME TypeOK, CallsOK, NEW t \in Threads, call[t].pc \in {"put", "free"}
    PROVE  /\ AfterPut(call[t]) \in CallRec /\ AfterPut(call[t]).pc = "idle"
           /\ AfterPut(call[t]).h = NoEntry /\ AfterPut(call[t]).re = NoEntry
           /\ AfterPut(call[t]).puts = <<>> /\ AfterPut(call[t]).todo = {}
  <1>1. /\ call[t].todo = {} /\ call[t].h = NoEntry /\ call[t].re = NoEntry /\ call[t].puts # <<>>
        /\ call[t] \in CallRec
    BY DEF CallsOK, CallOK, TypeOK
  <1>2. Tail(call[t].puts) = <<>> /\ Len(call[t].puts) = 1
    BY <1>1, OnePut
  <1>3. AfterPut(call[t]) = [call[t] EXCEPT !.puts = <<>>, !.pc = "idle"]
    <2>1. PICK c : c = call[t]
      OBVIOUS
    <2>2. Tail(c.puts) = <<>> /\ ~ (Len(c.puts) > 1) /\ c.todo = {}
      <3>1. Tail(c.puts) = <<>> /\ c.todo = {} /\ Len(c.puts) = 1
        BY <1>1, <1>2, <2>1, Zenon
      <3>2. ~ (Len(c.puts) > 1)
        BY <3>1
      <3> QED BY <3>1, <3>2, Zenon
    <2>3. AfterPut(c) = [c EXCEPT !.puts = Tail(c.puts),
                                  !.pc = IF Len(c.puts) > 1 THEN "put"
                                         ELSE IF c.todo # {} THEN "close" ELSE "idle"]
      BY Zenon DEF AfterPut
    <2>4. (IF Len(c.puts) > 1 THEN "put" ELSE IF c.todo # {} THEN "close" ELSE "idle") = "idle"
      BY <2>2
    <2> QED BY <2>1, <2>2, <2>3, <2>4, Zenon
  <1>4. AfterPut(call[t]) \in CallRec
    BY <1>1, <1>3 DEF CallRec
  <1> QED BY <1>1, <1>3, <1>4 DEF CallRec

LEMMA SpareNode ==
    ASSUME IInv, NEW n \in free_nodes
    PROVE  /\ n \in Nodes /\ Untouched(n) /\ References(n) = {} /\ n \notin rm_entries
           /\ \A u \in Threads : call[u].puts # <<n>>
  BY NoRefUntouched DEF IInv, TypeOK, Spare

LEMMA GoingNode ==
    ASSUME IInv, NEW t \in Threads, At(t, "free"), NEW n, call[t].puts = <<n>>
    PROVE  /\ n \in Nodes /\ n \notin free_nodes \cup rm_entries
           /\ node[n].ref = 0 /\ References(n) = {} /\ Untouched(n)
           /\ \A u \in Threads : u # t => call[u].puts # <<n>>
  <1>1. TypeOK /\ CallsOK /\ RefExact /\ Going
    BY DEF IInv
  <1>2. n \in Nodes /\ Head(call[t].puts) = n
    <2>1. call[t].puts # <<>>
      OBVIOUS
    <2>2. PICK m \in Nodes : call[t].puts = <<m>> /\ Head(call[t].puts) = m
      BY <1>1, <2>1, OnePut
    <2> QED BY <2>2
  <1>3. n \notin free_nodes \cup rm_entries /\ node[n].ref = 0
    BY <1>1, <1>2 DEF Going
  <1>4. References(n) = {}
    BY <1>1, <1>2, <1>3, NoRef
  <1>5. Untouched(n)
    BY <1>1, <1>2, <1>4, NoRefUntouched
  <1>6. ASSUME NEW u \in Threads, u # t PROVE call[u].puts # <<n>>
    BY <1>1, <1>5, <1>6 DEF Untouched, HasPut, Going
  <1> QED BY <1>2, <1>3, <1>4, <1>5, <1>6

LEMMA FreshNode ==
    ASSUME IInv, NEW t \in Threads, NEW n, n = new[t], n # NoEntry
    PROVE  /\ n \in Nodes /\ n \notin free_nodes \cup rm_entries \cup entries
           /\ node[n].ref = 1 /\ node[n].state = "NODE_ACTIVE"
           /\ References(n) = {<<t, "new", 0>>}
           /\ \A u \in Threads : /\ call[u].re # n /\ call[u].puts # <<n>> /\ held[u][n] = 0
                                 /\ u # t => new[u] # n /\ call[u].h # n
  <1>1. TypeOK /\ CallsOK /\ RefExact /\ Going /\ Fresh
    BY DEF IInv
  <1>2. /\ n \in Nodes /\ n \notin free_nodes \cup rm_entries
        /\ node[n].ref = 1 /\ node[n].state = "NODE_ACTIVE"
    BY <1>1 DEF TypeOK, Fresh
  <1>3. RefsTold(n)
    BY <1>1, <1>2, RefMember
  <1>4. References(n) = {<<t, "new", 0>>}
    BY <1>1, <1>2, <1>3, OneRef DEF RefsTold
  <1>5. n \notin entries
    BY <1>3, <1>4, NoneIsNone DEF RefsTold
  <1>6. ASSUME NEW u \in Threads
        PROVE  /\ call[u].re # n /\ ~ HasPut(u, n) /\ held[u][n] = 0 /\ (u # t => new[u] # n)
    <2>1. call[u].re # n /\ ~ HasPut(u, n)
      BY <1>3, <1>4 DEF RefsTold
    <2>2. u # t => new[u] # n
      BY <1>3, <1>4 DEF RefsTold
    <2>3. held[u][n] \in 0..MaxRefs
      BY <1>1, <1>2 DEF TypeOK
    <2>4. 1 \in 1..MaxRefs => ~ (1 <= held[u][n])
      BY <1>3, <1>4 DEF RefsTold
    <2> QED BY <2>1, <2>2, <2>3, <2>4, RefsFit
  <1>7. ASSUME NEW u \in Threads PROVE call[u].puts # <<n>>
    BY <1>1, <1>2, <1>6 DEF Going, HasPut
  <1>8. ASSUME NEW u \in Threads, u # t PROVE call[u].h # n
    <2>1. call[u].pc \in Locked \cup {"idle", "put", "free"}
      BY <1>1 DEF TypeOK, CallRec
    <2> QED BY <1>1, <1>2, <1>6, <1>8, <2>1 DEF CallsOK, CallOK, Idle, At
  <1> QED BY <1>2, <1>4, <1>5, <1>6, <1>7, <1>8

(* A node that a call puts or a caller has is not free.                    *)
LEMMA UsedNode ==
    ASSUME IInv, NEW n \in Nodes, References(n) # {}
    PROVE  n \notin free_nodes /\ node[n].ref # 0
           /\ \A u \in Threads : At(u, "free") => call[u].puts # <<n>>
  <1>1. n \notin free_nodes
    BY DEF IInv, Spare
  <1>2. node[n].ref # 0
    BY <1>1, NoRef DEF IInv
  <1> QED BY <1>1, <1>2, GoingNode

LEMMA OthersCallOK ==
    ASSUME CallsOK, NEW t \in Threads, Only(t), rmtable' = rmtable,
           lock' = lock \/ (lock \in {t, NoThread} /\ lock' \in {t, NoThread}),
           NEW u \in Threads, u # t
    PROVE  CallOK(u)'
  <1>1. call'[u] = call[u] /\ held'[u] = held[u] /\ new'[u] = new[u]
    BY DEF Only
  <1>2. MayHold(u)' <=> MayHold(u)
    BY <1>1 DEF MayHold
  <1>3. lock' = u <=> lock = u
    BY NoneIsNone
  <1> QED BY <1>1, <1>2, <1>3 DEF CallsOK, CallOK, Idle, At

SameNode(n) == node'[n].name = node[n].name /\ node'[n].state = node[n].state

(* A step of a thread that inserts nothing, and changes no node but maybe  *)
(* m, which is in no table and of no concern to another call.              *)
Quiet(t, m) ==
    /\ lock # t /\ call'[t].pc \notin Locked /\ Only(t)
    /\ lock' = lock /\ entries' = entries /\ rm_entries' \subseteq rm_entries
    /\ rmtable' = rmtable
    /\ \A n \in Nodes \ {m} : SameNode(n)
    /\ \/ m \in Nodes => SameNode(m)
       \/ /\ m \notin entries \cup rm_entries
          /\ \A u \in Threads \ {t} : call[u].h # m /\ call[u].puts # <<m>>

LEMMA QuietTables ==
    ASSUME IInv, NEW t \in Threads, NEW m, Quiet(t, m)
    PROVE  OneEntryPerName' /\ Limits' /\ Insertings'
  <1>1. /\ TypeOK /\ CallsOK /\ OneEntryPerName /\ Limits /\ Insertings
        /\ entries \subseteq Nodes /\ rm_entries \subseteq Nodes
    BY DEF IInv, TypeOK
  <1>2. \A n \in entries \cup rm_entries : SameNode(n)
    BY <1>1 DEF Quiet
  <1>3. OneEntryPerName'
    BY <1>1, <1>2 DEF OneEntryPerName, Quiet, SameNode
  <1>4. Limits'
    BY <1>1 DEF Limits, Quiet
  <1>5. ASSUME NEW u \in Threads PROVE Inserting(u)'
    <2>1. CASE u = t
      BY <2>1 DEF Quiet, Inserting, Locked, At
    <2>2. CASE u # t
      <3>1. call'[u] = call[u]
        BY <2>2 DEF Quiet, Only
      <3>2. CASE call[u].pc \notin Locked
        BY <3>1, <3>2 DEF Inserting, Locked, At
      <3>3. CASE call[u].pc \in Locked
        <4>1. call[u].h \in Nodes
          BY <1>1, <3>3 DEF CallsOK, CallOK, TypeOK, CallRec
        <4>2. SameNode(call[u].h)
          BY <2>2, <4>1 DEF Quiet
        <4>3. call[u].puts # <<>> => SameNode(Head(call[u].puts))
          BY <1>1, <2>2, OnePut DEF Quiet
        <4>4. Inserting(u) /\ (At(u, "insert_rm") => call[u].puts # <<>>)
          BY <1>1 DEF Insertings, CallsOK, CallOK
        <4>5. /\ (NotNamed(entries, call[u].h) => NotNamed(entries, call[u].h)')
              /\ (NotNamed(entries \cup rm_entries, call[u].h)
                    => NotNamed(entries \cup rm_entries, call[u].h)')
          BY <1>2, <3>1, <4>2 DEF NotNamed, SameNode, Quiet
        <4>6. At(u, "insert_rm") => (NotNamed(entries \cup rm_entries, Head(call[u].puts))
                    => NotNamed(entries \cup rm_entries, Head(call[u].puts))')
          BY <1>2, <3>1, <4>3, <4>4 DEF NotNamed, SameNode, Quiet
        <4>7. (Room(entries) <=> Room(entries)') /\ entries' = entries
          BY DEF Quiet, Room
        <4> QED BY <3>1, <4>2, <4>3, <4>4, <4>5, <4>6, <4>7 DEF Inserting, SameNode, At
      <3> QED BY <3>2, <3>3
    <2> QED BY <2>1, <2>2
  <1> QED BY <1>3, <1>4, <1>5 DEF Insertings

-----------------------------------------------------------------------------
(* The steps.  Nodes to insert.                                            *)

LEMMA AllocInitInv ==
    ASSUME IInv, NEW t \in Threads, NEW name \in Names, AllocInit(t, name)
    PROVE  IInv'
  <1>1. PICK n \in free_nodes :
          /\ free_nodes' = free_nodes \ {n}
          /\ node' = [node EXCEPT ![n] = Inited(name)]
          /\ new' = [new EXCEPT ![t] = n]
    BY DEF AllocInit
  <1>2. /\ Idle(t) /\ new[t] = NoEntry
        /\ UNCHANGED <<rmtable, entries, rm_entries, lru, lock, call, held, dropped>>
    BY DEF AllocInit
  <1>3. /\ TypeOK /\ CallsOK /\ Timed /\ Fresh /\ Spare /\ Going /\ RmUsed /\ RefExact
        /\ Kept /\ NoLostNode
    BY DEF IInv
  <1>4. /\ n \in Nodes /\ Untouched(n) /\ References(n) = {} /\ n \notin rm_entries
        /\ \A u \in Threads : call[u].puts # <<n>>
    BY SpareNode
  <1>5. TypeOK'
    BY <1>1, <1>2, <1>3, <1>4 DEF TypeOK, Inited
  <1>6. /\ node'[n] = Inited(name) /\ \A m \in Nodes \ {n} : node'[m] = node[m]
        /\ new'[t] = n /\ \A u \in Threads \ {t} : new'[u] = new[u]
    BY <1>1, <1>3, <1>4 DEF TypeOK
  <1>7. References(n)' = {<<t, "new", 0>>}
    <2>1. Becomes(t, n, {<<t, "new", 0>>})
      BY <1>2, <1>4, <1>6, NoneIsNone DEF Becomes, SameFor, Slots, Untouched, HasPut, At
    <2> QED BY <1>3, <1>4, <1>5, <2>1, RefsBecome
  <1>8. ASSUME NEW m \in Nodes, m # n PROVE References(m)' = References(m)
    <2>1. \A u \in Threads : SameFor(u, m)
      BY <1>2, <1>3, <1>6, <1>8, NoneIsNone DEF SameFor, HasPut, At
    <2> QED BY <1>2, <1>3, <1>5, <2>1, SameRefs
  <1>9. CallsOK'
    <2>1. \A u \in Threads : u # t => CallOK(u)'
      BY <1>2, <1>3, <1>6, OthersCallOK DEF Only
    <2>2. CallOK(t)'
      BY <1>2, <1>3 DEF CallsOK, CallOK, Idle, At, Locked
    <2> QED BY <2>1, <2>2 DEF CallsOK
  <1>10. OneEntryPerName' /\ Limits' /\ Insertings'
    <2>1. call[t].pc \notin Locked /\ lock # t
      BY <1>2, <1>3 DEF CallsOK, CallOK, Idle, At, Locked
    <2>2. Quiet(t, n)
      BY <1>2, <1>4, <1>6, <2>1 DEF Quiet, Only, SameNode, Untouched
    <2> QED BY <2>2, QuietTables
  <1>11. Timed'
    BY <1>2, <1>3 DEF Timed
  <1>12. Fresh'
    BY <1>1, <1>2, <1>3, <1>4, <1>6, NoneIsNone DEF Fresh, Untouched, Inited, TypeOK
  <1>13. Spare'
    BY <1>1, <1>2, <1>3, <1>8 DEF Spare, TypeOK
  <1>14. Going'
    <2> SUFFICES ASSUME NEW u \in Threads, At(u, "free")' PROVE
             /\ node'[Head(call'[u].puts)].ref = 0
             /\ Head(call'[u].puts) \notin free_nodes' \cup rm_entries'
             /\ \A w \in Threads : At(w, "free")' /\ call'[w].puts = call'[u].puts => w = u
      BY DEF Going
    <2>1. At(u, "free") /\ call[u].puts # <<>>
      BY <1>2, <1>3 DEF At, CallsOK, CallOK
    <2>2. PICK m \in Nodes : call[u].puts = <<m>> /\ Head(call[u].puts) = m
      BY <1>3, <2>1, OnePut
    <2>3. m # n
      BY <1>4, <2>2
    <2> QED BY <1>1, <1>2, <1>3, <1>6, <2>1, <2>2, <2>3 DEF Going, At
  <1>15. RmUsed'
    BY <1>2, <1>3, <1>4, <1>6 DEF RmUsed, TypeOK
  <1>16. RefExact'
    <2>1. Cardinality(References(n)') = 1
      BY <1>7, FS_Singleton
    <2> QED BY <1>1, <1>3, <1>6, <1>8, <2>1 DEF RefExact, Inited
  <1>17. Kept'
    <2> SUFFICES ASSUME rmtable, NEW m \in Nodes PROVE InPlace(m)'
      BY <1>2 DEF Kept
    <2>1. CASE m = n
      BY <1>6, <2>1 DEF InPlace
    <2>2. CASE m # n
      <3>1. InPlace(m)
        BY <1>3 DEF Kept
      <3>2. \A u \in Threads : new[u] = m => new'[u] = m
        BY <1>2, <1>6, NoneIsNone
      <3> QED BY <1>1, <1>2, <1>6, <2>2, <3>1, <3>2 DEF InPlace
    <2> QED BY <2>1, <2>2
  <1>18. NoLostNode'
    BY <1>1, <1>2, <1>3, <1>4, <1>6 DEF NoLostNode, BeingFreed, At, Inited
  <1> QED BY <1>5, <1>9, <1>10, <1>11, <1>12, <1>13, <1>14, <1>15, <1>16, <1>17, <1>18 DEF IInv

LEMMA AllocInitFailsInv ==
    ASSUME IInv, NEW t \in Threads, NEW name \in Names, AllocInitFails(t, name)
    PROVE  IInv'
  <1>1. PICK n \in free_nodes : node' = [node EXCEPT ![n] = Inited(name)]
    BY DEF AllocInitFails
  <1>2. /\ Idle(t)
        /\ UNCHANGED <<rmtable, free_nodes, entries, rm_entries, lru, lock, call, held, new,
                       dropped>>
    BY DEF AllocInitFails
  <1>3. /\ TypeOK /\ CallsOK /\ Timed /\ Fresh /\ Spare /\ Going /\ RmUsed /\ RefExact
        /\ Kept /\ NoLostNode
    BY DEF IInv
  <1>4. /\ n \in Nodes /\ Untouched(n) /\ References(n) = {} /\ n \notin rm_entries
        /\ \A u \in Threads : call[u].puts # <<n>>
    BY SpareNode
  <1>5. TypeOK'
    BY <1>1, <1>2, <1>3, <1>4 DEF TypeOK, Inited
  <1>6. \A m \in Nodes \ {n} : node'[m] = node[m]
    BY <1>1, <1>3, <1>4 DEF TypeOK
  <1>7. ASSUME NEW m \in Nodes PROVE References(m)' = References(m)
    <2>1. \A u \in Threads : SameFor(u, m)
      BY <1>2 DEF SameFor, HasPut, At
    <2> QED BY <1>2, <1>3, <1>5, <2>1, SameRefs
  <1>8. CallsOK'
    BY <1>2, <1>3 DEF CallsOK, CallOK, Idle, At, MayHold
  <1>9. OneEntryPerName' /\ Limits' /\ Insertings'
    <2>1. call[t].pc \notin Locked /\ lock # t
      BY <1>2, <1>3 DEF CallsOK, CallOK, Idle, At, Locked
    <2>2. Quiet(t, n)
      BY <1>2, <1>4, <1>6, <2>1 DEF Quiet, Only, SameNode, Untouched
    <2> QED BY <2>2, QuietTables
  <1>10. Timed'
    BY <1>2, <1>3 DEF Timed
  <1>11. Fresh'
    BY <1>2, <1>3, <1>4, <1>6 DEF Fresh, Untouched, TypeOK
  <1>12. Spare'
    BY <1>2, <1>3, <1>7 DEF Spare, TypeOK
  <1>13. Going'
    <2> SUFFICES ASSUME NEW u \in Threads, At(u, "free")' PROVE
             /\ node'[Head(call'[u].puts)].ref = 0
             /\ Head(call'[u].puts) \notin free_nodes' \cup rm_entries'
             /\ \A w \in Threads : At(w, "free")' /\ call'[w].puts = call'[u].puts => w = u
      BY DEF Going
    <2>1. At(u, "free") /\ call[u].puts # <<>>
      BY <1>2, <1>3 DEF At, CallsOK, CallOK
    <2>2. PICK m \in Nodes : call[u].puts = <<m>> /\ Head(call[u].puts) = m
      BY <1>3, <2>1, OnePut
    <2>3. m # n
      BY <1>4, <2>2
    <2> QED BY <1>2, <1>3, <1>6, <2>1, <2>2, <2>3 DEF Going, At
  <1>14. RmUsed'
    BY <1>2, <1>3, <1>4, <1>6 DEF RmUsed, TypeOK
  <1>15. RefExact'
    BY <1>2, <1>3, <1>4, <1>6, <1>7 DEF RefExact
  <1>16. Kept'
    <2> SUFFICES ASSUME rmtable, NEW m \in Nodes PROVE InPlace(m)'
      BY <1>2 DEF Kept
    <2>1. CASE m = n
      BY <1>2, <2>1 DEF InPlace
    <2>2. CASE m # n
      BY <1>2, <1>3, <1>6, <2>2 DEF InPlace, Kept
    <2> QED BY <2>1, <2>2
  <1>17. NoLostNode'
    BY <1>2, <1>3, <1>4, <1>6 DEF NoLostNode, BeingFreed, At
  <1> QED BY <1>5, <1>8, <1>9, <1>10, <1>11, <1>12, <1>13, <1>14, <1>15, <1>16, <1>17 DEF IInv

LEMMA FreeNewInv ==
    ASSUME IInv, NEW t \in Threads, FreeNew(t)
    PROVE  IInv'
  <1>1. PICK n : n = new[t]
    OBVIOUS
  <1>2. /\ Idle(t) /\ n # NoEntry
        /\ node' = [node EXCEPT ![n] = Unused]
        /\ free_nodes' = free_nodes \cup {n}
        /\ new' = [new EXCEPT ![t] = NoEntry]
        /\ UNCHANGED <<rmtable, entries, rm_entries, lru, lock, call, held, dropped>>
    BY <1>1 DEF FreeNew
  <1>3. /\ TypeOK /\ CallsOK /\ Timed /\ Fresh /\ Spare /\ Going /\ RmUsed /\ RefExact
        /\ Kept /\ NoLostNode
    BY DEF IInv
  <1>4. /\ n \in Nodes /\ n \notin free_nodes \cup rm_entries \cup entries
        /\ References(n) = {<<t, "new", 0>>}
        /\ \A u \in Threads : /\ call[u].re # n /\ call[u].puts # <<n>> /\ held[u][n] = 0
                              /\ u # t => new[u] # n /\ call[u].h # n
    BY <1>1, <1>2, FreshNode
  <1>5. TypeOK'
    BY <1>2, <1>3, <1>4 DEF TypeOK, Unused
  <1>6. /\ \A m \in Nodes \ {n} : node'[m] = node[m]
        /\ new'[t] = NoEntry /\ \A u \in Threads \ {t} : new'[u] = new[u]
    BY <1>2, <1>3, <1>4 DEF TypeOK
  <1>7. References(n)' = {}
    <2>1. Becomes(t, n, {})
      BY <1>2, <1>4, <1>6, NoneIsNone DEF Becomes, SameFor, Slots, HasPut, At
    <2> QED BY <1>3, <1>4, <1>5, <2>1, RefsBecome
  <1>8. ASSUME NEW m \in Nodes, m # n PROVE References(m)' = References(m)
    <2>1. \A u \in Threads : SameFor(u, m)
      BY <1>1, <1>2, <1>3, <1>6, <1>8, NoneIsNone DEF SameFor, HasPut, At
    <2> QED BY <1>2, <1>3, <1>5, <2>1, SameRefs
  <1>9. CallsOK'
    <2>1. \A u \in Threads : u # t => CallOK(u)'
      BY <1>2, <1>3, <1>6, OthersCallOK DEF Only
    <2>2. CallOK(t)'
      BY <1>2, <1>3 DEF CallsOK, CallOK, Idle, At, Locked
    <2> QED BY <2>1, <2>2 DEF CallsOK
  <1>10. OneEntryPerName' /\ Limits' /\ Insertings'
    <2>1. call[t].pc \notin Locked /\ lock # t
      BY <1>2, <1>3 DEF CallsOK, CallOK, Idle, At, Locked
    <2>2. Quiet(t, n)
      BY <1>2, <1>4, <1>6, <2>1 DEF Quiet, Only, SameNode
    <2> QED BY <2>2, QuietTables
  <1>11. Timed'
    BY <1>2, <1>3 DEF Timed
  <1>12. Fresh'
    BY <1>2, <1>3, <1>4, <1>6 DEF Fresh, TypeOK
  <1>13. Spare'
    BY <1>2, <1>3, <1>4, <1>7, <1>8 DEF Spare, TypeOK
  <1>14. Going'
    <2> SUFFICES ASSUME NEW u \in Threads, At(u, "free")' PROVE
             /\ node'[Head(call'[u].puts)].ref = 0
             /\ Head(call'[u].puts) \notin free_nodes' \cup rm_entries'
             /\ \A w \in Threads : At(w, "free")' /\ call'[w].puts = call'[u].puts => w = u
      BY DEF Going
    <2>1. At(u, "free") /\ call[u].puts # <<>>
      BY <1>2, <1>3 DEF At, CallsOK, CallOK
    <2>2. PICK m \in Nodes : call[u].puts = <<m>> /\ Head(call[u].puts) = m
      BY <1>3, <2>1, OnePut
    <2>3. m # n
      BY <1>4, <2>2
    <2> QED BY <1>2, <1>3, <1>6, <2>1, <2>2, <2>3 DEF Going, At
  <1>15. RmUsed'
    BY <1>2, <1>3, <1>4, <1>6 DEF RmUsed, TypeOK
  <1>16. RefExact'
    BY <1>2, <1>3, <1>6, <1>8 DEF RefExact
  <1>17. Kept'
    <2> SUFFICES ASSUME rmtable, NEW m \in Nodes PROVE InPlace(m)'
      BY <1>2 DEF Kept
    <2>1. CASE m = n
      BY <1>2, <2>1 DEF InPlace
    <2>2. CASE m # n
      <3>1. InPlace(m)
        BY <1>3 DEF Kept
      <3>2. \A u \in Threads : new[u] = m => new'[u] = m
        BY <1>1, <1>6, <2>2
      <3> QED BY <1>2, <1>6, <2>2, <3>1, <3>2 DEF InPlace
    <2> QED BY <2>1, <2>2
  <1>18. NoLostNode'
    BY <1>2, <1>3, <1>4, <1>6 DEF NoLostNode, BeingFreed, At
  <1> QED BY <1>5, <1>9, <1>10, <1>11, <1>12, <1>13, <1>14, <1>15, <1>16, <1>17, <1>18 DEF IInv

-----------------------------------------------------------------------------
(* Tables and access times.                                                *)

(* The sequence s has just the nodes of S, each one once.                  *)
Times(s, S) == /\ s \in Seq(Nodes)
               /\ \A n \in Nodes : n \in S <=> \E i \in 1..Len(s) : s[i] = n
               /\ \A i, j \in 1..Len(s) : s[i] = s[j] => i = j

LEMMA WithoutTimes ==
    ASSUME NEW S, Times(lru, S), NEW n \in Nodes
    PROVE  Times(Without(n), S \ {n})
  <1>1. lru \in Seq(Nodes) /\ Len(lru) \in Nat /\ \A i \in 1..Len(lru) : lru[i] \in Nodes
    BY DEF Times
  <1>2. CASE n \notin Range(lru)
    <2>1. \A i \in 1..Len(lru) : lru[i] # n
      BY <1>1, <1>2 DEF Range
    <2>2. Without(n) = lru
      BY <1>2 DEF Without
    <2> QED BY <2>1, <2>2 DEF Times
  <1>3. CASE n \in Range(lru)
    <2>1. PICK k \in 1..Len(lru) : k = CHOOSE i \in 1..Len(lru) : lru[i] = n
      BY <1>1, <1>3 DEF Range
    <2>2. lru[k] = n
      BY <1>1, <1>3, <2>1 DEF Range
    <2>3. PICK s : s = RemoveAt(lru, k)
      OBVIOUS
    <2>4. Without(n) = s
      BY <1>3, <2>1, <2>3 DEF Without
    <2>5. /\ s \in Seq(Nodes) /\ Len(s) = Len(lru) - 1
          /\ \A i \in 1..Len(s) : s[i] = IF i < k THEN lru[i] ELSE lru[i + 1]
      <3>0. PICK l \in Nat : l = Len(lru) /\ k \in 1..l
        BY <1>1, <2>1
      <3>1. PICK a, b : /\ l = Len(lru) /\ k \in 1..l
                        /\ a = SubSeq(lru, 1, k - 1) /\ b = SubSeq(lru, k + 1, l)
        BY <3>0
      <3>2. /\ a \in Seq(Nodes) /\ Len(a) = k - 1
            /\ \A i \in 1..k-1 : a[i] = lru[i]
        <4>1. \A i \in 1..k-1 : lru[i] \in Nodes
          BY <1>1, <3>1
        <4>2. Len(a) = k - 1 /\ \A i \in 1..k-1 : a[i] = lru[1 + i - 1]
          BY <1>1, <3>1, <4>1, SubSeqProperties
        <4>3. a \in Seq(Nodes)
          BY <1>1, <3>1, <4>1, SubSeqProperties
        <4> QED BY <3>1, <4>2, <4>3
      <3>3. /\ b \in Seq(Nodes) /\ Len(b) = l - k
            /\ \A i \in 1..l-k : b[i] = lru[k + i]
        <4>1. \A i \in k+1..l : lru[i] \in Nodes
          BY <1>1, <3>1
        <4>2. Len(b) = IF k + 1 <= l THEN l - (k + 1) + 1 ELSE 0
          BY <1>1, <3>1, <4>1, SubSeqProperties
        <4>3. \A i \in 1..l-(k+1)+1 : b[i] = lru[(k + 1) + i - 1]
          BY <1>1, <3>1, <4>1, SubSeqProperties
        <4>4. b \in Seq(Nodes)
          BY <1>1, <3>1, <4>1, SubSeqProperties
        <4>5. l - (k + 1) + 1 = l - k /\ \A i \in 1..l-k : (k + 1) + i - 1 = k + i
          BY <3>1
        <4> QED BY <3>1, <4>2, <4>3, <4>4, <4>5
      <3>4. s = a \o b
        BY <2>3, <3>1 DEF RemoveAt
      <3>5. s \in Seq(Nodes) /\ Len(s) = l - 1
        <4>1. s \in Seq(Nodes) /\ Len(s) = Len(a) + Len(b)
          BY <3>2, <3>3, <3>4, ConcatProperties
        <4>2. Len(s) = (k - 1) + (l - k)
          BY <3>2, <3>3, <4>1
        <4>3. k \in Int /\ l \in Int
          BY <3>1
        <4>4. (k - 1) + (l - k) = l - 1
          BY <4>3
        <4> QED BY <4>1, <4>2, <4>4
      <3>7. Len(a) = k - 1 /\ Len(b) = l - k /\ k \in 1..l
        BY <3>1, <3>2, <3>3
      <3>6. ASSUME NEW i \in 1..l-1 PROVE s[i] = IF i < k THEN lru[i] ELSE lru[i + 1]
        <4>1. CASE i < k
          <5>1. i \in 1..k-1 /\ i <= Len(a) /\ i \in 1..Len(a)+Len(b)
            BY <3>7, <4>1
          <5> QED BY <3>2, <3>3, <3>4, <4>1, <5>1, ConcatProperties
        <4>2. CASE ~ (i < k)
          <5>1. i - (k - 1) \in 1..l-k /\ k + (i - (k - 1)) = i + 1
                /\ i \in 1..Len(a)+Len(b) /\ ~ (i <= Len(a))
            BY <3>7, <4>2
          <5>2. s[i] = b[i - Len(a)]
            BY <3>2, <3>3, <3>4, <5>1, ConcatProperties
          <5>3. b[i - (k - 1)] = lru[k + (i - (k - 1))]
            BY <3>3, <5>1
          <5> QED BY <3>2, <4>2, <5>1, <5>2, <5>3
        <4> QED BY <4>1, <4>2
      <3> QED BY <3>1, <3>5, <3>6
    <2> DEFINE Was(i) == IF i < k THEN i ELSE i + 1
    <2>8. /\ \A i \in 1..Len(s) : Was(i) \in 1..Len(lru) /\ Was(i) # k
          /\ \A i, j \in 1..Len(s) : Was(i) = Was(j) => i = j
      <3>1. PICK l \in Nat : l = Len(lru) /\ k \in 1..l /\ Len(s) = l - 1
        BY <1>1, <2>1, <2>5
      <3>2. /\ \A i \in 1..l-1 : Was(i) \in 1..l /\ Was(i) # k
            /\ \A i, j \in 1..l-1 : Was(i) = Was(j) => i = j
        BY <3>1
      <3> QED BY <3>1, <3>2
    <2>9. \A i \in 1..Len(s) : s[i] = lru[Was(i)]
      BY <2>5
    <2> HIDE DEF Was
    <2>6. \A i, j \in 1..Len(s) : s[i] = s[j] => i = j
      <3> SUFFICES ASSUME NEW i \in 1..Len(s), NEW j \in 1..Len(s), s[i] = s[j] PROVE i = j
        OBVIOUS
      <3>1. lru[Was(i)] = lru[Was(j)]
        BY <2>9
      <3>2. Was(i) = Was(j)
        BY <2>8, <3>1 DEF Times
      <3> QED BY <2>8, <3>2
    <2>7. ASSUME NEW m \in Nodes
          PROVE  m \in S \ {n} <=> \E i \in 1..Len(s) : s[i] = m
      <3>1. ASSUME NEW i \in 1..Len(s), s[i] = m PROVE m \in S \ {n}
        <4>1. PICK j \in 1..Len(lru) : j # k /\ lru[j] = m
          BY <2>8, <2>9, <3>1
        <4> QED BY <2>2, <4>1 DEF Times
      <3>2. ASSUME m \in S \ {n} PROVE \E i \in 1..Len(s) : s[i] = m
        <4>1. PICK j \in 1..Len(lru) : lru[j] = m
          BY <3>2 DEF Times
        <4>2. j # k
          BY <2>2, <3>2, <4>1
        <4>3. CASE j < k
          BY <1>1, <2>1, <2>5, <4>1, <4>3
        <4>4. CASE j > k
          <5>1. j - 1 \in 1..Len(s) /\ ~ (j - 1 < k) /\ (j - 1) + 1 = j
            BY <1>1, <2>1, <2>5, <4>4
          <5> QED BY <2>5, <4>1, <5>1
        <4> QED BY <2>1, <4>2, <4>3, <4>4
      <3> QED BY <3>1, <3>2
    <2> QED BY <2>4, <2>5, <2>6, <2>7 DEF Times
  <1> QED BY <1>2, <1>3

LEMMA TouchedTimes ==
    ASSUME NEW S, Times(lru, S), NEW n \in Nodes
    PROVE  Times(Touched(n), S \cup {n})
  <1>1. PICK s : s = Without(n)
    OBVIOUS
  <1>2. Times(s, S \ {n})
    BY <1>1, WithoutTimes
  <1>3. PICK a : a = Append(s, n)
    OBVIOUS
  <1>4. Touched(n) = a
    BY <1>1, <1>3 DEF Touched
  <1>5. /\ a \in Seq(Nodes) /\ Len(a) = Len(s) + 1 /\ Len(s) \in Nat
        /\ \A i \in 1..Len(s) : a[i] = s[i] /\ a[Len(s) + 1] = n
    BY <1>2, <1>3 DEF Times
  <1>6. a[Len(s) + 1] = n
    BY <1>2, <1>3 DEF Times
  <1>7. \A i \in 1..Len(s) : s[i] # n
    BY <1>2 DEF Times
  <1>8. \A i, j \in 1..Len(a) : a[i] = a[j] => i = j
    <2> SUFFICES ASSUME NEW i \in 1..Len(a), NEW j \in 1..Len(a), a[i] = a[j] PROVE i = j
      OBVIOUS
    <2>1. (i \in 1..Len(s) \/ i = Len(s) + 1) /\ (j \in 1..Len(s) \/ j = Len(s) + 1)
      BY <1>5
    <2> QED BY <1>2, <1>5, <1>6, <1>7, <2>1 DEF Times
  <1>9. ASSUME NEW m \in Nodes
        PROVE  m \in S \cup {n} <=> \E i \in 1..Len(a) : a[i] = m
    <2>1. CASE m = n
      BY <1>5, <1>6, <2>1
    <2>2. CASE m # n
      <3>1. m \in S <=> \E i \in 1..Len(s) : s[i] = m
        BY <1>2, <2>2 DEF Times
      <3>2. \A i \in 1..Len(a) : i \in 1..Len(s) \/ i = Len(s) + 1
        BY <1>5
      <3>3. \A i \in 1..Len(s) : i \in 1..Len(a)
        BY <1>5
      <3> QED BY <1>5, <1>6, <2>2, <3>1, <3>2, <3>3
    <2> QED BY <2>1, <2>2
  <1> QED BY <1>4, <1>5, <1>8, <1>9 DEF Times

LEMMA TimedTimes == TypeOK => (Timed <=> Times(lru, entries))
  BY DEF Timed, Times, TypeOK

LEMMA LookupFinds ==
    ASSUME TypeOK, NEW table \in SUBSET Nodes, NEW name
    PROVE  LET n == Lookup(table, name)
           IN  /\ n # NoEntry => n \in table /\ node[n].name = name
               /\ n = NoEntry => \A m \in table : node[m].name # name
  <1>1. CASE \E m \in table : node[m].name = name
    <2>1. PICK n : n = Lookup(table, name)
      OBVIOUS
    <2>2. n \in table /\ node[n].name = name
      BY <1>1, <2>1 DEF Lookup
    <2> QED BY <2>1, <2>2, NoneIsNone
  <1>2. CASE ~ \E m \in table : node[m].name = name
    BY <1>2 DEF Lookup
  <1> QED BY <1>1, <1>2

-----------------------------------------------------------------------------
(* References got and put.                                                 *)

(* A step of a call that has no lock and changes the references of n, but  *)
(* not to the last one.                                                    *)
Counts(t, n) ==
    /\ UNCHANGED <<rmtable, free_nodes, entries, rm_entries, lock, new, dropped>>
    /\ Times(lru', entries)
    /\ Only(t) /\ SameNode(n) /\ \A m \in Nodes \ {n} : node'[m] = node[m]
    /\ call[t].pc \in {"idle", "put"} /\ call'[t].pc \in {"idle", "put"}
    /\ CallOK(t)' /\ call'[t].puts \in {<<>>, <<n>>}
    /\ node'[n].ref # 0 /\ node'[n].ref = Cardinality(References(n)')
    /\ \A m \in Nodes \ {n} : References(m)' = References(m)

LEMMA CountsInv ==
    ASSUME IInv, TypeOK', NEW t \in Threads, NEW n \in Nodes, References(n) # {},
           \A u \in Threads : new[u] # n, Counts(t, n)
    PROVE  IInv'
  <1>1. /\ TypeOK /\ CallsOK /\ Timed /\ Fresh /\ Spare /\ Going /\ RmUsed /\ RefExact
        /\ Kept /\ NoLostNode
    BY DEF IInv
  <1>2. /\ n \notin free_nodes /\ node[n].ref # 0
        /\ \A u \in Threads : At(u, "free") => call[u].puts # <<n>>
    BY UsedNode
  <1>3. UNCHANGED <<rmtable, free_nodes, entries, rm_entries, lock, new, dropped>>
        /\ \A m \in Nodes \ {n} : node'[m] = node[m]
    BY DEF Counts
  <1>4. lock # t /\ call[t].re = NoEntry /\ call'[t].re = NoEntry
    BY <1>1 DEF Counts, CallsOK, CallOK, Idle, At, Locked
  <1>5. CallsOK'
    <2>1. \A u \in Threads : u # t => CallOK(u)'
      BY <1>1, OthersCallOK DEF Counts
    <2> QED BY <2>1 DEF CallsOK, Counts
  <1>6. OneEntryPerName' /\ Limits' /\ Insertings'
    <2>1. Quiet(t, NoEntry)
      BY <1>3, <1>4, NoneIsNone DEF Counts, Quiet, SameNode, Locked
    <2> QED BY <2>1, QuietTables
  <1>7. Timed'
    BY <1>3 DEF Counts, Timed, Times
  <1>8. Fresh'
    BY <1>1, <1>3 DEF Fresh, TypeOK
  <1>9. Spare'
    <2> SUFFICES ASSUME NEW m \in free_nodes
                 PROVE  /\ References(m)' = {} /\ m \notin rm_entries
                        /\ \A u \in Threads : call'[u].puts # <<m>>
      BY <1>3 DEF Spare
    <2>1. m \in Nodes /\ m # n
      BY <1>1, <1>2 DEF TypeOK
    <2> QED BY <1>1, <2>1 DEF Spare, Counts, Only
  <1>10. Going'
    <2> SUFFICES ASSUME NEW u \in Threads, At(u, "free")' PROVE
             /\ node'[Head(call'[u].puts)].ref = 0
             /\ Head(call'[u].puts) \notin free_nodes' \cup rm_entries'
             /\ \A w \in Threads : At(w, "free")' /\ call'[w].puts = call'[u].puts => w = u
      BY DEF Going
    <2>1. At(u, "free") /\ u # t /\ call'[u] = call[u] /\ call[u].puts # <<>>
      BY <1>1 DEF At, CallsOK, CallOK, Counts, Only
    <2>2. PICK m \in Nodes : call[u].puts = <<m>> /\ Head(call[u].puts) = m
      BY <1>1, <2>1, OnePut
    <2>3. m # n
      BY <1>2, <2>1, <2>2
    <2>4. ASSUME NEW w \in Threads, At(w, "free")' PROVE At(w, "free") /\ call'[w] = call[w]
      BY <2>4 DEF At, Counts, Only
    <2> QED BY <1>1, <1>3, <2>1, <2>2, <2>3, <2>4 DEF Going
  <1>11. RmUsed'
    BY <1>1, <1>3 DEF RmUsed, TypeOK, Counts
  <1>12. RefExact'
    BY <1>1, <1>3 DEF RefExact, Counts
  <1>13. Kept'
    <2> SUFFICES ASSUME rmtable, NEW m \in Nodes PROVE InPlace(m)'
      BY <1>3 DEF Kept
    <2>1. InPlace(m)
      BY <1>1 DEF Kept
    <2>2. node'[m].name = node[m].name
      BY <1>3 DEF Counts, SameNode
    <2>3. ASSUME NEW u \in Threads,
                 \/ new[u] = m \/ call[u].re = m
                 \/ call[u].puts = <<m>> /\ call[u].pc \in {"insert_rm", "free"}
          PROVE  \/ new'[u] = m \/ call'[u].re = m
                 \/ call'[u].puts = <<m>> /\ call'[u].pc \in {"insert_rm", "free"}
      <3>1. CASE u = t
        BY <1>3, <1>4, <2>3, <3>1, NoneIsNone DEF Counts
      <3>2. CASE u # t
        BY <2>3, <3>2 DEF Counts, Only
      <3> QED BY <3>1, <3>2
    <2> QED BY <1>3, <2>1, <2>2, <2>3 DEF InPlace
  <1>14. NoLostNode'
    <2> SUFFICES ASSUME NEW m \in Nodes \ free_nodes, node'[m].ref = 0
                 PROVE  BeingFreed(m)' \/ (rmtable /\ node'[m].name \in dropped)
      BY <1>3 DEF NoLostNode
    <2>1. m # n /\ node'[m] = node[m]
      BY <1>3 DEF Counts
    <2>2. BeingFreed(m) \/ (rmtable /\ node[m].name \in dropped)
      BY <1>1, <2>1 DEF NoLostNode
    <2>3. ASSUME NEW u \in Threads, At(u, "free") PROVE call'[u] = call[u]
      BY <2>3 DEF Counts, Only, At
    <2> QED BY <2>1, <2>2, <2>3 DEF BeingFreed, At
  <1> QED BY <1>5, <1>6, <1>7, <1>8, <1>9, <1>10, <1>11, <1>12, <1>13, <1>14 DEF IInv

(* A caller gets a reference of an entry.                                  *)
LEMMA GotInv ==
    ASSUME IInv, NEW t \in Threads, NEW n \in Nodes, Idle(t), MayHold(t),
           n \in entries \/ held[t][n] > 0,
           node' = [node EXCEPT ![n].ref = AddRef(@, 1)], Hold(t, n, 1),
           Times(lru', entries),
           UNCHANGED <<rmtable, free_nodes, entries, rm_entries, lock, call, new, dropped>>
    PROVE  IInv'
  <1>1. TypeOK /\ CallsOK /\ RefExact
    BY DEF IInv
  <1>2. held[t][n] \in Nat /\ held[t][n] + 1 \in 1..MaxRefs
    BY <1>1, MayHoldRoom
  <1>3. PICK k : k = held[t][n] + 1
    OBVIOUS
  <1>4. /\ held' = [held EXCEPT ![t][n] = k]
        /\ held'[t][n] = k /\ \A m \in Nodes \ {n} : held'[t][m] = held[t][m]
        /\ \A u \in Threads \ {t} : held'[u] = held[u]
    BY <1>1, <1>3 DEF Hold, TypeOK
  <1>5. AddRef(node[n].ref, 1) \in Nat
    <2>1. node[n].ref \in Nat
      BY <1>1 DEF TypeOK
    <2> QED BY <2>1, AddRefNat
  <1>6. TypeOK'
    <2>1. held' \in [Threads -> [Nodes -> 0..MaxRefs]]
      BY <1>1, <1>2, <1>3, <1>4 DEF TypeOK
    <2>2. node' \in [Nodes -> [ref : Nat, name : Names \cup {NoName},
                               state : {"NODE_ACTIVE", "NODE_EVICTED"}]]
      BY <1>1, <1>5 DEF TypeOK
    <2> QED BY <1>1, <2>1, <2>2 DEF TypeOK, Times
  <1>7. /\ node'[n].ref = AddRef(node[n].ref, 1) /\ SameNode(n)
        /\ \A m \in Nodes \ {n} : node'[m] = node[m]
    BY <1>1 DEF TypeOK, SameNode
  <1>8. RefsTold(n)
    BY <1>1, RefMember
  <1>9. References(n) # {}
    <2>1. CASE n \in entries
      BY <1>8, <2>1 DEF RefsTold
    <2>2. CASE held[t][n] > 0
      <3>1. 1 \in 1..MaxRefs /\ 1 <= held[t][n]
        BY <1>2, <2>2, RefsFit
      <3> QED BY <1>8, <3>1 DEF RefsTold
    <2> QED BY <2>1, <2>2
  <1>10. \A u \in Threads : new[u] # n
    BY FreshNode, NoneIsNone
  <1>11. <<t, "held", k>> \notin References(n)
    <2>1. k \in 1..MaxRefs /\ ~ (k <= held[t][n])
      BY <1>2, <1>3
    <2> QED BY <1>8, <2>1 DEF RefsTold
  <1>12. References(n)' = References(n) \cup {<<t, "held", k>>}
    <2>1. \A i \in 1..MaxRefs : i <= held'[t][n] <=> i <= held[t][n] \/ i = k
      BY <1>2, <1>3, <1>4
    <2>2. <<t, "held", k>> \in Slots
      BY <1>2, <1>3 DEF Slots
    <2>3. \A i \in 1..MaxRefs : <<t, "held", i>> \in References(n) \cup {<<t, "held", k>>}
                                  <=> i <= held'[t][n]
      BY <1>8, <2>1 DEF RefsTold
    <2>4. \A u \in Threads \ {t} : SameFor(u, n)
      BY <1>4 DEF SameFor, HasPut, At
    <2>5. Becomes(t, n, References(n) \cup {<<t, "held", k>>})
      BY <1>8, <2>2, <2>3, <2>4, NoneIsNone DEF Becomes, RefsTold, HasPut, At
    <2> QED BY <1>1, <1>6, <2>5, RefsBecome
  <1>13. \A m \in Nodes \ {n} : References(m)' = References(m)
    <2> SUFFICES ASSUME NEW m \in Nodes, m # n PROVE References(m)' = References(m)
      OBVIOUS
    <2>1. \A u \in Threads : SameFor(u, m)
      BY <1>4 DEF SameFor, HasPut, At
    <2> QED BY <1>1, <1>6, <2>1, SameRefs
  <1>14. node'[n].ref = Cardinality(References(n)')
    BY <1>1, <1>6, <1>7, <1>9, <1>11, <1>12, Gained, UsedNode
  <1>15. node'[n].ref # 0
    <2>1. IsFiniteSet(References(n)')
      BY <1>6, RefsFiniteNext DEF Countable
    <2> QED BY <1>12, <1>14, <2>1, FS_EmptySet
  <1>16. CallOK(t)'
    BY <1>1 DEF CallsOK, CallOK, Idle, At, Locked
  <1>17. Counts(t, n)
    BY <1>1, <1>4, <1>7, <1>13, <1>14, <1>15, <1>16 DEF Counts, Only, Idle, At, CallsOK, CallOK
  <1> QED BY <1>6, <1>9, <1>10, <1>17, CountsInv

LEMMA PutInv ==
    ASSUME IInv, NEW t \in Threads, NEW n \in Nodes, xcache_put(t, n)
    PROVE  IInv'
  <1>1. TypeOK /\ CallsOK /\ RefExact /\ Timed
    BY DEF IInv
  <1>2. /\ Idle(t) /\ held[t][n] > 0 /\ Hold(t, n, -1)
        /\ call' = [call EXCEPT ![t].pc = "put", ![t].puts = <<n>>]
        /\ UNCHANGED <<rmtable, node, free_nodes, entries, rm_entries, lru, lock, new, dropped>>
    BY DEF xcache_put
  <1>3. PICK k \in 1..MaxRefs : k = held[t][n]
    BY <1>1, <1>2, RefsFit DEF TypeOK
  <1>4. /\ held' = [held EXCEPT ![t][n] = k - 1]
        /\ held'[t][n] = k - 1 /\ \A m \in Nodes \ {n} : held'[t][m] = held[t][m]
        /\ \A u \in Threads \ {t} : held'[u] = held[u]
    BY <1>1, <1>2, <1>3 DEF Hold, TypeOK
  <1>5. /\ call'[t] \in CallRec /\ call'[t].pc = "put" /\ call'[t].puts = <<n>>
        /\ call'[t].h = call[t].h /\ call'[t].re = call[t].re /\ call'[t].todo = call[t].todo
        /\ \A u \in Threads \ {t} : call'[u] = call[u]
    BY <1>1, <1>2 DEF TypeOK, CallRec
  <1>6. TypeOK'
    <2>1. held' \in [Threads -> [Nodes -> 0..MaxRefs]]
      BY <1>1, <1>3, <1>4, RefsFit DEF TypeOK
    <2>2. call' \in [Threads -> CallRec]
      BY <1>1, <1>2, <1>5 DEF TypeOK
    <2> QED BY <1>1, <1>2, <2>1, <2>2 DEF TypeOK
  <1>7. RefsTold(n)
    BY <1>1, RefMember
  <1>8. <<t, "held", k>> \in References(n)
    <2>1. k <= held[t][n]
      BY <1>3
    <2> QED BY <1>7, <2>1 DEF RefsTold
  <1>9. <<t, "put", 0>> \notin References(n)
    <2>1. call[t].puts = <<>>
      BY <1>1, <1>2 DEF CallsOK, CallOK
    <2>2. ~ HasPut(t, n)
      BY <2>1 DEF HasPut
    <2> QED BY <1>7, <2>2 DEF RefsTold
  <1>10. \A u \in Threads : new[u] # n
    BY <1>2, <1>3, FreshNode, NoneIsNone
  <1>11. References(n)' = (References(n) \ {<<t, "held", k>>}) \cup {<<t, "put", 0>>}
    <2>1. \A i \in 1..MaxRefs : i <= held'[t][n] <=> i <= held[t][n] /\ i # k
      BY <1>3, <1>4
    <2>2. <<t, "put", 0>> \in Slots
      BY DEF Slots
    <2>3. \A i \in 1..MaxRefs :
            <<t, "held", i>> \in (References(n) \ {<<t, "held", k>>}) \cup {<<t, "put", 0>>}
              <=> i <= held'[t][n]
      BY <1>7, <2>1 DEF RefsTold
    <2>4. \A u \in Threads \ {t} : SameFor(u, n)
      BY <1>2, <1>4, <1>5 DEF SameFor, HasPut, At
    <2>5. HasPut(t, n)'
      BY <1>5 DEF HasPut, At
    <2>6. Becomes(t, n, (References(n) \ {<<t, "held", k>>}) \cup {<<t, "put", 0>>})
      BY <1>2, <1>5, <1>7, <2>2, <2>3, <2>4, <2>5, NoneIsNone DEF Becomes, RefsTold
    <2> QED BY <1>1, <1>6, <2>6, RefsBecome
  <1>12. \A m \in Nodes \ {n} : References(m)' = References(m)
    <2> SUFFICES ASSUME NEW m \in Nodes, m # n PROVE References(m)' = References(m)
      OBVIOUS
    <2>1. SameFor(t, m)
      BY <1>1, <1>2, <1>4, <1>5 DEF SameFor, HasPut, At, CallsOK, CallOK
    <2>2. \A u \in Threads : SameFor(u, m)
      BY <1>2, <1>4, <1>5, <2>1 DEF SameFor, HasPut, At
    <2> QED BY <1>1, <1>2, <1>6, <2>2, SameRefs
  <1>13. n \notin free_nodes /\ node[n].ref # 0
    BY <1>8, UsedNode
  <1>14. node[n].ref = Cardinality(References(n)')
    BY <1>1, <1>8, <1>9, <1>11, <1>13, Swapped
  <1>15. CallOK(t)'
    <2>1. lock # t /\ call[t].h = NoEntry /\ call[t].re = NoEntry /\ call[t].todo = {}
      BY <1>1, <1>2 DEF CallsOK, CallOK, Idle, At, Locked
    <2>2. call'[t].puts # <<>>
      BY <1>5
    <2> QED BY <1>2, <1>5, <2>1, <2>2 DEF CallOK, Idle, At, Locked
  <1>16. Counts(t, n)
    <2>1. Times(lru', entries)
      BY <1>1, <1>2, TimedTimes
    <2> QED BY <1>2, <1>4, <1>5, <1>12, <1>13, <1>14, <1>15, <2>1
            DEF Counts, Only, Idle, At, SameNode
  <1> QED BY <1>6, <1>8, <1>10, <1>16, CountsInv

(* A call that puts n, once it has done so.                                *)
LEMMA PutDone ==
    ASSUME TypeOK, CallsOK, NEW t \in Threads, call[t].pc \in {"put", "free"},
           call' = [call EXCEPT ![t] = AfterPut(@)]
    PROVE  /\ call' \in [Threads -> CallRec] /\ call'[t].pc = "idle"
           /\ call'[t].h = NoEntry /\ call'[t].re = NoEntry
           /\ call'[t].puts = <<>> /\ call'[t].todo = {}
           /\ \A u \in Threads \ {t} : call'[u] = call[u]
  <1>1. PICK c : c = AfterPut(call[t])
    OBVIOUS
  <1>2. /\ c \in CallRec /\ c.pc = "idle" /\ c.h = NoEntry /\ c.re = NoEntry
        /\ c.puts = <<>> /\ c.todo = {}
    BY <1>1, AfterPutIdle
  <1>3. call' = [call EXCEPT ![t] = c]
    BY <1>1
  <1> QED BY <1>2, <1>3 DEF TypeOK

LEMMA PutRefInv ==
    ASSUME IInv, NEW t \in Threads, PutRef(t)
    PROVE  IInv'
  <1>1. TypeOK /\ CallsOK /\ RefExact /\ Timed
    BY DEF IInv
  <1>2. At(t, "put") /\ call[t].puts # <<>>
    BY <1>1 DEF PutRef, At, CallsOK, CallOK
  <1>3. PICK n \in Nodes : call[t].puts = <<n>> /\ Head(call[t].puts) = n
    BY <1>1, <1>2, OnePut
  <1>4. /\ node[n].ref # 1 /\ node' = [node EXCEPT ![n].ref = AddRef(@, -1)]
        /\ call' = [call EXCEPT ![t] = AfterPut(@)]
        /\ UNCHANGED <<rmtable, free_nodes, entries, rm_entries, lru, lock, held, new, dropped>>
    BY <1>3 DEF PutRef
  <1>5. /\ call' \in [Threads -> CallRec] /\ call'[t].pc = "idle"
        /\ call'[t].h = NoEntry /\ call'[t].re = NoEntry
        /\ call'[t].puts = <<>> /\ call'[t].todo = {}
        /\ \A u \in Threads \ {t} : call'[u] = call[u]
    BY <1>1, <1>2, <1>4, PutDone DEF At
  <1>6. /\ node'[n].ref = AddRef(node[n].ref, -1) /\ SameNode(n)
        /\ \A m \in Nodes \ {n} : node'[m] = node[m]
    BY <1>1, <1>4 DEF TypeOK, SameNode
  <1>7. TypeOK'
    <2>1. node[n].ref \in Nat
      BY <1>1 DEF TypeOK
    <2>2. AddRef(node[n].ref, -1) \in Nat
      <3>1. -1 \in Int
        OBVIOUS
      <3> QED BY <2>1, <3>1, AddRefNat
    <2>3. node' \in [Nodes -> [ref : Nat, name : Names \cup {NoName},
                               state : {"NODE_ACTIVE", "NODE_EVICTED"}]]
      BY <1>1, <1>4, <2>2 DEF TypeOK
    <2> QED BY <1>1, <1>4, <1>5, <2>3 DEF TypeOK
  <1>8. RefsTold(n)
    BY <1>1, RefMember
  <1>9. <<t, "put", 0>> \in References(n)
    BY <1>2, <1>3, <1>8 DEF RefsTold, HasPut, At
  <1>10. \A u \in Threads : new[u] # n
    BY <1>3, FreshNode, NoneIsNone
  <1>11. n \notin free_nodes /\ node[n].ref # 0
    BY <1>9, UsedNode
  <1>12. call[t].re = NoEntry
    BY <1>1, <1>2 DEF CallsOK, CallOK, At
  <1>13. References(n)' = References(n) \ {<<t, "put", 0>>}
    <2>1. \A u \in Threads \ {t} : SameFor(u, n)
      BY <1>4, <1>5 DEF SameFor, HasPut, At
    <2>2. ~ HasPut(t, n)'
      BY <1>5 DEF HasPut
    <2>3. Becomes(t, n, References(n) \ {<<t, "put", 0>>})
      BY <1>4, <1>5, <1>8, <1>12, <2>1, <2>2, NoneIsNone DEF Becomes, RefsTold
    <2> QED BY <1>1, <1>7, <2>3, RefsBecome
  <1>14. \A m \in Nodes \ {n} : References(m)' = References(m)
    <2> SUFFICES ASSUME NEW m \in Nodes, m # n PROVE References(m)' = References(m)
      OBVIOUS
    <2>1. ~ HasPut(t, m) /\ ~ HasPut(t, m)'
      BY <1>3, <1>5 DEF HasPut
    <2>2. \A u \in Threads : SameFor(u, m)
      BY <1>4, <1>5, <1>12, <2>1 DEF SameFor, HasPut, At
    <2> QED BY <1>1, <1>4, <1>7, <2>2, SameRefs
  <1>15. node'[n].ref = Cardinality(References(n)')
    BY <1>1, <1>6, <1>9, <1>11, <1>13, Lost
  <1>16. node'[n].ref # 0
    <2>1. PICK c \in Nat : c = node[n].ref /\ c < RefMod
      BY <1>1, <1>11, RefsFiniteAll DEF TypeOK, RefExact, Countable
    <2>2. c # 0 /\ c # 1
      BY <1>4, <1>11, <2>1
    <2>3. (c + (-1)) % RefMod = c - 1
      BY <2>1, <2>2, RefsFit
    <2> QED BY <1>6, <2>1, <2>2, <2>3 DEF AddRef
  <1>17. CallOK(t)'
    BY <1>1, <1>2, <1>4, <1>5 DEF CallsOK, CallOK, Idle, At, Locked
  <1>18. Counts(t, n)
    <2>1. Times(lru', entries)
      BY <1>1, <1>4, TimedTimes
    <2> QED BY <1>2, <1>4, <1>5, <1>6, <1>14, <1>15, <1>16, <1>17, <2>1
            DEF Counts, Only, Idle, At
  <1> QED BY <1>7, <1>9, <1>10, <1>18, CountsInv

LEMMA PutFinalizeInv ==
    ASSUME IInv, NEW t \in Threads, PutFinalize(t)
    PROVE  IInv'
  <1>1. TypeOK /\ CallsOK /\ RefExact /\ Timed
    BY DEF IInv
  <1>2. At(t, "put") /\ call[t].puts # <<>>
    BY <1>1 DEF PutFinalize, At, CallsOK, CallOK
  <1>3. PICK n \in Nodes : call[t].puts = <<n>> /\ Head(call[t].puts) = n
    BY <1>1, <1>2, OnePut
  <1>4. /\ MayHold(t) /\ Hold(t, n, 1)
        /\ call' = [call EXCEPT ![t] = AfterPut(@)]
        /\ UNCHANGED <<rmtable, node, free_nodes, entries, rm_entries, lru, lock, new, dropped>>
    BY <1>3 DEF PutFinalize
  <1>5. /\ call' \in [Threads -> CallRec] /\ call'[t].pc = "idle"
        /\ call'[t].h = NoEntry /\ call'[t].re = NoEntry
        /\ call'[t].puts = <<>> /\ call'[t].todo = {}
        /\ \A u \in Threads \ {t} : call'[u] = call[u]
    BY <1>1, <1>2, <1>4, PutDone DEF At
  <1>6. held[t][n] \in Nat /\ held[t][n] + 1 \in 1..MaxRefs
    BY <1>1, <1>4, MayHoldRoom
  <1>7. PICK k \in 1..MaxRefs : k = held[t][n] + 1
    BY <1>6
  <1>8. /\ held' = [held EXCEPT ![t][n] = k]
        /\ held'[t][n] = k /\ \A m \in Nodes \ {n} : held'[t][m] = held[t][m]
        /\ \A u \in Threads \ {t} : held'[u] = held[u]
    BY <1>1, <1>4, <1>7 DEF Hold, TypeOK
  <1>9. TypeOK'
    <2>1. held' \in [Threads -> [Nodes -> 0..MaxRefs]]
      BY <1>1, <1>7, <1>8 DEF TypeOK
    <2> QED BY <1>1, <1>4, <1>5, <2>1 DEF TypeOK
  <1>10. RefsTold(n)
    BY <1>1, RefMember
  <1>11. <<t, "put", 0>> \in References(n)
    BY <1>2, <1>3, <1>10 DEF RefsTold, HasPut, At
  <1>12. \A u \in Threads : new[u] # n
    BY <1>3, FreshNode, NoneIsNone
  <1>13. n \notin free_nodes /\ node[n].ref # 0
    BY <1>11, UsedNode
  <1>14. call[t].re = NoEntry
    BY <1>1, <1>2 DEF CallsOK, CallOK, At
  <1>15. <<t, "held", k>> \notin References(n)
    <2>1. ~ (k <= held[t][n])
      BY <1>6, <1>7
    <2> QED BY <1>10, <2>1 DEF RefsTold
  <1>16. References(n)' = (References(n) \ {<<t, "put", 0>>}) \cup {<<t, "held", k>>}
    <2>1. \A i \in 1..MaxRefs : i <= held'[t][n] <=> i <= held[t][n] \/ i = k
      BY <1>6, <1>7, <1>8
    <2>2. <<t, "held", k>> \in Slots
      BY DEF Slots
    <2>3. \A i \in 1..MaxRefs :
            <<t, "held", i>> \in (References(n) \ {<<t, "put", 0>>}) \cup {<<t, "held", k>>}
              <=> i <= held'[t][n]
      BY <1>10, <2>1 DEF RefsTold
    <2>4. \A u \in Threads \ {t} : SameFor(u, n)
      BY <1>4, <1>5, <1>8 DEF SameFor, HasPut, At
    <2>5. ~ HasPut(t, n)'
      BY <1>5 DEF HasPut
    <2>6. Becomes(t, n, (References(n) \ {<<t, "put", 0>>}) \cup {<<t, "held", k>>})
      BY <1>4, <1>5, <1>10, <1>14, <2>2, <2>3, <2>4, <2>5, NoneIsNone DEF Becomes, RefsTold
    <2> QED BY <1>1, <1>9, <2>6, RefsBecome
  <1>17. \A m \in Nodes \ {n} : References(m)' = References(m)
    <2> SUFFICES ASSUME NEW m \in Nodes, m # n PROVE References(m)' = References(m)
      OBVIOUS
    <2>1. ~ HasPut(t, m) /\ ~ HasPut(t, m)'
      BY <1>3, <1>5 DEF HasPut
    <2>2. \A u \in Threads : SameFor(u, m)
      BY <1>4, <1>5, <1>8, <1>14, <2>1 DEF SameFor, HasPut, At
    <2> QED BY <1>1, <1>4, <1>9, <2>2, SameRefs
  <1>18. node[n].ref = Cardinality(References(n)')
    BY <1>1, <1>11, <1>13, <1>15, <1>16, Swapped
  <1>19. CallOK(t)'
    BY <1>1, <1>2, <1>4, <1>5 DEF CallsOK, CallOK, Idle, At, Locked
  <1>20. Counts(t, n)
    <2>1. Times(lru', entries)
      BY <1>1, <1>4, TimedTimes
    <2> QED BY <1>2, <1>4, <1>5, <1>8, <1>13, <1>17, <1>18, <1>19, <2>1
            DEF Counts, Only, Idle, At, SameNode
  <1> QED BY <1>9, <1>11, <1>12, <1>20, CountsInv

(* The last reference of n is the one its put takes away.                  *)
LEMMA LastNode ==
    ASSUME IInv, NEW t \in Threads, At(t, "put"), NEW n \in Nodes, call[t].puts = <<n>>,
           node[n].ref = 1
    PROVE  /\ References(n) = {<<t, "put", 0>>} /\ n \notin free_nodes \cup entries
           /\ \A u \in Threads : /\ new[u] # n /\ call[u].re # n /\ held[u][n] = 0
                                 /\ u # t => call[u].puts # <<n>>
           /\ rmtable /\ n \notin rm_entries => node[n].name \in dropped
  <1>1. TypeOK /\ CallsOK /\ RefExact /\ Kept
    BY DEF IInv
  <1>2. RefsTold(n)
    BY <1>1, RefMember
  <1>3. <<t, "put", 0>> \in References(n)
    BY <1>2 DEF RefsTold, HasPut, At
  <1>4. n \notin free_nodes /\ \A u \in Threads : At(u, "free") => call[u].puts # <<n>>
    BY <1>3, UsedNode
  <1>5. References(n) = {<<t, "put", 0>>}
    BY <1>1, <1>3, <1>4, OneRef
  <1>6. n \notin entries
    BY <1>2, <1>5, NoneIsNone DEF RefsTold
  <1>7. ASSUME NEW u \in Threads
        PROVE  /\ new[u] # n /\ call[u].re # n /\ held[u][n] = 0
               /\ u # t => call[u].puts # <<n>>
    <2>1. new[u] # n /\ call[u].re # n
      BY <1>2, <1>5 DEF RefsTold
    <2>2. u # t => ~ HasPut(u, n)
      BY <1>2, <1>5 DEF RefsTold
    <2>3. held[u][n] \in 0..MaxRefs
      BY <1>1 DEF TypeOK
    <2>4. 1 \in 1..MaxRefs => ~ (1 <= held[u][n])
      BY <1>2, <1>5 DEF RefsTold
    <2>5. held[u][n] = 0
      BY <2>3, <2>4, RefsFit
    <2> QED BY <1>4, <2>1, <2>2, <2>5 DEF HasPut
  <1>8. ASSUME rmtable, n \notin rm_entries PROVE node[n].name \in dropped
    <2>1. InPlace(n)
      BY <1>1, <1>8 DEF Kept
    <2> QED BY <1>4, <1>6, <1>7, <1>8, <2>1 DEF InPlace, At
  <1> QED BY <1>4, <1>5, <1>6, <1>7, <1>8

LEMMA PutLastInv ==
    ASSUME IInv, NEW t \in Threads, PutLast(t)
    PROVE  IInv'
  <1>1. /\ TypeOK /\ CallsOK /\ Timed /\ Fresh /\ Spare /\ Going /\ RmUsed /\ RefExact
        /\ Kept /\ NoLostNode /\ OneEntryPerName /\ Limits
    BY DEF IInv
  <1>2. At(t, "put") /\ call[t].puts # <<>>
    BY <1>1 DEF PutLast, At, CallsOK, CallOK
  <1>3. PICK n \in Nodes : call[t].puts = <<n>> /\ Head(call[t].puts) = n
    BY <1>1, <1>2, OnePut
  <1>4. PICK old : old = Lookup(rm_entries, node[n].name)
    OBVIOUS
  <1>5. /\ node[n].ref = 1 /\ node' = [node EXCEPT ![n].ref = 0]
        /\ rm_entries' = IF rmtable THEN rm_entries \ {old} ELSE rm_entries
        /\ call' = [call EXCEPT ![t] = IF rmtable /\ old = NoEntry
                                       THEN AfterPut(@) ELSE [@ EXCEPT !.pc = "free"]]
        /\ UNCHANGED <<rmtable, free_nodes, entries, lru, lock, held, new, dropped>>
    BY <1>3, <1>4 DEF PutLast
  <1>6. /\ References(n) = {<<t, "put", 0>>} /\ n \notin free_nodes \cup entries
        /\ \A u \in Threads : /\ new[u] # n /\ call[u].re # n /\ held[u][n] = 0
                              /\ u # t => call[u].puts # <<n>>
        /\ rmtable /\ n \notin rm_entries => node[n].name \in dropped
    BY <1>2, <1>3, <1>5, LastNode
  <1>7. /\ old # NoEntry => old \in rm_entries /\ node[old].name = node[n].name
        /\ old = NoEntry => \A m \in rm_entries : node[m].name # node[n].name
    BY <1>1, <1>4, LookupFinds DEF TypeOK
  <1>8. rm_entries' \subseteq rm_entries /\ n \notin rm_entries'
    <2>1. n \in rm_entries => rmtable
      BY <1>1 DEF Limits
    <2>2. n \in rm_entries => old = n
      BY <1>1, <1>7 DEF OneEntryPerName
    <2> QED BY <1>5, <2>1, <2>2
  <1>9. /\ call'[t].pc = IF rmtable /\ old = NoEntry THEN "idle" ELSE "free"
        /\ call'[t].puts = IF rmtable /\ old = NoEntry THEN <<>> ELSE <<n>>
        /\ call'[t].h = NoEntry /\ call'[t].re = NoEntry /\ call'[t].todo = {}
        /\ call' \in [Threads -> CallRec]
        /\ \A u \in Threads \ {t} : call'[u] = call[u]
    <2>1. CASE rmtable /\ old = NoEntry
      <3>1. call' = [call EXCEPT ![t] = AfterPut(@)]
        BY <1>5, <2>1
      <3> QED BY <1>1, <1>2, <2>1, <3>1, PutDone DEF At
    <2>2. CASE ~ (rmtable /\ old = NoEntry)
      <3>1. call' = [call EXCEPT ![t] = [@ EXCEPT !.pc = "free"]]
        BY <1>5, <2>2
      <3>2. call[t].h = NoEntry /\ call[t].re = NoEntry /\ call[t].todo = {}
        BY <1>1, <1>2 DEF CallsOK, CallOK, At
      <3> QED BY <1>1, <1>3, <2>2, <3>1, <3>2 DEF TypeOK, CallRec
    <2> QED BY <2>1, <2>2
  <1>10. /\ node'[n].ref = 0 /\ SameNode(n)
         /\ \A m \in Nodes \ {n} : node'[m] = node[m]
    BY <1>1, <1>5 DEF TypeOK, SameNode
  <1>11. TypeOK'
    <2>1. node' \in [Nodes -> [ref : Nat, name : Names \cup {NoName},
                               state : {"NODE_ACTIVE", "NODE_EVICTED"}]]
      BY <1>1, <1>5 DEF TypeOK
    <2> QED BY <1>1, <1>5, <1>8, <1>9, <2>1 DEF TypeOK
  <1>12. ~ HasPut(t, n)'
    BY <1>9 DEF HasPut, At
  <1>13. References(n)' = {}
    <2>1. \A u \in Threads \ {t} : SameFor(u, n)
      BY <1>5, <1>9 DEF SameFor, HasPut, At
    <2>2. Becomes(t, n, {})
      BY <1>5, <1>6, <1>9, <1>12, <2>1, RefsFit, NoneIsNone DEF Becomes
    <2> QED BY <1>1, <1>11, <2>2, RefsBecome
  <1>14. call[t].re = NoEntry
    BY <1>1, <1>2 DEF CallsOK, CallOK, At
  <1>15. ASSUME NEW m \in Nodes, m # n PROVE References(m)' = References(m)
    <2>1. ~ HasPut(t, m) /\ ~ HasPut(t, m)'
      BY <1>3, <1>9, <1>15 DEF HasPut
    <2>2. \A u \in Threads : SameFor(u, m)
      BY <1>5, <1>9, <1>14, <2>1 DEF SameFor, HasPut, At
    <2> QED BY <1>1, <1>5, <1>11, <2>2, SameRefs
  <1>16. lock # t
    BY <1>1, <1>2 DEF CallsOK, CallOK, At, Locked
  <1>17. CallsOK'
    <2>1. \A u \in Threads : u # t => CallOK(u)'
      BY <1>1, <1>5, <1>9, OthersCallOK DEF Only
    <2>2. CallOK(t)'
      <3>1. CASE rmtable /\ old = NoEntry
        <4>1. call'[t].pc = "idle" /\ call'[t].puts = <<>>
          BY <1>9, <3>1
        <4> QED BY <1>5, <1>9, <1>16, <4>1 DEF CallOK, Idle, At, Locked
      <3>2. CASE ~ (rmtable /\ old = NoEntry)
        <4>1. call'[t].pc = "free" /\ call'[t].puts # <<>>
          BY <1>9, <3>2
        <4> QED BY <1>5, <1>9, <1>16, <4>1 DEF CallOK, Idle, At, Locked
      <3> QED BY <3>1, <3>2
    <2> QED BY <2>1, <2>2 DEF CallsOK
  <1>18. OneEntryPerName' /\ Limits' /\ Insertings'
    <2>1. Quiet(t, NoEntry)
      BY <1>5, <1>8, <1>9, <1>10, <1>16, NoneIsNone DEF Quiet, Only, SameNode, Locked
    <2> QED BY <2>1, QuietTables
  <1>19. Timed'
    BY <1>1, <1>5 DEF Timed
  <1>20. Fresh'
    BY <1>1, <1>5, <1>6, <1>8, <1>10 DEF Fresh, TypeOK
  <1>21. Spare'
    <2> SUFFICES ASSUME NEW m \in free_nodes
                 PROVE  /\ References(m)' = {} /\ m \notin rm_entries'
                        /\ \A u \in Threads : call'[u].puts # <<m>>
      BY <1>5 DEF Spare
    <2>1. m \in Nodes /\ m # n
      BY <1>1, <1>6 DEF TypeOK
    <2>2. call'[t].puts # <<m>>
      BY <1>9, <2>1
    <2> QED BY <1>1, <1>8, <1>9, <1>15, <2>1, <2>2 DEF Spare
  <1>22. Going'
    <2> SUFFICES ASSUME NEW u \in Threads, At(u, "free")' PROVE
             /\ node'[Head(call'[u].puts)].ref = 0
             /\ Head(call'[u].puts) \notin free_nodes' \cup rm_entries'
             /\ \A w \in Threads : At(w, "free")' /\ call'[w].puts = call'[u].puts => w = u
      BY DEF Going
    <2>1. CASE u = t
      <3>1. call'[t].puts = <<n>> /\ Head(call'[t].puts) = n
        BY <1>9, <2>1 DEF At
      <3>2. \A w \in Threads \ {t} : call'[w].puts # <<n>>
        BY <1>6, <1>9
      <3> QED BY <1>5, <1>6, <1>8, <1>10, <2>1, <3>1, <3>2
    <2>2. CASE u # t
      <3>1. At(u, "free") /\ call'[u] = call[u] /\ call[u].puts # <<>>
        BY <1>1, <1>9, <2>2 DEF At, CallsOK, CallOK
      <3>2. PICK m \in Nodes : call[u].puts = <<m>> /\ Head(call[u].puts) = m
        BY <1>1, <3>1, OnePut
      <3>3. m # n
        BY <1>6, <2>2, <3>2
      <3>4. call'[t].puts # <<m>>
        BY <1>9, <3>3
      <3>5. \A w \in Threads \ {t} : At(w, "free")' => At(w, "free") /\ call'[w] = call[w]
        BY <1>9 DEF At
      <3>6. /\ node[m].ref = 0 /\ m \notin free_nodes \cup rm_entries
            /\ \A w \in Threads : At(w, "free") /\ call[w].puts = call[u].puts => w = u
        BY <1>1, <3>1, <3>2 DEF Going
      <3> QED BY <1>5, <1>8, <1>10, <3>1, <3>2, <3>3, <3>4, <3>5, <3>6
    <2> QED BY <2>1, <2>2
  <1>23. RmUsed'
    BY <1>1, <1>8, <1>10 DEF RmUsed, TypeOK
  <1>24. RefExact'
    <2>1. Cardinality(References(n)') = 0
      BY <1>13, FS_EmptySet
    <2> QED BY <1>1, <1>5, <1>10, <1>15, <2>1 DEF RefExact
  <1>25. rmtable /\ old # n => node[n].name \in dropped
    <2>1. n \in rm_entries => old = n
      BY <1>1, <1>7 DEF OneEntryPerName
    <2> QED BY <1>6, <2>1
  <1>26. Kept'
    <2> SUFFICES ASSUME rmtable, NEW m \in Nodes PROVE InPlace(m)'
      BY <1>5 DEF Kept
    <2>1. InPlace(m) /\ node'[m].name = node[m].name
      BY <1>1, <1>10 DEF Kept, SameNode
    <2>2. CASE m = n
      <3>1. CASE old # n
        BY <1>5, <1>25, <2>1, <2>2, <3>1 DEF InPlace
      <3>2. CASE old = n
        BY <1>9, <2>2, <3>2, NoneIsNone DEF InPlace
      <3> QED BY <3>1, <3>2
    <2>3. CASE m = old /\ m # n
      BY <1>5, <1>7, <1>25, <2>1, <2>3, NoneIsNone DEF InPlace
    <2>4. CASE m # n /\ m # old
      <3>1. ASSUME NEW u \in Threads,
                   \/ new[u] = m \/ call[u].re = m
                   \/ call[u].puts = <<m>> /\ call[u].pc \in {"insert_rm", "free"}
            PROVE  \/ new'[u] = m \/ call'[u].re = m
                   \/ call'[u].puts = <<m>> /\ call'[u].pc \in {"insert_rm", "free"}
        <4>1. CASE u = t
          BY <1>2, <1>5, <1>14, <3>1, <4>1, NoneIsNone DEF At
        <4>2. CASE u # t
          BY <1>5, <1>9, <3>1, <4>2
        <4> QED BY <4>1, <4>2
      <3> QED BY <1>5, <2>1, <2>4, <3>1 DEF InPlace
    <2> QED BY <2>2, <2>3, <2>4
  <1>27. NoLostNode'
    <2> SUFFICES ASSUME NEW m \in Nodes \ free_nodes, node'[m].ref = 0
                 PROVE  BeingFreed(m)' \/ (rmtable /\ node'[m].name \in dropped)
      BY <1>5 DEF NoLostNode
    <2>1. CASE m = n
      <3>1. CASE rmtable /\ old = NoEntry
        BY <1>10, <1>25, <2>1, <3>1, NoneIsNone DEF SameNode
      <3>2. CASE ~ (rmtable /\ old = NoEntry)
        <4>1. call'[t].pc = "free" /\ Head(call'[t].puts) = n
          BY <1>9, <3>2
        <4> QED BY <2>1, <4>1 DEF BeingFreed, At
      <3> QED BY <3>1, <3>2
    <2>2. CASE m # n
      <3>1. BeingFreed(m) \/ (rmtable /\ node[m].name \in dropped)
        BY <1>1, <1>10, <2>2 DEF NoLostNode
      <3>2. ASSUME NEW u \in Threads, At(u, "free") PROVE call'[u] = call[u]
        BY <1>2, <1>9, <3>2 DEF At
      <3> QED BY <1>10, <2>2, <3>1, <3>2 DEF BeingFreed, At
    <2> QED BY <2>1, <2>2
  <1> QED BY <1>11, <1>17, <1>18, <1>19, <1>20, <1>21, <1>22, <1>23, <1>24, <1>26, <1>27
          DEF IInv

LEMMA FreeInv ==
    ASSUME IInv, NEW t \in Threads, Free(t)
    PROVE  IInv'
  <1>1. /\ TypeOK /\ CallsOK /\ Timed /\ Fresh /\ Spare /\ Going /\ RmUsed /\ RefExact
        /\ Kept /\ NoLostNode
    BY DEF IInv
  <1>2. At(t, "free") /\ call[t].puts # <<>>
    BY <1>1 DEF Free, At, CallsOK, CallOK
  <1>3. PICK n \in Nodes : call[t].puts = <<n>> /\ Head(call[t].puts) = n
    BY <1>1, <1>2, OnePut
  <1>4. /\ node' = [node EXCEPT ![n] = [Unused EXCEPT !.ref = node[n].ref]]
        /\ free_nodes' = free_nodes \cup {n}
        /\ call' = [call EXCEPT ![t] = AfterPut(@)]
        /\ UNCHANGED <<rmtable, entries, rm_entries, lru, lock, held, new, dropped>>
    BY <1>3 DEF Free
  <1>5. /\ n \notin free_nodes \cup rm_entries
        /\ node[n].ref = 0 /\ References(n) = {} /\ Untouched(n)
        /\ \A u \in Threads : u # t => call[u].puts # <<n>>
    BY <1>2, <1>3, GoingNode
  <1>6. /\ call' \in [Threads -> CallRec] /\ call'[t].pc = "idle"
        /\ call'[t].h = NoEntry /\ call'[t].re = NoEntry
        /\ call'[t].puts = <<>> /\ call'[t].todo = {}
        /\ \A u \in Threads \ {t} : call'[u] = call[u]
    BY <1>1, <1>2, <1>4, PutDone DEF At
  <1>7. \A m \in Nodes \ {n} : node'[m] = node[m]
    BY <1>1, <1>4 DEF TypeOK
  <1>8. TypeOK'
    <2>1. [Unused EXCEPT !.ref = node[n].ref]
             \in [ref : Nat, name : Names \cup {NoName}, state : {"NODE_ACTIVE", "NODE_EVICTED"}]
      BY <1>5 DEF Unused
    <2>2. node' \in [Nodes -> [ref : Nat, name : Names \cup {NoName},
                               state : {"NODE_ACTIVE", "NODE_EVICTED"}]]
      BY <1>1, <1>4, <2>1 DEF TypeOK
    <2> QED BY <1>1, <1>4, <1>6, <2>2 DEF TypeOK
  <1>9. call[t].re = NoEntry /\ lock # t
    BY <1>1, <1>2 DEF CallsOK, CallOK, At, Locked
  <1>10. ASSUME NEW m \in Nodes PROVE References(m)' = References(m)
    <2>1. ~ HasPut(t, m) /\ ~ HasPut(t, m)'
      BY <1>2, <1>6 DEF HasPut
    <2>2. \A u \in Threads : SameFor(u, m)
      BY <1>4, <1>6, <1>9, <2>1 DEF SameFor, HasPut, At
    <2> QED BY <1>1, <1>4, <1>8, <2>2, SameRefs
  <1>11. CallsOK'
    <2>1. \A u \in Threads : u # t => CallOK(u)'
      BY <1>1, <1>4, <1>6, OthersCallOK DEF Only
    <2>2. CallOK(t)'
      BY <1>4, <1>6, <1>9 DEF CallOK, Idle, At, Locked
    <2> QED BY <2>1, <2>2 DEF CallsOK
  <1>12. OneEntryPerName' /\ Limits' /\ Insertings'
    <2>1. Quiet(t, n)
      BY <1>4, <1>5, <1>6, <1>7, <1>9 DEF Quiet, Only, SameNode, Locked, Untouched
    <2> QED BY <2>1, QuietTables
  <1>13. Timed'
    BY <1>1, <1>4 DEF Timed
  <1>14. Fresh'
    BY <1>1, <1>4, <1>5, <1>7 DEF Fresh, TypeOK, Untouched
  <1>15. Spare'
    <2> SUFFICES ASSUME NEW m \in free_nodes \cup {n}
                 PROVE  /\ References(m)' = {} /\ m \notin rm_entries
                        /\ \A u \in Threads : call'[u].puts # <<m>>
      BY <1>4 DEF Spare
    <2>1. m \in Nodes
      BY <1>1 DEF TypeOK
    <2>2. References(m)' = {} /\ m \notin rm_entries
      BY <1>1, <1>5, <1>10, <2>1 DEF Spare
    <2>3. call'[t].puts # <<m>>
      BY <1>6
    <2> QED BY <1>1, <1>5, <1>6, <2>2, <2>3 DEF Spare
  <1>16. Going'
    <2> SUFFICES ASSUME NEW u \in Threads, At(u, "free")' PROVE
             /\ node'[Head(call'[u].puts)].ref = 0
             /\ Head(call'[u].puts) \notin free_nodes' \cup rm_entries'
             /\ \A w \in Threads : At(w, "free")' /\ call'[w].puts = call'[u].puts => w = u
      BY DEF Going
    <2>1. At(u, "free") /\ u # t /\ call'[u] = call[u] /\ call[u].puts # <<>>
      BY <1>1, <1>6 DEF At, CallsOK, CallOK
    <2>2. PICK m \in Nodes : call[u].puts = <<m>> /\ Head(call[u].puts) = m
      BY <1>1, <2>1, OnePut
    <2>3. m # n
      BY <1>5, <2>1, <2>2
    <2>4. \A w \in Threads : At(w, "free")' => At(w, "free") /\ call'[w] = call[w]
      BY <1>6 DEF At
    <2>5. /\ node[m].ref = 0 /\ m \notin free_nodes \cup rm_entries
          /\ \A w \in Threads : At(w, "free") /\ call[w].puts = call[u].puts => w = u
      BY <1>1, <2>1, <2>2 DEF Going
    <2> QED BY <1>4, <1>7, <2>1, <2>2, <2>3, <2>4, <2>5
  <1>17. RmUsed'
    BY <1>1, <1>4, <1>5, <1>7 DEF RmUsed, TypeOK
  <1>18. RefExact'
    BY <1>1, <1>4, <1>7, <1>10 DEF RefExact
  <1>19. Kept'
    <2> SUFFICES ASSUME rmtable, NEW m \in Nodes PROVE InPlace(m)'
      BY <1>4 DEF Kept
    <2>1. CASE m = n
      BY <1>4, <2>1 DEF InPlace
    <2>2. CASE m # n
      <3>1. InPlace(m) /\ node'[m] = node[m]
        BY <1>1, <1>7, <2>2 DEF Kept
      <3>2. ASSUME NEW u \in Threads,
                   \/ new[u] = m \/ call[u].re = m
                   \/ call[u].puts = <<m>> /\ call[u].pc \in {"insert_rm", "free"}
            PROVE  \/ new'[u] = m \/ call'[u].re = m
                   \/ call'[u].puts = <<m>> /\ call'[u].pc \in {"insert_rm", "free"}
        <4>1. CASE u = t
          BY <1>3, <1>4, <1>9, <2>2, <3>2, <4>1, NoneIsNone
        <4>2. CASE u # t
          BY <1>4, <1>6, <3>2, <4>2
        <4> QED BY <4>1, <4>2
      <3> QED BY <1>4, <3>1, <3>2 DEF InPlace
    <2> QED BY <2>1, <2>2
  <1>20. NoLostNode'
    <2> SUFFICES ASSUME NEW m \in Nodes \ free_nodes', node'[m].ref = 0
                 PROVE  BeingFreed(m)' \/ (rmtable /\ node'[m].name \in dropped)
      BY <1>4 DEF NoLostNode
    <2>1. m # n /\ m \notin free_nodes /\ node'[m] = node[m]
      BY <1>4, <1>7
    <2>2. BeingFreed(m) \/ (rmtable /\ node[m].name \in dropped)
      BY <1>1, <2>1 DEF NoLostNode
    <2>3. ASSUME NEW u \in Threads, At(u, "free"), Head(call[u].puts) = m PROVE call'[u] = call[u]
      BY <1>3, <1>6, <2>1, <2>3 DEF At
    <2> QED BY <2>1, <2>2, <2>3 DEF BeingFreed, At
  <1> QED BY <1>8, <1>11, <1>12, <1>13, <1>14, <1>15, <1>16, <1>17, <1>18, <1>19, <1>20 DEF IInv

LEMMA FoundInv ==
    ASSUME IInv, NEW t \in Threads, Idle(t), NEW name, Found(t, Lookup(entries, name))
    PROVE  IInv'
  <1>1. TypeOK /\ Timed /\ entries \subseteq Nodes
    BY DEF IInv, TypeOK
  <1>2. PICK n : n = Lookup(entries, name)
    OBVIOUS
  <1>3. /\ n # NoEntry /\ MayHold(t)
        /\ node' = [node EXCEPT ![n].ref = AddRef(@, 1)]
        /\ lru' = Touched(n) /\ Hold(t, n, 1)
        /\ UNCHANGED <<rmtable, free_nodes, entries, rm_entries, lock, call, new, dropped>>
    BY <1>2 DEF Found
  <1>4. n \in entries /\ n \in Nodes
    BY <1>1, <1>2, <1>3, LookupFinds
  <1>5. Times(lru', entries)
    <2>1. Times(Touched(n), entries \cup {n})
      BY <1>1, <1>4, TimedTimes, TouchedTimes
    <2>2. entries \cup {n} = entries
      BY <1>4
    <2> QED BY <1>3, <2>1, <2>2
  <1> QED BY <1>3, <1>4, <1>5, GotInv

LEMMA GetInv ==
    ASSUME IInv, NEW t \in Threads, NEW n \in Nodes, xcache_get(t, n)
    PROVE  IInv'
  <1>1. Times(lru', entries)
    BY TimedTimes DEF IInv, xcache_get
  <1> QED BY <1>1, GotInv DEF xcache_get

-----------------------------------------------------------------------------
(* Nodes moved between the tables.                                         *)

(* A step that may change the references of m alone, and puts no other     *)
(* node into rm_entries.                                                   *)
Moves(t, m) ==
    /\ Only(t) /\ ~ At(t, "free") /\ ~ At(t, "free")' /\ UNCHANGED <<rmtable, free_nodes>>
    /\ m \in Nodes => /\ References(m) # {} /\ node'[m].ref # 0
                      /\ node'[m].ref = Cardinality(References(m)')
                      /\ node'[m].name = node[m].name
    /\ \A n \in Nodes \ {m} : node'[n] = node[n] /\ References(n)' = References(n)
    /\ rm_entries' \subseteq rm_entries \cup {m} /\ dropped \subseteq dropped'
    /\ \A u \in Threads : new'[u] \in {new[u], NoEntry} /\ (m \in Nodes => new'[u] # m)
    /\ call'[t].puts \in {call[t].puts, <<m>>, <<>>}

LEMMA MovesKeep ==
    ASSUME IInv, TypeOK', NEW t \in Threads, NEW m, Moves(t, m)
    PROVE  Fresh' /\ Spare' /\ Going' /\ RmUsed' /\ RefExact' /\ NoLostNode'
  <1>1. TypeOK /\ CallsOK /\ Fresh /\ Spare /\ Going /\ RmUsed /\ RefExact /\ NoLostNode
    BY DEF IInv
  <1>2. UNCHANGED <<rmtable, free_nodes>> /\ \A n \in Nodes \ {m} : node'[n] = node[n]
    BY DEF Moves
  <1>3. m \in Nodes => /\ m \notin free_nodes
                       /\ \A u \in Threads : At(u, "free") => call[u].puts # <<m>>
    BY UsedNode DEF Moves
  <1>4. Fresh'
    <2> SUFFICES ASSUME NEW u \in Threads, new'[u] # NoEntry
                 PROVE  /\ new'[u] \notin free_nodes' \cup rm_entries'
                        /\ node'[new'[u]].ref = 1 /\ node'[new'[u]].state = "NODE_ACTIVE"
      BY DEF Fresh
    <2>1. new'[u] = new[u] /\ new'[u] \in Nodes /\ new'[u] # m
      BY <1>1 DEF Moves, TypeOK
    <2> QED BY <1>1, <1>2, <2>1 DEF Fresh, Moves
  <1>5. Spare'
    <2> SUFFICES ASSUME NEW n \in free_nodes
                 PROVE  /\ References(n)' = {} /\ n \notin rm_entries'
                        /\ \A u \in Threads : call'[u].puts # <<n>>
      BY <1>2 DEF Spare
    <2>1. n \in Nodes /\ n # m
      BY <1>1, <1>3 DEF TypeOK
    <2>2. References(n)' = {} /\ n \notin rm_entries'
      BY <1>1, <2>1 DEF Spare, Moves
    <2>3. call'[t].puts # <<n>>
      BY <1>1, <2>1 DEF Spare, Moves
    <2> QED BY <1>1, <2>2, <2>3 DEF Spare, Moves, Only
  <1>6. \A u \in Threads : At(u, "free")' => At(u, "free") /\ call'[u] = call[u]
    BY DEF Moves, Only, At
  <1>7. \A u \in Threads : At(u, "free") => At(u, "free")' /\ call'[u] = call[u]
    BY DEF Moves, Only, At
  <1>8. Going'
    <2> SUFFICES ASSUME NEW u \in Threads, At(u, "free")' PROVE
             /\ node'[Head(call'[u].puts)].ref = 0
             /\ Head(call'[u].puts) \notin free_nodes' \cup rm_entries'
             /\ \A w \in Threads : At(w, "free")' /\ call'[w].puts = call'[u].puts => w = u
      BY DEF Going
    <2>1. At(u, "free") /\ call'[u] = call[u] /\ call[u].puts # <<>>
      BY <1>1, <1>6 DEF At, CallsOK, CallOK
    <2>2. PICK n \in Nodes : call[u].puts = <<n>> /\ Head(call[u].puts) = n
      BY <1>1, <2>1, OnePut
    <2>3. n # m
      BY <1>3, <2>1, <2>2
    <2>4. /\ node[n].ref = 0 /\ n \notin free_nodes \cup rm_entries
          /\ \A w \in Threads : At(w, "free") /\ call[w].puts = call[u].puts => w = u
      BY <1>1, <2>1, <2>2 DEF Going
    <2>5. n \notin rm_entries'
      BY <2>3, <2>4 DEF Moves
    <2> QED BY <1>2, <1>6, <2>1, <2>2, <2>3, <2>4, <2>5
  <1>9. RmUsed'
    BY <1>1, <1>2 DEF RmUsed, TypeOK, Moves
  <1>10. RefExact'
    BY <1>1, <1>2 DEF RefExact, Moves
  <1>11. NoLostNode'
    <2> SUFFICES ASSUME NEW n \in Nodes \ free_nodes, node'[n].ref = 0
                 PROVE  BeingFreed(n)' \/ (rmtable /\ node'[n].name \in dropped')
      BY <1>2 DEF NoLostNode
    <2>1. n # m /\ node'[n] = node[n]
      BY <1>2 DEF Moves
    <2>2. BeingFreed(n) \/ (rmtable /\ node[n].name \in dropped)
      BY <1>1, <2>1 DEF NoLostNode
    <2> QED BY <1>7, <2>1, <2>2 DEF BeingFreed, Moves
  <1> QED BY <1>4, <1>5, <1>8, <1>9, <1>10, <1>11

LEMMA OthersInserting ==
    ASSUME CallsOK, NEW t \in Threads, Only(t), lock \in {t, NoThread}
    PROVE  \A u \in Threads : u # t => Inserting(u)'
  <1> SUFFICES ASSUME NEW u \in Threads, u # t PROVE Inserting(u)'
    OBVIOUS
  <1>1. call'[u] = call[u] /\ call[u].pc \notin Locked
    BY NoneIsNone DEF Only, CallsOK, CallOK
  <1> QED BY <1>1 DEF Inserting, Locked, At

(* A node that is not m keeps the place it has.                            *)
LEMMA PlaceKept ==
    ASSUME IInv, NEW t \in Threads, NEW m, Moves(t, m), NEW n \in Nodes, n # m, InPlace(n),
           n \in entries \cup rm_entries => n \in entries' \cup rm_entries',
           new'[t] = new[t] \/ new[t] = m,
           call[t].re = n => call'[t].re = n,
           call[t].pc = "insert_rm" /\ call[t].puts = <<n>> =>
              call'[t].pc = "insert_rm" /\ call'[t].puts = <<n>>
    PROVE  InPlace(n)'
  <1>1. ASSUME NEW u \in Threads,
               \/ new[u] = n \/ call[u].re = n
               \/ call[u].puts = <<n>> /\ call[u].pc \in {"insert_rm", "free"}
        PROVE  \/ new'[u] = n \/ call'[u].re = n
               \/ call'[u].puts = <<n>> /\ call'[u].pc \in {"insert_rm", "free"}
    <2>1. CASE u = t
      BY <1>1, <2>1 DEF Moves, At
    <2>2. CASE u # t
      BY <1>1, <2>2 DEF Moves, Only
    <2> QED BY <2>1, <2>2
  <1> QED BY <1>1 DEF InPlace, Moves

-----------------------------------------------------------------------------
(* Insertion.                                                              *)

LEMMA InsertMissesInv ==
    ASSUME IInv, NEW t \in Threads, InsertMisses(t)
    PROVE  IInv'
  <1>1. /\ TypeOK /\ CallsOK /\ Timed /\ OneEntryPerName /\ Limits /\ Kept
        /\ entries \subseteq Nodes
    BY DEF IInv, TypeOK
  <1>2. PICK n : n = new[t]
    OBVIOUS
  <1>3. /\ Idle(t) /\ lock = NoThread /\ n # NoEntry /\ MayHold(t)
        /\ Lookup(entries, node[n].name) = NoEntry
        /\ lock' = t
        /\ call' = [call EXCEPT ![t].h = n, ![t].pc = IF rmtable THEN "lookup_rm" ELSE "insert"]
        /\ UNCHANGED <<rmtable, node, free_nodes, entries, rm_entries, lru, held, new, dropped>>
    BY <1>2 DEF InsertMisses
  <1>4. call[t].re = NoEntry /\ call[t].puts = <<>> /\ call[t].todo = {}
    BY <1>1, <1>3 DEF CallsOK, CallOK
  <1>5. n \in Nodes /\ node[n].state = "NODE_ACTIVE"
    BY <1>2, <1>3, FreshNode
  <1>6. /\ call'[t] \in CallRec /\ call'[t].h = n /\ call'[t].re = NoEntry
        /\ call'[t].puts = <<>> /\ call'[t].todo = {}
        /\ call'[t].pc = IF rmtable THEN "lookup_rm" ELSE "insert"
        /\ \A u \in Threads \ {t} : call'[u] = call[u]
    BY <1>1, <1>3, <1>4, <1>5 DEF TypeOK, CallRec, Locked
  <1>7. TypeOK'
    <2>1. call' \in [Threads -> CallRec]
      BY <1>1, <1>3, <1>6 DEF TypeOK
    <2> QED BY <1>1, <1>3, <2>1 DEF TypeOK
  <1>8. \A m \in Nodes : References(m)' = References(m)
    <2> SUFFICES ASSUME NEW m \in Nodes PROVE References(m)' = References(m)
      OBVIOUS
    <2>1. ~ HasPut(t, m) /\ ~ HasPut(t, m)'
      BY <1>4, <1>6 DEF HasPut
    <2>2. \A u \in Threads : SameFor(u, m)
      BY <1>3, <1>4, <1>6, <2>1 DEF SameFor, HasPut, At
    <2> QED BY <1>1, <1>3, <1>7, <2>2, SameRefs
  <1>9. Only(t)
    BY <1>3, <1>6 DEF Only
  <1>10. Moves(t, NoEntry)
    <2>1. ~ At(t, "free") /\ ~ At(t, "free")'
      BY <1>3, <1>6 DEF Idle, At
    <2> QED BY <1>3, <1>6, <1>8, <1>9, <2>1, NoneIsNone DEF Moves
  <1>11. CallsOK'
    <2>1. \A u \in Threads : u # t => CallOK(u)'
      BY <1>1, <1>3, <1>9, OthersCallOK
    <2>2. MayHold(t)'
      BY <1>3 DEF MayHold
    <2>3. CASE rmtable
      <3>1. call'[t].pc = "lookup_rm"
        BY <1>6, <2>3
      <3>2. CallOK(t)'
        BY <1>2, <1>3, <1>6, <2>2, <2>3, <3>1 DEF CallOK, Idle, At, Locked
      <3> QED BY <2>1, <3>2 DEF CallsOK
    <2>4. CASE ~ rmtable
      <3>1. call'[t].pc = "insert"
        BY <1>6, <2>4
      <3>2. CallOK(t)'
        BY <1>2, <1>3, <1>6, <2>2, <3>1 DEF CallOK, Idle, At, Locked
      <3> QED BY <2>1, <3>2 DEF CallsOK
    <2> QED BY <2>3, <2>4
  <1>12. Timed' /\ OneEntryPerName' /\ Limits'
    BY <1>1, <1>3 DEF Timed, OneEntryPerName, Limits
  <1>13. Insertings'
    <2>1. NotNamed(entries, n)
      BY <1>1, <1>3, LookupFinds DEF NotNamed
    <2>2. ~ rmtable => rm_entries = {}
      BY <1>1 DEF Limits
    <2>3. Inserting(t)'
      <3>1. CASE rmtable
        <4>1. call'[t].pc = "lookup_rm"
          BY <1>6, <3>1
        <4>2. NotNamed(entries, call[t].h)'
          BY <1>3, <1>6, <2>1 DEF NotNamed
        <4> QED BY <4>1, <4>2 DEF Inserting, At
      <3>2. CASE ~ rmtable
        <4>1. call'[t].pc = "insert"
          BY <1>6, <3>2
        <4>2. NotNamed(entries \cup rm_entries, call[t].h)'
          BY <1>3, <1>6, <2>1, <2>2, <3>2 DEF NotNamed
        <4>3. node'[call'[t].h].state = "NODE_ACTIVE"
          BY <1>3, <1>5, <1>6
        <4> QED BY <1>6, <4>1, <4>2, <4>3 DEF Inserting, At
      <3> QED BY <3>1, <3>2
    <2> QED BY <1>1, <1>3, <1>9, <2>3, OthersInserting DEF Insertings
  <1>14. Kept'
    <2> SUFFICES ASSUME rmtable, NEW m \in Nodes PROVE InPlace(m)'
      BY <1>3 DEF Kept
    <2>1. InPlace(m) /\ m # NoEntry
      BY <1>1, NoneIsNone DEF Kept
    <2> QED BY <1>3, <1>4, <1>10, <2>1, PlaceKept, NoneIsNone
  <1> QED BY <1>7, <1>10, <1>11, <1>12, <1>13, <1>14, MovesKeep DEF IInv

LEMMA LookupRmInv ==
    ASSUME IInv, NEW t \in Threads, LookupRm(t)
    PROVE  IInv'
  <1>1. /\ TypeOK /\ CallsOK /\ Timed /\ OneEntryPerName /\ Limits /\ Kept /\ Fresh
        /\ RmUsed /\ RefExact /\ Spare /\ rm_entries \subseteq Nodes
    BY DEF IInv, TypeOK
  <1>2. PICK h, old : h = call[t].h /\ old = Lookup(rm_entries, node[h].name)
    OBVIOUS
  <1>3. /\ At(t, "lookup_rm")
        /\ UNCHANGED <<rmtable, free_nodes, entries, lru, lock, held, new, dropped>>
    BY DEF LookupRm
  <1>4. /\ lock = t /\ MayHold(t) /\ new[t] = h /\ h \in Nodes /\ new[t] # NoEntry
        /\ call[t].re = NoEntry /\ call[t].puts = <<>> /\ call[t].todo = {} /\ rmtable
        /\ NotNamed(entries, h)
    <2>1. CallOK(t) /\ Inserting(t) /\ call[t] \in CallRec
      BY <1>1 DEF CallsOK, IInv, Insertings, TypeOK
    <2>2. call[t].pc = "lookup_rm"
      BY <1>3 DEF At
    <2>3. lock = t /\ MayHold(t) /\ call[t].puts = <<>> /\ call[t].re = NoEntry /\ rmtable
          /\ call[t].todo = {} /\ new[t] # NoEntry /\ h # NoEntry
      BY <1>2, <2>1, <2>2 DEF CallOK, At, Locked
    <2>4. new[t] = h
      BY <1>2, <2>1, <2>2, <2>3 DEF CallOK, Locked
    <2> QED BY <1>2, <1>3, <2>1, <2>3, <2>4 DEF CallRec, Inserting
  <1>5. /\ old # NoEntry => old \in rm_entries /\ node[old].name = node[h].name
        /\ old = NoEntry => NotNamed(rm_entries, h)
    BY <1>1, <1>2, LookupFinds DEF NotNamed
  <1>6. node[h].state = "NODE_ACTIVE" /\ h \notin rm_entries
    BY <1>4, FreshNode
  <1>7. MayHold(t)'
    BY <1>3, <1>4 DEF MayHold
  <1>8. CASE old = NoEntry
    <2>1. /\ call' = [call EXCEPT ![t].pc = "insert"]
          /\ UNCHANGED <<node, rm_entries>>
      BY <1>2, <1>8 DEF LookupRm
    <2>2. /\ call'[t] \in CallRec /\ call'[t].h = h /\ call'[t].re = NoEntry
          /\ call'[t].puts = <<>> /\ call'[t].todo = {} /\ call'[t].pc = "insert"
          /\ \A u \in Threads \ {t} : call'[u] = call[u]
      BY <1>1, <1>2, <1>4, <2>1 DEF TypeOK, CallRec, Locked
    <2>3. TypeOK'
      <3>1. call' \in [Threads -> CallRec]
        BY <1>1, <2>1, <2>2 DEF TypeOK
      <3> QED BY <1>1, <1>3, <2>1, <3>1 DEF TypeOK
    <2>4. \A m \in Nodes : References(m)' = References(m)
      <3> SUFFICES ASSUME NEW m \in Nodes PROVE References(m)' = References(m)
        OBVIOUS
      <3>1. ~ HasPut(t, m) /\ ~ HasPut(t, m)'
        BY <1>4, <2>2 DEF HasPut
      <3>2. \A u \in Threads : SameFor(u, m)
        BY <1>3, <1>4, <2>2, <3>1 DEF SameFor, HasPut, At
      <3> QED BY <1>1, <1>3, <2>3, <3>2, SameRefs
    <2>5. Only(t)
      BY <1>3, <2>2 DEF Only
    <2>6. Moves(t, NoEntry)
      <3>1. ~ At(t, "free") /\ ~ At(t, "free")'
        BY <1>3, <2>2 DEF At
      <3> QED BY <1>3, <2>1, <2>2, <2>4, <2>5, <3>1, NoneIsNone DEF Moves
    <2>7. CallsOK'
      <3>1. \A u \in Threads : u # t => CallOK(u)'
        BY <1>1, <1>3, <2>5, OthersCallOK
      <3>2. CallOK(t)'
        BY <1>3, <1>4, <1>7, <2>2, NoneIsNone DEF CallOK, Idle, At, Locked
      <3> QED BY <3>1, <3>2 DEF CallsOK
    <2>8. Timed' /\ OneEntryPerName' /\ Limits'
      BY <1>1, <1>3, <2>1 DEF Timed, OneEntryPerName, Limits
    <2>9. Insertings'
      <3>1. NotNamed(entries \cup rm_entries, h)
        BY <1>4, <1>5, <1>8 DEF NotNamed
      <3>2. Inserting(t)'
        BY <1>3, <1>6, <2>1, <2>2, <3>1 DEF Inserting, At, NotNamed
      <3> QED BY <1>1, <1>4, <2>5, <3>2, OthersInserting DEF Insertings
    <2>10. Kept'
      <3> SUFFICES ASSUME NEW m \in Nodes PROVE InPlace(m)'
        BY DEF Kept
      <3>1. InPlace(m) /\ m # NoEntry
        BY <1>1, <1>4, NoneIsNone DEF Kept
      <3> QED BY <1>3, <1>4, <2>1, <2>6, <3>1, PlaceKept, NoneIsNone
    <2> QED BY <2>3, <2>6, <2>7, <2>8, <2>9, <2>10, MovesKeep DEF IInv
  <1>9. CASE old # NoEntry
    <2>1. /\ rm_entries' = rm_entries \ {old}
          /\ node' = [node EXCEPT ![old] = Reinserted(@)]
          /\ call' = [call EXCEPT ![t].pc = "insert", ![t].h = old, ![t].re = old]
      BY <1>2, <1>9 DEF LookupRm
    <2>2. old \in rm_entries /\ old \in Nodes /\ node[old].name = node[h].name /\ old # h
      BY <1>1, <1>5, <1>6, <1>9
    <2>3. /\ call'[t] \in CallRec /\ call'[t].h = old /\ call'[t].re = old
          /\ call'[t].puts = <<>> /\ call'[t].todo = {} /\ call'[t].pc = "insert"
          /\ \A u \in Threads \ {t} : call'[u] = call[u]
      <3>1. PICK c \in CallRec : c = call[t]
        BY <1>1 DEF TypeOK
      <3>2. call'[t] = [c EXCEPT !.pc = "insert", !.h = old, !.re = old]
        BY <1>1, <2>1, <3>1 DEF TypeOK
      <3>3. c.puts = <<>> /\ c.todo = {}
        BY <1>4, <3>1
      <3>4. call'[t] \in CallRec
        BY <2>2, <3>1, <3>2 DEF CallRec, Locked
      <3>5. call'[t].h = old /\ call'[t].re = old /\ call'[t].pc = "insert"
            /\ call'[t].puts = c.puts /\ call'[t].todo = c.todo
        BY <3>1, <3>2 DEF CallRec
      <3>6. \A u \in Threads \ {t} : call'[u] = call[u]
        BY <1>1, <2>1 DEF TypeOK
      <3> QED BY <3>3, <3>4, <3>5, <3>6
    <2>4. node[old].ref \in Nat /\ AddRef(node[old].ref, 1) \in Nat
      <3>1. node[old].ref \in Nat /\ 1 \in Int
        BY <1>1, <2>2 DEF TypeOK
      <3> QED BY <3>1, AddRefNat
    <2>5. /\ node'[old].ref = AddRef(node[old].ref, 1) /\ node'[old].name = node[old].name
          /\ node'[old].state = "NODE_ACTIVE"
          /\ node'[old] \in [ref : Nat, name : Names \cup {NoName},
                             state : {"NODE_ACTIVE", "NODE_EVICTED"}]
          /\ \A m \in Nodes \ {old} : node'[m] = node[m]
      BY <1>1, <2>1, <2>2, <2>4 DEF TypeOK, Reinserted
    <2>6. TypeOK'
      <3>1. call' \in [Threads -> CallRec]
        BY <1>1, <2>1, <2>3 DEF TypeOK
      <3>2. node' \in [Nodes -> [ref : Nat, name : Names \cup {NoName},
                                 state : {"NODE_ACTIVE", "NODE_EVICTED"}]]
        BY <1>1, <2>1, <2>5 DEF TypeOK
      <3> QED BY <1>1, <1>3, <2>1, <3>1, <3>2 DEF TypeOK
    <2>7. old \notin free_nodes /\ References(old) # {}
      <3>1. old \notin free_nodes
        BY <1>1, <2>2 DEF Spare
      <3> QED BY <1>1, <2>2, <3>1, NoRef DEF RmUsed
    <2>8. RefsTold(old)
      BY <1>1, <2>2, RefMember
    <2>9. <<t, "re", 0>> \notin References(old)
      BY <1>4, <2>2, <2>8, NoneIsNone DEF RefsTold
    <2>10. References(old)' = References(old) \cup {<<t, "re", 0>>}
      <3>1. \A u \in Threads \ {t} : SameFor(u, old)
        BY <1>3, <2>3 DEF SameFor, HasPut, At
      <3>2. ~ HasPut(t, old) /\ ~ HasPut(t, old)'
        BY <1>4, <2>3 DEF HasPut
      <3>3. <<t, "re", 0>> \in Slots
        BY DEF Slots
      <3>4. Becomes(t, old, References(old) \cup {<<t, "re", 0>>})
        BY <1>3, <2>3, <2>8, <3>1, <3>2, <3>3, NoneIsNone DEF Becomes, RefsTold
      <3> QED BY <1>1, <2>2, <2>6, <3>4, RefsBecome
    <2>11. \A m \in Nodes \ {old} : References(m)' = References(m)
      <3> SUFFICES ASSUME NEW m \in Nodes, m # old PROVE References(m)' = References(m)
        OBVIOUS
      <3>1. ~ HasPut(t, m) /\ ~ HasPut(t, m)'
        BY <1>4, <2>3 DEF HasPut
      <3>2. \A u \in Threads : SameFor(u, m)
        BY <1>3, <1>4, <2>3, <3>1, NoneIsNone DEF SameFor, HasPut, At
      <3> QED BY <1>1, <1>3, <2>6, <3>2, SameRefs
    <2>12. node'[old].ref = Cardinality(References(old)')
      BY <1>1, <2>2, <2>5, <2>6, <2>7, <2>9, <2>10, Gained
    <2>13. node'[old].ref # 0
      <3>1. IsFiniteSet(References(old)')
        BY <2>2, <2>6, RefsFiniteNext DEF Countable
      <3> QED BY <2>10, <2>12, <3>1, FS_EmptySet
    <2>14. Only(t)
      BY <1>3, <2>3 DEF Only
    <2>15. Moves(t, old)
      <3>1. ~ At(t, "free") /\ ~ At(t, "free")'
        BY <1>3, <2>3 DEF At
      <3>2. \A u \in Threads : new[u] # old
        BY <1>1, <1>9, <2>2 DEF Fresh
      <3> QED BY <1>3, <2>1, <2>3, <2>5, <2>7, <2>11, <2>12, <2>13, <2>14, <3>1, <3>2 DEF Moves
    <2>16. CallsOK'
      <3>1. \A u \in Threads : u # t => CallOK(u)'
        BY <1>1, <1>3, <2>14, OthersCallOK
      <3>2. CallOK(t)'
        BY <1>3, <1>4, <1>7, <1>9, <2>3 DEF CallOK, Idle, At, Locked
      <3> QED BY <3>1, <3>2 DEF CallsOK
    <2>17. Timed' /\ Limits'
      BY <1>1, <1>3, <1>4, <2>1 DEF Timed, Limits
    <2>18. \A m \in entries \cup rm_entries : m # old =>
              node'[m] = node[m] /\ node[m].name # node[old].name
      BY <1>1, <2>2, <2>5 DEF OneEntryPerName, TypeOK
    <2>19. old \notin entries
      BY <1>1, <2>2 DEF OneEntryPerName
    <2>20. OneEntryPerName'
      BY <1>1, <1>3, <2>1, <2>18, <2>19 DEF OneEntryPerName
    <2>21. Insertings'
      <3>1. NotNamed(entries \cup rm_entries, old)'
        BY <1>3, <2>1, <2>5, <2>18, <2>19 DEF NotNamed
      <3>2. Inserting(t)'
        BY <2>3, <2>5, <3>1 DEF Inserting, At, NotNamed
      <3> QED BY <1>1, <1>4, <2>14, <3>2, OthersInserting DEF Insertings
    <2>22. Kept'
      <3> SUFFICES ASSUME NEW m \in Nodes PROVE InPlace(m)'
        BY DEF Kept
      <3>1. InPlace(m)
        BY <1>1, <1>4 DEF Kept
      <3>2. CASE m = old
        BY <2>3, <3>2 DEF InPlace
      <3>3. CASE m # old
        BY <1>3, <1>4, <2>1, <2>15, <3>1, <3>3, PlaceKept, NoneIsNone
      <3> QED BY <3>2, <3>3
    <2> QED BY <2>6, <2>15, <2>16, <2>17, <2>20, <2>21, <2>22, MovesKeep DEF IInv
  <1> QED BY <1>8, <1>9

-----------------------------------------------------------------------------
(* Entries taken out.                                                      *)

LEMMA EntriesFinite ==
    ASSUME TypeOK
    PROVE  /\ IsFiniteSet(entries) /\ Cardinality(entries) \in Nat
           /\ IsFiniteSet(rm_entries) /\ Cardinality(rm_entries) \in Nat
  <1>1. entries \in SUBSET Nodes /\ rm_entries \in SUBSET Nodes
    BY DEF TypeOK
  <1>2. IsFiniteSet(entries) /\ IsFiniteSet(rm_entries)
    BY <1>1, TwiceSize, FS_Subset
  <1> QED BY <1>2, FS_CardinalityType

LEMMA EntryOut ==
    ASSUME IInv, NEW n \in entries, entries' = entries \ {n}, rm_entries' = rm_entries,
           lru' = Without(n), rmtable' = rmtable, \A m \in Nodes \ {n} : SameNode(m)
    PROVE  /\ Timed' /\ OneEntryPerName' /\ Limits' /\ lru' \in Seq(Nodes)
           /\ Cardinality(entries') = Cardinality(entries) - 1
           /\ NotNamed(entries \cup rm_entries, n)' \/ node'[n].name # node[n].name
  <1>1. TypeOK /\ Timed /\ OneEntryPerName /\ Limits /\ n \in Nodes
    BY DEF IInv, TypeOK
  <1>2. Times(lru', entries')
    BY <1>1, TimedTimes, WithoutTimes
  <1>3. Timed' /\ lru' \in Seq(Nodes)
    BY <1>2 DEF Timed, Times
  <1>4. Cardinality(entries') = Cardinality(entries) - 1
    BY <1>1, EntriesFinite, FS_RemoveElement
  <1>5. Limits'
    BY <1>1, <1>4, EntriesFinite, TwiceSize DEF Limits
  <1>6. \A m \in entries' \cup rm_entries' : SameNode(m) /\ m \in entries \cup rm_entries /\ m # n
    BY <1>1 DEF TypeOK, OneEntryPerName
  <1>7. OneEntryPerName'
    BY <1>1, <1>6 DEF OneEntryPerName, SameNode
  <1>8. \A m \in entries' \cup rm_entries' : node'[m].name # node[n].name
    BY <1>1, <1>6 DEF OneEntryPerName, SameNode
  <1> QED BY <1>3, <1>4, <1>5, <1>7, <1>8 DEF NotNamed

LEMMA RemoveInv ==
    ASSUME IInv, NEW t \in Threads, NEW n \in Nodes, xcache_remove(t, n)
    PROVE  IInv'
  <1>1. TypeOK /\ CallsOK /\ RefExact /\ Kept
    BY DEF IInv
  <1>2. /\ Idle(t) /\ lock = NoThread /\ MayHold(t) /\ n \in entries
        /\ entries' = entries \ {n} /\ lru' = Without(n) /\ Hold(t, n, 1)
        /\ dropped' = dropped \cup {node[n].name}
        /\ UNCHANGED <<rmtable, node, free_nodes, rm_entries, lock, call, new>>
    BY DEF xcache_remove
  <1>3. held[t][n] \in Nat /\ held[t][n] + 1 \in 1..MaxRefs
    BY <1>1, <1>2, MayHoldRoom
  <1>4. PICK k : k = held[t][n] + 1
    OBVIOUS
  <1>5. /\ held' = [held EXCEPT ![t][n] = k]
        /\ held'[t][n] = k /\ \A m \in Nodes \ {n} : held'[t][m] = held[t][m]
        /\ \A u \in Threads \ {t} : held'[u] = held[u]
    BY <1>1, <1>2, <1>4 DEF Hold, TypeOK
  <1>6. Timed' /\ OneEntryPerName' /\ Limits' /\ lru' \in Seq(Nodes)
    <2>1. \A m \in Nodes \ {n} : SameNode(m)
      BY <1>2 DEF SameNode
    <2> QED BY <1>2, <2>1, EntryOut
  <1>7. TypeOK'
    <2>1. held' \in [Threads -> [Nodes -> 0..MaxRefs]]
      BY <1>1, <1>3, <1>4, <1>5 DEF TypeOK
    <2> QED BY <1>1, <1>2, <1>6, <2>1 DEF TypeOK
  <1>8. RefsTold(n)
    BY <1>1, RefMember
  <1>9. <<NoThread, "entries", 0>> \in References(n)
    BY <1>2, <1>8 DEF RefsTold
  <1>10. <<t, "held", k>> \notin References(n)
    <2>1. k \in 1..MaxRefs /\ ~ (k <= held[t][n])
      BY <1>3, <1>4
    <2> QED BY <1>8, <2>1 DEF RefsTold
  <1> DEFINE T == (References(n) \ {<<NoThread, "entries", 0>>}) \cup {<<t, "held", k>>}
  <1>11. References(n)' = T
    <2>1. \A i \in 1..MaxRefs : i <= held'[t][n] <=> i <= held[t][n] \/ i = k
      BY <1>3, <1>4, <1>5
    <2>2. <<t, "held", k>> \in Slots
      BY <1>3, <1>4 DEF Slots
    <2>3. \A i \in 1..MaxRefs : <<t, "held", i>> \in T <=> i <= held'[t][n]
      BY <1>8, <2>1 DEF RefsTold
    <2>4. \A u \in Threads \ {t} : SameFor(u, n)
      BY <1>2, <1>5 DEF SameFor, HasPut, At
    <2>5. Becomes(t, n, T)
      BY <1>2, <1>8, <2>2, <2>3, <2>4, NoneIsNone DEF Becomes, RefsTold, HasPut, At
    <2> HIDE DEF T
    <2> QED BY <1>1, <1>7, <2>5, RefsBecome
  <1>12. \A m \in Nodes \ {n} : References(m)' = References(m)
    <2> SUFFICES ASSUME NEW m \in Nodes, m # n PROVE References(m)' = References(m)
      OBVIOUS
    <2>1. \A u \in Threads : SameFor(u, m)
      BY <1>2, <1>5 DEF SameFor, HasPut, At
    <2> QED BY <1>1, <1>2, <1>7, <2>1, SameRefs
  <1>13. References(n) # {} /\ n \notin free_nodes /\ node[n].ref # 0
    BY <1>9, UsedNode
  <1>14. node[n].ref = Cardinality(References(n)')
    BY <1>1, <1>9, <1>10, <1>11, <1>13, Swapped
  <1>15. Moves(t, n)
    <2>1. \A u \in Threads : new[u] # n
      BY <1>2, FreshNode, NoneIsNone
    <2> QED BY <1>2, <1>5, <1>12, <1>13, <1>14, <2>1 DEF Moves, Only, Idle, At
  <1>16. CallsOK'
    <2>1. \A u \in Threads : u # t => CallOK(u)'
      BY <1>1, <1>2, <1>15, OthersCallOK DEF Moves
    <2>2. CallOK(t)'
      BY <1>1, <1>2 DEF CallsOK, CallOK, Idle, At, Locked
    <2> QED BY <2>1, <2>2 DEF CallsOK
  <1>17. Insertings'
    <2>1. Inserting(t)'
      BY <1>2 DEF Inserting, Idle, At
    <2> QED BY <1>1, <1>2, <1>15, <2>1, OthersInserting DEF Insertings, Moves
  <1>18. Kept'
    <2> SUFFICES ASSUME rmtable, NEW m \in Nodes PROVE InPlace(m)'
      BY <1>2 DEF Kept
    <2>1. InPlace(m)
      BY <1>1 DEF Kept
    <2>2. CASE m = n
      BY <1>2, <2>2 DEF InPlace
    <2>3. CASE m # n
      BY <1>2, <1>15, <2>1, <2>3, PlaceKept
    <2> QED BY <2>2, <2>3
  <1> QED BY <1>6, <1>7, <1>15, <1>16, <1>17, <1>18, MovesKeep DEF IInv

LEMMA InvalidateEntryInv ==
    ASSUME IInv, NEW t \in Threads, NEW name, InvalidateEntry(t, name)
    PROVE  IInv'
  <1>1. TypeOK /\ CallsOK /\ RefExact /\ Kept /\ entries \subseteq Nodes
    BY DEF IInv, TypeOK
  <1>2. PICK n : n = Lookup(entries, name)
    OBVIOUS
  <1>3. /\ Idle(t) /\ lock = NoThread /\ n # NoEntry
        /\ entries' = entries \ {n} /\ lru' = Without(n)
        /\ call' = [call EXCEPT ![t].pc = "put", ![t].puts = <<n>>]
        /\ dropped' = dropped \cup {name}
        /\ UNCHANGED <<rmtable, node, free_nodes, rm_entries, lock, held, new>>
    BY <1>2 DEF InvalidateEntry
  <1>4. n \in entries /\ n \in Nodes /\ node[n].name = name
    BY <1>1, <1>2, <1>3, LookupFinds
  <1>5. Timed' /\ OneEntryPerName' /\ Limits' /\ lru' \in Seq(Nodes)
    <2>1. \A m \in Nodes \ {n} : SameNode(m)
      BY <1>3 DEF SameNode
    <2> QED BY <1>3, <1>4, <2>1, EntryOut
  <1>6. /\ call'[t] \in CallRec /\ call'[t].pc = "put" /\ call'[t].puts = <<n>>
        /\ call'[t].h = call[t].h /\ call'[t].re = call[t].re /\ call'[t].todo = call[t].todo
        /\ \A u \in Threads \ {t} : call'[u] = call[u]
    BY <1>1, <1>3, <1>4 DEF TypeOK, CallRec
  <1>7. TypeOK'
    <2>1. call' \in [Threads -> CallRec]
      BY <1>1, <1>3, <1>6 DEF TypeOK
    <2> QED BY <1>1, <1>3, <1>5, <2>1 DEF TypeOK
  <1>8. RefsTold(n)
    BY <1>1, <1>4, RefMember
  <1>9. <<NoThread, "entries", 0>> \in References(n)
    BY <1>4, <1>8 DEF RefsTold
  <1>10. call[t].puts = <<>> /\ call[t].h = NoEntry /\ call[t].re = NoEntry
         /\ call[t].todo = {} /\ lock # t
    BY <1>1, <1>3, NoneIsNone DEF CallsOK, CallOK
  <1>11. <<t, "put", 0>> \notin References(n)
    <2>1. ~ HasPut(t, n)
      BY <1>10 DEF HasPut
    <2> QED BY <1>8, <2>1 DEF RefsTold
  <1> DEFINE T == (References(n) \ {<<NoThread, "entries", 0>>}) \cup {<<t, "put", 0>>}
  <1>12. References(n)' = T
    <2>1. <<t, "put", 0>> \in Slots
      BY DEF Slots
    <2>2. HasPut(t, n)'
      BY <1>6 DEF HasPut, At
    <2>3. \A u \in Threads \ {t} : SameFor(u, n)
      BY <1>3, <1>6 DEF SameFor, HasPut, At
    <2>4. Becomes(t, n, T)
      BY <1>3, <1>6, <1>8, <2>1, <2>2, <2>3, NoneIsNone DEF Becomes, RefsTold
    <2> HIDE DEF T
    <2> QED BY <1>1, <1>4, <1>7, <2>4, RefsBecome
  <1>13. \A m \in Nodes \ {n} : References(m)' = References(m)
    <2> SUFFICES ASSUME NEW m \in Nodes, m # n PROVE References(m)' = References(m)
      OBVIOUS
    <2>1. SameFor(t, m)
      BY <1>3, <1>6, <1>10 DEF SameFor, HasPut, At
    <2>2. \A u \in Threads : SameFor(u, m)
      BY <1>3, <1>6, <2>1 DEF SameFor, HasPut, At
    <2> QED BY <1>1, <1>3, <1>7, <2>2, SameRefs
  <1>14. References(n) # {} /\ n \notin free_nodes /\ node[n].ref # 0
    BY <1>4, <1>9, UsedNode
  <1>15. node[n].ref = Cardinality(References(n)')
    BY <1>1, <1>4, <1>9, <1>11, <1>12, <1>14, Swapped
  <1>16. Moves(t, n)
    <2>1. \A u \in Threads : new[u] # n
      BY <1>4, FreshNode, NoneIsNone
    <2>2. Only(t) /\ ~ At(t, "free") /\ ~ At(t, "free")'
      BY <1>3, <1>6 DEF Only, Idle, At
    <2> QED BY <1>3, <1>6, <1>13, <1>14, <1>15, <2>1, <2>2 DEF Moves
  <1>17. CallsOK'
    <2>1. \A u \in Threads : u # t => CallOK(u)'
      BY <1>1, <1>3, <1>16, OthersCallOK DEF Moves
    <2>2. call'[t].puts # <<>>
      BY <1>6
    <2>3. CallOK(t)'
      BY <1>3, <1>6, <1>10, <2>2 DEF CallOK, Idle, At, Locked
    <2> QED BY <2>1, <2>3 DEF CallsOK
  <1>18. Insertings'
    <2>1. Inserting(t)'
      BY <1>6 DEF Inserting, At
    <2> QED BY <1>1, <1>3, <1>16, <2>1, OthersInserting DEF Insertings, Moves
  <1>19. Kept'
    <2> SUFFICES ASSUME rmtable, NEW m \in Nodes PROVE InPlace(m)'
      BY <1>3 DEF Kept
    <2>1. InPlace(m)
      BY <1>1 DEF Kept
    <2>2. CASE m = n
      BY <1>3, <1>4, <2>2 DEF InPlace
    <2>3. CASE m # n
      <3>1. call[t].pc # "insert_rm" /\ call[t].re # m
        BY <1>3, <1>10, NoneIsNone DEF Idle, At
      <3>2. m \in entries \cup rm_entries => m \in entries' \cup rm_entries'
        BY <1>3, <2>3
      <3> QED BY <1>3, <1>16, <2>1, <2>3, <3>1, <3>2, PlaceKept
    <2> QED BY <2>2, <2>3
  <1> QED BY <1>5, <1>7, <1>16, <1>17, <1>18, <1>19, MovesKeep DEF IInv

LEMMA InvalidateRmInv ==
    ASSUME IInv, NEW t \in Threads, NEW name, InvalidateRm(t, name)
    PROVE  IInv'
  <1>1. /\ TypeOK /\ CallsOK /\ Timed /\ OneEntryPerName /\ Limits /\ Kept
        /\ rm_entries \subseteq Nodes
    BY DEF IInv, TypeOK
  <1>2. PICK n : n = Lookup(rm_entries, name)
    OBVIOUS
  <1>3. /\ Idle(t) /\ lock = NoThread /\ n # NoEntry
        /\ rm_entries' = rm_entries \ {n} /\ dropped' = dropped \cup {name}
        /\ UNCHANGED <<rmtable, node, free_nodes, entries, lru, lock, call, held, new>>
    BY <1>2 DEF InvalidateRm
  <1>4. node[n].name = name
    BY <1>1, <1>2, <1>3, LookupFinds
  <1>5. TypeOK'
    BY <1>1, <1>3 DEF TypeOK
  <1>6. \A m \in Nodes : References(m)' = References(m)
    BY <1>3 DEF References, At
  <1>7. Moves(t, NoEntry)
    BY <1>3, <1>6, NoneIsNone DEF Moves, Only, Idle, At
  <1>8. CallsOK' /\ Timed' /\ OneEntryPerName' /\ Limits'
    <2>1. CallsOK'
      BY <1>1, <1>3 DEF CallsOK, CallOK, Idle, At, MayHold
    <2> QED BY <1>1, <1>3, <2>1 DEF Timed, OneEntryPerName, Limits
  <1>9. Insertings'
    <2>1. Inserting(t)'
      BY <1>3 DEF Inserting, Idle, At
    <2> QED BY <1>1, <1>3, <1>7, <2>1, OthersInserting DEF Insertings, Moves
  <1>10. Kept'
    <2> SUFFICES ASSUME rmtable, NEW m \in Nodes PROVE InPlace(m)'
      BY <1>3 DEF Kept
    <2>1. InPlace(m) /\ m # NoEntry
      BY <1>1, NoneIsNone DEF Kept
    <2>2. CASE m = n
      BY <1>3, <1>4, <2>2 DEF InPlace
    <2>3. CASE m # n
      BY <1>3, <1>7, <2>1, <2>3, PlaceKept
    <2> QED BY <2>2, <2>3
  <1> QED BY <1>5, <1>7, <1>8, <1>9, <1>10, MovesKeep DEF IInv

-----------------------------------------------------------------------------
(* The rest of an insertion.                                               *)

(* What an insertion has when it is about to take an entry in.             *)
LEMMA AtInsert ==
    ASSUME IInv, NEW t \in Threads, call[t].pc \in {"insert", "insert_rm"}, NEW h, h = call[t].h
    PROVE  /\ lock = t /\ MayHold(t) /\ new[t] # NoEntry /\ h \in Nodes /\ call[t].todo = {}
           /\ (h = new[t] /\ call[t].re = NoEntry) \/ (h = call[t].re /\ h # new[t])
           /\ NotNamed(entries \cup rm_entries, h) /\ node[h].state = "NODE_ACTIVE"
           /\ h \notin entries \cup rm_entries
           /\ call[t].puts # <<>> => Room(entries)
  <1>1. CallOK(t) /\ Inserting(t) /\ call[t] \in CallRec
    BY DEF IInv, CallsOK, Insertings, TypeOK
  <1>2. /\ lock = t /\ MayHold(t) /\ new[t] # NoEntry /\ h # NoEntry /\ call[t].todo = {}
        /\ (h = new[t] /\ call[t].re = NoEntry) \/ h = call[t].re
    BY <1>1 DEF CallOK, Locked
  <1>3. h \in Nodes
    BY <1>1, <1>2 DEF CallRec
  <1>4. h = call[t].re => h # new[t]
    BY <1>2, FreshNode
  <1>5. /\ NotNamed(entries \cup rm_entries, h) /\ node[h].state = "NODE_ACTIVE"
        /\ call[t].puts # <<>> => Room(entries)
    BY <1>1 DEF Inserting
  <1>6. h \notin entries \cup rm_entries
    BY <1>5 DEF NotNamed
  <1> QED BY <1>2, <1>3, <1>4, <1>5, <1>6

LEMMA EvictLruInv ==
    ASSUME IInv, NEW t \in Threads, EvictLru(t)
    PROVE  IInv'
  <1>1. /\ TypeOK /\ CallsOK /\ RefExact /\ Kept /\ Limits /\ OneEntryPerName
        /\ entries \subseteq Nodes
    BY DEF IInv, TypeOK
  <1>2. PICK v, h : v = Head(lru) /\ h = call[t].h
    OBVIOUS
  <1>3. /\ call[t].pc = "insert" /\ ~ Room(entries) /\ v \in entries
        /\ entries' = entries \ {v} /\ lru' = Without(v)
        /\ node' = IF rmtable THEN [node EXCEPT ![v].state = "NODE_EVICTED"] ELSE node
        /\ call' = [call EXCEPT ![t].puts = <<v>>,
                                ![t].pc = IF rmtable THEN "insert_rm" ELSE "insert"]
        /\ UNCHANGED <<rmtable, free_nodes, rm_entries, lock, held, new, dropped>>
    BY <1>2 DEF EvictLru, At
  <1>4. /\ lock = t /\ MayHold(t) /\ new[t] # NoEntry /\ h \in Nodes /\ call[t].todo = {}
        /\ (h = new[t] /\ call[t].re = NoEntry) \/ h = call[t].re
        /\ NotNamed(entries \cup rm_entries, h) /\ node[h].state = "NODE_ACTIVE"
        /\ h \notin entries \cup rm_entries /\ call[t].puts = <<>>
    BY <1>2, <1>3, AtInsert
  <1>5. v \in Nodes /\ v # h /\ node[v].name # node[h].name
    BY <1>1, <1>3, <1>4 DEF NotNamed
  <1>6. /\ node'[v].ref = node[v].ref /\ node'[v].name = node[v].name
        /\ rmtable => node'[v].state = "NODE_EVICTED"
        /\ \A m \in Nodes \ {v} : node'[m] = node[m]
        /\ node' \in [Nodes -> [ref : Nat, name : Names \cup {NoName},
                                state : {"NODE_ACTIVE", "NODE_EVICTED"}]]
    <2>1. CASE rmtable
      <3>1. node' = [node EXCEPT ![v].state = "NODE_EVICTED"]
        BY <1>3, <2>1
      <3> QED BY <1>1, <1>5, <3>1 DEF TypeOK
    <2>2. CASE ~ rmtable
      BY <1>1, <1>3, <2>2 DEF TypeOK
    <2> QED BY <2>1, <2>2
  <1>7. PICK p \in {"insert", "insert_rm"} : p = IF rmtable THEN "insert_rm" ELSE "insert"
    OBVIOUS
  <1>8. /\ call'[t] \in CallRec /\ call'[t].pc = p /\ call'[t].puts = <<v>>
        /\ call'[t].h = h /\ call'[t].re = call[t].re /\ call'[t].todo = {}
        /\ \A u \in Threads \ {t} : call'[u] = call[u]
        /\ call' \in [Threads -> CallRec]
    <2>1. PICK c \in CallRec : c = call[t]
      BY <1>1 DEF TypeOK
    <2>2. PICK d : d = [c EXCEPT !.puts = <<v>>, !.pc = p]
      OBVIOUS
    <2>3. call' = [call EXCEPT ![t] = d]
      BY <1>3, <1>7, <2>1, <2>2
    <2>4. d \in CallRec
      BY <1>5, <2>1, <2>2 DEF CallRec, Locked
    <2>5. d.pc = p /\ d.puts = <<v>> /\ d.h = c.h /\ d.re = c.re /\ d.todo = c.todo
      BY <2>1, <2>2 DEF CallRec
    <2>6. call'[t] = d /\ (\A u \in Threads \ {t} : call'[u] = call[u])
          /\ call' \in [Threads -> CallRec]
      BY <1>1, <2>3, <2>4 DEF TypeOK
    <2> QED BY <1>2, <1>4, <2>1, <2>4, <2>5, <2>6
  <1>9. /\ Timed' /\ OneEntryPerName' /\ Limits' /\ lru' \in Seq(Nodes)
        /\ Cardinality(entries') = Cardinality(entries) - 1
        /\ NotNamed(entries \cup rm_entries, v)'
    <2>1. \A m \in Nodes \ {v} : SameNode(m)
      BY <1>6 DEF SameNode
    <2> QED BY <1>3, <1>6, <2>1, EntryOut
  <1>10. TypeOK'
    BY <1>1, <1>3, <1>6, <1>8, <1>9 DEF TypeOK
  <1>11. RefsTold(v)
    BY <1>1, <1>5, RefMember
  <1>12. <<NoThread, "entries", 0>> \in References(v)
    BY <1>3, <1>11 DEF RefsTold
  <1>13. <<t, "put", 0>> \notin References(v)
    <2>1. ~ HasPut(t, v)
      BY <1>4 DEF HasPut
    <2> QED BY <1>11, <2>1 DEF RefsTold
  <1> DEFINE T == (References(v) \ {<<NoThread, "entries", 0>>}) \cup {<<t, "put", 0>>}
  <1>14. References(v)' = T
    <2>1. <<t, "put", 0>> \in Slots
      BY DEF Slots
    <2>2. HasPut(t, v)'
      BY <1>7, <1>8 DEF HasPut, At
    <2>3. \A u \in Threads \ {t} : SameFor(u, v)
      BY <1>3, <1>8 DEF SameFor, HasPut, At
    <2>4. Becomes(t, v, T)
      BY <1>3, <1>8, <1>11, <2>1, <2>2, <2>3, NoneIsNone DEF Becomes, RefsTold
    <2> HIDE DEF T
    <2> QED BY <1>1, <1>5, <1>10, <2>4, RefsBecome
  <1>15. \A m \in Nodes \ {v} : References(m)' = References(m)
    <2> SUFFICES ASSUME NEW m \in Nodes, m # v PROVE References(m)' = References(m)
      OBVIOUS
    <2>1. ~ HasPut(t, m) /\ ~ HasPut(t, m)'
      BY <1>4, <1>8 DEF HasPut
    <2>2. \A u \in Threads : SameFor(u, m)
      BY <1>3, <1>8, <2>1 DEF SameFor, HasPut, At
    <2> QED BY <1>1, <1>3, <1>10, <2>2, SameRefs
  <1>16. References(v) # {} /\ v \notin free_nodes /\ node[v].ref # 0
    BY <1>5, <1>12, UsedNode
  <1>17. node'[v].ref = Cardinality(References(v)')
    BY <1>1, <1>5, <1>6, <1>12, <1>13, <1>14, <1>16, Swapped
  <1>18. Only(t)
    BY <1>3, <1>8 DEF Only
  <1>19. Moves(t, v)
    <2>1. \A u \in Threads : new[u] # v
      BY <1>3, <1>5, FreshNode, NoneIsNone
    <2>2. ~ At(t, "free") /\ ~ At(t, "free")'
      BY <1>3, <1>7, <1>8 DEF At
    <2> QED BY <1>3, <1>6, <1>8, <1>15, <1>16, <1>17, <1>18, <2>1, <2>2 DEF Moves
  <1>20. CallsOK'
    <2>1. \A u \in Threads : u # t => CallOK(u)'
      BY <1>1, <1>3, <1>18, OthersCallOK
    <2>2. MayHold(t)'
      BY <1>3, <1>4 DEF MayHold
    <2>3. p = "insert_rm" => rmtable'
      BY <1>3, <1>7
    <2>4. call'[t].puts # <<>>
      BY <1>8
    <2>5. CallOK(t)'
      BY <1>3, <1>4, <1>8, <2>2, <2>3, <2>4, NoneIsNone DEF CallOK, Idle, At, Locked
    <2> QED BY <2>1, <2>5 DEF CallsOK
  <1>21. Insertings'
    <2>1. NotNamed(entries \cup rm_entries, h)'
      <3>1. \A m \in entries' \cup rm_entries' : node'[m] = node[m] /\ m \in entries \cup rm_entries
        BY <1>1, <1>3, <1>6 DEF TypeOK, OneEntryPerName
      <3>2. node'[h] = node[h]
        BY <1>4, <1>5, <1>6
      <3> QED BY <1>4, <3>1, <3>2 DEF NotNamed
    <2>2. node'[h].state = "NODE_ACTIVE" /\ node'[h].name # node'[v].name
      BY <1>4, <1>5, <1>6
    <2>3. Room(entries)' /\ Cardinality(entries') = Size - 1
      BY <1>1, <1>3, <1>9, EntriesFinite, TwiceSize DEF Room, Limits
    <2>4. Head(call'[t].puts) = v
      BY <1>8
    <2>5. p = "insert_rm" => node'[v].state = "NODE_EVICTED"
      BY <1>6, <1>7
    <2>6. Inserting(t)'
      <3>1. CASE p = "insert"
        BY <1>8, <2>1, <2>2, <2>3, <3>1 DEF Inserting, At
      <3>2. CASE p = "insert_rm"
        BY <1>8, <1>9, <2>1, <2>2, <2>3, <2>4, <2>5, <3>2 DEF Inserting, At
      <3> QED BY <1>7, <3>1, <3>2
    <2> QED BY <1>1, <1>4, <1>18, <2>6, OthersInserting DEF Insertings
  <1>22. Kept'
    <2> SUFFICES ASSUME rmtable, NEW m \in Nodes PROVE InPlace(m)'
      BY <1>3 DEF Kept
    <2>1. InPlace(m)
      BY <1>1 DEF Kept
    <2>2. CASE m = v
      <3>1. call'[t].puts = <<m>> /\ call'[t].pc = "insert_rm"
        BY <1>7, <1>8, <2>2
      <3> QED BY <3>1 DEF InPlace
    <2>3. CASE m # v
      <3>1. call[t].pc # "insert_rm" /\ call'[t].re = call[t].re
        BY <1>3, <1>8
      <3>2. m \in entries \cup rm_entries => m \in entries' \cup rm_entries'
        BY <1>3, <2>3
      <3> QED BY <1>3, <1>19, <2>1, <2>3, <3>1, <3>2, PlaceKept
    <2> QED BY <2>2, <2>3
  <1> QED BY <1>9, <1>10, <1>19, <1>20, <1>21, <1>22, MovesKeep DEF IInv

LEMMA InsertRmInv ==
    ASSUME IInv, NEW t \in Threads, InsertRm(t)
    PROVE  IInv'
  <1>1. /\ TypeOK /\ CallsOK /\ RefExact /\ Kept /\ Limits /\ OneEntryPerName /\ Timed
        /\ CallOK(t) /\ Inserting(t)
    BY DEF IInv, CallsOK, Insertings
  <1>2. At(t, "insert_rm") /\ call[t].pc = "insert_rm"
    BY DEF InsertRm, At
  <1>3. call[t].puts # <<>> /\ rmtable
    BY <1>1, <1>2 DEF CallOK
  <1>4. PICK v \in Nodes : call[t].puts = <<v>> /\ Head(call[t].puts) = v
    BY <1>1, <1>3, OnePut
  <1>5. PICK h : h = call[t].h
    OBVIOUS
  <1>6. /\ rm_entries' = rm_entries \cup {v}
        /\ call' = [call EXCEPT ![t].pc = "insert"]
        /\ UNCHANGED <<rmtable, node, free_nodes, entries, lru, lock, held, new, dropped>>
    BY <1>4 DEF InsertRm
  <1>7. /\ lock = t /\ MayHold(t) /\ new[t] # NoEntry /\ h \in Nodes /\ call[t].todo = {}
        /\ (h = new[t] /\ call[t].re = NoEntry) \/ h = call[t].re
        /\ NotNamed(entries \cup rm_entries, h) /\ node[h].state = "NODE_ACTIVE"
        /\ Room(entries)
    BY <1>2, <1>3, <1>5, AtInsert
  <1>8. /\ NotNamed(entries \cup rm_entries, v) /\ node[v].state = "NODE_EVICTED"
        /\ node[h].name # node[v].name
    BY <1>1, <1>2, <1>4, <1>5 DEF Inserting
  <1>9. v \notin entries \cup rm_entries
    BY <1>8 DEF NotNamed
  <1>10. /\ call'[t] \in CallRec /\ call'[t].pc = "insert" /\ call'[t].puts = <<v>>
         /\ call'[t].h = h /\ call'[t].re = call[t].re /\ call'[t].todo = {}
         /\ \A u \in Threads \ {t} : call'[u] = call[u]
         /\ call' \in [Threads -> CallRec]
    <2>1. PICK c \in CallRec : c = call[t]
      BY <1>1 DEF TypeOK
    <2>2. PICK d : d = [c EXCEPT !.pc = "insert"]
      OBVIOUS
    <2>3. call' = [call EXCEPT ![t] = d]
      BY <1>6, <2>1, <2>2
    <2>4. d \in CallRec
      BY <2>1, <2>2 DEF CallRec, Locked
    <2>5. d.pc = "insert" /\ d.puts = c.puts /\ d.h = c.h /\ d.re = c.re /\ d.todo = c.todo
      BY <2>1, <2>2 DEF CallRec
    <2>6. call'[t] = d /\ (\A u \in Threads \ {t} : call'[u] = call[u])
          /\ call' \in [Threads -> CallRec]
      BY <1>1, <2>3, <2>4 DEF TypeOK
    <2> QED BY <1>4, <1>5, <1>7, <2>1, <2>4, <2>5, <2>6
  <1>11. TypeOK'
    BY <1>1, <1>6, <1>10 DEF TypeOK
  <1>12. \A m \in Nodes : References(m)' = References(m)
    <2> SUFFICES ASSUME NEW m \in Nodes PROVE References(m)' = References(m)
      OBVIOUS
    <2>1. HasPut(t, m)' <=> HasPut(t, m)
      BY <1>2, <1>4, <1>10 DEF HasPut, At
    <2>2. \A u \in Threads : SameFor(u, m)
      BY <1>6, <1>10, <2>1 DEF SameFor, HasPut, At
    <2> QED BY <1>1, <1>6, <1>11, <2>2, SameRefs
  <1>13. References(v) # {}
    <2>1. HasPut(t, v)
      BY <1>2, <1>4 DEF HasPut, At
    <2> QED BY <1>1, <2>1, RefMember DEF RefsTold
  <1>14. v \notin free_nodes /\ node[v].ref # 0
    BY <1>13, UsedNode
  <1>15. node[v].ref = Cardinality(References(v)')
    BY <1>1, <1>12, <1>14 DEF RefExact
  <1>16. Only(t)
    BY <1>6, <1>10 DEF Only
  <1>17. Moves(t, v)
    <2>1. \A u \in Threads : new[u] # v
      BY <1>4, FreshNode, NoneIsNone
    <2>2. ~ At(t, "free") /\ ~ At(t, "free")'
      BY <1>2, <1>10 DEF At
    <2> QED BY <1>6, <1>10, <1>12, <1>13, <1>14, <1>15, <1>16, <2>1, <2>2 DEF Moves
  <1>18. CallsOK'
    <2>1. \A u \in Threads : u # t => CallOK(u)'
      BY <1>1, <1>6, <1>16, OthersCallOK
    <2>2. MayHold(t)'
      BY <1>6, <1>7 DEF MayHold
    <2>3. CallOK(t)'
      BY <1>6, <1>7, <1>10, <2>2, NoneIsNone DEF CallOK, Idle, At, Locked
    <2> QED BY <2>1, <2>3 DEF CallsOK
  <1>19. Timed' /\ Limits'
    BY <1>1, <1>3, <1>6 DEF Timed, Limits
  <1>20. OneEntryPerName'
    BY <1>1, <1>6, <1>8, <1>9 DEF OneEntryPerName, NotNamed
  <1>21. Insertings'
    <2>1. NotNamed(entries \cup rm_entries, h)'
      BY <1>6, <1>7, <1>8 DEF NotNamed
    <2>2. Room(entries)'
      BY <1>6, <1>7 DEF Room
    <2>3. Inserting(t)'
      BY <1>6, <1>7, <1>10, <2>1, <2>2 DEF Inserting, At
    <2> QED BY <1>1, <1>7, <1>16, <2>3, OthersInserting DEF Insertings
  <1>22. Kept'
    <2> SUFFICES ASSUME NEW m \in Nodes PROVE InPlace(m)'
      BY DEF Kept
    <2>1. InPlace(m)
      BY <1>1, <1>3 DEF Kept
    <2>2. CASE m = v
      BY <1>6, <2>2 DEF InPlace
    <2>3. CASE m # v
      <3>1. call[t].puts # <<m>> /\ call'[t].re = call[t].re
        BY <1>4, <1>10, <2>3
      <3> QED BY <1>6, <1>17, <2>1, <2>3, <3>1, PlaceKept
    <2> QED BY <2>2, <2>3
  <1> QED BY <1>11, <1>17, <1>18, <1>19, <1>20, <1>21, <1>22, MovesKeep DEF IInv

LEMMA InsertEntryInv ==
    ASSUME IInv, NEW t \in Threads, InsertEntry(t)
    PROVE  IInv'
  <1>1. TypeOK /\ CallsOK /\ RefExact /\ Kept /\ Limits /\ OneEntryPerName /\ Timed
    BY DEF IInv
  <1>2. PICK h, p : h = call[t].h /\ p = call[t].puts
    OBVIOUS
  <1>3. /\ call[t].pc = "insert" /\ Room(entries)
        /\ entries' = entries \cup {h}
        /\ node' = [node EXCEPT ![h].ref = AddRef(@, 1)]
        /\ lru' = Touched(h) /\ Hold(t, h, 1)
        /\ new' = [new EXCEPT ![t] = IF @ = h THEN NoEntry ELSE @]
        /\ lock' = NoThread
        /\ call' = [call EXCEPT ![t] = [NoCall EXCEPT !.puts = p,
                                          !.pc = IF p = <<>> THEN "idle" ELSE "put"]]
        /\ UNCHANGED <<rmtable, free_nodes, rm_entries, dropped>>
    BY <1>2 DEF InsertEntry, At
  <1>4. /\ lock = t /\ MayHold(t) /\ new[t] # NoEntry /\ h \in Nodes
        /\ (h = new[t] /\ call[t].re = NoEntry) \/ (h = call[t].re /\ h # new[t])
        /\ NotNamed(entries \cup rm_entries, h) /\ node[h].state = "NODE_ACTIVE"
        /\ h \notin entries \cup rm_entries
    BY <1>2, <1>3, AtInsert
  <1>5. PICK q \in {"idle", "put"} : q = IF p = <<>> THEN "idle" ELSE "put"
    OBVIOUS
  <1>6. /\ call'[t].pc = q /\ call'[t].puts = p /\ call'[t].h = NoEntry
        /\ call'[t].re = NoEntry /\ call'[t].todo = {}
        /\ \A u \in Threads \ {t} : call'[u] = call[u]
        /\ call' \in [Threads -> CallRec]
    <2>1. PICK d : d = [NoCall EXCEPT !.puts = p, !.pc = q]
      OBVIOUS
    <2>2. call' = [call EXCEPT ![t] = d]
      BY <1>3, <1>5, <2>1
    <2>3. d = [pc |-> q, h |-> NoEntry, re |-> NoEntry, puts |-> p, todo |-> {}]
      BY <2>1 DEF NoCall
    <2>4. d \in CallRec
      <3>1. p \in {<<>>} \cup {<<n>> : n \in Nodes}
        BY <1>1, <1>2 DEF TypeOK, CallRec
      <3> QED BY <2>3, <3>1 DEF CallRec
    <2>5. call'[t] = d /\ (\A u \in Threads \ {t} : call'[u] = call[u])
          /\ call' \in [Threads -> CallRec]
      BY <1>1, <2>2, <2>4 DEF TypeOK
    <2> QED BY <2>3, <2>5
  <1>7. /\ new'[t] = (IF new[t] = h THEN NoEntry ELSE new[t])
        /\ \A u \in Threads \ {t} : new'[u] = new[u]
        /\ new' \in [Threads -> Nodes \cup {NoEntry}]
    BY <1>1, <1>3 DEF TypeOK
  <1>8. new'[t] # h /\ new'[t] \in {new[t], NoEntry} /\ (new'[t] = new[t] \/ new[t] = h)
    BY <1>4, <1>7, NoneIsNone
  <1>9. held[t][h] \in Nat /\ held[t][h] + 1 \in 1..MaxRefs
    BY <1>1, <1>4, MayHoldRoom
  <1>10. PICK k : k = held[t][h] + 1
    OBVIOUS
  <1>11. /\ held' = [held EXCEPT ![t][h] = k]
         /\ held'[t][h] = k /\ \A m \in Nodes \ {h} : held'[t][m] = held[t][m]
         /\ \A u \in Threads \ {t} : held'[u] = held[u]
    BY <1>1, <1>3, <1>4, <1>10 DEF Hold, TypeOK
  <1>12. AddRef(node[h].ref, 1) \in Nat
    <2>1. node[h].ref \in Nat /\ 1 \in Int
      BY <1>1, <1>4 DEF TypeOK
    <2> QED BY <2>1, AddRefNat
  <1>13. /\ node'[h].ref = AddRef(node[h].ref, 1) /\ SameNode(h)
         /\ \A m \in Nodes \ {h} : node'[m] = node[m]
         /\ node' \in [Nodes -> [ref : Nat, name : Names \cup {NoName},
                                 state : {"NODE_ACTIVE", "NODE_EVICTED"}]]
    BY <1>1, <1>3, <1>4, <1>12 DEF TypeOK, SameNode
  <1>14. Times(lru', entries')
    BY <1>1, <1>3, <1>4, TimedTimes, TouchedTimes
  <1>15. TypeOK'
    <2>1. held' \in [Threads -> [Nodes -> 0..MaxRefs]]
      BY <1>1, <1>4, <1>9, <1>10, <1>11 DEF TypeOK
    <2>2. /\ UNCHANGED <<rmtable, free_nodes, rm_entries>>
          /\ entries' = entries \cup {h} /\ lock' = NoThread
      BY <1>3
    <2>3. /\ rmtable' \in BOOLEAN /\ free_nodes' \subseteq Nodes /\ rm_entries' \subseteq Nodes
          /\ entries' \subseteq Nodes /\ lock' \in Threads \cup {NoThread}
      BY <1>1, <1>4, <2>2 DEF TypeOK
    <2>4. lru' \in Seq(Nodes)
      BY <1>14 DEF Times
    <2> QED BY <1>6, <1>7, <1>13, <2>1, <2>3, <2>4 DEF TypeOK
  <1>16. Only(t)
    BY <1>6, <1>7, <1>11 DEF Only
  <1>17. \A m \in Nodes : HasPut(t, m)' <=> HasPut(t, m)
    BY <1>2, <1>3, <1>5, <1>6 DEF HasPut, At
  <1>18. \A m \in Nodes, u \in Threads \ {t} : SameFor(u, m)
    BY <1>6, <1>7, <1>11 DEF SameFor, HasPut, At
  <1>19. RefsTold(h)
    BY <1>1, <1>4, RefMember
  <1>20. PICK a \in References(h) : a = IF new[t] = h THEN <<t, "new", 0>> ELSE <<t, "re", 0>>
    BY <1>4, <1>19 DEF RefsTold
  <1>21. PICK b, c : b = <<NoThread, "entries", 0>> /\ c = <<t, "held", k>>
    OBVIOUS
  <1>22. b # c /\ b \notin References(h) /\ c \notin References(h) /\ b \in Slots /\ c \in Slots
    <2>1. k \in 1..MaxRefs /\ ~ (k <= held[t][h])
      BY <1>9, <1>10
    <2>2. b # c
      BY <1>21, NoneIsNone
    <2>3. b \notin References(h)
      BY <1>4, <1>19, <1>21 DEF RefsTold
    <2>4. c \notin References(h)
      BY <1>19, <1>21, <2>1 DEF RefsTold
    <2> QED BY <1>21, <2>1, <2>2, <2>3, <2>4 DEF Slots
  <1> DEFINE T == ((References(h) \ {a}) \cup {b}) \cup {c}
  <1>23. References(h)' = T
    <2>1. T \subseteq Slots
      BY <1>19, <1>22 DEF RefsTold
    <2>2. \A i \in 1..MaxRefs : i <= held'[t][h] <=> i <= held[t][h] \/ i = k
      BY <1>9, <1>10, <1>11
    <2>3. \A i \in 1..MaxRefs : <<t, "held", i>> \in T <=> i <= held'[t][h]
      BY <1>19, <1>20, <1>21, <2>2 DEF RefsTold
    <2>4. <<NoThread, "entries", 0>> \in T /\ h \in entries'
      BY <1>3, <1>21
    <2>5. <<t, "new", 0>> \notin T /\ <<t, "re", 0>> \notin T
      <3>1. CASE new[t] = h
        <4>1. a = <<t, "new", 0>> /\ call[t].re # h
          BY <1>4, <1>20, <3>1, NoneIsNone
        <4>2. <<t, "re", 0>> \notin References(h)
          BY <1>19, <4>1 DEF RefsTold
        <4> QED BY <1>21, <4>1, <4>2
      <3>2. CASE new[t] # h
        <4>1. a = <<t, "re", 0>>
          BY <1>20, <3>2
        <4>2. <<t, "new", 0>> \notin References(h)
          BY <1>19, <3>2 DEF RefsTold
        <4> QED BY <1>21, <4>1, <4>2
      <3> QED BY <3>1, <3>2
    <2>6. <<t, "put", 0>> \in T <=> HasPut(t, h)'
      BY <1>4, <1>17, <1>19, <1>20, <1>21 DEF RefsTold
    <2>7. new'[t] # h /\ call'[t].re # h
      BY <1>4, <1>6, <1>8, NoneIsNone
    <2>8. ASSUME NEW u \in Threads \ {t}
          PROVE  /\ SameFor(u, h)
                 /\ \A w \in {"new", "put", "re"} : <<u, w, 0>> \in T <=> <<u, w, 0>> \in References(h)
                 /\ \A i \in 1..MaxRefs : <<u, "held", i>> \in T <=> <<u, "held", i>> \in References(h)
      BY <1>4, <1>18, <1>20, <1>21, NoneIsNone
    <2> HIDE DEF T
    <2>9. Becomes(t, h, T)
      BY <2>1, <2>3, <2>4, <2>5, <2>6, <2>7, <2>8 DEF Becomes
    <2> QED BY <1>1, <1>4, <1>15, <2>9, RefsBecome
  <1>24. \A m \in Nodes \ {h} : References(m)' = References(m)
    <2> SUFFICES ASSUME NEW m \in Nodes, m # h PROVE References(m)' = References(m)
      OBVIOUS
    <2>1. new'[t] = m <=> new[t] = m
      BY <1>4, <1>7, NoneIsNone
    <2>2. call'[t].re = m <=> call[t].re = m
      BY <1>4, <1>6, NoneIsNone
    <2>3. SameFor(t, m)
      BY <1>11, <1>17, <2>1, <2>2 DEF SameFor
    <2> QED BY <1>1, <1>3, <1>15, <1>18, <2>3, SameRefs
  <1>25. References(h) # {} /\ h \notin free_nodes
    BY <1>4, <1>20, UsedNode
  <1>26. node'[h].ref = Cardinality(References(h)')
    BY <1>1, <1>4, <1>13, <1>15, <1>20, <1>22, <1>23, <1>25, SwappedGained
  <1>27. node'[h].ref # 0
    <2>1. IsFiniteSet(References(h)')
      BY <1>4, <1>15, RefsFiniteNext DEF Countable
    <2> QED BY <1>23, <1>26, <2>1, FS_EmptySet
  <1>28. \A u \in Threads : new'[u] # h /\ new'[u] \in {new[u], NoEntry}
    <2> SUFFICES ASSUME NEW u \in Threads, u # t PROVE new[u] # h
      BY <1>7, <1>8
    <2>1. CASE h = new[t]
      BY <1>4, <2>1, FreshNode
    <2>2. CASE h = call[t].re
      BY <1>4, <2>2, FreshNode, NoneIsNone
    <2> QED BY <1>4, <2>1, <2>2
  <1>29. Moves(t, h)
    <2>1. ~ At(t, "free") /\ ~ At(t, "free")'
      BY <1>3, <1>5, <1>6 DEF At
    <2> QED BY <1>2, <1>3, <1>6, <1>13, <1>16, <1>24, <1>25, <1>26, <1>27, <1>28, <2>1
            DEF Moves, SameNode
  <1>30. CallsOK'
    <2>1. \A u \in Threads : u # t => CallOK(u)'
      BY <1>1, <1>3, <1>4, <1>16, OthersCallOK
    <2>2. lock' # t
      BY <1>3, NoneIsNone
    <2>3. q = "put" <=> p # <<>>
      BY <1>5
    <2>4. CallOK(t)'
      BY <1>5, <1>6, <2>2, <2>3 DEF CallOK, Idle, At, Locked
    <2> QED BY <2>1, <2>4 DEF CallsOK
  <1>31. Timed'
    BY <1>14 DEF Timed, Times
  <1>32. Limits'
    <2>1. Cardinality(entries') = Cardinality(entries) + 1
      BY <1>1, <1>3, <1>4, EntriesFinite, FS_AddElement
    <2> QED BY <1>1, <1>3, <2>1, EntriesFinite, TwiceSize DEF Limits, Room
  <1>33. OneEntryPerName'
    <2>1. \A m \in Nodes : SameNode(m)
      BY <1>13 DEF SameNode
    <2>2. entries \subseteq Nodes /\ rm_entries \subseteq Nodes
      BY <1>1 DEF TypeOK
    <2> QED BY <1>1, <1>3, <1>4, <2>1, <2>2 DEF OneEntryPerName, SameNode, NotNamed
  <1>34. Insertings'
    <2>1. Inserting(t)'
      BY <1>5, <1>6 DEF Inserting, At
    <2> QED BY <1>1, <1>4, <1>16, <2>1, OthersInserting DEF Insertings
  <1>35. Kept'
    <2> SUFFICES ASSUME rmtable, NEW m \in Nodes PROVE InPlace(m)'
      BY <1>3 DEF Kept
    <2>1. InPlace(m)
      BY <1>1 DEF Kept
    <2>2. CASE m = h
      BY <1>3, <2>2 DEF InPlace
    <2>3. CASE m # h
      <3>1. call[t].pc # "insert_rm" /\ call[t].re # m
        BY <1>3, <1>4, <2>3, NoneIsNone
      <3> QED BY <1>3, <1>8, <1>29, <2>1, <2>3, <3>1, PlaceKept
    <2> QED BY <2>2, <2>3
  <1> QED BY <1>15, <1>29, <1>30, <1>31, <1>32, <1>33, <1>34, <1>35, MovesKeep DEF IInv

-----------------------------------------------------------------------------
(* The invariant.                                                          *)

LEMMA InitIInv == Init => IInv
  <1> SUFFICES ASSUME Init PROVE IInv
    OBVIOUS
  <1>1. TypeOK
    <2>1. NoCall \in CallRec
      BY DEF NoCall, CallRec
    <2>2. Unused \in [ref : Nat, name : Names \cup {NoName},
                      state : {"NODE_ACTIVE", "NODE_EVICTED"}]
      BY DEF Unused
    <2>3. 0 \in 0..MaxRefs
      BY RefsFit
    <2> QED BY <2>1, <2>2, <2>3 DEF Init, TypeOK
  <1>2. \A t \in Threads : /\ call[t].pc = "idle" /\ call[t].h = NoEntry /\ call[t].re = NoEntry
                           /\ call[t].puts = <<>> /\ call[t].todo = {} /\ new[t] = NoEntry
    BY DEF Init, NoCall
  <1>3. CallsOK
    <2>1. lock = NoThread
      BY DEF Init
    <2> QED BY <1>2, <2>1, NoneIsNone DEF CallsOK, CallOK, Idle, At, Locked
  <1>4. Timed /\ OneEntryPerName /\ Limits
    <2>1. Cardinality({}) = 0
      BY FS_EmptySet
    <2>2. Timed
      BY DEF Init, Timed
    <2>3. OneEntryPerName
      BY DEF Init, OneEntryPerName
    <2> QED BY <2>1, <2>2, <2>3, TwiceSize DEF Init, Limits
  <1>5. Insertings /\ Going
    BY <1>2 DEF Insertings, Inserting, Going, At
  <1>6. Fresh /\ RmUsed /\ RefExact /\ NoLostNode /\ Kept
    BY <1>2 DEF Init, Fresh, RmUsed, RefExact, NoLostNode, Kept, InPlace
  <1>7. Spare
    <2> SUFFICES ASSUME NEW n \in Nodes PROVE References(n) = {}
      <3>1. free_nodes = Nodes /\ rm_entries = {}
        BY DEF Init
      <3>2. \A n \in Nodes, t \in Threads : call[t].puts # <<n>>
        BY <1>2
      <3> QED BY <3>1, <3>2 DEF Spare
    <2>1. RefsTold(n)
      BY <1>1, RefMember
    <2>2. n \notin entries /\ \A t \in Threads : held[t][n] = 0
      BY DEF Init
    <2>3. ASSUME NEW t \in Threads
          PROVE  new[t] # n /\ ~ HasPut(t, n) /\ call[t].re # n
      BY <1>2, NoneIsNone DEF HasPut
    <2>4. ASSUME NEW x \in Slots PROVE x \notin References(n)
      <3>1. CASE x = <<NoThread, "entries", 0>>
        BY <2>1, <2>2, <3>1 DEF RefsTold
      <3>2. ASSUME NEW t \in Threads, x \in {<<t, "new", 0>>, <<t, "put", 0>>, <<t, "re", 0>>}
            PROVE  x \notin References(n)
        BY <2>1, <2>3, <3>2 DEF RefsTold
      <3>3. ASSUME NEW t \in Threads, NEW k \in 1..MaxRefs, x = <<t, "held", k>>
            PROVE  x \notin References(n)
        <4>1. ~ (k <= held[t][n])
          BY <2>2
        <4> QED BY <2>1, <3>3, <4>1 DEF RefsTold
      <3> QED BY <3>1, <3>2, <3>3, SlotKinds
    <2> QED BY <2>1, <2>4 DEF RefsTold
  <1> QED BY <1>1, <1>3, <1>4, <1>5, <1>6, <1>7 DEF IInv

LEMMA StutterIInv == IInv /\ UNCHANGED vars => IInv'
  <1> SUFFICES ASSUME IInv, UNCHANGED vars PROVE IInv'
    OBVIOUS
  <1>1. /\ UNCHANGED <<rmtable, node, free_nodes, entries, rm_entries, lru>>
        /\ UNCHANGED <<lock, call, held, new, dropped>>
    BY DEF vars
  <1>2. TypeOK' /\ CallsOK' /\ Timed' /\ OneEntryPerName' /\ Limits'
    <2>1. TypeOK'
      BY <1>1 DEF IInv, TypeOK
    <2>2. CallsOK'
      BY <1>1 DEF IInv, CallsOK, CallOK, Idle, At, MayHold
    <2> QED BY <1>1, <2>1, <2>2 DEF IInv, Timed, OneEntryPerName, Limits
  <1>3. Insertings' /\ Fresh' /\ Going' /\ RmUsed' /\ Kept' /\ NoLostNode'
    BY <1>1 DEF IInv, Insertings, Inserting, NotNamed, Room, Fresh, Going, RmUsed, Kept, InPlace,
                NoLostNode, BeingFreed, At
  <1>4. Spare' /\ RefExact'
    BY <1>1 DEF IInv, Spare, RefExact, References, At
  <1> QED BY <1>2, <1>3, <1>4 DEF IInv

LEMMA NextIInv == IInv /\ [Next]_vars => IInv'
  <1> SUFFICES ASSUME IInv, [Next]_vars PROVE IInv'
    OBVIOUS
  <1>1. CASE UNCHANGED vars
    BY <1>1, StutterIInv
  <1>2. ASSUME NEW t \in Threads, NEW name \in Names,
               \/ AllocInit(t, name) \/ AllocInitFails(t, name) \/ xcache_lookup(t, name)
               \/ InvalidateEntry(t, name) \/ InvalidateRm(t, name)
        PROVE  IInv'
    <2>1. CASE AllocInit(t, name)
      BY <2>1, AllocInitInv
    <2>2. CASE AllocInitFails(t, name)
      BY <2>2, AllocInitFailsInv
    <2>3. CASE xcache_lookup(t, name)
      BY <2>3, FoundInv DEF xcache_lookup
    <2>4. CASE InvalidateEntry(t, name)
      BY <2>4, InvalidateEntryInv
    <2>5. CASE InvalidateRm(t, name)
      BY <2>5, InvalidateRmInv
    <2> QED BY <1>2, <2>1, <2>2, <2>3, <2>4, <2>5
  <1>3. ASSUME NEW t \in Threads, NEW n \in Nodes,
               xcache_get(t, n) \/ xcache_put(t, n) \/ xcache_remove(t, n)
        PROVE  IInv'
    BY <1>3, GetInv, PutInv, RemoveInv
  <1>4. ASSUME NEW t \in Threads,
               \/ FreeNew(t) \/ InsertFinds(t) \/ InsertMisses(t) \/ LookupRm(t)
               \/ InsertEntry(t) \/ EvictLru(t) \/ InsertRm(t)
        PROVE  IInv'
    <2>1. CASE InsertFinds(t)
      <3>1. PICK name : name = node[new[t]].name
        OBVIOUS
      <3>2. Idle(t) /\ Found(t, Lookup(entries, name))
        BY <2>1, <3>1 DEF InsertFinds
      <3> QED BY <3>2, FoundInv
    <2> QED BY <1>4, <2>1, FreeNewInv, InsertMissesInv, LookupRmInv, InsertEntryInv,
               EvictLruInv, InsertRmInv
  <1>5. ASSUME NEW t \in Threads, PutRef(t) \/ PutFinalize(t) \/ PutLast(t) \/ Free(t)
        PROVE  IInv'
    BY <1>5, PutRefInv, PutFinalizeInv, PutLastInv, FreeInv
  <1> QED BY <1>1, <1>2, <1>3, <1>4, <1>5 DEF Next

(* Every behaviour of the cache keeps the invariant.                       *)
THEOREM CacheInvariant == Spec => []IInv
  BY InitIInv, NextIInv, PTL DEF Spec

(* The reference count of a node in use is exact (xcache_entry_get and     *)
(* xcache_entry_put), provided that there are fewer references than it can *)
(* tell: RefsFit.                                                          *)
THEOREM CountsAreExact == Spec => []RefExact
  <1>1. IInv => RefExact
    BY DEF IInv
  <1> QED BY <1>1, CacheInvariant, PTL

(* With XCACHE_LRU_ARRAY, a node in free_nodes is nobody's, and has no     *)
(* access time left: xcache_alloc_init may take it.                        *)
THEOREM FreeNodesAreNobodys == Spec => []FreeIsFree
  <1>1. IInv => FreeIsFree
    <2> SUFFICES ASSUME IInv, NEW n \in free_nodes
                 PROVE  /\ n \notin entries \cup rm_entries \cup Range(lru)
                        /\ \A t \in Threads : held[t][n] = 0 /\ new[t] # n
                                              /\ call[t].h # n /\ n \notin Range(call[t].puts)
      BY DEF FreeIsFree
    <2>1. /\ n \in Nodes /\ Untouched(n) /\ n \notin rm_entries
          /\ \A u \in Threads : call[u].puts # <<n>>
      BY SpareNode
    <2>2. n \notin Range(lru)
      <3>1. Timed /\ lru \in Seq(Nodes) /\ n \notin entries
        BY <2>1 DEF IInv, TypeOK, Untouched
      <3> QED BY <2>1, <3>1 DEF Timed, Range
    <2>3. ASSUME NEW t \in Threads PROVE n \notin Range(call[t].puts)
      <3>1. call[t].puts = <<>> \/ \E m \in Nodes : call[t].puts = <<m>>
        BY DEF IInv, TypeOK, CallRec
      <3>2. CASE call[t].puts = <<>>
        BY <3>2 DEF Range
      <3>3. ASSUME NEW m \in Nodes, call[t].puts = <<m>> PROVE n \notin Range(call[t].puts)
        <4>1. m # n
          BY <2>1, <3>3
        <4> QED BY <3>3, <4>1 DEF Range
      <3> QED BY <3>1, <3>2, <3>3
    <2> QED BY <2>1, <2>2, <2>3 DEF Untouched
  <1> QED BY <1>1, CacheInvariant, PTL

(* There is one node for a name, in one table, through evictions,          *)
(* re-insertions and removals (__xcache_insert and __xcache_evict).        *)
THEOREM NamesAreUnique == Spec => []OneEntryPerName
  <1>1. IInv => OneEntryPerName
    BY DEF IInv
  <1> QED BY <1>1, CacheInvariant, PTL

(* No node without references is forgotten by xcache_entry_put, but those  *)
(* whose names a caller took out.                                          *)
THEOREM NodesAreFreed == Spec => []NoLostNode
  <1>1. IInv => NoLostNode
    BY DEF IInv
  <1> QED BY <1>1, CacheInvariant, PTL

(* rm_entries has room for the entry that is evicted: at least Size of the *)
(* nodes are not in it.                                                    *)
LEMMA RoomForEvicted ==
    ASSUME IInv, NEW t \in Threads, At(t, "insert_rm")
    PROVE  Room(rm_entries)
  <1>1. TypeOK /\ OneEntryPerName /\ CallOK(t) /\ Inserting(t) /\ call[t].pc = "insert_rm"
    BY DEF IInv, CallsOK, Insertings, At
  <1>2. call[t].puts # <<>>
    BY <1>1 DEF CallOK, At
  <1>3. PICK v \in Nodes : call[t].puts = <<v>> /\ Head(call[t].puts) = v
    BY <1>1, <1>2, OnePut
  <1>4. PICK h : h = call[t].h
    OBVIOUS
  <1>5. h \in Nodes /\ h \notin entries \cup rm_entries
    BY <1>1, <1>4, AtInsert
  <1>6. /\ v \notin entries \cup rm_entries /\ v # h
        /\ Cardinality(entries) = Size - 1
    BY <1>1, <1>3, <1>4 DEF Inserting, NotNamed, At
  <1>7. PICK S : S = (entries \cup {v}) \cup {h}
    OBVIOUS
  <1>8. IsFiniteSet(S) /\ Cardinality(S) = Size + 1
    <2>1. IsFiniteSet(entries \cup {v}) /\ Cardinality(entries \cup {v}) = (Size - 1) + 1
      BY <1>1, <1>6, EntriesFinite, FS_AddElement
    <2>2. h \notin entries \cup {v}
      BY <1>5, <1>6
    <2>3. IsFiniteSet(S) /\ Cardinality(S) = ((Size - 1) + 1) + 1
      BY <1>7, <2>1, <2>2, FS_AddElement
    <2> QED BY <2>3, TwiceSize
  <1>9. S \cap rm_entries = {} /\ S \cup rm_entries \in SUBSET Nodes
    BY <1>1, <1>5, <1>6, <1>7 DEF TypeOK, OneEntryPerName
  <1>10. IsFiniteSet(rm_entries) /\ Cardinality(rm_entries) \in Nat
    BY <1>1, EntriesFinite
  <1>11. Cardinality(S \cup rm_entries) = (Size + 1) + Cardinality(rm_entries)
    <2>1. Cardinality(S \cap rm_entries) = 0
      BY <1>9, FS_EmptySet
    <2>2. Cardinality(S \cup rm_entries)
            = Cardinality(S) + Cardinality(rm_entries) - Cardinality(S \cap rm_entries)
      BY <1>8, <1>10, FS_Union
    <2> QED BY <1>8, <1>10, <2>1, <2>2, TwiceSize
  <1>12. Cardinality(S \cup rm_entries) <= 2 * Size
    BY <1>9, TwiceSize, FS_Subset
  <1> QED BY <1>10, <1>11, <1>12, TwiceSize DEF Room

(* With XCACHE_LRU_ARRAY, an insertion never fails: the least of the times *)
(* __xcache_evict_lru looks for is of an entry.                            *)
THEOREM InsertionsSucceed == Spec => []InsertNeverFails
  <1>1. IInv => InsertNeverFails
    <2> SUFFICES ASSUME IInv, NEW t \in Threads
                 PROVE  /\ At(t, "insert") /\ ~ Room(entries) => lru # <<>> /\ Head(lru) \in entries
                        /\ At(t, "insert_rm") => Room(rm_entries)
      BY DEF InsertNeverFails
    <2>1. ASSUME ~ Room(entries) PROVE lru # <<>> /\ Head(lru) \in entries
      <3>1. TypeOK /\ Timed /\ lru \in Seq(Nodes) /\ entries \subseteq Nodes
        BY DEF IInv, TypeOK
      <3>2. entries # {}
        <4>1. Cardinality({}) = 0
          BY FS_EmptySet
        <4> QED BY <2>1, <4>1, TwiceSize DEF Room
      <3>3. PICK i \in 1..Len(lru) : lru[i] \in entries
        BY <3>1, <3>2 DEF Timed
      <3>4. lru # <<>> /\ Head(lru) = lru[1] /\ 1 \in 1..Len(lru) /\ lru[1] \in Nodes
        BY <3>1, <3>3
      <3> QED BY <3>1, <3>4 DEF Timed
    <2> QED BY <2>1, RoomForEvicted
  <1> QED BY <1>1, CacheInvariant, PTL
=============================================================================
