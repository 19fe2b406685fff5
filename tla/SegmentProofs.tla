--------------------------- MODULE SegmentProofs ----------------------------
(***************************************************************************)
(* The count of references of xseg_join and xseg_leave covers whoever has  *)
(* a segment mapped, for any number of threads and whatever becomes of the *)
(* name in the meantime.                                                   *)
(***************************************************************************)
EXTENDS Segment, FiniteSetTheorems, TLAPS

(* The threads that need the segment to be mapped.                         *)
Users == {t \in Threads : handle[t] # NULL \/ call[t].at \in Joining}

(* A thread that joins has no handle yet.                                  *)
JoinsOnce == \A t \in Threads : call[t].at \in Joining => handle[t] = NULL

CallsTyped ==
    /\ join_ref \in Nat
    /\ call = [t \in Threads |-> call[t]]
    /\ handle = [t \in Threads |-> handle[t]]

IInv == CallsTyped /\ JoinsOnce /\ JoinRefCovers

-----------------------------------------------------------------------------
LEMMA UsersFinite == IsFiniteSet(Users) /\ Cardinality(Users) \in Nat
  <1>1. Users \subseteq Threads
    BY DEF Users
  <1> QED BY <1>1, SegmentAssumption, FS_Subset, FS_CardinalityType

(* A step that brings no user and gives no reference back.                 *)
LEMMA NoMoreUsers ==
    ASSUME IInv, Users' \subseteq Users, join_ref' \in Nat, join_ref' >= join_ref
    PROVE  JoinRefCovers'
  <1>1. Cardinality(Users') \in Nat /\ Cardinality(Users') <= Cardinality(Users)
    BY UsersFinite, FS_Subset, FS_CardinalityType
  <1>2. Cardinality(Users) <= join_ref
    BY DEF IInv, JoinRefCovers, Users
  <1>3. Cardinality(Users') <= join_ref'
    BY <1>1, <1>2, UsersFinite DEF IInv, CallsTyped
  <1> QED BY <1>3, <1>1 DEF JoinRefCovers, Users

(* A user with its reference.                                              *)
LEMMA OneMoreUser ==
    ASSUME IInv, NEW t \in Threads, Users' \subseteq Users \cup {t}, join_ref' = join_ref + 1
    PROVE  JoinRefCovers'
  <1>1. /\ IsFiniteSet(Users \cup {t})
        /\ Cardinality(Users \cup {t}) <= Cardinality(Users) + 1
        /\ Cardinality(Users \cup {t}) \in Nat
    <2>1. /\ IsFiniteSet(Users \cup {t})
          /\ Cardinality(Users \cup {t}) =
               IF t \in Users THEN Cardinality(Users) ELSE Cardinality(Users) + 1
      BY UsersFinite, FS_AddElement
    <2> QED BY <2>1, UsersFinite
  <1>2. Cardinality(Users') \in Nat /\ Cardinality(Users') <= Cardinality(Users \cup {t})
    BY <1>1, FS_Subset, FS_CardinalityType
  <1>3. Cardinality(Users) <= join_ref
    BY DEF IInv, JoinRefCovers, Users
  <1>4. Cardinality(Users') <= join_ref'
    BY <1>1, <1>2, <1>3, UsersFinite DEF IInv, CallsTyped
  <1> QED BY <1>2, <1>4 DEF JoinRefCovers, Users

(* A user that goes with its reference: it had one.                        *)
LEMMA OneUserLess ==
    ASSUME IInv, NEW t \in Users, Users' \subseteq Users \ {t}, join_ref' = join_ref - 1
    PROVE  JoinRefCovers' /\ join_ref' \in Nat
  <1>1. /\ IsFiniteSet(Users \ {t})
        /\ Cardinality(Users \ {t}) = Cardinality(Users) - 1
        /\ Cardinality(Users \ {t}) \in Nat
    BY UsersFinite, FS_RemoveElement, FS_CardinalityType
  <1>2. Cardinality(Users') \in Nat /\ Cardinality(Users') <= Cardinality(Users \ {t})
    BY <1>1, FS_Subset, FS_CardinalityType
  <1>3. Cardinality(Users) <= join_ref
    BY DEF IInv, JoinRefCovers, Users
  <1>4. Cardinality(Users') <= join_ref' /\ join_ref' \in Nat
    BY <1>1, <1>2, <1>3, UsersFinite DEF IInv, CallsTyped
  <1> QED BY <1>2, <1>4 DEF JoinRefCovers, Users

(* The segment's object changes under the threads, or nothing of theirs.   *)
LEMMA OthersStep ==
    ASSUME IInv, UNCHANGED <<join_ref, handle>>, call' = call \/ Raced
    PROVE  IInv'
  <1>1. \A t \in Threads : call'[t].at \in Joining => call[t].at \in Joining
    BY DEF Raced
  <1>2. Users' \subseteq Users
    BY <1>1 DEF Users
  <1>3. CallsTyped'
    BY DEF IInv, CallsTyped, Raced
  <1>4. JoinsOnce'
    BY <1>1 DEF IInv, JoinsOnce
  <1>5. JoinRefCovers'
    BY <1>2, <1>3, NoMoreUsers DEF IInv, CallsTyped
  <1> QED BY <1>3, <1>4, <1>5 DEF IInv

(* xseg_join counts its reference first, and keeps it if it fails at once. *)
LEMMA JoinStep ==
    ASSUME IInv, NEW t \in Threads, xseg_join(t)
    PROVE  IInv'
  <1>1. /\ handle[t] = NULL /\ handle' = handle /\ join_ref' = join_ref + 1
        /\ \A u \in Threads \ {t} : call'[u] = call[u]
        /\ call' = [u \in Threads |-> call'[u]]
    BY DEF IInv, CallsTyped, xseg_join
  <1>2. Users' \subseteq Users \cup {t}
    BY <1>1 DEF Users
  <1>3. CallsTyped' /\ JoinsOnce'
    BY <1>1 DEF IInv, CallsTyped, JoinsOnce
  <1> QED BY <1>1, <1>2, <1>3, OneMoreUser DEF IInv

(* A join that fails or goes on is, or was, that of a user.                *)
LEMMA GoesOn ==
    ASSUME IInv, NEW t \in Threads, call[t].at \in Joining,
           join_ref' = join_ref, handle' = handle,
           \A u \in Threads \ {t} : call'[u] = call[u],
           call' = [u \in Threads |-> call'[u]]
    PROVE  IInv'
  <1>1. Users' \subseteq Users
    BY DEF Users
  <1>2. CallsTyped' /\ JoinsOnce'
    BY DEF IInv, CallsTyped, JoinsOnce
  <1> QED BY <1>1, <1>2, NoMoreUsers DEF IInv, CallsTyped

(* It fails; the reference is kept or given back.                          *)
LEMMA FailsStep ==
    ASSUME IInv, NEW t \in Threads, call[t].at \in Joining,
           NEW refs \in {0, 1}, Fails(t, refs), handle' = handle
    PROVE  IInv'
  <1>1. /\ \A u \in Threads \ {t} : call'[u] = call[u]
        /\ call'[t] = Idle /\ call' = [u \in Threads |-> call'[u]]
        /\ join_ref' = join_ref - refs
    BY DEF IInv, CallsTyped, Fails
  <1>2. CASE refs = 0
    BY <1>1, <1>2, GoesOn DEF IInv, CallsTyped
  <1>3. CASE refs = 1
    <2>1. t \in Users /\ Users' \subseteq Users \ {t}
      BY <1>1 DEF IInv, JoinsOnce, Users, Idle, Joining
    <2>2. JoinsOnce'
      BY <1>1 DEF IInv, JoinsOnce
    <2>3. JoinRefCovers' /\ join_ref' \in Nat
      BY <1>1, <1>3, <2>1, OneUserLess
    <2> QED BY <1>1, <2>2, <2>3 DEF IInv, CallsTyped
  <1> QED BY <1>2, <1>3

(* The process is killed: nobody is left.                                  *)
LEMMA KilledStep ==
    ASSUME IInv, Killed
    PROVE  IInv'
  <1>1. Users' = {}
    BY DEF Killed, Users, At, Joining
  <1>2. CallsTyped' /\ JoinsOnce'
    BY DEF IInv, CallsTyped, JoinsOnce, Killed
  <1> QED BY <1>1, <1>2, NoMoreUsers DEF IInv, CallsTyped, Killed

(* The steps of a join.                                                    *)
LEMMA JoiningSteps ==
    ASSUME IInv, NEW t \in Threads,
           join_page(t) \/ join_whole(t) \/ join_copy(t) \/ join_no_memory(t)
    PROVE  IInv'
  <1>1. call[t].at \in Joining
    BY DEF Joining, join_page, join_whole, join_copy, join_no_memory
  <1>2. CASE join_page(t)
    <2>1. CASE Killed
      BY <2>1, KilledStep
    <2>2. CASE Fails(t, 0) /\ UNCHANGED handle
      BY <1>1, <2>2, FailsStep
    <2>3. CASE /\ call' = [call EXCEPT ![t].at = "whole"]
               /\ UNCHANGED <<mutex, join_ref, handle>>
      BY <1>1, <2>3, GoesOn DEF IInv, CallsTyped
    <2> QED BY <1>2, <2>1, <2>2, <2>3 DEF join_page
  <1>3. CASE join_whole(t)
    <2>1. CASE Fails(t, 0) /\ UNCHANGED handle
      BY <1>1, <2>1, FailsStep
    <2>2. CASE /\ call' = [call EXCEPT ![t] = [at |-> "copy", raced |-> @.raced, gen |-> name]]
               /\ UNCHANGED <<mutex, join_ref, handle>>
      BY <1>1, <2>2, GoesOn DEF IInv, CallsTyped
    <2> QED BY <1>3, <2>1, <2>2 DEF join_whole
  <1>4. CASE join_copy(t)
    <2>1. CASE Killed
      BY <2>1, KilledStep
    <2>2. CASE ~Killed
      <3>1. /\ \A u \in Threads \ {t} : call'[u] = call[u] /\ handle'[u] = handle[u]
            /\ call'[t] = Idle /\ call' = [u \in Threads |-> call'[u]]
            /\ handle' = [u \in Threads |-> handle'[u]] /\ join_ref' = join_ref
        BY <1>4, <2>2 DEF IInv, CallsTyped, join_copy
      <3>2. Users' \subseteq Users
        BY <1>1, <3>1 DEF Users
      <3>3. CallsTyped' /\ JoinsOnce'
        BY <3>1 DEF IInv, CallsTyped, JoinsOnce, Idle, Joining
      <3> QED BY <3>1, <3>2, <3>3, NoMoreUsers DEF IInv, CallsTyped
    <2> QED BY <2>1, <2>2
  <1>5. CASE join_no_memory(t)
    <2>1. \E refs \in {0, 1} : Fails(t, refs)
      BY <1>5 DEF join_no_memory
    <2> QED BY <1>1, <1>5, <2>1, FailsStep DEF join_no_memory
  <1> QED BY <1>2, <1>3, <1>4, <1>5

(* xseg_leave gives the reference of its handle back.                      *)
LEMMA LeaveStep ==
    ASSUME IInv, NEW t \in Threads, xseg_leave(t)
    PROVE  IInv'
  <1>1. /\ handle[t] # NULL /\ handle'[t] = NULL /\ join_ref' = join_ref - 1
        /\ \A u \in Threads \ {t} : call'[u] = call[u] /\ handle'[u] = handle[u]
        /\ call' = [u \in Threads |-> call'[u]] /\ handle' = [u \in Threads |-> handle'[u]]
    BY DEF IInv, CallsTyped, xseg_leave
  <1>2. call'[t].at \notin Joining
    BY DEF IInv, CallsTyped, xseg_leave, Joining, Idle, At
  <1>3. t \in Users /\ Users' \subseteq Users \ {t}
    BY <1>1, <1>2 DEF Users
  <1>4. JoinsOnce'
    BY <1>1, <1>2 DEF IInv, JoinsOnce
  <1>5. JoinRefCovers' /\ join_ref' \in Nat
    BY <1>1, <1>3, OneUserLess
  <1> QED BY <1>1, <1>4, <1>5 DEF IInv, CallsTyped

LEMMA InitIInv == Init => IInv
  <1> SUFFICES ASSUME Init PROVE IInv
    OBVIOUS
  <1>1. Users = {}
    BY DEF Init, Users, Idle, Joining
  <1>2. JoinRefCovers
    <2>1. Cardinality(Users) = 0
      BY <1>1, UsersFinite, FS_EmptySet
    <2> QED BY <2>1 DEF Init, JoinRefCovers, Users
  <1> QED BY <1>2 DEF Init, IInv, CallsTyped, JoinsOnce

(* Each step keeps the invariant.                                          *)
LEMMA NextIInv ==
    ASSUME IInv, [Next]_vars
    PROVE  IInv'
  <1>1. ASSUME NEW a \in Admins, NEW short \in BOOLEAN, posix_allocate(a, short) PROVE IInv'
    BY <1>1, OthersStep DEF posix_allocate
  <1>2. ASSUME NEW a \in Admins,
               \/ create_map(a) \/ create_version(a) \/ create_fill(a) \/ out_deallocate(a)
               \/ destroy_join(a) \/ xseg_destroy(a) \/ Die(a)
        PROVE  IInv'
    BY <1>2, OthersStep DEF create_map, create_version, create_fill, out_deallocate,
                            destroy_join, xseg_destroy, Die, thr
  <1>3. ASSUME NEW t \in Threads,
               xseg_initialize(t) \/ \E type \in AllTypes : xseg_unregister(t, type)
        PROVE  IInv'
    BY <1>3, OthersStep DEF xseg_initialize, xseg_unregister, thr
  <1>4. ASSUME UNCHANGED vars PROVE IInv'
    BY <1>4, OthersStep DEF vars, thr
  <1> QED BY <1>1, <1>2, <1>3, <1>4, JoinStep, JoiningSteps, LeaveStep DEF Next

(* join_ref is never below the number of threads that have the segment or  *)
(* are joining it, so that xseg_leave unmaps it under nobody; proved for   *)
(* any finite set of threads and any number of creations and joins.        *)
THEOREM ReferencesCover == Spec => []JoinRefCovers
  <1>1. IInv => JoinRefCovers
    BY DEF IInv
  <1> QED BY <1>1, InitIInv, NextIInv, PTL DEF Spec

-----------------------------------------------------------------------------
(* Why a join without a create beside it finds a whole segment.            *)

(* As much of the types as the argument needs.                             *)
CallRec == [at : {"idle", "stuck", "dead"}]
           \cup [at : {"page", "whole"}, raced : BOOLEAN]
           \cup [at : {"copy"}, raced : BOOLEAN, gen : 1..MaxGens]
           \cup [at : {"kept"}, ready : BOOLEAN]

AdminRec == [at : {"idle", "map", "unlink", "dead"}]
            \cup [at : {"version", "fill"}, gen : 1..MaxGens]

SegTyped ==
    /\ name \in {NULL} \cup 1..MaxGens /\ gens \in Nat
    /\ stage \in [1..MaxGens -> {"none", "empty", "blank", "version", "ready"}]
    /\ admin \in [Admins -> AdminRec]
    /\ call \in [Threads -> CallRec]
    /\ handle \in [Threads -> {NULL} \cup [gen : 1..MaxGens, ready : BOOLEAN, raced : BOOLEAN]]

Filling(g) == \E a \in Admins : admin[a].at = "fill" /\ admin[a].gen = g

Whole(g) == stage[g] = "ready" \/ g \in abandoned

(* Whoever has written the version of the segment that has the name is     *)
(* still at work on it, is done, or died over it.                          *)
NamedFilled ==
    name # NULL => stage[name] \in {"empty", "blank"} \/ Whole(name) \/ Filling(name)

(* Nobody creates beside a join that has not been marked.                  *)
UnracedAlone == \A t \in Threads : call[t].at \in Joining /\ ~call[t].raced => ~Creating

(* What such a join has seen of the name is a whole segment, and still is. *)
UnracedWhole ==
    \A t \in Threads :
       /\ call[t].at = "whole" /\ ~call[t].raced => name = NULL \/ Whole(name)
       /\ call[t].at = "copy" /\ ~call[t].raced => Whole(call[t].gen)

ReadyInv == SegTyped /\ NamedFilled /\ UnracedAlone /\ UnracedWhole /\ ReadyUnlessRaced


(* Each step keeps the types.                                              *)
LEMMA NextSegTyped ==
    ASSUME SegTyped, [Next]_vars
    PROVE  SegTyped'
  <1> USE SegmentAssumption DEF SegTyped
  <1>1. ASSUME NEW a \in Admins, NEW short \in BOOLEAN, posix_allocate(a, short) PROVE SegTyped'
    <2>1. gens + 1 \in 1..MaxGens
      BY <1>1 DEF posix_allocate
    <2>2. ASSUME NEW t \in Threads PROVE call'[t] \in CallRec
      <3>1. PICK c \in CallRec : c = call[t]
        OBVIOUS
      <3>2. c.at \in Joining => [c EXCEPT !.raced = TRUE] \in CallRec
        BY DEF CallRec, Joining
      <3>3. call'[t] = IF c.at \in Joining THEN [c EXCEPT !.raced = TRUE] ELSE c
        BY <1>1, <3>1 DEF posix_allocate, Raced
      <3> QED BY <3>2, <3>3
    <2>3. call' = [t \in Threads |-> call'[t]]
      BY <1>1 DEF posix_allocate, Raced
    <2>4. call' \in [Threads -> CallRec]
      BY <2>2, <2>3, Zenon
    <2>5. admin' \in [Admins -> AdminRec]
      BY <1>1 DEF posix_allocate, AdminRec, Idle, At
    <2> QED BY <1>1, <2>1, <2>4, <2>5 DEF posix_allocate
  <1>2. ASSUME NEW a \in Admins, create_map(a) PROVE SegTyped'
    BY <1>2 DEF create_map, AdminRec, Idle, thr, shm
  <1>3. ASSUME NEW a \in Admins, create_version(a) \/ create_fill(a) PROVE SegTyped'
    <2>1. admin[a].gen \in 1..MaxGens
      BY <1>3 DEF create_version, create_fill, AdminRec
    <2> QED BY <1>3, <2>1 DEF create_version, create_fill, AdminRec, At, Idle, thr
  <1>4. ASSUME NEW a \in Admins,
               out_deallocate(a) \/ destroy_join(a) \/ xseg_destroy(a) \/ Die(a)
        PROVE  SegTyped'
    BY <1>4 DEF out_deallocate, destroy_join, xseg_destroy, Die, AdminRec, At, Idle, thr, shm
  <1>5. ASSUME NEW t \in Threads,
               xseg_initialize(t) \/ \E type \in AllTypes : xseg_unregister(t, type)
        PROVE  SegTyped'
    BY <1>5 DEF xseg_initialize, xseg_unregister, thr, shm, adm
  <1>6. ASSUME NEW t \in Threads, xseg_join(t) \/ xseg_leave(t) PROVE SegTyped'
    <2>1. CASE xseg_join(t)
      <3>1. [at |-> "page", raced |-> Creating] \in CallRec /\ At("stuck") \in CallRec
        <4>1. Creating \in BOOLEAN
          BY DEF Creating
        <4> QED BY <4>1 DEF CallRec, At
      <3>2. call' \in [Threads -> CallRec]
        BY <2>1, <3>1 DEF xseg_join
      <3> QED BY <2>1, <3>2 DEF xseg_join, shm, adm
    <2>2. CASE xseg_leave(t)
      <3>1. handle[t].ready \in BOOLEAN
        BY <2>2 DEF xseg_leave
      <3> QED BY <2>2, <3>1 DEF xseg_leave, CallRec, At, shm, adm
    <2> QED BY <1>6, <2>1, <2>2
  <1>7. ASSUME Killed, UNCHANGED <<shm, adm>> PROVE SegTyped'
    BY <1>7 DEF Killed, CallRec, At, shm, adm
  <1>8. ASSUME NEW t \in Threads, NEW refs, Fails(t, refs), UNCHANGED <<handle, shm, adm>>
        PROVE  SegTyped'
    BY <1>8 DEF Fails, CallRec, Idle, shm, adm
  <1>9. ASSUME NEW t \in Threads, join_page(t) PROVE SegTyped'
    <2>1. CASE call' = [call EXCEPT ![t].at = "whole"] /\ UNCHANGED <<handle, shm, adm>>
      BY <1>9, <2>1 DEF join_page, CallRec, shm, adm
    <2> QED BY <1>7, <1>8, <1>9, <2>1 DEF join_page
  <1>10. ASSUME NEW t \in Threads, join_whole(t) PROVE SegTyped'
    <2>1. CASE name # NULL
      <3>1. call[t].raced \in BOOLEAN
        BY <1>10 DEF join_whole, CallRec
      <3>2. [at |-> "copy", raced |-> call[t].raced, gen |-> name] \in CallRec
        BY <2>1, <3>1 DEF CallRec
      <3>3. call' \in [Threads -> CallRec]
        BY <1>10, <2>1, <3>2 DEF join_whole
      <3>4. UNCHANGED <<handle, shm, adm>>
        BY <1>10 DEF join_whole
      <3> QED BY <3>3, <3>4 DEF shm, adm
    <2> QED BY <1>8, <1>10, <2>1 DEF join_whole
  <1>11. ASSUME NEW t \in Threads, join_copy(t) PROVE SegTyped'
    <2>1. CASE stage[call[t].gen] # "empty"
      <3>1. call[t].raced \in BOOLEAN /\ call[t].gen \in 1..MaxGens
        BY <1>11 DEF join_copy, CallRec
      <3>2. [gen |-> call[t].gen, ready |-> stage[call[t].gen] = "ready", raced |-> call[t].raced]
              \in [gen : 1..MaxGens, ready : BOOLEAN, raced : BOOLEAN]
        BY <3>1
      <3>3. handle' \in [Threads -> {NULL} \cup [gen : 1..MaxGens, ready : BOOLEAN, raced : BOOLEAN]]
        BY <1>11, <2>1, <3>2 DEF join_copy
      <3>4. call' \in [Threads -> CallRec]
        BY <1>11, <2>1 DEF join_copy, CallRec, Idle
      <3>5. UNCHANGED <<shm, adm>>
        BY <1>11 DEF join_copy
      <3> QED BY <3>3, <3>4, <3>5 DEF shm, adm
    <2> QED BY <1>7, <1>11, <2>1 DEF join_copy
  <1>12. ASSUME NEW t \in Threads, join_no_memory(t) PROVE SegTyped'
    BY <1>8, <1>12 DEF join_no_memory
  <1>13. ASSUME UNCHANGED vars PROVE SegTyped'
    BY <1>13 DEF vars, shm, adm, thr
  <1> QED BY <1>1, <1>2, <1>3, <1>4, <1>5, <1>6, <1>9, <1>10, <1>11, <1>12, <1>13 DEF Next

(* A step of the threads, for the one whose join it is, keeps what the     *)
(* others know, and what is known of the name.                             *)
LEMMA NamedFilledKept ==
    ASSUME SegTyped, NamedFilled, UNCHANGED <<shm, adm>>
    PROVE  NamedFilled'
  BY DEF NamedFilled, Whole, Filling, shm, adm

(* A creation marks the joins that are under way.                          *)
LEMMA AllocateStep ==
    ASSUME ReadyInv, NEW a \in Admins, NEW short \in BOOLEAN, posix_allocate(a, short)
    PROVE  NamedFilled' /\ UnracedAlone' /\ UnracedWhole' /\ ReadyUnlessRaced'
  <1>1. ASSUME NEW t \in Threads, call'[t].at \in Joining PROVE call'[t].raced
    <2>1. PICK c \in CallRec : c = call[t]
      BY DEF ReadyInv, SegTyped
    <2>2. call'[t] = IF c.at \in Joining THEN [c EXCEPT !.raced = TRUE] ELSE c
      BY <2>1 DEF posix_allocate, Raced
    <2> QED BY <1>1, <2>2 DEF CallRec, Joining
  <1>2. stage'[name'] \in {"empty", "blank"}
    BY SegmentAssumption DEF ReadyInv, SegTyped, posix_allocate
  <1>3. handle' = handle /\ abandoned' = abandoned
    BY DEF posix_allocate
  <1> QED BY <1>1, <1>2, <1>3 DEF ReadyInv, NamedFilled, UnracedAlone, UnracedWhole, Joining,
                                 ReadyUnlessRaced

(* A step of an administrator that is creating: there is no join that has  *)
(* not been marked.                                                        *)
LEMMA CreatorStep ==
    ASSUME ReadyInv, [Next]_vars, NEW a \in Admins, admin[a].at \in {"map", "version", "fill"},
           create_map(a) \/ create_version(a) \/ create_fill(a) \/ out_deallocate(a) \/ Die(a)
    PROVE  NamedFilled' /\ UnracedAlone' /\ UnracedWhole' /\ ReadyUnlessRaced'
  <1>1. \A t \in Threads : call[t].at \in Joining => call[t].raced
    BY DEF ReadyInv, UnracedAlone, Creating
  <1>2. call' = call /\ handle' = handle /\ abandoned \subseteq abandoned'
    BY DEF create_map, create_version, create_fill, out_deallocate, Die, thr, shm
  <1>3. UnracedAlone' /\ UnracedWhole' /\ ReadyUnlessRaced'
    BY <1>1, <1>2 DEF ReadyInv, UnracedAlone, UnracedWhole, Joining, ReadyUnlessRaced
  <1>4. ASSUME name' # NULL, name' = name, ~(stage'[name] \in {"empty", "blank"}), ~Whole(name)'
        PROVE  Filling(name)'
    <2>0. name \in 1..MaxGens
      BY <1>4 DEF ReadyInv, SegTyped
    <2>1. CASE create_map(a)
      BY <1>4, <2>1 DEF ReadyInv, SegTyped, NamedFilled, Whole, Filling, create_map, shm
    <2>2. CASE create_version(a)
      <3>1. CASE admin[a].gen = name
        <4>1. stage[name] # "empty"
          BY <1>4, <2>2, <3>1 DEF create_version
        <4>2. admin'[a] = [at |-> "fill", gen |-> name]
          BY <2>2, <3>1, <4>1 DEF ReadyInv, SegTyped, create_version
        <4> QED BY <1>4, <4>2 DEF Filling
      <3>2. CASE admin[a].gen # name
        <4>1. stage'[name] = stage[name]
          BY <2>0, <2>2, <3>2 DEF ReadyInv, SegTyped, create_version
        <4>2. Filling(name)
          BY <1>4, <2>2, <4>1 DEF ReadyInv, NamedFilled, Whole, create_version
        <4>3. \A b \in Admins \ {a} : admin'[b] = admin[b]
          BY <2>2 DEF ReadyInv, SegTyped, create_version
        <4> QED BY <2>2, <4>2, <4>3 DEF Filling, create_version
      <3> QED BY <3>1, <3>2
    <2>3. CASE create_fill(a)
      <3>1. CASE admin[a].gen = name
        BY <1>4, <2>0, <2>3, <3>1 DEF ReadyInv, SegTyped, Whole, create_fill
      <3>2. CASE admin[a].gen # name
        <4>1. stage'[name] = stage[name]
          BY <2>0, <2>3, <3>2 DEF ReadyInv, SegTyped, create_fill
        <4>2. Filling(name)
          BY <1>4, <2>3, <4>1 DEF ReadyInv, NamedFilled, Whole, create_fill
        <4> QED BY <2>3, <3>2, <4>2 DEF ReadyInv, SegTyped, Filling, create_fill
      <3> QED BY <3>1, <3>2
    <2>4. CASE out_deallocate(a)
      BY <1>4, <2>4 DEF out_deallocate
    <2>5. CASE Die(a)
      <3>1. Filling(name)
        BY <1>4, <2>5 DEF ReadyInv, NamedFilled, Whole, Die
      <3>2. ~(admin[a].at = "fill" /\ admin[a].gen = name)
        BY <1>4, <2>5 DEF Whole, Die
      <3> QED BY <2>5, <3>1, <3>2 DEF ReadyInv, SegTyped, Filling, Die
    <2> QED BY <2>1, <2>2, <2>3, <2>4, <2>5
  <1>5. name' = name \/ name' = NULL
    BY DEF create_map, create_version, create_fill, out_deallocate, Die, shm
  <1>6. NamedFilled'
    BY <1>4, <1>5 DEF NamedFilled
  <1> QED BY <1>3, <1>6

(* A step of one that destroys.                                            *)
LEMMA DestroyerStep ==
    ASSUME ReadyInv, [Next]_vars, NEW a \in Admins,
           ~(admin[a].at \in {"map", "version", "fill"}),
           destroy_join(a) \/ xseg_destroy(a) \/ Die(a)
    PROVE  NamedFilled' /\ UnracedAlone' /\ UnracedWhole' /\ ReadyUnlessRaced'
  <1>1. /\ call' = call /\ handle' = handle /\ abandoned' = abandoned /\ stage' = stage
        /\ name' = name \/ name' = NULL
        /\ \A b \in Admins \ {a} : admin'[b] = admin[b]
        /\ ~(admin'[a].at \in {"map", "version", "fill"})
    BY DEF ReadyInv, SegTyped, destroy_join, xseg_destroy, Die, shm, thr, Idle, At
  <1>2. Creating' <=> Creating
    BY <1>1 DEF Creating
  <1>3. \A g : Filling(g)' <=> Filling(g)
    BY <1>1 DEF Filling
  <1>4. NamedFilled'
    BY <1>1, <1>3 DEF ReadyInv, NamedFilled, Whole
  <1> QED BY <1>1, <1>2, <1>4 DEF ReadyInv, UnracedAlone, UnracedWhole, ReadyUnlessRaced, Whole

(* A thread's step: what it knows of its own join is all that changes.     *)
LEMMA ThreadStep ==
    ASSUME ReadyInv, [Next]_vars, NEW t \in Threads, UNCHANGED <<shm, adm>>,
           \A u \in Threads \ {t} : call'[u] = call[u] /\ handle'[u] = handle[u],
           call'[t].at \in Joining /\ ~call'[t].raced => ~Creating,
           call'[t].at = "whole" /\ ~call'[t].raced => name = NULL \/ Whole(name),
           call'[t].at = "copy" /\ ~call'[t].raced => Whole(call'[t].gen),
           handle'[t] # NULL /\ ~handle'[t].raced =>
              handle'[t].ready \/ handle'[t].gen \in abandoned
    PROVE  NamedFilled' /\ UnracedAlone' /\ UnracedWhole' /\ ReadyUnlessRaced'
  <1>1. NamedFilled'
    BY NamedFilledKept DEF ReadyInv
  <1>2. Creating' <=> Creating
    BY DEF Creating, adm
  <1>3. UnracedAlone'
    BY <1>2 DEF ReadyInv, UnracedAlone
  <1>4. name' = name /\ stage' = stage /\ abandoned' = abandoned
    BY DEF shm
  <1>5. UnracedWhole'
    BY <1>4 DEF ReadyInv, UnracedWhole, Whole
  <1>6. ReadyUnlessRaced'
    BY <1>4 DEF ReadyInv, ReadyUnlessRaced
  <1> QED BY <1>1, <1>3, <1>5, <1>6

LEMMA NextReadyInv ==
    ASSUME ReadyInv, [Next]_vars
    PROVE  ReadyInv'
  <1> DEFINE Goal == NamedFilled' /\ UnracedAlone' /\ UnracedWhole' /\ ReadyUnlessRaced'
  <1> SUFFICES Goal
    BY NextSegTyped DEF ReadyInv
  <1>1. ASSUME NEW a \in Admins, NEW short \in BOOLEAN, posix_allocate(a, short) PROVE Goal
    BY <1>1, AllocateStep
  <1>2. ASSUME NEW a \in Admins,
               \/ create_map(a) \/ create_version(a) \/ create_fill(a) \/ out_deallocate(a)
               \/ destroy_join(a) \/ xseg_destroy(a) \/ Die(a)
        PROVE  Goal
    <2>1. CASE admin[a].at \in {"map", "version", "fill"}
      <3>1. ~destroy_join(a) /\ ~xseg_destroy(a)
        BY <2>1 DEF destroy_join, xseg_destroy, Idle
      <3> QED BY <1>2, <2>1, <3>1, CreatorStep
    <2>2. CASE ~(admin[a].at \in {"map", "version", "fill"})
      <3>1. ~create_map(a) /\ ~create_version(a) /\ ~create_fill(a) /\ ~out_deallocate(a)
        BY <2>2 DEF create_map, create_version, create_fill, out_deallocate
      <3> QED BY <1>2, <2>2, <3>1, DestroyerStep
    <2> QED BY <2>1, <2>2
  <1>3. ASSUME NEW t \in Threads, UNCHANGED <<shm, adm>>, handle' = handle,
               \A u \in Threads \ {t} : call'[u] = call[u],
               ~(call'[t].at \in Joining)
        PROVE  Goal
    BY <1>3, ThreadStep DEF ReadyInv, ReadyUnlessRaced, Joining
  <1>4. ASSUME UNCHANGED <<shm, adm, call, handle>> PROVE Goal
    BY <1>4 DEF ReadyInv, NamedFilled, UnracedAlone, UnracedWhole, ReadyUnlessRaced, Whole,
                Filling, Creating, shm, adm
  <1>5. ASSUME NEW t \in Threads,
               xseg_initialize(t) \/ \E type \in AllTypes : xseg_unregister(t, type)
        PROVE  Goal
    BY <1>4, <1>5 DEF xseg_initialize, xseg_unregister, thr
  <1>6. ASSUME NEW t \in Threads, xseg_join(t) PROVE Goal
    <2>1. CASE call'[t] = [at |-> "page", raced |-> Creating]
      <3>1. Creating \in BOOLEAN
        BY DEF Creating
      <3>2. /\ \A u \in Threads \ {t} : call'[u] = call[u] /\ handle'[u] = handle[u]
            /\ handle'[t] = NULL /\ UNCHANGED <<shm, adm>>
        BY <1>6 DEF ReadyInv, SegTyped, xseg_join
      <3> QED BY <2>1, <3>1, <3>2, ThreadStep
    <2>2. CASE call'[t] = At("stuck") \/ call' = call
      BY <1>3, <1>6, <2>2 DEF ReadyInv, SegTyped, xseg_join, At, Idle, Joining
    <2> QED BY <1>6, <2>1, <2>2 DEF ReadyInv, SegTyped, xseg_join
  <1>7. ASSUME Killed, UNCHANGED <<shm, adm>> PROVE Goal
    <2>1. \A t \in Threads : ~(call'[t].at \in Joining) /\ handle'[t] = NULL
      BY <1>7 DEF Killed, At, Joining
    <2>2. NamedFilled'
      BY <1>7, NamedFilledKept DEF ReadyInv
    <2> QED BY <2>1, <2>2 DEF UnracedAlone, UnracedWhole, ReadyUnlessRaced, Joining
  <1>8. ASSUME NEW t \in Threads, NEW refs, Fails(t, refs), UNCHANGED <<handle, shm, adm>>
        PROVE  Goal
    BY <1>3, <1>8 DEF ReadyInv, SegTyped, Fails, Idle, Joining
  <1>9. ASSUME NEW t \in Threads, join_page(t) PROVE Goal
    <2>1. CASE /\ name # NULL /\ stage[name] \notin {"empty", "blank"}
               /\ call' = [call EXCEPT ![t].at = "whole"] /\ UNCHANGED <<handle, shm, adm>>
      <3>1. PICK c \in CallRec : c = call[t]
        BY DEF ReadyInv, SegTyped
      <3>2. call'[t] = [c EXCEPT !.at = "whole"] /\ c.at = "page"
        BY <1>9, <2>1, <3>1 DEF ReadyInv, SegTyped, join_page
      <3>3. call'[t].at = "whole" /\ call'[t].raced = c.raced
        BY <3>2 DEF CallRec
      <3>4. ~c.raced => ~Creating
        BY <3>1, <3>2 DEF ReadyInv, UnracedAlone, Joining
      <3>5. ~Creating => Whole(name)
        BY <2>1 DEF ReadyInv, NamedFilled, Filling, Creating
      <3>6. \A u \in Threads \ {t} : call'[u] = call[u] /\ handle'[u] = handle[u]
        BY <2>1 DEF ReadyInv, SegTyped
      <3> QED BY <2>1, <3>3, <3>4, <3>5, <3>6, ThreadStep DEF ReadyInv, ReadyUnlessRaced
    <2> QED BY <1>7, <1>8, <1>9, <2>1 DEF join_page
  <1>10. ASSUME NEW t \in Threads, join_whole(t) PROVE Goal
    <2>1. CASE name # NULL
      <3>1. call'[t] = [at |-> "copy", raced |-> call[t].raced, gen |-> name]
        BY <1>10, <2>1 DEF ReadyInv, SegTyped, join_whole
      <3>2. ~call[t].raced => ~Creating /\ Whole(name)
        BY <1>10, <2>1 DEF ReadyInv, UnracedAlone, UnracedWhole, join_whole, Joining
      <3>3. /\ \A u \in Threads \ {t} : call'[u] = call[u] /\ handle'[u] = handle[u]
            /\ UNCHANGED <<handle, shm, adm>>
        BY <1>10, <2>1 DEF ReadyInv, SegTyped, join_whole
      <3> QED BY <3>1, <3>2, <3>3, ThreadStep DEF ReadyInv, ReadyUnlessRaced
    <2> QED BY <1>8, <1>10, <2>1 DEF join_whole
  <1>11. ASSUME NEW t \in Threads, join_copy(t) PROVE Goal
    <2>1. CASE stage[call[t].gen] # "empty"
      <3>1. /\ handle'[t] = [gen |-> call[t].gen, ready |-> stage[call[t].gen] = "ready",
                             raced |-> call[t].raced]
            /\ call'[t] = Idle
            /\ \A u \in Threads \ {t} : call'[u] = call[u] /\ handle'[u] = handle[u]
            /\ UNCHANGED <<shm, adm>>
        BY <1>11, <2>1 DEF ReadyInv, SegTyped, join_copy
      <3>2. ~call[t].raced => Whole(call[t].gen)
        BY <1>11 DEF ReadyInv, UnracedWhole, join_copy
      <3>3. /\ handle'[t].raced = call[t].raced /\ handle'[t].gen = call[t].gen
            /\ handle'[t].ready = (stage[call[t].gen] = "ready")
        BY <3>1
      <3>4. ~handle'[t].raced => handle'[t].ready \/ handle'[t].gen \in abandoned
        BY <3>2, <3>3 DEF Whole
      <3>5. ~(call'[t].at \in Joining)
        BY <3>1 DEF Idle, Joining
      <3> QED BY <3>1, <3>4, <3>5, ThreadStep DEF Joining
    <2> QED BY <1>7, <1>11, <2>1 DEF join_copy
  <1>12. ASSUME NEW t \in Threads, join_no_memory(t) PROVE Goal
    BY <1>8, <1>12 DEF join_no_memory
  <1>13. ASSUME NEW t \in Threads, xseg_leave(t) PROVE Goal
    <2>1. /\ handle'[t] = NULL
          /\ \A u \in Threads \ {t} : call'[u] = call[u] /\ handle'[u] = handle[u]
          /\ UNCHANGED <<shm, adm>>
      BY <1>13 DEF ReadyInv, SegTyped, xseg_leave
    <2>2. ~(call'[t].at \in Joining)
      BY <1>13 DEF ReadyInv, SegTyped, xseg_leave, At, Idle, Joining
    <2> QED BY <2>1, <2>2, ThreadStep DEF Joining
  <1>14. ASSUME UNCHANGED vars PROVE Goal
    BY <1>4, <1>14 DEF vars, thr
  <1> QED BY <1>1, <1>2, <1>5, <1>6, <1>9, <1>10, <1>11, <1>12, <1>13, <1>14 DEF Next

LEMMA InitReadyInv == Init => ReadyInv
  BY SegmentAssumption
  DEF Init, ReadyInv, SegTyped, NamedFilled, UnracedAlone, UnracedWhole, ReadyUnlessRaced, Idle,
      Joining, AdminRec, CallRec

(* A thread whose join ran beside no creation never has a segment that is  *)
(* half initialised, whatever creators and destroyers did to the name      *)
(* between the steps of the join, unless the creator died over it; proved  *)
(* for any number of threads, administrators, creations and deaths.        *)
THEOREM UnracedJoinsAreReady == Spec => []ReadyUnlessRaced
  <1>1. ReadyInv => ReadyUnlessRaced
    BY DEF ReadyInv
  <1> QED BY <1>1, InitReadyInv, NextReadyInv, PTL DEF Spec
=============================================================================
