------------------------------ MODULE Segment ------------------------------
(***************************************************************************)
(* The life of a segment (xseg.c, xseg_posix.c): administrators create it  *)
(* and destroy it by name, each in a process of its own, while the threads *)
(* of one process join and leave it.  Between any two of their system      *)
(* calls the name may come to denote another object of shared memory, or   *)
(* none.  The segment of each creation is a generation.                    *)
(***************************************************************************)
EXTENDS Naturals, FiniteSets

CONSTANTS Threads,      \* of the process that joins and leaves
          Admins,       \* processes that create and destroy
          MaxGens,      \* bound: creations
          MaxJoins,     \* bound: calls of xseg_join
          MaxDeaths,    \* bound: administrators that die
          NULL

ASSUME SegmentAssumption ==
         /\ IsFiniteSet(Threads) /\ NULL \notin Threads \cup Admins \cup Nat
         /\ MaxGens \in Nat /\ MaxJoins \in Nat /\ MaxDeaths \in Nat

VARIABLES name,        \* the generation shm_open finds, if any
          stage,       \* how far the initialisation of a generation has come
          gens,        \* how many have been created
          admin,       \* where an administrator is
          deaths,
          abandoned,   \* generations whose creator died with the version written
          types,       \* which of segment type and peer type are registered
          initref,     \* xseg_init_ref
          plugin,      \* whether dlopen finds the plugin of a missing type
          mutex,       \* xseg_joinref_mutex
          join_ref,    \* xseg_join_ref
          call,        \* where a thread is
          handle,      \* what a thread has joined
          joins        \* how many calls of xseg_join there were

shm == <<name, stage, gens, abandoned>>
adm == <<admin, deaths>>
lib == <<types, initref, plugin>>
thr == <<mutex, join_ref, call, handle, joins>>
vars == <<shm, adm, lib, thr>>

AllTypes == {"segment", "peer"}
Idle == [at |-> "idle"]
At(at) == [at |-> at]
Joining == {"page", "whole", "copy"}

Init ==
    /\ name = NULL /\ stage = [g \in 1..MaxGens |-> "none"] /\ gens = 0 /\ abandoned = {}
    /\ admin = [a \in Admins |-> Idle] /\ deaths = 0
    /\ types = {} /\ initref = 0 /\ plugin \in BOOLEAN
    /\ mutex = NULL /\ join_ref = 0 /\ joins = 0
    /\ call = [t \in Threads |-> Idle] /\ handle = [t \in Threads |-> NULL]

-----------------------------------------------------------------------------
Creating == \E a \in Admins : admin[a].at \in {"map", "version", "fill"}

(* The joins that are under way have a create beside them.                 *)
Raced == call' = [t \in Threads |-> IF call[t].at \in Joining
                                    THEN [call[t] EXCEPT !.raced = TRUE] ELSE call[t]]

(* The name is created exclusively; short is an ftruncate that fails, and  *)
(* leaves it with an empty object.                                         *)
posix_allocate(a, short) ==
    /\ admin[a] = Idle /\ name = NULL /\ gens < MaxGens
    /\ gens' = gens + 1
    /\ name' = gens + 1
    /\ stage' = [stage EXCEPT ![gens + 1] = IF short THEN "empty" ELSE "blank"]
    /\ admin' = [admin EXCEPT ![a] = IF short THEN Idle ELSE At("map")]
    /\ Raced
    /\ UNCHANGED <<abandoned, deaths, lib, mutex, join_ref, handle, joins>>

(* Whatever has the name now.                                              *)
create_map(a) ==
    /\ admin[a].at = "map"
    /\ admin' = [admin EXCEPT ![a] =
                   IF name = NULL THEN Idle ELSE [at |-> "version", gen |-> name]]
    /\ UNCHANGED <<shm, deaths, lib, thr>>

(* initialize_segment up to version and size; no page of an empty object   *)
(* can be written.                                                         *)
create_version(a) ==
    LET g == admin[a].gen IN
    /\ admin[a].at = "version"
    /\ IF stage[g] = "empty"
       THEN admin' = [admin EXCEPT ![a] = At("dead")] /\ UNCHANGED stage
       ELSE /\ stage' = [stage EXCEPT ![g] = "version"]
            /\ admin' = [admin EXCEPT ![a] = [at |-> "fill", gen |-> g]]
    /\ UNCHANGED <<name, gens, abandoned, deaths, lib, thr>>

(* The rest of it: heap, handlers, ports, shared and, at last, the config. *)
create_fill(a) ==
    /\ admin[a].at = "fill"
    /\ stage' = [stage EXCEPT ![admin[a].gen] = "ready"]
    /\ admin' = [admin EXCEPT ![a] = Idle]
    /\ UNCHANGED <<name, gens, abandoned, deaths, lib, thr>>

(* Mapping or initialising fails: the name is unlinked, whose ever it is.  *)
out_deallocate(a) ==
    /\ admin[a].at \in {"map", "version", "fill"}
    /\ name' = NULL
    /\ admin' = [admin EXCEPT ![a] = Idle]
    /\ UNCHANGED <<stage, gens, abandoned, deaths, lib, thr>>

(* cmd_destroy joins and leaves.  Only a segment that is ready says what   *)
(* it is called; an empty object has no page to read.                      *)
destroy_join(a) ==
    /\ admin[a] = Idle /\ name # NULL
    /\ stage[name] \in {"empty", "ready"}
    /\ admin' = [admin EXCEPT ![a] = At(IF stage[name] = "empty" THEN "dead" ELSE "unlink")]
    /\ UNCHANGED <<shm, deaths, lib, thr>>

(* xseg_destroy goes by the name.                                          *)
xseg_destroy(a) ==
    /\ admin[a].at = "unlink"
    /\ name' = NULL
    /\ admin' = [admin EXCEPT ![a] = Idle]
    /\ UNCHANGED <<stage, gens, abandoned, deaths, lib, thr>>

Die(a) ==
    /\ admin[a].at \notin {"idle", "dead"} /\ deaths < MaxDeaths
    /\ deaths' = deaths + 1
    /\ abandoned' = IF admin[a].at = "fill" THEN abandoned \cup {admin[a].gen} ELSE abandoned
    /\ admin' = [admin EXCEPT ![a] = At("dead")]
    /\ UNCHANGED <<name, stage, gens, lib, thr>>

-----------------------------------------------------------------------------
(* The domain lock; a thread that spins on it while it has it does so for  *)
(* ever.                                                                   *)
DomainFree == \A t \in Threads : call[t].at # "stuck"

(* Registers the types, the second one only if its signals can be set up;  *)
(* a second call does nothing, however the first one ended.                *)
xseg_initialize(t) ==
    /\ call[t] = Idle /\ initref = 0 /\ DomainFree
    /\ initref' = 1
    /\ types' \in {{"segment"}, AllTypes}
    /\ UNCHANGED <<plugin, shm, adm, thr>>

xseg_unregister(t, type) ==
    /\ call[t] = Idle /\ type \in types /\ DomainFree
    /\ types' = types \ {type}
    /\ UNCHANGED <<initref, plugin, shm, adm, thr>>

(* Keeps the mutex.                                                        *)
Fails_locked(t, refs) ==
    /\ join_ref' = join_ref - refs
    /\ call' = [call EXCEPT ![t] = Idle]
    /\ UNCHANGED mutex

(* Gives the reference back a second time.                                 *)
Fails_twice(t, refs) ==
    /\ join_ref' = join_ref - 2 * refs
    /\ call' = [call EXCEPT ![t] = Idle]
    /\ mutex' = NULL

(* A join that fails; most of its exits keep the reference it has counted. *)
Fails(t, refs) ==
    /\ join_ref' = join_ref - refs
    /\ call' = [call EXCEPT ![t] = Idle]
    /\ mutex' = NULL

(* A missing type is looked for in a plugin with the domain lock held;     *)
(* registering it takes that lock once more.                               *)
xseg_join(t) ==
    /\ call[t] = Idle /\ handle[t] = NULL /\ mutex = NULL /\ joins < MaxJoins
    /\ joins' = joins + 1
    /\ join_ref' = join_ref + 1
    /\ IF types = AllTypes
       THEN mutex' = t /\ call' = [call EXCEPT ![t] = [at |-> "page", raced |-> Creating]]
       ELSE IF plugin
            THEN mutex' = t /\ call' = [call EXCEPT ![t] = At("stuck")]
            ELSE UNCHANGED <<mutex, call>>
    /\ UNCHANGED <<handle, shm, adm, lib>>

(* A page of an empty object is touched: the process is killed.            *)
Killed ==
    /\ call' = [t \in Threads |-> At("dead")]
    /\ handle' = [t \in Threads |-> NULL]
    /\ mutex' = NULL
    /\ UNCHANGED join_ref

(* Goes on whatever the version.                                           *)
join_page_any(t) ==
    /\ call[t].at = "page"
    /\ IF name = NULL
       THEN Fails(t, 0) /\ UNCHANGED handle
       ELSE /\ call' = [call EXCEPT ![t].at = "whole"]
            /\ UNCHANGED <<mutex, join_ref, handle>>
    /\ UNCHANGED <<joins, shm, adm, lib>>

(* The first page is mapped for version and size.                          *)
join_page(t) ==
    /\ call[t].at = "page"
    /\ IF name = NULL
       THEN Fails(t, 0) /\ UNCHANGED handle
       ELSE CASE stage[name] = "empty" -> Killed
              [] stage[name] = "blank" -> Fails(t, 0) /\ UNCHANGED handle
              [] OTHER -> /\ call' = [call EXCEPT ![t].at = "whole"]
                          /\ UNCHANGED <<mutex, join_ref, handle>>
    /\ UNCHANGED <<joins, shm, adm, lib>>

(* All of it is mapped, again by name.                                     *)
join_whole(t) ==
    /\ call[t].at = "whole"
    /\ IF name = NULL
       THEN Fails(t, 0)
       ELSE /\ call' = [call EXCEPT ![t] = [at |-> "copy", raced |-> @.raced, gen |-> name]]
            /\ UNCHANGED <<mutex, join_ref>>
    /\ UNCHANGED <<handle, joins, shm, adm, lib>>

(* The handle is filled from the mapping.  Pointers that are not set point *)
(* to its first byte and pass for valid ones.                              *)
join_copy(t) ==
    LET g == call[t].gen IN
    /\ call[t].at = "copy"
    /\ IF stage[g] = "empty"
       THEN Killed
       ELSE /\ handle' = [handle EXCEPT ![t] =
                            [gen |-> g, ready |-> stage[g] = "ready", raced |-> call[t].raced]]
            /\ call' = [call EXCEPT ![t] = Idle]
            /\ mutex' = NULL
            /\ UNCHANGED join_ref
    /\ UNCHANGED <<joins, shm, adm, lib>>

(* No memory for the handle; for what it needs once the segment is mapped. *)
join_no_memory(t) ==
    /\ \/ call[t].at = "page" /\ Fails(t, 0)
       \/ call[t].at = "copy" /\ \E refs \in {0, 1} : Fails(t, refs)
    /\ UNCHANGED <<handle, joins, shm, adm, lib>>

(* The last one unmaps its segment.  It has the mutex for ever if the type *)
(* its handle names is not found, and a handle copied too early names none.*)
xseg_leave(t) ==
    /\ call[t] = Idle /\ handle[t] # NULL /\ mutex = NULL
    /\ join_ref' = join_ref - 1
    /\ handle' = [handle EXCEPT ![t] = NULL]
    /\ IF join_ref > 1 \/ ("segment" \in types /\ handle[t].ready)
       THEN UNCHANGED <<mutex, call>>
       ELSE /\ mutex' = t
            /\ call' = [call EXCEPT ![t] =
                          IF plugin /\ handle[t].ready THEN At("stuck")
                          ELSE [at |-> "kept", ready |-> handle[t].ready]]
    /\ UNCHANGED <<joins, shm, adm, lib>>

Next ==
    \/ \E a \in Admins :
         \/ \E short \in BOOLEAN : posix_allocate(a, short)
         \/ create_map(a) \/ create_version(a) \/ create_fill(a) \/ out_deallocate(a)
         \/ destroy_join(a) \/ xseg_destroy(a) \/ Die(a)
    \/ \E t \in Threads :
         \/ xseg_initialize(t)
         \/ \E type \in AllTypes : xseg_unregister(t, type)
         \/ xseg_join(t) \/ join_page(t) \/ join_whole(t) \/ join_copy(t) \/ join_no_memory(t)
         \/ xseg_leave(t)

(* A thread that has begun to join is scheduled until it returns.          *)
Fairness == \A t \in Threads : WF_vars(join_page(t) \/ join_whole(t) \/ join_copy(t))

Spec == Init /\ [][Next]_vars /\ Fairness
-----------------------------------------------------------------------------
(* The references cover every handle and every join under way, however     *)
(* joins fail: the count never goes below zero, and the leave that brings  *)
(* it there and unmaps is that of the last handle.                         *)
JoinRefCovers ==
    join_ref >= Cardinality({t \in Threads : handle[t] # NULL \/ call[t].at \in Joining})

(* A thread whose join had no create beside it never holds a segment that  *)
(* is only partly initialised, though creators fail or die at every step   *)
(* and the name moves on to other objects between its two mappings: but    *)
(* for a creator that died with the version written.                       *)
ReadyUnlessRaced ==
    \A t \in Threads :
       (handle[t] # NULL /\ ~handle[t].raced) => handle[t].ready \/ handle[t].gen \in abandoned

(* A leave that found no type for a segment that had been copied too early.*)
LeftUnready == \E t \in Threads : call[t].at = "kept" /\ ~call[t].ready

(* The mutex always comes back, on whatever exit of join and leave, unless *)
(* a type is not registered or the segment was joined too early.           *)
MutexReturns == (mutex # NULL) ~> (mutex = NULL \/ types # AllTypes \/ LeftUnready)
=============================================================================
