---------------------------- MODULE PortsProofs -----------------------------
(***************************************************************************)
(* What the ports and the table of drivers keep under any sequence of      *)
(* binds, failed binds, deaths and recoverlocks, for any processes,        *)
(* drivers, ports and sizes of the table.                                  *)
(***************************************************************************)
EXTENDS Ports, SequenceTheorems, WellFoundedInduction, TLAPS

PortRec == [owner : Procs \cup {NULL}, portno : PortNos \cup {NULL},
            peer_type : 1..MaxTypes, flags : BOOLEAN, sd : Drivers \cup {NULL}]

CallRec == [at : {"sd", "fill"}, dyn : BOOLEAN, n : PortNos, o : PortObjs,
            fresh : BOOLEAN, serial : 1..MaxTypes]

TypeOK ==
    /\ lock \in Procs \cup {NULL}
    /\ types \in Seq(Drivers) /\ Len(types) <= MaxTypes
    /\ cache \in [Procs -> [1..MaxTypes -> Drivers \cup {NULL}]]
    /\ ports \in [PortNos -> PortObjs \cup {NULL}]
    /\ port \in [PortObjs -> PortRec]
    /\ free \in SUBSET PortObjs
    /\ call \in [Procs -> CallRec \cup {Idle, Dead}]
    /\ mine \in [Procs -> SUBSET PortNos]

(* A process in the middle of a bind has the segment lock.                 *)
BinderLocks == \A p \in Procs : call[p] \in CallRec => lock = p

(* A driver a process has cached is the one the table has in that place.   *)
CacheAgrees ==
    \A p \in Procs : \A i \in 1..MaxTypes :
       cache[p][i] # NULL => i \in 1..Len(types) /\ types[i] = cache[p][i]

(* The number and the port a bind has chosen, and whose they are.          *)
ChoiceHolds(p, c) ==
    /\ c.o \notin free
    /\ c.dyn => c.n \in Dyn /\ ports[c.n] = c.o /\ port[c.o].owner = NULL
    /\ ~c.dyn => c.n \notin Dyn
    /\ ~c.dyn /\ c.fresh => ports[c.n] = NULL /\ \A m \in PortNos : ports[m] # c.o
    /\ ~c.dyn /\ ~c.fresh => ports[c.n] = c.o

(* The driver it will store, and the descriptor it finds or has stored.    *)
DriverHolds(p, c) ==
    /\ c.serial \in 1..Len(types) /\ types[c.serial] = DriverOf[p]
    /\ c.o \notin torn => /\ c.at = "sd" /\ c.dyn /\ port[c.o].sd # NULL
                                => port[c.o].peer_type = c.serial
                          /\ c.at = "fill" => port[c.o].sd = DriverOf[p]

CallHolds == \A p \in Procs :
    call[p] \in CallRec => ChoiceHolds(p, call[p]) /\ DriverHolds(p, call[p])

(* A port has the peer type of its descriptor, published or not.           *)
DescriptorMatches ==
    \A o \in PortObjs \ torn :
       ~BeingFilled(o) /\ port[o].sd # NULL
         => port[o].peer_type \in 1..Len(types) /\ types[port[o].peer_type] = port[o].sd

IInv == /\ TypeOK /\ BinderLocks /\ CacheAgrees /\ CallHolds /\ DescriptorMatches
        /\ PublishedOnce /\ DynportOwnedOnce /\ LockGivenUp
-----------------------------------------------------------------------------
(* The first of some numbers is one of them.                               *)
LEMMA FirstOfIn ==
    ASSUME NEW ns \in SUBSET Nat, ns # {}
    PROVE  FirstOf(ns) \in ns
  <1> DEFINE Less == {ss \in Nat \X Nat : ss[1] < ss[2]}
  <1>1. IsWellFoundedOn(Less, Nat)
    BY NatLessThanWellFounded DEF OpToRel
  <1> HIDE DEF Less
  <1>2. PICK n \in ns : \A m \in ns : ~(<<m, n>> \in Less)
    BY <1>1, WFMin
  <1>3. \A m \in ns : n <= m
    <2> SUFFICES ASSUME NEW m \in ns, m < n PROVE FALSE
      OBVIOUS
    <2>1. <<m, n>> \in Nat \X Nat /\ <<m, n>>[1] < <<m, n>>[2]
      OBVIOUS
    <2>2. <<m, n>> \in Less
      BY <2>1, Zenon DEF Less
    <2> QED BY <1>2, <2>2
  <1> QED BY <1>3 DEF FirstOf

(* The driver that is enabled has a place in the table, which keeps the    *)
(* places of the others.                                                   *)
LEMMA EnableKeeps ==
    ASSUME TypeOK, CacheAgrees, NEW p \in Procs, NEW d \in Drivers,
           Enabled(d), __enable_driver(p, d)
    PROVE  /\ types' \in Seq(Drivers) /\ Len(types') <= MaxTypes
           /\ Len(types) <= Len(types')
           /\ \A i \in 1..Len(types) : types'[i] = types[i]
           /\ SerialOf(d) \in 1..Len(types') /\ types'[SerialOf(d)] = d
           /\ cache' \in [Procs -> [1..MaxTypes -> Drivers \cup {NULL}]]
           /\ CacheAgrees'
  <1> USE PortsAssumption
  <1>1. /\ types' \in Seq(Drivers) /\ Len(types') <= MaxTypes
        /\ Len(types) <= Len(types')
        /\ \A i \in 1..Len(types) : types'[i] = types[i]
        /\ \E i \in 1..Len(types') : types'[i] = d
    <2>1. CASE Known(d)
      <3>1. types' = types
        BY <2>1 DEF __enable_driver, WithDriver
      <3>2. \E i \in 1..Len(types) : types[i] = d
        BY <2>1 DEF TypeOK, Known
      <3> QED BY <3>1, <3>2 DEF TypeOK
    <2>2. CASE ~Known(d)
      <3>1. types' = Append(types, d)
        BY <2>2 DEF __enable_driver, WithDriver
      <3>2. Len(types) + 1 <= MaxTypes
        BY DEF Enabled, Full, TypeOK
      <3> QED BY <3>1, <3>2, AppendProperties DEF TypeOK
    <2> QED BY <2>1, <2>2
  <1>2. SerialOf(d) \in 1..Len(types') /\ types'[SerialOf(d)] = d
    <2>1. types' = WithDriver(d) /\ DOMAIN types' = 1..Len(types')
      BY <1>1 DEF __enable_driver
    <2> QED BY <1>1, <2>1 DEF SerialOf
  <1>3. SerialOf(d) \in 1..MaxTypes
    BY <1>1, <1>2 DEF TypeOK
  <1>4. cache' = [cache EXCEPT ![p][SerialOf(d)] = d]
    BY DEF __enable_driver
  <1>5. cache' \in [Procs -> [1..MaxTypes -> Drivers \cup {NULL}]]
    BY <1>3, <1>4 DEF TypeOK
  <1>6. CacheAgrees'
    <2> SUFFICES ASSUME NEW q \in Procs, NEW i \in 1..MaxTypes, cache'[q][i] # NULL
                 PROVE  i \in 1..Len(types') /\ types'[i] = cache'[q][i]
      BY DEF CacheAgrees
    <2>1. CASE q = p /\ i = SerialOf(d)
      BY <2>1, <1>2, <1>3, <1>4 DEF TypeOK
    <2>2. CASE ~(q = p /\ i = SerialOf(d))
      <3>1. cache'[q][i] = cache[q][i]
        BY <2>2, <1>3, <1>4 DEF TypeOK
      <3>2. i \in 1..Len(types) /\ types[i] = cache[q][i]
        BY <3>1 DEF CacheAgrees
      <3> QED BY <3>1, <3>2, <1>1 DEF TypeOK
    <2> QED BY <2>1, <2>2
  <1> QED BY <1>1, <1>2, <1>5, <1>6

(* Nobody is in a bind while the lock is free.                             *)
LEMMA FreeNoCall ==
    ASSUME TypeOK, BinderLocks, lock = NULL
    PROVE  \A p \in Procs : call[p] \notin CallRec /\ call[p].at \notin {"sd", "fill"}
  <1> SUFFICES ASSUME NEW p \in Procs
               PROVE  call[p] \notin CallRec /\ call[p].at \notin {"sd", "fill"}
    OBVIOUS
  <1>1. call[p] \notin CallRec
    BY PortsAssumption DEF BinderLocks
  <1>2. call[p] \in {Idle, Dead}
    BY <1>1 DEF TypeOK
  <1> QED BY <1>1, <1>2 DEF Idle, Dead

(* A process that is in a bind is the only one.                            *)
LEMMA OneBinder ==
    ASSUME TypeOK, BinderLocks, NEW p \in Procs, call[p].at \in {"sd", "fill"}
    PROVE  /\ call[p] \in CallRec /\ lock = p
           /\ \A q \in Procs \ {p} : call[q] \notin CallRec /\ call[q].at \notin {"sd", "fill"}
  <1>1. \A q \in Procs : call[q].at \in {"sd", "fill"} => call[q] \in CallRec
    BY DEF TypeOK, Idle, Dead
  <1> QED BY <1>1 DEF BinderLocks

(* The numbers are natural ones, the dynamic ones from dynports on.        *)
LEMMA Numbers ==
    /\ PortNos \in SUBSET Nat /\ Dyn \in SUBSET PortNos /\ 0..dynports-1 \in SUBSET PortNos
    /\ \A n \in 0..dynports-1 : n \notin Dyn
  BY PortsAssumption DEF PortNos, Dyn

(* An outcome of an action that leaves the ports, the calls and the lock   *)
(* alone while the table of drivers grows keeps the invariant.             *)
LEMMA TableGrows ==
    ASSUME IInv, lock = NULL, types' \in Seq(Drivers), Len(types') <= MaxTypes,
           Len(types) <= Len(types'), \A i \in 1..Len(types) : types'[i] = types[i],
           cache' \in [Procs -> [1..MaxTypes -> Drivers \cup {NULL}]], CacheAgrees',
           UNCHANGED <<lock, ports, port, free, call, mine, torn>>
    PROVE  IInv'
  <1>1. TypeOK'
    BY DEF IInv, TypeOK
  <1>2. BinderLocks' /\ PublishedOnce' /\ DynportOwnedOnce' /\ LockGivenUp'
    BY DEF IInv, BinderLocks, PublishedOnce, DynportOwnedOnce, LockGivenUp
  <1>3. CallHolds'
    BY FreeNoCall DEF IInv, CallHolds
  <1>4. DescriptorMatches'
    BY DEF IInv, DescriptorMatches, BeingFilled, TypeOK
  <1> QED BY <1>1, <1>2, <1>3, <1>4 DEF IInv

(* What a process has of a dynamic port it was given.                      *)
LEMMA OwnedPort ==
    ASSUME IInv, NEW q \in Procs, NEW m \in mine[q] \cap Dyn
    PROVE  /\ m \in PortNos /\ ports[m] \in PortObjs /\ q # NULL
           /\ port[ports[m]].owner = q /\ port[ports[m]].portno = m
  <1>1. m \in PortNos
    BY DEF IInv, TypeOK
  <1>2. ports[m] # NULL /\ port[ports[m]].owner = q /\ port[ports[m]].portno = m
    BY DEF IInv, DynportOwnedOnce
  <1> QED BY <1>1, <1>2, PortsAssumption DEF IInv, TypeOK

(* A process that has chosen a port is the only one in a bind.             *)
LEMMA ChosenAlone ==
    ASSUME TypeOK, BinderLocks, lock = NULL, NEW p \in Procs, NEW c \in CallRec,
           c.at = "sd", call' = [call EXCEPT ![p] = c], lock' = p
    PROVE  /\ call' \in [Procs -> CallRec \cup {Idle, Dead}]
           /\ call'[p] = c /\ call'[p] # Idle
           /\ \A q \in Procs \ {p} : call'[q] \notin CallRec
           /\ BinderLocks'
           /\ \A o : ~BeingFilled(o)' /\ ~BeingFilled(o)
  <1>1. \A q \in Procs : call'[q] = IF q = p THEN c ELSE call[q]
    BY DEF TypeOK
  <1>2. \A q \in Procs : call[q] \notin CallRec /\ call[q].at \notin {"sd", "fill"}
    BY FreeNoCall
  <1>3. c # Idle
    BY DEF Idle
  <1>4. call' \in [Procs -> CallRec \cup {Idle, Dead}]
    BY DEF TypeOK
  <1>5. \A o : ~BeingFilled(o)' /\ ~BeingFilled(o)
    BY <1>1, <1>2 DEF BeingFilled
  <1> QED BY <1>1, <1>2, <1>3, <1>4, <1>5 DEF BinderLocks

(* A dynamic bind chooses a port that has no owner.                        *)
LEMMA DynportStep ==
    ASSUME IInv, NEW p \in Procs, bind_dynport(p)
    PROVE  IInv'
  <1> DEFINE d == DriverOf[p]
  <1> USE PortsAssumption
  <1>1. /\ types' \in Seq(Drivers) /\ Len(types') <= MaxTypes
        /\ Len(types) <= Len(types')
        /\ \A i \in 1..Len(types) : types'[i] = types[i]
        /\ SerialOf(d) \in 1..Len(types') /\ types'[SerialOf(d)] = d
        /\ cache' \in [Procs -> [1..MaxTypes -> Drivers \cup {NULL}]]
        /\ CacheAgrees'
    BY EnableKeeps DEF IInv, bind_dynport
  <1>2. PICK n \in {FirstOf(DynBindable)} :
         IF n = NULL \/ (ports[n] = NULL /\ free = {})
         THEN UNCHANGED <<lock, call, ports, port, free>>
         ELSE /\ lock' = p
              /\ \E o \in IF ports[n] = NULL THEN free ELSE {ports[n]} :
                   /\ Chosen(p, TRUE, n, o, ports[n] = NULL)
                   /\ ports' = [ports EXCEPT ![n] = o]
                   /\ free' = free \ {o}
                   /\ port' = [port EXCEPT ![o] =
                                 IF ports[n] = NULL THEN FreshPort
                                 ELSE Abandoned(@, SerialOf(DriverOf[p]))]
    BY DEF bind_dynport
  <1>3. lock = NULL /\ mine' = mine /\ torn' = torn
    BY DEF bind_dynport
  <1>4. CASE n = NULL \/ (ports[n] = NULL /\ free = {})
    BY <1>1, <1>2, <1>3, <1>4, TableGrows
  <1>5. CASE ~(n = NULL \/ (ports[n] = NULL /\ free = {}))
    <2>1. n \in Dyn /\ n \in PortNos /\ Ownerless(n)
      <3>1. DynBindable # {} /\ DynBindable \in SUBSET Nat
        BY <1>2, <1>5, Numbers DEF FirstOf, DynBindable
      <3> QED BY <1>2, <3>1, FirstOfIn, Numbers DEF DynBindable
    <2>2. PICK o \in IF ports[n] = NULL THEN free ELSE {ports[n]} :
                   /\ Chosen(p, TRUE, n, o, ports[n] = NULL)
                   /\ ports' = [ports EXCEPT ![n] = o]
                   /\ free' = free \ {o}
                   /\ port' = [port EXCEPT ![o] =
                                 IF ports[n] = NULL THEN FreshPort
                                 ELSE Abandoned(@, SerialOf(DriverOf[p]))]
      BY <1>2, <1>5
    <2>3. o \in PortObjs /\ (ports[n] = NULL => o \in free) /\ (ports[n] # NULL => o = ports[n])
      BY <2>1, <2>2 DEF IInv, TypeOK
    <2>4. SerialOf(d) \in 1..MaxTypes
      BY <1>1 DEF IInv, TypeOK
    <2>5. PICK c \in CallRec : /\ c.at = "sd" /\ c.dyn /\ c.n = n /\ c.o = o
                               /\ c.serial = SerialOf(d)
                               /\ call' = [call EXCEPT ![p] = c] /\ lock' = p
      <3> DEFINE r == [at |-> "sd", dyn |-> TRUE, n |-> n, o |-> o,
                       fresh |-> ports[n] = NULL, serial |-> SerialOf(d)]
      <3>1. r \in CallRec
        BY <2>1, <2>3, <2>4 DEF CallRec
      <3>2. call' = [call EXCEPT ![p] = r]
        BY <2>2 DEF Chosen
      <3> QED BY <1>2, <1>5, <3>1, <3>2
    <2>6. /\ call' \in [Procs -> CallRec \cup {Idle, Dead}]
          /\ call'[p] = c /\ call'[p] # Idle
          /\ \A q \in Procs \ {p} : call'[q] \notin CallRec
          /\ BinderLocks'
          /\ \A x : ~BeingFilled(x)' /\ ~BeingFilled(x)
      BY <1>3, <2>5, ChosenAlone DEF IInv
    <2>7. /\ ports' \in [PortNos -> PortObjs \cup {NULL}]
          /\ \A m \in PortNos : ports'[m] = IF m = n THEN o ELSE ports[m]
      BY <2>1, <2>2, <2>3 DEF IInv, TypeOK
    <2>8. /\ port'[o] \in PortRec /\ port'[o].owner = NULL
          /\ port'[o].sd # NULL => port[o].sd = port'[o].sd /\ port[o].peer_type = SerialOf(d)
                                   /\ port'[o].peer_type = SerialOf(d) 
      <3>1. CASE ports[n] = NULL
        <4>1. port'[o] = FreshPort
          BY <2>2, <2>3, <3>1 DEF IInv, TypeOK
        <4>2. FreshPort \in PortRec
          BY DEF FreshPort, PortRec
        <4> QED BY <4>1, <4>2 DEF FreshPort
      <3>2. CASE ports[n] # NULL
        <4>1. port'[o] = Abandoned(port[o], SerialOf(d))
          BY <2>2, <2>3, <3>2 DEF IInv, TypeOK
        <4>2. port[o] \in PortRec /\ port[o].owner = NULL
          BY <2>1, <2>3, <3>2 DEF IInv, TypeOK, Ownerless
        <4> QED BY <4>1, <4>2 DEF Abandoned, PortRec
      <3> QED BY <3>1, <3>2
    <2>9. /\ port' \in [PortObjs -> PortRec]
          /\ \A x \in PortObjs \ {o} : port'[x] = port[x]
      BY <2>2, <2>3, <2>8 DEF IInv, TypeOK
    <2>10. TypeOK'
      BY <1>1, <1>2, <1>3, <1>5, <2>2, <2>6, <2>7, <2>9 DEF IInv, TypeOK
    <2>11. PublishedOnce'
      BY <2>2, <2>3, <2>7 DEF IInv, TypeOK, PublishedOnce
    <2>12. CallHolds'
      <3>1. ChoiceHolds(p, c)'
        BY <2>1, <2>2, <2>5, <2>7, <2>8 DEF ChoiceHolds
      <3>2. DriverHolds(p, c)'
        BY <1>1, <2>5, <2>8 DEF DriverHolds
      <3> QED BY <2>6, <3>1, <3>2 DEF CallHolds, ChoiceHolds, DriverHolds
    <2>13. DynportOwnedOnce'
      <3> SUFFICES ASSUME NEW q \in Procs, NEW m \in mine[q] \cap Dyn
                   PROVE  ports'[m] # NULL /\ port'[ports'[m]].owner = q
                          /\ port'[ports'[m]].portno = m
        BY <1>3 DEF DynportOwnedOnce
      <3>1. /\ m \in PortNos /\ ports[m] \in PortObjs
            /\ port[ports[m]].owner = q /\ port[ports[m]].portno = m /\ q # NULL
        BY OwnedPort
      <3>2. m # n /\ ports[m] # o
        BY <2>1, <2>3, <3>1 DEF Ownerless, IInv, PublishedOnce
      <3> QED BY <2>7, <2>9, <3>1, <3>2
    <2>14. DescriptorMatches'
      <3> SUFFICES ASSUME NEW x \in PortObjs \ torn, port'[x].sd # NULL
                   PROVE  port'[x].peer_type \in 1..Len(types')
                          /\ types'[port'[x].peer_type] = port'[x].sd
        BY <1>3 DEF DescriptorMatches
      <3>1. port'[x].sd = port[x].sd /\ port'[x].peer_type = port[x].peer_type
        BY <2>8, <2>9
      <3>2. port[x].peer_type \in 1..Len(types) /\ types[port[x].peer_type] = port[x].sd
        BY <2>6, <3>1 DEF IInv, DescriptorMatches
      <3> QED BY <1>1, <3>1, <3>2 DEF IInv, TypeOK
    <2>15. LockGivenUp'
      BY <2>5, <2>6 DEF LockGivenUp
    <2> QED BY <1>1, <2>6, <2>10, <2>11, <2>12, <2>13, <2>14, <2>15 DEF IInv
  <1> QED BY <1>4, <1>5

(* A bind by number takes a port that is not dynamic; one that is refused  *)
(* frees it.                                                               *)
LEMMA PortStep ==
    ASSUME IInv, NEW p \in Procs, NEW req \in 0..dynports, bind_port(p, req)
    PROVE  IInv'
  <1> DEFINE d == DriverOf[p]
  <1> USE PortsAssumption
  <1>1. PICK n \in {FirstOf(Bindable(req))} :
         IF n = NULL \/ (ports[n] = NULL /\ free = {})
         THEN UNCHANGED <<lock, call, ports, port, free, types, cache>>
         ELSE \E o \in IF ports[n] = NULL THEN free ELSE {ports[n]} :
                /\ port' = [port EXCEPT ![o] = IF ports[n] = NULL THEN FreshPort ELSE @]
                /\ IF Enabled(DriverOf[p])
                   THEN /\ lock' = p
                        /\ __enable_driver(p, DriverOf[p])
                        /\ Chosen(p, FALSE, n, o, ports[n] = NULL)
                        /\ free' = free \ {o}
                        /\ UNCHANGED ports
                   ELSE /\ Unbind(n, o)
                        /\ UNCHANGED <<lock, call, types, cache>>
    BY DEF bind_port
  <1>2. lock = NULL /\ mine' = mine /\ torn' = torn
    BY DEF bind_port
  <1>3. CASE n = NULL \/ (ports[n] = NULL /\ free = {})
    <2>1. CacheAgrees' /\ types' = types /\ cache' = cache
      BY <1>1, <1>3 DEF IInv, CacheAgrees
    <2>2. /\ types \in Seq(Drivers) /\ Len(types) <= MaxTypes /\ Len(types) <= Len(types)
          /\ cache \in [Procs -> [1..MaxTypes -> Drivers \cup {NULL}]]
      BY DEF IInv, TypeOK
    <2> QED BY <1>1, <1>2, <1>3, <2>1, <2>2, TableGrows
  <1>4. CASE ~(n = NULL \/ (ports[n] = NULL /\ free = {}))
    <2>1. n \in PortNos /\ n \notin Dyn
      <3>1. Bindable(req) # {} /\ Bindable(req) \in SUBSET (PortNos \ Dyn)
        BY <1>1, <1>4, Numbers DEF FirstOf, Bindable
      <3> QED BY <1>1, <3>1, FirstOfIn, Numbers
    <2>2. PICK o \in IF ports[n] = NULL THEN free ELSE {ports[n]} :
                /\ port' = [port EXCEPT ![o] = IF ports[n] = NULL THEN FreshPort ELSE @]
                /\ IF Enabled(DriverOf[p])
                   THEN /\ lock' = p
                        /\ __enable_driver(p, DriverOf[p])
                        /\ Chosen(p, FALSE, n, o, ports[n] = NULL)
                        /\ free' = free \ {o}
                        /\ UNCHANGED ports
                   ELSE /\ Unbind(n, o)
                        /\ UNCHANGED <<lock, call, types, cache>>
      BY <1>1, <1>4
    <2>3. o \in PortObjs /\ (ports[n] = NULL => o \in free) /\ (ports[n] # NULL => o = ports[n])
      BY <2>1, <2>2 DEF IInv, TypeOK
    <2>4. /\ port' \in [PortObjs -> PortRec]
          /\ \A x \in PortObjs \ {o} : port'[x] = port[x]
          /\ ports[n] # NULL => port' = port
          /\ ports[n] = NULL => port'[o].sd = NULL
      <3>1. FreshPort \in PortRec /\ FreshPort.sd = NULL
        BY DEF FreshPort, PortRec
      <3> QED BY <2>2, <2>3, <3>1 DEF IInv, TypeOK
    <2>5. \A m \in PortNos \ {n} : ports[m] # o
      BY <2>1, <2>3 DEF IInv, TypeOK, PublishedOnce
    <2>6. /\ \A m \in PortNos \ {n} : ports'[m] = ports[m]
          /\ ports' \in [PortNos -> PortObjs \cup {NULL}]
      BY <2>1, <2>2 DEF IInv, TypeOK, Unbind
    <2>7. DynportOwnedOnce'
      <3> SUFFICES ASSUME NEW q \in Procs, NEW m \in mine[q] \cap Dyn
                   PROVE  ports'[m] # NULL /\ port'[ports'[m]].owner = q
                          /\ port'[ports'[m]].portno = m
        BY <1>2 DEF DynportOwnedOnce
      <3>1. /\ m \in PortNos /\ ports[m] \in PortObjs
            /\ port[ports[m]].owner = q /\ port[ports[m]].portno = m
        BY OwnedPort
      <3> QED BY <2>1, <2>4, <2>5, <2>6, <3>1
    <2>8. ASSUME NEW x \in PortObjs \ torn, ~BeingFilled(x), port'[x].sd # NULL
          PROVE  /\ port'[x].peer_type = port[x].peer_type /\ port'[x].sd = port[x].sd
                 /\ port[x].peer_type \in 1..Len(types)
                 /\ types[port[x].peer_type] = port[x].sd
      <3>1. port'[x] = port[x]
        BY <2>4, <2>8
      <3> QED BY <2>8, <3>1 DEF IInv, DescriptorMatches
    <2>9. CASE Enabled(d)
      <3>1. /\ types' \in Seq(Drivers) /\ Len(types') <= MaxTypes
            /\ Len(types) <= Len(types')
            /\ \A i \in 1..Len(types) : types'[i] = types[i]
            /\ SerialOf(d) \in 1..Len(types') /\ types'[SerialOf(d)] = d
            /\ cache' \in [Procs -> [1..MaxTypes -> Drivers \cup {NULL}]]
            /\ CacheAgrees'
        BY <2>2, <2>9, EnableKeeps DEF IInv
      <3>2. PICK c \in CallRec : /\ c.at = "sd" /\ ~c.dyn /\ c.n = n /\ c.o = o
                                 /\ (c.fresh <=> ports[n] = NULL) /\ c.serial = SerialOf(d)
                                 /\ call' = [call EXCEPT ![p] = c] /\ lock' = p
        <4> DEFINE r == [at |-> "sd", dyn |-> FALSE, n |-> n, o |-> o,
                         fresh |-> ports[n] = NULL, serial |-> SerialOf(d)]
        <4>1. r \in CallRec
          BY <2>1, <2>3, <3>1 DEF CallRec, IInv, TypeOK
        <4>2. call' = [call EXCEPT ![p] = r]
          BY <2>2, <2>9 DEF Chosen
        <4> QED BY <2>2, <2>9, <4>1, <4>2
      <3>3. /\ call' \in [Procs -> CallRec \cup {Idle, Dead}]
            /\ call'[p] = c /\ call'[p] # Idle
            /\ \A q \in Procs \ {p} : call'[q] \notin CallRec
            /\ BinderLocks'
            /\ \A x : ~BeingFilled(x)' /\ ~BeingFilled(x)
        BY <1>2, <3>2, ChosenAlone DEF IInv
      <3>4. free' = free \ {o} /\ ports' = ports
        BY <2>2, <2>9
      <3>5. TypeOK'
        BY <1>2, <2>4, <3>1, <3>2, <3>3, <3>4 DEF IInv, TypeOK
      <3>6. PublishedOnce'
        BY <3>4 DEF IInv, PublishedOnce
      <3>7. CallHolds'
        <4>1. ChoiceHolds(p, c)'
          <5>1. \A m \in PortNos : c.fresh => ports[m] # o
            BY <2>3, <2>5, <3>2
          <5>2. ~c.fresh => ports[n] = o
            BY <2>3, <3>2
          <5> QED BY <2>1, <3>2, <3>4, <5>1, <5>2 DEF ChoiceHolds
        <4>2. DriverHolds(p, c)'
          BY <3>1, <3>2 DEF DriverHolds
        <4> QED BY <3>3, <4>1, <4>2 DEF CallHolds, ChoiceHolds, DriverHolds
      <3>8. DescriptorMatches'
        <4> SUFFICES ASSUME NEW x \in PortObjs \ torn, port'[x].sd # NULL
                     PROVE  port'[x].peer_type \in 1..Len(types')
                            /\ types'[port'[x].peer_type] = port'[x].sd
          BY <1>2 DEF DescriptorMatches
        <4>1. /\ port'[x].peer_type = port[x].peer_type /\ port'[x].sd = port[x].sd
              /\ port[x].peer_type \in 1..Len(types)
              /\ types[port[x].peer_type] = port[x].sd
          BY <2>8, <3>3
        <4> QED BY <3>1, <4>1 DEF IInv, TypeOK
      <3>9. LockGivenUp'
        BY <3>2, <3>3 DEF LockGivenUp
      <3> QED BY <2>7, <3>1, <3>3, <3>5, <3>6, <3>7, <3>8, <3>9 DEF IInv
    <2>10. CASE ~Enabled(d)
      <3>1. /\ free' = free \cup {o} /\ ports' = [ports EXCEPT ![n] = NULL]
            /\ lock' = NULL /\ call' = call /\ types' = types /\ cache' = cache
        BY <1>2, <2>2, <2>10 DEF Unbind
      <3>2. TypeOK'
        BY <1>2, <2>3, <2>4, <2>6, <3>1 DEF IInv, TypeOK
      <3>3. BinderLocks' /\ CacheAgrees' /\ LockGivenUp'
        BY <1>2, <3>1 DEF IInv, BinderLocks, CacheAgrees, LockGivenUp
      <3>4. CallHolds'
        BY <1>2, <3>1, FreeNoCall DEF IInv, CallHolds
      <3>5. PublishedOnce'
        <4>1. ports'[n] = NULL
          BY <2>1, <3>1 DEF IInv, TypeOK
        <4> QED BY <2>3, <2>5, <2>6, <3>1, <4>1 DEF IInv, TypeOK, PublishedOnce
      <3>6. DescriptorMatches'
        BY <1>2, <2>8, <3>1 DEF DescriptorMatches, BeingFilled
      <3> QED BY <2>7, <3>2, <3>3, <3>4, <3>5, <3>6 DEF IInv
    <2> QED BY <2>9, <2>10
  <1> QED BY <1>3, <1>4

(* What a bind in the middle knows.                                        *)
LEMMA Binding ==
    ASSUME IInv, NEW p \in Procs, call[p].at \in {"sd", "fill"}
    PROVE  /\ call[p] \in CallRec /\ lock = p
           /\ call[p].n \in PortNos /\ call[p].o \in PortObjs
           /\ call[p].serial \in 1..MaxTypes
           /\ ChoiceHolds(p, call[p]) /\ DriverHolds(p, call[p])
           /\ \A q \in Procs \ {p} : call[q] \notin CallRec /\ call[q].at \notin {"sd", "fill"}
           /\ \A x : BeingFilled(x) => call[p].at = "fill" /\ call[p].o = x
  <1>1. /\ call[p] \in CallRec /\ lock = p
        /\ \A q \in Procs \ {p} : call[q] \notin CallRec /\ call[q].at \notin {"sd", "fill"}
    BY OneBinder DEF IInv
  <1>2. ChoiceHolds(p, call[p]) /\ DriverHolds(p, call[p])
    BY <1>1 DEF IInv, CallHolds
  <1>3. \A x : BeingFilled(x) => call[p].at = "fill" /\ call[p].o = x
    BY <1>1 DEF BeingFilled
  <1> QED BY <1>1, <1>2, <1>3 DEF CallRec

(* Getting a descriptor.                                                   *)
LEMMA GetSdStep ==
    ASSUME IInv, NEW p \in Procs, GetSd(p)
    PROVE  IInv'
  <1> USE PortsAssumption
  <1>1. PICK c \in CallRec : c = call[p] /\ c.at = "sd"
    BY Binding DEF GetSd
  <1>2. /\ lock = p /\ ChoiceHolds(p, c) /\ DriverHolds(p, c)
        /\ c.n \in PortNos /\ c.o \in PortObjs /\ DriverOf[p] \in Drivers
        /\ \A q \in Procs \ {p} : call[q] \notin CallRec /\ call[q].at \notin {"sd", "fill"}
        /\ \A x : ~BeingFilled(x)
    BY <1>1, Binding
  <1>3. /\ port' = [port EXCEPT ![c.o].sd = IF c.dyn /\ @ # NULL THEN @ ELSE DriverOf[p]]
        /\ torn' = IF c.dyn /\ port[c.o].sd # NULL THEN torn ELSE torn \ {c.o}
        /\ call' = [call EXCEPT ![p].at = "fill"]
        /\ UNCHANGED <<lock, types, cache, ports, free, mine>>
    BY <1>1 DEF GetSd
  <1>4. PICK e \in CallRec :
           /\ call' = [call EXCEPT ![p] = e] /\ e.at = "fill" /\ e.dyn = c.dyn /\ e.n = c.n
           /\ e.o = c.o /\ e.fresh = c.fresh /\ e.serial = c.serial
    <2>1. call' = [call EXCEPT ![p] = [c EXCEPT !.at = "fill"]]
      BY <1>1, <1>3 DEF IInv, TypeOK
    <2>2. [c EXCEPT !.at = "fill"] \in CallRec
      BY DEF CallRec
    <2> QED BY <2>1, <2>2 DEF CallRec
  <1>5. /\ port' \in [PortObjs -> PortRec]
        /\ \A x \in PortObjs \ {c.o} : port'[x] = port[x]
        /\ port'[c.o].owner = port[c.o].owner /\ port'[c.o].portno = port[c.o].portno
        /\ port'[c.o].peer_type = port[c.o].peer_type
        /\ port'[c.o].sd = IF c.dyn /\ port[c.o].sd # NULL THEN port[c.o].sd ELSE DriverOf[p]
    <2> DEFINE v == IF c.dyn /\ port[c.o].sd # NULL THEN port[c.o].sd ELSE DriverOf[p]
               r == [port[c.o] EXCEPT !.sd = v]
    <2>1. port[c.o] \in PortRec
      BY <1>2 DEF IInv, TypeOK
    <2>2. v \in Drivers \cup {NULL}
      BY <1>2, <2>1 DEF PortRec
    <2> HIDE DEF v
    <2>3. /\ r \in PortRec /\ r.owner = port[c.o].owner /\ r.portno = port[c.o].portno
          /\ r.peer_type = port[c.o].peer_type /\ r.sd = v
      BY <2>1, <2>2 DEF PortRec
    <2>4. port' = [port EXCEPT ![c.o] = r]
      BY <1>2, <1>3 DEF v, IInv, TypeOK
    <2> HIDE DEF r
    <2>5. port'[c.o] = r
      BY <1>2, <2>4 DEF IInv, TypeOK
    <2>6. port' \in [PortObjs -> PortRec] /\ \A x \in PortObjs \ {c.o} : port'[x] = port[x]
      BY <1>2, <2>3, <2>4 DEF IInv, TypeOK
    <2> QED BY <2>3, <2>5, <2>6 DEF v
  <1>6. /\ \A q \in Procs : call'[q] = IF q = p THEN e ELSE call[q]
        /\ call' \in [Procs -> CallRec \cup {Idle, Dead}]
    BY <1>4 DEF IInv, TypeOK
  <1>7. TypeOK'
    BY <1>3, <1>5, <1>6 DEF IInv, TypeOK
  <1>8. BinderLocks' /\ CacheAgrees' /\ PublishedOnce'
    BY <1>2, <1>3, <1>6 DEF IInv, BinderLocks, CacheAgrees, PublishedOnce
  <1>9. LockGivenUp'
    BY <1>2, <1>3, <1>4, <1>6 DEF LockGivenUp, Idle
  <1>10. DynportOwnedOnce'
    <2> SUFFICES ASSUME NEW q \in Procs, NEW m \in mine[q] \cap Dyn
                 PROVE  ports'[m] # NULL /\ port'[ports'[m]].owner = q
                        /\ port'[ports'[m]].portno = m
      BY <1>3 DEF DynportOwnedOnce
    <2>1. /\ m \in PortNos /\ ports[m] \in PortObjs
          /\ port[ports[m]].owner = q /\ port[ports[m]].portno = m
      BY OwnedPort
    <2> QED BY <1>3, <1>5, <2>1
  <1>11. CallHolds'
    <2>1. ChoiceHolds(p, e)'
      BY <1>2, <1>3, <1>4, <1>5 DEF ChoiceHolds
    <2>2. DriverHolds(p, e)'
      <3>1. e.o \notin torn' => port'[e.o].sd = DriverOf[p]
        <4>1. CASE c.dyn /\ port[c.o].sd # NULL
          <5> SUFFICES ASSUME c.o \notin torn PROVE port[c.o].sd = DriverOf[p]
            BY <1>3, <1>4, <1>5, <4>1
          <5>1. types[port[c.o].peer_type] = port[c.o].sd
            BY <1>2, <4>1 DEF IInv, DescriptorMatches
          <5>2. port[c.o].peer_type = c.serial /\ types[c.serial] = DriverOf[p]
            BY <1>1, <1>2, <4>1 DEF DriverHolds
          <5> QED BY <5>1, <5>2
        <4>2. CASE ~(c.dyn /\ port[c.o].sd # NULL)
          BY <1>4, <1>5, <4>2
        <4> QED BY <4>1, <4>2
      <3> QED BY <1>2, <1>3, <1>4, <3>1 DEF DriverHolds
    <2> QED BY <1>2, <1>6, <2>1, <2>2 DEF CallHolds, ChoiceHolds, DriverHolds
  <1>12. DescriptorMatches'
    <2> SUFFICES ASSUME NEW x \in PortObjs \ torn', ~BeingFilled(x)', port'[x].sd # NULL
                 PROVE  port'[x].peer_type \in 1..Len(types')
                        /\ types'[port'[x].peer_type] = port'[x].sd
      BY DEF DescriptorMatches
    <2>1. x # c.o
      BY <1>4, <1>6 DEF BeingFilled
    <2> QED BY <1>2, <1>3, <1>5, <2>1 DEF IInv, DescriptorMatches
  <1> QED BY <1>7, <1>8, <1>9, <1>10, <1>11, <1>12 DEF IInv

(* No descriptor: the port is freed, or stays without one.                 *)
LEMMA NoSdStep ==
    ASSUME IInv, NEW p \in Procs, NoSd(p)
    PROVE  IInv'
  <1> USE PortsAssumption
  <1>1. PICK c \in CallRec : c = call[p] /\ c.at = "sd"
    BY Binding DEF NoSd
  <1>2. /\ lock = p /\ ChoiceHolds(p, c)
        /\ c.n \in PortNos /\ c.o \in PortObjs
        /\ \A q \in Procs \ {p} : call[q] \notin CallRec /\ call[q].at \notin {"sd", "fill"}
        /\ \A x : ~BeingFilled(x)
    BY <1>1, Binding
  <1>3. /\ IF c.fresh \/ ~c.dyn THEN Unbind(c.n, c.o) ELSE UNCHANGED <<free, ports>>
        /\ lock' = NULL /\ call' = [call EXCEPT ![p] = Idle]
        /\ UNCHANGED <<types, cache, port, mine, torn>>
    BY <1>1 DEF NoSd, Fails
  <1>4. \A q \in Procs : call'[q] \notin CallRec /\ call'[q].at # "fill"
    BY <1>2, <1>3 DEF IInv, TypeOK, Idle, CallRec
  <1>5. ports' \in [PortNos -> PortObjs \cup {NULL}] /\ free' \in SUBSET PortObjs
    BY <1>2, <1>3 DEF IInv, TypeOK, Unbind
  <1>6. TypeOK'
    BY <1>3, <1>5 DEF IInv, TypeOK
  <1>7. BinderLocks' /\ CacheAgrees' /\ CallHolds' /\ LockGivenUp'
    BY <1>3, <1>4 DEF IInv, BinderLocks, CacheAgrees, CallHolds, LockGivenUp
  <1>8. \A m \in PortNos \ {c.n} : ports[m] # c.o /\ ports'[m] = ports[m]
    BY <1>2, <1>3 DEF IInv, TypeOK, ChoiceHolds, PublishedOnce, Unbind
  <1>9. PublishedOnce'
    <2>1. CASE c.fresh \/ ~c.dyn
      <3>1. ports'[c.n] = NULL /\ free' = free \cup {c.o}
        BY <1>2, <1>3, <2>1 DEF IInv, TypeOK, Unbind
      <3> QED BY <1>2, <1>8, <3>1 DEF IInv, TypeOK, PublishedOnce
    <2>2. CASE ~(c.fresh \/ ~c.dyn)
      BY <1>3, <2>2 DEF IInv, PublishedOnce
    <2> QED BY <2>1, <2>2
  <1>10. DynportOwnedOnce'
    <2> SUFFICES ASSUME NEW q \in Procs, NEW m \in mine[q] \cap Dyn
                 PROVE  ports'[m] # NULL /\ port'[ports'[m]].owner = q
                        /\ port'[ports'[m]].portno = m
      BY <1>3 DEF DynportOwnedOnce
    <2>1. /\ m \in PortNos /\ ports[m] \in PortObjs /\ q # NULL
          /\ port[ports[m]].owner = q /\ port[ports[m]].portno = m
      BY OwnedPort
    <2>2. m # c.n
      BY <1>2, <2>1 DEF ChoiceHolds
    <2> QED BY <1>3, <1>8, <2>1, <2>2
  <1>11. DescriptorMatches'
    BY <1>2, <1>3 DEF IInv, DescriptorMatches
  <1> QED BY <1>6, <1>7, <1>9, <1>10, <1>11 DEF IInv

(* The port is the process's own.                                          *)
LEMMA FillStep ==
    ASSUME IInv, NEW p \in Procs, Fill(p)
    PROVE  IInv'
  <1> USE PortsAssumption
  <1>1. PICK c \in CallRec : c = call[p] /\ c.at = "fill"
    BY Binding DEF Fill
  <1>2. /\ lock = p /\ ChoiceHolds(p, c) /\ DriverHolds(p, c)
        /\ c.n \in PortNos /\ c.o \in PortObjs /\ c.serial \in 1..MaxTypes
        /\ \A q \in Procs \ {p} : call[q] \notin CallRec /\ call[q].at \notin {"sd", "fill"}
        /\ \A x : BeingFilled(x) => c.o = x
    BY <1>1, Binding
  <1>3. /\ port' = [port EXCEPT ![c.o].peer_type = c.serial, ![c.o].owner = p,
                                ![c.o].portno = c.n, ![c.o].flags = TRUE]
        /\ ports' = [ports EXCEPT ![c.n] = c.o]
        /\ mine' = [mine EXCEPT ![p] = @ \cup {c.n}]
        /\ lock' = NULL /\ call' = [call EXCEPT ![p] = Idle]
        /\ UNCHANGED <<types, cache, free, torn>>
    BY <1>1 DEF Fill
  <1>4. \A q \in Procs : call'[q] \notin CallRec /\ call'[q].at # "fill"
    BY <1>2, <1>3 DEF IInv, TypeOK, Idle, CallRec
  <1>5. /\ port' \in [PortObjs -> PortRec]
        /\ \A x \in PortObjs \ {c.o} : port'[x] = port[x]
        /\ port'[c.o].owner = p /\ port'[c.o].portno = c.n
        /\ port'[c.o].peer_type = c.serial /\ port'[c.o].sd = port[c.o].sd
    <2> DEFINE r == [port[c.o] EXCEPT !.peer_type = c.serial, !.owner = p,
                                      !.portno = c.n, !.flags = TRUE]
    <2>1. port[c.o] \in PortRec
      BY <1>2 DEF IInv, TypeOK
    <2>2. /\ r \in PortRec /\ r.owner = p /\ r.portno = c.n
          /\ r.peer_type = c.serial /\ r.sd = port[c.o].sd
      BY <1>2, <2>1 DEF PortRec
    <2>3. port' = [port EXCEPT ![c.o] = r]
      BY <1>2, <1>3 DEF IInv, TypeOK
    <2> HIDE DEF r
    <2>4. port'[c.o] = r
      BY <1>2, <2>3 DEF IInv, TypeOK
    <2>5. port' \in [PortObjs -> PortRec] /\ \A x \in PortObjs \ {c.o} : port'[x] = port[x]
      BY <1>2, <2>2, <2>3 DEF IInv, TypeOK
    <2> QED BY <2>2, <2>4, <2>5
  <1>6. /\ ports' \in [PortNos -> PortObjs \cup {NULL}] /\ ports'[c.n] = c.o
        /\ \A m \in PortNos \ {c.n} : ports'[m] = ports[m] /\ ports[m] # c.o
    BY <1>2, <1>3 DEF IInv, TypeOK, ChoiceHolds, PublishedOnce
  <1>7. TypeOK'
    BY <1>2, <1>3, <1>5, <1>6 DEF IInv, TypeOK
  <1>8. BinderLocks' /\ CacheAgrees' /\ CallHolds' /\ LockGivenUp'
    BY <1>3, <1>4 DEF IInv, BinderLocks, CacheAgrees, CallHolds, LockGivenUp
  <1>9. PublishedOnce'
    BY <1>2, <1>3, <1>6 DEF IInv, TypeOK, ChoiceHolds, PublishedOnce
  <1>10. DynportOwnedOnce'
    <2> SUFFICES ASSUME NEW q \in Procs, NEW m \in mine'[q] \cap Dyn
                 PROVE  ports'[m] # NULL /\ port'[ports'[m]].owner = q
                        /\ port'[ports'[m]].portno = m
      BY DEF DynportOwnedOnce
    <2>1. CASE m \in mine[q]
      <3>1. /\ m \in PortNos /\ ports[m] \in PortObjs /\ q # NULL
            /\ port[ports[m]].owner = q /\ port[ports[m]].portno = m
        BY <2>1, OwnedPort
      <3>2. m # c.n
        BY <1>2, <3>1 DEF ChoiceHolds
      <3> QED BY <1>5, <1>6, <3>1, <3>2
    <2>2. CASE m \notin mine[q]
      <3>1. q = p /\ m = c.n
        BY <1>3, <2>2 DEF IInv, TypeOK
      <3> QED BY <1>2, <1>5, <1>6, <3>1
    <2> QED BY <2>1, <2>2
  <1>11. DescriptorMatches'
    <2> SUFFICES ASSUME NEW x \in PortObjs \ torn, port'[x].sd # NULL
                 PROVE  port'[x].peer_type \in 1..Len(types)
                        /\ types[port'[x].peer_type] = port'[x].sd
      BY <1>3 DEF DescriptorMatches
    <2>1. CASE x = c.o
      BY <1>1, <1>2, <1>5, <2>1 DEF DriverHolds
    <2>2. CASE x # c.o
      BY <1>2, <1>5, <2>2 DEF IInv, DescriptorMatches
    <2> QED BY <2>1, <2>2
  <1> QED BY <1>7, <1>8, <1>9, <1>10, <1>11 DEF IInv

(* The owner leaves: nobody else had the port.                             *)
LEMMA LeaveStep ==
    ASSUME IInv, NEW p \in Procs, NEW n \in Dyn, xseg_leave_dynport(p, n)
    PROVE  IInv'
  <1> USE PortsAssumption
  <1>1. PICK o \in PortObjs : o = ports[n] /\ port[o].owner = p
    BY OwnedPort DEF xseg_leave_dynport
  <1>2. /\ lock = NULL /\ n \in PortNos
        /\ port' = [port EXCEPT ![o].owner = NULL]
        /\ mine' = [mine EXCEPT ![p] = @ \ {n}]
        /\ UNCHANGED <<lock, types, cache, ports, free, call, torn>>
    BY <1>1, Numbers DEF xseg_leave_dynport
  <1>3. /\ port' \in [PortObjs -> PortRec]
        /\ \A x \in PortObjs : /\ x # o => port'[x] = port[x]
                               /\ port'[x].sd = port[x].sd
                               /\ port'[x].peer_type = port[x].peer_type
    <2>1. port[o] \in PortRec
      BY DEF IInv, TypeOK
    <2>2. /\ [port[o] EXCEPT !.owner = NULL] \in PortRec
          /\ [port[o] EXCEPT !.owner = NULL].sd = port[o].sd
          /\ [port[o] EXCEPT !.owner = NULL].peer_type = port[o].peer_type
      BY <2>1 DEF PortRec
    <2> QED BY <1>2, <2>2 DEF IInv, TypeOK
  <1>4. TypeOK'
    BY <1>2, <1>3 DEF IInv, TypeOK
  <1>5. BinderLocks' /\ CacheAgrees' /\ PublishedOnce' /\ LockGivenUp'
    BY <1>2 DEF IInv, BinderLocks, CacheAgrees, PublishedOnce, LockGivenUp
  <1>6. CallHolds'
    BY <1>2, FreeNoCall DEF IInv, CallHolds
  <1>7. DescriptorMatches'
    BY <1>2, <1>3 DEF IInv, DescriptorMatches, BeingFilled
  <1>8. DynportOwnedOnce'
    <2> SUFFICES ASSUME NEW q \in Procs, NEW m \in mine'[q] \cap Dyn
                 PROVE  ports'[m] # NULL /\ port'[ports'[m]].owner = q
                        /\ port'[ports'[m]].portno = m
      BY DEF DynportOwnedOnce
    <2>1. m \in mine[q] \cap Dyn /\ ~(q = p /\ m = n)
      BY <1>2 DEF IInv, TypeOK
    <2>2. /\ m \in PortNos /\ ports[m] \in PortObjs
          /\ port[ports[m]].owner = q /\ port[ports[m]].portno = m
      BY <2>1, OwnedPort
    <2>3. ports[m] # o
      BY <1>1, <1>2, <2>1, <2>2 DEF IInv, PublishedOnce
    <2> QED BY <1>2, <1>3, <2>2, <2>3
  <1> QED BY <1>4, <1>5, <1>6, <1>7, <1>8 DEF IInv

(* A process dies: what it had in hand is torn, its ports are nobody's.    *)
LEMMA CrashStep ==
    ASSUME IInv, NEW p \in Procs, Crash(p)
    PROVE  IInv'
  <1>1. /\ torn' = IF call[p].at = "fill" THEN torn \cup {call[p].o} ELSE torn
        /\ call' = [call EXCEPT ![p] = Dead]
        /\ mine' = [mine EXCEPT ![p] = {}]
        /\ UNCHANGED <<lock, types, cache, ports, port, free, nodata>>
    BY DEF Crash
  <1>2. \A q \in Procs : call'[q] = IF q = p THEN Dead ELSE call[q]
    BY <1>1 DEF IInv, TypeOK
  <1>3. Dead \notin CallRec /\ Dead # Idle /\ Dead.at # "fill"
    BY DEF Dead, Idle, CallRec
  <1>4. TypeOK'
    BY <1>1 DEF IInv, TypeOK
  <1>5. BinderLocks' /\ CacheAgrees' /\ PublishedOnce'
    BY <1>1, <1>2, <1>3 DEF IInv, BinderLocks, CacheAgrees, PublishedOnce
  <1>6. LockGivenUp'
    BY <1>1, <1>2, <1>3 DEF IInv, TypeOK, LockGivenUp, Enabled, Full, Known
  <1>7. CallHolds'
    <2> SUFFICES ASSUME NEW q \in Procs, call'[q] \in CallRec
                 PROVE  ChoiceHolds(q, call[q])' /\ DriverHolds(q, call[q])'
      BY DEF CallHolds
    <2>1. q # p /\ call'[q] = call[q]
      BY <1>2, <1>3
    <2>2. ChoiceHolds(q, call[q]) /\ DriverHolds(q, call[q])
      BY <2>1 DEF IInv, CallHolds
    <2>3. torn \subseteq torn'
      BY <1>1
    <2> QED BY <1>1, <2>1, <2>2, <2>3 DEF ChoiceHolds, DriverHolds
  <1>8. DescriptorMatches'
    <2> SUFFICES ASSUME NEW x \in PortObjs \ torn', ~BeingFilled(x)'
                 PROVE  x \notin torn /\ ~BeingFilled(x)
      BY <1>1 DEF IInv, DescriptorMatches
    <2> QED BY <1>1, <1>2 DEF BeingFilled
  <1>9. DynportOwnedOnce'
    BY <1>1 DEF IInv, TypeOK, DynportOwnedOnce
  <1> QED BY <1>4, <1>5, <1>6, <1>7, <1>8, <1>9 DEF IInv

(* The steps that change neither ports nor calls.                          *)
LEMMA OtherSteps ==
    ASSUME IInv,
           UNCHANGED <<ports, port, free, call, mine, nodata, torn, types>>,
           cache' \in [Procs -> [1..MaxTypes -> Drivers \cup {NULL}]], CacheAgrees',
           lock' \in Procs \cup {NULL}, BinderLocks', LockGivenUp'
    PROVE  IInv'
  <1>1. TypeOK' /\ PublishedOnce' /\ DynportOwnedOnce'
    BY DEF IInv, TypeOK, PublishedOnce, DynportOwnedOnce
  <1>2. CallHolds'
    BY DEF IInv, CallHolds, ChoiceHolds, DriverHolds
  <1>3. DescriptorMatches'
    BY DEF IInv, DescriptorMatches, BeingFilled
  <1> QED BY <1>1, <1>2, <1>3 DEF IInv

LEMMA InitIInv == Init => IInv
  <1> SUFFICES ASSUME Init PROVE IInv
    OBVIOUS
  <1> USE PortsAssumption
  <1>1. FreshPort \in PortRec /\ FreshPort.sd = NULL
    BY DEF FreshPort, PortRec
  <1>2. TypeOK
    BY <1>1 DEF Init, TypeOK
  <1>3. \A p \in Procs : call[p] \notin CallRec
    BY DEF Init, CallRec, Idle
  <1>4. BinderLocks /\ CacheAgrees /\ CallHolds /\ LockGivenUp
    BY <1>3 DEF Init, BinderLocks, CacheAgrees, CallHolds, LockGivenUp
  <1>5. PublishedOnce /\ DynportOwnedOnce
    BY DEF Init, PublishedOnce, DynportOwnedOnce
  <1>6. DescriptorMatches
    BY <1>1 DEF Init, DescriptorMatches
  <1> QED BY <1>2, <1>4, <1>5, <1>6 DEF IInv

(* Each step keeps the invariant.                                          *)
LEMMA NextIInv ==
    ASSUME IInv, [Next]_vars
    PROVE  IInv'
  <1>1. ASSUME NEW p \in Procs, NEW d \in Enables[p], xseg_enable_driver(p, d) PROVE IInv'
    <2>1. d \in Drivers
      BY PortsAssumption
    <2>2. /\ types' \in Seq(Drivers) /\ Len(types') <= MaxTypes
          /\ Len(types) <= Len(types')
          /\ \A i \in 1..Len(types) : types'[i] = types[i]
          /\ cache' \in [Procs -> [1..MaxTypes -> Drivers \cup {NULL}]]
          /\ CacheAgrees'
      BY <1>1, <2>1, EnableKeeps DEF IInv, xseg_enable_driver
    <2> QED BY <1>1, <2>2, TableGrows DEF xseg_enable_driver
  <1>2. ASSUME NEW p \in Procs, NEW d \in Enables[p], xseg_disable_driver(p, d) PROVE IInv'
    <2>1. /\ cache' = [cache EXCEPT ![p] =
                         [i \in 1..MaxTypes |-> IF @[i] = d THEN NULL ELSE @[i]]]
          /\ UNCHANGED <<lock, types, ports, port, free, call, mine, nodata, torn>>
      BY <1>2 DEF xseg_disable_driver
    <2>2. /\ cache' \in [Procs -> [1..MaxTypes -> Drivers \cup {NULL}]]
          /\ \A q \in Procs : \A i \in 1..MaxTypes : cache'[q][i] \in {NULL, cache[q][i]}
      BY <2>1 DEF IInv, TypeOK
    <2>3. CacheAgrees'
      BY <2>1, <2>2 DEF IInv, CacheAgrees
    <2>4. BinderLocks' /\ LockGivenUp' /\ lock' \in Procs \cup {NULL}
      BY <2>1 DEF IInv, TypeOK, BinderLocks, LockGivenUp, Enabled, Full, Known
    <2> QED BY <2>1, <2>2, <2>3, <2>4, OtherSteps
  <1>3. ASSUME NEW p \in Procs, DynRefused(p) PROVE IInv'
    <2>1. /\ lock = NULL /\ lock' = p /\ ~Enabled(DriverOf[p])
          /\ UNCHANGED <<types, cache, ports, port, free, call, mine, nodata, torn>>
      BY <1>3 DEF DynRefused
    <2>2. BinderLocks'
      BY <2>1, FreeNoCall DEF IInv, BinderLocks
    <2>3. LockGivenUp' /\ CacheAgrees'
      BY <2>1 DEF IInv, LockGivenUp, CacheAgrees, Enabled, Full, Known
    <2> QED BY <2>1, <2>2, <2>3, OtherSteps DEF IInv, TypeOK
  <1>4. ASSUME recoverlocks PROVE IInv'
    <2>1. /\ lock # NULL /\ call[lock].at = "dead" /\ lock' = NULL
          /\ UNCHANGED <<types, cache, ports, port, free, call, mine, nodata, torn>>
      BY <1>4 DEF recoverlocks, Alive
    <2>2. BinderLocks'
      BY <2>1 DEF IInv, BinderLocks, CallRec
    <2>3. LockGivenUp' /\ CacheAgrees'
      BY <2>1 DEF IInv, LockGivenUp, CacheAgrees
    <2> QED BY <2>1, <2>2, <2>3, OtherSteps DEF IInv, TypeOK
  <1>5. ASSUME UNCHANGED vars PROVE IInv'
    <2>1. UNCHANGED <<lock, types, cache, ports, port, free, call, mine, nodata, torn>>
      BY <1>5 DEF vars
    <2>2. LockGivenUp' /\ CacheAgrees' /\ BinderLocks'
      BY <2>1 DEF IInv, LockGivenUp, CacheAgrees, BinderLocks, Enabled, Full, Known
    <2> QED BY <2>1, <2>2, OtherSteps DEF IInv, TypeOK
  <1> QED BY <1>1, <1>2, <1>3, <1>4, <1>5, DynportStep, PortStep, GetSdStep, NoSdStep,
             FillStep, LeaveStep, CrashStep DEF Next

(* Whoever signals a port goes by its cache or by the table, and the two   *)
(* agree.                                                                  *)
LEMMA SignalsFollow == IInv => SignalsItsDriver
  <1> SUFFICES ASSUME IInv, NEW q \in Procs, NEW n \in PortNos,
                      ports[n] \in PortObjs \ torn, ~BeingFilled(ports[n]),
                      port[ports[n]].sd # NULL
               PROVE  __get_peer_type(q, port[ports[n]].peer_type) = port[ports[n]].sd
    BY DEF SignalsItsDriver
  <1>1. /\ port[ports[n]].peer_type \in 1..MaxTypes
        /\ types[port[ports[n]].peer_type] = port[ports[n]].sd
    BY DEF IInv, TypeOK, PortRec, DescriptorMatches
  <1> QED BY <1>1 DEF IInv, CacheAgrees, __get_peer_type

(* The parts of the invariant hold together in every reachable state.      *)
THEOREM Invariance == Spec => []IInv
  BY InitIInv, NextIInv, PTL DEF Spec

(* A process keeps the dynamic port it was given until it leaves it or     *)
(* dies: xseg_bind_dynport gives it to nobody else, and no failing or half *)
(* done bind takes it away.                                                *)
THEOREM DynportsKept == Spec => []DynportOwnedOnce
  <1>1. IInv => DynportOwnedOnce
    BY DEF IInv
  <1> QED BY <1>1, Invariance, PTL

(* ports[] never has a port object twice, nor one that is free in port_h,  *)
(* though xseg_bind_port takes over and frees ports of others.             *)
THEOREM PortsPublishedOnce == Spec => []PublishedOnce
  <1>1. IInv => PublishedOnce
    BY DEF IInv
  <1> QED BY <1>1, Invariance, PTL

(* A live process that signals a port uses the driver of its descriptor,   *)
(* unless a binder died between the two stores.                            *)
THEOREM DriversMatch == Spec => []SignalsItsDriver
  BY SignalsFollow, Invariance, PTL

(* The refusal of its driver in xseg_bind_dynport is the only way for a    *)
(* live process to come out of a call with the segment lock.               *)
THEOREM LockComesBack == Spec => []LockGivenUp
  <1>1. IInv => LockGivenUp
    BY DEF IInv
  <1> QED BY <1>1, Invariance, PTL
=============================================================================
