------------------------------- MODULE Ports -------------------------------
(***************************************************************************)
(* The ports of a segment and the table of its drivers (xseg.c): what      *)
(* xseg_bind_port, xseg_bind_dynport, xseg_leave_dynport, the enabling and *)
(* disabling of drivers do under the lock of the segment, and what is left *)
(* when a process dies in the middle of it and recoverlocks frees its      *)
(* lock.  A bind is three steps: it takes the lock and chooses a port, it  *)
(* gets a signal descriptor, it fills in the port.                         *)
(***************************************************************************)
EXTENDS Integers, Sequences

CONSTANTS Procs,
          DriverOf,       \* priv->peer_type of a process
          Drivers,
          Enables,        \* drivers a process enables and disables by name
          MaxTypes,       \* max_peer_types
          nr_ports,
          dynports,       \* the ports below are bound by number
          PortObjs,       \* the objects of port_h there is memory for
          MaxCrashes,     \* bound
          NULL

ASSUME PortsAssumption ==
         /\ DriverOf \in [Procs -> Drivers] /\ Enables \in [Procs -> SUBSET Drivers]
         /\ NULL \notin Procs \cup Drivers \cup PortObjs
         /\ nr_ports \in Nat /\ dynports \in Nat /\ dynports < nr_ports
         /\ MaxTypes \in Nat \ {0}

VARIABLES lock,      \* segment_lock
          types,     \* shared->peer_types, append-only
          cache,     \* priv->peer_types of the processes
          ports,     \* ports[]
          port,      \* the port objects
          free,      \* those free in port_h
          call,      \* where a process is in a bind
          mine,      \* the ports a process has been given, by number
          crashes,   \* how many have died
          nodata,    \* whether the heap has nothing for a new driver's data
          torn       \* ports whose binder died between descriptor and peer type

vars == <<lock, types, cache, ports, port, free, call, mine, crashes, nodata, torn>>

PortNos == 0..nr_ports-1
Dyn == dynports..nr_ports-1
Idle == [at |-> "idle"]
Dead == [at |-> "dead"]
Alive(p) == call[p].at # "dead"

(* xseg_alloc_port                                                         *)
FreshPort == [owner |-> NULL, portno |-> NULL, peer_type |-> 1, flags |-> FALSE, sd |-> NULL]

Init ==
    /\ lock = NULL
    /\ types = <<>>
    /\ cache = [p \in Procs |-> [i \in 1..MaxTypes |-> NULL]]
    /\ ports = [n \in PortNos |-> NULL]
    /\ port = [o \in PortObjs |-> FreshPort]
    /\ free = PortObjs
    /\ call = [p \in Procs |-> Idle]
    /\ mine = [p \in Procs |-> {}]
    /\ crashes = 0
    /\ nodata \in BOOLEAN
    /\ torn = {}

-----------------------------------------------------------------------------
Full == Len(types) >= MaxTypes
Known(d) == \E i \in DOMAIN types : types[i] = d

(* The table with d in it; a full one has no place even for those it has.  *)
Enabled(d) == ~Full /\ (Known(d) \/ ~nodata)

WithDriver(d) == IF Known(d) THEN types ELSE Append(types, d)

SerialOf(d) == CHOOSE i \in DOMAIN WithDriver(d) : WithDriver(d)[i] = d

__enable_driver(p, d) ==
    /\ types' = WithDriver(d)
    /\ cache' = [cache EXCEPT ![p][SerialOf(d)] = d]

xseg_enable_driver(p, d) ==
    /\ call[p] = Idle /\ lock = NULL
    /\ Enabled(d)
    /\ __enable_driver(p, d)
    /\ UNCHANGED <<lock, ports, port, free, call, mine, crashes, nodata, torn>>

xseg_disable_driver(p, d) ==
    /\ call[p] = Idle
    /\ cache' = [cache EXCEPT ![p] = [i \in 1..MaxTypes |-> IF @[i] = d THEN NULL ELSE @[i]]]
    /\ UNCHANGED <<lock, types, ports, port, free, call, mine, crashes, nodata, torn>>

(* __get_peer_type: what the process has cached, or what the table says.   *)
__get_peer_type(p, i) == IF cache[p][i] # NULL THEN cache[p][i] ELSE types[i]

-----------------------------------------------------------------------------
(* The first port that may be bound, NULL if there is none.                *)
FirstOf(ns) == IF ns = {} THEN NULL ELSE CHOOSE n \in ns : \A m \in ns : n <= m

Ownerless(n) == ports[n] = NULL \/ port[ports[n]].owner = NULL

(* Whoever has it.                                                         *)
DynBindable_owned == Dyn

DynBindable == {n \in Dyn : Ownerless(n)}

(* A number below dynports is forced, any other one asks for a free port.  *)
Bindable(req) ==
    IF req >= dynports THEN {n \in PortNos \ Dyn : ports[n] = NULL} ELSE {req}

(* Forgets the lock.                                                       *)
Fails_locked(p) ==
    /\ call' = [call EXCEPT ![p] = Idle]
    /\ UNCHANGED lock

(* A failed call: the lock is given up, the process goes on.               *)
Fails(p) ==
    /\ lock' = NULL
    /\ call' = [call EXCEPT ![p] = Idle]

(* xseg_bind_dynport returns with the lock when the driver is refused.     *)
DynRefused(p) ==
    /\ call[p] = Idle /\ lock = NULL
    /\ ~Enabled(DriverOf[p])
    /\ lock' = p
    /\ UNCHANGED <<types, cache, ports, port, free, call, mine, crashes, nodata, torn>>

(* The rest of a bind finds the port o chosen for number n.                *)
Chosen(p, dyn, n, o, fresh) ==
    call' = [call EXCEPT ![p] = [at |-> "sd", dyn |-> dyn, n |-> n, o |-> o, fresh |-> fresh,
                                 serial |-> SerialOf(DriverOf[p])]]

(* Keeps the descriptor of another driver.                                 *)
Abandoned_kept(x, serial) == x

(* The descriptor another driver has made for the port is let go.          *)
Abandoned(x, serial) == IF x.peer_type = serial THEN x ELSE [x EXCEPT !.sd = NULL]

(* xseg_bind_dynport publishes a fresh port at once.                       *)
bind_dynport(p) ==
    /\ call[p] = Idle /\ lock = NULL
    /\ Enabled(DriverOf[p])
    /\ __enable_driver(p, DriverOf[p])
    /\ \E n \in {FirstOf(DynBindable)} :
         IF n = NULL \/ (ports[n] = NULL /\ free = {})
         THEN UNCHANGED <<lock, call, ports, port, free>>
         ELSE /\ lock' = p
              /\ \E o \in IF ports[n] = NULL THEN free ELSE {ports[n]} :
                   /\ Chosen(p, TRUE, n, o, ports[n] = NULL)
                   /\ ports' = [ports EXCEPT ![n] = o]
                   /\ free' = free \ {o}
                   /\ port' = [port EXCEPT ![o] =
                                 IF ports[n] = NULL THEN FreshPort
                                 ELSE Abandoned(@, SerialOf(DriverOf[p]))]
    /\ UNCHANGED <<mine, crashes, nodata, torn>>

(* Leaves the freed port in its place.                                     *)
Unbind_published(n, o) ==
    /\ free' = free \cup {o}
    /\ UNCHANGED ports

(* xseg_free_port, and the number has no port any more.                    *)
Unbind(n, o) ==
    /\ free' = free \cup {o}
    /\ ports' = [ports EXCEPT ![n] = NULL]

(* xseg_bind_port: by number, even a port that somebody has, or any free   *)
(* one.  When the driver is refused the port is freed, whosever it was.    *)
bind_port(p, req) ==
    /\ call[p] = Idle /\ lock = NULL
    /\ \E n \in {FirstOf(Bindable(req))} :
         IF n = NULL \/ (ports[n] = NULL /\ free = {})
         THEN UNCHANGED <<lock, call, ports, port, free, types, cache>>
         ELSE \E o \in IF ports[n] = NULL THEN free ELSE {ports[n]} :
                /\ port' = [port EXCEPT ![o] = IF ports[n] = NULL THEN FreshPort ELSE @]
                /\ IF Enabled(DriverOf[p])
                   THEN /\ lock' = p
                        /\ __enable_driver(p, DriverOf[p])
                        /\ Chosen(p, FALSE, n, o, ports[n] = NULL)
                        /\ free' = free \ {o}
                        /\ UNCHANGED ports
                   ELSE /\ Unbind(n, o)
                        /\ UNCHANGED <<lock, call, types, cache>>
    /\ UNCHANGED <<mine, crashes, nodata, torn>>

(* A descriptor is there already, or is made, or is given by the caller of *)
(* xseg_bind_port; all are of the process's own driver.                    *)
GetSd(p) ==
    LET c == call[p] IN
    /\ c.at = "sd"
    /\ port' = [port EXCEPT ![c.o].sd = IF c.dyn /\ @ # NULL THEN @ ELSE DriverOf[p]]
    /\ torn' = IF c.dyn /\ port[c.o].sd # NULL THEN torn ELSE torn \ {c.o}
    /\ call' = [call EXCEPT ![p].at = "fill"]
    /\ UNCHANGED <<lock, types, cache, ports, free, mine, crashes, nodata>>

(* No memory for a descriptor, or it cannot be initialised.  A dynamic     *)
(* port that was there stays; the port of xseg_bind_port is freed, even    *)
(* one that had been bound before.                                         *)
NoSd(p) ==
    LET c == call[p] IN
    /\ c.at = "sd"
    /\ ~(c.dyn /\ port[c.o].sd # NULL)
    /\ IF c.fresh \/ ~c.dyn THEN Unbind(c.n, c.o) ELSE UNCHANGED <<free, ports>>
    /\ Fails(p)
    /\ UNCHANGED <<types, cache, port, mine, crashes, nodata, torn>>

Fill(p) ==
    LET c == call[p] IN
    /\ c.at = "fill"
    /\ port' = [port EXCEPT ![c.o].peer_type = c.serial, ![c.o].owner = p,
                            ![c.o].portno = c.n, ![c.o].flags = TRUE]
    /\ ports' = [ports EXCEPT ![c.n] = c.o]
    /\ mine' = [mine EXCEPT ![p] = @ \cup {c.n}]
    /\ lock' = NULL
    /\ call' = [call EXCEPT ![p] = Idle]
    /\ UNCHANGED <<types, cache, free, crashes, nodata, torn>>

xseg_leave_dynport(p, n) ==
    /\ call[p] = Idle /\ lock = NULL
    /\ n \in mine[p] \cap Dyn
    /\ port' = [port EXCEPT ![ports[n]].owner = NULL]
    /\ mine' = [mine EXCEPT ![p] = @ \ {n}]
    /\ UNCHANGED <<lock, types, cache, ports, free, call, crashes, nodata, torn>>

-----------------------------------------------------------------------------
Crash(p) ==
    /\ Alive(p) /\ crashes < MaxCrashes
    /\ crashes' = crashes + 1
    /\ torn' = IF call[p].at = "fill" THEN torn \cup {call[p].o} ELSE torn
    /\ call' = [call EXCEPT ![p] = Dead]
    /\ mine' = [mine EXCEPT ![p] = {}]
    /\ UNCHANGED <<lock, types, cache, ports, port, free, nodata>>

(* xseg-tool recoverlocks, for the pid of a dead process.                  *)
recoverlocks ==
    /\ lock # NULL
    /\ ~Alive(lock)
    /\ lock' = NULL
    /\ UNCHANGED <<types, cache, ports, port, free, call, mine, crashes, nodata, torn>>

Next ==
    \/ \E p \in Procs :
         \/ \E d \in Enables[p] : xseg_enable_driver(p, d) \/ xseg_disable_driver(p, d)
         \/ bind_dynport(p) \/ DynRefused(p)
         \/ \E req \in 0..dynports : bind_port(p, req)
         \/ GetSd(p) \/ NoSd(p) \/ Fill(p)
         \/ \E n \in Dyn : xseg_leave_dynport(p, n)
         \/ Crash(p)
    \/ recoverlocks

Spec == Init /\ [][Next]_vars
-----------------------------------------------------------------------------
(* A process that was given a dynamic port and has not left it finds itself *)
(* as its owner, and so nobody else has the port: whatever others bind,    *)
(* fail to bind, or leave half bound when they die.                        *)
DynportOwnedOnce ==
    \A p \in Procs : \A n \in mine[p] \cap Dyn :
       /\ ports[n] # NULL
       /\ port[ports[n]].owner = p
       /\ port[ports[n]].portno = n

(* No port object is in ports[] twice, or there and free as well, though a *)
(* forced bind takes over ports in use and a failed one frees them.        *)
PublishedOnce ==
    /\ \A n \in PortNos : ports[n] \notin free
    /\ \A n, m \in PortNos : ports[n] = ports[m] /\ ports[n] # NULL => n = m

(* Between the stores of a bind the two need not agree.                    *)
BeingFilled(o) == \E p \in Procs : call[p].at = "fill" /\ call[p].o = o

(* Whoever signals a published port finds, by its own cache or by the      *)
(* table of the segment, the driver that made the port's descriptor,       *)
(* however often the port has changed hands between drivers.  A binder     *)
(* that died between the stores of descriptor and peer type is beyond it.  *)
SignalsItsDriver ==
    \A q \in Procs, n \in PortNos :
       (Alive(q) /\ ports[n] \in PortObjs \ torn /\ ~BeingFilled(ports[n]))
         => (port[ports[n]].sd # NULL
               => __get_peer_type(q, port[ports[n]].peer_type) = port[ports[n]].sd)

(* The only process that has the segment lock when it is in no call is one *)
(* whose bind_dynport was refused, and the table of drivers still refuses  *)
(* it: every other way out of the calls gives the lock up.                 *)
LockGivenUp ==
    (lock # NULL /\ call[lock] = Idle) => ~Enabled(DriverOf[lock])
=============================================================================
