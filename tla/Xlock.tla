--------------------------------- MODULE Xlock ---------------------------------
(***************************************************************************)
(* One xlock (xlock.h), the word every shared structure of the segment is  *)
(* guarded by, with the processes that die while they have it and the      *)
(* command recoverlocks of xseg-tool that takes it from them.              *)
(***************************************************************************)
EXTENDS Naturals

CONSTANTS Threads,
          PidOf,        \* the pid of a thread's process
          PidMod,       \* 2^PID_BITS: the owner word keeps pid % PidMod
          NoOne,        \* XLOCK_NOONE
          NoPid

Pids == {PidOf[t] : t \in Threads}

ASSUME PidsAssumption == /\ PidOf \in [Threads -> Nat] /\ PidMod \in Nat \ {0}
                         /\ NoPid \notin Nat

(* The pid and the tid of the owner word; its pc tells nobody apart.       *)
Owners == [pid : 0..PidMod-1, tid : Threads]

ASSUME NoOneIsNoOwner == NoOne \notin Owners

VARIABLES owner,        \* the lock
          pc,           \* where each thread is
          dead,         \* pids of processes that have crashed
          rec           \* the pid recoverlocks is about to unlock for

lockVars == <<owner, pc, dead, rec>>

LockInit == /\ owner = NoOne
            /\ pc = [t \in Threads |-> "out"]
            /\ dead = {}
            /\ rec = NoPid

Runs(t) == PidOf[t] \notin dead

Goto(t, l) == pc' = [pc EXCEPT ![t] = l]

(* The pid shifted once too often.                                         *)
xlock_pack_owner_shifted(t) == [pid |-> PidOf[t] * PidMod, tid |-> t]

xlock_pack_owner(t) == [pid |-> PidOf[t] % PidMod, tid |-> t]

-----------------------------------------------------------------------------
(* xlock_acquire: spin until the lock looks free, then compare and swap;   *)
(* when somebody was faster, spin again.                                   *)

Acquire(t) == /\ Runs(t) /\ pc[t] = "out"
              /\ Goto(t, "spin")
              /\ UNCHANGED <<owner, dead, rec>>

Spin(t) == /\ Runs(t) /\ pc[t] = "spin" /\ owner = NoOne
           /\ Goto(t, "cas")
           /\ UNCHANGED <<owner, dead, rec>>

(* A plain store in place of the compare and swap.                         *)
CompareAndSwap_store(t) ==
    /\ Runs(t) /\ pc[t] = "cas"
    /\ owner' = xlock_pack_owner(t) /\ Goto(t, "in")
    /\ UNCHANGED <<dead, rec>>

CompareAndSwap(t) ==
    /\ Runs(t) /\ pc[t] = "cas"
    /\ IF owner = NoOne THEN owner' = xlock_pack_owner(t) /\ Goto(t, "in")
                        ELSE Goto(t, "spin") /\ UNCHANGED owner
    /\ UNCHANGED <<dead, rec>>

(* xlock_try_lock: a compare and swap that fails ends it, so that only the *)
(* one that succeeds is a step.                                            *)
TryLock(t) == /\ Runs(t) /\ pc[t] = "out" /\ owner = NoOne
              /\ owner' = xlock_pack_owner(t)
              /\ Goto(t, "in")
              /\ UNCHANGED <<dead, rec>>

Release(t) == /\ Runs(t) /\ pc[t] = "in"
              /\ owner' = NoOne
              /\ Goto(t, "out")
              /\ UNCHANGED <<dead, rec>>

(* A process dies wherever its threads are.                                *)
Crash(p) == /\ p \notin dead
            /\ dead' = dead \cup {p}
            /\ UNCHANGED <<owner, pc, rec>>

-----------------------------------------------------------------------------
(* check_and_unlock of xseg-tool, called for a process known to be dead:   *)
(* the comparison, then xlock_release.                                     *)

(* Any owner will do.                                                      *)
Check_any(p) == /\ rec = NoPid /\ p \in dead
                /\ owner # NoOne
                /\ rec' = p
                /\ UNCHANGED <<owner, pc, dead>>

Check(p) == /\ rec = NoPid /\ p \in dead
            /\ owner # NoOne /\ owner.pid = p
            /\ rec' = p
            /\ UNCHANGED <<owner, pc, dead>>

(* Forgets to unlock.                                                      *)
Unlock_not == rec # NoPid /\ rec' = NoPid /\ UNCHANGED <<owner, pc, dead>>

Unlock == /\ rec # NoPid
          /\ owner' = NoOne
          /\ rec' = NoPid
          /\ UNCHANGED <<pc, dead>>

-----------------------------------------------------------------------------
LockNext == \/ \E t \in Threads : \/ Acquire(t) \/ Spin(t) \/ CompareAndSwap(t)
                                  \/ TryLock(t) \/ Release(t)
            \/ \E p \in Pids : Crash(p) \/ Check(p)
            \/ Unlock

(* Who is in leaves, and somebody runs recoverlocks for every process that *)
(* died.                                                                   *)
Fairness == /\ \A t \in Threads : WF_lockVars(Release(t))
            /\ \A p \in Pids : WF_lockVars(Check(p))
            /\ WF_lockVars(Unlock)

LockSpec == LockInit /\ [][LockNext]_lockVars /\ Fairness

-----------------------------------------------------------------------------
(* Properties.                                                             *)

TypeOK == /\ owner \in Owners \cup {NoOne}
          /\ pc \in [Threads -> {"out", "spin", "cas", "in"}]
          /\ dead \subseteq Pids
          /\ rec \in Pids \cup {NoPid}

(* Of all threads of processes that live, one at most has the lock, even   *)
(* though recoverlocks takes it from the dead at any moment.               *)
Mutex == \A t, u \in Threads : Runs(t) /\ Runs(u) /\ pc[t] = "in" /\ pc[u] = "in" => t = u

(* A lock, whoever died with it, comes free again and again.               *)
ComesFree == []<>(owner = NoOne)

(* What recoverlocks prints of the lock it unlocks, "locked by" the given  *)
(* pid, is so.                                                             *)
LockedByNamed == rec # NoPid => owner # NoOne /\ PidOf[owner.tid] = rec
=============================================================================
