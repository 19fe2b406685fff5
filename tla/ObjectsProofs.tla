--------------------------- MODULE ObjectsProofs ---------------------------
(***************************************************************************)
(* Two proofs.  That an xlock, under crashes and recoverlocks, has one     *)
(* live thread inside at most, which is what lets Objects take a call      *)
(* under the lock of the heap, or of a handler, for one step.  And that    *)
(* those calls keep the memory of the segment together: whichever of the   *)
(* allocations of a call fails, no chunk, object or buffer is lost or      *)
(* shared.                                                                 *)
(***************************************************************************)
EXTENDS Xlock, Objects, FiniteSetTheorems, FunctionTheorems, SequenceTheorems, TLAPS

-----------------------------------------------------------------------------
(* The lock                                                                *)

(* No pid is the low bits of another one.                                  *)
PidsTold == \A p, q \in Pids : q % PidMod = p => p = q

(* Who is in, if it lives, is in the owner word.                           *)
InOwns == \A t \in Threads : Runs(t) /\ pc[t] = "in" => owner # NoOne /\ owner.tid = t

(* The owner word is that of a thread.                                     *)
OwnerPacked == owner # NoOne => owner = xlock_pack_owner(owner.tid)

(* recoverlocks, once past its comparison, has a dead owner before it.     *)
UnlocksDead == rec # NoPid => /\ rec \in dead /\ owner # NoOne
                              /\ PidOf[owner.tid] = rec

LockInv == TypeOK /\ InOwns /\ OwnerPacked /\ UnlocksDead

(* What a lock taken looks like.                                           *)
LEMMA PackLemma ==
    ASSUME NEW t \in Threads
    PROVE  /\ xlock_pack_owner(t) \in Owners /\ xlock_pack_owner(t) # NoOne
           /\ xlock_pack_owner(t).tid = t
           /\ xlock_pack_owner(t).pid = PidOf[t] % PidMod
           /\ PidOf[t] \in Pids
  BY PidsAssumption, NoOneIsNoOwner DEF xlock_pack_owner, Owners, Pids

LEMMA InitLockInv == LockInit => LockInv
  BY PidsAssumption DEF LockInit, LockInv, TypeOK, InOwns, OwnerPacked, UnlocksDead

(* Each step keeps the invariant.                                          *)
LEMMA NextLockInv ==
    ASSUME PidsTold, LockInv, [LockNext]_lockVars
    PROVE  LockInv'
  <1> USE DEF LockInv, TypeOK, InOwns, OwnerPacked, UnlocksDead, Runs
  <1>1. ASSUME NEW t \in Threads, Acquire(t) \/ Spin(t) PROVE LockInv'
    BY <1>1 DEF Acquire, Spin, Goto, xlock_pack_owner
  <1>2. ASSUME NEW t \in Threads, Runs(t), owner = NoOne, owner' = xlock_pack_owner(t),
               Goto(t, "in"), UNCHANGED <<dead, rec>>
        PROVE  LockInv'
    <2>1. TypeOK'
      BY <1>2, PackLemma DEF Goto
    <2>2. InOwns'
      BY <1>2, PackLemma DEF Goto
    <2>3. OwnerPacked' /\ UnlocksDead'
      BY <1>2, PackLemma DEF xlock_pack_owner
    <2> QED BY <2>1, <2>2, <2>3
  <1>3. ASSUME NEW t \in Threads, CompareAndSwap(t) PROVE LockInv'
    <2>1. CASE owner = NoOne
      BY <1>2, <1>3, <2>1 DEF CompareAndSwap
    <2>2. CASE owner # NoOne
      BY <1>3, <2>2 DEF CompareAndSwap, Goto, xlock_pack_owner
    <2> QED BY <2>1, <2>2
  <1>4. ASSUME NEW t \in Threads, TryLock(t) PROVE LockInv'
    BY <1>2, <1>4 DEF TryLock
  <1>5. ASSUME NEW t \in Threads, Release(t) PROVE LockInv'
    BY <1>5 DEF Release, Goto
  <1>6. ASSUME NEW p \in Pids, Crash(p) PROVE LockInv'
    BY <1>6 DEF Crash, xlock_pack_owner
  <1>7. ASSUME NEW p \in Pids, Check(p) PROVE LockInv'
    <2>1. owner.tid \in Threads /\ owner.pid = PidOf[owner.tid] % PidMod
      BY <1>7, PackLemma DEF Check, Owners
    <2>2. PidOf[owner.tid] = p
      BY <1>7, <2>1, PackLemma DEF Check, PidsTold
    <2> QED BY <1>7, <2>2 DEF Check, xlock_pack_owner
  <1>8. CASE Unlock
    BY <1>8 DEF Unlock
  <1>9. CASE UNCHANGED lockVars
    BY <1>9 DEF lockVars, xlock_pack_owner
  <1> QED BY <1>1, <1>3, <1>4, <1>5, <1>6, <1>7, <1>8, <1>9 DEF LockNext

(* Of all threads that live one at most has the lock.                      *)
THEOREM MutualExclusion ==
    ASSUME PidsTold
    PROVE  LockSpec => []Mutex
  <1>1. LockInv => Mutex
    BY DEF LockInv, InOwns, Mutex
  <1>2. LockInv /\ [LockNext]_lockVars => LockInv'
    BY NextLockInv
  <1> QED BY <1>1, <1>2, InitLockInv, PTL DEF LockSpec

(* recoverlocks unlocks what the process it was given the pid of has.      *)
THEOREM RecoversTheNamed ==
    ASSUME PidsTold
    PROVE  LockSpec => []LockedByNamed
  <1>1. LockInv => LockedByNamed
    BY DEF LockInv, UnlocksDead, LockedByNamed
  <1>2. LockInv /\ [LockNext]_lockVars => LockInv'
    BY NextLockInv
  <1> QED BY <1>1, <1>2, InitLockInv, PTL DEF LockSpec

-----------------------------------------------------------------------------
(* Sizes and indices of chunks                                             *)
LEMMA PageType ==
    /\ heap_page \in Nat /\ heap_page > 0 /\ HeaderSize \in 1..heap_page
    /\ PtrSize \in Nat /\ PtrSize > 0 /\ 3 * PtrSize <= heap_page
    /\ HeapSize \in Nat
<1>1. 2 ^ alignment_unit \in Int
  BY ObjectsAssumption
<1> QED
  BY <1>1, ObjectsAssumption DEF heap_page

LEMMA Limits ==
    /\ 2 ^ SMALL_LIMIT = 32 /\ 2 ^ MEDIUM_LIMIT = 1024
    /\ 2 ^ MEDIUM_AL_UNIT = 4 /\ 2 ^ LARGE_AL_UNIT = 128
    /\ 2 ^ (SMALL_LIMIT - MEDIUM_AL_UNIT) = 8
    /\ 2 ^ (MEDIUM_LIMIT - (LARGE_AL_UNIT - MEDIUM_AL_UNIT)) = 32
<1>1. SMALL_LIMIT = 5 /\ MEDIUM_LIMIT = 10 /\ MEDIUM_AL_UNIT = 2 /\ LARGE_AL_UNIT = 7
  BY DEF SMALL_LIMIT, MEDIUM_LIMIT, MEDIUM_AL_UNIT, LARGE_AL_UNIT
<1>2. 2^5 = 32 /\ 2^10 = 1024 /\ 2^2 = 4 /\ 2^7 = 128 /\ 2^3 = 8
  OBVIOUS
<1> QED
  BY <1>1, <1>2

(* Division by a positive number.                                          *)
LEMMA DivLemma ==
    ASSUME NEW a \in Nat, NEW u \in Nat, u > 0
    PROVE  /\ a \div u \in Nat
           /\ (a \div u) * u <= a /\ a < (a \div u) * u + u
  OBVIOUS

LEMMA DivIs ==
    ASSUME NEW a \in Nat, NEW u \in Nat, u > 0, NEW k \in Nat, k * u <= a, a < k * u + u
    PROVE  a \div u = k
  OBVIOUS

LEMMA LessTimes ==
    ASSUME NEW u \in Nat, u > 0, NEW j \in Int, NEW k \in Int, j * u < k * u
    PROVE  j < k
  OBVIOUS

(* __align rounds up to the next multiple.                                 *)
LEMMA AlignLemma ==
    ASSUME NEW x \in Nat, x > 0, NEW u \in Nat, u > 0
    PROVE  \E k \in Nat : /\ k > 0 /\ __align(x, u) = k * u
                          /\ x <= k * u /\ k * u < x + u
<1> DEFINE d == (x - 1) \div u
<1>1. x - 1 \in Nat
  OBVIOUS
<1>2. d \in Nat /\ d * u <= x - 1 /\ x - 1 < d * u + u
  BY <1>1, DivLemma
<1>3. (d + 1) * u = d * u + u
  BY <1>2
<1>4. __align(x, u) = (d + 1) * u
  BY DEF __align
<1> HIDE DEF d
<1> QED
  BY <1>2, <1>3, <1>4

(* The three ways of rounding: to pages, to 4 and to 128 of them.          *)
Rounded(b, n, k) ==
    /\ k \in Nat /\ ChunkBytes(b) = k * (n * heap_page) - HeaderSize
    /\ b + HeaderSize <= k * (n * heap_page)
    /\ k * (n * heap_page) < b + HeaderSize + n * heap_page

LEMMA RoundedLemma ==
    ASSUME NEW b \in Nat
    PROVE  \E k \in Nat :
             \/ b < 32 * heap_page /\ k \in 1..33 /\ Rounded(b, 1, k)
             \/ /\ 32 * heap_page <= b /\ b < 1024 * heap_page
                /\ k \in 9..257 /\ Rounded(b, 4, k)
             \/ 1024 * heap_page <= b /\ k >= 9 /\ Rounded(b, 128, k)
<1> DEFINE U == heap_page
           x == b + HeaderSize
<1>1. U \in Nat /\ U > 0 /\ HeaderSize \in 1..U /\ x \in Nat /\ x > 0 /\ x = b + HeaderSize
  BY PageType
<1>2. /\ Small(b) <=> b < 32 * U
      /\ Medium(b) <=> 32 * U <= b /\ b < 1024 * U
  BY <1>1, Limits DEF Small, Medium
<1>3. CASE b < 32 * U
  <2>1. ChunkBytes(b) = __align(x, U) - HeaderSize
    <3>1. Small(b) /\ ~Medium(b)
      BY <1>2, <1>3 DEF Medium
    <3> QED
      BY <3>1 DEF ChunkBytes, __get_alloc_bytes
  <2>2. PICK k \in Nat : k > 0 /\ __align(x, U) = k * U /\ x <= k * U /\ k * U < x + U
    BY <1>1, AlignLemma
  <2>3. k * U < 34 * U
    BY <1>1, <1>3, <2>2
  <2>4. k < 34
    BY <1>1, <2>2, <2>3, LessTimes
  <2>5. 1 * U = U
    BY <1>1
  <2>6. k \in 1..33
    BY <2>2, <2>4
  <2>7. Rounded(b, 1, k)
    BY <2>1, <2>2, <2>5 DEF Rounded
  <2> QED
    BY <1>3, <2>6, <2>7
<1>4. CASE 32 * U <= b /\ b < 1024 * U
  <2> DEFINE V == 4 * U
  <2>0. V \in Nat /\ V > 0
    BY <1>1
  <2>1. ChunkBytes(b) = __align(x, V) - HeaderSize
    <3>1. ~Small(b) /\ Medium(b)
      BY <1>1, <1>2, <1>4
    <3>2. heap_page * 2 ^ MEDIUM_AL_UNIT = V
      BY <1>1, Limits
    <3> QED
      BY <3>1, <3>2 DEF ChunkBytes, __get_alloc_bytes
  <2>2. PICK k \in Nat : k > 0 /\ __align(x, V) = k * V /\ x <= k * V /\ k * V < x + V
    BY <1>1, <2>0, AlignLemma
  <2>3. 8 * V < k * V /\ k * V < 258 * V
    BY <1>1, <1>4, <2>0, <2>2
  <2>4. 8 < k /\ k < 258
    <3> HIDE DEF V
    <3> QED
      BY <2>0, <2>2, <2>3, LessTimes
  <2>5. k \in 9..257
    BY <2>2, <2>4
  <2>6. Rounded(b, 4, k)
    BY <2>1, <2>2 DEF Rounded
  <2> QED
    BY <1>4, <2>5, <2>6
<1>5. CASE 1024 * U <= b
  <2> DEFINE V == 128 * U
  <2>0. V \in Nat /\ V > 0
    BY <1>1
  <2>1. ChunkBytes(b) = __align(x, V) - HeaderSize
    <3>1. ~Small(b) /\ ~Medium(b)
      BY <1>1, <1>2, <1>5
    <3>2. heap_page * 2 ^ LARGE_AL_UNIT = V
      BY <1>1, Limits
    <3> QED
      BY <3>1, <3>2 DEF ChunkBytes, __get_alloc_bytes
  <2>2. PICK k \in Nat : k > 0 /\ __align(x, V) = k * V /\ x <= k * V /\ k * V < x + V
    BY <1>1, <2>0, AlignLemma
  <2>3. 8 * V < k * V
    BY <1>1, <1>5, <2>0, <2>2
  <2>4. 8 < k
    <3> HIDE DEF V
    <3> QED
      BY <2>0, <2>2, <2>3, LessTimes
  <2>6. Rounded(b, 128, k)
    BY <2>1, <2>2 DEF Rounded
  <2> QED
    BY <1>5, <2>4, <2>6
<1> QED
  BY <1>1, <1>3, <1>4, <1>5

(* The index of a size, by where the size lies.                            *)
LEMMA IndexLemma ==
    ASSUME NEW s \in Nat, NEW k \in Nat
    PROVE  /\ (s < 32 * heap_page /\ k * heap_page <= s /\ s < k * heap_page + heap_page)
                => IndexOf(s) = k
           /\ (32 * heap_page <= s /\ s < 1024 * heap_page
               /\ k * (4 * heap_page) <= s /\ s < k * (4 * heap_page) + 4 * heap_page)
                => IndexOf(s) = 24 + k
           /\ (1024 * heap_page <= s
               /\ k * (128 * heap_page) <= s /\ s < k * (128 * heap_page) + 128 * heap_page)
                => IndexOf(s) = 1016 + k
<1> DEFINE U == heap_page
<1>1. U \in Nat /\ U > 0
  BY PageType
<1>2. /\ Small(s) <=> s < 32 * U
      /\ Medium(s) <=> 32 * U <= s /\ s < 1024 * U
  BY <1>1, Limits DEF Small, Medium
<1>3. heap_page * 2 ^ MEDIUM_AL_UNIT = 4 * U /\ heap_page * 2 ^ LARGE_AL_UNIT = 128 * U
  BY <1>1, Limits
<1>4. Small(s) => IndexOf(s) = s \div U
  <2>1. Small(s) => ~Medium(s)
    BY DEF Medium
  <2> QED
    BY <2>1 DEF IndexOf
<1>5. Medium(s) => IndexOf(s) = 24 + s \div (4 * U)
  <2>1. Medium(s) => ~Small(s)
    BY DEF Medium
  <2>2. s \div (4 * U) \in Nat
    BY <1>1, DivLemma
  <2> QED
    BY <2>1, <2>2, <1>3, Limits DEF IndexOf
<1>6. ~Small(s) /\ ~Medium(s) => IndexOf(s) = 1016 + s \div (128 * U)
  <2>2. s \div (128 * U) \in Nat
    BY <1>1, DivLemma
  <2> QED
    BY <2>2, <1>3, Limits DEF IndexOf
<1>7. /\ k * U <= s /\ s < k * U + U => s \div U = k
      /\ k * (4 * U) <= s /\ s < k * (4 * U) + 4 * U => s \div (4 * U) = k
      /\ k * (128 * U) <= s /\ s < k * (128 * U) + 128 * U => s \div (128 * U) = k
  <2>1. 4 * U \in Nat /\ 4 * U > 0 /\ 128 * U \in Nat /\ 128 * U > 0
    BY <1>1
  <2> HIDE DEF U
  <2> QED
    BY <1>1, <2>1, DivIs
<1>8. 1024 * U <= s => ~Small(s) /\ ~Medium(s)
  BY <1>1, <1>2
<1>9. s < 32 * U /\ k * U <= s /\ s < k * U + U => IndexOf(s) = k
  BY <1>2, <1>4, <1>7
<1>10. 32 * U <= s /\ s < 1024 * U /\ k * (4 * U) <= s /\ s < k * (4 * U) + 4 * U
         => IndexOf(s) = 24 + k
  BY <1>2, <1>5, <1>7
<1>11. 1024 * U <= s /\ k * (128 * U) <= s /\ s < k * (128 * U) + 128 * U
         => IndexOf(s) = 1016 + k
  BY <1>6, <1>7, <1>8
<1> QED
  BY <1>9, <1>10, <1>11

(* What ChunkBytes and __get_index make of a request.                      *)
Sized(b, s, r) ==
    \E k \in Nat :
       \/ k \in 1..32 /\ s = k * heap_page - HeaderSize /\ r = k - 1
       \/ b < 32 * heap_page /\ s = 33 * heap_page - HeaderSize /\ r = 32
       \/ k \in 9..256 /\ s = k * (4 * heap_page) - HeaderSize /\ r = 23 + k
       \/ b < 1024 * heap_page /\ s = 257 * (4 * heap_page) - HeaderSize /\ r = 1024
       \/ k >= 9 /\ s = k * (128 * heap_page) - HeaderSize /\ r = 1015 + k

LEMMA SizedLemma ==
    ASSUME NEW b \in Nat
    PROVE  /\ ChunkBytes(b) \in Nat /\ b <= ChunkBytes(b)
           /\ heap_page <= ChunkBytes(b) + HeaderSize
           /\ __get_index(b) \in Nat
           /\ Sized(b, ChunkBytes(b), __get_index(b))
<1> DEFINE U == heap_page
           H == HeaderSize
           s == ChunkBytes(b)
<1>1. U \in Nat /\ U > 0 /\ H \in 1..U
  BY PageType
<1>2. PICK k \in Nat :
             \/ b < 32 * heap_page /\ k \in 1..33 /\ Rounded(b, 1, k)
             \/ /\ 32 * heap_page <= b /\ b < 1024 * heap_page
                /\ k \in 9..257 /\ Rounded(b, 4, k)
             \/ 1024 * heap_page <= b /\ k >= 9 /\ Rounded(b, 128, k)
  BY RoundedLemma
<1>3. __get_index(b) = IndexOf(s)
  BY DEF __get_index
<1>4. CASE b < 32 * U /\ k \in 1..33 /\ Rounded(b, 1, k)
  <2>1. s = k * U - H /\ b + H <= k * U
    <3>1. 1 * U = U
      BY <1>1
    <3> QED
      BY <1>4, <3>1 DEF Rounded
  <2>2. k * U \in Nat /\ U <= k * U
    BY <1>1, <1>4
  <2>3. s \in Nat /\ b <= s /\ U <= s + H
    BY <1>1, <2>1, <2>2
  <2>4. CASE k <= 32
    <3>1. k - 1 \in Nat /\ (k - 1) * U = k * U - U
      BY <1>1, <1>4
    <3>2. k * U <= 32 * U
      BY <1>1, <2>4
    <3>3. s < 32 * U /\ (k - 1) * U <= s /\ s < (k - 1) * U + U
      BY <1>1, <2>1, <2>2, <3>1, <3>2
    <3>4. IndexOf(s) = k - 1
      BY <2>3, <3>1, <3>3, IndexLemma
    <3> QED
      BY <1>3, <1>4, <2>1, <2>3, <2>4, <3>1, <3>4 DEF Sized
  <2>5. CASE k = 33
    <3>1. s = 33 * U - H
      BY <2>1, <2>5
    <3>2. /\ 32 * U <= s /\ s < 1024 * U
          /\ 8 * (4 * U) <= s /\ s < 8 * (4 * U) + 4 * U
      BY <1>1, <3>1
    <3>3. IndexOf(s) = 24 + 8
      BY <2>3, <3>2, IndexLemma
    <3> QED
      BY <1>3, <1>4, <2>3, <3>1, <3>3 DEF Sized
  <2> QED
    BY <1>4, <2>4, <2>5
<1>5. CASE /\ 32 * U <= b /\ b < 1024 * U
           /\ k \in 9..257 /\ Rounded(b, 4, k)
  <2> DEFINE V == 4 * U
  <2>1. s = k * V - H /\ b + H <= k * V
    BY <1>5 DEF Rounded
  <2>2. V \in Nat /\ V > 0 /\ V >= U /\ k * V \in Nat /\ V <= k * V
    BY <1>1, <1>5
  <2>3. s \in Nat /\ b <= s /\ U <= s + H
    BY <1>1, <2>1, <2>2
  <2>4. CASE k <= 256
    <3>1. k - 1 \in Nat /\ (k - 1) * V = k * V - V
      BY <2>2, <1>5
    <3>2. k * V <= 256 * V
      BY <2>2, <2>4
    <3>3. 32 * U <= s /\ s < 1024 * U /\ (k - 1) * V <= s /\ s < (k - 1) * V + V
      BY <1>1, <1>5, <2>1, <2>2, <2>3, <3>1, <3>2
    <3>4. IndexOf(s) = 24 + (k - 1)
      BY <2>3, <3>1, <3>3, IndexLemma
    <3>5. 24 + (k - 1) = 23 + k /\ k \in 9..256
      BY <1>5, <2>4
    <3> QED
      BY <1>3, <2>1, <2>3, <3>4, <3>5 DEF Sized
  <2>5. CASE k = 257
    <3>1. s = 257 * V - H
      BY <2>1, <2>5
    <3>2. 1024 * U <= s /\ 8 * (128 * U) <= s /\ s < 8 * (128 * U) + 128 * U
      BY <1>1, <3>1
    <3>3. IndexOf(s) = 1016 + 8
      BY <2>3, <3>2, IndexLemma
    <3> QED
      BY <1>3, <1>5, <2>3, <3>1, <3>3 DEF Sized
  <2> QED
    BY <1>5, <2>4, <2>5
<1>6. CASE 1024 * U <= b /\ k >= 9 /\ Rounded(b, 128, k)
  <2> DEFINE V == 128 * U
  <2>1. s = k * V - H /\ b + H <= k * V
    BY <1>6 DEF Rounded
  <2>2. V \in Nat /\ V > 0 /\ V >= U /\ k * V \in Nat /\ V <= k * V
    BY <1>1, <1>6
  <2>3. s \in Nat /\ b <= s /\ U <= s + H
    BY <1>1, <2>1, <2>2
  <2>4. k - 1 \in Nat /\ (k - 1) * V = k * V - V
    BY <2>2, <1>6
  <2>5. 1024 * U <= s /\ (k - 1) * V <= s /\ s < (k - 1) * V + V
    BY <1>1, <1>6, <2>1, <2>2, <2>3, <2>4
  <2>6. IndexOf(s) = 1016 + (k - 1)
    BY <2>3, <2>4, <2>5, IndexLemma
  <2>7. 1016 + (k - 1) = 1015 + k
    OBVIOUS
  <2> QED
    BY <1>3, <1>6, <2>1, <2>3, <2>6, <2>7 DEF Sized
<1> QED
  BY <1>2, <1>4, <1>5, <1>6

(* The list of the chunks of p pages.                                      *)
PageList(p, r) ==
    \/ p \in 1..32 /\ r = p - 1
    \/ p = 33 /\ r = 32
    \/ r \in 32..279 /\ p = 4 * (r - 23)
    \/ p = 1028 /\ r = 1024
    \/ r \in Nat /\ r >= 1024 /\ p = 128 * (r - 1015)

LEMMA PagesLemma ==
    ASSUME NEW b \in Nat
    PROVE  \E p \in Nat : /\ ChunkBytes(b) = p * heap_page - HeaderSize
                          /\ PageList(p, __get_index(b))
<1> DEFINE U == heap_page
           s == ChunkBytes(b)
           r == __get_index(b)
<1>1. U \in Nat /\ U > 0
  BY PageType
<1>2. Sized(b, s, r) /\ r \in Nat
  BY SizedLemma
<1>3. PICK k \in Nat :
       \/ k \in 1..32 /\ s = k * heap_page - HeaderSize /\ r = k - 1
       \/ b < 32 * heap_page /\ s = 33 * heap_page - HeaderSize /\ r = 32
       \/ k \in 9..256 /\ s = k * (4 * heap_page) - HeaderSize /\ r = 23 + k
       \/ b < 1024 * heap_page /\ s = 257 * (4 * heap_page) - HeaderSize /\ r = 1024
       \/ k >= 9 /\ s = k * (128 * heap_page) - HeaderSize /\ r = 1015 + k
  BY <1>2 DEF Sized
<1>4. k * (4 * U) = (4 * k) * U /\ k * (128 * U) = (128 * k) * U /\ 257 * (4 * U) = 1028 * U
  BY <1>1
<1>5. CASE k \in 1..32 /\ s = k * U - HeaderSize /\ r = k - 1
  BY <1>5 DEF PageList
<1>6. CASE s = 33 * U - HeaderSize /\ r = 32
  BY <1>6 DEF PageList
<1>7. CASE k \in 9..256 /\ s = k * (4 * U) - HeaderSize /\ r = 23 + k
  <2>1. s = (4 * k) * U - HeaderSize
    BY <1>4, <1>7
  <2>2. PageList(4 * k, r)
    BY <1>7 DEF PageList
  <2>3. 4 * k \in Nat
    OBVIOUS
  <2> QED
    BY <2>1, <2>2, <2>3
<1>8. CASE s = 257 * (4 * U) - HeaderSize /\ r = 1024
  BY <1>4, <1>8 DEF PageList
<1>9. CASE k >= 9 /\ s = k * (128 * U) - HeaderSize /\ r = 1015 + k
  <2>1. s = (128 * k) * U - HeaderSize
    BY <1>4, <1>9
  <2>2. PageList(128 * k, r)
    BY <1>9 DEF PageList
  <2>3. 128 * k \in Nat
    OBVIOUS
  <2> QED
    BY <2>1, <2>2, <2>3
<1> QED
  BY <1>3, <1>5, <1>6, <1>7, <1>8, <1>9

LEMMA PageListLemma ==
    ASSUME NEW p \in Nat, NEW q \in Nat, NEW r \in Nat, NEW s \in Nat,
           PageList(p, r), PageList(q, s)
    PROVE  /\ p <= q => r <= s
           /\ r = s /\ r \notin {32, 1024} => p = q
  BY DEF PageList

(* A larger request, a larger chunk.                                       *)
LEMMA ChunkBytesGrow ==
    ASSUME NEW a \in Nat, NEW b \in Nat, a <= b
    PROVE  ChunkBytes(a) <= ChunkBytes(b)
<1> DEFINE U == heap_page
           H == HeaderSize
<1>1. U \in Nat /\ U > 0 /\ H \in 1..U
  BY PageType
<1>2. PICK j \in Nat :
             \/ a < 32 * heap_page /\ j \in 1..33 /\ Rounded(a, 1, j)
             \/ /\ 32 * heap_page <= a /\ a < 1024 * heap_page
                /\ j \in 9..257 /\ Rounded(a, 4, j)
             \/ 1024 * heap_page <= a /\ j >= 9 /\ Rounded(a, 128, j)
  BY RoundedLemma
<1>3. PICK k \in Nat :
             \/ b < 32 * heap_page /\ k \in 1..33 /\ Rounded(b, 1, k)
             \/ /\ 32 * heap_page <= b /\ b < 1024 * heap_page
                /\ k \in 9..257 /\ Rounded(b, 4, k)
             \/ 1024 * heap_page <= b /\ k >= 9 /\ Rounded(b, 128, k)
  BY RoundedLemma
<1>4. ASSUME NEW n \in Nat, n > 0, Rounded(a, n, j), Rounded(b, n, k)
      PROVE  ChunkBytes(a) <= ChunkBytes(b)
  <2> DEFINE V == n * U
  <2>1. V \in Nat /\ V > 0
    BY <1>1, <1>4
  <2>2. /\ ChunkBytes(a) = j * V - H /\ j * V < a + H + V
        /\ ChunkBytes(b) = k * V - H /\ b + H <= k * V
    BY <1>4 DEF Rounded
  <2> HIDE DEF V
  <2>3. j * V < (k + 1) * V
    BY <1>1, <2>1, <2>2
  <2>4. j <= k
    BY <2>1, <2>3, LessTimes
  <2>5. j * V <= k * V
    BY <2>1, <2>4
  <2> QED
    BY <1>1, <2>1, <2>2, <2>5
<1>5. /\ j \in 1..33 /\ Rounded(a, 1, j) => ChunkBytes(a) <= 33 * U - H
      /\ j \in 9..257 /\ Rounded(a, 4, j) => ChunkBytes(a) <= 1028 * U - H
  BY <1>1 DEF Rounded
<1>6. /\ k \in 9..257 /\ Rounded(b, 4, k) => 36 * U - H <= ChunkBytes(b)
      /\ k >= 9 /\ Rounded(b, 128, k) => 1152 * U - H <= ChunkBytes(b)
  BY <1>1 DEF Rounded
<1>7. ChunkBytes(a) \in Nat /\ ChunkBytes(b) \in Nat
  BY SizedLemma
<1>8. CASE a < 32 * U /\ j \in 1..33 /\ Rounded(a, 1, j)
  BY <1>1, <1>3, <1>4, <1>5, <1>6, <1>7, <1>8
<1>9. CASE /\ 32 * heap_page <= a /\ a < 1024 * heap_page
           /\ j \in 9..257 /\ Rounded(a, 4, j)
  BY <1>1, <1>3, <1>4, <1>5, <1>6, <1>7, <1>9
<1>10. CASE 1024 * heap_page <= a /\ j >= 9 /\ Rounded(a, 128, j)
  BY <1>1, <1>3, <1>4, <1>7, <1>10
<1> QED
  BY <1>2, <1>8, <1>9, <1>10

LEMMA IndexGrows ==
    ASSUME NEW a \in Nat, NEW b \in Nat, a <= b
    PROVE  __get_index(a) <= __get_index(b)
<1>1. heap_page \in Nat /\ heap_page > 0 /\ HeaderSize \in Nat
  BY PageType
<1>2. PICK p \in Nat : ChunkBytes(a) = p * heap_page - HeaderSize /\ PageList(p, __get_index(a))
  BY PagesLemma
<1>3. PICK q \in Nat : ChunkBytes(b) = q * heap_page - HeaderSize /\ PageList(q, __get_index(b))
  BY PagesLemma
<1>4. ChunkBytes(a) <= ChunkBytes(b)
  BY ChunkBytesGrow
<1>5. p * heap_page < (q + 1) * heap_page
  BY <1>1, <1>2, <1>3, <1>4
<1>6. p <= q
  BY <1>1, <1>5, LessTimes
<1>7. __get_index(a) \in Nat /\ __get_index(b) \in Nat
  BY SizedLemma
<1> QED
  BY <1>2, <1>3, <1>6, <1>7, PageListLemma

LEMMA MixedLemma == Mixed = {32, 1024}
<1> DEFINE U == heap_page
<1>1. U \in Nat /\ U > 0 /\ HeaderSize \in 1..U
  BY PageType
<1>2. 32 * U \in Nat /\ 1024 * U \in Nat
  BY <1>1
<1>3. __get_index(32 * U) = 32
  <2>1. PICK k \in Nat :
             \/ 32 * U < 32 * heap_page /\ k \in 1..33 /\ Rounded(32 * U, 1, k)
             \/ /\ 32 * heap_page <= 32 * U /\ 32 * U < 1024 * heap_page
                /\ k \in 9..257 /\ Rounded(32 * U, 4, k)
             \/ 1024 * heap_page <= 32 * U /\ k >= 9 /\ Rounded(32 * U, 128, k)
    BY <1>2, RoundedLemma
  <2>2. k \in 9..257 /\ Rounded(32 * U, 4, k)
    BY <1>1, <2>1
  <2> DEFINE V == 4 * U
  <2>3. k * V < 10 * V /\ V \in Nat /\ V > 0 /\ ChunkBytes(32 * U) = k * V - HeaderSize
    BY <1>1, <2>2 DEF Rounded
  <2>4. k = 9
    <3>1. k < 10
      <4> HIDE DEF V
      <4> QED
        BY <2>2, <2>3, LessTimes
    <3> QED
      BY <2>2, <3>1
  <2>5. PICK p \in Nat : ChunkBytes(32 * U) = p * U - HeaderSize /\ PageList(p, __get_index(32 * U))
    BY <1>2, PagesLemma
  <2>6. p * U = 36 * U
    BY <1>1, <2>3, <2>4, <2>5
  <2>7. p = 36
    BY <1>1, <2>6
  <2> QED
    BY <2>5, <2>7 DEF PageList
<1>4. __get_index(1024 * U) = 1024
  <2>1. PICK k \in Nat :
             \/ 1024 * U < 32 * heap_page /\ k \in 1..33 /\ Rounded(1024 * U, 1, k)
             \/ /\ 32 * heap_page <= 1024 * U /\ 1024 * U < 1024 * heap_page
                /\ k \in 9..257 /\ Rounded(1024 * U, 4, k)
             \/ 1024 * heap_page <= 1024 * U /\ k >= 9 /\ Rounded(1024 * U, 128, k)
    BY <1>2, RoundedLemma
  <2>2. k >= 9 /\ Rounded(1024 * U, 128, k)
    BY <1>1, <2>1
  <2> DEFINE V == 128 * U
  <2>3. k * V < 10 * V /\ V \in Nat /\ V > 0 /\ ChunkBytes(1024 * U) = k * V - HeaderSize
    BY <1>1, <2>2 DEF Rounded
  <2>4. k = 9
    <3>1. k < 10
      <4> HIDE DEF V
      <4> QED
        BY <2>2, <2>3, LessTimes
    <3> QED
      BY <2>2, <3>1
  <2>5. PICK p \in Nat : ChunkBytes(1024 * U) = p * U - HeaderSize
                         /\ PageList(p, __get_index(1024 * U))
    BY <1>2, PagesLemma
  <2>6. p * U = 1152 * U
    BY <1>1, <2>3, <2>4, <2>5
  <2>7. p = 1152
    BY <1>1, <2>6
  <2> QED
    BY <2>5, <2>7 DEF PageList
<1>5. heap_page * 2 ^ SMALL_LIMIT = 32 * U /\ heap_page * 2 ^ MEDIUM_LIMIT = 1024 * U
  BY <1>1, Limits
<1> QED
  BY <1>3, <1>4, <1>5 DEF Mixed

(* A chunk that is freed goes to the list it would be taken from.          *)
LEMMA IndexStable ==
    ASSUME NEW a \in Nat
    PROVE  __get_index(ChunkBytes(a)) = __get_index(a)
<1> DEFINE U == heap_page
           H == HeaderSize
           s == ChunkBytes(a)
           r == __get_index(a)
           rr == __get_index(s)
<1>1. U \in Nat /\ U > 0 /\ H \in 1..U
  BY PageType
<1>2. s \in Nat /\ r \in Nat
  BY SizedLemma
<1>3. rr \in Nat
  BY <1>2, SizedLemma
<1>4. PICK p \in Nat : s = p * U - H /\ PageList(p, r)
  BY PagesLemma
<1>5. PICK q \in Nat : ChunkBytes(s) = q * U - H /\ PageList(q, rr)
  BY <1>2, PagesLemma
<1>6. PICK k \in Nat :
             \/ s < 32 * heap_page /\ k \in 1..33 /\ Rounded(s, 1, k)
             \/ /\ 32 * heap_page <= s /\ s < 1024 * heap_page
                /\ k \in 9..257 /\ Rounded(s, 4, k)
             \/ 1024 * heap_page <= s /\ k >= 9 /\ Rounded(s, 128, k)
  BY <1>2, RoundedLemma
<1> HIDE DEF s, r, rr
<1>7. ASSUME NEW n \in Nat, n > 0, Rounded(s, n, k)
      PROVE  q = n * k /\ p <= n * k /\ n * k < p + n
  <2>1. k * (n * U) = (n * k) * U /\ n * k \in Nat
    BY <1>1
  <2>2. /\ ChunkBytes(s) = (n * k) * U - H /\ s + H <= (n * k) * U
        /\ (n * k) * U < s + H + n * U
    BY <1>7, <2>1 DEF Rounded
  <2> DEFINE m == n * k
  <2>3. m \in Nat /\ ChunkBytes(s) = m * U - H /\ s + H <= m * U /\ m * U < s + H + n * U
    BY <2>1, <2>2
  <2> HIDE DEF m
  <2>4. q * U < (m + 1) * U /\ m * U < (q + 1) * U /\ p * U < (m + 1) * U
        /\ m * U < (p + n) * U
    BY <1>1, <1>4, <1>5, <2>3
  <2>5. q < m + 1 /\ m < q + 1 /\ p < m + 1 /\ m < p + n
    BY <1>1, <2>3, <2>4, LessTimes
  <2>6. q = m /\ p <= m /\ m < p + n
    BY <2>3, <2>5
  <2> QED
    BY <2>6 DEF m
<1>8. CASE s < 32 * U /\ Rounded(s, 1, k)
  <2>1. q = p
    BY <1>7, <1>8
  <2>2. rr <= r /\ r <= rr
    BY <1>2, <1>3, <1>4, <1>5, <2>1, PageListLemma
  <2>3. rr = r
    BY <1>2, <1>3, <2>2
  <2> QED
    BY <2>3 DEF r, rr, s
<1>9. CASE 32 * U <= s /\ s < 1024 * U /\ Rounded(s, 4, k)
  <2>1. q = 4 * k /\ p <= 4 * k /\ 4 * k < p + 4
    BY <1>7, <1>9
  <2>2. 32 * U < p * U /\ p * U < 1025 * U
    BY <1>1, <1>2, <1>4, <1>9
  <2>3. 32 < p /\ p < 1025
    BY <1>1, <2>2, LessTimes
  <2>4. (p = 33 /\ r = 32) \/ (r \in 32..279 /\ p = 4 * (r - 23))
    BY <1>2, <1>4, <2>3 DEF PageList
  <2>5. q \in 36..1027
    BY <2>1, <2>3, <2>4
  <2>6. rr \in 32..279 /\ q = 4 * (rr - 23)
    BY <1>3, <1>5, <2>1, <2>5 DEF PageList
  <2>7. rr = r
    BY <1>2, <1>3, <2>1, <2>4, <2>6
  <2> QED
    BY <2>7 DEF r, rr, s
<1>10. CASE 1024 * U <= s /\ Rounded(s, 128, k)
  <2>1. q = 128 * k /\ p <= 128 * k /\ 128 * k < p + 128
    BY <1>7, <1>10
  <2>2. 1024 * U < p * U
    BY <1>1, <1>2, <1>4, <1>10
  <2>3. 1024 < p
    BY <1>1, <2>2, LessTimes
  <2>4. (p = 1028 /\ r = 1024) \/ (r >= 1024 /\ p = 128 * (r - 1015))
    BY <1>2, <1>4, <2>3 DEF PageList
  <2>5. q > 1028
    BY <2>1, <2>3, <2>4
  <2>6. rr >= 1024 /\ q = 128 * (rr - 1015)
    BY <1>3, <1>5, <2>1, <2>5 DEF PageList
  <2>7. rr = r
    BY <1>2, <1>3, <2>1, <2>4, <2>6
  <2> QED
    BY <2>7 DEF r, rr, s
<1> QED
  BY <1>6, <1>8, <1>9, <1>10

(* Only the two mixed lists hold chunks of more than one size.             *)
LEMMA SameList ==
    ASSUME NEW a \in Nat, NEW b \in Nat,
           __get_index(a) = __get_index(b), ChunkBytes(a) # ChunkBytes(b)
    PROVE  __get_index(b) \in Mixed
<1>1. heap_page \in Nat /\ heap_page > 0 /\ HeaderSize \in Nat
  BY PageType
<1>2. __get_index(a) \in Nat /\ __get_index(b) \in Nat
  BY SizedLemma
<1>3. PICK p \in Nat : ChunkBytes(a) = p * heap_page - HeaderSize /\ PageList(p, __get_index(a))
  BY PagesLemma
<1>4. PICK q \in Nat : ChunkBytes(b) = q * heap_page - HeaderSize /\ PageList(q, __get_index(b))
  BY PagesLemma
<1>5. p # q
  BY <1>3, <1>4
<1>6. __get_index(b) \in {32, 1024}
  BY <1>2, <1>3, <1>4, <1>5, PageListLemma
<1> QED
  BY <1>6, MixedLemma

-----------------------------------------------------------------------------
(* Sequences without repetitions                                           *)
Elems(s) == {s[i] : i \in 1..Len(s)}
Distinct(s) == \A i, j \in 1..Len(s) : s[i] = s[j] => i = j

LEMMA TailLemma ==
    ASSUME NEW S, NEW s \in Seq(S), s # <<>>, Distinct(s)
    PROVE  /\ Tail(s) \in Seq(S) /\ Distinct(Tail(s)) /\ Len(Tail(s)) = Len(s) - 1
           /\ Elems(Tail(s)) = Elems(s) \ {Head(s)}
           /\ Head(s) \in Elems(s) /\ Head(s) \in S
<1>1. Len(s) \in Nat /\ Len(s) > 0 /\ Head(s) = s[1] /\ s[1] \in S
  OBVIOUS
<1>2. /\ Tail(s) \in Seq(S) /\ Len(Tail(s)) = Len(s) - 1
      /\ \A i \in 1..Len(s) - 1 : Tail(s)[i] = s[i+1]
  OBVIOUS
<1>3. Distinct(Tail(s))
  <2> SUFFICES ASSUME NEW i \in 1..Len(s) - 1, NEW j \in 1..Len(s) - 1, Tail(s)[i] = Tail(s)[j]
               PROVE  i = j
    BY <1>2 DEF Distinct
  <2>1. s[i+1] = s[j+1] /\ i + 1 \in 1..Len(s) /\ j + 1 \in 1..Len(s)
    BY <1>1, <1>2
  <2>2. i + 1 = j + 1
    BY <2>1 DEF Distinct
  <2> QED
    BY <2>2
<1>4. Elems(Tail(s)) \subseteq Elems(s) \ {Head(s)}
  <2> SUFFICES ASSUME NEW i \in 1..Len(s) - 1 PROVE Tail(s)[i] \in Elems(s) \ {Head(s)}
    BY <1>2 DEF Elems
  <2>1. Tail(s)[i] = s[i+1] /\ i + 1 \in 1..Len(s) /\ 1 \in 1..Len(s) /\ i + 1 # 1
    BY <1>1, <1>2
  <2> QED
    BY <1>1, <2>1 DEF Elems, Distinct
<1>5. Elems(s) \ {Head(s)} \subseteq Elems(Tail(s))
  <2> SUFFICES ASSUME NEW i \in 1..Len(s), s[i] # s[1] PROVE s[i] \in Elems(Tail(s))
    BY <1>1 DEF Elems
  <2>1. i - 1 \in 1..Len(s) - 1 /\ (i - 1) + 1 = i
    BY <1>1
  <2>2. Tail(s)[i - 1] = s[i]
    BY <1>2, <2>1
  <2> QED
    BY <1>2, <2>1, <2>2 DEF Elems
<1>6. Head(s) \in Elems(s)
  BY <1>1 DEF Elems
<1> QED
  BY <1>1, <1>2, <1>3, <1>4, <1>5, <1>6

LEMMA ConcatLemma ==
    ASSUME NEW S, NEW s \in Seq(S), NEW t \in Seq(S)
    PROVE  /\ s \o t \in Seq(S) /\ Len(s \o t) = Len(s) + Len(t)
           /\ Elems(s \o t) = Elems(s) \cup Elems(t)
           /\ Distinct(s) /\ Distinct(t) /\ Elems(s) \cap Elems(t) = {} => Distinct(s \o t)
<1>1. /\ s \o t \in Seq(S) /\ Len(s \o t) = Len(s) + Len(t)
      /\ Len(s) \in Nat /\ Len(t) \in Nat
      /\ \A i \in 1..Len(s) : (s \o t)[i] = s[i]
      /\ \A i \in 1..Len(t) : (s \o t)[Len(s) + i] = t[i]
  OBVIOUS
<1>2. \A i \in 1..Len(s) + Len(t) :
         \/ i \in 1..Len(s) /\ (s \o t)[i] = s[i]
         \/ i - Len(s) \in 1..Len(t) /\ (s \o t)[i] = t[i - Len(s)]
  <2> TAKE i \in 1..Len(s) + Len(t)
  <2>1. CASE i \in 1..Len(s)
    BY <1>1, <2>1
  <2>2. CASE i \notin 1..Len(s)
    <3>1. i - Len(s) \in 1..Len(t) /\ Len(s) + (i - Len(s)) = i
      BY <1>1, <2>2
    <3> QED
      BY <1>1, <3>1
  <2> QED
    BY <2>1, <2>2
<1>3. Elems(s \o t) \subseteq Elems(s) \cup Elems(t)
  BY <1>1, <1>2 DEF Elems
<1>4. Elems(s) \cup Elems(t) \subseteq Elems(s \o t)
  <2>1. \A i \in 1..Len(s) : i \in 1..Len(s) + Len(t)
    BY <1>1
  <2>2. \A i \in 1..Len(t) : Len(s) + i \in 1..Len(s) + Len(t)
    BY <1>1
  <2> QED
    BY <1>1, <2>1, <2>2 DEF Elems
<1>5. ASSUME Distinct(s), Distinct(t), Elems(s) \cap Elems(t) = {}
      PROVE  Distinct(s \o t)
  <2> SUFFICES ASSUME NEW i \in 1..Len(s) + Len(t), NEW j \in 1..Len(s) + Len(t),
                      (s \o t)[i] = (s \o t)[j]
               PROVE  i = j
    BY <1>1 DEF Distinct
  <2>1. CASE i \in 1..Len(s) /\ j \in 1..Len(s)
    BY <1>1, <1>5, <2>1 DEF Distinct
  <2>2. CASE i \notin 1..Len(s) /\ j \notin 1..Len(s)
    <3>1. /\ i - Len(s) \in 1..Len(t) /\ j - Len(s) \in 1..Len(t)
          /\ t[i - Len(s)] = t[j - Len(s)]
      BY <1>2, <2>2
    <3>2. i - Len(s) = j - Len(s)
      BY <1>5, <3>1 DEF Distinct
    <3> QED
      BY <1>1, <3>2
  <2>3. CASE i \in 1..Len(s) /\ j \notin 1..Len(s)
    <3>1. (s \o t)[i] = s[i] /\ j - Len(s) \in 1..Len(t) /\ (s \o t)[j] = t[j - Len(s)]
      BY <1>2, <2>3
    <3>2. s[i] \in Elems(s) /\ t[j - Len(s)] \in Elems(t)
      BY <2>3, <3>1 DEF Elems
    <3> QED
      BY <1>5, <3>1, <3>2
  <2>4. CASE i \notin 1..Len(s) /\ j \in 1..Len(s)
    <3>1. (s \o t)[j] = s[j] /\ i - Len(s) \in 1..Len(t) /\ (s \o t)[i] = t[i - Len(s)]
      BY <1>2, <2>4
    <3>2. s[j] \in Elems(s) /\ t[i - Len(s)] \in Elems(t)
      BY <2>4, <3>1 DEF Elems
    <3> QED
      BY <1>5, <3>1, <3>2
  <2> QED
    BY <2>1, <2>2, <2>3, <2>4
<1> QED
  BY <1>1, <1>3, <1>4, <1>5

LEMMA ConsLemma ==
    ASSUME NEW S, NEW a \in S, NEW s \in Seq(S)
    PROVE  /\ <<a>> \o s \in Seq(S) /\ Len(<<a>> \o s) = Len(s) + 1
           /\ Elems(<<a>> \o s) = {a} \cup Elems(s)
           /\ Distinct(s) /\ a \notin Elems(s) => Distinct(<<a>> \o s)
<1>1. <<a>> \in Seq(S) /\ Len(<<a>>) = 1 /\ <<a>>[1] = a
  OBVIOUS
<1>2. Elems(<<a>>) = {a} /\ Distinct(<<a>>)
  BY <1>1 DEF Elems, Distinct
<1>3. Len(s) \in Nat
  OBVIOUS
<1>4. /\ <<a>> \o s \in Seq(S) /\ Len(<<a>> \o s) = 1 + Len(s)
      /\ Elems(<<a>> \o s) = Elems(<<a>>) \cup Elems(s)
      /\ Distinct(<<a>>) /\ Distinct(s) /\ Elems(<<a>>) \cap Elems(s) = {}
            => Distinct(<<a>> \o s)
  BY <1>1, ConcatLemma
<1> QED
  BY <1>2, <1>3, <1>4

-----------------------------------------------------------------------------
(* The heap                                                                *)
Lists == 0..__get_index(HeapSize)
Sizes == UNION {[D -> Nat] : D \in SUBSET Nat}

(* Chunks with their headers lie one after the other, below cur.           *)
Laid(cur, size) ==
    /\ cur <= HeapSize
    /\ \A c \in DOMAIN size : /\ HeaderSize <= c /\ c + size[c] <= cur
                              /\ \E b \in Nat : size[c] = ChunkBytes(b)
    /\ \A c, d \in DOMAIN size : c < d => c + size[c] <= d - HeaderSize

(* Of the chunks, those in Out are held by somebody; the others are on the *)
(* list of their size, or lost by a mixed list.                            *)
Accounted(free, size, Out) ==
    /\ Out \subseteq DOMAIN size
    /\ \A r \in Lists : /\ Distinct(free[r])
                        /\ \A c \in Elems(free[r]) : /\ c \in DOMAIN size /\ c \notin Out
                                                     /\ __get_index(size[c]) = r
    /\ \A c \in DOMAIN size \ Out :
          c \in Elems(free[__get_index(size[c])]) \/ __get_index(size[c]) \in Mixed

HeapOK(h, Out) ==
    \E cur \in Nat, free \in [Lists -> Seq(Nat)], size \in Sizes :
       /\ h = [cur |-> cur, free |-> free, size |-> size]
       /\ Laid(cur, size) /\ Accounted(free, size, Out)

(* No chunk changes its size or disappears.                                *)
Kept(h, g) == /\ DOMAIN h.size \subseteq DOMAIN g.size
              /\ \A c \in DOMAIN h.size : g.size[c] = h.size[c]

AllocOK(h, Out, b, got) ==
    /\ Kept(h, got.heap)
    /\ got.addr = NULL => HeapOK(got.heap, Out)
    /\ got.addr # NULL => /\ got.addr \in Nat /\ got.addr \notin Out
                          /\ HeapOK(got.heap, Out \cup {got.addr})
                          /\ got.heap.size[got.addr] = ChunkBytes(b)

LEMMA SizesLemma ==
    ASSUME NEW f \in Sizes
    PROVE  /\ DOMAIN f \subseteq Nat /\ f \in [DOMAIN f -> Nat]
           /\ \A c \in DOMAIN f : c \in Nat /\ f[c] \in Nat
  BY DEF Sizes

LEMMA WithSizes ==
    ASSUME NEW f \in Sizes, NEW x \in Nat, NEW v \in Nat
    PROVE  With(f, x, v) \in Sizes
<1>1. DOMAIN f \subseteq Nat /\ f \in [DOMAIN f -> Nat]
  BY SizesLemma
<1>2. DOMAIN f \cup {x} \in SUBSET Nat
  BY <1>1
<1>3. With(f, x, v) \in [DOMAIN f \cup {x} -> Nat]
  BY <1>1 DEF With
<1> QED
  BY <1>2, <1>3 DEF Sizes

LEMMA ListsLemma ==
    ASSUME NEW b \in Nat, b <= HeapSize
    PROVE  __get_index(b) \in Lists
<1>1. HeapSize \in Nat
  BY PageType
<1> QED
  BY <1>1, SizedLemma, IndexGrows DEF Lists

LEMMA LaidLemma ==
    ASSUME NEW cur \in Nat, NEW size \in Sizes, Laid(cur, size), NEW c \in DOMAIN size
    PROVE  /\ c \in Nat /\ size[c] \in Nat /\ HeaderSize <= c /\ c + size[c] <= cur
           /\ size[c] <= HeapSize /\ __get_index(size[c]) \in Lists
<1>1. c \in Nat /\ size[c] \in Nat
  BY SizesLemma
<1>2. HeaderSize <= c /\ c + size[c] <= cur /\ cur <= HeapSize
  BY DEF Laid
<1>3. size[c] <= HeapSize
  BY <1>1, <1>2, PageType
<1> QED
  BY <1>1, <1>2, <1>3, ListsLemma

(* A chunk that comes back.                                                *)
LEMMA PushedLemma ==
    ASSUME NEW cur \in Nat, NEW free \in [Lists -> Seq(Nat)], NEW size \in Sizes, NEW Out,
           Laid(cur, size), Accounted(free, size, Out), NEW a \in Out,
           NEW r, r = __get_index(size[a])
    PROVE  /\ r \in Lists
           /\ [free EXCEPT ![r] = <<a>> \o @] \in [Lists -> Seq(Nat)]
           /\ Accounted([free EXCEPT ![r] = <<a>> \o @], size, Out \ {a})
<1> DEFINE l == <<a>> \o free[r]
<1>1. a \in DOMAIN size
  BY DEF Accounted
<1>2. r \in Lists /\ a \in Nat
  BY <1>1, LaidLemma
<1>3. free[r] \in Seq(Nat) /\ Distinct(free[r]) /\ a \notin Elems(free[r])
  BY <1>2 DEF Accounted
<1>4. l \in Seq(Nat) /\ Distinct(l) /\ Elems(l) = {a} \cup Elems(free[r])
  BY <1>2, <1>3, ConsLemma
<1>5. PICK g : g = [free EXCEPT ![r] = <<a>> \o @]
  OBVIOUS
<1>6. g = [free EXCEPT ![r] = l]
  BY <1>5
<1> HIDE DEF l
<1>7. g \in [Lists -> Seq(Nat)] /\ \A q \in Lists : g[q] = IF q = r THEN l ELSE free[q]
  BY <1>2, <1>4, <1>6
<1>8. ASSUME NEW q \in Lists
      PROVE  /\ Distinct(g[q])
             /\ \A c \in Elems(g[q]) : /\ c \in DOMAIN size /\ c \notin Out \ {a}
                                       /\ __get_index(size[c]) = q
  <2>1. CASE q = r
    BY <1>1, <1>2, <1>4, <1>7, <2>1 DEF Accounted
  <2>2. CASE q # r
    BY <1>7, <2>2 DEF Accounted
  <2> QED
    BY <2>1, <2>2
<1>9. ASSUME NEW c \in DOMAIN size \ (Out \ {a})
      PROVE  c \in Elems(g[__get_index(size[c])]) \/ __get_index(size[c]) \in Mixed
  <2>1. __get_index(size[c]) \in Lists
    BY LaidLemma
  <2>2. CASE c = a
    BY <1>2, <1>4, <1>7, <2>2
  <2>3. CASE c # a
    BY <1>4, <1>7, <2>1, <2>3 DEF Accounted
  <2> QED
    BY <2>2, <2>3
<1>10. Out \ {a} \subseteq DOMAIN size
  BY DEF Accounted
<1>11. Accounted(g, size, Out \ {a})
  BY <1>8, <1>9, <1>10 DEF Accounted
<1> QED
  BY <1>2, <1>5, <1>7, <1>11

LEMMA FreeLemma ==
    ASSUME NEW h, NEW Out, HeapOK(h, Out), NEW a \in Out
    PROVE  /\ HeapOK(xheap_free(h, a), Out \ {a})
           /\ xheap_free(h, a).size = h.size
<1>1. PICK cur \in Nat, free \in [Lists -> Seq(Nat)], size \in Sizes :
         /\ h = [cur |-> cur, free |-> free, size |-> size]
         /\ Laid(cur, size) /\ Accounted(free, size, Out)
  BY DEF HeapOK
<1>2. PICK r : r = __get_index(size[a])
  OBVIOUS
<1>3. PICK f : f = [free EXCEPT ![r] = <<a>> \o @]
  OBVIOUS
<1>4. f \in [Lists -> Seq(Nat)] /\ Accounted(f, size, Out \ {a}) /\ r \in Lists
  BY <1>1, <1>2, <1>3, PushedLemma
<1>5. PICK g : g = xheap_free(h, a)
  OBVIOUS
<1>6. h.size = size
  BY <1>1
<1>7. g = [h EXCEPT !.free[r] = <<a>> \o @]
  BY <1>2, <1>5, <1>6 DEF xheap_free
<1>8. g = [cur |-> cur, free |-> f, size |-> size]
  BY <1>1, <1>3, <1>7
<1>9. g.size = size
  BY <1>8
<1> QED
  BY <1>1, <1>4, <1>5, <1>6, <1>8, <1>9 DEF HeapOK

(* A chunk from the list.                                                  *)
Popped(free, r, g) == \A q \in Lists : g[q] = IF q = r THEN Tail(free[r]) ELSE free[q]

PoppedOK(g, size, Out, a, s) ==
    /\ a \in Nat /\ a \notin Out /\ a \in DOMAIN size
    /\ Accounted(g, size, Out \cup {a})
    /\ size[a] # s => Accounted(g, size, Out)

LEMMA PoppedLemma ==
    ASSUME NEW cur \in Nat, NEW free \in [Lists -> Seq(Nat)], NEW size \in Sizes, NEW Out,
           Laid(cur, size), Accounted(free, size, Out), NEW b \in Nat,
           NEW r \in Lists, r = __get_index(b), free[r] # <<>>,
           NEW g \in [Lists -> Seq(Nat)], Popped(free, r, g)
    PROVE  PoppedOK(g, size, Out, Head(free[r]), ChunkBytes(b))
<1>1. PICK a : a = Head(free[r])
  OBVIOUS
<1> DEFINE l == Tail(free[r])
<1>2. free[r] \in Seq(Nat) /\ Distinct(free[r])
  BY DEF Accounted
<1>3. /\ l \in Seq(Nat) /\ Distinct(l) /\ Elems(l) = Elems(free[r]) \ {a}
      /\ a \in Elems(free[r]) /\ a \in Nat
  BY <1>1, <1>2, TailLemma
<1>4. a \in DOMAIN size /\ a \notin Out /\ __get_index(size[a]) = r
  BY <1>3 DEF Accounted
<1>7. \A q \in Lists : g[q] = IF q = r THEN l ELSE free[q]
  BY DEF Popped
<1> HIDE DEF l
<1>8. ASSUME NEW q \in Lists
      PROVE  /\ Distinct(g[q])
             /\ \A c \in Elems(g[q]) : /\ c \in DOMAIN size /\ c \notin Out \cup {a}
                                       /\ __get_index(size[c]) = q
  <2>1. CASE q = r
    BY <1>3, <1>7, <2>1 DEF Accounted
  <2>2. CASE q # r
    BY <1>4, <1>7, <2>2 DEF Accounted
  <2> QED
    BY <2>1, <2>2
<1>9. ASSUME NEW c \in DOMAIN size \ (Out \cup {a})
      PROVE  c \in Elems(g[__get_index(size[c])]) \/ __get_index(size[c]) \in Mixed
  <2>1. __get_index(size[c]) \in Lists
    BY LaidLemma
  <2> QED
    BY <1>3, <1>7, <2>1 DEF Accounted
<1>10. Out \cup {a} \subseteq DOMAIN size
  BY <1>4 DEF Accounted
<1>11. Accounted(g, size, Out \cup {a})
  BY <1>8, <1>9, <1>10 DEF Accounted
<1>12. ASSUME size[a] # ChunkBytes(b)
       PROVE  Accounted(g, size, Out)
  <2>1. PICK x \in Nat : size[a] = ChunkBytes(x)
    BY <1>4 DEF Laid
  <2>2. __get_index(x) = r
    BY <1>4, <2>1, IndexStable
  <2>3. __get_index(size[a]) \in Mixed
    BY <1>4, <1>12, <2>1, <2>2, SameList
  <2> QED
    BY <1>8, <1>9, <1>10, <2>3 DEF Accounted
<1> QED
  BY <1>1, <1>3, <1>4, <1>11, <1>12 DEF PoppedOK

(* A fresh chunk.                                                          *)
FreshOK(free, size, sz, Out, a, s) ==
    /\ a \notin DOMAIN size /\ sz \in Sizes
    /\ Laid(a + s, sz) /\ Accounted(free, sz, Out \cup {a})

LEMMA FreshLemma ==
    ASSUME NEW cur \in Nat, NEW free \in [Lists -> Seq(Nat)], NEW size \in Sizes, NEW Out,
           Laid(cur, size), Accounted(free, size, Out), NEW b \in Nat,
           NEW s \in Nat, s = ChunkBytes(b), NEW a \in Nat, a = cur + HeaderSize,
           a + s <= HeapSize,
           NEW sz, sz = With(size, a, s)
    PROVE  FreshOK(free, size, sz, Out, a, s)
<1>1. HeaderSize \in Nat /\ HeaderSize > 0 /\ HeapSize \in Nat
  BY PageType
<1>2. sz \in Sizes
  BY WithSizes
<1>3. /\ DOMAIN sz = DOMAIN size \cup {a} /\ sz[a] = s
      /\ \A y \in DOMAIN size : y # a => sz[y] = size[y]
  BY DEF With
<1>4. \A c \in DOMAIN size : /\ c \in Nat /\ size[c] \in Nat /\ HeaderSize <= c
                             /\ c + size[c] <= cur
  BY LaidLemma
<1>5. \A c \in DOMAIN size : c < a /\ c + size[c] <= a - HeaderSize /\ c + size[c] <= a + s
  BY <1>1, <1>4
<1>6. a \notin DOMAIN size
  BY <1>5
<1>7. Laid(a + s, sz)
  <2>1. a + s <= HeapSize
    OBVIOUS
  <2>2. ASSUME NEW c \in DOMAIN sz
        PROVE  /\ HeaderSize <= c /\ c + sz[c] <= a + s
               /\ \E x \in Nat : sz[c] = ChunkBytes(x)
    <3>1. CASE c = a
      BY <1>1, <1>3, <3>1
    <3>2. CASE c # a
      <4>1. c \in DOMAIN size /\ sz[c] = size[c]
        BY <1>3, <3>2
      <4>2. \E x \in Nat : sz[c] = ChunkBytes(x)
        BY <4>1 DEF Laid
      <4> QED
        BY <1>4, <1>5, <4>1, <4>2
    <3> QED
      BY <3>1, <3>2
  <2>3. ASSUME NEW c \in DOMAIN sz, NEW d \in DOMAIN sz, c < d
        PROVE  c + sz[c] <= d - HeaderSize
    <3>1. CASE d = a
      <4>1. c \in DOMAIN size /\ sz[c] = size[c]
        BY <1>3, <2>3, <3>1
      <4> QED
        BY <1>5, <3>1, <4>1
    <3>2. CASE d # a
      <4>1. d \in DOMAIN size /\ d < a /\ d \in Nat
        BY <1>3, <1>4, <1>5, <3>2
      <4>2. c \in DOMAIN size /\ sz[c] = size[c]
        BY <1>3, <2>3, <4>1
      <4> QED
        BY <2>3, <4>1, <4>2 DEF Laid
    <3> QED
      BY <3>1, <3>2
  <2> QED
    BY <2>1, <2>2, <2>3 DEF Laid
<1>8. Accounted(free, sz, Out \cup {a})
  <2>1. Out \cup {a} \subseteq DOMAIN sz
    BY <1>3 DEF Accounted
  <2>2. ASSUME NEW r \in Lists
        PROVE  /\ Distinct(free[r])
               /\ \A c \in Elems(free[r]) : /\ c \in DOMAIN sz /\ c \notin Out \cup {a}
                                            /\ __get_index(sz[c]) = r
    BY <1>3, <1>6 DEF Accounted
  <2>3. ASSUME NEW c \in DOMAIN sz \ (Out \cup {a})
        PROVE  c \in Elems(free[__get_index(sz[c])]) \/ __get_index(sz[c]) \in Mixed
    <3>1. c \in DOMAIN size \ Out /\ sz[c] = size[c]
      BY <1>3
    <3> QED
      BY <3>1 DEF Accounted
  <2> QED
    BY <2>1, <2>2, <2>3 DEF Accounted
<1> QED
  BY <1>2, <1>6, <1>7, <1>8 DEF FreshOK

LEMMA AllocateLemma ==
    ASSUME NEW h, NEW Out, HeapOK(h, Out), NEW b \in Nat, b <= HeapSize
    PROVE  AllocOK(h, Out, b, xheap_allocate(h, b))
<1>1. PICK cur \in Nat, free \in [Lists -> Seq(Nat)], size \in Sizes :
         /\ h = [cur |-> cur, free |-> free, size |-> size]
         /\ Laid(cur, size) /\ Accounted(free, size, Out)
  BY DEF HeapOK
<1>2. PICK r \in Lists : r = __get_index(b)
  BY ListsLemma
<1>3. PICK s \in Nat : s = ChunkBytes(b)
  BY SizedLemma
<1>4. h.cur = cur /\ h.free = free /\ h.size = size
  BY <1>1
<1>5. PICK t : t = Taken(h, r, s)
  OBVIOUS
<1>6. PICK got : got = xheap_allocate(h, b)
  OBVIOUS
<1>7. got = IF t.addr = NULL \/ t.heap.size[t.addr] = s THEN t ELSE [t EXCEPT !.addr = NULL]
  BY <1>2, <1>3, <1>5, <1>6 DEF xheap_allocate, Checked
<1>8. \A x \in Nat : x # NULL
  BY NullAssumption
<1>9. CASE free[r] # <<>>
  <2>1. PICK a : a = Head(free[r])
    OBVIOUS
  <2>2. PICK f : f = [free EXCEPT ![r] = Tail(@)]
    OBVIOUS
  <2>3. /\ f \in [Lists -> Seq(Nat)] /\ a \in Nat /\ a \notin Out /\ a \in DOMAIN size
        /\ Accounted(f, size, Out \cup {a})
        /\ size[a] # s => Accounted(f, size, Out)
    <3>1. Tail(free[r]) \in Seq(Nat)
      BY <1>9
    <3>2. /\ f \in [Lists -> Seq(Nat)]
          /\ \A q \in Lists : f[q] = IF q = r THEN Tail(free[r]) ELSE free[q]
      BY <2>2, <3>1
    <3>3. Popped(free, r, f)
      BY <3>2 DEF Popped
    <3>4. PoppedOK(f, size, Out, Head(free[r]), ChunkBytes(b))
      BY <1>1, <1>2, <1>9, <3>2, <3>3, PoppedLemma
    <3> QED
      BY <1>3, <2>1, <3>2, <3>4 DEF PoppedOK
  <2>4. PICK g : g = [h EXCEPT !.free[r] = Tail(@)]
    OBVIOUS
  <2>5. g = [cur |-> cur, free |-> f, size |-> size]
    BY <1>1, <2>2, <2>4
  <2>6. t = [heap |-> g, addr |-> a]
    BY <1>4, <1>5, <1>9, <2>1, <2>4 DEF Taken
  <2>7. g.size = size /\ t.addr = a /\ t.heap = g /\ a # NULL
    BY <1>8, <2>3, <2>5, <2>6
  <2>8. Kept(h, g)
    BY <1>4, <2>7 DEF Kept
  <2>9. HeapOK(g, Out \cup {a}) /\ (size[a] # s => HeapOK(g, Out))
    BY <1>1, <2>3, <2>5 DEF HeapOK
  <2>10. CASE size[a] = s
    <3>1. got.heap = g /\ got.addr = a
      BY <1>7, <2>7, <2>10
    <3> QED
      BY <1>3, <1>6, <2>3, <2>7, <2>8, <2>9, <2>10, <3>1 DEF AllocOK
  <2>11. CASE size[a] # s
    <3>1. got = [t EXCEPT !.addr = NULL]
      BY <1>7, <2>7, <2>11
    <3>2. got.heap = g /\ got.addr = NULL
      BY <2>6, <3>1
    <3> QED
      BY <1>6, <2>8, <2>9, <2>11, <3>2 DEF AllocOK
  <2> QED
    BY <2>10, <2>11
<1>10. CASE free[r] = <<>> /\ cur + HeaderSize + s > HeapSize
  <2>1. t = [heap |-> h, addr |-> NULL]
    BY <1>4, <1>5, <1>10 DEF Taken
  <2>2. got.heap = h /\ got.addr = NULL
    BY <1>7, <2>1
  <2>3. Kept(h, h)
    BY DEF Kept
  <2> QED
    BY <1>6, <2>2, <2>3 DEF AllocOK
<1>11. CASE free[r] = <<>> /\ ~(cur + HeaderSize + s > HeapSize)
  <2>0. HeaderSize \in Nat /\ HeapSize \in Nat
    BY PageType
  <2>1. PICK a \in Nat : a = cur + HeaderSize
    BY <2>0
  <2>2. PICK sz : sz = With(size, a, s)
    OBVIOUS
  <2>3. a + s <= HeapSize /\ cur + HeaderSize + s = a + s /\ a + s \in Nat
    BY <1>11, <2>0, <2>1
  <2>4. /\ a \notin DOMAIN size /\ sz \in Sizes
        /\ Laid(a + s, sz) /\ Accounted(free, sz, Out \cup {a})
    <3>1. FreshOK(free, size, sz, Out, a, s)
      BY <1>1, <1>3, <2>1, <2>2, <2>3, FreshLemma
    <3> QED
      BY <3>1 DEF FreshOK
  <2>5. PICK g : g = [h EXCEPT !.cur = @ + HeaderSize + s,
                               !.size = With(@, h.cur + HeaderSize, s)]
    OBVIOUS
  <2>6. g = [h EXCEPT !.cur = a + s, !.size = sz]
    BY <1>4, <2>1, <2>2, <2>3, <2>5
  <2>7. g = [cur |-> a + s, free |-> free, size |-> sz]
    BY <1>1, <2>6
  <2>8. t = [heap |-> g, addr |-> a]
    BY <1>4, <1>5, <1>11, <2>1, <2>5 DEF Taken
  <2>9. g.size = sz /\ t.addr = a /\ t.heap = g /\ a # NULL
    BY <1>8, <2>7, <2>8
  <2>10. /\ DOMAIN sz = DOMAIN size \cup {a} /\ sz[a] = s
         /\ \A y \in DOMAIN size : y # a => sz[y] = size[y]
    BY <2>2 DEF With
  <2>11. Kept(h, g)
    BY <1>4, <2>4, <2>9, <2>10 DEF Kept
  <2>12. HeapOK(g, Out \cup {a})
    BY <2>3, <2>4, <2>7 DEF HeapOK
  <2>13. got.heap = g /\ got.addr = a
    BY <1>7, <2>9, <2>10
  <2>14. a \notin Out
    BY <1>1, <2>4 DEF Accounted
  <2> QED
    BY <1>3, <1>6, <2>9, <2>10, <2>11, <2>12, <2>13, <2>14 DEF AllocOK
<1> QED
  BY <1>9, <1>10, <1>11

-----------------------------------------------------------------------------
(* The handlers                                                            *)
HeldBy(o) == o.chunks \cup {o.hash}

(* The objects threaded in a set of chunks.                                *)
ObjectsOf(size, chunks, n) ==
    {x \in Object : x[1] \in chunks /\ x[2] < (size[x[1]] - 1) \div n}

LEMMA DivInt ==
    ASSUME NEW a \in Int, NEW u \in Nat, u > 0
    PROVE  a \div u \in Int
  OBVIOUS

(* A chunk whose objects fill it exactly is counted with one more.         *)
LEMMA LastByte ==
    ASSUME NEW a \in Nat, a > 0, NEW u \in Nat, u > 0
    PROVE  a \div u - (a - 1) \div u \in 0..1 /\ a \div u \in Nat /\ (a - 1) \div u \in Nat
<1> DEFINE p == a \div u
           q == (a - 1) \div u
<1>1. p \in Nat /\ p * u <= a /\ a < p * u + u
  BY DivLemma
<1>2. q \in Nat /\ q * u <= a - 1 /\ a - 1 < q * u + u
  BY DivLemma
<1> HIDE DEF p, q
<1>3. q * u < (p + 1) * u /\ p * u < (q + 2) * u
  BY <1>1, <1>2
<1>4. q < p + 1 /\ p < q + 2
  BY <1>1, <1>2, <1>3, LessTimes
<1>5. p - q \in 0..1
  BY <1>1, <1>2, <1>4
<1> QED
  BY <1>1, <1>2, <1>5 DEF p, q

ThreadedOK(mem, s, n, th) ==
    /\ th \in Seq(Object) /\ Distinct(th) /\ Len(th) = (s - 1) \div n /\ Len(th) > 0
    /\ Elems(th) = {x \in Object : x[1] = mem /\ x[2] < (s - 1) \div n}
    /\ s \div n - Len(th) \in 0..1 /\ s \div n \in Nat

LEMMA ThreadedLemma ==
    ASSUME NEW mem \in Nat, NEW s \in Nat, NEW n \in Nat, n > 0,
           Threaded(mem, s, n) # <<>>
    PROVE  ThreadedOK(mem, s, n, Threaded(mem, s, n))
<1>1. PICK k \in Int : k = (s - 1) \div n
  BY DivInt
<1>2. PICK th : th = Threaded(mem, s, n)
  OBVIOUS
<1>3. th = [i \in 1..k |-> <<mem, i - 1>>]
  BY <1>1, <1>2 DEF Threaded
<1>4. k > 0
  <2> SUFFICES ASSUME k <= 0 PROVE FALSE
    BY <1>1
  <2>1. 1..k = 1..0
    BY <1>1
  <2>2. th = [i \in 1..0 |-> <<mem, i - 1>>]
    BY <1>3, <2>1
  <2>3. th \in Seq(Object) /\ Len(th) = 0
    BY <2>2 DEF Object
  <2>4. th = <<>>
    BY <2>3
  <2> QED
    BY <1>2, <2>4
<1>5. s > 0
  <2>1. s = 0 => (s - 1) \div n < 0
    OBVIOUS
  <2> QED
    BY <1>1, <1>4, <2>1
<1>6. /\ th \in Seq(Object) /\ Len(th) = k
      /\ \A i \in 1..k : th[i] = <<mem, i - 1>> /\ th[i] \in Object
  BY <1>3, <1>4 DEF Object
<1>7. Distinct(th)
  BY <1>6 DEF Distinct
<1>8. Elems(th) = {x \in Object : x[1] = mem /\ x[2] < k}
  <2>1. Elems(th) \subseteq {x \in Object : x[1] = mem /\ x[2] < k}
    BY <1>6 DEF Elems
  <2>2. ASSUME NEW x \in Object, x[1] = mem, x[2] < k
        PROVE  x \in Elems(th)
    <3>1. x[2] \in Nat /\ x = <<mem, x[2]>>
      BY <2>2 DEF Object
    <3>2. x[2] + 1 \in 1..k /\ (x[2] + 1) - 1 = x[2]
      BY <2>2, <3>1
    <3>3. th[x[2] + 1] = x
      BY <1>6, <3>1, <3>2
    <3> QED
      BY <1>6, <3>2, <3>3 DEF Elems
  <2> QED
    BY <2>1, <2>2
<1>9. s \div n - k \in 0..1 /\ s \div n \in Nat
  BY <1>1, <1>5, LastByte
<1> QED
  BY <1>1, <1>2, <1>4, <1>6, <1>7, <1>8, <1>9 DEF ThreadedOK

LEMMA HeapLemma ==
    ASSUME NEW h, NEW Out, HeapOK(h, Out)
    PROVE  /\ Out \subseteq DOMAIN h.size
           /\ \A c \in DOMAIN h.size : c \in Nat /\ h.size[c] \in Nat
<1>1. PICK cur \in Nat, free \in [Lists -> Seq(Nat)], size \in Sizes :
         /\ h = [cur |-> cur, free |-> free, size |-> size]
         /\ Laid(cur, size) /\ Accounted(free, size, Out)
  BY DEF HeapOK
<1>2. h.size = size
  BY <1>1
<1>3. Out \subseteq DOMAIN size
  BY <1>1 DEF Accounted
<1> QED
  BY <1>2, <1>3, SizesLemma

(* The pages before and after a chunk d, which the other chunks share.     *)
LEMMA FitLemma ==
    ASSUME NEW cur \in Nat, NEW size \in Sizes, Laid(cur, size),
           NEW S \in SUBSET DOMAIN size, NEW d \in DOMAIN size, d \notin S
    PROVE  /\ IsFiniteSet(S)
           /\ Cardinality(S) * heap_page + size[d] <= HeapSize
<1> DEFINE U == heap_page
           H == HeaderSize
           pos(c) == IF c < d THEN c - H ELSE c - H - (size[d] + H)
<1>1. U \in Nat /\ U > 0 /\ H \in Nat /\ HeapSize \in Nat /\ cur <= HeapSize
  BY PageType DEF Laid
<1>2. /\ d \in Nat /\ size[d] \in Nat /\ H <= d /\ d + size[d] <= cur
  BY LaidLemma
<1>3. \A c \in S : c \in Nat /\ size[c] \in Nat /\ H <= c /\ c + size[c] <= cur
  BY LaidLemma
<1>4. \A c \in S : U <= size[c] + H
  <2> TAKE c \in S
  <2>1. PICK b \in Nat : size[c] = ChunkBytes(b)
    BY DEF Laid
  <2> QED
    BY <2>1, SizedLemma
<1>5. PICK L \in Nat : L = HeapSize - size[d]
  BY <1>1, <1>2
<1>6. PICK M \in Nat : M = L \div U /\ M * U <= L /\ L < M * U + U
  BY <1>1, DivLemma
<1>7. ASSUME NEW c \in S
      PROVE  pos(c) \in Nat /\ pos(c) + U <= L
  <2>1. CASE c < d
    <3>1. c + size[c] <= d - H
      BY <2>1 DEF Laid
    <3> QED
      BY <1>1, <1>2, <1>3, <1>4, <1>5, <2>1, <3>1
  <2>2. CASE d < c
    <3>1. d + size[d] <= c - H
      BY <2>2 DEF Laid
    <3>2. ~(c < d)
      BY <1>2, <1>3, <2>2
    <3> QED
      BY <1>1, <1>2, <1>3, <1>4, <1>5, <2>2, <3>1, <3>2
  <2>3. c # d
    OBVIOUS
  <2> QED
    BY <1>2, <1>3, <2>1, <2>2, <2>3
<1>8. ASSUME NEW c \in S, NEW e \in S, c < e
      PROVE  pos(c) + U <= pos(e)
  <2>0. c + size[c] <= e - H
    BY <1>8 DEF Laid
  <2>1. CASE c < d /\ e < d
    BY <1>1, <1>3, <1>4, <2>0, <2>1
  <2>2. CASE d < c /\ d < e
    <3>1. ~(c < d) /\ ~(e < d)
      BY <1>2, <1>3, <2>2
    <3> QED
      BY <1>1, <1>2, <1>3, <1>4, <2>0, <3>1
  <2>3. CASE c < d /\ d < e
    <3>1. ~(e < d)
      BY <1>2, <1>3, <2>3
    <3>2. c + size[c] <= d - H /\ d + size[d] <= e - H
      BY <2>3 DEF Laid
    <3> QED
      BY <1>1, <1>2, <1>3, <1>4, <2>3, <3>1, <3>2
  <2>4. c # d /\ e # d
    OBVIOUS
  <2> QED
    BY <1>2, <1>3, <1>8, <2>1, <2>2, <2>3, <2>4
<1> HIDE DEF pos
<1> DEFINE page(c) == pos(c) \div U
<1>9. ASSUME NEW c \in S
      PROVE  page(c) \in Nat /\ page(c) * U <= pos(c) /\ pos(c) < page(c) * U + U
  BY <1>1, <1>7, DivLemma
<1> HIDE DEF page
<1>10. ASSUME NEW c \in S
       PROVE  page(c) \in 0..M - 1
  <2>1. page(c) * U < M * U
    BY <1>1, <1>6, <1>7, <1>9
  <2>2. page(c) < M
    BY <1>1, <1>9, <2>1, LessTimes
  <2> QED
    BY <1>6, <1>9, <2>2
<1>11. ASSUME NEW c \in S, NEW e \in S, page(c) = page(e)
       PROVE  c = e
  <2>1. ASSUME NEW x \in S, NEW y \in S, x < y
        PROVE  page(x) # page(y)
    <3>1. page(x) * U < page(y) * U
      BY <1>1, <1>7, <1>8, <1>9, <2>1
    <3> QED
      BY <1>1, <1>9, <3>1
  <2>2. c \in Nat /\ e \in Nat
    BY <1>3
  <2> QED
    BY <1>11, <2>1, <2>2
<1> DEFINE f == [c \in S |-> page(c)]
<1>12. f \in Injection(S, 0..M - 1)
  <2>1. f \in [S -> 0..M - 1]
    BY <1>10
  <2>2. \A c, e \in S : f[c] = f[e] => c = e
    BY <1>11
  <2> QED
    BY <2>1, <2>2 DEF Injection, IsInjective
<1>13. IsFiniteSet(0..M - 1) /\ Cardinality(0..M - 1) = M
  <2>1. 0 \in Int /\ M - 1 \in Int
    OBVIOUS
  <2>2. /\ IsFiniteSet(0..M - 1)
        /\ Cardinality(0..M - 1) = IF 0 > M - 1 THEN 0 ELSE (M - 1) - 0 + 1
    BY <2>1, FS_Interval
  <2> QED
    BY <2>2
<1>14. IsFiniteSet(S) /\ Cardinality(S) <= M
  <2> DEFINE T == 0..M - 1
  <2>1. f \in Injection(S, T) /\ IsFiniteSet(T) /\ Cardinality(T) = M
    BY <1>12, <1>13
  <2> HIDE DEF f, T
  <2>2. IsFiniteSet(S) /\ Cardinality(S) <= Cardinality(T)
    BY <2>1, FS_Injection
  <2> QED
    BY <2>1, <2>2
<1>15. Cardinality(S) \in Nat
  BY <1>14, FS_CardinalityType
<1>16. Cardinality(S) * U <= M * U
  BY <1>1, <1>14, <1>15
<1>17. Cardinality(S) * U \in Nat
  BY <1>1, <1>15
<1> QED
  BY <1>1, <1>2, <1>5, <1>6, <1>14, <1>16, <1>17

(* What a handler holds, has on its list and has counted; U is in use.     *)
Listing(size, o, U) ==
    /\ Distinct(o.list) /\ Elems(o.list) \cap U = {}
    /\ Elems(o.list) \cup U = ObjectsOf(size, o.chunks, o.obj_size)

Counted(o, U) ==
    /\ IsFiniteSet(U) /\ o.nr_allocated = o.nr_free + Cardinality(U)
    /\ o.nr_free - Len(o.list) \in 0..Cardinality(o.chunks)

Tabled(size, o) ==
    /\ o.slots > 0 /\ xhash_get_alloc_size(o.slots) <= size[o.hash]
    /\ o.hash \notin o.chunks

HandlerOK(size, t, o, U) ==
    /\ o \in Handler /\ o.obj_size = ObjSize[t]
    /\ HeldBy(o) \subseteq DOMAIN size /\ IsFiniteSet(o.chunks)
    /\ Tabled(size, o) /\ Listing(size, o, U) /\ Counted(o, U)

(* ... while the chunks in Rest are held by others.                        *)
HandOK(h, Rest, t, o, U) ==
    /\ HeapOK(h, Rest \cup HeldBy(o)) /\ Rest \cap HeldBy(o) = {}
    /\ HandlerOK(h.size, t, o, U)

LEMMA KeptRefl == ASSUME NEW h PROVE Kept(h, h)
  BY DEF Kept

LEMMA KeptTrans ==
    ASSUME NEW f, NEW g, NEW h, Kept(f, g), Kept(g, h)
    PROVE  Kept(f, h)
  BY DEF Kept

LEMMA ObjectsKept ==
    ASSUME NEW f, NEW g, Kept(f, g), NEW chunks \in SUBSET DOMAIN f.size, NEW n
    PROVE  ObjectsOf(g.size, chunks, n) = ObjectsOf(f.size, chunks, n)
<1>1. ASSUME NEW x \in Object, x[1] \in chunks
      PROVE  g.size[x[1]] = f.size[x[1]]
  BY <1>1 DEF Kept
<1> QED
  BY <1>1 DEF ObjectsOf

LEMMA HandlerKept ==
    ASSUME NEW f, NEW g, Kept(f, g), NEW t, NEW o, NEW U, HandlerOK(f.size, t, o, U)
    PROVE  HandlerOK(g.size, t, o, U)
<1>1. o.chunks \in SUBSET DOMAIN f.size /\ o.hash \in DOMAIN f.size
  BY DEF HandlerOK, HeldBy
<1>2. ObjectsOf(g.size, o.chunks, o.obj_size) = ObjectsOf(f.size, o.chunks, o.obj_size)
  BY <1>1, ObjectsKept
<1>3. g.size[o.hash] = f.size[o.hash] /\ HeldBy(o) \subseteq DOMAIN g.size
  BY <1>1 DEF Kept, HandlerOK
<1>4. Tabled(g.size, o)
  BY <1>3 DEF HandlerOK, Tabled
<1>5. Listing(g.size, o, U)
  BY <1>2 DEF HandlerOK, Listing
<1> QED
  BY <1>3, <1>4, <1>5 DEF HandlerOK

(* The table that a handler asks for when it grows is not larger than the  *)
(* heap: it grows only with its chunks, each of a page at least.           *)
LEMMA GrowFits ==
    ASSUME NEW h, NEW Rest, NEW t \in Handlers, NEW o, NEW U, HandOK(h, Rest, t, o, U),
           grow_check(o)
    PROVE  /\ xhash_get_alloc_size(2 * o.slots) \in Nat
           /\ xhash_get_alloc_size(2 * o.slots) <= HeapSize
<1>1. PICK cur \in Nat, free \in [Lists -> Seq(Nat)], size \in Sizes :
         /\ h = [cur |-> cur, free |-> free, size |-> size]
         /\ Laid(cur, size) /\ Accounted(free, size, Rest \cup HeldBy(o))
  BY DEF HandOK, HeapOK
<1>2. h.size = size
  BY <1>1
<1>3. /\ o.chunks \in SUBSET DOMAIN size /\ o.hash \in DOMAIN size /\ o.hash \notin o.chunks
      /\ XhashSize + 2 * PtrSize * o.slots <= size[o.hash] /\ o.slots \in Nat
  BY <1>2 DEF HandOK, HandlerOK, HeldBy, Tabled, Handler, xhash_get_alloc_size
<1>4. PICK u : u = Cardinality(o.chunks)
  OBVIOUS
<1>5. IsFiniteSet(o.chunks) /\ u * heap_page + size[o.hash] <= HeapSize
  BY <1>1, <1>3, <1>4, FitLemma
<1>6. u \in Nat
  BY <1>4, <1>5, FS_CardinalityType
<1>7. u \div 2 + u >= o.slots
  BY <1>4 DEF grow_check
<1>8. 2 * o.slots <= 3 * u
  BY <1>3, <1>6, <1>7
<1>9. PICK k \in Nat : k = o.slots
  BY <1>3
<1>10. PICK P \in Nat : P = PtrSize /\ 3 * P <= heap_page /\ heap_page \in Nat
  BY PageType
<1>11. P * (2 * k) <= P * (3 * u)
  BY <1>6, <1>8, <1>9, <1>10
<1>12. (3 * P) * u <= heap_page * u
  BY <1>6, <1>10
<1>13. PICK x \in Nat : x = P * k
  OBVIOUS
<1>14. P * (2 * k) = 2 * x /\ 2 * P * k = 2 * x /\ 2 * P * (2 * k) = 4 * x
  BY <1>13
<1>15. PICK y \in Nat : y = u * heap_page
  BY <1>6, <1>10
<1>16. P * (3 * u) <= y
  BY <1>6, <1>10, <1>12, <1>15
<1>17. 2 * x <= y
  BY <1>6, <1>11, <1>14, <1>16
<1>18. XhashSize \in Nat /\ HeapSize \in Nat /\ size[o.hash] \in Nat
  BY <1>3, SizesLemma, ObjectsAssumption
<1>19. XhashSize + 4 * x <= HeapSize
  BY <1>3, <1>5, <1>9, <1>10, <1>14, <1>15, <1>17, <1>18
<1>20. xhash_get_alloc_size(2 * o.slots) = XhashSize + 4 * x
  BY <1>9, <1>10, <1>14 DEF xhash_get_alloc_size
<1> QED
  BY <1>18, <1>19, <1>20

InsertOK(h, Rest, t, o, U, ins) ==
    /\ Kept(h, ins.heap) /\ HandOK(ins.heap, Rest, t, ins.obj_h, U)
    /\ ins.obj_h.self = o.self

LEMMA InsertLemma ==
    ASSUME NEW h, NEW Rest, NEW t \in Handlers, NEW o, NEW U, HandOK(h, Rest, t, o, U)
    PROVE  InsertOK(h, Rest, t, o, U, HashInsert(h, o))
<1>1. PICK ins : ins = HashInsert(h, o)
  OBVIOUS
<1>2. CASE ~grow_check(o)
  <2>1. ins.heap = h /\ ins.obj_h = o
    BY <1>1, <1>2 DEF HashInsert
  <2> QED
    BY <1>1, <2>1, KeptRefl DEF InsertOK
<1>3. CASE grow_check(o)
  <2>1. PICK b \in Nat : b = xhash_get_alloc_size(2 * o.slots) /\ b <= HeapSize
    BY <1>3, GrowFits
  <2>2. PICK new : new = xheap_allocate(h, b)
    OBVIOUS
  <2>3. HeapOK(h, Rest \cup HeldBy(o)) /\ Rest \cap HeldBy(o) = {}
    BY DEF HandOK
  <2>4. AllocOK(h, Rest \cup HeldBy(o), b, new)
    BY <2>1, <2>2, <2>3, AllocateLemma
  <2>5. HandlerOK(h.size, t, o, U)
    BY DEF HandOK
  <2>6. HandlerOK(new.heap.size, t, o, U)
    BY <2>4, <2>5, HandlerKept DEF AllocOK
  <2>7. ins = Rehashed(new, o)
    BY <1>1, <1>3, <2>1, <2>2 DEF HashInsert
  <2>8. CASE new.addr = NULL
    <3>1. ins.heap = new.heap /\ ins.obj_h = o
      BY <2>7, <2>8 DEF Rehashed
    <3>2. HandOK(new.heap, Rest, t, o, U)
      BY <2>3, <2>4, <2>6, <2>8 DEF AllocOK, HandOK
    <3> QED
      BY <1>1, <2>4, <3>1, <3>2 DEF InsertOK, AllocOK
  <2>9. CASE new.addr # NULL
    <3>1. PICK a \in Nat : /\ a = new.addr /\ a \notin Rest \cup HeldBy(o)
                           /\ HeapOK(new.heap, Rest \cup HeldBy(o) \cup {a})
                           /\ new.heap.size[a] = ChunkBytes(b)
      BY <2>4, <2>9 DEF AllocOK
    <3>2. PICK g : g = xheap_free(new.heap, o.hash)
      OBVIOUS
    <3>3. o \in Handler /\ o.hash \in HeldBy(o) /\ o.hash \notin o.chunks /\ o.hash \notin Rest
      BY <2>3, <2>5 DEF HandlerOK, Tabled, HeldBy
    <3>4. HeapOK(g, (Rest \cup HeldBy(o) \cup {a}) \ {o.hash}) /\ g.size = new.heap.size
      BY <3>1, <3>2, <3>3, FreeLemma
    <3>5. PICK p : p = [o EXCEPT !.hash = a, !.slots = 2 * o.slots]
      OBVIOUS
    <3>6. o.slots \in Nat /\ o.slots > 0 /\ 2 * o.slots \in Nat /\ 2 * o.slots > 0
      BY <2>5, <3>3 DEF Handler, HandlerOK, Tabled
    <3>7. /\ p \in Handler /\ p.hash = a /\ p.slots = 2 * o.slots
          /\ p.self = o.self /\ p.obj_size = o.obj_size /\ p.chunks = o.chunks
          /\ p.list = o.list /\ p.nr_free = o.nr_free /\ p.nr_allocated = o.nr_allocated
      BY <3>3, <3>5, <3>6 DEF Handler
    <3>8. ins.heap = g /\ ins.obj_h = p
      <4>1. p = [o EXCEPT !.hash = new.addr, !.slots = 2 * @]
        BY <3>1, <3>5
      <4> QED
        BY <2>7, <2>9, <3>2, <4>1 DEF Rehashed
    <3>9. (Rest \cup HeldBy(o) \cup {a}) \ {o.hash} = Rest \cup HeldBy(p)
      BY <3>1, <3>3, <3>7 DEF HeldBy
    <3>10. Rest \cap HeldBy(p) = {}
      BY <2>3, <3>1, <3>7 DEF HeldBy
    <3>11. a \in DOMAIN g.size
      BY <3>4, <3>7, <3>9, HeapLemma DEF HeldBy
    <3>12. HandlerOK(g.size, t, p, U)
      <4>1. HeldBy(p) \subseteq DOMAIN g.size /\ IsFiniteSet(p.chunks) /\ p.obj_size = ObjSize[t]
        BY <2>6, <3>4, <3>7, <3>11 DEF HandlerOK, HeldBy
      <4>2. b <= ChunkBytes(b)
        BY SizedLemma
      <4>3. Tabled(g.size, p)
        BY <2>1, <3>1, <3>4, <3>6, <3>7, <4>2 DEF Tabled, HeldBy
      <4>4. Listing(g.size, p, U)
        BY <2>6, <3>4, <3>7 DEF HandlerOK, Listing
      <4>5. Counted(p, U)
        BY <2>6, <3>7 DEF HandlerOK, Counted
      <4> QED
        BY <3>7, <4>1, <4>3, <4>4, <4>5 DEF HandlerOK
    <3>13. Kept(h, g)
      BY <2>4, <3>4 DEF AllocOK, Kept
    <3>14. HandOK(g, Rest, t, p, U)
      BY <3>4, <3>9, <3>10, <3>12 DEF HandOK
    <3> QED
      BY <1>1, <3>7, <3>8, <3>13, <3>14 DEF InsertOK
  <2> QED
    BY <2>8, <2>9
<1> QED
  BY <1>2, <1>3

(* The chunk mem, whose objects are threaded, becomes one of the handler's. *)
ListedOK(h, Rest, t, o, U, p) ==
    HandOK(h, Rest, t, p, U) /\ p.list # <<>> /\ p.self = o.self

LEMMA ListedLemma ==
    ASSUME NEW h, NEW Rest, NEW t \in Handlers, NEW o, NEW U, NEW mem \in Nat,
           HandOK(h, Rest \cup {mem}, t, o, U), mem \notin Rest,
           NEW th, ThreadedOK(mem, h.size[mem], o.obj_size, th),
           NEW num, num = h.size[mem] \div o.obj_size
    PROVE  ListedOK(h, Rest, t, o, U, WithChunk(o, mem, th, num))
<1>0. PICK p : p = WithChunk(o, mem, th, num)
  OBVIOUS
<1>1. /\ HeapOK(h, (Rest \cup {mem}) \cup HeldBy(o)) /\ (Rest \cup {mem}) \cap HeldBy(o) = {}
      /\ HandlerOK(h.size, t, o, U)
  BY DEF HandOK
<1>2. /\ o \in Handler /\ o.obj_size = ObjSize[t] /\ IsFiniteSet(o.chunks)
      /\ HeldBy(o) \subseteq DOMAIN h.size
      /\ Tabled(h.size, o) /\ Listing(h.size, o, U) /\ Counted(o, U)
  BY <1>1 DEF HandlerOK
<1>3. PICK s, n : s = h.size[mem] /\ n = o.obj_size
  OBVIOUS
<1>4. /\ th \in Seq(Object) /\ Distinct(th) /\ Len(th) = (s - 1) \div n /\ Len(th) > 0
      /\ Elems(th) = {x \in Object : x[1] = mem /\ x[2] < (s - 1) \div n}
      /\ s \div n - Len(th) \in 0..1 /\ s \div n \in Nat
  BY <1>3 DEF ThreadedOK
<1>5. PICK k \in Nat : k = s \div n
  BY <1>4
<1>6. /\ o.list \in Seq(Object) /\ o.nr_free \in Int /\ o.nr_allocated \in Int
      /\ o.chunks \in SUBSET Nat /\ Len(o.list) \in Nat /\ Len(th) \in Nat
  BY <1>2, <1>4 DEF Handler
<1>7. Elems(th) \cap Elems(o.list) = {} /\ Elems(th) \cap U = {}
  <2>1. \A x \in Elems(o.list) \cup U : x[1] \in o.chunks
    BY <1>2 DEF Listing, ObjectsOf
  <2>2. \A x \in Elems(th) : x[1] = mem
    BY <1>4
  <2>3. mem \notin o.chunks
    BY <1>1 DEF HeldBy
  <2> QED
    BY <2>1, <2>2, <2>3
<1>8. PICK l : l = th \o o.list
  OBVIOUS
<1>9. /\ l \in Seq(Object) /\ Len(l) = Len(th) + Len(o.list) /\ Distinct(l)
      /\ Elems(l) = Elems(th) \cup Elems(o.list)
  <2>1. Distinct(o.list)
    BY <1>2 DEF Listing
  <2>2. Distinct(th) /\ th \in Seq(Object)
    BY <1>4
  <2> QED
    BY <2>1, <2>2, <1>6, <1>7, <1>8, ConcatLemma
<1>10. PICK C : C = o.chunks \cup {mem}
  OBVIOUS
<1>11. C \in SUBSET Nat
  BY <1>6, <1>10
<1>12. PICK nf, na \in Int : nf = o.nr_free + k /\ na = o.nr_allocated + k
  BY <1>6
<1>13. p = [o EXCEPT !.chunks = C, !.nr_free = nf, !.nr_allocated = na, !.list = l]
  BY <1>0, <1>3, <1>5, <1>8, <1>10, <1>12 DEF WithChunk
<1>14. /\ p \in Handler /\ p.hash = o.hash /\ p.slots = o.slots
       /\ p.self = o.self /\ p.obj_size = o.obj_size /\ p.chunks = C
       /\ p.list = l /\ p.nr_free = nf /\ p.nr_allocated = na
  BY <1>2, <1>9, <1>11, <1>12, <1>13 DEF Handler
<1>15. HeldBy(p) = HeldBy(o) \cup {mem}
  BY <1>10, <1>14 DEF HeldBy
<1>16. (Rest \cup {mem}) \cup HeldBy(o) = Rest \cup HeldBy(p) /\ Rest \cap HeldBy(p) = {}
  BY <1>1, <1>15
<1>17. HeapOK(h, Rest \cup HeldBy(p))
  BY <1>1, <1>16
<1>18. mem \in DOMAIN h.size
  BY <1>15, <1>17, HeapLemma
<1>19. Tabled(h.size, p)
  BY <1>1, <1>2, <1>10, <1>14 DEF Tabled, HeldBy
<1>20. Listing(h.size, p, U)
  <2>1. ObjectsOf(h.size, C, n) = Elems(th) \cup ObjectsOf(h.size, o.chunks, n)
    BY <1>3, <1>4, <1>10 DEF ObjectsOf
  <2> QED
    BY <1>2, <1>3, <1>7, <1>9, <1>14, <2>1 DEF Listing
<1>21. IsFiniteSet(C) /\ Cardinality(C) = Cardinality(o.chunks) + 1 /\ Cardinality(o.chunks) \in Nat
  <2>1. mem \notin o.chunks
    BY <1>1 DEF HeldBy
  <2> QED
    BY <1>2, <1>10, <2>1, FS_AddElement, FS_CardinalityType
<1>22. Counted(p, U)
  <2>1. /\ IsFiniteSet(U) /\ o.nr_allocated = o.nr_free + Cardinality(U)
        /\ o.nr_free - Len(o.list) \in 0..Cardinality(o.chunks)
    BY <1>2 DEF Counted
  <2>2. Cardinality(U) \in Nat
    BY <2>1, FS_CardinalityType
  <2>3. na = nf + Cardinality(U)
    BY <1>6, <1>12, <2>1, <2>2
  <2>4. nf - Len(l) \in 0..Cardinality(C)
    <3>1. k - Len(th) \in 0..1 /\ Len(l) = Len(th) + Len(o.list)
      BY <1>4, <1>5, <1>9
    <3>2. PICK a \in Int, m \in Nat, c \in Nat, w \in Nat :
             a = o.nr_free /\ m = Len(o.list) /\ c = Cardinality(o.chunks) /\ w = Len(th)
      BY <1>6, <1>21
    <3>3. a - m \in 0..c /\ k - w \in 0..1 /\ Len(l) = w + m /\ nf = a + k
      BY <1>12, <2>1, <3>1, <3>2
    <3>4. nf - Len(l) \in 0..c + 1
      BY <3>3
    <3> QED
      BY <1>21, <3>2, <3>4
  <2> QED
    BY <1>14, <2>1, <2>3, <2>4 DEF Counted
<1>23. HandlerOK(h.size, t, p, U)
  BY <1>2, <1>14, <1>15, <1>18, <1>19, <1>20, <1>21, <1>22 DEF HandlerOK
<1>24. l # <<>>
  BY <1>4, <1>6, <1>9
<1> QED
  BY <1>0, <1>14, <1>16, <1>17, <1>23, <1>24 DEF HandOK, ListedOK

(* xobj_alloc_obj: more objects on the list, or nothing has changed but    *)
(* for the size of the table.                                              *)
AllocObjOK(h, Rest, t, o, U, got) ==
    /\ Kept(h, got.heap) /\ HandOK(got.heap, Rest, t, got.obj_h, U)
    /\ got.obj_h.self = o.self
    /\ ~(got.r < 0) => got.obj_h.list # <<>>

LEMMA AllocObjLemma ==
    ASSUME NEW h, NEW Rest, NEW t \in Handlers, NEW o, NEW U, HandOK(h, Rest, t, o, U),
           NEW nr \in Nat, nr * o.obj_size <= HeapSize
    PROVE  AllocObjOK(h, Rest, t, o, U, xobj_alloc_obj(h, o, nr))
<1>1. PICK res : res = xobj_alloc_obj(h, o, nr)
  OBVIOUS
<1>2. /\ HeapOK(h, Rest \cup HeldBy(o)) /\ Rest \cap HeldBy(o) = {}
      /\ HandlerOK(h.size, t, o, U)
  BY DEF HandOK
<1>3. o.obj_size \in Nat /\ o.obj_size > 0
  BY <1>2, ObjectsAssumption DEF HandlerOK
<1>4. PICK b \in Nat : b = nr * o.obj_size /\ b <= HeapSize
  BY <1>3
<1>5. PICK got : got = xheap_allocate(h, b)
  OBVIOUS
<1>6. AllocOK(h, Rest \cup HeldBy(o), b, got)
  BY <1>2, <1>4, <1>5, AllocateLemma
<1>7. HandlerOK(got.heap.size, t, o, U) /\ Kept(h, got.heap)
  BY <1>2, <1>6, HandlerKept DEF AllocOK
<1>8. res = ChunkFor(got, o)
  BY <1>1, <1>4, <1>5 DEF xobj_alloc_obj
<1>9. CASE got.addr = NULL
  <2>1. res = [heap |-> got.heap, obj_h |-> o, r |-> -1]
    BY <1>8, <1>9 DEF ChunkFor
  <2>2. res.heap = got.heap /\ res.obj_h = o /\ res.r = -1
    BY <2>1
  <2>3. HandOK(got.heap, Rest, t, o, U)
    BY <1>2, <1>6, <1>7, <1>9 DEF AllocOK, HandOK
  <2> QED
    BY <1>1, <1>7, <2>2, <2>3 DEF AllocObjOK
<1>10. CASE got.addr # NULL
  <2>1. PICK mem \in Nat : /\ mem = got.addr /\ mem \notin Rest \cup HeldBy(o)
                           /\ HeapOK(got.heap, Rest \cup HeldBy(o) \cup {mem})
    BY <1>6, <1>10 DEF AllocOK
  <2>2. mem \in DOMAIN got.heap.size
    BY <2>1, HeapLemma
  <2>3. PICK s \in Nat : s = got.heap.size[mem]
    BY <2>1, <2>2, HeapLemma
  <2>4. PICK n \in Nat : n = o.obj_size /\ n > 0
    BY <1>3
  <2>5. PICK th : th = Threaded(mem, s, n)
    OBVIOUS
  <2>6. res = Split(got, o, s)
    BY <1>8, <1>10, <2>1, <2>3 DEF ChunkFor
  <2>7. CASE th = <<>>
    <3>1. PICK g : g = xheap_free(got.heap, mem)
      OBVIOUS
    <3>2. res = [heap |-> g, obj_h |-> o, r |-> -1]
      BY <2>1, <2>4, <2>5, <2>6, <2>7, <3>1 DEF Split
    <3>3. HeapOK(g, (Rest \cup HeldBy(o) \cup {mem}) \ {mem}) /\ g.size = got.heap.size
      BY <2>1, <3>1, FreeLemma
    <3>4. (Rest \cup HeldBy(o) \cup {mem}) \ {mem} = Rest \cup HeldBy(o)
      BY <2>1
    <3>5. HandOK(g, Rest, t, o, U)
      BY <1>2, <1>7, <3>3, <3>4 DEF HandOK
    <3>6. Kept(h, g)
      BY <1>7, <3>3 DEF Kept
    <3>7. res.heap = g /\ res.obj_h = o /\ res.r = -1
      BY <3>2
    <3> QED
      BY <1>1, <3>5, <3>6, <3>7 DEF AllocObjOK
  <2>8. CASE th # <<>>
    <3>1. ThreadedOK(mem, s, n, th)
      BY <2>4, <2>5, <2>8, ThreadedLemma
    <3>2. HandOK(got.heap, Rest \cup {mem}, t, o, U)
      <4>1. (Rest \cup {mem}) \cup HeldBy(o) = Rest \cup HeldBy(o) \cup {mem}
        OBVIOUS
      <4>2. (Rest \cup {mem}) \cap HeldBy(o) = {}
        BY <1>2, <2>1
      <4>3. HeapOK(got.heap, (Rest \cup {mem}) \cup HeldBy(o))
        BY <2>1, <4>1
      <4> QED
        BY <1>7, <4>2, <4>3 DEF HandOK
    <3>3. PICK ins : ins = HashInsert(got.heap, o)
      OBVIOUS
    <3>4. InsertOK(got.heap, Rest \cup {mem}, t, o, U, ins)
      BY <3>2, <3>3, InsertLemma
    <3>5. PICK g, q : g = ins.heap /\ q = ins.obj_h
      OBVIOUS
    <3>6. Kept(got.heap, g) /\ HandOK(g, Rest \cup {mem}, t, q, U) /\ q.self = o.self
      BY <3>4, <3>5 DEF InsertOK
    <3>7. res = Listed(ins, mem, th, s \div n)
      BY <2>1, <2>4, <2>5, <2>6, <2>8, <3>3 DEF Split
    <3>8. Kept(h, g)
      BY <1>7, <3>6, KeptTrans
    <3>9. /\ HeapOK(g, (Rest \cup {mem}) \cup HeldBy(q)) /\ (Rest \cup {mem}) \cap HeldBy(q) = {}
          /\ HandlerOK(g.size, t, q, U)
      BY <3>6 DEF HandOK
    <3>10. PICK i : ins = [heap |-> g, obj_h |-> q, r |-> i]
      <4>1. \E a, c, i : ins = [heap |-> a, obj_h |-> c, r |-> i]
        BY <3>3 DEF HashInsert, Rehashed
      <4>2. PICK a, c, i : ins = [heap |-> a, obj_h |-> c, r |-> i]
        BY <4>1
      <4>3. a = g /\ c = q
        BY <3>5, <4>2
      <4> QED
        BY <4>2, <4>3
    <3>11. CASE i < 0
      <4>1. PICK e : e = xheap_free(g, mem)
        OBVIOUS
      <4>2. res = [ins EXCEPT !.heap = e]
        BY <3>5, <3>7, <3>10, <3>11, <4>1 DEF Listed
      <4>3. res.heap = e /\ res.obj_h = q /\ res.r = i
        BY <3>10, <4>2
      <4>4. HeapOK(e, ((Rest \cup {mem}) \cup HeldBy(q)) \ {mem}) /\ e.size = g.size
        BY <3>9, <4>1, FreeLemma
      <4>5. ((Rest \cup {mem}) \cup HeldBy(q)) \ {mem} = Rest \cup HeldBy(q)
        BY <2>1, <3>9
      <4>6. HandOK(e, Rest, t, q, U)
        BY <3>9, <4>4, <4>5 DEF HandOK
      <4>7. Kept(h, e)
        BY <3>8, <4>4 DEF Kept
      <4> QED
        BY <1>1, <3>6, <3>11, <4>3, <4>6, <4>7 DEF AllocObjOK
    <3>12. CASE ~(i < 0)
      <4>1. g.size[mem] = s /\ q.obj_size = n
        BY <1>7, <2>2, <2>3, <2>4, <3>6, <3>9 DEF Kept, HandlerOK
      <4>2. PICK p : p = WithChunk(q, mem, th, s \div n)
        OBVIOUS
      <4>3. HandOK(g, Rest, t, p, U) /\ p.list # <<>> /\ p.self = q.self
        <5>1. ThreadedOK(mem, g.size[mem], q.obj_size, th)
          BY <3>1, <4>1
        <5>2. s \div n = g.size[mem] \div q.obj_size
          BY <4>1
        <5>3. mem \notin Rest
          BY <2>1
        <5> QED
          <6>1. ListedOK(g, Rest, t, q, U, WithChunk(q, mem, th, s \div n))
            BY <2>1, <3>6, <5>1, <5>2, <5>3, ListedLemma
          <6> QED
            BY <4>2, <6>1 DEF ListedOK
      <4>4. res = [ins EXCEPT !.obj_h = p]
        <5>1. ~(ins.r < 0)
          BY <3>10, <3>12
        <5> QED
          BY <3>5, <3>7, <4>2, <5>1 DEF Listed
      <4>5. res.heap = g /\ res.obj_h = p
        BY <3>10, <4>4
      <4> QED
        BY <1>1, <3>6, <3>8, <4>3, <4>5 DEF AllocObjOK
    <3> QED
      BY <3>11, <3>12
  <2> QED
    BY <2>7, <2>8
<1> QED
  BY <1>9, <1>10

(* A handler of which only the list and the count of what is free change.  *)
Relisted(o, l, n) == [o EXCEPT !.list = l, !.nr_free = n]

Relists(o, U, l, n, V) ==
    /\ l \in Seq(Object) /\ n \in Int
    /\ Distinct(l) /\ Elems(l) \cap V = {} /\ Elems(l) \cup V = Elems(o.list) \cup U
    /\ IsFiniteSet(V) /\ o.nr_allocated = n + Cardinality(V)
    /\ n - Len(l) = o.nr_free - Len(o.list)

PutOK(h, Rest, t, o, U, p) == HandOK(h, Rest, t, p, U) /\ p.self = o.self

LEMMA RelistLemma ==
    ASSUME NEW h, NEW Rest, NEW t, NEW o, NEW U, HandOK(h, Rest, t, o, U),
           NEW l, NEW n, NEW V, Relists(o, U, l, n, V)
    PROVE  PutOK(h, Rest, t, o, V, Relisted(o, l, n))
<1>0. PICK p : p = Relisted(o, l, n)
  OBVIOUS
<1>1. /\ HeapOK(h, Rest \cup HeldBy(o)) /\ Rest \cap HeldBy(o) = {}
      /\ HandlerOK(h.size, t, o, U)
  BY DEF HandOK
<1>2. /\ o \in Handler /\ o.obj_size = ObjSize[t] /\ IsFiniteSet(o.chunks)
      /\ HeldBy(o) \subseteq DOMAIN h.size
      /\ Tabled(h.size, o) /\ Listing(h.size, o, U) /\ Counted(o, U)
  BY <1>1 DEF HandlerOK
<1>3. /\ p \in Handler /\ p.hash = o.hash /\ p.slots = o.slots
      /\ p.self = o.self /\ p.obj_size = o.obj_size /\ p.chunks = o.chunks
      /\ p.list = l /\ p.nr_free = n /\ p.nr_allocated = o.nr_allocated
  BY <1>0, <1>2 DEF Handler, Relisted, Relists
<1>4. HeldBy(p) = HeldBy(o)
  BY <1>3 DEF HeldBy
<1>5. Tabled(h.size, p)
  BY <1>2, <1>3 DEF Tabled
<1>6. Listing(h.size, p, V)
  BY <1>2, <1>3 DEF Listing, Relists
<1>7. Counted(p, V)
  BY <1>2, <1>3 DEF Counted, Relists
<1>8. HandlerOK(h.size, t, p, V)
  BY <1>2, <1>3, <1>4, <1>5, <1>6, <1>7 DEF HandlerOK
<1> QED
  BY <1>0, <1>1, <1>3, <1>4, <1>8 DEF HandOK, PutOK

LEMMA PutLemma ==
    ASSUME NEW h, NEW Rest, NEW t, NEW o, NEW U, HandOK(h, Rest, t, o, U), NEW obj \in U
    PROVE  PutOK(h, Rest, t, o, U \ {obj}, xobj_put_obj(o, obj))
<1>1. PICK p : p = xobj_put_obj(o, obj)
  OBVIOUS
<1>2. /\ o \in Handler /\ Listing(h.size, o, U) /\ Counted(o, U)
  BY DEF HandOK, HandlerOK
<1>3. /\ o.list \in Seq(Object) /\ o.nr_free \in Int /\ o.nr_allocated \in Int
      /\ Len(o.list) \in Nat
  BY <1>2 DEF Handler
<1>4. /\ obj \in Object /\ obj \notin Elems(o.list) /\ Distinct(o.list)
      /\ Elems(o.list) \cap U = {}
  BY <1>2 DEF Listing, ObjectsOf
<1>5. PICK l : l = <<obj>> \o o.list
  OBVIOUS
<1>6. /\ l \in Seq(Object) /\ Len(l) = Len(o.list) + 1 /\ Distinct(l)
      /\ Elems(l) = {obj} \cup Elems(o.list)
  BY <1>3, <1>4, <1>5, ConsLemma
<1>7. PICK n \in Int : n = o.nr_free + 1
  BY <1>3
<1>8. PICK V : V = U \ {obj}
  OBVIOUS
<1>9. IsFiniteSet(U) /\ o.nr_allocated = o.nr_free + Cardinality(U)
  BY <1>2 DEF Counted
<1>10. IsFiniteSet(V) /\ Cardinality(V) = Cardinality(U) - 1 /\ Cardinality(U) \in Nat
  BY <1>8, <1>9, FS_RemoveElement, FS_CardinalityType
<1>11. o.nr_allocated = n + Cardinality(V) /\ n - Len(l) = o.nr_free - Len(o.list)
  <2>1. PICK a \in Int, f \in Int, c \in Nat, m \in Nat :
           a = o.nr_allocated /\ f = o.nr_free /\ c = Cardinality(U) /\ m = Len(o.list)
    BY <1>3, <1>10
  <2>2. a = f + c /\ n = f + 1 /\ Cardinality(V) = c - 1 /\ Len(l) = m + 1
    BY <1>6, <1>7, <1>9, <1>10, <2>1
  <2>3. a = n + (c - 1) /\ n - (m + 1) = f - m
    BY <2>2
  <2> QED
    BY <2>1, <2>2, <2>3
<1>12. p = Relisted(o, l, n)
  BY <1>1, <1>5, <1>7 DEF xobj_put_obj, Relisted
<1>13. Elems(l) \cap V = {} /\ Elems(l) \cup V = Elems(o.list) \cup U
  BY <1>4, <1>6, <1>8
<1>14. HandOK(h, Rest, t, p, V) /\ p.self = o.self
  <2>1. Relists(o, U, l, n, V)
    BY <1>6, <1>7, <1>10, <1>11, <1>13 DEF Relists
  <2>2. PutOK(h, Rest, t, o, V, Relisted(o, l, n))
    BY <2>1, RelistLemma
  <2> QED
    BY <1>12, <2>2 DEF PutOK
<1> QED
  BY <1>1, <1>8, <1>14 DEF PutOK

GetOK(h, Rest, t, o, U, got) ==
    /\ Kept(h, got.heap) /\ got.obj_h.self = o.self
    /\ got.obj = NULL => HandOK(got.heap, Rest, t, got.obj_h, U)
    /\ got.obj # NULL => /\ got.obj \in Object /\ got.obj \notin U
                         /\ HandOK(got.heap, Rest, t, got.obj_h, U \cup {got.obj})

LEMMA FirstLemma ==
    ASSUME NEW h, NEW Rest, NEW t, NEW o, NEW U, HandOK(h, Rest, t, o, U), o.list # <<>>
    PROVE  \E p : /\ p = [o EXCEPT !.list = Tail(@), !.nr_free = @ - 1]
                  /\ PutOK(h, Rest, t, o, U \cup {Head(o.list)}, p)
                  /\ Head(o.list) \in Object /\ Head(o.list) \notin U
<1>1. PICK p : p = [o EXCEPT !.list = Tail(@), !.nr_free = @ - 1]
  OBVIOUS
<1>2. /\ o \in Handler /\ Listing(h.size, o, U) /\ Counted(o, U)
  BY DEF HandOK, HandlerOK
<1>3. /\ o.list \in Seq(Object) /\ o.nr_free \in Int /\ o.nr_allocated \in Int
      /\ Len(o.list) \in Nat
  BY <1>2 DEF Handler
<1>4. Distinct(o.list) /\ Elems(o.list) \cap U = {}
  BY <1>2 DEF Listing
<1>5. PICK l, a : l = Tail(o.list) /\ a = Head(o.list)
  OBVIOUS
<1>6. /\ l \in Seq(Object) /\ Len(l) = Len(o.list) - 1 /\ Distinct(l)
      /\ Elems(l) = Elems(o.list) \ {a} /\ a \in Elems(o.list) /\ a \in Object
  BY <1>3, <1>4, <1>5, TailLemma
<1>7. PICK n \in Int : n = o.nr_free - 1
  BY <1>3
<1>8. PICK V : V = U \cup {a}
  OBVIOUS
<1>9. IsFiniteSet(U) /\ o.nr_allocated = o.nr_free + Cardinality(U) /\ a \notin U
  BY <1>2, <1>4, <1>6 DEF Counted
<1>10. IsFiniteSet(V) /\ Cardinality(V) = Cardinality(U) + 1 /\ Cardinality(U) \in Nat
  BY <1>8, <1>9, FS_AddElement, FS_CardinalityType
<1>11. o.nr_allocated = n + Cardinality(V) /\ n - Len(l) = o.nr_free - Len(o.list)
  <2>1. PICK f \in Int, m \in Nat, u \in Nat :
           f = o.nr_free /\ m = Len(o.list) /\ u = Cardinality(U)
    BY <1>3, <1>10
  <2>2. o.nr_allocated = f + u /\ n = f - 1 /\ Len(l) = m - 1 /\ Cardinality(V) = u + 1
    BY <1>6, <1>7, <1>9, <1>10, <2>1
  <2>3. f + u = n + (u + 1) /\ n - (m - 1) = f - m
    BY <2>2
  <2> QED
    BY <2>1, <2>2, <2>3
<1>12. p = Relisted(o, l, n)
  BY <1>1, <1>5, <1>7 DEF Relisted
<1>13. Elems(l) \cap V = {} /\ Elems(l) \cup V = Elems(o.list) \cup U
  BY <1>4, <1>6, <1>8
<1>14. HandOK(h, Rest, t, p, V) /\ p.self = o.self
  <2>1. Relists(o, U, l, n, V)
    BY <1>6, <1>7, <1>10, <1>11, <1>13 DEF Relists
  <2>2. PutOK(h, Rest, t, o, V, Relisted(o, l, n))
    BY <2>1, RelistLemma
  <2> QED
    BY <1>12, <2>2 DEF PutOK
<1>15. PutOK(h, Rest, t, o, U \cup {Head(o.list)}, p)
  BY <1>5, <1>8, <1>14 DEF PutOK
<1> QED
  BY <1>1, <1>5, <1>6, <1>9, <1>15

LEMMA GetLemma ==
    ASSUME NEW h, NEW Rest, NEW t \in Handlers, NEW o, NEW U, HandOK(h, Rest, t, o, U)
    PROVE  GetOK(h, Rest, t, o, U, xobj_get_obj(h, o))
<1>1. PICK got : got = IF o.list # <<>> THEN [heap |-> h, obj_h |-> o, r |-> 0]
                       ELSE xobj_alloc_obj(h, o, AllocNr)
  OBVIOUS
<1>2. PICK res : res = xobj_get_obj(h, o)
  OBVIOUS
<1>3. res = First(got)
  BY <1>1, <1>2 DEF xobj_get_obj
<1>4. AllocObjOK(h, Rest, t, o, U, got)
  <2>1. CASE o.list # <<>>
    <3>1. got.heap = h /\ got.obj_h = o
      BY <1>1, <2>1
    <3> QED
      BY <2>1, <3>1, KeptRefl DEF AllocObjOK
  <2>2. CASE o.list = <<>>
    <3>1. AllocNr \in Nat /\ AllocNr * o.obj_size <= HeapSize
      BY ObjectsAssumption, RequestsFit DEF HandOK, HandlerOK
    <3> QED
      BY <1>1, <2>2, <3>1, AllocObjLemma
  <2> QED
    BY <2>1, <2>2
<1>5. CASE got.r < 0
  <2>1. res.heap = got.heap /\ res.obj_h = got.obj_h /\ res.obj = NULL
    BY <1>3, <1>5 DEF First
  <2> QED
    BY <1>2, <1>4, <2>1 DEF GetOK, AllocObjOK
<1>6. CASE ~(got.r < 0)
  <2>1. PICK q, g : q = got.obj_h /\ g = got.heap
    OBVIOUS
  <2>2. HandOK(g, Rest, t, q, U) /\ q.list # <<>> /\ q.self = o.self /\ Kept(h, g)
    BY <1>4, <1>6, <2>1 DEF AllocObjOK
  <2>3. PICK p : /\ p = [q EXCEPT !.list = Tail(@), !.nr_free = @ - 1]
                 /\ PutOK(g, Rest, t, q, U \cup {Head(q.list)}, p)
                 /\ Head(q.list) \in Object /\ Head(q.list) \notin U
    BY <2>2, FirstLemma
  <2>4. res.heap = g /\ res.obj_h = p /\ res.obj = Head(q.list)
    BY <1>3, <1>6, <2>1, <2>3 DEF First
  <2>5. res.obj # NULL
    BY <2>3, <2>4, NullAssumption
  <2>6. HandOK(g, Rest, t, p, U \cup {res.obj}) /\ p.self = o.self
    BY <2>2, <2>3, <2>4 DEF PutOK
  <2> QED
    BY <1>2, <2>2, <2>3, <2>4, <2>5, <2>6 DEF GetOK
<1> QED
  BY <1>5, <1>6

(* A handler that has just been made.                                      *)
MadeOK(h, Rest, t, self, made) ==
    /\ Kept(h, made.heap)
    /\ made.obj_h = NULL => HeapOK(made.heap, Rest)
    /\ made.obj_h # NULL => /\ HandOK(made.heap, Rest, t, made.obj_h, {})
                            /\ made.obj_h.self = self

LEMMA HandlerInitLemma ==
    ASSUME NEW h, NEW Rest, NEW t \in Handlers, NEW self \in Nat \cup Object, HeapOK(h, Rest)
    PROVE  MadeOK(h, Rest, t, self, xobj_handler_init(h, t, self))
<1>1. PICK made : made = xobj_handler_init(h, t, self)
  OBVIOUS
<1>2. PICK b \in Nat : b = xhash_get_alloc_size(HashSlots) /\ b <= HeapSize
  BY ObjectsAssumption, RequestsFit DEF xhash_get_alloc_size
<1>3. PICK got : got = xheap_allocate(h, b)
  OBVIOUS
<1>4. AllocOK(h, Rest, b, got)
  BY <1>2, <1>3, AllocateLemma
<1>5. made = HandlerIn(got, t, self)
  BY <1>1, <1>2, <1>3 DEF xobj_handler_init
<1>6. CASE got.addr = NULL
  <2>1. made.heap = got.heap /\ made.obj_h = NULL
    BY <1>5, <1>6 DEF HandlerIn
  <2> QED
    BY <1>1, <1>4, <1>6, <2>1 DEF MadeOK, AllocOK
<1>7. CASE got.addr # NULL
  <2>1. PICK a \in Nat : /\ a = got.addr /\ a \notin Rest
                         /\ HeapOK(got.heap, Rest \cup {a})
                         /\ got.heap.size[a] = ChunkBytes(b)
    BY <1>4, <1>7 DEF AllocOK
  <2>2. PICK o : o = [self |-> self, obj_size |-> ObjSize[t], hash |-> a,
                      slots |-> HashSlots, chunks |-> {}, list |-> <<>>,
                      nr_free |-> 0, nr_allocated |-> 0]
    OBVIOUS
  <2>3. made.heap = got.heap /\ made.obj_h = o
    BY <1>5, <1>7, <2>1, <2>2 DEF HandlerIn
  <2>4. /\ o.self = self /\ o.obj_size = ObjSize[t] /\ o.hash = a /\ o.slots = HashSlots
        /\ o.chunks = {} /\ o.list = <<>> /\ o.nr_free = 0 /\ o.nr_allocated = 0
    BY <2>2
  <2>5. o \in Handler
    <3>1. ObjSize[t] \in Nat /\ HashSlots \in Nat /\ <<>> \in Seq(Object)
      BY ObjectsAssumption
    <3> QED
      BY <2>1, <2>2, <3>1 DEF Handler
  <2>6. HeldBy(o) = {a}
    BY <2>4 DEF HeldBy
  <2>7. HeldBy(o) \subseteq DOMAIN got.heap.size
    BY <2>1, <2>6, HeapLemma
  <2>8. b <= ChunkBytes(b)
    BY SizedLemma
  <2>9. Tabled(got.heap.size, o)
    BY <1>2, <2>1, <2>4, <2>8, ObjectsAssumption DEF Tabled
  <2>10. Elems(<<>>) = {} /\ Distinct(<<>>) /\ Len(<<>>) = 0
    BY DEF Elems, Distinct
  <2>11. Listing(got.heap.size, o, {})
    BY <2>4, <2>10 DEF Listing, ObjectsOf
  <2>12. IsFiniteSet({}) /\ Cardinality({}) = 0
    BY FS_EmptySet
  <2>13. Counted(o, {})
    BY <2>4, <2>10, <2>12 DEF Counted
  <2>14. HandlerOK(got.heap.size, t, o, {})
    BY <2>4, <2>5, <2>7, <2>9, <2>11, <2>12, <2>13 DEF HandlerOK
  <2>15. HandOK(got.heap, Rest, t, o, {})
    BY <2>1, <2>6, <2>14 DEF HandOK
  <2>16. o # NULL
    BY <2>5, NullAssumption
  <2> QED
    BY <1>1, <1>4, <2>3, <2>4, <2>15, <2>16 DEF MadeOK, AllocOK
<1> QED
  BY <1>6, <1>7

-----------------------------------------------------------------------------
(* The handlers of the segment, hs, the objects in use of each of them, U, *)
(* and the chunks X that somebody else holds.                              *)
Upd(f, t, v) == [f EXCEPT ![t] = v]

Holding(hs, t) == IF hs[t] = NULL THEN {} ELSE HeldBy(hs[t])

HandlersHold(hs) == UNION {Holding(hs, t) : t \in Handlers}

AllHeld(hs, X) == HandlersHold(hs) \cup {hs[Root].self} \cup X

Apart(hs, X) ==
    /\ hs[Root].self \notin X
    /\ \A t \in Handlers :
          /\ Holding(hs, t) \cap X = {} /\ hs[Root].self \notin Holding(hs, t)
          /\ \A u \in Handlers \ {t} : Holding(hs, t) \cap Holding(hs, u) = {}

Sys(h, hs, U, X) ==
    /\ hs \in [Handlers -> Handler \cup {NULL}] /\ U \in [Handlers -> SUBSET Object]
    /\ hs[Root] # NULL
    /\ \A t \in Handlers : hs[t] # NULL => HandlerOK(h.size, t, hs[t], U[t])
    /\ Apart(hs, X) /\ HeapOK(h, AllHeld(hs, X))

Others(hs, X, t) == AllHeld(hs, X) \ Holding(hs, t)

LEMMA InAllHeld ==
    ASSUME NEW hs, NEW X, NEW c
    PROVE  c \in AllHeld(hs, X)
             <=> c \in X \/ c = hs[Root].self \/ \E t \in Handlers : c \in Holding(hs, t)
<1>1. c \in HandlersHold(hs) => \E t \in Handlers : c \in Holding(hs, t)
  BY DEF HandlersHold
<1>2. ASSUME NEW t \in Handlers, c \in Holding(hs, t)
      PROVE  c \in HandlersHold(hs)
  BY <1>2 DEF HandlersHold
<1> QED
  BY <1>1, <1>2 DEF AllHeld

LEMMA RootIsHandler == Root \in Handlers /\ RequestH \in Handlers /\ PortH \in Handlers
  BY ObjectsAssumption

LEMMA SysHand ==
    ASSUME NEW h, NEW hs, NEW U, NEW X, Sys(h, hs, U, X), NEW t \in Handlers, hs[t] # NULL
    PROVE  HandOK(h, Others(hs, X, t), t, hs[t], U[t])
<1>1. Holding(hs, t) = HeldBy(hs[t])
  BY DEF Holding
<1>2. Holding(hs, t) \subseteq AllHeld(hs, X)
  BY InAllHeld
<1>3. Others(hs, X, t) \cup HeldBy(hs[t]) = AllHeld(hs, X)
  BY <1>1, <1>2 DEF Others
<1>4. Others(hs, X, t) \cap HeldBy(hs[t]) = {}
  BY <1>1 DEF Others
<1> QED
  BY <1>3, <1>4 DEF HandOK, Sys

(* One handler changes, or is made.                                        *)
LEMMA SysReplace ==
    ASSUME NEW h, NEW hs, NEW U, NEW X, Sys(h, hs, U, X), NEW t \in Handlers,
           NEW g, NEW o, NEW V, Kept(h, g), HandOK(g, Others(hs, X, t), t, o, V),
           t = Root => o.self = hs[Root].self
    PROVE  Sys(g, Upd(hs, t, o), Upd(U, t, V), X)
<1>1. /\ hs \in [Handlers -> Handler \cup {NULL}] /\ U \in [Handlers -> SUBSET Object]
      /\ hs[Root] # NULL /\ Apart(hs, X)
      /\ \A x \in Handlers : hs[x] # NULL => HandlerOK(h.size, x, hs[x], U[x])
  BY DEF Sys
<1>2. /\ HeapOK(g, Others(hs, X, t) \cup HeldBy(o)) /\ Others(hs, X, t) \cap HeldBy(o) = {}
      /\ HandlerOK(g.size, t, o, V)
  BY DEF HandOK
<1>3. o \in Handler /\ o # NULL /\ V \in SUBSET Object
  BY <1>2, NullAssumption DEF HandlerOK, Listing, ObjectsOf
<1>4. PICK js : js = Upd(hs, t, o)
  OBVIOUS
<1>5. PICK W : W = Upd(U, t, V)
  OBVIOUS
<1>6. /\ js \in [Handlers -> Handler \cup {NULL}] /\ js[t] = o
      /\ \A x \in Handlers \ {t} : js[x] = hs[x]
  BY <1>1, <1>3, <1>4 DEF Upd
<1>7. /\ W \in [Handlers -> SUBSET Object] /\ W[t] = V
      /\ \A x \in Handlers \ {t} : W[x] = U[x]
  BY <1>1, <1>3, <1>5 DEF Upd
<1>8. Root \in Handlers /\ js[Root] # NULL /\ js[Root].self = hs[Root].self
  BY <1>1, <1>3, <1>6, RootIsHandler
<1>9. Holding(js, t) = HeldBy(o) /\ \A x \in Handlers \ {t} : Holding(js, x) = Holding(hs, x)
  BY <1>3, <1>6 DEF Holding
<1>10. \A c : c \in Others(hs, X, t)
                <=> \/ c \in X \/ c = hs[Root].self
                    \/ \E x \in Handlers \ {t} : c \in Holding(hs, x)
  <2> TAKE c
  <2>1. c \in Others(hs, X, t) <=> c \in AllHeld(hs, X) /\ c \notin Holding(hs, t)
    BY DEF Others
  <2>2. c \in AllHeld(hs, X)
          <=> c \in X \/ c = hs[Root].self \/ \E x \in Handlers : c \in Holding(hs, x)
    BY InAllHeld
  <2>3. /\ c \in X => c \notin Holding(hs, t)
        /\ c = hs[Root].self => c \notin Holding(hs, t)
        /\ \A x \in Handlers \ {t} : c \in Holding(hs, x) => c \notin Holding(hs, t)
    BY <1>1 DEF Apart
  <2> QED
    BY <2>1, <2>2, <2>3
<1>11. AllHeld(js, X) = Others(hs, X, t) \cup HeldBy(o)
  <2>1. ASSUME NEW c
        PROVE  c \in AllHeld(js, X) <=> c \in Others(hs, X, t) \cup HeldBy(o)
    <3>1. c \in AllHeld(js, X)
            <=> c \in X \/ c = js[Root].self \/ \E x \in Handlers : c \in Holding(js, x)
      BY InAllHeld
    <3>2. (\E x \in Handlers : c \in Holding(js, x))
            <=> c \in HeldBy(o) \/ \E x \in Handlers \ {t} : c \in Holding(hs, x)
      BY <1>9
    <3> QED
      BY <1>8, <1>10, <3>1, <3>2
  <2> QED
    BY <2>1
<1>12. Apart(js, X)
  <2>1. js[Root].self \notin X
    BY <1>1, <1>8 DEF Apart
  <2>2. HeldBy(o) \cap X = {} /\ hs[Root].self \notin HeldBy(o)
    BY <1>2, <1>10
  <2>3. \A x \in Handlers \ {t} : HeldBy(o) \cap Holding(hs, x) = {}
    BY <1>2, <1>10
  <2>4. ASSUME NEW x \in Handlers
        PROVE  /\ Holding(js, x) \cap X = {} /\ js[Root].self \notin Holding(js, x)
               /\ \A u \in Handlers \ {x} : Holding(js, x) \cap Holding(js, u) = {}
    <3>1. CASE x = t
      BY <1>8, <1>9, <2>2, <2>3, <3>1
    <3>2. CASE x # t
      <4>1. Holding(js, x) = Holding(hs, x)
        BY <1>9, <3>2
      <4>2. Holding(hs, x) \cap X = {} /\ hs[Root].self \notin Holding(hs, x)
        BY <1>1 DEF Apart
      <4>3. ASSUME NEW u \in Handlers \ {x}
            PROVE  Holding(hs, x) \cap Holding(js, u) = {}
        <5>1. CASE u = t
          BY <1>9, <2>3, <3>2, <5>1
        <5>2. CASE u # t
          BY <1>1, <1>9, <5>2 DEF Apart
        <5> QED
          BY <5>1, <5>2
      <4> QED
        BY <1>8, <4>1, <4>2, <4>3
    <3> QED
      BY <3>1, <3>2
  <2> QED
    BY <2>1, <2>4 DEF Apart
<1>13. ASSUME NEW x \in Handlers, js[x] # NULL
       PROVE  HandlerOK(g.size, x, js[x], W[x])
  <2>1. CASE x = t
    BY <1>2, <1>6, <1>7, <2>1
  <2>2. CASE x # t
    <3>1. HandlerOK(h.size, x, hs[x], U[x])
      BY <1>1, <1>6, <1>13, <2>2
    <3>2. HandlerOK(g.size, x, hs[x], U[x])
      BY <3>1, HandlerKept
    <3> QED
      BY <1>6, <1>7, <2>2, <3>2
  <2> QED
    BY <2>1, <2>2
<1>14. HeapOK(g, AllHeld(js, X))
  BY <1>2, <1>11
<1>15. Sys(g, js, W, X)
  BY <1>6, <1>7, <1>8, <1>12, <1>13, <1>14 DEF Sys
<1> QED
  BY <1>4, <1>5, <1>15

(* Only what is held elsewhere changes.                                    *)
LEMMA SysHeap ==
    ASSUME NEW h, NEW hs, NEW U, NEW X, Sys(h, hs, U, X), NEW g, NEW Y, Kept(h, g),
           Apart(hs, Y), HeapOK(g, AllHeld(hs, Y))
    PROVE  Sys(g, hs, U, Y)
<1>1. ASSUME NEW x \in Handlers, hs[x] # NULL
      PROVE  HandlerOK(g.size, x, hs[x], U[x])
  <2>1. HandlerOK(h.size, x, hs[x], U[x])
    BY <1>1 DEF Sys
  <2> QED
    BY <2>1, HandlerKept
<1> QED
  BY <1>1 DEF Sys

SysAllocOK(h, hs, U, X, b, got) ==
    /\ Kept(h, got.heap)
    /\ got.addr = NULL => Sys(got.heap, hs, U, X)
    /\ got.addr # NULL => /\ got.addr \in Nat /\ got.addr \notin X
                          /\ Sys(got.heap, hs, U, X \cup {got.addr})
                          /\ got.heap.size[got.addr] = ChunkBytes(b)

LEMMA SysAlloc ==
    ASSUME NEW h, NEW hs, NEW U, NEW X, Sys(h, hs, U, X), NEW b \in Nat, b <= HeapSize
    PROVE  SysAllocOK(h, hs, U, X, b, xheap_allocate(h, b))
<1>1. PICK got : got = xheap_allocate(h, b)
  OBVIOUS
<1>2. HeapOK(h, AllHeld(hs, X)) /\ Apart(hs, X)
  BY DEF Sys
<1>3. AllocOK(h, AllHeld(hs, X), b, got)
  BY <1>1, <1>2, AllocateLemma
<1>4. CASE got.addr = NULL
  <2>1. Kept(h, got.heap) /\ HeapOK(got.heap, AllHeld(hs, X))
    BY <1>3, <1>4 DEF AllocOK
  <2>2. Sys(got.heap, hs, U, X)
    BY <1>2, <2>1, SysHeap
  <2> QED
    BY <1>1, <1>4, <2>1, <2>2 DEF SysAllocOK
<1>5. CASE got.addr # NULL
  <2>1. /\ Kept(h, got.heap) /\ got.addr \in Nat /\ got.addr \notin AllHeld(hs, X)
        /\ HeapOK(got.heap, AllHeld(hs, X) \cup {got.addr})
        /\ got.heap.size[got.addr] = ChunkBytes(b)
    BY <1>3, <1>5 DEF AllocOK
  <2>2. PICK Y : Y = X \cup {got.addr}
    OBVIOUS
  <2>3. AllHeld(hs, Y) = AllHeld(hs, X) \cup {got.addr}
    BY <2>2, InAllHeld
  <2>4. got.addr \notin X /\ hs[Root].self # got.addr
    BY <2>1, InAllHeld
  <2>5. \A t \in Handlers : got.addr \notin Holding(hs, t)
    BY <2>1, InAllHeld
  <2>6. Apart(hs, Y)
    BY <1>2, <2>2, <2>4, <2>5 DEF Apart
  <2>7. Sys(got.heap, hs, U, Y)
    BY <2>1, <2>3, <2>6, SysHeap
  <2> QED
    BY <1>1, <1>5, <2>1, <2>2, <2>4, <2>7 DEF SysAllocOK
<1> QED
  BY <1>4, <1>5

LEMMA SysFree ==
    ASSUME NEW h, NEW hs, NEW U, NEW X, Sys(h, hs, U, X), NEW a \in X
    PROVE  Sys(xheap_free(h, a), hs, U, X \ {a}) /\ xheap_free(h, a).size = h.size
<1>1. PICK g : g = xheap_free(h, a)
  OBVIOUS
<1>2. HeapOK(h, AllHeld(hs, X)) /\ Apart(hs, X) /\ a \in AllHeld(hs, X)
  BY InAllHeld DEF Sys
<1>3. HeapOK(g, AllHeld(hs, X) \ {a}) /\ g.size = h.size
  BY <1>1, <1>2, FreeLemma
<1>4. PICK Y : Y = X \ {a}
  OBVIOUS
<1>5. AllHeld(hs, X) \ {a} = AllHeld(hs, Y)
  <2>1. hs[Root].self # a /\ \A t \in Handlers : a \notin Holding(hs, t)
    BY <1>2 DEF Apart
  <2> QED
    BY <1>4, <2>1, InAllHeld
<1>6. Apart(hs, Y)
  BY <1>2, <1>4 DEF Apart
<1>7. Kept(h, g)
  BY <1>3 DEF Kept
<1>8. Sys(g, hs, U, Y)
  BY <1>3, <1>5, <1>6, <1>7, SysHeap
<1> QED
  BY <1>1, <1>3, <1>4, <1>8

SameSelf(hs, js) ==
    \A t \in Handlers : (hs[t] = NULL <=> js[t] = NULL) /\ js[t].self = hs[t].self

SysGetOK(h, hs, U, X, t, got) ==
    /\ Kept(h, got.heap) /\ SameSelf(hs, Upd(hs, t, got.obj_h))
    /\ got.obj = NULL => Sys(got.heap, Upd(hs, t, got.obj_h), U, X)
    /\ got.obj # NULL =>
         /\ got.obj \in Object /\ got.obj \notin U[t]
         /\ Sys(got.heap, Upd(hs, t, got.obj_h), Upd(U, t, U[t] \cup {got.obj}), X)

LEMMA UpdSame ==
    ASSUME NEW f, NEW S, f \in [Handlers -> S], NEW t \in Handlers
    PROVE  Upd(f, t, f[t]) = f
  BY DEF Upd

LEMMA SelfLemma ==
    ASSUME NEW hs \in [Handlers -> Handler \cup {NULL}], NEW t \in Handlers, hs[t] # NULL,
           NEW o \in Handler, o.self = hs[t].self
    PROVE  SameSelf(hs, Upd(hs, t, o))
<1>1. /\ Upd(hs, t, o)[t] = o
      /\ \A x \in Handlers \ {t} : Upd(hs, t, o)[x] = hs[x]
  BY DEF Upd
<1> QED
  BY <1>1, NullAssumption DEF SameSelf

LEMMA SysGet ==
    ASSUME NEW h, NEW hs, NEW U, NEW X, Sys(h, hs, U, X), NEW t \in Handlers, hs[t] # NULL
    PROVE  SysGetOK(h, hs, U, X, t, xobj_get_obj(h, hs[t]))
<1>1. PICK got : got = xobj_get_obj(h, hs[t])
  OBVIOUS
<1>2. HandOK(h, Others(hs, X, t), t, hs[t], U[t])
  BY SysHand
<1>3. GetOK(h, Others(hs, X, t), t, hs[t], U[t], got)
  BY <1>1, <1>2, GetLemma
<1>4. PICK g, o : g = got.heap /\ o = got.obj_h
  OBVIOUS
<1>5. Kept(h, g) /\ o.self = hs[t].self
  BY <1>3, <1>4 DEF GetOK
<1>6. hs \in [Handlers -> Handler \cup {NULL}] /\ U \in [Handlers -> SUBSET Object]
  BY DEF Sys
<1>7. CASE got.obj = NULL
  <2>1. HandOK(g, Others(hs, X, t), t, o, U[t])
    BY <1>3, <1>4, <1>7 DEF GetOK
  <2>2. o \in Handler
    BY <2>1 DEF HandOK, HandlerOK
  <2>3. Sys(g, Upd(hs, t, o), Upd(U, t, U[t]), X)
    BY <1>5, <2>1, SysReplace
  <2>4. Upd(U, t, U[t]) = U
    BY <1>6, UpdSame
  <2>5. SameSelf(hs, Upd(hs, t, o))
    BY <1>5, <1>6, <2>2, SelfLemma
  <2> QED
    BY <1>1, <1>4, <1>5, <1>7, <2>3, <2>4, <2>5 DEF SysGetOK
<1>8. CASE got.obj # NULL
  <2>1. HandOK(g, Others(hs, X, t), t, o, U[t] \cup {got.obj})
    BY <1>3, <1>4, <1>8 DEF GetOK
  <2>2. o \in Handler
    BY <2>1 DEF HandOK, HandlerOK
  <2>3. Sys(g, Upd(hs, t, o), Upd(U, t, U[t] \cup {got.obj}), X)
    BY <1>5, <2>1, SysReplace
  <2>4. got.obj \in Object /\ got.obj \notin U[t]
    BY <1>3, <1>8 DEF GetOK
  <2>5. SameSelf(hs, Upd(hs, t, o))
    BY <1>5, <1>6, <2>2, SelfLemma
  <2> QED
    BY <1>1, <1>4, <1>5, <1>8, <2>3, <2>4, <2>5 DEF SysGetOK
<1> QED
  BY <1>7, <1>8

SysPutOK(h, hs, U, X, t, obj, o) ==
    /\ SameSelf(hs, Upd(hs, t, o))
    /\ Sys(h, Upd(hs, t, o), Upd(U, t, U[t] \ {obj}), X)

LEMMA SysPut ==
    ASSUME NEW h, NEW hs, NEW U, NEW X, Sys(h, hs, U, X), NEW t \in Handlers, hs[t] # NULL,
           NEW obj \in U[t]
    PROVE  SysPutOK(h, hs, U, X, t, obj, xobj_put_obj(hs[t], obj))
<1>1. PICK o : o = xobj_put_obj(hs[t], obj)
  OBVIOUS
<1>2. HandOK(h, Others(hs, X, t), t, hs[t], U[t])
  BY SysHand
<1>3. PutOK(h, Others(hs, X, t), t, hs[t], U[t] \ {obj}, o)
  BY <1>1, <1>2, PutLemma
<1>4. HandOK(h, Others(hs, X, t), t, o, U[t] \ {obj}) /\ o.self = hs[t].self
  BY <1>3 DEF PutOK
<1>5. hs \in [Handlers -> Handler \cup {NULL}]
  BY DEF Sys
<1>6. o \in Handler
  BY <1>4 DEF HandOK, HandlerOK
<1>7. SameSelf(hs, Upd(hs, t, o))
  BY <1>4, <1>5, <1>6, SelfLemma
<1>8. Sys(h, Upd(hs, t, o), Upd(U, t, U[t] \ {obj}), X)
  BY <1>4, KeptRefl, SysReplace
<1> QED
  BY <1>1, <1>7, <1>8 DEF SysPutOK

(* The handler t is made in an object of Root, or not.                     *)
NewHandler(hs, U, js, V, t) ==
    \E obj : /\ obj \notin U[Root] /\ js[t] # NULL /\ js[t].self = obj
             /\ V[Root] = U[Root] \cup {obj} /\ V[t] = {}
             /\ \A x \in Handlers \ {Root, t} :
                   /\ V[x] = U[x] /\ (hs[x] = NULL <=> js[x] = NULL)
                   /\ js[x].self = hs[x].self

SysMakeOK(h, hs, U, X, t, s) ==
    /\ Kept(h, s.heap)
    /\ \/ SameSelf(hs, s.objh) /\ Sys(s.heap, s.objh, U, X)
       \/ \E V : Sys(s.heap, s.objh, V, X) /\ NewHandler(hs, U, s.objh, V, t)

LEMMA SysMake ==
    ASSUME NEW h, NEW hs, NEW U, NEW X, Sys(h, hs, U, X),
           NEW t \in Handlers, t # Root, hs[t] = NULL
    PROVE  SysMakeOK(h, hs, U, X, t, xseg_get_objh([heap |-> h, objh |-> hs], t))
<1>1. PICK s : s = xseg_get_objh([heap |-> h, objh |-> hs], t)
  OBVIOUS
<1>2. /\ hs \in [Handlers -> Handler \cup {NULL}] /\ U \in [Handlers -> SUBSET Object]
      /\ hs[Root] # NULL /\ Root \in Handlers
  BY RootIsHandler DEF Sys
<1>3. PICK got : got = xobj_get_obj(h, hs[Root])
  OBVIOUS
<1>4. SysGetOK(h, hs, U, X, Root, got)
  BY <1>2, <1>3, SysGet
<1>5. PICK made : made = xobj_handler_init(got.heap, t, got.obj)
  OBVIOUS
<1>6. s = HandlerFrom(got, made, hs, t)
  BY <1>1, <1>3, <1>5 DEF xseg_get_objh, InitIn
<1>7. PICK js : js = Upd(hs, Root, got.obj_h)
  OBVIOUS
<1>8. Kept(h, got.heap) /\ SameSelf(hs, js)
  BY <1>4, <1>7 DEF SysGetOK
<1>9. CASE got.obj = NULL
  <2>1. s.heap = got.heap /\ s.objh = js
    BY <1>6, <1>7, <1>9 DEF HandlerFrom, Upd
  <2>2. Sys(s.heap, s.objh, U, X)
    BY <1>4, <1>7, <1>9, <2>1 DEF SysGetOK
  <2> QED
    BY <1>1, <1>8, <2>1, <2>2 DEF SysMakeOK
<1>10. CASE got.obj # NULL
  <2>1. PICK obj \in Object : obj = got.obj /\ obj \notin U[Root]
    BY <1>4, <1>10 DEF SysGetOK
  <2>2. PICK W : W = Upd(U, Root, U[Root] \cup {obj})
    OBVIOUS
  <2>3. Sys(got.heap, js, W, X)
    BY <1>4, <1>7, <1>10, <2>1, <2>2 DEF SysGetOK
  <2>4. HeapOK(got.heap, AllHeld(js, X)) /\ Apart(js, X)
    BY <2>3 DEF Sys
  <2>5. MadeOK(got.heap, AllHeld(js, X), t, obj, made)
    BY <1>5, <2>1, <2>4, HandlerInitLemma
  <2>6. Kept(got.heap, made.heap)
    BY <2>5 DEF MadeOK
  <2>7. Kept(h, made.heap)
    BY <1>8, <2>6, KeptTrans
  <2>8. js[t] = NULL /\ js[Root] = got.obj_h /\ \A x \in Handlers \ {Root} : js[x] = hs[x]
    BY <1>2, <1>7 DEF Upd
  <2>9. /\ W[Root] = U[Root] \cup {obj} /\ \A x \in Handlers \ {Root} : W[x] = U[x]
    BY <1>2, <2>2 DEF Upd
  <2>10. js \in [Handlers -> Handler \cup {NULL}] /\ W \in [Handlers -> SUBSET Object]
         /\ js[Root] # NULL
    BY <2>3 DEF Sys
  <2>11. CASE made.obj_h = NULL
    <3>1. HeapOK(made.heap, AllHeld(js, X))
      BY <2>5, <2>11 DEF MadeOK
    <3>2. Sys(made.heap, js, W, X)
      BY <2>3, <2>4, <2>6, <3>1, SysHeap
    <3>3. PICK o : o = xobj_put_obj(got.obj_h, obj)
      OBVIOUS
    <3>4. obj \in W[Root]
      BY <2>9
    <3>5. SysPutOK(made.heap, js, W, X, Root, obj, o)
      BY <1>2, <2>8, <2>10, <3>2, <3>3, <3>4, SysPut
    <3>6. PICK ks : ks = Upd(js, Root, o)
      OBVIOUS
    <3>7. SameSelf(js, ks) /\ Sys(made.heap, ks, Upd(W, Root, W[Root] \ {obj}), X)
      BY <3>5, <3>6 DEF SysPutOK
    <3>8. Upd(W, Root, W[Root] \ {obj}) = U
      <4>1. W[Root] \ {obj} = U[Root]
        BY <2>1, <2>9
      <4>2. Upd(W, Root, U[Root]) = Upd(U, Root, U[Root])
        BY <1>2, <2>2 DEF Upd
      <4>3. Upd(U, Root, U[Root]) = U
        BY <1>2, UpdSame
      <4> QED
        BY <4>1, <4>2, <4>3
    <3>9. ks = Upd(hs, Root, o)
      BY <1>2, <1>7, <3>6 DEF Upd
    <3>10. s.heap = made.heap /\ s.objh = ks
      BY <1>6, <1>10, <2>1, <2>11, <3>3, <3>9 DEF HandlerFrom, Upd
    <3>11. SameSelf(hs, ks)
      BY <1>8, <3>7 DEF SameSelf
    <3> QED
      BY <1>1, <2>7, <3>7, <3>8, <3>10, <3>11 DEF SysMakeOK
  <2>12. CASE made.obj_h # NULL
    <3>1. PICK o : o = made.obj_h
      OBVIOUS
    <3>2. HandOK(made.heap, AllHeld(js, X), t, o, {}) /\ o.self = obj
      BY <2>5, <2>12, <3>1 DEF MadeOK
    <3>3. Others(js, X, t) = AllHeld(js, X)
      BY <2>8 DEF Others, Holding
    <3>4. PICK ks : ks = Upd(js, t, o)
      OBVIOUS
    <3>5. PICK V : V = Upd(W, t, {})
      OBVIOUS
    <3>6. Sys(made.heap, ks, V, X)
      BY <2>3, <2>6, <3>2, <3>3, <3>4, <3>5, SysReplace
    <3>7. /\ ks[t] = o /\ \A x \in Handlers \ {t} : ks[x] = js[x]
      BY <2>10, <3>4 DEF Upd
    <3>8. V[t] = {} /\ \A x \in Handlers \ {t} : V[x] = W[x]
      BY <2>10, <3>5 DEF Upd
    <3>9. NewHandler(hs, U, ks, V, t)
      <4>1. ks[t] # NULL /\ ks[t].self = obj
        BY <2>12, <3>1, <3>2, <3>7
      <4>2. V[Root] = U[Root] \cup {obj}
        BY <1>2, <2>9, <3>8
      <4>3. \A x \in Handlers \ {Root, t} : V[x] = U[x] /\ ks[x] = hs[x]
        BY <2>8, <2>9, <3>7, <3>8
      <4> QED
        BY <2>1, <3>8, <4>1, <4>2, <4>3 DEF NewHandler
    <3>10. s.heap = made.heap /\ s.objh = ks
      <4>1. s.objh = [hs EXCEPT ![Root] = got.obj_h, ![t] = made.obj_h]
        BY <1>6, <1>10, <2>12 DEF HandlerFrom
      <4>2. ks = [[hs EXCEPT ![Root] = got.obj_h] EXCEPT ![t] = made.obj_h]
        BY <1>7, <3>1, <3>4 DEF Upd
      <4>3. s.heap = made.heap
        BY <1>6, <1>10, <2>12 DEF HandlerFrom
      <4> QED
        BY <4>1, <4>2, <4>3
    <3> QED
      BY <1>1, <2>7, <3>6, <3>9, <3>10 DEF SysMakeOK
  <2> QED
    BY <2>11, <2>12
<1> QED
  BY <1>9, <1>10

-----------------------------------------------------------------------------
(* The requests, whose buffers are the chunks B.                           *)
Request == [buffer : Nat \cup {NULL}, bufferlen : Nat, targetlen : Nat, datalen : Nat]

BufferOf(req) == IF req.buffer = NULL THEN {} ELSE {req.buffer}

Fitting(size, req) ==
    req.buffer # NULL => /\ req.bufferlen = size[req.buffer]
                         /\ req.targetlen + req.datalen <= req.bufferlen

ReqsOK(size, rq, B) ==
    /\ rq \in [DOMAIN rq -> Request]
    /\ \A r \in DOMAIN rq : BufferOf(rq[r]) \subseteq B /\ Fitting(size, rq[r])
    /\ \A r, x \in DOMAIN rq : r # x => BufferOf(rq[r]) \cap BufferOf(rq[x]) = {}
    /\ \A c \in B : \E r \in DOMAIN rq : c \in BufferOf(rq[r])

LEMMA ReqsKept ==
    ASSUME NEW h, NEW g, Kept(h, g), NEW rq, NEW B \in SUBSET DOMAIN h.size,
           ReqsOK(h.size, rq, B)
    PROVE  ReqsOK(g.size, rq, B)
<1>1. ASSUME NEW r \in DOMAIN rq
      PROVE  Fitting(g.size, rq[r])
  <2>1. CASE rq[r].buffer = NULL
    BY <2>1 DEF Fitting
  <2>2. CASE rq[r].buffer # NULL
    <3>1. rq[r].buffer \in DOMAIN h.size /\ Fitting(h.size, rq[r])
      BY <2>2 DEF ReqsOK, BufferOf
    <3> QED
      BY <2>2, <3>1 DEF Fitting, Kept
  <2> QED
    BY <2>1, <2>2
<1> QED
  BY <1>1 DEF ReqsOK

LEMMA ReqsWith ==
    ASSUME NEW size, NEW rq, NEW B, ReqsOK(size, rq, B), NEW obj, obj \notin DOMAIN rq
    PROVE  ReqsOK(size, With(rq, obj, NoBuffer), B)
<1>1. PICK f : f = With(rq, obj, NoBuffer)
  OBVIOUS
<1>2. /\ DOMAIN f = DOMAIN rq \cup {obj} /\ f[obj] = NoBuffer
      /\ \A r \in DOMAIN rq : f[r] = rq[r]
  BY <1>1 DEF With
<1>3. NoBuffer \in Request /\ BufferOf(NoBuffer) = {} /\ Fitting(size, NoBuffer)
  BY DEF NoBuffer, Request, BufferOf, Fitting
<1>4. rq \in [DOMAIN rq -> Request]
  BY DEF ReqsOK
<1>5. f \in [DOMAIN f -> Request]
  <2>1. \A r \in DOMAIN rq \cup {obj} : f[r] \in Request
    BY <1>2, <1>3, <1>4
  <2>2. f = [r \in DOMAIN rq \cup {obj} |-> IF r = obj THEN NoBuffer ELSE rq[r]]
    BY <1>1 DEF With
  <2> QED
    BY <1>2, <2>1, <2>2
<1>6. \A r \in DOMAIN f : BufferOf(f[r]) \subseteq B /\ Fitting(size, f[r])
  BY <1>2, <1>3 DEF ReqsOK
<1>7. \A r, x \in DOMAIN f : r # x => BufferOf(f[r]) \cap BufferOf(f[x]) = {}
  BY <1>2, <1>3 DEF ReqsOK
<1>8. \A c \in B : \E r \in DOMAIN f : c \in BufferOf(f[r])
  BY <1>2 DEF ReqsOK
<1> QED
  BY <1>1, <1>5, <1>6, <1>7, <1>8 DEF ReqsOK

LEMMA ReqsWithout ==
    ASSUME NEW size, NEW rq, NEW B, ReqsOK(size, rq, B), NEW obj \in DOMAIN rq
    PROVE  ReqsOK(size, Without(rq, obj), B \ BufferOf(rq[obj]))
<1>1. PICK f : f = Without(rq, obj)
  OBVIOUS
<1>2. /\ DOMAIN f = DOMAIN rq \ {obj}
      /\ \A r \in DOMAIN rq \ {obj} : f[r] = rq[r]
  BY <1>1 DEF Without
<1>4. rq \in [DOMAIN rq -> Request]
  BY DEF ReqsOK
<1>5. f \in [DOMAIN f -> Request]
  <2>1. \A r \in DOMAIN rq \ {obj} : f[r] \in Request
    BY <1>2, <1>4
  <2>2. f = [r \in DOMAIN rq \ {obj} |-> rq[r]]
    BY <1>1 DEF Without
  <2> QED
    BY <1>2, <2>1, <2>2
<1>6. \A r \in DOMAIN f : BufferOf(f[r]) \subseteq B \ BufferOf(rq[obj]) /\ Fitting(size, f[r])
  BY <1>2 DEF ReqsOK
<1>7. \A r, x \in DOMAIN f : r # x => BufferOf(f[r]) \cap BufferOf(f[x]) = {}
  BY <1>2 DEF ReqsOK
<1>8. \A c \in B \ BufferOf(rq[obj]) : \E r \in DOMAIN f : c \in BufferOf(f[r])
  BY <1>2 DEF ReqsOK
<1> QED
  BY <1>1, <1>5, <1>6, <1>7, <1>8 DEF ReqsOK

(* The request r becomes req; the others are as they were.                 *)
Becomes(rq, r, req, f) ==
    /\ f \in [DOMAIN rq -> Request] /\ f[r] = req
    /\ \A x \in DOMAIN rq \ {r} : f[x] = rq[x]

Replaced(rq, B, r, req) == (B \ BufferOf(rq[r])) \cup BufferOf(req)

LEMMA ReqsSet ==
    ASSUME NEW size, NEW rq, NEW B, ReqsOK(size, rq, B), NEW r \in DOMAIN rq,
           NEW req, Fitting(size, req), BufferOf(req) \cap (B \ BufferOf(rq[r])) = {},
           NEW f, Becomes(rq, r, req, f)
    PROVE  ReqsOK(size, f, Replaced(rq, B, r, req))
<1>1. /\ f \in [DOMAIN rq -> Request] /\ DOMAIN f = DOMAIN rq /\ f[r] = req
      /\ \A x \in DOMAIN rq \ {r} : f[x] = rq[x]
  BY DEF Becomes
<1>2. PICK C : C = Replaced(rq, B, r, req)
  OBVIOUS
<1>3. C = (B \ BufferOf(rq[r])) \cup BufferOf(req)
  BY <1>2 DEF Replaced
<1>4. \A x \in DOMAIN rq \ {r} : /\ BufferOf(rq[x]) \subseteq B \ BufferOf(rq[r])
                                 /\ Fitting(size, rq[x])
  BY DEF ReqsOK
<1>5. \A x \in DOMAIN f : BufferOf(f[x]) \subseteq C /\ Fitting(size, f[x])
  BY <1>1, <1>3, <1>4
<1>6. \A x, y \in DOMAIN f : x # y => BufferOf(f[x]) \cap BufferOf(f[y]) = {}
  <2> TAKE x, y \in DOMAIN f
  <2> HAVE x # y
  <2>1. CASE x # r /\ y # r
    BY <1>1, <2>1 DEF ReqsOK
  <2>2. CASE x = r
    BY <1>1, <1>4, <2>2
  <2>3. CASE y = r
    BY <1>1, <1>4, <2>3
  <2> QED
    BY <2>1, <2>2, <2>3
<1>7. \A c \in C : \E x \in DOMAIN f : c \in BufferOf(f[x])
  <2> TAKE c \in C
  <2>1. CASE c \in BufferOf(req)
    BY <1>1, <2>1
  <2>2. CASE c \in B \ BufferOf(rq[r])
    <3>1. PICK x \in DOMAIN rq : c \in BufferOf(rq[x])
      BY <2>2 DEF ReqsOK
    <3>2. x # r
      BY <2>2, <3>1
    <3> QED
      BY <1>1, <3>1, <3>2
  <2> QED
    BY <1>3, <2>1, <2>2
<1>8. f \in [DOMAIN f -> Request]
  BY <1>1
<1> QED
  BY <1>2, <1>5, <1>6, <1>7, <1>8 DEF ReqsOK

(* The ports, whose queues are the chunks Q.                               *)
PortsOK(pt, Q) ==
    /\ pt \in [DOMAIN pt -> Seq(Nat)]
    /\ \A p \in DOMAIN pt : Len(pt[p]) = 3 /\ Distinct(pt[p]) /\ Elems(pt[p]) \subseteq Q
    /\ \A p, x \in DOMAIN pt : p # x => Elems(pt[p]) \cap Elems(pt[x]) = {}
    /\ \A c \in Q : \E p \in DOMAIN pt : c \in Elems(pt[p])

LEMMA PortsWith ==
    ASSUME NEW pt, NEW Q, PortsOK(pt, Q), NEW obj, obj \notin DOMAIN pt,
           NEW qs \in Seq(Nat), Len(qs) = 3, Distinct(qs), Elems(qs) \cap Q = {}
    PROVE  PortsOK(With(pt, obj, qs), Q \cup Elems(qs))
<1>1. PICK f : f = With(pt, obj, qs)
  OBVIOUS
<1>2. /\ DOMAIN f = DOMAIN pt \cup {obj} /\ f[obj] = qs
      /\ \A p \in DOMAIN pt : f[p] = pt[p]
  BY <1>1 DEF With
<1>4. pt \in [DOMAIN pt -> Seq(Nat)]
  BY DEF PortsOK
<1>5. f \in [DOMAIN f -> Seq(Nat)]
  <2>1. \A p \in DOMAIN pt \cup {obj} : f[p] \in Seq(Nat)
    BY <1>2, <1>4
  <2>2. f = [p \in DOMAIN pt \cup {obj} |-> IF p = obj THEN qs ELSE pt[p]]
    BY <1>1 DEF With
  <2> QED
    BY <1>2, <2>1, <2>2
<1>6. \A p \in DOMAIN f : /\ Len(f[p]) = 3 /\ Distinct(f[p])
                          /\ Elems(f[p]) \subseteq Q \cup Elems(qs)
  BY <1>2 DEF PortsOK
<1>7. \A p, x \in DOMAIN f : p # x => Elems(f[p]) \cap Elems(f[x]) = {}
  BY <1>2 DEF PortsOK
<1>8. \A c \in Q \cup Elems(qs) : \E p \in DOMAIN f : c \in Elems(f[p])
  BY <1>2 DEF PortsOK
<1> QED
  BY <1>1, <1>5, <1>6, <1>7, <1>8 DEF PortsOK

LEMMA PortsWithout ==
    ASSUME NEW pt, NEW Q, PortsOK(pt, Q), NEW obj \in DOMAIN pt
    PROVE  PortsOK(Without(pt, obj), Q \ Elems(pt[obj]))
<1>1. PICK f : f = Without(pt, obj)
  OBVIOUS
<1>2. /\ DOMAIN f = DOMAIN pt \ {obj}
      /\ \A p \in DOMAIN pt \ {obj} : f[p] = pt[p]
  BY <1>1 DEF Without
<1>4. pt \in [DOMAIN pt -> Seq(Nat)]
  BY DEF PortsOK
<1>5. f \in [DOMAIN f -> Seq(Nat)]
  <2>1. \A p \in DOMAIN pt \ {obj} : f[p] \in Seq(Nat)
    BY <1>2, <1>4
  <2>2. f = [p \in DOMAIN pt \ {obj} |-> pt[p]]
    BY <1>1 DEF Without
  <2> QED
    BY <1>2, <2>1, <2>2
<1>6. \A p \in DOMAIN f : /\ Len(f[p]) = 3 /\ Distinct(f[p])
                          /\ Elems(f[p]) \subseteq Q \ Elems(pt[obj])
  BY <1>2 DEF PortsOK
<1>7. \A p, x \in DOMAIN f : p # x => Elems(f[p]) \cap Elems(f[x]) = {}
  BY <1>2 DEF PortsOK
<1>8. \A c \in Q \ Elems(pt[obj]) : \E p \in DOMAIN f : c \in Elems(f[p])
  BY <1>2 DEF PortsOK
<1> QED
  BY <1>1, <1>5, <1>6, <1>7, <1>8 DEF PortsOK

(* The queues that a port has got so far.                                  *)
Took(h, hs, U, X, s, n) ==
    \E g : \E qs \in Seq(Nat), ok \in BOOLEAN :
       /\ s = [heap |-> g, qs |-> qs, ok |-> ok]
       /\ Kept(h, g) /\ Sys(g, hs, U, X \cup Elems(qs))
       /\ Distinct(qs) /\ Elems(qs) \cap X = {} /\ Len(qs) <= n /\ (ok => Len(qs) = n)

LEMMA AllocQueue ==
    ASSUME NEW h, NEW hs, NEW U, NEW X, NEW s, NEW n \in Nat, Took(h, hs, U, X, s, n)
    PROVE  Took(h, hs, U, X, __alloc_queue(s), n + 1)
<1>1. PICK g : \E qs \in Seq(Nat), ok \in BOOLEAN :
       /\ s = [heap |-> g, qs |-> qs, ok |-> ok]
       /\ Kept(h, g) /\ Sys(g, hs, U, X \cup Elems(qs))
       /\ Distinct(qs) /\ Elems(qs) \cap X = {} /\ Len(qs) <= n /\ (ok => Len(qs) = n)
  BY DEF Took
<1>2. PICK qs \in Seq(Nat), ok \in BOOLEAN :
       /\ s = [heap |-> g, qs |-> qs, ok |-> ok]
       /\ Kept(h, g) /\ Sys(g, hs, U, X \cup Elems(qs))
       /\ Distinct(qs) /\ Elems(qs) \cap X = {} /\ Len(qs) <= n /\ (ok => Len(qs) = n)
  BY <1>1
<1>3. s.heap = g /\ s.qs = qs /\ s.ok = ok /\ Len(qs) \in Nat
  BY <1>2
<1>4. PICK z : z = __alloc_queue(s)
  OBVIOUS
<1>5. CASE ~ok
  <2>1. z = [heap |-> g, qs |-> qs, ok |-> ok]
    BY <1>2, <1>3, <1>4, <1>5 DEF __alloc_queue
  <2>2. Len(qs) <= n + 1
    BY <1>2, <1>3
  <2> QED
    BY <1>2, <1>4, <1>5, <2>1, <2>2 DEF Took
<1>6. CASE ok
  <2>1. PICK got : got = xheap_allocate(g, QueueBytes)
    OBVIOUS
  <2>2. QueueBytes \in Nat /\ QueueBytes <= HeapSize
    BY ObjectsAssumption, RequestsFit
  <2>3. SysAllocOK(g, hs, U, X \cup Elems(qs), QueueBytes, got)
    BY <1>2, <2>1, <2>2, SysAlloc
  <2>4. PICK e : e = got.heap
    OBVIOUS
  <2>5. Kept(h, e)
    BY <1>2, <2>3, <2>4, KeptTrans DEF SysAllocOK
  <2>6. z = Queue(got, qs)
    BY <1>3, <1>4, <1>6, <2>1 DEF __alloc_queue
  <2>7. CASE got.addr = NULL
    <3>1. z = [heap |-> e, qs |-> qs, ok |-> FALSE]
      BY <2>4, <2>6, <2>7 DEF Queue
    <3>2. Sys(e, hs, U, X \cup Elems(qs))
      BY <2>3, <2>4, <2>7 DEF SysAllocOK
    <3>3. Len(qs) <= n + 1
      BY <1>2, <1>3
    <3> QED
      BY <1>2, <1>4, <2>5, <3>1, <3>2, <3>3 DEF Took
  <2>8. CASE got.addr # NULL
    <3>1. PICK a \in Nat : /\ a = got.addr /\ a \notin X \cup Elems(qs)
                           /\ Sys(e, hs, U, (X \cup Elems(qs)) \cup {a})
      BY <2>3, <2>4, <2>8 DEF SysAllocOK
    <3>2. PICK ws : ws = Append(qs, a)
      OBVIOUS
    <3>3. z = [heap |-> e, qs |-> ws, ok |-> TRUE]
      BY <2>4, <2>6, <2>8, <3>1, <3>2 DEF Queue
    <3>4. /\ ws \in Seq(Nat) /\ Len(ws) = Len(qs) + 1 /\ ws[Len(qs) + 1] = a
          /\ \A i \in 1..Len(qs) : ws[i] = qs[i]
      BY <1>3, <3>1, <3>2
    <3>5. Elems(ws) = Elems(qs) \cup {a}
      <4>1. \A i \in 1..Len(qs) + 1 : i \in 1..Len(qs) \/ i = Len(qs) + 1
        BY <1>3
      <4>2. \A i \in 1..Len(qs) : i \in 1..Len(qs) + 1
        BY <1>3
      <4>3. Len(qs) + 1 \in 1..Len(qs) + 1
        BY <1>3
      <4> QED
        BY <3>4, <4>1, <4>2, <4>3 DEF Elems
    <3>6. Distinct(ws)
      <4> SUFFICES ASSUME NEW i \in 1..Len(qs) + 1, NEW j \in 1..Len(qs) + 1, ws[i] = ws[j]
                   PROVE  i = j
        BY <3>4 DEF Distinct
      <4>1. (i \in 1..Len(qs) \/ i = Len(qs) + 1) /\ (j \in 1..Len(qs) \/ j = Len(qs) + 1)
        BY <1>3
      <4>2. \A k \in 1..Len(qs) : ws[k] # a
        BY <3>1, <3>4 DEF Elems
      <4>3. CASE i \in 1..Len(qs) /\ j \in 1..Len(qs)
        BY <1>2, <3>4, <4>3 DEF Distinct
      <4> QED
        BY <3>4, <4>1, <4>2, <4>3
    <3>7. (X \cup Elems(qs)) \cup {a} = X \cup Elems(ws) /\ Elems(ws) \cap X = {}
      BY <1>2, <3>1, <3>5
    <3>8. Len(ws) = n + 1
      BY <1>2, <1>6, <3>4
    <3>9. Sys(e, hs, U, X \cup Elems(ws))
      BY <3>1, <3>7
    <3>10. ws \in Seq(Nat) /\ Elems(ws) \cap X = {} /\ Len(ws) <= n + 1 /\ TRUE \in BOOLEAN
      BY <3>4, <3>7, <3>8
    <3> QED
      BY <1>4, <2>5, <3>3, <3>6, <3>8, <3>9, <3>10 DEF Took
  <2> QED
    BY <2>7, <2>8
<1> QED
  BY <1>5, <1>6

LEMMA QueuesLemma ==
    ASSUME NEW h, NEW hs, NEW U, NEW X, Sys(h, hs, U, X)
    PROVE  Took(h, hs, U, X, Queues(h), 3)
<1>1. PICK s : s = [heap |-> h, qs |-> <<>>, ok |-> TRUE]
  OBVIOUS
<1>2. Took(h, hs, U, X, s, 0)
  <2>1. PICK e : e = <<>>
    OBVIOUS
  <2>2. e \in Seq(Nat) /\ Len(e) = 0
    BY <2>1
  <2>3. Elems(e) = {} /\ Distinct(e)
    BY <2>2 DEF Elems, Distinct
  <2>4. X \cup Elems(e) = X /\ Elems(e) \cap X = {}
    BY <2>3
  <2>5. s = [heap |-> h, qs |-> e, ok |-> TRUE]
    BY <1>1, <2>1
  <2>6. Sys(h, hs, U, X \cup Elems(e))
    BY <2>4
  <2>7. e \in Seq(Nat) /\ Elems(e) \cap X = {} /\ Len(e) <= 0 /\ Len(e) = 0 /\ TRUE \in BOOLEAN
        /\ Kept(h, h)
    BY <2>2, <2>4, KeptRefl
  <2> QED
    BY <2>3, <2>5, <2>6, <2>7 DEF Took
<1>3. Took(h, hs, U, X, __alloc_queue(s), 0 + 1)
  BY <1>2, AllocQueue
<1>4. Took(h, hs, U, X, __alloc_queue(__alloc_queue(s)), 1 + 1)
  BY <1>3, AllocQueue
<1>5. Took(h, hs, U, X, __alloc_queue(__alloc_queue(__alloc_queue(s))), 2 + 1)
  BY <1>4, AllocQueue
<1> QED
  BY <1>1, <1>5 DEF Queues

At(qs, i) == IF i <= Len(qs) THEN {qs[i]} ELSE {}

LEMMA FreeQueueLemma ==
    ASSUME NEW h, NEW hs, NEW U, NEW Y, Sys(h, hs, U, Y), NEW qs, NEW i, At(qs, i) \subseteq Y
    PROVE  /\ Sys(FreeQueue(h, qs, i), hs, U, Y \ At(qs, i))
           /\ FreeQueue(h, qs, i).size = h.size
<1>1. CASE i <= Len(qs)
  <2>1. FreeQueue(h, qs, i) = xheap_free(h, qs[i]) /\ At(qs, i) = {qs[i]} /\ qs[i] \in Y
    BY <1>1 DEF FreeQueue, At
  <2>2. Sys(xheap_free(h, qs[i]), hs, U, Y \ {qs[i]}) /\ xheap_free(h, qs[i]).size = h.size
    BY <2>1, SysFree
  <2> QED
    BY <2>1, <2>2
<1>2. CASE ~(i <= Len(qs))
  <2>1. FreeQueue(h, qs, i) = h /\ At(qs, i) = {}
    BY <1>2 DEF FreeQueue, At
  <2>2. Y \ At(qs, i) = Y
    BY <2>1
  <2> QED
    BY <2>1, <2>2
<1> QED
  BY <1>1, <1>2

FreedOK(h, hs, U, X, g) == Sys(g, hs, U, X) /\ g.size = h.size

LEMMA FreeQueuesLemma ==
    ASSUME NEW h, NEW hs, NEW U, NEW X, NEW qs \in Seq(Nat), Len(qs) <= 3, Distinct(qs),
           Sys(h, hs, U, X), Elems(qs) \subseteq X
    PROVE  FreedOK(h, hs, U, X \ Elems(qs), FreeQueues(h, qs))
<1>1. PICK a : a = FreeQueue(h, qs, 2)
  OBVIOUS
<1>2. PICK b : b = FreeQueue(a, qs, 1)
  OBVIOUS
<1>3. PICK c : c = FreeQueue(b, qs, 3)
  OBVIOUS
<1>4. Len(qs) \in Nat /\ Len(qs) <= 3
  OBVIOUS
<1>5. Elems(qs) = At(qs, 2) \cup At(qs, 1) \cup At(qs, 3)
  <2>1. \A x \in At(qs, 2) \cup At(qs, 1) \cup At(qs, 3) : x \in Elems(qs)
    BY <1>4 DEF At, Elems
  <2>2. ASSUME NEW i \in 1..Len(qs)
        PROVE  qs[i] \in At(qs, 2) \cup At(qs, 1) \cup At(qs, 3)
    <3>1. i = 1 \/ i = 2 \/ i = 3
      BY <1>4
    <3>2. i <= Len(qs)
      BY <1>4
    <3> QED
      BY <3>1, <3>2 DEF At
  <2>3. \A x \in Elems(qs) : x \in At(qs, 2) \cup At(qs, 1) \cup At(qs, 3)
    BY <2>2 DEF Elems
  <2> QED
    BY <2>1, <2>3
<1>6. /\ At(qs, 1) \cap At(qs, 2) = {} /\ At(qs, 3) \cap At(qs, 2) = {}
      /\ At(qs, 3) \cap At(qs, 1) = {}
  <2>1. /\ 1 <= Len(qs) => 1 \in 1..Len(qs)
        /\ 2 <= Len(qs) => 2 \in 1..Len(qs)
        /\ 3 <= Len(qs) => 3 \in 1..Len(qs)
    BY <1>4
  <2> QED
    BY <2>1 DEF At, Distinct
<1>7. Sys(a, hs, U, X \ At(qs, 2)) /\ a.size = h.size
  BY <1>1, <1>5, FreeQueueLemma
<1>8. Sys(b, hs, U, (X \ At(qs, 2)) \ At(qs, 1)) /\ b.size = h.size
  <2>1. PICK Y : Y = X \ At(qs, 2)
    OBVIOUS
  <2>2. At(qs, 1) \subseteq Y /\ Sys(a, hs, U, Y)
    BY <1>5, <1>6, <1>7, <2>1
  <2>3. Sys(b, hs, U, Y \ At(qs, 1)) /\ b.size = a.size
    BY <1>2, <2>2, FreeQueueLemma
  <2> QED
    BY <1>7, <2>1, <2>3
<1>9. Sys(c, hs, U, ((X \ At(qs, 2)) \ At(qs, 1)) \ At(qs, 3)) /\ c.size = h.size
  <2>1. PICK Y : Y = (X \ At(qs, 2)) \ At(qs, 1)
    OBVIOUS
  <2>2. At(qs, 3) \subseteq Y /\ Sys(b, hs, U, Y)
    BY <1>5, <1>6, <1>8, <2>1
  <2>3. Sys(c, hs, U, Y \ At(qs, 3)) /\ c.size = b.size
    BY <1>3, <2>2, FreeQueueLemma
  <2> QED
    BY <1>8, <2>1, <2>3
<1>10. ((X \ At(qs, 2)) \ At(qs, 1)) \ At(qs, 3) = X \ Elems(qs)
  BY <1>5
<1> QED
  BY <1>1, <1>2, <1>3, <1>9, <1>10 DEF FreeQueues, FreedOK

-----------------------------------------------------------------------------
(* The segment                                                             *)
Selfs(hs) == {hs[x].self : x \in {t \in Handlers \ {Root} : hs[t] # NULL}}

Used(hs, rq, pt, U) ==
    /\ U[RequestH] = DOMAIN rq /\ U[PortH] = DOMAIN pt /\ U[Root] = Selfs(hs)
    /\ \A t \in Handlers \ {Root, RequestH, PortH} : U[t] = {}

State(h, hs, rq, pt, U, B, Q) ==
    /\ Sys(h, hs, U, B \cup Q) /\ B \cap Q = {}
    /\ ReqsOK(h.size, rq, B) /\ PortsOK(pt, Q) /\ Used(hs, rq, pt, U)
    /\ hs[RequestH] # NULL /\ hs[PortH] # NULL

Good(h, hs, rq, pt) == \E U, B, Q : State(h, hs, rq, pt, U, B, Q)

LEMMA SysChunks ==
    ASSUME NEW h, NEW hs, NEW U, NEW X, Sys(h, hs, U, X)
    PROVE  X \subseteq DOMAIN h.size /\ DOMAIN h.size \subseteq Nat
           /\ \A c \in DOMAIN h.size : h.size[c] \in Nat
<1>1. HeapOK(h, AllHeld(hs, X))
  BY DEF Sys
<1>2. X \subseteq AllHeld(hs, X)
  BY InAllHeld
<1> QED
  BY <1>1, <1>2, HeapLemma

LEMMA SelfsSame ==
    ASSUME NEW hs, NEW js, SameSelf(hs, js)
    PROVE  Selfs(js) = Selfs(hs)
  BY DEF SameSelf, Selfs

LEMMA SelfsNew ==
    ASSUME NEW hs, NEW U, NEW js, NEW V, NEW t \in Handlers \ {Root}, hs[t] = NULL,
           NewHandler(hs, U, js, V, t)
    PROVE  Selfs(js) = Selfs(hs) \cup {js[t].self}
<1>1. /\ js[t] # NULL
      /\ \A x \in Handlers \ {Root, t} : /\ hs[x] = NULL <=> js[x] = NULL
                                         /\ js[x].self = hs[x].self
  BY DEF NewHandler
<1>2. \A y : y \in Selfs(js) => y \in Selfs(hs) \cup {js[t].self}
  BY <1>1 DEF Selfs
<1>3. \A y : y \in Selfs(hs) => y \in Selfs(js)
  BY <1>1 DEF Selfs
<1>4. js[t].self \in Selfs(js)
  BY <1>1 DEF Selfs
<1> QED
  BY <1>2, <1>3, <1>4

LEMMA ActGetObjh ==
    ASSUME NEW h, NEW hs, NEW rq, NEW pt, Good(h, hs, rq, pt),
           NEW t \in Handlers \ {Root, RequestH, PortH}, hs[t] = NULL,
           NEW s, s = xseg_get_objh([heap |-> h, objh |-> hs], t)
    PROVE  Good(s.heap, s.objh, rq, pt)
<1>1. PICK U, B, Q : State(h, hs, rq, pt, U, B, Q)
  BY DEF Good
<1>2. /\ Sys(h, hs, U, B \cup Q) /\ B \cap Q = {}
      /\ ReqsOK(h.size, rq, B) /\ PortsOK(pt, Q) /\ Used(hs, rq, pt, U)
      /\ hs[RequestH] # NULL /\ hs[PortH] # NULL
  BY <1>1 DEF State
<1>3. SysMakeOK(h, hs, U, B \cup Q, t, s)
  BY <1>2, SysMake
<1>4. PICK g, js : g = s.heap /\ js = s.objh
  OBVIOUS
<1>5. Kept(h, g)
  BY <1>3, <1>4 DEF SysMakeOK
<1>6. B \in SUBSET DOMAIN h.size
  BY <1>2, SysChunks
<1>7. ReqsOK(g.size, rq, B)
  BY <1>2, <1>5, <1>6, ReqsKept
<1>8. CASE SameSelf(hs, js) /\ Sys(g, js, U, B \cup Q)
  <2>1. Selfs(js) = Selfs(hs)
    BY <1>8, SelfsSame
  <2>2. Used(js, rq, pt, U)
    BY <1>2, <2>1 DEF Used
  <2>3. js[RequestH] # NULL /\ js[PortH] # NULL
    BY <1>2, <1>8, RootIsHandler DEF SameSelf
  <2>4. State(g, js, rq, pt, U, B, Q)
    BY <1>2, <1>7, <1>8, <2>2, <2>3 DEF State
  <2> QED
    BY <1>4, <2>4 DEF Good
<1>9. ASSUME NEW V, Sys(g, js, V, B \cup Q), NewHandler(hs, U, js, V, t)
      PROVE  Good(g, js, rq, pt)
  <2>1. /\ js[t] # NULL /\ V[Root] = U[Root] \cup {js[t].self} /\ V[t] = {}
        /\ \A x \in Handlers \ {Root, t} : V[x] = U[x] /\ (hs[x] = NULL <=> js[x] = NULL)
    BY <1>9 DEF NewHandler
  <2>2. Selfs(js) = Selfs(hs) \cup {js[t].self}
    BY <1>9, SelfsNew
  <2>3. RequestH \in Handlers \ {Root, t} /\ PortH \in Handlers \ {Root, t}
    BY ObjectsAssumption
  <2>4. Used(js, rq, pt, V)
    BY <1>2, <2>1, <2>2, <2>3 DEF Used
  <2>5. js[RequestH] # NULL /\ js[PortH] # NULL
    BY <1>2, <2>1, <2>3
  <2>6. State(g, js, rq, pt, V, B, Q)
    BY <1>2, <1>7, <1>9, <2>4, <2>5 DEF State
  <2> QED
    BY <2>6 DEF Good
<1> QED
  BY <1>3, <1>4, <1>8, <1>9 DEF SysMakeOK

LEMMA ActGetRequest ==
    ASSUME NEW h, NEW hs, NEW rq, NEW pt, Good(h, hs, rq, pt),
           NEW got, got = xobj_get_obj(h, hs[RequestH])
    PROVE  Good(got.heap, Upd(hs, RequestH, got.obj_h),
                IF got.obj = NULL THEN rq ELSE With(rq, got.obj, NoBuffer), pt)
<1>1. PICK U, B, Q : State(h, hs, rq, pt, U, B, Q)
  BY DEF Good
<1>2. /\ Sys(h, hs, U, B \cup Q) /\ B \cap Q = {}
      /\ ReqsOK(h.size, rq, B) /\ PortsOK(pt, Q) /\ Used(hs, rq, pt, U)
      /\ hs[RequestH] # NULL /\ hs[PortH] # NULL
  BY <1>1 DEF State
<1>3. SysGetOK(h, hs, U, B \cup Q, RequestH, got)
  BY <1>2, SysGet, RootIsHandler
<1>4. PICK g, js : g = got.heap /\ js = Upd(hs, RequestH, got.obj_h)
  OBVIOUS
<1>5. Kept(h, g) /\ SameSelf(hs, js)
  BY <1>3, <1>4 DEF SysGetOK
<1>6. B \in SUBSET DOMAIN h.size
  BY <1>2, SysChunks
<1>7. ReqsOK(g.size, rq, B)
  BY <1>2, <1>5, <1>6, ReqsKept
<1>8. Selfs(js) = Selfs(hs)
  BY <1>5, SelfsSame
<1>9. js[RequestH] # NULL /\ js[PortH] # NULL
  BY <1>2, <1>5, RootIsHandler DEF SameSelf
<1>10. CASE got.obj = NULL
  <2>1. Sys(g, js, U, B \cup Q)
    BY <1>3, <1>4, <1>10 DEF SysGetOK
  <2>2. Used(js, rq, pt, U)
    BY <1>2, <1>8 DEF Used
  <2>3. State(g, js, rq, pt, U, B, Q)
    BY <1>2, <1>7, <1>9, <2>1, <2>2 DEF State
  <2> QED
    BY <1>4, <1>10, <2>3 DEF Good
<1>11. CASE got.obj # NULL
  <2>1. PICK obj, V : obj = got.obj /\ V = Upd(U, RequestH, U[RequestH] \cup {obj})
    OBVIOUS
  <2>2. Sys(g, js, V, B \cup Q) /\ obj \notin U[RequestH]
    BY <1>3, <1>4, <1>11, <2>1 DEF SysGetOK
  <2>3. obj \notin DOMAIN rq
    BY <1>2, <2>2 DEF Used
  <2>4. PICK f : f = With(rq, obj, NoBuffer)
    OBVIOUS
  <2>5. ReqsOK(g.size, f, B) /\ DOMAIN f = DOMAIN rq \cup {obj}
    BY <1>7, <2>3, <2>4, ReqsWith DEF With
  <2>6. U \in [Handlers -> SUBSET Object]
    BY <1>2 DEF Sys
  <2>7. /\ V[RequestH] = U[RequestH] \cup {obj}
        /\ \A x \in Handlers \ {RequestH} : V[x] = U[x]
    BY <2>1, <2>6, RootIsHandler DEF Upd
  <2>8. Used(js, f, pt, V)
    <3>1. Root \in Handlers \ {RequestH} /\ PortH \in Handlers \ {RequestH}
      BY ObjectsAssumption
    <3> QED
      BY <1>2, <1>8, <2>5, <2>7, <3>1 DEF Used
  <2>9. State(g, js, f, pt, V, B, Q)
    BY <1>2, <1>9, <2>2, <2>5, <2>8 DEF State
  <2> QED
    BY <1>4, <1>11, <2>1, <2>4, <2>9 DEF Good
<1> QED
  BY <1>10, <1>11

(* The buffer of a request, if it has one, goes back.                      *)
LEMMA FreeBuffer ==
    ASSUME NEW h, NEW hs, NEW U, NEW X, Sys(h, hs, U, X), NEW req, BufferOf(req) \subseteq X
    PROVE  FreedOK(h, hs, U, X \ BufferOf(req), free_buffer(h, req))
<1>1. CASE req.buffer = NULL
  <2>1. free_buffer(h, req) = h /\ X \ BufferOf(req) = X
    BY <1>1 DEF free_buffer, BufferOf
  <2> QED
    BY <2>1 DEF FreedOK
<1>2. CASE req.buffer # NULL
  <2>1. free_buffer(h, req) = xheap_free(h, req.buffer) /\ BufferOf(req) = {req.buffer}
    BY <1>2 DEF free_buffer, BufferOf
  <2>2. req.buffer \in X
    BY <2>1
  <2>3. /\ Sys(xheap_free(h, req.buffer), hs, U, X \ {req.buffer})
        /\ xheap_free(h, req.buffer).size = h.size
    BY <2>2, SysFree
  <2> QED
    BY <2>1, <2>3 DEF FreedOK
<1> QED
  BY <1>1, <1>2

LEMMA ActPutRequest ==
    ASSUME NEW h, NEW hs, NEW rq, NEW pt, Good(h, hs, rq, pt), NEW r \in DOMAIN rq
    PROVE  Good(free_buffer(h, rq[r]), Upd(hs, RequestH, xobj_put_obj(hs[RequestH], r)),
                Without(rq, r), pt)
<1>1. PICK U, B, Q : State(h, hs, rq, pt, U, B, Q)
  BY DEF Good
<1>2. /\ Sys(h, hs, U, B \cup Q) /\ B \cap Q = {}
      /\ ReqsOK(h.size, rq, B) /\ PortsOK(pt, Q) /\ Used(hs, rq, pt, U)
      /\ hs[RequestH] # NULL /\ hs[PortH] # NULL
  BY <1>1 DEF State
<1>3. PICK g : g = free_buffer(h, rq[r])
  OBVIOUS
<1>4. BufferOf(rq[r]) \subseteq B
  BY <1>2 DEF ReqsOK
<1>5. PICK C : C = B \ BufferOf(rq[r])
  OBVIOUS
<1>6. (B \cup Q) \ BufferOf(rq[r]) = C \cup Q /\ C \cap Q = {}
  BY <1>2, <1>4, <1>5
<1>7. Sys(g, hs, U, C \cup Q) /\ g.size = h.size
  <2>1. BufferOf(rq[r]) \subseteq B \cup Q
    BY <1>4
  <2>2. FreedOK(h, hs, U, (B \cup Q) \ BufferOf(rq[r]), g)
    BY <1>2, <1>3, <2>1, FreeBuffer
  <2> QED
    BY <1>6, <2>2 DEF FreedOK
<1>8. r \in U[RequestH]
  BY <1>2 DEF Used
<1>9. PICK js, V : /\ js = Upd(hs, RequestH, xobj_put_obj(hs[RequestH], r))
                   /\ V = Upd(U, RequestH, U[RequestH] \ {r})
  OBVIOUS
<1>10. SameSelf(hs, js) /\ Sys(g, js, V, C \cup Q)
  <2>1. SysPutOK(g, hs, U, C \cup Q, RequestH, r, xobj_put_obj(hs[RequestH], r))
    BY <1>2, <1>7, <1>8, SysPut, RootIsHandler
  <2> QED
    BY <1>9, <2>1 DEF SysPutOK
<1>11. PICK f : f = Without(rq, r)
  OBVIOUS
<1>12. ReqsOK(g.size, f, C) /\ DOMAIN f = DOMAIN rq \ {r}
  BY <1>2, <1>5, <1>7, <1>11, ReqsWithout DEF Without
<1>13. U \in [Handlers -> SUBSET Object]
  BY <1>2 DEF Sys
<1>14. /\ V[RequestH] = U[RequestH] \ {r}
       /\ \A x \in Handlers \ {RequestH} : V[x] = U[x]
  BY <1>9, <1>13, RootIsHandler DEF Upd
<1>15. Selfs(js) = Selfs(hs)
  BY <1>10, SelfsSame
<1>16. Used(js, f, pt, V)
  <2>1. Root \in Handlers \ {RequestH} /\ PortH \in Handlers \ {RequestH}
    BY ObjectsAssumption
  <2> QED
    BY <1>2, <1>12, <1>14, <1>15, <2>1 DEF Used
<1>17. js[RequestH] # NULL /\ js[PortH] # NULL
  BY <1>2, <1>10, RootIsHandler DEF SameSelf
<1>18. State(g, js, f, pt, V, C, Q)
  BY <1>2, <1>6, <1>10, <1>12, <1>16, <1>17 DEF State
<1> QED
  BY <1>3, <1>9, <1>11, <1>18 DEF Good

(* A buffer for the request r, whose old one has gone back.                *)
PrepOK(hs, U, rq, Q, f, g) ==
    \E B : /\ Sys(g, hs, U, B \cup Q) /\ B \cap Q = {} /\ ReqsOK(g.size, f, B)
           /\ DOMAIN f = DOMAIN rq

LEMMA PrepLemma ==
    ASSUME NEW h, NEW hs, NEW U, NEW rq, NEW B \in SUBSET DOMAIN h.size, NEW Q,
           ReqsOK(h.size, rq, B), B \cap Q = {}, NEW r \in DOMAIN rq,
           Sys(h, hs, U, (B \ BufferOf(rq[r])) \cup Q),
           NEW tl \in Nat, NEW dl \in Nat, tl + dl <= HeapSize,
           NEW p, p = prep(h, rq[r], tl, dl)
    PROVE  PrepOK(hs, U, rq, Q, Upd(rq, r, p.req), p.heap)
<1>1. PICK got : got = xheap_allocate(h, tl + dl)
  OBVIOUS
<1>2. PICK C : C = B \ BufferOf(rq[r])
  OBVIOUS
<1>3. PICK b \in Nat : b = tl + dl
  OBVIOUS
<1>4. SysAllocOK(h, hs, U, C \cup Q, b, got)
  BY <1>1, <1>2, <1>3, SysAlloc
<1>5. PICK g : g = got.heap
  OBVIOUS
<1>6. Kept(h, g)
  BY <1>4, <1>5 DEF SysAllocOK
<1>7. ReqsOK(g.size, rq, B)
  BY <1>6, ReqsKept
<1>8. rq \in [DOMAIN rq -> Request] /\ rq[r] \in Request
  BY DEF ReqsOK
<1>9. p = Buffered(got, rq[r], tl, dl)
  BY <1>1 DEF prep
<1>10. PICK req : req = p.req
  OBVIOUS
<1>11. PICK f : f = Upd(rq, r, req)
  OBVIOUS
<1>12. req \in Request => Becomes(rq, r, req, f) /\ DOMAIN f = DOMAIN rq
  BY <1>8, <1>11 DEF Becomes, Upd
<1>13. CASE got.addr = NULL
  <2>1. p.heap = g /\ req = [rq[r] EXCEPT !.buffer = NULL, !.bufferlen = 0]
    BY <1>5, <1>9, <1>10, <1>13 DEF Buffered
  <2>2. req \in Request /\ req.buffer = NULL
    BY <1>8, <2>1 DEF Request
  <2>3. BufferOf(req) = {} /\ Fitting(g.size, req)
    BY <2>2 DEF BufferOf, Fitting
  <2>4. ReqsOK(g.size, f, Replaced(rq, B, r, req))
    BY <1>7, <1>12, <2>2, <2>3, ReqsSet
  <2>5. Replaced(rq, B, r, req) = C
    BY <1>2, <2>3 DEF Replaced
  <2>6. Sys(g, hs, U, C \cup Q)
    BY <1>4, <1>5, <1>13 DEF SysAllocOK
  <2>7. C \cap Q = {}
    BY <1>2
  <2> QED
    BY <1>10, <1>11, <1>12, <2>1, <2>2, <2>4, <2>5, <2>6, <2>7 DEF PrepOK
<1>14. CASE got.addr # NULL
  <2>1. PICK a \in Nat : /\ a = got.addr /\ a \notin C \cup Q
                         /\ Sys(g, hs, U, (C \cup Q) \cup {a})
                         /\ g.size[a] = ChunkBytes(b)
    BY <1>4, <1>5, <1>14 DEF SysAllocOK
  <2>2. PICK n \in Nat : n = g.size[a] /\ b <= n
    BY <2>1, SizedLemma
  <2>3. p.heap = g /\ req = [buffer |-> a, bufferlen |-> n, targetlen |-> tl, datalen |-> dl]
    BY <1>5, <1>9, <1>10, <1>14, <2>1, <2>2 DEF Buffered
  <2>4. /\ req \in Request /\ req.buffer = a /\ req.bufferlen = n
        /\ req.targetlen = tl /\ req.datalen = dl /\ a # NULL
    BY <2>1, <2>3, NullAssumption DEF Request
  <2>5. BufferOf(req) = {a} /\ Fitting(g.size, req)
    BY <1>3, <2>2, <2>4 DEF BufferOf, Fitting
  <2>6. BufferOf(req) \cap (B \ BufferOf(rq[r])) = {}
    BY <1>2, <2>1, <2>5
  <2>7. ReqsOK(g.size, f, Replaced(rq, B, r, req))
    BY <1>7, <1>12, <2>4, <2>5, <2>6, ReqsSet
  <2>8. PICK D : D = C \cup {a}
    OBVIOUS
  <2>9. Replaced(rq, B, r, req) = D
    BY <1>2, <2>5, <2>8 DEF Replaced
  <2>10. (C \cup Q) \cup {a} = D \cup Q /\ D \cap Q = {}
    BY <1>2, <2>1, <2>8
  <2>11. Sys(g, hs, U, D \cup Q)
    BY <2>1, <2>10
  <2> QED
    BY <1>10, <1>11, <1>12, <2>3, <2>4, <2>7, <2>9, <2>10, <2>11 DEF PrepOK
<1> QED
  BY <1>13, <1>14

LEMMA PrepGood ==
    ASSUME NEW h, NEW hs, NEW rq, NEW pt, NEW U, NEW B, NEW Q,
           State(h, hs, rq, pt, U, B, Q), NEW f, NEW g, PrepOK(hs, U, rq, Q, f, g)
    PROVE  Good(g, hs, f, pt)
<1>1. PICK D : /\ Sys(g, hs, U, D \cup Q) /\ D \cap Q = {} /\ ReqsOK(g.size, f, D)
               /\ DOMAIN f = DOMAIN rq
  BY DEF PrepOK
<1>2. Used(hs, f, pt, U)
  BY <1>1 DEF State, Used
<1>3. State(g, hs, f, pt, U, D, Q)
  BY <1>1, <1>2 DEF State
<1> QED
  BY <1>3 DEF Good

LEMMA LensLemma ==
    ASSUME NEW l \in Lens
    PROVE  l[1] \in Nat /\ l[2] \in Nat /\ l[1] + l[2] <= HeapSize
  BY ObjectsAssumption, RequestsFit

LEMMA ActPrep ==
    ASSUME NEW h, NEW hs, NEW rq, NEW pt, Good(h, hs, rq, pt), NEW r \in DOMAIN rq,
           rq[r] = NoBuffer, NEW l \in Lens, NEW p, p = prep(h, rq[r], l[1], l[2])
    PROVE  Good(p.heap, hs, Upd(rq, r, p.req), pt)
<1>1. PICK U, B, Q : State(h, hs, rq, pt, U, B, Q)
  BY DEF Good
<1>2. Sys(h, hs, U, B \cup Q) /\ B \cap Q = {} /\ ReqsOK(h.size, rq, B)
  BY <1>1 DEF State
<1>3. B \in SUBSET DOMAIN h.size
  BY <1>2, SysChunks
<1>4. BufferOf(rq[r]) = {}
  BY DEF BufferOf, NoBuffer
<1>5. Sys(h, hs, U, (B \ BufferOf(rq[r])) \cup Q)
  <2>1. (B \ BufferOf(rq[r])) \cup Q = B \cup Q
    BY <1>4
  <2> QED
    BY <1>2, <2>1
<1>6. l[1] \in Nat /\ l[2] \in Nat /\ l[1] + l[2] <= HeapSize
  BY LensLemma
<1>7. PICK tl \in Nat, dl \in Nat : tl = l[1] /\ dl = l[2]
  BY <1>6
<1>8. PrepOK(hs, U, rq, Q, Upd(rq, r, p.req), p.heap)
  BY <1>2, <1>3, <1>5, <1>6, <1>7, PrepLemma
<1> QED
  BY <1>1, <1>8, PrepGood

LEMMA ActResize ==
    ASSUME NEW h, NEW hs, NEW rq, NEW pt, Good(h, hs, rq, pt), NEW r \in DOMAIN rq,
           NEW l \in Lens, NEW p, p = prep(free_buffer(h, rq[r]), rq[r], l[1], l[2])
    PROVE  Good(p.heap, hs, Upd(rq, r, p.req), pt)
<1>1. PICK U, B, Q : State(h, hs, rq, pt, U, B, Q)
  BY DEF Good
<1>2. Sys(h, hs, U, B \cup Q) /\ B \cap Q = {} /\ ReqsOK(h.size, rq, B)
  BY <1>1 DEF State
<1>3. PICK g : g = free_buffer(h, rq[r])
  OBVIOUS
<1>4. BufferOf(rq[r]) \subseteq B
  BY <1>2 DEF ReqsOK
<1>5. PICK C : C = B \ BufferOf(rq[r])
  OBVIOUS
<1>6. (B \cup Q) \ BufferOf(rq[r]) = C \cup Q
  BY <1>2, <1>4, <1>5
<1>7. Sys(g, hs, U, C \cup Q) /\ g.size = h.size
  <2>1. BufferOf(rq[r]) \subseteq B \cup Q
    BY <1>4
  <2>2. FreedOK(h, hs, U, (B \cup Q) \ BufferOf(rq[r]), g)
    BY <1>2, <1>3, <2>1, FreeBuffer
  <2> QED
    BY <1>6, <2>2 DEF FreedOK
<1>8. B \in SUBSET DOMAIN g.size /\ ReqsOK(g.size, rq, B)
  BY <1>2, <1>7, SysChunks
<1>9. l[1] \in Nat /\ l[2] \in Nat /\ l[1] + l[2] <= HeapSize
  BY LensLemma
<1>10. PICK tl \in Nat, dl \in Nat : tl = l[1] /\ dl = l[2]
  BY <1>9
<1>11. PrepOK(hs, U, rq, Q, Upd(rq, r, p.req), p.heap)
  BY <1>2, <1>3, <1>5, <1>7, <1>8, <1>9, <1>10, PrepLemma
<1> QED
  BY <1>1, <1>11, PrepGood

(* The new lengths fit in the buffer that is there.                        *)
LEMMA ActFits ==
    ASSUME NEW h, NEW hs, NEW rq, NEW pt, Good(h, hs, rq, pt), NEW r \in DOMAIN rq,
           NEW l \in Lens, Fits(rq[r], l[1], l[2]),
           NEW f, f = [rq EXCEPT ![r].targetlen = l[1], ![r].datalen = l[2]]
    PROVE  Good(h, hs, f, pt)
<1>1. PICK U, B, Q : State(h, hs, rq, pt, U, B, Q)
  BY DEF Good
<1>2. Sys(h, hs, U, B \cup Q) /\ B \cap Q = {} /\ ReqsOK(h.size, rq, B)
  BY <1>1 DEF State
<1>3. rq \in [DOMAIN rq -> Request] /\ rq[r] \in Request
  BY <1>2 DEF ReqsOK
<1>4. l[1] \in Nat /\ l[2] \in Nat
  BY LensLemma
<1>5. PICK tl \in Nat, dl \in Nat : tl = l[1] /\ dl = l[2]
  BY <1>4
<1>6. PICK req : req = [rq[r] EXCEPT !.targetlen = tl, !.datalen = dl]
  OBVIOUS
<1>7. /\ req \in Request /\ req.buffer = rq[r].buffer /\ req.bufferlen = rq[r].bufferlen
      /\ req.targetlen = tl /\ req.datalen = dl
  BY <1>3, <1>6 DEF Request
<1>8. f = Upd(rq, r, req)
  BY <1>3, <1>5, <1>6 DEF Upd
<1>9. Becomes(rq, r, req, f) /\ DOMAIN f = DOMAIN rq
  BY <1>3, <1>7, <1>8 DEF Becomes, Upd
<1>10. BufferOf(req) = BufferOf(rq[r]) /\ BufferOf(rq[r]) \subseteq B
  BY <1>2, <1>7 DEF BufferOf, ReqsOK
<1>11. Fitting(h.size, req)
  <2>1. Fitting(h.size, rq[r])
    BY <1>2 DEF ReqsOK
  <2>2. rq[r].bufferlen >= dl + tl /\ rq[r].bufferlen \in Nat
    BY <1>3, <1>5 DEF Fits, Request
  <2> QED
    BY <1>7, <2>1, <2>2 DEF Fitting
<1>12. BufferOf(req) \cap (B \ BufferOf(rq[r])) = {}
  BY <1>10
<1>13. ReqsOK(h.size, f, Replaced(rq, B, r, req))
  BY <1>2, <1>9, <1>11, <1>12, ReqsSet
<1>14. Replaced(rq, B, r, req) = B
  BY <1>10 DEF Replaced
<1>15. PrepOK(hs, U, rq, Q, f, h)
  BY <1>2, <1>9, <1>13, <1>14 DEF PrepOK
<1> QED
  BY <1>1, <1>15, PrepGood

LEMMA ActAllocPort ==
    ASSUME NEW h, NEW hs, NEW rq, NEW pt, Good(h, hs, rq, pt),
           NEW got, got = xobj_get_obj(h, hs[PortH]),
           NEW q, q = Queues(got.heap)
    PROVE  /\ got.obj = NULL => Good(got.heap, Upd(hs, PortH, got.obj_h), rq, pt)
           /\ got.obj # NULL /\ q.ok =>
                Good(q.heap, Upd(hs, PortH, got.obj_h), rq, With(pt, got.obj, q.qs))
           /\ got.obj # NULL /\ ~q.ok =>
                Good(FreeQueues(q.heap, q.qs),
                     Upd(hs, PortH, xobj_put_obj(got.obj_h, got.obj)), rq, pt)
<1>1. PICK U, B, Q : State(h, hs, rq, pt, U, B, Q)
  BY DEF Good
<1>2. /\ Sys(h, hs, U, B \cup Q) /\ B \cap Q = {}
      /\ ReqsOK(h.size, rq, B) /\ PortsOK(pt, Q) /\ Used(hs, rq, pt, U)
      /\ hs[RequestH] # NULL /\ hs[PortH] # NULL
  BY <1>1 DEF State
<1>3. SysGetOK(h, hs, U, B \cup Q, PortH, got)
  BY <1>2, SysGet, RootIsHandler
<1>4. PICK g, js : g = got.heap /\ js = Upd(hs, PortH, got.obj_h)
  OBVIOUS
<1>5. Kept(h, g) /\ SameSelf(hs, js)
  BY <1>3, <1>4 DEF SysGetOK
<1>6. B \in SUBSET DOMAIN h.size
  BY <1>2, SysChunks
<1>7. ReqsOK(g.size, rq, B)
  BY <1>2, <1>5, <1>6, ReqsKept
<1>8. Selfs(js) = Selfs(hs)
  BY <1>5, SelfsSame
<1>9. js[RequestH] # NULL /\ js[PortH] # NULL
  BY <1>2, <1>5, RootIsHandler DEF SameSelf
<1>10. ASSUME got.obj = NULL
       PROVE  Good(got.heap, Upd(hs, PortH, got.obj_h), rq, pt)
  <2>1. Sys(g, js, U, B \cup Q)
    BY <1>3, <1>4, <1>10 DEF SysGetOK
  <2>2. Used(js, rq, pt, U)
    BY <1>2, <1>8 DEF Used
  <2>3. State(g, js, rq, pt, U, B, Q)
    BY <1>2, <1>7, <1>9, <2>1, <2>2 DEF State
  <2> QED
    BY <1>4, <2>3 DEF Good
<1>11. ASSUME got.obj # NULL
       PROVE  /\ q.ok => Good(q.heap, Upd(hs, PortH, got.obj_h), rq, With(pt, got.obj, q.qs))
              /\ ~q.ok => Good(FreeQueues(q.heap, q.qs),
                               Upd(hs, PortH, xobj_put_obj(got.obj_h, got.obj)), rq, pt)
  <2>1. PICK obj, V : obj = got.obj /\ V = Upd(U, PortH, U[PortH] \cup {obj})
    OBVIOUS
  <2>2. Sys(g, js, V, B \cup Q) /\ obj \notin U[PortH]
    BY <1>3, <1>4, <1>11, <2>1 DEF SysGetOK
  <2>3. obj \notin DOMAIN pt
    BY <1>2, <2>2 DEF Used
  <2>4. Took(g, js, V, B \cup Q, q, 3)
    BY <1>4, <2>2, QueuesLemma
  <2>5. PICK e : \E qs \in Seq(Nat), ok \in BOOLEAN :
           /\ q = [heap |-> e, qs |-> qs, ok |-> ok]
           /\ Kept(g, e) /\ Sys(e, js, V, (B \cup Q) \cup Elems(qs))
           /\ Distinct(qs) /\ Elems(qs) \cap (B \cup Q) = {}
           /\ Len(qs) <= 3 /\ (ok => Len(qs) = 3)
    BY <2>4 DEF Took
  <2>6. PICK qs \in Seq(Nat), ok \in BOOLEAN :
           /\ q = [heap |-> e, qs |-> qs, ok |-> ok]
           /\ Kept(g, e) /\ Sys(e, js, V, (B \cup Q) \cup Elems(qs))
           /\ Distinct(qs) /\ Elems(qs) \cap (B \cup Q) = {}
           /\ Len(qs) <= 3 /\ (ok => Len(qs) = 3)
    BY <2>5
  <2>7. q.heap = e /\ q.qs = qs /\ q.ok = ok
    BY <2>6
  <2>8. B \in SUBSET DOMAIN g.size
    BY <2>2, SysChunks
  <2>9. ReqsOK(e.size, rq, B)
    BY <1>7, <2>6, <2>8, ReqsKept
  <2>10. U \in [Handlers -> SUBSET Object] /\ hs \in [Handlers -> Handler \cup {NULL}]
    BY <1>2 DEF Sys
  <2>11. /\ V[PortH] = U[PortH] \cup {obj}
         /\ \A x \in Handlers \ {PortH} : V[x] = U[x]
    BY <2>1, <2>10, RootIsHandler DEF Upd
  <2>12. Root \in Handlers \ {PortH} /\ RequestH \in Handlers \ {PortH} /\ PortH \in Handlers
    BY ObjectsAssumption
  <2>13. CASE ok
    <3>1. PICK P : P = Q \cup Elems(qs)
      OBVIOUS
    <3>2. (B \cup Q) \cup Elems(qs) = B \cup P /\ B \cap P = {} /\ Elems(qs) \cap Q = {}
      BY <1>2, <2>6, <3>1
    <3>3. PICK f : f = With(pt, obj, qs)
      OBVIOUS
    <3>4. PortsOK(f, P) /\ DOMAIN f = DOMAIN pt \cup {obj}
      <4>1. Len(qs) = 3 /\ Distinct(qs)
        BY <2>6, <2>13
      <4>2. PortsOK(With(pt, obj, qs), Q \cup Elems(qs))
        BY <1>2, <2>3, <3>2, <4>1, PortsWith
      <4> QED
        BY <3>1, <3>3, <4>2 DEF With
    <3>5. Used(js, rq, f, V)
      BY <1>2, <1>8, <2>11, <2>12, <3>4 DEF Used
    <3>6. Sys(e, js, V, B \cup P)
      BY <2>6, <3>2
    <3>7. State(e, js, rq, f, V, B, P)
      BY <1>9, <2>9, <3>2, <3>4, <3>5, <3>6 DEF State
    <3>8. Good(e, js, rq, f)
      BY <3>7 DEF Good
    <3> QED
      BY <1>4, <2>1, <2>7, <2>13, <3>3, <3>8
  <2>14. CASE ~ok
    <3>1. PICK a : a = FreeQueues(e, qs)
      OBVIOUS
    <3>2. PICK Y : Y = (B \cup Q) \cup Elems(qs)
      OBVIOUS
    <3>3. Y \ Elems(qs) = B \cup Q /\ Elems(qs) \subseteq Y /\ Sys(e, js, V, Y)
      BY <2>6, <3>2
    <3>4. Sys(a, js, V, B \cup Q) /\ a.size = e.size
      <4>1. FreedOK(e, js, V, Y \ Elems(qs), a)
        BY <2>6, <3>1, <3>3, FreeQueuesLemma
      <4> QED
        BY <3>3, <4>1 DEF FreedOK
    <3>5. PICK o : o = xobj_put_obj(got.obj_h, obj)
      OBVIOUS
    <3>6. js[PortH] = got.obj_h
      BY <1>4, <2>10, <2>12 DEF Upd
    <3>7. obj \in V[PortH]
      BY <2>11
    <3>8. SysPutOK(a, js, V, B \cup Q, PortH, obj, o)
      BY <1>9, <2>12, <3>4, <3>5, <3>6, <3>7, SysPut
    <3>9. PICK ks : ks = Upd(js, PortH, o)
      OBVIOUS
    <3>10. SameSelf(js, ks) /\ Sys(a, ks, Upd(V, PortH, V[PortH] \ {obj}), B \cup Q)
      BY <3>8, <3>9 DEF SysPutOK
    <3>11. Upd(V, PortH, V[PortH] \ {obj}) = U
      <4>1. V[PortH] \ {obj} = U[PortH]
        BY <2>2, <2>11
      <4>2. Upd(V, PortH, U[PortH]) = Upd(U, PortH, U[PortH])
        BY <2>1, <2>10, <2>12 DEF Upd
      <4>3. Upd(U, PortH, U[PortH]) = U
        BY <2>10, <2>12, UpdSame
      <4> QED
        BY <4>1, <4>2, <4>3
    <3>12. ks = Upd(hs, PortH, o)
      BY <1>4, <2>10, <2>12, <3>9 DEF Upd
    <3>13. Selfs(ks) = Selfs(js)
      BY <3>10, SelfsSame
    <3>14. Used(ks, rq, pt, U)
      BY <1>2, <1>8, <3>13 DEF Used
    <3>15. ks[RequestH] # NULL /\ ks[PortH] # NULL
      BY <1>9, <3>10, RootIsHandler DEF SameSelf
    <3>16. State(a, ks, rq, pt, U, B, Q)
      BY <1>2, <2>9, <3>4, <3>10, <3>11, <3>14, <3>15 DEF State
    <3>17. Good(a, ks, rq, pt)
      BY <3>16 DEF Good
    <3> QED
      BY <2>1, <2>7, <2>14, <3>1, <3>5, <3>12, <3>17
  <2> QED
    BY <2>13, <2>14
<1> QED
  BY <1>10, <1>11

LEMMA ActFreePort ==
    ASSUME NEW h, NEW hs, NEW rq, NEW pt, Good(h, hs, rq, pt), NEW p \in DOMAIN pt
    PROVE  Good(FreeQueues(h, pt[p]), Upd(hs, PortH, xobj_put_obj(hs[PortH], p)),
                rq, Without(pt, p))
<1>1. PICK U, B, Q : State(h, hs, rq, pt, U, B, Q)
  BY DEF Good
<1>2. /\ Sys(h, hs, U, B \cup Q) /\ B \cap Q = {}
      /\ ReqsOK(h.size, rq, B) /\ PortsOK(pt, Q) /\ Used(hs, rq, pt, U)
      /\ hs[RequestH] # NULL /\ hs[PortH] # NULL
  BY <1>1 DEF State
<1>3. PICK qs \in Seq(Nat) : /\ qs = pt[p] /\ Len(qs) <= 3 /\ Distinct(qs)
                             /\ Elems(qs) \subseteq Q
  <2>1. pt[p] \in Seq(Nat) /\ Len(pt[p]) = 3 /\ Distinct(pt[p]) /\ Elems(pt[p]) \subseteq Q
    BY <1>2 DEF PortsOK
  <2>2. Len(pt[p]) <= 3
    BY <2>1
  <2> QED
    BY <2>1, <2>2
<1>4. PICK g : g = FreeQueues(h, qs)
  OBVIOUS
<1>5. PICK P : P = Q \ Elems(qs)
  OBVIOUS
<1>6. (B \cup Q) \ Elems(qs) = B \cup P /\ B \cap P = {} /\ Elems(qs) \subseteq B \cup Q
  BY <1>2, <1>3, <1>5
<1>7. Sys(g, hs, U, B \cup P) /\ g.size = h.size
  <2>1. FreedOK(h, hs, U, (B \cup Q) \ Elems(qs), g)
    BY <1>2, <1>3, <1>4, <1>6, FreeQueuesLemma
  <2> QED
    BY <1>6, <2>1 DEF FreedOK
<1>8. p \in U[PortH]
  BY <1>2 DEF Used
<1>9. PICK js, V : /\ js = Upd(hs, PortH, xobj_put_obj(hs[PortH], p))
                   /\ V = Upd(U, PortH, U[PortH] \ {p})
  OBVIOUS
<1>10. SameSelf(hs, js) /\ Sys(g, js, V, B \cup P)
  <2>1. SysPutOK(g, hs, U, B \cup P, PortH, p, xobj_put_obj(hs[PortH], p))
    BY <1>2, <1>7, <1>8, SysPut, RootIsHandler
  <2> QED
    BY <1>9, <2>1 DEF SysPutOK
<1>11. PICK f : f = Without(pt, p)
  OBVIOUS
<1>12. PortsOK(f, P) /\ DOMAIN f = DOMAIN pt \ {p}
  BY <1>2, <1>3, <1>5, <1>11, PortsWithout DEF Without
<1>13. U \in [Handlers -> SUBSET Object]
  BY <1>2 DEF Sys
<1>14. /\ V[PortH] = U[PortH] \ {p}
       /\ \A x \in Handlers \ {PortH} : V[x] = U[x]
  BY <1>9, <1>13, RootIsHandler DEF Upd
<1>15. Selfs(js) = Selfs(hs)
  BY <1>10, SelfsSame
<1>16. Used(js, rq, f, V)
  <2>1. Root \in Handlers \ {PortH} /\ RequestH \in Handlers \ {PortH}
    BY ObjectsAssumption
  <2> QED
    BY <1>2, <1>12, <1>14, <1>15, <2>1 DEF Used
<1>17. js[RequestH] # NULL /\ js[PortH] # NULL
  BY <1>2, <1>10, RootIsHandler DEF SameSelf
<1>18. State(g, js, rq, f, V, B, P)
  BY <1>2, <1>6, <1>7, <1>10, <1>12, <1>16, <1>17 DEF State
<1> QED
  BY <1>3, <1>4, <1>9, <1>11, <1>18 DEF Good

-----------------------------------------------------------------------------
(* The new heap: nothing given out, nothing free.                          *)
LEMMA HeapInitLemma ==
    ASSUME xheap_init.cur < HeapSize - heap_page
    PROVE  HeapOK(xheap_init, {})
<1>1. PICK r \in Nat : r = __get_index(HeapSize) /\ Lists = 0..r
  BY PageType, SizedLemma DEF Lists
<1>2. PICK cur : cur = __align(PtrSize * r + HeaderSize, heap_page) - HeaderSize
  OBVIOUS
<1>3. PICK free : free = [i \in 0..r |-> <<>>]
  OBVIOUS
<1>4. PICK size : size = [c \in {} |-> 0]
  OBVIOUS
<1>5. xheap_init = [cur |-> cur, free |-> free, size |-> size]
  BY <1>1, <1>2, <1>3, <1>4 DEF xheap_init
<1>6. cur \in Nat /\ cur <= HeapSize
  <2>1. /\ heap_page \in Nat /\ heap_page > 0 /\ HeaderSize \in Nat /\ HeaderSize > 0
        /\ PtrSize \in Nat /\ HeapSize \in Nat
    BY PageType
  <2>2. PICK w \in Nat : w = PtrSize * r
    BY <2>1
  <2>3. PICK x \in Nat : x = w + HeaderSize /\ x > 0
    BY <2>1
  <2>4. PICK k \in Nat : __align(x, heap_page) = k * heap_page /\ x <= k * heap_page
    BY <2>1, <2>3, AlignLemma
  <2>5. PICK z \in Nat : z = k * heap_page
    BY <2>1
  <2>6. cur = z - HeaderSize /\ x <= z
    BY <1>2, <2>2, <2>3, <2>4, <2>5
  <2>7. cur \in Nat
    BY <2>1, <2>3, <2>6
  <2>8. cur < HeapSize - heap_page
    BY <1>5
  <2> QED
    BY <2>1, <2>7, <2>8
<1>7. /\ free \in [Lists -> Seq(Nat)] /\ \A i \in Lists : free[i] = <<>>
  BY <1>1, <1>3
<1>8. size \in Sizes /\ DOMAIN size = {}
  <2>1. size \in [{} -> Nat] /\ DOMAIN size = {} /\ {} \in SUBSET Nat
    BY <1>4
  <2> QED
    BY <2>1 DEF Sizes
<1>9. Laid(cur, size)
  BY <1>6, <1>8 DEF Laid
<1>10. Elems(<<>>) = {} /\ Distinct(<<>>)
  BY DEF Elems, Distinct
<1>11. Accounted(free, size, {})
  BY <1>7, <1>8, <1>10 DEF Accounted
<1> QED
  BY <1>5, <1>6, <1>7, <1>8, <1>9, <1>11 DEF HeapOK

NoneUsed == [t \in Handlers |-> {}]

(* The handler Root, in the chunk mem.                                     *)
LEMMA OnlyRootLemma ==
    ASSUME NEW root, NEW mem \in Nat, root.obj_h # NULL,
           HandOK(root.heap, {mem}, Root, root.obj_h, {}), root.obj_h.self = mem
    PROVE  /\ Sys(root.heap, OnlyRoot(root).objh, NoneUsed, {})
           /\ OnlyRoot(root).heap = root.heap
           /\ \A t \in Handlers \ {Root} : OnlyRoot(root).objh[t] = NULL
<1>1. PICK h, o : h = root.heap /\ o = root.obj_h
  OBVIOUS
<1>2. PICK hs : hs = [t \in Handlers |-> IF t = Root THEN o ELSE NULL]
  OBVIOUS
<1>3. OnlyRoot(root).heap = h /\ OnlyRoot(root).objh = hs
  BY <1>1, <1>2 DEF OnlyRoot
<1>4. /\ HeapOK(h, {mem} \cup HeldBy(o)) /\ {mem} \cap HeldBy(o) = {}
      /\ HandlerOK(h.size, Root, o, {})
  BY <1>1 DEF HandOK
<1>5. o \in Handler /\ o # NULL
  BY <1>1, <1>4 DEF HandlerOK
<1>6. /\ hs \in [Handlers -> Handler \cup {NULL}] /\ hs[Root] = o /\ Root \in Handlers
      /\ \A t \in Handlers \ {Root} : hs[t] = NULL
  BY <1>2, <1>5, RootIsHandler
<1>7. /\ NoneUsed \in [Handlers -> SUBSET Object] /\ \A t \in Handlers : NoneUsed[t] = {}
  BY DEF NoneUsed
<1>8. Holding(hs, Root) = HeldBy(o) /\ \A t \in Handlers \ {Root} : Holding(hs, t) = {}
  BY <1>5, <1>6 DEF Holding
<1>9. hs[Root].self = mem
  BY <1>1, <1>6
<1>10. AllHeld(hs, {}) = {mem} \cup HeldBy(o)
  <2>1. ASSUME NEW c
        PROVE  c \in AllHeld(hs, {}) <=> c \in {mem} \cup HeldBy(o)
    <3>1. c \in AllHeld(hs, {})
            <=> c \in {} \/ c = hs[Root].self \/ \E t \in Handlers : c \in Holding(hs, t)
      BY InAllHeld
    <3> QED
      BY <1>6, <1>8, <1>9, <3>1
  <2> QED
    BY <2>1
<1>11. Apart(hs, {})
  BY <1>4, <1>8, <1>9 DEF Apart
<1>12. \A t \in Handlers : hs[t] # NULL => HandlerOK(h.size, t, hs[t], NoneUsed[t])
  BY <1>4, <1>6, <1>7
<1>13. Sys(h, hs, NoneUsed, {})
  BY <1>4, <1>5, <1>6, <1>7, <1>10, <1>11, <1>12 DEF Sys
<1> QED
  BY <1>1, <1>3, <1>6, <1>13

(* The two handlers of a new segment.                                      *)
LEMMA TwoMade ==
    ASSUME NEW h, NEW hs, Sys(h, hs, NoneUsed, {}),
           \A t \in Handlers \ {Root} : hs[t] = NULL,
           NEW first, first = xseg_get_objh([heap |-> h, objh |-> hs], RequestH),
           NEW second, second = xseg_get_objh(first, PortH),
           first.objh[RequestH] # NULL, second.objh[PortH] # NULL
    PROVE  \E V : /\ Sys(second.heap, second.objh, V, {})
                  /\ V[RequestH] = {} /\ V[PortH] = {} /\ V[Root] = Selfs(second.objh)
                  /\ \A t \in Handlers \ {Root, RequestH, PortH} : V[t] = {}
                  /\ second.objh[RequestH] # NULL
<1>1. /\ Root \in Handlers /\ RequestH \in Handlers \ {Root} /\ PortH \in Handlers \ {Root}
      /\ RequestH # PortH
  BY ObjectsAssumption
<1>2. \A t \in Handlers : NoneUsed[t] = {}
  BY DEF NoneUsed
<1>3. PICK g, js : g = first.heap /\ js = first.objh
  OBVIOUS
<1>4. SysMakeOK(h, hs, NoneUsed, {}, RequestH, first)
  BY <1>1, SysMake
<1>5. PICK V : Sys(g, js, V, {}) /\ NewHandler(hs, NoneUsed, js, V, RequestH)
  <2>1. ~SameSelf(hs, js)
    BY <1>1, <1>3 DEF SameSelf
  <2> QED
    BY <1>3, <1>4, <2>1 DEF SysMakeOK
<1>6. Selfs(js) = Selfs(hs) \cup {js[RequestH].self} /\ Selfs(hs) = {}
  <2>1. Selfs(hs) = {}
    BY DEF Selfs
  <2> QED
    BY <1>1, <1>5, <2>1, SelfsNew
<1>7. /\ V[Root] = {js[RequestH].self} /\ V[RequestH] = {}
      /\ \A t \in Handlers \ {Root, RequestH} : V[t] = {} /\ js[t] = NULL
  BY <1>1, <1>2, <1>5 DEF NewHandler
<1>8. second = xseg_get_objh([heap |-> g, objh |-> js], PortH)
  BY <1>3 DEF xseg_get_objh
<1>9. js[PortH] = NULL
  BY <1>1, <1>7
<1>10. SysMakeOK(g, js, V, {}, PortH, second)
  BY <1>1, <1>5, <1>8, <1>9, SysMake
<1>11. PICK e, ks : e = second.heap /\ ks = second.objh
  OBVIOUS
<1>12. PICK W : Sys(e, ks, W, {}) /\ NewHandler(js, V, ks, W, PortH)
  <2>1. ~SameSelf(js, ks)
    BY <1>1, <1>9, <1>11 DEF SameSelf
  <2> QED
    BY <1>10, <1>11, <2>1 DEF SysMakeOK
<1>13. Selfs(ks) = Selfs(js) \cup {ks[PortH].self}
  BY <1>1, <1>9, <1>12, SelfsNew
<1>14. /\ W[Root] = V[Root] \cup {ks[PortH].self} /\ W[PortH] = {}
       /\ \A t \in Handlers \ {Root, PortH} : W[t] = V[t] /\ (js[t] = NULL <=> ks[t] = NULL)
  BY <1>12 DEF NewHandler
<1>15. W[RequestH] = {} /\ ks[RequestH] # NULL
  BY <1>1, <1>3, <1>7, <1>14
<1>16. \A t \in Handlers \ {Root, RequestH, PortH} : W[t] = {}
  BY <1>7, <1>14
<1>17. W[Root] = Selfs(ks)
  BY <1>6, <1>7, <1>13, <1>14
<1> QED
  BY <1>11, <1>12, <1>14, <1>15, <1>16, <1>17

LEMMA InitGood == Init => Good(heap, objh, reqs, ports)
<1> SUFFICES ASSUME Init PROVE Good(heap, objh, reqs, ports)
  OBVIOUS
<1>1. PICK mem, root, first, second :
         /\ mem = xheap_allocate(xheap_init, ObjSize[Root])
         /\ root = xobj_handler_init(mem.heap, Root, mem.addr)
         /\ first = xseg_get_objh(OnlyRoot(root), RequestH)
         /\ second = xseg_get_objh(first, PortH)
         /\ mem.addr # NULL /\ root.obj_h # NULL
         /\ first.objh[RequestH] # NULL /\ second.objh[PortH] # NULL
         /\ heap = second.heap /\ objh = second.objh
  BY DEF Init
<1>2. HeapOK(xheap_init, {})
  BY HeapInitLemma DEF Init
<1>3. ObjSize[Root] \in Nat /\ ObjSize[Root] <= HeapSize /\ Root \in Handlers
  BY ObjectsAssumption, RequestsFit
<1>4. AllocOK(xheap_init, {}, ObjSize[Root], mem)
  BY <1>1, <1>2, <1>3, AllocateLemma
<1>5. PICK a \in Nat : a = mem.addr /\ HeapOK(mem.heap, {a})
  <2>1. mem.addr \in Nat /\ HeapOK(mem.heap, {} \cup {mem.addr})
    BY <1>1, <1>4 DEF AllocOK
  <2>2. {} \cup {mem.addr} = {mem.addr}
    OBVIOUS
  <2> QED
    BY <2>1, <2>2
<1>6. MadeOK(mem.heap, {a}, Root, a, root)
  BY <1>1, <1>3, <1>5, HandlerInitLemma
<1>7. HandOK(root.heap, {a}, Root, root.obj_h, {}) /\ root.obj_h.self = a
  BY <1>1, <1>6 DEF MadeOK
<1>8. PICK h, hs : h = root.heap /\ hs = OnlyRoot(root).objh
  OBVIOUS
<1>9. /\ Sys(h, hs, NoneUsed, {}) /\ OnlyRoot(root).heap = h
      /\ \A t \in Handlers \ {Root} : hs[t] = NULL
  BY <1>1, <1>7, <1>8, OnlyRootLemma
<1>10. first = xseg_get_objh([heap |-> h, objh |-> hs], RequestH)
  BY <1>1, <1>8, <1>9 DEF xseg_get_objh
<1>11. PICK V : /\ Sys(second.heap, second.objh, V, {})
                /\ V[RequestH] = {} /\ V[PortH] = {} /\ V[Root] = Selfs(second.objh)
                /\ \A t \in Handlers \ {Root, RequestH, PortH} : V[t] = {}
                /\ second.objh[RequestH] # NULL
  BY <1>1, <1>9, <1>10, TwoMade
<1>12. DOMAIN reqs = {} /\ DOMAIN ports = {} /\ reqs \in [{} -> Request]
       /\ ports \in [{} -> Seq(Nat)]
  BY DEF Init
<1>13. ReqsOK(heap.size, reqs, {})
  BY <1>12 DEF ReqsOK
<1>14. PortsOK(ports, {})
  BY <1>12 DEF PortsOK
<1>15. Used(objh, reqs, ports, V)
  BY <1>1, <1>11, <1>12 DEF Used
<1>16. Sys(heap, objh, V, {} \cup {}) /\ {} \cap {} = {}
  <2>1. {} \cup {} = {}
    OBVIOUS
  <2> QED
    BY <1>1, <1>11, <2>1
<1>17. State(heap, objh, reqs, ports, V, {}, {})
  BY <1>1, <1>11, <1>13, <1>14, <1>15, <1>16 DEF State
<1> QED
  BY <1>17 DEF Good
Inv == Good(heap, objh, reqs, ports)

LEMMA NextGood == Inv /\ [Next]_vars => Inv'
<1> SUFFICES ASSUME Inv, [Next]_vars PROVE Good(heap', objh', reqs', ports')
  BY DEF Inv
<1>1. Good(heap, objh, reqs, ports)
  BY DEF Inv
<1>2. ASSUME NEW t \in Handlers \ {Root, RequestH, PortH}, get_objh(t)
      PROVE  Good(heap', objh', reqs', ports')
  <2>1. PICK s : /\ s = xseg_get_objh([heap |-> heap, objh |-> objh], t)
                 /\ heap' = s.heap /\ objh' = s.objh
    BY <1>2 DEF get_objh
  <2>2. objh[t] = NULL /\ reqs' = reqs /\ ports' = ports
    BY <1>2 DEF get_objh
  <2>3. Good(s.heap, s.objh, reqs, ports)
    BY <1>1, <2>1, <2>2, ActGetObjh
  <2> QED
    BY <2>1, <2>2, <2>3
<1>3. CASE xseg_get_request
  <2>1. PICK got : /\ got = xobj_get_obj(heap, objh[RequestH])
                   /\ heap' = got.heap
                   /\ objh' = [objh EXCEPT ![RequestH] = got.obj_h]
                   /\ reqs' = IF got.obj = NULL THEN reqs ELSE With(reqs, got.obj, NoBuffer)
    BY <1>3 DEF xseg_get_request
  <2>2. objh' = Upd(objh, RequestH, got.obj_h) /\ ports' = ports
    BY <1>3, <2>1 DEF xseg_get_request, Upd
  <2>3. /\ got.obj = NULL => Good(got.heap, Upd(objh, RequestH, got.obj_h), reqs, ports)
        /\ got.obj # NULL =>
             Good(got.heap, Upd(objh, RequestH, got.obj_h), With(reqs, got.obj, NoBuffer), ports)
    BY <1>1, <2>1, ActGetRequest
  <2> QED
    BY <2>1, <2>2, <2>3
<1>4. ASSUME NEW r \in DOMAIN reqs, xseg_put_request(r)
      PROVE  Good(heap', objh', reqs', ports')
  <2>1. /\ heap' = free_buffer(heap, reqs[r]) /\ reqs' = Without(reqs, r) /\ ports' = ports
        /\ objh' = [objh EXCEPT ![RequestH] = xobj_put_obj(@, r)]
    BY <1>4 DEF xseg_put_request
  <2>2. objh' = Upd(objh, RequestH, xobj_put_obj(objh[RequestH], r))
    BY <2>1 DEF Upd
  <2>3. Good(free_buffer(heap, reqs[r]), Upd(objh, RequestH, xobj_put_obj(objh[RequestH], r)),
             Without(reqs, r), ports)
    BY <1>1, ActPutRequest
  <2> QED
    BY <2>1, <2>2, <2>3
<1>5. ASSUME NEW r \in DOMAIN reqs, NEW l \in Lens, xseg_prep_request(r, l[1], l[2])
      PROVE  Good(heap', objh', reqs', ports')
  <2>1. PICK p : /\ p = prep(heap, reqs[r], l[1], l[2])
                 /\ heap' = p.heap /\ reqs' = [reqs EXCEPT ![r] = p.req]
    BY <1>5 DEF xseg_prep_request
  <2>2. reqs[r] = NoBuffer /\ objh' = objh /\ ports' = ports /\ reqs' = Upd(reqs, r, p.req)
    BY <1>5, <2>1 DEF xseg_prep_request, Upd
  <2>3. Good(p.heap, objh, Upd(reqs, r, p.req), ports)
    BY <1>1, <2>1, <2>2, ActPrep
  <2> QED
    BY <2>1, <2>2, <2>3
<1>6. ASSUME NEW r \in DOMAIN reqs, NEW l \in Lens, xseg_resize_request(r, l[1], l[2])
      PROVE  Good(heap', objh', reqs', ports')
  <2>1. objh' = objh /\ ports' = ports
    BY <1>6 DEF xseg_resize_request
  <2>2. CASE Fits(reqs[r], l[1], l[2])
    <3>1. /\ reqs' = [reqs EXCEPT ![r].targetlen = l[1], ![r].datalen = l[2]]
          /\ heap' = heap
      BY <1>6, <2>2 DEF xseg_resize_request
    <3>2. Good(heap, objh, reqs', ports)
      BY <1>1, <2>2, <3>1, ActFits
    <3> QED
      BY <2>1, <3>1, <3>2
  <2>3. CASE ~Fits(reqs[r], l[1], l[2])
    <3>1. PICK p : /\ p = prep(free_buffer(heap, reqs[r]), reqs[r], l[1], l[2])
                   /\ heap' = p.heap /\ reqs' = [reqs EXCEPT ![r] = p.req]
      BY <1>6, <2>3 DEF xseg_resize_request
    <3>2. reqs' = Upd(reqs, r, p.req)
      BY <3>1 DEF Upd
    <3>3. Good(p.heap, objh, Upd(reqs, r, p.req), ports)
      BY <1>1, <3>1, ActResize
    <3> QED
      BY <2>1, <3>1, <3>2, <3>3
  <2> QED
    BY <2>2, <2>3
<1>7. CASE xseg_alloc_port
  <2>1. reqs' = reqs
    BY <1>7 DEF xseg_alloc_port
  <2>2. PICK got : /\ got = xobj_get_obj(heap, objh[PortH])
                   /\ IF got.obj = NULL
                      THEN /\ heap' = got.heap
                           /\ objh' = [objh EXCEPT ![PortH] = got.obj_h]
                           /\ UNCHANGED ports
                      ELSE \E q \in {Queues(got.heap)} :
                             IF q.ok
                             THEN /\ heap' = q.heap
                                  /\ objh' = [objh EXCEPT ![PortH] = got.obj_h]
                                  /\ ports' = With(ports, got.obj, q.qs)
                             ELSE /\ heap' = FreeQueues(q.heap, q.qs)
                                  /\ objh' = [objh EXCEPT ![PortH] =
                                                xobj_put_obj(got.obj_h, got.obj)]
                                  /\ UNCHANGED ports
    BY <1>7 DEF xseg_alloc_port
  <2>3. PICK q : q = Queues(got.heap)
    OBVIOUS
  <2>4. /\ got.obj = NULL => Good(got.heap, Upd(objh, PortH, got.obj_h), reqs, ports)
        /\ got.obj # NULL /\ q.ok =>
             Good(q.heap, Upd(objh, PortH, got.obj_h), reqs, With(ports, got.obj, q.qs))
        /\ got.obj # NULL /\ ~q.ok =>
             Good(FreeQueues(q.heap, q.qs),
                  Upd(objh, PortH, xobj_put_obj(got.obj_h, got.obj)), reqs, ports)
    BY <1>1, <2>2, <2>3, ActAllocPort
  <2>5. CASE got.obj = NULL
    <3>1. heap' = got.heap /\ objh' = Upd(objh, PortH, got.obj_h) /\ ports' = ports
      BY <2>2, <2>5 DEF Upd
    <3> QED
      BY <2>1, <2>4, <2>5, <3>1
  <2>6. CASE got.obj # NULL /\ q.ok
    <3>1. /\ heap' = q.heap /\ objh' = Upd(objh, PortH, got.obj_h)
          /\ ports' = With(ports, got.obj, q.qs)
      BY <2>2, <2>3, <2>6 DEF Upd
    <3> QED
      BY <2>1, <2>4, <2>6, <3>1
  <2>7. CASE got.obj # NULL /\ ~q.ok
    <3>1. /\ heap' = FreeQueues(q.heap, q.qs) /\ ports' = ports
          /\ objh' = Upd(objh, PortH, xobj_put_obj(got.obj_h, got.obj))
      BY <2>2, <2>3, <2>7 DEF Upd
    <3> QED
      BY <2>1, <2>4, <2>7, <3>1
  <2> QED
    BY <2>5, <2>6, <2>7
<1>8. ASSUME NEW p \in DOMAIN ports, xseg_free_port(p)
      PROVE  Good(heap', objh', reqs', ports')
  <2>1. /\ heap' = FreeQueues(heap, ports[p]) /\ ports' = Without(ports, p) /\ reqs' = reqs
        /\ objh' = [objh EXCEPT ![PortH] = xobj_put_obj(@, p)]
    BY <1>8 DEF xseg_free_port
  <2>2. objh' = Upd(objh, PortH, xobj_put_obj(objh[PortH], p))
    BY <2>1 DEF Upd
  <2>3. Good(FreeQueues(heap, ports[p]), Upd(objh, PortH, xobj_put_obj(objh[PortH], p)),
             reqs, Without(ports, p))
    BY <1>1, ActFreePort
  <2> QED
    BY <2>1, <2>2, <2>3
<1>9. CASE UNCHANGED vars
  BY <1>1, <1>9 DEF vars
<1> QED
  BY <1>2, <1>3, <1>4, <1>5, <1>6, <1>7, <1>8, <1>9 DEF Next

(* In every state of the segment the heap, the handlers, the requests and  *)
(* the ports fit each other: everything the heap has given out is held by  *)
(* exactly one of them, and their tables, lists and counters agree.        *)
THEOREM SegmentGood == Spec => []Inv
<1>1. Init => Inv
  BY InitGood DEF Inv
<1> QED
  BY <1>1, NextGood, PTL DEF Spec
LEMMA GoodBuffers == Inv => BuffersApart
<1> SUFFICES ASSUME Inv PROVE BuffersApart
  OBVIOUS
<1>1. PICK U, B, Q : State(heap, objh, reqs, ports, U, B, Q)
  BY DEF Inv, Good
<1>2. HeapOK(heap, AllHeld(objh, B \cup Q)) /\ ReqsOK(heap.size, reqs, B)
      /\ B \cup Q \subseteq DOMAIN heap.size
  BY <1>1, SysChunks DEF State, Sys
<1>3. PICK cur \in Nat, free \in [Lists -> Seq(Nat)], size \in Sizes :
         /\ heap = [cur |-> cur, free |-> free, size |-> size]
         /\ Laid(cur, size)
  BY <1>2 DEF HeapOK
<1>4. heap.size = size
  BY <1>3
<1> SUFFICES ASSUME NEW r \in DOMAIN reqs, reqs[r].buffer # NULL
             PROVE  /\ reqs[r].targetlen + reqs[r].datalen <= reqs[r].bufferlen
                    /\ reqs[r].bufferlen = size[reqs[r].buffer]
                    /\ reqs[r].buffer + reqs[r].bufferlen <= HeapSize
                    /\ \A c \in DOMAIN size \ {reqs[r].buffer} :
                          \/ reqs[r].buffer + reqs[r].bufferlen <= c - HeaderSize
                          \/ c + size[c] <= reqs[r].buffer - HeaderSize
  BY <1>4 DEF BuffersApart
<1>5. Fitting(size, reqs[r]) /\ reqs[r].buffer \in B
  BY <1>2, <1>4 DEF ReqsOK, BufferOf
<1>6. reqs[r].bufferlen = size[reqs[r].buffer]
      /\ reqs[r].targetlen + reqs[r].datalen <= reqs[r].bufferlen
  BY <1>5 DEF Fitting
<1>7. PICK b \in DOMAIN size : b = reqs[r].buffer
  BY <1>2, <1>4, <1>5
<1>8. b \in Nat /\ size[b] \in Nat /\ b + size[b] <= cur /\ cur <= HeapSize
  BY <1>3, LaidLemma DEF Laid
<1>9. b + size[b] <= HeapSize
  BY <1>8, PageType
<1>10. ASSUME NEW c \in DOMAIN size, c # b
       PROVE  b + size[b] <= c - HeaderSize \/ c + size[c] <= b - HeaderSize
  <2>1. c \in Nat
    BY <1>3, LaidLemma
  <2>2. b < c \/ c < b
    BY <1>8, <1>10, <2>1
  <2> QED
    BY <1>3, <2>2 DEF Laid
<1> QED
  BY <1>6, <1>7, <1>9, <1>10

(* BuffersApart in every state: the target and the data of a request lie   *)
(* within its buffer after any calls of xseg_prep_request and              *)
(* xseg_resize_request, and no chunk of the heap, header included,         *)
(* overlaps the buffer, whatever the sizes and the heap.                   *)
THEOREM BuffersAlwaysApart == Spec => []BuffersApart
  BY SegmentGood, GoodBuffers, PTL
-----------------------------------------------------------------------------
(* What the state says of a handler, as ObjectsOnce puts it                *)
LEMMA DistinctCard ==
    ASSUME NEW S, NEW s \in Seq(S), Distinct(s)
    PROVE  Cardinality(Elems(s)) = Len(s)
<1>1. Len(s) \in Nat /\ s \in [1..Len(s) -> Elems(s)]
  BY DEF Elems
<1>2. \A x \in Elems(s) : \E i \in 1..Len(s) : s[i] = x
  BY DEF Elems
<1>3. \A i, j \in 1..Len(s) : s[i] = s[j] => i = j
  BY DEF Distinct
<1>4. s \in Bijection(1..Len(s), Elems(s))
  BY <1>1, <1>2, <1>3 DEF Bijection, Injection, Surjection, IsInjective
<1>5. ExistsBijection(1..Len(s), Elems(s))
  BY <1>4 DEF ExistsBijection
<1>6. PICK n, E : n = Len(s) /\ E = Elems(s)
  OBVIOUS
<1>7. n \in Nat /\ ExistsBijection(1..n, E)
  BY <1>1, <1>5, <1>6
<1>8. Cardinality(E) = n
  BY <1>7, FS_CountingElements
<1> QED
  BY <1>6, <1>8

ThreadedIn(th) == {th[i] : i \in DOMAIN th}

LEMMA InThreaded ==
    ASSUME NEW mem \in Nat, NEW s \in Nat, NEW n \in Nat, n > 0, NEW x
    PROVE  x \in ThreadedIn(Threaded(mem, s, n))
             <=> x \in Object /\ x[1] = mem /\ x[2] < (s - 1) \div n
<1>1. PICK k \in Int : k = (s - 1) \div n
  BY DivInt
<1>2. PICK th : th = Threaded(mem, s, n)
  OBVIOUS
<1>3. DOMAIN th = 1..k /\ \A i \in 1..k : th[i] = <<mem, i - 1>>
  BY <1>1, <1>2 DEF Threaded
<1>4. ASSUME NEW i \in 1..k, x = th[i]
      PROVE  x \in Object /\ x[1] = mem /\ x[2] < k
  <2>1. x = <<mem, i - 1>> /\ i - 1 \in Nat /\ i - 1 < k
    BY <1>3, <1>4
  <2> QED
    BY <2>1 DEF Object
<1>5. ASSUME x \in Object, x[1] = mem, x[2] < k
      PROVE  \E i \in 1..k : x = th[i]
  <2>1. x[2] \in Nat /\ x = <<mem, x[2]>>
    BY <1>5 DEF Object
  <2>2. x[2] + 1 \in 1..k /\ (x[2] + 1) - 1 = x[2]
    BY <1>5, <2>1
  <2> QED
    BY <1>3, <2>1, <2>2
<1>6. x \in ThreadedIn(th) <=> \E i \in 1..k : x = th[i]
  BY <1>3 DEF ThreadedIn
<1> QED
  BY <1>1, <1>2, <1>4, <1>5, <1>6

(* The objects that __xobj_alloc_obj threads in the chunks of a handler.   *)
AllThreaded(size, o) ==
    UNION {LET th == Threaded(c, size[c], o.obj_size)
           IN  {th[i] : i \in DOMAIN th} : c \in o.chunks}

LEMMA AllThreadedLemma ==
    ASSUME NEW size, NEW o, NEW n \in Nat, n = o.obj_size, n > 0,
           o.chunks \subseteq Nat, \A c \in o.chunks : size[c] \in Nat
    PROVE  AllThreaded(size, o) = ObjectsOf(size, o.chunks, o.obj_size)
<1>1. AllThreaded(size, o) = UNION {ThreadedIn(Threaded(c, size[c], n)) : c \in o.chunks}
  BY DEF AllThreaded, ThreadedIn
<1>2. ASSUME NEW x
      PROVE  x \in AllThreaded(size, o) <=> x \in ObjectsOf(size, o.chunks, n)
  <2>1. x \in AllThreaded(size, o)
          <=> \E c \in o.chunks : x \in ThreadedIn(Threaded(c, size[c], n))
    BY <1>1
  <2>2. \A c \in o.chunks :
           x \in ThreadedIn(Threaded(c, size[c], n))
             <=> x \in Object /\ x[1] = c /\ x[2] < (size[c] - 1) \div n
    <3> SUFFICES ASSUME NEW c \in o.chunks
                 PROVE  x \in ThreadedIn(Threaded(c, size[c], n))
                          <=> x \in Object /\ x[1] = c /\ x[2] < (size[c] - 1) \div n
      OBVIOUS
    <3>1. PICK d \in Nat, s \in Nat : d = c /\ s = size[c]
      OBVIOUS
    <3> QED
      BY <3>1, InThreaded
  <2> QED
    BY <2>1, <2>2 DEF ObjectsOf
<1> QED
  BY <1>2

LEMMA IteratedLemma ==
    ASSUME NEW h, NEW o, NEW n \in Nat, n = o.obj_size, n > 0,
           \A c \in o.chunks : h.size[c] \in Nat,
           NEW x \in ObjectsOf(h.size, o.chunks, o.obj_size)
    PROVE  x \in Iterated(o, h)
<1>1. x \in Object /\ x[1] \in o.chunks /\ x[2] < (h.size[x[1]] - 1) \div n
  BY DEF ObjectsOf
<1>2. PICK c, k \in Nat, s \in Nat : c = x[1] /\ k = x[2] /\ s = h.size[c] /\ x = <<c, k>>
  BY <1>1 DEF Object
<1>3. s > 0
  <2>1. s = 0 => (s - 1) \div n < 0
    OBVIOUS
  <2> QED
    BY <1>1, <1>2, <2>1
<1>4. PICK p \in Nat, q \in Nat : p = s \div n /\ q = (s - 1) \div n /\ p - q \in 0..1
  BY <1>3, LastByte
<1>5. k < q
  BY <1>1, <1>2, <1>4
<1>6. k \in 0..p - 1
  BY <1>4, <1>5
<1>7. k \in 0..h.size[c] \div o.obj_size - 1
  BY <1>2, <1>4, <1>6
<1> QED
  BY <1>1, <1>2, <1>7 DEF Iterated

Once(h, o, V) ==
    /\ Cardinality({o.list[i] : i \in DOMAIN o.list}) = Len(o.list)
    /\ {o.list[i] : i \in DOMAIN o.list} \cup V = AllThreaded(h.size, o)
    /\ {o.list[i] : i \in DOMAIN o.list} \cap V = {}
    /\ V \subseteq Iterated(o, h)
    /\ o.nr_allocated = o.nr_free + Cardinality(V)
    /\ o.nr_free - Len(o.list) \in 0..Cardinality(o.chunks)

LEMMA HandlerOnce ==
    ASSUME NEW h, NEW t \in Handlers, NEW o, NEW V, HandlerOK(h.size, t, o, V),
           DOMAIN h.size \subseteq Nat, \A c \in DOMAIN h.size : h.size[c] \in Nat
    PROVE  Once(h, o, V)
<1>1. /\ o \in Handler /\ o.obj_size = ObjSize[t] /\ HeldBy(o) \subseteq DOMAIN h.size
      /\ Listing(h.size, o, V) /\ Counted(o, V)
  BY DEF HandlerOK
<1>2. PICK n \in Nat : n = o.obj_size /\ n > 0
  BY <1>1, ObjectsAssumption
<1>3. o.chunks \subseteq Nat /\ \A c \in o.chunks : h.size[c] \in Nat
  BY <1>1 DEF HeldBy
<1>4. PICK l \in Seq(Object) : l = o.list
  BY <1>1 DEF Handler
<1>5. {l[i] : i \in DOMAIN l} = Elems(l)
  <2>1. DOMAIN l = 1..Len(l)
    OBVIOUS
  <2> QED
    BY <2>1 DEF Elems
<1>6. Distinct(l) /\ Elems(l) \cap V = {}
      /\ Elems(l) \cup V = ObjectsOf(h.size, o.chunks, o.obj_size)
  BY <1>1, <1>4 DEF Listing
<1>7. Cardinality(Elems(l)) = Len(l)
  BY <1>6, DistinctCard
<1>8. AllThreaded(h.size, o) = ObjectsOf(h.size, o.chunks, o.obj_size)
  BY <1>2, <1>3, AllThreadedLemma
<1>9. V \subseteq Iterated(o, h)
  <2> SUFFICES ASSUME NEW x \in V PROVE x \in Iterated(o, h)
    OBVIOUS
  <2>1. x \in ObjectsOf(h.size, o.chunks, o.obj_size)
    BY <1>6
  <2> QED
    BY <1>2, <1>3, <2>1, IteratedLemma
<1>10. /\ o.nr_allocated = o.nr_free + Cardinality(V)
       /\ o.nr_free - Len(o.list) \in 0..Cardinality(o.chunks)
  BY <1>1 DEF Counted
<1> QED
  BY <1>4, <1>5, <1>6, <1>7, <1>8, <1>9, <1>10 DEF Once

LEMMA InUseLemma ==
    ASSUME NEW U, Used(objh, reqs, ports, U), NEW t \in Handlers
    PROVE  InUse(t) = U[t]
<1>1. Root # RequestH /\ Root # PortH /\ RequestH # PortH
  BY ObjectsAssumption
<1>2. CASE t = RequestH
  BY <1>1, <1>2 DEF InUse, Used
<1>3. CASE t = PortH
  BY <1>1, <1>3 DEF InUse, Used
<1>4. CASE t = Root
  <2>1. Selfs(objh) = {objh[x].self : x \in Made \ {Root}}
    BY DEF Selfs, Made
  <2> QED
    BY <1>1, <1>4, <2>1 DEF InUse, Used
<1>5. CASE t \notin {Root, RequestH, PortH}
  BY <1>5 DEF InUse, Used
<1> QED
  BY <1>2, <1>3, <1>4, <1>5

LEMMA GoodObjects == Inv => ObjectsOnce
<1> SUFFICES ASSUME Inv PROVE ObjectsOnce
  OBVIOUS
<1>1. PICK U, B, Q : State(heap, objh, reqs, ports, U, B, Q)
  BY DEF Inv, Good
<1>2. Sys(heap, objh, U, B \cup Q) /\ Used(objh, reqs, ports, U)
  BY <1>1 DEF State
<1>3. DOMAIN heap.size \subseteq Nat /\ \A c \in DOMAIN heap.size : heap.size[c] \in Nat
  BY <1>2, SysChunks
<1>4. ASSUME NEW t \in Made PROVE Once(heap, objh[t], InUse(t))
  <2>1. t \in Handlers /\ objh[t] # NULL
    BY DEF Made
  <2>2. HandlerOK(heap.size, t, objh[t], U[t])
    BY <1>2, <2>1 DEF Sys
  <2>3. PICK o, V : o = objh[t] /\ V = U[t]
    OBVIOUS
  <2>4. InUse(t) = V
    BY <1>2, <2>1, <2>3, InUseLemma
  <2>5. HandlerOK(heap.size, t, o, V)
    BY <2>2, <2>3
  <2>6. Once(heap, o, V)
    BY <1>3, <2>1, <2>5, HandlerOnce
  <2> QED
    BY <2>3, <2>4, <2>6
<1> QED
  BY <1>4 DEF ObjectsOnce, AllThreaded, Once

(* ObjectsOnce in every state: however xobj_get_obj, xobj_put_obj and the  *)
(* growth of a handler interleave, and whichever allocation fails, an      *)
(* object is in use or on the list of its handler, once, xobj_iterate sees *)
(* every object in use, and the counters of the handler are right.         *)
THEOREM ObjectsAlwaysOnce == Spec => []ObjectsOnce
  BY SegmentGood, GoodObjects, PTL
-----------------------------------------------------------------------------
(* The owners of a chunk, kind by kind                                     *)
(* A chunk has owners of a kind when H says so, and not two of them.       *)
Single(S, H) == (S # {} <=> H) /\ \A x, y \in S : x = y

LEMMA SingleHandlers ==
    ASSUME NEW U, NEW X, Sys(heap, objh, U, X), NEW c
    PROVE  Single(OfHandlers(c), \E t \in Handlers : c \in Holding(objh, t))
<1>1. \A t \in Made : t \in Handlers /\ objh[t] # NULL /\ Holding(objh, t) = HeldBy(objh[t])
  BY DEF Made, Holding
<1>2. ASSUME NEW x \in OfHandlers(c)
      PROVE  \E t \in Made : /\ c \in Holding(objh, t)
                             /\ \/ x = <<"objects", t, 0>> /\ c \in objh[t].chunks
                                \/ x = <<"hash", t, 0>> /\ c = objh[t].hash
  BY <1>1, <1>2 DEF OfHandlers, HeldBy
<1>3. ASSUME NEW x \in OfHandlers(c), NEW y \in OfHandlers(c)
      PROVE  x = y
  <2>1. PICK t \in Made : /\ c \in Holding(objh, t)
                          /\ \/ x = <<"objects", t, 0>> /\ c \in objh[t].chunks
                             \/ x = <<"hash", t, 0>> /\ c = objh[t].hash
    BY <1>2
  <2>2. PICK u \in Made : /\ c \in Holding(objh, u)
                          /\ \/ y = <<"objects", u, 0>> /\ c \in objh[u].chunks
                             \/ y = <<"hash", u, 0>> /\ c = objh[u].hash
    BY <1>2
  <2>3. t = u
    BY <1>1, <2>1, <2>2 DEF Sys, Apart
  <2>4. objh[t].hash \notin objh[t].chunks
    BY <1>1 DEF Sys, HandlerOK, Tabled
  <2> QED
    BY <2>1, <2>2, <2>3, <2>4
<1>4. ASSUME NEW t \in Handlers, c \in Holding(objh, t)
      PROVE  OfHandlers(c) # {}
  <2>1. t \in Made /\ c \in HeldBy(objh[t])
    BY <1>4 DEF Holding, Made
  <2>2. c \in objh[t].chunks => <<"objects", t, 0>> \in OfHandlers(c)
    BY <2>1 DEF OfHandlers
  <2>3. c = objh[t].hash => <<"hash", t, 0>> \in OfHandlers(c)
    BY <2>1 DEF OfHandlers
  <2> QED
    BY <2>1, <2>2, <2>3 DEF HeldBy
<1> QED
  BY <1>1, <1>2, <1>3, <1>4 DEF Single

LEMMA SingleRoot ==
    ASSUME NEW c
    PROVE  Single(OfRoot(c), c = objh[Root].self)
<1>1. \A x \in OfRoot(c) : x = <<"self", Root, 0>> /\ c = objh[Root].self
  BY DEF OfRoot
<1>2. c = objh[Root].self => <<"self", Root, 0>> \in OfRoot(c)
  BY DEF OfRoot
<1> QED
  BY <1>1, <1>2 DEF Single

LEMMA SingleRequests ==
    ASSUME NEW B, ReqsOK(heap.size, reqs, B), NEW c \in Nat
    PROVE  Single(OfRequests(c), c \in B)
<1>1. c # NULL
  BY NullAssumption
<1>2. \A r \in DOMAIN reqs : c = reqs[r].buffer <=> c \in BufferOf(reqs[r])
  BY <1>1 DEF BufferOf
<1>3. \A x \in OfRequests(c) :
         \E r \in DOMAIN reqs : x = <<"buffer", r, 0>> /\ c \in BufferOf(reqs[r])
  BY <1>2 DEF OfRequests
<1>4. \A r \in DOMAIN reqs : c \in BufferOf(reqs[r]) => <<"buffer", r, 0>> \in OfRequests(c)
  BY <1>2 DEF OfRequests
<1>5. OfRequests(c) # {} <=> c \in B
  BY <1>3, <1>4 DEF ReqsOK
<1>6. ASSUME NEW x \in OfRequests(c), NEW y \in OfRequests(c) PROVE x = y
  <2>1. PICK r \in DOMAIN reqs : x = <<"buffer", r, 0>> /\ c \in BufferOf(reqs[r])
    BY <1>3
  <2>2. PICK s \in DOMAIN reqs : y = <<"buffer", s, 0>> /\ c \in BufferOf(reqs[s])
    BY <1>3
  <2>3. r = s
    BY <2>1, <2>2 DEF ReqsOK
  <2> QED
    BY <2>1, <2>2, <2>3
<1> QED
  BY <1>5, <1>6 DEF Single

LEMMA SinglePorts ==
    ASSUME NEW Q, PortsOK(ports, Q), NEW c
    PROVE  Single(OfPorts(c), c \in Q)
<1>1. \A p \in DOMAIN ports : /\ ports[p] \in Seq(Nat) /\ DOMAIN ports[p] = 1..Len(ports[p])
                              /\ Distinct(ports[p]) /\ Elems(ports[p]) \subseteq Q
  BY DEF PortsOK
<1>2. \A x \in OfPorts(c) :
         \E p \in DOMAIN ports : \E i \in 1..Len(ports[p]) :
            x = <<"queue", p, i>> /\ c = ports[p][i]
  BY <1>1 DEF OfPorts
<1>3. \A p \in DOMAIN ports : \A i \in 1..Len(ports[p]) :
         c = ports[p][i] => <<"queue", p, i>> \in OfPorts(c)
  BY <1>1 DEF OfPorts
<1>4. OfPorts(c) # {} => c \in Q
  BY <1>1, <1>2 DEF Elems
<1>5. c \in Q => OfPorts(c) # {}
  <2> SUFFICES ASSUME c \in Q PROVE OfPorts(c) # {}
    OBVIOUS
  <2>1. PICK p \in DOMAIN ports : c \in Elems(ports[p])
    BY DEF PortsOK
  <2> QED
    BY <1>3, <2>1 DEF Elems
<1>6. ASSUME NEW x \in OfPorts(c), NEW y \in OfPorts(c) PROVE x = y
  <2>1. PICK p \in DOMAIN ports : \E i \in 1..Len(ports[p]) :
           x = <<"queue", p, i>> /\ c = ports[p][i]
    BY <1>2
  <2>2. PICK i \in 1..Len(ports[p]) : x = <<"queue", p, i>> /\ c = ports[p][i]
    BY <2>1
  <2>3. PICK q \in DOMAIN ports : \E j \in 1..Len(ports[q]) :
           y = <<"queue", q, j>> /\ c = ports[q][j]
    BY <1>2
  <2>4. PICK j \in 1..Len(ports[q]) : y = <<"queue", q, j>> /\ c = ports[q][j]
    BY <2>3
  <2>5. c \in Elems(ports[p]) /\ c \in Elems(ports[q])
    BY <2>2, <2>4 DEF Elems
  <2>6. p = q
    BY <2>5 DEF PortsOK
  <2>7. i = j
    BY <1>1, <2>2, <2>4, <2>6 DEF Distinct
  <2> QED
    BY <2>2, <2>4, <2>6, <2>7
<1> QED
  BY <1>4, <1>5, <1>6 DEF Single

LEMMA SingleLists ==
    ASSUME NEW Out, HeapOK(heap, Out), NEW c \in DOMAIN heap.size
    PROVE  /\ \A x, y \in OfLists(c) : x = y
           /\ OfLists(c) # {} => c \notin Out
           /\ OfLists(c) = {} => c \in Out \/ __get_index(heap.size[c]) \in Mixed
<1>1. PICK cur \in Nat, free \in [Lists -> Seq(Nat)], size \in Sizes :
         /\ heap = [cur |-> cur, free |-> free, size |-> size]
         /\ Laid(cur, size) /\ Accounted(free, size, Out)
  BY DEF HeapOK
<1>2. heap.free = free /\ heap.size = size /\ DOMAIN free = Lists
  BY <1>1
<1>3. \A r \in Lists : /\ free[r] \in Seq(Nat) /\ DOMAIN free[r] = 1..Len(free[r])
                       /\ Distinct(free[r])
                       /\ \A d \in Elems(free[r]) : d \notin Out /\ __get_index(size[d]) = r
  BY <1>1 DEF Accounted
<1>4. \A x \in OfLists(c) :
         \E r \in Lists : \E i \in 1..Len(free[r]) : x = <<"free", r, i>> /\ c = free[r][i]
  BY <1>2, <1>3 DEF OfLists
<1>5. \A r \in Lists : \A i \in 1..Len(free[r]) :
         c = free[r][i] => <<"free", r, i>> \in OfLists(c)
  BY <1>2, <1>3 DEF OfLists
<1>6. ASSUME NEW x \in OfLists(c), NEW y \in OfLists(c) PROVE x = y
  <2>1. PICK r \in Lists : \E i \in 1..Len(free[r]) : x = <<"free", r, i>> /\ c = free[r][i]
    BY <1>4
  <2>2. PICK i \in 1..Len(free[r]) : x = <<"free", r, i>> /\ c = free[r][i]
    BY <2>1
  <2>3. PICK s \in Lists : \E j \in 1..Len(free[s]) : y = <<"free", s, j>> /\ c = free[s][j]
    BY <1>4
  <2>4. PICK j \in 1..Len(free[s]) : y = <<"free", s, j>> /\ c = free[s][j]
    BY <2>3
  <2>5. c \in Elems(free[r]) /\ c \in Elems(free[s])
    BY <2>2, <2>4 DEF Elems
  <2>6. r = s
    BY <1>3, <2>5
  <2>7. i = j
    BY <1>3, <2>2, <2>4, <2>6 DEF Distinct
  <2> QED
    BY <2>2, <2>4, <2>6, <2>7
<1>7. OfLists(c) # {} => c \notin Out
  BY <1>3, <1>4 DEF Elems
<1>8. ASSUME OfLists(c) = {}, c \notin Out PROVE __get_index(size[c]) \in Mixed
  <2>1. __get_index(size[c]) \in Lists
    BY <1>1, <1>2, LaidLemma
  <2>2. c \notin Elems(free[__get_index(size[c])])
    BY <1>5, <1>8, <2>1 DEF Elems
  <2> QED
    BY <1>1, <1>2, <1>8, <2>2 DEF Accounted
<1> QED
  BY <1>2, <1>6, <1>7, <1>8

LEMMA GoodChunks == Inv => ChunksOnce
<1> SUFFICES ASSUME Inv, NEW c \in DOMAIN heap.size
             PROVE  \/ Cardinality(Holders(c)) = 1
                    \/ Holders(c) = {} /\ __get_index(heap.size[c]) \in Mixed
  BY DEF ChunksOnce
<1>1. PICK U, B, Q : State(heap, objh, reqs, ports, U, B, Q)
  BY DEF Inv, Good
<1>2. /\ Sys(heap, objh, U, B \cup Q) /\ B \cap Q = {}
      /\ ReqsOK(heap.size, reqs, B) /\ PortsOK(ports, Q)
  BY <1>1 DEF State
<1>3. c \in Nat
  BY <1>2, SysChunks
<1>4. PICK Out : Out = AllHeld(objh, B \cup Q) /\ HeapOK(heap, Out)
  BY <1>2 DEF Sys
<1> DEFINE H == \E t \in Handlers : c \in Holding(objh, t)
<1>5. Single(OfHandlers(c), H)
  BY <1>2, SingleHandlers
<1>6. Single(OfRoot(c), c = objh[Root].self)
  BY SingleRoot
<1>7. Single(OfRequests(c), c \in B)
  BY <1>2, <1>3, SingleRequests
<1>8. Single(OfPorts(c), c \in Q)
  BY <1>2, SinglePorts
<1>9. /\ \A x, y \in OfLists(c) : x = y
      /\ OfLists(c) # {} => c \notin Out
      /\ OfLists(c) = {} => c \in Out \/ __get_index(heap.size[c]) \in Mixed
  BY <1>4, SingleLists
<1>10. c \in Out <=> c \in B \cup Q \/ c = objh[Root].self \/ H
  BY <1>4, InAllHeld
<1>11. /\ H => c # objh[Root].self /\ c \notin B /\ c \notin Q
       /\ c = objh[Root].self => c \notin B /\ c \notin Q
       /\ c \in B => c \notin Q
  BY <1>2 DEF Sys, Apart
<1> HIDE DEF H
<1>12. Holders(c) = OfHandlers(c) \cup OfRoot(c) \cup OfRequests(c) \cup OfPorts(c)
                     \cup OfLists(c)
  BY DEF Holders
<1>13. \A x, y \in Holders(c) : x = y
  BY <1>5, <1>6, <1>7, <1>8, <1>9, <1>10, <1>11, <1>12 DEF Single
<1>14. CASE Holders(c) = {}
  BY <1>5, <1>6, <1>7, <1>8, <1>9, <1>10, <1>12, <1>14 DEF Single
<1>15. CASE Holders(c) # {}
  <2>1. PICK x : Holders(c) = {x}
    BY <1>13, <1>15
  <2>2. Cardinality({x}) = 1
    BY FS_Singleton
  <2> QED
    BY <2>1, <2>2
<1> QED
  BY <1>14, <1>15

(* ChunksOnce in every state: whichever allocation of whichever call runs  *)
(* out of memory, a chunk that xheap_allocate has given out has one owner  *)
(* or is on one free list; the only chunks lost are those of the two lists *)
(* that hold chunks of two sizes.                                          *)
THEOREM ChunksAlwaysOnce == Spec => []ChunksOnce
  BY SegmentGood, GoodChunks, PTL


=============================================================================
